-------------------------- MODULE PremiumPurchase --------------------------
\* The device's side of a subscription (premium_repository_impl.dart,
\* premium_bloc.dart) in a build with store billing on a phone. The store's
\* purchase stream, taps on the paywall and checks of the server run as
\* callbacks of one isolate: what lies between two awaits is one step. All that
\* ties a store event to a tap is the one slot _activeOperation.
\* The locally stored flag is written beside the screen's, and read in builds
\* without billing only; it is left out.
EXTENDS Naturals, Sequences

CONSTANTS Deliveries,     \* lists of purchases the store may put on the stream
          Checks,         \* checks of the server that may overlap
          Handlers,       \* runs of _handlePurchases that may overlap
          MaxTaps, MaxFailures     \* bounds

Items == UNION {{purchases[i] : i \in DOMAIN purchases} : purchases \in Deliveries}
ASSUME StreamAssumption == Deliveries \subseteq Seq(Items)

VARIABLES
  shop,       \* [phase |-> of _storeInitialization, bound |-> _binding is known]
  slot,       \* number of the tap whose completer is _activeOperation, or none
  tap,        \* the tap the bloc works on: number, kind, phase, outcome
  screen,     \* PremiumState: premium, loading
  check,      \* for each check its phase and the server's answer
  handling,   \* for each handler the purchases left and how far the first is
  server,     \* the backend: active, and whether it ever was
  granted,    \* purchases for which the backend answered that they give access
  finished,   \* purchases completed at the store
  failures

premiumVars == <<shop, slot, tap, screen, check, handling, server, granted, finished,
                 failures>>

NoTap == 0
Steps == {"next", "verifying", "refused", "granted", "finished"}
IdleRun == [left |-> << >>, step |-> "next"]
Resolved == {"available", "unavailable"}

PremiumInit ==
  /\ shop = [phase |-> "unknown", bound |-> FALSE]
  /\ slot = NoTap
  /\ tap = [number |-> 0, kind |-> "purchase", phase |-> "none", outcome |-> "open"]
  /\ screen = [premium |-> FALSE, loading |-> FALSE]
  /\ check = [c \in Checks |-> [phase |-> "idle", answer |-> FALSE]]
  /\ handling = [h \in Handlers |-> IdleRun]
  /\ server \in {[active |-> a, ever |-> a] : a \in BOOLEAN}
  /\ granted = {} /\ finished = {}
  /\ failures = 0

-----------------------------------------------------------------------------
\* A call to the store or the backend throws.
Fails == failures < MaxFailures /\ failures' = failures + 1

\* _completeOperation: whichever tap is in the slot is answered, if one is. A
\* completer nobody waits for any more is answered all the same.
Complete(outcome) ==
  /\ slot' = NoTap
  /\ tap' = [tap EXCEPT !.outcome = IF slot # NoTap /\ slot = tap.number THEN outcome ELSE @]

\* _ensureStoreInitialized: one initialisation for all; it listens to the stream
\* before it asks for the product, and is not tried again.
Listening == [shop EXCEPT !.phase = IF @ = "unknown" THEN "listening" ELSE @]
InitializeStore ==
  /\ shop.phase = "listening"
  /\ \E phase \in Resolved : shop' = [shop EXCEPT !.phase = phase]
  /\ UNCHANGED <<slot, tap, screen, check, handling, server, granted, finished, failures>>

-----------------------------------------------------------------------------
\* purchase and restore.

\* A button of the paywall; both are off while the state is loading.
Tap(kind) ==
  /\ ~screen.loading /\ tap.number < MaxTaps
  /\ tap' = [number |-> tap.number + 1, kind |-> kind, phase |-> "preparing", outcome |-> "open"]
  /\ screen' = [screen EXCEPT !.loading = TRUE]
  /\ shop' = Listening
  /\ UNCHANGED <<slot, check, handling, server, granted, finished, failures>>

\* The handler of the bloc catches whatever was thrown.
TapFails ==
  /\ tap' = [tap EXCEPT !.phase = "none"]
  /\ screen' = [screen EXCEPT !.loading = FALSE]

\* Up to _beginOperation: the store, the account binding, which is kept, and the
\* slot, which must be free.
Prepare ==
  /\ tap.phase = "preparing"
  /\ \/ /\ shop.phase = "unavailable" /\ TapFails
        /\ UNCHANGED <<shop, slot, failures>>
     \/ /\ shop.phase = "available" /\ ~shop.bound /\ Fails /\ TapFails
        /\ UNCHANGED <<shop, slot>>
     \/ /\ shop.phase = "available" /\ slot # NoTap /\ TapFails
        /\ shop' = [shop EXCEPT !.bound = TRUE]
        /\ UNCHANGED <<slot, failures>>
     \/ /\ shop.phase = "available" /\ slot = NoTap
        /\ shop' = [shop EXCEPT !.bound = TRUE]
        /\ slot' = tap.number /\ tap' = [tap EXCEPT !.phase = "launching"]
        /\ UNCHANGED <<screen, failures>>
  /\ UNCHANGED <<check, handling, server, granted, finished>>

\* Mutant: a store that does not launch only frees the slot.
LaunchForgetful ==
  /\ tap.phase = "launching"
  /\ tap' = [tap EXCEPT !.phase = "awaiting"]
  /\ slot' \in {slot, NoTap}
  /\ UNCHANGED <<shop, screen, check, handling, server, granted, finished, failures>>

\* buyNonConsumable or restorePurchases comes back: launched, not launched, or
\* with an exception, which leaves the completer in the slot.
Launch ==
  /\ tap.phase = "launching"
  /\ \/ /\ tap' = [tap EXCEPT !.phase = "awaiting"]
        /\ UNCHANGED <<slot, screen, failures>>
     \/ /\ tap.kind = "purchase" /\ slot' = NoTap
        /\ tap' = [tap EXCEPT !.phase = "awaiting", !.outcome = IF @ = "open" THEN "no" ELSE @]
        /\ UNCHANGED <<screen, failures>>
     \/ Fails /\ TapFails /\ UNCHANGED slot
  /\ UNCHANGED <<shop, check, handling, server, granted, finished>>

\* Mutant: a restore waits for the store as long as it takes.
TimeOutPurchase ==
  /\ tap.phase = "awaiting" /\ tap.outcome = "open" /\ tap.kind = "purchase"
  /\ slot' = NoTap /\ TapFails
  /\ UNCHANGED <<shop, check, handling, server, granted, finished, failures>>

\* Five minutes for a purchase, twenty seconds for a restore, which then asks the
\* server.
TimeOut ==
  /\ tap.phase = "awaiting" /\ tap.outcome = "open"
  /\ slot' = NoTap
  /\ \/ tap.kind = "purchase" /\ TapFails
     \/ /\ tap.kind = "restore" /\ tap' = [tap EXCEPT !.phase = "asking"]
        /\ UNCHANGED screen
  /\ UNCHANGED <<shop, check, handling, server, granted, finished, failures>>

\* isPremium of a restore whose time is up; an unreachable server means no.
FallBack ==
  /\ tap.phase = "asking"
  /\ \/ /\ tap' = [tap EXCEPT !.phase = "awaiting", !.outcome = IF server.active THEN "yes" ELSE "no"]
        /\ UNCHANGED failures
     \/ Fails /\ tap' = [tap EXCEPT !.phase = "awaiting", !.outcome = "no"]
  /\ UNCHANGED <<shop, slot, screen, check, handling, server, granted, finished>>

\* The bloc shows the outcome; a no takes nothing away.
Answer ==
  /\ tap.phase = "awaiting" /\ tap.outcome # "open"
  /\ tap' = [tap EXCEPT !.phase = "none"]
  /\ screen' = [premium |-> screen.premium \/ tap.outcome = "yes", loading |-> FALSE]
  /\ UNCHANGED <<shop, slot, check, handling, server, granted, finished, failures>>

-----------------------------------------------------------------------------
\* CheckPremiumStatusEvent: events of a bloc are handled concurrently.

BeginCheck(c) ==
  /\ check[c].phase = "idle"
  /\ check' = [check EXCEPT ![c].phase = "preparing"]
  /\ shop' = Listening
  /\ UNCHANGED <<slot, tap, screen, handling, server, granted, finished, failures>>

\* isPremium: the answer as the server gives it, no if it cannot be reached.
Ask(c) ==
  /\ check[c].phase = "preparing" /\ shop.phase \in Resolved
  /\ \/ check' = [check EXCEPT ![c] = [phase |-> "answered", answer |-> server.active]]
        /\ UNCHANGED failures
     \/ Fails /\ check' = [check EXCEPT ![c] = [phase |-> "answered", answer |-> FALSE]]
  /\ UNCHANGED <<shop, slot, tap, screen, handling, server, granted, finished>>

Show(c) ==
  /\ check[c].phase = "answered"
  /\ check' = [check EXCEPT ![c].phase = "idle"]
  /\ screen' = [screen EXCEPT !.premium = check[c].answer]
  /\ UNCHANGED <<shop, slot, tap, handling, server, granted, finished, failures>>

-----------------------------------------------------------------------------
\* The purchase stream: a run of _handlePurchases for each delivery, which other
\* runs and taps overlap.

\* An empty list, or an error of the stream, answers the tap at once.
Deliver(h, purchases) ==
  /\ shop.phase # "unknown" /\ handling[h].left = << >>
  /\ handling' = [handling EXCEPT ![h] = [left |-> purchases, step |-> "next"]]
  /\ IF purchases = << >> THEN Complete("no") ELSE UNCHANGED <<slot, tap>>
  /\ UNCHANGED <<shop, screen, check, server, granted, finished, failures>>

Purchase(h) == Head(handling[h].left)
Reached(h, step) == handling[h].left # << >> /\ handling[h].step = step
Run(h, left, step) == handling' = [handling EXCEPT ![h] = [left |-> left, step |-> step]]
Goto(h, step) == Run(h, handling[h].left, step)
Done(h) == Run(h, Tail(handling[h].left), "next")

Skipped(purchase) == ~purchase.ours \/ purchase.status = "pending"
Bought(purchase) == purchase.status \in {"purchased", "restored"}

\* Mutant: the purchase is completed at the store before it is verified.
TakeFinishing(h) ==
  /\ Reached(h, "next")
  /\ ~Skipped(Purchase(h)) /\ Bought(Purchase(h))
  /\ Goto(h, "verifying")
  /\ finished' = finished \union {Purchase(h).id}
  /\ UNCHANGED <<shop, slot, tap, screen, check, server, granted, failures>>

Take(h) ==
  /\ Reached(h, "next")
  /\ \/ Skipped(Purchase(h)) /\ Done(h) /\ UNCHANGED <<slot, tap>>
     \/ /\ ~Skipped(Purchase(h)) /\ ~(Bought(Purchase(h)) /\ Purchase(h).proof)
        /\ Complete("no") /\ Done(h)
     \/ /\ ~Skipped(Purchase(h)) /\ Bought(Purchase(h)) /\ Purchase(h).proof
        /\ Goto(h, "verifying") /\ UNCHANGED <<slot, tap>>
  /\ UNCHANGED <<shop, screen, check, server, granted, finished, failures>>

\* The backend verifies the proof; its answer may be lost after it took effect.
Verify(h) ==
  /\ Reached(h, "verifying")
  /\ \/ /\ server' = [active |-> TRUE, ever |-> TRUE]
        /\ granted' = granted \union {Purchase(h).id}
        /\ Goto(h, "granted") /\ UNCHANGED failures
     \/ Goto(h, "refused") /\ UNCHANGED <<server, granted, failures>>
     \/ /\ Fails /\ server' \in {server, [active |-> TRUE, ever |-> TRUE]}
        /\ Goto(h, "refused") /\ UNCHANGED granted
  /\ UNCHANGED <<shop, slot, tap, screen, check, finished>>

\* Mutant: a purchase that was tried counts as bought.
RefuseKindly(h) ==
  /\ Reached(h, "refused")
  /\ Complete("yes") /\ Done(h)
  /\ UNCHANGED <<shop, screen, check, server, granted, finished, failures>>

RefusePurchase(h) ==
  /\ Reached(h, "refused")
  /\ Complete("no") /\ Done(h)
  /\ UNCHANGED <<shop, screen, check, server, granted, finished, failures>>

\* completePurchase, if the store asks for it, and the flag in secure storage.
\* Whichever of the two throws, the tap is told no: the store may have completed
\* the purchase by then.
FinishPurchase(h) ==
  LET completed == finished \union {p \in {Purchase(h).id} : Purchase(h).unfinished}
  IN  /\ Reached(h, "granted")
      /\ \/ /\ finished' = completed
            /\ Goto(h, "finished") /\ UNCHANGED <<slot, tap, failures>>
         \/ /\ Fails /\ finished' \in {finished, completed}
            /\ Complete("no") /\ Done(h)
      /\ UNCHANGED <<shop, screen, check, server, granted>>

Grant(h) ==
  /\ Reached(h, "finished")
  /\ Complete("yes") /\ Done(h)
  /\ UNCHANGED <<shop, screen, check, server, granted, finished, failures>>

\* The subscription ends at the server.
Lapse ==
  /\ server.active
  /\ server' = [server EXCEPT !.active = FALSE]
  /\ UNCHANGED <<shop, slot, tap, screen, check, handling, granted, finished, failures>>

-----------------------------------------------------------------------------
TapStep == Prepare \/ Launch \/ TimeOut \/ FallBack \/ Answer
CheckStep(c) == BeginCheck(c) \/ Ask(c) \/ Show(c)
DeliveryStep(h) == Take(h) \/ Verify(h) \/ RefusePurchase(h) \/ FinishPurchase(h) \/ Grant(h)

PremiumNext ==
  \/ InitializeStore \/ TapStep \/ Lapse
  \/ \E kind \in {"purchase", "restore"} : Tap(kind)
  \/ \E c \in Checks : CheckStep(c)
  \/ \E h \in Handlers, purchases \in Deliveries : Deliver(h, purchases)
  \/ \E h \in Handlers : DeliveryStep(h)

\* The timers fire, and the calls a tap awaits come back: requests have a timeout
\* of their own, the store plug-in returns or throws. Nothing is asked of the
\* stream, the user or the server.
PremiumFairness == WF_premiumVars(InitializeStore) /\ WF_premiumVars(TapStep)
PremiumSafety == PremiumInit /\ [][PremiumNext]_premiumVars

PremiumSpec == PremiumSafety /\ PremiumFairness

-----------------------------------------------------------------------------
\* Properties.

PremiumTypeOK ==
  /\ shop \in [phase : Resolved \union {"unknown", "listening"}, bound : BOOLEAN]
  /\ slot \in Nat
  /\ tap \in [number : Nat, kind : {"purchase", "restore"},
             phase : {"none", "preparing", "launching", "awaiting", "asking"},
             outcome : {"open", "yes", "no"}]
  /\ screen \in [premium : BOOLEAN, loading : BOOLEAN]
  /\ check \in [Checks -> [phase : {"idle", "preparing", "answered"}, answer : BOOLEAN]]
  /\ handling \in [Handlers -> [left : Seq(Items), step : Steps]]
  /\ server \in [active : BOOLEAN, ever : BOOLEAN]
  /\ failures \in Nat

\* As long as the user waits for the store, an event of the stream can still
\* answer: neither a late event of an earlier tap, nor a time-out, nor a store
\* that does not launch takes the slot away from a tap it has not answered.
WaiterIsReachable ==
  tap.phase \in {"launching", "awaiting"} /\ tap.outcome = "open" => slot = tap.number

\* Whatever the stream mixes up, the screen opens, and a tap is told yes, only if
\* the backend has granted access ("activates premium only after verified
\* purchase", premium_bloc_test.dart:38).
AccessWasGranted ==
  screen.premium \/ tap.outcome = "yes"
    \/ (\E c \in Checks : check[c].answer) => server.ever

\* "The client completes the store's transaction only after the backend's
\* approval" (docs/operations/frontend-release.md:100), also when a delivery
\* holds several purchases and requests are lost.
FinishedWasGranted == finished \subseteq granted

\* Whatever store events, checks and lost answers do: neither the screen nor the
\* store gets ahead of the backend's grant.
GrantComesFirst == AccessWasGranted /\ FinishedWasGranted

\* Every tap ends: the buttons come back whether or not the store says anything.
TapEnds == screen.loading ~> ~screen.loading
=============================================================================
