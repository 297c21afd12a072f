---------------------------- MODULE Entitlements ----------------------------
\* Verification of store purchases (src/backend/src/maki/billing) and the
\* entitlements they give (infrastructure/entitlement_repository.py).
\*
\* A request to verify a Google Play purchase asks the store, waits for the
\* answer and applies it in a later step; requests overlap. A request with an
\* App Store transaction carries the signed proof and applies it at once. The
\* transaction of apply holds the advisory lock of the subject, so it is one
\* step. Times are readings of `now`.
EXTENDS SubjectTime, Sequences

CONSTANTS
  Products,      \* product ids the services accept (allowed_products)
  Tokens,        \* purchase tokens of Google Play
  TokenInfo,     \* what never changes about a token
  Proofs,        \* signed App Store transactions in circulation
  TrustedRoot,   \* the root certificate of the settings
  StoreStates,   \* states Google Play may move a subscription to
  Period,        \* length of a paid period
  MaxChanges,    \* bound: changes of a subscription at Google Play
  Requests       \* verification requests that may be under way at once

\* A subscription of Google Play has a line item at least.
ASSUME BillingAssumption ==
  /\ Period \in Nat
  /\ \A t \in Tokens : TokenInfo[t].products # {}
  /\ \A p \in Proofs :
       p.signed \in Nat /\ p.purchased \in Nat /\ p.expires \in Nat /\ p.revoked \in Nat

VARIABLES
  subscription,  \* external: what Google Play answers for a token
  request,       \* requests waiting between the store's answer and apply
  events,        \* table store_transactions: event id -> row
  entitlements   \* table entitlements: <<subject, product>> -> row

billingVars == <<subscription, request, events, entitlements>>

-----------------------------------------------------------------------------
\* billing/models.py

EventStatus ==
  [purchased |-> "active", renewed |-> "active", restored |-> "active",
   canceled |-> "active", grace_period |-> "grace_period",
   expired |-> "expired", revoked |-> "revoked", refunded |-> "refunded"]

EventPriority ==
  [purchased |-> 10, renewed |-> 20, restored |-> 30, canceled |-> 40,
   grace_period |-> 50, expired |-> 60, revoked |-> 70, refunded |-> 80]

StoreEvents == DOMAIN EventPriority

\* Subscription states that give an event; an answer in any other is refused.
StateEvent ==
  [active |-> "renewed", in_grace_period |-> "grace_period",
   canceled |-> "canceled", expired |-> "expired", on_hold |-> "expired",
   paused |-> "expired"]

\* What identifies an event: hashed by the code, kept as it is here.
EventIds ==
  ({"google_play"} \X Tokens \X Nat \X (DOMAIN StateEvent) \X Nat) \union
  ({"app_store"} \X {p.transaction : p \in Proofs} \X Nat \X Nat)

\* A verified transaction. `source` is not in the code: it is the store's own
\* revision of what it answered, kept to state properties.
StoreTransaction ==
  [id : EventIds, store : {"google_play", "app_store"}, subject : Subjects \union {Forgotten}, product : Products,
   event : StoreEvents, version : Nat, at : Nat, expires : Nat, source : Nat]

\* event_order of two transactions: time of occurrence, version, priority.
Later(t, u) ==
  \/ t.at > u.at
  \/ t.at = u.at /\ t.version > u.version
  \/ t.at = u.at /\ t.version = u.version
                 /\ EventPriority[t.event] > EventPriority[u.event]

\* Entitlement.from_transaction: the row keeps the event and adds the status.
EntitlementFrom(t) ==
  [status |-> EventStatus[t.event], store |-> t.store, expires |-> t.expires,
   last |-> t.id, event |-> t.event, version |-> t.version, at |-> t.at,
   source |-> t.source]

-----------------------------------------------------------------------------
\* Google Play

\* GooglePlayVerifier refuses other packages, unacknowledgeable and test
\* purchases, purchases bound to another account, and unknown products.
GoogleAccepts(s, token, answer) ==
  /\ TokenInfo[token].package_ours
  /\ TokenInfo[token].acknowledgement \in {"pending", "acknowledged"}
  /\ ~TokenInfo[token].test
  /\ TokenInfo[token].account = s
  /\ \A line \in answer.lines : line.product \in Products
  /\ answer.state \in DOMAIN StateEvent

\* The line item that runs longest.
LongestLine(lines) ==
  CHOOSE line \in lines : \A other \in lines : other.expiry <= line.expiry

GoogleTransaction(s, answer) ==
  LET line == LongestLine(answer.lines)
  IN [id |-> <<"google_play", answer.token, answer.order, answer.state, line.expiry>>,
      store |-> "google_play", subject |-> s, product |-> line.product,
      event |-> IF line.expiry <= now THEN "expired" ELSE StateEvent[answer.state],
      version |-> line.expiry, at |-> now, expires |-> line.expiry,
      source |-> answer.revision]

-----------------------------------------------------------------------------
\* App Store

\* AppleJwsVerifier._verify_chain: the root is added unless it ends the chain;
\* every certificate is valid now, is issued and signed by the next one, and
\* the next one is an authority.
ChainTrusted(certificates) ==
  LET chain == IF certificates[Len(certificates)] = TrustedRoot
               THEN certificates ELSE Append(certificates, TrustedRoot)
  IN /\ \A i \in 1 .. Len(chain) : now \in chain[i].valid
     /\ \A i \in 1 .. Len(chain) - 1 :
          /\ chain[i].issuer = chain[i + 1].name
          /\ chain[i + 1].authority
          /\ chain[i].signer = chain[i + 1].key

\* Three parts, a header with ES256 and 1 to 5 certificates, a trusted chain,
\* and a signature by the key of the leaf.
JwsVerified(proof) ==
  /\ proof.well_formed
  /\ Len(proof.x5c) \in 1 .. 5
  /\ ChainTrusted(proof.x5c)
  /\ proof.signer = proof.x5c[1].key

AppleAccepts(s, proof) ==
  /\ JwsVerified(proof)
  /\ proof.bundle_ours
  /\ proof.product \in Products
  /\ proof.environment_ours
  /\ proof.account = s

AppleTransaction(s, proof) ==
  [id |-> <<"app_store", proof.transaction, proof.signed, proof.revoked>>,
   store |-> "app_store", subject |-> s, product |-> proof.product,
   event |-> CASE proof.revoked # 0    -> "refunded"
               [] proof.revoked = 0 /\ proof.expires <= now -> "expired"
               [] OTHER                -> "renewed",
   version |-> proof.signed,
   at |-> IF proof.revoked # 0 THEN proof.revoked ELSE proof.purchased,
   expires |-> proof.expires, source |-> proof.signed]

-----------------------------------------------------------------------------
Idle == [subject |-> Forgotten, answer |-> << >>]

Row(table, key) == key \in DOMAIN table

\* Mutant: the last event to arrive wins.
ReplacesAlways(t, key) == TRUE

\* Whether a new event becomes the entitlement.
Replaces(t, key) == Row(entitlements, key) => Later(t, entitlements[key])

\* SqlAlchemyEntitlementRepository.apply, one transaction under the lock of the
\* subject: a known event changes nothing (and breaks when its entitlement is
\* gone); a new one is kept, and is the entitlement if it is the latest.
Apply(t) ==
  LET key == <<t.subject, t.product>>
  IN IF Row(events, t.id)
     THEN UNCHANGED <<events, entitlements>>
     ELSE /\ events' = With(events, t.id, t)
          /\ entitlements' = IF Replaces(t, key)
                             THEN With(entitlements, key, EntitlementFrom(t))
                             ELSE entitlements

\* verify_google up to the answer of the store: the call runs in a thread, and
\* a refusal or an unreachable store ends the request without an effect.
AskGoogle(r, s, t) ==
  /\ request[r] = Idle
  /\ request' = [request EXCEPT ![r] = [subject |-> s, answer |-> subscription[t]]]
  /\ UNCHANGED <<subscription, events, entitlements>>

\* verify_google after the answer: it is validated against the subject, dated
\* with the clock of this moment and applied.
ApplyGoogle(r) ==
  /\ request[r] # Idle
  /\ LET s == request[r].subject  a == request[r].answer
     IN IF GoogleAccepts(s, a.token, a)
        THEN Apply(GoogleTransaction(s, a))
        ELSE UNCHANGED <<events, entitlements>>
  /\ request' = [request EXCEPT ![r] = Idle]
  /\ UNCHANGED subscription

\* verify_apple: no await between the proof and the transaction of apply.
VerifyApple(s, proof) ==
  /\ proof.signed <= now
  /\ AppleAccepts(s, proof)
  /\ Apply(AppleTransaction(s, proof))
  /\ UNCHANGED <<subscription, request>>

\* External: Google Play changes a subscription, or starts a new period of it
\* under the next order.
SubscriptionChanges(t) ==
  LET sub == subscription[t]
  IN /\ sub.revision < MaxChanges
     /\ \/ \E state \in StoreStates \ {sub.state} :
             subscription' = [subscription EXCEPT ![t].state = state,
                                                  ![t].revision = @ + 1]
        \/ subscription' =
             [subscription EXCEPT ![t] =
                [sub EXCEPT !.state = "active", !.order = @ + 1, !.revision = @ + 1,
                            !.lines = {[l EXCEPT !.expiry = now + Period] : l \in @}]]
     /\ UNCHANGED <<request, events, entitlements>>

BillingInit ==
  /\ subscription = [t \in Tokens |->
       [token |-> t, state |-> "active", order |-> 1, revision |-> 0,
        lines |-> {[product |-> p, expiry |-> Period] : p \in TokenInfo[t].products}]]
  /\ request = [r \in Requests |-> Idle]
  /\ events = << >>
  /\ entitlements = << >>

BillingNext ==
  \/ \E r \in Requests, s \in Subjects, t \in Tokens : AskGoogle(r, s, t)
  \/ \E r \in Requests : ApplyGoogle(r)
  \/ \E s \in Subjects, proof \in Proofs : VerifyApple(s, proof)
  \/ \E t \in Tokens : SubscriptionChanges(t)

-----------------------------------------------------------------------------
\* Types: every row of store_transactions is a transaction under its own id,
\* every entitlement belongs to a subject and a product.
BillingTypeOK ==
  /\ \A r \in Requests : request[r].subject \in Subjects \union {Forgotten}
  /\ \A id \in DOMAIN events : events[id] \in StoreTransaction /\ events[id].id = id
  /\ DOMAIN entitlements \subseteq Subjects \X Products

\* An entitlement is what the newest of the recorded events of its subject and
\* product says, in whatever order, from whichever store and however often the
\* events arrived (entitlement_repository.apply). And an event still tied to a
\* subject has its entitlement: apply breaks ("Mağaza olayı hak kaydına bağlı
\* değil") only for an event whose subject was deleted.
EntitlementIsNewest ==
  /\ \A key \in DOMAIN entitlements :
       LET row == entitlements[key]
       IN /\ Row(events, row.last)
          /\ <<events[row.last].subject, events[row.last].product>> = key
          /\ row = EntitlementFrom(events[row.last])
          /\ \A id \in DOMAIN events :
               <<events[id].subject, events[id].product>> = key => ~Later(events[id], row)
  /\ \A id \in DOMAIN events :
       \/ events[id].subject = Forgotten
       \/ Row(entitlements, <<events[id].subject, events[id].product>>)

\* What Google Play said earlier never replaces what it said later: an older
\* renewal cannot restore access (tests/billing/test_service.py).
OlderAnswerCannotRestore ==
  [][\A key \in DOMAIN entitlements :
       Row(entitlements', key) =>
         (entitlements[key].store = "google_play" /\ entitlements'[key].store = "google_play"
            => entitlements'[key].source >= entitlements[key].source)]_entitlements
=============================================================================
