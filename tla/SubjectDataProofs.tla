------------------------- MODULE SubjectDataProofs -------------------------
(***************************************************************************)
(* Theorems about everything PostgreSQL keeps about subjects, for any       *)
(* subjects, products, tokens, keys, requests and retention times:          *)
(* entitlements, retries, retention and deletion, and the leaderboard.       *)
(* The invariants of billing and acceptance come first, *)
(* step by step; then the theorems, which put them together; then the       *)
(* leaderboard, whose rows follow the same clock, and the types.             *)
(***************************************************************************)
EXTENDS SubjectData, TLAPS, FiniteSetTheorems

-----------------------------------------------------------------------------
\* Entitlements: purchases, notifications and the store's answers.

\* The line items of a subscription: at least one, and all run equally long.
LineItems ==
  {lines \in SUBSET [product : UNION {TokenInfo[t].products : t \in Tokens}, expiry : Nat] :
     lines # {} /\ \A l, m \in lines : l.expiry = m.expiry}

Subscription ==
  [token : Tokens, state : StoreStates \union {"active"}, order : Nat, revision : Nat,
   lines : LineItems]

Request ==
  {Idle} \union [subject : Subjects, answer : Subscription]

\* Transactions that a verification may apply.
Verified == {t \in StoreTransaction : t.subject \in Subjects}

Key(t) == <<t.subject, t.product>>

EntitlementRow ==
  [status : {EventStatus[e] : e \in StoreEvents}, store : {"google_play", "app_store"},
   expires : Nat, last : EventIds, event : StoreEvents, version : Nat, at : Nat, source : Nat]

\* What holds of the billing tables and of the requests under way at every step.
BillingInv ==
  /\ subscription \in [Tokens -> Subscription]
  /\ request \in [Requests -> Request]
  /\ \A id \in DOMAIN events : events[id] \in StoreTransaction /\ events[id].id = id
  /\ DOMAIN entitlements \subseteq Subjects \X Products
  /\ EntitlementIsNewest

-----------------------------------------------------------------------------
\* event_order is a strict weak order: what is not later than u is not later
\* than what is later than u.
LEMMA LaterOrder ==
  ASSUME NEW t \in StoreTransaction, NEW u \in StoreTransaction \union EntitlementRow,
         NEW v \in StoreTransaction
  PROVE  /\ ~Later(t, t)
         /\ ~Later(v, u) /\ Later(t, u) => ~Later(v, t)
         /\ Later(v, EntitlementFrom(t)) <=> Later(v, t)
<1>1. \A e \in StoreEvents : EventPriority[e] \in Nat
  BY DEF StoreEvents, EventPriority
<1>2. /\ t.at \in Nat /\ t.version \in Nat /\ t.event \in StoreEvents
      /\ u.at \in Nat /\ u.version \in Nat /\ u.event \in StoreEvents
      /\ v.at \in Nat /\ v.version \in Nat /\ v.event \in StoreEvents
  BY DEF StoreTransaction, EntitlementRow
<1>3. /\ EventPriority[t.event] \in Nat /\ EventPriority[u.event] \in Nat
      /\ EventPriority[v.event] \in Nat
  BY <1>1, <1>2
<1>4. ~Later(t, t)
  BY <1>2, <1>3 DEF Later
<1>5. ~Later(v, u) /\ Later(t, u) => ~Later(v, t)
  BY <1>2, <1>3 DEF Later
<1>6. Later(v, EntitlementFrom(t)) <=> Later(v, t)
  BY DEF Later, EntitlementFrom
<1>7. QED  BY <1>4, <1>5, <1>6

LEMMA RowTyped ==
  ASSUME NEW t \in StoreTransaction
  PROVE  EntitlementFrom(t) \in EntitlementRow
BY DEF EntitlementFrom, EntitlementRow, StoreTransaction

-----------------------------------------------------------------------------
\* The transaction of apply, in whatever order the events come.
LEMMA ApplyKeeps ==
  ASSUME BillingInv, NEW t \in Verified, Apply(t),
         subscription' \in [Tokens -> Subscription], request' \in [Requests -> Request]
  PROVE  BillingInv'
<1>1. CASE Row(events, t.id)
  BY <1>1 DEF Apply, BillingInv, EntitlementIsNewest, Row
<1>2. CASE ~Row(events, t.id)
  <2> DEFINE key == Key(t)
  <2>1. /\ t \in StoreTransaction /\ t.subject \in Subjects /\ t.product \in Products
        /\ key \in Subjects \X Products
    BY DEF Verified, StoreTransaction, Key
  <2>2. /\ DOMAIN events' = DOMAIN events \union {t.id}
        /\ events'[t.id] = t
        /\ \A id \in DOMAIN events : events'[id] = events[id] /\ id # t.id
    BY <1>2 DEF Apply, With, Row
  <2>3. entitlements' = IF Replaces(t, key) THEN With(entitlements, key, EntitlementFrom(t))
                        ELSE entitlements
    BY <1>2 DEF Apply, Key
  <2>4. /\ DOMAIN entitlements' \subseteq DOMAIN entitlements \union {key}
        /\ key \in DOMAIN entitlements' /\ DOMAIN entitlements \subseteq DOMAIN entitlements'
        /\ \A k \in DOMAIN entitlements : k # key => entitlements'[k] = entitlements[k]
    BY <2>3 DEF With, Replaces, Row
  <2>5. \A id \in DOMAIN events' : events'[id] \in StoreTransaction /\ events'[id].id = id
    BY <2>1, <2>2 DEF BillingInv
  <2>6. ASSUME NEW k \in DOMAIN entitlements'
        PROVE  /\ Row(events', entitlements'[k].last)
               /\ Key(events'[entitlements'[k].last]) = k
               /\ entitlements'[k] = EntitlementFrom(events'[entitlements'[k].last])
               /\ \A id \in DOMAIN events' :
                    Key(events'[id]) = k => ~Later(events'[id], entitlements'[k])
    <3>1. \A j \in DOMAIN entitlements :
            /\ Row(events, entitlements[j].last)
            /\ Key(events[entitlements[j].last]) = j
            /\ entitlements[j] = EntitlementFrom(events[entitlements[j].last])
            /\ \A id \in DOMAIN events : Key(events[id]) = j => ~Later(events[id], entitlements[j])
      BY DEF BillingInv, EntitlementIsNewest, Key
    <3>2. \A j \in DOMAIN entitlements : entitlements[j] \in EntitlementRow
      BY <3>1, RowTyped DEF BillingInv, Row
    <3>3. CASE k # key
      BY <2>2, <2>4, <3>1, <3>3 DEF Row, Key
    <3>4. CASE k = key /\ Replaces(t, key)
      <4>1. entitlements'[k] = EntitlementFrom(t)
        BY <2>3, <3>4 DEF With
      <4>2. entitlements'[k].last = t.id
        BY <4>1 DEF EntitlementFrom
      <4>3. ASSUME NEW id \in DOMAIN events, Key(events[id]) = key
            PROVE  ~Later(events[id], t)
        <5>1. key \in DOMAIN entitlements
          BY <2>1, <4>3, ForgottenAssumption DEF BillingInv, EntitlementIsNewest, Row, Key
        <5>2. Later(t, entitlements[key]) /\ ~Later(events[id], entitlements[key])
          BY <3>1, <3>4, <4>3, <5>1 DEF Replaces, Row
        <5>3. events[id] \in StoreTransaction
          BY DEF BillingInv
        <5>4. QED  BY <2>1, <3>2, <5>1, <5>2, <5>3, LaterOrder
      <4>4. ~Later(t, t)
        BY <2>1, LaterOrder
      <4>5. \A id \in DOMAIN events' : Key(events'[id]) = k => ~Later(events'[id], t)
        BY <2>2, <3>4, <4>3, <4>4
      <4>6. \A id \in DOMAIN events' :
              Key(events'[id]) = k => ~Later(events'[id], EntitlementFrom(t))
        BY <2>1, <2>5, <4>5, LaterOrder
      <4>7. QED  BY <2>2, <3>4, <4>1, <4>2, <4>6 DEF Row
    <3>5. CASE k = key /\ ~Replaces(t, key)
      <4>1. /\ key \in DOMAIN entitlements /\ entitlements'[key] = entitlements[key]
            /\ ~Later(t, entitlements[key])
        BY <2>3, <3>5 DEF Replaces, Row
      <4>2. QED  BY <2>2, <3>1, <3>5, <4>1 DEF Row
    <3>6. QED  BY <3>3, <3>4, <3>5
  <2>7. \A id \in DOMAIN events' :
          events'[id].subject = Forgotten \/ Row(entitlements', Key(events'[id]))
    <3>1. \A id \in DOMAIN events :
            events[id].subject = Forgotten \/ Row(entitlements, Key(events[id]))
      BY DEF BillingInv, EntitlementIsNewest, Key
    <3>2. QED  BY <2>2, <2>4, <3>1 DEF Row
  <2>8. EntitlementIsNewest'
    BY <2>6, <2>7 DEF EntitlementIsNewest, Key, Row
  <2>9. DOMAIN entitlements' \subseteq Subjects \X Products
    BY <2>1, <2>4 DEF BillingInv
  <2>10. QED  BY <2>5, <2>8, <2>9 DEF BillingInv
<1>3. QED  BY <1>1, <1>2

-----------------------------------------------------------------------------
\* What GooglePlayVerifier and AppStoreVerifier let through is a transaction of
\* the subject that asked.
LEMMA GoogleVerified ==
  ASSUME now \in Nat, NEW s \in Subjects, NEW a \in Subscription,
         GoogleAccepts(s, a.token, a)
  PROVE  GoogleTransaction(s, a) \in Verified
<1> DEFINE line == LongestLine(a.lines)
<1>1. a.lines # {} /\ \A l, m \in a.lines : l.expiry \in Nat /\ l.expiry = m.expiry
  BY DEF Subscription, LineItems
<1>2. \E l \in a.lines : \A other \in a.lines : other.expiry <= l.expiry
  BY <1>1
<1>3. line \in a.lines
  BY <1>2 DEF LongestLine
<1>4. line.expiry \in Nat /\ line.product \in Products
  BY <1>1, <1>3 DEF GoogleAccepts
<1>5. /\ a.token \in Tokens /\ a.order \in Nat /\ a.revision \in Nat
      /\ a.state \in DOMAIN StateEvent
  BY DEF Subscription, GoogleAccepts
<1>6. StateEvent[a.state] \in StoreEvents /\ "expired" \in StoreEvents
  BY <1>5 DEF StateEvent, StoreEvents, EventPriority
<1>7. <<"google_play", a.token, a.order, a.state, line.expiry>> \in EventIds
  BY <1>4, <1>5 DEF EventIds
<1> HIDE DEF line
<1>8. QED  BY <1>4, <1>5, <1>6, <1>7 DEF GoogleTransaction, Verified, StoreTransaction, line

LEMMA AppleVerified ==
  ASSUME NEW s \in Subjects, NEW proof \in Proofs, AppleAccepts(s, proof)
  PROVE  AppleTransaction(s, proof) \in Verified
<1>1. /\ proof.signed \in Nat /\ proof.purchased \in Nat /\ proof.expires \in Nat
      /\ proof.revoked \in Nat /\ proof.product \in Products
  BY BillingAssumption DEF AppleAccepts
<1>2. <<"app_store", proof.transaction, proof.signed, proof.revoked>> \in EventIds
  BY <1>1 DEF EventIds
<1>3. {"refunded", "expired", "renewed"} \subseteq StoreEvents
  BY DEF StoreEvents, EventPriority
<1>4. AppleTransaction(s, proof).event \in {"refunded", "expired", "renewed"}
  BY DEF AppleTransaction
<1>5. QED  BY <1>1, <1>2, <1>3, <1>4 DEF AppleTransaction, Verified, StoreTransaction

\* Google Play changes a subscription, and every line of it alike.
LEMMA SubscriptionTyped ==
  ASSUME now \in Nat, BillingInv, NEW t \in Tokens, SubscriptionChanges(t)
  PROVE  subscription' \in [Tokens -> Subscription]
<1> DEFINE sub == subscription[t]
           renewed == {[l EXCEPT !.expiry = now + Period] : l \in sub.lines}
<1>1. sub \in Subscription /\ subscription \in [Tokens -> Subscription]
  BY DEF BillingInv
<1>2. now + Period \in Nat
  BY BillingAssumption
<1>3. renewed \in LineItems
  <2>1. \A l \in sub.lines :
          /\ [l EXCEPT !.expiry = now + Period]
               \in [product : UNION {TokenInfo[u].products : u \in Tokens}, expiry : Nat]
          /\ [l EXCEPT !.expiry = now + Period].expiry = now + Period
    BY <1>1, <1>2 DEF Subscription, LineItems
  <2>2. sub.lines # {}
    BY <1>1 DEF Subscription, LineItems
  <2>3. QED  BY <2>1, <2>2 DEF LineItems
<1>4. CASE \E state \in StoreStates \ {sub.state} :
             subscription' = [subscription EXCEPT ![t].state = state, ![t].revision = @ + 1]
  <2>1. PICK state \in StoreStates :
          subscription' = [subscription EXCEPT ![t] =
                             [sub EXCEPT !.state = state, !.revision = @ + 1]]
    BY <1>1, <1>4
  <2>2. [sub EXCEPT !.state = state, !.revision = @ + 1] \in Subscription
    <3>1. sub.revision + 1 \in Nat /\ state \in StoreStates \union {"active"}
      BY <1>1 DEF Subscription
    <3> HIDE DEF sub
    <3>2. QED  BY <1>1, <3>1 DEF Subscription
  <2>3. QED  BY <1>1, <2>1, <2>2
<1>5. CASE subscription' =
             [subscription EXCEPT ![t] =
                [sub EXCEPT !.state = "active", !.order = @ + 1, !.revision = @ + 1,
                            !.lines = {[l EXCEPT !.expiry = now + Period] : l \in @}]]
  <2>1. subscription' =
          [subscription EXCEPT ![t] =
             [sub EXCEPT !.state = "active", !.order = @ + 1, !.revision = @ + 1,
                         !.lines = renewed]]
    BY <1>1, <1>5
  <2>2. [sub EXCEPT !.state = "active", !.order = @ + 1, !.revision = @ + 1,
                    !.lines = renewed] \in Subscription
    <3>1. sub.revision + 1 \in Nat /\ sub.order + 1 \in Nat
      BY <1>1 DEF Subscription
    <3> HIDE DEF sub, renewed
    <3>2. QED  BY <1>1, <1>3, <3>1 DEF Subscription
  <2>3. QED  BY <1>1, <2>1, <2>2
<1>6. QED  BY <1>4, <1>5 DEF SubscriptionChanges

\* Every step of the verification, and every change at the store.
LEMMA BillingStep ==
  ASSUME now \in Nat, BillingInv, BillingNext
  PROVE  BillingInv'
<1>1. ASSUME NEW r \in Requests, NEW s \in Subjects, NEW t \in Tokens, AskGoogle(r, s, t)
      PROVE  BillingInv'
  <2>1. request' \in [Requests -> Request]
    BY <1>1 DEF AskGoogle, BillingInv, Request
  <2>2. QED  BY <1>1, <2>1 DEF AskGoogle, BillingInv, EntitlementIsNewest, Row
<1>2. ASSUME NEW r \in Requests, ApplyGoogle(r)
      PROVE  BillingInv'
  <2> DEFINE s == request[r].subject
             a == request[r].answer
  <2>1. s \in Subjects /\ a \in Subscription
    BY <1>2 DEF ApplyGoogle, BillingInv, Request
  <2>2. /\ request' \in [Requests -> Request]
        /\ subscription' \in [Tokens -> Subscription]
    BY <1>2 DEF ApplyGoogle, BillingInv, Request
  <2>3. CASE GoogleAccepts(s, a.token, a)
    <3>1. Apply(GoogleTransaction(s, a))
      BY <1>2, <2>3 DEF ApplyGoogle
    <3>2. GoogleTransaction(s, a) \in Verified
      BY <2>1, <2>3, GoogleVerified
    <3> HIDE DEF s, a
    <3>3. QED  BY <2>2, <3>1, <3>2, ApplyKeeps
  <2>4. CASE ~GoogleAccepts(s, a.token, a)
    <3>1. UNCHANGED <<events, entitlements>>
      BY <1>2, <2>4 DEF ApplyGoogle
    <3>2. QED  BY <2>2, <3>1 DEF BillingInv, EntitlementIsNewest, Row
  <2>5. QED  BY <2>3, <2>4
<1>3. ASSUME NEW s \in Subjects, NEW proof \in Proofs, VerifyApple(s, proof)
      PROVE  BillingInv'
  <2>1. AppleTransaction(s, proof) \in Verified /\ Apply(AppleTransaction(s, proof))
    BY <1>3, AppleVerified DEF VerifyApple
  <2>2. UNCHANGED <<subscription, request>>
    BY <1>3 DEF VerifyApple
  <2>3. QED  BY <2>1, <2>2, ApplyKeeps DEF BillingInv
<1>4. ASSUME NEW t \in Tokens, SubscriptionChanges(t)
      PROVE  BillingInv'
  <2>1. UNCHANGED <<request, events, entitlements>>
    BY <1>4 DEF SubscriptionChanges
  <2>2. subscription' \in [Tokens -> Subscription]
    BY <1>4, SubscriptionTyped
  <2>3. QED  BY <2>1, <2>2 DEF BillingInv, EntitlementIsNewest, Row
<1>5. QED  BY <1>1, <1>2, <1>3, <1>4 DEF BillingNext

LEMMA BillingStarts == BillingInit => BillingInv
<1> SUFFICES ASSUME BillingInit PROVE BillingInv
  OBVIOUS
<1> DEFINE Lines(t) == {[product |-> p, expiry |-> Period] : p \in TokenInfo[t].products}
<1>1. ASSUME NEW t \in Tokens PROVE Lines(t) \in LineItems
  <2>1. \A l \in Lines(t) :
          /\ l \in [product : UNION {TokenInfo[u].products : u \in Tokens}, expiry : Nat]
          /\ l.expiry = Period
    BY BillingAssumption
  <2>2. Lines(t) # {}
    BY BillingAssumption
  <2>3. QED  BY <2>1, <2>2 DEF LineItems
<1>2. subscription \in [Tokens -> Subscription]
  <2> HIDE DEF Lines
  <2>1. ASSUME NEW t \in Tokens
        PROVE  [token |-> t, state |-> "active", order |-> 1, revision |-> 0,
                lines |-> Lines(t)] \in Subscription
    BY <1>1 DEF Subscription
  <2>2. subscription = [t \in Tokens |-> [token |-> t, state |-> "active", order |-> 1,
                                         revision |-> 0, lines |-> Lines(t)]]
    BY DEF BillingInit, Lines
  <2>3. QED  BY <2>1, <2>2
<1>3. request \in [Requests -> Request]
  BY DEF BillingInit, Request
<1>4. DOMAIN events = {} /\ DOMAIN entitlements = {}
  BY DEF BillingInit
<1>5. QED  BY <1>2, <1>3, <1>4 DEF BillingInv, EntitlementIsNewest

-----------------------------------------------------------------------------
\* Jobs, idempotency keys and the retention pass.

Kinds == QueuedKinds \union {"receipt"}
Bodies == Payloads \union Nat
Slots == Subjects \X Kinds \X Keys

JobRow == [owner : Subjects, kind : Kinds, payload : Bodies, created : Nat, completed : Nat]
KeyRow == [payload : Bodies, job : Nat, created : Nat]
AcceptedRow == [slot : Slots, payload : Bodies, job : Nat, created : Nat]

CallRow ==
  {NoCall}
  \union [stage : {"submitted"}, slot : Slots, payload : Bodies, content : Payloads \union Contents]
  \union [stage : {"found"}, slot : Slots, key : KeyRow]

Live(row) == now < row.created + IdempotencyTTL

\* The tables of jobs and keys: no row is from the future, a job completes after
\* it was created, a key is as old as its job and belongs to the same owner.
TablesInv ==
  /\ now \in Nat
  /\ ids \in [job : Nat, image : Nat]
  /\ \A j \in DOMAIN jobs :
       /\ j \in 1 .. ids.job
       /\ jobs[j] \in JobRow /\ jobs[j].created <= now
       /\ jobs[j].completed # 0 => jobs[j].created <= jobs[j].completed
  /\ \A k \in DOMAIN keys :
       /\ k \in Slots /\ keys[k] \in KeyRow
       /\ keys[k].job \in DOMAIN jobs
       /\ Owner(k) = jobs[keys[k].job].owner
       /\ keys[k].created = jobs[keys[k].job].created

\* A request that has read a key holds the row that is still there, while it
\* lives and its job was not deleted.
CallsInv ==
  /\ call \in [Calls -> CallRow]
  /\ \A c \in Calls : call[c].stage = "found" =>
       /\ call[c].key.job \in 1 .. ids.job
       /\ call[c].key.job \in DOMAIN jobs /\ Live(call[c].key) =>
            call[c].slot \in DOMAIN keys /\ keys[call[c].slot] = call[c].key

\* What clients were told is what the key says while it lives and its job is
\* there; and a job goes before its key only when it is JobTTL old.
Holds(a) == a.slot \in DOMAIN keys /\ Told(a.slot, keys[a.slot]) = a

ToldInv ==
  /\ accepted \subseteq AcceptedRow
  /\ \A a \in accepted :
       /\ a.job \in 1 .. ids.job
       /\ Live(a) /\ a.job \in DOMAIN jobs => Holds(a)
       /\ Live(a) /\ a.job \notin DOMAIN jobs => a.created + JobTTL <= now

PassRow ==
  [class : {"none", "idempotency", "job_metadata"}, at : Nat,
   stage : {"none", "select", "delete"}, batch : SUBSET (Slots \union Nat),
   cut : SUBSET {"idempotency", "job_metadata"}]

\* A batch that is not full holds all candidates that are left; and in the second
\* class of a pass no key is left that had expired at its begin, unless the first
\* class ended on a shortened count.
PassInv ==
  /\ pass \in PassRow
  /\ pass.class = "none" => pass = Rest
  /\ pass.at <= now
  /\ pass.stage = "delete" /\ Cardinality(pass.batch) # BatchSize =>
       /\ pass.class = "idempotency" => Expired("idempotency") \subseteq pass.batch
       /\ pass.class = "job_metadata" => Expired("job_metadata") \subseteq pass.batch
  /\ pass.class = "job_metadata" /\ "idempotency" \notin pass.cut => Expired("idempotency") = {}

AcceptanceInv == TablesInv /\ CallsInv /\ ToldInv /\ PassInv

-----------------------------------------------------------------------------
\* RetryKeepsJob is weaker than ToldInv with the foreign key.
LEMMA ToldImpliesRetry == AcceptanceInv => RetryKeepsJob
<1> SUFFICES ASSUME AcceptanceInv, NEW a \in accepted, now < a.created + IdempotencyTTL
             PROVE  \/ /\ a.slot \in DOMAIN keys
                       /\ keys[a.slot].job = a.job /\ keys[a.slot].payload = a.payload
                       /\ a.job \in DOMAIN jobs
                    \/ a.created + JobTTL <= now /\ a.job \notin DOMAIN jobs
  BY DEF RetryKeepsJob
<1>1. CASE a.job \in DOMAIN jobs
  <2>1. a.slot \in DOMAIN keys /\ Told(a.slot, keys[a.slot]) = a
    BY <1>1 DEF AcceptanceInv, ToldInv, Live, Holds
  <2>2. keys[a.slot].job = a.job /\ keys[a.slot].payload = a.payload
    BY <2>1 DEF Told
  <2>3. QED  BY <1>1, <2>1, <2>2
<1>2. CASE a.job \notin DOMAIN jobs
  BY <1>2 DEF AcceptanceInv, ToldInv, Live
<1>3. QED  BY <1>1, <1>2

\* A client that was told of a job that is there knows its age.
LEMMA ToldAge ==
  ASSUME AcceptanceInv, NEW a \in accepted, Live(a), a.job \in DOMAIN jobs
  PROVE  /\ a.slot \in DOMAIN keys /\ keys[a.slot].job = a.job
         /\ a.created = jobs[a.job].created /\ Owner(a.slot) = jobs[a.job].owner
<1>1. a.slot \in DOMAIN keys /\ Told(a.slot, keys[a.slot]) = a
  BY DEF AcceptanceInv, ToldInv, Holds
<1>2. keys[a.slot].job = a.job /\ keys[a.slot].created = a.created
  BY <1>1 DEF Told
<1>3. QED  BY <1>1, <1>2 DEF AcceptanceInv, TablesInv

\* Jobs that are removed with their keys, when those that clients may still ask
\* for have served their time.
LEMMA RemovalKeeps ==
  ASSUME AcceptanceInv, NEW gone \in SUBSET DOMAIN jobs, RemoveJobs(gone),
         UNCHANGED <<now, call, ids>>, accepted' \subseteq accepted,
         \A a \in accepted' : Live(a) /\ a.job \in gone => a.created + JobTTL <= now
  PROVE  /\ TablesInv' /\ CallsInv' /\ ToldInv'
         /\ DOMAIN keys' \subseteq DOMAIN keys /\ DOMAIN jobs' = DOMAIN jobs \ gone
         /\ \A k \in DOMAIN keys' : keys'[k] = keys[k]
         /\ \A j \in DOMAIN jobs' : jobs'[j] = jobs[j]
<1>1. /\ DOMAIN jobs' = DOMAIN jobs \ gone
      /\ \A j \in DOMAIN jobs' : jobs'[j] = jobs[j]
      /\ DOMAIN keys' = {k \in DOMAIN keys : keys[k].job \notin gone}
      /\ \A k \in DOMAIN keys' : keys'[k] = keys[k]
  BY DEF RemoveJobs, Restrict
<1>2. TablesInv'
  BY <1>1 DEF AcceptanceInv, TablesInv, Owner
<1>3. CallsInv'
  BY <1>1 DEF AcceptanceInv, CallsInv, Live
<1>4. ToldInv'
  <2>1. ASSUME NEW a \in accepted', Live(a), a.job \in DOMAIN jobs'
        PROVE  a.slot \in DOMAIN keys' /\ Told(a.slot, keys'[a.slot]) = a
    <3>1. a \in accepted /\ a.job \in DOMAIN jobs /\ a.job \notin gone
      BY <1>1, <2>1
    <3>2. a.slot \in DOMAIN keys /\ keys[a.slot].job = a.job /\ Told(a.slot, keys[a.slot]) = a
      BY <2>1, <3>1, ToldAge DEF AcceptanceInv, ToldInv, Holds
    <3>3. QED  BY <1>1, <3>1, <3>2
  <2>2. ASSUME NEW a \in accepted', Live(a), a.job \notin DOMAIN jobs'
        PROVE  a.created + JobTTL <= now
    BY <1>1, <2>2 DEF AcceptanceInv, ToldInv
  <2>3. accepted' \subseteq AcceptedRow /\ \A a \in accepted' : a.job \in 1 .. ids.job
    BY DEF AcceptanceInv, ToldInv
  <2>4. QED  BY <2>1, <2>2, <2>3 DEF ToldInv, Holds, Live, Told
<1>5. QED  BY <1>1, <1>2, <1>3, <1>4

\* A pass under way, when nothing expires as of its begin.
LEMMA PassStays ==
  ASSUME AcceptanceInv, pass' = pass, now \in Nat, now' \in Nat, now <= now',
         Expired("idempotency")' \subseteq Expired("idempotency"),
         Expired("job_metadata")' \subseteq Expired("job_metadata")
  PROVE  PassInv'
<1>1. /\ pass'.at \in Nat /\ pass'.at <= now'
  BY DEF AcceptanceInv, PassInv, PassRow
<1>2. QED  BY <1>1 DEF AcceptanceInv, PassInv, Rest

\* Steps that leave the tables and the answers alone.
LEMMA OnlyCalls ==
  ASSUME AcceptanceInv, UNCHANGED <<now, jobs, keys, accepted, pass>>,
         ids' \in [job : {ids.job}, image : Nat], CallsInv'
  PROVE  AcceptanceInv'
<1>1. TablesInv' /\ ToldInv'
  BY DEF AcceptanceInv, TablesInv, ToldInv, Holds, Live, Told, Owner
<1>2. PassInv'
  BY PassStays DEF AcceptanceInv, TablesInv, Expired
<1>3. QED  BY <1>1, <1>2 DEF AcceptanceInv

\* Create draws a new job: no key and no request has heard of it.
LEMMA CreateKeeps ==
  ASSUME AcceptanceInv, UNCHANGED now, NEW c \in Calls, Create(c)
  PROVE  AcceptanceInv'
<1> DEFINE a == call[c]
           j == ids.job + 1
           job == [owner |-> Owner(a.slot), kind |-> a.slot[2], payload |-> a.payload,
                   created |-> now, completed |-> 0]
           row == [payload |-> a.payload, job |-> j, created |-> now]
<1>1. /\ a.stage = "submitted" /\ a.slot \notin DOMAIN keys
      /\ a \in [stage : {"submitted"}, slot : Slots, payload : Bodies,
                content : Payloads \union Contents]
  BY DEF Create, AcceptanceInv, CallsInv, CallRow, NoCall
<1>2. /\ ids' = [ids EXCEPT !.job = j] /\ j \in Nat /\ j \notin DOMAIN jobs
      /\ ids'.job = j /\ ids.job \in Nat /\ ids' \in [job : Nat, image : Nat]
  BY DEF Create, AcceptanceInv, TablesInv
<1>3. /\ jobs' = With(jobs, j, job) /\ keys' = With(keys, a.slot, row)
      /\ accepted' = accepted \union {Told(a.slot, row)}
      /\ call' = [call EXCEPT ![c] = NoCall] /\ pass' = pass
  BY <1>2 DEF Create
<1>4. /\ now \in Nat /\ job \in JobRow /\ row \in KeyRow /\ Told(a.slot, row) \in AcceptedRow
      /\ job.owner = Owner(a.slot) /\ job.created = now /\ job.completed = 0
      /\ row.job = j /\ row.created = now
  BY <1>1, <1>2 DEF JobRow, KeyRow, AcceptedRow, Told, Slots, Owner, AcceptanceInv, TablesInv
<1> HIDE DEF a, j, job, row
<1>5. /\ DOMAIN jobs' = DOMAIN jobs \union {j} /\ jobs'[j] = job
      /\ \A i \in DOMAIN jobs : jobs'[i] = jobs[i]
      /\ DOMAIN keys' = DOMAIN keys \union {a.slot} /\ keys'[a.slot] = row
      /\ \A k \in DOMAIN keys : keys'[k] = keys[k] /\ k # a.slot
  BY <1>1, <1>2, <1>3 DEF With
<1>6. TablesInv'
  <2>1. \A i \in DOMAIN jobs' :
          /\ i \in 1 .. ids'.job /\ jobs'[i] \in JobRow /\ jobs'[i].created <= now
          /\ jobs'[i].completed # 0 => jobs'[i].created <= jobs'[i].completed
    BY <1>2, <1>4, <1>5, j = ids.job + 1 DEF AcceptanceInv, TablesInv, j
  <2>2. \A k \in DOMAIN keys' :
          /\ k \in Slots /\ keys'[k] \in KeyRow /\ keys'[k].job \in DOMAIN jobs'
          /\ Owner(k) = jobs'[keys'[k].job].owner
          /\ keys'[k].created = jobs'[keys'[k].job].created
    <3>1. a.slot \in Slots
      BY <1>1
    <3>2. QED  BY <1>4, <1>5, <3>1 DEF AcceptanceInv, TablesInv
  <2>3. QED  BY <1>2, <1>4, <2>1, <2>2 DEF TablesInv
<1>7. CallsInv'
  <2>1. call' \in [Calls -> CallRow]
    BY <1>3 DEF AcceptanceInv, CallsInv, CallRow
  <2>2. ASSUME NEW d \in Calls, call'[d].stage = "found"
        PROVE  /\ call'[d] = call[d] /\ call[d].key.job \in 1 .. ids.job
               /\ call[d].key.job \in DOMAIN jobs /\ Live(call[d].key) =>
                    call[d].slot \in DOMAIN keys /\ keys[call[d].slot] = call[d].key
    BY <1>3, <2>2 DEF AcceptanceInv, CallsInv, NoCall
  <2>3. ASSUME NEW d \in Calls, call'[d].stage = "found"
        PROVE  /\ call'[d].key.job \in 1 .. ids'.job
               /\ call'[d].key.job \in DOMAIN jobs' /\ Live(call'[d].key) =>
                    call'[d].slot \in DOMAIN keys' /\ keys'[call'[d].slot] = call'[d].key
    <3>1. call[d].key.job # j
      BY <1>2, <2>2, <2>3 DEF j
    <3>2. call[d].key.job \in 1 .. ids'.job
      BY <1>2, <2>2, <2>3 DEF j
    <3>3. QED  BY <1>5, <2>2, <2>3, <3>1, <3>2
  <2>4. QED  BY <2>1, <2>3 DEF CallsInv, Live
<1>8. ToldInv'
  <2>1. ASSUME NEW b \in accepted
        PROVE  /\ b.job \in 1 .. ids'.job /\ b.job # j
               /\ Live(b) /\ b.job \in DOMAIN jobs' =>
                    b.slot \in DOMAIN keys' /\ Told(b.slot, keys'[b.slot]) = b
               /\ Live(b) /\ b.job \notin DOMAIN jobs' => b.created + JobTTL <= now
    <3>1. b.job \in 1 .. ids.job
      BY DEF AcceptanceInv, ToldInv
    <3>2. b.job \in 1 .. ids'.job /\ b.job # j
      BY <1>2, <3>1 DEF j
    <3>3. QED  BY <1>5, <3>2 DEF AcceptanceInv, ToldInv, Holds, Told
  <2>2. /\ Told(a.slot, row).slot = a.slot /\ Told(a.slot, row).job = j
        /\ Told(a.slot, keys'[a.slot]) = Told(a.slot, row)
    BY <1>4, <1>5 DEF Told
  <2>3. j \in 1 .. ids'.job
    BY <1>2 DEF j
  <2>4. ASSUME NEW b \in accepted'
        PROVE  /\ b.job \in 1 .. ids'.job
               /\ Live(b) /\ b.job \in DOMAIN jobs' =>
                    b.slot \in DOMAIN keys' /\ Told(b.slot, keys'[b.slot]) = b
               /\ Live(b) /\ b.job \notin DOMAIN jobs' => b.created + JobTTL <= now
    <3>1. CASE b \in accepted
      BY <2>1, <3>1
    <3>2. CASE b = Told(a.slot, row)
      BY <1>5, <2>2, <2>3, <3>2
    <3>3. QED  BY <1>3, <3>1, <3>2
  <2>5. accepted' \subseteq AcceptedRow
    BY <1>3, <1>4 DEF AcceptanceInv, ToldInv
  <2>6. QED  BY <2>4, <2>5 DEF ToldInv, Holds, Live, Told
<1>9. PassInv'
  <2>1. pass.at \in Nat /\ pass.at <= now /\ ~(now + IdempotencyTTL <= pass.at) /\ pass' = pass
    BY <1>3, <1>4, RetentionAssumption DEF AcceptanceInv, PassInv, PassRow
  <2>2. Expired("idempotency")' \subseteq Expired("idempotency")
    BY <1>4, <1>5, <2>1 DEF Expired
  <2>3. Expired("job_metadata")' \subseteq Expired("job_metadata")
    BY <1>4, <1>5, <2>1 DEF Expired
  <2>4. QED  BY <1>4, <2>1, <2>2, <2>3, PassStays
<1>10. QED  BY <1>6, <1>7, <1>8, <1>9 DEF AcceptanceInv

\* FindKey and ReadJob: what is told is the key that lives.
LEMMA FindKeyKeeps ==
  ASSUME AcceptanceInv, UNCHANGED now, NEW c \in Calls, FindKey(c)
  PROVE  AcceptanceInv'
<1> DEFINE a == call[c]
           found == [stage |-> "found", slot |-> a.slot, key |-> keys[a.slot]]
<1>1. /\ a.slot \in DOMAIN keys /\ a.slot \in Slots /\ keys[a.slot] \in KeyRow
      /\ keys[a.slot].job \in 1 .. ids.job
  BY DEF FindKey, AcceptanceInv, TablesInv
<1>2. /\ call' = [call EXCEPT ![c] = IF keys[a.slot].payload # a.payload THEN NoCall ELSE found]
      /\ UNCHANGED <<jobs, keys, accepted, pass, ids>>
  BY DEF FindKey
<1>3. found \in CallRow /\ found.key = keys[a.slot] /\ found.slot = a.slot
  BY <1>1 DEF CallRow
<1> HIDE DEF a, found
<1>4. call' \in [Calls -> CallRow]
  BY <1>2, <1>3 DEF AcceptanceInv, CallsInv, CallRow
<1>5. ASSUME NEW d \in Calls, call'[d].stage = "found"
      PROVE  /\ call'[d].key.job \in 1 .. ids.job
             /\ call'[d].key.job \in DOMAIN jobs /\ Live(call'[d].key) =>
                  call'[d].slot \in DOMAIN keys /\ keys[call'[d].slot] = call'[d].key
  <2>1. CASE call'[d] = found
    BY <1>1, <1>3, <2>1
  <2>2. CASE call'[d] = NoCall
    BY <1>5, <2>2 DEF NoCall
  <2>3. CASE call'[d] = call[d]
    BY <1>5, <2>3 DEF AcceptanceInv, CallsInv
  <2>4. QED  BY <1>2, <2>1, <2>2, <2>3 DEF AcceptanceInv, CallsInv
<1>6. CallsInv'
  BY <1>2, <1>4, <1>5 DEF CallsInv, Live
<1>7. ids' \in [job : {ids.job}, image : Nat]
  BY <1>2 DEF AcceptanceInv, TablesInv
<1>8. QED  BY <1>2, <1>6, <1>7, OnlyCalls

LEMMA ReadJobKeeps ==
  ASSUME AcceptanceInv, UNCHANGED now, NEW c \in Calls, ReadJob(c)
  PROVE  AcceptanceInv'
<1> DEFINE a == call[c]
<1>1. /\ a.stage = "found" /\ call' = [call EXCEPT ![c] = NoCall]
      /\ UNCHANGED <<jobs, keys, pass, ids>>
      /\ accepted' = IF a.key.job \in DOMAIN jobs THEN accepted \union {Told(a.slot, a.key)}
                     ELSE accepted
  BY DEF ReadJob
<1>2. a.slot \in Slots /\ a.key \in KeyRow
  BY <1>1 DEF AcceptanceInv, CallsInv, CallRow, NoCall
<1>3. Told(a.slot, a.key) \in AcceptedRow
  BY <1>2 DEF Told, AcceptedRow, KeyRow
<1>4. Told(a.slot, a.key).slot = a.slot /\ (Live(Told(a.slot, a.key)) <=> Live(a.key))
  BY DEF Told, Live
<1>5. a.key.job \in DOMAIN jobs /\ Live(a.key) => a.slot \in DOMAIN keys /\ keys[a.slot] = a.key
  BY <1>1 DEF AcceptanceInv, CallsInv
<1> HIDE DEF a
<1>6. ASSUME NEW b \in accepted'
      PROVE  /\ b.job \in 1 .. ids.job
             /\ Live(b) /\ b.job \in DOMAIN jobs => Holds(b)
             /\ Live(b) /\ b.job \notin DOMAIN jobs => b.created + JobTTL <= now
  <2>1. CASE b \in accepted
    BY <2>1 DEF AcceptanceInv, ToldInv
  <2>2. CASE b = Told(a.slot, a.key) /\ a.key.job \in DOMAIN jobs
    <3>1. b.job = a.key.job /\ a.key.job \in 1 .. ids.job
      BY <2>2 DEF Told, AcceptanceInv, TablesInv
    <3>2. QED  BY <1>4, <1>5, <2>2, <3>1 DEF Holds
  <2>3. QED  BY <1>1, <2>1, <2>2
<1>7. ToldInv'
  <2>1. accepted' \subseteq AcceptedRow
    BY <1>1, <1>3 DEF AcceptanceInv, ToldInv
  <2>2. QED  BY <1>1, <1>6, <2>1 DEF ToldInv, Holds, Live, Told
<1>8. CallsInv'
  BY <1>1 DEF AcceptanceInv, CallsInv, Live, CallRow, NoCall
<1>9. PassInv'
  BY <1>1, PassStays DEF AcceptanceInv, TablesInv, Expired
<1>10. QED  BY <1>1, <1>7, <1>8, <1>9 DEF AcceptanceInv, TablesInv, Owner

LEMMA SubmitKeeps ==
  ASSUME AcceptanceInv, UNCHANGED now, NEW c \in Calls,
         \/ \E s \in Subjects, kind \in QueuedKinds, key \in Keys, p \in Payloads :
              Submit(c, s, kind, key, p)
         \/ \E s \in Subjects, key \in Keys, content \in Contents : Upload(c, s, key, content)
  PROVE  AcceptanceInv'
<1>1. /\ UNCHANGED <<jobs, keys, accepted, pass>>
      /\ ids' \in [job : {ids.job}, image : Nat]
  BY DEF Submit, Upload, AcceptanceInv, TablesInv
<1>2. PICK slot \in Slots, payload \in Bodies, content \in Payloads \union Contents :
        call' = [call EXCEPT ![c] = [stage |-> "submitted", slot |-> slot, payload |-> payload,
                                     content |-> content]]
  <2>1. CASE \E s \in Subjects, kind \in QueuedKinds, key \in Keys, p \in Payloads :
               Submit(c, s, kind, key, p)
    <3>1. PICK s \in Subjects, kind \in QueuedKinds, key \in Keys, p \in Payloads :
            Submit(c, s, kind, key, p)
      BY <2>1
    <3>2. Slot(s, kind, key) \in Slots /\ p \in Bodies
      BY DEF Slots, Slot, Kinds, Bodies
    <3>3. QED  BY <3>1, <3>2 DEF Submit
  <2>2. CASE \E s \in Subjects, key \in Keys, content \in Contents : Upload(c, s, key, content)
    <3>1. PICK s \in Subjects, key \in Keys, content \in Contents : Upload(c, s, key, content)
      BY <2>2
    <3>2. Slot(s, "receipt", key) \in Slots /\ ids'.image \in Bodies
      BY <1>1 DEF Slots, Slot, Kinds, Bodies
    <3>3. QED  BY <3>1, <3>2 DEF Upload
  <2>3. QED  BY <2>1, <2>2
<1>3. CallsInv'
  <2>1. [stage |-> "submitted", slot |-> slot, payload |-> payload, content |-> content] \in CallRow
    BY DEF CallRow
  <2>2. call' \in [Calls -> CallRow]
    BY <1>2, <2>1 DEF AcceptanceInv, CallsInv
  <2>3. QED  BY <1>1, <1>2, <2>2 DEF AcceptanceInv, CallsInv, Live
<1>4. QED  BY <1>1, <1>3, OnlyCalls

LEMMA FinishJobKeeps ==
  ASSUME AcceptanceInv, UNCHANGED now, NEW j \in DOMAIN jobs, FinishJob(j)
  PROVE  AcceptanceInv'
<1>1. /\ jobs' = [jobs EXCEPT ![j].completed = now]
      /\ UNCHANGED <<keys, call, accepted, pass, ids>>
      /\ now \in Nat /\ jobs[j] \in JobRow /\ jobs[j].created <= now
  BY DEF FinishJob, AcceptanceInv, TablesInv
<1>2. /\ DOMAIN jobs' = DOMAIN jobs
      /\ jobs'[j] \in JobRow /\ jobs'[j].completed = now
      /\ jobs'[j].owner = jobs[j].owner /\ jobs'[j].created = jobs[j].created
      /\ \A i \in DOMAIN jobs : i # j => jobs'[i] = jobs[i]
  BY <1>1 DEF JobRow
<1>3. TablesInv'
  BY <1>1, <1>2 DEF AcceptanceInv, TablesInv
<1>4. CallsInv' /\ ToldInv'
  BY <1>1, <1>2 DEF AcceptanceInv, CallsInv, ToldInv, Holds, Live, Told
<1>5. PassInv'
  <2>1. pass.at \in Nat /\ pass.at <= now /\ ~(now + JobTTL <= pass.at) /\ pass' = pass
    BY <1>1, RetentionAssumption DEF AcceptanceInv, PassInv, PassRow
  <2>2. Expired("idempotency")' \subseteq Expired("idempotency")
    BY <1>1 DEF Expired
  <2>3. Expired("job_metadata")' \subseteq Expired("job_metadata")
    BY <1>1, <1>2, <2>1 DEF Expired
  <2>4. QED  BY <1>1, <2>1, <2>2, <2>3, PassStays
<1>6. QED  BY <1>3, <1>4, <1>5 DEF AcceptanceInv

-----------------------------------------------------------------------------
\* A retention pass.
LEMMA PassMoves ==
  ASSUME AcceptanceInv, UNCHANGED now, StartPass \/ SelectBatch \/ PassFails
  PROVE  AcceptanceInv'
<1>1. UNCHANGED <<jobs, keys, call, accepted, ids>>
  BY DEF StartPass, SelectBatch, PassFails
<1>2. CASE StartPass \/ PassFails
  <2>1. pass' = Rest \/ pass' = [Rest EXCEPT !.class = "idempotency", !.at = now, !.stage = "select"]
    BY <1>2 DEF StartPass, PassFails
  <2>2. /\ pass' \in PassRow /\ pass'.at <= now
        /\ pass'.class = "none" => pass' = Rest
        /\ pass'.class # "job_metadata" /\ pass'.stage # "delete"
    <3>1. now \in Nat
      BY DEF AcceptanceInv, TablesInv
    <3>2. CASE pass' = Rest
      BY <3>1, <3>2 DEF PassRow, Rest
    <3>3. CASE pass' = [Rest EXCEPT !.class = "idempotency", !.at = now, !.stage = "select"]
      <4>1. pass' = [class |-> "idempotency", at |-> now, stage |-> "select", batch |-> {},
                     cut |-> {}]
        BY <3>3 DEF Rest
      <4>2. QED  BY <3>1, <4>1 DEF PassRow
    <3>4. QED  BY <2>1, <3>2, <3>3
  <2>3. PassInv'
    BY <1>1, <2>2 DEF PassInv, Rest
  <2>4. QED  BY <1>1, <2>3 DEF AcceptanceInv, TablesInv, CallsInv, ToldInv, Holds, Live, Told, Owner
<1>3. CASE SelectBatch
  <2>1. PICK batch \in Batches(pass.class) :
          pass' = [pass EXCEPT !.stage = "delete", !.batch = batch]
    BY <1>3 DEF SelectBatch
  <2>2. /\ pass \in PassRow /\ pass.class \in {"idempotency", "job_metadata"}
        /\ pass.at <= now
    <3>1. pass \in PassRow /\ pass.at <= now /\ (pass.class = "none" => pass = Rest)
      BY DEF AcceptanceInv, PassInv
    <3>2. pass.stage = "select" /\ Rest.stage = "none"
      BY <1>3 DEF SelectBatch, Rest
    <3>3. pass.class \in {"none", "idempotency", "job_metadata"}
      BY <3>1 DEF PassRow
    <3>4. QED  BY <3>1, <3>2, <3>3
  <2>3. /\ batch \subseteq Expired(pass.class)
        /\ Cardinality(batch) = BatchSize \/ Expired(pass.class) \subseteq batch
    BY <2>1 DEF Batches
  <2>4. batch \in SUBSET (Slots \union Nat)
    BY <2>2, <2>3 DEF Expired, AcceptanceInv, TablesInv
  <2>5. /\ pass' \in PassRow /\ pass'.class = pass.class /\ pass'.at = pass.at
        /\ pass'.cut = pass.cut /\ pass'.batch = batch
    BY <2>1, <2>2, <2>4 DEF PassRow
  <2>6. /\ Expired("idempotency")' = Expired("idempotency")
        /\ Expired("job_metadata")' = Expired("job_metadata")
    BY <1>1, <2>5 DEF Expired
  <2>7. /\ pass.class = "idempotency" => Expired(pass.class) = Expired("idempotency")
        /\ pass.class = "job_metadata" => Expired(pass.class) = Expired("job_metadata")
    OBVIOUS
  <2>8. pass.class = "job_metadata" /\ "idempotency" \notin pass.cut => Expired("idempotency") = {}
    BY DEF AcceptanceInv, PassInv
  <2>9. PassInv'
    BY <1>1, <2>2, <2>3, <2>5, <2>6, <2>7, <2>8 DEF PassInv
  <2>10. QED  BY <1>1, <2>9 DEF AcceptanceInv, TablesInv, CallsInv, ToldInv, Holds, Live, Told, Owner
<1>4. QED  BY <1>2, <1>3

\* A row that is purged had expired: its key lives no more, its job is JobTTL old.
LEMMA PurgedIsOld ==
  ASSUME AcceptanceInv
  PROVE  /\ \A k \in Expired("idempotency") : k \in DOMAIN keys /\ ~Live(keys[k])
         /\ \A j \in Expired("job_metadata") :
              j \in DOMAIN jobs /\ jobs[j].created + JobTTL <= now
<1>1. now \in Nat /\ pass.at \in Nat /\ pass.at <= now
  BY DEF AcceptanceInv, TablesInv, PassInv, PassRow
<1>2. \A k \in DOMAIN keys : keys[k].created \in Nat
  BY DEF AcceptanceInv, TablesInv, KeyRow
<1>3. \A j \in DOMAIN jobs :
        /\ jobs[j].created \in Nat /\ jobs[j].completed \in Nat
        /\ jobs[j].completed # 0 => jobs[j].created <= jobs[j].completed
  BY DEF AcceptanceInv, TablesInv, JobRow
<1>4. \A k \in Expired("idempotency") : k \in DOMAIN keys /\ ~Live(keys[k])
  BY <1>1, <1>2, RetentionAssumption DEF Expired, Live
<1>5. \A j \in Expired("job_metadata") : j \in DOMAIN jobs /\ jobs[j].created + JobTTL <= now
  BY <1>1, <1>3, RetentionAssumption DEF Expired
<1>6. QED  BY <1>4, <1>5

\* What a statement does to the tables, and how it leaves the pass: a pass goes
\* on to the jobs, or ends, only when no candidate is left or one was taken.
LEMMA PurgeStatement ==
  ASSUME AcceptanceInv, Purge
  PROVE  /\ pass.class \in {"idempotency", "job_metadata"}
         /\ UNCHANGED <<call, accepted, ids>>
         /\ pass' = NextStatement \/ pass' = NextClass
         /\ pass' = NextClass /\ pass.class \notin Cut => Taken = Expired(pass.class)
<1>1. /\ pass.stage = "delete" /\ UNCHANGED <<call, accepted, ids>>
      /\ pass' = IF Cardinality(Taken) < BatchSize THEN NextClass ELSE NextStatement
  BY DEF Purge
<1>2. pass \in PassRow /\ pass.class \in {"idempotency", "job_metadata"}
  BY <1>1 DEF AcceptanceInv, PassInv, PassRow, Rest
<1>3. ASSUME pass' = NextClass, pass.class \notin Cut
      PROVE  Taken = Expired(pass.class)
  <2>1. Taken = pass.batch
    BY <1>3 DEF Cut
  <2>2. NextClass # NextStatement
    BY <1>2 DEF NextClass, NextStatement, PassRow, Rest
  <2>3. Cardinality(pass.batch) < BatchSize
    BY <1>1, <1>3, <2>1, <2>2
  <2>4. Cardinality(pass.batch) # BatchSize
    BY <2>3, BatchAssumption
  <2>5. CASE pass.class = "idempotency"
    BY <1>1, <2>1, <2>4, <2>5 DEF AcceptanceInv, PassInv, Taken
  <2>6. CASE pass.class = "job_metadata"
    BY <1>1, <2>1, <2>4, <2>6 DEF AcceptanceInv, PassInv, Taken
  <2>7. QED  BY <1>2, <2>5, <2>6
<1>4. QED  BY <1>1, <1>2, <1>3

\* The tables after a statement.
LEMMA PurgeRows ==
  ASSUME AcceptanceInv, UNCHANGED now, Purge
  PROVE  /\ TablesInv' /\ CallsInv' /\ ToldInv'
         /\ DOMAIN keys' \subseteq DOMAIN keys /\ DOMAIN jobs' \subseteq DOMAIN jobs
         /\ \A k \in DOMAIN keys' : keys'[k] = keys[k]
         /\ \A j \in DOMAIN jobs' : jobs'[j] = jobs[j]
         /\ pass.class = "idempotency" => DOMAIN keys' = DOMAIN keys \ Taken
         /\ pass.class = "job_metadata" => DOMAIN jobs' = DOMAIN jobs \ Taken
<1>1. /\ pass.class \in {"idempotency", "job_metadata"}
      /\ UNCHANGED <<call, accepted, ids>> /\ RemoveTaken
  BY PurgeStatement DEF Purge
<1>2. CASE pass.class = "idempotency"
  <2>1. /\ DOMAIN keys' = DOMAIN keys \ Taken
        /\ \A k \in DOMAIN keys' : keys'[k] = keys[k]
        /\ jobs' = jobs
    BY <1>1, <1>2 DEF RemoveTaken, Restrict
  <2>2. \A k \in Taken : ~Live(keys[k])
    BY <1>2, PurgedIsOld DEF Taken
  <2>3. TablesInv'
    BY <1>1, <2>1 DEF AcceptanceInv, TablesInv
  <2>4. CallsInv'
    BY <1>1, <2>1, <2>2 DEF AcceptanceInv, CallsInv, Live
  <2>5. ToldInv'
    <3>1. ASSUME NEW a \in accepted, Live(a), a.job \in DOMAIN jobs
          PROVE  a.slot \in DOMAIN keys' /\ Told(a.slot, keys'[a.slot]) = a
      <4>1. a.slot \in DOMAIN keys /\ Told(a.slot, keys[a.slot]) = a
        BY <3>1 DEF AcceptanceInv, ToldInv, Holds
      <4>2. Live(keys[a.slot])
        BY <3>1, <4>1 DEF Told, Live
      <4>3. QED  BY <2>1, <2>2, <4>1, <4>2
    <3>2. QED  BY <1>1, <2>1, <3>1 DEF AcceptanceInv, ToldInv, Holds, Live, Told
  <2>6. QED  BY <1>2, <2>1, <2>3, <2>4, <2>5
<1>3. CASE pass.class = "job_metadata"
  <2>1. RemoveJobs(Taken)
    BY <1>1, <1>3 DEF RemoveTaken
  <2>2. Taken \in SUBSET DOMAIN jobs /\ \A j \in Taken : jobs[j].created + JobTTL <= now
    BY <1>3, PurgedIsOld DEF Taken
  <2>3. \A a \in accepted : Live(a) /\ a.job \in Taken => a.created + JobTTL <= now
    BY <2>2, ToldAge
  <2>4. QED  BY <1>1, <1>3, <2>1, <2>2, <2>3, RemovalKeeps
<1>4. QED  BY <1>1, <1>2, <1>3

LEMMA PurgeKeeps ==
  ASSUME AcceptanceInv, UNCHANGED now, Purge
  PROVE  /\ AcceptanceInv'
         /\ pass' = Rest =>
              /\ "idempotency" \notin Cut =>
                   \A k \in DOMAIN keys' : keys'[k].created + IdempotencyTTL > pass.at
              /\ "job_metadata" \notin Cut =>
                   \A j \in DOMAIN jobs' :
                     jobs'[j].completed = 0 \/ jobs'[j].completed + JobTTL > pass.at
<1>1. /\ pass.class \in {"idempotency", "job_metadata"}
      /\ pass' = NextStatement \/ pass' = NextClass
      /\ pass' = NextClass /\ pass.class \notin Cut => Taken = Expired(pass.class)
  BY PurgeStatement
<1>2. pass \in PassRow /\ pass.at \in Nat /\ pass.at <= now
  BY DEF AcceptanceInv, PassInv, PassRow
<1>3. /\ DOMAIN keys' \subseteq DOMAIN keys /\ DOMAIN jobs' \subseteq DOMAIN jobs
      /\ \A k \in DOMAIN keys' : keys'[k] = keys[k] /\ keys[k].created \in Nat
      /\ \A j \in DOMAIN jobs' : jobs'[j] = jobs[j] /\ jobs[j].completed \in Nat
      /\ pass.class = "idempotency" => DOMAIN keys' = DOMAIN keys \ Taken
      /\ pass.class = "job_metadata" => DOMAIN jobs' = DOMAIN jobs \ Taken
      /\ now \in Nat
  BY PurgeRows DEF AcceptanceInv, TablesInv, JobRow, KeyRow
<1>4. Cut \in SUBSET {"idempotency", "job_metadata"} /\ pass.cut \subseteq Cut
  BY <1>1, <1>2 DEF Cut, PassRow
\* No key is left that had expired at the begin.
<1>5. ASSUME "idempotency" \notin Cut,
             pass' = NextClass \/ pass.class = "job_metadata"
      PROVE  \A k \in DOMAIN keys' : ~(keys'[k].created + IdempotencyTTL <= pass.at)
  <2>1. \/ Taken = Expired("idempotency") /\ pass.class = "idempotency"
        \/ Expired("idempotency") = {}
    BY <1>1, <1>4, <1>5 DEF AcceptanceInv, PassInv
  <2>2. QED  BY <1>3, <2>1 DEF Expired
<1>6. PassInv'
  <2>1. CASE pass' = NextStatement
    <3>1. /\ pass' \in PassRow /\ pass'.class = pass.class /\ pass'.at = pass.at
          /\ pass'.stage = "select" /\ pass'.cut = pass.cut
      BY <1>2, <2>1 DEF NextStatement, PassRow
    <3>2. pass.class = "job_metadata" /\ "idempotency" \notin pass.cut =>
            Expired("idempotency") = {}
      BY DEF AcceptanceInv, PassInv
    <3>3. Expired("idempotency")' \subseteq Expired("idempotency")
      BY <1>3, <3>1 DEF Expired
    <3>4. QED  BY <1>1, <1>2, <3>1, <3>2, <3>3 DEF PassInv, Rest
  <2>2. CASE pass' = NextClass /\ pass.class = "idempotency"
    <3>1. /\ pass' \in PassRow /\ pass'.class = "job_metadata" /\ pass'.at = pass.at
          /\ pass'.stage = "select" /\ pass'.cut = Cut
      BY <1>2, <1>4, <2>2 DEF NextClass, NextStatement, PassRow
    <3>2. "idempotency" \notin Cut => Expired("idempotency")' = {}
      BY <1>5, <2>2, <3>1 DEF Expired
    <3>3. QED  BY <1>2, <3>1, <3>2 DEF PassInv, Rest
  <2>3. CASE pass' = Rest
    BY <1>3, <2>3 DEF PassInv, PassRow, Rest
  <2>4. QED  BY <1>1, <2>1, <2>2, <2>3 DEF NextClass
<1>7. ASSUME pass' = Rest
      PROVE  /\ pass' = NextClass /\ pass.class = "job_metadata"
  BY <1>1, <1>2, <1>7 DEF NextClass, NextStatement, PassRow, Rest
<1>8. ASSUME pass' = Rest, "idempotency" \notin Cut, NEW k \in DOMAIN keys'
      PROVE  keys'[k].created + IdempotencyTTL > pass.at
  <2>1. ~(keys'[k].created + IdempotencyTTL <= pass.at) /\ keys'[k].created \in Nat
    BY <1>3, <1>5, <1>7, <1>8
  <2>2. QED  BY <1>2, <2>1, RetentionAssumption
<1>9. ASSUME pass' = Rest, "job_metadata" \notin Cut, NEW j \in DOMAIN jobs'
      PROVE  jobs'[j].completed = 0 \/ jobs'[j].completed + JobTTL > pass.at
  <2>1. j \notin Expired("job_metadata") /\ j \in DOMAIN jobs /\ jobs'[j] = jobs[j]
        /\ jobs[j].completed \in Nat
    BY <1>1, <1>3, <1>7, <1>9
  <2>2. QED  BY <1>2, <2>1, RetentionAssumption DEF Expired
<1>10. QED  BY <1>6, <1>8, <1>9, PurgeRows DEF AcceptanceInv

-----------------------------------------------------------------------------
\* Every step of acceptance and retention.
LEMMA AcceptanceStep ==
  ASSUME AcceptanceInv, UNCHANGED now, AcceptanceNext
  PROVE  AcceptanceInv'
<1>1. CASE \E c \in Calls, s \in Subjects, kind \in QueuedKinds, key \in Keys, p \in Payloads :
             Submit(c, s, kind, key, p)
  BY <1>1, SubmitKeeps
<1>2. CASE \E c \in Calls, s \in Subjects, key \in Keys, image \in Contents :
             Upload(c, s, key, image)
  BY <1>2, SubmitKeeps
<1>3. CASE \E c \in Calls : Create(c) \/ FindKey(c) \/ ReadJob(c)
  BY <1>3, CreateKeeps, FindKeyKeeps, ReadJobKeeps
<1>4. CASE \E j \in DOMAIN jobs : FinishJob(j)
  BY <1>4, FinishJobKeeps
<1>5. CASE StartPass \/ SelectBatch \/ PassFails
  BY <1>5, PassMoves
<1>6. CASE Purge
  BY <1>6, PurgeKeeps
<1>7. QED  BY <1>1, <1>2, <1>3, <1>4, <1>5, <1>6 DEF AcceptanceNext

LEMMA AcceptanceStarts == AcceptanceInit /\ now \in Nat => AcceptanceInv
<1> SUFFICES ASSUME AcceptanceInit, now \in Nat PROVE AcceptanceInv
  OBVIOUS
<1>1. /\ DOMAIN jobs = {} /\ DOMAIN keys = {} /\ accepted = {} /\ pass = Rest
      /\ ids = [job |-> 0, image |-> 0]
  BY DEF AcceptanceInit
<1>2. call \in [Calls -> CallRow] /\ \A c \in Calls : call[c].stage # "found"
  BY DEF AcceptanceInit, CallRow, NoCall
<1>3. PassInv
  BY <1>1 DEF PassInv, PassRow, Rest
<1>4. QED  BY <1>1, <1>2, <1>3 DEF AcceptanceInv, TablesInv, CallsInv, ToldInv

\* Time makes rows older, and touches none.
LEMMA AcceptanceAges ==
  ASSUME AcceptanceInv, now' = now + 1, UNCHANGED <<jobs, keys, call, accepted, pass, ids>>
  PROVE  AcceptanceInv'
<1>1. now \in Nat /\ now' \in Nat /\ now < now'
  BY DEF AcceptanceInv, TablesInv
<1>2. TablesInv'
  BY <1>1 DEF AcceptanceInv, TablesInv, JobRow
<1>3. \A created \in Nat : now' < created + IdempotencyTTL => now < created + IdempotencyTTL
  BY <1>1, RetentionAssumption
<1>4. CallsInv'
  <2>1. ASSUME NEW c \in Calls, call[c].stage = "found"
        PROVE  call[c].key.created \in Nat
    BY <2>1 DEF AcceptanceInv, CallsInv, CallRow, NoCall, KeyRow
  <2>2. QED  BY <1>3, <2>1 DEF AcceptanceInv, CallsInv, Live
<1>5. ToldInv'
  <2>1. ASSUME NEW a \in accepted
        PROVE  /\ a.job \in 1 .. ids.job
               /\ now' < a.created + IdempotencyTTL /\ a.job \in DOMAIN jobs => Holds(a)
               /\ now' < a.created + IdempotencyTTL /\ a.job \notin DOMAIN jobs =>
                    a.created + JobTTL <= now'
    <3>1. a.created \in Nat
      BY DEF AcceptanceInv, ToldInv, AcceptedRow
    <3>2. a.created + JobTTL <= now => a.created + JobTTL <= now'
      BY <1>1, <3>1, RetentionAssumption
    <3>3. QED  BY <1>3, <3>1, <3>2 DEF AcceptanceInv, ToldInv, Live
  <2>2. QED  BY <2>1 DEF AcceptanceInv, ToldInv, Live, Holds, Told
<1>6. PassInv'
  BY <1>1, PassStays DEF Expired
<1>7. QED  BY <1>2, <1>4, <1>5, <1>6 DEF AcceptanceInv

\* No step gives a job another owner.
LEMMA OwnersStay ==
  ASSUME AcceptanceInv, AcceptanceNext
  PROVE  \A j \in DOMAIN jobs \intersect DOMAIN jobs' : jobs'[j].owner = jobs[j].owner
<1>1. CASE UNCHANGED jobs
  BY <1>1
<1>2. ASSUME NEW c \in Calls, Create(c)
      PROVE  \A j \in DOMAIN jobs : jobs'[j] = jobs[j]
  <2>1. ids.job + 1 \notin DOMAIN jobs /\ ids'.job = ids.job + 1
    BY <1>2 DEF Create, AcceptanceInv, TablesInv
  <2>2. QED  BY <1>2, <2>1 DEF Create, With
<1>3. ASSUME NEW j \in DOMAIN jobs, FinishJob(j)
      PROVE  \A i \in DOMAIN jobs : jobs'[i].owner = jobs[i].owner
  BY <1>3 DEF FinishJob, AcceptanceInv, TablesInv, JobRow
<1>4. ASSUME Purge
      PROVE  \A j \in DOMAIN jobs \intersect DOMAIN jobs' : jobs'[j] = jobs[j]
  <2>1. UNCHANGED jobs \/ RemoveJobs(Taken)
    BY <1>4 DEF Purge, RemoveTaken
  <2>2. QED  BY <2>1 DEF RemoveJobs, Restrict
<1>5. QED
  BY <1>1, <1>2, <1>3, <1>4
     DEF AcceptanceNext, Submit, Upload, FindKey, ReadJob, StartPass, SelectBatch, PassFails

-----------------------------------------------------------------------------
\* All components over one clock.

SubjectInv ==
  /\ forgotten \subseteq Subjects
  /\ BillingInv
  /\ AcceptanceInv
  /\ DeletedLeavesNothing

LEMMA SubjectStarts == SubjectInit => SubjectInv
<1> SUFFICES ASSUME SubjectInit PROVE SubjectInv
  OBVIOUS
<1>1. now \in Nat /\ forgotten = {}
  BY DEF SubjectInit
<1>2. BillingInv /\ AcceptanceInv
  BY <1>1, BillingStarts, AcceptanceStarts DEF SubjectInit
<1>3. QED  BY <1>1, <1>2 DEF SubjectInv, DeletedLeavesNothing

\* No step of a request gives a store event another subject.
LEMMA EventsStay ==
  ASSUME BillingNext
  PROVE  \A id \in DOMAIN events : events'[id] = events[id]
<1>1. ASSUME NEW t, Apply(t)
      PROVE  \A id \in DOMAIN events : events'[id] = events[id]
  BY <1>1 DEF Apply, With, Row
<1>2. QED
  BY <1>1 DEF BillingNext, AskGoogle, ApplyGoogle, VerifyApple, SubscriptionChanges

\* What the serving steps write for a subject ends its being forgotten; what
\* they leave behind was there before.
LEMMA ServingLeavesNothing ==
  ASSUME SubjectInv, TablesInv', Written,
         \A j \in DOMAIN jobs \intersect DOMAIN jobs' : jobs'[j].owner = jobs[j].owner,
         \A id \in DOMAIN events : events'[id] = events[id]
  PROVE  DeletedLeavesNothing'
<1> SUFFICES ASSUME NEW s \in forgotten'
             PROVE  /\ \A part \in DOMAIN Export(s)' : Export(s)'[part] = {}
                    /\ \A k \in DOMAIN keys' : Owner(k) # s
                    /\ \A k \in DOMAIN contributions' : k[2] # s
  BY DEF DeletedLeavesNothing, Owner
<1>1. s \in forgotten /\ s \in Subjects /\ s \notin Writers
  BY DEF Written, SubjectInv
<1>2. /\ \A k \in DOMAIN entitlements : k[1] # s
      /\ \A j \in DOMAIN jobs : jobs[j].owner # s
      /\ \A id \in DOMAIN events : events[id].subject # s
      /\ \A k \in DOMAIN contributions : k[2] # s
  <2>1. /\ Export(s).entitlements = {} /\ Export(s).jobs = {} /\ Export(s).billing_events = {}
        /\ \A k \in DOMAIN contributions : k[2] # s
    <3>1. {"entitlements", "jobs", "billing_events"} = DOMAIN Export(s)
      BY DEF Export
    <3>2. QED  BY <1>1, <3>1 DEF SubjectInv, DeletedLeavesNothing
  <2>2. QED  BY <2>1 DEF Export
<1>3. \A k \in DOMAIN entitlements' : k[1] # s
  BY <1>1, <1>2 DEF Writers
<1>4. \A j \in DOMAIN jobs' : jobs'[j].owner # s
  BY <1>1, <1>2 DEF Writers
<1>5. \A id \in DOMAIN events' : events'[id].subject # s
  BY <1>1, <1>2 DEF Writers
<1>6. \A k \in DOMAIN contributions' : k[2] # s
  BY <1>1, <1>2 DEF Writers
<1>7. \A k \in DOMAIN keys' : Owner(k) # s
  BY <1>4 DEF TablesInv, Owner
<1>8. \A part \in DOMAIN Export(s)' : Export(s)'[part] = {}
  BY <1>3, <1>4, <1>5 DEF Export
<1>9. QED  BY <1>6, <1>7, <1>8

-----------------------------------------------------------------------------
\* The deletion: what is left belongs to others.
LEMMA DeletionRemoves ==
  ASSUME SubjectInv, NEW s \in Subjects, DeleteSubject(s)
  PROVE  SubjectInv'
<1>1. /\ UNCHANGED <<now, subscription, request, call, pass, ids>>
      /\ forgotten' = forgotten \union {s}
      /\ accepted' = {a \in accepted : Owner(a.slot) # s}
      /\ RemoveJobs(Export(s).jobs)
  BY DEF DeleteSubject
<1>2. /\ DOMAIN entitlements' = {k \in DOMAIN entitlements : k[1] # s}
      /\ \A k \in DOMAIN entitlements' : entitlements'[k] = entitlements[k]
  BY DEF DeleteSubject, Restrict, Export
<1>3. /\ DOMAIN events' = DOMAIN events
      /\ \A id \in DOMAIN events : events'[id] =
           IF events[id].subject = s THEN [events[id] EXCEPT !.subject = Forgotten] ELSE events[id]
  BY DEF DeleteSubject
<1>4. \A id \in DOMAIN events :
        /\ events'[id] \in StoreTransaction /\ events'[id].id = id
        /\ events[id].subject = s => events'[id].subject = Forgotten
        /\ events[id].subject # s => events'[id] = events[id]
  BY <1>3 DEF SubjectInv, BillingInv, StoreTransaction
<1>5. BillingInv'
  <2>1. ASSUME NEW k \in DOMAIN entitlements'
        PROVE  /\ Row(events', entitlements'[k].last)
               /\ Key(events'[entitlements'[k].last]) = k
               /\ entitlements'[k] = EntitlementFrom(events'[entitlements'[k].last])
               /\ \A id \in DOMAIN events' :
                    Key(events'[id]) = k => ~Later(events'[id], entitlements'[k])
    <3>1. /\ k \in DOMAIN entitlements /\ entitlements'[k] = entitlements[k]
          /\ k[1] # s /\ k[1] \in Subjects
      BY <1>2 DEF SubjectInv, BillingInv
    <3>2. /\ Row(events, entitlements[k].last)
          /\ Key(events[entitlements[k].last]) = k
          /\ entitlements[k] = EntitlementFrom(events[entitlements[k].last])
          /\ \A id \in DOMAIN events : Key(events[id]) = k => ~Later(events[id], entitlements[k])
      BY <3>1 DEF SubjectInv, BillingInv, EntitlementIsNewest, Key
    <3>3. \A id \in DOMAIN events : Key(events[id]) = k => events'[id] = events[id]
      BY <1>4, <3>1 DEF Key
    <3>4. \A id \in DOMAIN events : Key(events'[id]) = k => events'[id] = events[id]
      BY <1>4, <3>1, ForgottenAssumption DEF Key
    <3>5. QED  BY <1>3, <3>1, <3>2, <3>3, <3>4 DEF Row
  <2>2. \A id \in DOMAIN events' :
          events'[id].subject = Forgotten \/ Row(entitlements', Key(events'[id]))
    BY <1>2, <1>3, <1>4 DEF SubjectInv, BillingInv, EntitlementIsNewest, Key, Row
  <2>3. EntitlementIsNewest'
    BY <2>1, <2>2 DEF EntitlementIsNewest, Key, Row
  <2>4. QED  BY <1>1, <1>2, <1>3, <1>4, <2>3 DEF SubjectInv, BillingInv
<1>6. AcceptanceInv'
  <2>1. Export(s).jobs \in SUBSET DOMAIN jobs
    BY DEF Export
  <2>2. ASSUME NEW a \in accepted', Live(a), a.job \in Export(s).jobs
        PROVE  FALSE
    <3>1. a \in accepted /\ Owner(a.slot) # s
      BY <1>1, <2>2
    <3>2. a.job \in DOMAIN jobs /\ jobs[a.job].owner = s
      BY <2>2 DEF Export
    <3>3. QED  BY <2>2, <3>1, <3>2, ToldAge DEF SubjectInv
  <2>3. /\ TablesInv' /\ CallsInv' /\ ToldInv'
        /\ DOMAIN keys' \subseteq DOMAIN keys /\ DOMAIN jobs' \subseteq DOMAIN jobs
        /\ \A k \in DOMAIN keys' : keys'[k] = keys[k]
        /\ \A j \in DOMAIN jobs' : jobs'[j] = jobs[j]
    BY <1>1, <2>1, <2>2, RemovalKeeps DEF SubjectInv
  <2>4. PassInv'
    <3>1. Expired("idempotency")' \subseteq Expired("idempotency")
      BY <1>1, <2>3 DEF Expired
    <3>2. Expired("job_metadata")' \subseteq Expired("job_metadata")
      BY <1>1, <2>3 DEF Expired
    <3>3. now \in Nat /\ now' = now /\ pass' = pass
      BY <1>1 DEF SubjectInv, AcceptanceInv, TablesInv
    <3>4. QED  BY <3>1, <3>2, <3>3, PassStays DEF SubjectInv
  <2>5. QED  BY <2>3, <2>4 DEF AcceptanceInv
<1>7. DeletedLeavesNothing'
  <2>1. ASSUME NEW u \in forgotten'
        PROVE  /\ \A k \in DOMAIN entitlements' : k[1] # u
               /\ \A j \in DOMAIN jobs' : jobs'[j].owner # u
               /\ \A id \in DOMAIN events' : events'[id].subject # u
               /\ \A k \in DOMAIN contributions' : k[2] # u
    <3>1. u \in Subjects /\ u # Forgotten
      BY <1>1, <2>1, ForgottenAssumption DEF SubjectInv
    <3>2. /\ DOMAIN jobs' = DOMAIN jobs \ Export(s).jobs
          /\ \A j \in DOMAIN jobs' : jobs'[j] = jobs[j]
          /\ DOMAIN contributions' = {k \in DOMAIN contributions : k[2] # s}
      BY <1>1 DEF RemoveJobs, Restrict, DeleteSubject
    <3>3. CASE u = s
      BY <1>2, <1>3, <1>4, <3>1, <3>2, <3>3 DEF Export
    <3>4. CASE u \in forgotten
      <4>1. {"entitlements", "jobs", "billing_events"} = DOMAIN Export(u)
        BY DEF Export
      <4>2. /\ Export(u).entitlements = {} /\ Export(u).jobs = {} /\ Export(u).billing_events = {}
            /\ \A k \in DOMAIN contributions : k[2] # u
        BY <3>4, <4>1 DEF SubjectInv, DeletedLeavesNothing
      <4>3. QED  BY <1>2, <1>3, <1>4, <3>1, <3>2, <4>2 DEF Export
    <3>5. QED  BY <1>1, <3>3, <3>4
  <2>2. \A u \in forgotten' : \A k \in DOMAIN keys' : Owner(k) # u
    BY <1>6, <2>1 DEF AcceptanceInv, TablesInv, Owner
  <2>3. \A u \in forgotten' : \A part \in DOMAIN Export(u)' : Export(u)'[part] = {}
    BY <2>1 DEF Export
  <2>4. QED  BY <2>1, <2>2, <2>3 DEF DeletedLeavesNothing, Owner
<1>8. QED  BY <1>1, <1>5, <1>6, <1>7 DEF SubjectInv

-----------------------------------------------------------------------------
\* Every step: of a request or the retention, of time, and the deletion.
LEMMA SubjectStep ==
  ASSUME SubjectInv, [SubjectNext]_subjectVars
  PROVE  SubjectInv'
<1>1. now \in Nat
  BY DEF SubjectInv, AcceptanceInv, TablesInv
<1>2. CASE Serving
  <2>1. UNCHANGED now /\ Written /\ forgotten' \subseteq forgotten
    BY <1>2 DEF Serving, Written
  <2>2. CASE Billing
    <3>1. BillingInv' /\ UNCHANGED <<jobs, keys, images, call, accepted, pass, ids>>
      BY <1>1, <2>2, BillingStep DEF Billing, SubjectInv, acceptanceVars
    <3>2. AcceptanceInv'
      BY <2>1, <3>1 DEF SubjectInv, AcceptanceInv, TablesInv, CallsInv, ToldInv, PassInv,
                        Holds, Live, Expired, Told, Owner
    <3>3. DeletedLeavesNothing'
      BY <2>1, <2>2, <3>1, <3>2, EventsStay, ServingLeavesNothing DEF Billing, AcceptanceInv
    <3>4. QED  BY <2>1, <3>1, <3>2, <3>3 DEF SubjectInv
  <2>3. CASE Accepting
    <3>1. AcceptanceInv' /\ UNCHANGED <<subscription, request, events, entitlements>>
      BY <2>1, <2>3, AcceptanceStep DEF Accepting, SubjectInv, billingVars
    <3>2. BillingInv'
      BY <3>1 DEF SubjectInv, BillingInv, EntitlementIsNewest, Row
    <3>3. \A j \in DOMAIN jobs \intersect DOMAIN jobs' : jobs'[j].owner = jobs[j].owner
      BY <2>3, OwnersStay DEF Accepting, SubjectInv
    <3>4. DeletedLeavesNothing'
      BY <2>1, <3>1, <3>3, ServingLeavesNothing DEF AcceptanceInv
    <3>5. QED  BY <2>1, <3>1, <3>2, <3>4 DEF SubjectInv
  <2>4. CASE Comparing
    <3>1. /\ UNCHANGED <<subscription, request, events, entitlements>>
          /\ UNCHANGED <<jobs, keys, images, call, accepted, pass, ids>>
      BY <2>4 DEF Comparing, billingVars, acceptanceVars
    <3>2. BillingInv'
      BY <3>1 DEF SubjectInv, BillingInv, EntitlementIsNewest, Row
    <3>3. AcceptanceInv'
      BY <2>1, <3>1 DEF SubjectInv, AcceptanceInv, TablesInv, CallsInv, ToldInv, PassInv,
                        Holds, Live, Expired, Told, Owner
    <3>4. DeletedLeavesNothing'
      BY <2>1, <3>1, <3>3, ServingLeavesNothing DEF AcceptanceInv
    <3>5. QED  BY <2>1, <3>2, <3>3, <3>4 DEF SubjectInv
  <2>5. QED  BY <1>2, <2>2, <2>3, <2>4 DEF Serving
<1>3. CASE Tick
  <2>1. /\ now' = now + 1
        /\ UNCHANGED <<jobs, keys, call, accepted, pass, ids>>
        /\ UNCHANGED <<subscription, request, events, entitlements, contributions, forgotten>>
    BY <1>3 DEF Tick, billingVars, boardVars
  <2>2. AcceptanceInv'
    BY <2>1, AcceptanceAges DEF SubjectInv
  <2>3. QED  BY <2>1, <2>2 DEF SubjectInv, BillingInv, EntitlementIsNewest, Row,
                               DeletedLeavesNothing, Export, Owner
<1>4. CASE \E s \in Subjects : DeleteSubject(s)
  BY <1>4, DeletionRemoves
<1>5. CASE UNCHANGED subjectVars
  BY <1>5 DEF subjectVars, billingVars, acceptanceVars, boardVars, SubjectInv, BillingInv,
              EntitlementIsNewest, Row, AcceptanceInv, TablesInv, CallsInv, ToldInv, PassInv,
              Holds, Live, Expired, Told, Owner, DeletedLeavesNothing, Export
<1>6. QED  BY <1>2, <1>3, <1>4, <1>5 DEF SubjectNext

\* The inductive invariant of the data kept per subject.
THEOREM SubjectInvariant == SubjectSpec => []SubjectInv
BY SubjectStarts, SubjectStep, PTL DEF SubjectSpec

\* An entitlement is what the newest recorded event says, in whatever order and
\* from whichever store events come and however verifications overlap
\* (entitlement_repository.apply, privacy_repository.delete_subject).
THEOREM EntitlementsCorrect == SubjectSpec => []EntitlementIsNewest
<1>1. SubjectInv => EntitlementIsNewest
  BY DEF SubjectInv, BillingInv
<1>2. QED  BY <1>1, SubjectInvariant, PTL

\* A retry within the life of its key is told of the same job, and the job is
\* there, against purges and deletions, for every setting of the two retention
\* times; where they let jobs go first, it ends whole and not before JobTTL
\* (_create_once, _resolve_existing, purge_before, RetentionSettings).
THEOREM RetriesCorrect == SubjectSpec => []RetryKeepsJob
<1>1. SubjectInv => RetryKeepsJob
  BY ToldImpliesRetry DEF SubjectInv
<1>2. QED  BY <1>1, SubjectInvariant, PTL

\* Nothing leads to a deleted subject until it writes again (delete_subject).
THEOREM DeletionCorrect == SubjectSpec => []DeletedLeavesNothing
<1>1. SubjectInv => DeletedLeavesNothing
  BY DEF SubjectInv
<1>2. QED  BY <1>1, SubjectInvariant, PTL

\* A pass that ends has removed what had expired at its begin, in batches of any
\* size, of every class that no deletion shortened a count of
\* (RetentionWorker.run, purge_before).
THEOREM RetentionCorrect == SubjectSpec => PassPurgesExpired
<1>1. ASSUME SubjectInv, [SubjectNext]_subjectVars, Purge, pass' = Rest
      PROVE  /\ "idempotency" \notin Cut =>
                  \A k \in DOMAIN keys' : keys'[k].created + IdempotencyTTL > pass.at
             /\ "job_metadata" \notin Cut =>
                  \A j \in DOMAIN jobs' :
                    jobs'[j].completed = 0 \/ jobs'[j].completed + JobTTL > pass.at
  <2>1. pass # Rest
    BY <1>1 DEF Purge, Rest
  <2>2. UNCHANGED now
    BY <1>1, <2>1 DEF SubjectNext, Serving, Written, Tick, DeleteSubject, subjectVars,
                      acceptanceVars
  <2>3. QED  BY <1>1, <2>2, PurgeKeeps DEF SubjectInv
<1>2. SubjectInv /\ [SubjectNext]_subjectVars =>
        [Purge /\ pass' = Rest =>
           /\ "idempotency" \notin Cut =>
                \A k \in DOMAIN keys' : keys'[k].created + IdempotencyTTL > pass.at
           /\ "job_metadata" \notin Cut =>
                \A j \in DOMAIN jobs' :
                  jobs'[j].completed = 0 \/ jobs'[j].completed + JobTTL > pass.at]_acceptanceVars
  BY <1>1
<1>3. QED  BY <1>2, SubjectInvariant, PTL DEF SubjectSpec, PassPurgesExpired

-----------------------------------------------------------------------------
\* The leaderboard.

Lifetime == TTLDays * DayLength

\* What the threshold on rows leaves of PercentileIsKAnonymous: a subject may own
\* a row of each of the TTLDays + 1 days on which a row can be alive.
SubjectsBehindPercentile ==
  standing.status = "available" =>
    Cardinality({k[2] : k \in standing.counted} \ {standing.of}) * (TTLDays + 1) >= MinimumSize

\* A row was written on its day and expires a fixed time later.
BoardInv ==
  /\ now \in Nat
  /\ IsFiniteSet(DOMAIN contributions)
  /\ \A k \in DOMAIN contributions :
       /\ k \in Cohorts \X Subjects \X Nat
       /\ contributions[k].score \in Scores
       /\ \E at \in 0 .. now : k[3] = at \div DayLength /\ contributions[k].expires = at + Lifetime
  /\ SubjectsBehindPercentile

\* Arithmetic the provers do not find at once.
LEMMA MultiplyBoth ==
  ASSUME NEW a \in Nat, NEW b \in Nat, NEW c \in Nat, a <= b
  PROVE  a * c <= b * c
<1>1. b - a \in Nat /\ (b - a) * c \in Nat
  OBVIOUS
<1>2. b * c = a * c + (b - a) * c
  OBVIOUS
<1>3. a * c \in Nat /\ b * c \in Nat
  OBVIOUS
<1>4. QED  BY <1>1, <1>2, <1>3

\* The day of a reading of the clock.
LEMMA DayOf ==
  ASSUME NEW t \in Nat, NEW l \in Nat \ {0}
  PROVE  /\ t \div l \in Nat
         /\ (t \div l) * l <= t /\ t < (t \div l) * l + l
OBVIOUS

\* A row that has not expired was written today or on one of the TTLDays days before.
LEMMA LiveDays ==
  ASSUME NEW at \in Nat, NEW t \in Nat, NEW l \in Nat \ {0}, NEW days \in Nat,
         at <= t, t < at + days * l
  PROVE  at \div l \in (t \div l) - days .. t \div l
<1> DEFINE a == at \div l  b == t \div l
<1>1. a \in Nat /\ a * l <= at /\ at < a * l + l
  BY DayOf
<1>2. b \in Nat /\ b * l <= t /\ t < b * l + l
  BY DayOf
<1> HIDE DEF a, b
<1>3. a <= b
  <2> SUFFICES ASSUME b + 1 <= a PROVE FALSE
    BY <1>1, <1>2
  <2>1. (b + 1) * l <= a * l
    BY <1>1, <1>2, MultiplyBoth
  <2>2. (b + 1) * l = b * l + l /\ a * l \in Nat /\ b * l \in Nat
    BY <1>1, <1>2
  <2>3. QED  BY <1>1, <1>2, <2>1, <2>2
<1>4. b <= a + days
  <2> SUFFICES ASSUME a + days + 1 <= b PROVE FALSE
    BY <1>1, <1>2
  <2>1. (a + days + 1) * l <= b * l
    BY <1>1, <1>2, MultiplyBoth
  <2>2. (a + days + 1) * l = a * l + days * l + l
    BY <1>1, <1>2
  <2>3. a * l \in Nat /\ b * l \in Nat /\ days * l \in Nat
    BY <1>1, <1>2
  <2>4. QED  BY <1>1, <1>2, <2>1, <2>2, <2>3
<1>5. QED  BY <1>1, <1>2, <1>3, <1>4 DEF a, b

\* Rows of one cohort number at most the subjects times the days.
LEMMA CrowdBound ==
  ASSUME NEW rows, NEW cohort, NEW first \in Int, NEW days \in Nat, IsFiniteSet(rows),
         NEW people, people = {k[2] : k \in rows},
         \A k \in rows : /\ k = <<cohort, k[2], k[3]>> /\ k[3] \in first .. first + days
  PROVE  Cardinality(rows) <= Cardinality(people) * (days + 1)
<1>1. IsFiniteSet(people)
  <2> DEFINE f == [k \in rows |-> k[2]]
  <2>1. f \in Surjection(rows, people)
    BY DEF Surjection
  <2>2. QED  BY <2>1, FS_Surjection
<1> DEFINE span == first .. first + days
           pairs == people \X span
           g == [k \in rows |-> <<k[2], k[3]>>]
<1>2. IsFiniteSet(span) /\ Cardinality(span) = days + 1
  BY FS_Interval
<1>3. g \in Injection(rows, pairs)
  <2>1. g \in [rows -> pairs]
    OBVIOUS
  <2>2. ASSUME NEW j \in rows, NEW k \in rows, g[j] = g[k] PROVE j = k
    BY <2>2
  <2>3. QED  BY <2>1, <2>2 DEF Injection, IsInjective
<1> HIDE DEF g, span
<1>4. IsFiniteSet(pairs) /\ Cardinality(pairs) = Cardinality(people) * Cardinality(span)
  BY <1>1, <1>2, FS_Product
<1>5. Cardinality(rows) <= Cardinality(pairs)
  BY <1>3, <1>4, FS_Injection
<1>6. QED  BY <1>2, <1>4, <1>5

\* The percentile of a request.
LEMMA PercentileKeeps ==
  ASSUME BoardInv, NEW cohort \in Cohorts, NEW s \in Subjects, NEW score \in Scores,
         Percentile(cohort, s, score), UNCHANGED now
  PROVE  BoardInv'
<1> DEFINE own == <<cohort, s, Day>>
           rows == Counted(contributions', cohort, s)
           people == {k[2] : k \in rows}
<1>1. now \in Nat /\ DayLength \in Nat \ {0} /\ TTLDays \in Nat \ {0} /\ Day \in Nat
  BY LeaderboardAssumption, DayOf DEF BoardInv, Day
<1>2. Lifetime \in Nat
  BY <1>1 DEF Lifetime
<1>3. /\ DOMAIN contributions' \subseteq DOMAIN contributions \union {own}
      /\ contributions'[own] = [score |-> score, expires |-> now + Lifetime]
      /\ \A k \in DOMAIN contributions' : k # own =>
           k \in DOMAIN contributions /\ contributions'[k] = contributions[k]
  BY DEF Percentile, Recorded, With, Restrict, Lifetime
<1>4. IsFiniteSet(DOMAIN contributions')
  <2>1. IsFiniteSet(DOMAIN contributions \union {own})
    BY FS_AddElement DEF BoardInv
  <2>2. QED  BY <1>3, <2>1, FS_Subset
<1>5. ASSUME NEW k \in DOMAIN contributions'
      PROVE  /\ k \in Cohorts \X Subjects \X Nat
             /\ contributions'[k].score \in Scores
             /\ \E at \in 0 .. now :
                  k[3] = at \div DayLength /\ contributions'[k].expires = at + Lifetime
  <2>1. CASE k = own
    <3>1. now \in 0 .. now /\ own[3] = now \div DayLength
      BY <1>1 DEF Day
    <3>2. QED  BY <1>1, <1>3, <2>1, <3>1
  <2>2. CASE k # own
    BY <1>3, <2>2 DEF BoardInv
  <2>3. QED  BY <2>1, <2>2
<1>6. rows \subseteq DOMAIN contributions' /\ IsFiniteSet(rows)
  <2>1. rows \subseteq DOMAIN contributions'
    BY DEF Counted
  <2>2. QED  BY <1>4, <2>1, FS_Subset
<1>7. ASSUME NEW k \in rows
      PROVE  /\ k = <<cohort, k[2], k[3]>> /\ k[2] # s
             /\ k[3] \in Day - TTLDays .. Day - TTLDays + TTLDays
  <2>1. /\ k \in DOMAIN contributions' /\ k[1] = cohort /\ k[2] # s
        /\ contributions'[k].expires > now
    BY DEF Counted
  <2>2. PICK at \in 0 .. now : k[3] = at \div DayLength /\ contributions'[k].expires = at + Lifetime
    BY <1>5, <2>1
  <2>3. at \in Nat /\ at <= now /\ now < at + TTLDays * DayLength
    BY <1>1, <1>2, <2>1, <2>2 DEF Lifetime
  <2>4. k[3] \in Day - TTLDays .. Day
    BY <1>1, <2>2, <2>3, LiveDays DEF Day
  <2>5. Day - TTLDays + TTLDays = Day
    BY <1>1
  <2>6. QED  BY <1>5, <2>1, <2>4, <2>5
<1> HIDE DEF rows
<1>8. Cardinality(rows) <= Cardinality(people) * (TTLDays + 1)
  <2>1. Day - TTLDays \in Int
    BY <1>1
  <2>2. QED  BY <1>1, <1>6, <1>7, <2>1, CrowdBound
<1>9. people \ {s} = people
  BY <1>7
<1> HIDE DEF people
<1>10. SubjectsBehindPercentile'
  <2> DEFINE less == {k \in rows : contributions'[k].score < score}
             equal == {k \in rows : contributions'[k].score = score}
  <2>1. standing' =
          IF Cardinality(rows) < MinimumSize
          THEN [status |-> "insufficient_cohort", of |-> s, counted |-> rows]
          ELSE [status |-> "available", of |-> s, counted |-> rows,
                bucket |-> PercentileBucket(Cardinality(less), Cardinality(equal), Cardinality(rows))]
    BY DEF Percentile, rows
  <2>2. Cardinality(rows) \in Nat
    BY <1>6, FS_CardinalityType
  <2> HIDE DEF less, equal
  <2>3. CASE Cardinality(rows) < MinimumSize
    <3>1. standing'.status = "insufficient_cohort"
      BY <2>1, <2>3
    <3>2. QED  BY <3>1 DEF SubjectsBehindPercentile
  <2>4. CASE ~(Cardinality(rows) < MinimumSize)
    <3>1. MinimumSize \in Nat \ {0}
      BY LeaderboardAssumption
    <3>2. Cardinality(rows) \in Nat \ {0} /\ Cardinality(rows) >= MinimumSize
      BY <2>2, <2>4, <3>1
    <3>3. standing'.counted = rows /\ standing'.of = s
      BY <2>1, <2>4
    <3>5. {k[2] : k \in standing'.counted} \ {standing'.of} = people
      BY <1>9, <3>3 DEF people
    <3>6. Cardinality(people) * (TTLDays + 1) >= MinimumSize
      <4>1. IsFiniteSet(people)
        <5> DEFINE f == [k \in rows |-> k[2]]
        <5>1. f \in Surjection(rows, people)
          BY DEF Surjection, people
        <5>2. QED  BY <1>6, <5>1, FS_Surjection
      <4>2. Cardinality(people) \in Nat
        BY <4>1, FS_CardinalityType
      <4>3. Cardinality(people) * (TTLDays + 1) \in Nat
        BY <1>1, <4>2
      <4>4. QED  BY <1>8, <2>2, <3>1, <3>2, <4>3
    <3>7. QED  BY <3>5, <3>6 DEF SubjectsBehindPercentile
  <2>5. QED  BY <2>3, <2>4
<1>11. QED  BY <1>1, <1>4, <1>5, <1>10 DEF BoardInv

\* Every step of the data kept per subject.
LEMMA BoardStep ==
  ASSUME BoardInv, [SubjectNext]_subjectVars
  PROVE  BoardInv'
<1>1. CASE UNCHANGED <<now, contributions, standing>>
  BY <1>1 DEF BoardInv, SubjectsBehindPercentile
<1>2. CASE Serving
  <2>1. CASE Billing \/ Accepting
    BY <1>1, <1>2, <2>1 DEF Serving, Written, Billing, Accepting, boardVars
  <2>2. CASE Comparing
    BY <1>2, <2>2, PercentileKeeps DEF Serving, Written, Comparing, BoardNext
  <2>3. QED  BY <1>2, <2>1, <2>2 DEF Serving
<1>3. CASE Tick
  <2>1. now' = now + 1 /\ UNCHANGED <<contributions, standing>>
    BY <1>3 DEF Tick, boardVars
  <2>2. now' \in Nat /\ 0 .. now \subseteq 0 .. now'
    BY <2>1 DEF BoardInv
  <2>3. QED  BY <2>1, <2>2 DEF BoardInv, SubjectsBehindPercentile
<1>4. ASSUME NEW s \in Subjects, DeleteSubject(s) PROVE BoardInv'
  <2>1. /\ UNCHANGED <<now, standing>>
        /\ DOMAIN contributions' \subseteq DOMAIN contributions
        /\ \A k \in DOMAIN contributions' : contributions'[k] = contributions[k]
    BY <1>4 DEF DeleteSubject, Restrict
  <2>2. IsFiniteSet(DOMAIN contributions')
    BY <2>1, FS_Subset DEF BoardInv
  <2>3. QED  BY <2>1, <2>2 DEF BoardInv, SubjectsBehindPercentile
<1>5. CASE UNCHANGED subjectVars
  BY <1>1, <1>5 DEF subjectVars, boardVars
<1>6. QED  BY <1>2, <1>3, <1>4, <1>5 DEF SubjectNext

LEMMA BoardStarts == SubjectInit => BoardInv
<1>1. DOMAIN << >> = {}
  OBVIOUS
<1>2. QED
  BY <1>1, FS_EmptySet DEF SubjectInit, BoardInit, BoardInv, SubjectsBehindPercentile, NoStanding

\* How far a percentile can fall short of k-anonymity: it rests on at least a
\* (TTLDays + 1)th of the threshold in other subjects, whatever was recorded,
\* expired and deleted (leaderboard/service.py, record_and_list).
THEOREM PercentileShortfall == SubjectSpec => []SubjectsBehindPercentile
<1>1. BoardInv => SubjectsBehindPercentile
  BY DEF BoardInv
<1>2. QED  BY <1>1, BoardStarts, BoardStep, PTL DEF SubjectSpec

-----------------------------------------------------------------------------
\* Types of everything kept per subject.

\* The clock stays within its bound, and an image is stored under a reference
\* that was drawn.
DrawnInv == now \in 1 .. MaxTime /\ DOMAIN images \subseteq 1 .. ids.image

LEMMA DrawnStep ==
  ASSUME SubjectInv, DrawnInv, [SubjectNext]_subjectVars
  PROVE  DrawnInv'
<1> USE TimeAssumption
<1>1. ids \in [job : Nat, image : Nat]
  BY DEF SubjectInv, AcceptanceInv, TablesInv
<1>2. CASE UNCHANGED <<now, images, ids>>
  BY <1>2 DEF DrawnInv
<1>3. CASE Serving
  <2>1. CASE Billing \/ Comparing
    BY <1>2, <1>3, <2>1 DEF Serving, Written, Billing, Comparing, acceptanceVars
  <2>2. CASE Accepting
    <3>1. UNCHANGED now
      BY <1>3 DEF Serving, Written
    <3>2. ASSUME NEW c \in Calls, NEW s \in Subjects, NEW key \in Keys, NEW image \in Contents,
                 Upload(c, s, key, image)
          PROVE  DrawnInv'
      <4>1. ids'.image = ids.image + 1 /\ DOMAIN images' = {ids'.image} \union DOMAIN images
        BY <1>1, <3>2 DEF Upload, With
      <4>2. QED  BY <1>1, <3>1, <4>1 DEF DrawnInv
    <3>3. ASSUME NEW c \in Calls, Create(c) PROVE DrawnInv'
      BY <1>1, <3>1, <3>3 DEF Create, DrawnInv
    <3>4. ASSUME NEW j \in DOMAIN jobs, FinishJob(j) PROVE DrawnInv'
      BY <3>1, <3>4 DEF FinishJob, Restrict, DrawnInv
    <3>5. CASE UNCHANGED <<images, ids>>
      BY <1>2, <3>1, <3>5
    <3>6. QED
      BY <2>2, <3>2, <3>3, <3>4, <3>5
         DEF Accepting, AcceptanceNext, Submit, FindKey, ReadJob, StartPass, SelectBatch,
             Purge, PassFails
  <2>3. QED  BY <1>3, <2>1, <2>2 DEF Serving
<1>4. CASE Tick
  BY <1>4 DEF Tick, Restrict, DrawnInv
<1>5. ASSUME NEW s \in Subjects, DeleteSubject(s) PROVE DrawnInv'
  BY <1>2, <1>5 DEF DeleteSubject
<1>6. CASE UNCHANGED subjectVars
  BY <1>2, <1>6 DEF subjectVars, acceptanceVars
<1>7. QED  BY <1>3, <1>4, <1>5, <1>6 DEF SubjectNext

\* Types and foreign keys of every table of a subject, through every order of
\* purchases, requests, purges and deletions (infrastructure/tables.py).
THEOREM SubjectTyped == SubjectSpec => []SubjectTypeOK
<1>1. SubjectInit => DrawnInv /\ BoardInv
  <2>1. SubjectInit => DrawnInv
    BY TimeAssumption DEF SubjectInit, AcceptanceInit, DrawnInv
  <2>2. QED  BY <2>1, BoardStarts
<1>2. ASSUME SubjectInv, DrawnInv, BoardInv PROVE SubjectTypeOK
  <2>1. BillingTypeOK
    <3>1. \A r \in Requests : request[r].subject \in Subjects \union {Forgotten}
      BY <1>2 DEF SubjectInv, BillingInv, Request, Idle
    <3>2. QED  BY <1>2, <3>1 DEF SubjectInv, BillingInv, BillingTypeOK
  <2>2. AcceptanceTypeOK
    <3>1. TablesInv /\ CallsInv /\ PassInv
      BY <1>2 DEF SubjectInv, AcceptanceInv
    <3>2. \A c \in Calls : call[c].stage \in {"none", "submitted", "found"}
      BY <3>1 DEF CallsInv, CallRow, NoCall
    <3>3. \A j \in DOMAIN jobs : jobs[j].owner \in Subjects
      BY <3>1 DEF TablesInv, JobRow
    <3>4. /\ pass.class \in {"none", "idempotency", "job_metadata"} /\ pass.at <= now
          /\ pass.stage \in {"none", "select", "delete"}
      BY <3>1 DEF PassInv, PassRow
    <3>5. QED  BY <1>2, <3>1, <3>2, <3>3, <3>4 DEF TablesInv, DrawnInv, AcceptanceTypeOK
  <2>3. BoardTypeOK
    <3>1. ASSUME NEW k \in DOMAIN contributions
          PROVE  /\ k \in Cohorts \X Subjects \X Nat /\ contributions[k].score \in Scores
                 /\ contributions[k].expires \in Nat
      <4>1. k \in Cohorts \X Subjects \X Nat /\ contributions[k].score \in Scores
        BY <1>2 DEF BoardInv
      <4>2. PICK at \in 0 .. now : contributions[k].expires = at + Lifetime
        BY <1>2 DEF BoardInv
      <4>3. Lifetime \in Nat /\ now \in Nat
        BY <1>2, LeaderboardAssumption DEF BoardInv, Lifetime
      <4>4. QED  BY <4>1, <4>2, <4>3
    <3>2. QED  BY <3>1 DEF BoardTypeOK
  <2>4. QED  BY <1>2, <2>1, <2>2, <2>3 DEF SubjectInv, DrawnInv, SubjectTypeOK
<1>3. QED
  BY <1>1, <1>2, SubjectInvariant, DrawnStep, BoardStep, PTL DEF SubjectSpec
=============================================================================
