---------------------------- MODULE ServiceProofs ----------------------------
(***************************************************************************)
(* Theorems about the parts that a request or a tap meets, for any limits,  *)
(* clocks, requests, jobs and configurations: the local runtime keeps the   *)
(* contract of an accepted job, a purchase is not cut off from its answer   *)
(* and is granted before access is shown, the rate limiter admits no more   *)
(* than its limit in a window however its clocks differ, a service is       *)
(* called only for what passed the whole gate, the local coach keeps the    *)
(* topics of its sessions apart, and the grounded coach shows only figures  *)
(* that it was given and that the provider cited.                           *)
(***************************************************************************)
EXTENDS LocalExecution, PremiumPurchase, RateLimiter, RequestGate, CoachConversation,
        GroundedCoach, SumsAndRanks

-----------------------------------------------------------------------------
\* The local runtime.

Pending == {"queued", "running"}
LocalRecords ==
  [owner : LocalOwners, kind : {"coach", "receipt"}, payload : LocalPayloads \union Nat,
   status : Pending \union {"succeeded", "failed"}]

\* A task that has not ended has a job that has not settled, and a success has
\* its result.
TaskMatchesJob(j) ==
  /\ localJobs[j] \in LocalRecords
  /\ localTasks[j] \in {"created", "working", "done"}
  /\ localTasks[j] # "done" => localJobs[j].status \in Pending
  /\ localJobs[j].status = "succeeded" => j \in localResults

Drawn == [job : 0 .. MaxLocalJobs, image : 0 .. MaxLocalImages]

LocalInv ==
  /\ drawn \in Drawn
  /\ DOMAIN localTasks = DOMAIN localJobs
  /\ DOMAIN localJobs \subseteq 1 .. drawn.job
  /\ \A entry \in DOMAIN localKeys : localKeys[entry].job \in DOMAIN localJobs
  /\ localImages \subseteq 1 .. drawn.image
  /\ \A j \in DOMAIN localJobs : TaskMatchesJob(j)

-----------------------------------------------------------------------------
LEMMA JobSettled ==
  ASSUME LocalInv, NEW j \in DOMAIN localJobs,
         NEW status \in Pending \union {"succeeded", "failed"}
  PROVE  /\ DOMAIN Settled(j, status) = DOMAIN localJobs
         /\ Settled(j, status)[j] \in LocalRecords
         /\ Settled(j, status)[j].status = status
         /\ \A i \in DOMAIN localJobs \ {j} : Settled(j, status)[i] = localJobs[i]
<1>1. localJobs[j] \in LocalRecords
  BY DEF LocalInv, TaskMatchesJob
<1>2. QED  BY <1>1 DEF Settled, LocalRecords

\* What AcceptLocal does, for a known key and for a new one.
LEMMA Accepts ==
  ASSUME LocalInv, NEW s \in LocalOwners, NEW kind \in {"coach", "receipt"}, NEW key,
         NEW payload \in LocalPayloads \union Nat, NEW image \in 0 .. MaxLocalImages,
         image >= drawn.image, AcceptLocal(<<s, kind, key>>, payload, image),
         localImages' \subseteq 1 .. image
  PROVE  /\ LocalInv'
         /\ drawn'.image = image
         /\ \/ UNCHANGED <<localJobs, localTasks, localResults>> /\ drawn'.job = drawn.job
            \/ /\ drawn.job + 1 \in 1 .. MaxLocalJobs
               /\ drawn'.job = drawn.job + 1
               /\ DOMAIN localJobs' = DOMAIN localJobs \union {drawn.job + 1}
               /\ localJobs'[drawn.job + 1].status = "queued"
               /\ \A i \in DOMAIN localJobs : localJobs'[i] = localJobs[i]
               /\ localResults' = localResults
<1> DEFINE entry == <<s, kind, key>>
<1>1. drawn.job \in 0 .. MaxLocalJobs /\ drawn.image \in 0 .. MaxLocalImages /\ MaxLocalJobs \in Nat
  BY LocalAssumption DEF LocalInv, Drawn
<1> PICK j : j = drawn.job + 1
  OBVIOUS
<1>2. CASE entry \in DOMAIN localKeys
  <2>1. /\ drawn' = [drawn EXCEPT !.image = image]
        /\ UNCHANGED <<localJobs, localKeys, localTasks, localResults>>
    BY <1>2 DEF AcceptLocal
  <2>2. drawn' \in Drawn /\ drawn'.job = drawn.job /\ drawn'.image = image
    BY <2>1 DEF LocalInv, Drawn
  <2>3. QED  BY <2>1, <2>2 DEF LocalInv, TaskMatchesJob
<1>3. CASE entry \notin DOMAIN localKeys
  <2> DEFINE new == [owner |-> entry[1], kind |-> entry[2], payload |-> payload, status |-> "queued"]
  <2>1. /\ j <= MaxLocalJobs
        /\ drawn' = [job |-> j, image |-> image]
        /\ localJobs' = With(localJobs, j, new)
        /\ localKeys' = With(localKeys, entry, [payload |-> payload, job |-> j])
        /\ localTasks' = With(localTasks, j, "created")
        /\ UNCHANGED localResults
    BY <1>3 DEF AcceptLocal
  <2>2. drawn' \in Drawn /\ drawn'.job = j /\ drawn'.image = image /\ j \in 1 .. MaxLocalJobs
    BY <1>1, <2>1 DEF Drawn
  <2>3. j \notin DOMAIN localJobs
    BY <1>1 DEF LocalInv
  <2>4. new \in LocalRecords /\ new.status = "queued"
    BY DEF LocalRecords, Pending
  <2> HIDE DEF new
  <2>5. /\ DOMAIN localJobs' = DOMAIN localJobs \union {j}
        /\ localJobs'[j] = new
        /\ \A i \in DOMAIN localJobs : localJobs'[i] = localJobs[i]
    BY <2>1, <2>3 DEF With
  <2>6. /\ DOMAIN localTasks' = DOMAIN localTasks \union {j}
        /\ localTasks'[j] = "created"
        /\ \A i \in DOMAIN localJobs : localTasks'[i] = localTasks[i]
    BY <2>1, <2>3 DEF LocalInv, With
  <2>7. \A k \in DOMAIN localKeys' : localKeys'[k].job \in DOMAIN localJobs'
    <3>1. [payload |-> payload, job |-> j].job = j
      OBVIOUS
    <3>2. QED  BY <2>1, <2>5, <3>1 DEF LocalInv, With
  <2>8. TaskMatchesJob(j)'
    BY <2>4, <2>5, <2>6 DEF TaskMatchesJob, Pending
  <2>9. \A i \in DOMAIN localJobs : TaskMatchesJob(i)'
    BY <2>1, <2>5, <2>6 DEF TaskMatchesJob, LocalInv
  <2>10. DOMAIN localJobs' \subseteq 1 .. drawn'.job
    BY <1>1, <2>2, <2>5 DEF LocalInv
  <2>11. LocalInv'
    BY <2>2, <2>5, <2>6, <2>7, <2>8, <2>9, <2>10 DEF LocalInv
  <2>12. QED  BY <2>1, <2>2, <2>4, <2>5, <2>11
<1>4. QED  BY <1>2, <1>3

\* A task whose job goes on or settles, as it starts and as it ends.
LEMMA TaskGoesOn ==
  ASSUME LocalInv, NEW j \in DOMAIN localJobs,
         NEW status \in Pending \union {"succeeded", "failed"}, NEW stage \in {"working", "done"},
         localJobs' = Settled(j, status), localTasks' = [localTasks EXCEPT ![j] = stage],
         localResults \subseteq localResults',
         stage # "done" => status \in Pending, status = "succeeded" => j \in localResults',
         localImages' \subseteq localImages, UNCHANGED <<localKeys, drawn>>
  PROVE  LocalInv'
<1>1. /\ DOMAIN localJobs' = DOMAIN localJobs
      /\ localJobs'[j] \in LocalRecords /\ localJobs'[j].status = status
      /\ \A i \in DOMAIN localJobs \ {j} : localJobs'[i] = localJobs[i]
  BY JobSettled
<1>2. /\ DOMAIN localTasks' = DOMAIN localJobs
      /\ localTasks'[j] = stage
      /\ \A i \in DOMAIN localJobs \ {j} : localTasks'[i] = localTasks[i]
  BY DEF LocalInv
<1>3. TaskMatchesJob(j)'
  BY <1>1, <1>2 DEF TaskMatchesJob
<1>4. \A i \in DOMAIN localJobs \ {j} : TaskMatchesJob(i)'
  BY <1>1, <1>2 DEF TaskMatchesJob, LocalInv
<1>5. QED  BY <1>1, <1>2, <1>3, <1>4 DEF LocalInv

LEMMA SubmitAccepts ==
  ASSUME LocalInv, NEW s \in LocalOwners, NEW key \in LocalKeys, NEW payload \in LocalPayloads,
         SubmitLocal(s, key, payload)
  PROVE  \E n \in 0 .. MaxLocalImages :
           /\ n >= drawn.image
           /\ AcceptLocal(<<s, "coach", key>>, payload, n)
           /\ localImages' \subseteq 1 .. n
<1>1. PICK n \in 0 .. MaxLocalImages : n = drawn.image
  BY DEF LocalInv, Drawn
<1>2. n >= drawn.image /\ AcceptLocal(<<s, "coach", key>>, payload, n)
  BY <1>1, LocalAssumption DEF SubmitLocal
<1>3. localImages' \subseteq 1 .. n
  BY <1>1 DEF SubmitLocal, LocalInv
<1>4. QED  BY <1>2, <1>3

LEMMA UploadAccepts ==
  ASSUME LocalInv, NEW s \in LocalOwners, NEW key \in LocalKeys, UploadLocal(s, key)
  PROVE  \E n \in 0 .. MaxLocalImages :
           /\ n >= drawn.image /\ n \in LocalPayloads \union Nat
           /\ AcceptLocal(<<s, "receipt", key>>, n, n)
           /\ localImages' \subseteq 1 .. n
<1>1. drawn.image \in Nat /\ drawn.image < MaxLocalImages
  BY DEF UploadLocal, LocalInv, Drawn
<1>2. PICK n \in 0 .. MaxLocalImages : n = drawn.image + 1
  BY <1>1, LocalAssumption
<1>3. n >= drawn.image /\ AcceptLocal(<<s, "receipt", key>>, n, n)
  BY <1>1, <1>2 DEF UploadLocal
<1>4. localImages' = localImages \union {n} /\ localImages \subseteq 1 .. n - 1
  BY <1>1, <1>2 DEF UploadLocal, LocalInv
<1>5. n \in Nat /\ n > 0
  BY <1>1, <1>2
<1>6. 1 .. n = (1 .. n - 1) \union {n}
  BY <1>5
<1>7. QED  BY <1>3, <1>4, <1>5, <1>6

LEMMA LocalInvStep == ASSUME LocalInv, [LocalNext]_localVars PROVE LocalInv'
<1>1. ASSUME NEW s \in LocalOwners, NEW key \in LocalKeys, NEW payload \in LocalPayloads,
             SubmitLocal(s, key, payload)
      PROVE  LocalInv'
  BY <1>1, SubmitAccepts, Accepts
<1>2. ASSUME NEW s \in LocalOwners, NEW key \in LocalKeys, UploadLocal(s, key)
      PROVE  LocalInv'
  BY <1>2, UploadAccepts, Accepts
<1>3. ASSUME NEW j \in DOMAIN localTasks, RunLocal(j) PROVE LocalInv'
  BY <1>3, TaskGoesOn DEF RunLocal, LocalInv, Pending
<1>4. ASSUME NEW j \in DOMAIN localTasks, FinishLocal(j) PROVE LocalInv'
  BY <1>4, TaskGoesOn DEF FinishLocal, LocalInv, Pending
<1>5. CASE RestartLocal
  BY <1>5 DEF RestartLocal, LocalInv, Drawn
<1>6. CASE UNCHANGED localVars
  BY <1>6 DEF localVars, LocalInv, TaskMatchesJob
<1>7. QED  BY <1>1, <1>2, <1>3, <1>4, <1>5, <1>6 DEF LocalNext

\* The tables of the local runtime always agree (local_execution.py).
THEOREM LocalInvariant == LocalSpec => []LocalInv
<1>1. ASSUME LocalInit PROVE LocalInv
  BY <1>1, LocalAssumption DEF LocalInit, LocalInv, Drawn
<1>2. QED  BY <1>1, LocalInvStep, PTL DEF LocalSpec

\* Every job has its task and every key leads to a job (_jobs, _tasks,
\* _idempotency of local_execution.py).
THEOREM LocalTyped == LocalSpec => []LocalTypeOK
<1>1. LocalInv => LocalTypeOK
  BY DEF LocalInv, LocalTypeOK, Drawn
<1>2. QED  BY <1>1, LocalInvariant, PTL

-----------------------------------------------------------------------------
\* What get shows of a job, from its record.
LEMMA ShownOf ==
  ASSUME LocalInv, NEW j \in 1 .. MaxLocalJobs
  PROVE  Shown(j) = IF j > drawn.job THEN "none"
                    ELSE IF j \notin DOMAIN localJobs THEN "gone"
                    ELSE IF localJobs[j].status \in Pending THEN "pending"
                    ELSE localJobs[j].status
<1>1. drawn.job \in Nat
  BY DEF LocalInv, Drawn
<1>2. j \in DOMAIN localJobs =>
        /\ j <= drawn.job
        /\ localJobs[j].status \in Pending \union {"succeeded", "failed"}
        /\ localJobs[j].status = "succeeded" => j \in localResults
  BY DEF LocalInv, TaskMatchesJob, LocalRecords
<1>3. CASE j \notin DOMAIN localJobs
  BY <1>1, <1>3 DEF Shown
<1>4. CASE j \in DOMAIN localJobs
  BY <1>1, <1>2, <1>4 DEF Shown, Pending
<1>5. QED  BY <1>3, <1>4

\* A step in which what is shown of one job alone may change.
LEMMA OneMoves ==
  ASSUME NEW j \in 1 .. MaxLocalJobs,
         \A i \in 1 .. MaxLocalJobs : i # j => Shown(i)' = Shown(i),
         \/ Shown(j) = "none" /\ Shown(j)' = "pending"
         \/ Shown(j) = "pending" /\ Shown(j)' \in {"pending", "succeeded", "failed"}
  PROVE  [Promise!Next]_LocalPhase
<1>1. LocalPhase' = [LocalPhase EXCEPT ![j] = Shown(j)']
  BY DEF LocalPhase
<1>2. LocalPhase[j] = Shown(j)
  BY DEF LocalPhase
<1>3. CASE Shown(j) = "none" /\ Shown(j)' = "pending"
  BY <1>1, <1>2, <1>3 DEF Promise!Next, Promise!Submit
<1>4. CASE Shown(j) = "pending" /\ Shown(j)' \in {"succeeded", "failed"}
  BY <1>1, <1>2, <1>4 DEF Promise!Next, Promise!Settle
<1>5. CASE Shown(j)' = Shown(j)
  BY <1>5 DEF LocalPhase
<1>6. QED  BY <1>3, <1>4, <1>5

\* Every step of the runtime is a step of the contract or shows nothing of it.
LEMMA ContractStep ==
  ASSUME LocalInv, LocalInv', [LocalNext]_localVars
  PROVE  [Promise!Next]_LocalPhase
<1>1. ASSUME NEW s \in LocalOwners, NEW key \in LocalKeys, NEW kind \in {"coach", "receipt"},
             NEW payload \in LocalPayloads \union Nat, NEW n \in 0 .. MaxLocalImages,
             n >= drawn.image, AcceptLocal(<<s, kind, key>>, payload, n),
             localImages' \subseteq 1 .. n
      PROVE  [Promise!Next]_LocalPhase
  <2>1. CASE UNCHANGED <<localJobs, localTasks, localResults>> /\ drawn'.job = drawn.job
    BY <2>1 DEF LocalPhase, Shown
  <2>2. CASE /\ drawn.job + 1 \in 1 .. MaxLocalJobs
             /\ drawn'.job = drawn.job + 1
             /\ DOMAIN localJobs' = DOMAIN localJobs \union {drawn.job + 1}
             /\ localJobs'[drawn.job + 1].status = "queued"
             /\ \A i \in DOMAIN localJobs : localJobs'[i] = localJobs[i]
             /\ localResults' = localResults
    <3>1. PICK j \in 1 .. MaxLocalJobs : j = drawn.job + 1
      BY <2>2
    <3>2. drawn.job \in Nat /\ drawn'.job = j /\ DOMAIN localJobs' = DOMAIN localJobs \union {j}
      BY <2>2, <3>1 DEF LocalInv, Drawn
    <3>3. Shown(j) = "none"
      BY <3>1, <3>2, ShownOf
    <3>4. Shown(j)' = "pending"
      BY <2>2, <3>1, <3>2 DEF Shown
    <3>5. ASSUME NEW i \in 1 .. MaxLocalJobs, i # j
          PROVE  Shown(i)' = Shown(i)
      <4>1. (i > drawn'.job <=> i > drawn.job) /\ (i <= drawn'.job <=> i <= drawn.job)
        BY <3>1, <3>2, <3>5
      <4>2. /\ i \in DOMAIN localJobs' <=> i \in DOMAIN localJobs
            /\ i \in DOMAIN localJobs => localJobs'[i] = localJobs[i]
        BY <2>2, <3>2, <3>5
      <4>3. i \in DOMAIN localJobs => ~(i > drawn.job)
        BY <3>2 DEF LocalInv
      <4>4. CASE i \in DOMAIN localJobs
        <5>1. ~(i > drawn.job) /\ ~(i > drawn'.job)
          BY <4>1, <4>3, <4>4
        <5>2. /\ i \in DOMAIN localJobs /\ i \in DOMAIN localJobs'
              /\ localJobs'[i] = localJobs[i] /\ localResults' = localResults
          BY <2>2, <4>2, <4>4
        <5>3. localJobs[i].status \in Pending \union {"succeeded", "failed"}
          BY <4>4 DEF LocalInv, TaskMatchesJob, LocalRecords
        <5>4. QED  BY <5>1, <5>2, <5>3 DEF Shown, Pending
      <4>5. CASE i > drawn.job
        BY <4>1, <4>2, <4>3, <4>5 DEF Shown
      <4>6. CASE i \notin DOMAIN localJobs /\ i <= drawn.job
        BY <3>2, <4>1, <4>2, <4>6 DEF Shown
      <4>7. i > drawn.job \/ i <= drawn.job
        BY <3>2
      <4>8. QED  BY <4>4, <4>5, <4>6, <4>7
    <3>6. QED  BY <3>3, <3>4, <3>5, OneMoves
  <2>3. QED  BY <1>1, <2>1, <2>2, Accepts
<1>2. ASSUME NEW s \in LocalOwners, NEW key \in LocalKeys, NEW payload \in LocalPayloads,
             SubmitLocal(s, key, payload)
      PROVE  [Promise!Next]_LocalPhase
  BY <1>1, <1>2, SubmitAccepts
<1>3. ASSUME NEW s \in LocalOwners, NEW key \in LocalKeys, UploadLocal(s, key)
      PROVE  [Promise!Next]_LocalPhase
  BY <1>1, <1>3, UploadAccepts
<1>4. ASSUME NEW j \in DOMAIN localTasks, RunLocal(j) \/ FinishLocal(j)
      PROVE  [Promise!Next]_LocalPhase
  <2>1. j \in DOMAIN localJobs /\ j \in 1 .. MaxLocalJobs /\ j <= drawn.job
    BY <1>4, LocalAssumption DEF LocalInv, Drawn, TaskMatchesJob
  <2>2. localJobs[j].status \in Pending
    BY <1>4, <2>1 DEF LocalInv, TaskMatchesJob, RunLocal, FinishLocal
  <2>3. PICK status \in {"running", "succeeded", "failed"} : localJobs' = Settled(j, status)
    BY <1>4 DEF RunLocal, FinishLocal
  <2>4. /\ DOMAIN localJobs' = DOMAIN localJobs
        /\ localJobs'[j].status = status
        /\ \A i \in DOMAIN localJobs \ {j} : localJobs'[i] = localJobs[i]
    BY <2>1, <2>3, JobSettled DEF Pending
  <2>5. /\ drawn' = drawn
        /\ \A i : i # j => (i \in localResults' <=> i \in localResults)
    BY <1>4 DEF RunLocal, FinishLocal
  <2>6. Shown(j) = "pending"
    BY <2>1, <2>2, ShownOf DEF LocalInv, Drawn
  <2>7. Shown(j)' \in {"pending", "succeeded", "failed"}
    BY <2>1, <2>3, <2>4, <2>5 DEF Shown, Pending, LocalInv, TaskMatchesJob
  <2>8. \A i \in 1 .. MaxLocalJobs : i # j => Shown(i)' = Shown(i)
    BY <2>4, <2>5 DEF Shown
  <2>9. QED  BY <2>1, <2>6, <2>7, <2>8, OneMoves
<1>5. CASE RestartLocal
  <2> DEFINE gone == DOMAIN localJobs
  <2>1. DOMAIN localJobs' = {} /\ drawn' = drawn
    BY <1>5 DEF RestartLocal
  <2>2. drawn.job \in Nat /\ gone \subseteq 1 .. MaxLocalJobs /\ \A j \in gone : j <= drawn.job
    BY LocalAssumption DEF LocalInv, Drawn
  <2>3. \A j \in gone : Shown(j) \in {"pending", "succeeded", "failed"}
    <3>1. \A j \in gone : localJobs[j].status \in Pending \union {"succeeded", "failed"}
      BY DEF LocalInv, TaskMatchesJob, LocalRecords
    <3>2. QED  BY <2>2, <3>1, ShownOf
  <2>4. \A j \in 1 .. MaxLocalJobs : Shown(j)' = IF j \in gone THEN "gone" ELSE Shown(j)
    BY <2>1, <2>2 DEF Shown
  <2>5. LocalPhase' = [j \in 1 .. MaxLocalJobs |-> IF j \in gone THEN "gone" ELSE LocalPhase[j]]
    BY <2>4 DEF LocalPhase
  <2>6. \A j \in gone : LocalPhase[j] \in {"pending", "succeeded", "failed"}
    BY <2>2, <2>3 DEF LocalPhase
  <2>7. CASE gone = {}
    BY <2>4, <2>7 DEF LocalPhase
  <2>8. CASE gone # {}
    <3>1. Promise!Remove(gone)
      BY <2>5, <2>6, <2>8 DEF Promise!Remove
    <3>2. gone \in SUBSET (1 .. MaxLocalJobs)
      BY <2>2
    <3> HIDE DEF gone
    <3>3. QED  BY <3>1, <3>2 DEF Promise!Next
  <2>9. QED  BY <2>7, <2>8
<1>6. CASE UNCHANGED localVars
  BY <1>6 DEF localVars, LocalPhase, Shown
<1>7. QED  BY <1>2, <1>3, <1>4, <1>5, <1>6 DEF LocalNext

\* The local runtime implements the job contract: what a client sees of a job
\* is pending until one verdict, which stands until the process ends.
THEOREM LocalImplementsContract == LocalSpec => LocalContract
<1>1. LocalInit => Promise!Init
  <2>1. LocalInit => \A j \in 1 .. MaxLocalJobs : Shown(j) = "none"
    BY DEF LocalInit, Shown
  <2>2. QED  BY <2>1 DEF LocalPhase, Promise!Init
<1>2. QED  BY <1>1, LocalInvariant, ContractStep, PTL DEF LocalSpec, LocalContract, Promise!SafeSpec

-----------------------------------------------------------------------------
\* Purchases on the client.

\* What is behind a purchase that has passed the backend.
GrantsKnown ==
  \A h \in Handlers :
    handling[h].step \in {"granted", "finished"} =>
      server.ever /\ Head(handling[h].left).id \in granted

PremiumInv ==
  /\ PremiumTypeOK
  /\ WaiterIsReachable
  /\ AccessWasGranted
  /\ FinishedWasGranted
  /\ GrantsKnown
  /\ server.active => server.ever

TapType == [number : Nat, kind : {"purchase", "restore"},
            phase : {"none", "preparing", "launching", "awaiting", "asking"},
            outcome : {"open", "yes", "no"}]
HandlerType == [left : Seq(Items), step : Steps]

-----------------------------------------------------------------------------
\* Parts of a step.

\* The invariant speaks of these variables alone; what changes no more than the
\* shop and the failures keeps it.
LEMMA OnlyTapMoves ==
  ASSUME PremiumInv,
         UNCHANGED <<check, handling, server, granted, finished>>,
         shop' \in [phase : Resolved \union {"unknown", "listening"}, bound : BOOLEAN],
         failures' \in Nat, slot' \in Nat, tap' \in TapType,
         screen' \in [premium : BOOLEAN, loading : BOOLEAN],
         screen'.premium => server.ever,
         tap'.outcome = "yes" => server.ever,
         tap'.phase \in {"launching", "awaiting"} /\ tap'.outcome = "open"
           => slot' = tap'.number
  PROVE  PremiumInv'
BY DEF PremiumInv, PremiumTypeOK, WaiterIsReachable, AccessWasGranted, FinishedWasGranted,
       GrantsKnown, TapType

\* Fails counts.
LEMMA FailuresCount == ASSUME PremiumTypeOK, Fails PROVE failures' \in Nat
BY DEF PremiumTypeOK, Fails

\* Completing an operation leaves no waiter without its slot, and tells yes only
\* where a grant is known.
LEMMA CompletionKeeps ==
  ASSUME PremiumInv, NEW outcome \in {"yes", "no"}, Complete(outcome),
         outcome = "yes" => server.ever
  PROVE  /\ slot' \in Nat /\ tap' \in TapType
         /\ tap'.outcome = "yes" => server.ever
         /\ tap'.phase \in {"launching", "awaiting"} /\ tap'.outcome = "open"
              => slot' = tap'.number
<1>1. tap \in TapType /\ slot \in Nat /\ WaiterIsReachable /\ AccessWasGranted
  BY DEF PremiumInv, PremiumTypeOK, TapType
<1>2. slot' = 0
  BY DEF Complete, NoTap
<1>3. CASE slot # 0 /\ slot = tap.number
  <2>1. tap' = [tap EXCEPT !.outcome = outcome]
    BY <1>3 DEF Complete, NoTap
  <2> QED
    BY <1>1, <1>2, <2>1 DEF TapType
<1>4. CASE ~(slot # 0 /\ slot = tap.number)
  <2>1. tap' = tap
    BY <1>1, <1>4 DEF Complete, NoTap, TapType
  <2>2. slot = 0 \/ ~(tap.phase \in {"launching", "awaiting"} /\ tap.outcome = "open")
    BY <1>1, <1>4 DEF WaiterIsReachable
  <2> QED
    BY <1>1, <1>2, <2>1, <2>2 DEF WaiterIsReachable, AccessWasGranted
<1> QED
  BY <1>3, <1>4

\* A handler moves to another step of its purchase, or to the next purchase.
LEMMA HandlerMoves ==
  ASSUME NEW h \in Handlers, PremiumTypeOK, NEW left \in Seq(Items), NEW step \in Steps,
         Run(h, left, step)
  PROVE  /\ handling' \in [Handlers -> HandlerType]
         /\ handling'[h] = [left |-> left, step |-> step]
         /\ \A g \in Handlers : g # h => handling'[g] = handling[g]
<1>1. handling \in [Handlers -> HandlerType]
  BY DEF PremiumTypeOK, HandlerType
<1>2. [left |-> left, step |-> step] \in HandlerType
  BY DEF HandlerType
<1> QED
  BY <1>1, <1>2 DEF Run

LEMMA HandlerLeft ==
  ASSUME NEW h \in Handlers, PremiumTypeOK
  PROVE  /\ handling[h].left \in Seq(Items)
         /\ handling[h].left # << >> => Tail(handling[h].left) \in Seq(Items)
<1>1. handling[h] \in HandlerType
  BY DEF PremiumTypeOK, HandlerType
<1>2. handling[h].left \in Seq(Items)
  BY <1>1 DEF HandlerType
<1> QED
  BY <1>2

-----------------------------------------------------------------------------
\* The steps of a tap and of the checks.

LEMMA InitHolds == PremiumInit => PremiumInv
<1> SUFFICES ASSUME PremiumInit PROVE PremiumInv
  OBVIOUS
<1>1. IdleRun \in HandlerType
  BY DEF IdleRun, HandlerType, Steps
<1>2. PremiumTypeOK
  BY <1>1 DEF PremiumInit, PremiumTypeOK, HandlerType, Resolved, NoTap
<1> QED
  BY <1>2 DEF PremiumInit, PremiumInv, WaiterIsReachable, AccessWasGranted,
              FinishedWasGranted, GrantsKnown, IdleRun, NoTap

LEMMA TapStepKeeps ==
  PremiumInv /\ (TapStep \/ InitializeStore \/ \E kind \in {"purchase", "restore"} : Tap(kind))
    => PremiumInv'
<1> SUFFICES ASSUME PremiumInv,
                    TapStep \/ InitializeStore \/ \E kind \in {"purchase", "restore"} : Tap(kind)
             PROVE  PremiumInv'
  OBVIOUS
<1> USE DEF NoTap
<1>1. /\ PremiumTypeOK /\ WaiterIsReachable /\ AccessWasGranted
      /\ tap \in TapType /\ screen \in [premium : BOOLEAN, loading : BOOLEAN]
      /\ shop \in [phase : Resolved \union {"unknown", "listening"}, bound : BOOLEAN]
      /\ slot \in Nat /\ failures \in Nat /\ server.active \in BOOLEAN
      /\ server.active => server.ever
  BY DEF PremiumInv, PremiumTypeOK, TapType
<1>2. /\ screen.premium => server.ever
      /\ tap.outcome = "yes" => server.ever
  BY <1>1 DEF AccessWasGranted
<1>3. Fails => failures' \in Nat
  BY <1>1, FailuresCount
<1>4. ASSUME TapFails
      PROVE  /\ tap' = [tap EXCEPT !.phase = "none"] /\ tap' \in TapType
             /\ tap'.phase = "none" /\ tap'.outcome = tap.outcome
             /\ screen' \in [premium : BOOLEAN, loading : BOOLEAN]
             /\ screen'.premium = screen.premium
  BY <1>1, <1>4 DEF TapFails, TapType
<1>5. [shop EXCEPT !.bound = TRUE]
        \in [phase : Resolved \union {"unknown", "listening"}, bound : BOOLEAN]
  BY <1>1
<1>6. CASE InitializeStore
  <2>1. shop' \in [phase : Resolved \union {"unknown", "listening"}, bound : BOOLEAN]
    BY <1>1, <1>6 DEF InitializeStore
  <2> QED
    BY <1>1, <1>2, <1>6, <2>1, OnlyTapMoves DEF InitializeStore, WaiterIsReachable
<1>7. ASSUME NEW kind \in {"purchase", "restore"}, Tap(kind) PROVE PremiumInv'
  <2>0. tap.number + 1 \in Nat
    BY <1>1 DEF TapType
  <2>1. /\ tap' \in TapType /\ tap'.phase = "preparing" /\ tap'.outcome = "open"
    BY <1>7, <2>0 DEF Tap, TapType
  <2>3. /\ screen' \in [premium : BOOLEAN, loading : BOOLEAN]
        /\ screen'.premium = screen.premium
    BY <1>1, <1>7 DEF Tap
  <2>2. shop' \in [phase : Resolved \union {"unknown", "listening"}, bound : BOOLEAN]
    BY <1>1, <1>7 DEF Tap, Listening
  <2> QED
    BY <1>1, <1>2, <1>7, <2>1, <2>2, <2>3, OnlyTapMoves DEF Tap
<1>8. CASE Prepare
  <2>1. CASE shop.phase = "unavailable" /\ TapFails /\ UNCHANGED <<shop, slot, failures>>
    BY <1>1, <1>2, <1>4, <1>8, <2>1, OnlyTapMoves DEF Prepare
  <2>2. CASE Fails /\ TapFails /\ UNCHANGED <<shop, slot>>
    BY <1>1, <1>2, <1>3, <1>4, <1>8, <2>2, OnlyTapMoves DEF Prepare
  <2>3. CASE /\ slot # NoTap /\ TapFails /\ shop' = [shop EXCEPT !.bound = TRUE]
             /\ UNCHANGED <<slot, failures>>
    BY <1>1, <1>2, <1>4, <1>5, <1>8, <2>3, OnlyTapMoves DEF Prepare
  <2>4. CASE /\ shop' = [shop EXCEPT !.bound = TRUE] /\ slot' = tap.number
             /\ tap' = [tap EXCEPT !.phase = "launching"] /\ UNCHANGED <<screen, failures>>
    <3>1. tap' \in TapType /\ tap'.number = tap.number /\ tap'.outcome = tap.outcome
          /\ tap.number \in Nat
      BY <1>1, <2>4 DEF TapType
    <3> QED
      BY <1>1, <1>2, <1>5, <1>8, <2>4, <3>1, OnlyTapMoves DEF Prepare
  <2> QED
    BY <1>8, <2>1, <2>2, <2>3, <2>4 DEF Prepare
<1>9. CASE Launch
  <2>1. CASE tap' = [tap EXCEPT !.phase = "awaiting"] /\ UNCHANGED <<slot, screen, failures>>
    <3>1. tap' \in TapType /\ tap'.number = tap.number /\ tap'.outcome = tap.outcome
      BY <1>1, <2>1 DEF TapType
    <3> QED
      BY <1>1, <1>2, <1>9, <2>1, <3>1, OnlyTapMoves DEF Launch, WaiterIsReachable
  <2>2. CASE /\ slot' = NoTap
             /\ tap' = [tap EXCEPT !.phase = "awaiting",
                                   !.outcome = IF @ = "open" THEN "no" ELSE @]
             /\ UNCHANGED <<screen, failures>>
    <3>1. /\ tap' \in TapType /\ tap'.outcome # "open"
          /\ tap'.outcome = "yes" => tap.outcome = "yes"
      BY <1>1, <2>2 DEF TapType
    <3> QED
      BY <1>1, <1>2, <1>9, <2>2, <3>1, OnlyTapMoves DEF Launch
  <2>3. CASE Fails /\ TapFails /\ UNCHANGED slot
    BY <1>1, <1>2, <1>3, <1>4, <1>9, <2>3, OnlyTapMoves DEF Launch
  <2> QED
    BY <1>9, <2>1, <2>2, <2>3 DEF Launch
<1>10. CASE TimeOut
  <2>1. CASE TapFails
    BY <1>1, <1>2, <1>4, <1>10, <2>1, OnlyTapMoves DEF TimeOut
  <2>2. CASE tap' = [tap EXCEPT !.phase = "asking"] /\ UNCHANGED screen
    <3>1. tap' \in TapType /\ tap'.phase = "asking" /\ tap'.outcome = tap.outcome
      BY <1>1, <2>2 DEF TapType
    <3> QED
      BY <1>1, <1>2, <1>10, <2>2, <3>1, OnlyTapMoves DEF TimeOut
  <2> QED
    BY <1>10, <2>1, <2>2 DEF TimeOut
<1>11. CASE FallBack
  <2>1. /\ tap' \in TapType /\ tap'.outcome # "open"
        /\ tap'.outcome = "yes" => server.active
    BY <1>1, <1>11 DEF FallBack, TapType
  <2>2. failures' \in Nat
    BY <1>1, <1>3, <1>11 DEF FallBack
  <2> QED
    BY <1>1, <1>2, <1>11, <2>1, <2>2, OnlyTapMoves DEF FallBack
<1>12. CASE Answer
  <2>1. /\ tap' \in TapType /\ tap'.phase = "none" /\ tap'.outcome = tap.outcome
        /\ screen' \in [premium : BOOLEAN, loading : BOOLEAN]
        /\ screen'.premium => screen.premium \/ tap.outcome = "yes"
    BY <1>1, <1>12 DEF Answer, TapType
  <2> QED
    BY <1>1, <1>2, <1>12, <2>1, OnlyTapMoves DEF Answer
<1> QED
  BY <1>6, <1>7, <1>8, <1>9, <1>10, <1>11, <1>12 DEF TapStep

LEMMA CheckStepKeeps ==
  ASSUME PremiumInv, NEW c \in Checks, CheckStep(c)
  PROVE  PremiumInv'
<1> DEFINE CheckType == [phase : {"idle", "preparing", "answered"}, answer : BOOLEAN]
<1>1. /\ PremiumTypeOK /\ AccessWasGranted /\ check \in [Checks -> CheckType]
      /\ shop \in [phase : Resolved \union {"unknown", "listening"}, bound : BOOLEAN]
      /\ server.active \in BOOLEAN /\ (server.active => server.ever)
  BY DEF PremiumInv, PremiumTypeOK
<1>2. ASSUME NEW entry \in CheckType, check' = [check EXCEPT ![c] = entry],
             entry.answer => server.ever,
             UNCHANGED <<slot, tap, handling, server, granted, finished>>,
             shop' \in [phase : Resolved \union {"unknown", "listening"}, bound : BOOLEAN],
             failures' \in Nat,
             screen' \in [premium : BOOLEAN, loading : BOOLEAN],
             screen'.premium => server.ever
      PROVE  PremiumInv'
  <2>1. check' \in [Checks -> CheckType]
    BY <1>1, <1>2
  <2>2. PremiumTypeOK'
    BY <1>1, <1>2, <2>1 DEF PremiumTypeOK
  <2>3. AccessWasGranted'
    BY <1>1, <1>2 DEF AccessWasGranted
  <2> QED
    BY <1>2, <2>2, <2>3 DEF PremiumInv, WaiterIsReachable, FinishedWasGranted, GrantsKnown
<1>3. CASE BeginCheck(c)
  <2>1. /\ [check[c] EXCEPT !.phase = "preparing"] \in CheckType
        /\ [check[c] EXCEPT !.phase = "preparing"].answer = check[c].answer
        /\ check' = [check EXCEPT ![c] = [check[c] EXCEPT !.phase = "preparing"]]
    BY <1>1, <1>3 DEF BeginCheck
  <2>2. shop' \in [phase : Resolved \union {"unknown", "listening"}, bound : BOOLEAN]
    BY <1>1, <1>3 DEF BeginCheck, Listening
  <2> QED
    BY <1>1, <1>2, <1>3, <2>1, <2>2 DEF BeginCheck, AccessWasGranted, PremiumTypeOK
<1>4. CASE Ask(c)
  <2>1. failures' \in Nat
    BY <1>1, <1>4, FailuresCount DEF Ask, PremiumTypeOK
  <2>2. PICK answer \in {server.active, FALSE} :
          check' = [check EXCEPT ![c] = [phase |-> "answered", answer |-> answer]]
    BY <1>4 DEF Ask
  <2>3. [phase |-> "answered", answer |-> answer] \in CheckType
    BY <1>1, <2>2
  <2> QED
    BY <1>1, <1>2, <1>4, <2>1, <2>2, <2>3 DEF Ask, AccessWasGranted, PremiumTypeOK
<1>5. CASE Show(c)
  <2>1. /\ [check[c] EXCEPT !.phase = "idle"] \in CheckType
        /\ [check[c] EXCEPT !.phase = "idle"].answer = check[c].answer
        /\ check' = [check EXCEPT ![c] = [check[c] EXCEPT !.phase = "idle"]]
        /\ check[c].answer \in BOOLEAN
    BY <1>1, <1>5 DEF Show
  <2>2. screen' \in [premium : BOOLEAN, loading : BOOLEAN] /\ screen'.premium = check[c].answer
    BY <1>1, <1>5, <2>1 DEF Show, PremiumTypeOK
  <2> QED
    BY <1>1, <1>2, <1>5, <2>1, <2>2 DEF Show, AccessWasGranted, PremiumTypeOK
<1> QED
  BY <1>3, <1>4, <1>5 DEF CheckStep

-----------------------------------------------------------------------------
\* The steps of a handler.

\* A handler moves; the tap in the slot may be answered; the server and the sets
\* of purchases grow.
LEMMA HandlerStepKeeps ==
  ASSUME PremiumInv, NEW h \in Handlers, NEW left \in Seq(Items), NEW step \in Steps,
         Run(h, left, step),
         UNCHANGED <<shop, screen, check>>, failures' \in Nat,
         UNCHANGED <<slot, tap>> \/ Complete("no") \/ (Complete("yes") /\ server.ever),
         server' \in [active : BOOLEAN, ever : BOOLEAN],
         server'.active => server'.ever, server.ever => server'.ever,
         granted \subseteq granted', finished' \subseteq granted',
         step \in {"granted", "finished"} => server'.ever /\ Head(left).id \in granted'
  PROVE  PremiumInv'
<1>1. /\ PremiumTypeOK /\ WaiterIsReachable /\ AccessWasGranted /\ GrantsKnown
      /\ tap \in TapType /\ slot \in Nat
  BY DEF PremiumInv, PremiumTypeOK, TapType
<1>2. /\ slot' \in Nat /\ tap' \in TapType
      /\ tap'.outcome = "yes" => server.ever
      /\ tap'.phase \in {"launching", "awaiting"} /\ tap'.outcome = "open"
           => slot' = tap'.number
  <2>1. CASE UNCHANGED <<slot, tap>>
    BY <1>1, <2>1 DEF WaiterIsReachable, AccessWasGranted
  <2>2. CASE Complete("no")
    BY <2>2, CompletionKeeps
  <2>3. CASE Complete("yes") /\ server.ever
    BY <2>3, CompletionKeeps
  <2> QED
    BY <2>1, <2>2, <2>3
<1>3. /\ handling' \in [Handlers -> HandlerType]
      /\ handling'[h] = [left |-> left, step |-> step]
      /\ \A g \in Handlers : g # h => handling'[g] = handling[g]
  BY <1>1, HandlerMoves
<1>4. PremiumTypeOK'
  BY <1>1, <1>2, <1>3 DEF PremiumTypeOK, TapType, HandlerType
<1>5. WaiterIsReachable'
  BY <1>2 DEF WaiterIsReachable
<1>6. AccessWasGranted'
  BY <1>1, <1>2 DEF AccessWasGranted
<1>7. GrantsKnown'
  <2> SUFFICES ASSUME NEW g \in Handlers, handling'[g].step \in {"granted", "finished"}
               PROVE  server'.ever /\ Head(handling'[g].left).id \in granted'
    BY DEF GrantsKnown
  <2>1. CASE g = h
    BY <1>3, <2>1
  <2>2. CASE g # h
    BY <1>1, <1>3, <2>2 DEF GrantsKnown
  <2> QED
    BY <2>1, <2>2
<1> QED
  BY <1>4, <1>5, <1>6, <1>7 DEF PremiumInv, FinishedWasGranted

LEMMA DeliveryStepKeeps ==
  ASSUME PremiumInv, NEW h \in Handlers, DeliveryStep(h)
  PROVE  PremiumInv'
<1>1. /\ PremiumTypeOK /\ FinishedWasGranted /\ GrantsKnown
      /\ server \in [active : BOOLEAN, ever : BOOLEAN] /\ failures \in Nat
      /\ server.active => server.ever
  BY DEF PremiumInv, PremiumTypeOK
<1>2. /\ handling[h].left \in Seq(Items)
      /\ handling[h].left # << >> => Tail(handling[h].left) \in Seq(Items)
  BY <1>1, HandlerLeft
<1>3. \A step \in Steps : Goto(h, step) => Run(h, handling[h].left, step)
  BY DEF Goto
<1>4. Done(h) => Run(h, Tail(handling[h].left), "next")
  BY DEF Done
<1>5. Fails => failures' \in Nat
  BY <1>1, FailuresCount
<1>6. \A step : Reached(h, step) => handling[h].left # << >> /\ handling[h].step = step
  BY DEF Reached
<1>7. finished \subseteq granted
  BY <1>1 DEF FinishedWasGranted
<1>8. [active |-> TRUE, ever |-> TRUE] \in [active : BOOLEAN, ever : BOOLEAN]
  OBVIOUS
<1>9. CASE Take(h)
  <2>1. /\ UNCHANGED <<shop, screen, check, server, granted, finished, failures>>
        /\ handling[h].left # << >>
        /\ UNCHANGED <<slot, tap>> \/ Complete("no")
        /\ Done(h) \/ Goto(h, "verifying")
    BY <1>6, <1>9 DEF Take
  <2>2. CASE Done(h)
    BY <1>1, <1>2, <1>4, <1>7, <2>1, <2>2, HandlerStepKeeps DEF Steps
  <2>3. CASE Goto(h, "verifying")
    BY <1>1, <1>2, <1>3, <1>7, <2>1, <2>3, HandlerStepKeeps DEF Steps
  <2> QED
    BY <2>1, <2>2, <2>3
<1>10. CASE Verify(h)
  <2>1. /\ UNCHANGED <<shop, slot, tap, screen, check, finished>>
        /\ handling[h].left # << >> /\ failures' \in Nat
        /\ server' = server \/ server' = [active |-> TRUE, ever |-> TRUE]
        /\ \/ /\ server' = [active |-> TRUE, ever |-> TRUE]
              /\ granted' = granted \union {Purchase(h).id} /\ Goto(h, "granted")
           \/ granted' = granted /\ Goto(h, "refused")
    BY <1>1, <1>5, <1>6, <1>10 DEF Verify
  <2>2. /\ server' \in [active : BOOLEAN, ever : BOOLEAN]
        /\ server'.active => server'.ever
        /\ server.ever => server'.ever
    BY <1>1, <1>8, <2>1
  <2>3. CASE /\ server' = [active |-> TRUE, ever |-> TRUE]
             /\ granted' = granted \union {Purchase(h).id} /\ Goto(h, "granted")
    <3>1. server'.ever /\ Head(handling[h].left).id \in granted'
      BY <2>3 DEF Purchase
    <3> QED
      BY <1>2, <1>3, <1>7, <2>1, <2>2, <2>3, <3>1, HandlerStepKeeps DEF Steps
  <2>4. CASE granted' = granted /\ Goto(h, "refused")
    BY <1>2, <1>3, <1>7, <2>1, <2>2, <2>4, HandlerStepKeeps DEF Steps
  <2> QED
    BY <2>1, <2>3, <2>4
<1>11. CASE RefusePurchase(h)
  <2>1. /\ UNCHANGED <<shop, screen, check, server, granted, finished, failures>>
        /\ handling[h].left # << >> /\ Complete("no") /\ Done(h)
    BY <1>6, <1>11 DEF RefusePurchase
  <2> QED
    BY <1>1, <1>2, <1>4, <1>7, <2>1, HandlerStepKeeps DEF Steps
<1>12. CASE FinishPurchase(h)
  <2>1. /\ UNCHANGED <<shop, screen, check, server, granted>>
        /\ handling[h].left # << >> /\ handling[h].step = "granted" /\ failures' \in Nat
        /\ \/ /\ finished' = finished \union {p \in {Purchase(h).id} : Purchase(h).unfinished}
              /\ Goto(h, "finished") /\ UNCHANGED <<slot, tap>>
           \/ /\ finished' \in {finished, finished \union
                                        {p \in {Purchase(h).id} : Purchase(h).unfinished}}
              /\ Complete("no") /\ Done(h)
    BY <1>1, <1>5, <1>6, <1>12 DEF FinishPurchase
  <2>2. server.ever /\ Head(handling[h].left).id \in granted
    BY <1>1, <2>1 DEF GrantsKnown
  <2>3. CASE /\ finished' = finished \union {p \in {Purchase(h).id} : Purchase(h).unfinished}
             /\ Goto(h, "finished") /\ UNCHANGED <<slot, tap>>
    <3>1. finished' \subseteq granted
      BY <1>7, <2>2, <2>3 DEF Purchase
    <3> QED
      BY <1>1, <1>2, <1>3, <2>1, <2>2, <2>3, <3>1, HandlerStepKeeps DEF Steps
  <2>4. CASE /\ finished' \in {finished, finished \union
                                    {p \in {Purchase(h).id} : Purchase(h).unfinished}}
             /\ Complete("no") /\ Done(h)
    <3>1. finished' \subseteq granted
      BY <1>7, <2>2, <2>4 DEF Purchase
    <3> QED
      BY <1>1, <1>2, <1>4, <2>1, <2>2, <2>4, <3>1, HandlerStepKeeps DEF Steps
  <2> QED
    BY <2>1, <2>3, <2>4
<1>13. CASE Grant(h)
  <2>1. /\ UNCHANGED <<shop, screen, check, server, granted, finished, failures>>
        /\ handling[h].left # << >> /\ handling[h].step = "finished"
        /\ Complete("yes") /\ Done(h)
    BY <1>6, <1>13 DEF Grant
  <2>2. server.ever
    BY <1>1, <2>1 DEF GrantsKnown
  <2> QED
    BY <1>1, <1>2, <1>4, <1>7, <2>1, <2>2, HandlerStepKeeps DEF Steps
<1> QED
  BY <1>9, <1>10, <1>11, <1>12, <1>13 DEF DeliveryStep

LEMMA DeliverKeeps ==
  ASSUME PremiumInv, NEW h \in Handlers, NEW purchases \in Deliveries, Deliver(h, purchases)
  PROVE  PremiumInv'
<1>1. purchases \in Seq(Items)
  BY StreamAssumption
<1>2. /\ Run(h, purchases, "next")
      /\ UNCHANGED <<slot, tap>> \/ Complete("no")
      /\ UNCHANGED <<shop, screen, check, server, granted, finished, failures>>
  BY DEF Deliver, Run
<1>3. /\ server \in [active : BOOLEAN, ever : BOOLEAN] /\ failures \in Nat
      /\ server.active => server.ever
      /\ finished \subseteq granted
  BY DEF PremiumInv, PremiumTypeOK, FinishedWasGranted
<1> QED
  BY <1>1, <1>2, <1>3, HandlerStepKeeps DEF Steps

LEMMA LapseKeeps == PremiumInv /\ Lapse => PremiumInv'
<1> SUFFICES ASSUME PremiumInv, Lapse PROVE PremiumInv'
  OBVIOUS
<1>1. server \in [active : BOOLEAN, ever : BOOLEAN]
  BY DEF PremiumInv, PremiumTypeOK
<1>2. /\ server' \in [active : BOOLEAN, ever : BOOLEAN]
      /\ server'.ever = server.ever /\ server'.active = FALSE
  BY <1>1 DEF Lapse
<1>3. UNCHANGED <<shop, slot, tap, screen, check, handling, granted, finished, failures>>
  BY DEF Lapse
<1> QED
  BY <1>2, <1>3 DEF PremiumInv, PremiumTypeOK, WaiterIsReachable, AccessWasGranted,
                    FinishedWasGranted, GrantsKnown

-----------------------------------------------------------------------------
\* The theorems.

LEMMA InvariantHolds == PremiumSafety => []PremiumInv
<1>1. PremiumInit => PremiumInv
  BY InitHolds
<1>2. PremiumInv /\ [PremiumNext]_premiumVars => PremiumInv'
  <2> SUFFICES ASSUME PremiumInv, [PremiumNext]_premiumVars PROVE PremiumInv'
    OBVIOUS
  <2>1. CASE TapStep \/ InitializeStore \/ \E kind \in {"purchase", "restore"} : Tap(kind)
    BY <2>1, TapStepKeeps
  <2>2. CASE Lapse
    BY <2>2, LapseKeeps
  <2>3. CASE \E c \in Checks : CheckStep(c)
    BY <2>3, CheckStepKeeps
  <2>4. CASE \E h \in Handlers, purchases \in Deliveries : Deliver(h, purchases)
    BY <2>4, DeliverKeeps
  <2>5. CASE \E h \in Handlers : DeliveryStep(h)
    BY <2>5, DeliveryStepKeeps
  <2>6. CASE UNCHANGED premiumVars
    BY <2>6 DEF premiumVars, PremiumInv, PremiumTypeOK, WaiterIsReachable,
                AccessWasGranted, FinishedWasGranted, GrantsKnown
  <2> QED
    BY <2>1, <2>2, <2>3, <2>4, <2>5, <2>6 DEF PremiumNext
<1> QED
  BY <1>1, <1>2, PTL DEF PremiumSafety

\* Whoever waits for the store holds the slot, so that an event can answer
\* (_beginOperation, _completeOperation and the time-outs of purchase, restore).
THEOREM WaitersReachable == PremiumSafety => []WaiterIsReachable
<1>1. PremiumInv => WaiterIsReachable
  BY DEF PremiumInv
<1> QED
  BY <1>1, InvariantHolds, PTL

\* Whatever opens the screen or completes a purchase at the store, the backend
\* has granted access before (isPremium, _verifyAndComplete, the handlers of the
\* bloc).
THEOREM GrantsCorrect == PremiumSafety => []GrantComesFirst
<1>1. PremiumInv => GrantComesFirst
  BY DEF PremiumInv, GrantComesFirst
<1> QED
  BY <1>1, InvariantHolds, PTL

-----------------------------------------------------------------------------
\* The rate limiter.

\* A request that still counts for the slowest clock.
Recent(a) == a[2] > time - (Window - Drift)

\* Whatever clock the script is run with, a recent request is in the set with a
\* score no older than itself, and Redis has not dropped the key.
RateInv ==
  /\ time \in Nat /\ lapses \in Int
  /\ IsFiniteSet(DOMAIN hits) /\ Cardinality(DOMAIN hits) <= MaxRequests
  /\ hits = [r \in DOMAIN hits |-> hits[r]]
  /\ \A r \in DOMAIN hits : hits[r] \in Int
  /\ \A a \in admissions :
       /\ a \in RequestIds \X Nat /\ a[2] <= time
       /\ lapses >= a[2] + Window + Grace
       /\ Recent(a) => a[1] \in DOMAIN hits /\ hits[a[1]] >= a[2]
  /\ WindowBounded

Admitted(end) ==
  {a[1] : a \in {b \in admissions : b[2] > end - (Window - Drift) /\ b[2] <= end}}

\* The set as the script leaves it with the reading `now` of a clock.
LEMMA CurrentIs ==
  ASSUME RateInv, NEW reading \in time .. time + Drift
  PROVE  /\ IsFiniteSet(DOMAIN Current(reading))
         /\ Cardinality(DOMAIN Current(reading)) \in Nat
         /\ Cardinality(DOMAIN Current(reading)) <= MaxRequests
         /\ DOMAIN Current(reading) \subseteq DOMAIN hits
         /\ Current(reading) = [r \in DOMAIN Current(reading) |-> hits[r]]
         /\ \A a \in admissions : Recent(a) => a[1] \in DOMAIN Current(reading)
<1>1. /\ Current(reading) = [r \in {r \in DOMAIN Stored : Stored[r] > reading - Window} |-> Stored[r]]
      /\ DOMAIN Current(reading) = {r \in DOMAIN Stored : Stored[r] > reading - Window}
  BY DEF Current, Restrict
<1>2. \/ Stored = hits
      \/ DOMAIN Stored = {} /\ lapses <= time
  BY DEF Stored
<1>3. /\ DOMAIN Current(reading) \subseteq DOMAIN hits
      /\ Current(reading) = [r \in DOMAIN Current(reading) |-> hits[r]]
  <2>1. CASE Stored = hits
    BY <1>1, <2>1
  <2>2. CASE DOMAIN Stored = {}
    BY <1>1, <2>2
  <2>3. QED  BY <1>2, <2>1, <2>2
<1>4. /\ IsFiniteSet(DOMAIN Current(reading))
      /\ Cardinality(DOMAIN Current(reading)) <= Cardinality(DOMAIN hits)
  BY <1>3, FS_Subset DEF RateInv
<1>5. /\ Cardinality(DOMAIN Current(reading)) \in Nat
      /\ Cardinality(DOMAIN Current(reading)) <= MaxRequests
  <2>1. /\ Cardinality(DOMAIN Current(reading)) \in Nat /\ Cardinality(DOMAIN hits) \in Nat
        /\ Cardinality(DOMAIN hits) <= MaxRequests /\ MaxRequests \in Nat
    BY <1>4, FS_CardinalityType, RateAssumption DEF RateInv
  <2>2. QED  BY <1>4, <2>1
<1>6. ASSUME NEW a \in admissions, Recent(a) PROVE a[1] \in DOMAIN Current(reading)
  <2>1. /\ time \in Nat /\ lapses \in Int /\ reading \in Int /\ reading <= time + Drift
        /\ a[2] \in Nat /\ lapses >= a[2] + Window + Grace
        /\ a[1] \in DOMAIN hits /\ hits[a[1]] >= a[2] /\ hits[a[1]] \in Int
        /\ a[2] > time - (Window - Drift)
        /\ Window \in Nat /\ Drift \in Nat /\ Grace \in Nat
    BY <1>6, RateAssumption DEF RateInv, Recent
  <2>2. ~(lapses <= time)
    BY <2>1
  <2>3. hits[a[1]] > reading - Window
    BY <2>1
  <2>4. QED  BY <1>1, <1>2, <2>1, <2>2, <2>3
<1>7. QED  BY <1>3, <1>4, <1>5, <1>6

\* No more requests are admitted in the span that ends now than the set holds.
LEMMA SpanBounded ==
  ASSUME time \in Nat, IsFiniteSet(DOMAIN hits), Cardinality(DOMAIN hits) <= MaxRequests,
         \A a \in admissions :
           a \in RequestIds \X Nat /\ (Recent(a) => a[1] \in DOMAIN hits)
  PROVE  Cardinality(Admitted(time)) <= MaxRequests
<1>1. Admitted(time) \subseteq DOMAIN hits
  BY DEF Admitted, Recent
<1>2. /\ Cardinality(Admitted(time)) <= Cardinality(DOMAIN hits)
      /\ Cardinality(Admitted(time)) \in Nat /\ Cardinality(DOMAIN hits) \in Nat
  BY <1>1, FS_Subset, FS_CardinalityType
<1>3. QED  BY <1>2, RateAssumption

\* What the script makes of the state.
LEMMA CheckKeeps ==
  ASSUME RateInv, NEW id \in RequestIds, NEW ahead \in 0 .. Drift,
         Check(id, time + ahead), time' = time
  PROVE  RateInv'
<1> DEFINE reading == time + ahead
           current == Current(reading)
           added == With(current, id, reading)
<1>0. /\ time \in Nat /\ lapses \in Int /\ Window \in Nat /\ Grace \in Nat /\ Drift \in Nat
      /\ MaxRequests \in Nat
  BY RateAssumption DEF RateInv
<1>1. reading \in time .. time + Drift /\ reading \in Int
  BY <1>0
<1>2. /\ IsFiniteSet(DOMAIN current)
      /\ Cardinality(DOMAIN current) \in Nat /\ Cardinality(DOMAIN current) <= MaxRequests
      /\ DOMAIN current \subseteq DOMAIN hits
      /\ current = [r \in DOMAIN current |-> hits[r]]
      /\ \A a \in admissions : Recent(a) => a[1] \in DOMAIN current
  BY <1>1, CurrentIs
<1>3. /\ DOMAIN added = DOMAIN current \cup {id}
      /\ \A r \in DOMAIN added : added[r] = IF r = id THEN reading ELSE current[r]
      /\ added = [r \in DOMAIN added |-> added[r]]
  BY DEF With
<1>4. \/ hits' = current /\ UNCHANGED <<lapses, admissions>>
      \/ /\ Cardinality(DOMAIN current) < MaxRequests
         /\ hits' = added
         /\ lapses' = time + Window + Grace
         /\ admissions' = admissions \union {<<id, time>>}
  BY <1>0, <1>2 DEF Check
<1> HIDE DEF current, added
<1>5. ASSUME NEW a \in admissions
      PROVE  /\ a \in RequestIds \X Nat /\ a[2] \in Nat /\ a[2] <= time
             /\ lapses >= a[2] + Window + Grace
             /\ Recent(a) => a[1] \in DOMAIN current /\ current[a[1]] >= a[2]
                             /\ current[a[1]] \in Int
  BY <1>2 DEF RateInv
<1>6. \A r \in DOMAIN current : current[r] \in Int
  BY <1>2 DEF RateInv
<1> HIDE DEF reading
<1>7. /\ lapses' \in Int
      /\ IsFiniteSet(DOMAIN hits') /\ Cardinality(DOMAIN hits') <= MaxRequests
      /\ hits' = [r \in DOMAIN hits' |-> hits'[r]]
      /\ \A r \in DOMAIN hits' : hits'[r] \in Int
      /\ \A a \in admissions' :
           /\ a \in RequestIds \X Nat /\ a[2] <= time
           /\ lapses' >= a[2] + Window + Grace
           /\ Recent(a) => a[1] \in DOMAIN hits' /\ hits'[a[1]] >= a[2]
  <2>1. CASE hits' = current /\ UNCHANGED <<lapses, admissions>>
    BY <1>0, <1>2, <1>5, <1>6, <2>1
  <2>2. CASE /\ Cardinality(DOMAIN current) < MaxRequests
             /\ hits' = added
             /\ lapses' = time + Window + Grace
             /\ admissions' = admissions \union {<<id, time>>}
    <3>1. IsFiniteSet(DOMAIN added) /\ Cardinality(DOMAIN added) <= MaxRequests
      <4>1. /\ IsFiniteSet(DOMAIN added)
            /\ Cardinality(DOMAIN added) \in {Cardinality(DOMAIN current), Cardinality(DOMAIN current) + 1}
        BY <1>2, <1>3, FS_AddElement
      <4>2. QED  BY <1>0, <1>2, <2>2, <4>1
    <3>2. \A r \in DOMAIN added : added[r] \in Int
      BY <1>1, <1>3, <1>6
    <3>3. ASSUME NEW a \in admissions
          PROVE  /\ a[2] <= time /\ time + Window + Grace >= a[2] + Window + Grace
                 /\ Recent(a) => a[1] \in DOMAIN added /\ added[a[1]] >= a[2]
      <4>1. a[2] \in Nat /\ a[2] <= time
        BY <1>5
      <4>2. reading >= a[2]
        BY <1>0, <1>1, <4>1
      <4>3. QED  BY <1>0, <1>3, <1>5, <4>1, <4>2
    <3>4. <<id, time>>[1] = id /\ <<id, time>>[2] = time /\ added[id] = reading /\ reading >= time
      BY <1>0, <1>1, <1>3
    <3>5. ASSUME NEW a \in admissions'
          PROVE  /\ a \in RequestIds \X Nat /\ a[2] <= time
                 /\ lapses' >= a[2] + Window + Grace
                 /\ Recent(a) => a[1] \in DOMAIN added /\ added[a[1]] >= a[2]
      <4>1. CASE a \in admissions
        BY <1>5, <2>2, <3>3, <4>1
      <4>2. CASE a = <<id, time>>
        BY <1>0, <1>3, <2>2, <3>4, <4>2
      <4>3. QED  BY <2>2, <4>1, <4>2
    <3>6. QED  BY <1>0, <1>3, <2>2, <3>1, <3>2, <3>5
  <2>3. QED  BY <1>4, <2>1, <2>2
<1>8. WindowBounded'
  <2> SUFFICES ASSUME NEW end \in 1 .. time
               PROVE  Cardinality(Admitted(end)') <= MaxRequests
    BY DEF WindowBounded, Admitted
  <2>1. CASE end = time
    <3>1. \A a \in admissions' : Recent(a)' => a[1] \in DOMAIN hits'
      BY <1>7 DEF Recent
    <3>2. Admitted(end)' \subseteq DOMAIN hits'
      BY <2>1, <3>1 DEF Admitted, Recent
    <3>3. /\ Cardinality(Admitted(end)') <= Cardinality(DOMAIN hits')
          /\ Cardinality(Admitted(end)') \in Nat /\ Cardinality(DOMAIN hits') \in Nat
      BY <1>7, <3>2, FS_Subset, FS_CardinalityType
    <3>4. QED  BY <1>0, <1>7, <3>3
  <2>2. CASE end < time
    <3>1. Admitted(end)' = Admitted(end)
      BY <1>0, <1>4, <2>2 DEF Admitted
    <3>2. Cardinality(Admitted(end)) <= MaxRequests
      BY DEF RateInv, WindowBounded, Admitted
    <3>3. QED  BY <3>1, <3>2
  <2>3. QED  BY <1>0, <2>1, <2>2
<1>9. QED  BY <1>0, <1>7, <1>8 DEF RateInv, Recent

\* Every step.
LEMMA RateStep == RateInv /\ [RateNext]_rateVars => RateInv'
<1> SUFFICES ASSUME RateInv, [RateNext]_rateVars PROVE RateInv'
  OBVIOUS
<1>1. ASSUME NEW id \in RequestIds, CheckRequest(id) PROVE RateInv'
  BY <1>1, CheckKeeps DEF CheckRequest
<1>2. CASE RateTick
  <2>0. time \in Nat /\ time' = time + 1 /\ UNCHANGED <<hits, lapses, admissions>>
    BY <1>2 DEF RateTick, RateInv
  <2>1. \A a \in admissions : a[2] \in Nat /\ (Recent(a)' => Recent(a))
    BY <2>0, RateAssumption DEF RateInv, Recent
  <2>2. WindowBounded'
    <3> SUFFICES ASSUME NEW end \in 1 .. time + 1
                 PROVE  Cardinality(Admitted(end)) <= MaxRequests
      BY <2>0 DEF WindowBounded, Admitted
    <3>1. CASE end \in 1 .. time
      BY <3>1 DEF RateInv, WindowBounded, Admitted
    <3>2. CASE end = time + 1
      <4>1. Admitted(end) \subseteq DOMAIN hits
        BY <2>0, <2>1, <3>2, RateAssumption DEF Admitted, Recent, RateInv
      <4>2. /\ Cardinality(Admitted(end)) <= Cardinality(DOMAIN hits)
            /\ Cardinality(Admitted(end)) \in Nat /\ Cardinality(DOMAIN hits) \in Nat
        BY <4>1, FS_Subset, FS_CardinalityType DEF RateInv
      <4>3. QED  BY <4>2, RateAssumption DEF RateInv
    <3>3. QED  BY <2>0, <3>1, <3>2
  <2>3. QED  BY <2>0, <2>1, <2>2 DEF RateInv
<1>3. CASE Unreachable \/ UNCHANGED rateVars
  BY <1>3 DEF Unreachable, rateVars, RateInv, WindowBounded, Recent
<1>4. QED  BY <1>1, <1>2, <1>3 DEF RateNext

LEMMA RateStarts == RateInit => RateInv
<1> SUFFICES ASSUME RateInit PROVE RateInv
  OBVIOUS
<1>1. hits = << >> /\ DOMAIN hits = {} /\ lapses = 0 /\ time = 1 /\ admissions = {}
  BY DEF RateInit
<1>2. IsFiniteSet(DOMAIN hits) /\ Cardinality(DOMAIN hits) = 0
  BY <1>1, FS_EmptySet
<1>3. \A end \in 1 .. time : Cardinality(Admitted(end)) <= MaxRequests
  <2> TAKE end \in 1 .. time
  <2>1. Admitted(end) = {}
    BY <1>1 DEF Admitted
  <2>2. QED  BY <2>1, FS_EmptySet, RateAssumption
<1>4. WindowBounded
  BY <1>3 DEF WindowBounded, Admitted
<1>5. QED  BY <1>1, <1>2, <1>4, RateAssumption DEF RateInv

\* In every span of Window - Drift at most the limit of requests is admitted,
\* whichever processes run the script and however their clocks differ within
\* Drift (RedisRateLimiter.check).
THEOREM RateIsLimited == RateSpec => []WindowBounded
<1>1. RateInv => WindowBounded
  BY DEF RateInv
<1>2. QED  BY <1>1, RateStarts, RateStep, PTL DEF RateSpec

\* A score is a reading of a clock, none further ahead than Drift, and the pause
\* a client is told lies within the window and the difference of the clocks.
RateTypeInv ==
  /\ RateInv /\ RateTypeOK
  /\ \A r \in DOMAIN hits : hits[r] <= time + Drift

\* What the script tells and what it leaves, with any clock.
LEMMA CheckTyped ==
  ASSUME RateTypeInv, NEW id \in RequestIds, NEW ahead \in 0 .. Drift,
         Check(id, time + ahead), time' = time, RateInv'
  PROVE  RateTypeInv'
<1> DEFINE reading == time + ahead
           current == Current(reading)
           oldest == CHOOSE r \in DOMAIN current : \A q \in DOMAIN current : current[r] <= current[q]
           wait == current[oldest] + Window - reading
           added == With(current, id, reading)
<1>0. /\ time \in Nat /\ Window \in Nat /\ Drift \in Nat /\ MaxRequests \in Nat
      /\ MaxRequests # 0 /\ time + Drift \in Nat
  BY RateAssumption DEF RateTypeInv, RateInv
<1>1. reading \in time .. time + Drift
  BY <1>0
<1>2. /\ IsFiniteSet(DOMAIN current)
      /\ Cardinality(DOMAIN current) \in Nat /\ Cardinality(DOMAIN current) <= MaxRequests
      /\ DOMAIN current \subseteq DOMAIN hits
      /\ current = [r \in DOMAIN current |-> hits[r]]
  BY <1>1, CurrentIs DEF RateTypeInv
<1>3. /\ DOMAIN added = DOMAIN current \cup {id}
      /\ \A r \in DOMAIN added : added[r] = IF r = id THEN reading ELSE current[r]
  BY DEF With
<1>4. \/ /\ Cardinality(DOMAIN current) >= MaxRequests
         /\ hits' = current
         /\ decision' = [allowed |-> FALSE, remaining |-> 0, degraded |-> FALSE,
                         retry_after |-> IF wait < 0 THEN 0 ELSE wait]
      \/ /\ hits' = added
         /\ decision' = [allowed |-> TRUE, degraded |-> FALSE, retry_after |-> 0,
                         remaining |-> MaxRequests - Cardinality(DOMAIN added)]
  BY DEF Check
<1> HIDE DEF current, added
<1>5. /\ DOMAIN hits \subseteq RequestIds
      /\ \A r \in DOMAIN hits : hits[r] \in Int /\ hits[r] <= time + Drift
  BY DEF RateTypeInv, RateInv, RateTypeOK
<1>6. \A r \in DOMAIN current : current[r] \in Int /\ current[r] <= time + Drift
  BY <1>2, <1>5
<1> HIDE DEF reading
<1>7. /\ DOMAIN hits' \subseteq RequestIds
      /\ \A r \in DOMAIN hits' : hits'[r] <= time + Drift
  <2>1. CASE hits' = current
    BY <1>2, <1>5, <1>6, <2>1
  <2>2. CASE hits' = added
    BY <1>0, <1>1, <1>2, <1>3, <1>5, <1>6, <2>2
  <2>3. QED  BY <1>4, <2>1, <2>2
<1>8. /\ decision'.remaining \in 0 .. MaxRequests
      /\ decision'.retry_after \in 0 .. Window + Drift
  <2>1. CASE /\ Cardinality(DOMAIN current) >= MaxRequests
             /\ decision' = [allowed |-> FALSE, remaining |-> 0, degraded |-> FALSE,
                             retry_after |-> IF wait < 0 THEN 0 ELSE wait]
    <3>1. DOMAIN current # {}
      BY <1>0, <1>2, <2>1, FS_EmptySet
    <3>2. \E r \in DOMAIN current : \A q \in DOMAIN current : current[r] <= current[q]
      BY <1>2, <1>6, <3>1, LeastExists
    <3>3. current[oldest] \in Int /\ current[oldest] <= time + Drift
      BY <1>6, <3>2
    <3>4. wait \in Int /\ wait <= Window + Drift
      <4> DEFINE score == current[oldest]
      <4>1. wait = score + Window - reading
        OBVIOUS
      <4> HIDE DEF score, oldest, wait
      <4>2. score \in Int /\ score <= time + Drift
        BY <3>3 DEF score
      <4>3. QED  BY <1>0, <1>1, <4>1, <4>2
    <3> HIDE DEF wait
    <3>5. QED  BY <1>0, <2>1, <3>4
  <2>2. CASE /\ hits' = added
             /\ decision' = [allowed |-> TRUE, degraded |-> FALSE, retry_after |-> 0,
                             remaining |-> MaxRequests - Cardinality(DOMAIN added)]
    <3>1. IsFiniteSet(DOMAIN added) /\ Cardinality(DOMAIN added) <= MaxRequests
      BY <2>2 DEF RateInv
    <3>2. Cardinality(DOMAIN added) \in Nat
      BY <3>1, FS_CardinalityType
    <3>3. QED  BY <1>0, <2>2, <3>1, <3>2
  <2>3. QED  BY <1>4, <2>1, <2>2
<1>9. QED  BY <1>7, <1>8 DEF RateTypeInv, RateTypeOK, RateInv

\* The sorted set stays within the limit, and the pause a client is told is at
\* most the window and the difference of the clocks (RedisRateLimiter.check).
THEOREM RateTyped == RateSpec => []RateTypeOK
<1>1. RateInit => RateTypeInv
  <2> SUFFICES ASSUME RateInit PROVE RateTypeInv
    OBVIOUS
  <2>1. RateInv
    BY RateStarts
  <2>2. DOMAIN hits = {} /\ decision.remaining = 0 /\ decision.retry_after = 0
    BY DEF RateInit
  <2>3. QED  BY <2>1, <2>2, RateAssumption DEF RateTypeInv, RateTypeOK, RateInv
<1>2. RateTypeInv /\ [RateNext]_rateVars => RateTypeInv'
  <2> SUFFICES ASSUME RateTypeInv, [RateNext]_rateVars PROVE RateTypeInv'
    OBVIOUS
  <2>1. RateInv'
    BY RateStep DEF RateTypeInv
  <2>2. ASSUME NEW id \in RequestIds, CheckRequest(id) PROVE RateTypeInv'
    BY <2>1, <2>2, CheckTyped DEF CheckRequest
  <2>3. CASE Unreachable
    <3>1. /\ decision'.remaining \in {0, MaxRequests} /\ decision'.retry_after = 0
          /\ UNCHANGED <<hits, time>>
      BY <2>3 DEF Unreachable
    <3>2. QED  BY <2>1, <3>1, RateAssumption DEF RateTypeInv, RateTypeOK
  <2>4. CASE RateTick
    <3>1. time' = time + 1 /\ UNCHANGED <<hits, decision>>
      BY <2>4 DEF RateTick
    <3>2. QED  BY <2>1, <3>1, RateAssumption DEF RateTypeInv, RateTypeOK, RateInv
  <2>5. CASE UNCHANGED rateVars
    BY <2>1, <2>5 DEF RateTypeInv, RateTypeOK, rateVars
  <2>6. QED  BY <2>2, <2>3, <2>4, <2>5 DEF RateNext
<1>3. RateTypeInv => RateTypeOK
  BY DEF RateTypeInv
<1>4. QED  BY <1>1, <1>2, <1>3, PTL DEF RateSpec

-----------------------------------------------------------------------------
\* The request gate.

\* A request under way, at one of its stages.
Underway ==
  [stage : {"reading", "read", "inspected", "calling"}, matched : BOOLEAN,
   route : DOMAIN Needs, token : KnownTokens, media : {x.media : x \in Exchanges},
   body : {{}} \union {x.body : x \in Exchanges}, parsed : {TRUE} \union {x.parsed : x \in Exchanges},
   valid : BOOLEAN \union {x.valid : x \in Exchanges}, left : Seq(Nat), size : Nat, whole : BOOLEAN,
   checked : Nat]

\* What the gate knows of the request: while it is read the size is within the
\* limit; afterwards the body is whole or dropped; at the call, its session was
\* valid when it was checked and its fields are those of the route.
ExchangeInv(x) ==
  /\ x.size <= Limit(x.route)
  /\ x.stage = "reading" => x.left # << >>
  /\ x.stage # "reading" => x.whole \/ x.body = {}
  /\ x.valid /\ x.route \notin DOMAIN JobKindOf => ~Private(x.body)
  /\ x.stage = "calling" =>
       /\ x.valid
       /\ "token_verifier" \in Needs[x.route] => TokenVerifies(x.token, x.checked)

CalledInv ==
  called # NotCalled =>
    /\ called.size <= Limit(called.route)
    /\ called.whole \/ called.body = {}
    /\ ~Private(called.body)
    /\ "token_verifier" \in Needs[called.route] =>
         called.token.exp + ClockSkew > called.checked /\ called.token.genuine

GateInv ==
  /\ ValidSettings(settings) /\ clock \in Nat
  /\ exchange # NoExchange => exchange \in Underway /\ ExchangeInv(exchange)
  /\ CalledInv

\* Limits and stages.
LEMMA LimitType == ASSUME NEW route PROVE Limit(route) \in Nat
BY GateAssumption DEF Limit

LEMMA NotUnderway == NoExchange.stage = "none" /\ NoExchange \notin Underway
BY DEF NoExchange, Underway

\* What is left of a request when it is refused or answered.
LEMMA FinishKeeps ==
  ASSUME GateInv, NEW x, NEW answer, Finish(x, answer), UNCHANGED <<settings, clock>>, CalledInv'
  PROVE  GateInv'
BY DEF GateInv, Finish

\* An error ends a request.
LEMMA RefuseKeeps ==
  ASSUME GateInv, NEW x, NEW error, Refuse(x, error), UNCHANGED <<settings, clock>>
  PROVE  GateInv'
<1>1. called' = called /\ CalledInv'
  BY DEF GateInv, Refuse, CalledInv
<1>2. QED  BY <1>1, FinishKeeps DEF Refuse

\* A request arrives; its declared length may end it at once.
LEMMA ArriveKeeps ==
  ASSUME GateInv, NEW x \in Exchanges, NEW token \in KnownTokens, Arrive(x, token)
  PROVE  GateInv'
<1> DEFINE new == [stage |-> "reading", matched |-> FALSE, route |-> x.route, token |-> token,
                   media |-> x.media, body |-> x.body, parsed |-> x.parsed,
                   valid |-> x.valid,
                   left |-> x.chunks, size |-> 0, whole |-> FALSE, checked |-> 0]
<1>1. called' = NotCalled /\ UNCHANGED <<settings, clock>> /\ CalledInv'
  BY DEF Arrive, CalledInv
<1>2. CASE x.declared \subseteq 0 .. Limit(x.route)
  <2>1. exchange' = new
    BY <1>2 DEF Arrive
  <2>2. new \in Underway
    BY ExchangeAssumption DEF Underway
  <2>3. ExchangeInv(new)
    BY ExchangeAssumption, LimitType DEF ExchangeInv
  <2> HIDE DEF new
  <2>4. QED  BY <1>1, <2>1, <2>2, <2>3 DEF GateInv
<1>3. CASE ~(x.declared \subseteq 0 .. Limit(x.route))
  <2>1. Finish([route |-> x.route, matched |-> FALSE], Problem(413, FALSE))
    BY <1>3 DEF Arrive
  <2>2. QED  BY <1>1, <2>1, FinishKeeps
<1>4. QED  BY <1>2, <1>3

\* A chunk is counted before the body can be used.
LEMMA ReadKeeps ==
  ASSUME GateInv, ReadChunk
  PROVE  GateInv'
<1> DEFINE size == exchange.size + Head(exchange.left)
           left == Tail(exchange.left)
           whole == left = << >>
           stage == IF left = << >> THEN "read" ELSE "reading"
           next == [exchange EXCEPT !.size = size, !.left = left, !.whole = whole, !.stage = stage]
<1>1. exchange.stage = "reading" /\ exchange \in Underway /\ ExchangeInv(exchange)
  BY NotUnderway DEF GateInv, ReadChunk
<1>2. UNCHANGED <<settings, clock>> /\ called' = called /\ CalledInv'
  BY DEF ReadChunk, GateInv, CalledInv
<1>3. exchange.left \in Seq(Nat) /\ exchange.left # << >> /\ exchange.size \in Nat
  BY <1>1 DEF Underway, ExchangeInv
<1>4. size \in Nat /\ left \in Seq(Nat) /\ whole \in BOOLEAN /\ stage \in {"reading", "read"}
  BY <1>3
<1>5. CASE size > Limit(exchange.route)
  BY <1>2, <1>5, FinishKeeps DEF ReadChunk
<1>6. CASE ~(size > Limit(exchange.route))
  <2>1. exchange' = next
    BY <1>1, <1>6 DEF ReadChunk
  <2>2. stage = "reading" => left # << >>
    OBVIOUS
  <2>3. stage # "calling" /\ (stage # "reading" => whole)
    OBVIOUS
  <2> HIDE DEF size, left, whole, stage
  <2>4. /\ next \in Underway /\ next.size = size /\ next.left = left
        /\ next.whole = whole /\ next.route = exchange.route /\ next.stage = stage
        /\ next.valid = exchange.valid /\ next.body = exchange.body
    BY <1>1, <1>4 DEF Underway
  <2> HIDE DEF next
  <2>5. ExchangeInv(next)
    BY <1>1, <1>4, <1>6, <2>2, <2>3, <2>4, LimitType DEF ExchangeInv
  <2>6. QED  BY <1>2, <2>1, <2>4, <2>5 DEF GateInv
<1>7. QED  BY <1>5, <1>6

\* What a client that left has sent is dropped.
LEMMA DisconnectKeeps ==
  ASSUME GateInv, Disconnect
  PROVE  GateInv'
<1> DEFINE valid == exchange.route \in Bodyless
           next == [exchange EXCEPT !.stage = "read", !.size = 0, !.body = {}, !.parsed = TRUE,
                                    !.valid = valid, !.left = << >>]
<1>1. exchange.stage = "reading" /\ exchange \in Underway
  BY NotUnderway DEF GateInv, Disconnect
<1>2. UNCHANGED <<settings, clock>> /\ called' = called /\ CalledInv'
  BY DEF Disconnect, GateInv, CalledInv
<1>3. exchange' = next
  BY DEF Disconnect
<1>4. valid \in BOOLEAN /\ << >> \in Seq(Nat)
  OBVIOUS
<1> HIDE DEF valid
<1>5. next \in Underway /\ next.stage = "read" /\ next.size = 0 /\ next.body = {}
  BY <1>1, <1>4 DEF Underway
<1> HIDE DEF next
<1>6. ExchangeInv(next)
  BY <1>5, LimitType DEF ExchangeInv, Private
<1>7. QED  BY <1>2, <1>3, <1>5, <1>6 DEF GateInv

\* The privacy middleware.
LEMMA InspectKeeps ==
  ASSUME GateInv, Inspect
  PROVE  GateInv'
<1> DEFINE next == [exchange EXCEPT !.stage = "inspected", !.matched = exchange.route # "unknown"]
<1>1. exchange.stage = "read" /\ exchange \in Underway /\ ExchangeInv(exchange)
  BY NotUnderway DEF GateInv, Inspect
<1>2. UNCHANGED <<settings, clock>>
  BY DEF Inspect
<1>3. CASE Refuse(exchange, "UnsafeJobPayloadError")
  BY <1>2, <1>3, RefuseKeeps
<1>4. CASE exchange' = next /\ called' = called
  <2>1. /\ next \in Underway /\ next.size = exchange.size /\ next.route = exchange.route
        /\ next.stage = "inspected" /\ next.whole = exchange.whole
        /\ next.valid = exchange.valid /\ next.body = exchange.body
    BY <1>1 DEF Underway
  <2> HIDE DEF next
  <2>2. ExchangeInv(next) /\ CalledInv'
    BY <1>1, <1>4, <2>1 DEF ExchangeInv, GateInv, CalledInv
  <2>3. QED  BY <1>2, <1>4, <2>1, <2>2 DEF GateInv
<1>5. QED  BY <1>3, <1>4 DEF Inspect

\* What passes the dispatcher has been found valid, with a session if it needs one.
LEMMA NotRefused ==
  ASSUME NEW x, Refusal(x) = "none"
  PROVE  /\ x.valid
         /\ "token_verifier" \in Needs[x.route] => TokenVerifies(x.token, clock)
<1>1. CASE x.route = "unknown"
  BY <1>1 DEF Refusal
<1>2. CASE x.route # "unknown" /\ ~x.parsed
  BY <1>2 DEF Refusal
<1>3. CASE x.route # "unknown" /\ x.parsed
  BY <1>3 DEF Refusal
<1>4. QED  BY <1>1, <1>2, <1>3

\* The dependencies and fields of the route.
LEMMA DispatchKeeps ==
  ASSUME GateInv, Dispatch
  PROVE  GateInv'
<1> DEFINE next == [exchange EXCEPT !.stage = "calling", !.checked = clock]
<1>1. exchange.stage = "inspected" /\ exchange \in Underway /\ ExchangeInv(exchange)
  BY NotUnderway DEF GateInv, Dispatch
<1>2. UNCHANGED <<settings, clock>>
  BY DEF Dispatch
<1>3. CASE Refusal(exchange) # "none"
  BY <1>2, <1>3, RefuseKeeps DEF Dispatch
<1>4. CASE Refusal(exchange) = "none"
  <2>1. exchange' = next /\ called' = called
    BY <1>4 DEF Dispatch
  <2>2. /\ next \in Underway /\ next.size = exchange.size /\ next.route = exchange.route
        /\ next.stage = "calling" /\ next.whole = exchange.whole
        /\ next.valid = exchange.valid /\ next.body = exchange.body
        /\ next.token = exchange.token /\ next.checked = clock
    BY <1>1 DEF Underway, GateInv
  <2> HIDE DEF next
  <2>3. exchange.valid /\ ("token_verifier" \in Needs[exchange.route] => TokenVerifies(exchange.token, clock))
    BY <1>4, NotRefused
  <2>4. ExchangeInv(next) /\ CalledInv'
    BY <1>1, <2>1, <2>2, <2>3 DEF ExchangeInv, GateInv, CalledInv
  <2>5. QED  BY <1>2, <2>1, <2>2, <2>4 DEF GateInv
<1>5. QED  BY <1>3, <1>4

\* The service; a job service looks at the payload first.
LEMMA CallKeeps ==
  ASSUME GateInv, Call
  PROVE  GateInv'
<1>1. exchange.stage = "calling" /\ exchange \in Underway /\ ExchangeInv(exchange)
  BY NotUnderway DEF GateInv, Call
<1>2. UNCHANGED <<settings, clock>>
  BY DEF Call
<1>3. CASE exchange.route \in DOMAIN JobKindOf /\ Private(exchange.body)
  BY <1>2, <1>3, RefuseKeeps DEF Call
<1>4. CASE ~(exchange.route \in DOMAIN JobKindOf /\ Private(exchange.body))
  <2>1. /\ called' = [route |-> exchange.route, token |-> exchange.token, body |-> exchange.body,
                      size |-> exchange.size, whole |-> exchange.whole, checked |-> exchange.checked]
        /\ \E answer : Finish(exchange, answer)
    BY <1>4 DEF Call
  <2>2. /\ ~Private(exchange.body)
        /\ exchange.size <= Limit(exchange.route)
        /\ exchange.whole \/ exchange.body = {}
        /\ "token_verifier" \in Needs[exchange.route] =>
             exchange.token.exp + ClockSkew > exchange.checked /\ exchange.token.genuine
    BY <1>1, <1>4 DEF ExchangeInv, TokenVerifies
  <2>3. CalledInv'
    BY <2>1, <2>2 DEF CalledInv
  <2>4. QED  BY <1>2, <2>1, <2>3, FinishKeeps
<1>5. QED  BY <1>3, <1>4

\* Every step.
LEMMA GateStep == GateInv /\ [GateNext]_gateVars => GateInv'
<1> SUFFICES ASSUME GateInv, [GateNext]_gateVars PROVE GateInv'
  OBVIOUS
<1>1. ASSUME NEW x \in Exchanges, NEW token \in KnownTokens, Arrive(x, token) PROVE GateInv'
  BY <1>1, ArriveKeeps
<1>2. CASE ReadChunk
  BY <1>2, ReadKeeps
<1>3. CASE Disconnect
  BY <1>3, DisconnectKeeps
<1>4. CASE Inspect
  BY <1>4, InspectKeeps
<1>5. CASE Dispatch
  BY <1>5, DispatchKeeps
<1>6. CASE Call
  BY <1>6, CallKeeps
<1>7. CASE GateTick \/ UNCHANGED gateVars
  <2>1. UNCHANGED <<settings, exchange, called>> /\ clock' \in Nat
    BY <1>7 DEF GateTick, gateVars, GateInv
  <2>2. QED  BY <2>1 DEF GateInv, CalledInv
<1>8. QED  BY <1>1, <1>2, <1>3, <1>4, <1>5, <1>6, <1>7 DEF GateNext

\* A production process has the services its capabilities promise.
LEMMA PromiseKept ==
  ASSUME ValidSettings(settings), settings.environment = "production"
  PROVE  /\ Capabilities(settings).fis_tarama => Ready(settings, "receipts")
         /\ Capabilities(settings).maki_koc => Ready(settings, "coach")
<1>1. settings.database /\ settings.redis /\ settings.jwt_key /\ settings.mode # "local"
  BY DEF ValidSettings
<1>2. {"token_verifier", "job_service", "receipt_ingress"} \subseteq Container(settings)
  BY <1>1 DEF Container
<1>3. Needs["receipts"] \subseteq Container(settings) /\ Needs["coach"] \subseteq Container(settings)
  BY <1>2 DEF Needs
<1>4. JobKindOf["receipts"] = "receipt" /\ JobKindOf["coach"] = "coach"
  BY DEF JobKindOf
<1>5. QED  BY <1>3, <1>4 DEF Ready, Capabilities

\* A service is called only with a whole body within its limit or none, without
\* private fields, and for a session that was valid when it was checked
\* (BodyLimitMiddleware, PrivacyMiddleware, api/dependencies.py).
THEOREM CallsAreSound == GateSpec => []CallIsSound
<1>1. GateInit => GateInv
  BY DEF GateInit, GateInv, CalledInv
<1>2. GateInv => CallIsSound
  BY PromiseKept DEF GateInv, CalledInv, CallIsSound
<1>3. QED  BY <1>1, <1>2, GateStep, PTL DEF GateSpec

\* What telemetry keeps of an answer has a status in its range, whatever the answer.
LEMMA GateTypeStep == GateInv /\ GateTypeOK /\ [GateNext]_gateVars => GateTypeOK'
<1> SUFFICES ASSUME GateInv, GateTypeOK, [GateNext]_gateVars PROVE GateTypeOK'
  OBVIOUS
<1>1. ValidSettings(settings)' /\ exchange'.stage \in {"none", "reading", "read", "inspected", "calling"}
  <2>1. GateInv'
    BY GateStep
  <2>2. CASE exchange' = NoExchange
    <3>1. exchange'.stage = "none"
      BY <2>2, NotUnderway
    <3>2. QED  BY <2>1, <3>1 DEF GateInv
  <2>3. CASE exchange' # NoExchange
    BY <2>1, <2>3 DEF GateInv, Underway
  <2>4. QED  BY <2>2, <2>3
<1>2. clock' \in 1 .. GateEnd
  <2>1. clock' = clock \/ (clock < GateEnd /\ clock' = clock + 1)
    <3>1. ASSUME NEW x \in Exchanges, NEW token \in KnownTokens, Arrive(x, token)
          PROVE  clock' = clock
      BY <3>1 DEF Arrive
    <3>2. CASE ReadChunk \/ Disconnect \/ Inspect \/ Dispatch
      BY <3>2 DEF ReadChunk, Disconnect, Inspect, Dispatch
    <3>3. CASE Call
      BY <3>3, Zenon DEF Call
    <3>4. CASE GateTick \/ UNCHANGED gateVars
      BY <3>4 DEF GateTick, gateVars
    <3>5. QED  BY <3>1, <3>2, <3>3, <3>4 DEF GateNext
  <2>2. QED  BY <2>1, GateAssumption DEF GateTypeOK
<1>3. recorded'.status \subseteq 100 .. 599
  <2> DEFINE Counts == \E x, answer : Finish(x, answer)
  <2>1. ASSUME NEW x, NEW answer, Finish(x, answer) PROVE recorded'.status \subseteq 100 .. 599
    BY <2>1 DEF Finish, SafeAttributes
  <2>2. Counts \/ recorded' = recorded \/ recorded' = NotRecorded
    <3>1. ASSUME NEW x \in Exchanges, NEW token \in KnownTokens, Arrive(x, token)
          PROVE  Counts \/ recorded' = NotRecorded
      BY <3>1, Zenon DEF Arrive
    <3>2. ASSUME NEW x, NEW error, Refuse(x, error) PROVE Counts
      BY <3>2, Zenon DEF Refuse
    <3>3. CASE ReadChunk
      BY <3>3, Zenon DEF ReadChunk
    <3>4. CASE Inspect \/ Dispatch
      <4>1. (\E x, error : Refuse(x, error)) \/ recorded' = recorded
        BY <3>4 DEF Inspect, Dispatch
      <4>2. QED  BY <3>2, <4>1, Zenon
    <3>5. CASE Call
      <4>1. Counts \/ \E x, error : Refuse(x, error)
        BY <3>5, Zenon DEF Call
      <4>2. QED  BY <3>2, <4>1, Zenon
    <3>6. CASE Disconnect \/ GateTick \/ UNCHANGED gateVars
      BY <3>6 DEF Disconnect, GateTick, gateVars
    <3>7. QED  BY <3>1, <3>3, <3>4, <3>5, <3>6 DEF GateNext
  <2>3. QED  BY <2>1, <2>2 DEF GateTypeOK, NotRecorded
<1>4. QED  BY <1>1, <1>2, <1>3 DEF GateTypeOK

\* A process goes on only with settings it may start with, and telemetry keeps no
\* status out of range (common/config.py, observability).
THEOREM GateTyped == GateSpec => []GateTypeOK
<1>1. GateInit => GateInv /\ GateTypeOK
  BY GateAssumption, NotUnderway DEF GateInit, GateInv, CalledInv, GateTypeOK, NotRecorded
<1>2. QED  BY <1>1, GateStep, GateTypeStep, PTL DEF GateSpec

-----------------------------------------------------------------------------
\* The memory of the local coach.

\* i is the last of the first n answers of a history that went to a session.
LastOf(history, session, n, i) ==
  /\ i \in 1..n /\ history[i].session = session
  /\ \A j \in 1..n : history[j].session = session => j <= i

WasAnswered(history, session, n) == \E j \in 1..n : history[j].session = session

\* The sessions that were answered after the i-th answer.
After(history, i) == {history[k].session : k \in (i + 1)..Len(history)}

Answers == [session : ChatSessions, topic : FinancialIntents, updatedAt : Nat]

\* An entry is the last answer of its session.
Backed(history, entries) ==
  \A s \in DOMAIN entries : \E i \in Nat :
    /\ LastOf(history, s, Len(history), i)
    /\ entries[s] = [topic |-> history[i].topic, updatedAt |-> history[i].updatedAt, turn |-> i]

\* What a session was answered last is remembered, has expired, or gave way to
\* as many other sessions as the memory holds.
Kept(history, entries, reading) ==
  \A s \in ChatSessions :
    \/ ~WasAnswered(history, s, Len(history))
    \/ \E i \in Nat :
         /\ LastOf(history, s, Len(history), i)
         /\ \/ reading - history[i].updatedAt > MemoryTtl
            \/ Cardinality(After(history, i)) >= MaxSessions
            \/ s \in DOMAIN entries

FollowsOwn(history, answer) ==
  answer # NoReply /\ answer.followed =>
    /\ answer.turn \in 0..Len(history)
    /\ \E i \in Nat :
         /\ LastOf(history, answer.session, answer.turn, i)
         /\ history[i].topic = answer.intent
         /\ answer.at - history[i].updatedAt <= MemoryTtl

Table(entries) ==
  /\ IsFiniteSet(DOMAIN entries)
  /\ entries = [s \in DOMAIN entries |-> entries[s]]

ChatInv ==
  /\ chatClock \in Nat /\ talk \in Seq(Answers)
  /\ Table(memory) /\ Cardinality(DOMAIN memory) <= MaxSessions
  /\ DOMAIN memory \subseteq ChatSessions
  /\ Backed(talk, memory)
  /\ Kept(talk, memory, chatClock)
  /\ FollowsOwn(talk, reply)

LEMMA LastTurnIs ==
  ASSUME talk \in Seq(Answers), NEW s, NEW n \in 0..Len(talk)
  PROVE  /\ \A i : LastOf(talk, s, n, i) => LastTurn(s, n) = i
         /\ ~WasAnswered(talk, s, n) => LastTurn(s, n) = 0
<1>1. ASSUME NEW i, LastOf(talk, s, n, i) PROVE LastTurn(s, n) = i
  <2> DEFINE mine == {j \in 1..n : talk[j].session = s}
  <2>1. i \in mine /\ \A j \in mine : j <= i
    BY <1>1 DEF LastOf
  <2>2. \A k \in mine : (\A j \in mine : j <= k) => k = i
    BY <2>1
  <2>3. LastTurn(s, n) = CHOOSE k \in mine : \A j \in mine : j <= k
    BY <2>1 DEF LastTurn
  <2> HIDE DEF mine
  <2>4. QED  BY <2>1, <2>2, <2>3
<1>2. ASSUME ~WasAnswered(talk, s, n) PROVE LastTurn(s, n) = 0
  <2>1. {j \in 1..n : talk[j].session = s} = {}
    BY <1>2 DEF WasAnswered
  <2>2. QED  BY <2>1 DEF LastTurn
<1>3. QED  BY <1>1, <1>2

\* One more answer.
LEMMA AppendAnswer ==
  ASSUME NEW h \in Seq(Answers), NEW a \in Answers
  PROVE  /\ Append(h, a) \in Seq(Answers)
         /\ Len(Append(h, a)) = Len(h) + 1
         /\ \A i \in 1..Len(h) : Append(h, a)[i] = h[i]
         /\ Append(h, a)[Len(h) + 1] = a
         /\ Len(h) \in Nat
OBVIOUS

LEMMA LastAfterAppend ==
  ASSUME NEW h \in Seq(Answers), NEW a \in Answers, NEW s, NEW i
  PROVE  /\ \A n \in 0..Len(h) : LastOf(h, s, n, i) => LastOf(Append(h, a), s, n, i)
         /\ s # a.session /\ LastOf(h, s, Len(h), i) => LastOf(Append(h, a), s, Len(h) + 1, i)
         /\ LastOf(Append(h, a), a.session, Len(h) + 1, Len(h) + 1)
         /\ s # a.session /\ WasAnswered(Append(h, a), s, Len(h) + 1) => WasAnswered(h, s, Len(h))
<1> DEFINE g == Append(h, a)
<1>1. /\ \A j \in 1..Len(h) : g[j] = h[j]
      /\ g[Len(h) + 1] = a /\ Len(h) \in Nat
  BY AppendAnswer
<1> HIDE DEF g
<1>2. \A n \in 0..Len(h) : LastOf(h, s, n, i) => LastOf(g, s, n, i)
  BY <1>1 DEF LastOf
<1>3. s # a.session /\ LastOf(h, s, Len(h), i) => LastOf(g, s, Len(h) + 1, i)
  BY <1>1 DEF LastOf
<1>4. LastOf(g, a.session, Len(h) + 1, Len(h) + 1)
  BY <1>1 DEF LastOf
<1>5. s # a.session /\ WasAnswered(g, s, Len(h) + 1) => WasAnswered(h, s, Len(h))
  BY <1>1 DEF WasAnswered
<1>6. QED  BY <1>2, <1>3, <1>4, <1>5 DEF g

\* The sessions answered after a given answer are finitely many, and more with
\* every answer.
LEMMA AfterIsFinite ==
  ASSUME NEW h \in Seq(Answers), NEW i \in Nat
  PROVE  IsFiniteSet(After(h, i)) /\ Cardinality(After(h, i)) \in Nat
<1> DEFINE from == i + 1
           upto == Len(h)
           f == [k \in from..upto |-> h[k].session]
<1>1. from \in Int /\ upto \in Int
  OBVIOUS
<1>2. f \in Surjection(from..upto, After(h, i))
  BY DEF Surjection, After
<1> HIDE DEF from, upto, f
<1>3. IsFiniteSet(from..upto)
  BY <1>1, FS_Interval
<1>4. IsFiniteSet(After(h, i))
  BY <1>2, <1>3, FS_Surjection
<1>5. QED  BY <1>4, FS_CardinalityType

LEMMA AfterGrows ==
  ASSUME NEW h \in Seq(Answers), NEW a \in Answers, NEW i \in Nat
  PROVE  Cardinality(After(h, i)) <= Cardinality(After(Append(h, a), i))
<1>1. Append(h, a) \in Seq(Answers)
  BY AppendAnswer
<1>2. After(h, i) \subseteq After(Append(h, a), i)
  <2> SUFFICES ASSUME NEW k \in (i + 1)..Len(h)
               PROVE  \E j \in (i + 1)..Len(Append(h, a)) : h[k].session = Append(h, a)[j].session
    BY DEF After
  <2>1. k \in (i + 1)..Len(Append(h, a)) /\ Append(h, a)[k] = h[k]
    BY AppendAnswer
  <2>2. QED  BY <2>1
<1>3. QED  BY <1>1, <1>2, AfterIsFinite, FS_Subset

\* _evict_expired removes nothing recent.
LEMMA UnexpiredKeeps ==
  ASSUME ChatInv
  PROVE  LET known == Unexpired(memory, chatClock)
         IN  /\ Table(known) /\ Cardinality(DOMAIN known) <= MaxSessions
             /\ Cardinality(DOMAIN known) \in Nat
             /\ DOMAIN known \subseteq ChatSessions
             /\ Backed(talk, known)
             /\ Kept(talk, known, chatClock)
             /\ \A s \in DOMAIN known : s \in DOMAIN memory /\ known[s] = memory[s]
                                        /\ chatClock - memory[s].updatedAt <= MemoryTtl
<1> DEFINE known == Unexpired(memory, chatClock)
<1>1. DOMAIN known \subseteq DOMAIN memory
  BY DEF Unexpired, Restrict
<1>2. known = [s \in DOMAIN known |-> known[s]]
  BY DEF Unexpired, Restrict
<1>3. \A s \in DOMAIN known : known[s] = memory[s] /\ chatClock - memory[s].updatedAt <= MemoryTtl
  BY DEF Unexpired, Restrict
<1>4. \A s \in DOMAIN memory : s \in DOMAIN known \/ ~(chatClock - memory[s].updatedAt <= MemoryTtl)
  BY DEF Unexpired, Restrict
<1> HIDE DEF known
<1>5. IsFiniteSet(DOMAIN known) /\ Cardinality(DOMAIN known) <= Cardinality(DOMAIN memory)
  BY <1>1, FS_Subset DEF ChatInv, Table
<1>6. Cardinality(DOMAIN known) \in Nat /\ Cardinality(DOMAIN memory) \in Nat
  BY <1>5, FS_CardinalityType DEF ChatInv, Table
<1>7. Cardinality(DOMAIN known) <= MaxSessions
  BY <1>5, <1>6, ChatAssumption DEF ChatInv
<1>8. Backed(talk, known)
  BY <1>1, <1>3 DEF ChatInv, Backed
<1>9. Kept(talk, known, chatClock)
  <2> SUFFICES ASSUME NEW s \in ChatSessions, WasAnswered(talk, s, Len(talk))
               PROVE  \E i \in Nat : /\ LastOf(talk, s, Len(talk), i)
                                     /\ \/ chatClock - talk[i].updatedAt > MemoryTtl
                                        \/ Cardinality(After(talk, i)) >= MaxSessions
                                        \/ s \in DOMAIN known
    BY DEF Kept
  <2>1. PICK i \in Nat : /\ LastOf(talk, s, Len(talk), i)
                         /\ \/ chatClock - talk[i].updatedAt > MemoryTtl
                            \/ Cardinality(After(talk, i)) >= MaxSessions
                            \/ s \in DOMAIN memory
    BY DEF ChatInv, Kept
  <2>2. CASE s \in DOMAIN memory /\ s \notin DOMAIN known
    <3>1. PICK k \in Nat : /\ LastOf(talk, s, Len(talk), k)
                           /\ memory[s].updatedAt = talk[k].updatedAt
      BY <2>2 DEF ChatInv, Backed
    <3>2. talk[k] \in Answers /\ chatClock \in Nat
      BY <3>1 DEF ChatInv, LastOf
    <3>3. chatClock - talk[k].updatedAt > MemoryTtl
      BY <1>4, <2>2, <3>1, <3>2, ChatAssumption DEF Answers
    <3>4. QED  BY <3>1, <3>3
  <2>3. QED  BY <2>1, <2>2
<1>10. DOMAIN known \subseteq ChatSessions
  BY <1>1 DEF ChatInv
<1>11. Table(known)
  BY <1>2, <1>5 DEF Table
<1>12. \A s \in DOMAIN known : s \in DOMAIN memory
  BY <1>1
<1>13. QED  BY <1>3, <1>6, <1>7, <1>8, <1>9, <1>10, <1>11, <1>12 DEF known

\* Writing an entry for the answer that is appended: the oldest entry that gives
\* way is that of a session after which all the others were answered.
LEMMA RememberKeeps ==
  ASSUME NEW h \in Seq(Answers), NEW known, NEW a \in Answers, NEW reading \in Nat,
         Table(known), Cardinality(DOMAIN known) <= MaxSessions,
         DOMAIN known \subseteq ChatSessions, Backed(h, known), Kept(h, known, reading)
  PROVE  LET entry == [topic |-> a.topic, updatedAt |-> a.updatedAt, turn |-> Len(h) + 1]
             new == Remember(known, a.session, entry)
         IN  /\ Table(new) /\ Cardinality(DOMAIN new) <= MaxSessions
             /\ DOMAIN new \subseteq ChatSessions
             /\ Backed(Append(h, a), new)
             /\ Kept(Append(h, a), new, reading)
<1> DEFINE entry == [topic |-> a.topic, updatedAt |-> a.updatedAt, turn |-> Len(h) + 1]
           g == Append(h, a)
           all == With(known, a.session, entry)
           oldest == {s \in DOMAIN all : \A t \in DOMAIN all : all[s].turn <= all[t].turn}
           new == IF Cardinality(DOMAIN all) > MaxSessions THEN Restrict(all, DOMAIN all \ oldest)
                  ELSE all
<1>1. /\ g \in Seq(Answers) /\ Len(g) = Len(h) + 1 /\ Len(h) \in Nat
      /\ \A i \in 1..Len(h) : g[i] = h[i]
      /\ g[Len(h) + 1] = a
  BY AppendAnswer
<1>2. a.session \in ChatSessions
  BY DEF Answers
<1>3. /\ DOMAIN all = {a.session} \union DOMAIN known
      /\ all[a.session] = entry
      /\ \A s \in DOMAIN known : s # a.session => all[s] = known[s]
      /\ all = [s \in DOMAIN all |-> all[s]]
  BY DEF With
<1>4. \A i : LastOf(h, a.session, Len(h), i) => i \in Nat
  BY <1>1 DEF LastOf
<1>5. /\ \A s, i : s # a.session /\ LastOf(h, s, Len(h), i) => LastOf(g, s, Len(g), i)
      /\ LastOf(g, a.session, Len(g), Len(g))
      /\ \A s : s # a.session /\ WasAnswered(g, s, Len(g)) => WasAnswered(h, s, Len(h))
      /\ \A i \in Nat : Cardinality(After(h, i)) <= Cardinality(After(g, i))
  BY <1>1, LastAfterAppend, AfterGrows
<1>6. \A i \in Nat : /\ Cardinality(After(h, i)) \in Nat
                     /\ IsFiniteSet(After(g, i)) /\ Cardinality(After(g, i)) \in Nat
  BY <1>1, AfterIsFinite
<1>7. entry = [topic |-> g[Len(g)].topic, updatedAt |-> g[Len(g)].updatedAt, turn |-> Len(g)]
  BY <1>1
<1> HIDE DEF all, g, entry
<1>8. Backed(g, all)
  <2> SUFFICES ASSUME NEW s \in DOMAIN all
               PROVE  \E i \in Nat :
                        /\ LastOf(g, s, Len(g), i)
                        /\ all[s] = [topic |-> g[i].topic, updatedAt |-> g[i].updatedAt, turn |-> i]
    BY DEF Backed
  <2>1. CASE s = a.session
    BY <1>1, <1>3, <1>5, <1>7, <2>1
  <2>2. CASE s # a.session
    <3>1. PICK i \in Nat :
            /\ LastOf(h, s, Len(h), i)
            /\ known[s] = [topic |-> h[i].topic, updatedAt |-> h[i].updatedAt, turn |-> i]
      BY <1>3, <2>2 DEF Backed
    <3>2. g[i] = h[i] /\ LastOf(g, s, Len(g), i)
      BY <1>1, <1>5, <2>2, <3>1 DEF LastOf
    <3>3. all[s] = known[s]
      BY <1>3, <2>2
    <3>4. QED  BY <3>1, <3>2, <3>3
  <2>3. QED  BY <2>1, <2>2
<1>9. IsFiniteSet(DOMAIN all) /\ Cardinality(DOMAIN all) <= MaxSessions + 1
  <2>1. IsFiniteSet(DOMAIN known) /\ DOMAIN known \union {a.session} = DOMAIN all
    BY <1>3 DEF Table
  <2>2. Cardinality(DOMAIN known) \in Nat
    BY <2>1, FS_CardinalityType
  <2>3. /\ IsFiniteSet(DOMAIN known \cup {a.session})
        /\ \/ Cardinality(DOMAIN known \cup {a.session}) = Cardinality(DOMAIN known)
           \/ Cardinality(DOMAIN known \cup {a.session}) = Cardinality(DOMAIN known) + 1
    BY <2>1, FS_AddElement
  <2>4. QED  BY <2>1, <2>2, <2>3, ChatAssumption
<1>10. Cardinality(DOMAIN all) \in Nat /\ DOMAIN all \subseteq ChatSessions
  BY <1>2, <1>3, <1>9, FS_CardinalityType
\* The others were answered later than the oldest.
<1>11. ASSUME NEW s \in oldest, NEW i \in Nat, LastOf(g, s, Len(g), i),
              Cardinality(DOMAIN all) > MaxSessions
       PROVE  Cardinality(After(g, i)) >= MaxSessions
  <2>1. all[s].turn = i
    <3>1. PICK k \in Nat : LastOf(g, s, Len(g), k) /\ all[s].turn = k
      BY <1>8 DEF Backed
    <3>2. k = i
      BY <1>11, <3>1, <1>1 DEF LastOf
    <3>3. QED  BY <3>1, <3>2
  <2>2. DOMAIN all \ {s} \subseteq After(g, i)
    <3> SUFFICES ASSUME NEW t \in DOMAIN all, t # s
                 PROVE  \E k \in (i + 1)..Len(g) : t = g[k].session
      BY DEF After
    <3>1. PICK k \in Nat : LastOf(g, t, Len(g), k) /\ all[t].turn = k
      BY <1>8 DEF Backed
    <3>2. i <= k
      BY <2>1, <3>1
    <3>3. i # k
      BY <1>11, <3>1 DEF LastOf
    <3>4. k \in (i + 1)..Len(g) /\ g[k].session = t
      BY <1>1, <3>1, <3>2, <3>3 DEF LastOf
    <3>5. QED  BY <3>4
  <2>3. /\ IsFiniteSet(DOMAIN all \ {s})
        /\ Cardinality(DOMAIN all \ {s}) = Cardinality(DOMAIN all) - 1
    BY <1>9, FS_RemoveElement
  <2>4. Cardinality(DOMAIN all \ {s}) <= Cardinality(After(g, i))
    BY <1>6, <2>2, FS_Subset
  <2> DEFINE size == Cardinality(DOMAIN all)
             later == Cardinality(After(g, i))
  <2>5. later \in Nat /\ size \in Nat /\ size > MaxSessions /\ size - 1 <= later
    BY <1>6, <1>10, <1>11, <2>3, <2>4
  <2> HIDE DEF size, later
  <2>6. later >= MaxSessions
    BY <2>5, ChatAssumption
  <2>7. QED  BY <2>6 DEF later
<1>12. /\ DOMAIN new \subseteq DOMAIN all
       /\ \A s \in DOMAIN new : new[s] = all[s]
       /\ new = [s \in DOMAIN new |-> new[s]]
       /\ \A s \in DOMAIN all : \/ s \in DOMAIN new
                                \/ s \in oldest /\ Cardinality(DOMAIN all) > MaxSessions
  <2>1. CASE Cardinality(DOMAIN all) > MaxSessions
    <3>1. new = Restrict(all, DOMAIN all \ oldest)
      BY <2>1
    <3> HIDE DEF new, oldest
    <3>2. new = [s \in DOMAIN all \ oldest |-> all[s]]
      BY <3>1, Zenon DEF Restrict
    <3>3. QED  BY <2>1, <3>2
  <2>2. CASE ~(Cardinality(DOMAIN all) > MaxSessions)
    <3>1. new = all
      BY <2>2
    <3> HIDE DEF new, oldest
    <3>2. QED  BY <1>3, <3>1
  <2>3. QED  BY <2>1, <2>2
<1>13. Cardinality(DOMAIN new) <= MaxSessions
  <2>1. CASE Cardinality(DOMAIN all) > MaxSessions
    <3> DEFINE turn == [s \in DOMAIN all |-> all[s].turn]
    <3>1. \A s \in DOMAIN all : turn[s] \in Nat
      BY <1>8 DEF Backed
    <3>2. DOMAIN all # {}
      BY <1>3
    <3>3. PICK s \in DOMAIN all : \A t \in DOMAIN all : turn[s] <= turn[t]
      <4> HIDE DEF turn
      <4>1. QED  BY <1>9, <3>1, <3>2, LeastExists
    <3>4. s \in oldest
      BY <3>3
    <3>5. DOMAIN new \subseteq DOMAIN all \ {s}
      BY <2>1, <3>4 DEF Restrict
    <3> HIDE DEF new, oldest
    <3>6. /\ IsFiniteSet(DOMAIN all \ {s})
          /\ Cardinality(DOMAIN all \ {s}) = Cardinality(DOMAIN all) - 1
      BY <1>9, FS_RemoveElement
    <3>7. IsFiniteSet(DOMAIN new) /\ Cardinality(DOMAIN new) <= Cardinality(DOMAIN all \ {s})
      BY <3>5, <3>6, FS_Subset
    <3>8. Cardinality(DOMAIN new) \in Nat
      BY <3>7, FS_CardinalityType
    <3>9. QED  BY <1>9, <1>10, <3>6, <3>7, <3>8, ChatAssumption
  <2>2. CASE ~(Cardinality(DOMAIN all) > MaxSessions)
    BY <1>10, <2>2, ChatAssumption
  <2>3. QED  BY <2>1, <2>2
<1> HIDE DEF new, oldest
<1>14. Table(new) /\ DOMAIN new \subseteq ChatSessions
  BY <1>9, <1>10, <1>12, FS_Subset DEF Table
<1>15. Backed(g, new)
  BY <1>8, <1>12 DEF Backed
<1>16. Kept(g, new, reading)
  <2> SUFFICES ASSUME NEW s \in ChatSessions, WasAnswered(g, s, Len(g))
               PROVE  \E i \in Nat : /\ LastOf(g, s, Len(g), i)
                                     /\ \/ reading - g[i].updatedAt > MemoryTtl
                                        \/ Cardinality(After(g, i)) >= MaxSessions
                                        \/ s \in DOMAIN new
    BY DEF Kept
  <2>1. CASE s \in DOMAIN all
    <3>1. PICK i \in Nat : LastOf(g, s, Len(g), i)
      BY <1>8, <2>1 DEF Backed
    <3>2. QED  BY <1>11, <1>12, <2>1, <3>1
  <2>2. CASE s \notin DOMAIN all
    <3>1. s # a.session /\ s \notin DOMAIN known
      BY <1>3, <2>2
    <3>2. PICK i \in Nat : /\ LastOf(h, s, Len(h), i)
                           /\ \/ reading - h[i].updatedAt > MemoryTtl
                              \/ Cardinality(After(h, i)) >= MaxSessions
      BY <1>5, <3>1 DEF Kept
    <3>3. g[i] = h[i] /\ LastOf(g, s, Len(g), i)
      BY <1>1, <1>5, <3>1, <3>2 DEF LastOf
    <3>4. Cardinality(After(h, i)) >= MaxSessions => Cardinality(After(g, i)) >= MaxSessions
      <4> DEFINE before == Cardinality(After(h, i))
                 after == Cardinality(After(g, i))
      <4>1. before <= after /\ before \in Nat /\ after \in Nat /\ MaxSessions \in Nat
        BY <1>5, <1>6, ChatAssumption
      <4> HIDE DEF before, after
      <4>2. before >= MaxSessions => after >= MaxSessions
        BY <4>1
      <4>3. QED  BY <4>2 DEF before, after
    <3>5. QED  BY <3>2, <3>3, <3>4
  <2>3. QED  BY <2>1, <2>2
<1>17. QED  BY <1>13, <1>14, <1>15, <1>16 DEF new, oldest, all, g, entry, Remember

LEMMA FollowsStays ==
  ASSUME NEW h \in Seq(Answers), NEW a \in Answers, NEW answer, FollowsOwn(h, answer)
  PROVE  FollowsOwn(Append(h, a), answer)
<1> SUFFICES ASSUME answer # NoReply /\ answer.followed
             PROVE  /\ answer.turn \in 0..Len(Append(h, a))
                    /\ \E i \in Nat :
                         /\ LastOf(Append(h, a), answer.session, answer.turn, i)
                         /\ Append(h, a)[i].topic = answer.intent
                         /\ answer.at - Append(h, a)[i].updatedAt <= MemoryTtl
  BY DEF FollowsOwn
<1>1. answer.turn \in 0..Len(h)
  BY DEF FollowsOwn
<1>2. PICK i \in Nat : /\ LastOf(h, answer.session, answer.turn, i)
                       /\ h[i].topic = answer.intent
                       /\ answer.at - h[i].updatedAt <= MemoryTtl
  BY DEF FollowsOwn
<1>3. Append(h, a)[i] = h[i] /\ i \in 1..Len(h)
  BY <1>1, <1>2, AppendAnswer DEF LastOf
<1>4. LastOf(Append(h, a), answer.session, answer.turn, i)
  BY <1>1, <1>2, LastAfterAppend
<1>5. Len(Append(h, a)) = Len(h) + 1 /\ Len(h) \in Nat
  BY AppendAnswer
<1>6. QED  BY <1>1, <1>2, <1>3, <1>4, <1>5

\* An answer of the local engine.
LEMMA RespondKeeps ==
  ASSUME ChatInv, NEW s \in ChatSessions, NEW q \in ChatQuestions, RespondLocally(s, q)
  PROVE  ChatInv'
<1> DEFINE known == Unexpired(memory, chatClock)
           previous == EntryOf(known, s)
           followed == q.followUp /\ previous # {}
           intent == IF followed THEN Sole(previous).topic ELSE IntentOf(q)
           entry == [topic |-> intent, updatedAt |-> chatClock, turn |-> Len(talk) + 1]
           a == [session |-> s, topic |-> intent, updatedAt |-> chatClock]
           financial == intent \in FinancialIntents
<1>1. /\ memory' = IF financial THEN Remember(known, s, entry) ELSE known
      /\ talk' = IF financial THEN Append(talk, a) ELSE talk
      /\ reply' = [session |-> s, intent |-> intent, followed |-> followed,
                   variant |-> Variant(intent, q, previous),
                   disclaimer |-> financial, by |-> "local_guidance",
                   turn |-> Len(talk), at |-> chatClock]
      /\ chatClock' = chatClock
  BY DEF RespondLocally
<1>2. /\ Table(known) /\ Cardinality(DOMAIN known) <= MaxSessions
      /\ DOMAIN known \subseteq ChatSessions
      /\ Backed(talk, known) /\ Kept(talk, known, chatClock)
      /\ \A t \in DOMAIN known : /\ t \in DOMAIN memory /\ known[t] = memory[t]
                                 /\ chatClock - memory[t].updatedAt <= MemoryTtl
  BY UnexpiredKeeps
<1>3. followed => s \in DOMAIN known /\ intent = known[s].topic
  BY DEF EntryOf, Sole
<1>4. reply'.followed = followed /\ reply'.session = s /\ reply'.turn = Len(talk)
      /\ reply'.intent = intent /\ reply'.at = chatClock
  BY <1>1
<1> HIDE DEF known, previous, followed, intent
<1>5. talk \in Seq(Answers) /\ Len(talk) \in Nat /\ chatClock \in Nat
  BY DEF ChatInv
<1>6. FollowsOwn(talk, reply')
  <2> SUFFICES ASSUME followed
               PROVE  \E i \in Nat : /\ LastOf(talk, s, Len(talk), i)
                                     /\ talk[i].topic = intent
                                     /\ chatClock - talk[i].updatedAt <= MemoryTtl
    BY <1>4, <1>5 DEF FollowsOwn
  <2>1. PICK i \in Nat :
          /\ LastOf(talk, s, Len(talk), i)
          /\ known[s] = [topic |-> talk[i].topic, updatedAt |-> talk[i].updatedAt, turn |-> i]
    BY <1>2, <1>3 DEF Backed
  <2>2. known[s].updatedAt = talk[i].updatedAt /\ known[s].topic = talk[i].topic
    BY <2>1
  <2>3. QED  BY <1>2, <1>3, <2>1, <2>2
<1>7. CASE financial
  <2>1. a \in Answers
    BY <1>5, <1>7 DEF Answers
  <2>2. /\ a.topic = intent /\ a.updatedAt = chatClock /\ a.session = s
        /\ talk' = Append(talk, a) /\ memory' = Remember(known, s, entry)
    BY <1>1, <1>7
  <2> HIDE DEF a, financial
  <2>3. talk' \in Seq(Answers)
    BY <1>5, <2>1, <2>2, AppendAnswer
  <2>4. FollowsOwn(talk', reply')
    BY <1>5, <1>6, <2>1, <2>2, FollowsStays
  <2>5. /\ Table(memory') /\ Cardinality(DOMAIN memory') <= MaxSessions
        /\ DOMAIN memory' \subseteq ChatSessions
        /\ Backed(talk', memory') /\ Kept(talk', memory', chatClock)
    BY <1>2, <1>5, <2>1, <2>2, RememberKeeps
  <2>6. QED  BY <1>1, <1>5, <2>3, <2>4, <2>5 DEF ChatInv
<1>8. CASE ~financial
  <2>1. talk' = talk /\ memory' = known
    BY <1>1, <1>8
  <2>2. QED  BY <1>1, <1>2, <1>5, <1>6, <2>1 DEF ChatInv
<1>9. QED  BY <1>7, <1>8

\* Time only makes answers expire.
LEMMA KeptLater ==
  ASSUME NEW h \in Seq(Answers), NEW entries, NEW reading \in Nat, Kept(h, entries, reading)
  PROVE  Kept(h, entries, reading + 1)
<1> DEFINE next == reading + 1
<1>1. \A i \in 1..Len(h) : reading - h[i].updatedAt > MemoryTtl => next - h[i].updatedAt > MemoryTtl
  <2> SUFFICES ASSUME NEW i \in 1..Len(h), reading - h[i].updatedAt > MemoryTtl
               PROVE  next - h[i].updatedAt > MemoryTtl
    OBVIOUS
  <2>1. h[i] \in Answers
    OBVIOUS
  <2>2. QED  BY <2>1, ChatAssumption DEF Answers
<1> HIDE DEF next
<1>2. Kept(h, entries, next)
  <2> SUFFICES ASSUME NEW s \in ChatSessions, WasAnswered(h, s, Len(h))
               PROVE  \E i \in Nat : /\ LastOf(h, s, Len(h), i)
                                     /\ \/ next - h[i].updatedAt > MemoryTtl
                                        \/ Cardinality(After(h, i)) >= MaxSessions
                                        \/ s \in DOMAIN entries
    BY DEF Kept
  <2>1. PICK i \in Nat : /\ LastOf(h, s, Len(h), i)
                         /\ \/ reading - h[i].updatedAt > MemoryTtl
                            \/ Cardinality(After(h, i)) >= MaxSessions
                            \/ s \in DOMAIN entries
    BY DEF Kept
  <2>2. i \in 1..Len(h)
    BY <2>1 DEF LastOf
  <2>3. QED  BY <1>1, <2>1, <2>2
<1>3. QED  BY <1>2 DEF next

\* Every step.
LEMMA ChatStep == ChatInv /\ [ChatNext]_chatVars => ChatInv'
<1> SUFFICES ASSUME ChatInv, [ChatNext]_chatVars PROVE ChatInv'
  OBVIOUS
<1>1. ASSUME NEW s \in ChatSessions, NEW q \in ChatQuestions, AnswerLocally(s, q)
      PROVE  ChatInv'
  BY <1>1, RespondKeeps DEF AnswerLocally
<1>2. ASSUME NEW s \in ChatSessions, AnswerWithGemini(s) PROVE ChatInv'
  <2>1. /\ ~reply'.followed
        /\ memory' = memory /\ chatClock' = chatClock /\ talk' = talk
    BY <1>2 DEF AnswerWithGemini
  <2>2. FollowsOwn(talk', reply')
    BY <2>1 DEF FollowsOwn
  <2>3. QED  BY <2>1, <2>2 DEF ChatInv
<1>3. CASE ChatTick
  <2>1. /\ chatClock' = chatClock + 1 /\ chatClock' \in Nat
        /\ memory' = memory /\ talk' = talk /\ reply' = reply
    BY <1>3 DEF ChatTick, ChatInv
  <2>2. Kept(talk, memory, chatClock + 1)
    BY KeptLater DEF ChatInv
  <2>3. QED  BY <2>1, <2>2 DEF ChatInv
<1>4. CASE UNCHANGED chatVars
  BY <1>4 DEF chatVars, ChatInv
<1>5. QED  BY <1>1, <1>2, <1>3, <1>4 DEF ChatNext

LEMMA ChatStarts == ChatInit => ChatInv
<1> SUFFICES ASSUME ChatInit PROVE ChatInv
  OBVIOUS
<1>1. memory = << >> /\ chatClock = 0 /\ talk = << >> /\ reply = NoReply
  BY DEF ChatInit
<1>2. DOMAIN memory = {} /\ Len(talk) = 0 /\ talk \in Seq(Answers)
  BY <1>1
<1>3. memory = [s \in DOMAIN memory |-> memory[s]]
  BY <1>1
<1>4. Table(memory) /\ Cardinality(DOMAIN memory) <= MaxSessions
  BY <1>2, <1>3, FS_EmptySet, ChatAssumption DEF Table
<1>5. Kept(talk, memory, chatClock)
  BY <1>2 DEF Kept, WasAnswered
<1>6. QED  BY <1>1, <1>2, <1>4, <1>5 DEF ChatInv, Backed, FollowsOwn

\* A follow-up to the local coach is answered on the last financial topic of its
\* own session and only while that is recent, and the memory forgets a recent
\* topic only for as many sessions answered later as it holds
\* (coach/local_conversation.py, respond and _remember).
THEOREM TopicsStayWithTheirSession == ChatSpec => []TopicIsTheSessionsOwn
<1>1. ChatInv => TopicIsTheSessionsOwn
  <2> SUFFICES ASSUME ChatInv PROVE TopicIsTheSessionsOwn
    OBVIOUS
  <2>1. talk \in Seq(Answers) /\ Len(talk) \in Nat
    BY DEF ChatInv
  <2>2. ASSUME reply # NoReply, reply.followed
        PROVE  LET last == LastTurn(reply.session, reply.turn)
               IN  /\ last > 0
                   /\ talk[last].topic = reply.intent
                   /\ reply.at - talk[last].updatedAt <= MemoryTtl
    <3>1. reply.turn \in 0..Len(talk)
      BY <2>2 DEF ChatInv, FollowsOwn
    <3>2. PICK i \in Nat : /\ LastOf(talk, reply.session, reply.turn, i)
                           /\ talk[i].topic = reply.intent
                           /\ reply.at - talk[i].updatedAt <= MemoryTtl
      BY <2>2 DEF ChatInv, FollowsOwn
    <3>3. LastTurn(reply.session, reply.turn) = i /\ i > 0
      BY <2>1, <3>1, <3>2, LastTurnIs DEF LastOf
    <3>4. QED  BY <3>2, <3>3
  <2>3. ASSUME NEW s \in ChatSessions
        PROVE  LET last == LastTurn(s, Len(talk))
                   later == {talk[i].session : i \in (last + 1)..Len(talk)}
               IN  \/ last = 0
                   \/ chatClock - talk[last].updatedAt > MemoryTtl
                   \/ Cardinality(later) >= MaxSessions
                   \/ /\ s \in DOMAIN memory
                      /\ memory[s] = [topic |-> talk[last].topic,
                                      updatedAt |-> talk[last].updatedAt, turn |-> last]
    <3>1. CASE ~WasAnswered(talk, s, Len(talk))
      BY <2>1, <3>1, LastTurnIs
    <3>2. CASE WasAnswered(talk, s, Len(talk))
      <4>1. PICK i \in Nat : /\ LastOf(talk, s, Len(talk), i)
                             /\ \/ chatClock - talk[i].updatedAt > MemoryTtl
                                \/ Cardinality(After(talk, i)) >= MaxSessions
                                \/ s \in DOMAIN memory
        BY <3>2 DEF ChatInv, Kept
      <4>2. LastTurn(s, Len(talk)) = i
        BY <2>1, <4>1, LastTurnIs
      <4>3. ASSUME s \in DOMAIN memory
            PROVE  memory[s] = [topic |-> talk[i].topic, updatedAt |-> talk[i].updatedAt,
                                turn |-> i]
        <5>1. PICK k \in Nat :
                /\ LastOf(talk, s, Len(talk), k)
                /\ memory[s] = [topic |-> talk[k].topic, updatedAt |-> talk[k].updatedAt,
                                turn |-> k]
          BY <4>3 DEF ChatInv, Backed
        <5>2. k = i
          BY <2>1, <4>1, <5>1 DEF LastOf
        <5>3. QED  BY <5>1, <5>2
      <4>4. QED  BY <4>1, <4>2, <4>3 DEF After
    <3>3. QED  BY <3>1, <3>2
  <2>4. QED  BY <2>2, <2>3 DEF TopicIsTheSessionsOwn, ChatInv
<1>2. QED  BY <1>1, ChatStarts, ChatStep, PTL DEF ChatSpec

\* No answer is dated in the future.
ChatTypeInv ==
  /\ ChatInv
  /\ chatClock \in 0..ChatEnd /\ Len(talk) <= MaxTurns
  /\ \A i \in 1..Len(talk) : talk[i].updatedAt <= chatClock

LEMMA ChatTypeStep == ChatTypeInv /\ [ChatNext]_chatVars => ChatTypeInv'
<1> SUFFICES ASSUME ChatTypeInv, [ChatNext]_chatVars PROVE ChatTypeInv'
  OBVIOUS
<1>1. ChatInv' /\ ChatInv /\ chatClock \in Nat /\ talk \in Seq(Answers)
  BY ChatStep DEF ChatTypeInv, ChatInv
<1>2. ASSUME NEW s \in ChatSessions, NEW q \in ChatQuestions, AnswerLocally(s, q)
      PROVE  ChatTypeInv'
  <2>1. PICK topic : \/ UNCHANGED talk
                     \/ /\ Len(talk) < MaxTurns
                        /\ talk' = Append(talk, [session |-> s, topic |-> topic,
                                                updatedAt |-> chatClock])
    BY <1>2, Zenon DEF AnswerLocally, RespondLocally
  <2>2. UNCHANGED chatClock
    BY <1>2, Zenon DEF AnswerLocally, RespondLocally
  <2>3. CASE UNCHANGED talk
    BY <1>1, <2>2, <2>3 DEF ChatTypeInv
  <2>4. CASE /\ Len(talk) < MaxTurns
             /\ talk' = Append(talk, [session |-> s, topic |-> topic, updatedAt |-> chatClock])
    <3> DEFINE a == [session |-> s, topic |-> topic, updatedAt |-> chatClock]
    <3>1. a.updatedAt = chatClock
      OBVIOUS
    <3>2. talk' = Append(talk, a)
      BY <2>4
    <3> HIDE DEF a
    <3>3. /\ Len(talk') = Len(talk) + 1 /\ Len(talk) \in Nat
          /\ \A i \in 1..Len(talk) : talk'[i] = talk[i]
          /\ talk'[Len(talk) + 1] = a
      BY <1>1, <3>2
    <3>4. Len(talk') <= MaxTurns
      BY <2>4, <3>3, ChatAssumption
    <3>5. \A i \in 1..Len(talk') : talk'[i].updatedAt <= chatClock
      BY <1>1, <3>1, <3>3 DEF ChatTypeInv
    <3>6. QED  BY <1>1, <2>2, <3>4, <3>5 DEF ChatTypeInv
  <2>5. QED  BY <2>1, <2>3, <2>4
<1>3. ASSUME NEW s \in ChatSessions, AnswerWithGemini(s) PROVE ChatTypeInv'
  BY <1>1, <1>3 DEF AnswerWithGemini, ChatTypeInv
<1>4. CASE ChatTick
  <2>1. chatClock < ChatEnd /\ chatClock' = chatClock + 1 /\ UNCHANGED talk
    BY <1>4 DEF ChatTick
  <2>2. chatClock' \in 0..ChatEnd
    BY <1>1, <2>1, ChatAssumption
  <2>3. ASSUME NEW i \in 1..Len(talk) PROVE talk[i].updatedAt <= chatClock + 1
    <3>1. talk[i] \in Answers /\ talk[i].updatedAt <= chatClock
      BY <1>1 DEF ChatTypeInv
    <3>2. talk[i].updatedAt \in Nat
      BY <3>1 DEF Answers
    <3>3. QED  BY <1>1, <3>1, <3>2
  <2>4. QED  BY <1>1, <2>1, <2>2, <2>3 DEF ChatTypeInv
<1>5. CASE UNCHANGED chatVars
  BY <1>1, <1>5 DEF chatVars, ChatTypeInv
<1>6. QED  BY <1>2, <1>3, <1>4, <1>5 DEF ChatNext

\* What the local coach remembers are financial topics of its sessions, none dated
\* in the future (coach/local_conversation.py, _remember).
THEOREM ChatTyped == ChatSpec => []ChatTypeOK
<1>1. ChatInit => ChatTypeInv
  <2> SUFFICES ASSUME ChatInit PROVE ChatTypeInv
    OBVIOUS
  <2>1. ChatInv
    BY ChatStarts
  <2>2. chatClock = 0 /\ Len(talk) = 0
    BY DEF ChatInit
  <2>3. QED  BY <2>1, <2>2, ChatAssumption DEF ChatTypeInv
<1>2. ASSUME ChatTypeInv PROVE ChatTypeOK
  <2>1. ASSUME NEW s \in DOMAIN memory
        PROVE  /\ s \in ChatSessions /\ memory[s].topic \in FinancialIntents
               /\ memory[s].updatedAt \in 0..chatClock
    <3>1. PICK i \in Nat :
            /\ i \in 1..Len(talk)
            /\ memory[s] = [topic |-> talk[i].topic, updatedAt |-> talk[i].updatedAt, turn |-> i]
      BY <1>2 DEF ChatTypeInv, ChatInv, Backed, LastOf
    <3>2. talk[i] \in Answers /\ talk[i].updatedAt <= chatClock /\ chatClock \in Nat
      BY <1>2, <3>1 DEF ChatTypeInv, ChatInv
    <3>3. s \in ChatSessions
      BY <1>2 DEF ChatTypeInv, ChatInv
    <3>4. QED  BY <3>1, <3>2, <3>3 DEF Answers
  <2>2. QED  BY <1>2, <2>1 DEF ChatTypeInv, ChatTypeOK
<1>3. QED  BY <1>1, <1>2, ChatTypeStep, PTL DEF ChatSpec

-----------------------------------------------------------------------------
\* The grounded coach.

Matching(cards, question) == {c \in cards : c.series \in question.matches}

\* The order of the figures is total, so their positions differ, and as there are
\* as many positions as figures, each is taken.
LEMMA OrderIsTotal ==
  /\ \A a, b, c \in Cards : NewestFirst(a, b) /\ NewestFirst(b, c) => NewestFirst(a, c)
  /\ \A a \in Cards : ~NewestFirst(a, a)
  /\ \A a, b \in Cards : a = b \/ NewestFirst(a, b) \/ NewestFirst(b, a)
BY GroundedAssumption DEF NewestFirst

LEMMA PositionsAreTaken ==
  ASSUME NEW cards \in SUBSET Cards
  PROVE  /\ IsFiniteSet(cards) /\ Cardinality(cards) \in Nat
         /\ \A c \in cards : Cardinality(Before(cards, c)) \in 0..(Cardinality(cards) - 1)
         /\ \A c, d \in cards : NewestFirst(c, d) =>
              Cardinality(Before(cards, c)) < Cardinality(Before(cards, d))
         /\ \A n \in 0..(Cardinality(cards) - 1) :
              \E c \in cards : Cardinality(Before(cards, c)) = n
<1> DEFINE order == {pair \in cards \X cards : NewestFirst(pair[1], pair[2])}
<1>1. IsFiniteSet(cards)
  BY GroundedAssumption, FS_Subset
<1>2. /\ order \in SUBSET (cards \X cards)
      /\ \A a, b \in cards : <<a, b>> \in order <=> NewestFirst(a, b)
  OBVIOUS
<1>3. \A c \in cards : Before(cards, c) = BeforeIn(cards, order, c)
  BY <1>2 DEF Before, BeforeIn
<1> HIDE DEF order
<1>4. /\ Cardinality(cards) \in Nat
      /\ \A c \in cards : Cardinality(BeforeIn(cards, order, c)) \in 0 .. (Cardinality(cards) - 1)
      /\ \A c, d \in cards : <<c, d>> \in order =>
           Cardinality(BeforeIn(cards, order, c)) < Cardinality(BeforeIn(cards, order, d))
      /\ \A n \in 0 .. (Cardinality(cards) - 1) :
           \E c \in cards : Cardinality(BeforeIn(cards, order, c)) = n
  BY <1>1, <1>2, OrderIsTotal, RanksAreTaken
<1>5. QED  BY <1>1, <1>2, <1>3, <1>4

\* The figures found are the first by that order.
LEMMA FoundInOrder ==
  ASSUME publishedCards \in SUBSET Cards, NEW question
  PROVE  LET matching == Matching(publishedCards, question)
             found == SearchPublished(question, SourceLimit)
         IN  /\ found \in Seq(matching) /\ Len(found) \in 0..SourceLimit
             /\ \A n \in 1..Len(found), d \in matching :
                  d.released > found[n].released => \E j \in 1..(n - 1) : d = found[j]
<1> DEFINE matching == Matching(publishedCards, question)
           size == Cardinality(matching)
           top == IF size < SourceLimit THEN size ELSE SourceLimit
           found == SearchPublished(question, SourceLimit)
<1>1. matching \in SUBSET Cards
  BY DEF Matching
<1>2. found = [n \in 1..top |-> CHOOSE c \in matching : Cardinality(Before(matching, c)) = n - 1]
  BY DEF SearchPublished, Matching
<1> HIDE DEF matching, found
<1>3. /\ size \in Nat
      /\ \A c \in matching : Cardinality(Before(matching, c)) \in 0..(size - 1)
      /\ \A c, d \in matching : NewestFirst(c, d) =>
           Cardinality(Before(matching, c)) < Cardinality(Before(matching, d))
      /\ \A n \in 0..(size - 1) : \E c \in matching : Cardinality(Before(matching, c)) = n
  BY <1>1, PositionsAreTaken
<1>4. top \in 0..SourceLimit /\ top <= size
  BY <1>3, GroundedAssumption
<1> HIDE DEF size, top
<1>5. ASSUME NEW n \in 1..top
      PROVE  found[n] \in matching /\ Cardinality(Before(matching, found[n])) = n - 1
  <2>1. n - 1 \in 0..(size - 1)
    BY <1>3, <1>4
  <2>2. \E c \in matching : Cardinality(Before(matching, c)) = n - 1
    BY <1>3, <2>1
  <2>3. QED  BY <1>2, <2>2
<1>6. found \in [1..top -> matching]
  BY <1>2, <1>5
<1>7. found \in Seq(matching) /\ Len(found) = top
  BY <1>4, <1>6
<1>8. ASSUME NEW n \in 1..top, NEW d \in matching, d.released > found[n].released
      PROVE  \E j \in 1..(n - 1) : d = found[j]
  <2>1. found[n] \in matching /\ Cardinality(Before(matching, found[n])) = n - 1
    BY <1>5
  <2>2. NewestFirst(d, found[n])
    BY <1>8 DEF NewestFirst
  <2> DEFINE j == Cardinality(Before(matching, d)) + 1
  <2>3. j \in 1..(n - 1)
    BY <1>3, <2>1, <2>2
  <2>4. j \in 1..top /\ Cardinality(Before(matching, d)) = j - 1
    BY <1>3, <1>4, <2>3
  <2> HIDE DEF j
  <2>5. found[j] \in matching /\ Cardinality(Before(matching, found[j])) = j - 1
    BY <1>5, <2>4
  <2>6. d = found[j] \/ NewestFirst(d, found[j]) \/ NewestFirst(found[j], d)
    BY <1>1, <2>5, OrderIsTotal
  <2>7. d = found[j]
    BY <1>3, <2>4, <2>5, <2>6
  <2>8. QED  BY <2>3, <2>7
<1>9. QED  BY <1>4, <1>7, <1>8 DEF matching, found

\* Of these, the context keeps the first.
LEMMA FittingIsPrefix ==
  ASSUME NEW S, NEW cards \in Seq(S)
  PROVE  \E k \in 0..Len(cards) : FittingCards(cards) = SubSeq(cards, 1, k)
<1> DEFINE fits == {0} \cup {n \in 1..Len(cards) : LinesLength(cards, n) <= MaximumContext}
           size == Len(cards)
           rest == [n \in fits |-> size - n]
<1>1. size \in Nat /\ fits \subseteq 0..size /\ fits # {}
  OBVIOUS
<1>2. FittingCards(cards) = SubSeq(cards, 1, CHOOSE n \in fits : \A k \in fits : k <= n)
  BY DEF FittingCards
<1> HIDE DEF fits, size
<1>3. IsFiniteSet(0..size)
  BY <1>1, FS_Interval
<1>4. IsFiniteSet(fits)
  BY <1>1, <1>3, FS_Subset
<1>5. \A n \in fits : rest[n] \in Int
  BY <1>1
<1>6. PICK n \in fits : \A k \in fits : rest[n] <= rest[k]
  <2> HIDE DEF rest
  <2>1. QED  BY <1>1, <1>4, <1>5, LeastExists
<1>7. \A k \in fits : k <= n
  <2> SUFFICES ASSUME NEW k \in fits PROVE k <= n
    OBVIOUS
  <2>1. size - n <= size - k
    BY <1>6
  <2>2. QED  BY <1>1, <2>1
<1>8. QED  BY <1>1, <1>2, <1>7 DEF size

\* What the provider reads.
CardsRead(lines) == {lines[n].card : n \in DOMAIN lines}

Gathered(lines, known, question) ==
  /\ \A c \in CardsRead(lines) : c \in known /\ c.series \in question.matches
  /\ \A c \in CardsRead(lines), d \in known \ CardsRead(lines) :
       d.series \in question.matches => d.released <= c.released
  /\ Cardinality(CardsRead(lines)) <= SourceLimit

LEMMA ContextIsGathered ==
  ASSUME publishedCards \in SUBSET Cards, NEW question
  PROVE  LET context == FittingCards(SearchPublished(question, SourceLimit))
         IN  context \in Seq(Cards) /\ Gathered(Numbered(context), publishedCards, question)
<1> DEFINE matching == Matching(publishedCards, question)
           found == SearchPublished(question, SourceLimit)
           context == FittingCards(found)
<1>1. /\ found \in Seq(matching) /\ Len(found) \in 0..SourceLimit
      /\ \A n \in 1..Len(found), d \in matching :
           d.released > found[n].released => \E j \in 1..(n - 1) : d = found[j]
  BY FoundInOrder
<1>2. \A c \in matching : c \in Cards /\ c \in publishedCards /\ c.series \in question.matches
  BY DEF Matching
<1>3. \A d \in publishedCards : d.series \in question.matches => d \in matching
  BY DEF Matching
<1> HIDE DEF found, matching
<1>4. PICK k \in 0..Len(found) : context = SubSeq(found, 1, k)
  BY <1>1, FittingIsPrefix
<1> HIDE DEF context
<1>5. /\ context \in Seq(matching) /\ Len(context) = k /\ k \in 0..SourceLimit
      /\ \A n \in 1..k : context[n] = found[n] /\ found[n] \in matching
  BY <1>1, <1>4, GroundedAssumption
<1>6. context \in Seq(Cards)
  BY <1>2, <1>5
<1> DEFINE lines == Numbered(context)
<1>7. DOMAIN lines = 1..k /\ \A n \in 1..k : lines[n].card = found[n]
  BY <1>5 DEF Numbered
<1> HIDE DEF lines
<1>8. CardsRead(lines) = {found[n] : n \in 1..k}
  BY <1>7 DEF CardsRead
<1>9. \A c \in CardsRead(lines) : c \in publishedCards /\ c.series \in question.matches
  BY <1>2, <1>5, <1>8
<1>10. ASSUME NEW c \in CardsRead(lines), NEW d \in publishedCards \ CardsRead(lines),
              d.series \in question.matches
       PROVE  d.released <= c.released
  <2>1. PICK n \in 1..k : c = found[n]
    BY <1>8
  <2>2. d \in matching /\ d \in Cards /\ c \in Cards
    BY <1>2, <1>3, <1>5, <1>10, <2>1
  <2>3. ASSUME d.released > c.released PROVE FALSE
    <3>1. PICK j \in 1..(n - 1) : d = found[j]
      BY <1>1, <2>1, <2>2, <2>3
    <3>2. QED  BY <1>5, <1>8, <3>1
  <2>4. d.released \in Int /\ c.released \in Int
    BY <2>2, GroundedAssumption
  <2>5. QED  BY <2>3, <2>4
<1>11. Cardinality(CardsRead(lines)) <= SourceLimit
  <2> DEFINE f == [n \in 1..k |-> found[n]]
  <2>1. f \in Surjection(1..k, CardsRead(lines))
    BY <1>8 DEF Surjection
  <2>2. k \in Int /\ k <= SourceLimit /\ k >= 0
    BY <1>5
  <2> HIDE DEF f
  <2>3. IsFiniteSet(1..k) /\ Cardinality(1..k) = k
    BY <2>2, FS_Interval
  <2>4. IsFiniteSet(CardsRead(lines)) /\ Cardinality(CardsRead(lines)) <= k
    BY <2>1, <2>3, FS_Surjection
  <2>5. Cardinality(CardsRead(lines)) \in Nat
    BY <2>4, FS_CardinalityType
  <2>6. QED  BY <2>2, <2>4, <2>5, GroundedAssumption
<1>12. QED  BY <1>6, <1>9, <1>10, <1>11 DEF Gathered, lines, context, found

Prepared(job) ==
  /\ job.sources \in Seq(Cards)
  /\ job.prompt.lines = Numbered(job.sources)
  /\ job.prompt.length <= MaximumPrompt
  /\ Gathered(job.prompt.lines, job.known, job.question)

GroundedInv ==
  /\ publishedCards \subseteq Cards
  /\ coachJob.phase = "asking" => Prepared(coachJob)
  /\ AnswerIsGrounded

LEMMA AskKeeps ==
  ASSUME GroundedInv, NEW q \in CoachQuestions, AskCoach(q)
  PROVE  GroundedInv'
<1> DEFINE context == FittingCards(SearchPublished(q, SourceLimit))
           prompt == [lines |-> Numbered(context),
                      length |-> Escaped(q) + EscapedContext(context)]
           asking == [phase |-> "asking", question |-> q, sources |-> context,
                      prompt |-> prompt, known |-> publishedCards]
<1>1. context \in Seq(Cards) /\ Gathered(Numbered(context), publishedCards, q)
  BY ContextIsGathered DEF GroundedInv
<1>2. prompt.lines = Numbered(context)
  OBVIOUS
<1>3. /\ publishedCards' = publishedCards
      /\ \/ coachJob'.phase \in {"failed", "insufficient_sources"}
         \/ coachJob' = asking /\ prompt.length <= MaximumPrompt
  BY DEF AskCoach
<1> HIDE DEF context, prompt
<1>4. coachJob' = asking /\ prompt.length <= MaximumPrompt => Prepared(coachJob')
  BY <1>1, <1>2 DEF Prepared
<1>5. coachJob'.phase # "answered"
  BY <1>3
<1>6. coachJob'.phase = "asking" => Prepared(coachJob')
  BY <1>3, <1>4
<1>7. QED  BY <1>3, <1>5, <1>6 DEF GroundedInv, AnswerIsGrounded

LEMMA AnswerKeeps ==
  ASSUME GroundedInv, NEW answer \in ProviderReplies, ProviderAnswers(answer)
  PROVE  GroundedInv'
<1> DEFINE cites == answer.cites
           sources == coachJob.sources
           lines == coachJob.prompt.lines
<1>1. Prepared(coachJob) /\ cites \in Seq(Int) /\ publishedCards' = publishedCards
  BY GroundedAssumption DEF ProviderAnswers, GroundedInv
<1>2. CASE coachJob'.phase # "answered"
  <2>1. coachJob'.phase # "asking"
    BY DEF ProviderAnswers
  <2>2. QED  BY <1>1, <1>2, <2>1 DEF GroundedInv, AnswerIsGrounded
<1>3. CASE coachJob'.phase = "answered"
  <2>1. /\ coachJob' = [phase |-> "answered", question |-> coachJob.question,
                        prompt |-> coachJob.prompt, known |-> coachJob.known, cites |-> cites,
                        shown |-> CitedSources(sources, cites)]
        /\ CitationsValid(cites)
        /\ ~\E i \in DOMAIN cites : cites[i] > Len(sources)
    BY <1>3 DEF ProviderAnswers
  <2>2. /\ coachJob'.prompt = coachJob.prompt /\ coachJob'.known = coachJob.known
        /\ coachJob'.question = coachJob.question /\ coachJob'.cites = cites
        /\ coachJob'.shown = CitedSources(sources, cites)
    BY <2>1
  <2> HIDE DEF cites, sources
  <2>3. Len(cites) \in Nat /\ Len(cites) >= 1 /\ DOMAIN cites = 1..Len(cites)
    BY <1>1, <2>1 DEF CitationsValid
  <2>4. CitedSources(sources, cites) = [i \in DOMAIN cites |-> sources[cites[i]]]
    BY DEF CitedSources
  <2>5. coachJob'.shown # << >>
    BY <2>2, <2>3, <2>4
  <2>6. sources \in Seq(Cards) /\ lines = Numbered(sources)
    BY <1>1 DEF Prepared, sources
  <2>7. ASSUME NEW i \in DOMAIN cites
        PROVE  \E n \in DOMAIN lines :
                 lines[n].number = cites[i] /\ lines[n].card = coachJob'.shown[i]
    <3>1. cites[i] \in 1..Len(sources)
      BY <1>1, <2>1, <2>3, <2>6 DEF CitationsValid
    <3>2. /\ cites[i] \in DOMAIN lines
          /\ lines[cites[i]] = [number |-> cites[i], card |-> sources[cites[i]]]
      BY <2>6, <3>1 DEF Numbered
    <3>3. coachJob'.shown[i] = sources[cites[i]]
      BY <2>2, <2>4
    <3>4. QED  BY <3>2, <3>3
  <2>8. Gathered(lines, coachJob.known, coachJob.question)
        /\ coachJob.prompt.length <= MaximumPrompt
    BY <1>1 DEF Prepared
  <2>9. AnswerIsGrounded'
    BY <2>2, <2>5, <2>7, <2>8 DEF AnswerIsGrounded, Gathered, CardsRead
  <2>10. QED  BY <1>1, <1>3, <2>9 DEF GroundedInv
<1>4. QED  BY <1>2, <1>3

\* What the user sees under an answer of the grounded coach are the official
\* figures whose lines the provider cited, published when the question was asked,
\* with no newer one of the same kind passed over (coach/service.py, answer and
\* _cited_sources; coach/source_repository.py, search_published).
THEOREM AnswersAreGrounded == GroundedSpec => []AnswerIsGrounded
<1>1. GroundedInit => GroundedInv
  BY DEF GroundedInit, NoCoachJob, GroundedInv, AnswerIsGrounded
<1>2. GroundedInv /\ [GroundedNext]_groundedVars => GroundedInv'
  <2> SUFFICES ASSUME GroundedInv, [GroundedNext]_groundedVars PROVE GroundedInv'
    OBVIOUS
  <2>1. ASSUME NEW cards \in SUBSET Cards, Republish(cards) PROVE GroundedInv'
    BY <2>1 DEF Republish, GroundedInv, AnswerIsGrounded
  <2>2. ASSUME NEW q \in CoachQuestions, AskCoach(q) PROVE GroundedInv'
    BY <2>2, AskKeeps
  <2>3. ASSUME NEW answer \in ProviderReplies, ProviderFails(answer) PROVE GroundedInv'
    <3>1. coachJob'.phase \in {"retry", "failed"} /\ publishedCards' = publishedCards
      BY <2>3 DEF ProviderFails
    <3>2. QED  BY <3>1 DEF GroundedInv, AnswerIsGrounded
  <2>4. ASSUME NEW answer \in ProviderReplies, ProviderAnswers(answer) PROVE GroundedInv'
    BY <2>4, AnswerKeeps
  <2>5. CASE UNCHANGED groundedVars
    BY <2>5 DEF groundedVars, GroundedInv, AnswerIsGrounded
  <2>6. QED  BY <2>1, <2>2, <2>3, <2>4, <2>5 DEF GroundedNext
<1>3. GroundedInv => AnswerIsGrounded
  BY DEF GroundedInv
<1>4. QED  BY <1>1, <1>2, <1>3, PTL DEF GroundedSpec

\* A job of the grounded coach is in one of its phases, and what it reads are
\* official figures (coach/service.py).
THEOREM GroundedTyped == GroundedSpec => []GroundedTypeOK
<1>1. GroundedInit => GroundedTypeOK
  BY DEF GroundedInit, NoCoachJob, GroundedTypeOK
<1>2. GroundedTypeOK /\ [GroundedNext]_groundedVars => GroundedTypeOK'
  <2> SUFFICES ASSUME GroundedTypeOK, [GroundedNext]_groundedVars PROVE GroundedTypeOK'
    OBVIOUS
  <2>1. ASSUME NEW cards \in SUBSET Cards, Republish(cards) PROVE GroundedTypeOK'
    BY <2>1 DEF Republish, GroundedTypeOK
  <2>2. ASSUME NEW q \in CoachQuestions, AskCoach(q) PROVE GroundedTypeOK'
    <3>1. /\ coachJob'.phase \in {"failed", "insufficient_sources", "asking"}
          /\ UNCHANGED publishedCards
      BY <2>2 DEF AskCoach
    <3>2. QED  BY <3>1 DEF GroundedTypeOK
  <2>3. ASSUME NEW answer \in ProviderReplies, ProviderFails(answer) \/ ProviderAnswers(answer)
        PROVE  GroundedTypeOK'
    <3>1. /\ coachJob'.phase \in {"retry", "failed", "answered"}
          /\ UNCHANGED publishedCards
      BY <2>3 DEF ProviderFails, ProviderAnswers
    <3>2. QED  BY <3>1 DEF GroundedTypeOK
  <2>4. CASE UNCHANGED groundedVars
    BY <2>4 DEF groundedVars, GroundedTypeOK
  <2>5. QED  BY <2>1, <2>2, <2>3, <2>4 DEF GroundedNext
<1>3. QED  BY <1>1, <1>2, PTL DEF GroundedSpec
=============================================================================
