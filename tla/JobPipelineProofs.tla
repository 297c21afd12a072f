------------------------- MODULE JobPipelineProofs -------------------------
(***************************************************************************)
(* Theorems about JobPipeline, for any sets of jobs, owners, workers and    *)
(* dispatchers and any bounds on crashes and lease overruns.                *)
(***************************************************************************)
EXTENDS JobPipeline, TLAPS

LEMMA TransitionType ==
  ASSUME NEW r \in Rows, NEW target \in Live \cup Terminal
  PROVE  /\ Transition(r, target) \in Rows
         /\ Transition(r, target).status = target
         /\ Transition(r, target).attempt
              = IF target = "running" THEN r.attempt + 1 ELSE r.attempt
BY DEF Transition, Rows

\* A claim turns a row into a running row under a fresh lease.
LEMMA ClaimedType ==
  ASSUME NEW r \in Rows
  PROVE  /\ Claimed(r) \in Rows
         /\ Claimed(r).status = "running"
         /\ Claimed(r).attempt = r.attempt + 1
         /\ Claimed(r).lease = r.attempt + 1
         /\ Claimed(r).expired = FALSE
<1>1. /\ Requeued(r) \in Rows
      /\ Requeued(r).attempt = r.attempt
  BY TransitionType DEF Requeued, Live, Terminal, Rows
<1>2. /\ Started(r) \in Rows
      /\ Started(r).status = "running"
      /\ Started(r).attempt = r.attempt + 1
  <2>1. CASE r.status = "running"
    BY <2>1 DEF Started, Rows
  <2>2. CASE r.status # "running"
    BY <2>2, <1>1, TransitionType DEF Started, Live, Terminal, Rows
  <2>3. QED  BY <2>1, <2>2
<1>3. QED  BY <1>2 DEF Claimed, Rows

LEMMA Steps ==
  /\ Executing \subseteq Handling
  /\ {"take", "produce", "put", "succeed", "permanent", "transient"} = Executing
  /\ {"claim", "ack", "retry", "dead_letter"} \subseteq Handling
  /\ "consume" \notin Handling
  /\ "read" \notin Handling
BY DEF Handling, Executing

\* The moves of one worker that keep all workers well typed: it lets go of its
\* entry, is handed entry m, or goes on with the entry it holds.
LEMMA WorkerMoves ==
  ASSUME WorkerType, cursor \in Nat, cursor' \in Nat, cursor <= cursor',
         NEW w \in Workers, NEW x \in WorkerStates,
         x.entry <= cursor', x.pc \in Handling => x.entry > 0,
         worker' = [worker EXCEPT ![w] = x]
  PROVE  WorkerType'
BY DEF WorkerType, WorkerStates

LEMMA LetsGo ==
  ASSUME WorkerType, cursor \in Nat, cursor' = cursor, NEW w \in Workers,
         NEW pc \in {"consume", "read"}, worker' = [worker EXCEPT ![w] = Polling(pc)]
  PROVE  WorkerType'
<1>1. Polling(pc) \in WorkerStates /\ Polling(pc).entry = 0 /\ Polling(pc).pc = pc
  BY DEF Polling, WorkerStates
<1>2. Polling(pc).pc \notin Handling
  BY <1>1, Steps
<1>3. cursor' \in Nat /\ cursor <= cursor' /\ Polling(pc).entry <= cursor'
  BY <1>1
<1>4. QED  BY <1>1, <1>2, <1>3, WorkerMoves

LEMMA IsHanded ==
  ASSUME WorkerType, cursor \in Nat, cursor' \in Nat, cursor <= cursor',
         NEW w \in Workers, NEW m \in 1..cursor',
         worker' = [worker EXCEPT ![w] = [Polling("claim") EXCEPT !.entry = m]]
  PROVE  WorkerType'
<1> DEFINE x == [Polling("claim") EXCEPT !.entry = m]
<1>1. x \in WorkerStates /\ x.entry = m
  BY Steps DEF Polling, WorkerStates
<1>2. x.entry <= cursor' /\ x.entry > 0
  BY <1>1
<1> HIDE DEF x
<1>3. worker' = [worker EXCEPT ![w] = x]
  BY DEF x
<1>4. QED  BY <1>1, <1>2, <1>3, WorkerMoves

LEMMA HoldingType ==
  ASSUME WorkerType, NEW w \in Workers, worker[w].pc \in Handling,
         NEW pc \in Handling
  PROVE  /\ Holding(w, pc) \in WorkerStates
         /\ Holding(w, pc).pc = pc
         /\ Holding(w, pc).entry = worker[w].entry
         /\ Holding(w, pc).token = worker[w].token
         /\ worker[w].entry \in Nat
         /\ worker[w].entry > 0
         /\ worker[w].entry <= cursor
         /\ worker[w].token \in Nat
BY DEF WorkerType, WorkerStates, Holding

LEMMA GoesOn ==
  ASSUME WorkerType, cursor \in Nat, cursor' = cursor, NEW w \in Workers,
         worker[w].pc \in Handling, NEW pc \in Handling,
         worker' = [worker EXCEPT ![w] = Holding(w, pc)]
  PROVE  WorkerType'
<1>1. Holding(w, pc).entry <= cursor' /\ Holding(w, pc).entry > 0
  BY HoldingType
<1>2. cursor' \in Nat /\ cursor <= cursor'
  OBVIOUS
<1>3. Holding(w, pc) \in WorkerStates
  BY HoldingType
<1>4. QED  BY <1>1, <1>2, <1>3, WorkerMoves

LEMMA JobOfType ==
  ASSUME QueueType, WorkerType, NEW w \in Workers, worker[w].pc \in Handling
  PROVE  JobOf(w) \in Jobs
BY DEF QueueType, WorkerType, JobOf

LEMMA InitType == Init => TypeOK
<1> SUFFICES ASSUME Init PROVE TypeOK
  OBVIOUS
<1>1. DatabaseType
  BY DEF Init, DatabaseType, Rows, NoLease, Absent
<1>2. QueueType
  BY DEF Init, QueueType
<1>3. DispatcherType
  BY DEF Init, DispatcherType, DispatcherStates
<1>4. WorkerType
  BY Steps DEF Init, Polling, WorkerType, WorkerStates
<1>5. StoreType /\ BudgetType
  BY DEF Init, StoreType, BudgetType, NoResult
<1>6. QED  BY <1>1, <1>2, <1>3, <1>4, <1>5 DEF TypeOK

LEMMA TypeStep == TypeOK /\ [Next]_vars => TypeOK'
<1> SUFFICES ASSUME TypeOK, [Next]_vars PROVE TypeOK'
  OBVIOUS
<1> USE DEF TypeOK, vars, database, redis, stores, budget
<1>0. ASSUME UNCHANGED <<cursor, worker>> PROVE WorkerType'
  BY <1>0 DEF WorkerType
<1>1. ASSUME NEW j \in Jobs, Accept(j) PROVE TypeOK'
  <2>1. DatabaseType'
    BY <1>1 DEF Accept, NoLease, Rows, Live, DatabaseType
  <2>2. QED
    BY <1>1, <1>0, <2>1 DEF Accept, QueueType, DispatcherType, StoreType, BudgetType
<1>2. ASSUME NEW j \in Jobs, PurgeJob(j) PROVE TypeOK'
  <2>1. DatabaseType'
    BY <1>2 DEF PurgeJob, NoLease, Rows, Absent, DatabaseType
  <2>2. QED
    BY <1>2, <1>0, <2>1 DEF PurgeJob, QueueType, DispatcherType, StoreType, BudgetType
<1>3. ASSUME NEW j \in Jobs, ReadResult(j) \/ ImageExpires(j) \/ ResultExpires(j)
      PROVE  TypeOK'
  <2>1. StoreType'
    BY <1>3 DEF ReadResult, ImageExpires, ResultExpires, StoreType
  <2>2. QED
    BY <1>3, <1>0, <2>1 DEF ReadResult, ImageExpires, ResultExpires, DatabaseType,
       QueueType, DispatcherType, BudgetType
<1>4. ASSUME NEW j \in Jobs, LeaseLapses(j) \/ LeaseOverrun(j) PROVE TypeOK'
  <2>1. DatabaseType'
    BY <1>4 DEF LeaseLapses, LeaseOverrun, Rows, DatabaseType
  <2>2. BudgetType'
    BY <1>4 DEF LeaseLapses, LeaseOverrun, BudgetType
  <2>3. QED
    BY <1>4, <1>0, <2>1, <2>2 DEF LeaseLapses, LeaseOverrun, QueueType, DispatcherType,
       StoreType
<1>5. ASSUME NEW o \in Owners, DeleteSubject(o) PROVE TypeOK'
  <2>1. DatabaseType'
    BY <1>5 DEF DeleteSubject, NoLease, Rows, Absent, DatabaseType
  <2>2. QED
    BY <1>5, <1>0, <2>1 DEF DeleteSubject, QueueType, DispatcherType, StoreType,
       BudgetType
<1>6. ASSUME NEW d \in Dispatchers, DispatcherStep(d) \/ CrashDispatcher(d)
      PROVE  TypeOK'
  <2>1. CASE ListUnpublished(d)
    BY <2>1, <1>0 DEF ListUnpublished, DispatcherType, DispatcherStates, DatabaseType,
       QueueType, StoreType, BudgetType
  <2>2. ASSUME NEW j \in Jobs, Publish(d, j) PROVE TypeOK'
    <3>1. QueueType'
      BY <2>2 DEF Publish, QueueType
    <3>2. DispatcherType'
      BY <2>2 DEF Publish, DispatcherType, DispatcherStates
    <3>3. QED
      BY <2>2, <1>0, <3>1, <3>2 DEF Publish, DatabaseType, StoreType, BudgetType
  <2>3. CASE MarkPublished(d)
    <3>1. DispatcherType'
      BY <2>3 DEF MarkPublished, DispatcherType, DispatcherStates
    <3>2. DatabaseType'
      <4>1. CASE outbox[dispatcher[d].job] = "unpublished"
        BY <2>3, <4>1, TransitionType DEF MarkPublished, DatabaseType, Live
      <4>2. CASE outbox[dispatcher[d].job] # "unpublished"
        BY <2>3, <4>2 DEF MarkPublished, DatabaseType
      <4>3. QED  BY <4>1, <4>2
    <3>3. QED
      BY <2>3, <1>0, <3>1, <3>2 DEF MarkPublished, QueueType, StoreType, BudgetType
  <2>4. CASE CrashDispatcher(d)
    BY <2>4, <1>0 DEF CrashDispatcher, DispatcherType, DispatcherStates, DatabaseType,
       QueueType, StoreType, BudgetType
  <2>5. QED  BY <1>6, <2>1, <2>2, <2>3, <2>4 DEF DispatcherStep
<1>7. ASSUME NEW w \in Workers, WorkerStep(w) \/ CrashWorker(w) PROVE TypeOK'
  <2>0. cursor \in Nat /\ Len(stream) \in Nat
    BY DEF QueueType
  <2>1. CASE Reclaim(w)
    <3>1. QueueType'
      BY <2>1 DEF Reclaim, QueueType
    <3>2. WorkerType'
      <4>1. ASSUME NEW m \in idle,
                   worker' = [worker EXCEPT ![w] = [Polling("claim") EXCEPT !.entry = m]]
            PROVE  WorkerType'
        <5>1. m \in 1..cursor /\ cursor' = cursor
          BY <2>1 DEF Reclaim, QueueType
        <5>2. m \in 1..cursor' /\ cursor' \in Nat /\ cursor <= cursor'
          BY <2>0, <5>1
        <5>3. QED  BY <2>0, <4>1, <5>2, IsHanded
      <4>2. CASE worker' = [worker EXCEPT ![w] = Polling("read")]
        BY <2>0, <2>1, <4>2, LetsGo DEF Reclaim
      <4>3. QED  BY <2>1, <4>1, <4>2 DEF Reclaim
    <3>3. QED
      BY <2>1, <3>1, <3>2 DEF Reclaim, DatabaseType, DispatcherType, StoreType, BudgetType
  <2>2. CASE ReadGroup(w)
    <3>1. QueueType'
      BY <2>2 DEF ReadGroup, QueueType
    <3>2. WorkerType'
      <4>1. CASE /\ cursor' = cursor + 1
                 /\ worker' = [worker EXCEPT
                      ![w] = [Polling("claim") EXCEPT !.entry = cursor + 1]]
        <5>1. cursor + 1 \in 1..cursor' /\ cursor' \in Nat /\ cursor <= cursor'
          BY <2>0, <4>1
        <5>2. QED  BY <2>0, <4>1, <5>1, IsHanded
      <4>2. CASE /\ cursor' = cursor
                 /\ worker' = [worker EXCEPT ![w] = Polling("consume")]
        BY <2>0, <4>2, LetsGo
      <4>3. QED  BY <2>2, <4>1, <4>2 DEF ReadGroup
    <3>3. QED
      BY <2>2, <3>1, <3>2
      DEF ReadGroup, DatabaseType, DispatcherType, StoreType, BudgetType
  <2>3. CASE ClaimForWork(w)
    <3> DEFINE r == row[JobOf(w)]
    <3>1. worker[w].pc \in Handling /\ JobOf(w) \in Jobs /\ r \in Rows
      BY <2>3, Steps, JobOfType DEF ClaimForWork, DatabaseType
    <3>2. DatabaseType'
      BY <2>3, <3>1, ClaimedType DEF ClaimForWork, DatabaseType
    <3>3. WorkerType'
      <4>1. ASSUME NEW pc \in Handling, worker' = [worker EXCEPT ![w] = Holding(w, pc)]
            PROVE  WorkerType'
        BY <2>0, <2>3, <3>1, <4>1, GoesOn DEF ClaimForWork
      <4>2. ASSUME NEW pc \in Handling,
                   worker' = [worker EXCEPT
                     ![w] = [Holding(w, pc) EXCEPT !.token = Claimed(r).lease]]
            PROVE  WorkerType'
        <5>1. Claimed(r).lease \in Nat
          BY <3>1, ClaimedType DEF Rows
        <5> DEFINE x == [Holding(w, pc) EXCEPT !.token = Claimed(r).lease]
        <5>2. x \in WorkerStates /\ x.entry = worker[w].entry /\ x.pc = pc
          BY <3>1, <5>1, HoldingType DEF WorkerStates
        <5>3. cursor' = cursor
          BY <2>3 DEF ClaimForWork
        <5>4. worker[w].entry <= cursor /\ worker[w].entry > 0
          BY <3>1, HoldingType
        <5>5. x.entry <= cursor' /\ x.entry > 0 /\ cursor' \in Nat /\ cursor <= cursor'
          BY <2>0, <5>2, <5>3, <5>4
        <5> HIDE DEF x
        <5>6. worker' = [worker EXCEPT ![w] = x]
          BY <4>2 DEF x
        <5>7. QED  BY <2>0, <5>2, <5>5, <5>6, WorkerMoves
      <4>3. CASE worker' = [worker EXCEPT ![w] = Polling("consume")]
        BY <2>0, <2>3, <4>3, LetsGo DEF ClaimForWork
      <4>4. QED  BY <2>3, <4>1, <4>2, <4>3, Steps DEF ClaimForWork
    <3>4. QED
      BY <2>3, <3>2, <3>3 DEF ClaimForWork, QueueType, DispatcherType, StoreType,
         BudgetType
  <2>4. CASE Handle(w)
    <3>1. worker[w].pc \in Handling /\ JobOf(w) \in Jobs
      BY <2>4, Steps, JobOfType DEF Handle, TakeImage, Produce, PutResult
    <3>2. \E pc \in Handling : worker' = [worker EXCEPT ![w] = Holding(w, pc)]
      BY <2>4, Steps DEF Handle, TakeImage, Produce, PutResult
    <3>3. WorkerType'
      BY <2>0, <2>4, <3>1, <3>2, GoesOn
      DEF Handle, TakeImage, Produce, PutResult
    <3>4. StoreType'
      BY <2>4, <3>1, HoldingType
      DEF Handle, TakeImage, Produce, PutResult, StoreType
    <3>5. QED
      BY <2>4, <3>3, <3>4 DEF Handle, TakeImage, Produce, PutResult, DatabaseType,
         QueueType, DispatcherType, BudgetType
  <2>5. CASE Finish(w)
    <3> DEFINE s == Settlement(worker[w].pc, worker[w].token)
    <3>1. worker[w].pc \in Handling /\ JobOf(w) \in Jobs
      BY <2>5, Steps, JobOfType DEF Finish
    <3>2. s.target \in Live \cup Terminal /\ s.next \in Handling
      BY Steps DEF Settlement, Live, Terminal
    <3>3. DatabaseType'
      BY <2>5, <3>1, <3>2, TransitionType DEF Finish, DatabaseType
    <3>4. WorkerType'
      <4>1. CASE worker' = [worker EXCEPT ![w] = Holding(w, s.next)]
        BY <2>0, <2>5, <3>1, <3>2, <4>1, GoesOn DEF Finish
      <4>2. CASE worker' = [worker EXCEPT ![w] = Polling("consume")]
        BY <2>0, <2>5, <4>2, LetsGo DEF Finish
      <4>3. QED  BY <2>5, <4>1, <4>2 DEF Finish
    <3>5. QED
      BY <2>5, <3>3, <3>4 DEF Finish, QueueType, DispatcherType, StoreType, BudgetType
  <2>6. CASE Respond(w)
    <3>1. worker[w].pc \in Handling /\ JobOf(w) \in Jobs
      BY <2>6, Steps, JobOfType DEF Respond, Ack, Retry, DeadLetter
    <3>2. QueueType'
      <4>1. /\ cursor' = cursor
            /\ pending' \subseteq pending
            /\ idle' \subseteq pending'
        BY <2>6 DEF Respond, Ack, Retry, DeadLetter, Acknowledge, QueueType
      <4>2. stream' \in {stream, Append(stream, JobOf(w))}
        BY <2>6 DEF Respond, Ack, Retry, DeadLetter
      <4>3. failed' \subseteq Jobs
        BY <2>6, <3>1 DEF Respond, Ack, Retry, DeadLetter, QueueType
      <4>4. stream' \in Seq(Jobs) /\ Len(stream') \in Nat /\ Len(stream') >= Len(stream)
        BY <2>0, <3>1, <4>2 DEF QueueType
      <4>5. QED  BY <2>0, <4>1, <4>3, <4>4 DEF QueueType
    <3>3. WorkerType'
      BY <2>0, <2>6, LetsGo
      DEF Respond, Ack, Retry, DeadLetter, Acknowledge
    <3>4. QED
      BY <2>6, <3>2, <3>3 DEF Respond, Ack, Retry, DeadLetter, Acknowledge,
         DatabaseType, DispatcherType, StoreType, BudgetType
  <2>7. CASE CrashWorker(w)
    <3>1. WorkerType'
      BY <2>0, <2>7, LetsGo DEF CrashWorker
    <3>2. QED
      BY <2>7, <3>1 DEF CrashWorker, DatabaseType, QueueType, DispatcherType, StoreType,
         BudgetType
  <2>8. QED
    BY <1>7, <2>1, <2>2, <2>3, <2>4, <2>5, <2>6, <2>7 DEF WorkerStep, Consume, Handle
<1>8. ASSUME NEW m \in pending, VisibilityTimeout(m) PROVE TypeOK'
  BY <1>8, <1>0 DEF VisibilityTimeout, DatabaseType, QueueType, DispatcherType,
     StoreType, BudgetType
<1>9. CASE UNCHANGED vars
  BY <1>9, <1>0 DEF DatabaseType, QueueType, DispatcherType, StoreType, BudgetType
<1>10. QED
  BY <1>1, <1>2, <1>3, <1>4, <1>5, <1>6, <1>7, <1>8, <1>9 DEF Next

\* Every variable keeps its type, in every behaviour of the pipeline.
THEOREM TypeCorrect == Spec => []TypeOK
BY InitType, TypeStep, PTL DEF Spec

-----------------------------------------------------------------------------
\* What one step can make of the row of a job.
Unmoved(j) == row'[j] = row[j]
Created(j) ==
  /\ row[j].status = "unused"
  /\ row'[j] = NoLease("accepted")
  /\ outbox'[j] = "unpublished"
Removed(j) ==
  /\ row[j].status \notin Absent
  /\ row'[j] = NoLease("deleted")
  /\ outbox'[j] = "none"
Lapsed(j) ==
  /\ row[j].status = "running"
  /\ row'[j] = [row[j] EXCEPT !.expired = TRUE]
  /\ \/ \A w \in Workers : ~HoldsLease(w, j)
     \/ overruns' = overruns + 1
Enqueued(j) ==
  /\ row[j].status = "accepted"
  /\ row'[j].status = "queued"
  /\ row'[j].attempt = row[j].attempt
Leased(j) ==
  /\ row[j].status \in Live /\ ~Busy(row[j])
  /\ row'[j].status = "running"
  /\ row'[j].attempt = row[j].attempt + 1
  /\ row'[j].lease = row[j].attempt + 1
  /\ row'[j].expired = FALSE
  /\ \E w \in Workers : HoldsLease(w, j)'
Settled(j) ==
  /\ row[j].status = "running"
  /\ row'[j].status \in {"succeeded", "failed", "retry_wait"}
  /\ row'[j].attempt = row[j].attempt
  /\ \E w \in Workers :
       /\ worker[w].pc \in {"succeed", "permanent", "transient"}
       /\ JobOf(w) = j
       /\ LeaseValid(row[j], worker[w].token)
       /\ row'[j].status = Settlement(worker[w].pc, worker[w].token).target

RowMoves(j) ==
  \/ Unmoved(j) \/ Created(j) \/ Removed(j) \/ Lapsed(j)
  \/ Enqueued(j) \/ Leased(j) \/ Settled(j)

LEMMA SettlementTargets ==
  ASSUME NEW pc, NEW attempt
  PROVE  /\ Settlement(pc, attempt).target \in {"succeeded", "failed", "retry_wait"}
         /\ Settlement(pc, attempt).next \in {"ack", "dead_letter", "retry"}
         /\ Settlement(pc, attempt).next = "ack"
              => pc = "succeed" /\ Settlement(pc, attempt).target = "succeeded"
         /\ Settlement(pc, attempt).target = "succeeded" => pc = "succeed"
         /\ Settlement(pc, attempt).next = "dead_letter"
              => Settlement(pc, attempt).target = "failed"
         /\ Settlement(pc, attempt).target = "retry_wait" => attempt < MaxAttempts
BY DEF Settlement

LEMMA Finishes ==
  ASSUME TypeOK, NEW w \in Workers, Finish(w)
  PROVE  /\ worker[w].pc \in Executing
         /\ JobOf(w) \in Jobs
         /\ \/ /\ LeaseValid(row[JobOf(w)], worker[w].token)
               /\ Settled(JobOf(w))
               /\ row'[JobOf(w)].status
                    = Settlement(worker[w].pc, worker[w].token).target
               /\ worker' = [worker EXCEPT
                    ![w] = Holding(w, Settlement(worker[w].pc, worker[w].token).next)]
            \/ /\ ~LeaseValid(row[JobOf(w)], worker[w].token)
               /\ row' = row
               /\ worker' = [worker EXCEPT ![w] = Polling("consume")]
         /\ \A j \in Jobs : j # JobOf(w) => row'[j] = row[j]
<1> DEFINE j == JobOf(w)
           s == Settlement(worker[w].pc, worker[w].token)
<1>1. worker[w].pc \in Executing /\ worker[w].pc \in Handling
  BY Steps DEF Finish
<1>2. j \in Jobs
  BY <1>1, JobOfType DEF TypeOK
<1>3. row[j] \in Rows /\ row \in [Jobs -> Rows]
  BY <1>2 DEF TypeOK, DatabaseType
<1>4. s.target \in {"succeeded", "failed", "retry_wait"}
  BY SettlementTargets
<1>5. s.target \in Live \cup Terminal /\ s.target # "running"
  BY <1>4 DEF Live, Terminal
<1>6. /\ Transition(row[j], s.target).status = s.target
      /\ Transition(row[j], s.target).attempt = row[j].attempt
  BY <1>3, <1>5, TransitionType
<1> HIDE DEF s
<1>7. CASE LeaseValid(row[j], worker[w].token)
  <2>1. /\ row' = [row EXCEPT ![j] = Transition(row[j], s.target)]
        /\ worker' = [worker EXCEPT ![w] = Holding(w, s.next)]
    BY <1>7 DEF Finish, s
  <2>2. row'[j] = Transition(row[j], s.target)
    BY <1>2, <1>3, <2>1
  <2>3. Settled(j) /\ row'[j].status = s.target
    <3>1. worker[w].pc \in {"succeed", "permanent", "transient"}
      BY DEF Finish
    <3>2. QED  BY <1>4, <1>6, <1>7, <2>2, <3>1 DEF Settled, LeaseValid, s
  <2>4. \A i \in Jobs : i # j => row'[i] = row[i]
    BY <1>3, <2>1
  <2>5. QED  BY <1>1, <1>2, <1>7, <2>1, <2>3, <2>4 DEF s
<1>8. CASE ~LeaseValid(row[j], worker[w].token)
  BY <1>1, <1>2, <1>8 DEF Finish
<1>9. QED  BY <1>7, <1>8

LEMMA Claims ==
  ASSUME TypeOK, NEW w \in Workers, ClaimForWork(w)
  PROVE  /\ worker[w].pc = "claim"
         /\ JobOf(w) \in Jobs
         /\ \/ /\ row' = row
               /\ row[JobOf(w)].status \in Absent
               /\ worker' = [worker EXCEPT ![w] = Holding(w, "dead_letter")]
            \/ /\ row' = row
               /\ row[JobOf(w)].status \in Terminal
               /\ worker' = [worker EXCEPT ![w] = Holding(w, "ack")]
            \/ /\ row' = row
               /\ worker' = [worker EXCEPT ![w] = Polling("consume")]
            \/ /\ Leased(JobOf(w))
               /\ \E pc \in {"take", "produce"} :
                    worker' = [worker EXCEPT
                      ![w] = [Holding(w, pc) EXCEPT !.token = row[JobOf(w)].attempt + 1]]
         /\ \A j \in Jobs : j # JobOf(w) => row'[j] = row[j]
<1> DEFINE j == JobOf(w)
<1>1. worker[w].pc = "claim" /\ worker[w].pc \in Handling
  BY Steps DEF ClaimForWork
<1>2. j \in Jobs
  BY <1>1, JobOfType DEF TypeOK
<1>3. row[j] \in Rows /\ row \in [Jobs -> Rows]
  BY <1>2 DEF TypeOK, DatabaseType
<1>4. CASE ~(row[j].status \in Live /\ ~Busy(row[j]))
  <2>1. row' = row
    BY <1>4 DEF ClaimForWork
  <2>2. \/ /\ row[j].status \in Absent
           /\ worker' = [worker EXCEPT ![w] = Holding(w, "dead_letter")]
        \/ /\ row[j].status \in Terminal
           /\ worker' = [worker EXCEPT ![w] = Holding(w, "ack")]
        \/ worker' = [worker EXCEPT ![w] = Polling("consume")]
    BY <1>4 DEF ClaimForWork
  <2>3. QED  BY <1>1, <1>2, <2>1, <2>2
<1>5. CASE row[j].status \in Live /\ ~Busy(row[j])
  <2>0. row[j].status \notin Terminal \cup Absent
    BY <1>5 DEF Live, Terminal, Absent
  <2>1. /\ row[j].status \in Live /\ ~Busy(row[j])
        /\ row' = [row EXCEPT ![j] = Claimed(row[j])]
        /\ worker' = [worker EXCEPT
             ![w] = [Holding(w, IF Kind = "receipt" THEN "take" ELSE "produce")
                      EXCEPT !.token = Claimed(row[j]).lease]]
    BY <1>5, <2>0 DEF ClaimForWork
  <2>2. row'[j] = Claimed(row[j])
    BY <1>2, <1>3, <2>1
  <2>3. Claimed(row[j]).lease = row[j].attempt + 1
    BY <1>3, ClaimedType
  <2>4. PICK pc \in {"take", "produce"} :
          worker' = [worker EXCEPT
            ![w] = [Holding(w, pc) EXCEPT !.token = row[j].attempt + 1]]
    BY <2>1, <2>3
  <2>5. HoldsLease(w, j)' /\ Leased(j)
    <3>1. /\ worker'[w].pc = pc
          /\ worker'[w].entry = worker[w].entry
          /\ worker'[w].token = row[j].attempt + 1
      BY <2>4 DEF TypeOK, WorkerType, WorkerStates, Holding
    <3>2. JobOf(w)' = j
      BY <3>1 DEF ClaimForWork, redis, JobOf
    <3>3. /\ row'[j].status = "running"
          /\ row'[j].attempt = row[j].attempt + 1
          /\ row'[j].lease = row[j].attempt + 1
          /\ row'[j].expired = FALSE
      BY <1>3, <2>2, ClaimedType
    <3>4. HoldsLease(w, j)'
      BY <3>1, <3>2, <3>3, Steps DEF HoldsLease
    <3>5. QED  BY <2>1, <3>3, <3>4 DEF Leased
  <2>6. \A i \in Jobs : i # j => row'[i] = row[i]
    BY <1>3, <2>1
  <2>7. QED  BY <1>1, <1>2, <2>4, <2>5, <2>6
<1>6. QED  BY <1>4, <1>5

\* What a step does to the rows is one of these moves for each job.
LEMMA RowStep == TypeOK /\ [Next]_vars => \A j \in Jobs : RowMoves(j)
<1> SUFFICES ASSUME TypeOK, [Next]_vars, NEW j \in Jobs PROVE RowMoves(j)
  OBVIOUS
<1>0. /\ row \in [Jobs -> Rows] /\ row[j] \in Rows
      /\ outbox \in [Jobs -> {"none", "unpublished", "published"}]
  BY DEF TypeOK, DatabaseType
<1> USE DEF vars, database, redis, stores, budget, RowMoves
<1>1. ASSUME NEW i \in Jobs, Accept(i) PROVE RowMoves(j)
  BY <1>0, <1>1 DEF Accept, Created, Unmoved
<1>2. ASSUME NEW i \in Jobs, PurgeJob(i) PROVE RowMoves(j)
  BY <1>0, <1>2 DEF PurgeJob, Removed, Unmoved, Terminal, Absent
<1>3. ASSUME NEW i \in Jobs, LeaseLapses(i) \/ LeaseOverrun(i) PROVE RowMoves(j)
  BY <1>0, <1>3 DEF LeaseLapses, LeaseOverrun, Lapsed, Unmoved
<1>4. ASSUME NEW o \in Owners, DeleteSubject(o) PROVE RowMoves(j)
  BY <1>0, <1>4 DEF DeleteSubject, Removed, Unmoved
<1>5. ASSUME NEW d \in Dispatchers, MarkPublished(d) PROVE RowMoves(j)
  <2> DEFINE i == dispatcher[d].job
  <2>1. CASE i = j /\ outbox[i] = "unpublished" /\ row[i].status = "accepted"
    <3>1. row'[j] = Transition(row[j], "queued")
      BY <1>0, <1>5, <2>1 DEF MarkPublished
    <3>2. Enqueued(j)
      BY <1>0, <2>1, <3>1, TransitionType DEF Enqueued, Live
    <3>3. QED  BY <3>2
  <2>2. CASE ~(i = j /\ outbox[i] = "unpublished" /\ row[i].status = "accepted")
    <3>1. row'[j] = row[j]
      BY <1>0, <1>5, <2>2 DEF MarkPublished
    <3>2. QED  BY <3>1 DEF Unmoved
  <2>3. QED  BY <2>1, <2>2
<1>6. ASSUME NEW w \in Workers, ClaimForWork(w) PROVE RowMoves(j)
  BY <1>6, Claims DEF Unmoved
<1>7. ASSUME NEW w \in Workers, Finish(w) PROVE RowMoves(j)
  BY <1>7, Finishes DEF Unmoved
<1>8. CASE row' = row
  BY <1>8 DEF Unmoved
<1>9. QED
  <2>1. ASSUME NEW w \in Workers, WorkerStep(w) \/ CrashWorker(w) PROVE RowMoves(j)
    <3>1. CASE ~ClaimForWork(w) /\ ~Finish(w)
      BY <1>8, <2>1, <3>1 DEF WorkerStep, Consume, Handle, Respond, Reclaim, ReadGroup,
         TakeImage, Produce, PutResult, Ack, Retry, DeadLetter, Acknowledge, CrashWorker
    <3>2. QED  BY <1>6, <1>7, <3>1
  <2>2. ASSUME NEW d \in Dispatchers, DispatcherStep(d) \/ CrashDispatcher(d)
        PROVE  RowMoves(j)
    BY <1>5, <1>8, <2>2 DEF DispatcherStep, ListUnpublished, Publish, CrashDispatcher
  <2>3. ASSUME NEW i \in Jobs, ReadResult(i) \/ ImageExpires(i) \/ ResultExpires(i)
        PROVE  RowMoves(j)
    BY <1>8, <2>3 DEF ReadResult, ImageExpires, ResultExpires
  <2>4. ASSUME NEW m \in pending, VisibilityTimeout(m) PROVE RowMoves(j)
    BY <1>8, <2>4 DEF VisibilityTimeout
  <2>5. CASE UNCHANGED vars
    BY <1>8, <2>5
  <2>6. QED  BY <1>1, <1>2, <1>3, <1>4, <2>1, <2>2, <2>3, <2>4, <2>5 DEF Next

\* What follows for statuses: a removed job stays removed, a settled one stays
\* settled until it is removed, only an unused one can become live.
LEMMA StatusStep ==
  ASSUME TypeOK, [Next]_vars, NEW j \in Jobs
  PROVE  /\ row[j].status # "unused" => row'[j].status # "unused"
         /\ row[j].status = "deleted" => row'[j].status = "deleted"
         /\ row[j].status \in Terminal
              => row'[j].status \in {row[j].status, "deleted"}
         /\ row'[j].status \in Live
              => row[j].status \in Live \/ outbox'[j] = "unpublished"
         /\ row'[j].status \in Live /\ row[j].status # "unused"
              => row[j].status \in Live
         /\ row[j].status # "unused" /\ row'[j].status # "deleted"
              => row[j].attempt <= row'[j].attempt
<1>1. row[j] \in Rows
  BY DEF TypeOK, DatabaseType
<1>2. RowMoves(j)
  BY RowStep
<1> USE DEF Live, Terminal, Absent, Rows, NoLease
<1>3. CASE Unmoved(j) \/ Created(j) \/ Removed(j)
  BY <1>1, <1>3 DEF Unmoved, Created, Removed
<1>4. CASE Lapsed(j)
  BY <1>1, <1>4 DEF Lapsed
<1>5. CASE Enqueued(j) \/ Leased(j) \/ Settled(j)
  BY <1>1, <1>5 DEF Enqueued, Leased, Settled
<1>6. QED  BY <1>2, <1>3, <1>4, <1>5 DEF RowMoves

\* The event of a job is created, stamped and removed, never renewed.
LEMMA OutboxStep ==
  ASSUME TypeOK, [Next]_vars, NEW j \in Jobs
  PROVE  \/ outbox'[j] = outbox[j]
         \/ outbox'[j] = "none" /\ row'[j].status = "deleted"
         \/ outbox'[j] = "unpublished" /\ row'[j].status = "accepted"
         \/ /\ outbox[j] = "unpublished"
            /\ outbox'[j] = "published"
            /\ \E d \in Dispatchers : dispatcher[d].pc = "mark" /\ dispatcher[d].job = j
<1> USE DEF vars, database, redis, stores, budget
<1>0. /\ row \in [Jobs -> Rows]
      /\ outbox \in [Jobs -> {"none", "unpublished", "published"}]
  BY DEF TypeOK, DatabaseType
<1>1. ASSUME NEW i \in Jobs, Accept(i)
      PROVE  \/ outbox'[j] = outbox[j]
             \/ outbox'[j] = "unpublished" /\ row'[j].status = "accepted"
  BY <1>0, <1>1 DEF Accept, NoLease
<1>2. ASSUME NEW i \in Jobs, PurgeJob(i)
      PROVE  \/ outbox'[j] = outbox[j]
             \/ outbox'[j] = "none" /\ row'[j].status = "deleted"
  BY <1>0, <1>2 DEF PurgeJob, NoLease
<1>3. ASSUME NEW o \in Owners, DeleteSubject(o)
      PROVE  \/ outbox'[j] = outbox[j]
             \/ outbox'[j] = "none" /\ row'[j].status = "deleted"
  BY <1>0, <1>3 DEF DeleteSubject, NoLease
<1>4. ASSUME NEW d \in Dispatchers, MarkPublished(d)
      PROVE  \/ outbox'[j] = outbox[j]
             \/ /\ outbox[j] = "unpublished"
                /\ outbox'[j] = "published"
                /\ dispatcher[d].pc = "mark" /\ dispatcher[d].job = j
  BY <1>0, <1>4 DEF MarkPublished
<1>5. ASSUME NEW d \in Dispatchers, DispatcherStep(d) \/ CrashDispatcher(d),
             ~MarkPublished(d)
      PROVE  outbox' = outbox
  BY <1>5 DEF DispatcherStep, ListUnpublished, Publish, CrashDispatcher
<1>6. ASSUME NEW w \in Workers, WorkerStep(w) \/ CrashWorker(w) PROVE outbox' = outbox
  BY <1>6 DEF WorkerStep, Consume, Handle, Respond, Reclaim, ReadGroup, ClaimForWork,
     TakeImage, Produce, PutResult, Finish, Ack, Retry, DeadLetter, Acknowledge,
     CrashWorker
<1>7. ASSUME NEW i \in Jobs,
             \/ ReadResult(i) \/ LeaseLapses(i) \/ LeaseOverrun(i)
             \/ ImageExpires(i) \/ ResultExpires(i)
      PROVE  outbox' = outbox
  BY <1>7 DEF ReadResult, LeaseLapses, LeaseOverrun, ImageExpires, ResultExpires
<1>8. ASSUME NEW m \in pending, VisibilityTimeout(m) PROVE outbox' = outbox
  BY <1>8 DEF VisibilityTimeout
<1>9. QED  BY <1>1, <1>2, <1>3, <1>4, <1>5, <1>6, <1>7, <1>8 DEF Next

\* A step that moves a worker is a step of that worker.
LEMMA WorkerChange ==
  ASSUME TypeOK, [Next]_vars, NEW w \in Workers
  PROVE  \/ worker'[w] = worker[w]
         \/ WorkerStep(w)
         \/ CrashWorker(w)
<1> USE DEF vars, database, redis, stores, budget
<1>0. worker \in [Workers -> WorkerStates]
  BY DEF TypeOK, WorkerType
<1>1. ASSUME NEW v \in Workers, v # w, WorkerStep(v) \/ CrashWorker(v)
      PROVE  worker'[w] = worker[w]
  <2>1. \E x : worker' = [worker EXCEPT ![v] = x]
    BY <1>1 DEF WorkerStep, Consume, Handle, Respond, Reclaim, ReadGroup, ClaimForWork,
       TakeImage, Produce, PutResult, Finish, Ack, Retry, DeadLetter, Acknowledge,
       CrashWorker
  <2>2. QED  BY <1>0, <1>1, <2>1
<1>2. ASSUME NEW d \in Dispatchers, DispatcherStep(d) \/ CrashDispatcher(d)
      PROVE  worker' = worker
  BY <1>2 DEF DispatcherStep, ListUnpublished, Publish, MarkPublished, CrashDispatcher
<1>3. ASSUME NEW j \in Jobs,
             \/ Accept(j) \/ PurgeJob(j) \/ ReadResult(j) \/ LeaseLapses(j)
             \/ LeaseOverrun(j) \/ ImageExpires(j) \/ ResultExpires(j)
      PROVE  worker' = worker
  BY <1>3 DEF Accept, PurgeJob, ReadResult, LeaseLapses, LeaseOverrun, ImageExpires,
     ResultExpires
<1>4. ASSUME NEW o \in Owners, DeleteSubject(o) PROVE worker' = worker
  BY <1>4 DEF DeleteSubject
<1>5. ASSUME NEW m \in pending, VisibilityTimeout(m) PROVE worker' = worker
  BY <1>5 DEF VisibilityTimeout
<1>6. QED  BY <1>1, <1>2, <1>3, <1>4, <1>5 DEF Next

\* A step that moves a dispatcher is a step of that dispatcher.
LEMMA DispatcherChange ==
  ASSUME TypeOK, [Next]_vars, NEW d \in Dispatchers
  PROVE  \/ dispatcher'[d] = dispatcher[d]
         \/ ListUnpublished(d)
         \/ \E j \in Jobs : Publish(d, j)
         \/ MarkPublished(d)
         \/ CrashDispatcher(d)
<1> USE DEF vars, database, redis, stores, budget
<1>0. dispatcher \in [Dispatchers -> DispatcherStates]
  BY DEF TypeOK, DispatcherType
<1>1. ASSUME NEW c \in Dispatchers, c # d, DispatcherStep(c) \/ CrashDispatcher(c)
      PROVE  dispatcher'[d] = dispatcher[d]
  BY <1>0, <1>1 DEF DispatcherStep, ListUnpublished, Publish, MarkPublished, CrashDispatcher
<1>2. ASSUME NEW w \in Workers, WorkerStep(w) \/ CrashWorker(w)
      PROVE  dispatcher' = dispatcher
  BY <1>2 DEF WorkerStep, Consume, Handle, Respond, Reclaim, ReadGroup, ClaimForWork,
     TakeImage, Produce, PutResult, Finish, Ack, Retry, DeadLetter, Acknowledge,
     CrashWorker
<1>3. ASSUME NEW j \in Jobs,
             \/ Accept(j) \/ PurgeJob(j) \/ ReadResult(j) \/ LeaseLapses(j)
             \/ LeaseOverrun(j) \/ ImageExpires(j) \/ ResultExpires(j)
      PROVE  dispatcher' = dispatcher
  BY <1>3 DEF Accept, PurgeJob, ReadResult, LeaseLapses, LeaseOverrun, ImageExpires,
     ResultExpires
<1>4. ASSUME NEW o \in Owners, DeleteSubject(o) PROVE dispatcher' = dispatcher
  BY <1>4 DEF DeleteSubject
<1>5. ASSUME NEW m \in pending, VisibilityTimeout(m) PROVE dispatcher' = dispatcher
  BY <1>5 DEF VisibilityTimeout
<1>6. QED  BY <1>1, <1>2, <1>3, <1>4, <1>5 DEF Next, DispatcherStep

\* Only a dead-lettered entry reaches the failed stream.
LEMMA FailedStep ==
  ASSUME [Next]_vars
  PROVE  failed' = failed \/ \E w \in Workers : DeadLetter(w)
<1> USE DEF vars, database, redis, stores, budget
<1>1. ASSUME NEW w \in Workers, WorkerStep(w) \/ CrashWorker(w), ~DeadLetter(w)
      PROVE  failed' = failed
  BY <1>1 DEF WorkerStep, Consume, Handle, Respond, Reclaim, ReadGroup, ClaimForWork,
     TakeImage, Produce, PutResult, Finish, Ack, Retry, Acknowledge, CrashWorker
<1>2. ASSUME NEW d \in Dispatchers, DispatcherStep(d) \/ CrashDispatcher(d)
      PROVE  failed' = failed
  BY <1>2 DEF DispatcherStep, ListUnpublished, Publish, MarkPublished, CrashDispatcher
<1>3. ASSUME NEW j \in Jobs,
             \/ Accept(j) \/ PurgeJob(j) \/ ReadResult(j) \/ LeaseLapses(j)
             \/ LeaseOverrun(j) \/ ImageExpires(j) \/ ResultExpires(j)
      PROVE  failed' = failed
  BY <1>3 DEF Accept, PurgeJob, ReadResult, LeaseLapses, LeaseOverrun, ImageExpires,
     ResultExpires
<1>4. ASSUME NEW o \in Owners, DeleteSubject(o) PROVE failed' = failed
  BY <1>4 DEF DeleteSubject
<1>5. ASSUME NEW m \in pending, VisibilityTimeout(m) PROVE failed' = failed
  BY <1>5 DEF VisibilityTimeout
<1>6. QED  BY <1>1, <1>2, <1>3, <1>4, <1>5 DEF Next

-----------------------------------------------------------------------------
\* The stream.

\* The stream only grows, and only by jobs that were accepted.
LEMMA StreamStep ==
  ASSUME TypeOK, OnlyKnownJobs, [Next]_vars
  PROVE  \/ stream' = stream
         \/ \E j \in Jobs : row[j].status # "unused" /\ stream' = Append(stream, j)
<1> USE DEF vars, database, redis, stores, budget
<1>1. ASSUME NEW d \in Dispatchers, NEW j \in Jobs, Publish(d, j)
      PROVE  row[j].status # "unused" /\ stream' = Append(stream, j)
  BY <1>1 DEF Publish, OnlyKnownJobs
<1>2. ASSUME NEW w \in Workers, Retry(w)
      PROVE  /\ JobOf(w) \in Jobs
             /\ row[JobOf(w)].status # "unused"
             /\ stream' = Append(stream, JobOf(w))
  <2>1. worker[w].pc \in Handling
    BY <1>2, Steps DEF Retry
  <2>2. JobOf(w) \in Jobs /\ worker[w].entry \in 1..Len(stream)
    BY <2>1, JobOfType DEF TypeOK, WorkerType, WorkerStates, QueueType
  <2>3. QED  BY <1>2, <2>2 DEF Retry, OnlyKnownJobs, JobOf
<1>3. ASSUME NEW d \in Dispatchers, DispatcherStep(d) \/ CrashDispatcher(d),
             ~\E j \in Jobs : Publish(d, j)
      PROVE  stream' = stream
  BY <1>3 DEF DispatcherStep, ListUnpublished, MarkPublished, CrashDispatcher
<1>4. ASSUME NEW w \in Workers, WorkerStep(w) \/ CrashWorker(w), ~Retry(w)
      PROVE  stream' = stream
  BY <1>4 DEF WorkerStep, Consume, Handle, Respond, Reclaim, ReadGroup, ClaimForWork,
     TakeImage, Produce, PutResult, Finish, Ack, DeadLetter, Acknowledge, CrashWorker
<1>5. ASSUME NEW j \in Jobs,
             \/ Accept(j) \/ PurgeJob(j) \/ ReadResult(j) \/ LeaseLapses(j)
             \/ LeaseOverrun(j) \/ ImageExpires(j) \/ ResultExpires(j)
      PROVE  stream' = stream
  BY <1>5 DEF Accept, PurgeJob, ReadResult, LeaseLapses, LeaseOverrun, ImageExpires,
     ResultExpires
<1>6. ASSUME NEW o \in Owners, DeleteSubject(o) PROVE stream' = stream
  BY <1>6 DEF DeleteSubject
<1>7. ASSUME NEW m \in pending, VisibilityTimeout(m) PROVE stream' = stream
  BY <1>7 DEF VisibilityTimeout
<1>8. QED  BY <1>1, <1>2, <1>3, <1>4, <1>5, <1>6, <1>7 DEF Next

\* What has been added stays where it is.
LEMMA EntriesStay ==
  ASSUME TypeOK, OnlyKnownJobs, [Next]_vars
  PROVE  /\ Len(stream') \in Nat
         /\ Len(stream) <= Len(stream')
         /\ \A m \in 1..Len(stream) : stream'[m] = stream[m]
<1>1. stream \in Seq(Jobs) /\ Len(stream) \in Nat
  BY DEF TypeOK, QueueType
<1>2. CASE stream' = stream
  BY <1>1, <1>2
<1>3. ASSUME NEW j \in Jobs, stream' = Append(stream, j)
      PROVE  /\ Len(stream') = Len(stream) + 1
             /\ \A m \in 1..Len(stream) : stream'[m] = stream[m]
  BY <1>1, <1>3
<1>4. QED  BY <1>1, <1>2, <1>3, StreamStep

\* An entry stops being outstanding only when a worker that holds it answers.
LEMMA OutstandingStep ==
  ASSUME TypeOK, [Next]_vars, NEW m \in Nat, Outstanding(m)
  PROVE  \/ Outstanding(m)'
         \/ \E w \in Workers : Respond(w) /\ worker[w].entry = m
<1> USE DEF vars, database, redis, stores, budget, Outstanding
<1>0. cursor \in Nat
  BY DEF TypeOK, QueueType
<1>1. ASSUME NEW w \in Workers, ReadGroup(w) PROVE Outstanding(m)'
  BY <1>0, <1>1 DEF ReadGroup
<1>2. ASSUME NEW w \in Workers, Respond(w), worker[w].entry # m
      PROVE  Outstanding(m)'
  BY <1>2 DEF Respond, Ack, Retry, DeadLetter, Acknowledge
<1>3. ASSUME NEW w \in Workers, WorkerStep(w) \/ CrashWorker(w),
             ~ReadGroup(w), ~Respond(w)
      PROVE  UNCHANGED <<cursor, pending>>
  BY <1>3 DEF WorkerStep, Consume, Handle, Reclaim, ClaimForWork, TakeImage, Produce,
     PutResult, Finish, CrashWorker
<1>4. ASSUME NEW d \in Dispatchers, DispatcherStep(d) \/ CrashDispatcher(d)
      PROVE  UNCHANGED <<cursor, pending>>
  BY <1>4 DEF DispatcherStep, ListUnpublished, Publish, MarkPublished, CrashDispatcher
<1>5. ASSUME NEW j \in Jobs,
             \/ Accept(j) \/ PurgeJob(j) \/ ReadResult(j) \/ LeaseLapses(j)
             \/ LeaseOverrun(j) \/ ImageExpires(j) \/ ResultExpires(j)
      PROVE  UNCHANGED <<cursor, pending>>
  BY <1>5 DEF Accept, PurgeJob, ReadResult, LeaseLapses, LeaseOverrun, ImageExpires,
     ResultExpires
<1>6. ASSUME NEW o \in Owners, DeleteSubject(o) PROVE UNCHANGED <<cursor, pending>>
  BY <1>6 DEF DeleteSubject
<1>7. ASSUME NEW n \in pending, VisibilityTimeout(n) PROVE UNCHANGED <<cursor, pending>>
  BY <1>7 DEF VisibilityTimeout
<1>8. CASE UNCHANGED <<cursor, pending>>
  BY <1>8
<1>9. QED  BY <1>1, <1>2, <1>3, <1>4, <1>5, <1>6, <1>7, <1>8 DEF Next

\* A job that goes on needing a message keeps one: whoever acknowledges an entry
\* of it has seen it settled or removed, or adds a copy.
LEMMA CoveredStays ==
  ASSUME TypeOK, OnlyKnownJobs, AnswerFollowsRow, [Next]_vars, NEW j \in Jobs,
         row[j].status \in Live, Covered(j)
  PROVE  Covered(j)'
<1>1. PICK m \in 1..Len(stream) : stream[m] = j /\ Outstanding(m)
  BY DEF Covered
<1>2. m \in 1..Len(stream') /\ stream'[m] = j
  BY <1>1, EntriesStay DEF TypeOK, QueueType
<1>3. CASE Outstanding(m)'
  BY <1>2, <1>3 DEF Covered
<1>4. ASSUME NEW w \in Workers, Respond(w), worker[w].entry = m PROVE Covered(j)'
  <2>1. JobOf(w) = j
    BY <1>1, <1>4 DEF JobOf
  <2>2. ~Ack(w) /\ ~DeadLetter(w)
    BY <2>1 DEF Ack, DeadLetter, AnswerFollowsRow, Live, Terminal
  <2>3. stream' = Append(stream, j) /\ cursor' = cursor
    BY <1>4, <2>1, <2>2 DEF Respond, Retry, Acknowledge
  <2>4. stream \in Seq(Jobs) /\ cursor \in Nat /\ cursor <= Len(stream)
    BY DEF TypeOK, QueueType
  <2>5. /\ Len(stream) + 1 \in 1..Len(stream')
        /\ stream'[Len(stream) + 1] = j
        /\ Len(stream) + 1 > cursor'
    BY <2>3, <2>4
  <2>6. QED  BY <2>5 DEF Covered, Outstanding
<1>5. QED  BY <1>1, <1>3, <1>4, OutstandingStep

-----------------------------------------------------------------------------
\* The parts of the inductive invariant.

\* The handler keeps the entry and the token it was started with.
LEMMA Handles ==
  ASSUME TypeOK, NEW w \in Workers, Handle(w)
  PROVE  /\ row' = row
         /\ worker[w].pc \in {"take", "produce", "put"}
         /\ worker'[w].pc \in {"produce", "put", "succeed", "permanent", "transient"}
         /\ worker'[w].entry = worker[w].entry
         /\ worker'[w].token = worker[w].token
<1> USE DEF database
<1>0. worker \in [Workers -> WorkerStates]
  BY DEF TypeOK, WorkerType
<1>1. worker[w].pc \in {"take", "produce", "put"} /\ row' = row
  BY DEF Handle, TakeImage, Produce, PutResult
<1>2. \E pc \in {"produce", "put", "succeed", "permanent", "transient"} :
        worker' = [worker EXCEPT ![w] = Holding(w, pc)]
  BY DEF Handle, TakeImage, Produce, PutResult
<1>3. QED  BY <1>0, <1>1, <1>2 DEF Holding, WorkerStates

\* What a step of a worker makes of its own state.
LEMMA OwnStep ==
  ASSUME TypeOK, NEW w \in Workers, WorkerStep(w) \/ CrashWorker(w)
  PROVE  \/ ClaimForWork(w)
         \/ Finish(w)
         \/ /\ row' = row
            /\ worker'[w].pc \in {"consume", "read", "claim"}
         \/ /\ row' = row
            /\ Handle(w)
            /\ worker[w].pc \in {"take", "produce", "put"}
            /\ worker'[w].pc \in {"produce", "put", "succeed", "permanent", "transient"}
            /\ worker'[w].entry = worker[w].entry
            /\ worker'[w].token = worker[w].token
<1> USE DEF database, redis, stores, budget
<1>0. worker \in [Workers -> WorkerStates]
  BY DEF TypeOK, WorkerType
<1>1. CASE Consume(w)
  BY <1>0, <1>1 DEF Consume, Reclaim, ReadGroup, Polling
<1>2. CASE Respond(w) \/ CrashWorker(w)
  BY <1>0, <1>2 DEF Respond, Ack, Retry, DeadLetter, Acknowledge, CrashWorker, Polling
<1>3. CASE Handle(w)
  BY <1>3, Handles
<1>4. QED  BY <1>1, <1>2, <1>3 DEF WorkerStep

\* The job of a worker that keeps its entry is still the same.
LEMMA JobKept ==
  ASSUME TypeOK, OnlyKnownJobs, [Next]_vars, NEW w \in Workers,
         worker[w].pc \in Handling, worker'[w].entry = worker[w].entry
  PROVE  /\ JobOf(w)' = JobOf(w)
         /\ JobOf(w) \in Jobs
         /\ row[JobOf(w)].status # "unused"
<1>1. worker[w].entry \in 1..Len(stream)
  BY DEF TypeOK, WorkerType, WorkerStates, QueueType
<1>2. JobOf(w) \in Jobs
  BY JobOfType DEF TypeOK
<1>3. QED  BY <1>1, <1>2, EntriesStay DEF JobOf, OnlyKnownJobs

LEMMA KnownStep == TypeOK /\ OnlyKnownJobs /\ [Next]_vars => OnlyKnownJobs'
<1> SUFFICES ASSUME TypeOK, OnlyKnownJobs, [Next]_vars PROVE OnlyKnownJobs'
  OBVIOUS
<1>1. ASSUME NEW m \in 1..Len(stream') PROVE row'[stream'[m]].status # "unused"
  <2>0. stream \in Seq(Jobs)
    BY DEF TypeOK, QueueType
  <2>1. \E j \in Jobs : stream'[m] = j /\ row[j].status # "unused"
    <3>1. CASE stream' = stream
      BY <2>0, <3>1 DEF OnlyKnownJobs
    <3>2. ASSUME NEW j \in Jobs, row[j].status # "unused", stream' = Append(stream, j)
          PROVE  \E i \in Jobs : stream'[m] = i /\ row[i].status # "unused"
      <4>1. CASE m \in 1..Len(stream)
        BY <2>0, <3>2, <4>1 DEF OnlyKnownJobs
      <4>2. CASE m = Len(stream) + 1
        BY <2>0, <3>2, <4>2
      <4>3. QED  BY <2>0, <3>2, <4>1, <4>2
    <3>3. QED  BY <3>1, <3>2, StreamStep
  <2>2. QED  BY <2>1, StatusStep
<1>2. ASSUME NEW d \in Dispatchers
      PROVE  /\ \A j \in dispatcher'[d].batch : row'[j].status # "unused"
             /\ dispatcher'[d].pc = "mark" =>
                  /\ dispatcher'[d].job \in Jobs
                  /\ row'[dispatcher'[d].job].status # "unused"
  <2>0. /\ dispatcher[d] \in DispatcherStates /\ dispatcher \in [Dispatchers -> DispatcherStates]
        /\ \A j \in dispatcher[d].batch : j \in Jobs /\ row[j].status # "unused"
    BY DEF TypeOK, DispatcherType, DispatcherStates, OnlyKnownJobs
  <2>2. CASE dispatcher'[d] = dispatcher[d]
    BY <2>0, <2>2, StatusStep DEF OnlyKnownJobs
  <2>3. CASE ListUnpublished(d)
    <3>1. /\ dispatcher'[d].pc = "publish"
          /\ dispatcher'[d].batch = {j \in Jobs : outbox[j] = "unpublished"}
      BY <2>0, <2>3 DEF ListUnpublished
    <3>2. \A j \in dispatcher'[d].batch : j \in Jobs /\ row[j].status # "unused"
      BY <3>1 DEF OnlyKnownJobs, Absent
    <3>3. QED  BY <3>1, <3>2, StatusStep
  <2>4. ASSUME NEW j \in Jobs, Publish(d, j)
        PROVE  /\ \A i \in dispatcher'[d].batch : row'[i].status # "unused"
               /\ dispatcher'[d].job \in Jobs
               /\ row'[dispatcher'[d].job].status # "unused"
    <3>1. /\ dispatcher'[d].batch = dispatcher[d].batch \ {j}
          /\ dispatcher'[d].job = j
          /\ j \in dispatcher[d].batch
      BY <2>0, <2>4 DEF Publish
    <3>2. QED  BY <2>0, <3>1, StatusStep
  <2>5. CASE MarkPublished(d)
    <3>1. /\ dispatcher'[d].batch = dispatcher[d].batch
          /\ dispatcher'[d].pc # "mark"
      BY <2>0, <2>5 DEF MarkPublished, DispatcherStates
    <3>2. QED  BY <2>0, <3>1, StatusStep
  <2>6. CASE CrashDispatcher(d)
    BY <2>0, <2>6 DEF CrashDispatcher
  <2>7. QED  BY <2>2, <2>3, <2>4, <2>5, <2>6, DispatcherChange
<1>3. ASSUME NEW j \in Jobs, row'[j].status \in Absent PROVE outbox'[j] = "none"
  <2>0. row[j] \in Rows /\ outbox \in [Jobs -> {"none", "unpublished", "published"}]
    BY DEF TypeOK, DatabaseType
  <2>1. RowMoves(j)
    BY RowStep
  <2>2. CASE Removed(j)
    BY <2>2 DEF Removed
  <2>3. CASE Unmoved(j)
    <3>1. row[j].status \in Absent /\ outbox[j] = "none"
      BY <1>3, <2>3 DEF Unmoved, OnlyKnownJobs
    <3>2. QED  BY <1>3, <2>0, <3>1, OutboxStep DEF Absent
  <2>4. CASE Created(j) \/ Lapsed(j) \/ Enqueued(j) \/ Leased(j) \/ Settled(j)
    BY <1>3, <2>0, <2>4
    DEF Created, Lapsed, Enqueued, Leased, Settled, NoLease, Absent, Rows
  <2>5. QED  BY <2>1, <2>2, <2>3, <2>4 DEF RowMoves
<1>4. QED  BY <1>1, <1>2, <1>3 DEF OnlyKnownJobs

LEMMA LostStep ==
  ASSUME TypeOK, OnlyKnownJobs, NoJobLost, PublishedBeforeMarked, AnswerFollowsRow,
         [Next]_vars
  PROVE  NoJobLost'
<1> SUFFICES ASSUME NEW j \in Jobs, row'[j].status \in Live, outbox'[j] # "unpublished"
             PROVE  Covered(j)'
  BY DEF NoJobLost
<1>1. row[j].status \in Live
  BY StatusStep
<1>2. CASE outbox[j] # "unpublished"
  BY <1>1, <1>2, CoveredStays DEF NoJobLost
<1>3. CASE outbox[j] = "unpublished"
  <2>1. \E d \in Dispatchers : dispatcher[d].pc = "mark" /\ dispatcher[d].job = j
    BY <1>3, OutboxStep DEF Live
  <2>2. QED  BY <1>1, <2>1, CoveredStays DEF PublishedBeforeMarked
<1>4. QED  BY <1>2, <1>3

LEMMA PublishedStep ==
  ASSUME TypeOK, OnlyKnownJobs, PublishedBeforeMarked, AnswerFollowsRow, [Next]_vars
  PROVE  PublishedBeforeMarked'
<1>1. ASSUME NEW d \in Dispatchers, dispatcher'[d].pc = "mark"
      PROVE  dispatcher'[d].job \in Jobs
  BY <1>1, KnownStep DEF OnlyKnownJobs
<1> SUFFICES ASSUME NEW d \in Dispatchers, dispatcher'[d].pc = "mark",
                    NEW j \in Jobs, dispatcher'[d].job = j, row'[j].status \in Live
             PROVE  Covered(j)'
  BY <1>1 DEF PublishedBeforeMarked
<1>2. CASE dispatcher'[d] = dispatcher[d]
  <2>1. row[j].status # "unused"
    BY <1>2 DEF OnlyKnownJobs
  <2>2. row[j].status \in Live
    BY <1>1, <2>1, StatusStep
  <2>3. QED  BY <1>1, <1>2, <2>2, CoveredStays DEF PublishedBeforeMarked
<1>3. ASSUME NEW i \in Jobs, Publish(d, i) PROVE Covered(i)' /\ i = j
  <2>1. i = j
    BY <1>3 DEF Publish, TypeOK, DispatcherType, DispatcherStates
  <2>2. stream' = Append(stream, i) /\ cursor' = cursor
    BY <1>3 DEF Publish
  <2>3. stream \in Seq(Jobs) /\ cursor \in Nat /\ cursor <= Len(stream)
    BY DEF TypeOK, QueueType
  <2>4. /\ Len(stream) + 1 \in 1..Len(stream')
        /\ stream'[Len(stream) + 1] = i
        /\ Len(stream) + 1 > cursor'
    BY <2>2, <2>3
  <2>5. QED  BY <2>1, <2>4 DEF Covered, Outstanding
<1>4. CASE ListUnpublished(d) \/ MarkPublished(d) \/ CrashDispatcher(d)
  BY <1>4 DEF ListUnpublished, MarkPublished, CrashDispatcher, TypeOK, DispatcherType,
     DispatcherStates
<1>5. QED  BY <1>2, <1>3, <1>4, DispatcherChange

LEMMA AnswerStep ==
  ASSUME TypeOK, OnlyKnownJobs, AnswerFollowsRow, [Next]_vars
  PROVE  AnswerFollowsRow'
<1> SUFFICES ASSUME NEW w \in Workers, worker'[w].pc \in {"ack", "dead_letter"}
             PROVE  /\ worker'[w].pc = "ack"
                         => row'[JobOf(w)'].status \in Terminal \cup {"deleted"}
                    /\ worker'[w].pc = "dead_letter"
                         => row'[JobOf(w)'].status \in {"failed", "deleted"}
  BY DEF AnswerFollowsRow
<1>0. worker \in [Workers -> WorkerStates]
  BY DEF TypeOK, WorkerType
<1>1. CASE worker'[w] = worker[w]
  <2>1. JobOf(w)' = JobOf(w) /\ JobOf(w) \in Jobs
    BY <1>1, Steps, JobKept
  <2>2. QED  BY <1>1, <2>1, StatusStep DEF AnswerFollowsRow, Terminal
<1>2. CASE ClaimForWork(w)
  <2>1. worker[w].pc \in Handling
    BY <1>2, Steps, Claims
  <2>2. /\ row' = row
        /\ \/ /\ row[JobOf(w)].status \in Absent
              /\ worker'[w] = Holding(w, "dead_letter")
           \/ /\ row[JobOf(w)].status \in Terminal
              /\ worker'[w] = Holding(w, "ack")
    <3>1. Polling("consume").pc = "consume"
      BY DEF Polling
    <3>2. ASSUME NEW pc \in {"take", "produce"}
          PROVE  [Holding(w, pc) EXCEPT !.token = row[JobOf(w)].attempt + 1].pc = pc
      BY <1>0 DEF Holding, WorkerStates
    <3>3. QED  BY <1>0, <1>2, <3>1, <3>2, Claims
  <2>3. /\ Holding(w, "ack").pc = "ack"
        /\ Holding(w, "dead_letter").pc = "dead_letter"
        /\ worker'[w].entry = worker[w].entry
    BY <1>0, <2>2 DEF Holding, WorkerStates
  <2>4. JobOf(w)' = JobOf(w) /\ row[JobOf(w)].status # "unused"
    BY <2>1, <2>3, JobKept
  <2>5. QED  BY <2>2, <2>3, <2>4 DEF Absent
<1>3. CASE Finish(w)
  <2> DEFINE s == Settlement(worker[w].pc, worker[w].token)
  <2>1. worker[w].pc \in Handling
    BY <1>3, Steps, Finishes
  <2>2. /\ worker'[w] = Holding(w, s.next)
        /\ row'[JobOf(w)].status = s.target
    <3>1. Polling("consume").pc = "consume"
      BY DEF Polling
    <3>2. QED  BY <1>0, <1>3, <3>1, Finishes
  <2>3. worker'[w].pc = s.next /\ worker'[w].entry = worker[w].entry
    BY <1>0, <2>2 DEF Holding, WorkerStates
  <2>4. JobOf(w)' = JobOf(w)
    BY <2>1, <2>3, JobKept
  <2>5. /\ s.next = "ack" => s.target = "succeeded"
        /\ s.next = "dead_letter" => s.target = "failed"
    BY SettlementTargets
  <2>6. QED  BY <2>2, <2>3, <2>4, <2>5 DEF Terminal
<1>4. QED  BY <1>1, <1>2, <1>3, WorkerChange, OwnStep

LEMMA DeadLetterStep ==
  ASSUME TypeOK, OnlyKnownJobs, AnswerFollowsRow, DeadLetterMeansFailed, [Next]_vars
  PROVE  DeadLetterMeansFailed'
<1>1. ASSUME NEW j \in Jobs, row[j].status \in {"failed", "deleted"}
      PROVE  row'[j].status \in {"failed", "deleted"}
  BY <1>1, StatusStep DEF Terminal
<1>2. ASSUME NEW w \in Workers, DeadLetter(w)
      PROVE  failed' = failed \cup {JobOf(w)} /\ JobOf(w) \in Jobs
             /\ row[JobOf(w)].status \in {"failed", "deleted"}
  BY <1>2, Steps, JobOfType DEF DeadLetter, AnswerFollowsRow, TypeOK
<1>3. failed' = failed \/ \E w \in Workers : DeadLetter(w)
  BY FailedStep
<1>4. QED
  BY <1>1, <1>2, <1>3 DEF DeadLetterMeansFailed, TypeOK, QueueType

\* A worker at its handler was there before, with the same entry and token, or
\* has just claimed its job.
LEMMA ExecutingStep ==
  ASSUME TypeOK, OnlyKnownJobs, [Next]_vars,
         NEW w \in Workers, worker'[w].pc \in Executing
  PROVE  /\ JobOf(w)' = JobOf(w)
         /\ JobOf(w) \in Jobs
         /\ row[JobOf(w)].status # "unused"
         /\ \/ /\ worker[w].pc \in Executing
               /\ worker'[w].token = worker[w].token
            \/ /\ Leased(JobOf(w))
               /\ worker'[w].token = row[JobOf(w)].attempt + 1
               /\ \A v \in Workers : v # w => worker'[v] = worker[v]
<1>0. worker \in [Workers -> WorkerStates]
  BY DEF TypeOK, WorkerType
<1>1. CASE worker'[w] = worker[w]
  BY <1>1, Steps, JobKept
<1>2. CASE ClaimForWork(w)
  <2>1. PICK pc \in {"take", "produce"} :
          /\ Leased(JobOf(w))
          /\ worker' = [worker EXCEPT
               ![w] = [Holding(w, pc) EXCEPT !.token = row[JobOf(w)].attempt + 1]]
    <3>1. ASSUME NEW pc \in {"ack", "dead_letter"},
                 worker' = [worker EXCEPT ![w] = Holding(w, pc)]
          PROVE  worker'[w].pc = pc
      BY <1>0, <3>1 DEF Holding, WorkerStates
    <3>2. ASSUME worker' = [worker EXCEPT ![w] = Polling("consume")]
          PROVE  worker'[w].pc = "consume"
      BY <1>0, <3>2 DEF Polling
    <3>3. /\ "ack" \notin Executing
          /\ "dead_letter" \notin Executing
          /\ "consume" \notin Executing
      BY DEF Executing
    <3>4. QED  BY <1>2, <3>1, <3>2, <3>3, Claims
  <2>2. /\ worker'[w].entry = worker[w].entry
        /\ worker'[w].token = row[JobOf(w)].attempt + 1
        /\ \A v \in Workers : v # w => worker'[v] = worker[v]
    BY <1>0, <2>1 DEF Holding, WorkerStates
  <2>3. worker[w].pc \in Handling
    BY <1>2, Claims, Steps
  <2>4. QED  BY <2>1, <2>2, <2>3, JobKept
<1>3. CASE Finish(w)
  <2>1. worker'[w].pc \in {"ack", "dead_letter", "retry", "consume"}
    BY <1>0, <1>3, Finishes, SettlementTargets DEF Holding, Polling, WorkerStates
  <2>2. QED  BY <2>1 DEF Executing
<1>4. CASE /\ Handle(w)
           /\ worker[w].pc \in {"take", "produce", "put"}
           /\ worker'[w].entry = worker[w].entry
           /\ worker'[w].token = worker[w].token
  BY <1>4, Steps, JobKept
<1>5. CASE worker'[w].pc \in {"consume", "read", "claim"}
  BY <1>5 DEF Executing
<1>6. QED  BY <1>1, <1>2, <1>3, <1>4, <1>5, WorkerChange, OwnStep

LEMMA TokensStep ==
  ASSUME TypeOK, OnlyKnownJobs, TokensAreAttempts, TokensDiffer, [Next]_vars
  PROVE  TokensAreAttempts' /\ TokensDiffer'
<1>0. /\ worker \in [Workers -> WorkerStates]
      /\ \A j \in Jobs : row[j].attempt \in Nat
      /\ \A j \in Jobs : row'[j].attempt \in Nat
      /\ \A w \in Workers : worker[w].token \in Nat
  BY TypeStep DEF TypeOK, WorkerType, WorkerStates, DatabaseType, Rows
<1>1. ASSUME NEW j \in Jobs, row'[j].status = "running"
      PROVE  row'[j].lease = row'[j].attempt
  <2>1. RowMoves(j) /\ row[j] \in Rows
    BY RowStep DEF TypeOK, DatabaseType
  <2>2. CASE Unmoved(j)
    BY <1>1, <2>2 DEF Unmoved, TokensAreAttempts
  <2>3. CASE Lapsed(j)
    BY <1>1, <2>1, <2>3 DEF Lapsed, TokensAreAttempts, Rows
  <2>4. CASE Leased(j)
    BY <2>4 DEF Leased
  <2>5. CASE Created(j) \/ Removed(j) \/ Enqueued(j) \/ Settled(j)
    BY <1>1, <2>5 DEF Created, Removed, Enqueued, Settled, NoLease
  <2>6. QED  BY <2>1, <2>2, <2>3, <2>4, <2>5 DEF RowMoves
<1>2. ASSUME NEW w \in Workers, worker'[w].pc \in Executing,
             row'[JobOf(w)'].status # "deleted"
      PROVE  worker'[w].token \in 1..row'[JobOf(w)'].attempt
  <2> DEFINE j == JobOf(w)
  <2>1. JobOf(w)' = j /\ j \in Jobs /\ row[j].status # "unused"
    BY <1>2, ExecutingStep
  <2>2. row[j].status # "deleted" /\ row[j].attempt <= row'[j].attempt
    BY <1>2, <2>1, StatusStep
  <2>3. CASE worker[w].pc \in Executing /\ worker'[w].token = worker[w].token
    <3>1. worker[w].token \in 1..row[j].attempt
      BY <2>2, <2>3 DEF TokensAreAttempts
    <3>2. QED  BY <1>0, <2>1, <2>2, <2>3, <3>1
  <2>4. CASE Leased(j) /\ worker'[w].token = row[j].attempt + 1
    <3>1. row'[j].attempt = row[j].attempt + 1
      BY <2>4 DEF Leased
    <3>2. QED  BY <1>0, <2>1, <2>4, <3>1
  <2>5. QED  BY <1>2, <2>3, <2>4, ExecutingStep
<1>3. ASSUME NEW v \in Workers, NEW w \in Workers, v # w,
             worker'[v].pc \in Executing, worker'[w].pc \in Executing,
             JobOf(v)' = JobOf(w)', row'[JobOf(w)'].status # "deleted",
             worker'[v].token = worker'[w].token
      PROVE  FALSE
  <2> DEFINE j == JobOf(w)
  <2>1. /\ JobOf(w)' = j /\ JobOf(v) = j /\ JobOf(v)' = j /\ j \in Jobs
        /\ row[j].status # "deleted"
    BY <1>3, ExecutingStep, StatusStep
  <2>2. ASSUME NEW x \in Workers, NEW y \in Workers, x # y,
               worker'[x].pc \in Executing, JobOf(x) = j, JobOf(y) = j,
               worker'[y].token = row[j].attempt + 1,
               \A z \in Workers : z # y => worker'[z] = worker[z]
        PROVE  worker'[x].token # worker'[y].token
    <3>1. worker'[x] = worker[x] /\ worker[x].pc \in Executing
      BY <2>2
    <3>2. worker[x].token \in 1..row[j].attempt
      BY <2>1, <2>2, <3>1 DEF TokensAreAttempts
    <3>3. QED  BY <1>0, <2>1, <2>2, <3>1, <3>2
  <2>3. CASE /\ worker[v].pc \in Executing /\ worker'[v].token = worker[v].token
             /\ worker[w].pc \in Executing /\ worker'[w].token = worker[w].token
    BY <1>3, <2>1, <2>3 DEF TokensDiffer
  <2>4. QED  BY <1>3, <2>1, <2>2, <2>3, ExecutingStep
<1>4. QED  BY <1>1, <1>2, <1>3 DEF TokensAreAttempts, TokensDiffer

\* A result key that was written is never as if it had not been.
LEMMA ResultStep ==
  ASSUME TypeOK, [Next]_vars, NEW j \in Jobs, result[j].state # "none"
  PROVE  result'[j].state # "none"
<1> USE DEF vars, database, redis, stores, budget
<1>0. /\ result \in [Jobs -> [state : {"none", "ready", "gone"}, by : Nat]]
      /\ worker \in [Workers -> WorkerStates]
  BY DEF TypeOK, StoreType, WorkerType
<1>1. ASSUME NEW i \in Jobs, ReadResult(i) \/ ResultExpires(i)
      PROVE  result'[j].state # "none"
  BY <1>0, <1>1 DEF ReadResult, ResultExpires
<1>2. ASSUME NEW w \in Workers, PutResult(w) PROVE result'[j].state # "none"
  BY <1>0, <1>2 DEF PutResult
<1>3. ASSUME NEW w \in Workers, WorkerStep(w) \/ CrashWorker(w), ~PutResult(w)
      PROVE  result' = result
  BY <1>3 DEF WorkerStep, Consume, Handle, Respond, Reclaim, ReadGroup, ClaimForWork,
     TakeImage, Produce, Finish, Ack, Retry, DeadLetter, Acknowledge, CrashWorker
<1>4. ASSUME NEW d \in Dispatchers, DispatcherStep(d) \/ CrashDispatcher(d)
      PROVE  result' = result
  BY <1>4 DEF DispatcherStep, ListUnpublished, Publish, MarkPublished, CrashDispatcher
<1>5. ASSUME NEW i \in Jobs,
             \/ Accept(i) \/ PurgeJob(i) \/ LeaseLapses(i) \/ LeaseOverrun(i)
             \/ ImageExpires(i)
      PROVE  result' = result
  BY <1>5 DEF Accept, PurgeJob, LeaseLapses, LeaseOverrun, ImageExpires
<1>6. ASSUME NEW o \in Owners, DeleteSubject(o) PROVE result' = result
  BY <1>6 DEF DeleteSubject
<1>7. ASSUME NEW m \in pending, VisibilityTimeout(m) PROVE result' = result
  BY <1>7 DEF VisibilityTimeout
<1>8. QED  BY <1>1, <1>2, <1>3, <1>4, <1>5, <1>6, <1>7 DEF Next

LEMMA WrittenStep ==
  ASSUME TypeOK, OnlyKnownJobs, WrittenBeforeSettled, [Next]_vars
  PROVE  WrittenBeforeSettled'
<1> SUFFICES ASSUME NEW w \in Workers, worker'[w].pc = "succeed"
             PROVE  result'[JobOf(w)'].state # "none"
  BY DEF WrittenBeforeSettled
<1>0. /\ worker \in [Workers -> WorkerStates]
      /\ result \in [Jobs -> [state : {"none", "ready", "gone"}, by : Nat]]
  BY DEF TypeOK, WorkerType, StoreType
<1>1. worker'[w].pc \in Executing
  BY DEF Executing
<1>2. JobOf(w)' = JobOf(w) /\ JobOf(w) \in Jobs
  BY <1>1, ExecutingStep
<1>3. CASE worker'[w] = worker[w]
  BY <1>2, <1>3, ResultStep DEF WrittenBeforeSettled
<1>4. CASE Handle(w)
  <2>1. ASSUME NEW pc, worker' = [worker EXCEPT ![w] = Holding(w, pc)] PROVE pc = "succeed"
    BY <1>0, <2>1 DEF Holding, WorkerStates
  <2>2. PutResult(w)
    BY <1>4, <2>1 DEF Handle, TakeImage, Produce
  <2>3. result' = [result EXCEPT ![JobOf(w)] = [state |-> "ready", by |-> worker[w].token]]
    BY <2>1, <2>2 DEF PutResult
  <2>4. QED  BY <1>0, <1>2, <2>3
<1>5. CASE ClaimForWork(w)
  <2>1. worker'[w].pc \in {"dead_letter", "ack", "consume", "take", "produce"}
    <3>1. ASSUME NEW pc, worker' = [worker EXCEPT ![w] = Holding(w, pc)]
          PROVE  worker'[w].pc = pc
      BY <1>0, <3>1 DEF Holding, WorkerStates
    <3>2. ASSUME NEW pc, NEW t,
                 worker' = [worker EXCEPT ![w] = [Holding(w, pc) EXCEPT !.token = t]]
          PROVE  worker'[w].pc = pc
      BY <1>0, <3>2 DEF Holding, WorkerStates
    <3>3. ASSUME worker' = [worker EXCEPT ![w] = Polling("consume")]
          PROVE  worker'[w].pc = "consume"
      BY <1>0, <3>3 DEF Polling
    <3>4. QED  BY <1>5, <3>1, <3>2, <3>3, Claims
  <2>2. QED  BY <2>1
<1>6. CASE Finish(w)
  <2>1. worker'[w].pc \in {"ack", "dead_letter", "retry", "consume"}
    BY <1>0, <1>6, Finishes, SettlementTargets DEF Holding, Polling, WorkerStates
  <2>2. QED  BY <2>1
<1>7. QED  BY <1>3, <1>4, <1>5, <1>6, WorkerChange, OwnStep

LEMMA SuccessStep ==
  ASSUME TypeOK, OnlyKnownJobs, WrittenBeforeSettled, SuccessHasResult, [Next]_vars
  PROVE  SuccessHasResult'
<1> SUFFICES ASSUME NEW j \in Jobs, row'[j].status = "succeeded"
             PROVE  result'[j].state # "none"
  BY DEF SuccessHasResult
<1>1. RowMoves(j) /\ row[j] \in Rows
  BY RowStep DEF TypeOK, DatabaseType
<1>2. CASE Unmoved(j)
  BY <1>2, ResultStep DEF Unmoved, SuccessHasResult
<1>3. CASE Settled(j)
  <2>1. \E w \in Workers : worker[w].pc = "succeed" /\ JobOf(w) = j
    BY <1>3, SettlementTargets DEF Settled
  <2>2. QED  BY <2>1, ResultStep DEF WrittenBeforeSettled
<1>4. CASE Created(j) \/ Removed(j) \/ Lapsed(j) \/ Enqueued(j) \/ Leased(j)
  BY <1>1, <1>4 DEF Created, Removed, Lapsed, Enqueued, Leased, NoLease, Rows
<1>5. QED  BY <1>1, <1>2, <1>3, <1>4 DEF RowMoves

\* The budget of faults is only spent, and a crash spends it.
LEMMA BudgetStep ==
  ASSUME TypeOK, [Next]_vars
  PROVE  /\ crashes <= crashes'
         /\ overruns <= overruns'
         /\ crashes \in Nat /\ overruns \in Nat
         /\ crashes' \in Nat /\ overruns' \in Nat
         /\ \A w \in Workers : CrashWorker(w) => crashes' = crashes + 1
<1> USE DEF vars, database, redis, stores, budget
<1>0. crashes \in Nat /\ overruns \in Nat
  BY DEF TypeOK, BudgetType
<1>1. crashes' \in Nat /\ overruns' \in Nat
  BY TypeStep DEF TypeOK, BudgetType
<1>2. ASSUME NEW w \in Workers, WorkerStep(w) \/ CrashWorker(w)
      PROVE  crashes' \in {crashes, crashes + 1} /\ overruns' = overruns
  BY <1>2 DEF WorkerStep, Consume, Handle, Respond, Reclaim, ReadGroup, ClaimForWork,
     TakeImage, Produce, PutResult, Finish, Ack, Retry, DeadLetter, Acknowledge, CrashWorker
<1>3. ASSUME NEW d \in Dispatchers, DispatcherStep(d) \/ CrashDispatcher(d)
      PROVE  crashes' \in {crashes, crashes + 1} /\ overruns' = overruns
  BY <1>3 DEF DispatcherStep, ListUnpublished, Publish, MarkPublished, CrashDispatcher
<1>4. ASSUME NEW i \in Jobs,
             \/ Accept(i) \/ PurgeJob(i) \/ ReadResult(i) \/ LeaseLapses(i)
             \/ LeaseOverrun(i) \/ ImageExpires(i) \/ ResultExpires(i)
      PROVE  crashes' = crashes /\ overruns' \in {overruns, overruns + 1}
  BY <1>4 DEF Accept, PurgeJob, ReadResult, LeaseLapses, LeaseOverrun, ImageExpires,
     ResultExpires
<1>5. ASSUME NEW o \in Owners, DeleteSubject(o) PROVE UNCHANGED budget
  BY <1>5 DEF DeleteSubject
<1>6. ASSUME NEW m \in pending, VisibilityTimeout(m) PROVE UNCHANGED budget
  BY <1>6 DEF VisibilityTimeout
<1>7. crashes' \in {crashes, crashes + 1} /\ overruns' \in {overruns, overruns + 1}
  BY <1>2, <1>3, <1>4, <1>5, <1>6 DEF Next
<1>8. QED  BY <1>0, <1>1, <1>7 DEF CrashWorker

\* A holder stops being one only by settling the job or by crashing.
LEMMA HolderStep ==
  ASSUME TypeOK, OnlyKnownJobs, [Next]_vars, NEW j \in Jobs, NEW w \in Workers,
         HoldsLease(w, j), row'[j].status = "running", row'[j].lease = row[j].lease,
         row'[j].attempt = row[j].attempt
  PROVE  HoldsLease(w, j)' \/ CrashWorker(w)
<1>0. worker \in [Workers -> WorkerStates]
  BY DEF TypeOK, WorkerType
<1>1. worker[w].pc \in Executing /\ worker[w].pc \in Handling /\ JobOf(w) = j
  BY Steps DEF HoldsLease
<1>2. ASSUME worker'[w].pc \in Executing, worker'[w].token = worker[w].token
      PROVE  HoldsLease(w, j)'
  BY <1>1, <1>2, ExecutingStep DEF HoldsLease
<1>3. CASE worker'[w] = worker[w]
  BY <1>1, <1>2, <1>3
<1>4. CASE Handle(w)
  <2>1. worker'[w].pc \in Executing
    BY <1>4, Handles DEF Executing
  <2>2. QED  BY <1>2, <1>4, <2>1, Handles
<1>5. CASE ClaimForWork(w) \/ Consume(w) \/ Respond(w)
  BY <1>1, <1>5 DEF ClaimForWork, Consume, Reclaim, ReadGroup, Respond, Ack, Retry,
     DeadLetter, Executing
<1>6. CASE Finish(w)
  <2>1. LeaseValid(row[j], worker[w].token)
    BY DEF HoldsLease, LeaseValid
  <2>2. Settled(j)
    BY <1>1, <1>6, <2>1, Finishes
  <2>3. QED  BY <2>2 DEF Settled
<1>7. QED  BY <1>3, <1>4, <1>5, <1>6, WorkerChange DEF WorkerStep

LEMMA AttemptsStep ==
  ASSUME TypeOK, OnlyKnownJobs, TokensAreAttempts, AttemptsPaidFor, AttemptsBounded,
         [Next]_vars
  PROVE  AttemptsPaidFor' /\ AttemptsBounded'
<1> SUFFICES ASSUME NEW j \in Jobs
             PROVE  /\ row'[j].attempt <= MaxAttempts + crashes' + overruns'
                    /\ row'[j].status \in {"accepted", "queued", "retry_wait"}
                         => row'[j].attempt < MaxAttempts
                    /\ row'[j].status = "running"
                         /\ (row'[j].expired \/ \A w \in Workers : ~HoldsLease(w, j)')
                         => row'[j].attempt < MaxAttempts + crashes' + overruns'
  BY DEF AttemptsPaidFor, AttemptsBounded
<1>0. /\ crashes \in Nat /\ overruns \in Nat /\ crashes' \in Nat /\ overruns' \in Nat
      /\ crashes <= crashes' /\ overruns <= overruns'
      /\ MaxAttempts \in Nat \ {0}
  BY BudgetStep, PipelineAssumption
<1>1. row[j] \in Rows /\ row[j].attempt \in Nat /\ RowMoves(j)
  BY RowStep DEF TypeOK, DatabaseType, Rows
<1>2. /\ row[j].attempt <= MaxAttempts + crashes + overruns
      /\ row[j].status \in {"accepted", "queued", "retry_wait"}
           => row[j].attempt < MaxAttempts
      /\ row[j].status = "running"
           /\ (row[j].expired \/ \A w \in Workers : ~HoldsLease(w, j))
           => row[j].attempt < MaxAttempts + crashes + overruns
  BY DEF AttemptsPaidFor, AttemptsBounded
<1>3. CASE Unmoved(j)
  <2>1. row'[j] = row[j]
    BY <1>3 DEF Unmoved
  <2>2. CASE row[j].status = "running" /\ ~row[j].expired
             /\ \A w \in Workers : ~HoldsLease(w, j)'
    <3>1. CASE \A w \in Workers : ~HoldsLease(w, j)
      BY <1>0, <1>1, <1>2, <2>1, <2>2, <3>1
    <3>2. CASE \E w \in Workers : HoldsLease(w, j)
      <4>1. PICK w \in Workers : HoldsLease(w, j)
        BY <3>2
      <4>2. CrashWorker(w)
        BY <2>1, <2>2, <4>1, HolderStep
      <4>3. crashes' = crashes + 1
        BY <4>2, BudgetStep
      <4>4. QED  BY <1>0, <1>1, <1>2, <2>1, <2>2, <4>3
    <3>3. QED  BY <3>1, <3>2
  <2>3. QED  BY <1>0, <1>1, <1>2, <2>1, <2>2
<1>4. CASE Lapsed(j)
  <2>1. /\ row'[j].status = "running"
        /\ row'[j].attempt = row[j].attempt
        /\ row[j].status = "running"
    BY <1>1, <1>4 DEF Lapsed, Rows
  <2>2. (\A w \in Workers : ~HoldsLease(w, j)) \/ overruns' = overruns + 1
    BY <1>4 DEF Lapsed
  <2>3. QED  BY <1>0, <1>1, <1>2, <2>1, <2>2
<1>5. CASE Leased(j)
  <2>1. /\ row'[j].status = "running"
        /\ row'[j].attempt = row[j].attempt + 1
        /\ row'[j].expired = FALSE
        /\ \E w \in Workers : HoldsLease(w, j)'
    BY <1>5 DEF Leased
  <2>2. \/ row[j].status \in {"queued", "retry_wait"}
        \/ row[j].status = "running" /\ row[j].expired
    BY <1>1, <1>5 DEF Leased, Busy, Live, Rows
  <2>3. row'[j].attempt <= MaxAttempts + crashes' + overruns'
    BY <1>0, <1>1, <1>2, <2>1, <2>2
  <2>4. QED  BY <2>1, <2>3
<1>6. CASE Settled(j)
  <2>1. /\ row'[j].status \in {"succeeded", "failed", "retry_wait"}
        /\ row'[j].attempt = row[j].attempt
        /\ row[j].status = "running"
    BY <1>6 DEF Settled
  <2>2. row'[j].status = "retry_wait" => row[j].lease < MaxAttempts
    <3>1. PICK w \in Workers :
            /\ LeaseValid(row[j], worker[w].token)
            /\ row'[j].status = Settlement(worker[w].pc, worker[w].token).target
      BY <1>6 DEF Settled
    <3>2. row'[j].status = "retry_wait" => worker[w].token < MaxAttempts
      BY <3>1, SettlementTargets
    <3>3. QED  BY <3>1, <3>2 DEF LeaseValid
  <2>3. row[j].lease = row[j].attempt
    BY <2>1 DEF TokensAreAttempts
  <2>4. QED  BY <1>0, <1>1, <1>2, <2>1, <2>2, <2>3
<1>7. CASE Enqueued(j)
  BY <1>0, <1>1, <1>2, <1>7 DEF Enqueued
<1>8. CASE Created(j) \/ Removed(j)
  BY <1>0, <1>8 DEF Created, Removed, NoLease
<1>9. QED  BY <1>1, <1>3, <1>4, <1>5, <1>6, <1>7, <1>8 DEF RowMoves

LEMMA InductiveInit == Init => Inductive
<1> SUFFICES ASSUME Init PROVE Inductive
  OBVIOUS
<1>1. TypeOK
  BY InitType
<1>2. \A j \in Jobs : row[j].status = "unused" /\ row[j].attempt = 0
  BY DEF Init, NoLease
<1>3. \A w \in Workers : worker[w].pc = "consume"
  BY DEF Init, Polling
<1>4. OnlyKnownJobs
  BY DEF Init, OnlyKnownJobs
<1>5. NoJobLost /\ PublishedBeforeMarked /\ SuccessHasResult
  BY <1>2 DEF Init, NoJobLost, PublishedBeforeMarked, SuccessHasResult, Live
<1>6. AnswerFollowsRow /\ DeadLetterMeansFailed /\ WrittenBeforeSettled
  BY <1>3 DEF Init, AnswerFollowsRow, DeadLetterMeansFailed, WrittenBeforeSettled
<1>7. TokensAreAttempts /\ TokensDiffer
  BY <1>2, <1>3 DEF TokensAreAttempts, TokensDiffer, Executing
<1>8. AttemptsPaidFor /\ AttemptsBounded
  BY <1>2, PipelineAssumption DEF Init, AttemptsPaidFor, AttemptsBounded
<1>9. QED  BY <1>1, <1>4, <1>5, <1>6, <1>7, <1>8 DEF Inductive

LEMMA InductiveStep == Inductive /\ [Next]_vars => Inductive'
BY TypeStep, KnownStep, LostStep, PublishedStep, AnswerStep, DeadLetterStep, TokensStep,
   WrittenStep, SuccessStep, AttemptsStep
DEF Inductive

-----------------------------------------------------------------------------
\* The theorems.

\* Every part of the inductive invariant holds in every reachable state.
THEOREM InductiveInvariant == Spec => []Inductive
BY InductiveInit, InductiveStep, PTL DEF Spec

\* While a job is neither settled nor removed, its event waits in the outbox or a
\* message for it is outstanding, whatever crashes and duplicates there were.
THEOREM NothingLost == Spec => []NoJobLost
<1>1. Inductive => NoJobLost
  BY DEF Inductive
<1>2. QED  BY <1>1, InductiveInvariant, PTL

\* Never do two workers hold a lease finish_claim would accept for one job.
THEOREM OneHolder == Spec => []LeaseExclusive
<1>1. Inductive => LeaseExclusive
  <2> SUFFICES ASSUME Inductive, NEW j \in Jobs, NEW v \in Workers, NEW w \in Workers,
                      HoldsLease(v, j), HoldsLease(w, j)
               PROVE  v = w
    BY DEF LeaseExclusive
  <2>1. /\ worker[v].token = worker[w].token
        /\ row[JobOf(w)].status # "deleted"
        /\ JobOf(v) = JobOf(w)
        /\ worker[v].pc \in Executing /\ worker[w].pc \in Executing
    BY DEF HoldsLease
  <2>2. QED  BY <2>1 DEF Inductive, TokensDiffer
<1>2. QED  BY <1>1, InductiveInvariant, PTL

\* A job that reports success has had its result written before.
THEOREM SuccessIsBacked == Spec => []SuccessHasResult
<1>1. Inductive => SuccessHasResult
  BY DEF Inductive
<1>2. QED  BY <1>1, InductiveInvariant, PTL

\* The failed stream names only jobs that failed or were removed.
THEOREM DeadLettersFailed == Spec => []DeadLetterMeansFailed
<1>1. Inductive => DeadLetterMeansFailed
  BY DEF Inductive
<1>2. QED  BY <1>1, InductiveInvariant, PTL

\* A job runs at most max_attempts times, and once more for each crash of a worker
\* and each lease that ran out under one.
THEOREM AttemptsLimited == Spec => []AttemptsBounded
<1>1. Inductive => AttemptsBounded
  BY DEF Inductive
<1>2. QED  BY <1>1, InductiveInvariant, PTL

\* A claim never replaces a lease that is in force.
THEOREM LeasesRespected == Spec => LeaseRespected
<1>1. ASSUME TypeOK, [Next]_vars, NEW j \in Jobs, row[j].status = "running",
             ~row[j].expired, row'[j].status = "running"
      PROVE  row'[j].lease = row[j].lease
  <2>1. RowMoves(j) /\ row[j] \in Rows
    BY <1>1, RowStep DEF TypeOK, DatabaseType
  <2>2. ~Leased(j)
    BY <1>1 DEF Leased, Busy
  <2>3. CASE Unmoved(j) \/ Lapsed(j)
    BY <1>1, <2>1, <2>3 DEF Unmoved, Lapsed, Rows
  <2>4. CASE Created(j) \/ Removed(j) \/ Enqueued(j) \/ Settled(j)
    BY <1>1, <2>4 DEF Created, Removed, Enqueued, Settled, NoLease
  <2>5. QED  BY <2>1, <2>2, <2>3, <2>4 DEF RowMoves
<1>2. TypeOK /\ [Next]_vars =>
        [\A j \in Jobs :
           row[j].status = "running" /\ ~row[j].expired /\ row'[j].status = "running"
             => row'[j].lease = row[j].lease]_vars
  BY <1>1
<1>3. QED  BY <1>2, TypeCorrect, PTL DEF Spec, LeaseRespected

\* transition() is never asked for a move it refuses.
THEOREM TransitionsLawful == Spec => LawfulTransitions
<1> DEFINE Lawful(from, to) ==
      from # to /\ {from, to} \cap Absent = {} =>
        \/ to \in Transitions[from]
        \/ from = "retry_wait" /\ to \in Transitions["queued"]
<1>1. ASSUME TypeOK, [Next]_vars, NEW j \in Jobs
      PROVE  Lawful(row[j].status, row'[j].status)
  <2>1. RowMoves(j) /\ row[j] \in Rows
    BY <1>1, RowStep DEF TypeOK, DatabaseType
  <2>2. CASE Created(j) \/ Removed(j)
    <3>1. row[j].status \in Absent \/ row'[j].status \in Absent
      BY <2>2 DEF Created, Removed, NoLease, Absent
    <3>2. QED  BY <3>1
  <2>3. CASE Unmoved(j) \/ Lapsed(j)
    BY <2>1, <2>3 DEF Unmoved, Lapsed, Rows
  <2>4. CASE Enqueued(j) \/ Settled(j)
    BY <2>4 DEF Enqueued, Settled, Transitions
  <2>5. CASE Leased(j)
    BY <2>1, <2>5 DEF Leased, Busy, Live, Transitions
  <2>6. QED  BY <2>1, <2>2, <2>3, <2>4, <2>5 DEF RowMoves
<1>2. TypeOK /\ [Next]_vars =>
        [\A j \in Jobs :
           LET from == row[j].status
               to == row'[j].status
           IN  from # to /\ {from, to} \cap Absent = {} =>
                 \/ to \in Transitions[from]
                 \/ from = "retry_wait" /\ to \in Transitions["queued"]]_vars
  BY <1>1
<1>3. QED  BY <1>2, TypeCorrect, PTL DEF Spec, LawfulTransitions

\* Apart from the deletion of a subject, a step moves at most one row.
LEMMA OneRow ==
  ASSUME TypeOK, [Next]_vars
  PROVE  \/ row' = row
         \/ \E o \in Owners : DeleteSubject(o)
         \/ \E i \in Jobs : \A j \in Jobs : j # i => row'[j] = row[j]
<1> USE DEF vars, database, redis, stores, budget
<1>0. row \in [Jobs -> Rows]
  BY DEF TypeOK, DatabaseType
<1>1. ASSUME NEW i \in Jobs,
             Accept(i) \/ PurgeJob(i) \/ LeaseLapses(i) \/ LeaseOverrun(i)
      PROVE  \A j \in Jobs : j # i => row'[j] = row[j]
  BY <1>0, <1>1 DEF Accept, PurgeJob, LeaseLapses, LeaseOverrun
<1>2. ASSUME NEW i \in Jobs, ReadResult(i) \/ ImageExpires(i) \/ ResultExpires(i)
      PROVE  row' = row
  BY <1>2 DEF ReadResult, ImageExpires, ResultExpires
<1>3. ASSUME NEW d \in Dispatchers, DispatcherStep(d) \/ CrashDispatcher(d)
      PROVE  row' = row \/ \E i \in Jobs : \A j \in Jobs : j # i => row'[j] = row[j]
  <2>1. CASE MarkPublished(d) /\ dispatcher[d].job \in Jobs
    BY <1>0, <2>1 DEF MarkPublished
  <2>2. CASE MarkPublished(d) /\ dispatcher[d].job \notin Jobs
    BY <1>0, <2>2 DEF MarkPublished
  <2>3. CASE ~MarkPublished(d)
    BY <1>3, <2>3 DEF DispatcherStep, ListUnpublished, Publish, CrashDispatcher
  <2>4. QED  BY <2>1, <2>2, <2>3
<1>4. ASSUME NEW w \in Workers, WorkerStep(w) \/ CrashWorker(w)
      PROVE  row' = row \/ \E i \in Jobs : \A j \in Jobs : j # i => row'[j] = row[j]
  <2>1. CASE CrashWorker(w)
    BY <2>1 DEF CrashWorker
  <2>2. QED  BY <1>4, <2>1, OwnStep, Claims, Finishes
<1>5. ASSUME NEW m \in pending, VisibilityTimeout(m) PROVE row' = row
  BY <1>5 DEF VisibilityTimeout
<1>6. QED  BY <1>1, <1>2, <1>3, <1>4, <1>5 DEF Next

\* What a poll can be told, and how a move of the row shows.
LEMMA PhaseMoves ==
  ASSUME NEW j \in Jobs, row[j] \in Rows, RowMoves(j)
  PROVE  \/ Phase(row'[j].status) = Phase(row[j].status)
         \/ Phase(row[j].status) = "none" /\ Phase(row'[j].status) = "pending"
         \/ /\ Phase(row[j].status) = "pending"
            /\ Phase(row'[j].status) \in {"succeeded", "failed"}
         \/ /\ Phase(row[j].status) \in {"pending", "succeeded", "failed"}
            /\ Phase(row'[j].status) = "gone"
<1> USE DEF Phase, Live, Terminal, Absent, Rows, NoLease
<1>1. CASE Unmoved(j) \/ Lapsed(j)
  BY <1>1 DEF Unmoved, Lapsed
<1>2. CASE Created(j)
  BY <1>2 DEF Created
<1>3. CASE Removed(j)
  BY <1>3 DEF Removed
<1>4. CASE Enqueued(j) \/ Leased(j)
  BY <1>4 DEF Enqueued, Leased
<1>5. CASE Settled(j)
  BY <1>5 DEF Settled
<1>6. QED  BY <1>1, <1>2, <1>3, <1>4, <1>5 DEF RowMoves

\* Every step of the pipeline is a step of the contract or shows nothing of it.
THEOREM ImplementsContract == Spec => ContractSafe
<1> DEFINE shown == [j \in Jobs |-> Phase(row[j].status)]
<1>1. Init => Contract!Init
  <2>1. Phase("unused") = "none"
    BY DEF Phase, Live
  <2>2. Init => \A j \in Jobs : row[j].status = "unused"
    BY DEF Init, NoLease
  <2>3. QED  BY <2>1, <2>2 DEF Contract!Init
<1>2. ASSUME TypeOK, [Next]_vars PROVE [Contract!Next]_shown
  <2>1. \A j \in Jobs : RowMoves(j) /\ row[j] \in Rows
    BY <1>2, RowStep DEF TypeOK, DatabaseType
  <2>2. CASE row' = row
    BY <2>2
  <2>3. ASSUME NEW i \in Jobs, \A j \in Jobs : j # i => row'[j] = row[j]
        PROVE  [Contract!Next]_shown
    <3> DEFINE old == Phase(row[i].status)
               new == Phase(row'[i].status)
    <3>1. shown' = [shown EXCEPT ![i] = new]
      BY <2>3
    <3>2. CASE new = old
      BY <3>1, <3>2
    <3>3. CASE old = "none" /\ new = "pending"
      <4>1. Contract!Submit(i)
        BY <3>1, <3>3 DEF Contract!Submit
      <4>2. QED  BY <4>1 DEF Contract!Next
    <3>4. CASE old = "pending" /\ new \in {"succeeded", "failed"}
      <4>1. Contract!Settle(i)
        BY <3>1, <3>4 DEF Contract!Settle
      <4>2. QED  BY <4>1 DEF Contract!Next
    <3>5. CASE old \in {"pending", "succeeded", "failed"} /\ new = "gone"
      <4>1. Contract!Remove({i})
        BY <3>1, <3>5 DEF Contract!Remove
      <4>2. QED  BY <4>1 DEF Contract!Next
    <3>6. QED  BY <2>1, <3>2, <3>3, <3>4, <3>5, PhaseMoves
  <2>4. ASSUME NEW o \in Owners, DeleteSubject(o) PROVE [Contract!Next]_shown
    <3> DEFINE owned == {j \in Jobs : OwnerOf[j] = o /\ row[j].status \notin Absent}
    <3>1. /\ owned # {}
          /\ row' = [j \in Jobs |-> IF j \in owned THEN NoLease("deleted") ELSE row[j]]
      BY <2>4 DEF DeleteSubject
    <3>2. \A j \in owned : shown[j] \in {"pending", "succeeded", "failed"}
      BY <2>1 DEF Phase, Rows, Live, Terminal, Absent
    <3>3. \A j \in owned : row'[j].status = "deleted"
      BY <3>1 DEF NoLease
    <3>4. Phase("deleted") = "gone"
      BY DEF Phase, Live
    <3>5. \A j \in Jobs : j \notin owned => row'[j] = row[j]
      BY <3>1
    <3>6. shown' = [j \in Jobs |-> IF j \in owned THEN "gone" ELSE shown[j]]
      BY <3>3, <3>4, <3>5
    <3>7. Contract!Remove(owned)
      BY <3>1, <3>2, <3>6 DEF Contract!Remove
    <3>8. owned \in SUBSET Jobs
      OBVIOUS
    <3> HIDE DEF owned
    <3>9. QED  BY <3>7, <3>8 DEF Contract!Next
  <2>5. QED  BY <1>2, <2>2, <2>3, <2>4, OneRow
<1>3. QED  BY <1>1, <1>2, TypeCorrect, PTL DEF Spec, ContractSafe, Contract!SafeSpec

-----------------------------------------------------------------------------
\* Receipts: the photograph is taken once, so the result is made once.

\* What a step makes of the image of a job that has been accepted.
LEMMA ImageStep ==
  ASSUME TypeOK, [Next]_vars, NEW j \in Jobs
  PROVE  /\ image[j] = "gone" /\ row[j].status # "unused" => image'[j] = "gone"
         /\ row'[j].status = "unused" /\ image[j] = "none" => image'[j] = "none"
<1> USE DEF vars, database, redis, stores, budget
<1>0. /\ image \in [Jobs -> {"none", "stored", "gone"}]
      /\ row \in [Jobs -> Rows]
  BY DEF TypeOK, StoreType, DatabaseType
<1>1. ASSUME NEW i \in Jobs, Accept(i)
      PROVE  /\ row[j].status # "unused" => image'[j] = image[j]
             /\ row'[j].status = "unused" => image'[j] = image[j]
  <2>1. row'[i].status = "accepted" /\ row[i].status = "unused"
    BY <1>0, <1>1 DEF Accept, NoLease
  <2>2. j # i => image'[j] = image[j]
    BY <1>0, <1>1 DEF Accept
  <2>3. QED  BY <2>1, <2>2
<1>2. ASSUME NEW i \in Jobs, image[i] = "stored", image' = [image EXCEPT ![i] = "gone"]
      PROVE  /\ image[j] = "gone" => image'[j] = "gone"
             /\ image[j] = "none" => image'[j] = "none"
  BY <1>0, <1>2
<1>3. ASSUME NEW i \in Jobs, ImageExpires(i)
      PROVE  image[i] = "stored" /\ image' = [image EXCEPT ![i] = "gone"]
  BY <1>3 DEF ImageExpires
<1>4. ASSUME NEW w \in Workers, WorkerStep(w) \/ CrashWorker(w)
      PROVE  \/ image' = image
             \/ /\ JobOf(w) \in Jobs
                /\ image[JobOf(w)] = "stored"
                /\ image' = [image EXCEPT ![JobOf(w)] = "gone"]
  <2>1. CASE TakeImage(w)
    <3>1. JobOf(w) \in Jobs
      BY <2>1, JobOfType DEF TakeImage, TypeOK, Handling, Executing
    <3>2. QED  BY <2>1, <3>1 DEF TakeImage
  <2>2. CASE ~TakeImage(w)
    BY <1>4, <2>2 DEF WorkerStep, Consume, Handle, Respond, Reclaim, ReadGroup,
       ClaimForWork, Produce, PutResult, Finish, Ack, Retry, DeadLetter, Acknowledge,
       CrashWorker
  <2>3. QED  BY <2>1, <2>2
<1>5. ASSUME NEW d \in Dispatchers, DispatcherStep(d) \/ CrashDispatcher(d)
      PROVE  image' = image
  BY <1>5 DEF DispatcherStep, ListUnpublished, Publish, MarkPublished, CrashDispatcher
<1>6. ASSUME NEW i \in Jobs,
             \/ PurgeJob(i) \/ ReadResult(i) \/ LeaseLapses(i) \/ LeaseOverrun(i)
             \/ ResultExpires(i)
      PROVE  image' = image
  BY <1>6 DEF PurgeJob, ReadResult, LeaseLapses, LeaseOverrun, ResultExpires
<1>7. ASSUME NEW o \in Owners, DeleteSubject(o) PROVE image' = image
  BY <1>7 DEF DeleteSubject
<1>8. ASSUME NEW m \in pending, VisibilityTimeout(m) PROVE image' = image
  BY <1>8 DEF VisibilityTimeout
<1>9. CASE image' = image
  BY <1>9
<1>10. QED  BY <1>1, <1>2, <1>3, <1>4, <1>5, <1>6, <1>7, <1>8, <1>9 DEF Next

\* A result changes by being consumed, by expiring, or by a put of an attempt.
LEMMA ResultChange ==
  ASSUME TypeOK, [Next]_vars, NEW j \in Jobs
  PROVE  \/ result'[j] = result[j]
         \/ /\ result[j].state = "ready"
            /\ result'[j] = [result[j] EXCEPT !.state = "gone"]
         \/ \E w \in Workers :
              /\ worker[w].pc = "put" /\ JobOf(w) = j
              /\ worker'[w].pc \in {"succeed", "transient"}
<1> USE DEF vars, database, redis, stores, budget
<1>0. /\ result \in [Jobs -> [state : {"none", "ready", "gone"}, by : Nat]]
      /\ worker \in [Workers -> WorkerStates]
  BY DEF TypeOK, StoreType, WorkerType
<1>1. ASSUME NEW i \in Jobs, ReadResult(i) \/ ResultExpires(i)
      PROVE  \/ result'[j] = result[j]
             \/ /\ result[j].state = "ready"
                /\ result'[j] = [result[j] EXCEPT !.state = "gone"]
  BY <1>0, <1>1 DEF ReadResult, ResultExpires
<1>2. ASSUME NEW w \in Workers, PutResult(w), result'[j] # result[j]
      PROVE  /\ worker[w].pc = "put" /\ JobOf(w) = j
             /\ worker'[w].pc \in {"succeed", "transient"}
  <2>1. \E pc \in {"succeed", "transient"} : worker' = [worker EXCEPT ![w] = Holding(w, pc)]
    BY <1>2 DEF PutResult
  <2>2. worker'[w].pc \in {"succeed", "transient"}
    BY <1>0, <2>1 DEF Holding, WorkerStates
  <2>3. worker[w].pc = "put" /\ JobOf(w) = j
    BY <1>0, <1>2 DEF PutResult
  <2>4. QED  BY <2>2, <2>3
<1>3. ASSUME NEW w \in Workers, WorkerStep(w) \/ CrashWorker(w), ~PutResult(w)
      PROVE  result' = result
  BY <1>3 DEF WorkerStep, Consume, Handle, Respond, Reclaim, ReadGroup, ClaimForWork,
     TakeImage, Produce, Finish, Ack, Retry, DeadLetter, Acknowledge, CrashWorker
<1>4. ASSUME NEW d \in Dispatchers, DispatcherStep(d) \/ CrashDispatcher(d)
      PROVE  result' = result
  BY <1>4 DEF DispatcherStep, ListUnpublished, Publish, MarkPublished, CrashDispatcher
<1>5. ASSUME NEW i \in Jobs,
             \/ Accept(i) \/ PurgeJob(i) \/ LeaseLapses(i) \/ LeaseOverrun(i)
             \/ ImageExpires(i)
      PROVE  result' = result
  BY <1>5 DEF Accept, PurgeJob, LeaseLapses, LeaseOverrun, ImageExpires
<1>6. ASSUME NEW o \in Owners, DeleteSubject(o) PROVE result' = result
  BY <1>6 DEF DeleteSubject
<1>7. ASSUME NEW m \in pending, VisibilityTimeout(m) PROVE result' = result
  BY <1>7 DEF VisibilityTimeout
<1>8. QED  BY <1>1, <1>2, <1>3, <1>4, <1>5, <1>6, <1>7 DEF Next

\* How an attempt gets past the take of its receipt, and on from there.
Took(w) ==
  /\ image[JobOf(w)] = "stored"
  /\ image'[JobOf(w)] = "gone"
  /\ worker'[w].pc = "produce"
  /\ result' = result
Produced(w) ==
  /\ worker[w].pc = "produce"
  /\ worker'[w].pc = "put"
  /\ result' = result
Put(w) ==
  /\ worker[w].pc = "put"
  /\ worker'[w].pc = "succeed"
  /\ result'[JobOf(w)].by = worker[w].token

LEMMA ReadingStep ==
  ASSUME Kind = "receipt", TypeOK, OnlyKnownJobs, [Next]_vars,
         NEW w \in Workers, Reading(w)'
  PROVE  /\ JobOf(w)' = JobOf(w)
         /\ JobOf(w) \in Jobs
         /\ row[JobOf(w)].status # "unused"
         /\ worker'[w].token = worker[w].token
         /\ \/ worker'[w] = worker[w]
            \/ /\ Took(w) \/ Produced(w) \/ Put(w)
               /\ \A v \in Workers : v # w => worker'[v] = worker[v]
<1>0. /\ worker \in [Workers -> WorkerStates]
      /\ image \in [Jobs -> {"none", "stored", "gone"}]
      /\ result \in [Jobs -> [state : {"none", "ready", "gone"}, by : Nat]]
  BY DEF TypeOK, WorkerType, StoreType
<1>1. worker'[w].pc \in Executing /\ worker'[w].pc \in {"produce", "put", "succeed"}
  BY DEF Reading, Executing
<1>2. /\ JobOf(w)' = JobOf(w)
      /\ JobOf(w) \in Jobs
      /\ row[JobOf(w)].status # "unused"
  BY <1>1, ExecutingStep
<1>3. ASSUME NEW pc, worker' = [worker EXCEPT ![w] = Holding(w, pc)]
      PROVE  /\ worker'[w].pc = pc
             /\ worker'[w].token = worker[w].token
             /\ \A v \in Workers : v # w => worker'[v] = worker[v]
  BY <1>0, <1>3 DEF Holding, WorkerStates
<1>4. CASE worker'[w] = worker[w]
  BY <1>2, <1>4
<1>5. CASE TakeImage(w)
  <2>1. PICK pc \in {"produce", "transient", "permanent"} :
          /\ worker' = [worker EXCEPT ![w] = Holding(w, pc)]
          /\ \/ /\ image[JobOf(w)] = "stored"
                /\ image' = [image EXCEPT ![JobOf(w)] = "gone"]
             \/ pc # "produce"
    BY <1>5 DEF TakeImage
  <2>2. pc = "produce"
    BY <1>1, <1>3, <2>1
  <2>3. Took(w)
    BY <1>0, <1>2, <1>3, <1>5, <2>1, <2>2 DEF Took, TakeImage
  <2>4. QED  BY <1>2, <1>3, <2>1, <2>3
<1>6. CASE Produce(w)
  <2>1. PICK pc : worker' = [worker EXCEPT ![w] = Holding(w, pc)] /\ pc \in {"put", "transient"}
    BY <1>6 DEF Produce
  <2>2. pc = "put"
    BY <1>1, <1>3, <2>1
  <2>3. Produced(w)
    BY <1>3, <1>6, <2>1, <2>2 DEF Produced, Produce, stores
  <2>4. QED  BY <1>2, <1>3, <2>1, <2>3
<1>7. CASE PutResult(w)
  <2>1. PICK pc \in {"succeed", "transient"} :
          worker' = [worker EXCEPT ![w] = Holding(w, pc)]
    BY <1>7 DEF PutResult
  <2>2. pc = "succeed"
    BY <1>1, <1>3, <2>1
  <2>3. result' = [result EXCEPT ![JobOf(w)] = [state |-> "ready", by |-> worker[w].token]]
    <3>1. worker'[w].pc = "succeed"
      BY <1>3, <2>1, <2>2
    <3>2. ~(worker' = [worker EXCEPT ![w] = Holding(w, "transient")])
      BY <1>3, <3>1
    <3>3. QED  BY <1>7, <3>2 DEF PutResult
  <2>4. result'[JobOf(w)].by = worker[w].token
    BY <1>0, <1>2, <2>3
  <2>5. Put(w)
    BY <1>3, <1>7, <2>1, <2>2, <2>4 DEF Put, PutResult
  <2>6. QED  BY <1>2, <1>3, <2>1, <2>5
<1>8. CASE ClaimForWork(w)
  <2>1. worker'[w].pc \in {"dead_letter", "ack", "consume", "take"}
    <3>1. ASSUME NEW t, worker' = [worker EXCEPT ![w] = [Holding(w, "take") EXCEPT !.token = t]]
          PROVE  worker'[w].pc = "take"
      BY <1>0, <3>1 DEF Holding, WorkerStates
    <3>2. ASSUME worker' = [worker EXCEPT ![w] = Polling("consume")]
          PROVE  worker'[w].pc = "consume"
      BY <1>0, <3>2 DEF Polling
    <3>3. \/ worker' = [worker EXCEPT ![w] = Holding(w, "dead_letter")]
          \/ worker' = [worker EXCEPT ![w] = Holding(w, "ack")]
          \/ worker' = [worker EXCEPT ![w] = Polling("consume")]
          \/ \E t : worker' = [worker EXCEPT ![w] = [Holding(w, "take") EXCEPT !.token = t]]
      BY <1>8 DEF ClaimForWork
    <3>4. QED  BY <1>3, <3>1, <3>2, <3>3
  <2>2. QED  BY <1>1, <2>1
<1>9. CASE Finish(w)
  <2>1. worker'[w].pc \in {"ack", "dead_letter", "retry", "consume"}
    BY <1>0, <1>9, Finishes, SettlementTargets DEF Holding, Polling, WorkerStates
  <2>2. QED  BY <1>1, <2>1
<1>10. QED
  BY <1>1, <1>4, <1>5, <1>6, <1>7, <1>8, <1>9, WorkerChange, OwnStep DEF Handle

\* A worker that is past the take holds an accepted job.
LEMMA ReadingKnown ==
  ASSUME TypeOK, OnlyKnownJobs, NEW w \in Workers, Reading(w)
  PROVE  JobOf(w) \in Jobs /\ row[JobOf(w)].status # "unused"
<1>1. worker[w].pc \in Handling
  BY DEF Reading, Handling, Executing
<1>2. worker[w].entry \in 1..Len(stream)
  BY <1>1 DEF TypeOK, WorkerType, WorkerStates, QueueType
<1>3. QED  BY <1>1, <1>2, JobOfType DEF TypeOK, JobOf, OnlyKnownJobs

LEMMA TakenStep ==
  ASSUME Kind = "receipt", TypeOK, OnlyKnownJobs, TakenOnce, [Next]_vars
  PROVE  TakenOnce'
<1>0. result \in [Jobs -> [state : {"none", "ready", "gone"}, by : Nat]]
  BY DEF TypeOK, StoreType
<1>1. ASSUME NEW v \in Workers, worker[v].pc = "put"
      PROVE  /\ Reading(v)
             /\ JobOf(v) \in Jobs /\ row[JobOf(v)].status # "unused"
             /\ image[JobOf(v)] = "gone" /\ result[JobOf(v)].state = "none"
  <2>1. Reading(v)
    BY <1>1 DEF Reading
  <2>2. QED  BY <1>1, <2>1, ReadingKnown DEF TakenOnce
<1>2. ASSUME NEW j \in Jobs, row'[j].status = "unused" PROVE image'[j] = "none"
  <2>1. row[j].status = "unused"
    BY <1>2, StatusStep
  <2>2. QED  BY <1>2, <2>1, ImageStep DEF TakenOnce
<1>3. ASSUME NEW j \in Jobs, result'[j].state # "none" PROVE image'[j] = "gone"
  <2>1. image[j] = "gone" /\ row[j].status # "unused"
    <3>1. CASE result[j].state # "none"
      BY <3>1 DEF TakenOnce
    <3>2. CASE result[j].state = "none"
      <4>1. result'[j] # result[j] /\ result[j].state # "ready"
        BY <1>3, <3>2
      <4>2. PICK v \in Workers : worker[v].pc = "put" /\ JobOf(v) = j
        BY <4>1, ResultChange
      <4>3. QED  BY <1>1, <4>2
    <3>3. QED  BY <3>1, <3>2
  <2>2. QED  BY <2>1, ImageStep
<1>4. ASSUME NEW w \in Workers, Reading(w)'
      PROVE  /\ image'[JobOf(w)'] = "gone"
             /\ worker'[w].pc \in {"produce", "put"} => result'[JobOf(w)'].state = "none"
             /\ worker'[w].pc = "succeed" => result'[JobOf(w)'].by = worker'[w].token
  <2>1. /\ JobOf(w)' = JobOf(w)
        /\ JobOf(w) \in Jobs
        /\ row[JobOf(w)].status # "unused"
        /\ worker'[w].token = worker[w].token
        /\ worker'[w] = worker[w] \/ Took(w) \/ Produced(w) \/ Put(w)
    BY <1>4, ReadingStep
  <2>2. CASE Took(w)
    BY <2>1, <2>2 DEF Took, TakenOnce
  <2>3. ASSUME Reading(w) PROVE image'[JobOf(w)] = "gone"
    BY <2>1, <2>3, ImageStep DEF TakenOnce
  <2>4. CASE Produced(w)
    <3>1. Reading(w)
      BY <2>4 DEF Produced, Reading
    <3>2. QED  BY <2>1, <2>3, <2>4, <3>1 DEF Produced, TakenOnce
  <2>5. CASE Put(w)
    <3>1. Reading(w)
      BY <2>5 DEF Put, Reading
    <3>2. QED  BY <2>1, <2>3, <2>5, <3>1 DEF Put
  <2>6. CASE worker'[w] = worker[w]
    <3>1. Reading(w)
      BY <1>4, <2>6 DEF Reading
    <3>2. CASE result'[JobOf(w)] = result[JobOf(w)]
      BY <2>1, <2>3, <2>6, <3>1, <3>2 DEF TakenOnce
    <3>3. CASE /\ result[JobOf(w)].state = "ready"
               /\ result'[JobOf(w)] = [result[JobOf(w)] EXCEPT !.state = "gone"]
      <4>1. result'[JobOf(w)].by = result[JobOf(w)].by
        BY <1>0, <2>1, <3>3
      <4>2. QED  BY <2>1, <2>3, <2>6, <3>1, <3>3, <4>1 DEF TakenOnce
    <3>4. ASSUME NEW v \in Workers, worker[v].pc = "put", JobOf(v) = JobOf(w),
                 worker'[v].pc \in {"succeed", "transient"}
          PROVE  FALSE
      <4>1. v = w
        BY <1>1, <3>1, <3>4 DEF TakenOnce
      <4>2. QED  BY <2>6, <3>4, <4>1
    <3>5. QED  BY <2>1, <3>2, <3>3, <3>4, ResultChange
  <2>7. QED  BY <2>1, <2>2, <2>4, <2>5, <2>6
<1>5. ASSUME NEW v \in Workers, NEW w \in Workers, Reading(v)', Reading(w)',
             JobOf(v)' = JobOf(w)', v # w
      PROVE  FALSE
  <2>1. JobOf(v) = JobOf(w)
    BY <1>5, ReadingStep
  <2>2. ASSUME NEW x \in Workers, NEW y \in Workers, x # y, Reading(x)', Reading(y)',
               JobOf(x) = JobOf(y), worker'[x] # worker[x]
        PROVE  FALSE
    <3>1. /\ Took(x) \/ Produced(x) \/ Put(x)
          /\ worker'[y] = worker[y]
      BY <2>2, ReadingStep
    <3>2. Reading(y)
      BY <2>2, <3>1 DEF Reading
    <3>3. ~Took(x)
      BY <2>2, <3>2 DEF Took, TakenOnce
    <3>4. Reading(x)
      BY <3>1, <3>3 DEF Produced, Put, Reading
    <3>5. QED  BY <2>2, <3>2, <3>4 DEF TakenOnce
  <2>3. worker'[v] = worker[v] /\ worker'[w] = worker[w]
    BY <1>5, <2>1, <2>2
  <2>4. Reading(v) /\ Reading(w)
    BY <1>5, <2>3 DEF Reading
  <2>5. QED  BY <1>5, <2>1, <2>4 DEF TakenOnce
<1>6. QED  BY <1>2, <1>3, <1>4, <1>5 DEF TakenOnce, Reading

\* The attempt whose settlement makes a job succeed.
LEMMA WinnerIs ==
  ASSUME NEW j \in Jobs, Settled(j), row'[j].status = "succeeded"
  PROVE  \E w \in Workers :
           /\ worker[w].pc = "succeed" /\ JobOf(w) = j
           /\ row[j].status = "running" /\ row[j].lease = worker[w].token
           /\ row'[j].attempt = row[j].attempt
<1>1. PICK w \in Workers :
        /\ JobOf(w) = j
        /\ LeaseValid(row[j], worker[w].token)
        /\ row'[j].status = Settlement(worker[w].pc, worker[w].token).target
  BY DEF Settled
<1>2. worker[w].pc = "succeed"
  BY <1>1, SettlementTargets
<1>3. QED  BY <1>1, <1>2 DEF Settled, LeaseValid

LEMMA ReceiptStep == Inductive /\ ReceiptInv /\ [Next]_vars => ReceiptInv'
<1> SUFFICES ASSUME Inductive, TakenOnce, SuccessErasesImage, ResultFromWinner,
                    Kind = "receipt", [Next]_vars
             PROVE  TakenOnce' /\ SuccessErasesImage' /\ ResultFromWinner'
  BY DEF ReceiptInv
<1>1. /\ TypeOK /\ OnlyKnownJobs /\ TokensAreAttempts /\ SuccessHasResult
      /\ result \in [Jobs -> [state : {"none", "ready", "gone"}, by : Nat]]
  BY DEF Inductive, TypeOK, StoreType
<1>2. TakenOnce'
  BY <1>1, TakenStep
<1>3. ASSUME NEW j \in Jobs, row'[j].status = "succeeded"
      PROVE  \/ row'[j] = row[j]
             \/ \E w \in Workers :
                  /\ worker[w].pc = "succeed" /\ JobOf(w) = j
                  /\ row[j].status = "running" /\ row[j].lease = worker[w].token
                  /\ row'[j].attempt = row[j].attempt
  <2>1. RowMoves(j) /\ row[j] \in Rows
    BY <1>1, RowStep DEF TypeOK, DatabaseType
  <2>2. CASE Created(j) \/ Removed(j) \/ Lapsed(j) \/ Enqueued(j) \/ Leased(j)
    BY <1>3, <2>1, <2>2 DEF Created, Removed, Lapsed, Enqueued, Leased, NoLease, Rows
  <2>3. QED  BY <1>3, <2>1, <2>2, WinnerIs DEF RowMoves, Unmoved
<1>4. ASSUME NEW j \in Jobs, row'[j].status = "succeeded" PROVE image'[j] = "gone"
  <2>1. image[j] = "gone" /\ row[j].status # "unused"
    <3>1. CASE row'[j] = row[j]
      BY <1>3, <1>4, <3>1 DEF SuccessErasesImage
    <3>2. CASE row'[j] # row[j]
      <4>1. PICK w \in Workers :
              worker[w].pc = "succeed" /\ JobOf(w) = j /\ row[j].status = "running"
        BY <1>3, <1>4, <3>2
      <4>2. QED  BY <4>1 DEF TakenOnce, Reading
    <3>3. QED  BY <3>1, <3>2
  <2>2. QED  BY <1>1, <2>1, ImageStep
<1>5. ASSUME NEW j \in Jobs, row'[j].status = "succeeded", result'[j].state = "ready"
      PROVE  result'[j].by = row'[j].attempt
  <2>1. \/ result'[j] = result[j]
        \/ \E v \in Workers : worker[v].pc = "put" /\ JobOf(v) = j
    BY <1>1, <1>5, ResultChange
  <2>2. CASE row'[j] = row[j]
    <3>1. ASSUME NEW v \in Workers, worker[v].pc = "put", JobOf(v) = j PROVE FALSE
      <4>1. result[j].state = "none"
        BY <3>1 DEF TakenOnce
      <4>2. QED  BY <1>1, <1>5, <2>2, <4>1 DEF SuccessHasResult
    <3>2. QED  BY <1>5, <2>1, <2>2, <3>1 DEF ResultFromWinner
  <2>3. CASE row'[j] # row[j]
    <3>1. PICK w \in Workers :
            /\ worker[w].pc = "succeed" /\ JobOf(w) = j
            /\ row[j].status = "running" /\ row[j].lease = worker[w].token
            /\ row'[j].attempt = row[j].attempt
      BY <1>3, <1>5, <2>3
    <3>2. ASSUME NEW v \in Workers, worker[v].pc = "put", JobOf(v) = j PROVE FALSE
      <4>1. v = w
        BY <3>1, <3>2 DEF TakenOnce, Reading
      <4>2. QED  BY <3>1, <3>2, <4>1
    <3>3. result[j].by = worker[w].token
      BY <3>1 DEF TakenOnce
    <3>4. row[j].lease = row[j].attempt
      BY <1>1, <3>1 DEF TokensAreAttempts
    <3>5. QED  BY <2>1, <3>1, <3>2, <3>3, <3>4
  <2>4. QED  BY <2>2, <2>3
<1>6. QED  BY <1>2, <1>4, <1>5 DEF SuccessErasesImage, ResultFromWinner

\* At most one attempt of a receipt job ever has its photograph, and what follows
\* from that holds in every reachable state.
THEOREM ReceiptInvariant == Spec => [](Inductive /\ ReceiptInv)
<1>1. Init => ReceiptInv
  <2> SUFFICES ASSUME Init PROVE TakenOnce /\ SuccessErasesImage /\ ResultFromWinner
    BY DEF ReceiptInv
  <2>1. /\ \A j \in Jobs : /\ row[j].status = "unused" /\ image[j] = "none"
                           /\ result[j].state = "none"
        /\ \A w \in Workers : worker[w].pc = "consume"
    BY DEF Init, NoLease, NoResult, Polling
  <2>2. QED  BY <2>1 DEF TakenOnce, Reading, SuccessErasesImage, ResultFromWinner
<1>2. QED  BY <1>1, InductiveInit, InductiveStep, ReceiptStep, PTL DEF Spec

\* The photograph of a receipt job that succeeded is out of the store.
THEOREM ImagesErased == Spec => []SuccessErasesImage
<1>1. Inductive /\ ReceiptInv => SuccessErasesImage
  BY DEF ReceiptInv, SuccessErasesImage
<1>2. QED  BY <1>1, ReceiptInvariant, PTL

\* Of a receipt job, the result a poll finds was written by the attempt that
\* settled it. (For the other kinds a late attempt may overwrite it: the run
\* stale_result.)
THEOREM WinnersResult ==
  ASSUME Kind = "receipt"
  PROVE  Spec => []ResultFromWinner
<1>1. Inductive /\ ReceiptInv => ResultFromWinner
  BY DEF ReceiptInv
<1>2. QED  BY <1>1, ReceiptInvariant, PTL

\* No late or repeated attempt brings back a receipt result that was consumed or
\* has expired, and none replaces one that is waiting for its poll.
THEOREM ReceiptsWrittenOnce == Spec => ReceiptResultOnce
<1>1. ASSUME Inductive, ReceiptInv, [Next]_vars, NEW j \in Jobs, Kind = "receipt",
             result[j].state # "none"
      PROVE  result'[j] \in {result[j], [result[j] EXCEPT !.state = "gone"]}
  <2>1. ASSUME NEW w \in Workers, worker[w].pc = "put", JobOf(w) = j PROVE FALSE
    BY <1>1, <2>1 DEF ReceiptInv, TakenOnce
  <2>2. QED  BY <1>1, <2>1, ResultChange DEF Inductive
<1>2. Inductive /\ ReceiptInv /\ [Next]_vars =>
        [\A j \in Jobs :
           Kind = "receipt" /\ result[j].state # "none"
             => result'[j] \in {result[j], [result[j] EXCEPT !.state = "gone"]}]_vars
  BY <1>1
<1>3. QED  BY <1>2, ReceiptInvariant, PTL DEF Spec, ReceiptResultOnce
=============================================================================
