---------------------------- MODULE JobPipeline ----------------------------
(***************************************************************************)
(* The asynchronous job pipeline of one job kind: the API accepts a job     *)
(* into PostgreSQL together with an outbox event, dispatchers copy outbox   *)
(* events to the Redis stream of the kind, and workers read the stream as a *)
(* consumer group, claim the job row under a lease, run the handler and     *)
(* settle the row before they acknowledge the message.                      *)
(*                                                                          *)
(* One action is one atomic effect on a store (one SQL transaction, one     *)
(* Redis command or MULTI block), so every point at which a process may     *)
(* crash, be overtaken or be delayed lies between two actions.              *)
(***************************************************************************)
EXTENDS Integers, Sequences, FiniteSets

CONSTANTS
  Jobs,         \* identities of the job rows that may be created
  Owners,       \* data subjects
  OwnerOf,      \* owner_hash of every job
  NoJob,        \* "no job": the dispatcher has no record in hand
  Workers,      \* consumers of the kind's stream
  Dispatchers,  \* outbox dispatcher processes
  Kind,         \* JobKind of the stream: "coach", "forecast" or "receipt"
  MaxAttempts,  \* WorkerRuntime.max_attempts
  MaxCrashes,   \* bound: process crashes in one behaviour
  MaxOverruns   \* bound: leases that run out while their worker is alive

ASSUME PipelineAssumption ==
  /\ NoJob \notin Jobs
  /\ OwnerOf \in [Jobs -> Owners]
  /\ Kind \in {"coach", "forecast", "receipt"}
  /\ MaxAttempts \in Nat \ {0}
  /\ MaxCrashes \in Nat
  /\ MaxOverruns \in Nat

VARIABLES
  row,          \* jobs table; "unused" before creation, "deleted" after removal
  outbox,       \* outbox event of the job: "none", "unpublished", "published"
  stream,       \* Redis stream: the job of every entry ever added (XACK keeps it)
  cursor,       \* last entry the consumer group has handed out
  pending,      \* entries handed out and not acknowledged
  idle,         \* pending entries whose visibility timeout has passed
  failed,       \* jobs with an entry on the ":failed" stream
  dispatcher,   \* local state of every dispatcher
  worker,       \* local state of every worker
  image,        \* receipt image of the job: "none", "stored", "gone"
  result,       \* result key of the job and the attempt that wrote it
  crashes,      \* crashes so far
  overruns      \* overruns so far

database == <<row, outbox>>
redis == <<stream, cursor, pending, idle, failed>>
stores == <<image, result>>
budget == <<crashes, overruns>>
vars == <<database, redis, dispatcher, worker, stores, budget>>

Live == {"accepted", "queued", "running", "retry_wait"}
Terminal == {"succeeded", "failed"}
Absent == {"unused", "deleted"}

\* The job row. Fields no transition reads back are left out (timestamps,
\* failure_code, version, the payload); `expired` says whether lease_expires_at
\* has passed. A lease token is the number of the attempt it was issued to: as
\* fresh as the ULID of the code, because every claim starts a new attempt. 0 is
\* "no lease".
NoLease(status) ==
  [status |-> status, attempt |-> 0, lease |-> 0, expired |-> FALSE]

NoResult == [state |-> "none", by |-> 0]

\* A worker between two calls of run_once, and one holding entry m.
Polling(pc) == [pc |-> pc, entry |-> 0, token |-> 0]
Holding(w, pc) == [worker[w] EXCEPT !.pc = pc]
JobOf(w) == stream[worker[w].entry]

\* Steps of run_once during which the worker holds (or believes it holds) the
\* lease of its job: from the claim up to the call of finish.
Executing == {"take", "produce", "put", "succeed", "permanent", "transient"}
Handling == Executing \cup {"claim", "ack", "retry", "dead_letter"}
HoldsLease(w, j) ==
  /\ worker[w].pc \in Executing
  /\ JobOf(w) = j
  /\ row[j].status = "running"
  /\ row[j].lease = worker[w].token

-----------------------------------------------------------------------------
\* The job state machine: JobRecord.

\* The code raises on any other transition: see LawfulTransitions.
Transitions ==
  [accepted   |-> {"queued", "failed"},
   queued     |-> {"running", "failed"},
   running    |-> {"succeeded", "failed", "retry_wait"},
   retry_wait |-> {"queued", "failed"},
   succeeded  |-> {},
   failed     |-> {}]

Transition(r, target) ==
  LET runs == target = "running"
  IN  [status  |-> target,
       attempt |-> IF runs THEN r.attempt + 1 ELSE r.attempt,
       lease   |-> IF runs THEN r.lease ELSE 0,
       expired |-> runs /\ r.expired]

Requeued(r) ==
  IF r.status = "retry_wait" THEN Transition(r, "queued") ELSE r

Started(r) ==
  IF r.status = "running"
  THEN [r EXCEPT !.attempt = r.attempt + 1]
  ELSE Transition(Requeued(r), "running")

\* Fault: a takeover keeps the token of the lapsed lease.
ClaimedUnderOldLease(r) ==
  [Started(r) EXCEPT !.lease = IF r.lease = 0 THEN r.attempt + 1 ELSE r.lease,
                     !.expired = FALSE]

Claimed(r) ==
  [Started(r) EXCEPT !.lease = r.attempt + 1, !.expired = FALSE]

\* Fault: finish asks only whether the row is still there.
LeaseUnchecked(r, token) == r.status \notin Absent

\* finish_claim accepts only the token of the lease now in force.
LeaseValid(r, token) == r.status = "running" /\ r.lease = token

-----------------------------------------------------------------------------
\* The API: JobService.accept, privacy deletion, result polling.

\* A request is accepted: the receipt route stores the image first, then job,
\* outbox event and idempotency key are committed in one transaction.
Accept(j) ==
  /\ row[j].status = "unused"
  /\ row' = [row EXCEPT ![j] = NoLease("accepted")]
  /\ outbox' = [outbox EXCEPT ![j] = "unpublished"]
  /\ image' = [image EXCEPT ![j] = IF Kind = "receipt" THEN "stored" ELSE @]
  /\ UNCHANGED <<redis, dispatcher, worker, result, budget>>

\* delete_subject removes every job of the owner; the outbox event follows by
\* ON DELETE CASCADE. Nothing in Redis is touched.
DeleteSubject(o) ==
  LET owned == {j \in Jobs : OwnerOf[j] = o /\ row[j].status \notin Absent}
  IN  /\ owned # {}
      /\ row' = [j \in Jobs |-> IF j \in owned THEN NoLease("deleted") ELSE row[j]]
      /\ outbox' = [j \in Jobs |-> IF j \in owned THEN "none" ELSE outbox[j]]
      /\ UNCHANGED <<redis, dispatcher, worker, stores, budget>>

\* The retention worker purges jobs whose completed_at is old enough.
PurgeJob(j) ==
  /\ row[j].status \in Terminal
  /\ row' = [row EXCEPT ![j] = NoLease("deleted")]
  /\ outbox' = [outbox EXCEPT ![j] = "none"]
  /\ UNCHANGED <<redis, dispatcher, worker, stores, budget>>

\* A poll of a succeeded receipt job consumes the result (GETDEL); the results
\* of the other kinds are read with GET, which changes nothing. That the row may
\* be removed between its read and the GETDEL adds nothing: the key of a removed
\* job can expire at any moment.
ReadResult(j) ==
  /\ Kind = "receipt"
  /\ row[j].status = "succeeded"
  /\ result[j].state = "ready"
  /\ result' = [result EXCEPT ![j].state = "gone"]
  /\ UNCHANGED <<database, redis, dispatcher, worker, image, budget>>

-----------------------------------------------------------------------------
\* The dispatcher: OutboxDispatcher.run_once.

ListUnpublished(d) ==
  LET found == {j \in Jobs : outbox[j] = "unpublished"}
  IN  /\ dispatcher[d].pc = "list"
      /\ found # {}
      /\ dispatcher' = [dispatcher EXCEPT
           ![d] = [pc |-> "publish", batch |-> found, job |-> NoJob]]
      /\ UNCHANGED <<database, redis, worker, stores, budget>>

\* XADD of the next record of the batch, whether or not it is still unpublished.
Publish(d, j) ==
  /\ dispatcher[d].pc = "publish"
  /\ j \in dispatcher[d].batch
  /\ stream' = Append(stream, j)
  /\ dispatcher' = [dispatcher EXCEPT
       ![d] = [pc |-> "mark", batch |-> @.batch \ {j}, job |-> j]]
  /\ UNCHANGED <<database, cursor, pending, idle, failed, worker, stores, budget>>

\* mark_published: a missing or already published event is skipped; otherwise
\* the event is stamped and an accepted job becomes queued.
MarkPublished(d) ==
  LET j == dispatcher[d].job
  IN  /\ dispatcher[d].pc = "mark"
      /\ IF outbox[j] = "unpublished"
         THEN /\ outbox' = [outbox EXCEPT ![j] = "published"]
              /\ row' = [row EXCEPT ![j] =
                   IF @.status = "accepted" THEN Transition(@, "queued") ELSE @]
         ELSE UNCHANGED database
      /\ dispatcher' = [dispatcher EXCEPT
           ![d].pc = IF dispatcher[d].batch = {} THEN "list" ELSE "publish",
           ![d].job = NoJob]
      /\ UNCHANGED <<redis, worker, stores, budget>>

-----------------------------------------------------------------------------
\* The queue: RedisJobQueue over one stream and one consumer group.

Reclaimable(m) == m \in idle /\ \A n \in idle : m <= n

\* XAUTOCLAIM: take over the oldest entry whose visibility timeout has passed.
Reclaim(w) ==
  /\ worker[w].pc = "consume"
  /\ \/ \E m \in idle :
          /\ Reclaimable(m)
          /\ idle' = idle \ {m}
          /\ worker' = [worker EXCEPT
               ![w] = [Polling("claim") EXCEPT !.entry = m]]
     \/ /\ idle = {}
        /\ worker' = [worker EXCEPT ![w] = Polling("read")]
        /\ UNCHANGED idle
  /\ UNCHANGED <<database, stream, cursor, pending, failed, dispatcher, stores,
                 budget>>

\* XREADGROUP ">": the next entry never handed out, or none within the block.
ReadGroup(w) ==
  /\ worker[w].pc = "read"
  /\ \/ /\ cursor < Len(stream)
        /\ cursor' = cursor + 1
        /\ pending' = pending \cup {cursor + 1}
        /\ worker' = [worker EXCEPT
             ![w] = [Polling("claim") EXCEPT !.entry = cursor + 1]]
     \/ /\ cursor = Len(stream)
        /\ worker' = [worker EXCEPT ![w] = Polling("consume")]
        /\ UNCHANGED <<cursor, pending>>
  /\ UNCHANGED <<database, stream, idle, failed, dispatcher, stores, budget>>

\* An entry stays pending longer than visibility_timeout_ms, which starts anew
\* whenever the entry is handed out.
VisibilityTimeout(m) ==
  /\ m \in pending \ idle
  /\ idle' = idle \cup {m}
  /\ UNCHANGED <<database, stream, cursor, pending, failed, dispatcher, worker,
                 stores, budget>>

-----------------------------------------------------------------------------
\* The worker: WorkerRuntime.run_once and _execute.

\* Fault: a lease in force does not protect the job.
BusyUntilQueued(r) == r.status = "accepted"

\* Fault: a message that overtook mark_published is not held back.
BusyWhileLeased(r) == r.status = "running" /\ ~r.expired

\* Fault: a lapsed lease still makes the job busy.
BusyForEver(r) == r.status \in {"accepted", "running"}

Busy(r) == r.status = "accepted" \/ (r.status = "running" /\ ~r.expired)

\* claim_for_work under the row lock, and the branch run_once takes on the
\* outcome: TERMINAL acknowledges, MISSING dead-letters, BUSY releases (which
\* leaves the entry pending), CLAIMED executes the handler.
ClaimForWork(w) ==
  LET j == JobOf(w)
      r == row[j]
  IN  /\ worker[w].pc = "claim"
      /\ \/ /\ r.status \in Absent
            /\ worker' = [worker EXCEPT ![w] = Holding(w, "dead_letter")]
            /\ UNCHANGED row
         \/ /\ r.status \in Terminal
            /\ worker' = [worker EXCEPT ![w] = Holding(w, "ack")]
            /\ UNCHANGED row
         \/ /\ Busy(r)
            /\ worker' = [worker EXCEPT ![w] = Polling("consume")]
            /\ UNCHANGED row
         \/ /\ r.status \in Live /\ ~Busy(r)
            /\ row' = [row EXCEPT ![j] = Claimed(r)]
            /\ worker' = [worker EXCEPT
                 ![w] = [Holding(w, IF Kind = "receipt" THEN "take" ELSE "produce")
                          EXCEPT !.token = Claimed(r).lease]]
      /\ UNCHANGED <<outbox, redis, dispatcher, stores, budget>>

\* Fault: the image is read with GET and stays in the store.
ReadImage(w) ==
  LET j == JobOf(w)
  IN  /\ worker[w].pc = "take"
      /\ worker' = [worker EXCEPT
           ![w] = Holding(w, IF image[j] = "stored" THEN "produce" ELSE "permanent")]
      /\ UNCHANGED <<database, redis, dispatcher, stores, budget>>

\* The receipt handler takes the image out of the ephemeral store (GETDEL). A
\* payload it cannot parse or a missing image is permanent; a store error is
\* transient, and may hide a GETDEL that did take effect.
TakeImage(w) ==
  LET j == JobOf(w)
  IN  /\ worker[w].pc = "take"
      /\ \/ /\ image[j] = "stored"
            /\ image' = [image EXCEPT ![j] = "gone"]
            /\ \E pc \in {"produce", "transient"} :
                 worker' = [worker EXCEPT ![w] = Holding(w, pc)]
         \/ /\ image[j] # "stored"
            /\ worker' = [worker EXCEPT ![w] = Holding(w, "permanent")]
            /\ UNCHANGED image
         \/ /\ \E pc \in {"permanent", "transient"} :
                 worker' = [worker EXCEPT ![w] = Holding(w, pc)]
            /\ UNCHANGED image
      /\ UNCHANGED <<database, redis, dispatcher, result, budget>>

\* Fault: the job is settled before its result is written.
ProduceAndSettle(w) ==
  /\ worker[w].pc = "produce"
  /\ worker' = [worker EXCEPT ![w] = Holding(w, "succeed")]
  /\ UNCHANGED <<database, redis, dispatcher, stores, budget>>

\* The provider, model or OCR engine answers or fails. A payload that does not
\* parse and some failures of the coach provider are permanent; any other
\* exception is retried.
Produce(w) ==
  /\ worker[w].pc = "produce"
  /\ \E pc \in {"put", "transient"}
               \cup (IF Kind = "receipt" THEN {} ELSE {"permanent"}) :
       worker' = [worker EXCEPT ![w] = Holding(w, pc)]
  /\ UNCHANGED <<database, redis, dispatcher, stores, budget>>

\* ResultWriter.put, unconditional: it asks neither for the lease nor for the
\* row. A store error is retried, and may hide a SET that did take effect.
PutResult(w) ==
  LET j == JobOf(w)
      written == [result EXCEPT ![j] = [state |-> "ready", by |-> worker[w].token]]
  IN  /\ worker[w].pc = "put"
      /\ \/ /\ result' = written
            /\ \E pc \in {"succeed", "transient"} :
                 worker' = [worker EXCEPT ![w] = Holding(w, pc)]
         \/ /\ worker' = [worker EXCEPT ![w] = Holding(w, "transient")]
            /\ UNCHANGED result
      /\ UNCHANGED <<database, redis, dispatcher, image, budget>>

\* Fault: the last attempt is retried once more.
SettlementOffByOne(pc, attempt) ==
  CASE pc = "succeed" -> [target |-> "succeeded", next |-> "ack"]
    [] pc = "transient" /\ attempt <= MaxAttempts ->
         [target |-> "retry_wait", next |-> "retry"]
    [] OTHER -> [target |-> "failed", next |-> "dead_letter"]

\* Fault: a job waiting for its retry is dead-lettered.
SettlementDeadLettersRetries(pc, attempt) ==
  CASE pc = "succeed" -> [target |-> "succeeded", next |-> "ack"]
    [] pc = "transient" /\ attempt < MaxAttempts ->
         [target |-> "retry_wait", next |-> "dead_letter"]
    [] OTHER -> [target |-> "failed", next |-> "dead_letter"]

\* What the outcome of the handler makes of the row, and the queue call that
\* follows. A transient error is retried while attempts are left.
Settlement(pc, attempt) ==
  CASE pc = "succeed" -> [target |-> "succeeded", next |-> "ack"]
    [] pc = "transient" /\ attempt < MaxAttempts ->
         [target |-> "retry_wait", next |-> "retry"]
    [] OTHER -> [target |-> "failed", next |-> "dead_letter"]

\* repository.finish. The attempt compared with max_attempts is that of the job
\* as it was claimed, i.e. the token. A lost lease or a deleted row raises out
\* of run_once: the process ends and the supervisor starts it again.
Finish(w) ==
  LET j == JobOf(w)
      s == Settlement(worker[w].pc, worker[w].token)
  IN  /\ worker[w].pc \in {"succeed", "permanent", "transient"}
      /\ IF LeaseValid(row[j], worker[w].token)
         THEN /\ row' = [row EXCEPT ![j] = Transition(@, s.target)]
              /\ worker' = [worker EXCEPT ![w] = Holding(w, s.next)]
         ELSE /\ worker' = [worker EXCEPT ![w] = Polling("consume")]
              /\ UNCHANGED row
      /\ UNCHANGED <<outbox, redis, dispatcher, stores, budget>>

\* XACK, whoever was handed the entry last.
Acknowledge(w) ==
  /\ pending' = pending \ {worker[w].entry}
  /\ idle' = idle \ {worker[w].entry}
  /\ worker' = [worker EXCEPT ![w] = Polling("consume")]
  /\ UNCHANGED <<database, cursor, dispatcher, stores, budget>>

\* Fault: a settled job is reported without XACK.
ForgetAck(w) ==
  /\ worker[w].pc = "ack"
  /\ worker' = [worker EXCEPT ![w] = Polling("consume")]
  /\ UNCHANGED <<database, redis, dispatcher, stores, budget>>

Ack(w) ==
  /\ worker[w].pc = "ack"
  /\ Acknowledge(w)
  /\ UNCHANGED <<stream, failed>>

\* Fault: the entry is acknowledged but not added again.
RetryByAck(w) ==
  /\ worker[w].pc = "retry"
  /\ Acknowledge(w)
  /\ UNCHANGED <<stream, failed>>

\* MULTI: add the message again, acknowledge this copy.
Retry(w) ==
  /\ worker[w].pc = "retry"
  /\ stream' = Append(stream, JobOf(w))
  /\ Acknowledge(w)
  /\ UNCHANGED failed

\* MULTI: add the message to the failed stream, acknowledge this copy.
DeadLetter(w) ==
  /\ worker[w].pc = "dead_letter"
  /\ failed' = failed \cup {JobOf(w)}
  /\ Acknowledge(w)
  /\ UNCHANGED stream

-----------------------------------------------------------------------------
\* Time and faults.

\* lease_expires_at passes after the holder is gone ...
LeaseLapses(j) ==
  /\ row[j].status = "running" /\ ~row[j].expired
  /\ \A w \in Workers : ~HoldsLease(w, j)
  /\ row' = [row EXCEPT ![j].expired = TRUE]
  /\ UNCHANGED <<outbox, redis, dispatcher, worker, stores, budget>>

\* ... or while the holder is still at work (slow provider, paused process).
LeaseOverrun(j) ==
  /\ overruns < MaxOverruns
  /\ row[j].status = "running" /\ ~row[j].expired
  /\ \E w \in Workers : HoldsLease(w, j)
  /\ row' = [row EXCEPT ![j].expired = TRUE]
  /\ overruns' = overruns + 1
  /\ UNCHANGED <<outbox, redis, dispatcher, worker, stores, crashes>>

ImageExpires(j) ==
  /\ image[j] = "stored"
  /\ image' = [image EXCEPT ![j] = "gone"]
  /\ UNCHANGED <<database, redis, dispatcher, worker, result, budget>>

ResultExpires(j) ==
  /\ result[j].state = "ready"
  /\ result' = [result EXCEPT ![j].state = "gone"]
  /\ UNCHANGED <<database, redis, dispatcher, worker, image, budget>>

\* A process is killed, or an error of PostgreSQL or Redis ends it, between any
\* two of its steps; its local state is lost and a fresh process replaces it.
CrashWorker(w) ==
  /\ crashes < MaxCrashes
  /\ worker[w].pc \notin {"consume", "read"}
  /\ crashes' = crashes + 1
  /\ worker' = [worker EXCEPT ![w] = Polling("consume")]
  /\ UNCHANGED <<database, redis, dispatcher, stores, overruns>>

CrashDispatcher(d) ==
  /\ crashes < MaxCrashes
  /\ dispatcher[d].pc # "list"
  /\ crashes' = crashes + 1
  /\ dispatcher' = [dispatcher EXCEPT
       ![d] = [pc |-> "list", batch |-> {}, job |-> NoJob]]
  /\ UNCHANGED <<database, redis, worker, stores, overruns>>

-----------------------------------------------------------------------------
Init ==
  /\ row = [j \in Jobs |-> NoLease("unused")]
  /\ outbox = [j \in Jobs |-> "none"]
  /\ stream = <<>>
  /\ cursor = 0
  /\ pending = {}
  /\ idle = {}
  /\ failed = {}
  /\ dispatcher = [d \in Dispatchers |->
                     [pc |-> "list", batch |-> {}, job |-> NoJob]]
  /\ worker = [w \in Workers |-> Polling("consume")]
  /\ image = [j \in Jobs |-> "none"]
  /\ result = [j \in Jobs |-> NoResult]
  /\ crashes = 0
  /\ overruns = 0

DispatcherStep(d) ==
  \/ ListUnpublished(d)
  \/ \E j \in Jobs : Publish(d, j)
  \/ MarkPublished(d)

Consume(w) == Reclaim(w) \/ ReadGroup(w)
Handle(w) == TakeImage(w) \/ Produce(w) \/ PutResult(w)
Respond(w) == Ack(w) \/ Retry(w) \/ DeadLetter(w)
WorkerStep(w) ==
  Consume(w) \/ ClaimForWork(w) \/ Handle(w) \/ Finish(w) \/ Respond(w)

Next ==
  \/ \E j \in Jobs :
       \/ Accept(j)
       \/ PurgeJob(j)
       \/ ReadResult(j)
       \/ LeaseLapses(j)
       \/ LeaseOverrun(j)
       \/ ImageExpires(j)
       \/ ResultExpires(j)
  \/ \E o \in Owners : DeleteSubject(o)
  \/ \E d \in Dispatchers : DispatcherStep(d) \/ CrashDispatcher(d)
  \/ \E w \in Workers : WorkerStep(w) \/ CrashWorker(w)
  \/ \E m \in pending : VisibilityTimeout(m)

Spec == Init /\ [][Next]_vars

\* A running process keeps taking steps (the handlers bound every call to a
\* provider with a timeout, the supervisor restarts an ended process), and the
\* clock moves on: a lease whose holder is gone lapses, a pending entry becomes
\* reclaimable. No request, deletion, expiry, overrun or crash need happen.
MaxEntries ==
  Cardinality(Jobs) * (Cardinality(Dispatchers) + MaxCrashes + MaxAttempts - 1)

FairSpec ==
  /\ Spec
  /\ \A d \in Dispatchers : WF_vars(DispatcherStep(d))
  /\ \A w \in Workers : WF_vars(WorkerStep(w))
  /\ \A j \in Jobs : WF_vars(LeaseLapses(j))
  /\ \A m \in 1..MaxEntries : WF_vars(VisibilityTimeout(m))

-----------------------------------------------------------------------------
\* Properties.

Outstanding(m) == m > cursor \/ m \in pending

Rows ==
  [status : Live \cup Terminal \cup Absent, attempt : Nat, lease : Nat,
   expired : BOOLEAN]
DispatcherStates ==
  [pc : {"list", "publish", "mark"}, batch : SUBSET Jobs, job : Jobs \cup {NoJob}]
WorkerStates ==
  [pc : {"consume", "read"} \cup Handling, entry : Nat, token : Nat]

DatabaseType ==
  /\ row \in [Jobs -> Rows]
  /\ outbox \in [Jobs -> {"none", "unpublished", "published"}]
QueueType ==
  /\ stream \in Seq(Jobs)
  /\ cursor \in 0..Len(stream)
  /\ pending \subseteq 1..cursor
  /\ idle \subseteq pending
  /\ failed \subseteq Jobs
DispatcherType == dispatcher \in [Dispatchers -> DispatcherStates]
WorkerType ==
  /\ worker \in [Workers -> WorkerStates]
  /\ \A w \in Workers :
       /\ worker[w].entry \in 0..cursor
       /\ worker[w].pc \in Handling => worker[w].entry > 0
StoreType ==
  /\ image \in [Jobs -> {"none", "stored", "gone"}]
  /\ result \in [Jobs -> [state : {"none", "ready", "gone"}, by : Nat]]
BudgetType == crashes \in Nat /\ overruns \in Nat

\* Every variable has the shape the code gives it, and a worker at work holds an
\* entry that was handed out.
TypeOK ==
  /\ DatabaseType
  /\ QueueType
  /\ DispatcherType
  /\ WorkerType
  /\ StoreType
  /\ BudgetType

\* Some message for the job is still to be handled.
Covered(j) == \E m \in 1..Len(stream) : stream[m] = j /\ Outstanding(m)

\* No job is lost: while a job is neither settled nor removed, its outbox event
\* still waits to be published or some message for it is still to be handled,
\* whatever crashes, duplicates and foreign acknowledgements did to the others.
NoJobLost ==
  \A j \in Jobs :
    row[j].status \in Live => outbox[j] = "unpublished" \/ Covered(j)

\* At most one worker may settle a job: after a takeover the former holder,
\* which still runs its handler, holds a token finish_claim rejects.
LeaseExclusive ==
  \A j \in Jobs : \A v, w \in Workers :
    HoldsLease(v, j) /\ HoldsLease(w, j) => v = w

\* A job that reports success has had its result written (it may have expired or
\* been consumed since): a poll never finds a success that had no result.
SuccessHasResult ==
  \A j \in Jobs : row[j].status = "succeeded" => result[j].state # "none"

\* The receipt photograph of a succeeded job is no longer in the store.
SuccessErasesImage ==
  \A j \in Jobs :
    Kind = "receipt" /\ row[j].status = "succeeded" => image[j] = "gone"

\* Only jobs that failed or were removed are ever on the failed stream.
DeadLetterMeansFailed ==
  \A j \in failed : row[j].status \in {"failed", "deleted"}

\* Attempts beyond max_attempts come only from leases that were taken over, one
\* for each crash or overrun: claim itself never compares with the limit.
AttemptsBounded ==
  \A j \in Jobs : row[j].attempt <= MaxAttempts + crashes + overruns

\* The result a succeeded job shows was written by the attempt that settled it.
ResultFromWinner ==
  \A j \in Jobs :
    row[j].status = "succeeded" /\ result[j].state = "ready"
      => result[j].by = row[j].attempt

\* The job state machine is never asked for a transition it refuses: the error
\* would abort the claim or the mark_published of a message that came too early,
\* too late or twice. A claim passes from retry_wait through queued.
LawfulTransitions ==
  [][\A j \in Jobs :
       LET from == row[j].status
           to == row'[j].status
       IN  from # to /\ {from, to} \cap Absent = {} =>
             \/ to \in Transitions[from]
             \/ from = "retry_wait" /\ to \in Transitions["queued"]]_vars

\* A lease in force is never given to another worker.
LeaseRespected ==
  [][\A j \in Jobs :
       row[j].status = "running" /\ ~row[j].expired /\ row'[j].status = "running"
         => row'[j].lease = row[j].lease]_vars

\* The result of a receipt job is written once: after a poll consumed it or it
\* expired, no late or repeated attempt brings it back.
ReceiptResultOnce ==
  [][\A j \in Jobs :
       Kind = "receipt" /\ result[j].state # "none"
         => result'[j] \in {result[j], [result[j] EXCEPT !.state = "gone"]}]_vars

\* No entry is redelivered for ever: it is acknowledged in the end.
EntryDrains ==
  \A m \in 1..MaxEntries : m \in pending ~> m \notin pending

\* A job that failed permanently reaches the failed stream.
FailureIsDeadLettered ==
  \A j \in Jobs : row[j].status = "failed" ~> j \in failed

\* The inductive invariant of the proofs, in named parts.

\* Whatever names a job names one that was accepted; a removed job has no event.
OnlyKnownJobs ==
  /\ \A m \in 1..Len(stream) : row[stream[m]].status # "unused"
  /\ \A d \in Dispatchers :
       /\ \A j \in dispatcher[d].batch : row[j].status # "unused"
       /\ dispatcher[d].pc = "mark" =>
            /\ dispatcher[d].job \in Jobs
            /\ row[dispatcher[d].job].status # "unused"
  /\ \A j \in Jobs : row[j].status \in Absent => outbox[j] = "none"

\* The event is stamped only after the message was added, and the message is
\* taken off the stream only once the job needs it no more.
PublishedBeforeMarked ==
  \A d \in Dispatchers :
    dispatcher[d].pc = "mark" /\ row[dispatcher[d].job].status \in Live
      => Covered(dispatcher[d].job)
AnswerFollowsRow ==
  \A w \in Workers :
    /\ worker[w].pc = "ack" => row[JobOf(w)].status \in Terminal \cup {"deleted"}
    /\ worker[w].pc = "dead_letter" => row[JobOf(w)].status \in {"failed", "deleted"}

\* Every claim of a job is numbered by the attempt it starts.
TokensAreAttempts ==
  /\ \A j \in Jobs : row[j].status = "running" => row[j].lease = row[j].attempt
  /\ \A w \in Workers :
       worker[w].pc \in Executing /\ row[JobOf(w)].status # "deleted"
         => worker[w].token \in 1..row[JobOf(w)].attempt
TokensDiffer ==
  \A v, w \in Workers :
    /\ v # w
    /\ worker[v].pc \in Executing /\ worker[w].pc \in Executing
    /\ JobOf(v) = JobOf(w)
    /\ row[JobOf(w)].status # "deleted"
    => worker[v].token # worker[w].token

WrittenBeforeSettled ==
  \A w \in Workers : worker[w].pc = "succeed" => result[JobOf(w)].state # "none"

\* A lease without a holder, or one that has lapsed, was paid for by a crash or
\* an overrun that no attempt has used yet.
AttemptsPaidFor ==
  \A j \in Jobs :
    /\ row[j].status \in {"accepted", "queued", "retry_wait"}
         => row[j].attempt < MaxAttempts
    /\ row[j].status = "running"
         /\ (row[j].expired \/ \A w \in Workers : ~HoldsLease(w, j))
         => row[j].attempt < MaxAttempts + crashes + overruns

Inductive ==
  /\ TypeOK
  /\ OnlyKnownJobs
  /\ NoJobLost
  /\ PublishedBeforeMarked
  /\ AnswerFollowsRow
  /\ DeadLetterMeansFailed
  /\ TokensAreAttempts
  /\ TokensDiffer
  /\ WrittenBeforeSettled
  /\ SuccessHasResult
  /\ AttemptsPaidFor
  /\ AttemptsBounded

\* The photograph of a receipt job is taken out of the store at most once, so at
\* most one attempt ever makes a result of it: once an attempt is past the take,
\* the image is gone, no other attempt is past it, and until it calls put there is
\* no result.
Reading(w) == worker[w].pc \in {"produce", "put", "succeed"}
TakenOnce ==
  /\ \A j \in Jobs :
       /\ row[j].status = "unused" => image[j] = "none"
       /\ result[j].state # "none" => image[j] = "gone"
  /\ \A w \in Workers :
       /\ Reading(w) => image[JobOf(w)] = "gone"
       /\ worker[w].pc \in {"produce", "put"} => result[JobOf(w)].state = "none"
       /\ worker[w].pc = "succeed" => result[JobOf(w)].by = worker[w].token
  /\ \A v, w \in Workers :
       Reading(v) /\ Reading(w) /\ JobOf(v) = JobOf(w) => v = w

ReceiptInv ==
  Kind = "receipt" => TakenOnce /\ SuccessErasesImage /\ ResultFromWinner

\* The pipeline implements the contract: accepted, queued, running and
\* retry_wait all show as pending.
Phase(status) ==
  CASE status = "unused" -> "none"
    [] status \in Live -> "pending"
    [] status = "deleted" -> "gone"
    [] OTHER -> status

Contract == INSTANCE JobContract
              WITH phase <- [j \in Jobs |-> Phase(row[j].status)]
ContractSafe == Contract!SafeSpec
ContractSpec == Contract!Spec
=============================================================================
