---------------------------- MODULE LocalExecution ----------------------------
\* The job runtime of the local mode (infrastructure/local_execution.py): jobs,
\* images and results live in the memory of the API process, and every job is an
\* asyncio task of it. No lock of the runtime is ever held across an await, so
\* what runs between two real waits (the provider's answer, the OCR thread) is
\* one step.
EXTENDS Tables, Naturals

CONSTANTS
  LocalOwners,    \* subjects
  LocalKinds,     \* enabled_job_kinds: coach, and receipt when OCR is installed
  LocalKeys,      \* values of the Idempotency-Key header
  LocalPayloads,  \* coach queries
  MaxLocalJobs,   \* bound: jobs created, over all lives of the process
  MaxLocalImages  \* bound: images uploaded

ASSUME LocalAssumption ==
  /\ LocalKinds \subseteq {"coach", "receipt"}
  /\ MaxLocalJobs \in Nat /\ MaxLocalImages \in Nat

VARIABLES
  localJobs,     \* _jobs: job id -> record
  localKeys,     \* _idempotency: slot -> record
  localTasks,    \* _tasks: job id -> where its task stands
  localImages,   \* LocalReceiptStore: references of stored images
  localResults,  \* LocalResultStore: ids of jobs with a result
  drawn          \* how many job ids and references were drawn

localVars == <<localJobs, localKeys, localTasks, localImages, localResults, drawn>>

\* JobService.accept on this repository and the start of the task, without a
\* wait in between: a known key leads to its job or to a conflict, and starts
\* nothing; a new job is queued and its task created.
AcceptLocal(slot, payload, image) ==
  /\ IF slot \in DOMAIN localKeys
     THEN /\ drawn' = [drawn EXCEPT !.image = image]
          /\ UNCHANGED <<localJobs, localKeys, localTasks>>
     ELSE LET j == drawn.job + 1
          IN /\ j <= MaxLocalJobs
             /\ drawn' = [job |-> j, image |-> image]
             /\ localJobs' = With(localJobs, j, [owner |-> slot[1], kind |-> slot[2],
                                                 payload |-> payload, status |-> "queued"])
             /\ localKeys' = With(localKeys, slot, [payload |-> payload, job |-> j])
             /\ localTasks' = With(localTasks, j, "created")
  /\ UNCHANGED localResults

SubmitLocal(s, key, payload) ==
  /\ "coach" \in LocalKinds
  /\ AcceptLocal(<<s, "coach", key>>, payload, drawn.image)
  /\ UNCHANGED localImages

\* The receipt route stores the image under a new reference, which is the
\* payload, and then accepts.
UploadLocal(s, key) ==
  /\ "receipt" \in LocalKinds
  /\ drawn.image < MaxLocalImages
  /\ AcceptLocal(<<s, "receipt", key>>, drawn.image + 1, drawn.image + 1)
  /\ localImages' = localImages \union {drawn.image + 1}

Settled(j, status) == [localJobs EXCEPT ![j].status = status]

\* _run up to its first wait: the job runs, the image of a receipt is taken; a
\* receipt without image fails.
RunLocal(j) ==
  /\ localTasks[j] = "created"
  /\ IF localJobs[j].kind = "receipt" /\ localJobs[j].payload \notin localImages
     THEN localJobs' = Settled(j, "failed") /\ localTasks' = [localTasks EXCEPT ![j] = "done"]
     ELSE localJobs' = Settled(j, "running") /\ localTasks' = [localTasks EXCEPT ![j] = "working"]
  /\ localImages' = IF localJobs[j].kind = "receipt" THEN localImages \ {localJobs[j].payload}
                    ELSE localImages
  /\ UNCHANGED <<localKeys, localResults, drawn>>

\* Mutant: the task may settle its job again.
FinishLocalTwice(j) ==
  /\ localTasks[j] = "working"
  /\ \/ localJobs' = Settled(j, "succeeded") /\ localResults' = localResults \union {j}
     \/ localJobs' = Settled(j, "failed") /\ UNCHANGED localResults
  /\ UNCHANGED <<localKeys, localTasks, localImages, drawn>>

\* Mutant: an exception ends the task and is not caught.
FinishLocalUncaught(j) ==
  /\ localTasks[j] = "working"
  /\ \/ localJobs' = Settled(j, "succeeded") /\ localResults' = localResults \union {j}
     \/ UNCHANGED <<localJobs, localResults>>
  /\ localTasks' = [localTasks EXCEPT ![j] = "done"]
  /\ UNCHANGED <<localKeys, localImages, drawn>>

\* The answer or the recognised receipt is stored and the job succeeds, or any
\* exception fails it.
FinishLocal(j) ==
  /\ localTasks[j] = "working"
  /\ \/ localJobs' = Settled(j, "succeeded") /\ localResults' = localResults \union {j}
     \/ localJobs' = Settled(j, "failed") /\ UNCHANGED localResults
  /\ localTasks' = [localTasks EXCEPT ![j] = "done"]
  /\ UNCHANGED <<localKeys, localImages, drawn>>

\* The process ends, by close() (the requests have ended: tasks are cancelled,
\* then everything is cleared) or by a crash, and starts again.
RestartLocal ==
  /\ localJobs' = << >> /\ localKeys' = << >> /\ localTasks' = << >>
  /\ localImages' = {} /\ localResults' = {}
  /\ UNCHANGED drawn

LocalInit ==
  /\ localJobs = << >> /\ localKeys = << >> /\ localTasks = << >>
  /\ localImages = {} /\ localResults = {}
  /\ drawn = [job |-> 0, image |-> 0]

LocalNext ==
  \/ \E s \in LocalOwners, key \in LocalKeys :
       (\E payload \in LocalPayloads : SubmitLocal(s, key, payload)) \/ UploadLocal(s, key)
  \/ \E j \in DOMAIN localTasks : RunLocal(j) \/ FinishLocal(j)
  \/ RestartLocal

LocalSpec == LocalInit /\ [][LocalNext]_localVars

\* The event loop goes on with every task that is ready, and what a task waits
\* for ends: the provider is called with a timeout (gemini_adapter.py), the
\* recognition runs in a thread of its own. Nothing obliges the process to end.
TaskStep(j) == j \in DOMAIN localTasks /\ (RunLocal(j) \/ FinishLocal(j))

LocalFairness == \A j \in 1 .. MaxLocalJobs : WF_localVars(TaskStep(j))

-----------------------------------------------------------------------------
\* Types: every job has its task, every key leads to a job (_jobs, _tasks,
\* _idempotency).
LocalTypeOK ==
  /\ drawn.job \in 0 .. MaxLocalJobs /\ drawn.image \in 0 .. MaxLocalImages
  /\ DOMAIN localJobs = DOMAIN localTasks
  /\ \A slot \in DOMAIN localKeys : localKeys[slot].job \in DOMAIN localJobs
  /\ localImages \subseteq 1 .. drawn.image

\* What get shows of a job: a success has its result; nothing of a restart
\* stays. The same promise as the one JobPipeline keeps.
Shown(j) ==
  CASE j > drawn.job -> "none"
    [] j <= drawn.job /\ j \notin DOMAIN localJobs -> "gone"
    [] j \in DOMAIN localJobs ->
         CASE localJobs[j].status \in {"queued", "running"} -> "pending"
           [] localJobs[j].status = "succeeded" ->
                IF j \in localResults THEN "succeeded" ELSE "expired"
           [] localJobs[j].status = "failed" -> "failed"

LocalPhase == [j \in 1 .. MaxLocalJobs |-> Shown(j)]

Promise == INSTANCE JobContract WITH Jobs <- 1 .. MaxLocalJobs, phase <- LocalPhase

\* A job of the local mode is pending until it succeeds with a result or fails,
\* once, and that verdict stands until the process ends, through retries of the
\* request and through uploads that conflict.
LocalContract == Promise!SafeSpec

\* And the verdict comes: no accepted job of a process that goes on stays pending
\* for ever, whatever its provider does (_run).
LocalJobsSettle == Promise!Spec
=============================================================================
