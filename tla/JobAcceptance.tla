---------------------------- MODULE JobAcceptance ----------------------------
\* Acceptance of jobs under idempotency keys (jobs/service.py, the accepting
\* side of infrastructure/job_repository.py, api/routes) and the retention
\* passes that remove keys and finished jobs (workers/retention.py,
\* infrastructure/privacy_repository.py). What becomes of an accepted job is the
\* subject of JobPipeline; here it only finishes at some time.
EXTENDS SubjectTime, FiniteSets, Functions

CONSTANTS
  QueuedKinds,     \* kinds whose request body is the payload: coach, forecast
  Keys,            \* values of the Idempotency-Key header
  Payloads,        \* bodies of coach and forecast requests
  Contents,        \* images a client may upload
  ForbiddenKeys,   \* privacy/policy.py: keys no payload may carry
  MaxDepth,        \*   and the depth no payload may exceed
  IdempotencyTTL,  \* retention settings
  JobTTL,
  ImageTTL,        \* time to live of an uploaded image
  BatchSize,       \* rows one purge statement removes
  MaxJobs,         \* bound: jobs created
  MaxUploads,      \* bound: images stored
  Calls            \* requests that may be under way at once

\* 24 hours and 7 days by default; the settings allow either order.
ASSUME RetentionAssumption == IdempotencyTTL \in Nat \ {0} /\ JobTTL \in Nat \ {0}
ASSUME BatchAssumption == BatchSize \in Nat \ {0}

VARIABLES
  jobs,        \* table jobs: job id -> row
  keys,        \* table idempotency_keys: slot -> row
  images,      \* ephemeral receipt store: reference -> when it lapses
  call,        \* requests under way
  accepted,    \* history: the jobs that clients were told of, by slot
  pass,        \* the running retention pass
  ids          \* how many job ids and image references were drawn

acceptanceVars == <<jobs, keys, images, call, accepted, pass, ids>>

-----------------------------------------------------------------------------
\* A payload is the set of its members, each with its key and its depth.
Unsafe(payload) ==
  \E member \in payload : member.depth > MaxDepth \/ member.key \in ForbiddenKeys

\* The fields that are hashed to the primary key of idempotency_keys.
Slot(owner, kind, key) == <<owner, kind, key>>
Owner(slot) == slot[1]

NoCall == [stage |-> "none"]

\* A pass: the class it is at, when it began, the candidates of the statement
\* under way, and the classes it left on a count that a deletion had shortened
\* (history).
Rest == [class |-> "none", at |-> 0, stage |-> "none", batch |-> {}, cut |-> {}]

Told(slot, key) ==
  [slot |-> slot, payload |-> key.payload, job |-> key.job, created |-> key.created]

\* A coach or forecast request whose payload passed JobService's inspection.
Submit(c, s, kind, key, payload) ==
  /\ call[c] = NoCall
  /\ ~Unsafe(payload)
  /\ call' = [call EXCEPT ![c] = [stage |-> "submitted", slot |-> Slot(s, kind, key),
                                  payload |-> payload, content |-> payload]]
  /\ UNCHANGED <<jobs, keys, images, accepted, pass, ids>>

\* A receipt: its image is stored under a reference drawn for this upload, and
\* the reference is the payload of the job.
Upload(c, s, key, content) ==
  /\ call[c] = NoCall
  /\ ids.image < MaxUploads
  /\ ids' = [ids EXCEPT !.image = @ + 1]
  /\ images' = With(images, ids'.image, now + ImageTTL)
  /\ call' = [call EXCEPT ![c] = [stage |-> "submitted", slot |-> Slot(s, "receipt", key),
                                  payload |-> ids'.image, content |-> content]]
  /\ UNCHANGED <<jobs, keys, accepted, pass>>

\* _create_once under the lock of the subject: the job, its outbox event and
\* the key are written together.
Create(c) ==
  LET a == call[c]
      row == [payload |-> a.payload, job |-> ids.job + 1, created |-> now]
  IN /\ a.stage = "submitted"
     /\ a.slot \notin DOMAIN keys
     /\ ids.job < MaxJobs
     /\ ids' = [ids EXCEPT !.job = @ + 1]
     /\ jobs' = With(jobs, ids'.job, [owner |-> Owner(a.slot), kind |-> a.slot[2],
                                     payload |-> a.payload, created |-> now, completed |-> 0])
     /\ keys' = With(keys, a.slot, row)
     /\ accepted' = accepted \union {Told(a.slot, row)}
     /\ call' = [call EXCEPT ![c] = NoCall]
     /\ UNCHANGED <<images, pass>>

\* _create_once finds the key: another payload is a conflict, the same payload
\* leads to a second read, of the job.
FindKey(c) ==
  LET a == call[c]
  IN /\ a.stage = "submitted"
     /\ a.slot \in DOMAIN keys
     /\ call' = [call EXCEPT ![c] =
          IF keys[a.slot].payload # a.payload THEN NoCall
          ELSE [stage |-> "found", slot |-> a.slot, key |-> keys[a.slot]]]
     /\ UNCHANGED <<jobs, keys, images, accepted, pass, ids>>

\* _resolve_existing reads the job of the key; it breaks when the job was
\* removed since the key was read, for the purge takes no subject lock.
ReadJob(c) ==
  LET a == call[c]
  IN /\ a.stage = "found"
     /\ accepted' = IF a.key.job \in DOMAIN jobs
                    THEN accepted \union {Told(a.slot, a.key)} ELSE accepted
     /\ call' = [call EXCEPT ![c] = NoCall]
     /\ UNCHANGED <<jobs, keys, images, pass, ids>>

\* A job reaches a terminal status (JobPipeline); a receipt's image is taken.
FinishJob(j) ==
  /\ jobs[j].completed = 0
  /\ jobs' = [jobs EXCEPT ![j].completed = now]
  /\ images' = IF jobs[j].kind = "receipt"
               THEN Restrict(images, DOMAIN images \ {jobs[j].payload}) ELSE images
  /\ UNCHANGED <<keys, call, accepted, pass, ids>>

-----------------------------------------------------------------------------
\* Mutant: the keys stay behind.
RemoveJobsOnly(gone) ==
  /\ jobs' = Restrict(jobs, DOMAIN jobs \ gone)
  /\ UNCHANGED keys

\* Removing jobs removes their keys: the foreign key cascades.
RemoveJobs(gone) ==
  /\ jobs' = Restrict(jobs, DOMAIN jobs \ gone)
  /\ keys' = Restrict(keys, {k \in DOMAIN keys : keys[k].job \notin gone})

\* Mutant: a job that has not completed counts as completed long ago.
ExpiredUnfinished(class) ==
  CASE class = "idempotency"  -> {k \in DOMAIN keys : keys[k].created + IdempotencyTTL <= pass.at}
    [] class = "job_metadata" -> {j \in DOMAIN jobs : jobs[j].completed + JobTTL <= pass.at}

\* What a purge statement selects from: expired when the pass began.
Expired(class) ==
  CASE class = "idempotency"  -> {k \in DOMAIN keys : keys[k].created + IdempotencyTTL <= pass.at}
    [] class = "job_metadata" -> {j \in DOMAIN jobs : /\ jobs[j].completed # 0
                                                      /\ jobs[j].completed + JobTTL <= pass.at}

Age(class, row) ==
  IF class = "idempotency" THEN keys[row].created ELSE jobs[row].completed

\* ORDER BY ... LIMIT: the oldest rows, as many as a statement removes.
Batches(class) ==
  {b \in SUBSET Expired(class) :
     /\ \/ Cardinality(b) = BatchSize
        \/ Cardinality(b) < BatchSize /\ b = Expired(class)
     /\ \A row \in b, other \in Expired(class) \ b : Age(class, row) <= Age(class, other)}

\* RetentionWorker.run takes the time once for all classes.
StartPass ==
  /\ pass = Rest
  /\ pass' = [Rest EXCEPT !.class = "idempotency", !.at = now, !.stage = "select"]
  /\ UNCHANGED <<jobs, keys, images, call, accepted, ids>>

\* DELETE ... IN (SELECT ... LIMIT n): the candidates are those of the snapshot
\* that the statement begins with; then it waits for their locks.
SelectBatch ==
  /\ pass.stage = "select"
  /\ \E batch \in Batches(pass.class) :
       pass' = [pass EXCEPT !.stage = "delete", !.batch = batch]
  /\ UNCHANGED <<jobs, keys, images, call, accepted, ids>>

\* Mutant: whatever has the name of a candidate is removed.
TakenByName ==
  pass.batch \intersect IF pass.class = "idempotency" THEN DOMAIN keys ELSE DOMAIN jobs

\* The candidates that are still there. A key that was written since under the
\* name of a deleted one is another row, and has not expired.
Taken == pass.batch \intersect Expired(pass.class)

\* The classes left on a shortened count, once the statement under way ends one.
Cut == IF Taken = pass.batch THEN pass.cut ELSE pass.cut \union {pass.class}

RemoveTaken ==
  IF pass.class = "idempotency"
  THEN keys' = Restrict(keys, DOMAIN keys \ Taken) /\ UNCHANGED jobs
  ELSE RemoveJobs(Taken)

NextStatement == [pass EXCEPT !.stage = "select", !.batch = {}]
NextClass ==
  IF pass.class = "idempotency"
  THEN [NextStatement EXCEPT !.class = "job_metadata", !.cut = Cut] ELSE Rest

\* Mutant: the loop asks for another batch after every batch.
PurgeAlways ==
  /\ pass.stage = "delete"
  /\ RemoveTaken
  /\ pass' = NextStatement
  /\ UNCHANGED <<images, call, accepted, ids>>

\* Mutant: one batch of each class.
PurgeOnce ==
  /\ pass.stage = "delete"
  /\ RemoveTaken
  /\ pass' = NextClass
  /\ UNCHANGED <<images, call, accepted, ids>>

\* The statement commits: a count of batch_size is followed by another
\* statement, a lower one by the next class (_DATABASE_CLASSES).
Purge ==
  /\ pass.stage = "delete"
  /\ RemoveTaken
  /\ pass' = IF Cardinality(Taken) < BatchSize THEN NextClass ELSE NextStatement
  /\ UNCHANGED <<images, call, accepted, ids>>

\* The database fails a statement: the process ends and starts again later.
PassFails ==
  /\ pass # Rest
  /\ pass' = Rest
  /\ UNCHANGED <<jobs, keys, images, call, accepted, ids>>

AcceptanceInit ==
  /\ jobs = << >> /\ keys = << >> /\ images = << >>
  /\ call = [c \in Calls |-> NoCall]
  /\ accepted = {}
  /\ pass = Rest
  /\ ids = [job |-> 0, image |-> 0]

AcceptanceNext ==
  \/ \E c \in Calls, s \in Subjects, kind \in QueuedKinds, key \in Keys, p \in Payloads :
       Submit(c, s, kind, key, p)
  \/ \E c \in Calls, s \in Subjects, key \in Keys, image \in Contents : Upload(c, s, key, image)
  \/ \E c \in Calls : Create(c) \/ FindKey(c) \/ ReadJob(c)
  \/ \E j \in DOMAIN jobs : FinishJob(j)
  \/ StartPass
  \/ SelectBatch
  \/ Purge
  \/ PassFails

\* The retention process goes on until it fails or is done (retention_main.py).
RetentionFairness == WF_acceptanceVars(SelectBatch \/ Purge)

-----------------------------------------------------------------------------
\* Types; and the foreign keys of the tables: a key leads to a job of the same
\* owner (infrastructure/tables.py).
AcceptanceTypeOK ==
  /\ \A j \in DOMAIN jobs : j \in 1 .. ids.job /\ jobs[j].owner \in Subjects
  /\ \A k \in DOMAIN keys : keys[k].job \in DOMAIN jobs /\ Owner(k) = jobs[keys[k].job].owner
  /\ DOMAIN images \subseteq 1 .. ids.image
  /\ \A c \in Calls : call[c].stage \in {"none", "submitted", "found"}
  /\ pass.class \in {"none", "idempotency", "job_metadata"} /\ pass.at <= now
  /\ pass.stage \in {"none", "select", "delete"}

\* While the key lives, a client that was told of a job is told of the same job
\* by every retry of the request, whatever is purged meanwhile: the key still
\* leads to the job and the job is still there. Settings that keep jobs for a
\* shorter time than keys end this earlier, but not before the job is JobTTL
\* old, and never by halves: no retry starts a second job beside the first.
\* Deleting the subject's data ends the promise (history is then dropped).
RetryKeepsJob ==
  \A a \in accepted :
    now < a.created + IdempotencyTTL =>
      \/ /\ a.slot \in DOMAIN keys
         /\ keys[a.slot].job = a.job /\ keys[a.slot].payload = a.payload
         /\ a.job \in DOMAIN jobs
      \/ a.created + JobTTL <= now /\ a.job \notin DOMAIN jobs

\* Every retention pass ends, though keys and jobs go on being written, finished
\* and expiring while it runs: what it removes was fixed when it began.
PassEnds == pass # Rest ~> pass = Rest

\* A retention pass that ends by itself leaves nothing of a class that had
\* expired when it began, in however many batches and whatever was accepted,
\* finished or written anew meanwhile; but for one thing, which the code permits:
\* a deletion of a subject takes a candidate from a statement that waits for it,
\* the count falls short, and the loop reads that as the end of the class.
PassPurgesExpired ==
  [][Purge /\ pass' = Rest =>
       /\ "idempotency" \notin Cut =>
            \A k \in DOMAIN keys' : keys'[k].created + IdempotencyTTL > pass.at
       /\ "job_metadata" \notin Cut =>
            \A j \in DOMAIN jobs' :
              jobs'[j].completed = 0 \/ jobs'[j].completed + JobTTL > pass.at]_acceptanceVars
=============================================================================
