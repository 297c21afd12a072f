# TLA+ specifications of Maki Finans Koçu

This directory specifies the concurrent and stateful core of the Maki backend
and client in TLA+. TLC checks the specifications on small instances, TLAPS
proves the most important results for every value of the constants. Paths below
are relative to the repository; `maki/` stands for `backend/src/maki/`.

## 1. Inventory of the system

Maki is a personal-finance coach: a Flutter client (`frontend/`), a Dart package
of finance algorithms (`packages/maki_finance_core/`) and a Python backend
(`backend/`) whose API and workers share PostgreSQL and Redis.

| Component | State | Operations | Hard part | Correct when |
|---|---|---|---|---|
| Job records (`maki/jobs/models.py`) | status, attempt, lease token and expiry | transition, claim, finish_claim | a takeover while the old holder runs | lawful transitions, one holder, bounded attempts |
| Job repository (`maki/infrastructure/job_repository.py`) | jobs, outbox_events, idempotency_keys | create_with_outbox, claim_for_work, finish, list_unpublished, mark_published | row locks, races on the idempotency key | job, event and key appear together; one job per key |
| Outbox dispatcher (`maki/workers/dispatcher.py`) | a batch of records in hand | list, publish, mark | crash between publish and mark; several dispatchers | every event is published at least once |
| Redis queue (`maki/infrastructure/redis_queue.py`) | stream, consumer group, pending list, failed stream | publish, consume, reclaim, ack, retry, release, dead_letter | redelivery, acknowledgement of an entry someone else holds | nothing is lost, nothing is redelivered for ever |
| Worker runtime (`maki/workers/runtime.py`) | the delivery and token in hand | run_once, _execute | crash between settlement and acknowledgement | a job is settled once |
| Handlers and stores (`maki/jobs/domain_handlers.py`, `redis_job_results.py`, `redis_ephemeral_receipts.py`) | receipt image, result key | take, answer, put, get / get-and-delete | stale writer, one-shot image | a success has its result, the image is erased |
| Acceptance (`maki/jobs/service.py`, API routes) | requests under way | accept, upload | retried requests, expired keys | a retry is told of the same job while the key lives |
| Deletion and retention (`maki/infrastructure/privacy_repository.py`, `maki/workers/retention.py`) | all rows of a subject | delete_subject, purge in batches | runs against jobs and requests in flight | nothing of the subject stays; a pass that ends has removed what had expired |
| Local runtime (`maki/infrastructure/local_execution.py`) | dictionaries under one lock | accept, run, finish, close | close during a task | every accepted job is settled or cleared |
| Entitlements (`maki/billing/`, `entitlement_repository.py`) | events seen, entitlement per product | apply | late, duplicated, reordered store events | the entitlement is that of the latest event |
| Official data (`maki/official_data/`, `official_data_repository.py`) | snapshots, publication pointer | fetch, publish, serve inflation | redirects and retries, concurrent publishers, shrink guard | the pointer names a complete snapshot that is not less than half of the one before |
| Leaderboard (`maki/leaderboard/`) | contributions per cohort, subject, day | record_and_list, percentile | k-anonymity | nothing is shown of a small cohort |
| Rate limiter (`redis_rate_limit.py`) | sliding window | check | clocks of several API processes | at most `limit` per window |
| Forecast engine (`maki/forecast/`) | cache in Redis | forecast | releases that share the cache | the answer is of this series, horizon and release, and its model beat the baselines |
| Coach (`maki/coach/`) | session memory, published figures | answer, respond | eviction, follow-ups, figures published meanwhile | a topic is the session's own, a citation is the figure the provider read |
| Receipt OCR (`maki/ocr/`) | — | handle | boxes out of order, misread amounts | what nobody reviews is what the paper says |
| Middleware, tokens, bootstrap (`maki/api/`, `maki/security/`, `bootstrap.py`) | the request being read | body limit, privacy inspection, session, dispatch | a body in chunks, a session that runs out, a client that leaves | a service is called only with a bounded, inspected body and a live session |
| Model training (`maki/modeling/`) | — | run | period boundaries, ties, one class | a released model was judged on periods it never saw |
| Living forest (`frontend/lib/features/gamification/`) | activities, XP and seed ledgers, streak, goals, contributions, milestones, inventory, challenges | record, award, create and choose goals, contribute, settle, buy, load, claim | screens that interleave, late days, two writers of the XP total | ledgers equal their causes, one reward per milestone, caps respected, a leaf only bridges |
| Premium client (`premium_repository_impl.dart`, `premium_bloc.dart`) | the slot of the active operation, what the screen shows | purchase, restore, check, purchase stream | late store events after a time-out, overlapping deliveries and checks | no tap is cut off from its answer; access is shown and a purchase finished only after a grant |
| API client (`maki_api_client.dart`) | — | accept and poll | bounded polling, consumed results | a result is shown at most once and not confused |
| Finance core (`packages/maki_finance_core/`) | pure functions | debt plan, forest progress, ... | rounding and payoff order | interest and payments balance |

Interaction: the API writes a job and its outbox event in one SQL transaction;
the dispatcher copies events to the Redis stream `maki:jobs:<kind>`; workers of
the kind consume the stream as one consumer group, claim the row, call a
provider, write the result to Redis, settle the row and acknowledge. Deletion
and retention remove rows under all of them. Nothing spans both stores
atomically, so the order of the calls is the protocol.

On the device, screens call the repositories, which write a SQLite database
through drift. A transaction is exclusive, but handlers await between
transactions and between plain statements, and several screens run handlers at
once: the finance screens record actions, the forest screen and the expense
wizard load snapshots (which write), the store and the challenge list change
the ledgers and totals the loads have read.

## 2. Modules

| Module | What it is |
|---|---|
| `JobContract` | Abstract specification: what an accepted job promises its owner. |
| `JobPipeline` | Acceptance, dispatchers, queue, workers, handlers, stores, deletion, retention, crashes and time, with all properties. |
| `MCJobPipeline` | Instances for TLC (owner assignment, symmetry). |
| `JobPipelineProofs` | TLAPS: types, the inductive invariant, the safety theorems, the refinement of the contract, receipts. |
| `DailyActivity` | The device's activity engine: recorded actions, awards under the daily and weekly cap, ledger sums, streak. |
| `LivingForest` | Extends `DailyActivity` with goals, contributions, milestones, linked finance records, store, snapshot loads and challenge claims, and composes them into one specification. |
| `LivingForestProofs` | TLAPS: lemmas about the engine (awards and caps, the streak), then the theorems about everything the forest's screens do. |
| `MCLivingForest` | Instances for TLC (caps, challenge XP, symmetry, the sides of the forest one run looks at). |
| `Tables` | Writing a row of a table or dictionary. |
| `SubjectTime` | Subjects and clock shared by the next four. |
| `Entitlements` | Verification at Google Play and the App Store, store events, entitlements. |
| `JobAcceptance` | Requests under idempotency keys, uploads, retention passes. |
| `Leaderboard` | Contributions and the percentile within a cohort. |
| `SubjectData` | Composes the three over one database: deletion and export of a subject. |
| `SubjectDataProofs` | TLAPS: the invariants of the three, step by step, and the theorems about all data of a subject. |
| `OfficialData` | HTTP client, both parsers, racing publishers, served inflation. |
| `LocalExecution` | The local mode's job runtime; implements `JobContract`. |
| `RequestGate` | Settings and bootstrap, middleware, tokens, problems, health. |
| `RateLimiter` | The sliding-window script and its callers' clocks. |
| `Forecasting` | Backtest, selection, calibration and the shared cache. |
| `ReceiptParsing` | File guard, OCR answer, rows, amounts, reconciliation. |
| `ReceiptProofs` | TLAPS: that a receipt nobody reviews adds up, and is what the paper says. |
| `CoachConversation` | The local engine's memory and the choice of provider. |
| `GroundedCoach` | Retrieval, prompt limits, citations and provider failures. |
| `ModelRelease` | Dataset, temporal split, calibration, metrics, promotion, export. |
| `ReleaseProofs` | TLAPS: that a released model has earned it: the split, ROC-AUC, isotonic regression, promotion. |
| `PremiumPurchase` | The client's purchases: taps, the store's stream, checks and what the backend grants. |
| `ServiceProofs` | TLAPS: theorems about `LocalExecution`, `PremiumPurchase`, `RateLimiter`, `RequestGate`, `CoachConversation` and `GroundedCoach`, which share no state. |
| `MCBackend` | One instance for TLC of `SubjectData` and the modules from `OfficialData` to `PremiumPurchase`. |
| `BackendProofs` | TLAPS: theorems about `Forecasting` and `OfficialData`, and about the composition in `MCBackend`. |
| `SumsAndRanks` | TLAPS: lemmas the other proofs need: least members, positions in an order, quotients, sums over finite sets. |

### How `JobPipeline` corresponds to the code

One action is one atomic effect on one store: an SQL transaction, a Redis
command or a MULTI block. Between any two of them another process may run, or
the process may end.

| Code | Model |
|---|---|
| `JobRecord` fields | `row[j]`: status, attempt, lease, expired. The token is the number of the attempt that was issued it (fresh, like the ULID). `expired` stands for `lease_expires_at <= now`. Payload, timestamps, failure code and version steer nothing and are left out (the payload is cleared with the step to a terminal status in the same update, `models.py:121`). |
| `JobService.accept`, `_create_once` | `Accept`; the receipt route stores the image first. Two requests with one key are `JobAcceptance`. |
| `delete_subject`, `_purge_jobs` | `DeleteSubject`, `PurgeJob`; outbox events go by ON DELETE CASCADE, Redis is not touched. |
| `JobQueryService.get` | `ReadResult` for receipts (GETDEL); other kinds are read without effect. |
| `OutboxDispatcher.run_once` | `ListUnpublished`, then `Publish` and `MarkPublished` for each record. The batch of at most 100 in creation order is generalised to any order. |
| `RedisJobQueue.consume` | `Reclaim` (XAUTOCLAIM from the start of the pending list, count 1), then `ReadGroup` (XREADGROUP `>`). |
| `claim_for_work` and the branch of `run_once` | `ClaimForWork` |
| handlers | `TakeImage`, `Produce`, `PutResult`; a store error may hide an effect that took place. |
| `finish`, `finish_claim` | `Finish` with `Settlement`; a lost lease or a missing row raises out of `run_once`, which ends the process (`worker_bootstrap.py:91-97`), and the supervisor starts it again (`infra/compose/compose.yaml:19`). |
| `ack`, `retry`, `dead_letter` | `Ack`, `Retry`, `DeadLetter`; XACK works for whoever calls it, also for an entry another consumer has reclaimed. `release` does nothing and is the BUSY branch of `ClaimForWork`. |
| lease and visibility timeouts | `LeaseLapses` (holder gone), `LeaseOverrun` (holder still at work), `VisibilityTimeout` |
| TTL of image and result | `ImageExpires`, `ResultExpires`, at any moment |
| SIGKILL, connection errors | `CrashWorker`, `CrashDispatcher`, between any two steps |

PostgreSQL and Redis themselves are taken to be durable (Redis runs with
`--appendonly yes`, `compose.yaml:66`; the second that `everysec` may lose is
not modelled).

### How `DailyActivity` and `LivingForest` correspond to the code

One action is one exclusive drift transaction, or one statement outside of a
transaction; an `await` between two of them is a point where another handler
may run. File names are those of `frontend/lib/features/gamification/data/`
unless given.

| Code | Model |
|---|---|
| `daily_forest_activities`, `forest_xp_ledger`, `forest_wallet_ledger`, `forest_streak_states`, `user_gamification_states.xp` | the record `forest`: raw rows, award rows, `xpLedger` and `seedLedger` (the sums, which is all the code reads of the ledgers), `streak`, `xp`. |
| `_activityTotals` | `dayTotal`, `weekTotal`: the code sums award rows again each time; rows are never removed, so the sums are kept as the rows are added. `weekTotal[d]` runs from Monday to `d`, as the query does. |
| `createdAt` of award rows | `late`: whether a later day already had an award. No other order of rows is ever asked for. |
| `_recordMeaningful`, `_award`, `_updateStreak`, `_synchronizeGamificationState` | `Recorded`, `Award`, `UpdatedStreak`, `Synchronized`: operators on `forest`, composed in the order of the calls, because they run inside one transaction. |
| `addExpense`, `addIncome`, `recordDailyReview` | `AddExpense`, `AddIncome`, `RecordDailyReview`; the finance form offers days up to today, the calendar offers every day. |
| `TransactionRepositoryImpl.addExpense`, `addIncome`, `deleteExpense`, `deleteIncome` | `SaveExpense`, `SaveIncome` leave an `impact` to run; `CheckImpact` is the look-up before its transaction, `ApplyExpense`, `ApplyIncome` the transaction. `RemoveTransactionImpact` and `DeleteRecord` are the two halves of a deletion. A refused impact enters nothing and the record stays. |
| `createGoal`, `selectPrimaryGoal`, `addContribution`, `buyItem` | actions of the same names. |
| 24 hours of a confirmed transfer | `TransferMatures` at any moment after the entry. |
| `_awardReachedMilestones` | `Reward` and `WithMilestones`; every milestone once for a goal (unique key). |
| `load` | `BeginLoad` (reads the due transfers), `SettleTransfer` (one transaction each, not asking again), `ReadStreak`, `ShowForest` (compares and writes the streak row back). The reads of status, wallet and streak are one step. Growth is computed in 1/1680 of a percent, where every term of `ForestProgressRules.calculate` is whole. |
| `GamificationBloc`, `claimXP` | `BeginClaim` (guard on the copy on the screen), `ReadStatus`, `WriteStatus`, `RefreshChallenges`. `EvaluateChallenge` completes a challenge whenever its condition may hold; the conditions themselves are sums over a month and are left out. |

Left out of the two modules: levels and forest stages (shown only, functions of
`xp` and growth), goal titles and notes, the starting amount of a goal (0), debt
payments (`recordDebtPayment` has no caller), `clearAllData`.

### How the other backend modules correspond to the code

Each module names the functions it translates above its definitions, and
`PROJECT.json` their lines. The choices that are not one to one:

* **Transactions of a subject** hold `pg_advisory_xact_lock` on the subject
  (`subject_lock.py`), so `Apply`, `Create`, `Percentile` and `DeleteSubject`
  are one step each. A purge statement takes no such lock: `SelectBatch` is the
  snapshot of its subselect, `Purge` the deletion of the candidates that are still
  there, and anything may happen between them. That is also why `FindKey` and
  `ReadJob` are two steps. Store events, keys and jobs share one clock; a request
  reads it when it needs it, and `AskGoogle` and `ApplyGoogle` are on both sides
  of the wait for Google's answer.
* **`OfficialData`** splits `publish` where another publisher may come in: the
  look before the transaction, the look inside it, the row lock on the
  publication (`FOR UPDATE`, nothing to lock before the first publication), the
  commit with its two unique keys, and the second attempt after IntegrityError.
  An HTTP exchange is one step for each response; `Abandon` is the total timeout,
  a connection error or the end of the process.
* **`LocalExecution`** runs what lies between two real waits as one step: the
  locks of the runtime are never held across an `await`. `RestartLocal` is
  `close()` or a crash. The branch "receipt without image" is in the model as it
  is in the code; no run of either reaches it.
* **`RequestGate`** passes one exchange at a time, for requests share nothing but
  the settings; the body arrives in chunks and time passes in between.
  Signatures are a flag of a token that the issuer alone sets.
* **`RateLimiter`** is one key. Redis runs the script as one step; `Drift` is the
  difference between the clocks of API processes.
* **`Forecasting`, `ModelRelease`** compute in whole numbers scaled so that every
  quotient that is compared is exact (cross-multiplied, or in units of
  1/`Scale`). Prophet and LightGBM are external: any forecast with a given bias,
  any score of a row.
* **`ReceiptParsing`**: text is a sequence of tokens, an amount its groups of
  three digits and its cents, which is what `_normalize_money` looks at: how many
  groups there are, the last one, and the number before it. A line is a box with
  a token; `Recognised` is the set of places that are not blank, and both sorts of
  `_group_lines` and `_merge_group` are by rank (`Ranked`), ties by place, as
  `sorted` is stable. For the property an answer also carries the paper it was
  read from and the place of every box on it, which no action looks at.
* **`CoachConversation`**: a question is the points each intent's patterns give
  it, which is all the classifier compares; `GroundedCoach` keeps lengths, for
  the limits are on lengths.

### How `PremiumPurchase` corresponds to the code

| Code | Model |
|---|---|
| `_activeOperation` | `slot`: the number of the tap whose completer it is. It is the only thing that ties an event of the stream to a tap. |
| `purchase`, `restore` and the bloc's handlers | `Tap`, `Prepare`, `Launch`, `TimeOut`, `FallBack`, `Answer`: one step between two awaits. |
| `isPremium` and `CheckPremiumStatusEvent` | `BeginCheck`, `Ask`, `Show` for each check that may overlap |
| `_handlePurchases` | `Deliver`, then `Take`, `Verify`, `Refuse`, `Finish`, `Grant` for each purchase of the list. The stream does not wait for the run before, so there are several `Handlers`. |
| `_ensureStoreInitialized` | `InitializeStore`, once for all |

The store plug-in is external: it delivers any list at any time after the
listener is installed, launches or not, or throws. Builds without store billing
and the flag in secure storage, which only those builds read, are left out.

## 3. What the runs check

| Run | Instance | Properties |
|---|---|---|
| `coach` (pass) | 1 coach job, 2 workers, 1 dispatcher, 2 attempts, 1 crash, 1 overrun, fairness | `NoJobLost`, `LeaseExclusive`, `SuccessHasResult`, `DeadLetterMeansFailed`, `AttemptsBounded`, `LeaseRespected`, `LawfulTransitions`, `ContractSafe`, `EntryDrains`, `ContractSpec` |
| `receipt` (pass) | 1 receipt job, 2 workers, 2 dispatchers, 2 attempts, 1 crash, 1 overrun, symmetry | `SuccessErasesImage`, `ResultFromWinner`, `ReceiptResultOnce` |
| `dead_letter` (violation) | 1 worker, 1 crash, fairness | `FailureIsDeadLettered` |
| `stale_result` (violation) | 2 workers, no crash, 1 overrun | `ResultFromWinner` |
| `streak` (pass) | 4 days in weeks of 3, caps 75 XP and 30 seeds a week, 1 record (plain, scanned or income), 1 receipt, 1 goal, 1 leaf, 1 screen whose loads write back a fresh streak row (`FreshWrites`) | `AwardsMatchRecords`, `CapsRespected`, `StreakMatchesHistory`, `LeavesBacked`, `LeafOnlyBridges` |
| `forest` (pass) | 1 goal of 2 units, 2 contributions of 1 unit, 1 record, 2 screens, symmetry; on the other side up to 4 goals, 1 challenge, 2 taps | `LedgersBacked`, `AwardedIsPaid`, `OnePrimary`, `RewardsWait` |
| `stale_streak` (violation) | 3 days, 1 leaf, 1 screen | `LeafOnlyBridges` |
| `claimed_xp` (violation) | 1 challenge, 1 tap, 1 day | `XpKept` |
| `backend` (pass) | every module of `MCBackend`, one at a time (`Areas`); bounds below | `BackendTypeOK`, `EntitlementIsNewest`, `RetryKeepsJob`, `PassPurgesExpired`, `DeletedLeavesNothing`, `NoSharpShrink`, `LocalContract`, `WindowBounded`, `CallIsSound`, `ForecastIsEarned`, `UnreviewedIsExact`, `TopicIsTheSessionsOwn`, `AnswerIsGrounded`, `ReleaseIsEarned`, `WaiterIsReachable`, `GrantComesFirst` |
| `late_answer` (violation) | 2 subjects, 2 requests, 1 token, 1 change at Google Play | `OlderAnswerCannotRestore` |
| `small_crowd` (violation) | 2 subjects of a cohort, a threshold of 2, rows that live beyond their day | `PercentileIsKAnonymous` |
| `progress` (pass) | acceptance with 1 subject and 1 call, 2 publishers of one source, the local runtime, purchases with 1 delivery at a time; fairness, no symmetry | `WorkEnds` |

What the properties of `backend` say of the code:

* `EntitlementIsNewest`: an entitlement is what the latest recorded event of its
  subject and product says, however the events arrived, and no event that is
  tied to a subject lacks its entitlement (a verification would break on it).
* `RetryKeepsJob`: a client that was told of a job is told of the same one by
  every retry while its key lives. The settings may keep jobs for a shorter time
  than keys (`common/config.py:109-110`; the run does): then this ends with the
  job, `JobTTL` after it was accepted or later, and still no retry finds a key
  that leads to a second job beside the first.
* `PassPurgesExpired`: a retention pass that ends leaves nothing that had expired
  when it began, except of a class that a deletion cut short: a purge statement
  whose candidate a deletion removes while it waits for the row returns fewer
  rows than it selected, and the loop takes that for the end of the class
  (`workers/retention.py:73`). The next pass removes what was left.
* `DeletedLeavesNothing`: after a deletion nothing of the subject can be found in
  any table until a request of that subject writes again.
* `NoSharpShrink`: in no race does a source lose more than half of its points in
  one publication.
* `LocalContract`: the local runtime keeps the contract the pipeline keeps.
* `WindowBounded`: at most `limit` different requests in every span of the window
  less the drift of the clocks.
* `CallIsSound`: a service sees a body only within the limit of its route and
  without private fields, from a session that was live when it was checked; a
  production process has the services it promises.
* `ForecastIsEarned`: whichever release filled the cache, an answer is of this
  job, its model did not lose to a baseline and its interval held four fifths of
  the tested days.
* `UnreviewedIsExact`: with one box misread, blank or without confidence, a
  result that nobody has to review is the receipt, for whole amounts below a
  million. (With cents, a price misread by one hundredth is within the tolerance
  of `_reconcile`, and nobody is asked.)
  From a million on it need not be: of "1.250.000" without cents the last group
  is read as a fraction (`_normalize_money`, `receipt_parser.py:240-253`).
* `TopicIsTheSessionsOwn`, `AnswerIsGrounded`: a follow-up continues the session's
  own recent topic; a citation shows the figure whose line the provider read.
* `ReleaseIsEarned`: a production manifest belongs to a model judged on later
  periods than anything it or its calibration saw, by the meaning of ROC-AUC and
  isotonic regression and not by the formulas the code computes them with.
* `WaiterIsReachable`: while the user waits for the store, the next event of the
  stream still reaches that tap; no late event, time-out or refused launch of an
  earlier tap takes the slot away.
* `GrantComesFirst`: an open screen, a yes to a tap and a transaction completed at
  the store all come after a grant of the backend, whatever deliveries overlap.

`WorkEnds` of `progress` has four parts: a retention pass ends although rows keep
expiring under it, for every batch asks for what had expired when the pass began;
a publisher ends whatever the provider answers and whoever holds the row lock or
commits first; every job of the local runtime is settled or gone with its
process; and after a tap the buttons come back, whether or not the store says
anything.

The six violations are findings about the code:

* **A dead letter can be lost.** `_fail_permanently` commits FAILED, then calls
  `dead_letter`. If the process ends in between, redelivery finds a terminal job
  and acknowledges it, so the failed stream never sees it. With no crash the
  property holds.
* **A late worker replaces a settled result.** The result is written before
  `finish` and without asking for the lease. For coach and forecast jobs the
  overtaken worker's answer replaces the one of the attempt that settled the job.
  For receipts the one-shot image makes this impossible: `receipt` checks the
  same property and it holds.
* **A load can undo a purchase.** `load` reads the streak row, awaits several
  reads and, when growth has risen, writes every column back as it was read. A
  protection leaf bought in between is paid for and gone
  (`living_forest_service.dart:143`, `:562-578`). `streak` checks the same
  property over more days with one screen whose loads write back a row that is
  still as they read it, and it holds.
* **Claimed XP does not last.** `claimXP` adds to the shown total only. The next
  recorded action overwrites that total with the sum of the ledger, which does
  not know the claim (`daily_activity_engine.dart:264-275`). No interleaving is
  needed: the claim is finished when the action is recorded.
* **An older answer can restore access.** Google's answer is dated when it is
  applied, not when it was given (`google_play.py:302`, `:320`), and events are
  ordered by that date. Of two overlapping verifications of one purchase the one
  that finishes last decides, also when it asked first.

* **A percentile need not be k-anonymous.** The threshold of 50 counts rows, one
  for each subject and day, and a row lives for 7 days
  (`leaderboard_repository.py:57`): a few people who come back every day pass for
  a cohort. In `small_crowd` one other subject, seen on two days, meets a
  threshold of two. How far it can go is the theorem `PercentileShortfall`: with
  50 and 7 days at least seven other people remain.

Two more weaknesses are in the model and have no run:

* `purchase` and `restore` put their completer into `_activeOperation` and call
  the store before the time-out is attached. A call that throws leaves the
  completer behind (`Launch`, last disjunct); every later tap is told that an
  operation is under way (`premium_repository_impl.dart:180`) until some event of
  the stream happens to clear it.
* The bloc handles events concurrently. A check that the server answered before
  a purchase was verified is shown after it (`Ask`, `Show`), and the screen is
  closed while the subscription is active (`premium_bloc.dart:22`).

### Bounds and why they are enough

Jobs do not interact except through the shared stream and their owner, and the
properties speak of one job at a time; one job with several entries (one for each
dispatcher that published it, one for each retry) already brings every conflict
of the protocol. Two workers give a holder and an overtaker; a third adds only
another overtaker, which the proofs cover. `MaxAttempts` 2 gives a first and a
last attempt; a middle one differs from the first in its number only. One crash and one overrun each may fall between
any two steps; the theorems hold for any number. `MaxEntries` bounds the stream
entries that fairness names: every dispatcher can publish a job once, every
dispatcher crash once more, every retry adds one. Symmetry is
used in the runs without fairness only.

`coach` and `receipt` are separate because `Kind` decides whether the image step
exists; forecast jobs take the same path as coach jobs.

In the forest the engine treats days alike, so four days give a streak that
goes on, a single missed day, a gap of two, late and future days, and a second
week of which one day falls in the bound. Reviews and a goal's contribution
already give two kinds of action a day; the one record adds the kinds expense,
receipt and income, and the scan may be entered again on another day. The weekly
caps of the code (280 XP, 180 seeds) cannot be reached in three days, so
`streak` lowers them to 75 and 30, where the cap cuts an award in XP and in
seeds; the daily caps are the code's. One goal of one unit lets a single income
pay all five milestones, and so the 90 seeds of a leaf. In `forest` two
contributions of half the target reach the milestones in two portions, and two
screens are what it takes to settle the same transfer twice; a third repeats the
second. `MaxCalls` 1 keeps one save or delete between its halves at a time:
their conflict is with the loads and with the other half, which remain.
`forest` uses the code's own limit of four goals; goals do not depend on what is
put into them, so it looks at several goals without contributions (`Orders`) and
at contributions with one goal (`Rewards`). `MaxRecords`, `MaxContributions` and
`MaxPurchases` bound what is ever created. Deadlock is not checked in the forest runs: users may stop, and within
the bounds nothing more can then be entered.

The areas of `backend` share no state except the subjects' rows and their clock,
so each behaviour stays in one area and the bounds are chosen for each:

* Subjects: two, one that is deleted and one beside it; two requests and two
  calls are what a race needs; one idempotency key and two forms of payload make
  reuse, conflict and expiry. `MaxTime` 3 with lifetimes of 2 (keys) and 1
  (jobs) lets a row be written, live, expire and be written again, and a job be
  purged before its key; `progress` has the order of the code's defaults. `BatchSize` 1 makes a pass over two
  jobs take several batches. One Google Play change, a state of the store, two
  App Store proofs and one product let every order of the comparison occur; ties
  of time and of version are among them.
* Leaderboard: one cohort, a minimum of two and a contribution that outlives its
  day, which is what separates rows from subjects.
* Official data: two publishers (a third is another loser of the same race), two
  sources, documents in three versions with one that shrinks and one that is
  inconsistent, one redirect and two attempts, so that every limit is met and
  exceeded.
* Local runtime: three jobs and images, two keys of one owner, two kinds.
* `RequestGate`: one exchange after the other until `GateEnd`, with bodies below,
  at and above each limit in one or two chunks, and four configurations.
* `RateLimiter`: two requests in a window of 3, three ids, clocks that differ
  by 1.
* `Forecasting`, `ReceiptParsing`, `ModelRelease`: the inputs are chosen so that
  each comparison goes both ways and ties: eight days in two folds, four runs of
  Prophet; two receipts with every box misread in turn, in either order; eight
  periods with all labellings of four calibration rows.
* Conversations: three sessions of which two are remembered, and three turns;
  four figures of two series and prompts around the limit.
* Purchases: the second tap is what a late event of the first can meet, two
  handlers are what two overlapping deliveries need, one delivery holds two
  purchases of which the first has no proof, and one failure may fall on any call.

`progress` takes four parts with one subject, one call, one source and one
delivery at a time, since liveness excludes symmetry; two publishers remain, for
the row lock. The proofs cover any number. Deadlock is not checked in these runs
either: clients, the store and publishers may stop.

### Fairness

`FairSpec` assumes weak fairness of each dispatcher and each worker as a whole:
their loops run until SIGTERM (`worker_bootstrap.py:91`, `dispatcher_main.py:52`),
provider calls have timeouts, and ended processes are restarted. It assumes that
time passes: a lease without a holder lapses, a pending entry becomes
reclaimable. It assumes nothing of requests, deletions, expiry, overruns or
crashes; `coach` has one of each of the last two, at any moment.

`ProgressSpec` assumes of the other parts:

* `RetentionFairness`: a pass that has begun goes on, from the selection of a
  statement to its deletion and to the next (`RetentionWorker.run` is a loop of one
  process). That a pass begins is not assumed.
* `PublisherFairness`: a publisher's step that stays enabled is taken, for its
  HTTP calls have time-outs; and a publisher that waits for the row lock gets it
  when it keeps being released (strong fairness of `Compare`), because PostgreSQL
  serves the waiters of a row lock in turn. That publishers start is not assumed.
* `LocalFairness`: every task of the event loop runs on.

`PremiumFairness` assumes that the store initialisation comes back, that timers
fire and that what a tap awaits returns or throws. It assumes nothing of the
store's stream, of checks, of the user or of the server. `LivingForest` states
safety only, since nothing obliges a user to act or a screen to load.

## 4. What is proved

The theorems hold for any sets of jobs, owners, workers, dispatchers, subjects,
requests, publishers, screens, sessions and so on, finite or not unless an
assumption says so, and for any bounds. The assumptions, each named where its
constants are declared:

| Assumption | What it says, and why the code justifies it |
|---|---|
| `PipelineAssumption` | `NoJob` is no job, every job has an owner, `Kind` is one of three, `MaxAttempts` is positive. |
| `ActivityAssumption`, `ForestAssumption` | Natural limits; a goal's target and a contribution are positive amounts (both services refuse others); at most four goals, the code's own limit. |
| `BillingAssumption`, `TimeAssumption`, `ForgottenAssumption` | Natural times, a clock that is read at least once, a token names a product, the mark of a deleted owner is no subject. |
| `RetentionAssumption`, `BatchAssumption` | Positive lifetimes of keys and jobs, in either order; a batch is not empty. |
| `LeaderboardAssumption` | A positive minimum, a positive lifetime in whole days, scores in basis points. |
| `LocalAssumption`, `StreamAssumption` | Limits of the local runtime; a delivery is a finite list. |
| `FetchAssumption`, `TableAssumption` | Natural limits of the HTTP client; `Retry-After` is a number when there is one; a document is a finite table; TÜİK is one of the sources, as the inflation route reads it (`routes/official_data.py:39`). Series and months stand for their order, and a text that parses as a decimal is an amount (`normalize_decimal`). |
| `RateAssumption`, `GateAssumption` | Natural limits and times; a positive window and a positive lifetime of tokens. |
| `ExchangeAssumption` | Requests arrive in finitely many chunks, and a body that its route's model validates has no private field unless the route takes a job: models refuse unknown fields (`extra="forbid"`, `common/models.py:6`). |
| `ForecastAssumption` | Positive numbers of days; the first training part holds a season, and a series the first training part and one test part (42, 7 and 56 days in the code: `RelativeSeries` has at least 56 points); Prophet's answers are integers here. Cache entries live for a positive time (`forecast/cache.py`); the bounds are natural. |
| `ReleaseAssumption` | A positive scale and natural limits; an observation has a date and a binary label (`TrainingObservation`), a feature's window is in whole days (`FeatureDefinition`), a calibrated probability lies between nothing and one; periods and scores stand for their order. |
| `ReceiptAssumption` | Natural limits; a line of an answer has what `OcrLine` and `OcrBox` require (`ocr/models.py:16-36`). The library may answer anything else. |
| `AnswersReadPapers` | A hypothesis of `UnreviewedIsThePaper` alone, and an assumption of the instance `MCBackend`, where TLC evaluates it: the paper adds up, in whole amounts below a million; every printed box is recognised once, its centre within the tolerance of its row and apart from the next, in any order; at most one box, not the merchant's, has another text, or none, with a whole amount if any. It says nothing of confidences. |
| `ChatAssumption` | Positive lifetime and size; the engine's constructor refuses others. The bounds on turns and time are natural. |
| `GroundedAssumption` | Finitely many official figures, one for each series, period and release date (`SeriesPointTable`); citations are lists of integers (`ProviderAnswer`). |

| Theorem | Statement |
|---|---|
| `TypeCorrect`, `InductiveInvariant` | `Spec => []TypeOK`, `Spec => []Inductive` |
| `NothingLost`, `OneHolder`, `SuccessIsBacked`, `DeadLettersFailed`, `AttemptsLimited` | `Spec => []` of `NoJobLost`, `LeaseExclusive`, `SuccessHasResult`, `DeadLetterMeansFailed`, `AttemptsBounded` |
| `LeasesRespected`, `TransitionsLawful` | `Spec =>` `LeaseRespected`, `LawfulTransitions` |
| `ImplementsContract` | `Spec => ContractSafe`, the safety half of the refinement |
| `ReceiptInvariant`, `ImagesErased`, `WinnersResult`, `ReceiptsWrittenOnce` | `[](Inductive /\ ReceiptInv)`, `[]SuccessErasesImage`, `[]ResultFromWinner` for receipts, `ReceiptResultOnce` |
| `ForestTyped`, `ForestSafe` | `[]TypeOK`, `[]ForestInv` of `LivingForest` |
| `AwardsMatchAlways`, `CapsAlways`, `PaidAlways`, `LedgersAlways`, `PrimaryAlways` | `Spec => []` of `AwardsMatchRecords`, `CapsRespected`, `AwardedIsPaid`, `LedgersBacked`, `OnePrimary` |
| `RewardsWaitAlways` | `Spec => RewardsWait` |
| `StreakAlways`, `LeavesAlways`, `LeafBridgesAlways` | `FreshSpec =>` `[]StreakMatchesHistory`, `[]LeavesBacked`, `LeafOnlyBridges` |
| `EntitlementsCorrect`, `RetriesCorrect`, `DeletionCorrect` | `SubjectSpec => []` of `EntitlementIsNewest`, `RetryKeepsJob`, `DeletedLeavesNothing` |
| `PercentileShortfall` | `SubjectSpec => []SubjectsBehindPercentile`, the bound beside the finding of `small_crowd` |
| `RetentionCorrect` | `SubjectSpec => PassPurgesExpired` |
| `LocalInvariant`, `LocalImplementsContract` | `LocalSpec => []LocalInv`, `LocalSpec => LocalContract` |
| `OfficialInvariant`, `ProvidersAreSpared`, `PublicationsKeepTheirPoints`, `OfficialTyped` | `OfficialSpec =>` `[]OfficialInv`, `[]RequestsAreBounded`, `NoSharpShrink`, `[]OfficialTypeOK` |
| `RateIsLimited`, `CallsAreSound` | `RateSpec => []WindowBounded`, `GateSpec => []CallIsSound` |
| `TopicsStayWithTheirSession`, `AnswersAreGrounded` | `ChatSpec => []TopicIsTheSessionsOwn`, `GroundedSpec => []AnswerIsGrounded` |
| `ForecastsAreEarned` | `ForecastSpec => []ForecastIsEarned` |
| `ReleasesAreEarned` | `ReleaseSpec => []ReleaseIsEarned` |
| `UnreviewedResultsBalance` | `ReceiptSpec => []UnreviewedBalances`: no hypothesis on the answers |
| `UnreviewedIsThePaper` | `AnswersReadPapers` implies `ReceiptSpec => []UnreviewedIsExact` |
| `WaitersReachable`, `GrantsCorrect` | `PremiumSafety => []` of `WaiterIsReachable`, `GrantComesFirst` (no fairness is needed) |
| `SubjectTyped`, `LocalTyped`, `RateTyped`, `GateTyped`, `ChatTyped`, `GroundedTyped`, `ForecastTyped` | the type invariant of each part, from its own specification |
| `BackendTyped` | `BackendSpec => []BackendTypeOK` |
| `BackendCorrect` | `BackendSpec =>` every other property of `backend` |

The argument, part by part. None of the properties is inductive alone.

*Pipeline.* `NoJobLost` survives an
acknowledgement only because a worker that is about to acknowledge knows the row
is terminal or removed (`AnswerFollowsRow`), and the stamp on the event only
because the message is on the stream before the dispatcher reaches `mark`
(`PublishedBeforeMarked`); both need that whatever names a job names an accepted
one (`OnlyKnownJobs`). A retry re-adds the message in the MULTI that
acknowledges. `LeaseExclusive` follows from `TokensAreAttempts` and
`TokensDiffer`: a claim numbers the lease by the attempt it starts, which no
earlier token equals. `SuccessHasResult` needs that a worker about to succeed has
written (`WrittenBeforeSettled`). `AttemptsBounded` needs `AttemptsPaidFor`: a
job that may be claimed again has an attempt left, or a crash or an overrun that
no attempt has used. `Inductive` is the conjunction, proved preserved one
lemma per action and conjunct.

*Receipts.* A photograph is read with GETDEL, so at most one attempt ever has it.
`TakenOnce` says what that attempt's being between the read and the settlement
means for everybody else: the image is gone, no other worker is there, no result
was written before it writes its own. With it, a poll finds the result of
the attempt that settled the job, and nothing that was consumed or expired comes
back, although a lease may lapse under the attempt and others may claim the job.

*Forest.* `ForestInv` is the type invariant, the engine's own invariant and
`Placed`: every goal that is named exists, ids of contributions are not used
twice, an entry that counts for rewards adds to the savings, and what a load has
set out to settle is due, which is what makes a reward wait for its day when two
screens settle. `EngineOK` relates awards to the records they were given for, so that
an award cannot exceed what is left under the caps when records are deleted or
late days filled. The ledgers are sums over finite sets; the lemmas on `Total`
show that the library's fold adds, that adding one member adds its worth, and
that a sum of natural numbers only grows.

*Streak.* `StreakInv` describes the streak row by history: the streak is a run of
credited days with single days between them that were bridged, its last day is
credited and no award is later. `LeavesAccounted` counts bridged days against
leaves bought. Neither holds of `Spec`: the finding `stale_streak` is that a load
may write back a streak row it read before a purchase. `FreshSpec` is `Spec` with
`FreshWrites`, that what a load writes back is still there; the theorems say
that this is the only way the code loses a leaf or a day.

*Data of a subject.* `SubjectInv` is the conjunction of `BillingInv`,
`AcceptanceInv` and `DeletedLeavesNothing`, since a deletion is a step of all
three parts at once. `BillingInv` rests on the order of events: `LaterOrder`
shows that `Later` is a strict weak order, so that the row that survives a
comparison with the row before survives every comparison with the events seen.
`AcceptanceInv` has four parts: `TablesInv` (a key leads to a job of its owner
and is as old as that job), `CallsInv` (a key a request has read is still there,
while it lives and its job is there), `ToldInv` (what a client was told is what
its key says, while the key lives and the job is there, and a job goes before its
key only when it is `JobTTL` old) and `PassInv` (a batch that is not full holds
all that had expired, from the selection to the deletion, and once a pass turns
to the jobs no key is left that had expired when it began, unless the class was
cut short). A batch that grows stale in between does no harm: what is deleted
under it is gone, and what is written under the name of a deleted key is younger
than the pass.

*Leaderboard.* `BoardInv` says that a row was written on the day in its key and
expires a fixed time later. A query therefore counts rows of at most
`TTLDays` + 1 days, and each day has one row for a subject: the rows map
injectively into days times subjects, from which the number of subjects follows.

*Local runtime.* `LocalInv` says that tables and counters agree, and
`TaskMatchesJob` that a task that goes on has a job that has not settled, which is
why a verdict, once shown, is not shown differently.

*Official data.* `OfficialInv` says of each publisher what it knows at its stage:
one that holds the row lock compares with the publication that it will replace,
and one that saw no publication can commit only if there still is none, for the
unique key refuses it otherwise. It also counts: responses asked for are bounded
by attempts and redirects, whatever a provider answers. `OfficialTypeInv` follows
the tables: what is parsed is a table of numbers, what is past the first look has
no period twice (`CountedOnce`: as many pairs as rows), and so has what is stored.
`RanksAreTaken` says of any strict total order on a finite set that every position
is taken by one member; hence a sorted table has the rows it was sorted from, each
once and in order (`SortedRows`), and the last two of one series differ in period.

*Rate limiter.* `RateInv`: a request that any window could still count is in the
set with a score no older than itself, and the key's expiry lies behind every
window that could count it. A prune by a fast clock removes only what the
slowest clock no longer counts.

*Gate.* `GateInv` ties the stage of an exchange to what was established on the way
there, so that at the call all of it holds at once; time passes in between, which
is why the property speaks of the moment of the check.

*Coach.* `ChatInv`: an entry of the memory is the last financial answer of its
session, and a session without one was never answered, has expired, or gave way
to as many sessions answered later as the memory holds. That the entry that gives
way was answered before all others is where the order of the OrderedDict enters.
For the grounded coach the order of the figures is total, so that positions differ;
as there are as many positions as figures, each is taken
(`PositionsAreTaken`, from `RanksAreTaken`), and a newer figure that is not in the context would have
an earlier position, which is.

*Forecasts.* `ForecastInv`: what an entry of the shared cache holds was earned under
its own key, so a hit needs to be checked no more than a computed answer. That the
answer is earned when it is computed rests on arithmetic: the last split still
leaves its test days (`LastOrigin`, by counting the splits), so every residual is a
number and so is their sum (`TotalIsInt`, the recursion solved by a least
counterexample); the baselines never fail and do not depend on Prophet; and the
least residual with enough residuals within it exists, because the largest has
them all within it (`WidthCovers`).

*Released models.* The specification runs the whole pipeline in one step, so the
theorem is about what that step computes. The code computes ROC-AUC from ranks,
tied rows sharing the average. A rank is what a row is credited with against all
rows, and the credits of a pair go to the one or the other or half to each
(`RankIsCredit`); all pairs of ones together are as many as the square of their
number (`SumOfPairs`), and what the formula leaves are the pairs of a one and a
zero (`AucIsRightOrder`). The split takes periods by their rank, which is taken by
exactly one (`PeriodFound`, from `RanksAreTaken`), so the parts are disjoint, later
and complete. Pool-adjacent-violators is followed in the diagram that counts the
ones among the first n rows: the blocks are the chords of its greatest convex
minorant (`Hull`), a row and the pooling after it keep that so (`HullGrows`), and
the slope of the chord over a row is the greatest, over the rows up to it, of the
least means from there (`ChordIsMinimax`), which is isotonic regression. Division
rounds only at the end and keeps the order.

*Receipts, as they are read.* `ReceiptInv` of `ReceiptProofs` says that what is done
was parsed from an answer of the library, so the theorems are about `Parse`. What
balances needs only the types: the review flag is the negation of the balance.
What is exact needs the way back from boxes to rows. Boxes that lie in rows are
sorted row by row (`ReadRowByRow`); the group that `_group_lines` fills holds
boxes of one row, by induction over the boxes, because its first box is close to
every box of the row and far from the next (`CollectOne`); so the groups are the
rows, in whatever order the boxes were found (`RowsRecovered`), and a row read
from left to right is what is printed, or one text differs or is missing
(`RowText`). An item of which one text differs is no item, or does not add up, or is
the same, because a product determines each factor of a price that is not nothing
(`ItemAltered`). An item that is missing is missing in the total, for every item
costs something, and so is an altered total; at most one of the two can happen
(`ExactWhenUnreviewed`).

*Purchases.* `PremiumInv` adds to the two properties `GrantsKnown`: a run of
`_handlePurchases` that is past verification works on a granted purchase, and a
grant was once active at the server. An event may clear the slot of another tap
than its own; `WaiterIsReachable` survives because clearing the slot answers the
tap in it, which then waits no more.

*Composition.* A step of `BackendNext` is a step of one part and leaves the
variables of the others as they are (`PartsMove`), so every behaviour of
`BackendSpec` is one of each part's specification (`PartsSpecified`), and what is
proved of the parts holds of the instance that the run `backend` checks.

Induction over finite sets is done with the library's theorem that strict
inclusion is well-founded, in the form of a least counterexample, as its induction
theorems take an operator that the provers cannot instantiate. `SortSeq`,
`SelectSeq`, `:>` and `@@` are unknown to the prover: `OfficialData`,
`GroundedCoach`, `ModelRelease` and `ReceiptParsing` sort by ranks, the last two
keep sets of places instead of filtered sequences, `Forecasting` finds the
rank-th residual by counting, `RateLimiter`, `CoachConversation` and `Forecasting` keep their tables as functions
(`Tables`). The order of an OrderedDict is kept as the turn of each entry.

Only model-checked: all liveness (`EntryDrains`, the liveness half of
`ContractSpec`, `WorkEnds`), which is beyond the prover. Every invariant and action
property of the passing runs is a theorem. What `UnreviewedIsThePaper` says does not
hold of any answer of the OCR library: two boxes misread together can agree on a
wrong total. What holds then is `UnreviewedResultsBalance`.

## 5. Plan

In order of importance; every module gets constants with named assumptions, one
action per operation and no RECURSIVE operator where theorems are stated.

Done: every module of section 2, with proofs for all safety properties.

Next: the components of section 6 that keep state, first the API client's polling;
and for receipts, what two misread boxes can do, which the reconciliation cannot
see when they agree.

## 6. Not modelled

* The API client's polling, which meets `JobContract` on the server side; the
  session repository, a wrapper of the OIDC library; the finance core, pure
  functions mostly in floating point (the parts the forest uses are in
  `LivingForest`); UI, reports, notifications and the storage wrapper.
* Cryptography (JWS, JWT, certificates) is equality of names; text patterns (the
  scrubber, intents, wording of answers) and the libraries Prophet, LightGBM and
  PaddleOCR are external: any answer a caller must be ready for. What the code
  computes from these answers is modelled, in whole numbers.
* `_read_after_race`, the second look of `create_with_outbox` after
  IntegrityError, cannot be reached while all writers of a key hold the lock of
  its subject.
* Attestation is called by no route. `RateLimiter` and `OfficialData`'s service
  are modelled although no route calls them yet.

`PROJECT.json` lists every component with its status and every known hazard with
the property that covers it, or why none does.
