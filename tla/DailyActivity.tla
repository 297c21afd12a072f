--------------------------- MODULE DailyActivity ---------------------------
(***************************************************************************)
(* The device's daily activity engine: what a finance record, a review or a *)
(* goal contribution does to the activity table, the two reward ledgers and *)
(* the streak. The engine has no loop of its own: every operation below is  *)
(* one exclusive database transaction (or part of one) of a caller, and     *)
(* LivingForest composes them with the goals, the store and the readers.    *)
(***************************************************************************)
EXTENDS Integers, FiniteSets

CONSTANTS
  LastDay,      \* bound: days are 1 .. LastDay
  WeekLength,   \* days from one Monday to the next: 7 in the code
  DayCap,       \* most XP and seeds of a day: 50 and 20
  WeekCap,      \* most XP and seeds of a week: 280 and 180
  Receipts,     \* scanned receipts (their job ids), positive numbers
  MaxRecords    \* bound: finance records ever created

Days == 1 .. LastDay
Amount == [xp : Nat, seeds : Nat]

ASSUME ActivityAssumption ==
  /\ LastDay \in Nat \ {0}
  /\ WeekLength \in Nat \ {0}
  /\ DayCap \in Amount
  /\ WeekCap \in Amount
  /\ Receipts \subseteq Nat \ {0}
  /\ MaxRecords \in Nat

VARIABLES
  today,     \* the device's calendar day
  records,   \* live rows of expenses and incomes
  nextId,    \* next record id (AUTOINCREMENT: ids are not reused)
  forest     \* activities, ledgers, shown XP and streak: see ForestType

activityVars == <<today, records, nextId, forest>>

-----------------------------------------------------------------------------
\* Rows of daily_forest_activities are of two sorts: one per recorded action
\* ("raw"), and one per award. `late` compares created_at: when the award was
\* entered, a later day already had one.

Kinds ==
  {"expense", "receipt", "income", "goal_contribution", "daily_review"}

Bonus ==
  [receipt           |-> "trustedReceipt",
   goal_contribution |-> "verifiedGoalContribution",
   daily_review      |-> "dailyReview"]

xpRewards ==
  [firstMeaningfulAction    |-> 20,
   secondDistinctAction     |-> 10,
   dailyReview              |-> 10,
   trustedReceipt           |-> 5,
   verifiedGoalContribution |-> 15]

seedRewards ==
  [firstMeaningfulAction    |-> 8,
   secondDistinctAction     |-> 4,
   dailyReview              |-> 4,
   trustedReceipt           |-> 3,
   verifiedGoalContribution |-> 5]

ActivityTypes == DOMAIN xpRewards

\* source_ref of a raw row: a record, a receipt, a review (by its day) or a
\* contribution.
Refs == [type : {"record", "receipt", "review", "contribution"}, key : Nat]

RawRows == [day : Days, kind : Kinds, ref : Refs]
AwardRows ==
  [day : Days, type : ActivityTypes, xp : Nat, seeds : Nat, late : BOOLEAN]

StreakRow ==
  [current : Nat, best : Nat, last : 0 .. LastDay, leaves : Nat, growth : Nat]

\* dayTotal[d] sums the awards of day d and weekTotal[d] those from Monday up to
\* day d: _activityTotals recomputes them from rows that are never removed.
\* xpLedger and seedLedger are the sums of the ledgers, xp is the shown XP.
ForestType ==
  [rows : SUBSET RawRows, awards : SUBSET AwardRows,
   dayTotal : [Days -> Amount], weekTotal : [Days -> Amount],
   xpLedger : Nat, seedLedger : Nat, xp : Nat, streak : StreakRow]

Nothing == [xp |-> 0, seeds |-> 0]
NoStreak == [current |-> 0, best |-> 0, last |-> 0, leaves |-> 0, growth |-> 0]

EmptyForest ==
  [rows |-> {}, awards |-> {},
   dayTotal |-> [d \in Days |-> Nothing], weekTotal |-> [d \in Days |-> Nothing],
   xpLedger |-> 0, seedLedger |-> 0, xp |-> 0, streak |-> NoStreak]

HasAward(f, day, type) == \E a \in f.awards : a.day = day /\ a.type = type
KindsOn(f, day) == {r.kind : r \in {s \in f.rows : s.day = day}}
CompletedDays(f) == {r.day : r \in f.rows}

Week(day) == (day - 1) \div WeekLength
SameWeekFrom(day) == {d \in Days : d >= day /\ Week(d) = Week(day)}

-----------------------------------------------------------------------------
\* _award: what is left of the day's cap, then of the week's cap up to the day.

Left(reward, cap, used) ==
  IF cap - used >= reward THEN reward ELSE IF cap > used THEN cap - used ELSE 0

\* Fault: the week's cap is forgotten.
GrantedOfDay(f, day, type) ==
  [xp    |-> Left(xpRewards[type], DayCap.xp, f.dayTotal[day].xp),
   seeds |-> Left(seedRewards[type], DayCap.seeds, f.dayTotal[day].seeds)]

Granted(f, day, type) ==
  [xp |-> Left(Left(xpRewards[type], DayCap.xp, f.dayTotal[day].xp),
               WeekCap.xp, f.weekTotal[day].xp),
   seeds |-> Left(Left(seedRewards[type], DayCap.seeds, f.dayTotal[day].seeds),
                  WeekCap.seeds, f.weekTotal[day].seeds)]

Plus(a, b) == [xp |-> a.xp + b.xp, seeds |-> a.seeds + b.seeds]

Award(f, day, type) ==
  LET given == Granted(f, day, type)
      late  == \E a \in f.awards : a.day > day
      row   == [day |-> day, type |-> type, xp |-> given.xp,
                seeds |-> given.seeds, late |-> late]
  IN  IF HasAward(f, day, type)
      THEN f
      ELSE [f EXCEPT
              !.awards = @ \cup {row},
              !.dayTotal[day] = Plus(@, given),
              !.weekTotal = [d \in Days |-> IF d \in SameWeekFrom(day)
                                            THEN Plus(@[d], given) ELSE @[d]],
              !.xpLedger = @ + given.xp,
              !.seedLedger = @ + given.seeds]

-----------------------------------------------------------------------------
\* _updateStreak: the day after the last one continues the streak, one missed
\* day is bridged by a leaf, any other day starts again. Earlier days and the
\* same day change nothing.

Continues(s, day) ==
  /\ s.last # 0
  /\ \/ day - s.last = 1
     \/ day - s.last = 2 /\ s.leaves > 0

\* Faults: an earlier day is taken for a later one; a leaf is not given up; a
\* leaf is given up for any number of missed days.
StreakOfAnyDay(s, day) ==
  LET current == IF Continues(s, day) THEN s.current + 1 ELSE 1
  IN  [s EXCEPT !.current = current, !.last = day,
                !.best = IF current > @ THEN current ELSE @]

StreakOnKeptLeaf(s, day) ==
  IF s.last # 0 /\ day <= s.last THEN s ELSE StreakOfAnyDay(s, day)

StreakOnAnyGap(s, day) ==
  LET t == StreakOnKeptLeaf(s, day)
  IN  IF s.last # 0 /\ day - s.last >= 2 /\ s.leaves > 0
      THEN [t EXCEPT !.leaves = @ - 1] ELSE t

UpdatedStreak(s, day) ==
  LET current == IF Continues(s, day) THEN s.current + 1 ELSE 1
      spends  == Continues(s, day) /\ day - s.last = 2
  IN  IF s.last # 0 /\ day <= s.last
      THEN s
      ELSE [s EXCEPT !.current = current,
                     !.best = IF current > @ THEN current ELSE @,
                     !.last = day,
                     !.leaves = IF spends THEN @ - 1 ELSE @]

-----------------------------------------------------------------------------
\* _synchronizeGamificationState: the shown XP is overwritten by the ledger.
Synchronized(f) == [f EXCEPT !.xp = f.xpLedger]

\* The part of _recordMeaningful between the raw row and the bonus: the first
\* action of a day, or the first of a second kind.
WithDayAward(f, kinds, kind, day) ==
  IF kinds = {}
  THEN LET g == Award(f, day, "firstMeaningfulAction")
       IN  [g EXCEPT !.streak = UpdatedStreak(@, day)]
  ELSE IF kind \notin kinds THEN Award(f, day, "secondDistinctAction") ELSE f

\* Fault: the bonus comes with the first action of the day only.
BonusOfFirst(f, kind, day) ==
  IF kind \in DOMAIN Bonus /\ KindsOn(f, day) = {kind}
  THEN Award(f, day, Bonus[kind]) ELSE f

WithBonus(f, kind, day) ==
  IF kind \in DOMAIN Bonus THEN Award(f, day, Bonus[kind]) ELSE f

\* _recordMeaningful: an action with the same source on the same day was
\* recorded before, and is left alone.
Recorded(f, kind, day, ref) ==
  LET row == [day |-> day, kind |-> kind, ref |-> ref]
      raw == [f EXCEPT !.rows = @ \cup {row}]
  IN  IF \E r \in f.rows : r.day = day /\ r.ref = ref
      THEN f
      ELSE Synchronized(
             WithBonus(WithDayAward(raw, KindsOn(f, day), kind, day), kind, day))

-----------------------------------------------------------------------------
\* Operations. A receipt that is already an expense is not recorded again.

SourceUsed(source) == source # 0 /\ \E r \in records : r.source = source

\* The id addExpense returns.
ExpenseId(source) ==
  IF SourceUsed(source)
  THEN (CHOOSE r \in records : r.source = source).id
  ELSE nextId

AddRecord(kind, day, source, ref) ==
  /\ day <= today
  /\ nextId <= MaxRecords
  /\ records' = records \cup {[id |-> nextId, kind |-> kind, source |-> source]}
  /\ nextId' = nextId + 1
  /\ forest' = Recorded(forest, kind, day, ref)
  /\ UNCHANGED today

AddExpense(day, source) ==
  IF SourceUsed(source)
  THEN day <= today /\ UNCHANGED activityVars
  ELSE IF source # 0
       THEN AddRecord("receipt", day, source,
                      [type |-> "receipt", key |-> source])
       ELSE AddRecord("expense", day, 0, [type |-> "record", key |-> nextId])

AddIncome(day) ==
  AddRecord("income", day, 0, [type |-> "record", key |-> nextId])

\* The calendar offers every day, later ones too.
RecordDailyReview(day) ==
  /\ forest' = Recorded(forest, "daily_review", day,
                        [type |-> "review", key |-> day])
  /\ UNCHANGED <<today, records, nextId>>

NextDay ==
  /\ today < LastDay
  /\ today' = today + 1
  /\ UNCHANGED <<records, nextId, forest>>

ActivityInit ==
  /\ today = 1
  /\ records = {}
  /\ nextId = 1
  /\ forest = EmptyForest

ActivityTypeOK ==
  /\ today \in Days
  /\ records \subseteq [id : 1 .. MaxRecords, source : {0} \cup Receipts,
                        kind : {"expense", "receipt", "income"}]
  /\ nextId \in 1 .. MaxRecords + 1
  /\ forest \in ForestType

-----------------------------------------------------------------------------
\* Properties of the engine.

\* What a day has earned follows from the kinds of action recorded on it,
\* whatever their order and however the calls were repeated.
EarnedTypes(kinds) ==
  {t \in ActivityTypes :
     \/ t = "firstMeaningfulAction" /\ kinds # {}
     \/ t = "secondDistinctAction" /\ Cardinality(kinds) >= 2
     \/ \E k \in kinds \cap DOMAIN Bonus : Bonus[k] = t}

AwardsMatchRecords ==
  \A d \in Days :
    {a.type : a \in {b \in forest.awards : b.day = d}}
      = EarnedTypes(KindsOn(forest, d))

\* No day earns more than its cap, and no week more than the week's, as long as
\* the days of the week were recorded in order. (The week's total counts from
\* Monday to the day of the award, so awards entered late are not limited by
\* those of the days after: daily_activity_engine.dart:162.)
InOrder(day) ==
  \A a \in forest.awards : Week(a.day) = Week(day) => ~a.late

CapsRespected ==
  \A d \in Days :
    /\ forest.dayTotal[d].xp <= DayCap.xp
    /\ forest.dayTotal[d].seeds <= DayCap.seeds
    /\ InOrder(d) => /\ forest.weekTotal[d].xp <= WeekCap.xp
                     /\ forest.weekTotal[d].seeds <= WeekCap.seeds

\* The streak is the one the award rows tell: its days are the latest days
\* credited on time, consecutive but for single missed days, and it goes back as
\* far as it can.
Credited ==
  {a.day : a \in {b \in forest.awards :
                    b.type = "firstMeaningfulAction" /\ ~b.late}}
StreakDays ==
  {d \in Credited :
     Cardinality({e \in Credited : e > d}) < forest.streak.current}
MissedDays ==
  {d \in Days : /\ d \notin StreakDays
                /\ \E e \in StreakDays : e < d
                /\ d < forest.streak.last}

StreakMatchesHistory ==
  /\ Cardinality(StreakDays) = forest.streak.current
  /\ \A d \in Credited : d <= forest.streak.last
  /\ StreakDays # {} => forest.streak.last \in StreakDays
  /\ \A d \in MissedDays : d - 1 \in StreakDays /\ d + 1 \in StreakDays
  /\ \A d \in StreakDays, e \in Credited : d - 1 = e => e \in StreakDays
=============================================================================
