------------------------- MODULE LivingForestProofs -------------------------
(***************************************************************************)
(* The living forest's invariants for every number of screens, taps, goals   *)
(* and records.  First what one recorded action does to the awards, the caps *)
(* and the streak of the engine, of any state; then the proofs about         *)
(* LivingForest, which compose those lemmas.                                 *)
(***************************************************************************)
EXTENDS LivingForest, SumsAndRanks

-----------------------------------------------------------------------------
\* The engine.


\* The properties of the engine, of any state f of the device's tables.
AwardsMatch(f) ==
  \A d \in Days :
    {a.type : a \in {b \in f.awards : b.day = d}} = EarnedTypes(KindsOn(f, d))

InOrderIn(f, day) == \A a \in f.awards : Week(a.day) = Week(day) => ~a.late

\* Below an award nothing was added: the week's totals are level from the last
\* day that has one.
WeekLevel(f) ==
  \A d, e \in Days :
    d <= e /\ Week(d) = Week(e) /\ (\A a \in f.awards : a.day <= d)
      => f.weekTotal[e] = f.weekTotal[d]

Capped(f) ==
  \A d \in Days :
    /\ f.dayTotal[d].xp <= DayCap.xp
    /\ f.dayTotal[d].seeds <= DayCap.seeds
    /\ InOrderIn(f, d) => /\ f.weekTotal[d].xp <= WeekCap.xp
                          /\ f.weekTotal[d].seeds <= WeekCap.seeds

-----------------------------------------------------------------------------
\* Amounts.

\* What is left of the day's cap, then of the week's, fits under both.
LEMMA LeftFits ==
  ASSUME NEW reward \in Nat, NEW dayCap \in Nat, NEW dayUsed \in Nat,
         NEW weekCap \in Nat, NEW weekUsed \in Nat
  PROVE  LET given == Left(Left(reward, dayCap, dayUsed), weekCap, weekUsed) IN
         /\ given \in Nat
         /\ dayUsed <= dayCap => dayUsed + given <= dayCap
         /\ weekUsed <= weekCap => weekUsed + given <= weekCap
BY DEF Left

LEMMA RewardsTyped ==
  ASSUME NEW type \in ActivityTypes
  PROVE  xpRewards[type] \in Nat /\ seedRewards[type] \in Nat
BY DEF ActivityTypes, xpRewards, seedRewards

LEMMA GrantedFits ==
  ASSUME NEW f \in ForestType, NEW day \in Days, NEW type \in ActivityTypes
  PROVE  LET given == Granted(f, day, type) IN
         /\ given \in Amount
         /\ f.dayTotal[day].xp <= DayCap.xp => f.dayTotal[day].xp + given.xp <= DayCap.xp
         /\ f.dayTotal[day].seeds <= DayCap.seeds
              => f.dayTotal[day].seeds + given.seeds <= DayCap.seeds
         /\ f.weekTotal[day].xp <= WeekCap.xp
              => f.weekTotal[day].xp + given.xp <= WeekCap.xp
         /\ f.weekTotal[day].seeds <= WeekCap.seeds
              => f.weekTotal[day].seeds + given.seeds <= WeekCap.seeds
<1> DEFINE given == Granted(f, day, type)
<1>1. /\ DayCap.xp \in Nat /\ DayCap.seeds \in Nat
      /\ WeekCap.xp \in Nat /\ WeekCap.seeds \in Nat
  BY ActivityAssumption DEF Amount
<1>2. /\ f.dayTotal[day].xp \in Nat /\ f.dayTotal[day].seeds \in Nat
      /\ f.weekTotal[day].xp \in Nat /\ f.weekTotal[day].seeds \in Nat
  BY DEF ForestType, Amount
<1>3. xpRewards[type] \in Nat /\ seedRewards[type] \in Nat
  BY RewardsTyped
<1>4. /\ given = [xp |-> given.xp, seeds |-> given.seeds]
      /\ given.xp = Left(Left(xpRewards[type], DayCap.xp, f.dayTotal[day].xp),
                         WeekCap.xp, f.weekTotal[day].xp)
      /\ given.seeds = Left(Left(seedRewards[type], DayCap.seeds, f.dayTotal[day].seeds),
                            WeekCap.seeds, f.weekTotal[day].seeds)
  BY DEF Granted
<1> HIDE DEF given
<1>5. /\ given.xp \in Nat
      /\ f.dayTotal[day].xp <= DayCap.xp => f.dayTotal[day].xp + given.xp <= DayCap.xp
      /\ f.weekTotal[day].xp <= WeekCap.xp => f.weekTotal[day].xp + given.xp <= WeekCap.xp
  BY <1>1, <1>2, <1>3, <1>4 DEF Left
<1>6. /\ given.seeds \in Nat
      /\ f.dayTotal[day].seeds <= DayCap.seeds
           => f.dayTotal[day].seeds + given.seeds <= DayCap.seeds
      /\ f.weekTotal[day].seeds <= WeekCap.seeds
           => f.weekTotal[day].seeds + given.seeds <= WeekCap.seeds
  BY <1>1, <1>2, <1>3, <1>4 DEF Left
<1> QED BY <1>4, <1>5, <1>6 DEF Amount, given

-----------------------------------------------------------------------------
\* _award: an award of the day is given once, and raises the totals of its day
\* and of the rest of its week.
Added(f, g, row, given) ==
  /\ g.awards = f.awards \cup {row}
  /\ g.dayTotal = [f.dayTotal EXCEPT ![row.day] = Plus(@, given)]
  /\ \A d \in Days : g.weekTotal[d] = IF d \in SameWeekFrom(row.day)
                                        THEN Plus(f.weekTotal[d], given)
                                        ELSE f.weekTotal[d]
  /\ g.xpLedger = f.xpLedger + row.xp
  /\ g.seedLedger = f.seedLedger + row.seeds

NewAward(f, day, type) ==
  [day |-> day, type |-> type, xp |-> Granted(f, day, type).xp,
   seeds |-> Granted(f, day, type).seeds,
   late |-> \E a \in f.awards : a.day > day]

LEMMA PlusTyped ==
  ASSUME NEW a \in Amount, NEW b \in Amount
  PROVE  Plus(a, b) \in Amount
BY DEF Plus, Amount

LEMMA AwardEffect ==
  ASSUME NEW f \in ForestType, NEW day \in Days, NEW type \in ActivityTypes
  PROVE  LET g == Award(f, day, type) IN
         /\ g \in ForestType
         /\ g.rows = f.rows /\ g.streak = f.streak /\ g.xp = f.xp
         /\ HasAward(f, day, type) => g = f
         /\ ~HasAward(f, day, type) =>
              /\ NewAward(f, day, type) \in AwardRows \ f.awards
              /\ Added(f, g, NewAward(f, day, type), Granted(f, day, type))
<1> DEFINE given == Granted(f, day, type)
           row == NewAward(f, day, type)
           rows == f.awards \cup {row}
           days == [f.dayTotal EXCEPT ![day] = Plus(@, given)]
           weeks == [d \in Days |-> IF d \in SameWeekFrom(day)
                                      THEN Plus(f.weekTotal[d], given) ELSE f.weekTotal[d]]
           xps == f.xpLedger + given.xp
           seeds == f.seedLedger + given.seeds
           g == [f EXCEPT !.awards = rows, !.dayTotal = days, !.weekTotal = weeks,
                          !.xpLedger = xps, !.seedLedger = seeds]
<1>1. given \in Amount
  BY GrantedFits
<1>2. row \in AwardRows
  BY <1>1 DEF NewAward, AwardRows, Amount
<1>3. row.day = day /\ row.type = type /\ row.xp = given.xp /\ row.seeds = given.seeds
  BY DEF NewAward
<1>4. Award(f, day, type) = IF HasAward(f, day, type) THEN f ELSE g
  BY DEF Award, NewAward, ForestType
<1>5. rows \in SUBSET AwardRows
  BY <1>2 DEF ForestType
<1>6. days \in [Days -> Amount]
  BY <1>1, PlusTyped DEF ForestType
<1>7. weeks \in [Days -> Amount]
  BY <1>1, PlusTyped DEF ForestType
<1>8. xps \in Nat /\ seeds \in Nat
  BY <1>1 DEF Amount, ForestType
<1> HIDE DEF given, row, rows, days, weeks, xps, seeds
<1>9. /\ g \in ForestType
      /\ g.rows = f.rows /\ g.streak = f.streak /\ g.xp = f.xp
      /\ g.awards = rows /\ g.dayTotal = days /\ g.weekTotal = weeks
      /\ g.xpLedger = xps /\ g.seedLedger = seeds
  BY <1>5, <1>6, <1>7, <1>8 DEF ForestType
<1> HIDE DEF g
<1>10. Added(f, g, row, given)
  BY <1>3, <1>9 DEF Added, rows, days, weeks, xps, seeds
<1>11. ~HasAward(f, day, type) => row \notin f.awards
  BY <1>3 DEF HasAward
<1> QED BY <1>2, <1>4, <1>9, <1>10, <1>11 DEF given, row

\* The types a day was awarded.
AwardedOn(f, day) == {a.type : a \in {b \in f.awards : b.day = day}}

LEMMA AwardedEffect ==
  ASSUME NEW f \in ForestType, NEW day \in Days, NEW type \in ActivityTypes,
         NEW d \in Days
  PROVE  AwardedOn(Award(f, day, type), d) =
           AwardedOn(f, d) \cup (IF d = day THEN {type} ELSE {})
<1> DEFINE g == Award(f, day, type)
           row == NewAward(f, day, type)
<1>1. row.day = day /\ row.type = type
  BY DEF NewAward
<1>2. CASE HasAward(f, day, type)
  <2>1. g = f
    BY <1>2, AwardEffect
  <2>2. d = day => type \in AwardedOn(f, d)
    BY <1>2 DEF HasAward, AwardedOn
  <2> QED BY <2>1, <2>2
<1>3. CASE ~HasAward(f, day, type)
  <2>1. g.awards = f.awards \cup {row}
    BY <1>3, AwardEffect DEF Added
  <2> HIDE DEF g, row
  <2> QED BY <1>1, <2>1 DEF AwardedOn, g
<1> QED BY <1>2, <1>3

LEMMA AwardWithinCaps ==
  ASSUME NEW f \in ForestType, NEW day \in Days, NEW type \in ActivityTypes,
         WeekLevel(f), Capped(f)
  PROVE  WeekLevel(Award(f, day, type)) /\ Capped(Award(f, day, type))
<1> DEFINE g == Award(f, day, type)
           row == NewAward(f, day, type)
           given == Granted(f, day, type)
<1>1. CASE HasAward(f, day, type)
  BY <1>1, AwardEffect
<1>2. CASE ~HasAward(f, day, type)
  <2>1. /\ row.day = day
        /\ row.late = (\E a \in f.awards : a.day > day)
        /\ g \in ForestType
        /\ Added(f, g, row, given)
    BY <1>2, AwardEffect DEF NewAward
  <2>2. /\ given \in Amount
        /\ f.dayTotal[day].xp <= DayCap.xp => f.dayTotal[day].xp + given.xp <= DayCap.xp
        /\ f.dayTotal[day].seeds <= DayCap.seeds
             => f.dayTotal[day].seeds + given.seeds <= DayCap.seeds
        /\ f.weekTotal[day].xp <= WeekCap.xp
             => f.weekTotal[day].xp + given.xp <= WeekCap.xp
        /\ f.weekTotal[day].seeds <= WeekCap.seeds
             => f.weekTotal[day].seeds + given.seeds <= WeekCap.seeds
    BY GrantedFits
  <2> HIDE DEF g, row, given
  <2>3. /\ g.awards = f.awards \cup {row}
        /\ \A d \in Days : g.dayTotal[d] = IF d = day THEN Plus(f.dayTotal[d], given)
                                                     ELSE f.dayTotal[d]
        /\ \A d \in Days : g.weekTotal[d] = IF d >= day /\ Week(d) = Week(day)
                                             THEN Plus(f.weekTotal[d], given)
                                             ELSE f.weekTotal[d]
    BY <2>1 DEF Added, SameWeekFrom, ForestType
  <2>4. WeekLevel(g)
    <3> SUFFICES ASSUME NEW d \in Days, NEW e \in Days, d <= e, Week(d) = Week(e),
                        \A a \in g.awards : a.day <= d
                 PROVE  g.weekTotal[e] = g.weekTotal[d]
      BY DEF WeekLevel
    <3>1. day <= d
      BY <2>1, <2>3
    <3>2. f.weekTotal[e] = f.weekTotal[d]
      BY <2>3 DEF WeekLevel
    <3> QED BY <2>3, <3>1, <3>2 DEF Days
  <2>5. Capped(g)
    <3> SUFFICES ASSUME NEW d \in Days
                 PROVE  /\ g.dayTotal[d].xp <= DayCap.xp
                        /\ g.dayTotal[d].seeds <= DayCap.seeds
                        /\ InOrderIn(g, d) => /\ g.weekTotal[d].xp <= WeekCap.xp
                                              /\ g.weekTotal[d].seeds <= WeekCap.seeds
      BY DEF Capped
    <3>1. g.dayTotal[d].xp <= DayCap.xp /\ g.dayTotal[d].seeds <= DayCap.seeds
      <4>1. f.dayTotal[d].xp <= DayCap.xp /\ f.dayTotal[d].seeds <= DayCap.seeds
        BY DEF Capped
      <4>2. CASE d = day
        <5>1. /\ g.dayTotal[d].xp = f.dayTotal[day].xp + given.xp
              /\ g.dayTotal[d].seeds = f.dayTotal[day].seeds + given.seeds
          <6>1. g.dayTotal[d] = Plus(f.dayTotal[day], given)
            BY <2>3, <4>2
          <6> QED BY <6>1 DEF Plus
        <5> QED BY <2>2, <4>1, <4>2, <5>1
      <4>3. CASE d # day
        BY <2>3, <4>1, <4>3
      <4> QED BY <4>2, <4>3
    <3>2. ASSUME InOrderIn(g, d)
          PROVE  g.weekTotal[d].xp <= WeekCap.xp /\ g.weekTotal[d].seeds <= WeekCap.seeds
      <4>1. InOrderIn(f, d)
        BY <2>3, <3>2 DEF InOrderIn
      <4>2. f.weekTotal[d].xp <= WeekCap.xp /\ f.weekTotal[d].seeds <= WeekCap.seeds
        BY <4>1 DEF Capped
      <4>3. CASE d >= day /\ Week(d) = Week(day)
        <5>1. ~row.late
          BY <2>1, <2>3, <3>2, <4>3 DEF InOrderIn
        <5>2. \A a \in f.awards : a.day <= day
          BY <2>1, <5>1 DEF ForestType, AwardRows, Days
        <5>3. f.weekTotal[d] = f.weekTotal[day]
          BY <4>3, <5>2 DEF WeekLevel, Days
        <5>4. /\ g.weekTotal[d].xp = f.weekTotal[day].xp + given.xp
              /\ g.weekTotal[d].seeds = f.weekTotal[day].seeds + given.seeds
          <6>1. g.weekTotal[d] = Plus(f.weekTotal[day], given)
            BY <2>3, <4>3, <5>3
          <6> QED BY <6>1 DEF Plus
        <5> QED BY <2>2, <4>2, <5>3, <5>4
      <4>4. CASE ~(d >= day /\ Week(d) = Week(day))
        BY <2>3, <4>2, <4>4
      <4> QED BY <4>3, <4>4
    <3> QED BY <3>1, <3>2
  <2> QED BY <2>4, <2>5 DEF g
<1> QED BY <1>1, <1>2

-----------------------------------------------------------------------------
\* The streak and the history the award rows tell, of any state f.
CreditedIn(f) ==
  {a.day : a \in {b \in f.awards : b.type = "firstMeaningfulAction" /\ ~b.late}}
After(days, d) == {e \in days : e > d}
StreakDaysIn(f) ==
  {d \in CreditedIn(f) : Cardinality(After(CreditedIn(f), d)) < f.streak.current}
MissedDaysIn(f) ==
  {d \in Days : /\ d \notin StreakDaysIn(f)
                /\ \E e \in StreakDaysIn(f) : e < d
                /\ d < f.streak.last}

HistoryTold(f) ==
  /\ Cardinality(StreakDaysIn(f)) = f.streak.current
  /\ \A d \in CreditedIn(f) : d <= f.streak.last
  /\ StreakDaysIn(f) # {} => f.streak.last \in StreakDaysIn(f)
  /\ \A d \in MissedDaysIn(f) : d - 1 \in StreakDaysIn(f) /\ d + 1 \in StreakDaysIn(f)
  /\ \A d \in StreakDaysIn(f), e \in CreditedIn(f) :
       d - 1 = e => e \in StreakDaysIn(f)

\* The last day of the streak row is credited, and no award is later.
StreakInv(f) ==
  /\ HistoryTold(f)
  /\ \A a \in f.awards : a.day <= f.streak.last
  /\ f.streak.last # 0 => f.streak.last \in CreditedIn(f) /\ f.streak.current >= 1

\* A leaf that is spent bridges one missed day, and every missed day costs one.
LeavesTold(f, g) ==
  /\ Cardinality(MissedDaysIn(g)) + g.streak.leaves
       <= Cardinality(MissedDaysIn(f)) + f.streak.leaves
  /\ g.streak.leaves < f.streak.leaves =>
       /\ g.streak.leaves = f.streak.leaves - 1
       /\ g.streak.last = f.streak.last + 2
       /\ g.streak.current = f.streak.current + 1

LEMMA DaysFinite ==
  ASSUME NEW S \in SUBSET Days
  PROVE  IsFiniteSet(S) /\ Cardinality(S) \in Nat
<1>1. IsFiniteSet(Days)
  BY FS_Interval, ActivityAssumption DEF Days
<1> QED BY <1>1, FS_Subset, FS_CardinalityType

LEMMA HistoryTyped ==
  ASSUME NEW f \in ForestType
  PROVE  /\ CreditedIn(f) \in SUBSET Days
         /\ StreakDaysIn(f) \in SUBSET Days
         /\ MissedDaysIn(f) \in SUBSET Days
         /\ \A d \in Days : Cardinality(After(CreditedIn(f), d)) \in Nat
<1>1. CreditedIn(f) \in SUBSET Days
  BY DEF CreditedIn, ForestType, AwardRows
<1> QED BY <1>1, DaysFinite DEF StreakDaysIn, MissedDaysIn, After

\* The history depends on the credited days and on the streak row only.
LEMMA SameHistory ==
  ASSUME NEW f, NEW g, CreditedIn(g) = CreditedIn(f),
         g.streak.current = f.streak.current, g.streak.last = f.streak.last
  PROVE  /\ StreakDaysIn(g) = StreakDaysIn(f)
         /\ MissedDaysIn(g) = MissedDaysIn(f)
         /\ HistoryTold(f) => HistoryTold(g)
<1>1. StreakDaysIn(g) = StreakDaysIn(f)
  BY DEF StreakDaysIn
<1>2. MissedDaysIn(g) = MissedDaysIn(f)
  BY <1>1 DEF MissedDaysIn
<1> QED BY <1>1, <1>2 DEF HistoryTold

\* A day after all credited ones has none after it, and is one more for each.
LEMMA LaterDays ==
  ASSUME NEW C \in SUBSET Days, NEW day \in Days, \A c \in C : c < day
  PROVE  /\ Cardinality(After(C \cup {day}, day)) = 0
         /\ \A d \in C : Cardinality(After(C \cup {day}, d)) = Cardinality(After(C, d)) + 1
<1>1. After(C \cup {day}, day) = {}
  <2>1. \A e \in C \cup {day} : ~(e > day)
    BY ActivityAssumption DEF Days
  <2> QED BY <2>1 DEF After
<1>2. ASSUME NEW d \in C
      PROVE  Cardinality(After(C \cup {day}, d)) = Cardinality(After(C, d)) + 1
  <2>1. After(C \cup {day}, d) = After(C, d) \cup {day} /\ day \notin After(C, d)
    BY DEF After, Days
  <2>2. IsFiniteSet(After(C, d))
    BY DaysFinite DEF After
  <2> QED BY <2>1, <2>2, FS_AddElement
<1> QED BY <1>1, <1>2, FS_EmptySet

\* The first award of a day that is later than all awarded days.
LEMMA OnTimeKeeps ==
  ASSUME NEW f \in ForestType, NEW g \in ForestType, NEW day \in Days, StreakInv(f),
         \A a \in f.awards : a.day < day,
         CreditedIn(g) = CreditedIn(f) \cup {day},
         g.streak = UpdatedStreak(f.streak, day)
  PROVE  HistoryTold(g) /\ LeavesTold(f, g) /\ g.streak.last = day /\ g.streak.current >= 1
<1> DEFINE s == f.streak
           C == CreditedIn(f)
           SD == StreakDaysIn(f)
           M == MissedDaysIn(f)
<1>1. /\ s \in StreakRow /\ s.last \in 0 .. LastDay /\ s.current \in Nat /\ s.leaves \in Nat
      /\ LastDay \in Nat /\ day \in 1 .. LastDay
  BY ActivityAssumption DEF ForestType, StreakRow, Days
<1>2. C \in SUBSET Days /\ SD \in SUBSET C /\ M \in SUBSET Days
  BY HistoryTyped DEF StreakDaysIn
<1>3. \A c \in C : c < day /\ c <= s.last
  BY DEF StreakInv, HistoryTold, CreditedIn
<1>4. s.last # 0 => s.last \in C /\ s.current >= 1
  BY DEF StreakInv
<1>5. s.last < day
  BY <1>1, <1>3, <1>4
<1>6. /\ g.streak.last = day
      /\ g.streak.current = IF Continues(s, day) THEN s.current + 1 ELSE 1
      /\ g.streak.leaves = IF Continues(s, day) /\ day - s.last = 2
                            THEN s.leaves - 1 ELSE s.leaves
  BY <1>1, <1>5 DEF UpdatedStreak, StreakRow
<1>7. /\ CreditedIn(g) = C \cup {day}
      /\ Cardinality(After(C \cup {day}, day)) = 0
      /\ \A d \in C : /\ Cardinality(After(C \cup {day}, d)) = Cardinality(After(C, d)) + 1
                      /\ Cardinality(After(C, d)) \in Nat
  BY <1>2, <1>3, LaterDays, HistoryTyped
<1>8. IsFiniteSet(M) /\ Cardinality(M) \in Nat /\ IsFiniteSet(SD)
  BY <1>2, DaysFinite
<1> HIDE DEF s, C, SD, M
<1>9. CASE Continues(s, day)
  <2>1. /\ s.last \in C /\ s.last \in SD /\ s.current >= 1
        /\ Cardinality(SD) = s.current
    <3>1. s.last \in C /\ s.current >= 1 /\ Cardinality(SD) = s.current
      BY <1>4, <1>9 DEF Continues, StreakInv, HistoryTold, s, C, SD
    <3>2. Cardinality(SD) # 0
      BY <1>1, <3>1
    <3>3. SD # {}
      BY <3>2, FS_EmptySet
    <3> QED BY <3>1, <3>3 DEF StreakInv, HistoryTold, s, SD
  <2>2. StreakDaysIn(g) = SD \cup {day}
    <3>1. \A d : d \in StreakDaysIn(g) <=>
                  d \in C \cup {day} /\ Cardinality(After(C \cup {day}, d)) < s.current + 1
      BY <1>6, <1>7, <1>9 DEF StreakDaysIn
    <3>2. \A d : d \in SD <=> d \in C /\ Cardinality(After(C, d)) < s.current
      BY DEF SD, C, s, StreakDaysIn
    <3>3. \A d \in C : d \in StreakDaysIn(g) <=> d \in SD
      BY <1>1, <1>7, <3>1, <3>2
    <3>4. day \in StreakDaysIn(g)
      BY <1>1, <1>7, <3>1
    <3> QED BY <1>2, <3>1, <3>3, <3>4
  <2>3. Cardinality(SD \cup {day}) = s.current + 1
    <3>1. day \notin SD
      BY <1>1, <1>2, <1>3
    <3> QED BY <1>8, <2>1, <3>1, FS_AddElement
  <2>4. day - s.last = 1 \/ (day - s.last = 2 /\ s.leaves > 0)
    BY <1>9 DEF Continues
  <2>5. MissedDaysIn(g) = M \cup (IF day - s.last = 2 THEN {day - 1} ELSE {})
    <3>1. \A d \in Days : d \in MissedDaysIn(g) <=>
             /\ d \notin SD /\ d # day /\ d < day
             /\ \E e \in SD \cup {day} : e < d
      BY <1>1, <1>6, <2>2 DEF MissedDaysIn
    <3>2. \A d \in Days : d \in M <=> d \notin SD /\ d < s.last /\ \E e \in SD : e < d
      BY DEF MissedDaysIn, M, SD, s
    <3>3. MissedDaysIn(g) \in SUBSET Days /\ M \in SUBSET Days
      BY <1>2, HistoryTyped
    <3>4. ASSUME NEW d \in Days
          PROVE  d \in MissedDaysIn(g) <=> d \in M \/ (day - s.last = 2 /\ d = day - 1)
      <4>1. CASE d < s.last
        BY <1>1, <1>2, <1>3, <2>4, <3>1, <3>2, <4>1 DEF Days
      <4>2. CASE d = s.last
        BY <1>1, <2>1, <2>4, <3>1, <3>2, <4>2
      <4>3. CASE s.last < d /\ d < day
        BY <1>1, <1>2, <1>3, <2>1, <2>4, <3>1, <3>2, <4>3 DEF Days
      <4>4. CASE d >= day
        BY <1>1, <2>4, <3>1, <3>2, <4>4 DEF Days
      <4> QED BY <1>1, <4>1, <4>2, <4>3, <4>4 DEF Days
    <3>5. day - s.last = 2 => day - 1 \in Days
      BY <1>1 DEF Days
    <3> QED BY <3>3, <3>4, <3>5
  <2>6. HistoryTold(g)
    <3>1. \A d \in MissedDaysIn(g) : d - 1 \in SD \cup {day} /\ d + 1 \in SD \cup {day}
      <4>1. \A d \in M : d - 1 \in SD /\ d + 1 \in SD
        BY DEF StreakInv, HistoryTold, M, SD
      <4>2. day - s.last = 2 => (day - 1) - 1 = s.last /\ (day - 1) + 1 = day
        BY <1>1
      <4> QED BY <2>1, <2>5, <4>1, <4>2
    <3>2. \A d \in SD \cup {day}, e \in C \cup {day} : d - 1 = e => e \in SD \cup {day}
      <4>1. \A d \in SD, e \in C : d - 1 = e => e \in SD
        BY DEF StreakInv, HistoryTold, SD, C
      <4>2. \A e \in C : day - 1 = e => e = s.last
        BY <1>1, <1>2, <1>3, <2>4 DEF Days
      <4> QED BY <2>1, <4>1, <4>2
    <3>3. \A d \in C \cup {day} : d <= day
      BY <1>1, <1>2, <1>3 DEF Days
    <3> QED BY <1>6, <1>7, <1>9, <2>2, <2>3, <3>1, <3>2, <3>3 DEF HistoryTold
  <2>7. LeavesTold(f, g)
    <3>1. Cardinality(MissedDaysIn(g))
            <= Cardinality(M) + (IF day - s.last = 2 THEN 1 ELSE 0)
      <4>1. Cardinality(M \cup {day - 1}) <= Cardinality(M) + 1
        <5>1. Cardinality(M \cup {day - 1}) =
                IF day - 1 \in M THEN Cardinality(M) ELSE Cardinality(M) + 1
          BY <1>8, FS_AddElement
        <5> QED BY <1>8, <5>1
      <4>2. day - s.last # 2 => MissedDaysIn(g) = M
        BY <2>5
      <4>3. day - s.last = 2 => MissedDaysIn(g) = M \cup {day - 1}
        BY <2>5
      <4>4. CASE day - s.last = 2
        BY <4>1, <4>3, <4>4
      <4>5. CASE day - s.last # 2
        <5>1. Cardinality(MissedDaysIn(g)) = Cardinality(M)
          BY <4>2, <4>5
        <5> QED BY <1>8, <4>5, <5>1
      <4> QED BY <4>4, <4>5
    <3>2. Cardinality(MissedDaysIn(g)) \in Nat
      BY HistoryTyped, DaysFinite
    <3> QED BY <1>1, <1>6, <1>8, <1>9, <3>1, <3>2 DEF LeavesTold, s, M
  <2> QED BY <1>1, <1>6, <1>9, <2>6, <2>7
<1>10. CASE ~Continues(s, day)
  <2>1. StreakDaysIn(g) = {day}
    <3>1. \A d : d \in StreakDaysIn(g) <=>
                  d \in C \cup {day} /\ Cardinality(After(C \cup {day}, d)) < 1
      BY <1>6, <1>7, <1>10 DEF StreakDaysIn
    <3>2. ASSUME NEW d \in C
          PROVE  d \notin StreakDaysIn(g)
      <4>1. /\ Cardinality(After(C \cup {day}, d)) = Cardinality(After(C, d)) + 1
            /\ Cardinality(After(C, d)) \in Nat
        BY <1>7
      <4>2. ~(Cardinality(After(C \cup {day}, d)) < 1)
        BY <4>1
      <4> QED BY <3>1, <4>2
    <3>3. day \in StreakDaysIn(g)
      <4>1. Cardinality(After(C \cup {day}, day)) < 1
        BY <1>7
      <4> QED BY <3>1, <4>1
    <3> QED BY <3>1, <3>2, <3>3
  <2>2. MissedDaysIn(g) = {}
    BY <1>1, <1>6, <2>1 DEF MissedDaysIn, Days
  <2>3. HistoryTold(g)
    <3>1. \A d \in C \cup {day} : d <= day
      BY <1>1, <1>2, <1>3 DEF Days
    <3>2. \A e \in C \cup {day} : day - 1 # e
      <4>1. day - s.last # 1 \/ s.last = 0
        BY <1>10 DEF Continues
      <4>2. \A e \in C : e \in 1 .. s.last
        BY <1>1, <1>2, <1>3 DEF Days
      <4> QED BY <1>1, <1>5, <4>1, <4>2
    <3> QED BY <1>6, <1>7, <1>10, <2>1, <2>2, <3>1, <3>2, FS_Singleton DEF HistoryTold
  <2>4. LeavesTold(f, g)
    BY <1>1, <1>6, <1>8, <1>10, <2>2, FS_EmptySet DEF LeavesTold, s, M
  <2> QED BY <1>6, <1>10, <2>3, <2>4
<1> QED BY <1>9, <1>10

-----------------------------------------------------------------------------
\* What every award keeps.
EngineInv(f) ==
  /\ f \in ForestType
  /\ IsFiniteSet(f.awards)
  /\ WeekLevel(f)
  /\ Capped(f)

LEMMA AwardFinite ==
  ASSUME NEW f \in ForestType, NEW day \in Days, NEW type \in ActivityTypes,
         IsFiniteSet(f.awards)
  PROVE  IsFiniteSet(Award(f, day, type).awards)
<1>1. CASE HasAward(f, day, type)
  BY <1>1, AwardEffect
<1>2. CASE ~HasAward(f, day, type)
  <2>1. Award(f, day, type).awards = f.awards \cup {NewAward(f, day, type)}
    BY <1>2, AwardEffect DEF Added
  <2> QED BY <2>1, FS_AddElement
<1> QED BY <1>1, <1>2

\* An award on top of the first one of its day leaves the streak alone.
LEMMA BonusKeeps ==
  ASSUME NEW f, NEW day \in Days, NEW type \in ActivityTypes,
         EngineInv(f), type # "firstMeaningfulAction"
  PROVE  LET g == Award(f, day, type) IN
         /\ EngineInv(g)
         /\ g.rows = f.rows /\ g.streak = f.streak
         /\ MissedDaysIn(g) = MissedDaysIn(f)
         /\ StreakInv(f) /\ day <= f.streak.last => StreakInv(g)
<1> DEFINE g == Award(f, day, type)
           row == NewAward(f, day, type)
<1>1. f \in ForestType
  BY DEF EngineInv
<1>2. g \in ForestType /\ g.rows = f.rows /\ g.streak = f.streak
  BY <1>1, AwardEffect
<1>3. g.awards = f.awards \/ g.awards = f.awards \cup {row}
  BY <1>1, AwardEffect DEF Added
<1>4. row.day = day /\ row.type = type
  BY DEF NewAward
<1>5. WeekLevel(g) /\ Capped(g) /\ IsFiniteSet(g.awards)
  BY <1>1, AwardWithinCaps, AwardFinite DEF EngineInv
<1> HIDE DEF g, row
<1>6. CreditedIn(g) = CreditedIn(f)
  BY <1>3, <1>4 DEF CreditedIn
<1>7. MissedDaysIn(g) = MissedDaysIn(f)
  BY <1>2, <1>6, SameHistory
<1>8. ASSUME StreakInv(f), day <= f.streak.last
      PROVE  StreakInv(g)
  <2>1. \A a \in g.awards : a.day <= g.streak.last
    BY <1>2, <1>3, <1>4, <1>8 DEF StreakInv
  <2> QED BY <1>2, <1>6, <1>8, <2>1, SameHistory DEF StreakInv
<1> QED BY <1>2, <1>5, <1>7, <1>8 DEF EngineInv, g

LEMMA StreakTyped ==
  ASSUME NEW s \in StreakRow, NEW day \in Days
  PROVE  UpdatedStreak(s, day) \in StreakRow
<1>1. /\ s.current \in Nat /\ s.best \in Nat /\ s.last \in 0 .. LastDay
      /\ s.leaves \in Nat /\ s.growth \in Nat /\ day \in 0 .. LastDay
  BY ActivityAssumption DEF StreakRow, Days
<1> DEFINE current == IF Continues(s, day) THEN s.current + 1 ELSE 1
           best == IF current > s.best THEN current ELSE s.best
           leaves == IF Continues(s, day) /\ day - s.last = 2 THEN s.leaves - 1 ELSE s.leaves
<1>2. current \in Nat /\ best \in Nat
  BY <1>1
<1>3. leaves \in Nat
  BY <1>1 DEF Continues
<1>4. UpdatedStreak(s, day) =
        IF s.last # 0 /\ day <= s.last THEN s
        ELSE [s EXCEPT !.current = current, !.best = best, !.last = day, !.leaves = leaves]
  BY DEF UpdatedStreak
<1> HIDE DEF current, best, leaves
<1> QED BY <1>1, <1>2, <1>3, <1>4 DEF StreakRow

\* The first award of a day moves the streak on, unless it comes late.
LEMMA FirstKeeps ==
  ASSUME NEW f, NEW day \in Days, EngineInv(f), AwardedOn(f, day) = {}
  PROVE  LET h == Award(f, day, "firstMeaningfulAction")
             g == [h EXCEPT !.streak = UpdatedStreak(@, day)] IN
         /\ EngineInv(g)
         /\ g.rows = f.rows /\ g.awards = h.awards
         /\ g.xpLedger = h.xpLedger /\ g.seedLedger = h.seedLedger
         /\ StreakInv(f) => StreakInv(g) /\ LeavesTold(f, g) /\ day <= g.streak.last
<1> DEFINE h == Award(f, day, "firstMeaningfulAction")
           streak == UpdatedStreak(f.streak, day)
           g == [h EXCEPT !.streak = streak]
           row == NewAward(f, day, "firstMeaningfulAction")
<1>1. f \in ForestType /\ "firstMeaningfulAction" \in ActivityTypes
  BY DEF EngineInv, ActivityTypes, xpRewards
<1>2. h \in ForestType /\ h.rows = f.rows /\ h.streak = f.streak
  BY <1>1, AwardEffect
<1>3. ~HasAward(f, day, "firstMeaningfulAction") /\ \A a \in f.awards : a.day # day
  BY DEF AwardedOn, HasAward
<1>4. h.awards = f.awards \cup {row}
  BY <1>1, <1>3, AwardEffect DEF Added
<1>5. row.day = day /\ row.type = "firstMeaningfulAction"
      /\ row.late = (\E a \in f.awards : a.day > day)
  BY DEF NewAward
<1>6. WeekLevel(h) /\ Capped(h) /\ IsFiniteSet(h.awards)
  BY <1>1, AwardWithinCaps, AwardFinite DEF EngineInv
<1>7. streak \in StreakRow
  BY <1>1, StreakTyped DEF ForestType
<1> HIDE DEF h, row, streak
<1>8. /\ g \in ForestType /\ g.streak = streak /\ g.rows = f.rows /\ g.awards = h.awards
      /\ g.dayTotal = h.dayTotal /\ g.weekTotal = h.weekTotal
      /\ g.xpLedger = h.xpLedger /\ g.seedLedger = h.seedLedger
  BY <1>2, <1>7 DEF ForestType
<1> HIDE DEF g
<1>9. WeekLevel(g) /\ Capped(g) /\ IsFiniteSet(g.awards)
  BY <1>6, <1>8 DEF WeekLevel, Capped, InOrderIn
<1>10. f.streak \in StreakRow /\ f.streak.last \in 0 .. LastDay /\ f.streak.leaves \in Nat
       /\ LastDay \in Nat /\ day \in 1 .. LastDay
  BY <1>1, ActivityAssumption DEF ForestType, StreakRow, Days
<1>11. \A a \in f.awards : a.day \in 1 .. LastDay
  BY <1>1 DEF ForestType, AwardRows, Days
<1>12. ASSUME StreakInv(f), row.late
       PROVE  StreakInv(g) /\ LeavesTold(f, g) /\ day <= g.streak.last
  <2>1. PICK a \in f.awards : a.day > day
    BY <1>5, <1>12
  <2>2. day < f.streak.last
    BY <1>10, <1>11, <1>12, <2>1 DEF StreakInv
  <2>3. streak = f.streak
    BY <1>10, <2>2 DEF UpdatedStreak, streak
  <2>4. CreditedIn(g) = CreditedIn(f)
    BY <1>4, <1>8, <1>12 DEF CreditedIn
  <2>5. \A b \in g.awards : b.day <= g.streak.last
    BY <1>4, <1>5, <1>8, <1>10, <1>12, <2>2, <2>3 DEF StreakInv
  <2>6. StreakInv(g) /\ MissedDaysIn(g) = MissedDaysIn(f)
    BY <1>8, <1>12, <2>3, <2>4, <2>5, SameHistory DEF StreakInv
  <2>7. Cardinality(MissedDaysIn(f)) \in Nat
    BY <1>1, HistoryTyped, DaysFinite
  <2>8. LeavesTold(f, g)
    BY <1>8, <1>10, <2>3, <2>6, <2>7 DEF LeavesTold
  <2>9. day <= g.streak.last
    BY <1>8, <1>10, <2>2, <2>3
  <2> QED BY <2>6, <2>8, <2>9
<1>13. ASSUME StreakInv(f), ~row.late
       PROVE  StreakInv(g) /\ LeavesTold(f, g) /\ day <= g.streak.last
  <2>1. \A a \in f.awards : a.day < day
    BY <1>3, <1>5, <1>10, <1>11, <1>13
  <2>2. CreditedIn(g) = CreditedIn(f) \cup {day}
    <3>1. \A d : d \in CreditedIn(g) <=>
                 \E a \in f.awards \cup {row} : /\ a.type = "firstMeaningfulAction" /\ ~a.late
                                              /\ d = a.day
      BY <1>4, <1>8 DEF CreditedIn
    <3>2. \A d : d \in CreditedIn(f) <=>
                 \E a \in f.awards : a.type = "firstMeaningfulAction" /\ ~a.late /\ d = a.day
      BY DEF CreditedIn
    <3>3. \A d : d \in CreditedIn(g) <=> d \in CreditedIn(f) \/ d = day
      BY <1>5, <1>13, <3>1, <3>2, Zenon
    <3> HIDE DEF g
    <3> QED BY <3>3, Zenon
  <2>3. /\ HistoryTold(g) /\ LeavesTold(f, g)
        /\ g.streak.last = day /\ g.streak.current >= 1
    BY <1>1, <1>8, <1>13, <2>1, <2>2, OnTimeKeeps DEF streak
  <2>4. \A a \in g.awards : a.day <= g.streak.last
    BY <1>4, <1>5, <1>8, <1>10, <1>11, <2>1, <2>3
  <2>5. StreakInv(g)
    BY <2>2, <2>3, <2>4 DEF StreakInv
  <2>6. day <= g.streak.last
    BY <1>10, <2>3
  <2> QED BY <2>3, <2>5, <2>6
<1>14. /\ EngineInv(g)
       /\ StreakInv(f) => StreakInv(g) /\ LeavesTold(f, g) /\ day <= g.streak.last
       /\ g.rows = f.rows /\ g.awards = h.awards
       /\ g.xpLedger = h.xpLedger /\ g.seedLedger = h.seedLedger
  BY <1>8, <1>9, <1>12, <1>13 DEF EngineInv
<1>15. g = [h EXCEPT !.streak = UpdatedStreak(@, day)]
  BY <1>2 DEF g, streak
<1> QED BY <1>14, <1>15 DEF h

-----------------------------------------------------------------------------
\* _recordMeaningful.

LEMMA Bonuses ==
  /\ \A kind \in DOMAIN Bonus :
       Bonus[kind] \in ActivityTypes \ {"firstMeaningfulAction", "secondDistinctAction"}
  /\ {"firstMeaningfulAction", "secondDistinctAction"} \subseteq ActivityTypes
BY DEF Bonus, ActivityTypes, xpRewards

\* What one more kind of action earns a day.
LEMMA OneMoreKind ==
  ASSUME NEW kinds \in SUBSET Kinds, NEW kind \in Kinds
  PROVE  EarnedTypes(kinds \cup {kind}) =
           EarnedTypes(kinds)
             \cup (IF kinds = {} THEN {"firstMeaningfulAction"}
                   ELSE IF kind \notin kinds THEN {"secondDistinctAction"} ELSE {})
             \cup (IF kind \in DOMAIN Bonus THEN {Bonus[kind]} ELSE {})
<1>1. IsFiniteSet(kinds) /\ Cardinality(kinds) \in Nat
  <2> DEFINE two == {"expense"} \cup {"receipt"}
             three == two \cup {"income"}
             four == three \cup {"goal_contribution"}
             five == four \cup {"daily_review"}
  <2>1. Kinds = five
    BY DEF Kinds
  <2>2. IsFiniteSet(two)
    BY FS_Singleton, FS_Union
  <2> HIDE DEF two
  <2>3. IsFiniteSet(three)
    BY <2>2, FS_AddElement
  <2> HIDE DEF three
  <2>4. IsFiniteSet(four)
    BY <2>3, FS_AddElement
  <2> HIDE DEF four
  <2>5. IsFiniteSet(five)
    BY <2>4, FS_AddElement
  <2> QED BY <2>1, <2>5, FS_Subset, FS_CardinalityType
<1>2. Cardinality(kinds \cup {kind}) =
        IF kind \in kinds THEN Cardinality(kinds) ELSE Cardinality(kinds) + 1
  BY <1>1, FS_AddElement
<1>3. Cardinality(kinds) = 0 <=> kinds = {}
  BY <1>1, FS_EmptySet
<1>4. /\ kinds = {} => ~(Cardinality(kinds \cup {kind}) >= 2)
      /\ kinds # {} /\ kind \in kinds => Cardinality(kinds \cup {kind}) = Cardinality(kinds)
      /\ kinds # {} /\ kind \notin kinds => Cardinality(kinds \cup {kind}) >= 2
      /\ kinds = {} => ~(Cardinality(kinds) >= 2)
  BY <1>1, <1>2, <1>3
<1>5. \A t \in ActivityTypes :
        (\E k \in (kinds \cup {kind}) \cap DOMAIN Bonus : Bonus[k] = t)
          <=> \/ \E k \in kinds \cap DOMAIN Bonus : Bonus[k] = t
              \/ kind \in DOMAIN Bonus /\ Bonus[kind] = t
  OBVIOUS
<1>6. \A t : t \in EarnedTypes(kinds) <=>
        /\ t \in ActivityTypes
        /\ \/ t = "firstMeaningfulAction" /\ kinds # {}
           \/ t = "secondDistinctAction" /\ Cardinality(kinds) >= 2
           \/ \E k \in kinds \cap DOMAIN Bonus : Bonus[k] = t
  BY DEF EarnedTypes
<1>7. \A t : t \in EarnedTypes(kinds \cup {kind}) <=>
        /\ t \in ActivityTypes
        /\ \/ t = "firstMeaningfulAction"
           \/ t = "secondDistinctAction" /\ Cardinality(kinds \cup {kind}) >= 2
           \/ \E k \in (kinds \cup {kind}) \cap DOMAIN Bonus : Bonus[k] = t
  BY DEF EarnedTypes
<1> QED
  <2> DEFINE more == IF kinds = {} THEN {"firstMeaningfulAction"}
                     ELSE IF kind \notin kinds THEN {"secondDistinctAction"} ELSE {}
             bonus == IF kind \in DOMAIN Bonus THEN {Bonus[kind]} ELSE {}
  <2>1. /\ kinds = {} => more = {"firstMeaningfulAction"}
        /\ kinds # {} /\ kind \notin kinds => more = {"secondDistinctAction"}
        /\ kinds # {} /\ kind \in kinds => more = {}
    OBVIOUS
  <2>2. /\ kind \in DOMAIN Bonus => bonus = {Bonus[kind]}
        /\ kind \notin DOMAIN Bonus => bonus = {}
    OBVIOUS
  <2> HIDE DEF more, bonus
  <2>3. ASSUME NEW t
        PROVE  t \in EarnedTypes(kinds \cup {kind}) <=>
                 t \in EarnedTypes(kinds) \/ t \in more \/ t \in bonus
    <3>1. CASE t = "firstMeaningfulAction"
      BY <1>6, <1>7, <2>1, <3>1, Bonuses
    <3>2. CASE t = "secondDistinctAction"
      <4>1. \A k \in DOMAIN Bonus : Bonus[k] # t
        BY <3>2, Bonuses
      <4>2. t \in ActivityTypes /\ t \notin bonus
        BY <2>2, <3>2, <4>1, Bonuses
      <4>3. t \in EarnedTypes(kinds) <=> Cardinality(kinds) >= 2
        BY <1>6, <3>2, <4>1, <4>2
      <4>4. t \in EarnedTypes(kinds \cup {kind}) <=> Cardinality(kinds \cup {kind}) >= 2
        BY <1>7, <3>2, <4>1, <4>2
      <4>5. t \in more <=> kinds # {} /\ kind \notin kinds
        BY <2>1, <3>2
      <4> QED BY <1>4, <4>2, <4>3, <4>4, <4>5
    <3>3. CASE t \notin {"firstMeaningfulAction", "secondDistinctAction"}
      BY <1>5, <1>6, <1>7, <2>1, <2>2, <3>3, Bonuses
    <3> QED BY <3>1, <3>2, <3>3
  <2> QED BY <2>3 DEF more, bonus

\* What the ledgers hold besides the awards is not touched by an award.
AwardXp == [a \in AwardRows |-> a.xp]
AwardSeeds == [a \in AwardRows |-> a.seeds]

LedgersTold(f, g) ==
  /\ g.xpLedger - SumOver(AwardXp, g.awards) = f.xpLedger - SumOver(AwardXp, f.awards)
  /\ g.seedLedger - SumOver(AwardSeeds, g.awards) = f.seedLedger - SumOver(AwardSeeds, f.awards)
  /\ g.seedLedger >= f.seedLedger

LEMMA AwardLedgers ==
  ASSUME NEW f \in ForestType, NEW day \in Days, NEW type \in ActivityTypes,
         IsFiniteSet(f.awards)
  PROVE  LedgersTold(f, Award(f, day, type))
<1> DEFINE g == Award(f, day, type)
           row == NewAward(f, day, type)
<1>1. CASE HasAward(f, day, type)
  <2>1. g = f
    BY <1>1, AwardEffect
  <2>2. f.seedLedger \in Nat
    BY DEF ForestType
  <2> QED BY <2>1, <2>2 DEF LedgersTold
<1>2. CASE ~HasAward(f, day, type)
  <2>1. /\ row \in AwardRows /\ row \notin f.awards /\ f.awards \in SUBSET AwardRows
        /\ g.awards = f.awards \cup {row}
        /\ g.xpLedger = f.xpLedger + row.xp
        /\ g.seedLedger = f.seedLedger + row.seeds
    <3>1. row.xp = Granted(f, day, type).xp /\ row.seeds = Granted(f, day, type).seeds
      BY DEF NewAward
    <3>2. f.awards \in SUBSET AwardRows
      BY DEF ForestType
    <3>3. row \in AwardRows \ f.awards /\ Added(f, g, row, Granted(f, day, type))
      BY <1>2, AwardEffect
    <3> HIDE DEF g, row
    <3> QED BY <3>1, <3>2, <3>3 DEF Added
  <2> HIDE DEF g, row
  <2>2. /\ AwardXp[row] = row.xp /\ AwardSeeds[row] = row.seeds
        /\ row.xp \in Nat /\ row.seeds \in Nat
        /\ \A a \in f.awards \cup {row} : AwardXp[a] \in Int /\ AwardSeeds[a] \in Int
    BY <2>1 DEF AwardXp, AwardSeeds, AwardRows
  <2>3. /\ SumOver(AwardXp, f.awards \cup {row}) = AwardXp[row] + SumOver(AwardXp, f.awards)
        /\ SumOver(AwardXp, f.awards) \in Int
    BY <2>1, <2>2, SumOfOneMore, SumTyped
  <2>4. /\ SumOver(AwardSeeds, f.awards \cup {row}) = AwardSeeds[row] + SumOver(AwardSeeds, f.awards)
        /\ SumOver(AwardSeeds, f.awards) \in Int
    BY <2>1, <2>2, SumOfOneMore, SumTyped
  <2>5. f.xpLedger \in Nat /\ f.seedLedger \in Nat
    BY DEF ForestType
  <2> QED BY <2>1, <2>2, <2>3, <2>4, <2>5 DEF LedgersTold, g
<1> QED BY <1>1, <1>2

LEMMA LedgersCompose ==
  ASSUME NEW f \in ForestType, NEW h \in ForestType, NEW g \in ForestType,
         LedgersTold(f, h), LedgersTold(h, g)
  PROVE  LedgersTold(f, g)
<1>1. f.seedLedger \in Nat /\ h.seedLedger \in Nat /\ g.seedLedger \in Nat
  BY DEF ForestType
<1> QED BY <1>1 DEF LedgersTold

LEMMA SameLedgers ==
  ASSUME NEW f \in ForestType, NEW g, g.awards = f.awards, g.xpLedger = f.xpLedger,
         g.seedLedger = f.seedLedger
  PROVE  LedgersTold(f, g)
<1>1. f.seedLedger \in Nat
  BY DEF ForestType
<1> QED BY <1>1 DEF LedgersTold

\* The engine does not look at the raw rows, the ledgers or the growth.
LEMMA SameEngine ==
  ASSUME NEW f, EngineInv(f), NEW g \in ForestType, g.awards = f.awards,
         g.dayTotal = f.dayTotal, g.weekTotal = f.weekTotal,
         g.streak.current = f.streak.current, g.streak.last = f.streak.last
  PROVE  /\ EngineInv(g)
         /\ StreakInv(f) => StreakInv(g)
         /\ MissedDaysIn(g) = MissedDaysIn(f)
         /\ \A d : AwardedOn(g, d) = AwardedOn(f, d)
<1>1. CreditedIn(g) = CreditedIn(f)
  BY DEF CreditedIn
<1>2. MissedDaysIn(g) = MissedDaysIn(f) /\ (StreakInv(f) => StreakInv(g))
  BY <1>1, SameHistory DEF StreakInv
<1>3. WeekLevel(g) /\ Capped(g)
  BY DEF EngineInv, WeekLevel, Capped, InOrderIn
<1> QED BY <1>2, <1>3 DEF EngineInv, AwardedOn

LEMMA LeavesUntold ==
  ASSUME NEW f \in ForestType, NEW g, g.streak = f.streak, MissedDaysIn(g) = MissedDaysIn(f)
  PROVE  LeavesTold(f, g)
<1>1. f.streak.leaves \in Nat /\ Cardinality(MissedDaysIn(f)) \in Nat
  BY HistoryTyped, DaysFinite DEF ForestType, StreakRow
<1> QED BY <1>1 DEF LeavesTold

\* The award of the first action of a day, or of the first of a second kind.
LEMMA DayAwardKeeps ==
  ASSUME NEW f, EngineInv(f), NEW day \in Days, NEW kinds \in SUBSET Kinds,
         NEW kind \in Kinds, AwardedOn(f, day) = EarnedTypes(kinds)
  PROVE  LET h == WithDayAward(f, kinds, kind, day) IN
         /\ EngineInv(h)
         /\ h.rows = f.rows
         /\ StreakInv(f) => StreakInv(h) /\ LeavesTold(f, h) /\ day <= h.streak.last
         /\ LedgersTold(f, h)
         /\ \A d \in Days : AwardedOn(h, d) = AwardedOn(f, d) \cup
               (IF d # day THEN {}
                ELSE IF kinds = {} THEN {"firstMeaningfulAction"}
                ELSE IF kind \notin kinds THEN {"secondDistinctAction"} ELSE {})
<1>1. /\ f \in ForestType /\ IsFiniteSet(f.awards)
      /\ "firstMeaningfulAction" \in ActivityTypes
      /\ "secondDistinctAction" \in ActivityTypes
  BY Bonuses DEF EngineInv
<1>2. CASE kinds = {}
  <2> DEFINE g == Award(f, day, "firstMeaningfulAction")
             h == [g EXCEPT !.streak = UpdatedStreak(@, day)]
  <2>1. AwardedOn(f, day) = {}
    <3>1. EarnedTypes({}) = {}
      <4>1. ~(Cardinality({}) >= 2)
        BY FS_EmptySet
      <4> QED BY <4>1 DEF EarnedTypes
    <3> QED BY <1>2, <3>1
  <2>2. /\ EngineInv(h) /\ h.rows = f.rows /\ h.awards = g.awards
        /\ h.xpLedger = g.xpLedger /\ h.seedLedger = g.seedLedger
        /\ StreakInv(f) => StreakInv(h) /\ LeavesTold(f, h) /\ day <= h.streak.last
    BY <2>1, FirstKeeps
  <2>3. LedgersTold(f, g)
    BY <1>1, AwardLedgers
  <2>4. \A d \in Days : AwardedOn(g, d) =
          AwardedOn(f, d) \cup (IF d = day THEN {"firstMeaningfulAction"} ELSE {})
    BY <1>1, AwardedEffect
  <2>5. WithDayAward(f, kinds, kind, day) = h
    BY <1>2 DEF WithDayAward
  <2> HIDE DEF g, h
  <2>6. LedgersTold(f, h)
    BY <2>2, <2>3 DEF LedgersTold
  <2>7. \A d \in Days : AwardedOn(h, d) = AwardedOn(g, d)
    BY <2>2 DEF AwardedOn
  <2> QED BY <1>2, <2>2, <2>4, <2>5, <2>6, <2>7
<1>3. ASSUME kinds # {}, StreakInv(f)
      PROVE  day <= f.streak.last
  <2>1. "firstMeaningfulAction" \in AwardedOn(f, day)
    BY <1>1, <1>3 DEF EarnedTypes
  <2>2. PICK a \in f.awards : a.day = day
    BY <2>1 DEF AwardedOn
  <2> QED BY <1>3, <2>2 DEF StreakInv
<1>4. CASE kinds # {} /\ kind \notin kinds
  <2> DEFINE h == Award(f, day, "secondDistinctAction")
  <2>1. /\ EngineInv(h) /\ h.rows = f.rows /\ h.streak = f.streak
        /\ MissedDaysIn(h) = MissedDaysIn(f)
        /\ StreakInv(f) => StreakInv(h)
    BY <1>1, <1>3, <1>4, BonusKeeps
  <2>2. LedgersTold(f, h)
    BY <1>1, AwardLedgers
  <2>3. \A d \in Days : AwardedOn(h, d) =
          AwardedOn(f, d) \cup (IF d = day THEN {"secondDistinctAction"} ELSE {})
    BY <1>1, AwardedEffect
  <2>4. WithDayAward(f, kinds, kind, day) = h
    BY <1>4 DEF WithDayAward
  <2> HIDE DEF h
  <2>5. LeavesTold(f, h)
    BY <1>1, <2>1, LeavesUntold
  <2> QED BY <1>3, <1>4, <2>1, <2>2, <2>3, <2>4, <2>5
<1>5. CASE kinds # {} /\ kind \in kinds
  <2>1. WithDayAward(f, kinds, kind, day) = f
    BY <1>5 DEF WithDayAward
  <2>2. LeavesTold(f, f) /\ LedgersTold(f, f)
    BY <1>1, LeavesUntold, SameLedgers
  <2> QED BY <1>3, <1>5, <2>1, <2>2
<1> QED BY <1>2, <1>4, <1>5

\* A recorded action keeps the engine's invariants, enters its row, and leaves
\* the ledgers and the leaves as its awards and its streak account for.
LEMMA RecordedKeeps ==
  ASSUME NEW f, EngineInv(f), AwardsMatch(f), NEW kind \in Kinds, NEW day \in Days,
         NEW ref \in Refs
  PROVE  LET g == Recorded(f, kind, day, ref) IN
         /\ EngineInv(g) /\ AwardsMatch(g)
         /\ f.rows \subseteq g.rows
         /\ \E r \in g.rows : r.day = day /\ r.ref = ref
         /\ StreakInv(f) => StreakInv(g) /\ LeavesTold(f, g)
         /\ LedgersTold(f, g)
<1> DEFINE row == [day |-> day, kind |-> kind, ref |-> ref]
           raw == [f EXCEPT !.rows = @ \cup {row}]
           kinds == KindsOn(f, day)
           h == WithDayAward(raw, kinds, kind, day)
           b == WithBonus(h, kind, day)
           g == Synchronized(b)
<1>1. f \in ForestType
  BY DEF EngineInv
<1>2. CASE \E r \in f.rows : r.day = day /\ r.ref = ref
  <2>1. Recorded(f, kind, day, ref) = f
    BY <1>2 DEF Recorded
  <2>2. LeavesTold(f, f) /\ LedgersTold(f, f)
    BY <1>1, LeavesUntold, SameLedgers
  <2> QED BY <1>2, <2>1, <2>2
<1>3. CASE ~\E r \in f.rows : r.day = day /\ r.ref = ref
  <2>1. row \in RawRows /\ row.day = day /\ row.kind = kind /\ row.ref = ref
    BY DEF RawRows
  <2> HIDE DEF row
  <2>2. /\ raw \in ForestType /\ raw.rows = f.rows \cup {row}
        /\ raw.awards = f.awards /\ raw.dayTotal = f.dayTotal
        /\ raw.weekTotal = f.weekTotal /\ raw.streak = f.streak
        /\ raw.xpLedger = f.xpLedger /\ raw.seedLedger = f.seedLedger
    BY <1>1, <2>1 DEF ForestType
  <2>3. Recorded(f, kind, day, ref) = g
    BY <1>3 DEF Recorded, row
  <2> HIDE DEF raw
  <2>4. /\ EngineInv(raw) /\ MissedDaysIn(raw) = MissedDaysIn(f)
        /\ StreakInv(f) => StreakInv(raw)
        /\ \A d : AwardedOn(raw, d) = AwardedOn(f, d)
    BY <2>2, SameEngine
  <2>5. LeavesTold(f, raw) /\ LedgersTold(f, raw)
    BY <1>1, <2>2, <2>4, LeavesUntold, SameLedgers
  <2>6. kinds \in SUBSET Kinds /\ AwardedOn(raw, day) = EarnedTypes(kinds)
    BY <1>1, <2>4 DEF AwardsMatch, AwardedOn, KindsOn, ForestType, RawRows
  <2> HIDE DEF kinds
  <2>7. /\ EngineInv(h) /\ h.rows = raw.rows
        /\ StreakInv(f) => StreakInv(h) /\ LeavesTold(raw, h) /\ day <= h.streak.last
        /\ LedgersTold(raw, h)
        /\ \A d \in Days : AwardedOn(h, d) = AwardedOn(f, d) \cup
              (IF d # day THEN {}
               ELSE IF kinds = {} THEN {"firstMeaningfulAction"}
               ELSE IF kind \notin kinds THEN {"secondDistinctAction"} ELSE {})
    BY <2>4, <2>6, DayAwardKeeps
  <2> HIDE DEF h
  <2>8. h \in ForestType /\ IsFiniteSet(h.awards)
    BY <2>7 DEF EngineInv
  <2>9. /\ EngineInv(b) /\ b.rows = h.rows /\ b.streak = h.streak
        /\ MissedDaysIn(b) = MissedDaysIn(h)
        /\ StreakInv(f) => StreakInv(b)
        /\ LedgersTold(h, b)
        /\ \A d \in Days : AwardedOn(b, d) = AwardedOn(h, d) \cup
              (IF d = day /\ kind \in DOMAIN Bonus THEN {Bonus[kind]} ELSE {})
    <3>1. CASE kind \in DOMAIN Bonus
      <4>1. b = Award(h, day, Bonus[kind])
        BY <3>1 DEF WithBonus
      <4>2. Bonus[kind] \in ActivityTypes /\ Bonus[kind] # "firstMeaningfulAction"
        BY <3>1, Bonuses
      <4> HIDE DEF b
      <4>3. /\ EngineInv(b) /\ b.rows = h.rows /\ b.streak = h.streak
            /\ MissedDaysIn(b) = MissedDaysIn(h)
            /\ StreakInv(f) => StreakInv(b)
        BY <2>7, <4>1, <4>2, BonusKeeps
      <4>4. LedgersTold(h, b)
        BY <2>8, <4>1, <4>2, AwardLedgers
      <4>5. \A d \in Days : AwardedOn(b, d) =
              AwardedOn(h, d) \cup (IF d = day THEN {Bonus[kind]} ELSE {})
        BY <2>8, <4>1, <4>2, AwardedEffect
      <4> QED BY <3>1, <4>3, <4>4, <4>5
    <3>2. CASE kind \notin DOMAIN Bonus
      <4>1. b = h
        BY <3>2 DEF WithBonus
      <4> HIDE DEF b
      <4> QED BY <2>7, <2>8, <3>2, <4>1, SameLedgers
    <3> QED BY <3>1, <3>2
  <2> HIDE DEF b
  <2>10. b \in ForestType
    BY <2>9 DEF EngineInv
  <2>11. /\ g \in ForestType /\ g.rows = b.rows /\ g.awards = b.awards
         /\ g.dayTotal = b.dayTotal /\ g.weekTotal = b.weekTotal /\ g.streak = b.streak
         /\ g.xpLedger = b.xpLedger /\ g.seedLedger = b.seedLedger
    BY <2>10 DEF Synchronized, ForestType
  <2> HIDE DEF g
  <2>12. /\ EngineInv(g) /\ MissedDaysIn(g) = MissedDaysIn(b)
         /\ StreakInv(f) => StreakInv(g)
         /\ \A d : AwardedOn(g, d) = AwardedOn(b, d)
    BY <2>9, <2>11, SameEngine
  <2>13. g.rows = f.rows \cup {row}
    BY <2>2, <2>7, <2>9, <2>11
  <2>14. LedgersTold(f, g)
    <3>1. LedgersTold(b, g)
      BY <2>10, <2>11, SameLedgers
    <3>2. LedgersTold(f, h)
      BY <1>1, <2>2, <2>5, <2>7, <2>8, LedgersCompose
    <3>3. LedgersTold(f, b)
      BY <1>1, <2>8, <2>9, <2>10, <3>2, LedgersCompose
    <3> QED BY <1>1, <2>10, <2>11, <3>1, <3>3, LedgersCompose
  <2>15. StreakInv(f) => LeavesTold(f, g)
    BY <2>2, <2>4, <2>7, <2>9, <2>11, <2>12 DEF LeavesTold
  <2>16. AwardsMatch(g)
    <3>1. ASSUME NEW d \in Days
          PROVE  AwardedOn(g, d) = EarnedTypes(KindsOn(g, d))
      <4>1. AwardedOn(f, d) = EarnedTypes(KindsOn(f, d))
        BY DEF AwardsMatch, AwardedOn
      <4>2. KindsOn(g, d) = KindsOn(f, d) \cup (IF d = day THEN {kind} ELSE {})
        BY <2>1, <2>13 DEF KindsOn
      <4>3. CASE d = day
        <5>1. KindsOn(g, d) = kinds \cup {kind}
          BY <4>2, <4>3 DEF kinds
        <5>2. AwardedOn(f, d) = EarnedTypes(kinds)
          BY <4>1, <4>3 DEF kinds
        <5>3. EarnedTypes(kinds \cup {kind}) =
                EarnedTypes(kinds)
                  \cup (IF kinds = {} THEN {"firstMeaningfulAction"}
                        ELSE IF kind \notin kinds THEN {"secondDistinctAction"} ELSE {})
                  \cup (IF kind \in DOMAIN Bonus THEN {Bonus[kind]} ELSE {})
          BY <2>6, OneMoreKind
        <5>4. AwardedOn(h, d) = AwardedOn(f, d)
                \cup (IF kinds = {} THEN {"firstMeaningfulAction"}
                      ELSE IF kind \notin kinds THEN {"secondDistinctAction"} ELSE {})
          BY <2>7, <4>3
        <5>5. AwardedOn(b, d) =
                AwardedOn(h, d) \cup (IF kind \in DOMAIN Bonus THEN {Bonus[kind]} ELSE {})
          BY <2>9, <4>3
        <5>6. AwardedOn(g, d) = AwardedOn(b, d)
          BY <2>12
        <5> QED BY <5>1, <5>2, <5>3, <5>4, <5>5, <5>6
      <4>4. CASE d # day
        BY <2>7, <2>9, <2>12, <4>1, <4>2, <4>4
      <4> QED BY <4>3, <4>4
    <3> QED BY <3>1 DEF AwardsMatch, AwardedOn
  <2>17. f.rows \subseteq g.rows /\ \E r \in g.rows : r.day = day /\ r.ref = ref
    BY <2>1, <2>13
  <2> QED BY <2>3, <2>12, <2>14, <2>15, <2>16, <2>17
<1> QED BY <1>2, <1>3

-----------------------------------------------------------------------------
\* The living forest.

\* Every goal that is named exists; ids of contributions are not used twice; an
\* entry that counts for rewards, or may, adds to the savings; and what a load
\* has set out to settle is due.
Placed ==
  /\ Len(goals) <= MaxGoals
  /\ IsFiniteSet(contributions)
  /\ \A c \in contributions :
       /\ c.goal \in Goals
       /\ c.id < nextContribution
       /\ c.due => c.reward # "none"
       /\ c.reward # "none" => c.amount > 0
  /\ \A c, d \in contributions : c.id = d.id => c = d
  /\ \A i \in impacts : i.goal \in Goals
  /\ \A l \in Screens : \A id \in screen[l].due :
       /\ id < nextContribution
       /\ \A c \in contributions : c.id = id => c.due

EngineOK == EngineInv(forest) /\ AwardsMatch(forest)

ForestInv == TypeOK /\ EngineOK /\ Placed

-----------------------------------------------------------------------------
\* What milestones add to the ledgers.
PartOf(worth, percents) ==
  LET one(p) == IF p \in percents THEN worth[p] ELSE 0
  IN  one(10) + one(25) + one(50) + one(75) + one(100)

LEMMA MilestoneWorth ==
  \A p \in Percents : milestoneXp[p] \in Nat /\ milestoneSeeds[p] \in Nat
<1> TAKE p \in Percents
<1>1. p = 10 \/ p = 25 \/ p = 50 \/ p = 75 \/ p = 100
  BY DEF Percents
<1>2. /\ milestoneXp[10] = 25 /\ milestoneXp[25] = 50 /\ milestoneXp[50] = 100
      /\ milestoneXp[75] = 150 /\ milestoneXp[100] = 250
  BY DEF Percents, milestoneXp
<1>3. /\ milestoneSeeds[10] = 15 /\ milestoneSeeds[25] = 25 /\ milestoneSeeds[50] = 40
      /\ milestoneSeeds[75] = 60 /\ milestoneSeeds[100] = 100
  BY DEF Percents, milestoneSeeds
<1> QED BY <1>1, <1>2, <1>3

LEMMA PartTyped ==
  ASSUME NEW percents
  PROVE  PartOf(milestoneXp, percents) \in Nat /\ PartOf(milestoneSeeds, percents) \in Nat
<1>1. \A p \in {10, 25, 50, 75, 100} :
        milestoneXp[p] \in Nat /\ milestoneSeeds[p] \in Nat
  BY MilestoneWorth DEF Percents
<1>2. ASSUME NEW worth, \A p \in {10, 25, 50, 75, 100} : worth[p] \in Nat
      PROVE  PartOf(worth, percents) \in Nat
  BY <1>2 DEF PartOf
<1> QED BY <1>1, <1>2

LEMMA MilestonesKeep ==
  ASSUME NEW f, EngineInv(f), NEW percents
  PROVE  LET g == WithMilestones(f, percents) IN
         /\ EngineInv(g)
         /\ AwardsMatch(f) => AwardsMatch(g)
         /\ StreakInv(f) => StreakInv(g)
         /\ MissedDaysIn(g) = MissedDaysIn(f)
         /\ g.rows = f.rows /\ g.awards = f.awards /\ g.streak = f.streak
         /\ g.xpLedger = f.xpLedger + PartOf(milestoneXp, percents)
         /\ g.seedLedger = f.seedLedger + PartOf(milestoneSeeds, percents)
<1> DEFINE xps == f.xpLedger + PartOf(milestoneXp, percents)
           seeds == f.seedLedger + PartOf(milestoneSeeds, percents)
           h == [f EXCEPT !.xpLedger = xps, !.seedLedger = seeds]
           g == Synchronized(h)
<1>1. WithMilestones(f, percents) = g
  BY DEF WithMilestones, PartOf
<1>2. f \in ForestType
  BY DEF EngineInv
<1>3. xps \in Nat /\ seeds \in Nat
  BY <1>2, PartTyped DEF ForestType
<1> HIDE DEF xps, seeds
<1>4. /\ h \in ForestType /\ h.rows = f.rows /\ h.awards = f.awards
      /\ h.dayTotal = f.dayTotal /\ h.weekTotal = f.weekTotal /\ h.streak = f.streak
      /\ h.xpLedger = xps /\ h.seedLedger = seeds
  BY <1>2, <1>3 DEF ForestType
<1> HIDE DEF h
<1>5. /\ g \in ForestType /\ g.rows = h.rows /\ g.awards = h.awards
      /\ g.dayTotal = h.dayTotal /\ g.weekTotal = h.weekTotal /\ g.streak = h.streak
      /\ g.xpLedger = h.xpLedger /\ g.seedLedger = h.seedLedger
  BY <1>4 DEF Synchronized, ForestType
<1> HIDE DEF g
<1>6. /\ EngineInv(g) /\ MissedDaysIn(g) = MissedDaysIn(f)
      /\ StreakInv(f) => StreakInv(g)
      /\ \A d : AwardedOn(g, d) = AwardedOn(f, d)
  BY <1>4, <1>5, SameEngine
<1>7. ASSUME AwardsMatch(f) PROVE AwardsMatch(g)
  BY <1>4, <1>5, <1>6, <1>7 DEF AwardsMatch, AwardedOn, KindsOn
<1> QED BY <1>1, <1>4, <1>5, <1>6, <1>7 DEF xps, seeds

\* A rewarded contribution, as far as the engine goes.
LEMMA RewardKeeps ==
  ASSUME EngineOK, NEW rows, NEW c \in Contribution, Reward(rows, c)
  PROVE  /\ EngineOK'
         /\ forest.rows \subseteq forest'.rows
         /\ \E r \in forest'.rows : /\ r.day = c.day
                                    /\ r.ref = [type |-> "contribution", key |-> c.id]
         /\ StreakInv(forest) => StreakInv(forest') /\ LeavesTold(forest, forest')
<1> DEFINE ref == [type |-> "contribution", key |-> c.id]
           f == Recorded(forest, "goal_contribution", c.day, ref)
           new == Unpaid(rows, c.goal)
<1>1. /\ "goal_contribution" \in Kinds /\ c.day \in Days /\ ref \in Refs
  BY ForestAssumption DEF Kinds, Refs, Contribution
<1> HIDE DEF ref
<1>2. /\ EngineInv(f) /\ AwardsMatch(f)
      /\ forest.rows \subseteq f.rows
      /\ \E r \in f.rows : r.day = c.day /\ r.ref = ref
      /\ StreakInv(forest) => StreakInv(f) /\ LeavesTold(forest, f)
  BY <1>1, RecordedKeeps DEF EngineOK
<1>3. forest' = WithMilestones(f, new)
  BY DEF Reward, ref
<1> HIDE DEF f, new
<1>4. /\ EngineInv(forest') /\ AwardsMatch(forest')
      /\ forest'.rows = f.rows /\ forest'.streak = f.streak
      /\ MissedDaysIn(forest') = MissedDaysIn(f)
      /\ StreakInv(f) => StreakInv(forest')
  BY <1>2, <1>3, MilestonesKeep
<1>5. LeavesTold(forest, f) => LeavesTold(forest, forest')
  BY <1>4 DEF LeavesTold
<1> QED BY <1>2, <1>4, <1>5 DEF EngineOK, ref

-----------------------------------------------------------------------------
\* The initial states.
LEMMA EmptyForestOK ==
  EngineInv(EmptyForest) /\ AwardsMatch(EmptyForest) /\ StreakInv(EmptyForest)
<1> DEFINE f == EmptyForest
<1>1. /\ f.rows = {} /\ f.awards = {} /\ f.streak = NoStreak
      /\ f.dayTotal = [d \in Days |-> Nothing] /\ f.weekTotal = [d \in Days |-> Nothing]
  BY DEF EmptyForest
<1>2. f \in ForestType
  <2>1. Nothing \in Amount /\ NoStreak \in StreakRow
    BY ActivityAssumption DEF Nothing, Amount, NoStreak, StreakRow
  <2> QED BY <2>1 DEF EmptyForest, ForestType
<1> HIDE DEF f
<1>3. /\ CreditedIn(f) = {} /\ StreakDaysIn(f) = {} /\ MissedDaysIn(f) = {}
  BY <1>1 DEF CreditedIn, StreakDaysIn, MissedDaysIn
<1>4. WeekLevel(f) /\ Capped(f)
  BY <1>1, ActivityAssumption DEF WeekLevel, Capped, Nothing, Amount
<1>5. AwardsMatch(f)
  <2>1. \A d : KindsOn(f, d) = {}
    BY <1>1 DEF KindsOn
  <2>2. EarnedTypes({}) = {}
    BY FS_EmptySet DEF EarnedTypes
  <2> QED BY <1>1, <2>1, <2>2 DEF AwardsMatch
<1>6. StreakInv(f)
  BY <1>1, <1>3, FS_EmptySet DEF StreakInv, HistoryTold, NoStreak
<1> QED BY <1>1, <1>2, <1>4, <1>5, <1>6, FS_EmptySet DEF EngineInv, f

LEMMA InitKeeps ==
  ASSUME Init
  PROVE  ForestInv
<1>1. EngineOK
  BY EmptyForestOK DEF Init, ActivityInit, EngineOK
<1>2. forest \in ForestType
  BY <1>1 DEF EngineOK, EngineInv
<1>3. TypeOK
  <2>1. IdleScreen \in Screen /\ IdleClaim \in Claim
    BY ActivityAssumption DEF IdleScreen, Screen, NoStreak, StreakRow, IdleClaim, Claim
  <2>2. ActivityTypeOK
    BY <1>2, ActivityAssumption DEF Init, ActivityInit, ActivityTypeOK, Days
  <2> QED BY <2>1, <2>2, ForestAssumption DEF Init, TypeOK
<1>4. Placed
  BY FS_EmptySet, ForestAssumption DEF Init, Placed, IdleScreen
<1> QED BY <1>1, <1>3, <1>4 DEF ForestInv

-----------------------------------------------------------------------------
\* The steps.
LEMMA FramePlaced ==
  ASSUME Placed, UNCHANGED <<goals, contributions, nextContribution, impacts, screen>>
  PROVE  Placed'
BY DEF Placed, Goals

LEMMA FrameEngine ==
  ASSUME EngineOK, UNCHANGED forest
  PROVE  EngineOK'
BY DEF EngineOK

\* What the store, a load and a claim do to the forest: a purchase takes its price
\* from the seeds and may add a leaf, a load writes a streak row back, and a claim
\* overwrites the shown XP.
LEMMA BuyEffect ==
  ASSUME EngineOK, NEW item \in Items, BuyItem(item)
  PROVE  /\ EngineOK'
         /\ forest'.rows = forest.rows /\ forest'.awards = forest.awards
         /\ forest'.xpLedger = forest.xpLedger
         /\ forest'.seedLedger = forest.seedLedger - Price[item] /\ Price[item] \in Nat
         /\ forest'.streak.leaves =
              IF item = "protection_leaf" THEN forest.streak.leaves + 1
                                          ELSE forest.streak.leaves
         /\ StreakInv(forest) => StreakInv(forest')
         /\ MissedDaysIn(forest') = MissedDaysIn(forest)
<1>1. forest \in ForestType
  BY DEF EngineOK, EngineInv
<1>2. Price[item] \in Nat
  <2>1. item \in DOMAIN Price
    BY ForestAssumption
  <2> QED BY <2>1 DEF Price
<1> DEFINE seeds == forest.seedLedger - Price[item]
           leaves == IF item = "protection_leaf" THEN forest.streak.leaves + 1
                                                 ELSE forest.streak.leaves
           streak == [forest.streak EXCEPT !.leaves = leaves]
<1>3. seeds \in Nat /\ leaves \in Nat
  BY <1>1, <1>2 DEF BuyItem, Affordable, ForestType, StreakRow
<1>4. forest' = [forest EXCEPT !.seedLedger = seeds, !.streak = streak]
  BY <1>1 DEF BuyItem, ForestType, StreakRow
<1> HIDE DEF seeds, leaves
<1>5. /\ streak \in StreakRow /\ streak.leaves = leaves
      /\ streak.current = forest.streak.current /\ streak.last = forest.streak.last
  BY <1>1, <1>3 DEF ForestType, StreakRow
<1> HIDE DEF streak
<1>6. /\ forest' \in ForestType /\ forest'.rows = forest.rows
      /\ forest'.awards = forest.awards /\ forest'.dayTotal = forest.dayTotal
      /\ forest'.weekTotal = forest.weekTotal /\ forest'.streak = streak
      /\ forest'.xpLedger = forest.xpLedger /\ forest'.seedLedger = seeds
  BY <1>1, <1>3, <1>4, <1>5 DEF ForestType
<1>7. /\ EngineInv(forest') /\ MissedDaysIn(forest') = MissedDaysIn(forest)
      /\ StreakInv(forest) => StreakInv(forest')
      /\ \A d : AwardedOn(forest', d) = AwardedOn(forest, d)
  BY <1>5, <1>6, SameEngine DEF EngineOK
<1>8. AwardsMatch(forest')
  BY <1>6, <1>7 DEF AwardsMatch, AwardedOn, KindsOn, EngineOK
<1> QED BY <1>2, <1>5, <1>6, <1>7, <1>8 DEF EngineOK, seeds, leaves

\* The milestones that are paid with a contribution.
LEMMA RewardMilestones ==
  ASSUME TypeOK, NEW rows, NEW c \in Contribution, Reward(rows, c)
  PROVE  milestones' \subseteq (1 .. MaxGoals) \X Percents
BY DEF TypeOK, Reward, Contribution, Unpaid, Reached

LEMMA EngineTyped ==
  ASSUME EngineOK
  PROVE  forest \in ForestType
BY DEF EngineOK, EngineInv

\* The engine's own operations.
LEMMA ExpenseIdTyped ==
  ASSUME TypeOK, NEW source \in {0} \cup Receipts,
         SourceUsed(source) \/ nextId <= MaxRecords
  PROVE  ExpenseId(source) \in RecordIds
<1>1. /\ nextId \in 1 .. MaxRecords + 1 /\ MaxRecords \in Nat
      /\ \A r \in records : r.id \in 1 .. MaxRecords
  BY ActivityAssumption DEF TypeOK, ActivityTypeOK
<1>2. CASE SourceUsed(source)
  <2> DEFINE r == CHOOSE q \in records : q.source = source
  <2>1. r \in records
    BY <1>2 DEF SourceUsed
  <2>2. ExpenseId(source) = r.id
    BY <1>2 DEF ExpenseId
  <2> QED BY <1>1, <2>1, <2>2 DEF RecordIds
<1>3. CASE ~SourceUsed(source)
  BY <1>1, <1>3 DEF ExpenseId, RecordIds
<1> QED BY <1>2, <1>3

LEMMA AddRecordKeeps ==
  ASSUME ActivityTypeOK, EngineOK, NEW kind \in {"expense", "receipt", "income"},
         NEW day \in Days, NEW source \in {0} \cup Receipts, NEW ref \in Refs,
         AddRecord(kind, day, source, ref)
  PROVE  ActivityTypeOK' /\ EngineOK'
<1>1. forest' = Recorded(forest, kind, day, ref) /\ kind \in Kinds
  BY DEF AddRecord, Kinds
<1>2. EngineOK'
  BY <1>1, RecordedKeeps DEF EngineOK
<1>3. forest' \in ForestType
  BY <1>2 DEF EngineOK, EngineInv
<1>4. nextId \in 1 .. MaxRecords /\ nextId' = nextId + 1 /\ MaxRecords \in Nat
  BY ActivityAssumption DEF ActivityTypeOK, AddRecord
<1>5. records' = records \cup {[id |-> nextId, kind |-> kind, source |-> source]}
      /\ today' = today
  BY DEF AddRecord
<1> QED BY <1>2, <1>3, <1>4, <1>5 DEF ActivityTypeOK

LEMMA AddExpenseKeeps ==
  ASSUME ActivityTypeOK, EngineOK, NEW day \in Days, NEW source \in {0} \cup Receipts,
         AddExpense(day, source)
  PROVE  ActivityTypeOK' /\ EngineOK'
<1>1. nextId \in Nat /\ source \in Nat
  BY ActivityAssumption DEF ActivityTypeOK
<1>2. CASE SourceUsed(source)
  BY <1>2 DEF AddExpense, activityVars, ActivityTypeOK, EngineOK
<1>3. CASE ~SourceUsed(source) /\ source # 0
  <2>1. AddRecord("receipt", day, source, [type |-> "receipt", key |-> source])
    BY <1>3 DEF AddExpense
  <2>2. [type |-> "receipt", key |-> source] \in Refs
    BY <1>1 DEF Refs
  <2> QED BY <2>1, <2>2, AddRecordKeeps
<1>4. CASE ~SourceUsed(source) /\ source = 0
  <2>1. AddRecord("expense", day, 0, [type |-> "record", key |-> nextId])
    BY <1>4 DEF AddExpense
  <2>2. [type |-> "record", key |-> nextId] \in Refs
    BY <1>1 DEF Refs
  <2> QED BY <2>1, <2>2, AddRecordKeeps
<1> QED BY <1>2, <1>3, <1>4

LEMMA AddIncomeKeeps ==
  ASSUME ActivityTypeOK, EngineOK, NEW day \in Days, AddIncome(day)
  PROVE  ActivityTypeOK' /\ EngineOK'
<1>1. nextId \in Nat
  BY ActivityAssumption DEF ActivityTypeOK
<1>2. [type |-> "record", key |-> nextId] \in Refs
  BY <1>1 DEF Refs
<1> QED BY <1>2, AddRecordKeeps DEF AddIncome

LEMMA ReviewKeeps ==
  ASSUME ActivityTypeOK, EngineOK, NEW day \in Days, RecordDailyReview(day)
  PROVE  ActivityTypeOK' /\ EngineOK'
<1>1. [type |-> "review", key |-> day] \in Refs /\ "daily_review" \in Kinds
  BY ActivityAssumption DEF Refs, Days, Kinds
<1>2. EngineOK'
  BY <1>1, RecordedKeeps DEF RecordDailyReview, EngineOK
<1> QED BY <1>2, EngineTyped DEF ActivityTypeOK, RecordDailyReview, EngineOK, EngineInv

LEMMA ImpactTyped ==
  ASSUME NEW i \in Impact
  PROVE  /\ i.record \in RecordIds /\ i.goal \in 1 .. MaxGoals /\ i.day \in Days
         /\ i.amount \in Int /\ -i.amount \in Int /\ i.amount > 0
<1>1. i.record \in RecordIds /\ i.goal \in 1 .. MaxGoals /\ i.day \in Days
  BY DEF Impact
<1>2. i.amount \in Amounts
  BY DEF Impact
<1>3. i.amount \in Nat \ {0}
  BY <1>2, ForestAssumption
<1> HIDE DEF Impact
<1>4. i.amount \in Int /\ -i.amount \in Int /\ i.amount > 0
  BY <1>3
<1> QED BY <1>1, <1>4

LEMMA GoalsBounded ==
  ASSUME TypeOK, Placed
  PROVE  /\ Goals = 1 .. Len(goals) /\ Len(goals) \in Nat
         /\ Goals \subseteq 1 .. MaxGoals
<1>1. goals \in Seq([target : Targets, priority : 0 .. MaxGoals])
  BY DEF TypeOK
<1>2. Goals = 1 .. Len(goals) /\ Len(goals) \in Nat
  BY <1>1 DEF Goals
<1>3. Len(goals) <= MaxGoals /\ MaxGoals \in Nat
  BY ForestAssumption DEF Placed
<1> QED BY <1>2, <1>3

\* A contribution that is entered.
LEMMA EnterKeeps ==
  ASSUME TypeOK, Placed, NEW c, Enter(c),
         nextContribution <= MaxContributions => c \in Contribution,
         c.id = nextContribution, c.goal \in Goals, ~c.due,
         c.reward # "none" => c.amount > 0,
         UNCHANGED <<goals, screen>>, impacts' \subseteq impacts
  PROVE  /\ Placed'
         /\ contributions' \subseteq Contribution
         /\ nextContribution' \in 1 .. MaxContributions + 1
<1>1. /\ nextContribution <= MaxContributions
      /\ contributions' = contributions \cup {c}
      /\ nextContribution' = nextContribution + 1
      /\ nextContribution \in 1 .. MaxContributions + 1
      /\ MaxContributions \in Nat
      /\ \A d \in contributions : d.id \in Nat
      /\ \A l \in Screens : screen[l].due \subseteq Nat
  BY ForestAssumption DEF Enter, TypeOK, Contribution, Screen
<1>2. IsFiniteSet(contributions')
  BY <1>1, FS_AddElement DEF Placed
<1>3. contributions' \subseteq Contribution /\ nextContribution' \in 1 .. MaxContributions + 1
  BY <1>1 DEF TypeOK
<1>4. \A d \in contributions' :
        d.goal \in Goals /\ d.id < nextContribution' /\ (d.due => d.reward # "none")
          /\ (d.reward # "none" => d.amount > 0)
  BY <1>1 DEF Placed
<1>5. \A d, e \in contributions' : d.id = e.id => d = e
  BY <1>1 DEF Placed
<1>6. \A l \in Screens : \A id \in screen[l].due :
        id < nextContribution' /\ \A d \in contributions' : d.id = id => d.due
  BY <1>1 DEF Placed
<1> QED BY <1>2, <1>3, <1>4, <1>5, <1>6 DEF Placed, Goals

LEMMA FinanceKeeps ==
  ASSUME ForestInv, FinanceNext
  PROVE  ForestInv'
<1> USE DEF ForestInv
<1>0. /\ ActivityTypeOK
      /\ MaxRecords \in Nat /\ MaxContributions \in Nat /\ MaxGoals \in 0 .. 4
      /\ Amounts \subseteq Nat \ {0}
  BY ActivityAssumption, ForestAssumption DEF TypeOK
<1>00. Goals \subseteq 1 .. MaxGoals
  BY GoalsBounded
<1>1. ASSUME NEW day \in Days, NEW source \in {0} \cup Receipts,
             NEW goal \in {0} \cup Goals, NEW amount \in Amounts,
             SaveExpense(day, source, goal, amount)
      PROVE  ForestInv'
  <2>1. ActivityTypeOK' /\ EngineOK'
    BY <1>0, <1>1, AddExpenseKeeps DEF SaveExpense
  <2>2. ExpenseId(source) \in RecordIds
    BY <1>1, ExpenseIdTyped DEF SaveExpense, AddExpense, AddRecord
  <2>3. impacts' \subseteq Impact /\ \A i \in impacts' : i.goal \in Goals
    <3> DEFINE i == [record |-> ExpenseId(source), goal |-> goal, amount |-> amount,
                     day |-> day, expense |-> TRUE, found |-> FALSE]
    <3>1. goal # 0 => i \in Impact /\ i.goal \in Goals
      BY <1>00, <2>2 DEF Impact
    <3>2. impacts' = IF goal = 0 THEN impacts ELSE impacts \cup {i}
      BY <1>1 DEF SaveExpense
    <3> HIDE DEF i
    <3> QED BY <3>1, <3>2 DEF TypeOK, Placed
  <2>4. /\ UNCHANGED <<goals, contributions, nextContribution, milestones, inventory>>
        /\ UNCHANGED <<deletions, screen, challenge, offered, claim>>
    BY <1>1 DEF SaveExpense, goalVars, claimVars
  <2> QED BY <2>1, <2>3, <2>4 DEF TypeOK, Placed, Goals
<1>2. ASSUME NEW day \in Days, NEW goal \in {0} \cup Goals, NEW amount \in Amounts,
             SaveIncome(day, goal, amount)
      PROVE  ForestInv'
  <2>1. ActivityTypeOK' /\ EngineOK'
    BY <1>0, <1>2, AddIncomeKeeps DEF SaveIncome
  <2>2. nextId \in RecordIds
    BY <1>0, <1>2 DEF SaveIncome, AddIncome, AddRecord, ActivityTypeOK, RecordIds
  <2>3. impacts' \subseteq Impact /\ \A i \in impacts' : i.goal \in Goals
    <3> DEFINE i == [record |-> nextId, goal |-> goal, amount |-> amount,
                     day |-> day, expense |-> FALSE, found |-> FALSE]
    <3>1. goal # 0 => i \in Impact /\ i.goal \in Goals
      BY <1>00, <2>2 DEF Impact
    <3>2. impacts' = IF goal = 0 THEN impacts ELSE impacts \cup {i}
      BY <1>2 DEF SaveIncome
    <3> HIDE DEF i
    <3> QED BY <3>1, <3>2 DEF TypeOK, Placed
  <2>4. /\ UNCHANGED <<goals, contributions, nextContribution, milestones, inventory>>
        /\ UNCHANGED <<deletions, screen, challenge, offered, claim>>
    BY <1>2 DEF SaveIncome, goalVars, claimVars
  <2> QED BY <2>1, <2>3, <2>4 DEF TypeOK, Placed, Goals
<1>3. ASSUME NEW i \in impacts, CheckImpact(i)
      PROVE  ForestInv'
  <2>1. /\ UNCHANGED <<today, records, nextId, forest, goals, contributions>>
        /\ UNCHANGED <<nextContribution, milestones, inventory, deletions>>
        /\ UNCHANGED <<screen, challenge, offered, claim>>
    BY <1>3 DEF CheckImpact, activityVars, goalVars, claimVars
  <2>2. impacts' \subseteq Impact /\ \A j \in impacts' : j.goal \in Goals
    <3>1. i \in Impact /\ i.goal \in Goals
      BY DEF TypeOK, Placed
    <3>2. /\ [i EXCEPT !.found = TRUE] \in Impact
          /\ [i EXCEPT !.found = TRUE].goal = i.goal
      BY <3>1 DEF Impact
    <3> HIDE DEF Impact
    <3> QED BY <1>3, <3>1, <3>2 DEF CheckImpact, TypeOK, Placed
  <2>3. EngineOK'
    BY <2>1, FrameEngine
  <2> QED BY <2>1, <2>2, <2>3 DEF TypeOK, ActivityTypeOK, Placed, Goals
<1>4. ASSUME NEW i \in impacts, ApplyExpense(i)
      PROVE  ForestInv'
  <2> DEFINE c == NewContribution(i.goal, -i.amount, i.day, i.record, "none")
  <2>1. /\ UNCHANGED <<today, records, nextId, forest, goals, milestones, inventory>>
        /\ UNCHANGED <<deletions, screen, challenge, offered, claim>>
        /\ impacts' \subseteq impacts
        /\ \/ /\ Enter(c)
           \/ UNCHANGED <<contributions, nextContribution>>
    BY <1>4 DEF ApplyExpense, activityVars, claimVars
  <2>2. /\ c.id = nextContribution /\ c.goal = i.goal /\ c.reward = "none" /\ ~c.due
        /\ c.goal \in Goals
        /\ nextContribution <= MaxContributions => c \in Contribution
    <3>1. i \in Impact /\ i.goal \in Goals /\ nextContribution \in 1 .. MaxContributions + 1
      BY DEF TypeOK, Placed
    <3> QED BY <1>0, <3>1, ImpactTyped DEF NewContribution, Contribution
  <2>3. EngineOK'
    BY <2>1, FrameEngine
  <2> HIDE DEF c
  <2>4. CASE UNCHANGED <<contributions, nextContribution>>
    BY <2>1, <2>3, <2>4 DEF TypeOK, ActivityTypeOK, Placed, Goals
  <2>5. CASE Enter(c)
    <3>1. Placed' /\ contributions' \subseteq Contribution
          /\ nextContribution' \in 1 .. MaxContributions + 1
      BY <2>1, <2>2, <2>5, EnterKeeps
    <3> QED BY <2>1, <2>3, <3>1 DEF TypeOK, ActivityTypeOK
  <2> QED BY <2>1, <2>4, <2>5
<1>5. ASSUME NEW i \in impacts, ApplyIncome(i)
      PROVE  ForestInv'
  <2> DEFINE c == NewContribution(i.goal, i.amount, i.day, i.record, "awarded")
  <2>1. /\ UNCHANGED <<today, records, nextId, goals, inventory, deletions>>
        /\ UNCHANGED <<screen, challenge, offered, claim>>
        /\ impacts' \subseteq impacts
        /\ \/ Enter(c) /\ Reward(contributions \cup {c}, c)
           \/ UNCHANGED <<contributions, nextContribution, forest, milestones>>
    BY <1>5 DEF ApplyIncome, claimVars
  <2>2. /\ c.id = nextContribution /\ c.goal = i.goal /\ ~c.due
        /\ c.amount > 0 /\ c.goal \in Goals
        /\ nextContribution <= MaxContributions => c \in Contribution
    <3>1. i \in Impact /\ i.goal \in Goals /\ nextContribution \in 1 .. MaxContributions + 1
      BY DEF TypeOK, Placed
    <3> QED BY <1>0, <3>1, ImpactTyped DEF NewContribution, Contribution
  <2> HIDE DEF c
  <2>3. CASE UNCHANGED <<contributions, nextContribution, forest, milestones>>
    <3>1. EngineOK'
      BY <2>3, FrameEngine
    <3> QED BY <2>1, <2>3, <3>1 DEF TypeOK, ActivityTypeOK, Placed, Goals
  <2>4. CASE Enter(c) /\ Reward(contributions \cup {c}, c)
    <3>1. Placed' /\ contributions' \subseteq Contribution
          /\ nextContribution' \in 1 .. MaxContributions + 1
      BY <2>1, <2>2, <2>4, EnterKeeps
    <3>2. c \in Contribution
      BY <2>2, <2>4 DEF Enter
    <3>3. EngineOK' /\ milestones' \subseteq (1 .. MaxGoals) \X Percents
      BY <2>4, <3>2, RewardKeeps, RewardMilestones
    <3>4. forest' \in ForestType
      BY <3>3 DEF EngineOK, EngineInv
    <3> QED BY <2>1, <3>1, <3>3, <3>4 DEF TypeOK, ActivityTypeOK
  <2> QED BY <2>1, <2>3, <2>4
<1>6. ASSUME NEW id \in RecordIds, RemoveTransactionImpact(id)
      PROVE  ForestInv'
  <2>1. /\ UNCHANGED <<today, records, nextId, forest, goals, nextContribution>>
        /\ UNCHANGED <<milestones, inventory, impacts, screen, challenge, offered, claim>>
        /\ contributions' \subseteq contributions
        /\ deletions' = deletions \cup {id}
    BY <1>6 DEF RemoveTransactionImpact, activityVars, claimVars
  <2>2. IsFiniteSet(contributions')
    BY <2>1, FS_Subset DEF Placed
  <2>3. EngineOK'
    BY <2>1, FrameEngine
  <2>4. Placed'
    BY <2>1, <2>2 DEF Placed, Goals
  <2> QED BY <2>1, <2>3, <2>4 DEF TypeOK, ActivityTypeOK
<1>7. ASSUME NEW id \in RecordIds, DeleteRecord(id)
      PROVE  ForestInv'
  <2>1. /\ UNCHANGED <<today, nextId, forest, goals, contributions, nextContribution>>
        /\ UNCHANGED <<milestones, inventory, impacts, screen, challenge, offered, claim>>
        /\ records' \subseteq records /\ deletions' \subseteq deletions
    BY <1>7 DEF DeleteRecord, goalVars, claimVars
  <2> QED BY <2>1, FrameEngine, FramePlaced DEF TypeOK, ActivityTypeOK
<1>8. ASSUME NEW day \in Days, ReviewDay(day)
      PROVE  ForestInv'
  <2>1. ActivityTypeOK' /\ EngineOK'
    BY <1>0, <1>8, ReviewKeeps DEF ReviewDay
  <2> QED BY <1>8, <2>1, FramePlaced DEF TypeOK, ReviewDay, forestVars, goalVars, linkVars, claimVars
<1>9. CASE Midnight
  <2>1. /\ today' \in Days /\ UNCHANGED <<records, nextId, forest>>
    BY <1>0, <1>9, ActivityAssumption DEF Midnight, NextDay, ActivityTypeOK, Days
  <2>2. UNCHANGED <<goals, contributions, nextContribution, milestones, inventory, impacts,
                    deletions, screen, challenge, offered, claim>>
    BY <1>9 DEF Midnight, forestVars, goalVars, linkVars, claimVars
  <2> QED BY <2>1, <2>2, FrameEngine, FramePlaced DEF TypeOK, ActivityTypeOK
<1> QED BY <1>1, <1>2, <1>3, <1>4, <1>5, <1>6, <1>7, <1>8, <1>9 DEF FinanceNext

LEMMA GoalTyped ==
  ASSUME TypeOK, Placed, NEW g \in Goals
  PROVE  goals[g].target \in Targets /\ goals[g].priority \in 0 .. MaxGoals
         /\ goals[g] \in [target : Targets, priority : 0 .. MaxGoals]
<1> DEFINE R == [target : Targets, priority : 0 .. MaxGoals]
<1>1. goals \in Seq(R)
  BY DEF TypeOK
<1>2. g \in 1 .. Len(goals)
  BY GoalsBounded
<1>3. goals[g] \in R
  <2> HIDE DEF R
  <2> QED BY <1>1, <1>2
<1> QED BY <1>3

\* No goal but those before another comes before it.
LEMMA RankBounded ==
  ASSUME TypeOK, Placed, NEW goal \in Goals, NEW h \in Goals \ {goal}
  PROVE  LET rank == Cardinality({g \in Goals \ {goal} : Before(g, h)}) IN
         rank \in Nat /\ rank + 2 <= Len(goals)
<1> DEFINE R == {g \in Goals \ {goal} : Before(g, h)}
<1>1. /\ Goals = 1 .. Len(goals) /\ Len(goals) \in Nat
      /\ goals \in Seq([target : Targets, priority : 0 .. MaxGoals]) /\ MaxGoals \in Nat
  BY GoalsBounded, ForestAssumption DEF TypeOK
<1>2. goals[h].priority \in Int
  BY <1>1, GoalTyped
<1>3. ~Before(h, h)
  BY <1>1, <1>2 DEF Before
<1>4. IsFiniteSet(Goals) /\ Cardinality(Goals) = Len(goals)
  <2> DEFINE n == Len(goals)
  <2> HIDE DEF n
  <2>1. n \in Nat
    BY <1>1 DEF n
  <2>2. IsFiniteSet(1 .. n) /\ Cardinality(1 .. n) = IF 1 > n THEN 0 ELSE n - 1 + 1
    BY <2>1, FS_Interval
  <2>3. Cardinality(1 .. n) = n
    BY <2>1, <2>2
  <2> QED BY <1>1, <2>2, <2>3 DEF n
<1>5. /\ IsFiniteSet(Goals \ {goal}) /\ Cardinality(Goals \ {goal}) = Len(goals) - 1
      /\ IsFiniteSet((Goals \ {goal}) \ {h})
      /\ Cardinality((Goals \ {goal}) \ {h}) = Len(goals) - 2
  <2>1. IsFiniteSet(Goals \ {goal}) /\ Cardinality(Goals \ {goal}) = Len(goals) - 1
    BY <1>4, FS_RemoveElement
  <2>2. /\ IsFiniteSet((Goals \ {goal}) \ {h})
        /\ Cardinality((Goals \ {goal}) \ {h}) = Len(goals) - 1 - 1
    BY <2>1, FS_RemoveElement
  <2> QED BY <1>1, <2>1, <2>2
<1>6. R \subseteq (Goals \ {goal}) \ {h}
  BY <1>3
<1>7. Cardinality(R) \in Nat /\ Cardinality(R) <= Len(goals) - 2
  BY <1>5, <1>6, FS_Subset, FS_CardinalityType
<1> QED BY <1>1, <1>7

\* A contribution whose reward or due date changes.
LEMMA ChangedPlaced ==
  ASSUME TypeOK, Placed, NEW c \in contributions, NEW d,
         contributions' = (contributions \ {c}) \cup {d},
         d.id = c.id, d.goal = c.goal, d.amount = c.amount, d.reward # "none",
         c.reward # "none", c.due => d.due,
         \A l \in Screens : screen'[l].due \subseteq screen[l].due,
         UNCHANGED <<goals, nextContribution, impacts>>
  PROVE  Placed'
<1>1. IsFiniteSet(contributions')
  <2>1. IsFiniteSet(contributions \ {c})
    BY FS_Subset DEF Placed
  <2> QED BY <2>1, FS_AddElement
<1>2. \A e \in contributions' :
        e.goal \in Goals /\ e.id < nextContribution /\ (e.due => e.reward # "none")
          /\ (e.reward # "none" => e.amount > 0)
  BY DEF Placed
<1>3. \A e, b \in contributions' : e.id = b.id => e = b
  BY DEF Placed
<1>4. \A l \in Screens : \A id \in screen'[l].due :
        id < nextContribution /\ \A e \in contributions' : e.id = id => e.due
  BY DEF Placed
<1> QED BY <1>1, <1>2, <1>3, <1>4 DEF Placed, Goals

LEMMA GoalKeeps ==
  ASSUME ForestInv, GoalNext
  PROVE  ForestInv'
<1> USE DEF ForestInv
<1>0. /\ ActivityTypeOK
      /\ MaxContributions \in Nat /\ MaxGoals \in 0 .. 4 /\ MaxPurchases \in Nat
      /\ Amounts \subseteq Nat \ {0}
  BY ForestAssumption DEF TypeOK
<1>00. /\ Goals = 1 .. Len(goals) /\ Len(goals) \in Nat /\ Goals \subseteq 1 .. MaxGoals
       /\ goals \in Seq([target : Targets, priority : 0 .. MaxGoals])
       /\ \A g \in Goals : goals[g] \in [target : Targets, priority : 0 .. MaxGoals]
  BY GoalsBounded, GoalTyped DEF TypeOK
<1>1. ASSUME NEW target \in Targets, NEW primary \in BOOLEAN, CreateGoal(target, primary)
      PROVE  ForestInv'
  <2> DEFINE first == primary \/ goals = << >>
             others == IF first
                       THEN [g \in Goals |-> [goals[g] EXCEPT !.priority = 1]]
                       ELSE goals
             new == [target |-> target, priority |-> IF first THEN 0 ELSE Len(goals)]
  <2>1. /\ Len(goals) < MaxGoals /\ goals' = Append(others, new)
        /\ UNCHANGED <<today, records, nextId, forest, contributions, nextContribution>>
        /\ UNCHANGED <<milestones, inventory, impacts, deletions, screen>>
        /\ UNCHANGED <<challenge, offered, claim>>
    BY <1>1 DEF CreateGoal, activityVars, linkVars, claimVars
  <2>2. new \in [target : Targets, priority : 0 .. MaxGoals]
    BY <1>0, <1>00, <2>1
  <2>3. /\ others \in Seq([target : Targets, priority : 0 .. MaxGoals])
        /\ Len(others) = Len(goals)
    <3>1. CASE first
      <4>1. \A g \in Goals : [goals[g] EXCEPT !.priority = 1]
                               \in [target : Targets, priority : 0 .. MaxGoals]
        BY <1>0, <1>00, <2>1
      <4> QED BY <1>00, <3>1, <4>1
    <3>2. CASE ~first
      BY <1>00, <3>2
    <3> QED BY <3>1, <3>2
  <2> HIDE DEF others, new
  <2>4. /\ goals' \in Seq([target : Targets, priority : 0 .. MaxGoals])
        /\ Len(goals') = Len(goals) + 1 /\ Goals \subseteq Goals'
    BY <1>00, <2>1, <2>2, <2>3 DEF Goals
  <2>5. EngineOK'
    BY <2>1, FrameEngine
  <2>6. Placed'
    BY <1>0, <1>00, <2>1, <2>4 DEF Placed
  <2> QED BY <2>1, <2>4, <2>5, <2>6 DEF TypeOK, ActivityTypeOK
<1>2. ASSUME NEW goal \in Goals, SelectPrimaryGoal(goal)
      PROVE  ForestInv'
  <2>1. /\ goals' = Reordered(goal)
        /\ UNCHANGED <<today, records, nextId, forest, contributions, nextContribution>>
        /\ UNCHANGED <<milestones, inventory, impacts, deletions, screen>>
        /\ UNCHANGED <<challenge, offered, claim>>
    BY <1>2 DEF SelectPrimaryGoal, activityVars, linkVars, claimVars
  <2>2. ASSUME NEW h \in Goals \ {goal}
        PROVE  1 + Cardinality({g \in Goals \ {goal} : Before(g, h)}) \in 0 .. MaxGoals
    <3> DEFINE rank == Cardinality({g \in Goals \ {goal} : Before(g, h)})
    <3>1. rank \in Nat /\ rank + 2 <= Len(goals)
      BY RankBounded
    <3>2. Len(goals) <= MaxGoals
      BY DEF Placed
    <3> HIDE DEF rank
    <3>3. 1 + rank \in 0 .. MaxGoals
      BY <1>0, <1>00, <3>1, <3>2
    <3> QED BY <3>3 DEF rank
  <2>3. \A h \in Goals : Reordered(goal)[h] \in [target : Targets, priority : 0 .. MaxGoals]
    <3>1. 0 \in 0 .. MaxGoals
      BY <1>0
    <3> QED BY <1>00, <2>2, <3>1 DEF Reordered
  <2>4. DOMAIN Reordered(goal) = Goals /\ Reordered(goal) = [h \in Goals |-> Reordered(goal)[h]]
    BY DEF Reordered
  <2>5. /\ goals' \in Seq([target : Targets, priority : 0 .. MaxGoals])
        /\ Len(goals') = Len(goals) /\ Goals' = Goals
    BY <1>00, <2>1, <2>3, <2>4 DEF Goals
  <2>6. EngineOK'
    BY <2>1, FrameEngine
  <2>7. Placed'
    BY <2>1, <2>5 DEF Placed
  <2> QED BY <2>1, <2>5, <2>6, <2>7 DEF TypeOK, ActivityTypeOK
<1>3. ASSUME NEW goal \in Goals, NEW amount \in Amounts, NEW reward \in {"none", "pending"},
             AddContribution(goal, amount, reward)
      PROVE  ForestInv'
  <2> DEFINE c == NewContribution(goal, amount, today, 0, reward)
  <2>1. /\ UNCHANGED <<today, records, nextId, forest, goals, milestones, inventory>>
        /\ UNCHANGED <<impacts, deletions, screen, challenge, offered, claim>>
        /\ Enter(c)
    BY <1>3 DEF AddContribution, activityVars, linkVars, claimVars
  <2>2. /\ c.id = nextContribution /\ c.goal = goal /\ ~c.due /\ c.amount > 0
        /\ nextContribution <= MaxContributions => c \in Contribution
    <3>1. amount \in Int /\ amount > 0 /\ today \in Days
          /\ nextContribution \in 1 .. MaxContributions + 1
      BY <1>0 DEF TypeOK, ActivityTypeOK
    <3> QED BY <1>0, <1>00, <3>1 DEF NewContribution, Contribution
  <2> HIDE DEF c
  <2>3. EngineOK'
    BY <2>1, FrameEngine
  <2>4. Placed' /\ contributions' \subseteq Contribution
        /\ nextContribution' \in 1 .. MaxContributions + 1
    BY <2>1, <2>2, EnterKeeps
  <2> QED BY <2>1, <2>3, <2>4 DEF TypeOK, ActivityTypeOK
<1>4. ASSUME NEW c \in contributions, TransferMatures(c)
      PROVE  ForestInv'
  <2> DEFINE d == [c EXCEPT !.due = TRUE]
  <2>1. /\ UNCHANGED <<today, records, nextId, forest, goals, nextContribution>>
        /\ UNCHANGED <<milestones, inventory, impacts, deletions, screen>>
        /\ UNCHANGED <<challenge, offered, claim>>
        /\ c.reward = "pending" /\ contributions' = (contributions \ {c}) \cup {d}
    BY <1>4 DEF TransferMatures, activityVars, linkVars, claimVars
  <2>2. /\ d \in Contribution /\ d.id = c.id /\ d.goal = c.goal /\ d.amount = c.amount
        /\ d.reward = c.reward /\ d.due
    BY DEF TypeOK, Contribution
  <2> HIDE DEF d
  <2>3. Placed'
    BY <2>1, <2>2, ChangedPlaced
  <2>4. EngineOK'
    BY <2>1, FrameEngine
  <2> QED BY <2>1, <2>2, <2>3, <2>4 DEF TypeOK, ActivityTypeOK
<1>5. ASSUME NEW item \in Items, BuyItem(item)
      PROVE  ForestInv'
  <2>1. /\ UNCHANGED <<today, records, nextId, goals, contributions, nextContribution>>
        /\ UNCHANGED <<milestones, impacts, deletions, screen, challenge, offered, claim>>
    BY <1>5 DEF BuyItem, goalVars, linkVars, claimVars
  <2>2. inventory' \in [Items -> 0 .. MaxPurchases]
    BY <1>0, <1>5 DEF BuyItem, TypeOK
  <2>3. EngineOK'
    BY <1>5, BuyEffect
  <2>4. forest' \in ForestType
    BY <2>3 DEF EngineOK, EngineInv
  <2> QED BY <2>1, <2>2, <2>3, <2>4, FramePlaced DEF TypeOK, ActivityTypeOK
<1> QED BY <1>1, <1>2, <1>3, <1>4, <1>5 DEF GoalNext

\* The rewards do not look at the streak row, nor at the shown XP.
LEMMA SameRewards ==
  ASSUME EngineOK, NEW g \in ForestType, g.rows = forest.rows, g.awards = forest.awards,
         g.dayTotal = forest.dayTotal, g.weekTotal = forest.weekTotal
  PROVE  EngineInv(g) /\ AwardsMatch(g)
<1>1. EngineInv(g)
  BY DEF EngineOK, EngineInv, WeekLevel, Capped, InOrderIn
<1>2. AwardsMatch(g)
  BY DEF EngineOK, AwardsMatch, KindsOn
<1> QED BY <1>1, <1>2

LEMMA GoalPercentTyped ==
  GoalPercent \in Nat
<1> DEFINE reached(g) ==
             {p \in Percents : 100 * Saved(contributions, g) >= p * goals[g].target}
           best == UNION {reached(g) : g \in PrimaryGoals}
           most == CHOOSE p \in best : \A q \in best : q <= p
<1>1. best \subseteq {10, 25, 50, 75, 100}
  BY DEF Percents
<1>2. GoalPercent = IF best = {} THEN 0 ELSE most
  BY DEF GoalPercent
<1> HIDE DEF best
<1>3. best # {} => \E p \in best : \A q \in best : q <= p
  <2>1. CASE 100 \in best
    BY <1>1, <2>1
  <2>2. CASE 100 \notin best /\ 75 \in best
    BY <1>1, <2>2
  <2>3. CASE 100 \notin best /\ 75 \notin best /\ 50 \in best
    BY <1>1, <2>3
  <2>4. CASE 100 \notin best /\ 75 \notin best /\ 50 \notin best /\ 25 \in best
    BY <1>1, <2>4
  <2>5. CASE 100 \notin best /\ 75 \notin best /\ 50 \notin best /\ 25 \notin best
    <3>1. \A p \in best : p = 10
      BY <1>1, <2>5
    <3> QED BY <3>1
  <2> QED BY <2>1, <2>2, <2>3, <2>4, <2>5
<1>4. best # {} => most \in best
  BY <1>3
<1>5. best # {} => most \in Nat
  <2>1. \A p \in best : p \in Nat
    BY <1>1
  <2> HIDE DEF most
  <2> QED BY <1>4, <2>1
<1> QED BY <1>2, <1>5

LEMMA GrowthTyped ==
  ASSUME TypeOK, NEW xp \in Nat, NEW current \in Nat
  PROVE  Growth(xp, current) \in Nat
<1>1. RecentDays \in Nat
  <2>1. CompletedDays(forest) \subseteq Days
    BY DEF TypeOK, ActivityTypeOK, ForestType, RawRows, CompletedDays
  <2>2. {d \in CompletedDays(forest) : today - 6 <= d /\ d <= today} \in SUBSET Days
    BY <2>1
  <2> QED BY <2>2, DaysFinite DEF RecentDays
<1>2. ItemBonus \in Nat
  BY DEF ItemBonus
<1>3. AtMost(xp, 3200) \in Nat /\ AtMost(current, 30) \in Nat
  BY DEF AtMost
<1>4. 21 * AtMost(xp, 3200) \in Nat /\ 1400 * AtMost(current, 30) \in Nat
      /\ 4800 * RecentDays \in Nat /\ 252 * GoalPercent \in Nat
  BY <1>1, <1>3, GoalPercentTyped
<1> QED BY <1>2, <1>4 DEF Growth, AtMost

LEMMA ShowEffect ==
  ASSUME TypeOK, EngineOK, NEW l \in Screens, ShowForest(l)
  PROVE  /\ EngineOK'
         /\ forest'.rows = forest.rows /\ forest'.awards = forest.awards
         /\ forest'.xpLedger = forest.xpLedger /\ forest'.seedLedger = forest.seedLedger
         /\ screen[l].streak = forest.streak =>
              /\ forest'.streak.current = forest.streak.current
              /\ forest'.streak.last = forest.streak.last
              /\ forest'.streak.leaves = forest.streak.leaves
              /\ StreakInv(forest) => StreakInv(forest')
              /\ MissedDaysIn(forest') = MissedDaysIn(forest)
<1> DEFINE s == screen[l].streak
           growth == Growth(screen[l].xp, s.current)
           streak == WrittenBack(s, growth)
<1>1. forest \in ForestType
  BY DEF EngineOK, EngineInv
<1>2. s \in StreakRow /\ screen[l].xp \in Nat
  BY DEF TypeOK, Screen
<1>3. growth \in Nat
  <2>1. s.current \in Nat
    BY <1>2 DEF StreakRow
  <2> QED BY <1>2, <2>1, GrowthTyped
<1>4. forest' = [forest EXCEPT !.streak = streak] \/ forest' = forest
  BY DEF ShowForest
<1> HIDE DEF s, growth
<1>5. /\ streak \in StreakRow /\ streak.current = s.current /\ streak.last = s.last
      /\ streak.leaves = s.leaves
  BY <1>2, <1>3 DEF WrittenBack, StreakRow
<1> HIDE DEF streak
<1>6. /\ forest' \in ForestType /\ forest'.rows = forest.rows
      /\ forest'.awards = forest.awards /\ forest'.dayTotal = forest.dayTotal
      /\ forest'.weekTotal = forest.weekTotal
      /\ forest'.streak = streak \/ forest'.streak = forest.streak
      /\ forest'.xpLedger = forest.xpLedger /\ forest'.seedLedger = forest.seedLedger
  BY <1>1, <1>4, <1>5 DEF ForestType
<1>7. EngineInv(forest') /\ AwardsMatch(forest')
  BY <1>6, SameRewards
<1>8. ASSUME s = forest.streak
      PROVE  /\ forest'.streak.current = forest.streak.current
             /\ forest'.streak.last = forest.streak.last
             /\ forest'.streak.leaves = forest.streak.leaves
             /\ StreakInv(forest) => StreakInv(forest')
             /\ MissedDaysIn(forest') = MissedDaysIn(forest)
  <2>1. /\ forest'.streak.current = forest.streak.current
        /\ forest'.streak.last = forest.streak.last
        /\ forest'.streak.leaves = forest.streak.leaves
    BY <1>5, <1>6, <1>8
  <2> QED BY <1>6, <2>1, SameEngine DEF EngineOK
<1> QED BY <1>6, <1>7, <1>8 DEF EngineOK, s

LEMMA WriteEffect ==
  ASSUME EngineOK, NEW xp \in Nat, forest' = [forest EXCEPT !.xp = xp]
  PROVE  /\ EngineOK' /\ forest' \in ForestType
         /\ forest'.rows = forest.rows /\ forest'.awards = forest.awards
         /\ forest'.xpLedger = forest.xpLedger /\ forest'.seedLedger = forest.seedLedger
         /\ forest'.streak = forest.streak
         /\ StreakInv(forest) => StreakInv(forest')
         /\ MissedDaysIn(forest') = MissedDaysIn(forest)
<1>1. forest \in ForestType
  BY DEF EngineOK, EngineInv
<1>2. /\ forest' \in ForestType /\ forest'.rows = forest.rows
      /\ forest'.awards = forest.awards /\ forest'.dayTotal = forest.dayTotal
      /\ forest'.weekTotal = forest.weekTotal /\ forest'.streak = forest.streak
      /\ forest'.xpLedger = forest.xpLedger /\ forest'.seedLedger = forest.seedLedger
  BY <1>1 DEF ForestType
<1>3. EngineInv(forest') /\ AwardsMatch(forest')
  BY <1>2, SameRewards
<1>4. /\ MissedDaysIn(forest') = MissedDaysIn(forest)
      /\ StreakInv(forest) => StreakInv(forest')
  BY <1>2, SameEngine DEF EngineOK
<1> QED BY <1>2, <1>3, <1>4 DEF EngineOK

LEMMA ScreenKeeps ==
  ASSUME ForestInv, ScreenNext
  PROVE  ForestInv'
<1> USE DEF ForestInv
<1>0. ActivityTypeOK /\ MaxContributions \in Nat /\ MaxGoals \in 0 .. 4
  BY ForestAssumption DEF TypeOK
<1>00. /\ forest \in ForestType /\ forest.xp \in Nat /\ forest.streak \in StreakRow
       /\ screen \in [Screens -> Screen]
       /\ \A l \in Screens : screen[l] \in Screen
  BY DEF TypeOK, ActivityTypeOK, ForestType
<1>1. ASSUME NEW l \in Screens, BeginLoad(l)
      PROVE  ForestInv'
  <2> DEFINE due == {c.id : c \in DueTransfers}
  <2>1. /\ UNCHANGED <<today, records, nextId, forest, goals, contributions>>
        /\ UNCHANGED <<nextContribution, milestones, inventory, impacts, deletions>>
        /\ UNCHANGED <<challenge, offered, claim>>
        /\ screen' = [screen EXCEPT ![l].pc = "settle", ![l].due = due]
    BY <1>1 DEF BeginLoad, activityVars, goalVars, linkVars, claimVars
  <2>2. /\ due \subseteq 1 .. MaxContributions
        /\ \A id \in due : \E c \in contributions : c.id = id /\ c.due
    BY DEF DueTransfers, TypeOK, Contribution
  <2> HIDE DEF due
  <2>3. /\ screen' \in [Screens -> Screen]
        /\ \A k \in Screens : screen'[k].due = IF k = l THEN due ELSE screen[k].due
    BY <1>00, <2>1, <2>2 DEF Screen
  <2>4. EngineOK'
    BY <2>1, FrameEngine
  <2>5. Placed'
    <3>1. \A k \in Screens : \A id \in screen'[k].due :
            id < nextContribution /\ \A c \in contributions : c.id = id => c.due
      <4>1. ASSUME NEW id \in due
            PROVE  id < nextContribution /\ \A c \in contributions : c.id = id => c.due
        <5>1. PICK e \in contributions : e.id = id /\ e.due
          BY <2>2
        <5> QED BY <5>1 DEF Placed
      <4> QED BY <2>3, <4>1 DEF Placed
    <3> QED BY <2>1, <3>1 DEF Placed, Goals
  <2> QED BY <2>1, <2>3, <2>4, <2>5 DEF TypeOK, ActivityTypeOK
<1>2. ASSUME NEW l \in Screens, NEW c \in contributions, SettleTransfer(l, c)
      PROVE  ForestInv'
  <2> DEFINE d == [c EXCEPT !.reward = "awarded"]
             rows == (contributions \ {c}) \cup {d}
  <2>1. /\ UNCHANGED <<today, records, nextId, goals, nextContribution, inventory>>
        /\ UNCHANGED <<impacts, deletions, challenge, offered, claim>>
        /\ contributions' = rows /\ Reward(rows, d)
        /\ screen' = [screen EXCEPT ![l].due = @ \ {c.id}]
        /\ c.id \in screen[l].due
    BY <1>2 DEF SettleTransfer, linkVars, claimVars
  <2>2. /\ d \in Contribution /\ d.id = c.id /\ d.goal = c.goal /\ d.amount = c.amount
        /\ d.reward = "awarded" /\ d.due = c.due
    BY DEF TypeOK, Contribution
  <2>3. c.due /\ c.reward # "none"
    BY <2>1 DEF Placed
  <2> HIDE DEF d
  <2>4. /\ screen' \in [Screens -> Screen]
        /\ \A k \in Screens : screen'[k].due \subseteq screen[k].due
    BY <1>00, <2>1 DEF Screen
  <2>5. Placed'
    BY <2>1, <2>2, <2>3, <2>4, ChangedPlaced
  <2>6. EngineOK' /\ milestones' \subseteq (1 .. MaxGoals) \X Percents
    BY <2>1, <2>2, RewardKeeps, RewardMilestones
  <2>7. forest' \in ForestType
    BY <2>6 DEF EngineOK, EngineInv
  <2> QED BY <2>1, <2>2, <2>4, <2>5, <2>6, <2>7 DEF TypeOK, ActivityTypeOK
<1>3. ASSUME NEW l \in Screens, ReadStreak(l)
      PROVE  ForestInv'
  <2>1. /\ UNCHANGED <<today, records, nextId, forest, goals, contributions>>
        /\ UNCHANGED <<nextContribution, milestones, inventory, impacts, deletions>>
        /\ UNCHANGED <<challenge, offered, claim>>
        /\ screen' = [screen EXCEPT ![l].pc = "view", ![l].xp = forest.xp,
                                    ![l].streak = forest.streak]
    BY <1>3 DEF ReadStreak, activityVars, goalVars, linkVars, claimVars
  <2>2. /\ screen' \in [Screens -> Screen]
        /\ \A k \in Screens : screen'[k].due = screen[k].due
    BY <1>00, <2>1 DEF Screen
  <2>3. EngineOK'
    BY <2>1, FrameEngine
  <2>4. Placed'
    BY <2>1, <2>2 DEF Placed, Goals
  <2> QED BY <2>1, <2>2, <2>3, <2>4 DEF TypeOK, ActivityTypeOK
<1>4. ASSUME NEW l \in Screens, ShowForest(l)
      PROVE  ForestInv'
  <2>1. /\ UNCHANGED <<today, records, nextId, goals, contributions>>
        /\ UNCHANGED <<nextContribution, milestones, inventory, impacts, deletions>>
        /\ UNCHANGED <<challenge, offered, claim>>
        /\ screen' = [screen EXCEPT ![l] = IdleScreen]
    BY <1>4 DEF ShowForest, goalVars, linkVars, claimVars
  <2>2. IdleScreen \in Screen /\ IdleScreen.due = {}
    BY ActivityAssumption DEF IdleScreen, Screen, NoStreak, StreakRow
  <2>3. /\ screen' \in [Screens -> Screen]
        /\ \A k \in Screens : screen'[k].due \subseteq screen[k].due
    BY <1>00, <2>1, <2>2
  <2>4. EngineOK'
    BY <1>4, ShowEffect
  <2>5. forest' \in ForestType
    BY <2>4 DEF EngineOK, EngineInv
  <2>6. Placed'
    BY <2>1, <2>3 DEF Placed, Goals
  <2> QED BY <2>1, <2>3, <2>4, <2>5, <2>6 DEF TypeOK, ActivityTypeOK
<1>5. ASSUME NEW c \in Challenges, EvaluateChallenge(c)
      PROVE  ForestInv'
  <2>1. /\ UNCHANGED <<today, records, nextId, forest, goals, contributions>>
        /\ UNCHANGED <<nextContribution, milestones, inventory, impacts, deletions>>
        /\ UNCHANGED <<screen, claim>>
        /\ challenge' = [challenge EXCEPT ![c] = "completed"]
        /\ offered' = Completed \cup {c}
    BY <1>5 DEF EvaluateChallenge, activityVars, goalVars, linkVars
  <2> QED BY <2>1, FrameEngine, FramePlaced DEF TypeOK, ActivityTypeOK, Completed
<1>6. ASSUME NEW t \in Taps, NEW c \in Challenges, BeginClaim(t, c)
      PROVE  ForestInv'
  <2>1. /\ UNCHANGED <<today, records, nextId, forest, goals, contributions>>
        /\ UNCHANGED <<nextContribution, milestones, inventory, impacts, deletions>>
        /\ UNCHANGED <<screen, offered>>
        /\ challenge' = [challenge EXCEPT ![c] = "claimed"]
        /\ claim' = [claim EXCEPT ![t].pc = "read", ![t].worth = xpReward[c]]
    BY <1>6 DEF BeginClaim, activityVars, goalVars, linkVars
  <2>2. xpReward[c] \in Nat
    BY ForestAssumption
  <2>3. claim' \in [Taps -> Claim]
    BY <2>1, <2>2 DEF TypeOK, Claim
  <2> QED BY <2>1, <2>3, FrameEngine, FramePlaced DEF TypeOK, ActivityTypeOK
<1>7. ASSUME NEW t \in Taps, ReadStatus(t)
      PROVE  ForestInv'
  <2>1. /\ UNCHANGED <<today, records, nextId, forest, goals, contributions>>
        /\ UNCHANGED <<nextContribution, milestones, inventory, impacts, deletions>>
        /\ UNCHANGED <<screen, challenge, offered>>
        /\ claim' = [claim EXCEPT ![t].pc = "write", ![t].xp = forest.xp]
    BY <1>7 DEF ReadStatus, activityVars, goalVars, linkVars
  <2>2. claim' \in [Taps -> Claim]
    BY <1>00, <2>1 DEF TypeOK, Claim
  <2> QED BY <2>1, <2>2, FrameEngine, FramePlaced DEF TypeOK, ActivityTypeOK
<1>8. ASSUME NEW t \in Taps, WriteStatus(t)
      PROVE  ForestInv'
  <2>1. /\ UNCHANGED <<today, records, nextId, goals, contributions>>
        /\ UNCHANGED <<nextContribution, milestones, inventory, impacts, deletions>>
        /\ UNCHANGED <<screen, challenge, offered>>
        /\ claim' = [claim EXCEPT ![t].pc = "refresh"]
        /\ forest' = [forest EXCEPT !.xp = claim[t].xp + claim[t].worth]
    BY <1>8 DEF WriteStatus, goalVars, linkVars
  <2>2. claim' \in [Taps -> Claim]
    BY <2>1 DEF TypeOK, Claim
  <2>3. claim[t].xp + claim[t].worth \in Nat
    BY DEF TypeOK, Claim
  <2>4. EngineOK' /\ forest' \in ForestType
    BY <1>00, <2>1, <2>3, WriteEffect
  <2> QED BY <2>1, <2>2, <2>4, FramePlaced DEF TypeOK, ActivityTypeOK
<1>9. ASSUME NEW t \in Taps, RefreshChallenges(t)
      PROVE  ForestInv'
  <2>1. /\ UNCHANGED <<today, records, nextId, forest, goals, contributions>>
        /\ UNCHANGED <<nextContribution, milestones, inventory, impacts, deletions>>
        /\ UNCHANGED <<screen, challenge>>
        /\ offered' = Completed
        /\ claim' = [claim EXCEPT ![t] = IdleClaim]
    BY <1>9 DEF RefreshChallenges, activityVars, goalVars, linkVars
  <2>2. claim' \in [Taps -> Claim]
    BY <2>1 DEF TypeOK, Claim, IdleClaim
  <2> QED BY <2>1, <2>2, FrameEngine, FramePlaced DEF TypeOK, ActivityTypeOK, Completed
<1> QED BY <1>1, <1>2, <1>3, <1>4, <1>5, <1>6, <1>7, <1>8, <1>9 DEF ScreenNext

LEMMA StepKeeps ==
  ASSUME ForestInv, [Next]_vars
  PROVE  ForestInv'
<1>1. CASE Next
  BY <1>1, FinanceKeeps, GoalKeeps, ScreenKeeps DEF Next
<1>2. CASE UNCHANGED vars
  BY <1>2, FrameEngine, FramePlaced
     DEF vars, activityVars, forestVars, goalVars, linkVars, claimVars, ForestInv, TypeOK,
         ActivityTypeOK
<1> QED BY <1>1, <1>2

\* ForestInv is inductive: it holds at the start and every step keeps it.
THEOREM ForestSafe == Spec => []ForestInv
<1>1. Init => ForestInv
  BY InitKeeps
<1>2. ForestInv /\ [Next]_vars => ForestInv'
  BY StepKeeps
<1> QED BY <1>1, <1>2, PTL DEF Spec

\* Every variable keeps its type, whatever the screens and the taps interleave.
THEOREM ForestTyped == Spec => []TypeOK
<1>1. ForestInv => TypeOK
  BY DEF ForestInv
<1> QED BY <1>1, ForestSafe, PTL

\* A day has earned the awards of the kinds of action recorded on it, and no
\* other (daily_activity_engine.dart: _recordMeaningful, _award).
THEOREM AwardsMatchAlways == Spec => []AwardsMatchRecords
<1>1. ForestInv => AwardsMatchRecords
  BY DEF ForestInv, EngineOK, AwardsMatch, AwardsMatchRecords
<1> QED BY <1>1, ForestSafe, PTL

\* No day earns more than its cap, and no week that was recorded in order more
\* than the week's (daily_activity_engine.dart: _award).
THEOREM CapsAlways == Spec => []CapsRespected
<1>1. ForestInv => CapsRespected
  BY DEF ForestInv, EngineOK, EngineInv, Capped, CapsRespected, InOrderIn, InOrder
<1> QED BY <1>1, ForestSafe, PTL

-----------------------------------------------------------------------------
\* The primary goal.

LEMMA PrimaryKept ==
  ASSUME ForestInv, OnePrimary, [Next]_vars
  PROVE  OnePrimary'
<1> USE DEF ForestInv
<1>0. /\ Goals = 1 .. Len(goals) /\ Len(goals) \in Nat
      /\ goals \in Seq([target : Targets, priority : 0 .. MaxGoals])
      /\ \A g \in Goals : goals[g] \in [target : Targets, priority : 0 .. MaxGoals]
  BY GoalsBounded, GoalTyped DEF TypeOK
<1>1. ASSUME UNCHANGED goals PROVE OnePrimary'
  BY <1>1 DEF OnePrimary, PrimaryGoals, Goals
<1>2. ASSUME NEW target \in Targets, NEW primary \in BOOLEAN, CreateGoal(target, primary)
      PROVE  OnePrimary'
  <2> DEFINE n == Len(goals)
             first == primary \/ goals = << >>
             others == IF first
                       THEN [g \in Goals |-> [goals[g] EXCEPT !.priority = 1]]
                       ELSE goals
             new == [target |-> target, priority |-> IF first THEN 0 ELSE n]
  <2>1. goals' = Append(others, new)
    BY <1>2 DEF CreateGoal
  <2>2. Len(others) = n /\ DOMAIN others = Goals
        /\ \E R : others \in Seq(R)
    <3>1. CASE first
      <4> DEFINE R == [target : Targets, priority : 0 .. MaxGoals \cup {1}]
      <4>1. \A g \in Goals : [goals[g] EXCEPT !.priority = 1] \in R
        BY <1>0
      <4>2. others \in Seq(R) /\ Len(others) = n /\ DOMAIN others = Goals
        <5> HIDE DEF R
        <5> QED BY <1>0, <3>1, <4>1
      <4> QED BY <4>2
    <3>2. CASE ~first
      BY <1>0, <3>2 DEF Goals
    <3> QED BY <3>1, <3>2
  <2>3. \A g \in Goals : first => others[g].priority = 1
    BY <1>0
  <2>4. ~first => others = goals /\ new.priority = n /\ n # 0
    BY <1>0
  <2>5. first => new.priority = 0
    OBVIOUS
  <2> HIDE DEF others, new
  <2>6. /\ Len(goals') = n + 1 /\ Goals' = 1 .. n + 1
        /\ \A g \in Goals : goals'[g] = others[g]
        /\ goals'[n + 1] = new
    BY <1>0, <2>1, <2>2 DEF Goals
  <2>7. CASE first
    <3>1. PrimaryGoals' = {n + 1}
      BY <1>0, <2>3, <2>5, <2>6, <2>7 DEF PrimaryGoals
    <3> QED BY <1>0, <2>6, <3>1 DEF OnePrimary
  <2>8. CASE ~first
    <3>1. PrimaryGoals' = PrimaryGoals
      BY <1>0, <2>4, <2>6, <2>8 DEF PrimaryGoals
    <3> QED BY <1>0, <2>4, <2>6, <2>8, <3>1 DEF OnePrimary
  <2> QED BY <2>7, <2>8
<1>3. ASSUME NEW goal \in Goals, SelectPrimaryGoal(goal)
      PROVE  OnePrimary'
  <2>1. goals' = Reordered(goal)
    BY <1>3 DEF SelectPrimaryGoal
  <2>2. ASSUME NEW h \in Goals PROVE goals'[h].priority = 0 <=> h = goal
    <3>1. goals'[h] = [goals[h] EXCEPT !.priority =
             IF h = goal THEN 0
             ELSE 1 + Cardinality({g \in Goals \ {goal} : Before(g, h)})]
      BY <2>1 DEF Reordered
    <3>2. CASE h = goal
      BY <1>0, <3>1, <3>2
    <3>3. CASE h # goal
      <4> DEFINE rank == Cardinality({g \in Goals \ {goal} : Before(g, h)})
      <4>1. rank \in Nat
        BY <3>3, RankBounded
      <4>2. goals'[h].priority = 1 + rank
        BY <1>0, <3>1, <3>3
      <4> HIDE DEF rank
      <4> QED BY <3>3, <4>1, <4>2
    <3> QED BY <3>2, <3>3
  <2>3. Goals' = Goals
    BY <2>1 DEF Goals, Reordered
  <2>4. PrimaryGoals' = {goal}
    BY <2>2, <2>3 DEF PrimaryGoals
  <2> QED BY <2>3, <2>4 DEF OnePrimary
<1>4. ASSUME [FinanceNext \/ ScreenNext]_vars PROVE UNCHANGED goals
  BY <1>4 DEF FinanceNext, ScreenNext, SaveExpense, SaveIncome, CheckImpact, ApplyExpense,
     ApplyIncome, RemoveTransactionImpact, DeleteRecord, ReviewDay, Midnight, BeginLoad,
     SettleTransfer, ReadStreak, ShowForest, EvaluateChallenge, BeginClaim, ReadStatus,
     WriteStatus, RefreshChallenges, vars, forestVars, goalVars
<1>5. ASSUME GoalNext PROVE OnePrimary'
  <2>1. ASSUME NEW goal \in Goals, NEW amount \in Amounts, NEW reward \in {"none", "pending"},
               AddContribution(goal, amount, reward)
        PROVE  UNCHANGED goals
    BY <2>1 DEF AddContribution
  <2>2. ASSUME NEW c \in contributions, TransferMatures(c) PROVE UNCHANGED goals
    BY <2>2 DEF TransferMatures
  <2>3. ASSUME NEW item \in Items, BuyItem(item) PROVE UNCHANGED goals
    BY <2>3 DEF BuyItem, goalVars
  <2> QED BY <1>1, <1>2, <1>3, <1>5, <2>1, <2>2, <2>3 DEF GoalNext
<1> QED BY <1>1, <1>4, <1>5 DEF Next

\* Unless there is no goal, exactly one is the primary one: creating and selecting
\* renumber the others (living_forest_service.dart: createGoal, selectPrimaryGoal).
THEOREM PrimaryAlways == Spec => []OnePrimary
<1>1. Init => OnePrimary
  BY DEF Init, OnePrimary
<1>2. ForestInv /\ OnePrimary /\ [Next]_vars => OnePrimary'
  BY PrimaryKept
<1> QED BY <1>1, <1>2, ForestSafe, PTL DEF Spec

-----------------------------------------------------------------------------
\* Rewards wait.

\* An award for a contribution is entered only for a linked record or for a
\* transfer that is due, whichever load settles it and whatever came between its
\* reading and its writing (living_forest_service.dart: _settleDueTransfers).
THEOREM RewardsWaitAlways == Spec => RewardsWait
<1> DEFINE Waits == \A c \in contributions' :
             c.reward = "awarded" /\ c \notin contributions => c.record # 0 \/ c.due
<1>1. ASSUME ForestInv, Next PROVE Waits
  <2> USE <1>1 DEF ForestInv
  <2>1. ASSUME contributions' \subseteq contributions PROVE Waits
    BY <2>1
  <2>2. ASSUME NEW c, contributions' = contributions \cup {c}, c.reward # "awarded"
        PROVE  Waits
    BY <2>2
  <2>3. ASSUME FinanceNext PROVE Waits
    <3>1. ASSUME NEW day \in Days, NEW source \in {0} \cup Receipts,
                 NEW goal \in {0} \cup Goals, NEW amount \in Amounts,
                 SaveExpense(day, source, goal, amount)
          PROVE  Waits
      BY <2>1, <3>1 DEF SaveExpense, goalVars
    <3>2. ASSUME NEW day \in Days, NEW goal \in {0} \cup Goals, NEW amount \in Amounts,
                 SaveIncome(day, goal, amount)
          PROVE  Waits
      BY <2>1, <3>2 DEF SaveIncome, goalVars
    <3>3. ASSUME NEW i \in impacts, CheckImpact(i) PROVE Waits
      BY <2>1, <3>3 DEF CheckImpact, goalVars
    <3>4. ASSUME NEW i \in impacts, ApplyExpense(i) PROVE Waits
      BY <3>4 DEF ApplyExpense, Enter, NewContribution
    <3>5. ASSUME NEW i \in impacts, ApplyIncome(i) PROVE Waits
      <4>1. i.record # 0
        BY DEF TypeOK, Impact, RecordIds
      <4> QED BY <3>5, <4>1 DEF ApplyIncome, Enter, NewContribution
    <3>6. ASSUME NEW id \in RecordIds, RemoveTransactionImpact(id) \/ DeleteRecord(id)
          PROVE  Waits
      BY <2>1, <3>6 DEF RemoveTransactionImpact, DeleteRecord, goalVars
    <3>7. ASSUME NEW day \in Days, ReviewDay(day) PROVE Waits
      BY <2>1, <3>7 DEF ReviewDay, forestVars, goalVars
    <3>8. ASSUME Midnight PROVE Waits
      BY <2>1, <3>8 DEF Midnight, forestVars, goalVars
    <3> QED BY <2>3, <3>1, <3>2, <3>3, <3>4, <3>5, <3>6, <3>7, <3>8 DEF FinanceNext
  <2>4. ASSUME GoalNext PROVE Waits
    <3>1. ASSUME NEW target \in Targets, NEW primary \in BOOLEAN, CreateGoal(target, primary)
          PROVE  Waits
      BY <2>1, <3>1 DEF CreateGoal
    <3>2. ASSUME NEW goal \in Goals, SelectPrimaryGoal(goal) PROVE Waits
      BY <2>1, <3>2 DEF SelectPrimaryGoal
    <3>3. ASSUME NEW goal \in Goals, NEW amount \in Amounts,
                 NEW reward \in {"none", "pending"}, AddContribution(goal, amount, reward)
          PROVE  Waits
      BY <3>3 DEF AddContribution, Enter, NewContribution
    <3>4. ASSUME NEW c \in contributions, TransferMatures(c) PROVE Waits
      <4>1. [c EXCEPT !.due = TRUE].due
        BY DEF TypeOK, Contribution
      <4> QED BY <3>4, <4>1 DEF TransferMatures
    <3>5. ASSUME NEW item \in Items, BuyItem(item) PROVE Waits
      BY <2>1, <3>5 DEF BuyItem, goalVars
    <3> QED BY <2>4, <3>1, <3>2, <3>3, <3>4, <3>5 DEF GoalNext
  <2>5. ASSUME ScreenNext PROVE Waits
    <3>1. ASSUME NEW l \in Screens, NEW c \in contributions, SettleTransfer(l, c)
          PROVE  Waits
      <4>1. c.due
        BY <3>1 DEF SettleTransfer, Placed
      <4>2. [c EXCEPT !.reward = "awarded"].due
        BY <4>1 DEF TypeOK, Contribution
      <4> QED BY <3>1, <4>2 DEF SettleTransfer
    <3>2. ASSUME NEW l \in Screens, BeginLoad(l) \/ ReadStreak(l) \/ ShowForest(l)
          PROVE  Waits
      BY <2>1, <3>2 DEF BeginLoad, ReadStreak, ShowForest, goalVars
    <3>3. ASSUME NEW c \in Challenges, EvaluateChallenge(c) PROVE Waits
      BY <2>1, <3>3 DEF EvaluateChallenge, goalVars
    <3>4. ASSUME NEW c \in Challenges, NEW t \in Taps, BeginClaim(t, c) PROVE Waits
      BY <2>1, <3>4 DEF BeginClaim, goalVars
    <3>5. ASSUME NEW t \in Taps, ReadStatus(t) \/ WriteStatus(t) \/ RefreshChallenges(t)
          PROVE  Waits
      BY <2>1, <3>5 DEF ReadStatus, WriteStatus, RefreshChallenges, goalVars
    <3> QED BY <2>5, <3>1, <3>2, <3>3, <3>4, <3>5 DEF ScreenNext
  <2> QED BY <1>1, <2>3, <2>4, <2>5 DEF Next
<1>2. ForestInv /\ [Next]_vars => [Waits]_vars
  BY <1>1
<1> QED BY <1>2, ForestSafe, PTL DEF Spec, RewardsWait

-----------------------------------------------------------------------------
\* The sums of the model, as totals.
ContributionAmount == [c \in Contribution |-> c.amount]
MilestoneXp == [m \in (1 .. MaxGoals) \X Percents |-> milestoneXp[m[2]]]
MilestoneSeeds == [m \in (1 .. MaxGoals) \X Percents |-> milestoneSeeds[m[2]]]
Spent == [i \in Items |-> Price[i] * inventory[i]]

LEMMA AmountSum ==
  ASSUME NEW S \in SUBSET Contribution, IsFiniteSet(S)
  PROVE  MapThenSumSet(LAMBDA c : c.amount, S) = SumOver(ContributionAmount, S)
<1> DEFINE I(iter) == iter = [U \in SUBSET S |-> IF U = {} THEN 0
                             ELSE (CHOOSE x \in U : TRUE).amount + iter[U \ {CHOOSE x \in U : TRUE}]]
           it == CHOOSE iter : I(iter)
<1>1. \A x \in S : ContributionAmount[x] \in Int
  BY DEF ContributionAmount, Contribution
<1>2. ASSUME NEW iter PROVE I(iter) <=> Iterates(iter, ContributionAmount, S)
  <2>1. ASSUME NEW U \in SUBSET S, U # {}
        PROVE  ContributionAmount[CHOOSE x \in U : TRUE] = (CHOOSE x \in U : TRUE).amount
    <3>1. (CHOOSE x \in U : TRUE) \in U
      BY <2>1
    <3> QED BY <3>1 DEF ContributionAmount
  <2> QED BY <2>1 DEF Iterates
<1>3. I(it)
  <2> HIDE DEF I
  <2>1. \E iter : I(iter)
    BY <1>1, <1>2, IterationSum
  <2> QED BY <2>1
<1>4. it[S] = SumOver(ContributionAmount, S)
  <2> HIDE DEF I, it
  <2> QED BY <1>1, <1>2, <1>3, IterationSum
<1>5. MapThenSumSet(LAMBDA c : c.amount, S) = it[S]
  BY DEF MapThenSumSet, MapThenFoldSet
<1> QED BY <1>4, <1>5

LEMMA AwardXpSum ==
  ASSUME NEW S \in SUBSET AwardRows, IsFiniteSet(S)
  PROVE  MapThenSumSet(LAMBDA a : a.xp, S) = SumOver(AwardXp, S)
<1> DEFINE I(iter) == iter = [U \in SUBSET S |-> IF U = {} THEN 0
                             ELSE (CHOOSE x \in U : TRUE).xp + iter[U \ {CHOOSE x \in U : TRUE}]]
           it == CHOOSE iter : I(iter)
<1>1. \A x \in S : AwardXp[x] \in Int
  BY DEF AwardXp, AwardRows
<1>2. ASSUME NEW iter PROVE I(iter) <=> Iterates(iter, AwardXp, S)
  <2>1. ASSUME NEW U \in SUBSET S, U # {}
        PROVE  AwardXp[CHOOSE x \in U : TRUE] = (CHOOSE x \in U : TRUE).xp
    <3>1. (CHOOSE x \in U : TRUE) \in U
      BY <2>1
    <3> QED BY <3>1 DEF AwardXp
  <2> QED BY <2>1 DEF Iterates
<1>3. I(it)
  <2> HIDE DEF I
  <2>1. \E iter : I(iter)
    BY <1>1, <1>2, IterationSum
  <2> QED BY <2>1
<1>4. it[S] = SumOver(AwardXp, S)
  <2> HIDE DEF I, it
  <2> QED BY <1>1, <1>2, <1>3, IterationSum
<1>5. MapThenSumSet(LAMBDA a : a.xp, S) = it[S]
  BY DEF MapThenSumSet, MapThenFoldSet
<1> QED BY <1>4, <1>5

LEMMA AwardSeedsSum ==
  ASSUME NEW S \in SUBSET AwardRows, IsFiniteSet(S)
  PROVE  MapThenSumSet(LAMBDA a : a.seeds, S) = SumOver(AwardSeeds, S)
<1> DEFINE I(iter) == iter = [U \in SUBSET S |-> IF U = {} THEN 0
                             ELSE (CHOOSE x \in U : TRUE).seeds + iter[U \ {CHOOSE x \in U : TRUE}]]
           it == CHOOSE iter : I(iter)
<1>1. \A x \in S : AwardSeeds[x] \in Int
  BY DEF AwardSeeds, AwardRows
<1>2. ASSUME NEW iter PROVE I(iter) <=> Iterates(iter, AwardSeeds, S)
  <2>1. ASSUME NEW U \in SUBSET S, U # {}
        PROVE  AwardSeeds[CHOOSE x \in U : TRUE] = (CHOOSE x \in U : TRUE).seeds
    <3>1. (CHOOSE x \in U : TRUE) \in U
      BY <2>1
    <3> QED BY <3>1 DEF AwardSeeds
  <2> QED BY <2>1 DEF Iterates
<1>3. I(it)
  <2> HIDE DEF I
  <2>1. \E iter : I(iter)
    BY <1>1, <1>2, IterationSum
  <2> QED BY <2>1
<1>4. it[S] = SumOver(AwardSeeds, S)
  <2> HIDE DEF I, it
  <2> QED BY <1>1, <1>2, <1>3, IterationSum
<1>5. MapThenSumSet(LAMBDA a : a.seeds, S) = it[S]
  BY DEF MapThenSumSet, MapThenFoldSet
<1> QED BY <1>4, <1>5

LEMMA MilestoneXpSum ==
  ASSUME NEW S \in SUBSET ((1 .. MaxGoals) \X Percents), IsFiniteSet(S)
  PROVE  MapThenSumSet(LAMBDA m : milestoneXp[m[2]], S) = SumOver(MilestoneXp, S)
<1> DEFINE I(iter) == iter = [U \in SUBSET S |-> IF U = {} THEN 0
                             ELSE milestoneXp[(CHOOSE x \in U : TRUE)[2]] + iter[U \ {CHOOSE x \in U : TRUE}]]
           it == CHOOSE iter : I(iter)
<1>1. \A x \in S : MilestoneXp[x] \in Int
  BY MilestoneWorth DEF MilestoneXp
<1>2. ASSUME NEW iter PROVE I(iter) <=> Iterates(iter, MilestoneXp, S)
  <2>1. ASSUME NEW U \in SUBSET S, U # {}
        PROVE  MilestoneXp[CHOOSE x \in U : TRUE] = milestoneXp[(CHOOSE x \in U : TRUE)[2]]
    <3>1. (CHOOSE x \in U : TRUE) \in U
      BY <2>1
    <3> QED BY <3>1 DEF MilestoneXp
  <2> QED BY <2>1 DEF Iterates
<1>3. I(it)
  <2> HIDE DEF I
  <2>1. \E iter : I(iter)
    BY <1>1, <1>2, IterationSum
  <2> QED BY <2>1
<1>4. it[S] = SumOver(MilestoneXp, S)
  <2> HIDE DEF I, it
  <2> QED BY <1>1, <1>2, <1>3, IterationSum
<1>5. MapThenSumSet(LAMBDA m : milestoneXp[m[2]], S) = it[S]
  BY DEF MapThenSumSet, MapThenFoldSet
<1> QED BY <1>4, <1>5

LEMMA MilestoneSeedsSum ==
  ASSUME NEW S \in SUBSET ((1 .. MaxGoals) \X Percents), IsFiniteSet(S)
  PROVE  MapThenSumSet(LAMBDA m : milestoneSeeds[m[2]], S) = SumOver(MilestoneSeeds, S)
<1> DEFINE I(iter) == iter = [U \in SUBSET S |-> IF U = {} THEN 0
                             ELSE milestoneSeeds[(CHOOSE x \in U : TRUE)[2]] + iter[U \ {CHOOSE x \in U : TRUE}]]
           it == CHOOSE iter : I(iter)
<1>1. \A x \in S : MilestoneSeeds[x] \in Int
  BY MilestoneWorth DEF MilestoneSeeds
<1>2. ASSUME NEW iter PROVE I(iter) <=> Iterates(iter, MilestoneSeeds, S)
  <2>1. ASSUME NEW U \in SUBSET S, U # {}
        PROVE  MilestoneSeeds[CHOOSE x \in U : TRUE] = milestoneSeeds[(CHOOSE x \in U : TRUE)[2]]
    <3>1. (CHOOSE x \in U : TRUE) \in U
      BY <2>1
    <3> QED BY <3>1 DEF MilestoneSeeds
  <2> QED BY <2>1 DEF Iterates
<1>3. I(it)
  <2> HIDE DEF I
  <2>1. \E iter : I(iter)
    BY <1>1, <1>2, IterationSum
  <2> QED BY <2>1
<1>4. it[S] = SumOver(MilestoneSeeds, S)
  <2> HIDE DEF I, it
  <2> QED BY <1>1, <1>2, <1>3, IterationSum
<1>5. MapThenSumSet(LAMBDA m : milestoneSeeds[m[2]], S) = it[S]
  BY DEF MapThenSumSet, MapThenFoldSet
<1> QED BY <1>4, <1>5

LEMMA PriceTyped ==
  \A i \in Items : Price[i] \in Nat
<1>1. \A i \in DOMAIN Price : Price[i] \in Nat
  BY DEF Price
<1> QED BY <1>1, ForestAssumption

LEMMA SpentSum ==
  ASSUME TypeOK, NEW S \in SUBSET Items, IsFiniteSet(S)
  PROVE  MapThenSumSet(LAMBDA i : Price[i] * inventory[i], S) = SumOver(Spent, S)
<1> DEFINE I(iter) == iter = [U \in SUBSET S |-> IF U = {} THEN 0
                             ELSE Price[CHOOSE x \in U : TRUE] * inventory[CHOOSE x \in U : TRUE] + iter[U \ {CHOOSE x \in U : TRUE}]]
           it == CHOOSE iter : I(iter)
<1>1. \A x \in S : Spent[x] \in Int
  <2> SUFFICES ASSUME NEW x \in S PROVE Price[x] * inventory[x] \in Int
    BY DEF Spent
  <2>1. Price[x] \in Nat /\ inventory[x] \in Nat
    BY PriceTyped, ForestAssumption DEF TypeOK
  <2> QED BY <2>1
<1>2. ASSUME NEW iter PROVE I(iter) <=> Iterates(iter, Spent, S)
  <2>1. ASSUME NEW U \in SUBSET S, U # {}
        PROVE  Spent[CHOOSE x \in U : TRUE] = Price[CHOOSE x \in U : TRUE] * inventory[CHOOSE x \in U : TRUE]
    <3>1. (CHOOSE x \in U : TRUE) \in U
      BY <2>1
    <3> QED BY <3>1 DEF Spent
  <2> QED BY <2>1 DEF Iterates
<1>3. I(it)
  <2> HIDE DEF I
  <2>1. \E iter : I(iter)
    BY <1>1, <1>2, IterationSum
  <2> QED BY <2>1
<1>4. it[S] = SumOver(Spent, S)
  <2> HIDE DEF I, it
  <2> QED BY <1>1, <1>2, <1>3, IterationSum
<1>5. MapThenSumSet(LAMBDA i : Price[i] * inventory[i], S) = it[S]
  BY DEF MapThenSumSet, MapThenFoldSet
<1> QED BY <1>4, <1>5

-----------------------------------------------------------------------------
\* What is awarded is paid.

AwardedRows(rows, goal) == {c \in rows : c.goal = goal /\ c.reward = "awarded"}

LEMMA AwardedIsTotal ==
  ASSUME NEW rows \in SUBSET Contribution, IsFiniteSet(rows), NEW goal
  PROVE  /\ Awarded(rows, goal) = SumOver(ContributionAmount, AwardedRows(rows, goal))
         /\ Awarded(rows, goal) \in Int
         /\ IsFiniteSet(AwardedRows(rows, goal))
<1> DEFINE R == AwardedRows(rows, goal)
<1>1. R \in SUBSET rows
  BY DEF AwardedRows
<1>2. R \in SUBSET Contribution /\ IsFiniteSet(R)
  BY <1>1, FS_Subset
<1>3. Awarded(rows, goal) = MapThenSumSet(LAMBDA c : c.amount, R)
  BY DEF Awarded, AwardedRows
<1>4. \A c \in R : ContributionAmount[c] \in Int
  BY <1>2 DEF ContributionAmount, Contribution
<1> HIDE DEF R
<1>5. MapThenSumSet(LAMBDA c : c.amount, R) = SumOver(ContributionAmount, R)
  BY <1>2, AmountSum
<1> QED BY <1>2, <1>3, <1>4, <1>5, SumTyped DEF R

\* Awarded amounts are positive: less of them reach no more milestones.
LEMMA AwardedLess ==
  ASSUME TypeOK, Placed, NEW rows \in SUBSET Contribution, NEW goal,
         AwardedRows(rows, goal) \subseteq AwardedRows(contributions, goal)
  PROVE  Awarded(rows, goal) <= Awarded(contributions, goal) /\ Awarded(rows, goal) \in Int
<1>1. contributions \in SUBSET Contribution /\ IsFiniteSet(contributions)
  BY DEF TypeOK, Placed
<1>2. Awarded(contributions, goal) =
        SumOver(ContributionAmount, AwardedRows(contributions, goal))
      /\ IsFiniteSet(AwardedRows(contributions, goal))
  BY <1>1, AwardedIsTotal
<1>3. AwardedRows(rows, goal) = {c \in AwardedRows(rows, goal) : TRUE}
      /\ IsFiniteSet(AwardedRows(rows, goal))
  BY <1>2, FS_Subset
<1> DEFINE R == AwardedRows(rows, goal)
           S == AwardedRows(contributions, goal)
<1>4. \A c \in S : ContributionAmount[c] \in Int /\ ContributionAmount[c] >= 0
  BY <1>1 DEF AwardedRows, ContributionAmount, Contribution, Placed
<1>5. R \in SUBSET Contribution
  BY DEF AwardedRows
<1>6. Awarded(rows, goal) = MapThenSumSet(LAMBDA c : c.amount, R)
  BY DEF Awarded, AwardedRows
<1> HIDE DEF R, S
<1>7. Awarded(rows, goal) = SumOver(ContributionAmount, R) /\ IsFiniteSet(R)
  <2>1. IsFiniteSet(R)
    BY <1>3 DEF R
  <2> QED BY <1>5, <1>6, <2>1, AmountSum
<1>8. SumOver(ContributionAmount, R) <= SumOver(ContributionAmount, S)
      /\ SumOver(ContributionAmount, R) \in Int
  <2>1. R \in SUBSET S /\ IsFiniteSet(S)
    BY <1>2 DEF R, S
  <2> QED BY <1>4, <1>7, <2>1, SumOfFewer, SumTyped
<1> QED BY <1>2, <1>7, <1>8 DEF S

LEMMA PaidKept ==
  ASSUME TypeOK, Placed, AwardedIsPaid, TypeOK',
         forest.rows \subseteq forest'.rows, milestones \subseteq milestones',
         \A g \in Goals : g \in Goals' /\ goals'[g].target = goals[g].target,
         \A c \in contributions' : c.reward = "awarded" =>
            \/ c \in contributions
            \/ \E r \in forest'.rows : /\ r.day = c.day
                                       /\ r.ref = [type |-> "contribution", key |-> c.id],
         \A g \in Goals' :
            \/ /\ g \in Goals
               /\ AwardedRows(contributions', g) \subseteq AwardedRows(contributions, g)
            \/ \A p \in Percents :
                 100 * Awarded(contributions', g) >= p * goals'[g].target
                   => <<g, p>> \in milestones'
  PROVE  AwardedIsPaid'
<1>1. \A c \in contributions' : c.reward = "awarded" =>
         \E r \in forest'.rows : /\ r.day = c.day
                                 /\ r.ref = [type |-> "contribution", key |-> c.id]
  BY DEF AwardedIsPaid
<1>2. ASSUME NEW g \in Goals', NEW p \in Percents,
             100 * Awarded(contributions', g) >= p * goals'[g].target
      PROVE  <<g, p>> \in milestones'
  <2>1. CASE g \in Goals /\ AwardedRows(contributions', g) \subseteq AwardedRows(contributions, g)
    <3>1. /\ Awarded(contributions', g) <= Awarded(contributions, g)
          /\ Awarded(contributions', g) \in Int
      BY <2>1, AwardedLess DEF TypeOK
    <3>2. Awarded(contributions, g) \in Int
      BY AwardedIsTotal DEF TypeOK, Placed
    <3>3. goals[g].target \in Int /\ p \in Int /\ goals'[g].target = goals[g].target
      <4>1. goals[g].target \in Targets
        BY <2>1, GoalTyped
      <4>2. goals[g].target \in Int
        <5>1. \A t \in Targets : t \in Int
          BY ForestAssumption
        <5> QED BY <4>1, <5>1
      <4>3. p \in Int
        BY DEF Percents
      <4> QED BY <2>1, <4>2, <4>3
    <3> DEFINE bound == p * goals[g].target
    <3>4. bound \in Int /\ 100 * Awarded(contributions', g) >= bound
      BY <1>2, <3>3
    <3> HIDE DEF bound
    <3>5. 100 * Awarded(contributions, g) >= bound
      BY <3>1, <3>2, <3>4
    <3>6. <<g, p>> \in milestones
      BY <2>1, <3>5 DEF AwardedIsPaid, Reached, Paid, bound
    <3> QED BY <3>6
  <2> QED BY <1>2, <2>1
<1> QED BY <1>1, <1>2 DEF AwardedIsPaid, Reached, Paid

LEMMA PaidSame ==
  ASSUME TypeOK, Placed, AwardedIsPaid, TypeOK',
         forest.rows \subseteq forest'.rows, UNCHANGED <<milestones, goals>>,
         \A c \in contributions' : c.reward = "awarded" => c \in contributions
  PROVE  AwardedIsPaid'
<1>1. \A g : AwardedRows(contributions', g) \subseteq AwardedRows(contributions, g)
  BY DEF AwardedRows
<1>2. Goals' = Goals
  BY DEF Goals
<1> QED BY <1>1, <1>2, PaidKept

\* A contribution that is entered as awarded, or becomes it.
LEMMA PaidReward ==
  ASSUME TypeOK, Placed, EngineOK, AwardedIsPaid, TypeOK', UNCHANGED goals,
         NEW c \in Contribution, Reward(contributions', c),
         \A d \in contributions' : d.reward = "awarded" => d \in contributions \/ d = c
  PROVE  AwardedIsPaid'
<1> DEFINE new == Unpaid(contributions', c.goal)
<1>1. milestones' = milestones \cup ({c.goal} \X new)
  BY DEF Reward
<1>2. /\ forest.rows \subseteq forest'.rows
      /\ \E r \in forest'.rows : /\ r.day = c.day
                                 /\ r.ref = [type |-> "contribution", key |-> c.id]
  BY RewardKeeps
<1>3. Goals' = Goals
  BY DEF Goals
<1>4. ASSUME NEW g \in Goals, g # c.goal
      PROVE  AwardedRows(contributions', g) \subseteq AwardedRows(contributions, g)
  BY <1>4 DEF AwardedRows
<1>5. \A p \in Percents :
         100 * Awarded(contributions', c.goal) >= p * goals'[c.goal].target
           => <<c.goal, p>> \in milestones'
  BY <1>1 DEF Unpaid, Reached, Paid
<1> QED BY <1>1, <1>2, <1>3, <1>4, <1>5, PaidKept

LEMMA RecordedRows ==
  ASSUME EngineOK, NEW kind \in Kinds, NEW day \in Days, NEW ref \in Refs,
         forest' = Recorded(forest, kind, day, ref)
  PROVE  /\ forest.rows \subseteq forest'.rows
         /\ LedgersTold(forest, forest')
         /\ StreakInv(forest) => StreakInv(forest') /\ LeavesTold(forest, forest')
BY RecordedKeeps DEF EngineOK

\* The engine's own operations record an action, or nothing.
EngineStep ==
  \/ UNCHANGED forest
  \/ \E kind \in Kinds, day \in Days, ref \in Refs :
       forest' = Recorded(forest, kind, day, ref)

LEMMA RecordSteps ==
  ASSUME TypeOK, NEW day \in Days
  PROVE  /\ \A source \in {0} \cup Receipts : AddExpense(day, source) => EngineStep
         /\ AddIncome(day) => EngineStep
         /\ RecordDailyReview(day) => EngineStep
<1>1. /\ nextId \in Nat /\ Receipts \subseteq Nat /\ day \in Nat
      /\ {"expense", "receipt", "income", "daily_review"} \subseteq Kinds
  BY ActivityAssumption DEF TypeOK, ActivityTypeOK, Kinds, Days
<1>2. ASSUME NEW source \in {0} \cup Receipts, AddExpense(day, source)
      PROVE  EngineStep
  <2>1. CASE SourceUsed(source)
    BY <1>2, <2>1 DEF AddExpense, activityVars, EngineStep
  <2>2. CASE ~SourceUsed(source) /\ source # 0
    <3>1. forest' = Recorded(forest, "receipt", day, [type |-> "receipt", key |-> source])
      BY <1>2, <2>2 DEF AddExpense, AddRecord
    <3>2. [type |-> "receipt", key |-> source] \in Refs
      BY <1>1, <2>2 DEF Refs
    <3> QED BY <1>1, <3>1, <3>2 DEF EngineStep
  <2>3. CASE ~SourceUsed(source) /\ source = 0
    <3>1. forest' = Recorded(forest, "expense", day, [type |-> "record", key |-> nextId])
      BY <1>2, <2>3 DEF AddExpense, AddRecord
    <3>2. [type |-> "record", key |-> nextId] \in Refs
      BY <1>1 DEF Refs
    <3> QED BY <1>1, <3>1, <3>2 DEF EngineStep
  <2> QED BY <2>1, <2>2, <2>3
<1>3. ASSUME AddIncome(day) PROVE EngineStep
  <2>1. forest' = Recorded(forest, "income", day, [type |-> "record", key |-> nextId])
    BY <1>3 DEF AddIncome, AddRecord
  <2>2. [type |-> "record", key |-> nextId] \in Refs
    BY <1>1 DEF Refs
  <2> QED BY <1>1, <2>1, <2>2 DEF EngineStep
<1>4. ASSUME RecordDailyReview(day) PROVE EngineStep
  <2>1. forest' = Recorded(forest, "daily_review", day, [type |-> "review", key |-> day])
    BY <1>4 DEF RecordDailyReview
  <2>2. [type |-> "review", key |-> day] \in Refs
    BY <1>1 DEF Refs
  <2> QED BY <1>1, <2>1, <2>2 DEF EngineStep
<1> QED BY <1>2, <1>3, <1>4

LEMMA EngineStepRows ==
  ASSUME EngineOK, EngineStep
  PROVE  forest.rows \subseteq forest'.rows /\ LedgersTold(forest, forest')
<1>1. forest \in ForestType
  BY DEF EngineOK, EngineInv
<1>2. CASE UNCHANGED forest
  BY <1>1, <1>2, SameLedgers
<1>3. CASE ~UNCHANGED forest
  BY <1>3, RecordedRows DEF EngineStep
<1> QED BY <1>2, <1>3

\* What a step can do to the forest, the milestones, the goals and the store.
PlainStep ==
  /\ EngineStep
  /\ UNCHANGED <<goals, milestones, inventory>>
  /\ \A c \in contributions' : c.reward = "awarded" => c \in contributions

RewardStep ==
  /\ \E c \in Contribution :
       /\ Reward(contributions', c)
       /\ \A d \in contributions' : d.reward = "awarded" => d \in contributions \/ d = c
  /\ UNCHANGED <<goals, inventory>>

GoalStep ==
  \/ \E target \in Targets, primary \in BOOLEAN : CreateGoal(target, primary)
  \/ \E goal \in Goals : SelectPrimaryGoal(goal)

StoreStep == \E item \in Items : BuyItem(item)
ShowStep == \E l \in Screens : ShowForest(l)
WriteStep == \E t \in Taps : WriteStatus(t)

LEMMA SameIsPlain ==
  ASSUME UNCHANGED <<forest, goals, milestones, inventory>>, contributions' \subseteq contributions
  PROVE  PlainStep
BY DEF PlainStep, EngineStep

LEMMA FinanceClass ==
  ASSUME ForestInv, FinanceNext
  PROVE  PlainStep \/ RewardStep
<1> USE DEF ForestInv
<1>1. ASSUME NEW day \in Days, NEW source \in {0} \cup Receipts,
             NEW goal \in {0} \cup Goals, NEW amount \in Amounts,
             SaveExpense(day, source, goal, amount)
      PROVE  PlainStep
  <2>1. EngineStep
    BY <1>1, RecordSteps DEF SaveExpense
  <2> QED BY <1>1, <2>1 DEF SaveExpense, goalVars, PlainStep
<1>2. ASSUME NEW day \in Days, NEW goal \in {0} \cup Goals, NEW amount \in Amounts,
             SaveIncome(day, goal, amount)
      PROVE  PlainStep
  <2>1. EngineStep
    BY <1>2, RecordSteps DEF SaveIncome
  <2> QED BY <1>2, <2>1 DEF SaveIncome, goalVars, PlainStep
<1>3. ASSUME NEW i \in impacts, CheckImpact(i) PROVE PlainStep
  BY <1>3, SameIsPlain DEF CheckImpact, goalVars, activityVars
<1>4. ASSUME NEW i \in impacts, ApplyExpense(i) PROVE PlainStep
  BY <1>4 DEF ApplyExpense, Enter, NewContribution, activityVars, PlainStep, EngineStep
<1>5. ASSUME NEW i \in impacts, ApplyIncome(i) PROVE PlainStep \/ RewardStep
  <2> DEFINE c == NewContribution(i.goal, i.amount, i.day, i.record, "awarded")
  <2>1. /\ UNCHANGED <<goals, inventory>>
        /\ \/ Enter(c) /\ Reward(contributions \cup {c}, c)
           \/ UNCHANGED <<contributions, forest, milestones>>
    BY <1>5 DEF ApplyIncome
  <2>2. nextContribution <= MaxContributions => c \in Contribution
    <3>1. i \in Impact /\ nextContribution \in 1 .. MaxContributions + 1 /\ MaxContributions \in Nat
      BY ForestAssumption DEF TypeOK
    <3> QED BY <3>1, ImpactTyped DEF NewContribution, Contribution
  <2> HIDE DEF c
  <2>3. CASE UNCHANGED <<contributions, forest, milestones>>
    BY <2>1, <2>3, SameIsPlain
  <2>4. CASE Enter(c) /\ Reward(contributions \cup {c}, c)
    BY <2>1, <2>2, <2>4 DEF Enter, RewardStep
  <2> QED BY <2>1, <2>3, <2>4
<1>6. ASSUME NEW id \in RecordIds, RemoveTransactionImpact(id) \/ DeleteRecord(id)
      PROVE  PlainStep
  BY <1>6, SameIsPlain DEF RemoveTransactionImpact, DeleteRecord, goalVars, activityVars
<1>7. ASSUME NEW day \in Days, ReviewDay(day) PROVE PlainStep
  <2>1. EngineStep
    BY <1>7, RecordSteps DEF ReviewDay
  <2> QED BY <1>7, <2>1 DEF ReviewDay, forestVars, goalVars, PlainStep
<1>8. ASSUME Midnight PROVE PlainStep
  BY <1>8, SameIsPlain DEF Midnight, NextDay, forestVars, goalVars
<1> QED BY <1>1, <1>2, <1>3, <1>4, <1>5, <1>6, <1>7, <1>8 DEF FinanceNext

LEMMA GoalClass ==
  ASSUME ForestInv, GoalNext
  PROVE  PlainStep \/ GoalStep \/ StoreStep
<1>1. ASSUME NEW goal \in Goals, NEW amount \in Amounts, NEW reward \in {"none", "pending"},
             AddContribution(goal, amount, reward)
      PROVE  PlainStep
  BY <1>1 DEF AddContribution, Enter, NewContribution, activityVars, PlainStep, EngineStep
<1>2. ASSUME NEW c \in contributions, TransferMatures(c) PROVE PlainStep
  <2>1. [c EXCEPT !.due = TRUE].reward = "pending"
    BY <1>2 DEF TransferMatures, ForestInv, TypeOK, Contribution
  <2> QED BY <1>2, <2>1 DEF TransferMatures, activityVars, PlainStep, EngineStep
<1> QED BY <1>1, <1>2 DEF GoalNext, GoalStep, StoreStep

LEMMA ScreenClass ==
  ASSUME ForestInv, ScreenNext
  PROVE  PlainStep \/ RewardStep \/ ShowStep \/ WriteStep
<1>1. ASSUME NEW l \in Screens, NEW c \in contributions, SettleTransfer(l, c)
      PROVE  RewardStep
  <2> DEFINE d == [c EXCEPT !.reward = "awarded"]
  <2>1. d \in Contribution
    BY DEF ForestInv, TypeOK, Contribution
  <2>2. /\ contributions' = (contributions \ {c}) \cup {d}
        /\ Reward(contributions', d) /\ UNCHANGED <<goals, inventory>>
    BY <1>1 DEF SettleTransfer
  <2> HIDE DEF d
  <2> QED BY <2>1, <2>2 DEF RewardStep
<1>2. ASSUME NEW l \in Screens, BeginLoad(l) \/ ReadStreak(l)
      PROVE  PlainStep
  BY <1>2, SameIsPlain DEF BeginLoad, ReadStreak, goalVars, activityVars
<1>3. ASSUME NEW c \in Challenges, EvaluateChallenge(c) PROVE PlainStep
  BY <1>3, SameIsPlain DEF EvaluateChallenge, goalVars, activityVars
<1>4. ASSUME NEW c \in Challenges, NEW t \in Taps, BeginClaim(t, c) PROVE PlainStep
  BY <1>4, SameIsPlain DEF BeginClaim, goalVars, activityVars
<1>5. ASSUME NEW t \in Taps, ReadStatus(t) \/ RefreshChallenges(t) PROVE PlainStep
  BY <1>5, SameIsPlain DEF ReadStatus, RefreshChallenges, goalVars, activityVars
<1> QED BY <1>1, <1>2, <1>3, <1>4, <1>5 DEF ScreenNext, ShowStep, WriteStep

LEMMA StepClass ==
  ASSUME ForestInv, [Next]_vars
  PROVE  PlainStep \/ RewardStep \/ GoalStep \/ StoreStep \/ ShowStep \/ WriteStep
<1>1. CASE UNCHANGED vars
  BY <1>1, SameIsPlain DEF vars, activityVars, forestVars, goalVars
<1> QED BY <1>1, FinanceClass, GoalClass, ScreenClass DEF Next

LEMMA PaidStep ==
  ASSUME ForestInv, AwardedIsPaid, [Next]_vars
  PROVE  AwardedIsPaid'
<1>1. TypeOK /\ Placed /\ EngineOK /\ TypeOK' /\ ForestInv'
  BY StepKeeps DEF ForestInv
<1>2. CASE PlainStep
  BY <1>1, <1>2, EngineStepRows, PaidSame DEF PlainStep
<1>3. CASE RewardStep
  BY <1>1, <1>3, PaidReward DEF RewardStep
<1>4. CASE GoalStep
  <2>1. ASSUME NEW target \in Targets, NEW primary \in BOOLEAN, CreateGoal(target, primary)
        PROVE  AwardedIsPaid'
    <3> DEFINE n == Len(goals)
               first == primary \/ goals = << >>
               others == IF first
                         THEN [g \in Goals |-> [goals[g] EXCEPT !.priority = 1]]
                         ELSE goals
               new == [target |-> target, priority |-> IF first THEN 0 ELSE n]
    <3>0. /\ Goals = 1 .. n /\ n \in Nat
          /\ goals \in Seq([target : Targets, priority : 0 .. MaxGoals])
          /\ \A g \in Goals : goals[g] \in [target : Targets, priority : 0 .. MaxGoals]
      BY <1>1, GoalsBounded, GoalTyped DEF TypeOK
    <3>1. /\ goals' = Append(others, new)
          /\ UNCHANGED <<forest, contributions, milestones>>
      BY <2>1 DEF CreateGoal, activityVars
    <3>2. /\ Len(others) = n /\ DOMAIN others = Goals
          /\ \E R : others \in Seq(R)
      <4>1. CASE first
        <5> DEFINE R == [target : Targets, priority : 0 .. MaxGoals \cup {1}]
        <5>1. \A g \in Goals : [goals[g] EXCEPT !.priority = 1] \in R
          BY <3>0
        <5>2. others \in Seq(R) /\ Len(others) = n /\ DOMAIN others = Goals
          <6> HIDE DEF R
          <6> QED BY <3>0, <4>1, <5>1
        <5> QED BY <5>2
      <4>2. CASE ~first
        BY <3>0, <4>2 DEF Goals
      <4> QED BY <4>1, <4>2
    <3>3. \A g \in Goals : others[g].target = goals[g].target
      BY <3>0
    <3>4. new.target = target
      OBVIOUS
    <3> HIDE DEF others, new
    <3>5. /\ Goals' = 1 .. n + 1
          /\ \A g \in Goals : goals'[g] = others[g]
          /\ goals'[n + 1] = new
      BY <3>0, <3>1, <3>2 DEF Goals
    <3>6. ASSUME NEW p \in Percents, 100 * Awarded(contributions, n + 1) >= p * target
          PROVE  FALSE
      <4>1. AwardedRows(contributions, n + 1) = {}
        BY <1>1, <3>0 DEF AwardedRows, Placed
      <4>2. Awarded(contributions, n + 1) = 0
        BY <1>1, <4>1, AwardedIsTotal, SumOfNone DEF TypeOK, Placed
      <4>3. p \in Nat /\ target \in Nat /\ p > 0 /\ target > 0
        BY ForestAssumption DEF Percents
      <4> DEFINE bound == p * target
      <4>4. bound \in Int /\ bound > 0
        BY <4>3
      <4>5. 100 * Awarded(contributions, n + 1) >= bound
        BY <3>6
      <4> HIDE DEF bound
      <4> QED BY <4>2, <4>4, <4>5
    <3>7. \A g \in Goals : g \in Goals' /\ goals'[g].target = goals[g].target
      BY <3>0, <3>3, <3>5
    <3>8. \A g \in Goals' :
            \/ /\ g \in Goals
               /\ AwardedRows(contributions', g) \subseteq AwardedRows(contributions, g)
            \/ \A p \in Percents :
                 100 * Awarded(contributions', g) >= p * goals'[g].target
                   => <<g, p>> \in milestones'
      <4>1. \A g \in Goals' : g \in Goals \/ g = n + 1
        BY <3>0, <3>5
      <4>2. \A p \in Percents :
               ~(100 * Awarded(contributions', n + 1) >= p * goals'[n + 1].target)
        BY <3>1, <3>4, <3>5, <3>6
      <4> QED BY <3>1, <4>1, <4>2
    <3> QED BY <1>1, <3>1, <3>7, <3>8, PaidKept
  <2>2. ASSUME NEW goal \in Goals, SelectPrimaryGoal(goal)
        PROVE  AwardedIsPaid'
    <3>1. /\ goals' = Reordered(goal)
          /\ UNCHANGED <<forest, contributions, milestones>>
      BY <2>2 DEF SelectPrimaryGoal, activityVars
    <3>2. \A g \in Goals : goals[g] \in [target : Targets, priority : 0 .. MaxGoals]
      BY <1>1, GoalTyped
    <3>3. Goals' = Goals /\ \A g \in Goals : goals'[g].target = goals[g].target
      BY <3>1, <3>2 DEF Goals, Reordered
    <3> QED BY <1>1, <3>1, <3>3, PaidKept
  <2> QED BY <1>4, <2>1, <2>2 DEF GoalStep
<1>5. CASE StoreStep
  <2>1. forest'.rows = forest.rows /\ UNCHANGED <<goals, contributions, milestones>>
    BY <1>1, <1>5, BuyEffect DEF StoreStep, BuyItem, goalVars
  <2> QED BY <1>1, <2>1, PaidSame
<1>6. CASE ShowStep
  <2>1. forest'.rows = forest.rows /\ UNCHANGED <<goals, contributions, milestones>>
    BY <1>1, <1>6, ShowEffect DEF ShowStep, ShowForest, goalVars
  <2> QED BY <1>1, <2>1, PaidSame
<1>7. CASE WriteStep
  <2>1. PICK t \in Taps : WriteStatus(t)
    BY <1>7 DEF WriteStep
  <2>2. claim[t].xp + claim[t].worth \in Nat
    BY <1>1 DEF TypeOK, Claim
  <2>3. forest'.rows = forest.rows /\ UNCHANGED <<goals, contributions, milestones>>
    BY <1>1, <2>1, <2>2, WriteEffect DEF WriteStatus, goalVars
  <2> QED BY <1>1, <2>3, PaidSame
<1> QED BY <1>2, <1>3, <1>4, <1>5, <1>6, <1>7, StepClass

\* Every awarded contribution has been recorded as an action of its day, and every
\* milestone the awarded ones reach has been paid, whichever loads settled them and
\* whatever was removed in between (living_forest_service.dart:
\* _settleDueTransfers, _awardReachedMilestones).
THEOREM PaidAlways == Spec => []AwardedIsPaid
<1>1. Init => AwardedIsPaid
  BY DEF Init, AwardedIsPaid, Goals
<1>2. ForestInv /\ AwardedIsPaid /\ [Next]_vars => AwardedIsPaid'
  BY PaidStep
<1> QED BY <1>1, <1>2, ForestSafe, PTL DEF Spec

-----------------------------------------------------------------------------
\* The ledgers.

\* LedgersBacked, with its sums as totals.
LedgersAdd ==
  /\ forest.xpLedger = SumOver(AwardXp, forest.awards) + SumOver(MilestoneXp, milestones)
  /\ forest.seedLedger = SumOver(AwardSeeds, forest.awards)
                           + SumOver(MilestoneSeeds, milestones) - SumOver(Spent, Items)

LEMMA ForestFinite ==
  ASSUME ForestInv
  PROVE  /\ IsFiniteSet(forest.awards) /\ forest.awards \in SUBSET AwardRows
         /\ IsFiniteSet(milestones) /\ IsFiniteSet(Items)
         /\ milestones \in SUBSET ((1 .. MaxGoals) \X Percents)
         /\ forest \in ForestType
<1>1. IsFiniteSet(forest.awards) /\ forest \in ForestType
  BY DEF ForestInv, EngineOK, EngineInv
<1>2. forest.awards \in SUBSET AwardRows
  BY <1>1 DEF ForestType
<1>3. milestones \in SUBSET ((1 .. MaxGoals) \X Percents)
  BY DEF ForestInv, TypeOK
<1>4. IsFiniteSet(milestones)
  <2>1. MaxGoals \in Int /\ IsFiniteSet(1 .. MaxGoals)
    BY ForestAssumption, FS_Interval
  <2>2. Percents = {10} \cup {25} \cup {50} \cup {75} \cup {100}
    BY DEF Percents
  <2>3. IsFiniteSet(Percents)
    BY <2>2, FS_Singleton, FS_Union
  <2>4. IsFiniteSet((1 .. MaxGoals) \X Percents)
    BY <2>1, <2>3, FS_Product
  <2> QED BY <1>3, <2>4, FS_Subset
<1>5. IsFiniteSet(Items)
  <2> DEFINE D == {"owl_guide", "rainwater", "protection_leaf",
                   "compass", "greenhouse", "mersin_garden"}
  <2>1. Items \in SUBSET D
    BY ForestAssumption DEF Price
  <2>2. D = {"owl_guide"} \cup {"rainwater"} \cup {"protection_leaf"} \cup {"compass"}
              \cup {"greenhouse"} \cup {"mersin_garden"}
    OBVIOUS
  <2> HIDE DEF D
  <2>3. IsFiniteSet(D)
    BY <2>2, FS_Singleton, FS_Union
  <2> QED BY <2>1, <2>3, FS_Subset
<1> QED BY <1>1, <1>2, <1>3, <1>4, <1>5

LEMMA ForestTotals ==
  ASSUME ForestInv
  PROVE  /\ SumOver(AwardXp, forest.awards) \in Int
         /\ SumOver(AwardSeeds, forest.awards) \in Int
         /\ \A m \in (1 .. MaxGoals) \X Percents :
              MilestoneXp[m] \in Int /\ MilestoneSeeds[m] \in Int
         /\ SumOver(MilestoneXp, milestones) \in Int
         /\ SumOver(MilestoneSeeds, milestones) \in Int
         /\ \A i \in Items : Spent[i] \in Int
         /\ SumOver(Spent, Items) \in Int
<1>1. \A a \in AwardRows : AwardXp[a] \in Int /\ AwardSeeds[a] \in Int
  BY DEF AwardRows, AwardXp, AwardSeeds
<1>2. SumOver(AwardXp, forest.awards) \in Int /\ SumOver(AwardSeeds, forest.awards) \in Int
  BY <1>1, ForestFinite, SumTyped
<1>3. \A m \in (1 .. MaxGoals) \X Percents :
        MilestoneXp[m] \in Int /\ MilestoneSeeds[m] \in Int
  BY MilestoneWorth DEF MilestoneXp, MilestoneSeeds
<1>4. SumOver(MilestoneXp, milestones) \in Int /\ SumOver(MilestoneSeeds, milestones) \in Int
  BY <1>3, ForestFinite, SumTyped
<1>5. \A i \in Items : Spent[i] \in Int
  <2> SUFFICES ASSUME NEW i \in Items PROVE Price[i] * inventory[i] \in Int
    BY DEF Spent
  <2>1. Price[i] \in Nat /\ inventory[i] \in Nat
    BY PriceTyped, ForestAssumption DEF ForestInv, TypeOK
  <2> QED BY <2>1
<1>6. SumOver(Spent, Items) \in Int
  BY <1>5, ForestFinite, SumTyped
<1> QED BY <1>2, <1>3, <1>4, <1>5, <1>6

LEMMA LedgersFollow ==
  ASSUME ForestInv, LedgersAdd
  PROVE  LedgersBacked
<1>1. TypeOK
  BY DEF ForestInv
<1>2. /\ MapThenSumSet(LAMBDA a : a.xp, forest.awards) = SumOver(AwardXp, forest.awards)
      /\ MapThenSumSet(LAMBDA a : a.seeds, forest.awards) = SumOver(AwardSeeds, forest.awards)
  BY ForestFinite, AwardXpSum, AwardSeedsSum
<1>3. MapThenSumSet(LAMBDA m : milestoneXp[m[2]], milestones) = SumOver(MilestoneXp, milestones)
  BY ForestFinite, MilestoneXpSum
<1>4. MapThenSumSet(LAMBDA m : milestoneSeeds[m[2]], milestones)
        = SumOver(MilestoneSeeds, milestones)
  BY ForestFinite, MilestoneSeedsSum
<1>5. MapThenSumSet(LAMBDA i : Price[i] * inventory[i], Items) = SumOver(Spent, Items)
  BY <1>1, ForestFinite, SpentSum
<1>6. forest.seedLedger >= 0
  BY ForestFinite DEF ForestType
<1> QED BY <1>2, <1>3, <1>4, <1>5, <1>6 DEF LedgersAdd, LedgersBacked

\* Paid milestones add what they are worth.
Weighs(w, goal, worth) ==
  \A p \in Percents : worth[p] \in Int /\ w[<<goal, p>>] = worth[p]

LEMMA MilestonesAdd ==
  ASSUME NEW M, IsFiniteSet(M), NEW goal, NEW percents \in SUBSET Percents,
         \A p \in percents : <<goal, p>> \notin M,
         NEW w, \A m \in M : w[m] \in Int,
         NEW worth, Weighs(w, goal, worth)
  PROVE  SumOver(w, M \cup ({goal} \X percents)) = SumOver(w, M) + PartOf(worth, percents)
<1> DEFINE E(p) == IF p \in percents THEN {<<goal, p>>} ELSE {}
           v(p) == IF p \in percents THEN worth[p] ELSE 0
           M1 == M \cup E(10)
           M2 == M1 \cup E(25)
           M3 == M2 \cup E(50)
           M4 == M3 \cup E(75)
           M5 == M4 \cup E(100)
<1>1. M5 = M \cup ({goal} \X percents)
  <2>1. ASSUME NEW m \in {goal} \X percents
        PROVE  m \in E(10) \/ m \in E(25) \/ m \in E(50) \/ m \in E(75) \/ m \in E(100)
    <3>1. PICK p \in percents : m = <<goal, p>>
      OBVIOUS
    <3>2. p = 10 \/ p = 25 \/ p = 50 \/ p = 75 \/ p = 100
      BY DEF Percents
    <3> QED BY <3>1, <3>2
  <2>2. ASSUME NEW p PROVE E(p) \subseteq {goal} \X percents
    OBVIOUS
  <2> HIDE DEF E
  <2> QED BY <2>1, <2>2
<1>2. /\ \A p \in {10, 25, 50, 75, 100} : worth[p] \in Int /\ w[<<goal, p>>] = worth[p]
      /\ PartOf(worth, percents) = v(10) + v(25) + v(50) + v(75) + v(100)
  BY DEF Percents, PartOf, Weighs
<1>3. ASSUME NEW S, IsFiniteSet(S), \A m \in S : w[m] \in Int,
             NEW p \in {10, 25, 50, 75, 100}, p \in percents => <<goal, p>> \notin S
      PROVE  /\ IsFiniteSet(S \cup E(p)) /\ \A m \in S \cup E(p) : w[m] \in Int
             /\ SumOver(w, S \cup E(p)) = SumOver(w, S) + v(p)
  <2>1. SumOver(w, S) \in Int
    BY <1>3, SumTyped
  <2>2. CASE p \in percents
    <3>1. <<goal, p>> \notin S /\ w[<<goal, p>>] \in Int /\ w[<<goal, p>>] = worth[p]
      BY <1>2, <1>3, <2>2
    <3>2. /\ IsFiniteSet(S \cup {<<goal, p>>})
          /\ SumOver(w, S \cup {<<goal, p>>}) = w[<<goal, p>>] + SumOver(w, S)
      BY <1>3, <3>1, FS_AddElement, SumOfOneMore
    <3> QED BY <1>3, <2>1, <2>2, <3>1, <3>2
  <2>3. CASE p \notin percents
    <3>1. S \cup E(p) = S
      BY <2>3
    <3> QED BY <1>3, <2>1, <2>3, <3>1
  <2> QED BY <2>2, <2>3
<1>4. /\ \A p \in percents : <<goal, p>> \notin M
      /\ 25 \in percents => <<goal, 25>> \notin M1
      /\ 50 \in percents => <<goal, 50>> \notin M2
      /\ 75 \in percents => <<goal, 75>> \notin M3
      /\ 100 \in percents => <<goal, 100>> \notin M4
  OBVIOUS
<1>5. /\ IsFiniteSet(M1) /\ \A m \in M1 : w[m] \in Int
      /\ SumOver(w, M1) = SumOver(w, M) + v(10)
  BY <1>3, <1>4
<1>6. /\ IsFiniteSet(M2) /\ \A m \in M2 : w[m] \in Int
      /\ SumOver(w, M2) = SumOver(w, M1) + v(25)
  <2> HIDE DEF M1
  <2> QED BY <1>3, <1>4, <1>5
<1>7. /\ IsFiniteSet(M3) /\ \A m \in M3 : w[m] \in Int
      /\ SumOver(w, M3) = SumOver(w, M2) + v(50)
  <2> HIDE DEF M2
  <2> QED BY <1>3, <1>4, <1>6
<1>8. /\ IsFiniteSet(M4) /\ \A m \in M4 : w[m] \in Int
      /\ SumOver(w, M4) = SumOver(w, M3) + v(75)
  <2> HIDE DEF M3
  <2> QED BY <1>3, <1>4, <1>7
<1>9. SumOver(w, M5) = SumOver(w, M4) + v(100)
  <2> HIDE DEF M4
  <2> QED BY <1>3, <1>4, <1>8
<1>10. /\ v(10) \in Int /\ v(25) \in Int /\ v(50) \in Int /\ v(75) \in Int /\ v(100) \in Int
       /\ SumOver(w, M) \in Int
  BY <1>2, SumTyped
<1> HIDE DEF M1, M2, M3, M4, M5, v
<1>11. SumOver(w, M5) = SumOver(w, M) + v(10) + v(25) + v(50) + v(75) + v(100)
  BY <1>5, <1>6, <1>7, <1>8, <1>9, <1>10
<1> QED BY <1>1, <1>2, <1>10, <1>11

\* A step that neither pays milestones nor sells.
LEMMA LedgersSame ==
  ASSUME ForestInv, ForestInv', LedgersAdd, LedgersTold(forest, forest'),
         UNCHANGED <<milestones, inventory>>
  PROVE  LedgersAdd'
<1>1. /\ SumOver(AwardXp, forest.awards) \in Int /\ SumOver(AwardSeeds, forest.awards) \in Int
      /\ SumOver(MilestoneXp, milestones) \in Int /\ SumOver(MilestoneSeeds, milestones) \in Int
      /\ SumOver(Spent, Items) \in Int
  BY ForestTotals
<1>2. /\ SumOver(AwardXp, forest'.awards) \in Int /\ SumOver(AwardSeeds, forest'.awards) \in Int
      /\ forest'.xpLedger \in Int /\ forest'.seedLedger \in Int
      /\ forest.xpLedger \in Int /\ forest.seedLedger \in Int
  <2>1. forest' \in ForestType /\ IsFiniteSet(forest'.awards) /\ forest \in ForestType
    BY DEF ForestInv, EngineOK, EngineInv
  <2>2. \A a \in forest'.awards : AwardXp[a] \in Int /\ AwardSeeds[a] \in Int
    BY <2>1 DEF ForestType, AwardRows, AwardXp, AwardSeeds
  <2>3. /\ forest'.xpLedger \in Int /\ forest'.seedLedger \in Int
        /\ forest.xpLedger \in Int /\ forest.seedLedger \in Int
    BY <2>1 DEF ForestType
  <2> QED BY <2>1, <2>2, <2>3, SumTyped
<1>3. Spent' = Spent
  BY DEF Spent
<1> QED BY <1>1, <1>2, <1>3 DEF LedgersAdd, LedgersTold

LEMMA LedgersReward ==
  ASSUME ForestInv, ForestInv', LedgersAdd, NEW rows, NEW c \in Contribution,
         Reward(rows, c), UNCHANGED inventory
  PROVE  LedgersAdd'
<1> DEFINE ref == [type |-> "contribution", key |-> c.id]
           f == Recorded(forest, "goal_contribution", c.day, ref)
           new == Unpaid(rows, c.goal)
<1>1. /\ "goal_contribution" \in Kinds /\ c.day \in Days /\ ref \in Refs
      /\ c.goal \in 1 .. MaxGoals
  BY ForestAssumption DEF Kinds, Refs, Contribution
<1>2. /\ EngineInv(f) /\ LedgersTold(forest, f)
  BY <1>1, RecordedKeeps DEF ForestInv, EngineOK
<1>3. /\ forest' = WithMilestones(f, new)
      /\ milestones' = milestones \cup ({c.goal} \X new)
  BY DEF Reward
<1>4. /\ new \in SUBSET Percents
      /\ \A p \in new : <<c.goal, p>> \notin milestones
  BY DEF Unpaid, Reached, Paid
<1> HIDE DEF f, new, ref
<1>5. /\ forest'.awards = f.awards
      /\ forest'.xpLedger = f.xpLedger + PartOf(milestoneXp, new)
      /\ forest'.seedLedger = f.seedLedger + PartOf(milestoneSeeds, new)
  BY <1>2, <1>3, MilestonesKeep
<1>6. /\ SumOver(MilestoneXp, milestones') = SumOver(MilestoneXp, milestones)
                                             + PartOf(milestoneXp, new)
  <2>1. Weighs(MilestoneXp, c.goal, milestoneXp)
    BY <1>1, MilestoneWorth DEF MilestoneXp, Weighs
  <2>2. \A m \in milestones : MilestoneXp[m] \in Int
    BY ForestFinite, ForestTotals
  <2>3. IsFiniteSet(milestones)
    BY ForestFinite
  <2>4. SumOver(MilestoneXp, milestones \cup ({c.goal} \X new))
          = SumOver(MilestoneXp, milestones) + PartOf(milestoneXp, new)
    BY <1>4, <2>1, <2>2, <2>3, MilestonesAdd
  <2> QED BY <1>3, <2>4
<1>7. /\ SumOver(MilestoneSeeds, milestones') = SumOver(MilestoneSeeds, milestones)
                                                + PartOf(milestoneSeeds, new)
  <2>1. Weighs(MilestoneSeeds, c.goal, milestoneSeeds)
    BY <1>1, MilestoneWorth DEF MilestoneSeeds, Weighs
  <2>2. \A m \in milestones : MilestoneSeeds[m] \in Int
    BY ForestFinite, ForestTotals
  <2>3. IsFiniteSet(milestones)
    BY ForestFinite
  <2>4. SumOver(MilestoneSeeds, milestones \cup ({c.goal} \X new))
          = SumOver(MilestoneSeeds, milestones) + PartOf(milestoneSeeds, new)
    BY <1>4, <2>1, <2>2, <2>3, MilestonesAdd
  <2> QED BY <1>3, <2>4
<1>8. Spent' = Spent
  BY DEF Spent
<1>9. /\ SumOver(AwardXp, forest.awards) \in Int /\ SumOver(AwardSeeds, forest.awards) \in Int
      /\ SumOver(MilestoneXp, milestones) \in Int /\ SumOver(MilestoneSeeds, milestones) \in Int
      /\ SumOver(Spent, Items) \in Int
  BY ForestTotals
<1>10. /\ PartOf(milestoneXp, new) \in Int /\ PartOf(milestoneSeeds, new) \in Int
       /\ forest.xpLedger \in Int /\ forest.seedLedger \in Int
  BY PartTyped, ForestFinite DEF ForestType
<1>11. /\ SumOver(AwardXp, f.awards) \in Int /\ SumOver(AwardSeeds, f.awards) \in Int
       /\ f.xpLedger \in Int /\ f.seedLedger \in Int
  <2>1. f \in ForestType /\ IsFiniteSet(f.awards)
    BY <1>2 DEF EngineInv
  <2>2. \A a \in f.awards : AwardXp[a] \in Int /\ AwardSeeds[a] \in Int
    BY <2>1 DEF ForestType, AwardRows, AwardXp, AwardSeeds
  <2>3. f.xpLedger \in Int /\ f.seedLedger \in Int
    BY <2>1 DEF ForestType
  <2> QED BY <2>1, <2>2, <2>3, SumTyped
<1>12. forest'.xpLedger = SumOver(AwardXp, forest'.awards) + SumOver(MilestoneXp, milestones')
  BY <1>2, <1>5, <1>6, <1>9, <1>10, <1>11 DEF LedgersAdd, LedgersTold
<1>13. forest'.seedLedger = SumOver(AwardSeeds, forest'.awards)
         + SumOver(MilestoneSeeds, milestones') - SumOver(Spent, Items)
  BY <1>2, <1>5, <1>7, <1>9, <1>10, <1>11 DEF LedgersAdd, LedgersTold
<1> QED BY <1>8, <1>12, <1>13 DEF LedgersAdd

LEMMA LedgersBuy ==
  ASSUME ForestInv, LedgersAdd, NEW item \in Items, BuyItem(item)
  PROVE  LedgersAdd'
<1>1. /\ forest'.awards = forest.awards /\ forest'.xpLedger = forest.xpLedger
      /\ forest'.seedLedger = forest.seedLedger - Price[item] /\ Price[item] \in Nat
  BY BuyEffect DEF ForestInv
<1>2. milestones' = milestones /\ inventory' = [inventory EXCEPT ![item] = @ + 1]
  BY DEF BuyItem, goalVars
<1>3. \A i \in Items : inventory[i] \in Nat
  BY ForestAssumption DEF ForestInv, TypeOK
<1> DEFINE R == Items \ {item}
<1>4. \A i \in R : Spent'[i] = Spent[i] /\ Spent[i] \in Int
  BY <1>2, ForestTotals DEF Spent, ForestInv, TypeOK
<1>5. Spent'[item] = Spent[item] + Price[item] /\ Spent[item] \in Int
  <2>1. /\ Spent'[item] = Price[item] * inventory'[item]
        /\ Spent[item] = Price[item] * inventory[item]
    BY DEF Spent
  <2>2. inventory'[item] = inventory[item] + 1 /\ inventory[item] \in Nat
    BY <1>2, <1>3 DEF ForestInv, TypeOK
  <2> DEFINE p == Price[item]
             n == inventory[item]
  <2>3. p \in Nat /\ n \in Nat
    BY <1>1, <2>2
  <2> HIDE DEF p, n
  <2>4. p * (n + 1) = p * n + p /\ p * n \in Int
    BY <2>3
  <2> QED BY <2>1, <2>2, <2>4 DEF p, n
<1>6. IsFiniteSet(R) /\ item \notin R /\ Items = R \cup {item}
  BY ForestFinite, FS_RemoveElement
<1> HIDE DEF R
<1>7. SumOver(Spent', R) = SumOver(Spent, R) /\ SumOver(Spent, R) \in Int
  BY <1>4, <1>6, SumOfSame, SumTyped
<1>8. SumOver(Spent, Items) = Spent[item] + SumOver(Spent, R)
  BY <1>4, <1>5, <1>6, SumOfOneMore
<1>9. SumOver(Spent', Items) = Spent'[item] + SumOver(Spent', R)
  <2>1. \A i \in R \cup {item} : Spent'[i] \in Int
    BY <1>1, <1>4, <1>5
  <2> QED BY <1>6, <2>1, SumOfOneMore
<1>10. SumOver(Spent', Items) = SumOver(Spent, Items) + Price[item]
  <2> DEFINE spent == Spent[item]
             later == Spent'[item]
             rest == SumOver(Spent, R)
             price == Price[item]
  <2>1. /\ spent \in Int /\ rest \in Int /\ price \in Int /\ later = spent + price
        /\ SumOver(Spent, Items) = spent + rest /\ SumOver(Spent', Items) = later + rest
    BY <1>1, <1>5, <1>7, <1>8, <1>9
  <2> HIDE DEF spent, later, rest, price
  <2>2. SumOver(Spent', Items) = SumOver(Spent, Items) + price
    BY <2>1
  <2> QED BY <2>2 DEF price
<1>11. /\ SumOver(AwardXp, forest.awards) \in Int /\ SumOver(AwardSeeds, forest.awards) \in Int
       /\ SumOver(MilestoneXp, milestones) \in Int /\ SumOver(MilestoneSeeds, milestones) \in Int
       /\ SumOver(Spent, Items) \in Int
  BY ForestTotals
<1> QED BY <1>1, <1>2, <1>10, <1>11 DEF LedgersAdd

LEMMA LedgersStep ==
  ASSUME ForestInv, LedgersAdd, [Next]_vars
  PROVE  LedgersAdd'
<1>1. TypeOK /\ EngineOK /\ ForestInv' /\ forest \in ForestType
  BY StepKeeps, ForestFinite DEF ForestInv
<1>2. CASE PlainStep
  BY <1>1, <1>2, EngineStepRows, LedgersSame DEF PlainStep
<1>3. CASE RewardStep
  BY <1>1, <1>3, LedgersReward DEF RewardStep
<1>4. CASE GoalStep
  <2>1. UNCHANGED <<forest, milestones, inventory>>
    BY <1>4 DEF GoalStep, CreateGoal, SelectPrimaryGoal, activityVars
  <2>2. LedgersTold(forest, forest')
    BY <1>1, <2>1, SameLedgers
  <2> QED BY <1>1, <2>1, <2>2, LedgersSame
<1>5. CASE StoreStep
  BY <1>5, LedgersBuy DEF StoreStep
<1>6. CASE ShowStep
  <2>1. /\ UNCHANGED <<milestones, inventory>> /\ forest'.awards = forest.awards
        /\ forest'.xpLedger = forest.xpLedger /\ forest'.seedLedger = forest.seedLedger
    BY <1>1, <1>6, ShowEffect DEF ShowStep, ShowForest, goalVars
  <2>2. LedgersTold(forest, forest')
    BY <1>1, <2>1, SameLedgers
  <2> QED BY <1>1, <2>1, <2>2, LedgersSame
<1>7. CASE WriteStep
  <2>1. PICK t \in Taps : WriteStatus(t)
    BY <1>7 DEF WriteStep
  <2>2. claim[t].xp + claim[t].worth \in Nat
    BY <1>1 DEF TypeOK, Claim
  <2>3. /\ UNCHANGED <<milestones, inventory>> /\ forest'.awards = forest.awards
        /\ forest'.xpLedger = forest.xpLedger /\ forest'.seedLedger = forest.seedLedger
    BY <1>1, <2>1, <2>2, WriteEffect DEF WriteStatus, goalVars
  <2>4. LedgersTold(forest, forest')
    BY <1>1, <2>3, SameLedgers
  <2> QED BY <1>1, <2>3, <2>4, LedgersSame
<1> QED BY <1>2, <1>3, <1>4, <1>5, <1>6, <1>7, StepClass

\* Neither ledger ever holds an entry without its cause, or an entry twice: not
\* with any number of loads, of contributions that are settled more than once, of
\* removals and of purchases (living_forest_service.dart: buyItem,
\* _awardReachedMilestones; daily_activity_engine.dart: _award).
THEOREM LedgersAlways == Spec => []LedgersBacked
<1>1. Init => LedgersAdd
  <2> SUFFICES ASSUME Init PROVE LedgersAdd
    OBVIOUS
  <2>1. /\ forest.xpLedger = 0 /\ forest.seedLedger = 0 /\ forest.awards = {}
        /\ milestones = {} /\ inventory = [i \in Items |-> 0]
    BY DEF Init, ActivityInit, EmptyForest
  <2>2. \A i \in Items : Spent[i] = 0
    BY <2>1, PriceTyped DEF Spent
  <2>3. SumOver(Spent, Items) = 0
    <3>1. IsFiniteSet(Items)
      BY InitKeeps, ForestFinite
    <3> QED BY <2>2, <3>1, SumOfZeros
  <2> QED BY <2>1, <2>3, SumOfNone DEF LedgersAdd
<1>2. ForestInv /\ LedgersAdd /\ [Next]_vars => LedgersAdd'
  BY LedgersStep
<1>3. ForestInv /\ LedgersAdd => LedgersBacked
  BY LedgersFollow
<1> QED BY <1>1, <1>2, <1>3, ForestSafe, PTL DEF Spec

-----------------------------------------------------------------------------
\* The streak, as long as loads write back what is still there (FreshWrites).

LeavesAccounted ==
  "protection_leaf" \in Items =>
    Cardinality(MissedDaysIn(forest)) + forest.streak.leaves
      <= inventory["protection_leaf"]

LEMMA LeavesTyped ==
  ASSUME ForestInv
  PROVE  /\ Cardinality(MissedDaysIn(forest)) \in Nat /\ forest.streak.leaves \in Nat
         /\ forest.streak.last \in Nat /\ forest.streak.current \in Nat
         /\ \A i \in Items : inventory[i] \in Nat
         /\ forest \in ForestType
<1>1. forest \in ForestType
  BY ForestFinite
<1>2. MissedDaysIn(forest) \in SUBSET Days
  BY <1>1, HistoryTyped
<1>3. Cardinality(MissedDaysIn(forest)) \in Nat
  BY <1>2, DaysFinite
<1>4. forest.streak \in StreakRow
  BY <1>1 DEF ForestType
<1>5. \A i \in Items : inventory[i] \in Nat
  BY ForestAssumption DEF ForestInv, TypeOK
<1> QED BY <1>1, <1>3, <1>4, <1>5, ActivityAssumption DEF StreakRow

\* What a step does to the streak and its leaves, but for a purchase.
LEMMA StreakStep ==
  ASSUME ForestInv, StreakInv(forest), [Next /\ FreshWrites]_vars, ~StoreStep
  PROVE  StreakInv(forest') /\ LeavesTold(forest, forest') /\ UNCHANGED inventory
<1>1. TypeOK /\ EngineOK /\ forest \in ForestType /\ [Next]_vars
  BY ForestFinite DEF ForestInv
<1>2. ASSUME forest'.streak.current = forest.streak.current,
             forest'.streak.last = forest.streak.last,
             forest'.streak.leaves = forest.streak.leaves,
             MissedDaysIn(forest') = MissedDaysIn(forest)
      PROVE  LeavesTold(forest, forest')
  BY <1>2, LeavesTyped DEF LeavesTold
<1>3. CASE PlainStep
  <2>1. CASE UNCHANGED forest
    BY <1>2, <1>3, <2>1 DEF PlainStep
  <2>2. CASE ~UNCHANGED forest
    BY <1>1, <1>3, <2>2, RecordedRows DEF PlainStep, EngineStep
  <2> QED BY <2>1, <2>2
<1>4. CASE RewardStep
  BY <1>1, <1>4, RewardKeeps DEF RewardStep
<1>5. CASE GoalStep
  <2>1. UNCHANGED <<forest, inventory>>
    BY <1>5 DEF GoalStep, CreateGoal, SelectPrimaryGoal, activityVars
  <2> QED BY <1>2, <2>1
<1>6. CASE ShowStep
  <2>1. PICK l \in Screens : ShowForest(l)
    BY <1>6 DEF ShowStep
  <2>2. UNCHANGED inventory
    BY <2>1 DEF ShowForest
  <2>3. CASE forest' = forest
    BY <1>2, <2>2, <2>3
  <2>4. CASE forest' # forest
    <3>1. screen[l].pc = "view" /\ screen'[l].pc = "idle"
      BY <1>1, <2>1 DEF ShowForest, IdleScreen, TypeOK
    <3>2. FreshWrites
      BY <2>4 DEF vars, activityVars
    <3>3. screen[l].streak = forest.streak
      BY <2>4, <3>1, <3>2 DEF FreshWrites
    <3>4. /\ forest'.streak.current = forest.streak.current
          /\ forest'.streak.last = forest.streak.last
          /\ forest'.streak.leaves = forest.streak.leaves
          /\ StreakInv(forest') /\ MissedDaysIn(forest') = MissedDaysIn(forest)
      BY <1>1, <2>1, <3>3, ShowEffect
    <3> QED BY <1>2, <2>2, <3>4
  <2> QED BY <2>3, <2>4
<1>7. CASE WriteStep
  <2>1. PICK t \in Taps : WriteStatus(t)
    BY <1>7 DEF WriteStep
  <2>2. claim[t].xp + claim[t].worth \in Nat
    BY <1>1 DEF TypeOK, Claim
  <2>3. /\ forest'.streak = forest.streak /\ StreakInv(forest')
        /\ MissedDaysIn(forest') = MissedDaysIn(forest) /\ UNCHANGED inventory
    BY <1>1, <2>1, <2>2, WriteEffect DEF WriteStatus
  <2> QED BY <1>2, <2>3
<1> QED BY <1>1, <1>3, <1>4, <1>5, <1>6, <1>7, StepClass

LEMMA StreakKept ==
  ASSUME ForestInv, StreakInv(forest), LeavesAccounted, [Next /\ FreshWrites]_vars
  PROVE  StreakInv(forest') /\ LeavesAccounted'
<1>1. ForestInv' /\ EngineOK
  BY StepKeeps DEF ForestInv
<1>2. CASE StoreStep
  <2>1. PICK item \in Items : BuyItem(item)
    BY <1>2 DEF StoreStep
  <2>2. /\ StreakInv(forest') /\ MissedDaysIn(forest') = MissedDaysIn(forest)
        /\ forest'.streak.leaves = IF item = "protection_leaf" THEN forest.streak.leaves + 1
                                   ELSE forest.streak.leaves
    BY <1>1, <2>1, BuyEffect
  <2>3. "protection_leaf" \in Items =>
          inventory'["protection_leaf"] =
            IF item = "protection_leaf" THEN inventory["protection_leaf"] + 1
            ELSE inventory["protection_leaf"]
    BY <2>1 DEF BuyItem, ForestInv, TypeOK
  <2> QED BY <2>2, <2>3, LeavesTyped DEF LeavesAccounted
<1>3. CASE ~StoreStep
  <2>1. StreakInv(forest') /\ LeavesTold(forest, forest') /\ UNCHANGED inventory
    BY <1>3, StreakStep
  <2>2. Cardinality(MissedDaysIn(forest')) \in Nat /\ forest'.streak.leaves \in Nat
    <3>1. forest' \in ForestType
      BY <1>1 DEF ForestInv, EngineOK, EngineInv
    <3>2. MissedDaysIn(forest') \in SUBSET Days
      BY <3>1, HistoryTyped
    <3> QED BY <3>1, <3>2, DaysFinite DEF ForestType, StreakRow
  <2> QED BY <2>1, <2>2, LeavesTyped DEF LeavesAccounted, LeavesTold
<1> QED BY <1>2, <1>3

\* The inductive invariant of the streak.
LEMMA StreakSafe == FreshSpec => [](ForestInv /\ StreakInv(forest) /\ LeavesAccounted)
<1>1. Init => ForestInv /\ StreakInv(forest) /\ LeavesAccounted
  <2> SUFFICES ASSUME Init PROVE ForestInv /\ StreakInv(forest) /\ LeavesAccounted
    OBVIOUS
  <2>1. forest = EmptyForest /\ inventory = [i \in Items |-> 0]
    BY DEF Init, ActivityInit
  <2>2. MissedDaysIn(EmptyForest) = {} /\ EmptyForest.streak.leaves = 0
    BY DEF EmptyForest, NoStreak, MissedDaysIn, StreakDaysIn, CreditedIn
  <2> QED BY <2>1, <2>2, InitKeeps, EmptyForestOK, FS_EmptySet DEF LeavesAccounted
<1>2. ForestInv /\ StreakInv(forest) /\ LeavesAccounted /\ [Next /\ FreshWrites]_vars
        => (ForestInv /\ StreakInv(forest) /\ LeavesAccounted)'
  <2>1. [Next /\ FreshWrites]_vars => [Next]_vars
    OBVIOUS
  <2> QED BY <2>1, StepKeeps, StreakKept
<1> QED BY <1>1, <1>2, PTL DEF FreshSpec

\* The streak is the one the award rows tell, for any number of days, records and
\* screens, in every behaviour in which no load writes back a stale streak row
\* (daily_activity_engine.dart: _updateStreak).
THEOREM StreakAlways == FreshSpec => []StreakMatchesHistory
<1>1. StreakInv(forest) => StreakMatchesHistory
  <2>1. CreditedIn(forest) = Credited
    BY DEF CreditedIn, Credited
  <2>2. StreakDaysIn(forest) = StreakDays
    BY <2>1 DEF StreakDaysIn, StreakDays, After
  <2>3. MissedDaysIn(forest) = MissedDays
    BY <2>2 DEF MissedDaysIn, MissedDays
  <2> QED BY <2>1, <2>2, <2>3 DEF StreakInv, HistoryTold, StreakMatchesHistory
<1> QED BY <1>1, StreakSafe, PTL

\* Every missed day inside the streak has cost a leaf that was bought, under the
\* same condition.
THEOREM LeavesAlways == FreshSpec => []LeavesBacked
<1>1. ForestInv /\ LeavesAccounted => LeavesBacked
  <2>1. MissedDaysIn(forest) = MissedDays
    BY DEF MissedDaysIn, MissedDays, StreakDaysIn, StreakDays, CreditedIn, Credited, After
  <2> QED BY <2>1, LeavesTyped DEF LeavesAccounted, LeavesBacked
<1> QED BY <1>1, StreakSafe, PTL

\* A leaf leaves the streak row only when the streak crosses one missed day, under
\* the same condition (living_forest_service.dart: buyItem sells the leaf as that).
THEOREM LeafBridgesAlways == FreshSpec => LeafOnlyBridges
<1> DEFINE Bridges ==
             forest'.streak.leaves < forest.streak.leaves =>
               /\ forest'.streak.leaves = forest.streak.leaves - 1
               /\ forest'.streak.last = forest.streak.last + 2
               /\ forest'.streak.current = forest.streak.current + 1
<1>1. ASSUME ForestInv, StreakInv(forest), [Next /\ FreshWrites]_vars
      PROVE  Bridges
  <2>1. CASE StoreStep
    BY <1>1, <2>1, BuyEffect, LeavesTyped DEF StoreStep, ForestInv
  <2>2. CASE ~StoreStep
    BY <1>1, <2>2, StreakStep DEF LeavesTold
  <2> QED BY <2>1, <2>2
<1>2. ForestInv /\ StreakInv(forest) /\ [Next /\ FreshWrites]_vars => [Bridges]_vars
  BY <1>1
<1> QED BY <1>2, StreakSafe, PTL DEF FreshSpec, LeafOnlyBridges
=============================================================================
