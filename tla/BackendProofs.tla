---------------------------- MODULE BackendProofs ----------------------------
(***************************************************************************)
(* Theorems about the parts of the backend that publish and compute, for    *)
(* any publishers, sources, responses, series and limits.  The forecast     *)
(* worker answers, from a cache or not, only what its release earned.  A    *)
(* provider of official data gets a bounded number of requests, whatever it *)
(* answers, publishers that race never shrink a publication by more than    *)
(* half, and the inflation served compares two periods of one series.  The  *)
(* last section puts the parts together with those of the other modules.    *)
(***************************************************************************)
EXTENDS MCBackend, SubjectDataProofs, ServiceProofs, ReleaseProofs, ReceiptProofs

-----------------------------------------------------------------------------
\* The forecast worker.

\* The recursion of Total has a solution, and every solution adds integers.
Sums(f, m, g) ==
  g = [n \in 0 .. m |-> IF n = 0 THEN 0 ELSE g[n - 1] + f[n]]

LEMMA SumsAreInt ==
  ASSUME NEW m \in Nat, NEW f, f \in [1 .. m -> Int], NEW g, Sums(f, m, g)
  PROVE  \A n \in 0 .. m : g[n] \in Int
<1> DEFINE Bad == {n \in 0 .. m : g[n] \notin Int}
<1>1. SUFFICES ASSUME Bad # {} PROVE FALSE
  OBVIOUS
<1>2. IsFiniteSet(Bad) /\ Bad \subseteq Int
  <2>1. Bad \subseteq 0 .. m
    OBVIOUS
  <2> HIDE DEF Bad
  <2>2. IsFiniteSet(0 .. m)
    BY FS_Interval
  <2>3. IsFiniteSet(Bad)
    BY <2>1, <2>2, FS_Subset
  <2>4. QED  BY <2>1, <2>3
<1>3. PICK n \in Bad : \A k \in Bad : n <= k
  <2> HIDE DEF Bad
  <2>1. QED  BY <1>1, <1>2, LeastMember
<1>4. g[n] = IF n = 0 THEN 0 ELSE g[n - 1] + f[n]
  BY DEF Sums
<1>5. CASE n = 0
  BY <1>4, <1>5
<1>6. CASE n # 0
  <2>1. n - 1 \in 0 .. m /\ n - 1 \notin Bad /\ n \in 1 .. m
    BY <1>3, <1>6
  <2>2. g[n - 1] \in Int /\ f[n] \in Int
    BY <2>1
  <2>3. QED  BY <1>4, <1>6, <2>2
<1>7. QED  BY <1>5, <1>6

LEMMA SumsExist ==
  ASSUME NEW m \in Nat, NEW f, f \in [1 .. m -> Int]
  PROVE  \E g : Sums(f, m, g)
<1> DEFINE Solved(k) == \E g : Sums(f, k, g)
           Bad == {k \in 0 .. m : ~Solved(k)}
<1>0. SUFFICES \A k \in 0 .. m : Solved(k)
  OBVIOUS
<1> HIDE DEF Solved
<1>1. SUFFICES ASSUME Bad # {} PROVE FALSE
  OBVIOUS
<1>2. IsFiniteSet(Bad) /\ Bad \subseteq Int
  <2>1. Bad \subseteq 0 .. m
    OBVIOUS
  <2> HIDE DEF Bad
  <2>2. IsFiniteSet(0 .. m)
    BY FS_Interval
  <2>3. IsFiniteSet(Bad)
    BY <2>1, <2>2, FS_Subset
  <2>4. QED  BY <2>1, <2>3
<1>3. PICK k \in Bad : \A l \in Bad : k <= l
  <2> HIDE DEF Bad
  <2>1. QED  BY <1>1, <1>2, LeastMember
<1>4. CASE k = 0
  <2> DEFINE g == [n \in 0 .. 0 |-> 0]
  <2>1. Sums(f, 0, g)
    BY DEF Sums
  <2>2. QED  BY <1>3, <1>4, <2>1 DEF Solved
<1>5. CASE k # 0
  <2>1. k - 1 \in 0 .. m /\ k - 1 \notin Bad
    BY <1>3, <1>5
  <2>2. PICK g : Sums(f, k - 1, g)
    BY <2>1 DEF Solved
  <2> DEFINE h == [n \in 0 .. k |-> IF n = k THEN g[k - 1] + f[k] ELSE g[n]]
  <2>3. \A n \in 0 .. k : h[n] = IF n = 0 THEN 0 ELSE h[n - 1] + f[n]
    <3> TAKE n \in 0 .. k
    <3>1. CASE n = k
      <4>1. h[k - 1] = g[k - 1] /\ h[k] = g[k - 1] + f[k]
        BY <1>5
      <4>2. QED  BY <1>5, <3>1, <4>1
    <3>2. CASE n # k
      <4>1. n \in 0 .. k - 1 /\ h[n] = g[n] /\ (n # 0 => h[n - 1] = g[n - 1])
        BY <3>2
      <4>2. g[n] = IF n = 0 THEN 0 ELSE g[n - 1] + f[n]
        BY <2>2, <4>1 DEF Sums
      <4>3. QED  BY <4>1, <4>2
    <3>3. QED  BY <3>1, <3>2
  <2>4. h = [n \in 0 .. k |-> h[n]]
    OBVIOUS
  <2> HIDE DEF h
  <2>5. Sums(f, k, h)
    BY <2>3, <2>4 DEF Sums
  <2>6. QED  BY <1>3, <2>5 DEF Solved
<1>6. QED  BY <1>3, <1>4, <1>5

LEMMA TotalIsInt ==
  ASSUME NEW m \in Nat, NEW f, f \in [1 .. m -> Int]
  PROVE  Total(f) \in Int
<1> DEFINE g == CHOOSE g : Sums(f, m, g)
<1>1. Len(f) = m
  OBVIOUS
<1>2. Sums(f, m, g)
  BY SumsExist
<1>3. g[m] \in Int
  <2> HIDE DEF g
  <2>1. QED  BY <1>2, SumsAreInt
<1>4. Total(f) = g[m]
  BY <1>1 DEF Total, Sums
<1>5. QED  BY <1>3, <1>4

\* The last split of a series still leaves its test days.
LEMMA LastOrigin ==
  ASSUME NEW series \in ForecastSeries
  PROVE  /\ Cardinality(Origins(series)) \in Nat \ {0}
         /\ InitialTrainingDays + StepDays * (Cardinality(Origins(series)) - 1)
              <= Len(series) - TestDays
<1> DEFINE room == Len(series) - TestDays - InitialTrainingDays
           q == room \div StepDays
           O == Origins(series)
           f == [o \in O |-> (o - InitialTrainingDays) \div StepDays]
<1>1. /\ room \in Nat /\ StepDays \in Nat \ {0} /\ InitialTrainingDays \in Nat
      /\ Len(series) \in Nat /\ TestDays \in Nat
  BY ForecastAssumption
<1>2. \A o \in O : /\ o - InitialTrainingDays \in 0 .. room /\ o \in Int
                   /\ (o - InitialTrainingDays) % StepDays = 0
  BY <1>1 DEF Origins
<1>3. q \in Nat /\ StepDays * q <= room /\ room < StepDays * q + StepDays /\ StepDays * q \in Int
  <2>1. room % StepDays \in 0 .. StepDays - 1 /\ room = StepDays * q + (room % StepDays) /\ q \in Nat
    BY <1>1, Quotient
  <2>2. StepDays * q \in Int
    BY <1>1, <2>1
  <2> HIDE DEF room, q
  <2>3. QED  BY <1>1, <2>1, <2>2
<1>4. InitialTrainingDays \in O
  BY <1>1 DEF Origins
<1> HIDE DEF room, q, O
<1>5. ASSUME NEW o \in O
      PROVE  f[o] \in 0 .. q /\ o = InitialTrainingDays + StepDays * f[o]
  <2> DEFINE k == (o - InitialTrainingDays) \div StepDays
  <2>1. k \in Nat /\ o - InitialTrainingDays = StepDays * k
    <3>1. o - InitialTrainingDays \in Nat /\ (o - InitialTrainingDays) % StepDays = 0
      BY <1>1, <1>2
    <3> DEFINE a == o - InitialTrainingDays
    <3>2. a \div StepDays \in Nat /\ a = StepDays * (a \div StepDays) + (a % StepDays)
      <4> HIDE DEF a
      <4>1. QED  BY <1>1, <3>1, Quotient DEF a
    <3>3. StepDays * k \in Int
      BY <1>1, <3>2
    <3>4. QED  BY <3>1, <3>2, <3>3
  <2>2. f[o] = k
    OBVIOUS
  <2> HIDE DEF k, f
  <2>3. StepDays * k < StepDays * (q + 1)
    <3>1. StepDays * (q + 1) = StepDays * q + StepDays
      BY <1>1, <1>3
    <3>2. StepDays * k <= room /\ StepDays * k \in Int
      BY <1>2, <2>1
    <3>3. QED  BY <1>1, <1>3, <3>1, <3>2
  <2>4. k <= q + 1 - 1
    BY <1>1, <1>3, <2>1, <2>3, Unscaled
  <2>5. o = InitialTrainingDays + StepDays * k
    BY <1>1, <1>2, <2>1
  <2>6. QED  BY <1>3, <2>1, <2>2, <2>4, <2>5
<1>6. f \in Injection(O, 0 .. q)
  <2>1. f \in [O -> 0 .. q]
    BY <1>5
  <2>2. \A o, p \in O : f[o] = f[p] => o = p
    <3> HIDE DEF f
    <3>1. QED  BY <1>5
  <2>3. QED  BY <2>1, <2>2 DEF Injection, IsInjective
<1>7. IsFiniteSet(O) /\ Cardinality(O) <= q + 1 /\ Cardinality(O) \in Nat
  <2> HIDE DEF f
  <2>1. IsFiniteSet(0 .. q) /\ Cardinality(0 .. q) = q + 1
    BY <1>3, FS_Interval
  <2>2. IsFiniteSet(O) /\ Cardinality(O) <= Cardinality(0 .. q)
    BY <1>6, <2>1, FS_Injection
  <2>3. QED  BY <2>1, <2>2, FS_CardinalityType
<1>8. Cardinality(O) # 0
  BY <1>4, <1>7, FS_EmptySet
<1> DEFINE n == Cardinality(O)
<1>9. n \in Nat \ {0} /\ n - 1 <= q
  BY <1>3, <1>7, <1>8
<1> HIDE DEF n
<1>10. StepDays * (n - 1) <= StepDays * q /\ StepDays * (n - 1) \in Int
  BY <1>1, <1>3, <1>9, Scaled
<1>11. InitialTrainingDays + StepDays * (n - 1) <= Len(series) - TestDays
  BY <1>1, <1>3, <1>10 DEF room
<1>12. QED  BY <1>9, <1>11 DEF n, O

Tests(series) == Cardinality(Origins(series)) * TestDays

\* Every day of a backtest lies in the series, after its training part.
LEMMA TestPointIs ==
  ASSUME NEW series \in ForecastSeries, NEW i \in 1 .. Tests(series)
  PROVE  LET t == TestPoints(series)[i]
         IN  /\ t[1] \in InitialTrainingDays .. (Len(series) - TestDays)
             /\ t[2] \in 1 .. TestDays
<1> DEFINE n == Cardinality(Origins(series))
           split == (i - 1) \div TestDays
           day == (i - 1) % TestDays
<1>1. /\ n \in Nat \ {0} /\ InitialTrainingDays + StepDays * (n - 1) <= Len(series) - TestDays
      /\ TestDays \in Nat \ {0} /\ StepDays \in Nat \ {0} /\ InitialTrainingDays \in Nat
      /\ Len(series) \in Nat
  BY LastOrigin, ForecastAssumption
<1>2. i \in 1 .. n * TestDays
  BY DEF Tests
<1>3. TestPoints(series)[i] = <<InitialTrainingDays + StepDays * split, day + 1>>
  BY <1>2 DEF TestPoints
<1> HIDE DEF n
<1>4. n * TestDays = TestDays * n /\ TestDays * n \in Int
  BY <1>1
<1>5. i - 1 \in Nat /\ i - 1 < TestDays * n
  BY <1>2, <1>4
<1> DEFINE before == i - 1
<1>6. /\ split \in Nat /\ day \in 0 .. TestDays - 1 /\ i - 1 = TestDays * split + day
      /\ TestDays * split \in Int
  <2>1. before \in Nat
    BY <1>5
  <2> HIDE DEF before
  <2>2. /\ before \div TestDays \in Nat /\ before % TestDays \in 0 .. TestDays - 1
        /\ before = TestDays * (before \div TestDays) + (before % TestDays)
    BY <1>1, <2>1, Quotient
  <2>3. TestDays * (before \div TestDays) \in Int
    BY <1>1, <2>2
  <2>4. QED  BY <2>2, <2>3 DEF before
<1> HIDE DEF split, day, before
<1>7. split <= n - 1
  <2>1. TestDays * split < TestDays * n
    BY <1>1, <1>4, <1>5, <1>6
  <2>2. QED  BY <1>1, <1>6, <2>1, Unscaled
<1>8. StepDays * split <= StepDays * (n - 1) /\ StepDays * split \in Int /\ StepDays * (n - 1) \in Int
  BY <1>1, <1>6, <1>7, Scaled
<1>9. StepDays * split \in Nat
  BY <1>1, <1>6
<1>10. QED  BY <1>1, <1>3, <1>6, <1>8, <1>9

LEMMA TestsAreMany ==
  ASSUME NEW series \in ForecastSeries
  PROVE  /\ Tests(series) \in Nat \ {0}
         /\ Len(TestPoints(series)) = Tests(series)
<1>1. Cardinality(Origins(series)) \in Nat \ {0} /\ TestDays \in Nat \ {0}
  BY LastOrigin, ForecastAssumption
<1>2. Tests(series) \in Nat \ {0}
  <2> DEFINE n == Cardinality(Origins(series))
  <2> HIDE DEF n
  <2>1. n \in Nat \ {0} /\ TestDays \in Nat \ {0} => n * TestDays \in Nat \ {0}
    OBVIOUS
  <2>2. QED  BY <1>1, <2>1 DEF n, Tests
<1>3. DOMAIN TestPoints(series) = 1 .. Tests(series)
  BY DEF TestPoints, Tests
<1>4. TestPoints(series) = [i \in 1 .. Tests(series) |-> TestPoints(series)[i]]
  BY DEF TestPoints, Tests
<1>5. QED  BY <1>2, <1>4

Models == {"naive", "seasonal_naive", "prophet"}

\* A point for each day of the horizon.
Pointed(answer, horizon) ==
  DOMAIN answer = 1 .. horizon /\ \A d \in 1 .. horizon : answer[d].prediction \in Int

LEMMA SeasonalIsPointed ==
  ASSUME NEW days \in Seq(Int), Len(days) >= InitialTrainingDays, NEW horizon \in Nat \ {0}
  PROVE  Pointed(SeasonalForecast(days, horizon), horizon)
<1>1. /\ SeasonDays \in Nat \ {0} /\ Len(days) \in Nat /\ Len(days) >= SeasonDays
  BY ForecastAssumption
<1>2. ASSUME NEW d \in 1 .. horizon
      PROVE  days[Len(days) - SeasonDays + 1 + ((d - 1) % SeasonDays)] \in Int
  <2> DEFINE r == (d - 1) % SeasonDays
  <2>1. r \in 0 .. SeasonDays - 1
    <3> DEFINE a == d - 1
    <3>1. a \in Nat
      OBVIOUS
    <3> HIDE DEF a
    <3>2. a % SeasonDays \in 0 .. SeasonDays - 1
      BY <1>1, <3>1, Quotient
    <3>3. QED  BY <3>2 DEF a
  <2> HIDE DEF r
  <2>2. Len(days) - SeasonDays + 1 + r \in 1 .. Len(days)
    BY <1>1, <2>1
  <2>3. QED  BY <2>2 DEF r
<1>3. QED  BY <1>2 DEF Pointed, SeasonalForecast, PointAt

LEMMA ForecastIsPointed ==
  ASSUME NEW days \in Seq(Int), Len(days) >= InitialTrainingDays, NEW horizon \in Nat \ {0},
         NEW model \in Models, NEW run, model = "prophet" => run \in ProphetRuns
  PROVE  \/ model = "prophet" /\ ForecastBy(model, run, days, horizon) = <<>>
         \/ Pointed(ForecastBy(model, run, days, horizon), horizon)
<1>1. CASE model = "naive"
  <2>1. days[Len(days)] \in Int
    BY ForecastAssumption
  <2>2. Pointed(NaiveForecast(days, horizon), horizon)
    BY <2>1 DEF Pointed, NaiveForecast, PointAt
  <2>3. QED  BY <1>1, <2>2 DEF ForecastBy
<1>2. CASE model = "seasonal_naive"
  BY <1>2, SeasonalIsPointed DEF ForecastBy
<1>3. CASE model = "prophet"
  <2>1. run.bias \in Int
    BY <1>3, ForecastAssumption
  <2>2. \A d \in 1 .. horizon : SeasonalForecast(days, horizon)[d].prediction \in Int
    BY SeasonalIsPointed DEF Pointed
  <2> DEFINE p(d) == SeasonalForecast(days, horizon)[d].prediction + run.bias
  <2>3. \A d \in 1 .. horizon : p(d) \in Int
    BY <2>1, <2>2
  <2>4. \/ ProphetForecast(run, days, horizon) = <<>>
        \/ ProphetForecast(run, days, horizon)
             = [d \in 1 .. horizon |-> PointAt(p(d), <<p(d) - run.below, p(d) + run.above>>)]
    BY DEF ProphetForecast
  <2> HIDE DEF p
  <2>5. \/ ProphetForecast(run, days, horizon) = <<>>
        \/ Pointed(ProphetForecast(run, days, horizon), horizon)
    BY <2>3, <2>4 DEF Pointed, PointAt
  <2>6. QED  BY <1>3, <2>5 DEF ForecastBy
<1>4. QED  BY <1>1, <1>2, <1>3 DEF Models

LEMMA BaselineIgnoresRun ==
  ASSUME NEW model \in {"naive", "seasonal_naive"}, NEW run, NEW other, NEW days, NEW horizon
  PROVE  ForecastBy(model, run, days, horizon) = ForecastBy(model, other, days, horizon)
BY DEF ForecastBy

LEMMA TestAnswerIsPointed ==
  ASSUME NEW series \in ForecastSeries, NEW i \in 1 .. Tests(series),
         NEW model \in Models, NEW run, model = "prophet" => run \in ProphetRuns
  PROVE  LET answer == ForecastBy(model, run, SubSeq(series, 1, TestPoints(series)[i][1]), TestDays)
         IN  \/ model = "prophet" /\ answer = <<>>
             \/ answer # <<>> /\ Pointed(answer, TestDays)
<1> DEFINE o == TestPoints(series)[i][1]
           days == SubSeq(series, 1, o)
<1>1. o \in InitialTrainingDays .. (Len(series) - TestDays)
  BY TestPointIs
<1>2. /\ series \in Seq(Int) /\ InitialTrainingDays \in Nat /\ TestDays \in Nat \ {0}
      /\ Len(series) \in Nat
  BY ForecastAssumption
<1> HIDE DEF o
<1>3. o \in 0 .. Len(series) /\ o >= InitialTrainingDays
  BY <1>1, <1>2
<1>4. days \in Seq(Int) /\ Len(days) = o
  BY <1>2, <1>3
<1> HIDE DEF days
<1>5. \/ model = "prophet" /\ ForecastBy(model, run, days, TestDays) = <<>>
      \/ Pointed(ForecastBy(model, run, days, TestDays), TestDays)
  BY <1>2, <1>3, <1>4, ForecastIsPointed
<1> DEFINE answer == ForecastBy(model, run, days, TestDays)
<1>6. Pointed(answer, TestDays) => answer # <<>>
  <2> HIDE DEF answer
  <2>1. QED  BY <1>2 DEF Pointed
<1>7. QED  BY <1>5, <1>6 DEF days, o

LEMMA BacktestTyped ==
  ASSUME NEW series \in ForecastSeries, NEW model \in Models, NEW run,
         model = "prophet" => run \in ProphetRuns
  PROVE  LET evaluation == Backtest(series, model, run)
         IN  /\ evaluation.model = model
             /\ model # "prophet" => ~evaluation.failed
             /\ ~evaluation.failed => /\ evaluation.residuals \in [1 .. Tests(series) -> Int]
                                      /\ ErrorOf(evaluation) \in Int
<1> DEFINE tests == TestPoints(series)
           days == 1 .. Len(tests)
           answer(i) == ForecastBy(model, run, SubSeq(series, 1, tests[i][1]), TestDays)
           residual(i) == series[tests[i][1] + tests[i][2]] - answer(i)[tests[i][2]].prediction
           failed == \E i \in days : answer(i) = <<>>
           evaluation == Backtest(series, model, run)
<1>1. days = 1 .. Tests(series) /\ Tests(series) \in Nat
  BY TestsAreMany
<1>2. ASSUME NEW i \in days
      PROVE  /\ answer(i) = <<>> => model = "prophet"
             /\ answer(i) # <<>> => residual(i) \in Int
  <2>1. i \in 1 .. Tests(series)
    BY <1>1
  <2>2. /\ tests[i][1] \in InitialTrainingDays .. (Len(series) - TestDays)
        /\ tests[i][2] \in 1 .. TestDays
    BY <2>1, TestPointIs
  <2>3. \/ model = "prophet" /\ answer(i) = <<>>
        \/ answer(i) # <<>> /\ Pointed(answer(i), TestDays)
    BY <2>1, TestAnswerIsPointed
  <2> DEFINE a == answer(i)
             t == tests[i]
  <2> HIDE DEF a, t, answer, tests
  <2>4. /\ t[1] \in InitialTrainingDays .. (Len(series) - TestDays) /\ t[2] \in 1 .. TestDays
        /\ \/ model = "prophet" /\ a = <<>>
           \/ a # <<>> /\ Pointed(a, TestDays)
    BY <2>2, <2>3 DEF a, t
  <2>5. series \in Seq(Int) /\ InitialTrainingDays \in Nat /\ TestDays \in Nat /\ Len(series) \in Nat
    BY ForecastAssumption
  <2>6. series[t[1] + t[2]] \in Int
    BY <2>4, <2>5
  <2>7. a # <<>> => a[t[2]].prediction \in Int
    BY <2>4 DEF Pointed
  <2>8. /\ a = <<>> => model = "prophet"
        /\ a # <<>> => series[t[1] + t[2]] - a[t[2]].prediction \in Int
    BY <2>4, <2>6, <2>7
  <2>9. QED  BY <2>8 DEF a, t
<1>3. /\ evaluation.model = model
      /\ evaluation.failed = failed
      /\ ~failed => evaluation.residuals = [i \in days |-> residual(i)]
  BY DEF Backtest
<1> HIDE DEF evaluation, residual, answer, days
<1>4. model # "prophet" => ~failed
  BY <1>2
<1>5. ~failed => evaluation.residuals \in [1 .. Tests(series) -> Int]
  BY <1>1, <1>2, <1>3
<1>6. ASSUME evaluation.residuals \in [1 .. Tests(series) -> Int]
      PROVE  ErrorOf(evaluation) \in Int
  <2> DEFINE r == evaluation.residuals
             f == [i \in DOMAIN r |-> Abs(r[i])]
  <2>1. f \in [1 .. Tests(series) -> Int]
    <3> HIDE DEF evaluation
    <3>1. r \in [1 .. Tests(series) -> Int]
      BY <1>6
    <3> HIDE DEF r
    <3>2. QED  BY <3>1 DEF Abs
  <2> HIDE DEF f
  <2>2. Total(f) \in Int
    BY <1>1, <2>1, TotalIsInt
  <2>3. QED  BY <2>2 DEF ErrorOf, f
<1>7. QED  BY <1>3, <1>4, <1>5, <1>6 DEF evaluation

\* A baseline is tested the same whatever Prophet would answer.
LEMMA BaselineBacktest ==
  ASSUME NEW series, NEW model \in {"naive", "seasonal_naive"}, NEW run, NEW other
  PROVE  Backtest(series, model, run) = Backtest(series, model, other)
<1>1. \A days, horizon : ForecastBy(model, run, days, horizon) = ForecastBy(model, other, days, horizon)
  BY BaselineIgnoresRun
<1> DEFINE tests == TestPoints(series)
           days == 1 .. Len(tests)
           mine(i) == ForecastBy(model, run, SubSeq(series, 1, tests[i][1]), TestDays)
           its(i) == ForecastBy(model, other, SubSeq(series, 1, tests[i][1]), TestDays)
<1>2. \A i : mine(i) = its(i)
  BY <1>1
<1>3. QED  BY <1>2 DEF Backtest

\* The selector finds a baseline, and no baseline has a smaller error.
LEMMA BestBaselineIs ==
  ASSUME NEW series \in ForecastSeries, NEW run
  PROVE  LET best == BestBaseline(series, run)
         IN  \E i \in {1, 2} :
               /\ best = Backtest(series, Baselines[i], run)
               /\ \A j \in {1, 2} : ErrorOf(best) <= ErrorOf(Backtest(series, Baselines[j], run))
<1> DEFINE tried == [i \in 1 .. 2 |-> Backtest(series, Baselines[i], run)]
           Wins(i) == \A j \in 1 .. 2 : \/ ErrorOf(tried[i]) < ErrorOf(tried[j])
                                        \/ ErrorOf(tried[i]) = ErrorOf(tried[j]) /\ i <= j
           Best(e) == \E i \in 1 .. 2 : e = tried[i] /\ Wins(i)
           S == {tried[i] : i \in 1 .. 2}
<1>1. \A i \in 1 .. 2 : ErrorOf(tried[i]) \in Int
  <2> SUFFICES ASSUME NEW i \in 1 .. 2 PROVE ErrorOf(tried[i]) \in Int
    OBVIOUS
  <2>1. Baselines[i] \in Models /\ Baselines[i] # "prophet"
    BY DEF Baselines, Models
  <2>2. QED  BY <2>1, BacktestTyped
<1>2. BestBaseline(series, run) = CHOOSE e \in S : Best(e)
  <2>1. Len(Baselines) = 2
    BY DEF Baselines
  <2>2. DOMAIN tried = 1 .. 2
    OBVIOUS
  <2>3. QED  BY <2>1, <2>2 DEF BestBaseline
<1> HIDE DEF tried
<1>3. \E i \in 1 .. 2 : Wins(i)
  <2>1. CASE ErrorOf(tried[1]) <= ErrorOf(tried[2])
    <3>1. Wins(1)
      BY <1>1, <2>1
    <3>2. QED  BY <3>1
  <2>2. CASE ~(ErrorOf(tried[1]) <= ErrorOf(tried[2]))
    <3>1. Wins(2)
      BY <1>1, <2>2
    <3>2. QED  BY <3>1
  <2>3. QED  BY <2>1, <2>2
<1>4. \E e \in S : Best(e)
  BY <1>3
<1>5. Best(BestBaseline(series, run))
  <2> HIDE DEF S, Best
  <2>1. QED  BY <1>2, <1>4
<1>6. PICK i \in 1 .. 2 : BestBaseline(series, run) = tried[i] /\ Wins(i)
  BY <1>5
<1>7. \A j \in 1 .. 2 : ErrorOf(tried[i]) <= ErrorOf(tried[j])
  BY <1>1, <1>6
<1>8. \A j \in {1, 2} : j \in 1 .. 2
  OBVIOUS
<1>9. i \in {1, 2}
  BY <1>6
<1>10. \A j \in {1, 2} : tried[j] = Backtest(series, Baselines[j], run)
  BY <1>8 DEF tried
<1>11. QED  BY <1>6, <1>7, <1>8, <1>9, <1>10

\* As many residuals lie within the width as the calibrator counts.
LEMMA WidthCovers ==
  ASSUME NEW n \in Nat \ {0}, NEW residuals \in [1 .. n -> Int]
  PROVE  /\ IntervalWidth(residuals) \in Int
         /\ 5 * Cardinality(Within(residuals, IntervalWidth(residuals))) >= 4 * n
<1> DEFINE score(i) == Abs(residuals[i])
           scores == {score(i) : i \in 1 .. n}
           rank == (4 * (n + 1) + 4) \div 5
           least == IF rank < n THEN rank ELSE n
           count(x) == Cardinality(Within(residuals, x))
           wide == {x \in scores : count(x) >= least}
           width == CHOOSE x \in wide : \A y \in wide : x <= y
<1>1. Len(residuals) = n /\ DOMAIN residuals = 1 .. n
  OBVIOUS
<1>2. IntervalWidth(residuals) = width
  BY <1>1 DEF IntervalWidth
<1>3. least \in Nat /\ least <= n /\ 5 * least >= 4 * n
  <2>1. rank \in Nat /\ 5 * rank >= 4 * (n + 1)
    <3> DEFINE a == 4 * (n + 1) + 4
    <3>1. a \in Nat
      OBVIOUS
    <3> HIDE DEF a
    <3>2. a \div 5 \in Nat /\ a <= 5 * (a \div 5) + 4
      BY <3>1
    <3>3. QED  BY <3>2 DEF a
  <2> HIDE DEF rank
  <2>2. CASE rank < n
    BY <2>1, <2>2
  <2>3. CASE ~(rank < n)
    BY <2>1, <2>3
  <2>4. QED  BY <2>2, <2>3
<1>4. \A i \in 1 .. n : score(i) \in Int
  BY DEF Abs
<1>5. \A x \in Int : IsFiniteSet(Within(residuals, x)) /\ count(x) \in Nat
  <2>1. \A x \in Int : Within(residuals, x) \subseteq 1 .. n
    BY <1>1 DEF Within
  <2>2. IsFiniteSet(1 .. n)
    BY FS_Interval
  <2>3. ASSUME NEW x \in Int PROVE IsFiniteSet(Within(residuals, x))
    BY <2>1, <2>2, FS_Subset
  <2>4. QED  BY <2>3, FS_CardinalityType
<1>6. \E i \in 1 .. n : \A j \in 1 .. n : score(j) <= score(i)
  <2> DEFINE size == [i \in 1 .. n |-> 0 - score(i)]
  <2>1. \A i \in 1 .. n : size[i] \in Int
    BY <1>4
  <2>2. IsFiniteSet(1 .. n) /\ 1 .. n # {}
    <3>1. 1 \in 1 .. n
      OBVIOUS
    <3>2. IsFiniteSet(1 .. n)
      BY FS_Interval
    <3>3. QED  BY <3>1, <3>2
  <2>3. PICK i \in 1 .. n : \A j \in 1 .. n : size[i] <= size[j]
    <3> HIDE DEF size
    <3>1. QED  BY <2>1, <2>2, LeastExists
  <2>4. \A j \in 1 .. n : size[j] = 0 - score(j)
    OBVIOUS
  <2> HIDE DEF score, size
  <2>5. \A j \in 1 .. n : score(j) <= score(i)
    BY <1>4, <2>3, <2>4
  <2>6. QED  BY <2>5
<1>7. PICK i \in 1 .. n : \A j \in 1 .. n : score(j) <= score(i)
  BY <1>6
<1>8. count(score(i)) = n
  <2>1. Within(residuals, score(i)) = 1 .. n
    BY <1>1, <1>7 DEF Within
  <2>2. Cardinality(1 .. n) = n
    BY FS_Interval
  <2>3. QED  BY <2>1, <2>2
<1>9. scores \subseteq Int /\ IsFiniteSet(scores)
  <2>1. scores \subseteq Int
    BY <1>4
  <2> DEFINE f == [k \in 1 .. n |-> score(k)]
  <2>2. f \in Surjection(1 .. n, scores)
    BY DEF Surjection
  <2>3. IsFiniteSet(1 .. n)
    BY FS_Interval
  <2> HIDE DEF f, scores
  <2>4. QED  BY <2>1, <2>2, <2>3, FS_Surjection
<1> HIDE DEF count, score
<1>10. wide # {} /\ wide \subseteq Int /\ IsFiniteSet(wide)
  <2>1. score(i) \in wide
    BY <1>3, <1>8
  <2>2. wide \subseteq scores
    OBVIOUS
  <2> HIDE DEF wide, scores
  <2>3. IsFiniteSet(wide)
    BY <1>9, <2>2, FS_Subset
  <2>4. QED  BY <1>9, <2>1, <2>2, <2>3
<1>11. width \in wide
  <2> HIDE DEF wide
  <2>1. \E x \in wide : \A y \in wide : x <= y
    BY <1>10, LeastMember
  <2>2. QED  BY <2>1
<1>12. width \in Int /\ count(width) \in Nat /\ count(width) >= least
  <2> HIDE DEF width
  <2>1. QED  BY <1>5, <1>10, <1>11
<1> HIDE DEF width, least
<1>13. 5 * count(width) >= 4 * n
  BY <1>3, <1>12
<1>14. QED  BY <1>2, <1>12, <1>13 DEF count

-----------------------------------------------------------------------------

\* What the property asks of the answer to a job.
Earned(series, horizon, release, result) ==
  LET error == ErrorOf(result.evaluation)
      residuals == result.evaluation.residuals
  IN  /\ Len(result.points) = horizon
      /\ result.by = release
      /\ Len(residuals) = Cardinality(Origins(series)) * TestDays
      /\ \A i \in DOMAIN Baselines :
           LET baseline == Backtest(series, Baselines[i], {})
           IN  IF result.evaluation.model = "prophet"
               THEN 100 * error <= 98 * ErrorOf(baseline)
               ELSE /\ error <= ErrorOf(baseline)
                    /\ result.evaluation.model = baseline.model => result.evaluation = baseline
      /\ \A d \in DOMAIN result.points :
           LET half == result.points[d].interval[2] - result.points[d].prediction
           IN  5 * Cardinality(Within(residuals, half)) >= 4 * Len(residuals)

\* The model that is chosen was tested on this series, and is as good as it must.
LEMMA SelectedIsEarned ==
  ASSUME NEW series \in ForecastSeries, NEW run \in ProphetRuns
  PROVE  LET e == SelectForecaster(series, run).evaluation
         IN  /\ e.model \in Models
             /\ e.residuals \in [1 .. Tests(series) -> Int]
             /\ \A j \in {1, 2} :
                  LET baseline == Backtest(series, Baselines[j], {})
                  IN  IF e.model = "prophet"
                      THEN 100 * ErrorOf(e) <= 98 * ErrorOf(baseline)
                      ELSE /\ ErrorOf(e) <= ErrorOf(baseline)
                           /\ e.model = baseline.model => e = baseline
<1> DEFINE candidate == Backtest(series, "prophet", run)
           best == BestBaseline(series, run)
           e == SelectForecaster(series, run).evaluation
           test(j) == Backtest(series, Baselines[j], {})
<1>1. \A j \in {1, 2} : Baselines[j] \in {"naive", "seasonal_naive"} /\ Baselines[j] \in Models
  BY DEF Baselines, Models
<1>2. \A j \in {1, 2} : Backtest(series, Baselines[j], run) = test(j)
  BY <1>1, BaselineBacktest
<1>3. ASSUME NEW j \in {1, 2}
      PROVE  /\ test(j).model = Baselines[j] /\ test(j).residuals \in [1 .. Tests(series) -> Int]
             /\ ErrorOf(test(j)) \in Int
  <2>1. Baselines[j] \in Models /\ Baselines[j] # "prophet"
    BY <1>1
  <2>2. QED  BY <2>1, BacktestTyped
<1>4. PICK i \in {1, 2} : best = test(i) /\ \A j \in {1, 2} : ErrorOf(best) <= ErrorOf(test(j))
  BY <1>2, BestBaselineIs
<1>5. \/ e = best
      \/ e = candidate /\ ~candidate.failed /\ HasRequiredImprovement(best, candidate)
  BY DEF SelectForecaster
<1>6. /\ candidate.model = "prophet"
      /\ ~candidate.failed => /\ candidate.residuals \in [1 .. Tests(series) -> Int]
                              /\ ErrorOf(candidate) \in Int
  BY BacktestTyped DEF Models
<1> HIDE DEF candidate, best, e, test
<1>7. CASE e = best
  <2>1. /\ e = test(i) /\ e.model = Baselines[i] /\ e.model # "prophet" /\ e.model \in Models
        /\ e.residuals \in [1 .. Tests(series) -> Int]
    BY <1>1, <1>3, <1>4, <1>7
  <2>2. ASSUME NEW j \in {1, 2}, e.model = test(j).model PROVE e = test(j)
    <3>1. Baselines[i] = Baselines[j]
      BY <1>3, <2>1, <2>2
    <3>2. i = j
      BY <3>1 DEF Baselines
    <3>3. QED  BY <2>1, <3>2
  <2>3. QED  BY <1>4, <1>7, <2>1, <2>2 DEF e, test
<1>8. CASE e = candidate /\ ~candidate.failed /\ HasRequiredImprovement(best, candidate)
  <2>1. /\ e.model = "prophet" /\ e.residuals \in [1 .. Tests(series) -> Int]
        /\ ErrorOf(e) \in Int
    BY <1>6, <1>8
  <2>2. 50 * (ErrorOf(best) - ErrorOf(e)) >= ErrorOf(best)
    BY <1>8 DEF HasRequiredImprovement
  <2>3. ErrorOf(best) \in Int
    BY <1>3, <1>4
  <2>4. ASSUME NEW j \in {1, 2} PROVE 100 * ErrorOf(e) <= 98 * ErrorOf(test(j))
    <3>1. ErrorOf(best) <= ErrorOf(test(j)) /\ ErrorOf(test(j)) \in Int
      BY <1>3, <1>4
    <3>2. QED  BY <2>1, <2>2, <2>3, <3>1
  <2>5. e.model \in Models
    BY <2>1 DEF Models
  <2>6. QED  BY <2>1, <2>4, <2>5 DEF e, test
<1>9. QED  BY <1>5, <1>7, <1>8

\* So is the answer that a worker computes with it.
LEMMA ComputedIsEarned ==
  ASSUME NEW series \in ForecastSeries, NEW run \in ProphetRuns, NEW horizon \in Horizons,
         NEW result,
         LET selected == SelectForecaster(series, run)
             raw == ForecastBy(selected.evaluation.model, run, series, horizon)
         IN  /\ raw # <<>>
             /\ result.points = Calibrate(raw, selected.evaluation.residuals)
             /\ result.evaluation = selected.evaluation
  PROVE  Earned(series, horizon, result.by, result)
<1> DEFINE e == SelectForecaster(series, run).evaluation
           raw == ForecastBy(e.model, run, series, horizon)
           width == IntervalWidth(e.residuals)
<1>1. /\ e.model \in Models /\ e.residuals \in [1 .. Tests(series) -> Int]
      /\ \A j \in {1, 2} :
           LET baseline == Backtest(series, Baselines[j], {})
           IN  IF e.model = "prophet"
               THEN 100 * ErrorOf(e) <= 98 * ErrorOf(baseline)
               ELSE /\ ErrorOf(e) <= ErrorOf(baseline)
                    /\ e.model = baseline.model => e = baseline
  BY SelectedIsEarned
<1>2. raw # <<>> /\ result.evaluation = e /\ result.points = Calibrate(raw, e.residuals)
  OBVIOUS
<1> HIDE DEF e
<1>3. /\ series \in Seq(Int) /\ Len(series) >= InitialTrainingDays /\ horizon \in Nat \ {0}
  BY ForecastAssumption
<1>4. Pointed(raw, horizon)
  BY <1>1, <1>2, <1>3, ForecastIsPointed
<1>5. Tests(series) \in Nat \ {0}
  BY TestsAreMany
<1>6. width \in Int /\ 5 * Cardinality(Within(e.residuals, width)) >= 4 * Tests(series)
  BY <1>1, <1>5, WidthCovers
<1>7. result.points = [d \in 1 .. horizon |->
                         [prediction |-> raw[d].prediction,
                          interval |-> <<raw[d].prediction - width, raw[d].prediction + width>>]]
  BY <1>2, <1>4 DEF Calibrate, PointAt, Pointed
<1> HIDE DEF width, raw
<1>8. Len(result.points) = horizon /\ DOMAIN result.points = 1 .. horizon
  BY <1>3, <1>7
<1>9. ASSUME NEW d \in 1 .. horizon
      PROVE  result.points[d].interval[2] - result.points[d].prediction = width
  <2>1. raw[d].prediction \in Int
    BY <1>4 DEF Pointed
  <2>2. /\ result.points[d].interval[2] = raw[d].prediction + width
        /\ result.points[d].prediction = raw[d].prediction
    BY <1>7
  <2>3. QED  BY <1>6, <2>1, <2>2
<1>10. Len(e.residuals) = Tests(series)
  BY <1>1, <1>5
<1>11. DOMAIN Baselines = {1, 2}
  BY DEF Baselines
<1>12. /\ Len(result.points) = horizon
       /\ Len(result.evaluation.residuals) = Cardinality(Origins(series)) * TestDays
       /\ \A i \in DOMAIN Baselines :
            LET baseline == Backtest(series, Baselines[i], {})
            IN  IF result.evaluation.model = "prophet"
                THEN 100 * ErrorOf(result.evaluation) <= 98 * ErrorOf(baseline)
                ELSE /\ ErrorOf(result.evaluation) <= ErrorOf(baseline)
                     /\ result.evaluation.model = baseline.model => result.evaluation = baseline
  <2> HIDE DEF Baselines
  <2>1. QED  BY <1>1, <1>2, <1>8, <1>10, <1>11 DEF Tests
<1>13. \A d \in DOMAIN result.points :
         LET half == result.points[d].interval[2] - result.points[d].prediction
         IN  5 * Cardinality(Within(result.evaluation.residuals, half))
               >= 4 * Len(result.evaluation.residuals)
  BY <1>2, <1>6, <1>8, <1>9, <1>10
<1>14. QED  BY <1>12, <1>13 DEF Earned

\* Whatever the cache holds was earned under its own key.
IsAnswer(result) == {"points", "evaluation", "by"} \subseteq DOMAIN result
ForecastInv ==
  /\ DOMAIN forecasting = ForecastWorkers
  /\ \A w \in ForecastWorkers :
       LET job == forecasting[w]
       IN  /\ job.phase = "computing" =>
                /\ job = [phase |-> "computing", series |-> job.series, horizon |-> job.horizon]
                /\ job.series \in ForecastSeries /\ job.horizon \in Horizons
           /\ job.phase = "answered" => Earned(job.series, job.horizon, Release[w], job.result)
  /\ \A k \in DOMAIN forecastCache :
       /\ IsAnswer(forecastCache[k].result)
       /\ Earned(k.series, k.horizon, k.release, forecastCache[k].result)

LEMMA ForecastStarts == ForecastInit => ForecastInv
BY DEF ForecastInit, ForecastInv, ForecastIdle

LEMMA HitIsEarned ==
  ASSUME NEW series, NEW horizon, NEW release, NEW result, IsAnswer(result),
         Earned(series, horizon, release, result)
  PROVE  Earned(series, horizon, release, [result EXCEPT !.cacheHit = TRUE])
<1> DEFINE hit == [result EXCEPT !.cacheHit = TRUE]
<1>1. hit.points = result.points /\ hit.evaluation = result.evaluation /\ hit.by = result.by
  BY DEF IsAnswer
<1> HIDE DEF hit
<1>2. Earned(series, horizon, release, hit)
  BY <1>1 DEF Earned
<1>3. QED  BY <1>2 DEF hit

LEMMA StartKeeps ==
  ASSUME ForecastInv, NEW w \in ForecastWorkers, NEW series \in ForecastSeries,
         NEW horizon \in Horizons, StartForecast(w, series, horizon)
  PROVE  ForecastInv'
<1> DEFINE key == CacheKey(series, horizon, Release[w])
           job == [phase |-> "computing", series |-> series, horizon |-> horizon]
           hit == WithAnswer(job, [forecastCache[key].result EXCEPT !.cacheHit = TRUE])
<1>1. PICK new : /\ forecasting' = [forecasting EXCEPT ![w] = new]
                 /\ UNCHANGED forecastCache
                 /\ \/ key \in DOMAIN forecastCache /\ new = hit
                    \/ new = job
  BY DEF StartForecast
<1>2. /\ new.phase = "computing" =>
            /\ new = [phase |-> "computing", series |-> new.series, horizon |-> new.horizon]
            /\ new.series \in ForecastSeries /\ new.horizon \in Horizons
      /\ new.phase = "answered" => Earned(new.series, new.horizon, Release[w], new.result)
  <2>1. CASE key \in DOMAIN forecastCache /\ new = hit
    <3> DEFINE found == forecastCache[key].result
    <3>1. /\ key.series = series /\ key.horizon = horizon /\ key.release = Release[w]
      BY DEF CacheKey
    <3>2. IsAnswer(found) /\ Earned(series, horizon, Release[w], found)
      BY <2>1, <3>1 DEF ForecastInv
    <3>3. Earned(series, horizon, Release[w], [found EXCEPT !.cacheHit = TRUE])
      <4> HIDE DEF found
      <4>1. QED  BY <3>2, HitIsEarned
    <3>4. QED  BY <2>1, <3>3 DEF WithAnswer
  <2>2. CASE new = job
    BY <2>2
  <2>3. QED  BY <1>1, <2>1, <2>2
<1> HIDE DEF key, job, hit
<1>3. DOMAIN forecasting = ForecastWorkers
  BY DEF ForecastInv
<1>4. /\ DOMAIN forecasting' = ForecastWorkers /\ forecasting'[w] = new
      /\ \A v \in ForecastWorkers : v # w => forecasting'[v] = forecasting[v]
  BY <1>1, <1>3
<1>5. QED  BY <1>1, <1>2, <1>4 DEF ForecastInv

LEMMA CompleteKeeps ==
  ASSUME ForecastInv, NEW w \in ForecastWorkers, NEW run \in ProphetRuns,
         CompleteForecast(w, run)
  PROVE  ForecastInv'
<1> DEFINE job == forecasting[w]
           selected == SelectForecaster(job.series, run)
           raw == ForecastBy(selected.evaluation.model, run, job.series, job.horizon)
           result == [points |-> Calibrate(raw, selected.evaluation.residuals),
                      evaluation |-> selected.evaluation, reason |-> selected.reason,
                      cacheHit |-> FALSE, by |-> Release[w]]
           key == CacheKey(job.series, job.horizon, Release[w])
<1>1. /\ DOMAIN forecasting = ForecastWorkers
      /\ job.phase = "computing"
      /\ job = [phase |-> "computing", series |-> job.series, horizon |-> job.horizon]
      /\ job.series \in ForecastSeries /\ job.horizon \in Horizons
  BY DEF ForecastInv, CompleteForecast
<1>2. \/ /\ forecasting' = [forecasting EXCEPT ![w].phase = "failed"]
         /\ UNCHANGED forecastCache
      \/ /\ raw # <<>>
         /\ forecasting' = [forecasting EXCEPT ![w] = WithAnswer(job, result)]
         /\ \/ forecastCache' = With(forecastCache, key,
                                     [result |-> result, expires |-> forecastClock + CacheTtl])
            \/ UNCHANGED forecastCache
  BY DEF CompleteForecast
<1>3. raw # <<>> => Earned(job.series, job.horizon, Release[w], result)
  <2> SUFFICES ASSUME raw # <<>> PROVE Earned(job.series, job.horizon, result.by, result)
    OBVIOUS
  <2>1. /\ result.points = Calibrate(raw, selected.evaluation.residuals)
        /\ result.evaluation = selected.evaluation
    OBVIOUS
  <2> HIDE DEF result
  <2>2. QED  BY <1>1, <2>1, ComputedIsEarned
<1>4. IsAnswer(result)
  BY DEF IsAnswer
<1>5. key.series = job.series /\ key.horizon = job.horizon /\ key.release = Release[w]
  BY DEF CacheKey
<1>6. CASE /\ forecasting' = [forecasting EXCEPT ![w].phase = "failed"]
           /\ UNCHANGED forecastCache
  <2>1. /\ DOMAIN forecasting' = ForecastWorkers /\ forecasting'[w].phase = "failed"
        /\ \A v \in ForecastWorkers : v # w => forecasting'[v] = forecasting[v]
    BY <1>1, <1>6
  <2>2. QED  BY <1>6, <2>1 DEF ForecastInv
<1>7. CASE /\ raw # <<>>
           /\ forecasting' = [forecasting EXCEPT ![w] = WithAnswer(job, result)]
           /\ \/ forecastCache' = With(forecastCache, key,
                                       [result |-> result, expires |-> forecastClock + CacheTtl])
              \/ UNCHANGED forecastCache
  <2> DEFINE new == WithAnswer(job, result)
  <2>1. new.phase = "answered" /\ Earned(new.series, new.horizon, Release[w], new.result)
    BY <1>3, <1>7 DEF WithAnswer
  <2> HIDE DEF new, result, raw, selected
  <2>2. /\ DOMAIN forecasting' = ForecastWorkers /\ forecasting'[w] = new
        /\ \A v \in ForecastWorkers : v # w => forecasting'[v] = forecasting[v]
    BY <1>1, <1>7 DEF new
  <2>3. \A k \in DOMAIN forecastCache' :
          /\ IsAnswer(forecastCache'[k].result)
          /\ Earned(k.series, k.horizon, k.release, forecastCache'[k].result)
    <3> TAKE k \in DOMAIN forecastCache'
    <3>1. \/ k \in DOMAIN forecastCache /\ forecastCache'[k] = forecastCache[k]
          \/ k = key /\ forecastCache'[k].result = result
      BY <1>7 DEF With
    <3>2. QED  BY <1>3, <1>4, <1>5, <1>7, <3>1 DEF ForecastInv
  <2>4. QED  BY <2>1, <2>2, <2>3 DEF ForecastInv
<1>8. QED  BY <1>2, <1>6, <1>7

LEMMA ForecastTickKeeps == ForecastInv /\ ForecastTick => ForecastInv'
<1> SUFFICES ASSUME ForecastInv, ForecastTick PROVE ForecastInv'
  OBVIOUS
<1>1. \A k \in DOMAIN forecastCache' :
        k \in DOMAIN forecastCache /\ forecastCache'[k] = forecastCache[k]
  BY DEF ForecastTick, Fresh
<1>2. UNCHANGED forecasting
  BY DEF ForecastTick
<1>3. QED  BY <1>1, <1>2 DEF ForecastInv

\* Every step.
LEMMA ForecastStep == ForecastInv /\ [ForecastNext]_forecastVars => ForecastInv'
<1> SUFFICES ASSUME ForecastInv, [ForecastNext]_forecastVars PROVE ForecastInv'
  OBVIOUS
<1>1. ASSUME NEW w \in ForecastWorkers, NEW s \in ForecastSeries, NEW h \in Horizons,
             StartForecast(w, s, h)
      PROVE  ForecastInv'
  BY <1>1, StartKeeps
<1>2. ASSUME NEW w \in ForecastWorkers, NEW run \in ProphetRuns, CompleteForecast(w, run)
      PROVE  ForecastInv'
  BY <1>2, CompleteKeeps
<1>3. CASE ForecastTick
  BY <1>3, ForecastTickKeeps
<1>4. CASE UNCHANGED forecastVars
  BY <1>4 DEF ForecastInv, forecastVars
<1>5. QED  BY <1>1, <1>2, <1>3, <1>4 DEF ForecastNext

\* Every forecast that is answered was earned (forecast/service.py, cache.py):
\* made for this series and horizon by the release that answers, with a model as
\* good in the backtest as the baselines and an interval that held.
THEOREM ForecastsAreEarned == ForecastSpec => []ForecastIsEarned
<1>1. ForecastInv => ForecastIsEarned
  BY DEF ForecastInv, ForecastIsEarned, Earned
<1>2. QED  BY <1>1, ForecastStarts, ForecastStep, PTL DEF ForecastSpec

\* No entry of the cache outlives its time, and every worker is in a phase.
ForecastTypeInv ==
  /\ ForecastInv /\ ForecastTypeOK
  /\ \A k \in DOMAIN forecastCache : forecastCache[k].expires \in Nat

LEMMA ForecastTypeStep == ForecastTypeInv /\ [ForecastNext]_forecastVars => ForecastTypeInv'
<1> SUFFICES ASSUME ForecastTypeInv, [ForecastNext]_forecastVars PROVE ForecastTypeInv'
  OBVIOUS
<1>1. ForecastInv' /\ DOMAIN forecasting = ForecastWorkers
  BY ForecastStep DEF ForecastTypeInv, ForecastInv
<1>2. ASSUME NEW w \in ForecastWorkers, NEW new,
             forecasting' = [forecasting EXCEPT ![w] = new],
             new.phase \in {"computing", "answered", "failed"}
      PROVE  \A v \in ForecastWorkers :
               forecasting'[v].phase \in {"idle", "computing", "answered", "failed"}
  BY <1>1, <1>2 DEF ForecastTypeInv, ForecastTypeOK
<1>3. ASSUME NEW w \in ForecastWorkers, NEW s \in ForecastSeries, NEW h \in Horizons,
             StartForecast(w, s, h)
      PROVE  ForecastTypeInv'
  <2>1. PICK new : /\ forecasting' = [forecasting EXCEPT ![w] = new]
                   /\ new.phase \in {"computing", "answered"}
    <3>1. \A job, result : WithAnswer(job, result).phase = "answered"
      BY DEF WithAnswer
    <3>2. [phase |-> "computing", series |-> s, horizon |-> h].phase = "computing"
      OBVIOUS
    <3>3. QED  BY <1>3, <3>1, <3>2 DEF StartForecast
  <2>2. /\ forecastJobs < MaxForecasts /\ forecastJobs' = forecastJobs + 1
        /\ UNCHANGED <<forecastCache, forecastClock>>
    BY <1>3 DEF StartForecast
  <2>3. forecastJobs' \in 0..MaxForecasts
    BY <2>2, ForecastAssumption DEF ForecastTypeInv, ForecastTypeOK
  <2>4. QED  BY <1>1, <1>2, <2>1, <2>2, <2>3 DEF ForecastTypeInv, ForecastTypeOK
<1>4. ASSUME NEW w \in ForecastWorkers, NEW run \in ProphetRuns, CompleteForecast(w, run)
      PROVE  ForecastTypeInv'
  <2> DEFINE job == forecasting[w]
             key == CacheKey(job.series, job.horizon, Release[w])
  <2>1. PICK new, result :
          /\ forecasting' = [forecasting EXCEPT ![w] = new]
          /\ new.phase \in {"answered", "failed"}
          /\ \/ UNCHANGED forecastCache
             \/ forecastCache' = With(forecastCache, key,
                                      [result |-> result, expires |-> forecastClock + CacheTtl])
    <3>1. CASE forecasting' = [forecasting EXCEPT ![w].phase = "failed"] /\ UNCHANGED forecastCache
      <4> DEFINE failed == [job EXCEPT !.phase = "failed"]
      <4>1. job = [phase |-> "computing", series |-> job.series, horizon |-> job.horizon]
        BY <1>4 DEF CompleteForecast, ForecastTypeInv, ForecastInv
      <4>2. failed.phase = "failed" /\ forecasting' = [forecasting EXCEPT ![w] = failed]
        BY <1>1, <3>1, <4>1
      <4> HIDE DEF failed
      <4>3. QED  BY <3>1, <4>2
    <3>2. CASE \E result :
                 /\ forecasting' = [forecasting EXCEPT ![w] = WithAnswer(job, result)]
                 /\ \/ UNCHANGED forecastCache
                    \/ forecastCache' = With(forecastCache, key,
                                      [result |-> result, expires |-> forecastClock + CacheTtl])
      <4>1. \A result : WithAnswer(job, result).phase = "answered"
        BY DEF WithAnswer
      <4> HIDE DEF job, key
      <4>2. QED  BY <3>2, <4>1
    <3>3. QED  BY <1>4, <3>1, <3>2, Zenon DEF CompleteForecast
  <2>2. /\ job.series \in ForecastSeries /\ job.horizon \in Horizons
        /\ UNCHANGED <<forecastClock, forecastJobs>>
    BY <1>4 DEF CompleteForecast, ForecastTypeInv, ForecastInv
  <2>3. key.series = job.series /\ key.horizon = job.horizon /\ key.release = Release[w]
    BY DEF CacheKey
  <2>4. Release[w] \in Releases
    BY DEF Releases
  <2>5. forecastClock + CacheTtl \in Nat /\ forecastClock + CacheTtl > forecastClock
    BY ForecastAssumption DEF ForecastTypeInv, ForecastTypeOK
  <2>6. ASSUME NEW k \in DOMAIN forecastCache'
        PROVE  /\ k.series \in ForecastSeries /\ k.horizon \in Horizons /\ k.release \in Releases
               /\ forecastCache'[k].expires > forecastClock /\ forecastCache'[k].expires \in Nat
    <3> HIDE DEF key, job
    <3>1. \/ k \in DOMAIN forecastCache /\ forecastCache'[k] = forecastCache[k]
          \/ /\ k = key
             /\ forecastCache'[k] = [result |-> result, expires |-> forecastClock + CacheTtl]
      BY <2>1 DEF With
    <3>2. QED  BY <2>2, <2>3, <2>4, <2>5, <3>1 DEF ForecastTypeInv, ForecastTypeOK
  <2>7. \A v \in ForecastWorkers :
          forecasting'[v].phase \in {"idle", "computing", "answered", "failed"}
    BY <1>2, <2>1
  <2>8. QED  BY <1>1, <2>2, <2>6, <2>7 DEF ForecastTypeInv, ForecastTypeOK
<1>5. CASE ForecastTick
  <2>1. \A k \in DOMAIN forecastCache' :
          /\ k \in DOMAIN forecastCache /\ forecastCache'[k] = forecastCache[k]
          /\ forecastCache[k].expires > forecastClock'
    BY <1>5 DEF ForecastTick, Fresh
  <2>2. /\ forecastClock < ForecastEnd /\ forecastClock' = forecastClock + 1
        /\ UNCHANGED <<forecasting, forecastJobs>>
    BY <1>5 DEF ForecastTick
  <2>3. forecastClock' \in 0..ForecastEnd
    BY <2>2, ForecastAssumption DEF ForecastTypeInv, ForecastTypeOK
  <2>4. QED  BY <1>1, <2>1, <2>2, <2>3 DEF ForecastTypeInv, ForecastTypeOK
<1>6. CASE UNCHANGED forecastVars
  BY <1>1, <1>6 DEF forecastVars, ForecastTypeInv, ForecastTypeOK
<1>7. QED  BY <1>3, <1>4, <1>5, <1>6 DEF ForecastNext

\* An entry of the forecast cache is one for a series, a horizon and a release that
\* exist, and is gone when its time has passed (forecast/cache.py).
THEOREM ForecastTyped == ForecastSpec => []ForecastTypeOK
<1>1. ForecastInit => ForecastTypeInv
  <2> SUFFICES ASSUME ForecastInit PROVE ForecastTypeInv
    OBVIOUS
  <2>1. ForecastInv
    BY ForecastStarts
  <2>2. /\ DOMAIN forecastCache = {} /\ forecastClock = 0 /\ forecastJobs = 0
        /\ \A w \in ForecastWorkers : forecasting[w].phase = "idle"
    BY DEF ForecastInit, ForecastIdle
  <2>3. QED  BY <2>1, <2>2, ForecastAssumption DEF ForecastTypeInv, ForecastTypeOK
<1>2. ForecastTypeInv => ForecastTypeOK
  BY DEF ForecastTypeInv
<1>3. QED  BY <1>1, <1>2, ForecastTypeStep, PTL DEF ForecastSpec

-----------------------------------------------------------------------------
\* Official data: requests, waits and publications.

Fetching ==
  [stage : {"sending"}, source : Sources, origin : Sources, attempt : 0 .. MaximumAttempts - 1,
   hops : 0 .. MaximumRedirects, sent : Nat, slept : Nat]

\* Every attempt costs a request and its redirects, and one wait.
FetchInv(w) ==
  /\ w \in Fetching
  /\ w.origin = w.source
  /\ w.sent \in 1 .. w.attempt * (MaximumRedirects + 1) + w.hops + 1
  /\ w.slept \in 0 .. w.attempt * MaximumDelay

Fits(snapshot) == snapshot.source \in Sources /\ Len(snapshot.points) \in Nat

\* Who has locked a publication holds it as it was when it was compared.
PublisherInv(p) ==
  LET w == worker[p]
  IN \/ w = Waiting
     \/ w.stage = "sending" /\ FetchInv(w)
     \/ /\ w.stage \in {"fetched", "looked", "began", "refused"}
        /\ w = [stage |-> w.stage, snapshot |-> w.snapshot, again |-> w.again]
        /\ Fits(w.snapshot)
     \/ /\ w.stage = "writing" /\ Fits(w.snapshot) /\ w.locks \in BOOLEAN
        /\ w.locks => /\ lock[w.snapshot.source] = p
                      /\ publication[w.snapshot.source] # Unpublished
                      /\ ~Shrinks(w.snapshot)

\* A publication points to a stored snapshot.
StoreInv ==
  /\ DOMAIN publication = Sources /\ DOMAIN lock = Sources
  /\ \A s \in Sources : publication[s] # Unpublished => publication[s] \in DOMAIN snapshots
  /\ \A id \in DOMAIN snapshots : Len(snapshots[id].points) \in Nat

OfficialInv ==
  /\ DOMAIN worker = Publishers
  /\ \A p \in Publishers : PublisherInv(p)
  /\ StoreInv

-----------------------------------------------------------------------------
\* A sorted table has the rows it was sorted from, none twice and none before one
\* that precedes it.
Placeable(points, places) ==
  \A i \in places : points[i].series \in Int /\ points[i].period \in Int

SortedFrom(rows, points, places) ==
  /\ Len(rows) = Cardinality(places) /\ Len(rows) \in Nat /\ DOMAIN rows = 1 .. Len(rows)
  /\ \A n \in DOMAIN rows : \E i \in places : rows[n] = points[i]
  /\ \A m, n \in DOMAIN rows : m < n =>
       \E i, j \in places : /\ i # j /\ rows[m] = points[i] /\ rows[n] = points[j]
                             /\ ~Precedes(rows[n], rows[m])

LEMMA SortedRows ==
  ASSUME NEW points, NEW places \in SUBSET Nat, IsFiniteSet(places), Placeable(points, places)
  PROVE  SortedFrom(SortedAt(points, places), points, places)
<1> DEFINE size == Cardinality(places)
           order == {pair \in places \X places : Earlier(points, pair[1], pair[2])}
           Ahead(c) == {j \in places : Earlier(points, j, c)}
           rows == SortedAt(points, places)
           At(n) == CHOOSE i \in places : Cardinality(Ahead(i)) = n - 1
<1>1. /\ \A a, b, c \in places : Earlier(points, a, b) /\ Earlier(points, b, c) => Earlier(points, a, c)
      /\ \A a \in places : ~Earlier(points, a, a)
      /\ \A a, b \in places : a = b \/ Earlier(points, a, b) \/ Earlier(points, b, a)
  BY DEF Earlier, Precedes, Placeable
<1>2. /\ order \in SUBSET (places \X places)
      /\ \A a, b \in places : <<a, b>> \in order <=> Earlier(points, a, b)
  OBVIOUS
<1>3. \A c \in places : Ahead(c) = BeforeIn(places, order, c)
  BY <1>2 DEF BeforeIn
<1> HIDE DEF order
<1>4. /\ size \in Nat
      /\ \A c, d \in places : <<c, d>> \in order => Cardinality(Ahead(c)) < Cardinality(Ahead(d))
      /\ \A n \in 0 .. (size - 1) : \E c \in places : Cardinality(Ahead(c)) = n
  <2> HIDE DEF Ahead, size
  <2>1. /\ Cardinality(places) \in Nat
        /\ \A c, d \in places : <<c, d>> \in order =>
             Cardinality(BeforeIn(places, order, c)) < Cardinality(BeforeIn(places, order, d))
        /\ \A n \in 0 .. (Cardinality(places) - 1) :
             \E c \in places : Cardinality(BeforeIn(places, order, c)) = n
    BY <1>1, <1>2, RanksAreTaken
  <2>2. QED  BY <1>3, <2>1 DEF size
<1>6. rows = [n \in 1 .. size |-> points[At(n)]]
  BY DEF SortedAt
<1> HIDE DEF Ahead, rows, size
<1>7. \A n \in 1 .. size : At(n) \in places /\ Cardinality(Ahead(At(n))) = n - 1
  <2> SUFFICES ASSUME NEW n \in 1 .. size
               PROVE  At(n) \in places /\ Cardinality(Ahead(At(n))) = n - 1
    OBVIOUS
  <2>1. n - 1 \in 0 .. (size - 1)
    BY <1>4
  <2>2. \E i \in places : Cardinality(Ahead(i)) = n - 1
    BY <1>4, <2>1
  <2>3. QED  BY <2>2
<1>8. DOMAIN rows = 1 .. size /\ \A n \in 1 .. size : rows[n] = points[At(n)]
  BY <1>6
<1>9. Len(rows) = size
  <2>1. rows = [n \in 1 .. size |-> rows[n]]
    BY <1>6
  <2>2. QED  BY <1>4, <2>1, LenOf
<1> HIDE DEF At
<1>10. ASSUME NEW m \in 1 .. size, NEW n \in 1 .. size, m < n
       PROVE  At(m) # At(n) /\ ~Precedes(points[At(n)], points[At(m)])
  <2> DEFINE i == At(m)  j == At(n)
  <2>1. /\ i \in places /\ j \in places
        /\ Cardinality(Ahead(i)) = m - 1 /\ Cardinality(Ahead(j)) = n - 1
    BY <1>7
  <2> HIDE DEF i, j
  <2>2. i # j
    BY <1>10, <2>1
  <2>3. ~Earlier(points, j, i)
    <3>1. Earlier(points, j, i) => Cardinality(Ahead(j)) < Cardinality(Ahead(i))
      BY <1>2, <1>4, <2>1
    <3>2. QED  BY <1>4, <1>10, <2>1, <3>1
  <2>4. ~Precedes(points[j], points[i])
    BY <2>3 DEF Earlier
  <2>5. QED  BY <2>2, <2>4 DEF i, j
<1>11. \A n \in DOMAIN rows : \E i \in places : rows[n] = points[i]
  BY <1>7, <1>8
<1>12. \A m, n \in DOMAIN rows : m < n =>
         \E i, j \in places : /\ i # j /\ rows[m] = points[i] /\ rows[n] = points[j]
                               /\ ~Precedes(rows[n], rows[m])
  <2> SUFFICES ASSUME NEW m \in DOMAIN rows, NEW n \in DOMAIN rows, m < n
               PROVE  /\ At(m) \in places /\ At(n) \in places
                      /\ At(m) # At(n) /\ rows[m] = points[At(m)] /\ rows[n] = points[At(n)]
                      /\ ~Precedes(rows[n], rows[m])
    OBVIOUS
  <2>1. QED  BY <1>7, <1>8, <1>10
<1>13. QED  BY <1>4, <1>8, <1>9, <1>11, <1>12 DEF SortedFrom, rows, size

\* What is parsed from a document is a finite table of the source asked, whose
\* rows are numbers.
InFigures(points) ==
  \A n \in DOMAIN points :
    /\ points[n].series \in Int /\ points[n].period \in Int /\ points[n].value \in Int

LEMMA SnapshotFits ==
  ASSUME NEW response \in Responses, response.kind = "answer", NEW document \in response.document,
         document.source \in Sources, Parses(document)
  PROVE  /\ Fits(Snapshot(document))
         /\ DOMAIN Snapshot(document).points = 1 .. Len(Snapshot(document).points)
         /\ InFigures(Snapshot(document).points)
<1> DEFINE n == Len(document.rows)
           cells == [i \in DOMAIN document.rows |->
                       [series |-> document.rows[i].series, period |-> document.rows[i].period,
                        value |-> document.rows[i].value.number]]
           places == 1 .. n
           points == SortedAt(cells, places)
<1>1. n \in Nat /\ DOMAIN document.rows = places
  BY FetchAssumption
<1>2. \A i \in places : /\ cells[i].series \in Int /\ cells[i].period \in Int
                         /\ cells[i].value \in Int
  <2>1. \A i \in DOMAIN document.rows : IsDecimal(document.rows[i].value)
    BY DEF Parses, TuikParses, EvdsParses
  <2>2. \A i \in DOMAIN document.rows :
          /\ document.rows[i].series \in Int /\ document.rows[i].period \in Int
          /\ document.rows[i].value.number \in Int
    BY <2>1, TableAssumption
  <2>3. QED  BY <1>1, <2>2
<1>3. DOMAIN cells = places
  BY <1>1
<1>4. Snapshot(document).points = points /\ Snapshot(document).source = document.source
  BY <1>3 DEF Snapshot, Sorted
<1> HIDE DEF cells, n
<1>5. places \in SUBSET Nat /\ IsFiniteSet(places)
  <2>1. 1 \in Int /\ n \in Int
    BY <1>1
  <2>2. IsFiniteSet(1 .. n)
    BY <2>1, FS_Interval
  <2>3. QED  BY <1>1, <2>2
<1> HIDE DEF places, points
<1>6. Placeable(cells, places)
  BY <1>2 DEF Placeable
<1>7. /\ Len(points) \in Nat /\ DOMAIN points = 1 .. Len(points)
      /\ \A m \in DOMAIN points : \E i \in places : points[m] = cells[i]
  <2>1. SortedFrom(points, cells, places)
    BY <1>5, <1>6, SortedRows DEF points
  <2>2. QED  BY <2>1 DEF SortedFrom
<1>8. InFigures(points)
  BY <1>2, <1>7 DEF InFigures
<1>9. QED  BY <1>4, <1>7, <1>8 DEF Fits

\* A pause is never negative and never above the limit.
LEMMA DelayBound ==
  ASSUME NEW response \in Responses, response.kind = "answer", NEW attempt \in Nat
  PROVE  RetryDelay(response, attempt) \in 0 .. MaximumDelay
<1> DEFINE wished == IF response.retry_after # {} THEN The(response.retry_after) ELSE 2 ^ attempt
<1>1. 2 ^ attempt \in Int
  BY Z3
<1>2. response.retry_after # {} => The(response.retry_after) \in Int
  BY FetchAssumption DEF The
<1>3. wished \in Int
  BY <1>1, <1>2
<1> HIDE DEF wished
<1>4. RetryDelay(response, attempt) =
        IF wished > MaximumDelay THEN MaximumDelay ELSE IF wished < 0 THEN 0 ELSE wished
  BY DEF RetryDelay, wished
<1>5. QED  BY <1>3, <1>4, FetchAssumption

-----------------------------------------------------------------------------
\* A publisher moves; the tables stay.
LEMMA MoveKeeps ==
  ASSUME OfficialInv, NEW p \in Publishers, NEW w, worker' = [worker EXCEPT ![p] = w],
         UNCHANGED <<snapshots, publication>>, DOMAIN lock' = Sources,
         \A q \in Publishers \ {p}, s \in Sources : lock[s] = q => lock'[s] = q,
         PublisherInv(p)'
  PROVE  OfficialInv'
<1>1. ASSUME NEW q \in Publishers, q # p PROVE PublisherInv(q)'
  <2>1. worker'[q] = worker[q] /\ PublisherInv(q)
    BY <1>1 DEF OfficialInv
  <2>2. QED  BY <1>1, <2>1 DEF PublisherInv, Fits, Shrinks, Published
<1>2. DOMAIN worker' = Publishers
  BY DEF OfficialInv
<1>3. QED  BY <1>1, <1>2 DEF OfficialInv, StoreInv

\* A publisher that gives up.
LEMMA WaitKeeps ==
  ASSUME OfficialInv, NEW p \in Publishers, worker' = [worker EXCEPT ![p] = Waiting],
         UNCHANGED <<snapshots, publication>>, DOMAIN lock' = Sources,
         \A q \in Publishers \ {p}, s \in Sources : lock[s] = q => lock'[s] = q
  PROVE  OfficialInv'
<1>1. PublisherInv(p)'
  BY DEF OfficialInv, PublisherInv
<1>2. QED  BY <1>1, MoveKeeps

\* Who releases its locks takes nobody else's.
LEMMA ReleasedKeeps ==
  ASSUME NEW p \in Publishers, lock' = Released(p)
  PROVE  /\ DOMAIN lock' = Sources
         /\ \A q \in Publishers \ {p}, s \in Sources : lock[s] = q => lock'[s] = q
BY DEF Released

\* The redirects of a fetch, its retries and what it parsed.
LEMMA ReceiveKeeps ==
  ASSUME OfficialInv, NEW p \in Publishers, NEW response \in Responses, Receive(p, response)
  PROVE  OfficialInv'
<1> DEFINE w == worker[p]
           per == MaximumRedirects + 1
<1>1. FetchInv(w) /\ w.stage = "sending"
  <2>1. w.stage = "sending" /\ PublisherInv(p)
    BY DEF Receive, OfficialInv
  <2>2. QED  BY <2>1 DEF PublisherInv, Waiting
<1>2. UNCHANGED <<snapshots, publication, lock>> /\ DOMAIN lock' = Sources /\ p \in DOMAIN worker
  BY DEF Receive, OfficialInv, StoreInv
<1>3. /\ w \in Fetching /\ w.source \in Sources /\ w.origin = w.source
      /\ w.attempt \in Nat /\ w.attempt <= MaximumAttempts - 1
      /\ w.hops \in Nat /\ w.hops <= MaximumRedirects
      /\ w.sent \in Nat /\ w.slept \in Nat
  BY <1>1, FetchAssumption DEF FetchInv, Fetching
<1>4. per \in Nat /\ MaximumDelay \in Nat /\ MaximumRedirects = per - 1 /\ MaximumAttempts \in Nat
  BY FetchAssumption
<1>5. /\ w.sent \in 1 .. w.attempt * per + w.hops + 1
      /\ w.slept \in 0 .. w.attempt * MaximumDelay
  BY <1>1 DEF FetchInv
<1> HIDE DEF per
<1>6. ASSUME NEW next, worker' = [worker EXCEPT ![p] = next], next.stage = "sending", FetchInv(next)
      PROVE  OfficialInv'
  <2>1. worker'[p] = next
    BY <1>2, <1>6
  <2>2. PublisherInv(p)'
    BY <1>6, <2>1 DEF PublisherInv, FetchInv
  <2>3. QED  BY <1>2, <1>6, <2>2, MoveKeeps
<1>7. CASE worker' = [worker EXCEPT ![p] = Waiting]
  BY <1>2, <1>7, WaitKeeps
<1>8. CASE Redirected(p, response) /\ response.origin = w.source /\ w.hops < MaximumRedirects
  <2> DEFINE hops == w.hops + 1  sent == w.sent + 1  origin == response.origin
             next == [w EXCEPT !.hops = hops, !.sent = sent, !.origin = origin]
  <2>1. worker' = [worker EXCEPT ![p] = next]
    BY <1>8 DEF Redirected
  <2>2. /\ hops \in 0 .. MaximumRedirects /\ sent \in Nat /\ origin \in Sources /\ origin = w.source
    BY <1>3, <1>4, <1>8
  <2>3. sent \in 1 .. w.attempt * per + hops + 1
    <3>1. w.attempt * per \in Nat
      BY <1>3, <1>4
    <3>2. QED  BY <1>3, <1>5, <3>1
  <2> HIDE DEF hops, sent, origin
  <2>4. /\ next \in Fetching /\ next.hops = hops /\ next.sent = sent /\ next.origin = origin
        /\ next.source = w.source /\ next.attempt = w.attempt /\ next.slept = w.slept
        /\ next.stage = "sending"
    BY <1>1, <1>3, <2>2 DEF Fetching
  <2> HIDE DEF next
  <2>5. FetchInv(next)
    BY <1>5, <2>2, <2>3, <2>4 DEF FetchInv, per
  <2>6. QED  BY <1>6, <2>1, <2>4, <2>5
<1>9. CASE Answered(p, response) /\ Bounded(response) /\ Busy(response) /\ w.attempt < MaximumAttempts - 1
  <2> DEFINE attempt == w.attempt + 1  sent == w.sent + 1  origin == w.source
             slept == w.slept + RetryDelay(response, w.attempt)
             next == [w EXCEPT !.attempt = attempt, !.hops = 0, !.sent = sent, !.origin = origin,
                               !.slept = slept]
  <2>1. worker' = [worker EXCEPT ![p] = next]
    <3> DEFINE written == [w EXCEPT !.attempt = @ + 1, !.hops = 0, !.sent = @ + 1, !.origin = w.source,
                                    !.slept = @ + RetryDelay(response, w.attempt)]
    <3>1. ~Decoded(response)
      BY <1>9 DEF Busy, Decoded
    <3>2. worker' = [worker EXCEPT ![p] = written]
      BY <1>9, <3>1, Zenon DEF Answered
    <3>3. written = next
      BY Zenon
    <3>4. QED  BY <3>2, <3>3
  <2>2. RetryDelay(response, w.attempt) \in 0 .. MaximumDelay
    BY <1>3, <1>9, DelayBound DEF Answered
  <2>3. attempt \in 0 .. MaximumAttempts - 1 /\ sent \in Nat /\ origin \in Sources /\ slept \in Nat
    BY <1>3, <1>4, <1>9, <2>2
  <2>4. /\ w.attempt * per \in Nat /\ attempt * per = w.attempt * per + per
        /\ w.attempt * MaximumDelay \in Nat
        /\ attempt * MaximumDelay = w.attempt * MaximumDelay + MaximumDelay
    BY <1>3, <1>4
  <2>5. sent \in 1 .. attempt * per + 0 + 1
    <3> HIDE DEF attempt
    <3>1. QED  BY <1>3, <1>4, <1>5, <2>4
  <2>6. slept \in 0 .. attempt * MaximumDelay
    <3> DEFINE delay == RetryDelay(response, w.attempt)
    <3> HIDE DEF attempt, delay
    <3>1. slept = w.slept + delay /\ delay \in 0 .. MaximumDelay
      BY <2>2 DEF delay
    <3>2. QED  BY <1>3, <1>4, <1>5, <2>4, <3>1
  <2> HIDE DEF attempt, sent, origin, slept
  <2>7. 0 \in 0 .. MaximumRedirects
    BY FetchAssumption
  <2>8. /\ next \in Fetching /\ next.hops = 0 /\ next.sent = sent /\ next.origin = origin
        /\ next.source = w.source /\ next.attempt = attempt /\ next.slept = slept
        /\ next.stage = "sending"
    BY <1>1, <1>3, <2>3, <2>7 DEF Fetching
  <2> HIDE DEF next
  <2>9. FetchInv(next)
    BY <2>5, <2>6, <2>8 DEF FetchInv, per, origin
  <2>10. QED  BY <1>6, <2>1, <2>8, <2>9
<1>10. CASE /\ Answered(p, response)
            /\ Bounded(response) /\ Decoded(response) /\ Parses(The(response.document))
            /\ ~(Bounded(response) /\ Busy(response) /\ w.attempt < MaximumAttempts - 1)
  <2> DEFINE document == The(response.document)
             next == [stage |-> "fetched", snapshot |-> Snapshot(document), again |-> FALSE]
  <2>1. document \in response.document
    BY <1>10 DEF Decoded, The
  <2>2. document.source \in Sources /\ response.kind = "answer"
    BY <1>3, <1>10, <2>1 DEF Receive, Answered
  <2>3. Fits(Snapshot(document))
    BY <1>10, <2>1, <2>2, SnapshotFits
  <2> HIDE DEF document
  <2>4. worker'[p] = next /\ worker' = [worker EXCEPT ![p] = next]
    BY <1>2, <1>10 DEF Answered, document
  <2>5. PublisherInv(p)'
    BY <2>3, <2>4 DEF PublisherInv, Fits
  <2>6. QED  BY <1>2, <2>4, <2>5, MoveKeeps
<1>11. QED
  BY <1>7, <1>8, <1>9, <1>10 DEF Receive, Redirected, Answered

\* The looks before the transaction, and the second attempt after a conflict.
LEMMA LookKeeps ==
  ASSUME OfficialInv, NEW p \in Publishers, Look(p) \/ Begin(p) \/ Recover(p)
  PROVE  OfficialInv'
<1> DEFINE w == worker[p]
<1>1. /\ UNCHANGED <<snapshots, publication, lock>> /\ DOMAIN lock' = Sources /\ p \in DOMAIN worker
      /\ \A q \in Publishers \ {p}, s \in Sources : lock[s] = q => lock'[s] = q
  BY DEF Look, Begin, Recover, OfficialInv, StoreInv
<1>2. CASE worker' = [worker EXCEPT ![p] = Waiting]
  BY <1>1, <1>2, WaitKeeps
<1>3. ASSUME NEW stage \in {"looked", "began"}, worker' = [worker EXCEPT ![p] = [w EXCEPT !.stage = stage]],
             w.stage \in {"fetched", "looked", "refused"}
      PROVE  OfficialInv'
  <2> DEFINE next == [w EXCEPT !.stage = stage]
  <2>1. /\ w = [stage |-> w.stage, snapshot |-> w.snapshot, again |-> w.again] /\ Fits(w.snapshot)
    <3>1. PublisherInv(p)
      BY DEF OfficialInv
    <3>2. QED  BY <1>3, <3>1 DEF PublisherInv, Waiting
  <2>2. next = [stage |-> stage, snapshot |-> w.snapshot, again |-> w.again]
    BY <2>1
  <2>3. worker'[p] = next
    BY <1>1, <1>3
  <2> HIDE DEF next
  <2>4. PublisherInv(p)'
    BY <1>3, <2>1, <2>2, <2>3 DEF PublisherInv, Fits
  <2>5. QED  BY <1>1, <1>3, <2>4, MoveKeeps DEF next
<1>4. QED
  BY <1>2, <1>3 DEF Look, Begin, Recover

\* A publisher that finds the publication large enough locks it, if there is one.
LEMMA CompareKeeps ==
  ASSUME OfficialInv, NEW p \in Publishers, Compare(p)
  PROVE  OfficialInv'
<1> DEFINE w == worker[p]
           s == w.snapshot
           locks == publication[s.source] # Unpublished
           next == [stage |-> "writing", snapshot |-> s, again |-> w.again, locks |-> locks]
<1>1. Fits(s)
  <2>1. PublisherInv(p) /\ w.stage = "began"
    BY DEF OfficialInv, Compare
  <2>2. QED  BY <2>1 DEF PublisherInv, Waiting
<1>2. /\ UNCHANGED <<snapshots, publication>> /\ p \in DOMAIN worker /\ DOMAIN lock = Sources
      /\ s.source \in Sources
  BY <1>1 DEF Compare, OfficialInv, StoreInv, Fits
<1>3. /\ DOMAIN lock' = Sources
      /\ \A q \in Publishers \ {p}, t \in Sources : lock[t] = q => lock'[t] = q
  BY <1>2, FetchAssumption DEF Compare
<1>4. CASE Shrinks(s)
  <2>1. worker' = [worker EXCEPT ![p] = Waiting]
    BY <1>4 DEF Compare
  <2>2. QED  BY <1>2, <1>3, <2>1, WaitKeeps
<1>5. CASE ~Shrinks(s)
  <2>1. worker' = [worker EXCEPT ![p] = next] /\ (locks => lock'[s.source] = p)
    BY <1>2, <1>5 DEF Compare
  <2>2. worker'[p] = next
    BY <1>2, <2>1
  <2>3. ~Shrinks(s)'
    BY <1>2, <1>5, <2>2 DEF Shrinks, Published
  <2>4. PublisherInv(p)'
    <3>1. worker'[p].stage = "writing" /\ worker'[p].snapshot = s /\ worker'[p].locks = locks
      BY <2>2
    <3>2. locks \in BOOLEAN /\ (locks => publication'[s.source] # Unpublished)
      BY <1>2
    <3> HIDE DEF locks, next
    <3>3. QED  BY <1>1, <2>1, <2>3, <3>1, <3>2 DEF PublisherInv, Fits
  <2>5. QED  BY <1>2, <1>3, <2>1, <2>4, MoveKeeps
<1>6. QED  BY <1>4, <1>5

\* What a publication that commits does to the tables.
LEMMA CommitWrites ==
  ASSUME OfficialInv, NEW p \in Publishers, Commit(p), ~Conflicts(p)
  PROVE  LET s == worker[p].snapshot
         IN /\ Fits(s) /\ Identity(s) \notin DOMAIN snapshots
            /\ publication' = [publication EXCEPT ![s.source] = Identity(s)]
            /\ DOMAIN snapshots' = DOMAIN snapshots \union {Identity(s)}
            /\ snapshots'[Identity(s)].points = s.points
            /\ \A id \in DOMAIN snapshots : snapshots'[id] = snapshots[id]
            /\ publication[s.source] # Unpublished =>
                 lock[s.source] = p /\ ~Shrinks(s)
<1>1. PublisherInv(p) /\ worker[p].stage = "writing"
  BY DEF OfficialInv, Commit
<1>2. /\ Fits(worker[p].snapshot) /\ worker[p].locks \in BOOLEAN
      /\ worker[p].locks => /\ lock[worker[p].snapshot.source] = p
                            /\ ~Shrinks(worker[p].snapshot)
  BY <1>1 DEF PublisherInv, Waiting
<1>3. QED  BY <1>2 DEF Commit, Conflicts

\* The writes commit, or a unique key refuses them.
LEMMA CommitKeeps ==
  ASSUME OfficialInv, NEW p \in Publishers, Commit(p)
  PROVE  OfficialInv'
<1> DEFINE s == worker[p].snapshot
<1>1. /\ DOMAIN lock' = Sources /\ p \in DOMAIN worker
      /\ \A q \in Publishers \ {p}, t \in Sources : lock[t] = q => lock'[t] = q
  BY ReleasedKeeps DEF Commit, OfficialInv
<1>2. CASE Conflicts(p)
  <2>1. CASE worker' = [worker EXCEPT ![p] = Waiting]
    BY <1>1, <1>2, <2>1, WaitKeeps DEF Commit
  <2>2. CASE worker' = [worker EXCEPT ![p] = [stage |-> "refused", snapshot |-> s, again |-> TRUE]]
    <3>1. Fits(s)
      <4>1. PublisherInv(p) /\ worker[p].stage = "writing"
        BY DEF OfficialInv, Commit
      <4>2. QED  BY <4>1 DEF PublisherInv, Waiting
    <3>2. worker'[p] = [stage |-> "refused", snapshot |-> s, again |-> TRUE]
      BY <1>1, <2>2
    <3>3. PublisherInv(p)'
      BY <3>1, <3>2 DEF PublisherInv, Fits
    <3>4. QED  BY <1>1, <1>2, <2>2, <3>3, MoveKeeps DEF Commit
  <2>3. QED  BY <1>2, <2>1, <2>2 DEF Commit
<1>3. CASE ~Conflicts(p)
  <2>1. /\ Fits(s) /\ Identity(s) \notin DOMAIN snapshots
        /\ publication' = [publication EXCEPT ![s.source] = Identity(s)]
        /\ DOMAIN snapshots' = DOMAIN snapshots \union {Identity(s)}
        /\ snapshots'[Identity(s)].points = s.points
        /\ \A id \in DOMAIN snapshots : snapshots'[id] = snapshots[id]
        /\ publication[s.source] # Unpublished => lock[s.source] = p
        /\ worker' = [worker EXCEPT ![p] = Waiting]
    BY <1>3, CommitWrites DEF Commit
  <2>2. StoreInv'
    BY <1>1, <2>1 DEF OfficialInv, StoreInv, Fits
  <2>3. ASSUME NEW q \in Publishers PROVE PublisherInv(q)'
    <3>1. CASE q = p
      BY <1>1, <2>1, <3>1 DEF PublisherInv
    <3>2. CASE q # p
      <4>1. worker'[q] = worker[q] /\ PublisherInv(q)
        BY <2>1, <3>2 DEF OfficialInv
      <4>2. ASSUME worker[q].stage = "writing", worker[q].locks, worker[q] # Waiting,
                   Fits(worker[q].snapshot), lock[worker[q].snapshot.source] = q,
                   publication[worker[q].snapshot.source] # Unpublished, ~Shrinks(worker[q].snapshot)
            PROVE  /\ publication'[worker[q].snapshot.source] = publication[worker[q].snapshot.source]
                   /\ lock'[worker[q].snapshot.source] = q
                   /\ ~Shrinks(worker[q].snapshot)'
        <5>1. worker[q].snapshot.source \in Sources /\ worker[q].snapshot.source # s.source
          BY <2>1, <3>2, <4>2 DEF Fits
        <5>2. publication'[worker[q].snapshot.source] = publication[worker[q].snapshot.source]
          BY <2>1, <5>1
        <5>3. publication[worker[q].snapshot.source] \in DOMAIN snapshots
          BY <4>2, <5>1 DEF OfficialInv, StoreInv
        <5>4. snapshots'[publication'[worker[q].snapshot.source]] =
                snapshots[publication[worker[q].snapshot.source]]
          BY <2>1, <5>2, <5>3
        <5>5. QED  BY <1>1, <3>2, <4>1, <4>2, <5>1, <5>2, <5>4 DEF Shrinks, Published
      <4>3. QED  BY <4>1, <4>2 DEF PublisherInv, Fits
    <3>3. QED  BY <3>1, <3>2
  <2>4. QED  BY <2>1, <2>2, <2>3 DEF OfficialInv
<1>4. QED  BY <1>2, <1>3

\* Every step.
LEMMA OfficialStarts == OfficialInit => OfficialInv
BY DEF OfficialInit, OfficialInv, PublisherInv, StoreInv

LEMMA OfficialStep ==
  ASSUME OfficialInv, [OfficialNext]_officialVars
  PROVE  OfficialInv'
<1>1. ASSUME NEW p \in Publishers, NEW source \in Sources, StartFetch(p, source)
      PROVE  OfficialInv'
  <2> DEFINE next == [stage |-> "sending", source |-> source, origin |-> source,
                      attempt |-> 0, hops |-> 0, sent |-> 1, slept |-> 0]
  <2>1. /\ worker' = [worker EXCEPT ![p] = next] /\ worker'[p] = next
        /\ UNCHANGED <<snapshots, publication, lock>> /\ DOMAIN lock' = Sources
        /\ \A q \in Publishers \ {p}, s \in Sources : lock[s] = q => lock'[s] = q
    BY <1>1 DEF StartFetch, OfficialInv, StoreInv
  <2>2. FetchInv(next)
    <3>1. /\ 0 \in 0 .. MaximumAttempts - 1 /\ 0 \in 0 .. MaximumRedirects
          /\ 0 * (MaximumRedirects + 1) = 0 /\ 0 * MaximumDelay = 0
      BY FetchAssumption
    <3>2. QED  BY <3>1 DEF FetchInv, Fetching
  <2>3. next.stage = "sending"
    OBVIOUS
  <2> HIDE DEF next
  <2>4. PublisherInv(p)'
    BY <2>1, <2>2, <2>3 DEF PublisherInv, FetchInv
  <2>5. QED  BY <2>1, <2>4, MoveKeeps
<1>2. ASSUME NEW p \in Publishers, NEW response \in Responses, Receive(p, response)
      PROVE  OfficialInv'
  BY <1>2, ReceiveKeeps
<1>3. ASSUME NEW p \in Publishers, Look(p) \/ Begin(p) \/ Recover(p) PROVE OfficialInv'
  BY <1>3, LookKeeps
<1>4. ASSUME NEW p \in Publishers, Compare(p) PROVE OfficialInv'
  BY <1>4, CompareKeeps
<1>5. ASSUME NEW p \in Publishers, Commit(p) PROVE OfficialInv'
  BY <1>5, CommitKeeps
<1>6. ASSUME NEW p \in Publishers, Abandon(p) PROVE OfficialInv'
  <2>1. /\ worker' = [worker EXCEPT ![p] = Waiting] /\ UNCHANGED <<snapshots, publication>>
        /\ lock' = Released(p)
    BY <1>6 DEF Abandon
  <2>2. QED  BY <2>1, ReleasedKeeps, WaitKeeps
<1>7. CASE ServeInflation \/ UNCHANGED officialVars
  <2>1. UNCHANGED <<worker, snapshots, publication, lock>>
    BY <1>7 DEF ServeInflation, officialVars
  <2>2. QED  BY <2>1 DEF OfficialInv, PublisherInv, StoreInv, Fits, Shrinks, Published
<1>8. QED
  BY <1>1, <1>2, <1>3, <1>4, <1>5, <1>6, <1>7 DEF OfficialNext

\* The inductive invariant of fetches and publications.
THEOREM OfficialInvariant == OfficialSpec => []OfficialInv
BY OfficialStarts, OfficialStep, PTL DEF OfficialSpec

\* However a provider redirects, fails and asks for patience, a fetch ends after
\* a bounded number of requests and waits and stays with its origin
\* (OfficialHttpClient._get_with_retries, _send).
THEOREM ProvidersAreSpared == OfficialSpec => []RequestsAreBounded
<1>1. ASSUME OfficialInv, NEW p \in Publishers, worker[p].stage = "sending"
      PROVE  /\ worker[p].sent \in 1 .. (MaximumRedirects + 1) * MaximumAttempts
             /\ worker[p].slept \in 0 .. (MaximumAttempts - 1) * MaximumDelay
             /\ worker[p].origin = worker[p].source
  <2> DEFINE w == worker[p]  per == MaximumRedirects + 1
  <2>1. FetchInv(w)
    BY <1>1 DEF OfficialInv, PublisherInv, Waiting
  <2>2. /\ w.attempt \in 0 .. MaximumAttempts - 1 /\ w.hops \in 0 .. MaximumRedirects
        /\ w.sent \in 1 .. w.attempt * per + w.hops + 1
        /\ w.slept \in 0 .. w.attempt * MaximumDelay /\ w.origin = w.source
    BY <2>1 DEF FetchInv, Fetching
  <2>3. /\ per \in Nat /\ MaximumRedirects = per - 1 /\ MaximumDelay \in Nat
        /\ MaximumAttempts - 1 \in Nat /\ w.attempt \in Nat /\ w.attempt <= MaximumAttempts - 1
    BY <2>2, FetchAssumption
  <2> DEFINE last == MaximumAttempts - 1
  <2>4. (MaximumRedirects + 1) * MaximumAttempts = last * per + per
    <3>1. last \in Nat /\ MaximumAttempts = last + 1 /\ per = MaximumRedirects + 1
      BY <2>3, FetchAssumption
    <3> HIDE DEF per, last
    <3>2. per * (last + 1) = last * per + per
      BY <2>3, <3>1
    <3>3. QED  BY <3>1, <3>2
  <2> HIDE DEF per, last
  <2>5. w.attempt * per <= last * per /\ w.attempt * MaximumDelay <= last * MaximumDelay
    BY <2>3, ProductsGrow DEF last
  <2>6. /\ w.attempt * per \in Nat /\ last * per \in Nat
        /\ w.attempt * MaximumDelay \in Nat /\ last * MaximumDelay \in Nat
    BY <2>3 DEF last
  <2>7. w.sent \in 1 .. last * per + per
    BY <2>2, <2>3, <2>5, <2>6
  <2>8. w.slept \in 0 .. last * MaximumDelay
    BY <2>2, <2>5, <2>6
  <2>9. QED  BY <2>2, <2>4, <2>7, <2>8 DEF last
<1>2. OfficialInv => RequestsAreBounded
  BY <1>1 DEF RequestsAreBounded
<1>3. QED  BY <1>2, OfficialInvariant, PTL

\* However publishers race, whoever writes compared with the publication it
\* replaces: it holds the row lock, or a unique key refuses it (_publish_once).
THEOREM PublicationsKeepTheirPoints == OfficialSpec => NoSharpShrink
<1>1. ASSUME OfficialInv, [OfficialNext]_officialVars, publication' # publication,
             NEW s \in Sources, publication[s] # Unpublished
      PROVE  2 * Len(snapshots'[publication'[s]].points) >= Len(Published(s).points)
  <2>1. PICK p \in Publishers : Commit(p) /\ ~Conflicts(p)
    BY <1>1 DEF OfficialNext, StartFetch, Receive, Look, Begin, Compare, Commit, Recover, Abandon,
                ServeInflation, officialVars
  <2> DEFINE new == worker[p].snapshot
  <2>2. /\ Fits(new)
        /\ publication' = [publication EXCEPT ![new.source] = Identity(new)]
        /\ snapshots'[Identity(new)].points = new.points
        /\ \A id \in DOMAIN snapshots : snapshots'[id] = snapshots[id]
        /\ publication[new.source] # Unpublished => ~Shrinks(new)
    BY <1>1, <2>1, CommitWrites
  <2> HIDE DEF new
  <2>3. /\ publication[s] \in DOMAIN snapshots /\ Len(Published(s).points) \in Nat
        /\ DOMAIN publication = Sources
    BY <1>1 DEF OfficialInv, StoreInv, Published
  <2>4. CASE s = new.source
    <3>1. publication'[s] = Identity(new) /\ ~Shrinks(new) /\ Len(new.points) \in Nat
      BY <1>1, <2>2, <2>3, <2>4 DEF Fits
    <3>2. ~(Len(new.points) * 2 < Len(Published(s).points))
      BY <1>1, <2>4, <3>1 DEF Shrinks
    <3>3. QED  BY <2>2, <2>3, <3>1, <3>2
  <2>5. CASE s # new.source
    <3>1. publication'[s] = publication[s] /\ snapshots'[publication'[s]] = snapshots[publication[s]]
      BY <2>2, <2>3, <2>5
    <3>2. QED  BY <2>3, <3>1 DEF Published
  <2>6. QED  BY <2>4, <2>5
<1>2. OfficialInv /\ [OfficialNext]_officialVars =>
        [\A s \in Sources : publication[s] # Unpublished =>
           2 * Len(snapshots'[publication'[s]].points) >= Len(Published(s).points)]_publication
  BY <1>1
<1>3. QED  BY <1>2, OfficialInvariant, PTL DEF OfficialSpec, NoSharpShrink

-----------------------------------------------------------------------------
\* What is stored and served.

PointTable(points) ==
  Len(points) \in Nat /\ DOMAIN points = 1 .. Len(points) /\ InFigures(points)
Unrepeated(points) ==
  \A m, n \in DOMAIN points : m # n =>
    points[m].series # points[n].series \/ points[m].period # points[n].period

ServedInv ==
  served.status = "ok" =>
    /\ served.previous.series = served.latest.series
    /\ served.previous.period < served.latest.period
    /\ served.previous.value > 0

\* Nothing with a period twice gets past the first look, so nothing such is stored.
HeldInv(w) ==
  w.stage \in {"fetched", "looked", "began", "writing", "refused"} =>
    /\ PointTable(w.snapshot.points)
    /\ w.stage # "fetched" => Unrepeated(w.snapshot.points)

OfficialTypeInv ==
  /\ \A p \in Publishers : HeldInv(worker[p])
  /\ \A id \in DOMAIN snapshots :
       id[1] \in Sources /\ PointTable(snapshots[id].points) /\ Unrepeated(snapshots[id].points)
  /\ \A s \in Sources : lock[s] \in Publishers \union {Nobody}
  /\ ServedInv

\* As many pairs of series and period as rows: no pair twice.
LEMMA CountedOnce ==
  ASSUME NEW points, PointTable(points), Cardinality(SeriesPeriods(points)) = Len(points)
  PROVE  Unrepeated(points)
<1> DEFINE n == Len(points)
           pairs == SeriesPeriods(points)
           pair == [i \in 1 .. n |-> <<points[i].series, points[i].period>>]
<1>1. n \in Nat /\ DOMAIN points = 1 .. n /\ 1 \in Int
  BY DEF PointTable
<1>2. pair \in Surjection(1 .. n, pairs) /\ \A i \in 1 .. n : pair[i] = <<points[i].series, points[i].period>>
  BY <1>1 DEF Surjection, SeriesPeriods
<1>3. Cardinality(pairs) = n
  OBVIOUS
<1> HIDE DEF pair, pairs, n
<1>4. IsFiniteSet(1 .. n) /\ Cardinality(1 .. n) = IF 1 > n THEN 0 ELSE n - 1 + 1
  BY <1>1, FS_Interval
<1>5. Cardinality(1 .. n) = n
  BY <1>1, <1>4
<1>6. pair \in Injection(1 .. n, pairs)
  BY <1>2, <1>3, <1>4, <1>5, FS_Surjection
<1>7. \A i, j \in 1 .. n : pair[i] = pair[j] => i = j
  BY <1>6 DEF Injection, IsInjective
<1>8. QED  BY <1>1, <1>2, <1>7 DEF Unrepeated

\* The route serves two different periods of one series, in their order.
LEMMA ServedInOrder ==
  ASSUME NEW points, PointTable(points), Unrepeated(points),
         Inflation(ServedPoints(points)).status = "ok"
  PROVE  LET answer == Inflation(ServedPoints(points))
         IN  /\ answer.previous.series = answer.latest.series
             /\ answer.previous.period < answer.latest.period
             /\ answer.previous.value > 0
<1> DEFINE Group(series) == {i \in DOMAIN points : points[i].series = series}
           rows == ServedPoints(points)
           n == Len(rows)
<1>1. PICK places \in SUBSET DOMAIN points :
        /\ rows = SortedAt(points, places)
        /\ \A i, j \in places : points[i].series = points[j].series
  <2> DEFINE long == {s \in {points[i].series : i \in DOMAIN points} : Cardinality(Group(s)) >= 2}
             first == CHOOSE s \in long : \A t \in long : s <= t
             chosen == CASE Group(General) # {} -> Group(General)
                         [] Group(General) = {} /\ long # {} -> Group(first)
                         [] OTHER -> {}
  <2>1. rows = SortedAt(points, chosen)
    BY DEF ServedPoints
  <2> HIDE DEF rows, first, long
  <2>2. chosen \in {Group(General), Group(first), {}}
    OBVIOUS
  <2>3. \A series : \A i, j \in Group(series) : points[i].series = points[j].series
    OBVIOUS
  <2>4. \A series : Group(series) \in SUBSET DOMAIN points
    OBVIOUS
  <2> HIDE DEF chosen, Group
  <2>5. QED  BY <2>1, <2>2, <2>3, <2>4
<1> HIDE DEF rows
<1>2. places \in SUBSET Nat /\ IsFiniteSet(places)
  <2> DEFINE size == Len(points)
  <2>1. 1 \in Int /\ size \in Int /\ DOMAIN points = 1 .. size
    BY DEF PointTable
  <2> HIDE DEF size
  <2>2. IsFiniteSet(1 .. size)
    BY <2>1, FS_Interval
  <2>3. places \in SUBSET (1 .. size)
    BY <1>1, <2>1
  <2>4. QED  BY <2>1, <2>2, <2>3, FS_Subset
<1>3. Placeable(points, places)
  BY <1>1 DEF PointTable, InFigures, Placeable
<1>4. /\ n \in Nat /\ DOMAIN rows = 1 .. n
      /\ \A a, b \in DOMAIN rows : a < b =>
           \E i, j \in places : /\ i # j /\ rows[a] = points[i] /\ rows[b] = points[j]
                                 /\ ~Precedes(rows[b], rows[a])
  <2>1. SortedFrom(rows, points, places)
    BY <1>1, <1>2, <1>3, SortedRows
  <2>2. QED  BY <2>1 DEF SortedFrom
<1> DEFINE previous == rows[n - 1]  latest == rows[n]
<1>5. /\ n >= 2 /\ ~(previous.value <= 0)
      /\ Inflation(rows).previous = previous /\ Inflation(rows).latest = latest
  <2>1. Inflation(rows).status = "ok"
    BY DEF rows
  <2> DEFINE rate == RoundHalfEven(10000 * (latest.value - previous.value), previous.value)
  <2>2. Inflation(rows) =
          IF n < 2 \/ previous.value <= 0 THEN [status |-> "not_ready"]
          ELSE IF rate \in Rates
               THEN [status |-> "ok", previous |-> previous, latest |-> latest, rate |-> rate]
               ELSE [status |-> "error"]
    BY DEF Inflation
  <2> HIDE DEF n, previous, latest, rate
  <2>3. ~(n < 2 \/ previous.value <= 0) /\ rate \in Rates
    BY <2>1, <2>2
  <2>4. n >= 2
    BY <1>4, <2>3
  <2>5. QED  BY <2>2, <2>3, <2>4
<1>6. PICK i \in places, j \in places :
        i # j /\ previous = points[i] /\ latest = points[j] /\ ~Precedes(latest, previous)
  <2>1. n - 1 \in DOMAIN rows /\ n \in DOMAIN rows /\ n - 1 < n
    BY <1>4, <1>5
  <2>2. QED  BY <1>4, <2>1
<1> HIDE DEF previous, latest, n
<1>7. /\ points[i].series = points[j].series /\ points[i].period # points[j].period
      /\ points[i].period \in Int /\ points[j].period \in Int /\ points[i].value \in Int
  BY <1>1, <1>6 DEF PointTable, InFigures, Unrepeated
<1>8. /\ previous.series = latest.series /\ previous.period < latest.period /\ previous.value > 0
  BY <1>5, <1>6, <1>7 DEF Precedes
<1>9. QED  BY <1>5, <1>8 DEF rows

\* A publisher moves, and holds what it held or what it parsed.
LEMMA HeldKeeps ==
  ASSUME OfficialInv, OfficialTypeInv, NEW p \in Publishers, NEW w, worker' = [worker EXCEPT ![p] = w],
         HeldInv(w), UNCHANGED <<snapshots, served>>,
         \A s \in Sources : lock'[s] \in Publishers \union {Nobody}
  PROVE  OfficialTypeInv'
<1>1. \A q \in Publishers : worker'[q] = w \/ worker'[q] = worker[q]
  BY DEF OfficialInv
<1>2. QED  BY <1>1 DEF OfficialTypeInv, HeldInv, ServedInv

LEMMA OfficialTypeStep ==
  ASSUME OfficialInv, OfficialTypeInv, [OfficialNext]_officialVars
  PROVE  OfficialTypeInv'
<1>1. HeldInv(Waiting)
  BY DEF HeldInv, Waiting
<1>2. \A p \in Publishers : lock' = Released(p) =>
        \A s \in Sources : lock'[s] \in Publishers \union {Nobody}
  BY DEF Released, OfficialTypeInv
<1>3. ASSUME NEW p \in Publishers, NEW source \in Sources, StartFetch(p, source)
      PROVE  OfficialTypeInv'
  <2> DEFINE next == [stage |-> "sending", source |-> source, origin |-> source,
                      attempt |-> 0, hops |-> 0, sent |-> 1, slept |-> 0]
  <2>1. HeldInv(next)
    BY DEF HeldInv
  <2>2. worker' = [worker EXCEPT ![p] = next] /\ UNCHANGED <<snapshots, lock, served>>
    BY <1>3 DEF StartFetch
  <2> HIDE DEF next
  <2>3. QED  BY <2>1, <2>2, HeldKeeps DEF OfficialTypeInv
<1>4. ASSUME NEW p \in Publishers, NEW response \in Responses, Receive(p, response)
      PROVE  OfficialTypeInv'
  <2>1. /\ UNCHANGED <<snapshots, lock, served>>
        /\ \A s \in Sources : lock'[s] \in Publishers \union {Nobody}
    BY <1>4 DEF Receive, OfficialTypeInv
  <2>2. \E w : HeldInv(w) /\ worker' = [worker EXCEPT ![p] = w]
    <3>1. CASE Redirected(p, response)
      <4> DEFINE w == worker[p]
                 next == [w EXCEPT !.hops = @ + 1, !.sent = @ + 1, !.origin = response.origin]
      <4>1. w.stage = "sending" /\ FetchInv(w)
        <5>1. w.stage = "sending" /\ PublisherInv(p)
          BY <1>4 DEF Receive, OfficialInv
        <5>2. QED  BY <5>1 DEF PublisherInv, Waiting
      <4>2. next.stage = "sending"
        BY <4>1 DEF FetchInv, Fetching
      <4>3. HeldInv(next)
        BY <4>2 DEF HeldInv
      <4>4. worker' = [worker EXCEPT ![p] = next] \/ worker' = [worker EXCEPT ![p] = Waiting]
        BY <3>1 DEF Redirected
      <4>5. QED  BY <1>1, <4>3, <4>4
    <3>2. CASE Answered(p, response)
      <4> DEFINE w == worker[p]
                 next == [w EXCEPT !.attempt = @ + 1, !.hops = 0, !.sent = @ + 1, !.origin = w.source,
                                   !.slept = @ + RetryDelay(response, w.attempt)]
                 document == The(response.document)
                 parsed == [stage |-> "fetched", snapshot |-> Snapshot(document), again |-> FALSE]
      <4>1. w.stage = "sending" /\ FetchInv(w)
        <5>1. w.stage = "sending" /\ PublisherInv(p)
          BY <1>4 DEF Receive, OfficialInv
        <5>2. QED  BY <5>1 DEF PublisherInv, Waiting
      <4>2. next.stage = "sending"
        BY <4>1 DEF FetchInv, Fetching
      <4>3. HeldInv(next)
        BY <4>2 DEF HeldInv
      <4>4. CASE Decoded(response) /\ Parses(document)
        <5>1. document \in response.document /\ response.kind = "answer"
          BY <3>2, <4>4 DEF Decoded, The, Answered
        <5>2. document.source \in Sources
          BY <1>4, <4>1, <5>1 DEF Receive, FetchInv, Fetching
        <5>3. PointTable(Snapshot(document).points)
          BY <4>4, <5>1, <5>2, SnapshotFits DEF PointTable, Fits
        <5>4. HeldInv(parsed)
          BY <5>3 DEF HeldInv
        <5>5. ~Busy(response)
          BY <4>4 DEF Busy, Decoded
        <5>6. worker' = [worker EXCEPT ![p] = parsed] \/ worker' = [worker EXCEPT ![p] = Waiting]
          BY <3>2, <4>4, <5>5 DEF Answered
        <5> HIDE DEF parsed, next
        <5>7. QED  BY <1>1, <5>4, <5>6
      <4>5. CASE ~(Decoded(response) /\ Parses(document))
        <5>1. worker' = [worker EXCEPT ![p] = next] \/ worker' = [worker EXCEPT ![p] = Waiting]
          BY <3>2, <4>5, Zenon DEF Answered
        <5> HIDE DEF next
        <5>2. QED  BY <1>1, <4>3, <5>1
      <4>6. QED  BY <4>4, <4>5
    <3>3. QED  BY <1>4, <3>1, <3>2 DEF Receive
  <2>3. QED  BY <2>1, <2>2, HeldKeeps
<1>5. ASSUME NEW p \in Publishers, Look(p) \/ Begin(p) \/ Recover(p) PROVE OfficialTypeInv'
  <2> DEFINE w == worker[p]  s == w.snapshot
  <2>1. UNCHANGED <<snapshots, lock, served>>
    BY <1>5 DEF Look, Begin, Recover
  <2>2. CASE worker' = [worker EXCEPT ![p] = Waiting]
    BY <1>1, <2>1, <2>2, HeldKeeps DEF OfficialTypeInv
  <2>3. ASSUME NEW stage \in {"looked", "began"}, worker' = [worker EXCEPT ![p] = [w EXCEPT !.stage = stage]],
               w.stage \in {"fetched", "looked", "refused"},
               w.stage = "fetched" => Cardinality(SeriesPeriods(s.points)) = Len(s.points)
        PROVE  OfficialTypeInv'
    <3>1. w = [stage |-> w.stage, snapshot |-> s, again |-> w.again]
      <4>1. PublisherInv(p)
        BY DEF OfficialInv
      <4>2. QED  BY <2>3, <4>1 DEF PublisherInv, Waiting
    <3>2. HeldInv(w)
      BY DEF OfficialTypeInv
    <3>3. PointTable(s.points) /\ Unrepeated(s.points)
      BY <2>3, <3>2, CountedOnce DEF HeldInv
    <3> DEFINE next == [w EXCEPT !.stage = stage]
    <3>4. next.snapshot = s
      BY <3>1
    <3>5. HeldInv(next)
      BY <3>3, <3>4 DEF HeldInv
    <3> HIDE DEF next
    <3>6. QED  BY <2>1, <2>3, <3>5, HeldKeeps DEF next, OfficialTypeInv
  <2>4. CASE Look(p)
    BY <2>2, <2>3, <2>4 DEF Look
  <2>5. CASE Begin(p)
    BY <2>2, <2>3, <2>5 DEF Begin
  <2>6. CASE Recover(p)
    BY <2>2, <2>3, <2>6 DEF Recover
  <2>7. QED  BY <1>5, <2>4, <2>5, <2>6
<1>6. ASSUME NEW p \in Publishers, Compare(p) PROVE OfficialTypeInv'
  <2> DEFINE s == worker[p].snapshot
             locks == publication[s.source] # Unpublished
             next == [stage |-> "writing", snapshot |-> s, again |-> worker[p].again, locks |-> locks]
  <2>1. HeldInv(worker[p]) /\ worker[p].stage = "began"
    BY <1>6 DEF Compare, OfficialTypeInv
  <2>2. HeldInv(next)
    BY <2>1 DEF HeldInv
  <2>3. /\ UNCHANGED <<snapshots, served>>
        /\ \A t \in Sources : lock'[t] \in Publishers \union {Nobody}
    BY <1>6 DEF Compare, OfficialTypeInv, OfficialInv, StoreInv
  <2>4. worker' = [worker EXCEPT ![p] = next] \/ worker' = [worker EXCEPT ![p] = Waiting]
    BY <1>6 DEF Compare
  <2> HIDE DEF next
  <2>5. QED  BY <1>1, <2>2, <2>3, <2>4, HeldKeeps
<1>7. ASSUME NEW p \in Publishers, Commit(p) PROVE OfficialTypeInv'
  <2> DEFINE s == worker[p].snapshot
             next == [stage |-> "refused", snapshot |-> s, again |-> TRUE]
  <2>1. PointTable(s.points) /\ Unrepeated(s.points)
    BY <1>7 DEF Commit, OfficialTypeInv, HeldInv
  <2>2. lock' = Released(p) /\ UNCHANGED served
    BY <1>7 DEF Commit
  <2>3. CASE Conflicts(p)
    <3>1. HeldInv(next)
      BY <2>1 DEF HeldInv
    <3>2. /\ worker' = [worker EXCEPT ![p] = next] \/ worker' = [worker EXCEPT ![p] = Waiting]
          /\ UNCHANGED snapshots
      BY <1>7, <2>3 DEF Commit
    <3> HIDE DEF next
    <3>3. QED  BY <1>1, <1>2, <2>2, <3>1, <3>2, HeldKeeps
  <2>4. CASE ~Conflicts(p)
    <3>1. /\ Fits(s)
          /\ DOMAIN snapshots' = DOMAIN snapshots \union {Identity(s)}
          /\ snapshots'[Identity(s)].points = s.points
          /\ \A id \in DOMAIN snapshots : snapshots'[id] = snapshots[id]
          /\ worker' = [worker EXCEPT ![p] = Waiting]
      BY <1>7, <2>4, CommitWrites DEF Commit
    <3>2. Identity(s)[1] \in Sources
      BY <3>1 DEF Fits, Identity
    <3>3. \A q \in Publishers : worker'[q] = Waiting \/ worker'[q] = worker[q]
      BY <3>1 DEF OfficialInv
    <3>4. (\A q \in Publishers : HeldInv(worker[q]))'
      BY <1>1, <3>3 DEF OfficialTypeInv, HeldInv
    <3>5. ASSUME NEW id \in DOMAIN snapshots'
          PROVE  id[1] \in Sources /\ PointTable(snapshots'[id].points) /\ Unrepeated(snapshots'[id].points)
      BY <2>1, <3>1, <3>2, <3>5 DEF OfficialTypeInv
    <3>6. QED  BY <1>2, <2>2, <3>4, <3>5 DEF OfficialTypeInv, ServedInv
  <2>5. QED  BY <2>3, <2>4
<1>8. ASSUME NEW p \in Publishers, Abandon(p) PROVE OfficialTypeInv'
  BY <1>1, <1>2, <1>8, HeldKeeps DEF Abandon
<1>9. CASE ServeInflation
  <2>1. CASE publication["tuik"] = Unpublished
    <3>1. served'.status # "ok"
      BY <1>9, <2>1 DEF ServeInflation
    <3>2. QED  BY <1>9, <3>1 DEF ServeInflation, OfficialTypeInv, HeldInv, ServedInv
  <2>2. CASE publication["tuik"] # Unpublished
    <3> DEFINE points == Published("tuik").points
    <3>1. PointTable(points) /\ Unrepeated(points)
      BY <2>2, FetchAssumption DEF OfficialInv, StoreInv, OfficialTypeInv, Published
    <3>2. served' = Inflation(ServedPoints(points))
      BY <1>9, <2>2 DEF ServeInflation
    <3> HIDE DEF points
    <3>3. ServedInv'
      BY <3>1, <3>2, ServedInOrder DEF ServedInv
    <3>4. QED  BY <1>9, <3>3 DEF ServeInflation, OfficialTypeInv, HeldInv
  <2>3. QED  BY <2>1, <2>2
<1>10. CASE UNCHANGED officialVars
  BY <1>10 DEF officialVars, OfficialTypeInv, HeldInv, ServedInv
<1>11. QED
  BY <1>3, <1>4, <1>5, <1>6, <1>7, <1>8, <1>9, <1>10 DEF OfficialNext

\* What is stored has no period twice, whatever the providers sent and however
\* publishers raced, so the inflation served is the change between two periods of
\* one series, the later one last (publish, latest_inflation).
THEOREM OfficialTyped == OfficialSpec => []OfficialTypeOK
<1>1. OfficialInit => OfficialTypeInv
  BY DEF OfficialInit, OfficialTypeInv, HeldInv, Waiting, ServedInv
<1>2. ASSUME OfficialInv, OfficialTypeInv, RequestsAreBounded PROVE OfficialTypeOK
  <2>1. \A p \in Publishers : worker[p].stage \in
          {"waiting", "sending", "fetched", "looked", "began", "writing", "refused"}
    BY <1>2 DEF OfficialInv, PublisherInv, Waiting
  <2>2. QED  BY <1>2, <2>1 DEF OfficialInv, StoreInv, OfficialTypeInv, ServedInv, OfficialTypeOK
<1>3. QED
  BY <1>1, <1>2, OfficialTypeStep, OfficialInvariant, ProvidersAreSpared, PTL DEF OfficialSpec

-----------------------------------------------------------------------------
\* Receipts and training runs: their stages.

LEMMA ReceiptTyped == ReceiptSpec => []ReceiptTypeOK
<1>1. ReceiptInit => ReceiptTypeOK
  BY DEF ReceiptInit, NoReceipt, ReceiptTypeOK
<1>2. ReceiptTypeOK /\ [ReceiptNext]_receiptVars => ReceiptTypeOK'
  BY DEF ReceiptNext, TakeImage, Recognise, ParseReceipt, receiptVars, ReceiptTypeOK
<1>3. QED  BY <1>1, <1>2, PTL DEF ReceiptSpec

LEMMA ReleaseTyped == ReleaseSpec => []ReleaseTypeOK
<1>1. ReleaseInit => ReleaseTypeOK
  BY DEF ReleaseInit, NoRun, ReleaseTypeOK
<1>2. ASSUME NEW dataset, NEW production, NEW key, NEW curve, NEW judged,
             RunPipeline(dataset, production, key, curve, judged)
      PROVE  ReleaseTypeOK'
  BY <1>2 DEF RunPipeline, Stop, ReleaseTypeOK
<1>3. ReleaseTypeOK /\ [ReleaseNext]_releaseVars => ReleaseTypeOK'
  BY <1>2 DEF ReleaseNext, releaseVars, ReleaseTypeOK
<1>4. QED  BY <1>1, <1>3, PTL DEF ReleaseSpec

-----------------------------------------------------------------------------
\* The parts together.

\* A step of the backend is a step of one part, and of every other part none.
LEMMA PartsMove ==
  ASSUME [BackendNext]_backendVars
  PROVE  /\ [SubjectNext]_subjectVars /\ [OfficialNext]_officialVars /\ [LocalNext]_localVars
         /\ [GateNext]_gateVars /\ [RateNext]_rateVars /\ [ForecastNext]_forecastVars
         /\ [ReceiptNext]_receiptVars /\ [ChatNext]_chatVars /\ [GroundedNext]_groundedVars
         /\ [ReleaseNext]_releaseVars /\ [PremiumNext]_premiumVars
<1> DEFINE Goal ==
             /\ [SubjectNext]_subjectVars /\ [OfficialNext]_officialVars /\ [LocalNext]_localVars
             /\ [GateNext]_gateVars /\ [RateNext]_rateVars /\ [ForecastNext]_forecastVars
             /\ [ReceiptNext]_receiptVars /\ [ChatNext]_chatVars /\ [GroundedNext]_groundedVars
             /\ [ReleaseNext]_releaseVars /\ [PremiumNext]_premiumVars
<1>1. CASE UNCHANGED backendVars
  BY <1>1 DEF backendVars
<1>2. ASSUME NEW own \in SubjectAreas, Only(own), SubjectNext PROVE Goal
  BY <1>2 DEF Only, SubjectAreas
<1>3. CASE Only("official") /\ OfficialNext
  BY <1>3 DEF Only, SubjectAreas
<1>4. CASE Only("local") /\ LocalNext
  BY <1>4 DEF Only, SubjectAreas
<1>5. CASE Only("gate") /\ GateNext
  BY <1>5 DEF Only, SubjectAreas
<1>6. CASE Only("rate") /\ RateNext
  BY <1>6 DEF Only, SubjectAreas
<1>7. CASE Only("forecast") /\ ForecastNext
  BY <1>7 DEF Only, SubjectAreas
<1>8. CASE Only("receipt") /\ ReceiptNext
  BY <1>8 DEF Only, SubjectAreas
<1>9. CASE Only("chat") /\ ChatNext
  BY <1>9 DEF Only, SubjectAreas
<1>10. CASE Only("grounded") /\ GroundedNext
  BY <1>10 DEF Only, SubjectAreas
<1>11. CASE Only("release") /\ ReleaseNext
  BY <1>11 DEF Only, SubjectAreas
<1>12. CASE Only("store") /\ PremiumNext
  BY <1>12 DEF Only, SubjectAreas
<1>13. CASE
           \/ Only("billing") /\ Billing /\ Written
           \/ Only("accepting") /\ Accepting /\ Written
           \/ Only("comparing") /\ Comparing /\ Written
           \/ \E own \in SubjectAreas, s \in Subjects : Only(own) /\ DeleteSubject(s)
           \/ \E own \in SubjectAreas : Only(own) /\ Tick
  <2>1. \E own \in SubjectAreas : Only(own) /\ SubjectNext
    BY <1>13 DEF SubjectAreas, SubjectNext, Serving
  <2>2. QED  BY <1>2, <2>1
<1>14. QED
  BY <1>1, <1>3, <1>4, <1>5, <1>6, <1>7, <1>8, <1>9, <1>10, <1>11, <1>12, <1>13 DEF BackendNext

\* So the whole backend is an instance of each part.
LEMMA PartsSpecified ==
  BackendSpec =>
    /\ SubjectSpec /\ OfficialSpec /\ LocalSpec /\ GateSpec /\ RateSpec /\ ForecastSpec
    /\ ReceiptSpec /\ ChatSpec /\ GroundedSpec /\ ReleaseSpec /\ PremiumSafety
<1>1. BackendInit =>
        /\ SubjectInit /\ OfficialInit /\ LocalInit /\ GateInit /\ RateInit /\ ForecastInit
        /\ ReceiptInit /\ ChatInit /\ GroundedInit /\ ReleaseInit /\ PremiumInit
  BY DEF BackendInit
<1>2. BackendSpec => SubjectSpec
  BY <1>1, PartsMove, PTL DEF BackendSpec, SubjectSpec
<1>3. BackendSpec => OfficialSpec
  BY <1>1, PartsMove, PTL DEF BackendSpec, OfficialSpec
<1>4. BackendSpec => LocalSpec
  BY <1>1, PartsMove, PTL DEF BackendSpec, LocalSpec
<1>5. BackendSpec => GateSpec
  BY <1>1, PartsMove, PTL DEF BackendSpec, GateSpec
<1>6. BackendSpec => RateSpec
  BY <1>1, PartsMove, PTL DEF BackendSpec, RateSpec
<1>7. BackendSpec => ForecastSpec
  BY <1>1, PartsMove, PTL DEF BackendSpec, ForecastSpec
<1>8. BackendSpec => ReceiptSpec
  BY <1>1, PartsMove, PTL DEF BackendSpec, ReceiptSpec
<1>9. BackendSpec => ChatSpec
  BY <1>1, PartsMove, PTL DEF BackendSpec, ChatSpec
<1>10. BackendSpec => GroundedSpec
  BY <1>1, PartsMove, PTL DEF BackendSpec, GroundedSpec
<1>11. BackendSpec => ReleaseSpec
  BY <1>1, PartsMove, PTL DEF BackendSpec, ReleaseSpec
<1>12. BackendSpec => PremiumSafety
  BY <1>1, PartsMove, PTL DEF BackendSpec, PremiumSafety
<1>13. QED  BY <1>2, <1>3, <1>4, <1>5, <1>6, <1>7, <1>8, <1>9, <1>10, <1>11, <1>12

\* Every part keeps its types and bounds while the others run
\* (infrastructure/tables.py, official_data/clients/base.py, redis_rate_limit.py).
THEOREM BackendTyped == BackendSpec => []BackendTypeOK
<1>1. /\ SubjectTypeOK /\ OfficialTypeOK /\ LocalTypeOK /\ GateTypeOK /\ RateTypeOK
      /\ ForecastTypeOK /\ ReceiptTypeOK /\ ChatTypeOK /\ GroundedTypeOK /\ ReleaseTypeOK
      => BackendTypeOK
  BY DEF BackendTypeOK
<1>2. BackendSpec =>
        /\ []SubjectTypeOK /\ []OfficialTypeOK /\ []LocalTypeOK /\ []GateTypeOK /\ []RateTypeOK
        /\ []ForecastTypeOK /\ []ReceiptTypeOK /\ []ChatTypeOK /\ []GroundedTypeOK
        /\ []ReleaseTypeOK
  BY PartsSpecified, SubjectTyped, OfficialTyped, LocalTyped, GateTyped, RateTyped, ForecastTyped,
     ReceiptTyped, ChatTyped, GroundedTyped, ReleaseTyped
<1>3. QED  BY <1>1, <1>2, PTL

\* What is proved of the parts holds of the backend as a whole: the entitlements,
\* retries, deletions and retention passes of a subject, publications, waiting
\* purchases, limits, calls, forecasts, receipts, both coaches and released models,
\* and the local runtime still implements the contract of a job.
THEOREM BackendCorrect ==
  BackendSpec =>
    /\ []EntitlementIsNewest /\ []RetryKeepsJob /\ []DeletedLeavesNothing
    /\ []WaiterIsReachable /\ []GrantComesFirst /\ []WindowBounded
    /\ []CallIsSound /\ []ForecastIsEarned /\ []TopicIsTheSessionsOwn /\ []AnswerIsGrounded
    /\ []ReleaseIsEarned /\ []UnreviewedIsExact /\ PassPurgesExpired /\ NoSharpShrink /\ LocalContract
BY PartsSpecified, EntitlementsCorrect, RetriesCorrect, DeletionCorrect,
   WaitersReachable, GrantsCorrect, RateIsLimited, CallsAreSound, ForecastsAreEarned,
   TopicsStayWithTheirSession, AnswersAreGrounded, ReleasesAreEarned, RetentionCorrect,
   UnreviewedIsThePaper, AnswersAssumption,
   PublicationsKeepTheirPoints, LocalImplementsContract
===========================================================================
