---------------------------- MODULE Forecasting ----------------------------
(* The forecast worker (backend/src/maki/forecast): rolling-origin backtest  *)
(* of the baselines and of Prophet, model selection, conformal intervals and *)
(* the result cache that workers of several releases share in Redis.         *)
(* The day numbers 42, 7, 7 and 7 of the code are the four constants below;  *)
(* index values are small integers, so every ratio is compared exactly.      *)
EXTENDS Tables, Integers, Sequences, FiniteSets

CONSTANTS ForecastWorkers,      \* worker processes
          Release,              \* the release (code and settings version) of each
          ForecastSeries,       \* the relative series that jobs carry
          Horizons,             \* the horizons that jobs ask for
          ProphetRuns,          \* what the external library may answer
          InitialTrainingDays, TestDays, StepDays, SeasonDays,
          CacheTtl,
          MaxForecasts, ForecastEnd   \* bounds: jobs handled, time

ASSUME ForecastAssumption ==
    /\ InitialTrainingDays \in Nat \ {0} /\ TestDays \in Nat \ {0} /\ StepDays \in Nat \ {0}
    /\ SeasonDays \in 1..InitialTrainingDays
    /\ Horizons \subseteq Nat \ {0} /\ CacheTtl \in Nat \ {0}
    /\ MaxForecasts \in Nat /\ ForecastEnd \in Nat
    /\ \A s \in ForecastSeries :      \* RelativeSeries: at least 56 days
        s \in Seq(Int) /\ Len(s) >= InitialTrainingDays + TestDays
    /\ \A run \in ProphetRuns :
        run.bias \in Int /\ run.below \in Int /\ run.above \in Int /\ run.fits \in Int

VARIABLES forecasting,          \* each worker's job
          forecastCache,        \* Redis: key -> [result, expires]
          forecastClock,
          forecastJobs          \* how many jobs were handled so far

forecastVars == <<forecasting, forecastCache, forecastClock, forecastJobs>>

Baselines == <<"naive", "seasonal_naive">>
Releases == {Release[w] : w \in ForecastWorkers}
ForecastIdle == [phase |-> "idle"]

Total(f) == LET sum[n \in 0..Len(f)] == IF n = 0 THEN 0 ELSE sum[n - 1] + f[n]
            IN  sum[Len(f)]
Abs(n) == IF n < 0 THEN -n ELSE n

(* A forecast point; `interval` is empty or the pair of its bounds.          *)
PointAt(prediction, interval) == [prediction |-> prediction, interval |-> interval]

(* NaiveForecaster.forecast and SeasonalNaiveForecaster.forecast.            *)
NaiveForecast(days, horizon) ==
    [d \in 1..horizon |-> PointAt(days[Len(days)], <<>>)]

SeasonalForecast(days, horizon) ==
    [d \in 1..horizon |->
        PointAt(days[Len(days) - SeasonDays + 1 + ((d - 1) % SeasonDays)], <<>>)]

(* ProphetAdapter.forecast: one fit of the external library.  It fails on a  *)
(* series longer than `fits` (an exception, a wrong frame or a value that is *)
(* not finite), and otherwise answers every day with its own interval.       *)
ProphetForecast(run, days, horizon) ==
    IF Len(days) > run.fits
    THEN <<>>
    ELSE [d \in 1..horizon |->
            LET p == SeasonalForecast(days, horizon)[d].prediction + run.bias
            IN  PointAt(p, <<p - run.below, p + run.above>>)]

ForecastBy(model, run, days, horizon) ==
    CASE model = "naive"          -> NaiveForecast(days, horizon)
      [] model = "seasonal_naive" -> SeasonalForecast(days, horizon)
      [] model = "prophet"        -> ProphetForecast(run, days, horizon)

(* rolling_origin_splits: the length of the training part of each split.     *)
Origins(series) ==
    {o \in InitialTrainingDays..(Len(series) - TestDays) :
        (o - InitialTrainingDays) % StepDays = 0}

(* The test days of all splits, in order, as <<origin, day>>.                *)
TestPoints(series) ==
    [i \in 1..(Cardinality(Origins(series)) * TestDays) |->
        <<InitialTrainingDays + StepDays * ((i - 1) \div TestDays),
          ((i - 1) % TestDays) + 1>>]

(* evaluate_forecaster: residuals, and how many test days the model's own    *)
(* interval covers.  The actual values are the same for every model, so WAPE *)
(* and MAE compare as the sums of the absolute residuals.                    *)
Backtest(series, model, run) ==
    LET tests == TestPoints(series)
        answer(i) == ForecastBy(model, run, SubSeq(series, 1, tests[i][1]), TestDays)
        actual(i) == series[tests[i][1] + tests[i][2]]
        point(i) == answer(i)[tests[i][2]]
        days == 1..Len(tests)
    IN  IF \E i \in days : answer(i) = <<>>
        THEN [model |-> model, failed |-> TRUE]
        ELSE [model |-> model, failed |-> FALSE,
              residuals |-> [i \in days |-> actual(i) - point(i).prediction],
              intervals |-> \A i \in days : point(i).interval # <<>>,
              covered |-> Cardinality({i \in days :
                              /\ point(i).interval # <<>>
                              /\ point(i).interval[1] <= actual(i)
                              /\ actual(i) <= point(i).interval[2]})]

ErrorOf(evaluation) ==
    Total([i \in DOMAIN evaluation.residuals |-> Abs(evaluation.residuals[i])])

(* ModelSelector: at least 75 % coverage, and a relative improvement of the  *)
(* baseline's WAPE of at least 2 %.                                          *)
HasEnoughCoverage(candidate) ==
    /\ candidate.intervals
    /\ 4 * candidate.covered >= 3 * Len(candidate.residuals)

HasRequiredImprovement(baseline, candidate) ==
    /\ ErrorOf(baseline) > 0
    /\ 50 * (ErrorOf(baseline) - ErrorOf(candidate)) >= ErrorOf(baseline)

BestBaseline(series, run) ==
    LET tried == [i \in 1..Len(Baselines) |-> Backtest(series, Baselines[i], run)]
    IN  CHOOSE e \in {tried[i] : i \in DOMAIN tried} :
            \E i \in DOMAIN tried :
                /\ e = tried[i]
                /\ \A j \in DOMAIN tried :
                    \/ ErrorOf(tried[i]) < ErrorOf(tried[j])
                    \/ ErrorOf(tried[i]) = ErrorOf(tried[j]) /\ i <= j

(* ForecastService._select_forecaster: a candidate that cannot be backtested *)
(* is skipped.                                                               *)
SelectForecaster(series, run) ==
    LET baseline == BestBaseline(series, run)
        candidate == Backtest(series, "prophet", run)
        keep(reason) == [evaluation |-> baseline, reason |-> reason]
    IN  IF candidate.failed THEN keep("candidate_error")
        ELSE IF ~HasEnoughCoverage(candidate) THEN keep("candidate_coverage")
        ELSE IF ~HasRequiredImprovement(baseline, candidate) THEN keep("baseline_wape")
        ELSE [evaluation |-> candidate, reason |-> "candidate_improvement"]

(* ConformalCalibrator: the rank-th smallest absolute residual on both sides *)
(* of the prediction replaces whatever interval the model gave; it is the    *)
(* least residual that has so many of them within it.                        *)
Within(residuals, width) == {i \in DOMAIN residuals : Abs(residuals[i]) <= width}

IntervalWidth(residuals) ==
    LET scores == {Abs(residuals[i]) : i \in DOMAIN residuals}
        rank == (4 * (Len(residuals) + 1) + 4) \div 5
        least == IF rank < Len(residuals) THEN rank ELSE Len(residuals)
        wide == {x \in scores : Cardinality(Within(residuals, x)) >= least}
    IN  CHOOSE x \in wide : \A y \in wide : x <= y

Calibrate(points, residuals) ==
    LET width == IntervalWidth(residuals)
    IN  [d \in DOMAIN points |->
            PointAt(points[d].prediction,
                    <<points[d].prediction - width, points[d].prediction + width>>)]

(* Mutant: the key forgets which release computed the result.                *)
CacheKeyOfAnyRelease(series, horizon, release) ==
    [series |-> series, horizon |-> horizon, release |-> CHOOSE r \in Releases : TRUE]

(* ForecastCacheKey: the digest of the series, the horizon and the release.  *)
CacheKey(series, horizon, release) ==
    [series |-> series, horizon |-> horizon, release |-> release]

Fresh(cache, now) == [k \in {j \in DOMAIN cache : cache[j].expires > now} |-> cache[k]]

----------------------------------------------------------------------------

(* The job is answered, with a result computed or found.                      *)
WithAnswer(job, result) ==
    [phase |-> "answered", series |-> job.series, horizon |-> job.horizon, result |-> result]

ForecastInit ==
    /\ forecasting = [w \in ForecastWorkers |-> ForecastIdle]
    /\ forecastCache = <<>>
    /\ forecastClock = 0
    /\ forecastJobs = 0

(* ForecastDomainJobHandler parses the job and asks the service, which reads *)
(* the cache first.  A Redis error or a value that does not parse is a miss. *)
StartForecast(w, series, horizon) ==
    LET key == CacheKey(series, horizon, Release[w])
        job == [phase |-> "computing", series |-> series, horizon |-> horizon]
    IN  /\ forecasting[w].phase # "computing"
        /\ forecastJobs < MaxForecasts
        /\ forecastJobs' = forecastJobs + 1
        /\ \/ /\ key \in DOMAIN forecastCache
              /\ forecasting' = [forecasting EXCEPT ![w] =
                    WithAnswer(job, [forecastCache[key].result EXCEPT !.cacheHit = TRUE])]
           \/ forecasting' = [forecasting EXCEPT ![w] = job]
        /\ UNCHANGED <<forecastCache, forecastClock>>

(* The computation and the cache write.  Only the backtest of a candidate is *)
(* guarded: when the chosen model cannot fit the whole series the job fails. *)
CompleteForecast(w, run) ==
    LET job == forecasting[w]
        selected == SelectForecaster(job.series, run)
        raw == ForecastBy(selected.evaluation.model, run, job.series, job.horizon)
        result == [points |-> Calibrate(raw, selected.evaluation.residuals),
                   evaluation |-> selected.evaluation, reason |-> selected.reason,
                   cacheHit |-> FALSE, by |-> Release[w]]
        key == CacheKey(job.series, job.horizon, Release[w])
    IN  /\ job.phase = "computing"
        /\ \/ /\ raw = <<>>
              /\ forecasting' = [forecasting EXCEPT ![w].phase = "failed"]
              /\ UNCHANGED forecastCache
           \/ /\ raw # <<>>
              /\ forecasting' = [forecasting EXCEPT ![w] = WithAnswer(job, result)]
              /\ \/ forecastCache' = With(forecastCache, key,
                                       [result |-> result, expires |-> forecastClock + CacheTtl])
                 \/ UNCHANGED forecastCache          \* RedisError is ignored
        /\ UNCHANGED <<forecastClock, forecastJobs>>

(* Time passes and Redis drops what has expired.                             *)
ForecastTick ==
    /\ forecastClock < ForecastEnd
    /\ forecastClock' = forecastClock + 1
    /\ forecastCache' = Fresh(forecastCache, forecastClock')
    /\ UNCHANGED <<forecasting, forecastJobs>>

ForecastNext ==
    \/ \E w \in ForecastWorkers, s \in ForecastSeries, h \in Horizons : StartForecast(w, s, h)
    \/ \E w \in ForecastWorkers, run \in ProphetRuns : CompleteForecast(w, run)
    \/ ForecastTick

ForecastSpec == ForecastInit /\ [][ForecastNext]_forecastVars

----------------------------------------------------------------------------

(* Types of the workers and of the cache (forecast/cache.py): no entry        *)
(* outlives its time.                                                        *)
ForecastTypeOK ==
    /\ \A w \in ForecastWorkers :
        forecasting[w].phase \in {"idle", "computing", "answered", "failed"}
    /\ \A k \in DOMAIN forecastCache :
        /\ k.series \in ForecastSeries /\ k.horizon \in Horizons /\ k.release \in Releases
        /\ forecastCache[k].expires > forecastClock
    /\ forecastClock \in 0..ForecastEnd
    /\ forecastJobs \in 0..MaxForecasts

(* What a job answers, computed now or taken from a cache that other         *)
(* releases write too, is the answer to that job: one point per day of its   *)
(* horizon, made by this worker's release from this very series; its model   *)
(* did at least as well in the backtest as each baseline, and when it is not *)
(* a baseline two percent better; and the interval it prints would have held *)
(* four fifths of the days the model was tested on.                          *)
ForecastIsEarned ==
    \A w \in ForecastWorkers :
        forecasting[w].phase = "answered" =>
            LET job == forecasting[w]
                result == job.result
                error == ErrorOf(result.evaluation)
                residuals == result.evaluation.residuals
            IN  /\ Len(result.points) = job.horizon
                /\ result.by = Release[w]
                /\ Len(residuals) = Cardinality(Origins(job.series)) * TestDays
                /\ \A i \in DOMAIN Baselines :
                    LET baseline == Backtest(job.series, Baselines[i], {})
                    IN  IF result.evaluation.model = "prophet"
                        THEN 100 * error <= 98 * ErrorOf(baseline)
                        ELSE /\ error <= ErrorOf(baseline)
                             /\ result.evaluation.model = baseline.model => result.evaluation = baseline
                /\ \A d \in DOMAIN result.points :
                    LET half == result.points[d].interval[2] - result.points[d].prediction
                    IN  5 * Cardinality(Within(residuals, half))
                            >= 4 * Len(residuals)
=============================================================================
