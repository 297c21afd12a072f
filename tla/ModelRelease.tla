---------------------------- MODULE ModelRelease ----------------------------
(* The training pipeline of the risk model (backend/src/maki/modeling): the  *)
(* dataset's checks, the split in time, calibration, the metrics of the      *)
(* promotion gate and the signed export.  An observation is its period, its  *)
(* label and, once the external library is trained, its raw score; a part of *)
(* the dataset is the set of the places of its observations.  Probabilities  *)
(* are whole multiples of 1/Scale: with Scale a multiple of every block size *)
(* the isotonic means are exact.                                             *)
EXTENDS Integers, Sequences, SequencesExt, FiniteSets, Functions

CONSTANTS Datasets,             \* manifests with their observations
          Scale,
          Sigmoid,              \* raw score -> probability of the plain model
          PlattCurves,          \* what Platt's fit may give: score -> probability
          MinimumAuc, MinimumSamples    \* 65 per cent, 30

(* TrainingObservation has a date and a binary label, FeatureDefinition a    *)
(* window in whole days; periods stand for the order of dates, and           *)
(* probabilities lie between nothing and one.                                *)
ASSUME ReleaseAssumption ==
    /\ Scale \in Nat \ {0} /\ MinimumAuc \in Nat /\ MinimumSamples \in Nat
    /\ \A dataset \in Datasets :
        /\ Len(dataset.rows) \in Nat /\ DOMAIN dataset.rows = 1..Len(dataset.rows)
        /\ \A f \in dataset.features : f.from \in Int /\ f.to \in Int
        /\ \A i \in DOMAIN dataset.rows :
            LET row == dataset.rows[i]
            IN  /\ row.period \in Nat /\ row.score \in Int /\ row.label \in {0, 1}
                /\ Sigmoid[row.score] \in 0..Scale
                /\ \A curve \in PlattCurves : curve[row.score] \in 0..Scale

VARIABLES trainingRun           \* the last run of the pipeline and its outcome

releaseVars == trainingRun

NoRun == [outcome |-> "none"]
Square(n) == n * n
Greatest(S) == CHOOSE x \in S : \A y \in S : y <= x

(* FeatureDefinition.leaks_future and TrainingDataset.verify.                *)
LeaksFuture(feature) == feature.from > feature.to \/ feature.to > 0

Periods(rows, part) == {rows[i].period : i \in part}

DatasetEligible(dataset, production) ==
    LET periods == Periods(dataset.rows, DOMAIN dataset.rows)
    IN  /\ dataset.digestMatches
        /\ Len(dataset.rows) = dataset.rowCount
        /\ \A f \in dataset.features : ~LeaksFuture(f)
        /\ dataset.start \in periods /\ dataset.end \in periods
        /\ \A p \in periods : dataset.start <= p /\ p <= dataset.end
        /\ production => ~dataset.synthetic /\ dataset.purpose = "training"

(* temporal_split: whole periods, a fifth each for validation and holdout,   *)
(* rounded (a fifth is never halfway) and at least one.                      *)
Fifth(n) == LET rounded == (2 * n + 5) \div 10 IN IF rounded < 1 THEN 1 ELSE rounded

PeriodAt(periods, n) ==
    CHOOSE p \in periods : Cardinality({q \in periods : q <= p}) = n

(* Mutant: the boundary period belongs to both sides.                        *)
BetweenInclusive(rows, part, after, upTo) ==
    {i \in part : after <= rows[i].period /\ rows[i].period <= upTo}

Between(rows, part, after, upTo) ==
    {i \in part : after < rows[i].period /\ rows[i].period <= upTo}

TemporalSplit(rows) ==
    LET all == DOMAIN rows
        periods == Periods(rows, all)
        n == Cardinality(periods)
        trainingEnd == PeriodAt(periods, n - 2 * Fifth(n))
        validationEnd == PeriodAt(periods, n - Fifth(n))
    IN  [training |-> Between(rows, all, -1, trainingEnd),
         validation |-> Between(rows, all, trainingEnd, validationEnd),
         holdout |-> Between(rows, all, validationEnd, Greatest(periods))]

(* _split_validation: the earlier half of the periods fits the calibration.  *)
SplitValidation(rows, validation) ==
    LET periods == Periods(rows, validation)
        boundary == PeriodAt(periods, Cardinality(periods) \div 2)
    IN  [fit |-> Between(rows, validation, -1, boundary),
         evaluation |-> Between(rows, validation, boundary, Greatest(periods))]

(* _fit_isotonic: pool adjacent violators over the rows sorted by score and  *)
(* label; a block is its greatest score, its positive labels and its size.   *)
Block(score, ones, size) == [upTo |-> score, ones |-> ones, size |-> size]

MeanAbove(left, right) == left.ones * right.size > right.ones * left.size

PoolBlocks(blocks) ==
    LET n == Len(blocks)
        top[m \in 1..n] ==     \* the last m blocks merged into one
            IF m = 1 THEN blocks[n]
            ELSE LET left == blocks[n - m + 1]
                 IN  Block(blocks[n].upTo, left.ones + top[m - 1].ones,
                           left.size + top[m - 1].size)
        merged == CHOOSE m \in 1..n :
                    /\ m = n \/ ~MeanAbove(blocks[n - m], top[m])
                    /\ \A k \in 1..(m - 1) : MeanAbove(blocks[n - k], top[k])
    IN  Append(SubSeq(blocks, 1, n - merged), top[merged])

AddRow(blocks, row) ==
    IF blocks # <<>> /\ Last(blocks).upTo = row.score
    THEN Append(Front(blocks), Block(row.score, Last(blocks).ones + row.label, Last(blocks).size + 1))
    ELSE Append(blocks, Block(row.score, row.label, 1))

(* By score, then label; rows equal in both are alike.                       *)
ByScore(rows, i, j) ==
    \/ rows[i].score < rows[j].score
    \/ rows[i].score = rows[j].score /\ rows[i].label < rows[j].label
    \/ rows[i].score = rows[j].score /\ rows[i].label = rows[j].label /\ i < j

InOrder(rows, part) ==
    [n \in 1..Cardinality(part) |->
        CHOOSE i \in part : Cardinality({j \in part : ByScore(rows, j, i)}) = n - 1]

FitIsotonic(rows, part) ==
    LET ordered == InOrder(rows, part)
        blocks[n \in 0..Cardinality(part)] ==
            IF n = 0 THEN <<>> ELSE PoolBlocks(AddRow(blocks[n - 1], rows[ordered[n]]))
    IN  blocks[Cardinality(part)]

(* apply_calibration.                                                        *)
Isotonic(blocks, score) ==
    LET at == {i \in DOMAIN blocks : score <= blocks[i].upTo}
        i == IF at = {} THEN Len(blocks) ELSE CHOOSE k \in at : \A j \in at : k <= j
    IN  (Scale * blocks[i].ones) \div blocks[i].size

Calibrated(model, rows, part) ==
    [i \in part |->
        CASE model.method = "none"     -> Sigmoid[rows[i].score]
          [] model.method = "platt"    -> model.curve[rows[i].score]
          [] model.method = "isotonic" -> Isotonic(model.blocks, rows[i].score)]

(* The Brier score, times the number of rows and Scale squared.              *)
BrierSum(rows, probabilities) ==
    SumFunction([i \in DOMAIN probabilities |->
                    Square(probabilities[i] - Scale * rows[i].label)])

(* select_calibration: the best Brier score on the later half; the plain     *)
(* model before Platt's, Platt's before the isotonic one on a tie.           *)
SelectCalibration(rows, fit, evaluation, curve) ==
    LET candidates == <<[method |-> "none"], [method |-> "platt", curve |-> curve],
                        [method |-> "isotonic", blocks |-> FitIsotonic(rows, fit)]>>
        score(i) == BrierSum(rows, Calibrated(candidates[i], rows, evaluation))
    IN  candidates[CHOOSE i \in 1..3 : \A j \in 1..3 :
                        score(i) < score(j) \/ (score(i) = score(j) /\ i <= j)]

(* evaluate_binary_model.  _roc_auc sums the average rank of the positive    *)
(* rows, here doubled: tied rows share the mean of their ranks.              *)
Positives(rows, part) == {i \in part : rows[i].label = 1}
Ones(rows, part) == Cardinality(Positives(rows, part))
BothClasses(rows, part) == 0 < Ones(rows, part) /\ Ones(rows, part) < Cardinality(part)

DoubleRank(probabilities, i) ==
    2 * Cardinality({j \in DOMAIN probabilities : probabilities[j] < probabilities[i]})
      + Cardinality({j \in DOMAIN probabilities : probabilities[j] = probabilities[i]}) + 1

DoubleAuc(rows, part, probabilities) ==           \* twice ROC-AUC times its pairs
    SumFunction([i \in Positives(rows, part) |-> DoubleRank(probabilities, i)])
        - Ones(rows, part) * (Ones(rows, part) + 1)

Pairs(rows, part) == Ones(rows, part) * (Cardinality(part) - Ones(rows, part))

Metrics(rows, part, probabilities, judged) ==
    [doubleAuc |-> DoubleAuc(rows, part, probabilities), pairs |-> Pairs(rows, part),
     brier |-> BrierSum(rows, probabilities), ones |-> Ones(rows, part),
     count |-> Cardinality(part), slopeInRange |-> judged.slopeInRange,
     lossBeatsBase |-> judged.lossBeatsBase, stable |-> judged.stable]

(* PromotionGate.assess on one of the two sets.  The slope, the log loss and *)
(* the monthly stability are inputs, the same for both sets: the gate needs  *)
(* all of them.                                                              *)
Rejected(metrics) ==
    \/ 100 * metrics.doubleAuc < MinimumAuc * 2 * metrics.pairs
    \/ metrics.count * metrics.brier
            >= Square(Scale) * metrics.ones * (metrics.count - metrics.ones)
    \/ ~metrics.lossBeatsBase
    \/ ~metrics.slopeInRange
    \/ ~metrics.stable
    \/ metrics.count < MinimumSamples

(* ModelExporter.export: a production export needs the key; without one the  *)
(* manifest says test-only.                                                  *)
Signature(key) == IF key THEN "signed" ELSE "test-only"

----------------------------------------------------------------------------

ReleaseInit == trainingRun = NoRun

Stop(reason) == trainingRun' = [outcome |-> reason]

(* ModelTrainingPipeline.run.  It rejects an ineligible dataset, a split it  *)
(* cannot evaluate, a production model that the gate refuses, and one that   *)
(* nobody signs.                                                             *)
RunPipeline(dataset, production, key, curve, judged) ==
    LET rows == dataset.rows
        split == TemporalSplit(rows)
        halves == SplitValidation(rows, split.validation)
        calibration == SelectCalibration(rows, halves.fit, halves.evaluation, curve)
        assessed(part) == Metrics(rows, part, Calibrated(calibration, rows, part), judged)
        refused == Rejected(assessed(halves.evaluation)) \/ Rejected(assessed(split.holdout))
    IN  IF ~DatasetEligible(dataset, production) THEN Stop("not_eligible")
        ELSE IF \/ Cardinality(Periods(rows, DOMAIN rows)) < 3
                \/ Cardinality(Periods(rows, split.validation)) < 2
        THEN Stop("cannot_split")
        ELSE IF ~BothClasses(rows, halves.evaluation) \/ ~BothClasses(rows, split.holdout)
        THEN Stop("cannot_evaluate")
        ELSE IF production /\ refused THEN Stop("rejected")
        ELSE IF production /\ ~key THEN Stop("unsigned")
        ELSE trainingRun' =
                [outcome |-> "exported", production |-> production, signature |-> Signature(key),
                 promotion |-> IF production THEN "approved" ELSE "test_only",
                 dataset |-> dataset, split |-> split, halves |-> halves,
                 calibration |-> calibration, holdout |-> assessed(split.holdout),
                 trainedUntil |-> Greatest(Periods(rows, split.training))]

ReleaseNext ==
    \E dataset \in Datasets, production, key \in BOOLEAN, curve \in PlattCurves,
       judged \in [slopeInRange : BOOLEAN, lossBeatsBase : BOOLEAN, stable : BOOLEAN] :
        /\ trainingRun = NoRun
        /\ RunPipeline(dataset, production, key, curve, judged)

ReleaseSpec == ReleaseInit /\ [][ReleaseNext]_releaseVars

----------------------------------------------------------------------------

(* Types: a run of modeling/pipeline.py ends in one of its outcomes.          *)
ReleaseTypeOK ==
    trainingRun.outcome \in {"none", "not_eligible", "cannot_split", "cannot_evaluate",
                             "rejected", "unsigned", "exported"}

(* ROC-AUC by its meaning: the share of (positive, negative) pairs that the  *)
(* model puts in the right order, a tie counting half.                       *)
Credit(probabilities, i, j) ==
    IF probabilities[j] < probabilities[i] THEN 2
    ELSE IF probabilities[j] = probabilities[i] THEN 1 ELSE 0

RightOrder(rows, part, probabilities) ==
    SumFunction([i \in Positives(rows, part) |->
        SumFunction([j \in part \ Positives(rows, part) |-> Credit(probabilities, i, j)])])

(* Isotonic regression by its meaning, for scores without ties: the fitted   *)
(* value of the n-th row is the greatest, over the starts j up to n, of the  *)
(* least mean of the rows from j to an end k not before n.                   *)
Untied(rows, part) == \A i, j \in part : i # j => rows[i].score # rows[j].score

ScaledMean(rows, ordered, j, k) ==
    (Scale * Ones(rows, {ordered[i] : i \in j..k})) \div (k - j + 1)

LeastMean(rows, ordered, j, n) ==
    LET means == {ScaledMean(rows, ordered, j, k) : k \in n..Len(ordered)}
    IN  CHOOSE v \in means : \A w \in means : v <= w

IsIsotonicValue(rows, ordered, n, value) ==
    value = Greatest({LeastMean(rows, ordered, j, n) : j \in 1..n})

(* A model that the pipeline releases for production has earned it: the      *)
(* signed manifest belongs to real training data without a future feature,   *)
(* neither the trees nor the calibration saw a row of the holdout period or  *)
(* later, the holdout's ROC-AUC (by its meaning, not by the rank formula)    *)
(* reaches the limit and its Brier score beats the base rate; and an         *)
(* isotonic calibration really is the isotonic regression of the rows it was *)
(* fitted on.                                                                *)
SignedForProduction(run) ==
    /\ run.signature = "signed" /\ run.promotion = "approved"
    /\ ~run.dataset.synthetic
    /\ \A f \in run.dataset.features : f.to <= 0

GoodEnough(run) ==
    LET rows == run.dataset.rows
        part == run.split.holdout
    IN  /\ 100 * RightOrder(rows, part, Calibrated(run.calibration, rows, part))
                >= MinimumAuc * 2 * run.holdout.pairs
        /\ run.holdout.count * run.holdout.brier
                < Square(Scale) * run.holdout.ones * (run.holdout.count - run.holdout.ones)

NothingLeaks(run) ==
    LET rows == run.dataset.rows
    IN  /\ \A h \in run.split.holdout :
            /\ \A i \in run.split.training \cup run.halves.fit \cup run.halves.evaluation :
                    rows[i].period < rows[h].period
            /\ run.trainedUntil < rows[h].period
        /\ Cardinality(run.split.training) + Cardinality(run.halves.fit)
                + Cardinality(run.halves.evaluation) + Cardinality(run.split.holdout)
            = Len(rows)

FitIsIsotonic(run) ==
    LET rows == run.dataset.rows
        ordered == InOrder(rows, run.halves.fit)
        blocks == FitIsotonic(rows, run.halves.fit)
    IN  Untied(rows, run.halves.fit) =>
            \A n \in DOMAIN ordered :
                IsIsotonicValue(rows, ordered, n, Isotonic(blocks, rows[ordered[n]].score))

ReleaseIsEarned ==
    trainingRun.outcome = "exported" =>
        /\ trainingRun.production => SignedForProduction(trainingRun) /\ GoodEnough(trainingRun)
        /\ NothingLeaks(trainingRun)
        /\ FitIsIsotonic(trainingRun)
=============================================================================
