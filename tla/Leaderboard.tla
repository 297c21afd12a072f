----------------------------- MODULE Leaderboard -----------------------------
\* The anonymous comparison of scores within a cohort (leaderboard/service.py,
\* infrastructure/leaderboard_repository.py).
EXTENDS SubjectTime, Integers, FiniteSets, Functions

CONSTANTS
  Cohorts,      \* age and household bands
  Scores,       \* scores in basis points
  MinimumSize,  \* minimum_cohort_size, at least 50 in the code
  DayLength,    \* readings of the clock per day
  TTLDays       \* days a contribution counts, 7 in the code

ASSUME LeaderboardAssumption ==
  /\ MinimumSize \in Nat \ {0} /\ DayLength \in Nat \ {0} /\ TTLDays \in Nat \ {0}
  /\ Scores \subseteq 0 .. 10000

VARIABLES
  contributions,  \* table leaderboard_contributions: <<cohort, subject, day>> -> row
  standing        \* the answer to the latest request

boardVars == <<contributions, standing>>

Day == now \div DayLength

NoStanding == [status |-> "none", of |-> Forgotten, counted |-> {}]

\* record_and_list: rows that have expired are deleted for everyone, the own row
\* of the day is written or replaced.
Recorded(cohort, s, score) ==
  LET live == {k \in DOMAIN contributions : contributions[k].expires > now}
  IN With(Restrict(contributions, live), <<cohort, s, Day>>,
          [score |-> score, expires |-> now + TTLDays * DayLength])

\* The rows of the others in the cohort.
Counted(table, cohort, s) ==
  {k \in DOMAIN table : k[1] = cohort /\ k[2] # s /\ table[k].expires > now}

\* percentile, in whole numbers: 100 * (less + equal / 2) / n, to the nearest 5.
PercentileBucket(less, equal, n) ==
  LET bucket == 5 * ((40 * less + 20 * equal + n) \div (2 * n))
  IN IF bucket > 100 THEN 100 ELSE bucket

\* percentile: one transaction records the score and reads the others' rows; the
\* answer is withheld below the minimum size. `of` and `counted` are kept to
\* state properties.
Percentile(cohort, s, score) ==
  LET table == Recorded(cohort, s, score)
      rows == Counted(table, cohort, s)
      less == {k \in rows : table[k].score < score}
      equal == {k \in rows : table[k].score = score}
  IN /\ contributions' = table
     /\ standing' =
          IF Cardinality(rows) < MinimumSize
          THEN [status |-> "insufficient_cohort", of |-> s, counted |-> rows]
          ELSE [status |-> "available", of |-> s, counted |-> rows,
                bucket |-> PercentileBucket(Cardinality(less), Cardinality(equal),
                                            Cardinality(rows))]

BoardInit == contributions = << >> /\ standing = NoStanding

BoardNext == \E cohort \in Cohorts, s \in Subjects, score \in Scores : Percentile(cohort, s, score)

-----------------------------------------------------------------------------
\* Types: one row per cohort, subject and day (leaderboard_contributions).
BoardTypeOK ==
  /\ DOMAIN contributions \subseteq Cohorts \X Subjects \X Nat
  /\ \A k \in DOMAIN contributions :
       contributions[k].score \in Scores /\ contributions[k].expires \in Nat

\* A percentile rests on at least as many other subjects as the threshold of
\* "k-anonymity" asks for (_MINIMUM_K_ANONYMITY). The code counts rows, one per
\* subject and day, and a row outlives its day.
PercentileIsKAnonymous ==
  standing.status = "available" =>
    Cardinality({k[2] : k \in standing.counted} \ {standing.of}) >= MinimumSize
=============================================================================
