---------------------------- MODULE ReleaseProofs ----------------------------
(***************************************************************************)
(* Theorem about the training pipeline, for any datasets, probabilities and *)
(* limits: a model that is released has earned it.  In order: the rank      *)
(* formula of ROC-AUC counts the pairs in the right order; the split keeps  *)
(* periods apart; the rows of a part in their order; pooling blocks; the    *)
(* calibration chosen and its types; fractions; the greatest convex         *)
(* minorant of the diagram of ones, which pooling keeps; its slope is the   *)
(* isotonic value; and the pipeline itself.                                 *)
(***************************************************************************)
EXTENDS ModelRelease, SumsAndRanks

-----------------------------------------------------------------------------
\* ROC-AUC.

\* The rank of a row, doubled, is what it is credited with against every row, and one.
LEMMA RankIsCredit ==
  ASSUME NEW part, IsFiniteSet(part), NEW p, DOMAIN p = part,
         \A i \in part : p[i] \in Int, NEW i \in part, NEW c,
         \A j \in part : c[j] = Credit(p, i, j)
  PROVE  DoubleRank(p, i) = SumOver(c, part) + 1 /\ SumOver(c, part) \in Int
<1> DEFINE B == {j \in part : p[j] < p[i]}
           T == {j \in part : p[j] = p[i]}
           below == [j \in part |-> IF j \in B THEN 1 ELSE 0]
           tied == [j \in part |-> IF j \in T THEN 1 ELSE 0]
           more == [j \in part |-> below[j] + tied[j]]
<1>1. /\ B \in SUBSET part /\ T \in SUBSET part
      /\ \A j \in part : /\ below[j] = IF j \in B THEN 1 ELSE 0
                         /\ tied[j] = IF j \in T THEN 1 ELSE 0
                         /\ more[j] = below[j] + tied[j]
      /\ \A j \in B : j \notin T
      /\ \A j \in part : c[j] = IF j \in B THEN 2 ELSE IF j \in T THEN 1 ELSE 0
  BY DEF Credit
<1>2. DoubleRank(p, i) = 2 * Cardinality(B) + Cardinality(T) + 1
  BY DEF DoubleRank
<1> HIDE DEF B, T, below, tied, more
<1>3. \A j \in part : /\ below[j] \in Int /\ tied[j] \in Int /\ more[j] \in Int /\ c[j] \in Int
                      /\ c[j] = below[j] + more[j]
  BY <1>1
<1>4. SumOver(below, part) = Cardinality(B) /\ SumOver(tied, part) = Cardinality(T)
  BY <1>1, SumOfCount
<1>5. SumOver(more, part) = SumOver(below, part) + SumOver(tied, part)
  BY <1>1, <1>3, SumOfBoth
<1>6. SumOver(c, part) = SumOver(below, part) + SumOver(more, part)
  BY <1>3, SumOfBoth
<1>7. Cardinality(B) \in Nat /\ Cardinality(T) \in Nat
  BY <1>1, FS_Subset, FS_CardinalityType
<1> QED BY <1>2, <1>4, <1>5, <1>6, <1>7

\* The credits of the positive rows against the others: RightOrder as a sum.
LEMMA RightOrderIsSum ==
  ASSUME NEW rows, NEW part, IsFiniteSet(part), NEW p, \A i \in part : p[i] \in Int,
         NEW c, \A i, j \in part : c[i][j] = Credit(p, i, j)
  PROVE  LET P == Positives(rows, part)
         IN  RightOrder(rows, part, p) = SumOver([i \in P |-> SumOver(c[i], part \ P)], P)
<1> DEFINE P == Positives(rows, part)
           N == part \ P
           against == [i \in P |-> SumFunction([j \in N |-> Credit(p, i, j)])]
           inN == [i \in P |-> SumOver(c[i], N)]
<1>1. P \in SUBSET part /\ N \in SUBSET part /\ IsFiniteSet(P) /\ IsFiniteSet(N)
  BY FS_Subset DEF Positives
<1>2. RightOrder(rows, part, p) = SumFunction(against)
  BY DEF RightOrder
<1> HIDE DEF P, N
<1>3. \A i \in P : against[i] = inN[i] /\ inN[i] \in Int
  <2> SUFFICES ASSUME NEW i \in P PROVE against[i] = inN[i] /\ inN[i] \in Int
    OBVIOUS
  <2> DEFINE g == [j \in N |-> Credit(p, i, j)]
  <2>1. i \in part /\ \A j \in N : g[j] = Credit(p, i, j) /\ g[j] \in Int
    BY <1>1 DEF Credit
  <2>2. DOMAIN g = N /\ against[i] = SumFunction(g) /\ inN[i] = SumOver(c[i], N)
    OBVIOUS
  <2> HIDE DEF g, against, inN
  <2>3. SumFunction(g) = SumOver(g, N) /\ SumFunction(g) \in Int
    BY <1>1, <2>1, <2>2, SumFunctionIs
  <2>4. \A j \in N : g[j] \in Int /\ c[i][j] = g[j]
    BY <1>1, <2>1
  <2>5. SumOver(c[i], N) = SumOver(g, N)
    BY <1>1, <2>4, SumOfSame
  <2> QED BY <2>2, <2>3, <2>5
<1>4. against = inN
  BY <1>3
<1>5. DOMAIN inN = P
  OBVIOUS
<1>6. SumFunction(inN) = SumOver(inN, P)
  <2> HIDE DEF inN
  <2> QED BY <1>1, <1>3, <1>5, SumFunctionIs
<1> QED BY <1>2, <1>4, <1>6 DEF P, N

\* The rank formula of ROC-AUC counts the pairs in the right order.
LEMMA AucIsRightOrder ==
  ASSUME NEW rows, NEW part, IsFiniteSet(part), NEW p, DOMAIN p = part,
         \A i \in part : p[i] \in Int
  PROVE  /\ DoubleAuc(rows, part, p) = RightOrder(rows, part, p)
         /\ RightOrder(rows, part, p) \in Int
<1> DEFINE P == Positives(rows, part)
           N == part \ P
           c == [i \in part |-> [j \in part |-> Credit(p, i, j)]]
           rank == [i \in P |-> DoubleRank(p, i)]
           inP == [i \in P |-> SumOver(c[i], P)]
           inN == [i \in P |-> SumOver(c[i], N)]
           both == [i \in P |-> inP[i] + inN[i]]
           one == [i \in P |-> 1]
<1>1. P \in SUBSET part /\ N \in SUBSET part /\ IsFiniteSet(P) /\ IsFiniteSet(N)
  BY FS_Subset DEF Positives
<1>2. Cardinality(P) \in Nat
  BY <1>1, FS_CardinalityType
<1>3. \A i, j \in part : c[i][j] = Credit(p, i, j)
  OBVIOUS
<1>4. \A i, j \in part : c[i][j] \in Int /\ c[i][j] + c[j][i] = 2
  BY <1>3 DEF Credit
<1>5. RightOrder(rows, part, p) = SumOver(inN, P)
  <2> HIDE DEF c
  <2> QED BY <1>3, RightOrderIsSum
<1>6. DoubleAuc(rows, part, p) = SumFunction(rank) - Cardinality(P) * (Cardinality(P) + 1)
  BY DEF DoubleAuc, Ones
<1>7. \A i \in P : /\ rank[i] = DoubleRank(p, i)
                   /\ inP[i] = SumOver(c[i], P) /\ inN[i] = SumOver(c[i], N)
                   /\ both[i] = inP[i] + inN[i] /\ one[i] = 1
  OBVIOUS
<1>8. DOMAIN rank = P /\ part \ P = N
  OBVIOUS
<1>9. inP = [i \in P |-> SumOver(c[i], P)]
  OBVIOUS
<1> HIDE DEF P, N, c, rank, inP, inN, both, one
<1>10. \A i \in P : /\ inP[i] \in Int /\ inN[i] \in Int /\ both[i] \in Int /\ one[i] \in Int
                    /\ rank[i] = both[i] + one[i]
  <2> SUFFICES ASSUME NEW i \in P
               PROVE  /\ inP[i] \in Int /\ inN[i] \in Int /\ rank[i] = inP[i] + inN[i] + 1
    BY <1>7
  <2>1. i \in part /\ \A j \in part : c[i][j] \in Int /\ c[i][j] = Credit(p, i, j)
    BY <1>1, <1>3, <1>4
  <2>2. DoubleRank(p, i) = SumOver(c[i], part) + 1
    BY <2>1, RankIsCredit
  <2>3. SumOver(c[i], part) = SumOver(c[i], P) + SumOver(c[i], N)
    BY <1>1, <1>8, <2>1, SumOfTwoParts
  <2>4. SumOver(c[i], P) \in Int /\ SumOver(c[i], N) \in Int
    BY <1>1, <2>1, SumTyped
  <2> QED BY <1>7, <2>2, <2>3, <2>4
<1>11. SumFunction(rank) = SumOver(rank, P)
  BY <1>1, <1>8, <1>10, SumFunctionIs
<1>12. SumOver(rank, P) = SumOver(both, P) + SumOver(one, P)
  BY <1>1, <1>10, SumOfBoth
<1>13. SumOver(both, P) = SumOver(inP, P) + SumOver(inN, P)
  BY <1>1, <1>7, <1>10, SumOfBoth
<1>14. SumOver(one, P) = Cardinality(P)
  <2>1. \A i \in P : one[i] = IF i \in P THEN 1 ELSE 0
    BY <1>7
  <2> QED BY <1>1, <2>1, SumOfCount
<1>15. SumOver(inP, P) = Cardinality(P) * Cardinality(P)
  <2>1. \A i, j \in P : c[i][j] \in Int /\ c[i][j] + c[j][i] = 2
    BY <1>1, <1>4
  <2> QED BY <1>1, <1>9, <2>1, SumOfPairs
<1>16. SumOver(inN, P) \in Int
  BY <1>1, <1>10, SumTyped
<1> DEFINE n == Cardinality(P)
           square == n * n
<1>17. square \in Nat /\ n * (n + 1) = square + n
  BY <1>2
<1> HIDE DEF n, square
<1>18. /\ DoubleAuc(rows, part, p) = SumOver(rank, P) - (square + n)
       /\ SumOver(rank, P) = square + SumOver(inN, P) + n /\ n \in Nat
  BY <1>2, <1>6, <1>11, <1>12, <1>13, <1>14, <1>15, <1>17 DEF n, square
<1> QED BY <1>5, <1>16, <1>17, <1>18

-----------------------------------------------------------------------------
\* The split in time.
LEMMA GreatestIs ==
  ASSUME NEW S, S \subseteq Int, IsFiniteSet(S), S # {}
  PROVE  Greatest(S) \in S /\ \A y \in S : y <= Greatest(S)
<1> DEFINE size == [x \in S |-> -x]
<1>1. \A x \in S : size[x] = -x /\ size[x] \in Int /\ x \in Int
  OBVIOUS
<1> HIDE DEF size
<1>2. PICK x \in S : \A y \in S : size[x] <= size[y]
  BY <1>1, LeastExists
<1>3. \A y \in S : y <= x
  BY <1>1, <1>2
<1> QED BY <1>3 DEF Greatest

\* PeriodAt finds the n-th period.
LEMMA PeriodFound ==
  ASSUME NEW S \in SUBSET Nat, IsFiniteSet(S), NEW n \in 1 .. Cardinality(S)
  PROVE  PeriodAt(S, n) \in S /\ Cardinality({q \in S : q <= PeriodAt(S, n)}) = n
<1> DEFINE order == {e \in S \X S : e[1] < e[2]}
<1>1. \A a, b \in S : <<a, b>> \in order <=> a < b
  OBVIOUS
<1>2. order \in SUBSET (S \X S)
  OBVIOUS
<1>3. \A c \in S : BeforeIn(S, order, c) = {d \in S : d < c}
  BY <1>1 DEF BeforeIn
<1> HIDE DEF order
<1>4. /\ \A a, b, c \in S : <<a, b>> \in order /\ <<b, c>> \in order => <<a, c>> \in order
      /\ \A a \in S : <<a, a>> \notin order
      /\ \A a, b \in S : a = b \/ <<a, b>> \in order \/ <<b, a>> \in order
  BY <1>1
<1>5. Cardinality(S) \in Nat
      /\ \A m \in 0 .. (Cardinality(S) - 1) : \E c \in S : Cardinality(BeforeIn(S, order, c)) = m
  BY <1>2, <1>4, RanksAreTaken
<1>6. n - 1 \in 0 .. (Cardinality(S) - 1)
  BY <1>5
<1>7. PICK c \in S : Cardinality(BeforeIn(S, order, c)) = n - 1
  BY <1>5, <1>6
<1>8. Cardinality({d \in S : d < c}) = n - 1
  BY <1>3, <1>7
<1>9. {q \in S : q <= c} = {d \in S : d < c} \cup {c} /\ c \notin {d \in S : d < c}
  <2>1. \A q \in S : q \in Nat
    OBVIOUS
  <2>2. \A q \in S : q <= c <=> q < c \/ q = c
    BY <2>1
  <2>3. ~(c < c)
    BY <2>1
  <2> QED BY <2>2, <2>3
<1>10. IsFiniteSet({d \in S : d < c})
  BY FS_Subset
<1>11. Cardinality({d \in S : d < c} \cup {c}) = n
  <2>1. Cardinality({d \in S : d < c} \cup {c}) = Cardinality({d \in S : d < c}) + 1
    BY <1>9, <1>10, FS_AddElement
  <2>2. n \in Int
    BY FS_CardinalityType
  <2> QED BY <1>8, <2>1, <2>2
<1>12. \E p \in S : Cardinality({q \in S : q <= p}) = n
  BY <1>9, <1>11
<1> QED BY <1>12 DEF PeriodAt

\* Later positions hold later periods.
LEMMA PeriodsAscend ==
  ASSUME NEW S \in SUBSET Nat, IsFiniteSet(S),
         NEW m \in 1 .. Cardinality(S), NEW n \in 1 .. Cardinality(S), m < n
  PROVE  PeriodAt(S, m) < PeriodAt(S, n)
<1> DEFINE p == PeriodAt(S, m)
           q == PeriodAt(S, n)
<1>1. /\ p \in S /\ Cardinality({x \in S : x <= p}) = m
      /\ q \in S /\ Cardinality({x \in S : x <= q}) = n
  BY PeriodFound
<1> SUFFICES p < q
  OBVIOUS
<1> HIDE DEF p, q
<1>2. \A x \in S : x \in Nat
  OBVIOUS
<1> SUFFICES ASSUME q <= p PROVE FALSE
  BY <1>1, <1>2
<1>3. {x \in S : x <= q} \in SUBSET {x \in S : x <= p}
  <2>1. \A x \in S : x <= q => x <= p
    BY <1>1, <1>2
  <2> QED BY <2>1
<1>4. IsFiniteSet({x \in S : x <= p})
  BY FS_Subset
<1>5. Cardinality({x \in S : x <= q}) <= Cardinality({x \in S : x <= p})
  BY <1>3, <1>4, FS_Subset
<1>6. Cardinality(S) \in Nat
  BY FS_CardinalityType
<1>7. m \in Int /\ n \in Int
  BY <1>6
<1> QED BY <1>1, <1>5, <1>7

\* Two fifths leave something to train on, and a fifth is not empty.
LEMMA FifthFits ==
  ASSUME NEW n \in Nat, n >= 3
  PROVE  Fifth(n) \in Nat /\ 1 <= Fifth(n) /\ 1 <= n - 2 * Fifth(n)
<1> DEFINE r == (2 * n + 5) \div 10
<1>1. r \in Nat /\ 10 * r <= 2 * n + 5
  OBVIOUS
<1>2. Fifth(n) = IF r < 1 THEN 1 ELSE r
  BY DEF Fifth
<1> HIDE DEF r
<1> QED BY <1>1, <1>2

\* The periods of a part of the dataset are finitely many naturals.
LEMMA PeriodsAreNats ==
  ASSUME NEW dataset \in Datasets, NEW part \in SUBSET DOMAIN dataset.rows
  PROVE  /\ Periods(dataset.rows, part) \in SUBSET Nat
         /\ IsFiniteSet(Periods(dataset.rows, part)) /\ IsFiniteSet(part)
         /\ Cardinality(Periods(dataset.rows, part)) \in Nat
         /\ part # {} => Periods(dataset.rows, part) # {}
         /\ \A i \in part : dataset.rows[i].period \in Periods(dataset.rows, part)
<1> DEFINE rows == dataset.rows
           of == [i \in part |-> rows[i].period]
<1>1. \A i \in part : rows[i].period \in Nat
  BY ReleaseAssumption
<1>2. Len(rows) \in Nat /\ DOMAIN rows = 1 .. Len(rows)
  BY ReleaseAssumption
<1>3. IsFiniteSet(part)
  <2>1. IsFiniteSet(1 .. Len(rows))
    BY <1>2, FS_Interval
  <2> QED BY <1>2, <2>1, FS_Subset
<1>4. of \in Surjection(part, Periods(rows, part))
  BY DEF Periods, Surjection
<1>5. IsFiniteSet(Periods(rows, part))
  <2> HIDE DEF of
  <2> QED BY <1>3, <1>4, FS_Surjection
<1>6. Cardinality(Periods(rows, part)) \in Nat
  BY <1>5, FS_CardinalityType
<1> QED BY <1>1, <1>3, <1>5, <1>6 DEF Periods

\* A dataset of at least three periods splits into three parts in the order of
\* time that have a row each and together all rows.
LEMMA SplitInTime ==
  ASSUME NEW dataset \in Datasets,
         Cardinality(Periods(dataset.rows, DOMAIN dataset.rows)) >= 3
  PROVE  LET rows == dataset.rows
             split == TemporalSplit(rows)
         IN  /\ split.training \cup split.validation \cup split.holdout = DOMAIN rows
             /\ split.training # {}
             /\ \A i \in split.training, v \in split.validation :
                    rows[i].period < rows[v].period
             /\ \A i \in split.training \cup split.validation, h \in split.holdout :
                    rows[i].period < rows[h].period
<1> DEFINE rows == dataset.rows
           all == DOMAIN rows
           periods == Periods(rows, all)
           n == Cardinality(periods)
           first == n - 2 * Fifth(n)
           second == n - Fifth(n)
           trainingEnd == PeriodAt(periods, first)
           validationEnd == PeriodAt(periods, second)
           split == TemporalSplit(rows)
<1>1. /\ periods \in SUBSET Nat /\ IsFiniteSet(periods) /\ n \in Nat /\ n >= 3
      /\ \A i \in all : rows[i].period \in periods
  BY PeriodsAreNats
<1>2. first \in 1 .. n /\ second \in 1 .. n /\ first < second
  BY <1>1, FifthFits
<1>3. /\ split.training = Between(rows, all, -1, trainingEnd)
      /\ split.validation = Between(rows, all, trainingEnd, validationEnd)
      /\ split.holdout = Between(rows, all, validationEnd, Greatest(periods))
  BY DEF TemporalSplit
<1>4. \A p \in periods : \E i \in all : p = rows[i].period
  BY DEF Periods
<1> HIDE DEF first, second, n, split
<1>5. trainingEnd \in periods /\ validationEnd \in periods /\ trainingEnd < validationEnd
  BY <1>1, <1>2, PeriodFound, PeriodsAscend DEF n
<1> HIDE DEF trainingEnd, validationEnd, periods, all
<1>6. Greatest(periods) \in Nat /\ \A p \in periods : p <= Greatest(periods)
  <2>1. periods \subseteq Int /\ periods # {}
    BY <1>1, <1>5
  <2> QED BY <1>1, <2>1, GreatestIs
<1>7. \A i \in all : rows[i].period \in Nat /\ rows[i].period <= Greatest(periods)
  BY <1>1, <1>6
<1>8. trainingEnd \in Nat /\ validationEnd \in Nat
  BY <1>1, <1>5
<1>9. /\ split.training = {i \in all : rows[i].period <= trainingEnd}
      /\ split.validation = {i \in all : trainingEnd < rows[i].period /\ rows[i].period <= validationEnd}
      /\ split.holdout = {i \in all : validationEnd < rows[i].period}
  BY <1>3, <1>7, <1>8 DEF Between
<1>10. split.training # {}
  <2>1. PICK i \in all : trainingEnd = rows[i].period
    BY <1>4, <1>5
  <2> QED BY <1>7, <1>9, <2>1
<1>11. split.training \cup split.validation \cup split.holdout = all
  BY <1>5, <1>7, <1>8, <1>9
<1>12. \A i \in split.training, v \in split.validation : rows[i].period < rows[v].period
  BY <1>7, <1>8, <1>9
<1>13. \A i \in split.training \cup split.validation, h \in split.holdout :
          rows[i].period < rows[h].period
  BY <1>5, <1>7, <1>8, <1>9
<1> HIDE DEF rows
<1> QED BY <1>10, <1>11, <1>12, <1>13 DEF rows, all, split

\* The validation rows split into an earlier half that has a row and a later one.
LEMMA HalvesInTime ==
  ASSUME NEW dataset \in Datasets, NEW part \in SUBSET DOMAIN dataset.rows,
         Cardinality(Periods(dataset.rows, part)) >= 2
  PROVE  LET rows == dataset.rows
             halves == SplitValidation(rows, part)
         IN  /\ halves.fit \cup halves.evaluation = part /\ halves.fit # {}
             /\ \A i \in halves.fit, e \in halves.evaluation : rows[i].period < rows[e].period
<1> DEFINE rows == dataset.rows
           periods == Periods(rows, part)
           n == Cardinality(periods)
           boundary == PeriodAt(periods, n \div 2)
           halves == SplitValidation(rows, part)
<1>1. /\ periods \in SUBSET Nat /\ IsFiniteSet(periods) /\ n \in Nat /\ n >= 2
      /\ \A i \in part : rows[i].period \in periods
  BY PeriodsAreNats
<1>2. n \div 2 \in 1 .. n
  <2> HIDE DEF n
  <2> QED BY <1>1
<1>3. /\ halves.fit = Between(rows, part, -1, boundary)
      /\ halves.evaluation = Between(rows, part, boundary, Greatest(periods))
  BY DEF SplitValidation
<1>4. \A p \in periods : \E i \in part : p = rows[i].period
  BY DEF Periods
<1>5. boundary \in periods
  BY <1>1, <1>2, PeriodFound
<1> HIDE DEF boundary, n, periods, halves
<1>6. Greatest(periods) \in Nat /\ \A p \in periods : p <= Greatest(periods)
  <2>1. periods \subseteq Int /\ periods # {}
    BY <1>1, <1>5
  <2> QED BY <1>1, <2>1, GreatestIs
<1>7. \A i \in part : rows[i].period \in Nat /\ rows[i].period <= Greatest(periods)
  BY <1>1, <1>6
<1>8. boundary \in Nat
  BY <1>1, <1>5
<1>9. /\ halves.fit = {i \in part : rows[i].period <= boundary}
      /\ halves.evaluation = {i \in part : boundary < rows[i].period}
  BY <1>3, <1>7, <1>8 DEF Between
<1>10. halves.fit # {}
  <2>1. PICK i \in part : boundary = rows[i].period
    BY <1>4, <1>5
  <2> QED BY <1>7, <1>9, <2>1
<1>11. halves.fit \cup halves.evaluation = part
  BY <1>7, <1>8, <1>9
<1>12. \A i \in halves.fit, e \in halves.evaluation : rows[i].period < rows[e].period
  BY <1>7, <1>8, <1>9
<1> HIDE DEF rows
<1> QED BY <1>10, <1>11, <1>12 DEF rows, halves

\* Sets without a common member.
LEMMA CountOfParts ==
  ASSUME NEW A, IsFiniteSet(A), NEW B, IsFiniteSet(B), A \cap B = {}
  PROVE  /\ IsFiniteSet(A \cup B)
         /\ Cardinality(A \cup B) = Cardinality(A) + Cardinality(B)
         /\ Cardinality(A) \in Nat /\ Cardinality(B) \in Nat
<1>1. Cardinality(A \cap B) = 0
  BY FS_EmptySet
<1>2. Cardinality(A) \in Nat /\ Cardinality(B) \in Nat
  BY FS_CardinalityType
<1>3. /\ IsFiniteSet(A \cup B)
      /\ Cardinality(A \cup B) = Cardinality(A) + Cardinality(B) - Cardinality(A \cap B)
  BY FS_Union
<1> QED BY <1>1, <1>2, <1>3

\* The split of a run: what NothingLeaks asks for.
LEMMA SplitKeepsApart ==
  ASSUME NEW dataset \in Datasets,
         Cardinality(Periods(dataset.rows, DOMAIN dataset.rows)) >= 3,
         NEW run, run.dataset = dataset, run.split = TemporalSplit(dataset.rows),
         Cardinality(Periods(dataset.rows, run.split.validation)) >= 2,
         run.halves = SplitValidation(dataset.rows, run.split.validation),
         run.trainedUntil = Greatest(Periods(dataset.rows, run.split.training))
  PROVE  NothingLeaks(run)
<1> DEFINE rows == dataset.rows
           T == run.split.training
           V == run.split.validation
           H == run.split.holdout
           F == run.halves.fit
           E == run.halves.evaluation
<1>1. /\ T \cup V \cup H = DOMAIN rows /\ T # {}
      /\ \A i \in T, v \in V : rows[i].period < rows[v].period
      /\ \A i \in T \cup V, h \in H : rows[i].period < rows[h].period
  BY SplitInTime
<1>2. V \in SUBSET DOMAIN rows
  BY <1>1
<1>3. /\ F \cup E = V /\ \A i \in F, e \in E : rows[i].period < rows[e].period
  <2> HIDE DEF V
  <2>1. /\ Cardinality(Periods(dataset.rows, V)) >= 2
        /\ run.halves = SplitValidation(dataset.rows, V)
    BY DEF V
  <2> QED BY <1>2, <2>1, HalvesInTime
<1>4. \A i \in DOMAIN rows : rows[i].period \in Nat
  BY ReleaseAssumption
<1>5. Len(rows) \in Nat /\ DOMAIN rows = 1 .. Len(rows)
  BY ReleaseAssumption
<1>6. run.trainedUntil = Greatest(Periods(rows, T)) /\ T \in SUBSET DOMAIN rows
  BY <1>1
<1> HIDE DEF T, V, H, F, E
<1>7. \E i \in T : run.trainedUntil = rows[i].period
  <2>1. /\ Periods(rows, T) \in SUBSET Nat /\ IsFiniteSet(Periods(rows, T))
        /\ Periods(rows, T) # {}
    BY <1>1, <1>6, PeriodsAreNats
  <2>2. Periods(rows, T) \subseteq Int
    BY <2>1
  <2>3. run.trainedUntil \in Periods(rows, T)
    BY <1>6, <2>1, <2>2, GreatestIs
  <2> QED BY <2>3 DEF Periods
<1>8. /\ T \cap V = {} /\ (T \cup V) \cap H = {} /\ F \cap E = {}
  BY <1>1, <1>3, <1>4
<1>13. IsFiniteSet(DOMAIN rows) /\ Cardinality(DOMAIN rows) = Len(rows)
  <2> DEFINE len == Len(rows)
  <2>1. len \in Nat /\ DOMAIN rows = 1 .. len
    BY <1>5
  <2> HIDE DEF len
  <2>2. IsFiniteSet(1 .. len) /\ Cardinality(1 .. len) = len
    BY <2>1, FS_Interval
  <2> QED BY <2>1, <2>2, Zenon DEF len
<1>9. IsFiniteSet(T) /\ IsFiniteSet(H) /\ IsFiniteSet(F) /\ IsFiniteSet(E)
  BY <1>1, <1>3, <1>13, FS_Subset
<1>10. Cardinality(V) = Cardinality(F) + Cardinality(E) /\ IsFiniteSet(V)
  BY <1>3, <1>8, <1>9, CountOfParts
<1>11. Cardinality(T \cup V) = Cardinality(T) + Cardinality(V) /\ IsFiniteSet(T \cup V)
  BY <1>8, <1>9, <1>10, CountOfParts
<1>12. Cardinality(DOMAIN rows) = Cardinality(T \cup V) + Cardinality(H)
  BY <1>1, <1>8, <1>9, <1>11, CountOfParts
<1>14. /\ Cardinality(T) \in Nat /\ Cardinality(F) \in Nat /\ Cardinality(E) \in Nat
       /\ Cardinality(H) \in Nat
  BY <1>9, FS_CardinalityType
<1>15. Cardinality(T) + Cardinality(F) + Cardinality(E) + Cardinality(H) = Len(rows)
  BY <1>10, <1>11, <1>12, <1>13, <1>14
<1>16. \A h \in H : /\ \A i \in T \cup F \cup E : rows[i].period < rows[h].period
                    /\ run.trainedUntil < rows[h].period
  BY <1>1, <1>3, <1>7
<1> QED BY <1>15, <1>16 DEF NothingLeaks, T, V, H, F, E

-----------------------------------------------------------------------------
\* The rows of a part in order of score and label.
Rows(rows, part) ==
  /\ IsFiniteSet(part) /\ part \subseteq Int
  /\ \A i \in part : rows[i].score \in Int /\ rows[i].label \in {0, 1}

\* The order of rows is total.
LEMMA ScoresOrder ==
  ASSUME NEW rows, NEW part, Rows(rows, part)
  PROVE  /\ \A i, j, k \in part : ByScore(rows, i, j) /\ ByScore(rows, j, k) => ByScore(rows, i, k)
         /\ \A i \in part : ~ByScore(rows, i, i)
         /\ \A i, j \in part : i = j \/ ByScore(rows, i, j) \/ ByScore(rows, j, i)
<1>1. \A i \in part : rows[i].score \in Int /\ rows[i].label \in Int /\ i \in Int
  BY DEF Rows
<1> QED BY <1>1 DEF ByScore

\* InOrder lists every row of a part once, in order.
LEMMA RowsInOrder ==
  ASSUME NEW rows, NEW part, Rows(rows, part)
  PROVE  LET ordered == InOrder(rows, part)
         IN  /\ Cardinality(part) \in Nat
             /\ ordered \in [1 .. Cardinality(part) -> part]
             /\ Len(ordered) = Cardinality(part)
             /\ \A m, n \in 1 .. Cardinality(part) :
                    m < n => ByScore(rows, ordered[m], ordered[n])
<1> DEFINE order == {e \in part \X part : ByScore(rows, e[1], e[2])}
           ordered == InOrder(rows, part)
           size == Cardinality(part)
           before(i) == Cardinality({j \in part : ByScore(rows, j, i)})
<1>1. \A i, j \in part : <<i, j>> \in order <=> ByScore(rows, i, j)
  OBVIOUS
<1>2. order \in SUBSET (part \X part)
  OBVIOUS
<1>3. \A i \in part : BeforeIn(part, order, i) = {j \in part : ByScore(rows, j, i)}
  BY <1>1 DEF BeforeIn
<1> HIDE DEF order
<1>4. /\ \A a, b, c \in part : <<a, b>> \in order /\ <<b, c>> \in order => <<a, c>> \in order
      /\ \A a \in part : <<a, a>> \notin order
      /\ \A a, b \in part : a = b \/ <<a, b>> \in order \/ <<b, a>> \in order
  BY <1>1, ScoresOrder
<1>5. IsFiniteSet(part)
  BY DEF Rows
<1>6. /\ size \in Nat
      /\ \A c, d \in part : <<c, d>> \in order =>
            Cardinality(BeforeIn(part, order, c)) < Cardinality(BeforeIn(part, order, d))
      /\ \A n \in 0 .. (size - 1) : \E c \in part : Cardinality(BeforeIn(part, order, c)) = n
  BY <1>2, <1>4, <1>5, RanksAreTaken
<1>7. /\ \A i, j \in part : ByScore(rows, i, j) => before(i) < before(j)
      /\ \A n \in 0 .. (size - 1) : \E i \in part : before(i) = n
  BY <1>1, <1>3, <1>6
<1>8. ordered = [n \in 1 .. size |-> CHOOSE i \in part : before(i) = n - 1]
  BY DEF InOrder
<1> HIDE DEF ordered, size, before
<1>9. \A n \in 1 .. size : ordered[n] \in part /\ before(ordered[n]) = n - 1
  <2> SUFFICES ASSUME NEW n \in 1 .. size
               PROVE  ordered[n] \in part /\ before(ordered[n]) = n - 1
    OBVIOUS
  <2>1. n - 1 \in 0 .. (size - 1)
    BY <1>6
  <2>2. \E i \in part : before(i) = n - 1
    BY <1>7, <2>1
  <2>3. ordered[n] = CHOOSE i \in part : before(i) = n - 1
    BY <1>8
  <2> QED BY <2>2, <2>3
<1>10. ordered \in [1 .. size -> part]
  BY <1>8, <1>9
<1>11. Len(ordered) = size
  BY <1>6, <1>10
<1>12. ASSUME NEW m \in 1 .. size, NEW n \in 1 .. size, m < n
       PROVE  ByScore(rows, ordered[m], ordered[n])
  <2>1. ordered[m] \in part /\ ordered[n] \in part
    BY <1>9
  <2>2. before(ordered[m]) = m - 1 /\ before(ordered[n]) = n - 1 /\ m \in Int /\ n \in Int
    BY <1>6, <1>9
  <2>3. ordered[m] # ordered[n]
    BY <1>12, <2>2
  <2>4. ~ByScore(rows, ordered[n], ordered[m])
    <3>1. ~(before(ordered[n]) < before(ordered[m]))
      BY <1>12, <2>2
    <3> QED BY <1>7, <2>1, <3>1
  <2> QED BY <2>1, <2>3, <2>4, ScoresOrder
<1> QED BY <1>6, <1>10, <1>11, <1>12 DEF ordered, size

-----------------------------------------------------------------------------
\* Pooling.
Blocks == [upTo : Int, ones : Nat, size : Nat \ {0}]

\* The last blocks merged, one more at each step.
Tops(blocks, k, top) ==
  top = [m \in 1 .. k |->
          IF m = 1 THEN blocks[Len(blocks)]
          ELSE Block(blocks[Len(blocks)].upTo,
                     blocks[Len(blocks) - m + 1].ones + top[m - 1].ones,
                     blocks[Len(blocks) - m + 1].size + top[m - 1].size)]

\* The recursion of PoolBlocks is well defined,
LEMMA TopsExist ==
  ASSUME NEW blocks, NEW n \in Nat
  PROVE  \E top : Tops(blocks, n, top)
<1> DEFINE G == {k \in 0 .. n : \E top : Tops(blocks, k, top)}
<1>1. 0 \in G
  <2> DEFINE top == [m \in 1 .. 0 |-> 0]
  <2>1. Tops(blocks, 0, top)
    BY DEF Tops
  <2> QED BY <2>1
<1>2. ASSUME NEW k \in 0 .. n, k # n, k \in G PROVE k + 1 \in G
  <2>1. PICK top : Tops(blocks, k, top)
    BY <1>2
  <2> DEFINE last == blocks[Len(blocks)]
             step(m, b) == Block(last.upTo, blocks[Len(blocks) - m + 1].ones + b.ones,
                                 blocks[Len(blocks) - m + 1].size + b.size)
             new == IF k = 0 THEN last ELSE step(k + 1, top[k])
             more == [m \in 1 .. k + 1 |-> IF m = k + 1 THEN new ELSE top[m]]
  <2>2. \A m \in 1 .. k : top[m] = IF m = 1 THEN last ELSE step(m, top[m - 1])
    BY <2>1 DEF Tops
  <2>3. \A m \in 1 .. k + 1 : more[m] = IF m = k + 1 THEN new ELSE top[m]
    OBVIOUS
  <2>4. more = [m \in 1 .. k + 1 |-> more[m]]
    OBVIOUS
  <2> HIDE DEF more, last, step
  <2>5. \A m \in 1 .. k + 1 : more[m] = IF m = 1 THEN last ELSE step(m, more[m - 1])
    <3> TAKE m \in 1 .. k + 1
    <3>1. CASE m = k + 1
      <4>1. m = 1 <=> k = 0
        BY <3>1
      <4>2. m # 1 => more[m - 1] = top[k]
        BY <2>3, <3>1
      <4>3. more[m] = new
        BY <2>3, <3>1
      <4> QED BY <3>1, <4>1, <4>2, <4>3
    <3>2. CASE m # k + 1
      <4>1. m \in 1 .. k
        BY <3>2
      <4>2. more[m] = top[m]
        BY <2>3, <3>2
      <4>3. m # 1 => more[m - 1] = top[m - 1]
        BY <2>3, <4>1
      <4> QED BY <2>2, <4>1, <4>2, <4>3
    <3> QED BY <3>1, <3>2
  <2>6. Tops(blocks, k + 1, more)
    BY <2>4, <2>5 DEF Tops, last, step
  <2>7. k + 1 \in 0 .. n
    BY <1>2
  <2> QED BY <2>6, <2>7
<1>3. 0 .. n \subseteq G
  <2> HIDE DEF G
  <2> QED BY <1>1, <1>2, Reaches
<1> QED BY <1>3

\* and merges blocks into blocks.
LEMMA TopsAreBlocks ==
  ASSUME NEW blocks \in Seq(Blocks), NEW top, Tops(blocks, Len(blocks), top)
  PROVE  \A m \in 1 .. Len(blocks) : top[m] \in Blocks
<1> DEFINE n == Len(blocks)
           G == {k \in 0 .. n : k # 0 => top[k] \in Blocks}
<1>1. n \in Nat /\ \A i \in 1 .. n : blocks[i] \in Blocks
  OBVIOUS
<1>2. 0 \in G
  BY <1>1
<1>3. ASSUME NEW k \in 0 .. n, k # n, k \in G PROVE k + 1 \in G
  <2>1. k + 1 \in 1 .. n /\ n - (k + 1) + 1 \in 1 .. n /\ n \in 1 .. n
    BY <1>1, <1>3
  <2>2. top[k + 1] = IF k + 1 = 1 THEN blocks[n]
                     ELSE Block(blocks[n].upTo, blocks[n - (k + 1) + 1].ones + top[k].ones,
                                blocks[n - (k + 1) + 1].size + top[k].size)
    <3>1. (k + 1) - 1 = k
      OBVIOUS
    <3> QED BY <2>1, <3>1 DEF Tops
  <2>3. blocks[n] \in Blocks /\ blocks[n - (k + 1) + 1] \in Blocks /\ (k # 0 => top[k] \in Blocks)
    BY <1>1, <1>3, <2>1
  <2> HIDE DEF n
  <2>4. ASSUME NEW b \in Blocks, NEW c \in Blocks, NEW d \in Blocks
        PROVE  Block(b.upTo, c.ones + d.ones, c.size + d.size) \in Blocks
    <3>1. b.upTo \in Int /\ c.ones + d.ones \in Nat /\ c.size + d.size \in Nat \ {0}
      BY DEF Blocks
    <3> QED BY <3>1 DEF Blocks, Block
  <2>5. k = 0 => top[k + 1] = blocks[n]
    BY <2>2
  <2>6. k # 0 => top[k + 1] = Block(blocks[n].upTo, blocks[n - (k + 1) + 1].ones + top[k].ones,
                                    blocks[n - (k + 1) + 1].size + top[k].size)
    BY <2>2
  <2>7. top[k + 1] \in Blocks
    BY <2>3, <2>4, <2>5, <2>6
  <2> QED BY <2>1, <2>7
<1>4. 0 .. n \subseteq G
  <2> HIDE DEF G, n
  <2> QED BY <1>1, <1>2, <1>3, Reaches
<1> QED BY <1>1, <1>4

\* What PoolBlocks does: it merges the last m blocks, with m the first at which
\* the block before is not above.
Pooling(blocks, top, m) ==
  LET n == Len(blocks)
  IN  /\ Tops(blocks, n, top)
      /\ PoolBlocks(blocks) = Append(SubSeq(blocks, 1, n - m), top[m])
      /\ m = n \/ ~MeanAbove(blocks[n - m], top[m])
      /\ \A k \in 1 .. (m - 1) : MeanAbove(blocks[n - k], top[k])

\* Pooling merges the last m blocks, for some m.
LEMMA Pools ==
  ASSUME NEW blocks \in Seq(Blocks), blocks # <<>>
  PROVE  \E top : \E m \in 1 .. Len(blocks) : Pooling(blocks, top, m)
<1> DEFINE n == Len(blocks)
           top == CHOOSE top : Tops(blocks, n, top)
           Stops(m) == m = n \/ ~MeanAbove(blocks[n - m], top[m])
           Good(m) == Stops(m) /\ \A k \in 1 .. (m - 1) : MeanAbove(blocks[n - k], top[k])
           merged == CHOOSE m \in 1 .. n : Good(m)
           D == {m \in 1 .. n : Stops(m)}
<1>1. n \in Nat /\ n >= 1
  OBVIOUS
<1>2. Tops(blocks, n, top)
  <2>1. \E t : Tops(blocks, n, t)
    BY <1>1, TopsExist
  <2> QED BY <2>1
<1>3. PoolBlocks(blocks) = Append(SubSeq(blocks, 1, n - merged), top[merged])
  BY DEF PoolBlocks, Tops
<1> HIDE DEF top
<1>4. D \subseteq Int /\ IsFiniteSet(D) /\ n \in D
  <2>1. IsFiniteSet(1 .. n) /\ D \in SUBSET (1 .. n)
    BY <1>1, FS_Interval
  <2> QED BY <1>1, <2>1, FS_Subset
<1> HIDE DEF n
<1>5. PICK m \in D : \A k \in D : m <= k
  <2> HIDE DEF D
  <2> QED BY <1>4, LeastMember
<1>6. m \in 1 .. n /\ Stops(m)
  BY <1>5
<1>7. \A k \in 1 .. (m - 1) : MeanAbove(blocks[n - k], top[k])
  <2> SUFFICES ASSUME NEW k \in 1 .. (m - 1) PROVE MeanAbove(blocks[n - k], top[k])
    OBVIOUS
  <2>1. k \in 1 .. n /\ ~(m <= k)
    BY <1>1, <1>6
  <2>2. k \notin D
    BY <1>5, <2>1
  <2>3. ~Stops(k)
    BY <2>1, <2>2
  <2> QED BY <2>3
<1>8. \E k \in 1 .. n : Good(k)
  BY <1>6, <1>7
<1>9. merged \in 1 .. n /\ Good(merged)
  <2> HIDE DEF Good
  <2> QED BY <1>8
<1> HIDE DEF merged
<1>10. Pooling(blocks, top, merged)
  BY <1>2, <1>3, <1>9 DEF n, Pooling
<1> QED BY <1>9, <1>10 DEF n

\* What is pooled is a list of blocks, and not empty;
LEMMA PoolKeepsBlocks ==
  ASSUME NEW blocks \in Seq(Blocks), blocks # <<>>
  PROVE  PoolBlocks(blocks) \in Seq(Blocks) /\ PoolBlocks(blocks) # <<>>
<1>1. PICK top : \E m \in 1 .. Len(blocks) : Pooling(blocks, top, m)
  BY Pools
<1>2. PICK m \in 1 .. Len(blocks) : Pooling(blocks, top, m)
  BY <1>1
<1> DEFINE kept == SubSeq(blocks, 1, Len(blocks) - m)
<1>3. PoolBlocks(blocks) = Append(kept, top[m]) /\ top[m] \in Blocks
  BY <1>2, TopsAreBlocks DEF Pooling
<1>4. kept \in Seq(Blocks)
  OBVIOUS
<1> HIDE DEF kept
<1>5. Append(kept, top[m]) \in Seq(Blocks) /\ Append(kept, top[m]) # <<>>
  BY <1>3, <1>4
<1> QED BY <1>3, <1>5

\* so is what a row was added to.
LEMMA AddKeepsBlocks ==
  ASSUME NEW blocks \in Seq(Blocks), NEW row, row.score \in Int, row.label \in {0, 1}
  PROVE  AddRow(blocks, row) \in Seq(Blocks) /\ AddRow(blocks, row) # <<>>
<1>1. Block(row.score, row.label, 1) \in Blocks
  BY DEF Block, Blocks
<1>2. CASE blocks # <<>> /\ Last(blocks).upTo = row.score
  <2>1. Last(blocks) \in Blocks
    BY <1>2 DEF Last
  <2>2. Block(row.score, Last(blocks).ones + row.label, Last(blocks).size + 1) \in Blocks
    BY <2>1 DEF Block, Blocks
  <2>3. Front(blocks) \in Seq(Blocks)
    BY <1>2 DEF Front
  <2> QED BY <1>2, <2>2, <2>3 DEF AddRow
<1>3. CASE ~(blocks # <<>> /\ Last(blocks).upTo = row.score)
  BY <1>1, <1>3 DEF AddRow
<1> QED BY <1>2, <1>3

\* The blocks after each row of the order.
IsFit(rows, ordered, N, fit) ==
  fit = [n \in 0 .. N |->
          IF n = 0 THEN <<>> ELSE PoolBlocks(AddRow(fit[n - 1], rows[ordered[n]]))]

\* The recursion of FitIsotonic is well defined,
LEMMA FitsExist ==
  ASSUME NEW rows, NEW ordered, NEW N \in Nat
  PROVE  \E fit : IsFit(rows, ordered, N, fit)
<1> DEFINE G == {k \in 0 .. N : \E fit : IsFit(rows, ordered, k, fit)}
           step(b, n) == PoolBlocks(AddRow(b, rows[ordered[n]]))
<1>1. 0 \in G
  <2> DEFINE fit == [n \in 0 .. 0 |-> <<>>]
  <2>1. IsFit(rows, ordered, 0, fit)
    BY DEF IsFit
  <2> QED BY <2>1
<1>2. ASSUME NEW k \in 0 .. N, k # N, k \in G PROVE k + 1 \in G
  <2>1. PICK fit : IsFit(rows, ordered, k, fit)
    BY <1>2
  <2> DEFINE new == step(fit[k], k + 1)
             more == [n \in 0 .. k + 1 |-> IF n = k + 1 THEN new ELSE fit[n]]
  <2>2. \A n \in 0 .. k : fit[n] = IF n = 0 THEN <<>> ELSE step(fit[n - 1], n)
    BY <2>1 DEF IsFit
  <2>3. \A n \in 0 .. k + 1 : more[n] = IF n = k + 1 THEN new ELSE fit[n]
    OBVIOUS
  <2>4. more = [n \in 0 .. k + 1 |-> more[n]]
    OBVIOUS
  <2> HIDE DEF more, step
  <2>5. \A n \in 0 .. k + 1 : more[n] = IF n = 0 THEN <<>> ELSE step(more[n - 1], n)
    <3> TAKE n \in 0 .. k + 1
    <3>1. CASE n = k + 1
      <4>1. n # 0 /\ more[n - 1] = fit[k]
        BY <2>3, <3>1
      <4>2. more[n] = new
        BY <2>3, <3>1
      <4> QED BY <3>1, <4>1, <4>2
    <3>2. CASE n # k + 1
      <4>1. n \in 0 .. k
        BY <3>2
      <4>2. more[n] = fit[n]
        BY <2>3, <3>2
      <4>3. n # 0 => more[n - 1] = fit[n - 1]
        BY <2>3, <4>1
      <4> QED BY <2>2, <4>1, <4>2, <4>3
    <3> QED BY <3>1, <3>2
  <2>6. IsFit(rows, ordered, k + 1, more)
    BY <2>4, <2>5 DEF IsFit, step
  <2>7. k + 1 \in 0 .. N
    BY <1>2
  <2> QED BY <2>6, <2>7
<1>3. 0 .. N \subseteq G
  <2> HIDE DEF G
  <2> QED BY <1>1, <1>2, Reaches
<1> QED BY <1>3

\* the fit is its last value,
LEMMA FitIsLast ==
  ASSUME NEW rows, NEW part, Rows(rows, part)
  PROVE  \E fit : /\ IsFit(rows, InOrder(rows, part), Cardinality(part), fit)
                  /\ FitIsotonic(rows, part) = fit[Cardinality(part)]
<1> DEFINE ordered == InOrder(rows, part)
           N == Cardinality(part)
           fit == CHOOSE fit : IsFit(rows, ordered, N, fit)
<1>1. N \in Nat
  BY RowsInOrder
<1>2. IsFit(rows, ordered, N, fit)
  <2>1. \E f : IsFit(rows, ordered, N, f)
    <3> HIDE DEF ordered, N
    <3> QED BY <1>1, FitsExist
  <2> QED BY <2>1
<1>3. FitIsotonic(rows, part) = fit[N]
  BY DEF FitIsotonic, IsFit
<1> HIDE DEF fit
<1> QED BY <1>2, <1>3

\* each value comes from the one before by adding a row and pooling,
FitSteps(rows, ordered, N, fit) ==
  /\ fit[0] = <<>>
  /\ \A n \in 1 .. N : fit[n] = PoolBlocks(AddRow(fit[n - 1], rows[ordered[n]]))

LEMMA FitStep ==
  ASSUME NEW rows, NEW ordered, NEW N \in Nat, NEW fit, IsFit(rows, ordered, N, fit)
  PROVE  FitSteps(rows, ordered, N, fit)
<1>1. \A n \in 0 .. N :
        fit[n] = IF n = 0 THEN <<>> ELSE PoolBlocks(AddRow(fit[n - 1], rows[ordered[n]]))
  BY Zenon DEF IsFit
<1>2. 0 \in 0 .. N /\ \A n \in 1 .. N : n \in 0 .. N /\ n # 0
  OBVIOUS
<1> HIDE DEF PoolBlocks, AddRow
<1> QED BY <1>1, <1>2 DEF FitSteps

\* and is a list of blocks.
LEMMA FitTyped ==
  ASSUME NEW rows, NEW part, Rows(rows, part), NEW fit,
         IsFit(rows, InOrder(rows, part), Cardinality(part), fit)
  PROVE  \A n \in 0 .. Cardinality(part) : fit[n] \in Seq(Blocks) /\ (n # 0 => fit[n] # <<>>)
<1> DEFINE ordered == InOrder(rows, part)
           N == Cardinality(part)
           G == {n \in 0 .. N : fit[n] \in Seq(Blocks) /\ (n # 0 => fit[n] # <<>>)}
<1>1. N \in Nat /\ \A n \in 1 .. N : ordered[n] \in part
  BY RowsInOrder
<1> HIDE DEF ordered, N
<1>2. /\ fit[0] = <<>>
      /\ \A n \in 1 .. N : fit[n] = PoolBlocks(AddRow(fit[n - 1], rows[ordered[n]]))
  <2>1. IsFit(rows, ordered, N, fit)
    BY Zenon DEF ordered, N
  <2>2. N \in Nat
    BY <1>1
  <2>3. FitSteps(rows, ordered, N, fit)
    BY <2>1, <2>2, FitStep, Zenon
  <2> QED BY <2>3 DEF FitSteps
<1>3. 0 \in G
  <2>1. 0 \in 0 .. N
    BY <1>1
  <2>2. <<>> \in Seq(Blocks)
    OBVIOUS
  <2>3. fit[0] \in Seq(Blocks)
    BY <1>2, <2>2, Zenon
  <2> QED BY <2>1, <2>3
<1>4. ASSUME NEW k \in 0 .. N, k # N, k \in G PROVE k + 1 \in G
  <2>1. k + 1 \in 1 .. N /\ (k + 1) - 1 = k
    BY <1>1, <1>4
  <2>2. ordered[k + 1] \in part
    BY <1>1, <2>1
  <2> DEFINE row == rows[ordered[k + 1]]
  <2>3. row.score \in Int /\ row.label \in {0, 1}
    BY <2>2 DEF Rows
  <2>4. fit[k + 1] = PoolBlocks(AddRow(fit[k], row))
    BY <1>2, <2>1
  <2> HIDE DEF row
  <2>5. fit[k] \in Seq(Blocks)
    BY <1>4
  <2>6. AddRow(fit[k], row) \in Seq(Blocks) /\ AddRow(fit[k], row) # <<>>
    BY <2>3, <2>5, AddKeepsBlocks
  <2>7. fit[k + 1] \in Seq(Blocks) /\ fit[k + 1] # <<>>
    BY <2>4, <2>6, PoolKeepsBlocks
  <2>8. k + 1 \in 0 .. N
    BY <1>1, <2>1
  <2> QED BY <2>7, <2>8
<1>5. 0 .. N \subseteq G
  <2> HIDE DEF G
  <2> QED BY <1>1, <1>3, <1>4, Reaches
<1> QED BY <1>5 DEF N

\* The block of a score.
LEMMA BlockFound ==
  ASSUME NEW blocks \in Seq(Blocks), blocks # <<>>, NEW score \in Int
  PROVE  \E i \in 1 .. Len(blocks) :
           /\ Isotonic(blocks, score) = (Scale * blocks[i].ones) \div blocks[i].size
           /\ score <= blocks[i].upTo \/ i = Len(blocks)
           /\ \A j \in 1 .. (i - 1) : ~(score <= blocks[j].upTo)
<1> DEFINE n == Len(blocks)
           at == {i \in DOMAIN blocks : score <= blocks[i].upTo}
           least == CHOOSE k \in at : \A j \in at : k <= j
           i == IF at = {} THEN n ELSE least
<1>1. n \in Nat /\ n >= 1 /\ DOMAIN blocks = 1 .. n
  OBVIOUS
<1>2. Isotonic(blocks, score) = (Scale * blocks[i].ones) \div blocks[i].size
  BY DEF Isotonic
<1>3. at \subseteq Int /\ IsFiniteSet(at)
  <2>1. IsFiniteSet(1 .. n) /\ at \in SUBSET (1 .. n)
    BY <1>1, FS_Interval
  <2> QED BY <1>1, <2>1, FS_Subset
<1>4. at # {} => least \in at /\ \A j \in at : least <= j
  <2> HIDE DEF at
  <2>1. at # {} => \E k \in at : \A j \in at : k <= j
    BY <1>3, LeastMember
  <2> QED BY <2>1
<1> HIDE DEF n, least
<1>5. i \in 1 .. n /\ (score <= blocks[i].upTo \/ i = n)
  BY <1>1, <1>4
<1>6. \A j \in 1 .. (i - 1) : ~(score <= blocks[j].upTo)
  <2> SUFFICES ASSUME NEW j \in 1 .. (i - 1), score <= blocks[j].upTo PROVE FALSE
    OBVIOUS
  <2>1. j \in 1 .. n /\ ~(i <= j)
    BY <1>1, <1>5
  <2>2. j \in at
    BY <1>1, <2>1
  <2> QED BY <1>4, <2>1, <2>2
<1> HIDE DEF i
<1> QED BY <1>2, <1>5, <1>6 DEF n

\* Calibrated probabilities are whole numbers.
LEMMA IsotonicTyped ==
  ASSUME NEW blocks \in Seq(Blocks), blocks # <<>>, NEW score \in Int
  PROVE  Isotonic(blocks, score) \in Int
<1>1. PICK i \in 1 .. Len(blocks) :
        Isotonic(blocks, score) = (Scale * blocks[i].ones) \div blocks[i].size
  BY BlockFound
<1>2. blocks[i].ones \in Nat /\ blocks[i].size \in Nat \ {0} /\ Scale \in Nat
  <2>1. blocks[i] \in Blocks
    OBVIOUS
  <2>2. Scale \in Nat
    BY ReleaseAssumption
  <2> QED BY <2>1, <2>2 DEF Blocks
<1>3. Scale * blocks[i].ones \in Nat
  BY <1>2
<1>4. (Scale * blocks[i].ones) \div blocks[i].size \in Nat
  BY <1>2, <1>3, Quotient
<1> QED BY <1>1, <1>4

\* What a calibration can be, and what it needs.
IsCalibration(model) ==
  \/ model = [method |-> "none"]
  \/ \E curve \in PlattCurves : model = [method |-> "platt", curve |-> curve]
  \/ \E blocks \in Seq(Blocks) :
        blocks # <<>> /\ model = [method |-> "isotonic", blocks |-> blocks]

\* Parts of a dataset are finite, with scores and labels.
LEMMA DatasetRows ==
  ASSUME NEW dataset \in Datasets, NEW part \in SUBSET DOMAIN dataset.rows
  PROVE  Rows(dataset.rows, part)
<1>1. part \subseteq Int
  BY ReleaseAssumption
<1> QED BY <1>1, PeriodsAreNats, ReleaseAssumption DEF Rows

\* Calibrated probabilities are numbers,
LEMMA CalibratedTyped ==
  ASSUME NEW dataset \in Datasets, NEW part \in SUBSET DOMAIN dataset.rows,
         NEW model, IsCalibration(model)
  PROVE  LET p == Calibrated(model, dataset.rows, part)
         IN  DOMAIN p = part /\ \A i \in part : p[i] \in Int
<1> DEFINE rows == dataset.rows
           p == Calibrated(model, rows, part)
<1>1. DOMAIN p = part
  BY DEF Calibrated
<1>2. ASSUME NEW i \in part PROVE p[i] \in Int
  <2> DEFINE score == rows[i].score
  <2>1. i \in DOMAIN rows /\ score \in Int /\ Sigmoid[score] \in Int
        /\ \A curve \in PlattCurves : curve[score] \in Int
    <3>1. \A x \in 0 .. Scale : x \in Int
      OBVIOUS
    <3> QED BY <3>1, ReleaseAssumption
  <2>2. CASE model = [method |-> "none"]
    <3>1. p[i] = Sigmoid[score]
      BY <2>2 DEF Calibrated
    <3> QED BY <2>1, <3>1
  <2>3. ASSUME NEW curve \in PlattCurves, model = [method |-> "platt", curve |-> curve]
        PROVE  p[i] \in Int
    <3>1. p[i] = curve[score]
      BY <2>3 DEF Calibrated
    <3> QED BY <2>1, <3>1
  <2>4. ASSUME NEW blocks \in Seq(Blocks), blocks # <<>>,
               model = [method |-> "isotonic", blocks |-> blocks]
        PROVE  p[i] \in Int
    <3>1. p[i] = Isotonic(blocks, score)
      BY <2>4 DEF Calibrated
    <3>2. Isotonic(blocks, score) \in Int
      BY <2>1, <2>4, IsotonicTyped
    <3> QED BY <3>1, <3>2
  <2> HIDE DEF p
  <2> QED BY <2>2, <2>3, <2>4 DEF IsCalibration
<1> QED BY <1>1, <1>2

\* and so is their Brier sum.
LEMMA BrierTyped ==
  ASSUME NEW dataset \in Datasets, NEW part \in SUBSET DOMAIN dataset.rows,
         NEW p, DOMAIN p = part, \A i \in part : p[i] \in Int
  PROVE  BrierSum(dataset.rows, p) \in Int
<1> DEFINE rows == dataset.rows
           f == [i \in part |-> Square(p[i] - Scale * rows[i].label)]
<1>1. BrierSum(rows, p) = SumFunction(f)
  BY DEF BrierSum
<1>2. \A i \in part : f[i] \in Int
  <2> SUFFICES ASSUME NEW i \in part PROVE f[i] \in Int
    OBVIOUS
  <2>1. rows[i].label \in Int /\ Scale \in Int /\ p[i] \in Int
    BY ReleaseAssumption
  <2>2. p[i] - Scale * rows[i].label \in Int
    BY <2>1
  <2>3. \A x \in Int : Square(x) \in Int
    BY DEF Square
  <2> QED BY <2>2, <2>3
<1>3. DOMAIN f = part
  OBVIOUS
<1>4. IsFiniteSet(part)
  BY PeriodsAreNats
<1> HIDE DEF f
<1> QED BY <1>1, <1>2, <1>3, <1>4, SumFunctionIs

\* Of three whole numbers one comes first.
LEMMA FirstOfThree ==
  ASSUME NEW a \in Int, NEW b \in Int, NEW c \in Int
  PROVE  \/ a <= b /\ a <= c
         \/ b < a /\ b <= c
         \/ c < a /\ c < b
OBVIOUS

\* The selected calibration is one of the three candidates.
LEMMA SelectionTyped ==
  ASSUME NEW dataset \in Datasets,
         NEW fit \in SUBSET DOMAIN dataset.rows, fit # {},
         NEW evaluation \in SUBSET DOMAIN dataset.rows, NEW curve \in PlattCurves
  PROVE  IsCalibration(SelectCalibration(dataset.rows, fit, evaluation, curve))
<1> DEFINE rows == dataset.rows
           candidates == <<[method |-> "none"], [method |-> "platt", curve |-> curve],
                           [method |-> "isotonic", blocks |-> FitIsotonic(rows, fit)]>>
           score(i) == BrierSum(rows, Calibrated(candidates[i], rows, evaluation))
           First(i) == \A j \in 1 .. 3 : score(i) < score(j) \/ (score(i) = score(j) /\ i <= j)
           chosen == CHOOSE i \in 1 .. 3 : First(i)
<1>1. FitIsotonic(rows, fit) \in Seq(Blocks) /\ FitIsotonic(rows, fit) # <<>>
  <2>1. Rows(rows, fit)
    BY DatasetRows
  <2>2. Cardinality(fit) \in Nat /\ Cardinality(fit) # 0
    BY <2>1, FS_EmptySet, FS_CardinalityType DEF Rows
  <2>3. PICK g : /\ IsFit(rows, InOrder(rows, fit), Cardinality(fit), g)
                 /\ FitIsotonic(rows, fit) = g[Cardinality(fit)]
    BY <2>1, FitIsLast
  <2>4. Cardinality(fit) \in 0 .. Cardinality(fit)
    BY <2>2
  <2> QED BY <2>1, <2>2, <2>3, <2>4, FitTyped
<1>2. \A i \in 1 .. 3 : IsCalibration(candidates[i])
  <2> DEFINE blocks == FitIsotonic(rows, fit)
  <2>1. /\ candidates[1] = [method |-> "none"]
        /\ candidates[2] = [method |-> "platt", curve |-> curve]
        /\ candidates[3] = [method |-> "isotonic", blocks |-> blocks]
    OBVIOUS
  <2> HIDE DEF candidates, blocks
  <2>2. blocks \in Seq(Blocks) /\ blocks # <<>>
    BY <1>1 DEF blocks
  <2>3. IsCalibration(candidates[1]) /\ IsCalibration(candidates[2]) /\ IsCalibration(candidates[3])
    BY <2>1, <2>2 DEF IsCalibration
  <2>4. \A i \in 1 .. 3 : i = 1 \/ i = 2 \/ i = 3
    OBVIOUS
  <2> QED BY <2>3, <2>4
<1>3. SelectCalibration(rows, fit, evaluation, curve) = candidates[chosen]
  BY DEF SelectCalibration
<1> HIDE DEF candidates
<1>4. \A i \in 1 .. 3 : score(i) \in Int
  <2> SUFFICES ASSUME NEW i \in 1 .. 3 PROVE score(i) \in Int
    OBVIOUS
  <2> DEFINE p == Calibrated(candidates[i], rows, evaluation)
  <2>1. DOMAIN p = evaluation /\ \A k \in evaluation : p[k] \in Int
    BY <1>2, CalibratedTyped
  <2> HIDE DEF p
  <2>2. BrierSum(rows, p) \in Int
    BY <2>1, BrierTyped
  <2> QED BY <2>2 DEF p
<1> HIDE DEF score
<1>5. \E i \in 1 .. 3 : First(i)
  <2>1. score(1) \in Int /\ score(2) \in Int /\ score(3) \in Int
    BY <1>4
  <2>2. \A j \in 1 .. 3 : j = 1 \/ j = 2 \/ j = 3
    OBVIOUS
  <2>3. CASE score(1) <= score(2) /\ score(1) <= score(3)
    <3>1. First(1)
      BY <2>1, <2>2, <2>3
    <3> QED BY <3>1
  <2>4. CASE score(2) < score(1) /\ score(2) <= score(3)
    <3>1. First(2)
      BY <2>1, <2>2, <2>4
    <3> QED BY <3>1
  <2>5. CASE score(3) < score(1) /\ score(3) < score(2)
    <3>1. First(3)
      BY <2>1, <2>2, <2>5
    <3> QED BY <3>1
  <2> QED BY <2>1, <2>3, <2>4, <2>5, FirstOfThree
<1>6. chosen \in 1 .. 3
  <2> HIDE DEF First
  <2> QED BY <1>5
<1> HIDE DEF chosen
<1> QED BY <1>2, <1>3, <1>6

-----------------------------------------------------------------------------
\* Slopes as fractions, compared by their cross products.
LEMMA CancelFactor ==
  ASSUME NEW d \in Nat \ {0}, NEW x \in Int, NEW y \in Int, d * x <= d * y
  PROVE  x <= y
<1> SUFFICES ASSUME y < x PROVE FALSE
  OBVIOUS
<1>1. x - y >= 1 /\ x - y \in Nat
  OBVIOUS
<1>2. d * (x - y) \in Nat /\ d * (x - y) >= 1
  BY <1>1
<1>3. d * x = d * y + d * (x - y)
  OBVIOUS
<1>4. d * x \in Int /\ d * y \in Int
  OBVIOUS
<1> QED BY <1>2, <1>3, <1>4

\* Products as the provers do not rearrange them by themselves.
LEMMA Rearranged ==
  ASSUME NEW x \in Int, NEW y \in Int, NEW z \in Int
  PROVE  /\ x * y \in Int /\ x * y = y * x
         /\ x * (y * z) = y * (x * z) /\ x * (y * z) = (x * y) * z
         /\ x * (y + z) = x * y + x * z /\ x * (y - z) = x * y - x * z
OBVIOUS

\* W is at most R over D of t, and R over D at most T over E: W is at most T over E of t.
LEMMA FractionsChain ==
  ASSUME NEW D \in Nat \ {0}, NEW E \in Nat, NEW t \in Nat,
         NEW R \in Int, NEW T \in Int, NEW W \in Int,
         D * W <= R * t, R * E <= T * D
  PROVE  E * W <= T * t
<1>1. E * (D * W) <= E * (R * t)
  BY Rearranged, Scaled
<1>2. t * (R * E) <= t * (T * D)
  BY Rearranged, Scaled
<1>3. E * (R * t) = t * (R * E) /\ t * (T * D) = D * (T * t) /\ E * (D * W) = D * (E * W)
  <2>1. E * (R * t) = R * (E * t) /\ E * t = t * E /\ R * (t * E) = t * (R * E)
    BY Rearranged
  <2>2. t * (T * D) = T * (t * D) /\ t * D = D * t /\ T * (D * t) = D * (T * t)
    BY Rearranged
  <2>3. E * (D * W) = D * (E * W)
    BY Rearranged
  <2> QED BY <2>1, <2>2, <2>3
<1>4. E * W \in Int /\ T * t \in Int
  OBVIOUS
<1>5. D * (E * W) \in Int /\ D * (T * t) \in Int /\ t * (R * E) \in Int
  BY <1>4, Rearranged
<1>6. D * (E * W) <= D * (T * t)
  BY <1>1, <1>2, <1>3, <1>5
<1> QED BY <1>4, <1>6, CancelFactor

\* Products with a sign changed.
LEMMA Negated ==
  ASSUME NEW x \in Int, NEW y \in Int
  PROVE  /\ -x \in Int /\ (-x) * y = -(x * y) /\ x * (-y) = -(x * y)
         /\ x * y \in Int /\ y * x \in Int
OBVIOUS

\* The same with the directions turned.
LEMMA FractionsChainBack ==
  ASSUME NEW D \in Nat \ {0}, NEW E \in Nat, NEW t \in Nat,
         NEW R \in Int, NEW T \in Int, NEW W \in Int,
         R * t <= D * W, T * D <= R * E
  PROVE  T * t <= E * W
<1>1. D * (-W) <= (-R) * t
  BY Negated
<1>2. (-R) * E <= (-T) * D
  BY Negated
<1>3. E * (-W) <= (-T) * t
  BY <1>1, <1>2, FractionsChain
<1>4. E * (-W) = -(E * W) /\ (-T) * t = -(T * t) /\ E * W \in Int /\ T * t \in Int
  BY Negated
<1> QED BY <1>3, <1>4

\* A quotient grows with the fraction.
LEMMA QuotientGrows ==
  ASSUME NEW x \in Nat, NEW y \in Nat, NEW d \in Nat \ {0}, NEW e \in Nat \ {0},
         x * e <= y * d
  PROVE  x \div d <= y \div e
<1> DEFINE q == x \div d
           r == y \div e
<1>1. q \in Nat /\ x % d \in 0 .. d - 1 /\ x = d * q + (x % d)
  BY Quotient
<1>2. r \in Nat /\ y % e \in 0 .. e - 1 /\ y = e * r + (y % e)
  BY Quotient
<1> HIDE DEF q, r
<1>3. d * q <= x /\ d * q \in Int
  BY <1>1
<1>5. e * q <= y
  <2>1. e * (d * q) <= e * x
    BY <1>3, Scaled
  <2>2. e * (d * q) = d * (e * q) /\ e * x = x * e /\ y * d = d * y
    BY <1>1, Rearranged
  <2>3. e * q \in Int /\ d * (e * q) \in Int /\ e * x \in Int /\ d * y \in Int
    BY <1>1, Rearranged
  <2>4. d * (e * q) <= d * y
    BY <2>1, <2>2, <2>3
  <2> QED BY <2>3, <2>4, CancelFactor
<1>6. e * q < e * (r + 1)
  <2>1. e * (r + 1) = e * r + e /\ e * r \in Int
    BY <1>2
  <2>2. y < e * r + e
    BY <1>2, <2>1
  <2>3. e * q \in Int
    BY <1>1
  <2> QED BY <1>5, <2>1, <2>2, <2>3
<1>7. q <= (r + 1) - 1
  BY <1>1, <1>2, <1>6, Unscaled
<1> QED BY <1>1, <1>2, <1>7 DEF q, r

-----------------------------------------------------------------------------
\* The cumulative diagram: S[n] positive labels among the first n rows. The blocks
\* of the fit are the chords of its greatest convex minorant. The point of k is not
\* below the line through the points of a and b:
Under(S, a, b, k) == (S[b] - S[a]) * (k - a) <= (b - a) * (S[k] - S[a])

\* The chord of a and b is not steeper than that of c and d:
Flatter(S, a, b, c, d) == (S[b] - S[a]) * (d - c) <= (S[d] - S[c]) * (b - a)

Hull(S, n, ends, L) ==
  /\ L \in Nat /\ ends \in [0 .. L -> 0 .. n] /\ ends[0] = 0 /\ ends[L] = n
  /\ \A i, j \in 0 .. L : i < j => ends[i] < ends[j]
  /\ \A i, j \in 1 .. L : i < j => Flatter(S, ends[i - 1], ends[i], ends[j - 1], ends[j])
  /\ \A i \in 1 .. L, k \in 0 .. n : Under(S, ends[i - 1], ends[i], k)

\* Two chords, the left one steeper, become one that runs below both.
LEMMA ChordLeft ==
  ASSUME NEW X \in Nat \ {0}, NEW Y \in Nat \ {0}, NEW t \in Nat,
         NEW U \in Int, NEW V \in Int, NEW W \in Int,
         U * t <= X * W, V * X <= U * Y
  PROVE  (U + V) * t <= (X + Y) * W
<1>1. V * t <= Y * W
  BY FractionsChainBack
<1>2. (U + V) * t = U * t + V * t /\ (X + Y) * W = X * W + Y * W
  OBVIOUS
<1>3. U * t \in Int /\ V * t \in Int /\ X * W \in Int /\ Y * W \in Int
  BY Negated
<1> QED BY <1>1, <1>2, <1>3

\* The same for a point of the right chord.
LEMMA ChordRight ==
  ASSUME NEW X \in Nat \ {0}, NEW Y \in Nat \ {0}, NEW t \in Nat,
         NEW U \in Int, NEW V \in Int, NEW W \in Int,
         Y * W <= V * t, V * X <= U * Y
  PROVE  (X + Y) * W <= (U + V) * t
<1>1. X * W <= U * t
  BY FractionsChain
<1>2. (U + V) * t = U * t + V * t /\ (X + Y) * W = X * W + Y * W
  OBVIOUS
<1>3. U * t \in Int /\ V * t \in Int /\ X * W \in Int /\ Y * W \in Int
  BY Negated
<1> QED BY <1>1, <1>2, <1>3

\* What lies over two chords, the left one steeper, lies over the one across both.
LEMMA ChordsMerge ==
  ASSUME NEW S, NEW a \in Nat, NEW b \in Nat, NEW c \in Nat, a < b, b < c, NEW k \in a .. c,
         S[a] \in Int, S[b] \in Int, S[c] \in Int, S[k] \in Int,
         Flatter(S, b, c, a, b),
         k <= b => Under(S, a, b, k), b <= k => Under(S, b, c, k)
  PROVE  Under(S, a, c, k)
<1> DEFINE X == b - a
           Y == c - b
           U == S[b] - S[a]
           V == S[c] - S[b]
<1>1. /\ X \in Nat \ {0} /\ Y \in Nat \ {0} /\ U \in Int /\ V \in Int
      /\ X + Y = c - a /\ U + V = S[c] - S[a]
  OBVIOUS
<1>2. V * X <= U * Y
  BY DEF Flatter
<1>3. CASE k <= b
  <2> DEFINE t == k - a
             W == S[k] - S[a]
  <2>1. t \in Nat /\ W \in Int
    OBVIOUS
  <2>2. U * t <= X * W
    BY <1>3 DEF Under
  <2> HIDE DEF X, Y, U, V, t, W
  <2>3. (U + V) * t <= (X + Y) * W
    BY <1>1, <1>2, <2>1, <2>2, ChordLeft
  <2> QED BY <1>1, <2>3 DEF Under, t, W
<1>4. CASE b <= k
  <2> DEFINE t == c - k
             W == S[c] - S[k]
  <2>1. t \in Nat /\ W \in Int /\ k - b = Y - t /\ S[k] - S[b] = V - W
        /\ k - a = (X + Y) - t /\ S[k] - S[a] = (U + V) - W
    OBVIOUS
  <2>2. V * (Y - t) <= Y * (V - W)
    BY <1>4, <2>1 DEF Under
  <2>3. (S[c] - S[a]) * (k - a) = (U + V) * ((X + Y) - t)
        /\ (c - a) * (S[k] - S[a]) = (X + Y) * ((U + V) - W)
    BY <1>1, <2>1
  <2> HIDE DEF X, Y, U, V, t, W
  <2>4. Y * W <= V * t
    <3>1. V * (Y - t) = V * Y - V * t /\ Y * (V - W) = Y * V - Y * W /\ V * Y = Y * V
      BY <1>1, <2>1, Rearranged
    <3>2. V * Y \in Int /\ V * t \in Int /\ Y * W \in Int
      BY <1>1, <2>1, Negated
    <3> QED BY <2>2, <3>1, <3>2
  <2>5. (X + Y) * W <= (U + V) * t
    BY <1>1, <1>2, <2>1, <2>4, ChordRight
  <2>6. (U + V) * ((X + Y) - t) <= (X + Y) * ((U + V) - W)
    <3> DEFINE Z == X + Y
               R == U + V
    <3>1. Z \in Int /\ R \in Int
      BY <1>1
    <3> HIDE DEF Z, R
    <3>2. R * (Z - t) = R * Z - R * t /\ Z * (R - W) = Z * R - Z * W /\ R * Z = Z * R
      BY <2>1, <3>1, Rearranged
    <3>3. R * Z \in Int /\ R * t \in Int /\ Z * W \in Int
      BY <2>1, <3>1, Negated
    <3>4. Z * W <= R * t
      BY <2>5 DEF Z, R
    <3>5. R * (Z - t) <= Z * (R - W)
      BY <3>2, <3>3, <3>4
    <3> QED BY <3>5 DEF Z, R
  <2> QED BY <2>3, <2>6 DEF Under
<1> QED BY <1>3, <1>4

\* A point left of a chord that follows a flatter one is not below its line.
LEMMA LeftOfChord ==
  ASSUME NEW S, NEW p \in Nat, NEW a \in Nat, NEW c \in Nat, p < a, a < c, NEW k \in Nat, k <= a,
         S[p] \in Int, S[a] \in Int, S[c] \in Int, S[k] \in Int,
         Under(S, p, a, k), Flatter(S, p, a, a, c)
  PROVE  Under(S, a, c, k)
<1> DEFINE D == a - p
           R == S[a] - S[p]
           E == c - a
           T == S[c] - S[a]
           t == a - k
           W == S[a] - S[k]
<1>1. /\ D \in Nat \ {0} /\ E \in Nat \ {0} /\ t \in Nat /\ R \in Int /\ T \in Int /\ W \in Int
      /\ k - p = D - t /\ S[k] - S[p] = R - W /\ k - a = -t /\ S[k] - S[a] = -W
  OBVIOUS
<1>2. R * (D - t) <= D * (R - W)
  BY <1>1 DEF Under
<1>3. R * E <= T * D
  BY DEF Flatter
<1>4. (S[c] - S[a]) * (k - a) = T * (-t) /\ (c - a) * (S[k] - S[a]) = E * (-W)
  BY <1>1
<1> HIDE DEF D, R, E, T, t, W
<1>5. D * W <= R * t
  <2>1. R * (D - t) = R * D - R * t /\ D * (R - W) = D * R - D * W /\ R * D = D * R
    BY <1>1, Rearranged
  <2>2. R * D \in Int /\ R * t \in Int /\ D * W \in Int
    BY <1>1, Negated
  <2> QED BY <1>2, <2>1, <2>2
<1>6. E * W <= T * t
  BY <1>1, <1>3, <1>5, FractionsChain
<1>7. T * (-t) = -(T * t) /\ E * (-W) = -(E * W) /\ T * t \in Int /\ E * W \in Int
  BY <1>1, Negated
<1> QED BY <1>4, <1>6, <1>7 DEF Under

\* The end of a chord that is steeper than an earlier one is not below its line.
LEMMA EndOfChord ==
  ASSUME NEW S, NEW p \in Nat, NEW r \in Nat, NEW a \in Nat, NEW c \in Nat, p < r, a < c,
         S[p] \in Int, S[r] \in Int, S[a] \in Int, S[c] \in Int,
         Under(S, p, r, a), Flatter(S, p, r, a, c)
  PROVE  Under(S, p, r, c)
<1> DEFINE D == r - p
           R == S[r] - S[p]
           E == c - a
           T == S[c] - S[a]
           d == a - p
           H == S[a] - S[p]
<1>1. /\ D \in Int /\ R \in Int /\ E \in Int /\ T \in Int /\ d \in Int /\ H \in Int
      /\ c - p = d + E /\ S[c] - S[p] = H + T
  OBVIOUS
<1>2. R * d <= D * H
  BY DEF Under
<1>3. R * E <= T * D
  BY DEF Flatter
<1>4. (S[r] - S[p]) * (c - p) = R * (d + E) /\ (r - p) * (S[c] - S[p]) = D * (H + T)
  BY <1>1
<1> HIDE DEF D, R, E, T, d, H
<1>5. R * (d + E) = R * d + R * E /\ D * (H + T) = D * H + D * T /\ D * T = T * D
  BY <1>1, Rearranged
<1>6. R * d \in Int /\ R * E \in Int /\ D * H \in Int /\ D * T \in Int
  BY <1>1, Negated
<1> QED BY <1>2, <1>3, <1>4, <1>5, <1>6 DEF Under

\* Being flatter is transitive.
LEMMA FlatterChain ==
  ASSUME NEW S, NEW a \in Nat, NEW b \in Nat, NEW c \in Nat, NEW d \in Nat, NEW e \in Nat, NEW f \in Nat,
         a < b, c < d, e < f,
         S[a] \in Int, S[b] \in Int, S[c] \in Int, S[d] \in Int, S[e] \in Int, S[f] \in Int,
         Flatter(S, a, b, c, d), Flatter(S, c, d, e, f)
  PROVE  Flatter(S, a, b, e, f)
<1> DEFINE D == d - c
           E == f - e
           t == b - a
           R == S[d] - S[c]
           T == S[f] - S[e]
           W == S[b] - S[a]
<1>1. D \in Nat \ {0} /\ E \in Nat /\ t \in Nat /\ R \in Int /\ T \in Int /\ W \in Int
  OBVIOUS
<1>2. W * D <= R * t /\ R * E <= T * D
  BY DEF Flatter
<1>3. (S[b] - S[a]) * (f - e) = W * E /\ (S[f] - S[e]) * (b - a) = T * t
  OBVIOUS
<1> HIDE DEF D, E, t, R, T, W
<1>4. W * D = D * W /\ W * E = E * W
  BY <1>1, Rearranged
<1>5. E * W <= T * t
  BY <1>1, <1>2, <1>4, FractionsChain
<1> QED BY <1>3, <1>4, <1>5 DEF Flatter

\* One more point, and the last m chords merged into one: what pooling leaves is
\* again the minorant. The merged chord starts at the end of chord q.
Extended(ends, q, n) == [i \in 0 .. q + 1 |-> IF i = q + 1 THEN n + 1 ELSE ends[i]]

\* The chord in the place of the last ones that are steeper runs under the diagram.
LEMMA MergedChord ==
  ASSUME NEW N \in Nat, NEW S \in [0 .. N -> Int], NEW n \in Nat, n < N, NEW L, NEW ends,
         Hull(S, n, ends, L), NEW m \in 1 .. L + 1,
         \A k \in 1 .. (m - 1) :
            Flatter(S, ends[(L + 1) - k], n + 1, ends[L - k], ends[(L + 1) - k])
  PROVE  \A k \in ends[(L + 1) - m] .. n + 1 : Under(S, ends[(L + 1) - m], n + 1, k)
<1> DEFINE Merged(j) == \A k \in ends[(L + 1) - j] .. n + 1 : Under(S, ends[(L + 1) - j], n + 1, k)
           G == {j \in 0 .. m : j # 0 => Merged(j)}
<1>1. /\ L \in Nat /\ ends \in [0 .. L -> 0 .. n] /\ ends[L] = n
      /\ \A i, j \in 0 .. L : i < j => ends[i] < ends[j]
      /\ \A i \in 1 .. L, k \in 0 .. n : Under(S, ends[i - 1], ends[i], k)
  BY DEF Hull
<1>2. \A k \in 0 .. n + 1 : S[k] \in Int
  OBVIOUS
<1>3. m \in Nat /\ m <= L + 1 /\ 1 <= m
  BY <1>1
<1>4. Merged(1)
  <2> SUFFICES ASSUME NEW k \in n .. n + 1 PROVE Under(S, n, n + 1, k)
    <3>1. (L + 1) - 1 = L
      BY <1>1
    <3> QED BY <1>1, <3>1
  <2>1. S[n] \in Int /\ S[n + 1] \in Int
    BY <1>2
  <2>2. CASE k = n
    <3>1. (S[n + 1] - S[n]) * (n - n) = 0 /\ ((n + 1) - n) * (S[n] - S[n]) = 0
      BY <2>1
    <3> QED BY <2>2, <3>1 DEF Under
  <2>3. CASE k = n + 1
    <3>1. (S[n + 1] - S[n]) * ((n + 1) - n) = S[n + 1] - S[n]
          /\ ((n + 1) - n) * (S[n + 1] - S[n]) = S[n + 1] - S[n]
      BY <2>1
    <3>2. S[n + 1] - S[n] \in Int
      BY <2>1
    <3> QED BY <2>3, <3>1, <3>2 DEF Under
  <2> QED BY <2>2, <2>3
<1>5. 0 \in G
  BY <1>3
<1>6. ASSUME NEW j \in 0 .. m, j # m, j \in G PROVE j + 1 \in G
  <2>1. j + 1 \in 0 .. m
    BY <1>3, <1>6
  <2>2. CASE j = 0
    <3>1. Merged(j + 1)
      <4> HIDE DEF Merged
      <4> QED BY <1>4, <2>2
    <3> QED BY <2>1, <3>1
  <2>3. CASE j # 0
    <3>1. j \in 1 .. (m - 1) /\ L - j \in 0 .. L /\ (L + 1) - j \in 1 .. L /\ (L + 1) - j \in 0 .. L
          /\ ((L + 1) - j) - 1 = L - j /\ (L + 1) - (j + 1) = L - j /\ L - j < (L + 1) - j
      BY <1>1, <1>3, <1>6, <2>3
    <3> DEFINE a == ends[L - j]
               b == ends[(L + 1) - j]
               c == n + 1
    <3>2. a \in 0 .. n /\ b \in 0 .. n /\ a < b
      BY <1>1, <3>1
    <3>3. Flatter(S, b, c, a, b)
      BY <3>1
    <3>4. \A k \in 0 .. n : Under(S, a, b, k)
      BY <1>1, <3>1
    <3>5. \A k \in b .. c : Under(S, b, c, k)
      BY <1>6, <2>3
    <3> HIDE DEF a, b
    <3>6. ASSUME NEW k \in a .. c PROVE Under(S, a, c, k)
      <4>1. /\ a \in Nat /\ b \in Nat /\ c \in Nat /\ a < b /\ b < c /\ k \in 0 .. n + 1
            /\ a \in 0 .. n + 1 /\ b \in 0 .. n + 1 /\ c \in 0 .. n + 1
        BY <3>2
      <4>2. S[a] \in Int /\ S[b] \in Int /\ S[c] \in Int /\ S[k] \in Int
        BY <1>2, <4>1
      <4>3. k <= b => Under(S, a, b, k)
        <5>1. k <= b => k \in 0 .. n
          BY <3>2, <4>1
        <5> QED BY <3>4, <5>1
      <4>4. b <= k => Under(S, b, c, k)
        <5>1. b <= k => k \in b .. c
          BY <4>1
        <5> QED BY <3>5, <5>1
      <4> HIDE DEF c
      <4> QED BY <3>3, <4>1, <4>2, <4>3, <4>4, ChordsMerge
    <3>7. Merged(j + 1)
      BY <3>1, <3>6 DEF a
    <3> HIDE DEF Merged
    <3> QED BY <2>1, <3>7
  <2> QED BY <2>2, <2>3
<1>7. 0 .. m \subseteq G
  <2> HIDE DEF G
  <2> QED BY <1>3, <1>5, <1>6, Reaches
<1>8. m \in 0 .. m /\ m # 0
  BY <1>3
<1>9. Merged(m)
  <2> HIDE DEF Merged
  <2> QED BY <1>7, <1>8
<1> QED BY <1>9

\* One more row: the steeper chords at the end give way to one, and the hull reaches a row further.
LEMMA HullGrows ==
  ASSUME NEW N \in Nat, NEW S \in [0 .. N -> Int], NEW n \in Nat, n < N, NEW L, NEW ends,
         Hull(S, n, ends, L), NEW m \in 1 .. L + 1,
         m = L + 1 \/ Flatter(S, ends[L - m], ends[(L + 1) - m], ends[(L + 1) - m], n + 1),
         \A k \in 1 .. (m - 1) :
            Flatter(S, ends[(L + 1) - k], n + 1, ends[L - k], ends[(L + 1) - k])
  PROVE  Hull(S, n + 1, Extended(ends, (L + 1) - m, n), (L + 2) - m)
<1> DEFINE q == (L + 1) - m
           c == n + 1
           more == Extended(ends, q, n)
           a == ends[q]
<1>1. /\ L \in Nat /\ ends \in [0 .. L -> 0 .. n] /\ ends[0] = 0 /\ ends[L] = n
      /\ \A i, j \in 0 .. L : i < j => ends[i] < ends[j]
  BY DEF Hull
<1>2. /\ \A i, j \in 1 .. L : i < j => Flatter(S, ends[i - 1], ends[i], ends[j - 1], ends[j])
      /\ \A i \in 1 .. L, k \in 0 .. n : Under(S, ends[i - 1], ends[i], k)
  BY DEF Hull
<1>3. q \in 0 .. L /\ q \in Nat /\ (L + 2) - m = q + 1 /\ (m = L + 1 <=> q = 0) /\ L - m = q - 1
  BY <1>1
<1>4. \A k \in 0 .. c : S[k] \in Int
  OBVIOUS
<1>5. /\ \A i \in 0 .. q : more[i] = ends[i]
      /\ more[q + 1] = c /\ DOMAIN more = 0 .. q + 1
  BY <1>3 DEF Extended
<1>6. more = [i \in 0 .. q + 1 |-> more[i]]
  BY DEF Extended
<1>7. q = 0 \/ Flatter(S, ends[q - 1], a, a, c)
  BY <1>3
<1>8. \A k \in a .. c : Under(S, a, c, k)
  BY MergedChord
<1> HIDE DEF q, more
<1>9. a \in 0 .. n /\ \A i \in 0 .. q : i \in 0 .. L /\ ends[i] \in 0 .. n /\ (i < q => ends[i] < a)
  BY <1>1, <1>3
<1>10. \A i \in 1 .. q : /\ i \in 1 .. L /\ i - 1 \in 0 .. q /\ i \in 0 .. q
                         /\ ends[i - 1] < ends[i]
  <2> SUFFICES ASSUME NEW i \in 1 .. q
               PROVE  i \in 1 .. L /\ i - 1 \in 0 .. q /\ i \in 0 .. q /\ ends[i - 1] < ends[i]
    OBVIOUS
  <2>1. L \in Nat /\ q \in Nat /\ q <= L
    BY <1>1, <1>3
  <2>2. i \in 1 .. L /\ i - 1 \in 0 .. q /\ i \in 0 .. q /\ i - 1 \in 0 .. L /\ i \in 0 .. L /\ i - 1 < i
    BY <2>1
  <2> QED BY <1>1, <2>2
\* Each chord that stays is flatter than the merged one.
<1>11. \A i \in 1 .. q : Flatter(S, ends[i - 1], ends[i], a, c)
  <2> SUFFICES ASSUME NEW i \in 1 .. q PROVE Flatter(S, ends[i - 1], ends[i], a, c)
    OBVIOUS
  <2>1. q # 0 /\ q \in 1 .. q /\ q \in 1 .. L
    BY <1>3
  <2>2. Flatter(S, ends[q - 1], a, a, c)
    BY <1>7, <2>1
  <2>3. CASE i = q
    BY <2>2, <2>3
  <2>4. CASE i # q
    <3>1. Flatter(S, ends[i - 1], ends[i], ends[q - 1], a)
      <4>1. i < q
        BY <1>3, <2>4
      <4> QED BY <1>2, <1>10, <2>1, <4>1
    <3>2. /\ ends[i - 1] \in 0 .. n /\ ends[i] \in 0 .. n /\ ends[q - 1] \in 0 .. n
          /\ ends[i - 1] < ends[i] /\ ends[q - 1] < a
      BY <1>9, <1>10, <2>1
    <3> DEFINE u == ends[i - 1]
               v == ends[i]
               w == ends[q - 1]
    <3>3. /\ u \in Nat /\ v \in Nat /\ w \in Nat /\ a \in Nat /\ c \in Nat
          /\ u < v /\ w < a /\ a < c
          /\ u \in 0 .. c /\ v \in 0 .. c /\ w \in 0 .. c /\ a \in 0 .. c /\ c \in 0 .. c
      <4>1. u \in 0 .. n /\ v \in 0 .. n /\ w \in 0 .. n /\ a \in 0 .. n /\ u < v /\ w < a
        BY <1>9, <3>2, Zenon
      <4> HIDE DEF u, v, w, a
      <4> QED BY <4>1
    <3> HIDE DEF u, v, w, a, c
    <3>4. S[u] \in Int /\ S[v] \in Int /\ S[w] \in Int /\ S[a] \in Int /\ S[c] \in Int
      BY <1>4, <3>3, Zenon
    <3>5. Flatter(S, u, v, w, a) /\ Flatter(S, w, a, a, c)
      BY <2>2, <3>1 DEF u, v, w
    <3> QED BY <3>3, <3>4, <3>5, FlatterChain DEF u, v
  <2> QED BY <2>3, <2>4
\* Its line stays below the new point.
<1>12. \A i \in 1 .. q : Under(S, ends[i - 1], ends[i], c)
  <2> SUFFICES ASSUME NEW i \in 1 .. q PROVE Under(S, ends[i - 1], ends[i], c)
    OBVIOUS
  <2> DEFINE u == ends[i - 1]
             v == ends[i]
  <2>1. Flatter(S, u, v, a, c) /\ Under(S, u, v, a)
    BY <1>2, <1>9, <1>10, <1>11
  <2>2. /\ u \in Nat /\ v \in Nat /\ a \in Nat /\ c \in Nat /\ u < v /\ a < c
        /\ u \in 0 .. c /\ v \in 0 .. c /\ a \in 0 .. c /\ c \in 0 .. c
    <3>1. u \in 0 .. n /\ v \in 0 .. n /\ u < v
      BY <1>9, <1>10
    <3> QED BY <1>9, <3>1
  <2> HIDE DEF u, v, a, c
  <2>3. S[u] \in Int /\ S[v] \in Int /\ S[a] \in Int /\ S[c] \in Int
    BY <1>4, <2>2
  <2> QED BY <2>1, <2>2, <2>3, EndOfChord DEF u, v
\* The merged line is below every point.
<1>13. \A k \in 0 .. c : Under(S, a, c, k)
  <2> SUFFICES ASSUME NEW k \in 0 .. c PROVE Under(S, a, c, k)
    OBVIOUS
  <2>1. CASE a <= k
    <3>1. k \in a .. c
      BY <1>9, <2>1
    <3> QED BY <1>8, <3>1
  <2>2. CASE ~(a <= k)
    <3>1. q # 0
      BY <1>1, <1>9, <2>2
    <3>2. q \in 1 .. q /\ q \in 1 .. L
      BY <1>3, <3>1
    <3> DEFINE p == ends[q - 1]
    <3>3. Flatter(S, p, a, a, c)
      BY <1>7, <3>1
    <3>4. k \in 0 .. n
      BY <1>9, <2>2
    <3>5. Under(S, p, a, k)
      BY <1>2, <3>2, <3>4
    <3>6. p \in 0 .. n /\ p < a
      BY <1>9, <1>10, <3>2
    <3>7. /\ p \in Nat /\ a \in Nat /\ c \in Nat /\ p < a /\ a < c /\ k \in Nat /\ k <= a
          /\ p \in 0 .. c /\ a \in 0 .. c /\ c \in 0 .. c
      BY <1>9, <2>2, <3>6
    <3> HIDE DEF p, a, c
    <3>8. S[p] \in Int /\ S[a] \in Int /\ S[c] \in Int /\ S[k] \in Int
      BY <1>4, <3>7
    <3> QED BY <3>3, <3>5, <3>7, <3>8, LeftOfChord
  <2> QED BY <2>1, <2>2
<1>14. more \in [0 .. q + 1 -> 0 .. c] /\ more[0] = 0 /\ more[q + 1] = c
  <2>1. \A i \in 0 .. q + 1 : i \in 0 .. q \/ i = q + 1
    BY <1>3
  <2>2. \A i \in 0 .. q + 1 : more[i] \in 0 .. c
    BY <1>5, <1>9, <2>1
  <2>3. 0 \in 0 .. q
    BY <1>3
  <2> QED BY <1>1, <1>5, <1>6, <2>2, <2>3
<1>15. \A i, j \in 0 .. q + 1 : i < j => more[i] < more[j]
  <2> SUFFICES ASSUME NEW i \in 0 .. q + 1, NEW j \in 0 .. q + 1, i < j PROVE more[i] < more[j]
    OBVIOUS
  <2>1. i \in 0 .. q
    BY <1>3
  <2>2. more[i] = ends[i] /\ ends[i] \in 0 .. n
    BY <1>5, <1>9, <2>1
  <2>3. CASE j = q + 1
    BY <1>5, <2>2, <2>3
  <2>4. CASE j # q + 1
    <3>1. j \in 0 .. q
      BY <1>3, <2>4
    <3> QED BY <1>1, <1>5, <1>9, <2>1, <2>2, <3>1
  <2> QED BY <2>3, <2>4
<1>16. \A i \in 1 .. q + 1 : i \in 1 .. q \/ (i = q + 1 /\ i - 1 = q)
  BY <1>3
<1>17. /\ \A i \in 1 .. q : more[i - 1] = ends[i - 1] /\ more[i] = ends[i]
       /\ more[q] = a /\ more[q + 1] = c
  BY <1>3, <1>5, <1>10
<1>18. \A i, j \in 1 .. q + 1 : i < j => Flatter(S, more[i - 1], more[i], more[j - 1], more[j])
  <2> SUFFICES ASSUME NEW i \in 1 .. q + 1, NEW j \in 1 .. q + 1, i < j
               PROVE  Flatter(S, more[i - 1], more[i], more[j - 1], more[j])
    OBVIOUS
  <2>1. i \in 1 .. q
    BY <1>3
  <2>2. CASE j = q + 1 /\ j - 1 = q
    BY <1>11, <1>17, <2>1, <2>2
  <2>3. CASE j \in 1 .. q
    BY <1>2, <1>10, <1>17, <2>1, <2>3
  <2> QED BY <1>16, <2>2, <2>3
<1>19. \A i \in 1 .. q + 1, k \in 0 .. c : Under(S, more[i - 1], more[i], k)
  <2> SUFFICES ASSUME NEW i \in 1 .. q + 1, NEW k \in 0 .. c
               PROVE  Under(S, more[i - 1], more[i], k)
    OBVIOUS
  <2>1. CASE i = q + 1 /\ i - 1 = q
    BY <1>13, <1>17, <2>1
  <2>2. CASE i \in 1 .. q
    <3>1. k \in 0 .. n \/ k = c
      OBVIOUS
    <3> QED BY <1>2, <1>10, <1>12, <1>17, <2>2, <3>1
  <2> QED BY <1>16, <2>1, <2>2
<1>20. q + 1 \in Nat
  BY <1>3
<1>21. Hull(S, c, more, q + 1)
  BY <1>14, <1>15, <1>18, <1>19, <1>20 DEF Hull
<1> QED BY <1>3, <1>21 DEF more, q

-----------------------------------------------------------------------------
\* The rows in order, as a diagram.
Diagram(rows, ordered, N) == [k \in 0 .. N |-> Ones(rows, {ordered[i] : i \in 1 .. k})]

Ascending(rows, ordered, N) ==
  \A m, n \in 1 .. N : m < n => rows[ordered[m]].score < rows[ordered[n]].score

\* The ones of two parts add up;
LEMMA OnesOfParts ==
  ASSUME NEW rows, NEW A, IsFiniteSet(A), NEW B, IsFiniteSet(B), A \cap B = {}
  PROVE  /\ Ones(rows, A \cup B) = Ones(rows, A) + Ones(rows, B)
         /\ Ones(rows, A) \in Nat /\ Ones(rows, B) \in Nat
<1> DEFINE P == Positives(rows, A)
           Q == Positives(rows, B)
<1>1. P \in SUBSET A /\ Q \in SUBSET B /\ Positives(rows, A \cup B) = P \cup Q
  BY DEF Positives
<1>2. P \cap Q = {}
  BY <1>1
<1>3. IsFiniteSet(P) /\ IsFiniteSet(Q)
  BY <1>1, FS_Subset
<1>4. Ones(rows, A) = Cardinality(P) /\ Ones(rows, B) = Cardinality(Q)
      /\ Ones(rows, A \cup B) = Cardinality(P \cup Q)
  BY <1>1 DEF Ones
<1> HIDE DEF P, Q
<1>5. /\ Cardinality(P \cup Q) = Cardinality(P) + Cardinality(Q)
      /\ Cardinality(P) \in Nat /\ Cardinality(Q) \in Nat
  BY <1>2, <1>3, CountOfParts, Zenon
<1> QED BY <1>4, <1>5, Zenon

\* one row has its label.
LEMMA OnesOfOne ==
  ASSUME NEW rows, NEW i, rows[i].label \in {0, 1}
  PROVE  Ones(rows, {i}) = rows[i].label
<1>1. CASE rows[i].label = 1
  <2>1. Positives(rows, {i}) = {i}
    BY <1>1 DEF Positives
  <2> QED BY <1>1, <2>1, FS_Singleton DEF Ones
<1>2. CASE rows[i].label = 0
  <2>1. Positives(rows, {i}) = {}
    BY <1>2 DEF Positives
  <2> QED BY <1>2, <2>1, FS_EmptySet DEF Ones
<1> QED BY <1>1, <1>2

OnesFrom(rows, ordered, j, k) == Ones(rows, {ordered[i] : i \in j .. k})

IsDiagram(rows, part, ordered, N, S) ==
  /\ Rows(rows, part) /\ N \in Nat /\ ordered \in [1 .. N -> part]
  /\ Ascending(rows, ordered, N) /\ S = Diagram(rows, ordered, N)

\* The diagram counts the ones of every part of the listing.
Counts(rows, ordered, N, S) ==
  /\ S \in [0 .. N -> Int]
  /\ \A j, k \in 1 .. N : j <= k =>
         OnesFrom(rows, ordered, j, k) = S[k] - S[j - 1]
  /\ \A j, k \in 1 .. N : OnesFrom(rows, ordered, j, k) \in Nat
  /\ \A k \in 1 .. N : S[k] = S[k - 1] + rows[ordered[k]].label

\* The diagram counts the ones between two places.
LEMMA DiagramCounts ==
  ASSUME NEW rows, NEW part, NEW ordered, NEW N, NEW S, IsDiagram(rows, part, ordered, N, S)
  PROVE  Counts(rows, ordered, N, S)
<1> DEFINE Part(j, k) == {ordered[i] : i \in j .. k}
<1>0. /\ Rows(rows, part) /\ N \in Nat /\ ordered \in [1 .. N -> part]
      /\ Ascending(rows, ordered, N)
  BY DEF IsDiagram
<1> USE <1>0
<1>1. \A j \in 1 .. N + 1, k \in 0 .. N : Part(j, k) \in SUBSET part /\ IsFiniteSet(Part(j, k))
  <2> SUFFICES ASSUME NEW j \in 1 .. N + 1, NEW k \in 0 .. N
               PROVE  Part(j, k) \in SUBSET part /\ IsFiniteSet(Part(j, k))
    OBVIOUS
  <2>1. \A i \in j .. k : ordered[i] \in part
    OBVIOUS
  <2>2. Part(j, k) \in SUBSET part
    BY <2>1
  <2> QED BY <2>2, FS_Subset DEF Rows
<1>2. \A j \in 1 .. N + 1, k \in 0 .. N : Ones(rows, Part(j, k)) \in Nat
  <2> SUFFICES ASSUME NEW j \in 1 .. N + 1, NEW k \in 0 .. N PROVE Ones(rows, Part(j, k)) \in Nat
    OBVIOUS
  <2>1. Positives(rows, Part(j, k)) \in SUBSET Part(j, k)
    BY DEF Positives
  <2>2. IsFiniteSet(Positives(rows, Part(j, k)))
    BY <1>1, <2>1, FS_Subset
  <2> QED BY <2>2, FS_CardinalityType DEF Ones
<1>3. S = [k \in 0 .. N |-> Ones(rows, Part(1, k))]
  BY Zenon DEF Diagram, IsDiagram
<1>4. S \in [0 .. N -> Int]
  <2> HIDE DEF Part
  <2>0. 1 \in 1 .. N + 1
    OBVIOUS
  <2>1. \A k \in 0 .. N : Ones(rows, Part(1, k)) \in Int
    BY <1>2, <2>0
  <2> QED BY <1>3, <2>1
<1>5. ASSUME NEW j \in 1 .. N, NEW k \in 1 .. N, j <= k
      PROVE  Ones(rows, Part(j, k)) = S[k] - S[j - 1]
  <2>1. Part(1, k) = Part(1, j - 1) \cup Part(j, k)
    <3>1. \A i : i \in 1 .. k <=> i \in 1 .. (j - 1) \/ i \in j .. k
      BY <1>5
    <3> QED BY <3>1
  <2>2. Part(1, j - 1) \cap Part(j, k) = {}
    <3> SUFFICES ASSUME NEW x \in Part(1, j - 1), x \in Part(j, k) PROVE FALSE
      OBVIOUS
    <3>1. PICK g \in 1 .. (j - 1) : x = ordered[g]
      OBVIOUS
    <3>2. PICK h \in j .. k : x = ordered[h]
      OBVIOUS
    <3>3. g \in 1 .. N /\ h \in 1 .. N /\ g < h
      BY <3>1, <3>2
    <3>4. rows[ordered[g]].score < rows[ordered[h]].score
      BY <3>3 DEF Ascending
    <3>5. rows[ordered[g]].score = rows[ordered[h]].score
      BY <3>1, <3>2
    <3>6. rows[ordered[g]].score \in Int
      BY <3>3 DEF Rows
    <3> QED BY <3>4, <3>5, <3>6
  <2>3. j - 1 \in 0 .. N /\ j \in 1 .. N + 1 /\ k \in 0 .. N /\ 1 \in 1 .. N + 1
    OBVIOUS
  <2>4. IsFiniteSet(Part(1, j - 1)) /\ IsFiniteSet(Part(j, k))
    BY <1>1, <2>3
  <2>5. S[k] = Ones(rows, Part(1, k)) /\ S[j - 1] = Ones(rows, Part(1, j - 1))
    BY <1>3, <2>3
  <2>6. Ones(rows, Part(1, j - 1) \cup Part(j, k))
          = Ones(rows, Part(1, j - 1)) + Ones(rows, Part(j, k))
    BY <2>2, <2>4, OnesOfParts
  <2>7. Ones(rows, Part(1, k)) = Ones(rows, Part(1, j - 1)) + Ones(rows, Part(j, k))
    BY <2>1, <2>6, Zenon
  <2>8. Ones(rows, Part(1, j - 1)) \in Nat /\ Ones(rows, Part(j, k)) \in Nat
    BY <1>2, <2>3
  <2> HIDE DEF Part
  <2> QED BY <2>5, <2>7, <2>8
<1>6. ASSUME NEW k \in 1 .. N PROVE S[k] = S[k - 1] + rows[ordered[k]].label
  <2>1. Part(k, k) = {ordered[k]}
    OBVIOUS
  <2>2. rows[ordered[k]].label \in {0, 1}
    BY DEF Rows
  <2>3. Ones(rows, Part(k, k)) = rows[ordered[k]].label
    BY <2>1, <2>2, OnesOfOne
  <2>4. Ones(rows, Part(k, k)) = S[k] - S[k - 1]
    BY <1>5
  <2>5. k \in 0 .. N /\ k - 1 \in 0 .. N
    OBVIOUS
  <2> HIDE DEF Part
  <2>6. S[k] \in Int /\ S[k - 1] \in Int
    BY <1>4, <2>5
  <2> QED BY <2>2, <2>3, <2>4, <2>6
<1>7. \A j, k \in 1 .. N : Ones(rows, Part(j, k)) \in Nat
  <2>1. \A j \in 1 .. N : j \in 1 .. N + 1 /\ j \in 0 .. N
    OBVIOUS
  <2> QED BY <1>2, <2>1
<1>8. \A j, k \in 1 .. N : OnesFrom(rows, ordered, j, k) = Ones(rows, Part(j, k))
  BY Zenon DEF OnesFrom
<1> HIDE DEF Part
<1> QED BY <1>4, <1>5, <1>6, <1>7, <1>8 DEF Counts

\* The blocks are the chords of the minorant.
Chord(rows, ordered, S, ends, i) ==
  Block(rows[ordered[ends[i]]].score, S[ends[i]] - S[ends[i - 1]], ends[i] - ends[i - 1])

Shape(rows, ordered, S, n, blocks, ends, L) ==
  /\ Hull(S, n, ends, L)
  /\ blocks \in Seq(Blocks) /\ Len(blocks) = L
  /\ \A i \in 1 .. L : blocks[i] = Chord(rows, ordered, S, ends, i)

\* The parts of a block.
LEMMA BlockParts ==
  ASSUME NEW block, NEW score, NEW ones, NEW size, block = Block(score, ones, size)
  PROVE  block.upTo = score /\ block.ones = ones /\ block.size = size
BY DEF Block

\* One more block after the last one, for a row of this score and label.
Widened(S, n, blocks, score, label, wide) ==
  /\ label \in Int /\ S[n + 1] = S[n] + label
  /\ wide = Append(blocks, Block(score, label, 1))

\* What appending does.
LEMMA AppendParts ==
  ASSUME NEW A, NEW seq \in Seq(A), NEW x, NEW longer, longer = Append(seq, x)
  PROVE  /\ Len(longer) = Len(seq) + 1 /\ longer[Len(seq) + 1] = x
         /\ \A i \in 1 .. Len(seq) : longer[i] = seq[i]
OBVIOUS

\* Merging the last k blocks after row n + 1 gives the chord from ends[(L + 1) - k].
TopChords(S, n, ends, L, score, top) ==
  \A k \in 1 .. L + 1 :
    top[k] = Block(score, S[n + 1] - S[ends[(L + 1) - k]], (n + 1) - ends[(L + 1) - k])

\* The merged blocks of the code are these chords.
LEMMA TopsAreChords ==
  ASSUME NEW rows, NEW ordered, NEW N \in Nat, NEW S \in [0 .. N -> Int],
         NEW n \in Nat, n < N, NEW blocks, NEW ends, NEW L,
         Shape(rows, ordered, S, n, blocks, ends, L),
         NEW score, NEW label, NEW wide, Widened(S, n, blocks, score, label, wide),
         NEW top, Tops(wide, L + 1, top)
  PROVE  TopChords(S, n, ends, L, score, top)
<1> DEFINE Is(k) == top[k] = Block(score, S[n + 1] - S[ends[(L + 1) - k]], (n + 1) - ends[(L + 1) - k])
           G == {k \in 0 .. L + 1 : k # 0 => Is(k)}
<1>1. /\ L \in Nat /\ ends \in [0 .. L -> 0 .. n] /\ ends[L] = n
      /\ blocks \in Seq(Blocks) /\ Len(blocks) = L
      /\ \A i \in 1 .. L : blocks[i] = Chord(rows, ordered, S, ends, i)
  BY DEF Shape, Hull
<1>0. label \in Int /\ S[n + 1] = S[n] + label /\ wide = Append(blocks, Block(score, label, 1))
  BY DEF Widened
<1>2. /\ Len(wide) = L + 1 /\ wide[L + 1] = Block(score, label, 1)
      /\ \A i \in 1 .. L : wide[i] = blocks[i]
  BY <1>0, <1>1
<1>3. \A k \in 0 .. n + 1 : S[k] \in Int
  OBVIOUS
<1>4. \A i \in 0 .. L : ends[i] \in 0 .. n /\ S[ends[i]] \in Int
  BY <1>1, <1>3
<1>5. \A k \in 1 .. L + 1 : top[k] =
        IF k = 1 THEN wide[L + 1]
        ELSE Block(wide[L + 1].upTo, wide[(L + 1) - k + 1].ones + top[k - 1].ones,
                   wide[(L + 1) - k + 1].size + top[k - 1].size)
  <2>1. Len(wide) = L + 1
    BY <1>2
  <2> QED BY <2>1, Zenon DEF Tops
<1>6. Is(1)
  <2>1. 1 \in 1 .. L + 1 /\ (L + 1) - 1 = L
    BY <1>1
  <2>2. top[1] = Block(score, label, 1)
    BY <1>2, <1>5, <2>1
  <2>3. S[n + 1] - S[n] = label /\ (n + 1) - n = 1
    BY <1>0, <1>3
  <2> QED BY <1>1, <2>1, <2>2, <2>3
<1>7. 0 \in G
  BY <1>1
<1>8. ASSUME NEW k \in 0 .. L + 1, k # L + 1, k \in G PROVE k + 1 \in G
  <2>1. k + 1 \in 0 .. L + 1
    BY <1>1, <1>8
  <2>2. CASE k = 0
    <3>1. Is(k + 1)
      <4> HIDE DEF Is
      <4> QED BY <1>6, <2>2
    <3> QED BY <2>1, <3>1
  <2>3. CASE k # 0
    <3> DEFINE i == (L + 1) - k
               b == ends[i]
               a == ends[i - 1]
    <3>1. /\ k + 1 \in 1 .. L + 1 /\ k + 1 # 1 /\ (k + 1) - 1 = k /\ i \in 1 .. L
          /\ (L + 1) - (k + 1) + 1 = i /\ (L + 1) - (k + 1) = i - 1
          /\ i \in 0 .. L /\ i - 1 \in 0 .. L
      BY <1>1, <1>8, <2>3
    <3> HIDE DEF i
    <3>2. top[k + 1] = Block(wide[L + 1].upTo, wide[i].ones + top[k].ones, wide[i].size + top[k].size)
      BY <1>5, <3>1
    <3>3. top[k] = Block(score, S[n + 1] - S[b], (n + 1) - b)
      BY <1>8, <2>3 DEF i
    <3>4. wide[i] = Block(rows[ordered[b]].score, S[b] - S[a], b - a)
      <4>1. wide[i] = Chord(rows, ordered, S, ends, i)
        BY <1>1, <1>2, <3>1
      <4> QED BY <4>1 DEF Chord
    <3>5. /\ a \in Int /\ b \in Int /\ S[a] \in Int /\ S[b] \in Int /\ S[n + 1] \in Int
      BY <1>3, <1>4, <3>1
    <3>6. Is(k + 1) <=> top[k + 1] = Block(score, S[n + 1] - S[a], (n + 1) - a)
      BY <3>1
    <3> HIDE DEF a, b, Is
    <3>7. /\ wide[L + 1].upTo = score
          /\ wide[i].ones + top[k].ones = S[n + 1] - S[a]
          /\ wide[i].size + top[k].size = (n + 1) - a
      <4>1. wide[L + 1].upTo = score
        BY <1>2, BlockParts
      <4>2. /\ wide[i].ones = S[b] - S[a] /\ top[k].ones = S[n + 1] - S[b]
            /\ wide[i].size = b - a /\ top[k].size = (n + 1) - b
        <5>1. wide[i].ones = S[b] - S[a] /\ wide[i].size = b - a
          <6> DEFINE left == wide[i]
          <6>1. left = Block(rows[ordered[b]].score, S[b] - S[a], b - a)
            BY <3>4
          <6> HIDE DEF left
          <6>2. left.ones = S[b] - S[a] /\ left.size = b - a
            BY <6>1, BlockParts
          <6> QED BY <6>2 DEF left
        <5>2. top[k].ones = S[n + 1] - S[b] /\ top[k].size = (n + 1) - b
          <6> DEFINE right == top[k]
          <6>1. right = Block(score, S[n + 1] - S[b], (n + 1) - b)
            BY <3>3
          <6> HIDE DEF right
          <6>2. right.ones = S[n + 1] - S[b] /\ right.size = (n + 1) - b
            BY <6>1, BlockParts
          <6> QED BY <6>2 DEF right
        <5> QED BY <5>1, <5>2
      <4>3. (S[b] - S[a]) + (S[n + 1] - S[b]) = S[n + 1] - S[a] /\ (b - a) + ((n + 1) - b) = (n + 1) - a
        BY <3>5
      <4> QED BY <4>1, <4>2, <4>3
    <3>8. Is(k + 1)
      BY <3>2, <3>6, <3>7
    <3> QED BY <2>1, <3>8
  <2> QED BY <2>2, <2>3
<1>9. 0 .. L + 1 \subseteq G
  <2>1. L + 1 \in Nat
    BY <1>1
  <2> HIDE DEF G
  <2> QED BY <1>7, <1>8, <2>1, Reaches
<1>10. \A k \in 1 .. L + 1 : k \in 0 .. L + 1 /\ k # 0
  BY <1>1
<1> HIDE DEF Is
<1>11. \A k \in 1 .. L + 1 : Is(k)
  BY <1>9, <1>10
<1> QED BY <1>11 DEF Is, TopChords

\* MeanAbove compares slopes.
LEMMA MeansAreSlopes ==
  ASSUME NEW S, NEW a \in Int, NEW b \in Int, NEW c \in Int,
         S[a] \in Int, S[b] \in Int, S[c] \in Int,
         NEW left, NEW right,
         left.ones = S[b] - S[a], left.size = b - a,
         right.ones = S[c] - S[b], right.size = c - b
  PROVE  /\ MeanAbove(left, right) => Flatter(S, b, c, a, b)
         /\ ~MeanAbove(left, right) => Flatter(S, a, b, b, c)
<1> DEFINE x == (S[b] - S[a]) * (c - b)
           y == (S[c] - S[b]) * (b - a)
<1>1. x \in Int /\ y \in Int
  <2>1. S[b] - S[a] \in Int /\ c - b \in Int /\ S[c] - S[b] \in Int /\ b - a \in Int
    OBVIOUS
  <2> QED BY <2>1, Negated
<1>2. MeanAbove(left, right) <=> x > y
  BY DEF MeanAbove
<1>3. (Flatter(S, b, c, a, b) <=> y <= x) /\ (Flatter(S, a, b, b, c) <=> x <= y)
  BY DEF Flatter
<1> HIDE DEF x, y
<1> QED BY <1>1, <1>2, <1>3

\* The row after n, and how the diagram grows by it.
RowAfter(rows, ordered, S, n, row) ==
  row = rows[ordered[n + 1]] /\ row.label \in {0, 1} /\ S[n + 1] = S[n] + row.label

\* One more row: its block is appended and the blocks are pooled.
LEMMA ShapeStep ==
  ASSUME NEW rows, NEW ordered, NEW N \in Nat, NEW S \in [0 .. N -> Int],
         NEW n \in Nat, n < N, NEW blocks, NEW ends, NEW L,
         Shape(rows, ordered, S, n, blocks, ends, L),
         Ascending(rows, ordered, N),
         \A k \in 1 .. N : rows[ordered[k]].score \in Int,
         NEW row, RowAfter(rows, ordered, S, n, row)
  PROVE  \E newEnds : \E K :
            Shape(rows, ordered, S, n + 1, PoolBlocks(AddRow(blocks, row)), newEnds, K)
<1>1. /\ L \in Nat /\ ends \in [0 .. L -> 0 .. n] /\ ends[0] = 0 /\ ends[L] = n
      /\ blocks \in Seq(Blocks) /\ Len(blocks) = L
      /\ \A i \in 1 .. L : blocks[i] = Chord(rows, ordered, S, ends, i)
      /\ \A i, j \in 0 .. L : i < j => ends[i] < ends[j]
      /\ Hull(S, n, ends, L)
  BY DEF Shape, Hull
<1> DEFINE score == row.score
           label == row.label
           wide == Append(blocks, Block(score, label, 1))
<1>2. n + 1 \in 1 .. N /\ score \in Int /\ label \in Int /\ label \in {0, 1}
  BY DEF RowAfter
<1>2a. score = rows[ordered[n + 1]].score
  BY DEF RowAfter
<1>2b. S[n + 1] = S[n] + label
  BY DEF RowAfter
<1>3. AddRow(blocks, row) = wide
  <2> SUFFICES ASSUME blocks # <<>> PROVE Last(blocks).upTo # score
    BY DEF AddRow
  <2>1. L \in 1 .. L /\ 0 \in 0 .. L /\ L \in 0 .. L /\ 0 < L
    BY <1>1
  <2>2. Last(blocks) = Chord(rows, ordered, S, ends, L)
    BY <1>1, <2>1 DEF Last
  <2>3. Last(blocks).upTo = rows[ordered[n]].score
    BY <1>1, <2>2 DEF Chord, Block
  <2>3a. ends[0] < ends[L]
    BY <1>1, <2>1
  <2>3b. 0 < n
    BY <1>1, <2>3a
  <2>4. n \in 1 .. N /\ n < n + 1
    BY <2>3b
  <2>5. rows[ordered[n]].score < score /\ rows[ordered[n]].score \in Int
    BY <1>2, <1>2a, <2>4 DEF Ascending
  <2> QED BY <1>2, <2>3, <2>5
<1>4. wide \in Seq(Blocks) /\ wide # <<>>
  BY <1>1, <1>2, <1>3, AddKeepsBlocks
<1>5. /\ Len(wide) = L + 1 /\ \A i \in 1 .. L : wide[i] = Chord(rows, ordered, S, ends, i)
  BY <1>1
<1> HIDE DEF wide, score, label
<1>6. PICK top : \E m \in 1 .. Len(wide) : Pooling(wide, top, m)
  BY <1>4, Pools
<1>7. PICK m \in 1 .. Len(wide) : Pooling(wide, top, m)
  BY <1>6
<1>8. m \in 1 .. L + 1
  BY <1>5, <1>7
<1>9. /\ Tops(wide, L + 1, top)
      /\ PoolBlocks(wide) = Append(SubSeq(wide, 1, (L + 1) - m), top[m])
      /\ m = L + 1 \/ ~MeanAbove(wide[(L + 1) - m], top[m])
      /\ \A k \in 1 .. (m - 1) : MeanAbove(wide[(L + 1) - k], top[k])
  <2> DEFINE W == Len(wide)
  <2>1. /\ Tops(wide, W, top)
        /\ PoolBlocks(wide) = Append(SubSeq(wide, 1, W - m), top[m])
        /\ m = W \/ ~MeanAbove(wide[W - m], top[m])
        /\ \A k \in 1 .. (m - 1) : MeanAbove(wide[W - k], top[k])
    BY <1>7 DEF Pooling
  <2>2. W = L + 1
    BY <1>5
  <2> HIDE DEF W
  <2> QED BY <2>1, <2>2
<1>10. \A k \in 1 .. L + 1 :
         top[k] = Block(score, S[n + 1] - S[ends[(L + 1) - k]], (n + 1) - ends[(L + 1) - k])
  <2>1. Widened(S, n, blocks, score, label, wide)
    BY <1>2, <1>2b DEF Widened, wide
  <2>2. Tops(wide, L + 1, top)
    BY <1>9
  <2>3. TopChords(S, n, ends, L, score, top)
    BY <2>1, <2>2, TopsAreChords
  <2> QED BY <2>3, Zenon DEF TopChords
<1>11. \A k \in 0 .. n + 1 : S[k] \in Int
  BY <1>2
<1>12. \A i \in 0 .. L : ends[i] \in 0 .. n /\ S[ends[i]] \in Int
  BY <1>1, <1>11
<1>13. ASSUME NEW k \in 1 .. L
       PROVE  /\ MeanAbove(wide[(L + 1) - k], top[k])
                   => Flatter(S, ends[(L + 1) - k], n + 1, ends[L - k], ends[(L + 1) - k])
              /\ ~MeanAbove(wide[(L + 1) - k], top[k])
                   => Flatter(S, ends[L - k], ends[(L + 1) - k], ends[(L + 1) - k], n + 1)
  <2> DEFINE i == (L + 1) - k
             a == ends[L - k]
             b == ends[i]
             c == n + 1
             left == wide[i]
             right == top[k]
  <2>0. L \in Nat
    BY <1>1
  <2>1. k \in 1 .. L + 1 /\ i \in 1 .. L /\ i - 1 = L - k /\ L - k \in 0 .. L /\ i \in 0 .. L
    BY <2>0
  <2>2. right = Block(score, S[c] - S[b], c - b)
    <3>1. top[k] = Block(score, S[n + 1] - S[ends[(L + 1) - k]], (n + 1) - ends[(L + 1) - k])
      BY <1>10, <2>1, Zenon
    <3> QED BY <3>1, Zenon
  <2>3. left = Block(rows[ordered[b]].score, S[b] - S[a], b - a)
    <3> DEFINE e == i - 1
    <3>1. left = Chord(rows, ordered, S, ends, i)
      BY <1>5, <2>1
    <3>2. left = Block(rows[ordered[ends[i]]].score, S[ends[i]] - S[ends[e]], ends[i] - ends[e])
      BY <3>1, Zenon DEF Chord
    <3>3. e = L - k
      BY <2>1
    <3> HIDE DEF e, i, left
    <3>4. left = Block(rows[ordered[ends[i]]].score, S[ends[i]] - S[ends[L - k]], ends[i] - ends[L - k])
      BY <3>2, <3>3
    <3> QED BY <3>4, Zenon
  <2>4. /\ a \in Int /\ b \in Int /\ c \in Int
        /\ S[a] \in Int /\ S[b] \in Int /\ S[c] \in Int
    <3>1. a \in 0 .. n /\ b \in 0 .. n /\ S[a] \in Int /\ S[b] \in Int
      BY <1>12, <2>1
    <3>2. c \in 0 .. n + 1 /\ c \in Int /\ \A x \in 0 .. n : x \in Int
      OBVIOUS
    <3> QED BY <1>11, <3>1, <3>2
  <2> HIDE DEF left, right, a, b, c
  <2>5. left.ones = S[b] - S[a] /\ left.size = b - a
    BY <2>3, BlockParts
  <2>6. right.ones = S[c] - S[b] /\ right.size = c - b
    BY <2>2, BlockParts
  <2>7. /\ MeanAbove(left, right) => Flatter(S, b, c, a, b)
        /\ ~MeanAbove(left, right) => Flatter(S, a, b, b, c)
    BY <2>4, <2>5, <2>6, MeansAreSlopes
  <2> QED BY <2>7, Zenon DEF left, right, a, b, c
<1>14. m = L + 1 \/ Flatter(S, ends[L - m], ends[(L + 1) - m], ends[(L + 1) - m], n + 1)
  <2>1. m # L + 1 => m \in 1 .. L
    BY <1>1, <1>8
  <2> QED BY <1>9, <1>13, <2>1
<1>15. \A k \in 1 .. (m - 1) :
         Flatter(S, ends[(L + 1) - k], n + 1, ends[L - k], ends[(L + 1) - k])
  <2>1. \A k \in 1 .. (m - 1) : k \in 1 .. L
    BY <1>1, <1>8
  <2> QED BY <1>9, <1>13, <2>1
<1> DEFINE q == (L + 1) - m
           newEnds == Extended(ends, q, n)
           pooled == PoolBlocks(wide)
<1>16. Hull(S, n + 1, newEnds, q + 1)
  <2>1. Hull(S, n + 1, newEnds, (L + 2) - m)
    BY <1>1, <1>8, <1>14, <1>15, HullGrows
  <2>2. (L + 2) - m = q + 1
    BY <1>1, <1>8
  <2> QED BY <2>1, <2>2
<1>17. q \in 0 .. L /\ q \in Nat /\ (L + 1) - m = q
  BY <1>1, <1>8
<1>18. \A i \in 0 .. q + 1 : newEnds[i] = IF i = q + 1 THEN n + 1 ELSE ends[i]
  BY DEF Extended
<1>19. pooled \in Seq(Blocks)
  BY <1>4, PoolKeepsBlocks
<1>20. /\ Len(pooled) = q + 1 /\ pooled[q + 1] = top[m]
       /\ \A i \in 1 .. q : pooled[i] = wide[i]
  <2> DEFINE kept == SubSeq(wide, 1, q)
             last == top[m]
  <2>1. kept \in Seq(Blocks) /\ Len(kept) = q /\ \A i \in 1 .. q : kept[i] = wide[i]
    BY <1>1, <1>4, <1>5, <1>17
  <2>2. pooled = Append(kept, last)
    BY <1>9, <1>17
  <2> HIDE DEF kept, last, pooled, q
  <2>2a. /\ Len(pooled) = Len(kept) + 1 /\ pooled[Len(kept) + 1] = last
         /\ \A i \in 1 .. Len(kept) : pooled[i] = kept[i]
    BY <2>1, <2>2, AppendParts
  <2>3. Len(pooled) = q + 1 /\ pooled[q + 1] = last /\ \A i \in 1 .. q : pooled[i] = kept[i]
    BY <2>1, <2>2a, Zenon
  <2> QED BY <2>1, <2>3 DEF last
<1>21. \A i \in 1 .. q + 1 : pooled[i] = Chord(rows, ordered, S, newEnds, i)
  <2> SUFFICES ASSUME NEW i \in 1 .. q + 1
               PROVE  pooled[i] = Chord(rows, ordered, S, newEnds, i)
    OBVIOUS
  <2> HIDE DEF newEnds, pooled, q
  <2>1. CASE i = q + 1
    <3>1. i \in 0 .. q + 1 /\ i - 1 \in 0 .. q + 1 /\ i - 1 = q /\ i - 1 # q + 1
      BY <1>17, <2>1
    <3>2. newEnds[i] = n + 1 /\ newEnds[i - 1] = ends[q]
      BY <1>18, <2>1, <3>1
    <3>3. pooled[i] = Block(score, S[n + 1] - S[ends[q]], (n + 1) - ends[q])
      <4>1. top[m] = Block(score, S[n + 1] - S[ends[(L + 1) - m]], (n + 1) - ends[(L + 1) - m])
        BY <1>8, <1>10, Zenon
      <4>2. (L + 1) - m = q
        BY DEF q
      <4>3. top[m] = Block(score, S[n + 1] - S[ends[q]], (n + 1) - ends[q])
        BY <4>1, <4>2
      <4> QED BY <1>20, <2>1, <4>3
    <3>4. Chord(rows, ordered, S, newEnds, i)
            = Block(rows[ordered[n + 1]].score, S[n + 1] - S[ends[q]], (n + 1) - ends[q])
      <4> DEFINE y == newEnds[i]
                 z == newEnds[i - 1]
      <4>1. Chord(rows, ordered, S, newEnds, i)
              = Block(rows[ordered[y]].score, S[y] - S[z], y - z)
        BY Zenon DEF Chord
      <4>2. y = n + 1 /\ z = ends[q]
        BY <3>2
      <4> HIDE DEF y, z
      <4> QED BY <4>1, <4>2
    <3> QED BY <1>2a, <3>3, <3>4
  <2>2. CASE i # q + 1
    <3>1. i \in 1 .. q /\ i \in 1 .. L /\ i \in 0 .. q + 1 /\ i - 1 \in 0 .. q + 1 /\ i - 1 # q + 1
      BY <1>1, <1>17, <2>2
    <3>2. newEnds[i] = ends[i] /\ newEnds[i - 1] = ends[i - 1]
      BY <1>18, <2>2, <3>1
    <3>3. pooled[i] = Chord(rows, ordered, S, ends, i)
      BY <1>5, <1>20, <3>1
    <3> QED BY <3>2, <3>3 DEF Chord
  <2> QED BY <2>1, <2>2
<1> HIDE DEF newEnds, pooled, q
<1>22. Shape(rows, ordered, S, n + 1, pooled, newEnds, q + 1)
  BY <1>16, <1>19, <1>20, <1>21 DEF Shape
<1> QED BY <1>3, <1>22 DEF pooled

\* So after every row the blocks are the chords of the minorant.
LEMMA FitIsHull ==
  ASSUME NEW rows, NEW part, Rows(rows, part), NEW N \in Nat,
         NEW ordered \in [1 .. N -> part], Ascending(rows, ordered, N),
         NEW fit, IsFit(rows, ordered, N, fit)
  PROVE  \E ends : \E L : Shape(rows, ordered, Diagram(rows, ordered, N), N, fit[N], ends, L)
<1>2. /\ fit[0] = <<>>
      /\ \A n \in 1 .. N : fit[n] = PoolBlocks(AddRow(fit[n - 1], rows[ordered[n]]))
  <2>1. \A n \in 0 .. N :
          fit[n] = IF n = 0 THEN <<>> ELSE PoolBlocks(AddRow(fit[n - 1], rows[ordered[n]]))
    BY Zenon DEF IsFit
  <2>2. 0 \in 0 .. N /\ \A n \in 1 .. N : n \in 0 .. N /\ n # 0
    OBVIOUS
  <2> HIDE DEF PoolBlocks, AddRow
  <2> QED BY <2>1, <2>2
<1> DEFINE S == Diagram(rows, ordered, N)
           Shaped(n) == \E ends : \E L : Shape(rows, ordered, S, n, fit[n], ends, L)
           G == {n \in 0 .. N : Shaped(n)}
<1>1. /\ S \in [0 .. N -> Int]
      /\ \A k \in 1 .. N : S[k] = S[k - 1] + rows[ordered[k]].label
  <2>1. IsDiagram(rows, part, ordered, N, S)
    BY DEF IsDiagram
  <2> HIDE DEF Shaped, S
  <2>2. Counts(rows, ordered, N, S)
    BY <2>1, DiagramCounts
  <2> QED BY <2>2 DEF Counts
<1>3. \A k \in 1 .. N : rows[ordered[k]].score \in Int /\ rows[ordered[k]].label \in {0, 1}
  BY DEF Rows
<1> HIDE DEF S
<1>4. Shaped(0)
  <2> DEFINE ends == [i \in 0 .. 0 |-> 0]
  <2>1. ends \in [0 .. 0 -> 0 .. 0] /\ ends[0] = 0
    OBVIOUS
  <2>2. Hull(S, 0, ends, 0)
    BY <2>1 DEF Hull
  <2>3. <<>> \in Seq(Blocks) /\ Len(<<>>) = 0
    OBVIOUS
  <2> HIDE DEF ends
  <2>4. Shape(rows, ordered, S, 0, <<>>, ends, 0)
    BY <2>2, <2>3 DEF Shape
  <2> QED BY <1>2, <2>4
<1> HIDE DEF Shaped
<1>5. 0 \in G
  BY <1>4
<1>6. ASSUME NEW n \in 0 .. N, n # N, n \in G PROVE n + 1 \in G
  <2>1. PICK ends : \E L : Shape(rows, ordered, S, n, fit[n], ends, L)
    BY <1>6 DEF Shaped
  <2>2. PICK L : Shape(rows, ordered, S, n, fit[n], ends, L)
    BY <2>1
  <2>3. n \in Nat /\ n < N /\ n + 1 \in 1 .. N /\ (n + 1) - 1 = n /\ n + 1 \in 0 .. N
    BY <1>6
  <2> DEFINE row == rows[ordered[n + 1]]
             blocks == fit[n]
  <2>4. S[n + 1] = S[n] + row.label /\ row.label \in {0, 1}
    BY <1>1, <1>3, <2>3
  <2>5. fit[n + 1] = PoolBlocks(AddRow(blocks, row))
    BY <1>2, <2>3
  <2>6. row = rows[ordered[n + 1]] /\ Shape(rows, ordered, S, n, blocks, ends, L)
    BY <2>2
  <2> HIDE DEF row, blocks
  <2>6a. RowAfter(rows, ordered, S, n, row)
    BY <2>4 DEF RowAfter, row
  <2>6b. S \in [0 .. N -> Int] /\ \A k \in 1 .. N : rows[ordered[k]].score \in Int
    BY <1>1, <1>3
  <2>7. \E newEnds : \E K :
          Shape(rows, ordered, S, n + 1, PoolBlocks(AddRow(blocks, row)), newEnds, K)
    BY <2>3, <2>6, <2>6a, <2>6b, ShapeStep
  <2>8. Shaped(n + 1)
    BY <2>5, <2>7 DEF Shaped
  <2> QED BY <2>3, <2>8
<1>7. 0 .. N \subseteq G
  <2> HIDE DEF G
  <2> QED BY <1>5, <1>6, Reaches
<1>8. Shaped(N)
  BY <1>7
<1> QED BY <1>8 DEF Shaped, S


\* A scaled mean grows with the fraction.
LEMMA MeanGrows ==
  ASSUME NEW scale \in Nat, NEW X \in Nat, NEW Z \in Nat,
         NEW d \in Nat \ {0}, NEW e \in Nat \ {0}, X * e <= Z * d
  PROVE  (scale * X) \div d <= (scale * Z) \div e
<1>1. scale * X \in Nat /\ scale * Z \in Nat
  BY Rearranged
<1>2. X * e \in Int /\ Z * d \in Int
  BY Rearranged
<1>3. scale * (X * e) <= scale * (Z * d)
  BY <1>2, Scaled
<1>4. (scale * X) * e <= (scale * Z) * d
  BY <1>3, Rearranged
<1> QED BY <1>1, <1>4, QuotientGrows

\* A mean that ends where the chord ends is not above it:
LEMMA EarlierStart ==
  ASSUME NEW S, NEW a \in Int, NEW b \in Int, NEW k \in Int,
         S[a] \in Int, S[b] \in Int, S[k] \in Int, Under(S, a, b, k)
  PROVE  (S[b] - S[k]) * (b - a) <= (S[b] - S[a]) * (b - k)
<1> DEFINE X == S[b] - S[a]
           Y == S[k] - S[a]
           d == b - a
           e == k - a
<1>1. X \in Int /\ Y \in Int /\ d \in Int /\ e \in Int
  OBVIOUS
<1>2. X * e <= d * Y
  BY DEF Under
<1>3. S[b] - S[k] = X - Y /\ b - k = d - e
  OBVIOUS
<1> HIDE DEF X, Y, d, e
<1>4. X - Y \in Int /\ (X - Y) * d = d * X - d * Y /\ X * (d - e) = X * d - X * e /\ d * X = X * d
  <2>1. X - Y \in Int
    BY <1>1
  <2>2. (X - Y) * d = d * (X - Y)
    BY <1>1, <2>1, Rearranged
  <2> QED BY <1>1, <2>1, <2>2, Rearranged
<1>5. d * Y \in Int /\ X * e \in Int /\ X * d \in Int
  BY <1>1, Rearranged
<1>6. (X - Y) * d <= X * (d - e)
  BY <1>2, <1>4, <1>5
<1> QED BY <1>3, <1>6 DEF X, d

\* One that starts where the chord starts is not below it.
LEMMA LaterEnd ==
  ASSUME NEW S, NEW a \in Int, NEW b \in Int, NEW k \in Int,
         S[a] \in Int, S[b] \in Int, S[k] \in Int, Under(S, a, b, k)
  PROVE  (S[b] - S[a]) * (k - a) <= (S[k] - S[a]) * (b - a)
<1>1. b - a \in Int /\ S[k] - S[a] \in Int
  OBVIOUS
<1>2. (b - a) * (S[k] - S[a]) = (S[k] - S[a]) * (b - a)
  BY <1>1, Rearranged
<1> QED BY <1>2 DEF Under

\* The mean of the rows from j to k, from the diagram.
MeanOf(S, j, k) == (Scale * (S[k] - S[j - 1])) \div ((k - j) + 1)

Rising(S, N) == \A j, k \in 0 .. N : j <= k => S[k] - S[j] \in Nat

Ends(ends, i, a, b) == a = ends[i - 1] /\ b = ends[i]

\* The slope of the chord over a row is the greatest of least means at that row.
LEMMA ChordIsMinimax ==
  ASSUME NEW N \in Nat, NEW S \in [0 .. N -> Int], Rising(S, N),
         NEW ends, NEW L, Hull(S, N, ends, L), NEW i \in 1 .. L,
         NEW a, NEW b, Ends(ends, i, a, b), NEW n, n \in (a + 1) .. b
  PROVE  /\ a \in 0 .. N /\ b \in 0 .. N /\ a < b
         /\ MeanOf(S, a + 1, b) = (Scale * (S[b] - S[a])) \div (b - a)
         /\ \A j \in 1 .. n : MeanOf(S, j, b) <= MeanOf(S, a + 1, b)
         /\ \A k \in n .. N : MeanOf(S, a + 1, b) <= MeanOf(S, a + 1, k)
<1>1. /\ L \in Nat /\ ends \in [0 .. L -> 0 .. N]
      /\ \A g, h \in 0 .. L : g < h => ends[g] < ends[h]
      /\ \A g \in 1 .. L, k \in 0 .. N : Under(S, ends[g - 1], ends[g], k)
  BY DEF Hull
<1>2. i \in 0 .. L /\ i - 1 \in 0 .. L /\ i - 1 < i
  BY <1>1
<1>3. a \in 0 .. N /\ b \in 0 .. N /\ a < b
  BY <1>1, <1>2 DEF Ends
<1>4. \A k \in 0 .. N : Under(S, a, b, k)
  <2>1. \A k \in 0 .. N : Under(S, ends[i - 1], ends[i], k)
    BY <1>1, Zenon
  <2> QED BY <2>1, Zenon DEF Ends
<1>5. Scale \in Nat
  BY ReleaseAssumption
<1>6. \A k \in 0 .. N : k \in Int /\ S[k] \in Int
  OBVIOUS
<1>7. (a + 1) - 1 = a /\ (b - (a + 1)) + 1 = b - a /\ b - a \in Nat \ {0} /\ S[b] - S[a] \in Nat
  BY <1>3 DEF Rising
<1>8. MeanOf(S, a + 1, b) = (Scale * (S[b] - S[a])) \div (b - a)
  BY <1>7 DEF MeanOf
<1>9. ASSUME NEW j \in 1 .. n PROVE MeanOf(S, j, b) <= MeanOf(S, a + 1, b)
  <2> DEFINE k == j - 1
  <2>1. k \in 0 .. N /\ k < b /\ (b - j) + 1 = b - k
    BY <1>3
  <2>2. MeanOf(S, j, b) = (Scale * (S[b] - S[k])) \div (b - k)
    BY <2>1 DEF MeanOf
  <2> HIDE DEF k
  <2>3. S[b] - S[k] \in Nat /\ b - k \in Nat \ {0}
    <3>1. b \in 0 .. N /\ k \in 0 .. N /\ k <= b /\ b - k \in Nat \ {0}
      BY <1>3, <2>1
    <3>2. S[b] - S[k] \in Nat
      BY <3>1, Zenon DEF Rising
    <3> QED BY <3>1, <3>2
  <2>4. Under(S, a, b, k) /\ S[a] \in Int /\ S[b] \in Int /\ S[k] \in Int
        /\ a \in Int /\ b \in Int /\ k \in Int
    <3>1. Under(S, a, b, k)
      BY <1>4, <2>1, Zenon
    <3>2. /\ S[a] \in Int /\ S[b] \in Int /\ S[k] \in Int
          /\ a \in Int /\ b \in Int /\ k \in Int
      BY <1>3, <1>6, <2>1, Zenon
    <3> QED BY <3>1, <3>2
  <2>5. (S[b] - S[k]) * (b - a) <= (S[b] - S[a]) * (b - k)
    BY <2>4, EarlierStart
  <2>6. (Scale * (S[b] - S[k])) \div (b - k) <= (Scale * (S[b] - S[a])) \div (b - a)
    BY <1>5, <1>7, <2>3, <2>5, MeanGrows
  <2> QED BY <1>8, <2>2, <2>6
<1>10. ASSUME NEW k \in n .. N PROVE MeanOf(S, a + 1, b) <= MeanOf(S, a + 1, k)
  <2>1. k \in 0 .. N /\ a < k /\ (k - (a + 1)) + 1 = k - a
    BY <1>3
  <2>2. MeanOf(S, a + 1, k) = (Scale * (S[k] - S[a])) \div (k - a)
    BY <1>7, <2>1 DEF MeanOf
  <2>3. S[k] - S[a] \in Nat /\ k - a \in Nat \ {0}
    <3>1. k \in 0 .. N /\ a \in 0 .. N /\ a <= k /\ k - a \in Nat \ {0}
      BY <1>3, <2>1
    <3>2. S[k] - S[a] \in Nat
      BY <3>1, Zenon DEF Rising
    <3> QED BY <3>1, <3>2
  <2>4. Under(S, a, b, k) /\ S[a] \in Int /\ S[b] \in Int /\ S[k] \in Int
        /\ a \in Int /\ b \in Int /\ k \in Int
    <3>1. Under(S, a, b, k)
      BY <1>4, <2>1, Zenon
    <3>2. /\ S[a] \in Int /\ S[b] \in Int /\ S[k] \in Int
          /\ a \in Int /\ b \in Int /\ k \in Int
      BY <1>3, <1>6, <2>1, Zenon
    <3> QED BY <3>1, <3>2
  <2>5. (S[b] - S[a]) * (k - a) <= (S[k] - S[a]) * (b - a)
    BY <2>4, LaterEnd
  <2>6. (Scale * (S[b] - S[a])) \div (b - a) <= (Scale * (S[k] - S[a])) \div (k - a)
    BY <1>5, <1>7, <2>3, <2>5, MeanGrows
  <2> QED BY <1>8, <2>2, <2>6
<1> QED BY <1>3, <1>8, <1>9, <1>10


\* The scaled means of the listing, from the diagram.
Tabled(rows, ordered, N, S) ==
  \A j, k \in 1 .. N : j <= k =>
    ScaledMean(rows, ordered, j, k) = MeanOf(S, j, k) /\ MeanOf(S, j, k) \in Int

\* The means of the reference definition, read from the diagram.
LEMMA MeansFromDiagram ==
  ASSUME NEW rows, NEW ordered, NEW N \in Nat, NEW S, Counts(rows, ordered, N, S)
  PROVE  Rising(S, N) /\ Tabled(rows, ordered, N, S)
<1>1. /\ \A k \in 0 .. N : S[k] \in Int
      /\ \A j, k \in 1 .. N : j <= k => OnesFrom(rows, ordered, j, k) = S[k] - S[j - 1]
      /\ \A j, k \in 1 .. N : OnesFrom(rows, ordered, j, k) \in Nat
  BY DEF Counts
<1>2. ASSUME NEW j \in 0 .. N, NEW k \in 0 .. N, j <= k PROVE S[k] - S[j] \in Nat
  <2>1. CASE j = k
    BY <1>1, <2>1
  <2>2. CASE j # k
    <3>1. j + 1 \in 1 .. N /\ k \in 1 .. N /\ j + 1 <= k /\ (j + 1) - 1 = j
      BY <1>2, <2>2
    <3>2. OnesFrom(rows, ordered, j + 1, k) = S[k] - S[(j + 1) - 1]
      BY <1>1, <3>1
    <3>3. OnesFrom(rows, ordered, j + 1, k) \in Nat
      BY <1>1, <3>1
    <3> QED BY <3>1, <3>2, <3>3
  <2> QED BY <2>1, <2>2
<1>3. ASSUME NEW j \in 1 .. N, NEW k \in 1 .. N, j <= k
      PROVE  ScaledMean(rows, ordered, j, k) = MeanOf(S, j, k) /\ MeanOf(S, j, k) \in Int
  <2> DEFINE count == OnesFrom(rows, ordered, j, k)
             size == (k - j) + 1
  <2>1. count = S[k] - S[j - 1] /\ count \in Nat
    BY <1>1, <1>3
  <2>2. ScaledMean(rows, ordered, j, k) = (Scale * count) \div size
    BY DEF ScaledMean, OnesFrom
  <2>3. size \in Nat \ {0}
    BY <1>3
  <2> HIDE DEF count, size
  <2>4. Scale * count \in Int
    <3>1. Scale \in Int /\ count \in Int
      BY <2>1, ReleaseAssumption
    <3> QED BY <3>1, Rearranged
  <2>5. (Scale * count) \div size \in Int
    BY <2>3, <2>4, Quotient
  <2>6. MeanOf(S, j, k) = (Scale * count) \div size
    BY <2>1 DEF MeanOf, size
  <2> QED BY <2>2, <2>5, <2>6
<1> QED BY <1>2, <1>3 DEF Rising, Tabled

\* Of the ends of a start, one has the least mean.
LeastOf(S, j, n, N, value) ==
  /\ \E k \in n .. N : value = MeanOf(S, j, k)
  /\ \A k \in n .. N : value <= MeanOf(S, j, k)
  /\ value \in Int

\* LeastMean is the least of them.
LEMMA LeastMeanIs ==
  ASSUME NEW rows, NEW ordered, NEW N \in Nat, Len(ordered) = N, NEW S,
         Tabled(rows, ordered, N, S), NEW n \in 1 .. N, NEW j \in 1 .. n
  PROVE  LeastOf(S, j, n, N, LeastMean(rows, ordered, j, n))
<1> DEFINE means == {ScaledMean(rows, ordered, j, k) : k \in n .. Len(ordered)}
           least == CHOOSE v \in means : \A w \in means : v <= w
           size == [k \in n .. N |-> MeanOf(S, j, k)]
<1>1. \A k \in n .. N :
        ScaledMean(rows, ordered, j, k) = MeanOf(S, j, k) /\ MeanOf(S, j, k) \in Int
  <2>1. \A k \in n .. N : j \in 1 .. N /\ k \in 1 .. N /\ j <= k
    OBVIOUS
  <2> QED BY <2>1 DEF Tabled
<1>2. IsFiniteSet(n .. N) /\ n .. N # {}
  <2>1. n \in Int /\ N \in Int
    OBVIOUS
  <2>2. IsFiniteSet(n .. N)
    BY <2>1, FS_Interval
  <2>3. n \in n .. N
    OBVIOUS
  <2> QED BY <2>2, <2>3
<1>3. \A k \in n .. N : size[k] = MeanOf(S, j, k) /\ size[k] \in Int
  BY <1>1
<1> HIDE DEF size
<1>4. PICK g \in n .. N : \A k \in n .. N : size[g] <= size[k]
  BY <1>2, <1>3, LeastExists
<1>5. means = {ScaledMean(rows, ordered, j, k) : k \in n .. N}
  OBVIOUS
<1>6. \A w \in means : \E k \in n .. N : w = MeanOf(S, j, k)
  BY <1>1, <1>5
<1>7. \A k \in n .. N : MeanOf(S, j, k) \in means
  BY <1>1, <1>5
<1> HIDE DEF means
<1>8. \E v \in means : \A w \in means : v <= w
  <2>1. MeanOf(S, j, g) \in means
    BY <1>7
  <2>2. \A w \in means : MeanOf(S, j, g) <= w
    BY <1>3, <1>4, <1>6
  <2> QED BY <2>1, <2>2
<1>9. least \in means /\ \A w \in means : least <= w
  BY <1>8
<1>10. LeastMean(rows, ordered, j, n) = least
  BY DEF LeastMean, means
<1> HIDE DEF least
<1>11. \E k \in n .. N : least = MeanOf(S, j, k)
  BY <1>6, <1>9
<1>12. \A k \in n .. N : least <= MeanOf(S, j, k)
  BY <1>7, <1>9
<1>13. least \in Int
  BY <1>1, <1>11
<1> QED BY <1>10, <1>11, <1>12, <1>13 DEF LeastOf

\* So the chord's mean is the greatest of the least means.
LEMMA MinimaxIsValue ==
  ASSUME NEW rows, NEW ordered, NEW N \in Nat, Len(ordered) = N, NEW S,
         Tabled(rows, ordered, N, S), NEW n \in 1 .. N,
         NEW start \in 1 .. n, NEW b \in n .. N,
         \A j \in 1 .. n : MeanOf(S, j, b) <= MeanOf(S, start, b),
         \A k \in n .. N : MeanOf(S, start, b) <= MeanOf(S, start, k)
  PROVE  IsIsotonicValue(rows, ordered, n, MeanOf(S, start, b))
<1> DEFINE v == MeanOf(S, start, b)
           values == {LeastMean(rows, ordered, j, n) : j \in 1 .. n}
<1>1. \A j \in 1 .. n :
        /\ \E k \in n .. N : LeastMean(rows, ordered, j, n) = MeanOf(S, j, k)
        /\ \A k \in n .. N : LeastMean(rows, ordered, j, n) <= MeanOf(S, j, k)
        /\ LeastMean(rows, ordered, j, n) \in Int
  <2>1. \A j \in 1 .. n : LeastOf(S, j, n, N, LeastMean(rows, ordered, j, n))
    BY LeastMeanIs
  <2> QED BY <2>1 DEF LeastOf
<1>2. \A j \in 1 .. n, k \in n .. N : MeanOf(S, j, k) \in Int
  <2>1. \A j \in 1 .. n, k \in n .. N : j \in 1 .. N /\ k \in 1 .. N /\ j <= k
    OBVIOUS
  <2> QED BY <2>1 DEF Tabled
<1>3. v \in Int
  BY <1>2
<1>4. \A w \in values : w <= v /\ w \in Int
  <2> SUFFICES ASSUME NEW j \in 1 .. n
               PROVE  /\ LeastMean(rows, ordered, j, n) <= v
                      /\ LeastMean(rows, ordered, j, n) \in Int
    OBVIOUS
  <2>1. LeastMean(rows, ordered, j, n) <= MeanOf(S, j, b) /\ LeastMean(rows, ordered, j, n) \in Int
    BY <1>1
  <2>2. MeanOf(S, j, b) <= v /\ MeanOf(S, j, b) \in Int
    BY <1>2
  <2> HIDE DEF v
  <2> QED BY <1>3, <2>1, <2>2
<1>5. LeastMean(rows, ordered, start, n) = v
  <2>1. PICK k \in n .. N : LeastMean(rows, ordered, start, n) = MeanOf(S, start, k)
    BY <1>1
  <2>2. v <= MeanOf(S, start, k) /\ MeanOf(S, start, k) \in Int
    BY <1>2
  <2>3. LeastMean(rows, ordered, start, n) <= v
    BY <1>1
  <2> HIDE DEF v
  <2> QED BY <1>3, <2>1, <2>2, <2>3
<1>6. v \in values
  BY <1>5
<1> HIDE DEF values
<1>7. v = Greatest(values)
  <2> DEFINE top == CHOOSE x \in values : \A y \in values : y <= x
  <2>1. top \in values /\ \A y \in values : y <= top
    <3>1. \E x \in values : \A y \in values : y <= x
      BY <1>4, <1>6
    <3> QED BY <3>1
  <2> HIDE DEF top, v
  <2>2. v <= top /\ top <= v /\ top \in Int
    BY <1>4, <1>6, <2>1
  <2>3. v = top
    BY <1>3, <2>2
  <2> QED BY <2>3 DEF top, Greatest
<1> QED BY <1>7, Zenon DEF IsIsotonicValue, values, v


\* The block that answers for a row's score is the chord over that row.
Covers(rows, ordered, S, blocks, ends, n, i) ==
  /\ n \in (ends[i - 1] + 1) .. ends[i]
  /\ Isotonic(blocks, rows[ordered[n]].score)
       = (Scale * (S[ends[i]] - S[ends[i - 1]])) \div (ends[i] - ends[i - 1])

\* Every row has such a block.
LEMMA BlockOfRow ==
  ASSUME NEW rows, NEW ordered, NEW N \in Nat, NEW S \in [0 .. N -> Int],
         NEW blocks, NEW ends, NEW L, Shape(rows, ordered, S, N, blocks, ends, L),
         Ascending(rows, ordered, N),
         \A k \in 1 .. N : rows[ordered[k]].score \in Int,
         NEW n \in 1 .. N
  PROVE  \E i \in 1 .. L : Covers(rows, ordered, S, blocks, ends, n, i)
<1> DEFINE score(k) == rows[ordered[k]].score
<1>1. /\ L \in Nat /\ ends \in [0 .. L -> 0 .. N] /\ ends[0] = 0 /\ ends[L] = N
      /\ \A g, h \in 0 .. L : g < h => ends[g] < ends[h]
      /\ blocks \in Seq(Blocks) /\ Len(blocks) = L
      /\ \A i \in 1 .. L : blocks[i] = Chord(rows, ordered, S, ends, i)
  BY DEF Shape, Hull
<1>2. L # 0 /\ blocks # <<>>
  <2>1. L # 0
    BY <1>1
  <2> QED BY <1>1, <2>1
<1>3. \A g, h \in 1 .. N : g < h => score(g) < score(h)
  BY DEF Ascending
<1>4. \A k \in 1 .. N : score(k) \in Int
  OBVIOUS
<1>5. \A g \in 1 .. L : ends[g] \in 1 .. N
  <2> SUFFICES ASSUME NEW g \in 1 .. L PROVE ends[g] \in 1 .. N
    OBVIOUS
  <2>1. g \in 0 .. L /\ 0 \in 0 .. L /\ 0 < g
    BY <1>1
  <2>2. ends[g] \in 0 .. N /\ ends[0] < ends[g]
    BY <1>1, <2>1
  <2> QED BY <1>1, <2>2
<1>6. ASSUME NEW i \in 1 .. L
      PROVE  /\ blocks[i].upTo = score(ends[i])
             /\ blocks[i].ones = S[ends[i]] - S[ends[i - 1]]
             /\ blocks[i].size = ends[i] - ends[i - 1]
  <2> DEFINE block == blocks[i]
  <2>1. block = Block(score(ends[i]), S[ends[i]] - S[ends[i - 1]], ends[i] - ends[i - 1])
    <3>1. block = Chord(rows, ordered, S, ends, i)
      BY <1>1
    <3> QED BY <3>1, Zenon DEF Chord
  <2> HIDE DEF block, score
  <2>2. block.upTo = score(ends[i]) /\ block.ones = S[ends[i]] - S[ends[i - 1]]
        /\ block.size = ends[i] - ends[i - 1]
    BY <2>1, BlockParts
  <2> QED BY <2>2 DEF block
<1> HIDE DEF score
<1>7. PICK i \in 1 .. L :
         /\ Isotonic(blocks, score(n)) = (Scale * blocks[i].ones) \div blocks[i].size
         /\ score(n) <= blocks[i].upTo \/ i = L
         /\ \A j \in 1 .. (i - 1) : ~(score(n) <= blocks[j].upTo)
  <2>1. score(n) \in Int
    BY <1>4
  <2>2. blocks \in Seq(Blocks) /\ Len(blocks) = L
    BY <1>1
  <2>3. \E i \in 1 .. Len(blocks) :
          /\ Isotonic(blocks, score(n)) = (Scale * blocks[i].ones) \div blocks[i].size
          /\ score(n) <= blocks[i].upTo \/ i = Len(blocks)
          /\ \A j \in 1 .. (i - 1) : ~(score(n) <= blocks[j].upTo)
    BY <1>2, <2>1, <2>2, BlockFound
  <2> QED BY <2>2, <2>3
<1>8. n <= ends[i]
  <2>1. CASE i = L
    BY <1>1, <2>1
  <2>2. CASE i # L
    <3>1. score(n) <= score(ends[i])
      BY <1>6, <1>7, <2>2
    <3>2. ends[i] \in 1 .. N
      BY <1>5
    <3> SUFFICES ASSUME ends[i] < n PROVE FALSE
      BY <3>2
    <3>3. score(ends[i]) < score(n)
      BY <1>3, <3>2
    <3>4. score(n) \in Int /\ score(ends[i]) \in Int
      BY <1>4, <3>2
    <3> QED BY <3>1, <3>3, <3>4
  <2> QED BY <2>1, <2>2
<1>9. ends[i - 1] < n
  <2>1. CASE i = 1
    BY <1>1, <2>1
  <2>2. CASE i # 1
    <3> DEFINE g == i - 1
    <3>1. g \in 1 .. L /\ g \in 1 .. (i - 1)
      BY <1>1, <2>2
    <3> HIDE DEF g
    <3>2. ends[g] \in 1 .. N
      BY <1>5, <3>1
    <3>3. ~(score(n) <= score(ends[g]))
      BY <1>6, <1>7, <3>1
    <3> SUFFICES ASSUME ~(ends[g] < n) PROVE FALSE
      BY DEF g
    <3>4. ends[g] = n \/ score(n) < score(ends[g])
      BY <1>3, <3>2
    <3>5. score(n) \in Int /\ score(ends[g]) \in Int
      BY <1>4, <3>2
    <3> QED BY <3>3, <3>4, <3>5
  <2> QED BY <2>1, <2>2
<1>10. i \in 0 .. L /\ i - 1 \in 0 .. L
  BY <1>1
<1>11. ends[i] \in Int /\ ends[i - 1] \in Int
  BY <1>1, <1>10
<1>12. n \in (ends[i - 1] + 1) .. ends[i]
  BY <1>8, <1>9, <1>11
<1>13. Isotonic(blocks, score(n))
        = (Scale * (S[ends[i]] - S[ends[i - 1]])) \div (ends[i] - ends[i - 1])
  BY <1>6, <1>7
<1>14. Covers(rows, ordered, S, blocks, ends, n, i)
  BY <1>12, <1>13, Zenon DEF score, Covers
<1> QED BY <1>14

\* Without ties the listing ascends strictly.
LEMMA UntiedAscends ==
  ASSUME NEW rows, NEW part, Rows(rows, part), Untied(rows, part)
  PROVE  Ascending(rows, InOrder(rows, part), Cardinality(part))
<1> DEFINE ordered == InOrder(rows, part)
           N == Cardinality(part)
<1>1. /\ ordered \in [1 .. N -> part]
      /\ \A m, n \in 1 .. N : m < n => ByScore(rows, ordered[m], ordered[n])
  BY RowsInOrder
<1> HIDE DEF ordered, N
<1>2. SUFFICES ASSUME NEW m \in 1 .. N, NEW n \in 1 .. N, m < n
               PROVE  rows[ordered[m]].score < rows[ordered[n]].score
  BY DEF Ascending, ordered, N
<1> DEFINE i == ordered[m]
           j == ordered[n]
<1>3. i \in part /\ j \in part /\ ByScore(rows, i, j)
  BY <1>1, <1>2
<1> HIDE DEF i, j
<1>4. i # j
  BY <1>3, ScoresOrder
<1>5. rows[i].score # rows[j].score
  BY <1>3, <1>4 DEF Untied
<1>6. rows[i].score < rows[j].score
  BY <1>3, <1>5 DEF ByScore
<1> QED BY <1>6 DEF i, j

\* So an isotonic calibration is the isotonic regression of its rows.
LEMMA FitIsRegression ==
  ASSUME NEW rows, NEW part, Rows(rows, part), Untied(rows, part),
         NEW n, n \in DOMAIN InOrder(rows, part)
  PROVE  IsIsotonicValue(rows, InOrder(rows, part), n,
            Isotonic(FitIsotonic(rows, part), rows[InOrder(rows, part)[n]].score))
<1> DEFINE ordered == InOrder(rows, part)
           N == Cardinality(part)
           S == Diagram(rows, ordered, N)
           blocks == FitIsotonic(rows, part)
<1>1. N \in Nat /\ ordered \in [1 .. N -> part] /\ Len(ordered) = N
  BY RowsInOrder
<1>2. Ascending(rows, ordered, N)
  BY UntiedAscends
<1>3. PICK fit : IsFit(rows, ordered, N, fit) /\ blocks = fit[N]
  BY FitIsLast
<1>4. IsDiagram(rows, part, ordered, N, S)
  BY <1>1, <1>2 DEF IsDiagram
<1> HIDE DEF blocks
<1>5. \E ends : \E L : Shape(rows, ordered, S, N, fit[N], ends, L)
  <2> HIDE DEF ordered, N
  <2> QED BY <1>1, <1>2, <1>3, FitIsHull
<1> HIDE DEF ordered, N, S
<1>6. PICK ends : \E L : Shape(rows, ordered, S, N, blocks, ends, L)
  BY <1>3, <1>5
<1>7. PICK L : Shape(rows, ordered, S, N, blocks, ends, L)
  BY <1>6
<1>8. Counts(rows, ordered, N, S)
  BY <1>4, DiagramCounts
<1>9. Rising(S, N) /\ Tabled(rows, ordered, N, S)
  BY <1>1, <1>8, MeansFromDiagram
<1>10. S \in [0 .. N -> Int] /\ Hull(S, N, ends, L)
  BY <1>7, <1>8 DEF Counts, Shape
<1>11. \A k \in 1 .. N : rows[ordered[k]].score \in Int
  BY <1>1 DEF Rows
<1>12. n \in 1 .. N
  BY <1>1 DEF ordered
<1>13. PICK i \in 1 .. L : Covers(rows, ordered, S, blocks, ends, n, i)
  BY <1>1, <1>2, <1>7, <1>10, <1>11, <1>12, BlockOfRow
<1> DEFINE a == ends[i - 1]
           b == ends[i]
<1>14. /\ n \in (a + 1) .. b /\ Ends(ends, i, a, b)
       /\ Isotonic(blocks, rows[ordered[n]].score) = (Scale * (S[b] - S[a])) \div (b - a)
  BY <1>13, Zenon DEF Ends, Covers
<1> HIDE DEF a, b
<1>15. /\ a \in 0 .. N /\ b \in 0 .. N /\ a < b
       /\ MeanOf(S, a + 1, b) = (Scale * (S[b] - S[a])) \div (b - a)
       /\ \A j \in 1 .. n : MeanOf(S, j, b) <= MeanOf(S, a + 1, b)
       /\ \A k \in n .. N : MeanOf(S, a + 1, b) <= MeanOf(S, a + 1, k)
  BY <1>1, <1>9, <1>10, <1>14, ChordIsMinimax
<1>16. a + 1 \in 1 .. n /\ b \in n .. N
  BY <1>1, <1>12, <1>14, <1>15
<1>17. IsIsotonicValue(rows, ordered, n, MeanOf(S, a + 1, b))
  BY <1>1, <1>9, <1>12, <1>15, <1>16, MinimaxIsValue
<1>18. IsIsotonicValue(rows, ordered, n, Isotonic(blocks, rows[ordered[n]].score))
  BY <1>14, <1>15, <1>17, Zenon
<1> QED BY <1>18, Zenon DEF ordered, blocks


-----------------------------------------------------------------------------
\* A run that exports has earned it.

\* The metrics of a part are whole numbers, and a set that the gate lets through
\* is good enough.
LEMMA NotRejected ==
  ASSUME NEW dataset \in Datasets, NEW part \in SUBSET DOMAIN dataset.rows,
         NEW model, IsCalibration(model), NEW judged,
         NEW p, p = Calibrated(model, dataset.rows, part),
         NEW metrics, metrics = Metrics(dataset.rows, part, p, judged), ~Rejected(metrics)
  PROVE  /\ 100 * RightOrder(dataset.rows, part, p) >= MinimumAuc * 2 * metrics.pairs
         /\ metrics.count * metrics.brier
              < Square(Scale) * metrics.ones * (metrics.count - metrics.ones)
<1> DEFINE rows == dataset.rows
           auc == DoubleAuc(rows, part, p)
           right == RightOrder(rows, part, p)
           pairs == Pairs(rows, part)
           brier == BrierSum(rows, p)
           ones == Ones(rows, part)
           count == Cardinality(part)
<1>1. DOMAIN p = part /\ \A i \in part : p[i] \in Int
  BY CalibratedTyped
<1>2. IsFiniteSet(part)
  BY PeriodsAreNats
<1>3. auc = right /\ right \in Int
  BY <1>1, <1>2, AucIsRightOrder
<1>4. brier \in Int
  BY <1>1, BrierTyped
<1>5. ones \in Nat /\ count \in Nat
  <2>1. Positives(rows, part) \in SUBSET part
    BY DEF Positives
  <2>2. IsFiniteSet(Positives(rows, part))
    BY <1>2, <2>1, FS_Subset
  <2> QED BY <1>2, <2>2, FS_CardinalityType DEF Ones
<1>6. pairs \in Int
  <2>1. pairs = ones * (count - ones)
    BY DEF Pairs
  <2> HIDE DEF pairs, ones, count
  <2>2. ones \in Int /\ count - ones \in Int
    BY <1>5
  <2> QED BY <2>1, <2>2, Rearranged
<1>7. /\ metrics.doubleAuc = auc /\ metrics.pairs = pairs /\ metrics.brier = brier
      /\ metrics.ones = ones /\ metrics.count = count
  BY DEF Metrics
<1>8. /\ ~(100 * metrics.doubleAuc < MinimumAuc * 2 * metrics.pairs)
      /\ ~(metrics.count * metrics.brier
             >= Square(Scale) * metrics.ones * (metrics.count - metrics.ones))
  BY Zenon DEF Rejected
<1>9. MinimumAuc \in Nat /\ Scale \in Nat
  BY ReleaseAssumption
<1>10. Square(Scale) \in Int
  BY <1>9, Rearranged DEF Square
<1> HIDE DEF auc, right, pairs, brier, ones, count
<1>11. 100 * right \in Int /\ MinimumAuc * 2 * pairs \in Int
  BY <1>3, <1>6, <1>9
<1>12. count * brier \in Int /\ Square(Scale) * ones * (count - ones) \in Int
  <2>1. ones \in Int /\ count - ones \in Int /\ count \in Int
    BY <1>5
  <2>2. Square(Scale) * ones \in Int
    BY <1>10, <2>1, Rearranged
  <2> QED BY <1>4, <2>1, <2>2, Rearranged
<1>13. /\ ~(100 * right < MinimumAuc * 2 * pairs)
       /\ ~(count * brier >= Square(Scale) * ones * (count - ones))
  BY <1>3, <1>7, <1>8, Zenon
<1>14. 100 * right >= MinimumAuc * 2 * pairs
  <2> DEFINE x == 100 * right
             y == MinimumAuc * 2 * pairs
  <2>1. x \in Int /\ y \in Int /\ ~(x < y)
    BY <1>11, <1>13
  <2> HIDE DEF x, y
  <2>2. x >= y
    BY <2>1
  <2> QED BY <2>2 DEF x, y
<1>15. count * brier < Square(Scale) * ones * (count - ones)
  <2> DEFINE x == count * brier
             y == Square(Scale) * ones * (count - ones)
  <2>1. x \in Int /\ y \in Int /\ ~(x >= y)
    BY <1>12, <1>13
  <2> HIDE DEF x, y
  <2>2. x < y
    BY <2>1
  <2> QED BY <2>2 DEF x, y
<1> QED BY <1>7, <1>14, <1>15 DEF right

\* What the pipeline has checked when it exports, and what it writes.
Exported(dataset, production, key, curve, judged, run) ==
  LET rows == dataset.rows
      assessed(part) == Metrics(rows, part, Calibrated(run.calibration, rows, part), judged)
  IN  /\ DatasetEligible(dataset, production)
      /\ ~(Cardinality(Periods(rows, DOMAIN rows)) < 3)
      /\ ~(Cardinality(Periods(rows, run.split.validation)) < 2)
      /\ production => ~Rejected(assessed(run.split.holdout)) /\ key
      /\ run.production = production /\ run.signature = Signature(key)
      /\ run.promotion = (IF production THEN "approved" ELSE "test_only")
      /\ run.dataset = dataset
      /\ run.split = TemporalSplit(rows)
      /\ run.halves = SplitValidation(rows, run.split.validation)
      /\ run.calibration = SelectCalibration(rows, run.halves.fit, run.halves.evaluation, curve)
      /\ run.holdout = assessed(run.split.holdout)
      /\ run.trainedUntil = Greatest(Periods(rows, run.split.training))

RunEarned(run) ==
  run.outcome = "exported" =>
    /\ run.production => SignedForProduction(run) /\ GoodEnough(run)
    /\ NothingLeaks(run)
    /\ FitIsIsotonic(run)

\* A run that is exported has earned it: the four parts together.
LEMMA ExportIsEarned ==
  ASSUME NEW dataset \in Datasets, NEW production \in BOOLEAN, NEW key \in BOOLEAN,
         NEW curve \in PlattCurves, NEW judged, NEW run,
         Exported(dataset, production, key, curve, judged, run)
  PROVE  RunEarned(run)
<1> DEFINE rows == dataset.rows
           H == run.split.holdout
           F == run.halves.fit
           E == run.halves.evaluation
           V == run.split.validation
           p == Calibrated(run.calibration, rows, H)
<1>1. /\ DatasetEligible(dataset, production)
      /\ ~(Cardinality(Periods(rows, DOMAIN rows)) < 3) /\ ~(Cardinality(Periods(rows, V)) < 2)
      /\ run.dataset = dataset /\ run.split = TemporalSplit(rows)
      /\ run.halves = SplitValidation(rows, V)
      /\ run.trainedUntil = Greatest(Periods(rows, run.split.training))
  BY Zenon DEF Exported
<1>2. /\ run.calibration = SelectCalibration(rows, F, E, curve)
      /\ run.holdout = Metrics(rows, H, p, judged)
      /\ production => ~Rejected(run.holdout) /\ key
  BY Zenon DEF Exported
<1>3. /\ run.production = production /\ run.signature = Signature(key)
      /\ run.promotion = (IF production THEN "approved" ELSE "test_only")
  BY Zenon DEF Exported
<1>4. Cardinality(Periods(rows, DOMAIN rows)) >= 3
  <2>1. Cardinality(Periods(rows, DOMAIN rows)) \in Nat
    BY PeriodsAreNats
  <2> QED BY <1>1, <2>1
<1>5. /\ run.split.training \cup V \cup H = DOMAIN rows
  BY <1>1, <1>4, SplitInTime
<1>6. V \in SUBSET DOMAIN rows /\ H \in SUBSET DOMAIN rows
  BY <1>5
<1>7. Cardinality(Periods(rows, V)) >= 2
  <2> HIDE DEF V
  <2>1. Cardinality(Periods(rows, V)) \in Nat
    BY <1>6, PeriodsAreNats
  <2> QED BY <1>1, <2>1
<1>8. NothingLeaks(run)
  BY <1>1, <1>4, <1>7, SplitKeepsApart
<1>9. F \cup E = V /\ F # {}
  <2> HIDE DEF V
  <2> QED BY <1>1, <1>6, <1>7, HalvesInTime
<1>10. F \in SUBSET DOMAIN rows /\ E \in SUBSET DOMAIN rows
  BY <1>6, <1>9
<1>11. IsCalibration(run.calibration)
  <2> HIDE DEF F, E
  <2> QED BY <1>2, <1>9, <1>10, SelectionTyped
<1>12. FitIsIsotonic(run)
  <2> DEFINE ordered == InOrder(rows, F)
             blocks == FitIsotonic(rows, F)
  <2>1. Rows(rows, F)
    <3> HIDE DEF F
    <3> QED BY <1>10, DatasetRows
  <2> HIDE DEF F
  <2>2. ASSUME Untied(rows, F), NEW n \in DOMAIN ordered
        PROVE  IsIsotonicValue(rows, ordered, n, Isotonic(blocks, rows[ordered[n]].score))
    BY <2>1, <2>2, FitIsRegression
  <2>3. Untied(rows, F) => \A n \in DOMAIN ordered :
          IsIsotonicValue(rows, ordered, n, Isotonic(blocks, rows[ordered[n]].score))
    BY <2>2
  <2> QED BY <1>1, <2>3, Zenon DEF FitIsIsotonic, F
<1>13. ASSUME production PROVE GoodEnough(run)
  <2>1. ~Rejected(run.holdout)
    BY <1>2, <1>13
  <2>2. /\ 100 * RightOrder(rows, H, p) >= MinimumAuc * 2 * run.holdout.pairs
        /\ run.holdout.count * run.holdout.brier
             < Square(Scale) * run.holdout.ones * (run.holdout.count - run.holdout.ones)
    <3> DEFINE metrics == run.holdout
    <3>1. p = Calibrated(run.calibration, rows, H) /\ metrics = Metrics(rows, H, p, judged)
      BY <1>2
    <3> HIDE DEF p, H, metrics
    <3>2. ~Rejected(metrics)
      BY <2>1 DEF metrics
    <3>3. /\ 100 * RightOrder(rows, H, p) >= MinimumAuc * 2 * metrics.pairs
          /\ metrics.count * metrics.brier
               < Square(Scale) * metrics.ones * (metrics.count - metrics.ones)
      BY <1>6, <1>11, <3>1, <3>2, NotRejected
    <3> QED BY <3>3 DEF metrics
  <2> QED BY <1>1, <2>2, Zenon DEF GoodEnough
<1>14. ASSUME production PROVE SignedForProduction(run)
  <2>1. run.signature = "signed" /\ run.promotion = "approved"
    BY <1>2, <1>3, <1>14 DEF Signature
  <2>2. ~dataset.synthetic /\ \A f \in dataset.features : ~LeaksFuture(f)
    BY <1>1, <1>14 DEF DatasetEligible
  <2>3. \A f \in dataset.features : f.to <= 0
    <3>1. \A f \in dataset.features : f.to \in Int
      BY ReleaseAssumption
    <3> QED BY <2>2, <3>1 DEF LeaksFuture
  <2> QED BY <1>1, <2>1, <2>2, <2>3 DEF SignedForProduction
<1> QED BY <1>3, <1>8, <1>12, <1>13, <1>14 DEF RunEarned


\* The pipeline either stops or exports.
LEMMA PipelineEnds ==
  ASSUME NEW dataset, NEW production \in BOOLEAN, NEW key \in BOOLEAN, NEW curve, NEW judged,
         RunPipeline(dataset, production, key, curve, judged)
  PROVE  trainingRun'.outcome # "exported" \/ Exported(dataset, production, key, curve, judged, trainingRun')
<1> DEFINE rows == dataset.rows
           split == TemporalSplit(rows)
           halves == SplitValidation(rows, split.validation)
           calibration == SelectCalibration(rows, halves.fit, halves.evaluation, curve)
           assessed(part) == Metrics(rows, part, Calibrated(calibration, rows, part), judged)
           holdout == assessed(split.holdout)
           refused == Rejected(assessed(halves.evaluation)) \/ Rejected(holdout)
           tooShort == \/ Cardinality(Periods(rows, DOMAIN rows)) < 3
                       \/ Cardinality(Periods(rows, split.validation)) < 2
           oneClass == ~BothClasses(rows, halves.evaluation) \/ ~BothClasses(rows, split.holdout)
           until == Greatest(Periods(rows, split.training))
           record == [outcome |-> "exported", production |-> production,
                      signature |-> Signature(key),
                      promotion |-> IF production THEN "approved" ELSE "test_only",
                      dataset |-> dataset, split |-> split, halves |-> halves,
                      calibration |-> calibration, holdout |-> holdout, trainedUntil |-> until]
<1>1. IF ~DatasetEligible(dataset, production) THEN Stop("not_eligible")
      ELSE IF tooShort THEN Stop("cannot_split")
      ELSE IF oneClass THEN Stop("cannot_evaluate")
      ELSE IF production /\ refused THEN Stop("rejected")
      ELSE IF production /\ ~key THEN Stop("unsigned")
      ELSE trainingRun' = record
  BY Zenon DEF RunPipeline
<1>2. \A reason : Stop(reason) => trainingRun'.outcome = reason
  BY DEF Stop
<1> HIDE DEF refused, tooShort, oneClass, record
<1>3. SUFFICES ASSUME trainingRun'.outcome = "exported"
               PROVE  Exported(dataset, production, key, curve, judged, trainingRun')
  OBVIOUS
<1>4. /\ DatasetEligible(dataset, production) /\ ~tooShort
      /\ production => ~refused /\ key
      /\ trainingRun' = record
  BY <1>1, <1>2, <1>3
<1>5. Exported(dataset, production, key, curve, judged, record)
  <2> DEFINE run == record
  <2> HIDE DEF split, halves, calibration, holdout, until, assessed
  <2>1. /\ run.production = production /\ run.signature = Signature(key)
        /\ run.promotion = (IF production THEN "approved" ELSE "test_only")
        /\ run.dataset = dataset /\ run.split = split /\ run.halves = halves
        /\ run.calibration = calibration /\ run.holdout = holdout /\ run.trainedUntil = until
    BY DEF record
  <2>2. /\ ~(Cardinality(Periods(rows, DOMAIN rows)) < 3)
        /\ ~(Cardinality(Periods(rows, split.validation)) < 2)
    BY <1>4 DEF tooShort
  <2>3. production => ~Rejected(holdout) /\ key
    BY <1>4 DEF refused
  <2> HIDE DEF run
  <2>4. /\ run.split = TemporalSplit(rows)
        /\ run.halves = SplitValidation(rows, run.split.validation)
    BY <2>1, Zenon DEF split, halves
  <2>5. run.calibration = SelectCalibration(rows, run.halves.fit, run.halves.evaluation, curve)
    BY <2>1, Zenon DEF calibration
  <2>6. run.trainedUntil = Greatest(Periods(rows, run.split.training))
    BY <2>1, Zenon DEF until
  <2>7. holdout = Metrics(rows, run.split.holdout,
                    Calibrated(run.calibration, rows, run.split.holdout), judged)
    BY <2>1, Zenon DEF holdout, assessed
  <2>8. Exported(dataset, production, key, curve, judged, run)
    BY <1>4, <2>1, <2>2, <2>3, <2>4, <2>5, <2>6, <2>7, Zenon DEF Exported
  <2> QED BY <2>8 DEF run
<1> QED BY <1>4, <1>5

\* A model that the pipeline releases for production is signed for real training data
\* without a future feature, has not seen the holdout period, reaches the limit by the
\* meaning of ROC-AUC and beats the base rate, and an isotonic calibration is the
\* isotonic regression of its rows (modeling/pipeline.py, calibration.py, model_card.py,
\* exporter.py).
THEOREM ReleasesAreEarned == ReleaseSpec => []ReleaseIsEarned
<1>1. ReleaseIsEarned <=> RunEarned(trainingRun)
  BY Zenon DEF ReleaseIsEarned, RunEarned
<1>2. ReleaseInit => ReleaseIsEarned
  BY DEF ReleaseInit, NoRun, ReleaseIsEarned
<1>3. ASSUME ReleaseIsEarned, [ReleaseNext]_releaseVars PROVE ReleaseIsEarned'
  <2>1. RunEarned(trainingRun')
    <3>1. CASE ReleaseNext
      <4>1. PICK dataset \in Datasets, production \in BOOLEAN, key \in BOOLEAN,
                 curve \in PlattCurves,
                 judged \in [slopeInRange : BOOLEAN, lossBeatsBase : BOOLEAN, stable : BOOLEAN] :
              RunPipeline(dataset, production, key, curve, judged)
        BY <3>1 DEF ReleaseNext
      <4>2. CASE trainingRun'.outcome # "exported"
        BY <4>2 DEF RunEarned
      <4>3. CASE Exported(dataset, production, key, curve, judged, trainingRun')
        BY <4>3, ExportIsEarned
      <4> QED BY <4>1, <4>2, <4>3, PipelineEnds
    <3>2. CASE UNCHANGED releaseVars
      <4>1. trainingRun' = trainingRun
        BY <3>2 DEF releaseVars
      <4>2. RunEarned(trainingRun)
        BY <1>1, <1>3
      <4> QED BY <4>1, <4>2, Zenon
    <3> QED BY <1>3, <3>1, <3>2
  <2> QED BY <2>1, Zenon DEF ReleaseIsEarned, RunEarned
<1> QED BY <1>2, <1>3, PTL DEF ReleaseSpec
=============================================================================
