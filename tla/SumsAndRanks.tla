---------------------------- MODULE SumsAndRanks ----------------------------
(***************************************************************************)
(* What the other proof modules keep needing: least members, positions in a *)
(* finite order, quotients, and sums over finite sets. Induction is done    *)
(* with the well-founded order of strict inclusion, in the form of a least  *)
(* counterexample.                                                          *)
(***************************************************************************)
EXTENDS Integers, Sequences, Functions, FiniteSetTheorems, WellFoundedInduction, TLAPS

-----------------------------------------------------------------------------
\* About finite sets.

\* In a finite set something has the least measure.
LEMMA LeastExists ==
  ASSUME NEW D, IsFiniteSet(D), D # {}, NEW size, \A s \in D : size[s] \in Int
  PROVE  \E s \in D : \A t \in D : size[s] <= size[t]
<1> DEFINE Below(s) == {t \in D : size[t] < size[s]}
           Parts == {Below(s) : s \in D}
<1>1. IsWellFoundedOn(StrictSubsetOrdering(D), SUBSET D)
  BY FS_StrictSubsetOrderingWellFounded, FS_FiniteSubsetsOfFinite
<1>2. Parts \in SUBSET (SUBSET D) /\ Parts # {}
  OBVIOUS
<1>3. PICK U \in Parts : \A V \in Parts : ~(<<V, U>> \in StrictSubsetOrdering(D))
  <2> HIDE DEF Parts
  <2>1. QED  BY <1>1, <1>2, WFMin
<1>4. PICK s \in D : U = Below(s)
  OBVIOUS
<1>5. ASSUME NEW t \in D, size[t] < size[s] PROVE FALSE
  <2>1. Below(t) \subseteq Below(s) /\ t \in Below(s) /\ t \notin Below(t)
    BY <1>5
  <2>2. <<Below(t), U>> \in StrictSubsetOrdering(D)
    BY <1>4, <2>1 DEF StrictSubsetOrdering
  <2>3. QED  BY <1>3, <2>2
<1>6. QED  BY <1>5

\* So a finite set of integers has a least member.
LEMMA LeastMember ==
  ASSUME NEW S, S \subseteq Int, IsFiniteSet(S), S # {}
  PROVE  \E x \in S : \A y \in S : x <= y
<1> DEFINE size == [x \in S |-> x]
<1>1. \A x \in S : size[x] \in Int
  OBVIOUS
<1>2. \E x \in S : \A y \in S : size[x] <= size[y]
  <2> HIDE DEF size
  <2>1. QED  BY <1>1, LeastExists
<1>3. QED  BY <1>2

\* Induction up to a number, over a set.
LEMMA Reaches ==
  ASSUME NEW m \in Nat, NEW G, 0 \in G,
         \A k \in 0 .. m : k # m /\ k \in G => k + 1 \in G
  PROVE  0 .. m \subseteq G
<1> DEFINE Bad == {k \in 0 .. m : k \notin G}
<1>1. SUFFICES ASSUME Bad # {} PROVE FALSE
  OBVIOUS
<1>2. Bad \subseteq Int /\ IsFiniteSet(Bad)
  <2>1. IsFiniteSet(0 .. m) /\ Bad \in SUBSET (0 .. m)
    BY FS_Interval
  <2> QED BY <2>1, FS_Subset
<1>3. PICK k \in Bad : \A l \in Bad : k <= l
  <2> HIDE DEF Bad
  <2> QED BY <1>1, <1>2, LeastMember
<1>4. k \in 1 .. m /\ k - 1 \in 0 .. m /\ k - 1 # m /\ ~(k <= k - 1)
  BY <1>3
<1>5. k - 1 \in G
  BY <1>3, <1>4
<1>6. (k - 1) + 1 = k
  BY <1>4
<1> QED BY <1>3, <1>4, <1>5, <1>6

-----------------------------------------------------------------------------
\* Arithmetic the provers do not find at once.
LEMMA ProductsGrow ==
  ASSUME NEW a \in Nat, NEW b \in Nat, NEW c \in Nat, a <= b
  PROVE  a * c <= b * c
<1>1. b - a \in Nat /\ (b - a) * c \in Nat
  OBVIOUS
<1>2. b * c = a * c + (b - a) * c
  OBVIOUS
<1>3. a * c \in Nat /\ b * c \in Nat
  OBVIOUS
<1>4. QED  BY <1>1, <1>2, <1>3

\* The length of a table that is written as a function.
LEMMA LenOf ==
  ASSUME NEW n \in Nat, NEW points, NEW h, points = [i \in 1 .. n |-> h[i]]
  PROVE  Len(points) = n
<1>1. points \in Seq({h[i] : i \in 1 .. n})
  OBVIOUS
<1>2. QED  BY <1>1

\* Under a strict total order the positions of the members of a finite set differ,
\* and as there are as many positions as members, each is taken.
BeforeIn(S, order, c) == {d \in S : <<d, c>> \in order}

LEMMA RanksAreTaken ==
  ASSUME NEW S, IsFiniteSet(S), NEW order \in SUBSET (S \X S),
         \A a, b, c \in S : <<a, b>> \in order /\ <<b, c>> \in order => <<a, c>> \in order,
         \A a \in S : <<a, a>> \notin order,
         \A a, b \in S : a = b \/ <<a, b>> \in order \/ <<b, a>> \in order
  PROVE  /\ Cardinality(S) \in Nat
         /\ \A c \in S : Cardinality(BeforeIn(S, order, c)) \in 0 .. (Cardinality(S) - 1)
         /\ \A c, d \in S : <<c, d>> \in order =>
              Cardinality(BeforeIn(S, order, c)) < Cardinality(BeforeIn(S, order, d))
         /\ \A n \in 0 .. (Cardinality(S) - 1) :
              \E c \in S : Cardinality(BeforeIn(S, order, c)) = n
<1> DEFINE Before(c) == BeforeIn(S, order, c)
           size == Cardinality(S)
           position == [c \in S |-> Cardinality(Before(c))]
           last == size - 1
<1>1. size \in Nat
  BY FS_CardinalityType
<1>2. ASSUME NEW c \in S
      PROVE  /\ IsFiniteSet(Before(c))
             /\ Cardinality(Before(c)) \in Nat
             /\ Cardinality(Before(c)) < size
  <2>1. Before(c) \subseteq S /\ c \notin Before(c)
    BY DEF BeforeIn
  <2>2. /\ IsFiniteSet(Before(c)) /\ Cardinality(Before(c)) <= size
        /\ Cardinality(Before(c)) # size
    BY <1>1, <2>1, FS_Subset
  <2>3. QED  BY <1>1, <2>2, FS_CardinalityType
<1>3. ASSUME NEW c \in S, NEW d \in S, <<c, d>> \in order
      PROVE  Cardinality(Before(c)) < Cardinality(Before(d))
  <2>1. Before(c) \subseteq Before(d)
    BY <1>3 DEF BeforeIn
  <2>2. c \in Before(d) /\ c \notin Before(c)
    BY <1>3 DEF BeforeIn
  <2>3. /\ Cardinality(Before(c)) <= Cardinality(Before(d))
        /\ Cardinality(Before(c)) # Cardinality(Before(d))
    BY <1>2, <2>1, <2>2, FS_Subset
  <2>4. QED  BY <1>2, <2>3
<1> HIDE DEF size, Before
<1>4. last \in Int
  BY <1>1
<1>5. \A c \in S : Cardinality(Before(c)) \in 0 .. last
  BY <1>1, <1>2
<1>6. \A c, d \in S : c # d => Cardinality(Before(c)) # Cardinality(Before(d))
  <2> SUFFICES ASSUME NEW c \in S, NEW d \in S, c # d
               PROVE  Cardinality(Before(c)) # Cardinality(Before(d))
    OBVIOUS
  <2>1. <<c, d>> \in order \/ <<d, c>> \in order
    OBVIOUS
  <2>2. QED  BY <1>2, <1>3, <2>1
<1>7. position \in Injection(S, 0 .. last)
  BY <1>5, <1>6 DEF Injection, IsInjective
<1> HIDE DEF last
<1>8. IsFiniteSet(0 .. last) /\ Cardinality(0 .. last) = IF 0 > last THEN 0 ELSE last - 0 + 1
  BY <1>4, FS_Interval
<1>9. Cardinality(0 .. last) = size
  BY <1>1, <1>8 DEF last
<1> HIDE DEF position
<1>10. position \in Surjection(S, 0 .. last)
  BY <1>1, <1>7, <1>8, <1>9, FS_Injection DEF size
<1>11. \A n \in 0 .. last : \E c \in S : position[c] = n
  BY <1>10 DEF Surjection
<1>12. \A n \in 0 .. last : \E c \in S : Cardinality(Before(c)) = n
  BY <1>11 DEF position
<1>13. QED  BY <1>1, <1>3, <1>5, <1>12 DEF last, size, Before

\* Division with remainder.
LEMMA Quotient ==
  ASSUME NEW a \in Nat, NEW d \in Nat \ {0}
  PROVE  a \div d \in Nat /\ a % d \in 0 .. d - 1 /\ a = d * (a \div d) + (a % d)
OBVIOUS

\* A factor that is not negative keeps the order.
LEMMA Scaled ==
  ASSUME NEW d \in Nat, NEW a \in Int, NEW b \in Int, a <= b
  PROVE  d * a \in Int /\ d * b \in Int /\ d * a <= d * b
OBVIOUS

\* d times a is less than d times b only if a is less than b.
LEMMA Unscaled ==
  ASSUME NEW d \in Nat, NEW a \in Int, NEW b \in Int, d * a < d * b
  PROVE  a <= b - 1
<1> SUFFICES ASSUME b <= a PROVE FALSE
  OBVIOUS
<1>1. d * b <= d * a /\ d * b \in Int /\ d * a \in Int
  BY Scaled
<1>2. QED  BY <1>1

-----------------------------------------------------------------------------
\* Sums. t holds the sum of w over every part of S, whatever the order in which
\* its elements are added.
Adds(t, w, S) ==
  /\ t \in [SUBSET S -> Int]
  /\ t[{}] = 0
  /\ \A U \in SUBSET S : \A x \in U : t[U] = w[x] + t[U \ {x}]

SumOver(w, S) == (CHOOSE t : Adds(t, w, S))[S]

\* A set of parts of a finite set has a smallest part: the form in which the
\* lemmas below use induction.
LEMMA SmallestPart ==
  ASSUME NEW S, IsFiniteSet(S), NEW T \in SUBSET (SUBSET S), T # {}
  PROVE  \E U \in T : \A V \in T : ~(V \subseteq U /\ V # U)
<1>1. IsWellFoundedOn(StrictSubsetOrdering(S), SUBSET S)
  BY FS_StrictSubsetOrderingWellFounded, FS_FiniteSubsetsOfFinite
<1>2. PICK U \in T : \A V \in T : ~(<<V, U>> \in StrictSubsetOrdering(S))
  BY <1>1, WFMin
<1> QED BY <1>2 DEF StrictSubsetOrdering

\* There is such a t.
LEMMA SumExists ==
  ASSUME NEW S, IsFiniteSet(S), NEW w, \A x \in S : w[x] \in Int
  PROVE  \E t : Adds(t, w, S)
<1> DEFINE Missing == {U \in SUBSET S : ~\E t : Adds(t, w, U)}
<1>1. SUFFICES ASSUME Missing # {} PROVE FALSE
  OBVIOUS
<1>2. PICK U \in Missing : \A V \in Missing : ~(V \subseteq U /\ V # U)
  <2>1. Missing \in SUBSET (SUBSET S)
    OBVIOUS
  <2> HIDE DEF Missing
  <2> QED BY <1>1, <2>1, SmallestPart
<1>3. CASE U = {}
  <2>1. Adds([V \in SUBSET U |-> 0], w, U)
    BY <1>3 DEF Adds
  <2> QED BY <1>2, <2>1
<1>4. CASE U # {}
  <2>1. PICK x \in U : TRUE
    BY <1>4
  <2>2. U \ {x} \in SUBSET S /\ U \ {x} \subseteq U /\ U \ {x} # U
    BY <1>2, <2>1
  <2>3. PICK t : Adds(t, w, U \ {x})
    BY <1>2, <2>2
  <2> DEFINE more == [V \in SUBSET U |-> IF x \in V THEN w[x] + t[V \ {x}] ELSE t[V]]
  <2>4. \A V \in SUBSET U : V \ {x} \in SUBSET (U \ {x}) /\ (x \notin V => V \in SUBSET (U \ {x}))
    OBVIOUS
  <2>5. w[x] \in Int
    BY <1>2, <2>1
  <2>6. more \in [SUBSET U -> Int]
    BY <2>3, <2>4, <2>5 DEF Adds
  <2>7. more[{}] = 0
    BY <2>3 DEF Adds
  <2>8. ASSUME NEW V \in SUBSET U, NEW y \in V
        PROVE  more[V] = w[y] + more[V \ {y}]
    <3>1. w[y] \in Int /\ V \ {y} \in SUBSET U
      BY <1>2
    <3>2. CASE x \notin V
      <4>1. t[V] = w[y] + t[V \ {y}]
        BY <2>3, <2>4, <3>2 DEF Adds
      <4> QED BY <3>1, <3>2, <4>1
    <3>3. CASE x \in V /\ y = x
      BY <3>1, <3>3
    <3>4. CASE x \in V /\ y # x
      <4>1. /\ V \ {x} \in SUBSET (U \ {x}) /\ y \in V \ {x}
            /\ (V \ {x}) \ {y} = (V \ {y}) \ {x}
        BY <3>4
      <4>2. t[V \ {x}] = w[y] + t[(V \ {y}) \ {x}]
        <5>1. \A W \in SUBSET (U \ {x}) : \A z \in W : t[W] = w[z] + t[W \ {z}]
          BY <2>3 DEF Adds
        <5>2. t[V \ {x}] = w[y] + t[(V \ {x}) \ {y}]
          BY <4>1, <5>1
        <5> QED BY <4>1, <5>2
      <4>3. more[V] = w[x] + t[V \ {x}] /\ more[V \ {y}] = w[x] + t[(V \ {y}) \ {x}]
        BY <3>1, <3>4
      <4>4. t[(V \ {y}) \ {x}] \in Int
        BY <2>3, <2>4, <3>1 DEF Adds
      <4> HIDE DEF more
      <4> QED BY <2>5, <3>1, <4>2, <4>3, <4>4
    <3> QED BY <3>2, <3>3, <3>4
  <2>9. Adds(more, w, U)
    BY <2>6, <2>7, <2>8 DEF Adds
  <2> QED BY <1>2, <2>9
<1> QED BY <1>3, <1>4

\* The recursion of the library's folds, as a condition on the function.
Iterates(iter, w, S) ==
  iter = [U \in SUBSET S |->
            IF U = {} THEN 0
            ELSE w[CHOOSE x \in U : TRUE] + iter[U \ {CHOOSE x \in U : TRUE}]]

\* It is what the folds compute.
LEMMA SumIterates ==
  ASSUME NEW S, NEW w, NEW t, Adds(t, w, S)
  PROVE  Iterates(t, w, S)
<1>1. ASSUME NEW U \in SUBSET S
      PROVE  t[U] = IF U = {} THEN 0
                    ELSE w[CHOOSE x \in U : TRUE] + t[U \ {CHOOSE x \in U : TRUE}]
  <2>1. U # {} => (CHOOSE x \in U : TRUE) \in U
    OBVIOUS
  <2> QED BY <2>1 DEF Adds
<1>2. t = [U \in SUBSET S |-> t[U]]
  BY DEF Adds
<1> QED BY <1>1, <1>2, Zenon DEF Iterates

\* What iterates over a finite set is the sum.
LEMMA IterationIsSum ==
  ASSUME NEW S, IsFiniteSet(S), NEW w, NEW t, NEW iter,
         Adds(t, w, S), Iterates(iter, w, S)
  PROVE  iter = t
<1> DEFINE Differ == {U \in SUBSET S : iter[U] # t[U]}
<1>1. Differ = {}
  <2>1. SUFFICES ASSUME Differ # {} PROVE FALSE
    OBVIOUS
  <2>2. PICK U \in Differ : \A V \in Differ : ~(V \subseteq U /\ V # U)
    <3>1. Differ \in SUBSET (SUBSET S)
      OBVIOUS
    <3> HIDE DEF Differ
    <3> QED BY <2>1, <3>1, SmallestPart
  <2> DEFINE x == CHOOSE y \in U : TRUE
  <2>3. Iterates(t, w, S)
    BY SumIterates
  <2>4. /\ iter[U] = IF U = {} THEN 0 ELSE w[x] + iter[U \ {x}]
        /\ t[U] = IF U = {} THEN 0 ELSE w[x] + t[U \ {x}]
    <3>1. U \in SUBSET S
      BY <2>2
    <3>2. iter[U] = IF U = {} THEN 0 ELSE w[x] + iter[U \ {x}]
      BY <3>1, Zenon DEF Iterates
    <3>3. t[U] = IF U = {} THEN 0 ELSE w[x] + t[U \ {x}]
      BY <2>3, <3>1, Zenon DEF Iterates
    <3> QED BY <3>2, <3>3
  <2>5. U # {}
    BY <2>2, <2>4
  <2>6. x \in U
    BY <2>5
  <2> HIDE DEF x
  <2>7. U \ {x} \in SUBSET S /\ U \ {x} \subseteq U /\ U \ {x} # U
    BY <2>2, <2>6
  <2>8. iter[U \ {x}] = t[U \ {x}]
    BY <2>2, <2>7
  <2> QED BY <2>2, <2>4, <2>5, <2>8
<1>2. iter = [U \in SUBSET S |-> iter[U]] /\ t = [U \in SUBSET S |-> t[U]]
  BY Zenon DEF Iterates, Adds
<1> QED BY <1>1, <1>2

\* There is a sum, and whatever adds is it.
LEMMA SumIs ==
  ASSUME NEW S, IsFiniteSet(S), NEW w, \A x \in S : w[x] \in Int
  PROVE  /\ \E t : Adds(t, w, S)
         /\ \A t : Adds(t, w, S) => SumOver(w, S) = t[S]
<1> DEFINE sum == CHOOSE t : Adds(t, w, S)
<1>1. \E t : Adds(t, w, S)
  BY SumExists
<1>2. Adds(sum, w, S)
  BY <1>1
<1>3. SumOver(w, S) = sum[S]
  BY DEF SumOver
<1> HIDE DEF sum
<1>4. ASSUME NEW t, Adds(t, w, S)
      PROVE  SumOver(w, S) = t[S]
  <2>1. Iterates(t, w, S)
    BY <1>4, SumIterates
  <2>2. t = sum
    BY <1>2, <2>1, IterationIsSum
  <2> QED BY <1>3, <2>2
<1> QED BY <1>1, <1>4

\* A sum of integers is one.
LEMMA SumTyped ==
  ASSUME NEW S, IsFiniteSet(S), NEW w, \A x \in S : w[x] \in Int
  PROVE  SumOver(w, S) \in Int
<1>1. PICK t : Adds(t, w, S) /\ SumOver(w, S) = t[S]
  BY SumIs
<1> QED BY <1>1 DEF Adds

\* The empty sum is zero;
LEMMA SumOfNone ==
  ASSUME NEW w
  PROVE  SumOver(w, {}) = 0
<1>1. PICK t : Adds(t, w, {}) /\ SumOver(w, {}) = t[{}]
  BY SumIs, FS_EmptySet
<1> QED BY <1>1 DEF Adds

\* The sum over a part is that of the function restricted to it.
LEMMA SumOfPart ==
  ASSUME NEW S, NEW w, NEW t, Adds(t, w, S), NEW R \in SUBSET S
  PROVE  Adds([U \in SUBSET R |-> t[U]], w, R)
<1> DEFINE r == [U \in SUBSET R |-> t[U]]
<1>1. r \in [SUBSET R -> Int] /\ r[{}] = 0
  BY DEF Adds
<1>2. ASSUME NEW U \in SUBSET R, NEW x \in U
      PROVE  r[U] = w[x] + r[U \ {x}]
  <2>1. U \in SUBSET S /\ U \ {x} \in SUBSET R
    OBVIOUS
  <2>2. t[U] = w[x] + t[U \ {x}]
    BY <2>1 DEF Adds
  <2> QED BY <2>1, <2>2
<1> QED BY <1>1, <1>2 DEF Adds

\* one more member adds its worth;
LEMMA SumOfOneMore ==
  ASSUME NEW S, IsFiniteSet(S), NEW x, x \notin S, NEW w,
         \A y \in S \cup {x} : w[y] \in Int
  PROVE  SumOver(w, S \cup {x}) = w[x] + SumOver(w, S)
<1>1. IsFiniteSet(S \cup {x})
  BY FS_AddElement
<1>2. PICK t : Adds(t, w, S \cup {x}) /\ SumOver(w, S \cup {x}) = t[S \cup {x}]
  BY <1>1, SumIs
<1>3. SumOver(w, S) = t[S]
  <2>1. S \in SUBSET (S \cup {x})
    OBVIOUS
  <2>2. Adds([U \in SUBSET S |-> t[U]], w, S)
    BY <1>2, <2>1, SumOfPart
  <2>3. SumOver(w, S) = [U \in SUBSET S |-> t[U]][S]
    BY <2>2, SumIs
  <2> QED BY <2>3
<1>4. t[S \cup {x}] = w[x] + t[(S \cup {x}) \ {x}]
  BY <1>2 DEF Adds
<1>5. (S \cup {x}) \ {x} = S
  OBVIOUS
<1> QED BY <1>2, <1>3, <1>4, <1>5

\* A part that leaves out nothing negative has the smaller sum.
LEMMA SumOfFewer ==
  ASSUME NEW S, IsFiniteSet(S), NEW R \in SUBSET S, NEW w,
         \A x \in S : w[x] \in Int, \A x \in S \ R : w[x] >= 0
  PROVE  SumOver(w, R) <= SumOver(w, S)
<1>1. \A U \in SUBSET S : IsFiniteSet(U) /\ SumOver(w, U) \in Int
  BY FS_Subset, SumTyped
<1> DEFINE Less == {U \in SUBSET S : R \subseteq U /\ SumOver(w, U) < SumOver(w, R)}
<1>2. SUFFICES ASSUME Less # {} PROVE FALSE
  BY <1>1
<1>3. PICK U \in Less : \A V \in Less : ~(V \subseteq U /\ V # U)
  <2>1. Less \in SUBSET (SUBSET S)
    OBVIOUS
  <2> HIDE DEF Less
  <2> QED BY <1>2, <2>1, SmallestPart
<1>4. U # R
  BY <1>1, <1>3
<1>5. PICK x \in U : x \notin R
  BY <1>3, <1>4
<1> DEFINE V == U \ {x}
<1>6. V \in SUBSET S /\ R \subseteq V /\ V # U /\ x \notin V /\ U = V \cup {x} /\ x \in S \ R
  BY <1>3, <1>5
<1> HIDE DEF V
<1>7. SumOver(w, U) = w[x] + SumOver(w, V)
  BY <1>1, <1>6, SumOfOneMore
<1>8. ~(SumOver(w, V) < SumOver(w, R))
  BY <1>3, <1>6
<1>9. /\ SumOver(w, U) \in Int /\ SumOver(w, V) \in Int /\ SumOver(w, R) \in Int
      /\ w[x] \in Int /\ w[x] >= 0 /\ SumOver(w, U) < SumOver(w, R)
  BY <1>1, <1>3, <1>6
<1> QED BY <1>7, <1>8, <1>9

\* zeros add up to zero;
LEMMA SumOfZeros ==
  ASSUME NEW S, IsFiniteSet(S), NEW w, \A x \in S : w[x] = 0
  PROVE  SumOver(w, S) = 0
<1>1. PICK t : Adds(t, w, S)
  BY SumExists
<1>2. SumOver(w, S) = t[S]
  BY <1>1, SumIs
<1> DEFINE Wrong == {U \in SUBSET S : t[U] # 0}
<1>3. SUFFICES ASSUME Wrong # {} PROVE FALSE
  BY <1>2
<1>4. PICK U \in Wrong : \A V \in Wrong : ~(V \subseteq U /\ V # U)
  <2>1. Wrong \in SUBSET (SUBSET S)
    OBVIOUS
  <2> HIDE DEF Wrong
  <2> QED BY <1>3, <2>1, SmallestPart
<1>5. PICK x \in U : TRUE
  BY <1>1, <1>4 DEF Adds
<1>6. t[U] = w[x] + t[U \ {x}] /\ t[U \ {x}] = 0
  BY <1>1, <1>4, <1>5 DEF Adds
<1> QED BY <1>4, <1>5, <1>6

\* The recursion has a solution, and it ends in the sum.
LEMMA IterationSum ==
  ASSUME NEW S, IsFiniteSet(S), NEW w, \A x \in S : w[x] \in Int
  PROVE  /\ \E iter : Iterates(iter, w, S)
         /\ \A iter : Iterates(iter, w, S) => iter[S] = SumOver(w, S)
<1>1. PICK t : Adds(t, w, S)
  BY SumIs
<1>2. SumOver(w, S) = t[S]
  BY <1>1, SumIs
<1>3. Iterates(t, w, S)
  BY <1>1, SumIterates
<1>4. \A iter : Iterates(iter, w, S) => iter = t
  BY <1>1, IterationIsSum
<1> QED BY <1>2, <1>3, <1>4

\* Only the values on the set matter.
LEMMA SumOfSame ==
  ASSUME NEW S, IsFiniteSet(S), NEW v, NEW w,
         \A x \in S : v[x] \in Int /\ w[x] = v[x]
  PROVE  SumOver(w, S) = SumOver(v, S)
<1>1. PICK t : Adds(t, v, S) /\ SumOver(v, S) = t[S]
  BY SumIs
<1>2. Adds(t, w, S)
  BY <1>1 DEF Adds
<1> QED BY <1>1, <1>2, SumIs

\* sums add up term by term,
LEMMA SumOfBoth ==
  ASSUME NEW S, IsFiniteSet(S), NEW v, NEW w, NEW b,
         \A x \in S : v[x] \in Int /\ w[x] \in Int /\ b[x] = v[x] + w[x]
  PROVE  SumOver(b, S) = SumOver(v, S) + SumOver(w, S)
<1>1. PICK t : Adds(t, v, S) /\ SumOver(v, S) = t[S]
  BY SumIs
<1>2. PICK u : Adds(u, w, S) /\ SumOver(w, S) = u[S]
  BY SumIs
<1> DEFINE both == [U \in SUBSET S |-> t[U] + u[U]]
<1>3. \A U \in SUBSET S : t[U] \in Int /\ u[U] \in Int
  BY <1>1, <1>2 DEF Adds
<1>4. both \in [SUBSET S -> Int]
  BY <1>3
<1>5. both[{}] = 0
  BY <1>1, <1>2 DEF Adds
<1>6. ASSUME NEW U \in SUBSET S, NEW x \in U
      PROVE  both[U] = b[x] + both[U \ {x}]
  <2>1. U \ {x} \in SUBSET S /\ x \in S
    OBVIOUS
  <2>2. t[U] = v[x] + t[U \ {x}] /\ u[U] = w[x] + u[U \ {x}]
    BY <1>1, <1>2 DEF Adds
  <2>3. both[U] = t[U] + u[U] /\ both[U \ {x}] = t[U \ {x}] + u[U \ {x}]
    BY <2>1
  <2>4. /\ v[x] \in Int /\ w[x] \in Int /\ b[x] = v[x] + w[x]
        /\ t[U \ {x}] \in Int /\ u[U \ {x}] \in Int
    BY <1>3, <2>1
  <2> HIDE DEF both
  <2> QED BY <2>2, <2>3, <2>4
<1>7. Adds(both, b, S)
  BY <1>4, <1>5, <1>6 DEF Adds
<1>8. \A x \in S : b[x] \in Int
  OBVIOUS
<1>9. SumOver(b, S) = both[S]
  <2> HIDE DEF both
  <2> QED BY <1>7, <1>8, SumIs
<1> QED BY <1>1, <1>2, <1>9

\* A function that is one on a part and nothing elsewhere counts the part.
LEMMA SumOfCount ==
  ASSUME NEW S, IsFiniteSet(S), NEW A \in SUBSET S, NEW w,
         \A x \in S : w[x] = IF x \in A THEN 1 ELSE 0
  PROVE  SumOver(w, S) = Cardinality(A)
<1> DEFINE t == [U \in SUBSET S |-> Cardinality(U \cap A)]
<1>1. \A U \in SUBSET S : IsFiniteSet(U \cap A) /\ Cardinality(U \cap A) \in Nat
  BY FS_Subset, FS_CardinalityType
<1>2. t \in [SUBSET S -> Int]
  BY <1>1
<1>3. t[{}] = 0
  <2>1. {} \cap A = {} /\ {} \in SUBSET S
    OBVIOUS
  <2>2. Cardinality({}) = 0
    BY FS_EmptySet
  <2> QED BY <2>1, <2>2
<1>4. ASSUME NEW U \in SUBSET S, NEW x \in U
      PROVE  t[U] = w[x] + t[U \ {x}]
  <2>1. U \ {x} \in SUBSET S /\ x \in S
    OBVIOUS
  <2>2. t[U] = Cardinality(U \cap A) /\ t[U \ {x}] = Cardinality((U \ {x}) \cap A)
    BY <2>1
  <2>3. Cardinality((U \ {x}) \cap A) \in Nat /\ w[x] = IF x \in A THEN 1 ELSE 0
    BY <1>1, <2>1
  <2> HIDE DEF t
  <2>4. CASE x \in A
    <3>1. U \cap A = ((U \ {x}) \cap A) \cup {x} /\ x \notin (U \ {x}) \cap A
      BY <2>4
    <3>2. Cardinality(U \cap A) = Cardinality((U \ {x}) \cap A) + 1
      BY <1>1, <2>1, <3>1, FS_AddElement
    <3> QED BY <2>2, <2>3, <2>4, <3>2
  <2>5. CASE x \notin A
    <3>1. (U \ {x}) \cap A = U \cap A
      BY <2>5
    <3>2. Cardinality((U \ {x}) \cap A) = Cardinality(U \cap A)
      BY <3>1, Zenon
    <3> QED BY <2>2, <2>3, <2>5, <3>2
  <2> QED BY <2>4, <2>5
<1>5. Adds(t, w, S)
  BY <1>2, <1>3, <1>4 DEF Adds
<1>6. \A x \in S : w[x] \in Int
  OBVIOUS
<1>7. t[S] = Cardinality(A)
  <2>1. S \cap A = A
    OBVIOUS
  <2> QED BY <2>1
<1> HIDE DEF t
<1>8. SumOver(w, S) = t[S]
  BY <1>5, <1>6, SumIs
<1> QED BY <1>7, <1>8

\* and part by part.
LEMMA SumOfTwoParts ==
  ASSUME NEW S, IsFiniteSet(S), NEW A \in SUBSET S, NEW w, \A x \in S : w[x] \in Int
  PROVE  SumOver(w, S) = SumOver(w, A) + SumOver(w, S \ A)
<1>1. PICK t : Adds(t, w, S) /\ SumOver(w, S) = t[S]
  BY SumIs
<1>2. ASSUME NEW R \in SUBSET S PROVE SumOver(w, R) = t[R] /\ t[R] \in Int
  <2>1. Adds([U \in SUBSET R |-> t[U]], w, R)
    BY <1>1, SumOfPart
  <2>2. IsFiniteSet(R) /\ \A x \in R : w[x] \in Int
    BY FS_Subset
  <2>3. SumOver(w, R) = [U \in SUBSET R |-> t[U]][R]
    BY <2>1, <2>2, SumIs
  <2> QED BY <1>1, <2>3 DEF Adds
<1> DEFINE Wrong == {U \in SUBSET (S \ A) : t[A \cup U] # t[A] + t[U]}
<1>3. Wrong = {}
  <2>1. SUFFICES ASSUME Wrong # {} PROVE FALSE
    OBVIOUS
  <2>2. PICK U \in Wrong : \A V \in Wrong : ~(V \subseteq U /\ V # U)
    <3>1. Wrong \in SUBSET (SUBSET (S \ A)) /\ IsFiniteSet(S \ A)
      BY FS_Subset
    <3> HIDE DEF Wrong
    <3> QED BY <2>1, <3>1, SmallestPart
  <2>3. U # {}
    <3>1. t[{}] = 0 /\ t[A] \in Int
      BY <1>1, <1>2 DEF Adds
    <3>2. SUFFICES ASSUME U = {} PROVE FALSE
      OBVIOUS
    <3>3. t[A \cup U] # t[A] + t[U]
      BY <2>2
    <3>4. A \cup U = A
      BY <3>2
    <3> HIDE DEF Wrong
    <3> QED BY <3>1, <3>2, <3>3, <3>4
  <2>4. PICK x \in U : TRUE
    BY <2>3
  <2>5. /\ U \in SUBSET (S \ A) /\ t[A \cup U] # t[A] + t[U]
        /\ U \ {x} \in SUBSET (S \ A) /\ U \ {x} \notin Wrong
    BY <2>2, <2>4
  <2>6. t[A \cup (U \ {x})] = t[A] + t[U \ {x}]
    BY <2>5
  <2>7. A \cup U \in SUBSET S /\ x \in A \cup U /\ (A \cup U) \ {x} = A \cup (U \ {x})
    BY <2>4, <2>5
  <2>8. t[A \cup U] = w[x] + t[A \cup (U \ {x})]
    BY <1>1, <2>7 DEF Adds
  <2>9. t[U] = w[x] + t[U \ {x}]
    BY <1>1, <2>4, <2>5 DEF Adds
  <2>10. w[x] \in Int /\ t[A] \in Int /\ t[U \ {x}] \in Int
    BY <1>2, <2>5, <2>7
  <2> QED BY <2>5, <2>6, <2>8, <2>9, <2>10
<1>4. t[A \cup (S \ A)] = t[A] + t[S \ A] /\ A \cup (S \ A) = S
  BY <1>3
<1> QED BY <1>1, <1>2, <1>4

\* The library's sum of a function.
LEMMA SumFunctionIs ==
  ASSUME NEW f, IsFiniteSet(DOMAIN f), \A x \in DOMAIN f : f[x] \in Int
  PROVE  SumFunction(f) = SumOver(f, DOMAIN f) /\ SumFunction(f) \in Int
<1> DEFINE S == DOMAIN f
           I(iter) == iter = [U \in SUBSET S |-> IF U = {} THEN 0
                             ELSE f[CHOOSE x \in U : TRUE] + iter[U \ {CHOOSE x \in U : TRUE}]]
           it == CHOOSE iter : I(iter)
<1>1. SumFunction(f) = it[S]
  BY DEF SumFunction, SumFunctionOnSet, FoldFunctionOnSet, MapThenFoldSet
<1>2. ASSUME NEW iter PROVE I(iter) <=> Iterates(iter, f, S)
  BY DEF Iterates
<1>3. I(it)
  <2> HIDE DEF I
  <2>1. \E iter : I(iter)
    BY <1>2, IterationSum
  <2> QED BY <2>1
<1>4. it[S] = SumOver(f, S)
  <2> HIDE DEF I, it
  <2> QED BY <1>2, <1>3, IterationSum
<1> QED BY <1>1, <1>4, SumTyped

\* The square of the next number.
LEMMA SquareOfOneMore ==
  ASSUME NEW n \in Nat
  PROVE  n * n \in Nat /\ (n + 1) * (n + 1) = 1 + 2 * n + n * n
OBVIOUS

\* Of every two members, and of a member with itself, the credits are two: all
\* credits of a set together are the square of its size.
LEMMA SumOfPairs ==
  ASSUME NEW S, IsFiniteSet(S), NEW c,
         \A i, j \in S : c[i][j] \in Int /\ c[i][j] + c[j][i] = 2
  PROVE  SumOver([i \in S |-> SumOver(c[i], S)], S) = Cardinality(S) * Cardinality(S)
<1> DEFINE rows(A) == [i \in S |-> SumOver(c[i], A)]
           Wrong == {A \in SUBSET S : SumOver(rows(A), A) # Cardinality(A) * Cardinality(A)}
<1>1. ASSUME Wrong # {} PROVE FALSE
  <2>1. PICK A \in Wrong : \A B \in Wrong : ~(B \subseteq A /\ B # A)
    <3>1. Wrong \in SUBSET (SUBSET S)
      OBVIOUS
    <3> HIDE DEF Wrong
    <3> QED BY <1>1, <3>1, SmallestPart
  <2>2. A \in SUBSET S /\ SumOver(rows(A), A) # Cardinality(A) * Cardinality(A)
    BY <2>1
  <2>3. \A B \in SUBSET S : B \subseteq A /\ B # A
          => SumOver(rows(B), B) = Cardinality(B) * Cardinality(B)
    BY <2>1
  <2>4. \A i \in S, D \in SUBSET S : rows(D)[i] = SumOver(c[i], D) /\ rows(D)[i] \in Int
    <3> TAKE i \in S, D \in SUBSET S
    <3>1. IsFiniteSet(D) /\ \A j \in D : c[i][j] \in Int
      BY FS_Subset
    <3>2. SumOver(c[i], D) \in Int
      BY <3>1, SumTyped
    <3> QED BY <3>2
  <2> HIDE DEF Wrong, rows
  <2>5. A # {}
    <3>1. SUFFICES ASSUME A = {} PROVE FALSE
      OBVIOUS
    <3>2. SumOver(rows(A), A) = 0
      BY <3>1, SumOfNone
    <3>3. Cardinality(A) = 0
      BY <3>1, FS_EmptySet
    <3> QED BY <2>2, <3>2, <3>3
  <2>6. PICK x \in A : TRUE
    BY <2>5
  <2> DEFINE B == A \ {x}
             n == Cardinality(B)
             column == [i \in S |-> c[i][x]]
             two == [i \in S |-> c[x][i] + c[i][x]]
             one == [i \in S |-> 1]
  <2>7. /\ B \in SUBSET S /\ x \in S /\ x \notin B /\ A = B \cup {x} /\ B # A
        /\ IsFiniteSet(B)
    BY <2>2, <2>6, FS_Subset
  <2>8. \A i \in S : column[i] = c[i][x] /\ two[i] = c[x][i] + c[i][x] /\ one[i] = 1
    OBVIOUS
  <2> HIDE DEF B, column, two, one
  <2>9. n \in Nat /\ SumOver(rows(B), B) = n * n /\ Cardinality(A) = n + 1
    BY <2>3, <2>7, FS_CardinalityType, FS_AddElement
  <2>10. \A i \in S : c[x][i] \in Int /\ c[i][x] \in Int /\ two[i] = 2
    BY <2>7, <2>8
  <2>11. \A i \in S : rows(A)[i] = c[i][x] + rows(B)[i]
    <3> TAKE i \in S
    <3>1. \A j \in B \cup {x} : c[i][j] \in Int
      BY <2>7
    <3>2. SumOver(c[i], A) = c[i][x] + SumOver(c[i], B)
      BY <2>7, <3>1, SumOfOneMore
    <3> QED BY <2>2, <2>4, <2>7, <3>2
  <2>12. SumOver(rows(A), A) = rows(A)[x] + SumOver(rows(A), B)
    <3>1. \A y \in B \cup {x} : rows(A)[y] \in Int
      BY <2>2, <2>4, <2>7
    <3> QED BY <2>7, <3>1, SumOfOneMore
  <2>13. SumOver(rows(A), B) = SumOver(column, B) + SumOver(rows(B), B)
    <3>1. \A i \in B : /\ column[i] \in Int /\ rows(B)[i] \in Int
                       /\ rows(A)[i] = column[i] + rows(B)[i]
      BY <2>4, <2>7, <2>8, <2>10, <2>11
    <3> DEFINE ra == rows(A)
               rb == rows(B)
    <3>2. \A i \in B : column[i] \in Int /\ rb[i] \in Int /\ ra[i] = column[i] + rb[i]
      BY <3>1
    <3> HIDE DEF ra, rb
    <3>3. SumOver(ra, B) = SumOver(column, B) + SumOver(rb, B)
      BY <2>7, <3>2, SumOfBoth
    <3> QED BY <3>3 DEF ra, rb
  <2>14. SumOver(c[x], B) + SumOver(column, B) = 2 * n
    <3>1. \A i \in B : /\ c[x][i] \in Int /\ column[i] \in Int /\ one[i] \in Int
                       /\ two[i] = c[x][i] + column[i] /\ two[i] = one[i] + one[i]
      BY <2>7, <2>8, <2>10
    <3>2. SumOver(two, B) = SumOver(c[x], B) + SumOver(column, B)
      BY <2>7, <3>1, SumOfBoth
    <3>3. SumOver(two, B) = SumOver(one, B) + SumOver(one, B)
      BY <2>7, <3>1, SumOfBoth
    <3>4. \A i \in B : one[i] = IF i \in B THEN 1 ELSE 0
      BY <2>7, <2>8
    <3>5. SumOver(one, B) = n
      BY <2>7, <3>4, SumOfCount
    <3> QED BY <2>9, <3>2, <3>3, <3>5
  <2>15. SumOver(column, B) \in Int /\ SumOver(c[x], B) \in Int
    <3>1. \A i \in B : column[i] \in Int /\ c[x][i] \in Int
      BY <2>7, <2>8, <2>10
    <3> QED BY <2>7, <3>1, SumTyped
  <2>16. rows(A)[x] = 1 + SumOver(c[x], B)
    <3>1. c[x][x] \in Int /\ c[x][x] + c[x][x] = 2
      BY <2>7
    <3>2. c[x][x] = 1
      BY <3>1
    <3> QED BY <2>4, <2>7, <2>11, <3>2
  <2>17. (n + 1) * (n + 1) = 1 + 2 * n + n * n
    BY <2>9, SquareOfOneMore
  <2> HIDE DEF n
  <2>18. SumOver(rows(A), A) = 1 + 2 * n + n * n
    <3> DEFINE square == n * n
    <3>1. square \in Nat /\ SumOver(rows(B), B) = square
      BY <2>9, SquareOfOneMore
    <3> HIDE DEF square
    <3>2. SumOver(rows(A), A) = 1 + SumOver(c[x], B) + (SumOver(column, B) + square)
      BY <2>12, <2>13, <2>16, <3>1
    <3>3. n \in Nat
      BY <2>9
    <3> DEFINE p == SumOver(c[x], B)
               q == SumOver(column, B)
    <3>4. p \in Int /\ q \in Int /\ p + q = 2 * n /\ SumOver(rows(A), A) = 1 + p + (q + square)
      BY <2>14, <2>15, <3>2
    <3> HIDE DEF p, q
    <3>5. 1 + p + (q + square) = 1 + 2 * n + square
      BY <3>1, <3>3, <3>4
    <3> QED BY <3>4, <3>5 DEF square
  <2>19. Cardinality(A) * Cardinality(A) = 1 + 2 * n + n * n
    <3>1. Cardinality(A) * Cardinality(A) = (n + 1) * (n + 1)
      BY <2>9
    <3> QED BY <2>17, <3>1
  <2> QED BY <2>2, <2>18, <2>19
<1>2. S \notin Wrong
  BY <1>1
<1> QED BY <1>2
=============================================================================
