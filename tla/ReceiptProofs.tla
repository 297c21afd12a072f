---------------------------- MODULE ReceiptProofs ----------------------------
(***************************************************************************)
(* Theorems about the receipt worker.  A result that nobody is asked to     *)
(* review balances, whatever the library answered; and it is what the paper *)
(* says when the paper adds up and at most one of its boxes was misread.    *)
(* In order: sorting and grouping; results and their balance; boxes that    *)
(* lie in rows come back as those rows, in whatever order they were found;  *)
(* what a row with an altered or a missing text can still say; sums of the  *)
(* items that are left; and the answers of the library.                     *)
(***************************************************************************)
EXTENDS ReceiptParsing, SumsAndRanks

-----------------------------------------------------------------------------
\* Sorting, as sorted() does it with a key and its stability.
IsOrder(S, order) ==
  /\ order \in SUBSET (S \X S)
  /\ \A a, b, c \in S : <<a, b>> \in order /\ <<b, c>> \in order => <<a, c>> \in order
  /\ \A a \in S : <<a, a>> \notin order
  /\ \A a, b \in S : a = b \/ <<a, b>> \in order \/ <<b, a>> \in order

\* Each place of a set comes up once, in order.
LEMMA RankedIs ==
  ASSUME NEW S, IsFiniteSet(S), NEW order, IsOrder(S, order)
  PROVE  LET ranked == Ranked(S, order)
         IN  /\ Cardinality(S) \in Nat
             /\ ranked \in [1 .. Cardinality(S) -> S]
             /\ \A n \in 1 .. Cardinality(S) : Cardinality(BeforeIn(S, order, ranked[n])) = n - 1
             /\ \A i \in S : \E n \in 1 .. Cardinality(S) : ranked[n] = i
             /\ \A m, n \in 1 .. Cardinality(S) : m < n => <<ranked[m], ranked[n]>> \in order
<1> DEFINE size == Cardinality(S)
           before(i) == Cardinality(BeforeIn(S, order, i))
           ranked == Ranked(S, order)
<1>1. /\ size \in Nat
      /\ \A i \in S : before(i) \in 0 .. (size - 1)
      /\ \A i, j \in S : <<i, j>> \in order => before(i) < before(j)
      /\ \A n \in 0 .. (size - 1) : \E i \in S : before(i) = n
  BY RanksAreTaken DEF IsOrder
<1>2. ranked = [n \in 1 .. size |-> CHOOSE i \in S : before(i) = n - 1]
  BY DEF Ranked, BeforeIn
<1>3. \A i, j \in S : i = j \/ <<i, j>> \in order \/ <<j, i>> \in order
  BY DEF IsOrder
<1> HIDE DEF ranked, size, before
<1>4. \A n \in 1 .. size : ranked[n] \in S /\ before(ranked[n]) = n - 1
  <2> SUFFICES ASSUME NEW n \in 1 .. size PROVE ranked[n] \in S /\ before(ranked[n]) = n - 1
    OBVIOUS
  <2>1. n - 1 \in 0 .. (size - 1)
    BY <1>1
  <2>2. \E i \in S : before(i) = n - 1
    BY <1>1, <2>1
  <2>3. ranked[n] = CHOOSE i \in S : before(i) = n - 1
    BY <1>2
  <2> QED BY <2>2, <2>3
<1>5. ranked \in [1 .. size -> S]
  BY <1>2, <1>4
<1>6. \A i, j \in S : before(i) = before(j) => i = j
  <2> SUFFICES ASSUME NEW i \in S, NEW j \in S, before(i) = before(j) PROVE i = j
    OBVIOUS
  <2>1. before(i) \in Int /\ before(j) \in Int
    BY <1>1
  <2>2. ~(before(i) < before(j)) /\ ~(before(j) < before(i))
    BY <2>1
  <2> QED BY <1>1, <1>3, <2>2, Zenon
<1>7. \A i \in S : \E n \in 1 .. size : ranked[n] = i
  <2> SUFFICES ASSUME NEW i \in S PROVE \E n \in 1 .. size : ranked[n] = i
    OBVIOUS
  <2> DEFINE n == before(i) + 1
  <2>1. n \in 1 .. size /\ n - 1 = before(i)
    BY <1>1
  <2> HIDE DEF n
  <2>2. before(ranked[n]) = before(i) /\ ranked[n] \in S
    BY <1>4, <2>1
  <2> QED BY <1>6, <2>1, <2>2
<1>8. ASSUME NEW m \in 1 .. size, NEW n \in 1 .. size, m < n
      PROVE  <<ranked[m], ranked[n]>> \in order
  <2>1. /\ ranked[m] \in S /\ ranked[n] \in S
        /\ before(ranked[m]) = m - 1 /\ before(ranked[n]) = n - 1
    BY <1>4
  <2>2. m \in Int /\ n \in Int
    BY <1>1
  <2>3. ranked[m] # ranked[n]
    BY <1>8, <2>1, <2>2
  <2>4. ~(before(ranked[n]) < before(ranked[m]))
    BY <1>8, <2>1, <2>2
  <2> QED BY <1>1, <1>3, <2>1, <2>3, <2>4, Zenon
<1> QED BY <1>1, <1>4, <1>5, <1>7, <1>8 DEF size, before, ranked

-----------------------------------------------------------------------------
\* Where a box is.
LEMMA BoxPlace ==
  ASSUME NEW line \in OcrLines
  PROVE  CenterY(line) \in Nat /\ line.left \in Nat
<1>1. line.top + line.bottom \in Nat /\ line.left \in Nat
  BY DEF OcrLines
<1>2. \A n \in Nat : n \div 2 \in Nat
  OBVIOUS
<1> QED BY <1>1, <1>2 DEF CenterY

\* The reading order and the order from left to right are total.
LEMMA ReadingIsOrder ==
  ASSUME NEW lines, NEW kept, kept \subseteq Nat,
         \A i \in kept : lines[i] \in OcrLines
  PROVE  IsOrder(kept, ReadingOrder(lines, kept))
<1> DEFINE order == ReadingOrder(lines, kept)
           y(i) == CenterY(lines[i])
           x(i) == lines[i].left
<1>1. \A i \in kept : y(i) \in Int /\ x(i) \in Int /\ i \in Int
  <2> SUFFICES ASSUME NEW i \in kept PROVE y(i) \in Int /\ x(i) \in Int /\ i \in Int
    OBVIOUS
  <2>1. y(i) \in Nat /\ x(i) \in Nat
    BY BoxPlace
  <2> HIDE DEF x, y
  <2> QED BY <2>1
<1>2. \A i, j \in kept : <<i, j>> \in order <=>
          \/ y(i) < y(j)
          \/ y(i) = y(j) /\ x(i) < x(j)
          \/ y(i) = y(j) /\ x(i) = x(j) /\ i < j
  <2> SUFFICES ASSUME NEW i \in kept, NEW j \in kept
               PROVE  <<i, j>> \in order <=>
                        \/ y(i) < y(j)
                        \/ y(i) = y(j) /\ x(i) < x(j)
                        \/ y(i) = y(j) /\ x(i) = x(j) /\ i < j
    OBVIOUS
  <2>1. <<i, j>> \in order <=>
          \/ ReadsBefore(lines[i], lines[j])
          \/ ~ReadsBefore(lines[j], lines[i]) /\ i < j
    BY DEF ReadingOrder
  <2>2. /\ ReadsBefore(lines[i], lines[j]) <=> y(i) < y(j) \/ (y(i) = y(j) /\ x(i) < x(j))
        /\ ReadsBefore(lines[j], lines[i]) <=> y(j) < y(i) \/ (y(j) = y(i) /\ x(j) < x(i))
    BY DEF ReadsBefore
  <2>3. /\ y(i) \in Int /\ x(i) \in Int /\ y(j) \in Int /\ x(j) \in Int
    BY <1>1
  <2> HIDE DEF x, y, order
  <2> QED BY <2>1, <2>2, <2>3
<1>3. order \in SUBSET (kept \X kept)
  BY DEF ReadingOrder
<1> HIDE DEF x, y, order
<1>4. \A a, b, c \in kept : <<a, b>> \in order /\ <<b, c>> \in order => <<a, c>> \in order
  BY <1>1, <1>2
<1>5. \A a \in kept : <<a, a>> \notin order
  BY <1>1, <1>2
<1>6. \A a, b \in kept : a = b \/ <<a, b>> \in order \/ <<b, a>> \in order
  <2> SUFFICES ASSUME NEW a \in kept, NEW b \in kept, <<a, b>> \notin order, <<b, a>> \notin order
               PROVE  a = b
    OBVIOUS
  <2>1. y(a) \in Int /\ y(b) \in Int /\ x(a) \in Int /\ x(b) \in Int /\ a \in Int /\ b \in Int
    BY <1>1
  <2> QED BY <1>2, <2>1
<1> QED BY <1>3, <1>4, <1>5, <1>6 DEF IsOrder, order

\* So is the order from left to right.
LEMMA LeftIsOrder ==
  ASSUME NEW group \in Seq(OcrLines)
  PROVE  IsOrder(DOMAIN group, LeftToRight(group))
<1> DEFINE order == LeftToRight(group)
           x(i) == group[i].left
           D == DOMAIN group
<1>1. \A i \in D : x(i) \in Int /\ i \in Int
  <2> SUFFICES ASSUME NEW i \in D PROVE x(i) \in Int /\ i \in Int
    OBVIOUS
  <2>1. group[i] \in OcrLines /\ i \in Int
    OBVIOUS
  <2>2. x(i) \in Nat
    BY <2>1, BoxPlace
  <2> HIDE DEF x
  <2> QED BY <2>1, <2>2
<1>2. \A i, j \in D : <<i, j>> \in order <=> x(i) < x(j) \/ (x(i) = x(j) /\ i < j)
  BY DEF LeftToRight
<1>3. order \in SUBSET (D \X D)
  BY DEF LeftToRight
<1> HIDE DEF x, order, D
<1>4. \A a, b, c \in D : <<a, b>> \in order /\ <<b, c>> \in order => <<a, c>> \in order
  BY <1>1, <1>2
<1>5. \A a \in D : <<a, a>> \notin order
  BY <1>1, <1>2
<1>6. \A a, b \in D : a = b \/ <<a, b>> \in order \/ <<b, a>> \in order
  <2> SUFFICES ASSUME NEW a \in D, NEW b \in D, <<a, b>> \notin order, <<b, a>> \notin order
               PROVE  a = b
    OBVIOUS
  <2>1. x(a) \in Int /\ x(b) \in Int /\ a \in Int /\ b \in Int
    BY <1>1
  <2> QED BY <1>2, <2>1
<1> QED BY <1>3, <1>4, <1>5, <1>6 DEF IsOrder, order, D

\* Reading in order keeps every line.
LEMMA ReadInOrder ==
  ASSUME NEW lines, NEW kept, kept \subseteq Nat, IsFiniteSet(kept),
         \A i \in kept : lines[i] \in OcrLines
  PROVE  /\ InReadingOrder(lines, kept) \in Seq(OcrLines)
         /\ Len(InReadingOrder(lines, kept)) = Cardinality(kept)
<1> DEFINE places == Ranked(kept, ReadingOrder(lines, kept))
           size == Cardinality(kept)
<1>1. size \in Nat /\ places \in [1 .. size -> kept]
  BY ReadingIsOrder, RankedIs
<1> HIDE DEF places, size
<1>2. InReadingOrder(lines, kept) = [n \in 1 .. size |-> lines[places[n]]]
  BY <1>1 DEF InReadingOrder, places
<1>3. InReadingOrder(lines, kept) \in [1 .. size -> OcrLines]
  BY <1>1, <1>2
<1> QED BY <1>1, <1>3 DEF size

-----------------------------------------------------------------------------
\* Rows.
Groups == {group \in Seq(OcrLines) : group # <<>>}

\* The recursion of GroupLines, as a condition on the function.
IsGrouping(ordered, N, rows) ==
  rows = [n \in 0 .. N |-> IF n = 0 THEN <<>> ELSE AddToRows(rows[n - 1], ordered[n])]

GroupingSteps(ordered, N, rows) ==
  /\ rows[0] = <<>>
  /\ \A n \in 1 .. N : rows[n] = AddToRows(rows[n - 1], ordered[n])

\* It is well defined,
LEMMA GroupingExists ==
  ASSUME NEW ordered, NEW N \in Nat
  PROVE  \E rows : IsGrouping(ordered, N, rows)
<1> DEFINE G == {k \in 0 .. N : \E rows : IsGrouping(ordered, k, rows)}
           step(b, n) == AddToRows(b, ordered[n])
<1>1. 0 \in G
  <2> DEFINE rows == [n \in 0 .. 0 |-> <<>>]
  <2>1. IsGrouping(ordered, 0, rows)
    BY DEF IsGrouping
  <2> QED BY <2>1
<1>2. ASSUME NEW k \in 0 .. N, k # N, k \in G PROVE k + 1 \in G
  <2>1. PICK rows : IsGrouping(ordered, k, rows)
    BY <1>2
  <2> DEFINE new == step(rows[k], k + 1)
             more == [n \in 0 .. k + 1 |-> IF n = k + 1 THEN new ELSE rows[n]]
  <2>2. \A n \in 0 .. k : rows[n] = IF n = 0 THEN <<>> ELSE step(rows[n - 1], n)
    BY <2>1 DEF IsGrouping
  <2>3. \A n \in 0 .. k + 1 : more[n] = IF n = k + 1 THEN new ELSE rows[n]
    OBVIOUS
  <2>4. more = [n \in 0 .. k + 1 |-> more[n]]
    OBVIOUS
  <2> HIDE DEF more, step
  <2>5. \A n \in 0 .. k + 1 : more[n] = IF n = 0 THEN <<>> ELSE step(more[n - 1], n)
    <3> TAKE n \in 0 .. k + 1
    <3>1. CASE n = k + 1
      <4>1. n # 0 /\ more[n - 1] = rows[k]
        BY <2>3, <3>1
      <4>2. more[n] = new
        BY <2>3, <3>1
      <4> QED BY <3>1, <4>1, <4>2
    <3>2. CASE n # k + 1
      <4>1. n \in 0 .. k
        BY <3>2
      <4>2. more[n] = rows[n]
        BY <2>3, <3>2
      <4>3. n # 0 => more[n - 1] = rows[n - 1]
        BY <2>3, <4>1
      <4> QED BY <2>2, <4>1, <4>2, <4>3
    <3> QED BY <3>1, <3>2
  <2>6. IsGrouping(ordered, k + 1, more)
    BY <2>4, <2>5 DEF IsGrouping, step
  <2>7. k + 1 \in 0 .. N
    BY <1>2
  <2> QED BY <2>6, <2>7
<1>3. 0 .. N \subseteq G
  <2> HIDE DEF G
  <2> QED BY <1>1, <1>2, Reaches
<1> QED BY <1>3

\* adds one box after the other, and its last value makes the rows.
LEMMA GroupingIs ==
  ASSUME NEW ordered, Len(ordered) \in Nat
  PROVE  \E rows : /\ GroupingSteps(ordered, Len(ordered), rows)
                   /\ GroupLines(ordered) =
                        [i \in DOMAIN rows[Len(ordered)] |-> MergeGroup(rows[Len(ordered)][i])]
<1> DEFINE N == Len(ordered)
           rows == CHOOSE rows : IsGrouping(ordered, N, rows)
<1>1. IsGrouping(ordered, N, rows)
  <2>1. \E f : IsGrouping(ordered, N, f)
    BY GroupingExists
  <2> QED BY <2>1
<1>2. GroupLines(ordered) = [i \in DOMAIN rows[N] |-> MergeGroup(rows[N][i])]
  BY DEF GroupLines, IsGrouping
<1> HIDE DEF rows
<1>3. GroupingSteps(ordered, N, rows)
  <2>1. \A n \in 0 .. N :
          rows[n] = IF n = 0 THEN <<>> ELSE AddToRows(rows[n - 1], ordered[n])
    BY <1>1, Zenon DEF IsGrouping
  <2>2. 0 \in 0 .. N /\ \A n \in 1 .. N : n \in 0 .. N /\ n # 0
    OBVIOUS
  <2> HIDE DEF N
  <2> QED BY <2>1, <2>2 DEF GroupingSteps
<1> QED BY <1>2, <1>3

\* A box is added to a list of rows that are not empty.
LEMMA AddKeepsGroups ==
  ASSUME NEW rows \in Seq(Groups), NEW line \in OcrLines
  PROVE  AddToRows(rows, line) \in Seq(Groups)
<1>1. CASE rows # <<>> /\ SameRow(Last(rows), line)
  <2>1. Last(rows) \in Groups /\ Front(rows) \in Seq(Groups)
    BY <1>1 DEF Last, Front
  <2>2. Append(Last(rows), line) \in Groups
    BY <2>1 DEF Groups
  <2>3. AddToRows(rows, line) = Append(Front(rows), Append(Last(rows), line))
    BY <1>1 DEF AddToRows
  <2> QED BY <2>1, <2>2, <2>3
<1>2. CASE ~(rows # <<>> /\ SameRow(Last(rows), line))
  <2>1. <<line>> \in Groups
    BY DEF Groups
  <2>2. AddToRows(rows, line) = Append(rows, <<line>>)
    BY <1>2 DEF AddToRows
  <2> QED BY <2>1, <2>2
<1> QED BY <1>1, <1>2

\* What a row says are texts that were read.
LEMMA MergedTyped ==
  ASSUME NEW group \in Groups
  PROVE  MergeGroup(group).text \in Seq(ReceiptTexts)
<1> DEFINE places == Ranked(DOMAIN group, LeftToRight(group))
           size == Cardinality(DOMAIN group)
<1>1. group \in Seq(OcrLines) /\ IsFiniteSet(DOMAIN group)
  <2>1. group \in Seq(OcrLines)
    BY DEF Groups
  <2>2. DOMAIN group = 1 .. Len(group) /\ Len(group) \in Int
    BY <2>1
  <2>3. IsFiniteSet(1 .. Len(group))
    BY <2>2, FS_Interval
  <2> QED BY <2>1, <2>2, <2>3
<1>2. size \in Nat /\ places \in [1 .. size -> DOMAIN group]
  BY <1>1, LeftIsOrder, RankedIs
<1>3. MergeGroup(group).text = [n \in DOMAIN places |-> group[places[n]].token]
  BY DEF MergeGroup
<1> HIDE DEF places, size
<1>4. \A n \in 1 .. size : group[places[n]].token \in ReceiptTexts
  <2> SUFFICES ASSUME NEW n \in 1 .. size PROVE group[places[n]].token \in ReceiptTexts
    OBVIOUS
  <2>1. places[n] \in DOMAIN group
    BY <1>2
  <2>2. \A i \in DOMAIN group : group[i] \in OcrLines
    BY <1>1
  <2>3. group[places[n]] \in OcrLines
    BY <2>1, <2>2
  <2> QED BY <2>3 DEF OcrLines
<1> QED BY <1>2, <1>3, <1>4

HaveTexts(rows, n) ==
  /\ n \in Nat /\ DOMAIN rows = 1 .. n
  /\ \A i \in 1 .. n : rows[i].text \in Seq(ReceiptTexts)

\* Every row has texts.
LEMMA RowsTyped ==
  ASSUME NEW ordered \in Seq(OcrLines)
  PROVE  \E n : HaveTexts(GroupLines(ordered), n)
<1> DEFINE N == Len(ordered)
<1>1. N \in Nat /\ \A k \in 1 .. N : ordered[k] \in OcrLines
  OBVIOUS
<1>2. PICK rows : /\ GroupingSteps(ordered, N, rows)
                  /\ GroupLines(ordered) = [i \in DOMAIN rows[N] |-> MergeGroup(rows[N][i])]
  BY <1>1, GroupingIs
<1> HIDE DEF N
<1>3. rows[0] = <<>> /\ \A n \in 1 .. N : rows[n] = AddToRows(rows[n - 1], ordered[n])
  BY <1>2 DEF GroupingSteps
<1> DEFINE G == {k \in 0 .. N : rows[k] \in Seq(Groups)}
<1>4. 0 \in G
  <2>1. <<>> \in Seq(Groups) /\ 0 \in 0 .. N
    BY <1>1
  <2> QED BY <1>3, <2>1
<1>5. ASSUME NEW k \in 0 .. N, k # N, k \in G PROVE k + 1 \in G
  <2>1. k + 1 \in 1 .. N /\ k + 1 \in 0 .. N /\ (k + 1) - 1 = k
    BY <1>1, <1>5
  <2>2. rows[k + 1] = AddToRows(rows[k], ordered[k + 1]) /\ ordered[k + 1] \in OcrLines
    BY <1>1, <1>3, <2>1
  <2>3. rows[k + 1] \in Seq(Groups)
    BY <1>5, <2>2, AddKeepsGroups
  <2> QED BY <2>1, <2>3
<1>6. rows[N] \in Seq(Groups)
  <2>1. 0 .. N \subseteq G
    <3> HIDE DEF G
    <3> QED BY <1>1, <1>4, <1>5, Reaches
  <2>2. N \in 0 .. N
    BY <1>1
  <2> QED BY <2>1, <2>2
<1> DEFINE found == rows[N]
<1> HIDE DEF found
<1>7. found \in Seq(Groups) /\ GroupLines(ordered) = [i \in DOMAIN found |-> MergeGroup(found[i])]
  BY <1>2, <1>6 DEF found
<1>8. \A i \in 1 .. Len(found) : MergeGroup(found[i]).text \in Seq(ReceiptTexts)
  <2> SUFFICES ASSUME NEW i \in 1 .. Len(found)
               PROVE  MergeGroup(found[i]).text \in Seq(ReceiptTexts)
    OBVIOUS
  <2>1. found[i] \in Groups
    BY <1>7
  <2> QED BY <2>1, MergedTyped
<1>9. HaveTexts(GroupLines(ordered), Len(found))
  BY <1>7, <1>8 DEF HaveTexts
<1> QED BY <1>9

-----------------------------------------------------------------------------
\* Amounts, items and totals are numbers, whatever was read.
LEMMA MoneyTyped ==
  ASSUME NEW amount \in PrintedAmounts
  PROVE  MoneyMinor(amount) \subseteq Nat /\ Joined(amount) \in Nat
<1>1. amount.front \in Nat /\ amount.last \in Nat
  BY DEF PrintedAmounts
<1>2. Joined(amount) \in Nat /\ Joined(amount) * 100 \in Nat
  BY <1>1 DEF Joined
<1>3. amount.cents # <<>> => amount.cents[1] \in Nat
  <2> SUFFICES ASSUME amount.cents # <<>> PROVE amount.cents[1] \in Nat
    OBVIOUS
  <2>1. PICK c \in 0 .. 99 : amount.cents = <<c>>
    BY DEF PrintedAmounts
  <2> QED BY <2>1
<1>4. amount.last \div 10 \in Nat /\ amount.front * 100 \in Nat
  BY <1>1
<1> QED BY <1>2, <1>3, <1>4 DEF MoneyMinor

\* What a label says is nothing or one amount.
LEMMA LabelledTyped ==
  ASSUME NEW rows, NEW n, HaveTexts(rows, n), NEW label
  PROVE  /\ Labelled(rows, label) \subseteq Nat
         /\ Amount(Labelled(rows, label)) \in Nat
<1> DEFINE found == LabelRows(rows, label)
           lastRow == CHOOSE i \in found : \A j \in found : j <= i
<1>1. found \subseteq 1 .. n /\ n \in Nat
  BY DEF LabelRows, HaveTexts
<1>2. Labelled(rows, label) =
        IF found = {} THEN {} ELSE MoneyMinor(rows[lastRow].text[2].amount)
  BY DEF Labelled
<1>3. ASSUME found # {} PROVE lastRow \in found
  <2> DEFINE size == [i \in found |-> -i]
  <2>1. IsFiniteSet(found) /\ found \subseteq Int
    BY <1>1, FS_Interval, FS_Subset
  <2>2. \A i \in found : size[i] \in Int /\ i \in Int /\ size[i] = -i
    BY <2>1
  <2> HIDE DEF found, size
  <2>3. PICK i \in found : \A j \in found : size[i] <= size[j]
    BY <1>3, <2>1, <2>2, LeastExists
  <2>4. \A j \in found : j <= i
    BY <2>2, <2>3
  <2> QED BY <2>4
<1>4. ASSUME found # {} PROVE MoneyMinor(rows[lastRow].text[2].amount) \subseteq Nat
  <2>1. lastRow \in 1 .. n /\ IsSummary(rows[lastRow])
    BY <1>1, <1>3, <1>4 DEF LabelRows
  <2>2. rows[lastRow].text \in Seq(ReceiptTexts) /\ Len(rows[lastRow].text) = 2
    BY <2>1 DEF HaveTexts, IsSummary
  <2> HIDE DEF lastRow
  <2>3. rows[lastRow].text[2] \in ReceiptTexts
    BY <2>2
  <2>4. rows[lastRow].text[2].amount \in PrintedAmounts
    BY <2>3 DEF ReceiptTexts
  <2> QED BY <2>4, MoneyTyped
<1> HIDE DEF found, lastRow
<1>5. Labelled(rows, label) \subseteq Nat
  BY <1>2, <1>4
<1> QED BY <1>5 DEF Amount

\* The amounts of the rows of items can be converted.
ItemsConvert(rows) ==
  \A i \in DOMAIN rows : IsItem(rows[i]) =>
    LET text == rows[i].text
    IN  MoneyMinor(text[Len(text) - 1].amount) # {} /\ MoneyMinor(text[Len(text)].amount) # {}

\* The items of rows that convert are numbers.
LEMMA ItemsTyped ==
  ASSUME NEW rows, NEW n, HaveTexts(rows, n), ItemsConvert(rows)
  PROVE  LET items == ItemsOf(rows)
         IN  /\ IsFiniteSet(DOMAIN items)
             /\ \A i \in DOMAIN items :
                    items[i] \in [quantity : Nat, unit : Nat, total : Nat]
             /\ ItemsPrice(items) \in Int
<1> DEFINE itemRows == {i \in DOMAIN rows : IsItem(rows[i])}
           order == {e \in itemRows \X itemRows : e[1] < e[2]}
           places == Ranked(itemRows, order)
           size == Cardinality(itemRows)
           items == ItemsOf(rows)
<1>1. itemRows \subseteq 1 .. n /\ n \in Nat /\ itemRows \subseteq DOMAIN rows
  BY DEF HaveTexts
<1>2. IsFiniteSet(itemRows) /\ \A i \in itemRows : i \in Int
  BY <1>1, FS_Interval, FS_Subset
<1>3. items = [k \in DOMAIN places |-> ItemOf(rows[places[k]])]
  BY DEF ItemsOf
<1>4. \A i \in itemRows : IsItem(rows[i]) /\ rows[i].text \in Seq(ReceiptTexts) /\ i \in DOMAIN rows
  BY <1>1 DEF HaveTexts
<1> HIDE DEF itemRows
<1>5. \A i, j \in itemRows : <<i, j>> \in order <=> i < j
  OBVIOUS
<1>6. order \in SUBSET (itemRows \X itemRows)
  OBVIOUS
<1> HIDE DEF order
<1>7. IsOrder(itemRows, order)
  <2>1. \A a, b, c \in itemRows : <<a, b>> \in order /\ <<b, c>> \in order => <<a, c>> \in order
    BY <1>2, <1>5
  <2>2. \A a \in itemRows : <<a, a>> \notin order
    BY <1>2, <1>5
  <2>3. ASSUME NEW a \in itemRows, NEW b \in itemRows
        PROVE  a = b \/ <<a, b>> \in order \/ <<b, a>> \in order
    <3>1. a \in Int /\ b \in Int
      BY <1>2
    <3>2. a = b \/ a < b \/ b < a
      BY <3>1
    <3> QED BY <1>5, <3>2
  <2> QED BY <1>6, <2>1, <2>2, <2>3 DEF IsOrder
<1>8. size \in Nat /\ places \in [1 .. size -> itemRows]
  BY <1>2, <1>7, RankedIs
<1> HIDE DEF places, size, items
<1>9. ASSUME NEW i \in itemRows
      PROVE  ItemOf(rows[i]) \in [quantity : Nat, unit : Nat, total : Nat]
  <2> DEFINE text == rows[i].text
             m == Len(text)
  <2>1. text \in Seq(ReceiptTexts) /\ IsItem(rows[i])
    BY <1>4, <1>9
  <2>2. m >= 4 /\ m \in Nat
    BY <2>1 DEF IsItem
  <2>3. MoneyMinor(text[m - 1].amount) # {} /\ MoneyMinor(text[m].amount) # {}
    <3>1. i \in DOMAIN rows
      BY <1>4, <1>9
    <3> QED BY <2>1, <3>1 DEF ItemsConvert
  <2>4. ItemOf(rows[i]) =
          [quantity |-> Joined(text[m - 2].amount),
           unit |-> CHOOSE v \in MoneyMinor(text[m - 1].amount) : TRUE,
           total |-> CHOOSE v \in MoneyMinor(text[m].amount) : TRUE]
    BY DEF ItemOf
  <2> HIDE DEF text
  <2>5. text[m - 2] \in ReceiptTexts /\ text[m - 1] \in ReceiptTexts /\ text[m] \in ReceiptTexts
    <3>1. m - 2 \in 1 .. m /\ m - 1 \in 1 .. m /\ m \in 1 .. m
      BY <2>2
    <3>2. \A k \in 1 .. m : text[k] \in ReceiptTexts
      BY <2>1
    <3> QED BY <3>1, <3>2
  <2> HIDE DEF m
  <2>6. /\ text[m - 2].amount \in PrintedAmounts /\ text[m - 1].amount \in PrintedAmounts
        /\ text[m].amount \in PrintedAmounts
    BY <2>5 DEF ReceiptTexts
  <2>7. /\ Joined(text[m - 2].amount) \in Nat
        /\ MoneyMinor(text[m - 1].amount) \subseteq Nat /\ MoneyMinor(text[m].amount) \subseteq Nat
    BY <2>6, MoneyTyped
  <2>8. /\ (CHOOSE v \in MoneyMinor(text[m - 1].amount) : TRUE) \in Nat
        /\ (CHOOSE v \in MoneyMinor(text[m].amount) : TRUE) \in Nat
    BY <2>3, <2>7
  <2> QED BY <2>4, <2>7, <2>8
<1>10. /\ DOMAIN items = 1 .. size
       /\ \A k \in 1 .. size : items[k] \in [quantity : Nat, unit : Nat, total : Nat]
  BY <1>3, <1>8, <1>9
<1>11. ItemsPrice(items) \in Int
  <2> DEFINE f == [i \in DOMAIN items |-> items[i].total]
  <2>1. ItemsPrice(items) = SumFunction(f)
    BY DEF ItemsPrice
  <2>2. DOMAIN f = 1 .. size /\ \A x \in DOMAIN f : f[x] \in Int
    BY <1>10
  <2>3. IsFiniteSet(DOMAIN f)
    BY <1>8, <2>2, FS_Interval
  <2> HIDE DEF f
  <2> QED BY <2>1, <2>2, <2>3, SumFunctionIs
<1>12. IsFiniteSet(DOMAIN items)
  BY <1>8, <1>10, FS_Interval
<1> QED BY <1>10, <1>11, <1>12 DEF items

-----------------------------------------------------------------------------
\* A result that nobody has to review balances.
LEMMA ParsedBalances ==
  ASSUME NEW lines, NEW kept, kept \subseteq Nat, IsFiniteSet(kept),
         \A i \in kept : lines[i] \in OcrLines,
         NEW result \in Parse(lines, kept), ~result.review
  PROVE  Balanced(result)
<1> DEFINE rows == GroupLines(InReadingOrder(lines, kept))
           items == ItemsOf(rows)
           subtotal == Labelled(rows, "subtotal")
           tax == Amount(Labelled(rows, "tax"))
           discount == Amount(Labelled(rows, "discount"))
           total == Labelled(rows, "total")
<1>1. PICK n : HaveTexts(rows, n)
  BY ReadInOrder, RowsTyped
<1>2. /\ ~ \E i \in DOMAIN rows, k \in 1 .. 2 :
              k \in DOMAIN RowAmounts(rows[i]) /\ MoneyMinor(RowAmounts(rows[i])[k]) = {}
      /\ result = [items |-> items, subtotal |-> subtotal, tax |-> tax, discount |-> discount,
                   total |-> total, merchant |-> MerchantRows(rows),
                   review |-> NeedsReview(rows, items, subtotal, tax, discount, total)]
  BY DEF Parse
<1> HIDE DEF rows, items, subtotal, tax, discount, total
<1>3. ItemsConvert(rows)
  <2> SUFFICES ASSUME NEW i \in DOMAIN rows, IsItem(rows[i])
               PROVE  /\ MoneyMinor(rows[i].text[Len(rows[i].text) - 1].amount) # {}
                      /\ MoneyMinor(rows[i].text[Len(rows[i].text)].amount) # {}
    BY DEF ItemsConvert
  <2> DEFINE text == rows[i].text
  <2>1. Len(text) # 2 /\ ~IsSummary(rows[i])
    BY <1>1 DEF IsItem, IsSummary, HaveTexts
  <2>2. RowAmounts(rows[i]) = <<text[Len(text) - 1].amount, text[Len(text)].amount>>
    BY <2>1 DEF RowAmounts, Last
  <2>3. DOMAIN RowAmounts(rows[i]) = 1 .. 2
    BY <2>2
  <2>4. \A k \in 1 .. 2 : MoneyMinor(RowAmounts(rows[i])[k]) # {}
    BY <1>2, <2>3
  <2>5. MoneyMinor(RowAmounts(rows[i])[1]) # {} /\ MoneyMinor(RowAmounts(rows[i])[2]) # {}
    BY <2>4
  <2> QED BY <2>2, <2>5
<1>4. ItemsPrice(items) \in Int
  BY <1>1, <1>3, ItemsTyped DEF items
<1>5. /\ tax \in Nat /\ discount \in Nat
      /\ Amount(subtotal) \in Nat /\ Amount(total) \in Nat
  BY <1>1, LabelledTyped DEF tax, discount, subtotal, total
<1>6. ~NeedsReview(rows, items, subtotal, tax, discount, total)
  BY <1>2
<1>7. /\ items # <<>>
      /\ \A i \in DOMAIN items : ~ItemOff(items[i])
      /\ total # {}
  BY <1>6 DEF NeedsReview
<1>8. Distance(Amount(total), ItemsPrice(items) + tax - discount) <= 2 * Tolerance
  <2>1. /\ subtotal # {} => ~(Distance(Amount(subtotal), ItemsPrice(items)) > Tolerance)
        /\ ~(Distance(Amount(total),
                      (IF subtotal = {} THEN ItemsPrice(items) ELSE Amount(subtotal))
                          + tax - discount) > Tolerance)
    BY <1>6 DEF NeedsReview
  <2> DEFINE s == Amount(subtotal)
             p == ItemsPrice(items)
             t == Amount(total)
  <2>2. s \in Int /\ p \in Int /\ t \in Int /\ tax \in Int /\ discount \in Int
    BY <1>4, <1>5
  <2>3. /\ subtotal # {} => ~(Distance(s, p) > 1)
        /\ ~(Distance(t, (IF subtotal = {} THEN p ELSE s) + tax - discount) > 1)
    BY <2>1 DEF Tolerance
  <2> HIDE DEF s, p, t
  <2>4. Distance(t, p + tax - discount) <= 2
    BY <2>2, <2>3 DEF Distance
  <2> QED BY <2>4 DEF s, p, t, Tolerance
<1> QED BY <1>2, <1>7, <1>8 DEF Balanced

\* An answer keeps lines of its own.
LEMMA AnswersAreLines ==
  ASSUME NEW answer \in OcrAnswers
  PROVE  /\ Recognised(answer) \subseteq Nat /\ IsFiniteSet(Recognised(answer))
         /\ \A i \in Recognised(answer) : answer.lines[i] \in OcrLines
<1>1. answer.lines \in Seq(OcrLines)
  BY ReceiptAssumption
<1> DEFINE lines == answer.lines
<1>2. DOMAIN lines = 1 .. Len(lines) /\ Len(lines) \in Int
  BY <1>1
<1>3. IsFiniteSet(DOMAIN lines) /\ DOMAIN lines \subseteq Nat
  BY <1>2, FS_Interval
<1>4. Recognised(answer) \subseteq DOMAIN lines
  BY DEF Recognised
<1>5. IsFiniteSet(Recognised(answer))
  BY <1>3, <1>4, FS_Subset
<1> QED BY <1>1, <1>3, <1>4, <1>5

\* What is being parsed comes from an answer of the library, and what is done was
\* parsed from one.
ReceiptInv ==
  /\ receiptJob.phase = "recognised" =>
        /\ receiptJob.answer \in OcrAnswers /\ AnswerValid(receiptJob.answer)
        /\ receiptJob.kept = Recognised(receiptJob.answer)
  /\ receiptJob.phase = "done" =>
        /\ receiptJob.answer \in OcrAnswers /\ AnswerValid(receiptJob.answer)
        /\ receiptJob.result \in Parse(receiptJob.answer.lines, Recognised(receiptJob.answer))

\* It holds at first.
LEMMA ReceiptStarts == ReceiptInit => ReceiptInv
BY DEF ReceiptInit, ReceiptInv, NoReceipt

\* It is kept by every step: the guard, the library, the parser.
LEMMA ReceiptSteps == ReceiptInv /\ [ReceiptNext]_receiptVars => ReceiptInv'
<1> SUFFICES ASSUME ReceiptInv, [ReceiptNext]_receiptVars PROVE ReceiptInv'
  OBVIOUS
<1>1. ASSUME NEW image \in Images, TakeImage(image) PROVE ReceiptInv'
  BY <1>1 DEF TakeImage, ReceiptInv
<1>2. ASSUME NEW answer \in OcrAnswers, Recognise(answer) PROVE ReceiptInv'
  BY <1>2 DEF Recognise, ReceiptInv
<1>3. ASSUME ParseReceipt PROVE ReceiptInv'
  <2>1. CASE receiptJob' = [phase |-> "failed"]
    BY <2>1 DEF ReceiptInv
  <2>2. ASSUME NEW result \in Parse(receiptJob.answer.lines, receiptJob.kept),
               receiptJob' = [phase |-> "done", answer |-> receiptJob.answer, result |-> result]
        PROVE  ReceiptInv'
    <3>1. /\ receiptJob.answer \in OcrAnswers /\ AnswerValid(receiptJob.answer)
          /\ receiptJob.kept = Recognised(receiptJob.answer)
      BY <1>3 DEF ParseReceipt, ReceiptInv
    <3>2. /\ receiptJob'.phase = "done" /\ receiptJob'.result = result
          /\ receiptJob'.answer = receiptJob.answer
      BY <2>2
    <3> QED BY <2>2, <3>1, <3>2 DEF ReceiptInv
  <2> QED BY <1>3, <2>1, <2>2 DEF ParseReceipt
<1>4. CASE UNCHANGED receiptVars
  BY <1>4 DEF receiptVars, ReceiptInv
<1> QED BY <1>1, <1>2, <1>3, <1>4 DEF ReceiptNext

\* A result that nobody is asked to review adds up.
UnreviewedBalances ==
  receiptJob.phase = "done" /\ ~receiptJob.result.review => Balanced(receiptJob.result)

\* What is done then balances.
LEMMA DoneBalances == ReceiptInv => UnreviewedBalances
<1> SUFFICES ASSUME ReceiptInv, receiptJob.phase = "done", ~receiptJob.result.review
             PROVE  Balanced(receiptJob.result)
  BY DEF UnreviewedBalances
<1> DEFINE answer == receiptJob.answer
<1>1. answer \in OcrAnswers /\ receiptJob.result \in Parse(answer.lines, Recognised(answer))
  BY DEF ReceiptInv
<1> HIDE DEF answer
<1> QED BY <1>1, AnswersAreLines, ParsedBalances

\* A result that nobody is asked to review balances, whatever the OCR library
\* answered: it has items and a total, every price is that of its quantity, and
\* the total is the sum of the prices, the tax and the discount
\* (_reconcile, ocr/receipt_parser.py).
THEOREM UnreviewedResultsBalance == ReceiptSpec => []UnreviewedBalances
BY ReceiptStarts, ReceiptSteps, DoneBalances, PTL DEF ReceiptSpec

-----------------------------------------------------------------------------
\* Whatever goes through a set in order is what sorting it returns.
GoesThrough(S, order, m, f) ==
  /\ m \in Nat /\ f \in [1 .. m -> S]
  /\ \A i \in S : \E n \in 1 .. m : f[n] = i
  /\ \A k, n \in 1 .. m : k < n => <<f[k], f[n]>> \in order

\* There is one way to go through a set in order.
LEMMA RankedUnique ==
  ASSUME NEW S, IsFiniteSet(S), NEW order, IsOrder(S, order),
         NEW m, NEW f, GoesThrough(S, order, m, f)
  PROVE  m = Cardinality(S) /\ f = Ranked(S, order)
<1>0. /\ m \in Nat /\ f \in [1 .. m -> S]
      /\ \A i \in S : \E n \in 1 .. m : f[n] = i
      /\ \A k, n \in 1 .. m : k < n => <<f[k], f[n]>> \in order
  BY DEF GoesThrough
<1> DEFINE size == Cardinality(S)
           before(i) == Cardinality(BeforeIn(S, order, i))
           ranked == Ranked(S, order)
<1>1. \A k, n \in 1 .. m : f[k] = f[n] => k = n
  <2> SUFFICES ASSUME NEW k \in 1 .. m, NEW n \in 1 .. m, f[k] = f[n], k # n PROVE FALSE
    OBVIOUS
  <2>1. k < n \/ n < k
    BY <1>0
  <2>2. <<f[k], f[k]>> \in order /\ f[k] \in S
    BY <1>0, <2>1
  <2> QED BY <2>2 DEF IsOrder
<1>2. m = size
  <2>1. f \in Bijection(1 .. m, S)
    BY <1>0, <1>1 DEF Bijection, Injection, Surjection, IsInjective
  <2>2. IsFiniteSet(1 .. m) /\ Cardinality(1 .. m) = m
    BY <1>0, FS_Interval
  <2>3. ExistsBijection(1 .. m, S)
    BY <2>1 DEF ExistsBijection
  <2> QED BY <2>2, <2>3, FS_Bijection
<1>3. ASSUME NEW n \in 1 .. m PROVE before(f[n]) = n - 1
  <2> DEFINE B == BeforeIn(S, order, f[n])
             g == [k \in 1 .. n - 1 |-> f[k]]
  <2>1. \A k \in 1 .. n - 1 : k \in 1 .. m /\ f[k] \in B
    BY <1>0 DEF BeforeIn
  <2>2. ASSUME NEW i \in B PROVE \E k \in 1 .. n - 1 : f[k] = i
    <3>1. PICK k \in 1 .. m : f[k] = i
      BY <1>0 DEF BeforeIn
    <3>2. <<f[k], f[n]>> \in order /\ f[k] \in S /\ f[n] \in S
      BY <1>0, <3>1 DEF BeforeIn
    <3>3. ASSUME ~(k < n) PROVE FALSE
      <4>1. k = n \/ n < k
        BY <1>0, <3>3
      <4>2. <<f[n], f[n]>> \in order
        <5>1. CASE k = n
          BY <3>2, <5>1
        <5>2. CASE n < k
          <6>1. <<f[n], f[k]>> \in order
            BY <1>0, <5>2
          <6> QED BY <3>2, <6>1 DEF IsOrder
        <5> QED BY <4>1, <5>1, <5>2
      <4> QED BY <3>2, <4>2 DEF IsOrder
    <3>4. k \in 1 .. n - 1
      BY <1>0, <3>3
    <3> QED BY <3>1, <3>4
  <2>3. g \in Bijection(1 .. n - 1, B)
    <3>1. g \in [1 .. n - 1 -> B]
      BY <2>1
    <3>2. \A a, b \in 1 .. n - 1 : g[a] = g[b] => a = b
      BY <1>1, <2>1
    <3>3. \A i \in B : \E k \in 1 .. n - 1 : g[k] = i
      BY <2>2
    <3> HIDE DEF g, B
    <3> QED BY <3>1, <3>2, <3>3 DEF Bijection, Injection, Surjection, IsInjective
  <2>4. n - 1 \in Int /\ IsFiniteSet(1 .. n - 1) /\ Cardinality(1 .. n - 1) = n - 1
    <3>1. n - 1 \in Int /\ 1 \in Int /\ n - 1 >= 0
      BY <1>0
    <3> QED BY <3>1, FS_Interval
  <2>5. ExistsBijection(1 .. n - 1, B)
    BY <2>3 DEF ExistsBijection
  <2> QED BY <2>4, <2>5, FS_Bijection
<1>4. /\ ranked \in [1 .. size -> S]
      /\ \A n \in 1 .. size : before(ranked[n]) = n - 1
  BY RankedIs
<1> HIDE DEF ranked, before, size
<1>5. ASSUME NEW n \in 1 .. m PROVE ranked[n] = f[n]
  <2>1. ranked[n] \in S /\ before(ranked[n]) = n - 1
    BY <1>2, <1>4
  <2>2. PICK k \in 1 .. m : f[k] = ranked[n]
    BY <1>0, <2>1
  <2>3. n - 1 = k - 1
    BY <1>3, <2>1, <2>2
  <2>4. n = k
    BY <1>0, <2>3
  <2> QED BY <2>2, <2>4
<1>6. f = ranked
  BY <1>0, <1>2, <1>4, <1>5
<1> QED BY <1>2, <1>6 DEF size, ranked

\* Numbers in their own order.
LEMMA NumbersInOrder ==
  ASSUME NEW S, IsFiniteSet(S), S \subseteq Int
  PROVE  IsOrder(S, {e \in S \X S : e[1] < e[2]})
<1> DEFINE order == {e \in S \X S : e[1] < e[2]}
<1>1. \A i, j \in S : <<i, j>> \in order <=> i < j
  OBVIOUS
<1>2. order \in SUBSET (S \X S)
  OBVIOUS
<1> HIDE DEF order
<1>3. \A i \in S : i \in Int
  OBVIOUS
<1>4. \A a, b, c \in S : <<a, b>> \in order /\ <<b, c>> \in order => <<a, c>> \in order
  BY <1>1, <1>3
<1>5. \A a \in S : <<a, a>> \notin order
  BY <1>1, <1>3
<1>6. ASSUME NEW a \in S, NEW b \in S PROVE a = b \/ <<a, b>> \in order \/ <<b, a>> \in order
  <2>1. a = b \/ a < b \/ b < a
    BY <1>3
  <2> QED BY <1>1, <2>1
<1> QED BY <1>2, <1>4, <1>5, <1>6 DEF IsOrder, order

-----------------------------------------------------------------------------
\* Boxes that lie in rows: those of a row are close to each other, those of the
\* next row are further down than that.
InRows(lines, kept, row, R) ==
  /\ kept \subseteq Nat /\ IsFiniteSet(kept)
  /\ \A i \in kept : lines[i] \in OcrLines
  /\ R \in Nat /\ row \in [kept -> 1 .. R]
  /\ \A r \in 1 .. R : \E i \in kept : row[i] = r
  /\ \A i, j \in kept :
       /\ row[i] < row[j] => CenterY(lines[i]) + VerticalTolerance < CenterY(lines[j])
       /\ row[i] = row[j] =>
            /\ Distance(CenterY(lines[i]), CenterY(lines[j])) <= VerticalTolerance
            /\ i # j => lines[i].left # lines[j].left

\* The boxes of a row, from left to right, say what the row says.
ReadsRow(lines, boxes, text) ==
  \E m \in Nat : \E f \in [1 .. m -> boxes] :
    /\ \A i \in boxes : \E n \in 1 .. m : f[n] = i
    /\ \A k, n \in 1 .. m : k < n => lines[f[k]].left < lines[f[n]].left
    /\ text = [n \in 1 .. m |-> lines[f[n]].token]

\* at goes through the boxes row by row.
RowByRow(kept, row, R, at, N) ==
  /\ at \in [1 .. N -> kept] /\ N \in Nat
  /\ \A i \in kept : \E n \in 1 .. N : at[n] = i
  /\ \A n \in 1 .. N : n # N => row[at[n + 1]] \in {row[at[n]], row[at[n]] + 1}
  /\ N # 0 => row[at[1]] = 1 /\ row[at[N]] = R
  /\ N = 0 => R = 0

\* Boxes that lie in rows are sorted row by row.
LEMMA ReadRowByRow ==
  ASSUME NEW lines, NEW kept, NEW row, NEW R, InRows(lines, kept, row, R)
  PROVE  \E at : /\ RowByRow(kept, row, R, at, Cardinality(kept))
                 /\ InReadingOrder(lines, kept) = [n \in 1 .. Cardinality(kept) |-> lines[at[n]]]
<1> DEFINE order == ReadingOrder(lines, kept)
           at == Ranked(kept, order)
           N == Cardinality(kept)
<1>1. /\ kept \subseteq Nat /\ IsFiniteSet(kept) /\ \A i \in kept : lines[i] \in OcrLines
      /\ R \in Nat /\ row \in [kept -> 1 .. R]
      /\ \A r \in 1 .. R : \E i \in kept : row[i] = r
  BY DEF InRows
<1>2. /\ N \in Nat /\ at \in [1 .. N -> kept]
      /\ \A i \in kept : \E n \in 1 .. N : at[n] = i
      /\ \A m, n \in 1 .. N : m < n => <<at[m], at[n]>> \in order
  <2>1. IsOrder(kept, order)
    BY <1>1, ReadingIsOrder
  <2> QED BY <1>1, <2>1, RankedIs
<1>3. InReadingOrder(lines, kept) = [n \in 1 .. N |-> lines[at[n]]]
  BY <1>2 DEF InReadingOrder
<1>4. ASSUME NEW i \in kept, NEW j \in kept, <<i, j>> \in order PROVE row[i] <= row[j]
  <2>1. row[i] \in Int /\ row[j] \in Int
    BY <1>1
  <2>2. SUFFICES ASSUME row[j] < row[i] PROVE FALSE
    BY <2>1
  <2>3. CenterY(lines[j]) + VerticalTolerance < CenterY(lines[i])
    BY <2>2 DEF InRows
  <2>4. CenterY(lines[j]) \in Nat /\ CenterY(lines[i]) \in Nat /\ VerticalTolerance \in Nat
    BY <1>1, BoxPlace, ReceiptAssumption
  <2>5. CenterY(lines[j]) < CenterY(lines[i])
    BY <2>3, <2>4
  <2>6. ReadsBefore(lines[j], lines[i]) /\ ~ReadsBefore(lines[i], lines[j])
    BY <2>4, <2>5 DEF ReadsBefore
  <2> QED BY <1>4, <2>6 DEF ReadingOrder
<1> HIDE DEF at, N, order
<1>5. \A m, n \in 1 .. N : m < n => row[at[m]] <= row[at[n]]
  <2> SUFFICES ASSUME NEW m \in 1 .. N, NEW n \in 1 .. N, m < n PROVE row[at[m]] <= row[at[n]]
    OBVIOUS
  <2>1. <<at[m], at[n]>> \in order /\ at[m] \in kept /\ at[n] \in kept
    BY <1>2
  <2> QED BY <1>4, <2>1
<1>6. \A n \in 1 .. N : at[n] \in kept /\ row[at[n]] \in 1 .. R
  BY <1>1, <1>2
<1>7. \A r \in 1 .. R : \E n \in 1 .. N : row[at[n]] = r
  <2> TAKE r \in 1 .. R
  <2>1. PICK i \in kept : row[i] = r
    BY <1>1
  <2>2. PICK n \in 1 .. N : at[n] = i
    BY <1>2
  <2> QED BY <2>1, <2>2
<1> DEFINE to(n) == row[at[n]]
<1>8. /\ N \in Nat /\ R \in Nat
      /\ \A n \in 1 .. N : to(n) \in 1 .. R
      /\ \A m, n \in 1 .. N : m < n => to(m) <= to(n)
      /\ \A r \in 1 .. R : \E n \in 1 .. N : to(n) = r
  BY <1>1, <1>2, <1>5, <1>6, <1>7
<1> HIDE DEF to
<1>9. ASSUME NEW n \in 1 .. N, n # N PROVE to(n + 1) \in {to(n), to(n) + 1}
  <2>1. n + 1 \in 1 .. N
    BY <1>8, <1>9
  <2>2. to(n) <= to(n + 1) /\ to(n) \in 1 .. R /\ to(n + 1) \in 1 .. R
    BY <1>8, <2>1
  <2>3. SUFFICES ASSUME to(n + 1) > to(n) + 1 PROVE FALSE
    BY <2>2
  <2>4. to(n) + 1 \in 1 .. R
    BY <1>8, <2>2, <2>3
  <2>5. PICK k \in 1 .. N : to(k) = to(n) + 1
    BY <1>8, <2>4
  <2>6. CASE k <= n
    <3>1. to(k) <= to(n)
      BY <1>8, <2>2, <2>6
    <3> QED BY <2>2, <2>5, <3>1
  <2>7. CASE k >= n + 1
    <3>1. to(n + 1) <= to(k)
      BY <1>8, <2>1, <2>2, <2>7
    <3> QED BY <2>2, <2>3, <2>5, <3>1
  <2> QED BY <2>6, <2>7
<1>10. N # 0 => to(1) = 1 /\ to(N) = R
  <2> SUFFICES ASSUME N # 0 PROVE to(1) = 1 /\ to(N) = R
    OBVIOUS
  <2>1. 1 \in 1 .. N /\ N \in 1 .. N
    BY <1>8
  <2>2. to(1) \in 1 .. R /\ to(N) \in 1 .. R /\ 1 \in 1 .. R /\ R \in 1 .. R
    BY <1>8, <2>1
  <2>3. PICK a \in 1 .. N : to(a) = 1
    BY <1>8, <2>2
  <2>4. PICK b \in 1 .. N : to(b) = R
    BY <1>8, <2>2
  <2>5. to(1) <= to(a)
    BY <1>8, <2>1, <2>2, <2>3
  <2>6. to(b) <= to(N)
    BY <1>8, <2>1, <2>2, <2>4
  <2> QED BY <2>2, <2>3, <2>4, <2>5, <2>6
<1>11. N = 0 => R = 0
  <2> SUFFICES ASSUME N = 0, R # 0 PROVE FALSE
    OBVIOUS
  <2>1. 1 \in 1 .. R
    BY <1>8
  <2> QED BY <1>8, <2>1
<1>12. RowByRow(kept, row, R, at, N)
  BY <1>2, <1>9, <1>10, <1>11 DEF RowByRow, to
<1> QED BY <1>3, <1>12 DEF N

\* A sequence with another last element.
LEMMA WithLast ==
  ASSUME NEW T, NEW s \in Seq(T), s # <<>>, NEW x \in T
  PROVE  LET t == Append(Front(s), x)
         IN  /\ t \in Seq(T) /\ Len(t) = Len(s) /\ t[Len(s)] = x
             /\ \A k \in 1 .. Len(s) : k # Len(s) => t[k] = s[k]
<1>1. Front(s) \in Seq(T) /\ Len(Front(s)) = Len(s) - 1 /\ Len(s) \in Nat /\ Len(s) >= 1
  <2>1. Len(s) \in Nat /\ Len(s) >= 1
    OBVIOUS
  <2>2. Front(s) = [k \in 1 .. Len(s) - 1 |-> s[k]]
    BY <2>1 DEF Front
  <2>3. \A k \in 1 .. Len(s) - 1 : s[k] \in T
    BY <2>1
  <2>4. Front(s) \in [1 .. Len(s) - 1 -> T] /\ Len(s) - 1 \in Nat
    BY <2>1, <2>2, <2>3
  <2>5. Front(s) \in Seq(T)
    BY <2>4
  <2> QED BY <2>1, <2>4, <2>5
<1>2. \A k \in 1 .. Len(s) - 1 : Front(s)[k] = s[k]
  BY <1>1 DEF Front
<1> DEFINE front == Front(s)
           t == Append(front, x)
<1> HIDE DEF front
<1>3. front \in Seq(T) /\ Len(front) = Len(s) - 1 /\ \A k \in 1 .. Len(s) - 1 : front[k] = s[k]
  BY <1>1, <1>2 DEF front
<1>4. t \in Seq(T) /\ Len(t) = Len(front) + 1 /\ t[Len(front) + 1] = x
  BY <1>3
<1>5. Len(t) = Len(s) /\ t[Len(s)] = x
  <2>1. Len(front) + 1 = Len(s)
    BY <1>1, <1>3
  <2> QED BY <1>4, <2>1
<1>6. ASSUME NEW k \in 1 .. Len(s), k # Len(s) PROVE t[k] = s[k]
  <2>1. k \in 1 .. Len(s) - 1
    BY <1>1, <1>6
  <2>2. t[k] = front[k]
    BY <1>1, <1>3, <2>1
  <2> QED BY <1>3, <2>1, <2>2
<1> QED BY <1>4, <1>5, <1>6 DEF t, front

\* g tells which boxes the groups hold: of the first n, those of each row, once.
Collected(lines, kept, row, at, n, groups, g) ==
  /\ groups \in Seq(Groups) /\ g \in Seq(Seq(kept)) /\ Len(g) = Len(groups)
  /\ \A k \in 1 .. Len(g) :
       /\ Len(groups[k]) = Len(g[k])
       /\ \A j \in 1 .. Len(g[k]) : groups[k][j] = lines[g[k][j]] /\ row[g[k][j]] = k
       /\ \A a, b \in 1 .. Len(g[k]) : g[k][a] = g[k][b] => a = b
       /\ \A j \in 1 .. Len(g[k]) : \E m \in 1 .. n : at[m] = g[k][j]
  /\ \A m \in 1 .. n : /\ row[at[m]] \in 1 .. Len(g)
                       /\ \E j \in 1 .. Len(g[row[at[m]]]) : g[row[at[m]]][j] = at[m]

\* The next box joins the last row, or begins the next one.
LEMMA CollectOne ==
  ASSUME NEW lines, NEW kept, NEW row, NEW R, InRows(lines, kept, row, R),
         NEW at, NEW n \in Nat, \A m \in 1 .. n + 1 : at[m] \in kept,
         \A m \in 1 .. n : at[m] # at[n + 1],
         NEW groups, NEW g, Collected(lines, kept, row, at, n, groups, g),
         \/ Len(g) # 0 /\ row[at[n + 1]] = Len(g)
         \/ row[at[n + 1]] = Len(g) + 1
  PROVE  \E h : /\ Collected(lines, kept, row, at, n + 1, AddToRows(groups, lines[at[n + 1]]), h)
                /\ Len(h) = row[at[n + 1]]
<1> DEFINE i == at[n + 1]
           line == lines[i]
           L == Len(g)
           added == AddToRows(groups, line)
<1>1. /\ i \in kept /\ line \in OcrLines /\ row[i] \in Nat
      /\ \A m \in 1 .. n : m \in 1 .. n + 1 /\ at[m] \in kept /\ at[m] # i
      /\ \A m \in 1 .. n + 1 : m \in 1 .. n \/ m = n + 1
  <2>1. n + 1 \in 1 .. n + 1
    OBVIOUS
  <2>2. i \in kept
    BY <2>1
  <2>3. line \in OcrLines /\ row[i] \in Nat
    <3>1. line \in OcrLines /\ row \in [kept -> 1 .. R]
      BY <2>2 DEF InRows
    <3>2. row[i] \in 1 .. R
      BY <2>2, <3>1
    <3> QED BY <3>1, <3>2
  <2> QED BY <2>2, <2>3
<1>2. /\ groups \in Seq(Groups) /\ g \in Seq(Seq(kept)) /\ L = Len(groups) /\ L \in Nat
      /\ \A k \in 1 .. L : g[k] \in Seq(kept) /\ groups[k] \in Seq(OcrLines) /\ groups[k] # <<>>
  <2>1. groups \in Seq(Groups) /\ g \in Seq(Seq(kept)) /\ L = Len(groups)
    BY DEF Collected
  <2>2. \A k \in 1 .. L : g[k] \in Seq(kept) /\ groups[k] \in Groups
    BY <2>1
  <2> QED BY <2>1, <2>2 DEF Groups
<1>3. \A k \in 1 .. L :
       /\ Len(groups[k]) = Len(g[k])
       /\ \A j \in 1 .. Len(g[k]) : groups[k][j] = lines[g[k][j]] /\ row[g[k][j]] = k
       /\ \A a, b \in 1 .. Len(g[k]) : g[k][a] = g[k][b] => a = b
       /\ \A j \in 1 .. Len(g[k]) : \E m \in 1 .. n : at[m] = g[k][j]
  BY DEF Collected
<1>4. \A m \in 1 .. n : /\ row[at[m]] \in 1 .. L
                        /\ \E j \in 1 .. Len(g[row[at[m]]]) : g[row[at[m]]][j] = at[m]
  BY DEF Collected
<1>5. ASSUME L # 0
      PROVE  /\ groups # <<>> /\ L \in 1 .. L
             /\ Last(groups) = groups[L] /\ 1 \in 1 .. Len(g[L]) /\ g[L][1] \in kept
             /\ row[g[L][1]] = L
             /\ SameRow(Last(groups), line) <=>
                  Distance(CenterY(lines[g[L][1]]), CenterY(line)) <= VerticalTolerance
  <2>1. groups # <<>> /\ L \in 1 .. L
    BY <1>2, <1>5
  <2>2. Last(groups) = groups[L]
    BY <1>2 DEF Last
  <2>3. g[L] \in Seq(kept) /\ Len(g[L]) = Len(groups[L]) /\ Len(groups[L]) \in Nat /\ Len(groups[L]) # 0
    BY <1>2, <1>3, <2>1
  <2>4. 1 \in 1 .. Len(g[L]) /\ g[L][1] \in kept
    BY <2>3
  <2>5. groups[L][1] = lines[g[L][1]] /\ row[g[L][1]] = L
    BY <1>3, <2>1, <2>4
  <2> QED BY <2>1, <2>2, <2>4, <2>5 DEF SameRow
<1>6. CASE L # 0 /\ row[i] = L
  <2> DEFINE h == Append(Front(g), Append(g[L], i))
  <2>1. SameRow(Last(groups), line)
    <3>1. row[g[L][1]] = row[i] /\ g[L][1] \in kept
      BY <1>5, <1>6
    <3>2. Distance(CenterY(lines[g[L][1]]), CenterY(line)) <= VerticalTolerance
      BY <1>1, <3>1 DEF InRows
    <3> QED BY <1>5, <1>6, <3>2
  <2>2. added = Append(Front(groups), Append(groups[L], line))
    BY <1>5, <1>6, <2>1 DEF AddToRows
  <2> HIDE DEF added, i, line
  <2>3. /\ Append(groups[L], line) \in Groups /\ Append(g[L], i) \in Seq(kept)
        /\ Len(Append(groups[L], line)) = Len(g[L]) + 1 /\ Len(Append(g[L], i)) = Len(g[L]) + 1
        /\ Append(groups[L], line)[Len(g[L]) + 1] = line /\ Append(g[L], i)[Len(g[L]) + 1] = i
        /\ \A j \in 1 .. Len(g[L]) :
              Append(groups[L], line)[j] = groups[L][j] /\ Append(g[L], i)[j] = g[L][j]
        /\ Len(g[L]) \in Nat
    <3>1. /\ groups[L] \in Seq(OcrLines) /\ g[L] \in Seq(kept) /\ Len(groups[L]) = Len(g[L])
          /\ line \in OcrLines /\ i \in kept
      BY <1>1, <1>2, <1>3, <1>5, <1>6
    <3> DEFINE gl == groups[L]
               pl == g[L]
    <3> HIDE DEF gl, pl
    <3>2. gl \in Seq(OcrLines) /\ pl \in Seq(kept) /\ Len(gl) = Len(pl)
      BY <3>1 DEF gl, pl
    <3>3. Append(gl, line) \in Seq(OcrLines) /\ Append(gl, line) # <<>>
      BY <3>1, <3>2
    <3>4. Append(gl, line) \in Groups
      BY <3>3 DEF Groups
    <3>5. /\ Len(Append(gl, line)) = Len(gl) + 1
          /\ Append(gl, line)[Len(gl) + 1] = line
          /\ \A j \in 1 .. Len(gl) : Append(gl, line)[j] = gl[j]
      BY <3>1, <3>2
    <3>6. /\ Append(pl, i) \in Seq(kept) /\ Len(Append(pl, i)) = Len(pl) + 1
          /\ Append(pl, i)[Len(pl) + 1] = i
          /\ \A j \in 1 .. Len(pl) : Append(pl, i)[j] = pl[j]
          /\ Len(pl) \in Nat
      BY <3>1, <3>2
    <3> QED BY <3>2, <3>4, <3>5, <3>6 DEF gl, pl
  <2> DEFINE newGroup == Append(groups[L], line)
             newPlaces == Append(g[L], i)
             len == Len(g[L])
  <2> HIDE DEF newGroup, newPlaces, len
  <2>4. /\ added \in Seq(Groups) /\ Len(added) = L /\ added[L] = newGroup
        /\ \A k \in 1 .. L : k # L => added[k] = groups[k]
    BY <1>2, <1>5, <1>6, <2>2, <2>3, WithLast DEF newGroup
  <2>5. /\ h \in Seq(Seq(kept)) /\ Len(h) = L /\ h[L] = newPlaces
        /\ \A k \in 1 .. L : k # L => h[k] = g[k]
    <3>1. g # <<>>
      BY <1>6
    <3> QED BY <1>2, <2>3, <3>1, WithLast DEF newPlaces
  <2>6. /\ len \in Nat /\ Len(newGroup) = len + 1 /\ Len(newPlaces) = len + 1
        /\ newGroup[len + 1] = line /\ newPlaces[len + 1] = i
        /\ \A j \in 1 .. len : newGroup[j] = groups[L][j] /\ newPlaces[j] = g[L][j]
        /\ \A j \in 1 .. len + 1 : j \in 1 .. len \/ j = len + 1
        /\ \A j \in 1 .. len : j \in 1 .. len + 1
        /\ len + 1 \in 1 .. len + 1
    BY <2>3 DEF newGroup, newPlaces, len
  <2> HIDE DEF h
  <2>7. ASSUME NEW k \in 1 .. L
        PROVE  /\ Len(added[k]) = Len(h[k])
               /\ \A j \in 1 .. Len(h[k]) : added[k][j] = lines[h[k][j]] /\ row[h[k][j]] = k
               /\ \A a, b \in 1 .. Len(h[k]) : h[k][a] = h[k][b] => a = b
               /\ \A j \in 1 .. Len(h[k]) : \E m \in 1 .. n + 1 : at[m] = h[k][j]
    <3>1. CASE k # L
      <4>1. added[k] = groups[k] /\ h[k] = g[k]
        BY <2>4, <2>5, <3>1
      <4>2. \A m \in 1 .. n : m \in 1 .. n + 1
        OBVIOUS
      <4>3. \A j \in 1 .. Len(g[k]) : \E m \in 1 .. n + 1 : at[m] = g[k][j]
        BY <1>3, <3>1, <4>2
      <4>4. /\ Len(groups[k]) = Len(g[k])
            /\ \A j \in 1 .. Len(g[k]) : groups[k][j] = lines[g[k][j]] /\ row[g[k][j]] = k
            /\ \A a, b \in 1 .. Len(g[k]) : g[k][a] = g[k][b] => a = b
        BY <1>3, <3>1
      <4> QED BY <4>1, <4>3, <4>4, ZenonT(30)
    <3>2. CASE k = L
      <4>1. added[k] = newGroup /\ h[k] = newPlaces
        BY <2>4, <2>5, <3>2
      <4>2. /\ Len(groups[L]) = len
            /\ \A j \in 1 .. len : groups[L][j] = lines[g[L][j]] /\ row[g[L][j]] = L
            /\ \A a, b \in 1 .. len : g[L][a] = g[L][b] => a = b
            /\ \A j \in 1 .. len : \E m \in 1 .. n : at[m] = g[L][j]
        BY <1>3, <3>2 DEF len
      <4>3. \A j \in 1 .. len : g[L][j] # i
        BY <1>1, <4>2
      <4>4. \A j \in 1 .. len + 1 : newGroup[j] = lines[newPlaces[j]] /\ row[newPlaces[j]] = L
        BY <1>6, <2>6, <4>2, SMTT(30) DEF line
      <4>5. \A a, b \in 1 .. len + 1 : newPlaces[a] = newPlaces[b] => a = b
        BY <2>6, <4>2, <4>3, SMTT(30)
      <4>6. \A j \in 1 .. len + 1 : \E m \in 1 .. n + 1 : at[m] = newPlaces[j]
        <5> TAKE j \in 1 .. len + 1
        <5>1. CASE j = len + 1
          <6>1. n + 1 \in 1 .. n + 1 /\ at[n + 1] = newPlaces[j]
            BY <2>6, <5>1 DEF i
          <6> QED BY <6>1
        <5>2. CASE j \in 1 .. len
          <6>1. PICK m \in 1 .. n : at[m] = g[L][j]
            BY <4>2, <5>2
          <6> QED BY <1>1, <2>6, <5>2, <6>1
        <5> QED BY <2>6, <5>1, <5>2
      <4> QED BY <2>6, <3>2, <4>1, <4>4, <4>5, <4>6, ZenonT(30)
    <3> QED BY <3>1, <3>2
  <2>8. ASSUME NEW m \in 1 .. n + 1
        PROVE  /\ row[at[m]] \in 1 .. L
               /\ \E j \in 1 .. Len(h[row[at[m]]]) : h[row[at[m]]][j] = at[m]
    <3>1. CASE m = n + 1
      <4>1. row[at[m]] = L /\ L \in 1 .. L /\ h[L] = newPlaces /\ at[m] = i
        BY <1>5, <1>6, <2>5, <3>1 DEF i
      <4> QED BY <2>6, <4>1
    <3>2. CASE m \in 1 .. n
      <4>1. PICK j \in 1 .. Len(g[row[at[m]]]) : g[row[at[m]]][j] = at[m]
        BY <1>4, <3>2
      <4>2. row[at[m]] \in 1 .. L
        BY <1>4, <3>2
      <4>3. CASE row[at[m]] # L
        BY <2>5, <4>1, <4>2, <4>3
      <4>4. CASE row[at[m]] = L
        <5>1. j \in 1 .. len /\ g[L][j] = at[m]
          BY <4>1, <4>4 DEF len
        <5>2. j \in 1 .. len + 1 /\ newPlaces[j] = at[m]
          BY <2>6, <5>1
        <5>3. h[row[at[m]]] = newPlaces /\ Len(newPlaces) = len + 1
          BY <2>5, <2>6, <4>2, <4>4
        <5> QED BY <4>2, <5>2, <5>3
      <4> QED BY <4>3, <4>4
    <3> QED BY <1>1, <3>1, <3>2
  <2>9. Collected(lines, kept, row, at, n + 1, added, h)
    <3>1. \A m \in 1 .. n + 1 : /\ row[at[m]] \in 1 .. Len(h)
                                /\ \E j \in 1 .. Len(h[row[at[m]]]) : h[row[at[m]]][j] = at[m]
      BY <2>5, <2>8
    <3>2. \A k \in 1 .. Len(h) :
            /\ Len(added[k]) = Len(h[k])
            /\ \A j \in 1 .. Len(h[k]) : added[k][j] = lines[h[k][j]] /\ row[h[k][j]] = k
            /\ \A a, b \in 1 .. Len(h[k]) : h[k][a] = h[k][b] => a = b
            /\ \A j \in 1 .. Len(h[k]) : \E m \in 1 .. n + 1 : at[m] = h[k][j]
      BY <2>5, <2>7
    <3> QED BY <2>4, <2>5, <3>1, <3>2 DEF Collected
  <2> QED BY <1>6, <2>5, <2>9 DEF added, i, line
<1>7. CASE row[i] = L + 1
  <2> DEFINE h == Append(g, <<i>>)
  <2>1. added = Append(groups, <<line>>)
    <3>1. ASSUME groups # <<>> PROVE ~SameRow(Last(groups), line)
      <4>1. L # 0
        BY <1>2, <3>1
      <4>2. row[g[L][1]] < row[i] /\ g[L][1] \in kept
        BY <1>2, <1>5, <1>7, <4>1
      <4>3. CenterY(lines[g[L][1]]) + VerticalTolerance < CenterY(line)
        BY <1>1, <4>2 DEF InRows
      <4>4. /\ CenterY(lines[g[L][1]]) \in Nat /\ CenterY(line) \in Nat /\ VerticalTolerance \in Nat
        <5>1. lines[g[L][1]] \in OcrLines
          BY <4>2 DEF InRows
        <5> QED BY <1>1, <5>1, BoxPlace, ReceiptAssumption
      <4>5. ~(Distance(CenterY(lines[g[L][1]]), CenterY(line)) <= VerticalTolerance)
        BY <4>3, <4>4 DEF Distance
      <4> QED BY <1>5, <4>1, <4>5
    <3> QED BY <3>1 DEF AddToRows
  <2> HIDE DEF added, i, line
  <2>2. <<line>> \in Groups /\ <<i>> \in Seq(kept)
    BY <1>1 DEF Groups
  <2>3. /\ added \in Seq(Groups) /\ Len(added) = L + 1 /\ added[L + 1] = <<line>>
        /\ \A k \in 1 .. L : added[k] = groups[k]
    BY <1>2, <2>1, <2>2
  <2>4. /\ h \in Seq(Seq(kept)) /\ Len(h) = L + 1 /\ h[L + 1] = <<i>>
        /\ \A k \in 1 .. L : h[k] = g[k]
    BY <1>2, <2>2
  <2> HIDE DEF h
  <2>5. \A k \in 1 .. L + 1 : k \in 1 .. L \/ k = L + 1
    BY <1>2
  <2>6. ASSUME NEW k \in 1 .. L + 1
        PROVE  /\ Len(added[k]) = Len(h[k])
               /\ \A j \in 1 .. Len(h[k]) : added[k][j] = lines[h[k][j]] /\ row[h[k][j]] = k
               /\ \A a, b \in 1 .. Len(h[k]) : h[k][a] = h[k][b] => a = b
               /\ \A j \in 1 .. Len(h[k]) : \E m \in 1 .. n + 1 : at[m] = h[k][j]
    <3>1. CASE k \in 1 .. L
      <4>1. added[k] = groups[k] /\ h[k] = g[k]
        BY <2>3, <2>4, <3>1
      <4>2. \A m \in 1 .. n : m \in 1 .. n + 1
        OBVIOUS
      <4>3. \A j \in 1 .. Len(g[k]) : \E m \in 1 .. n + 1 : at[m] = g[k][j]
        BY <1>3, <3>1, <4>2
      <4>4. /\ Len(groups[k]) = Len(g[k])
            /\ \A j \in 1 .. Len(g[k]) : groups[k][j] = lines[g[k][j]] /\ row[g[k][j]] = k
            /\ \A a, b \in 1 .. Len(g[k]) : g[k][a] = g[k][b] => a = b
        BY <1>3, <3>1
      <4> QED BY <4>1, <4>3, <4>4, ZenonT(30)
    <3>2. CASE k = L + 1
      <4>1. added[k] = <<line>> /\ h[k] = <<i>>
        BY <2>3, <2>4, <3>2
      <4>2. Len(added[k]) = 1 /\ Len(h[k]) = 1 /\ added[k][1] = line /\ h[k][1] = i
        BY <4>1
      <4>3. \A j \in 1 .. 1 : j = 1
        OBVIOUS
      <4>4. n + 1 \in 1 .. n + 1 /\ at[n + 1] = h[k][1]
        BY <4>2 DEF i
      <4>5. line = lines[i] /\ row[i] = k
        BY <1>7, <3>2 DEF line
      <4> QED BY <4>2, <4>3, <4>4, <4>5
    <3> QED BY <2>5, <3>1, <3>2
  <2>7. ASSUME NEW m \in 1 .. n + 1
        PROVE  /\ row[at[m]] \in 1 .. L + 1
               /\ \E j \in 1 .. Len(h[row[at[m]]]) : h[row[at[m]]][j] = at[m]
    <3>1. CASE m = n + 1
      <4>1. row[at[m]] = L + 1 /\ L + 1 \in 1 .. L + 1 /\ h[L + 1] = <<i>> /\ at[m] = i
        BY <1>2, <1>7, <2>4, <3>1 DEF i
      <4>2. 1 \in 1 .. Len(h[L + 1]) /\ h[L + 1][1] = i
        BY <4>1
      <4> QED BY <4>1, <4>2
    <3>2. CASE m \in 1 .. n
      <4>1. row[at[m]] \in 1 .. L /\ \E j \in 1 .. Len(g[row[at[m]]]) : g[row[at[m]]][j] = at[m]
        BY <1>4, <3>2
      <4>2. row[at[m]] \in 1 .. L + 1 /\ h[row[at[m]]] = g[row[at[m]]]
        BY <1>2, <2>4, <4>1
      <4> QED BY <4>1, <4>2
    <3> QED BY <1>1, <3>1, <3>2
  <2>8. Collected(lines, kept, row, at, n + 1, added, h)
    <3>1. \A m \in 1 .. n + 1 : /\ row[at[m]] \in 1 .. Len(h)
                                /\ \E j \in 1 .. Len(h[row[at[m]]]) : h[row[at[m]]][j] = at[m]
      BY <2>4, <2>7
    <3>2. \A k \in 1 .. Len(h) :
            /\ Len(added[k]) = Len(h[k])
            /\ \A j \in 1 .. Len(h[k]) : added[k][j] = lines[h[k][j]] /\ row[h[k][j]] = k
            /\ \A a, b \in 1 .. Len(h[k]) : h[k][a] = h[k][b] => a = b
            /\ \A j \in 1 .. Len(h[k]) : \E m \in 1 .. n + 1 : at[m] = h[k][j]
      BY <2>4, <2>6
    <3> QED BY <2>3, <2>4, <3>1, <3>2 DEF Collected
  <2> QED BY <1>7, <2>4, <2>8 DEF added, i, line
<1> QED BY <1>6, <1>7

\* A group of all the boxes of a row is merged into what the row says.
HoldsRow(lines, boxes, p, group) ==
  /\ group \in Seq(OcrLines) /\ p \in Seq(boxes) /\ Len(group) = Len(p)
  /\ \A j \in 1 .. Len(p) : group[j] = lines[p[j]]
  /\ \A a, b \in 1 .. Len(p) : p[a] = p[b] => a = b
  /\ \A i \in boxes : \E j \in 1 .. Len(p) : p[j] = i
  /\ \A i, j \in boxes : i # j => lines[i].left # lines[j].left

\* So it reads that row.
LEMMA MergedReads ==
  ASSUME NEW lines, NEW boxes, NEW p, NEW group, HoldsRow(lines, boxes, p, group)
  PROVE  ReadsRow(lines, boxes, MergeGroup(group).text)
<1> DEFINE order == LeftToRight(group)
           places == Ranked(DOMAIN group, order)
           m == Cardinality(DOMAIN group)
           f == [n \in 1 .. m |-> p[places[n]]]
<1>1. /\ group \in Seq(OcrLines) /\ p \in Seq(boxes)
      /\ DOMAIN group = 1 .. Len(p) /\ Len(p) \in Nat
      /\ \A j \in 1 .. Len(p) : group[j] = lines[p[j]] /\ p[j] \in boxes
      /\ \A a, b \in 1 .. Len(p) : p[a] = p[b] => a = b
      /\ \A i \in boxes : \E j \in 1 .. Len(p) : p[j] = i
      /\ \A i, j \in boxes : i # j => lines[i].left # lines[j].left
  BY DEF HoldsRow
<1>2. IsFiniteSet(DOMAIN group)
  BY <1>1, FS_Interval
<1>3. /\ m \in Nat /\ places \in [1 .. m -> 1 .. Len(p)]
      /\ \A j \in 1 .. Len(p) : \E n \in 1 .. m : places[n] = j
      /\ \A a, b \in 1 .. m : a < b => <<places[a], places[b]>> \in order
  <2> DEFINE D == DOMAIN group
  <2>1. IsOrder(D, order)
    BY <1>1, LeftIsOrder
  <2> HIDE DEF D, order
  <2>2. LET ranked == Ranked(D, order)
        IN  /\ Cardinality(D) \in Nat
            /\ ranked \in [1 .. Cardinality(D) -> D]
            /\ \A i \in D : \E n \in 1 .. Cardinality(D) : ranked[n] = i
            /\ \A a, n \in 1 .. Cardinality(D) : a < n => <<ranked[a], ranked[n]>> \in order
    BY <1>2, <2>1, RankedIs DEF D
  <2> QED BY <1>1, <2>2 DEF D
<1>4. MergeGroup(group).text = [n \in 1 .. m |-> group[places[n]].token]
  BY <1>3 DEF MergeGroup
<1> HIDE DEF places, m
<1>5. f \in [1 .. m -> boxes]
  BY <1>1, <1>3
<1>6. ASSUME NEW i \in boxes PROVE \E n \in 1 .. m : f[n] = i
  <2>1. PICK j \in 1 .. Len(p) : p[j] = i
    BY <1>1
  <2>2. PICK n \in 1 .. m : places[n] = j
    BY <1>3
  <2> QED BY <2>1, <2>2
<1>7. ASSUME NEW a \in 1 .. m, NEW b \in 1 .. m, a < b
      PROVE  lines[f[a]].left < lines[f[b]].left
  <2> DEFINE x == places[a]
             y == places[b]
  <2>1. x \in 1 .. Len(p) /\ y \in 1 .. Len(p) /\ <<x, y>> \in order
    BY <1>3, <1>7
  <2>2. f[a] = p[x] /\ f[b] = p[y]
    OBVIOUS
  <2> HIDE DEF x, y, f
  <2>3. \/ group[x].left < group[y].left
        \/ group[x].left = group[y].left /\ x < y
    BY <2>1 DEF LeftToRight
  <2>4. group[x] = lines[p[x]] /\ group[y] = lines[p[y]] /\ p[x] \in boxes /\ p[y] \in boxes
    BY <1>1, <2>1
  <2>5. group[x].left = group[y].left => p[x] = p[y]
    <3>1. \A i, j \in boxes : i # j => lines[i].left # lines[j].left
      BY <1>1
    <3>2. p[x] # p[y] => lines[p[x]].left # lines[p[y]].left
      BY <2>4, <3>1, Zenon
    <3> QED BY <2>4, <3>2
  <2>6. x < y => x # y
    BY <1>1, <2>1
  <2>7. ~(group[x].left = group[y].left /\ x < y)
    BY <1>1, <2>1, <2>5, <2>6
  <2> QED BY <2>2, <2>3, <2>4, <2>7
<1>8. MergeGroup(group).text = [n \in 1 .. m |-> lines[f[n]].token]
  <2>1. \A n \in 1 .. m : group[places[n]].token = lines[f[n]].token
    BY <1>1, <1>3
  <2> HIDE DEF f
  <2> QED BY <1>4, <2>1
<1> HIDE DEF f
<1>9. /\ f \in [1 .. m -> boxes]
      /\ \A i \in boxes : \E n \in 1 .. m : f[n] = i
      /\ \A k, n \in 1 .. m : k < n => lines[f[k]].left < lines[f[n]].left
  BY <1>5, <1>6, <1>7
<1> SUFFICES \E h \in [1 .. m -> boxes] :
              /\ \A i \in boxes : \E n \in 1 .. m : h[n] = i
              /\ \A k, n \in 1 .. m : k < n => lines[h[k]].left < lines[h[n]].left
              /\ MergeGroup(group).text = [n \in 1 .. m |-> lines[h[n]].token]
  BY <1>3, Zenon DEF ReadsRow
<1> QED BY <1>8, <1>9, Zenon

\* The rows that _group_lines makes are those the boxes lie in.
LEMMA RowsRecovered ==
  ASSUME NEW lines, NEW kept, NEW row, NEW R, InRows(lines, kept, row, R)
  PROVE  LET found == GroupLines(InReadingOrder(lines, kept))
         IN  /\ DOMAIN found = 1 .. R
             /\ \A r \in 1 .. R : ReadsRow(lines, {i \in kept : row[i] = r}, found[r].text)
<1> DEFINE ordered == InReadingOrder(lines, kept)
           N == Cardinality(kept)
           found == GroupLines(ordered)
<1>1. /\ kept \subseteq Nat /\ IsFiniteSet(kept) /\ \A i \in kept : lines[i] \in OcrLines
      /\ R \in Nat /\ row \in [kept -> 1 .. R]
  BY DEF InRows
<1>2. N \in Nat /\ Len(ordered) = N
  BY <1>1, ReadInOrder, FS_CardinalityType
<1>3. PICK at : RowByRow(kept, row, R, at, N) /\ ordered = [n \in 1 .. N |-> lines[at[n]]]
  BY ReadRowByRow
<1>4. PICK rows : /\ GroupingSteps(ordered, N, rows)
                  /\ found = [i \in DOMAIN rows[N] |-> MergeGroup(rows[N][i])]
  BY <1>2, GroupingIs
<1> HIDE DEF N, ordered, found
<1>5. /\ at \in [1 .. N -> kept] /\ N \in Nat
      /\ \A i \in kept : \E n \in 1 .. N : at[n] = i
      /\ \A n \in 1 .. N : n # N => row[at[n + 1]] \in {row[at[n]], row[at[n]] + 1}
      /\ N # 0 => row[at[1]] = 1 /\ row[at[N]] = R
      /\ N = 0 => R = 0
  BY <1>3 DEF RowByRow
<1>6. rows[0] = <<>> /\ \A n \in 1 .. N : rows[n] = AddToRows(rows[n - 1], lines[at[n]])
  BY <1>3, <1>4 DEF GroupingSteps
<1>7. \A m, n \in 1 .. N : at[m] = at[n] => m = n
  <2>1. IsFiniteSet(1 .. N) /\ Cardinality(1 .. N) = N
    BY <1>5, FS_Interval
  <2>2. at \in Surjection(1 .. N, kept)
    BY <1>5 DEF Surjection
  <2>3. at \in Injection(1 .. N, kept)
    BY <2>1, <2>2, FS_Surjection DEF N
  <2> QED BY <2>3 DEF Injection, IsInjective
<1> DEFINE last(n) == IF n = 0 THEN 0 ELSE row[at[n]]
           G == {n \in 0 .. N : \E g : /\ Collected(lines, kept, row, at, n, rows[n], g)
                                       /\ Len(g) = last(n)}
<1>8. 0 \in G
  <2>1. <<>> \in Seq(Groups) /\ <<>> \in Seq(Seq(kept)) /\ Len(<<>>) = 0
    OBVIOUS
  <2>2. Collected(lines, kept, row, at, 0, <<>>, <<>>)
    BY <2>1 DEF Collected
  <2>3. 0 \in 0 .. N
    BY <1>5
  <2> QED BY <1>6, <2>1, <2>2, <2>3
<1>9. ASSUME NEW n \in 0 .. N, n # N, n \in G PROVE n + 1 \in G
  <2>1. /\ n \in Nat /\ n + 1 \in 1 .. N /\ n + 1 \in 0 .. N /\ n + 1 # 0 /\ (n + 1) - 1 = n
        /\ \A m \in 1 .. n + 1 : m \in 1 .. N
        /\ \A m \in 1 .. n : m \in 1 .. N /\ m # n + 1
        /\ N # 0
    BY <1>5, <1>9
  <2>2. PICK g : Collected(lines, kept, row, at, n, rows[n], g) /\ Len(g) = last(n)
    BY <1>9
  <2>3. /\ \A m \in 1 .. n + 1 : at[m] \in kept
        /\ \A m \in 1 .. n : at[m] # at[n + 1]
    BY <1>5, <1>7, <2>1
  <2>4. \/ Len(g) # 0 /\ row[at[n + 1]] = Len(g)
        \/ row[at[n + 1]] = Len(g) + 1
    <3>1. CASE n = 0
      BY <1>5, <2>1, <2>2, <3>1
    <3>2. CASE n # 0
      <4>1. n \in 1 .. N
        BY <1>9, <3>2
      <4>2. row[at[n + 1]] \in {row[at[n]], row[at[n]] + 1} /\ row[at[n]] \in 1 .. R
        BY <1>1, <1>5, <1>9, <4>1
      <4>3. Len(g) = row[at[n]]
        BY <2>2, <3>2
      <4>4. row[at[n]] # 0
        BY <1>1, <4>2
      <4> QED BY <4>2, <4>3, <4>4
    <3> QED BY <3>1, <3>2
  <2>5. PICK h : /\ Collected(lines, kept, row, at, n + 1, AddToRows(rows[n], lines[at[n + 1]]), h)
                 /\ Len(h) = row[at[n + 1]]
    BY <2>1, <2>2, <2>3, <2>4, CollectOne
  <2>6. rows[n + 1] = AddToRows(rows[n], lines[at[n + 1]])
    BY <1>6, <2>1
  <2>7. Len(h) = last(n + 1)
    BY <2>1, <2>5
  <2> QED BY <2>1, <2>5, <2>6, <2>7
<1>10. PICK g : Collected(lines, kept, row, at, N, rows[N], g) /\ Len(g) = last(N)
  <2>1. 0 .. N \subseteq G
    <3> HIDE DEF G
    <3> QED BY <1>5, <1>8, <1>9, Reaches
  <2>2. N \in 0 .. N
    BY <1>5
  <2> QED BY <2>1, <2>2
<1>11. last(N) = R
  BY <1>5
<1> HIDE DEF last, G
<1> DEFINE groups == rows[N]
<1> HIDE DEF groups
<1>12. /\ groups \in Seq(Groups) /\ g \in Seq(Seq(kept)) /\ Len(g) = R /\ Len(groups) = R
       /\ found = [i \in 1 .. R |-> MergeGroup(groups[i])]
  <2>1. groups \in Seq(Groups) /\ g \in Seq(Seq(kept)) /\ Len(g) = R /\ Len(groups) = R
    BY <1>10, <1>11 DEF Collected, groups
  <2>2. DOMAIN groups = 1 .. R
    BY <2>1
  <2> QED BY <1>4, <2>1, <2>2 DEF groups
<1>13. ASSUME NEW r \in 1 .. R
       PROVE  ReadsRow(lines, {i \in kept : row[i] = r}, found[r].text)
  <2> DEFINE group == groups[r]
             p == g[r]
             boxes == {i \in kept : row[i] = r}
  <2>1. group \in Groups /\ p \in Seq(kept)
    BY <1>12
  <2>2. group \in Seq(OcrLines)
    BY <2>1 DEF Groups
  <2>3. /\ Len(group) = Len(p)
        /\ \A j \in 1 .. Len(p) : group[j] = lines[p[j]] /\ row[p[j]] = r
        /\ \A a, b \in 1 .. Len(p) : p[a] = p[b] => a = b
    BY <1>10, <1>12 DEF Collected, groups
  <2>4. \A j \in 1 .. Len(p) : p[j] \in boxes
    BY <2>1, <2>3
  <2>5. ASSUME NEW i \in boxes PROVE \E j \in 1 .. Len(p) : p[j] = i
    <3>1. i \in kept /\ row[i] = r
      OBVIOUS
    <3>2. PICK m \in 1 .. N : at[m] = i
      BY <1>5, <3>1
    <3>3. \E j \in 1 .. Len(g[row[at[m]]]) : g[row[at[m]]][j] = at[m]
      BY <1>10, <3>2 DEF Collected
    <3> QED BY <3>1, <3>2, <3>3
  <2>6. \A i, j \in boxes : i # j => lines[i].left # lines[j].left
    BY DEF InRows
  <2> HIDE DEF group, p, boxes
  <2>7. HoldsRow(lines, boxes, p, group)
    <3>1. p \in Seq(boxes)
      BY <2>1, <2>4
    <3> QED BY <2>2, <2>3, <2>5, <2>6, <3>1 DEF HoldsRow
  <2>8. found[r] = MergeGroup(group)
    BY <1>12 DEF group
  <2> QED BY <2>7, <2>8, MergedReads DEF boxes
<1>14. DOMAIN found = 1 .. R
  BY <1>12
<1> QED BY <1>13, <1>14 DEF found, ordered

-----------------------------------------------------------------------------
\* Numbers that go up through a set are the set, sorted.
LEMMA RisingIsRanked ==
  ASSUME NEW S, IsFiniteSet(S), S \subseteq Int, NEW m \in Nat, NEW f \in [1 .. m -> S],
         \A i \in S : \E n \in 1 .. m : f[n] = i,
         \A k, n \in 1 .. m : k < n => f[k] < f[n]
  PROVE  m = Cardinality(S) /\ f = Ranked(S, {e \in S \X S : e[1] < e[2]})
<1> DEFINE order == {e \in S \X S : e[1] < e[2]}
<1>1. IsOrder(S, order)
  BY NumbersInOrder
<1>2. \A k, n \in 1 .. m : k < n => <<f[k], f[n]>> \in order
  OBVIOUS
<1> HIDE DEF order
<1>3. GoesThrough(S, order, m, f)
  BY <1>2 DEF GoesThrough
<1>4. m = Cardinality(S) /\ f = Ranked(S, order)
  BY <1>1, <1>3, RankedUnique
<1> QED BY <1>4 DEF order

\* The text of a row whose boxes stand in columns: nothing is missing, or one is.
InColumns(lines, boxes, col, L) ==
  /\ L \in Nat /\ col \in [boxes -> 1 .. L]
  /\ \A i, j \in boxes : /\ col[i] = col[j] => i = j
                         /\ lines[i].left \in Nat
                         /\ col[i] < col[j] => lines[i].left < lines[j].left

\* It is then the text of all columns, or of all but one.
LEMMA RowText ==
  ASSUME NEW lines, NEW boxes, NEW text, ReadsRow(lines, boxes, text),
         NEW col, NEW L, InColumns(lines, boxes, col, L)
  PROVE  /\ (\A c \in 1 .. L : \E i \in boxes : col[i] = c) =>
              /\ text = [c \in 1 .. L |-> text[c]]
              /\ \A i \in boxes : text[col[i]] = lines[i].token
         /\ \A d \in 1 .. L :
              /\ \A c \in 1 .. L : c # d => \E i \in boxes : col[i] = c
              /\ \A i \in boxes : col[i] # d
              => text = [c \in 1 .. (L - 1) |-> text[c]]
<1>1. /\ L \in Nat /\ col \in [boxes -> 1 .. L]
      /\ \A i, j \in boxes : /\ col[i] = col[j] => i = j
                             /\ lines[i].left \in Nat
                             /\ col[i] < col[j] => lines[i].left < lines[j].left
  BY DEF InColumns
<1>2. PICK m \in Nat : \E f \in [1 .. m -> boxes] :
        /\ \A i \in boxes : \E n \in 1 .. m : f[n] = i
        /\ \A k, n \in 1 .. m : k < n => lines[f[k]].left < lines[f[n]].left
        /\ text = [n \in 1 .. m |-> lines[f[n]].token]
  BY DEF ReadsRow
<1>10. PICK f \in [1 .. m -> boxes] :
        /\ \A i \in boxes : \E n \in 1 .. m : f[n] = i
        /\ \A k, n \in 1 .. m : k < n => lines[f[k]].left < lines[f[n]].left
        /\ text = [n \in 1 .. m |-> lines[f[n]].token]
  BY <1>2
<1> DEFINE S == {col[i] : i \in boxes}
           h == [n \in 1 .. m |-> col[f[n]]]
<1>3. IsFiniteSet(1 .. L) /\ Cardinality(1 .. L) = L /\ S \subseteq 1 .. L
  BY <1>1, FS_Interval
<1>4. IsFiniteSet(S) /\ S \subseteq Int
  <2> HIDE DEF S
  <2>1. IsFiniteSet(S)
    BY <1>3, FS_Subset
  <2>2. \A c \in 1 .. L : c \in Int
    OBVIOUS
  <2> QED BY <1>3, <2>1, <2>2
<1>5. h \in [1 .. m -> S] /\ \A s \in S : \E n \in 1 .. m : h[n] = s
  BY <1>10
<1>6. ASSUME NEW k \in 1 .. m, NEW n \in 1 .. m, k < n PROVE h[k] < h[n]
  <2>1. f[k] \in boxes /\ f[n] \in boxes
    BY <1>10
  <2>2. lines[f[k]].left < lines[f[n]].left
    BY <1>10, <1>6
  <2>3. /\ lines[f[k]].left \in Nat /\ lines[f[n]].left \in Nat
        /\ col[f[k]] \in 1 .. L /\ col[f[n]] \in 1 .. L
    BY <1>1, <2>1
  <2>4. col[f[n]] # col[f[k]]
    BY <1>1, <2>1, <2>2, <2>3
  <2>5. ~(col[f[n]] < col[f[k]])
    BY <1>1, <2>1, <2>2, <2>3
  <2> QED BY <1>1, <2>3, <2>4, <2>5
<1> HIDE DEF S, h
<1>7. m = Cardinality(S) /\ h = Ranked(S, {e \in S \X S : e[1] < e[2]})
  BY <1>4, <1>5, <1>6, RisingIsRanked
<1>8. ASSUME \A c \in 1 .. L : \E i \in boxes : col[i] = c
      PROVE  /\ text = [c \in 1 .. L |-> text[c]]
             /\ \A i \in boxes : text[col[i]] = lines[i].token
  <2>1. S = 1 .. L
    BY <1>3, <1>8 DEF S
  <2>2. m = L
    BY <1>3, <1>7, <2>1
  <2> DEFINE id == [c \in 1 .. L |-> c]
  <2>3. /\ id \in [1 .. L -> 1 .. L]
        /\ \A i \in 1 .. L : \E n \in 1 .. L : id[n] = i
        /\ \A k, n \in 1 .. L : k < n => id[k] < id[n]
    OBVIOUS
  <2> HIDE DEF id
  <2>4. id = Ranked(S, {e \in S \X S : e[1] < e[2]})
    BY <1>1, <1>4, <2>1, <2>3, RisingIsRanked, ZenonT(30)
  <2>5. h = id
    BY <1>7, <2>4
  <2>6. \A c \in 1 .. L : h[c] = c
    BY <2>5 DEF id
  <2>7. text = [c \in 1 .. L |-> text[c]]
    BY <1>10, <2>2
  <2>8. ASSUME NEW i \in boxes PROVE text[col[i]] = lines[i].token
    <3>1. col[i] \in 1 .. L /\ h[col[i]] = col[i]
      BY <1>1, <2>6
    <3>2. col[f[col[i]]] = col[i] /\ f[col[i]] \in boxes
      BY <1>10, <2>2, <3>1 DEF h
    <3>3. f[col[i]] = i
      BY <1>1, <3>2
    <3> QED BY <1>10, <2>2, <3>1, <3>3
  <2> QED BY <2>7, <2>8
<1>9. ASSUME NEW d \in 1 .. L,
             \A c \in 1 .. L : c # d => \E i \in boxes : col[i] = c,
             \A i \in boxes : col[i] # d
      PROVE  text = [c \in 1 .. (L - 1) |-> text[c]]
  <2>1. S = (1 .. L) \ {d}
    BY <1>3, <1>9 DEF S
  <2>2. Cardinality(S) = L - 1
    BY <1>3, <2>1, FS_RemoveElement
  <2>3. m = L - 1
    BY <1>7, <2>2
  <2> QED BY <1>10, <2>3
<1> QED BY <1>8, <1>9

-----------------------------------------------------------------------------
\* The same numbers, in another order and another unit.
Numbers(S, m, b) ==
  /\ m \in Nat /\ b \in [1 .. m -> S]
  /\ \A s \in S : \E j \in 1 .. m : b[j] = s
  /\ \A j, k \in 1 .. m : b[j] = b[k] => j = k

InUnits(S, m, b, v, unit, w) ==
  /\ unit \in Int /\ \A s \in S : v[s] \in Int
  /\ \A j \in 1 .. m : w[j] = v[b[j]] * unit

\* Numbered in another order, a sum is the same.
LEMMA SumReordered ==
  ASSUME NEW m, NEW S, NEW b, Numbers(S, m, b),
         NEW v, NEW unit, NEW w, InUnits(S, m, b, v, unit, w)
  PROVE  SumOver(w, 1 .. m) = SumOver(v, S) * unit
<1>0. /\ m \in Nat /\ b \in [1 .. m -> S]
      /\ \A s \in S : \E j \in 1 .. m : b[j] = s
      /\ \A j, k \in 1 .. m : b[j] = b[k] => j = k
      /\ unit \in Int /\ \A s \in S : v[s] \in Int
      /\ \A j \in 1 .. m : w[j] = v[b[j]] * unit
  BY DEF Numbers, InUnits
<1> DEFINE image(U) == {b[j] : j \in U}
           T == 1 .. m
<1>1. /\ IsFiniteSet(T) /\ \A U \in SUBSET T : IsFiniteSet(U)
  <2>1. IsFiniteSet(T)
    BY <1>0, FS_Interval
  <2> HIDE DEF T
  <2> QED BY <2>1, FS_Subset
<1>2. \A U \in SUBSET T : IsFiniteSet(image(U)) /\ image(U) \subseteq S
  <2> SUFFICES ASSUME NEW U \in SUBSET T PROVE IsFiniteSet(image(U)) /\ image(U) \subseteq S
    OBVIOUS
  <2>1. IsFiniteSet(U)
    BY <1>1
  <2> DEFINE g == [j \in U |-> b[j]]
  <2>2. g \in Surjection(U, image(U))
    BY <1>0 DEF Surjection
  <2> HIDE DEF g
  <2>3. IsFiniteSet(image(U))
    BY <2>1, <2>2, FS_Surjection
  <2>4. image(U) \subseteq S
    BY <1>0
  <2> QED BY <2>3, <2>4
<1>3. ASSUME NEW j \in T PROVE w[j] \in Int
  <2>1. b[j] \in S
    BY <1>0
  <2>2. v[b[j]] \in Int /\ w[j] = v[b[j]] * unit /\ unit \in Int
    BY <1>0, <2>1
  <2> QED BY <2>2
<1> DEFINE Bad == {U \in SUBSET T : SumOver(w, U) # SumOver(v, image(U)) * unit}
<1>4. Bad = {}
  <2> SUFFICES ASSUME Bad # {} PROVE FALSE
    OBVIOUS
  <2>1. PICK U \in Bad : \A V \in Bad : ~(V \subseteq U /\ V # U)
    <3>1. Bad \in SUBSET (SUBSET T) /\ Bad # {}
      OBVIOUS
    <3> HIDE DEF Bad, T
    <3> QED BY <1>1, <3>1, SmallestPart
  <2>2. U # {}
    <3> SUFFICES ASSUME U = {} PROVE FALSE
      OBVIOUS
    <3>1. image(U) = {}
      OBVIOUS
    <3>2. SumOver(w, U) = 0 /\ SumOver(v, image(U)) = 0
      BY <3>1, SumOfNone
    <3>3. SumOver(w, U) # SumOver(v, image(U)) * unit
      BY <2>1
    <3>4. 0 * unit = 0
      BY <1>0
    <3> HIDE DEF image
    <3> QED BY <3>2, <3>3, <3>4
  <2>3. PICK x \in U : TRUE
    BY <2>2
  <2> DEFINE V == U \ {x}
  <2>4. /\ x \in T /\ V \in SUBSET T /\ V \subseteq U /\ V # U /\ x \notin V /\ U = V \cup {x}
        /\ b[x] \in S
    BY <1>0, <2>1, <2>3
  <2>5. SumOver(w, V) = SumOver(v, image(V)) * unit
    BY <2>1, <2>4
  <2>6. image(U) = image(V) \cup {b[x]} /\ b[x] \notin image(V)
    BY <1>0, <2>1, <2>4
  <2>7. SumOver(w, U) = w[x] + SumOver(w, V)
    <3>1. IsFiniteSet(V) /\ \A y \in V \cup {x} : w[y] \in Int
      BY <1>1, <1>3, <2>4
    <3> HIDE DEF V
    <3> QED BY <2>4, <3>1, SumOfOneMore
  <2>8. /\ SumOver(v, image(U)) = v[b[x]] + SumOver(v, image(V))
        /\ SumOver(v, image(V)) \in Int /\ v[b[x]] \in Int
    <3> DEFINE B == image(V)
    <3>1. IsFiniteSet(B) /\ B \subseteq S
      BY <1>2, <2>4
    <3> HIDE DEF B
    <3>2. (\A y \in B \cup {b[x]} : v[y] \in Int) /\ \A y \in B : v[y] \in Int
      BY <1>0, <2>4, <3>1
    <3>3. SumOver(v, B \cup {b[x]}) = v[b[x]] + SumOver(v, B)
      BY <2>6, <3>1, <3>2, SumOfOneMore DEF B
    <3>4. SumOver(v, B) \in Int
      BY <3>1, <3>2, SumTyped
    <3> QED BY <1>0, <2>4, <2>6, <3>3, <3>4 DEF B
  <2>9. w[x] = v[b[x]] * unit
    BY <1>0, <2>4
  <2> DEFINE sw == SumOver(w, V)
             sv == SumOver(v, image(V))
             vx == v[b[x]]
             all == SumOver(v, image(U))
  <2>10. /\ sv \in Int /\ vx \in Int /\ sw = sv * unit /\ w[x] = vx * unit
         /\ all = vx + sv /\ SumOver(w, U) = w[x] + sw
    BY <2>5, <2>7, <2>8, <2>9
  <2> HIDE DEF sw, sv, vx, all
  <2>11. (vx + sv) * unit = vx * unit + sv * unit
    BY <1>0, <2>10
  <2>12. SumOver(w, U) = all * unit
    BY <2>10, <2>11
  <2> QED BY <2>1, <2>12 DEF all
<1>5. T \in SUBSET T /\ image(T) = S
  BY <1>0
<1>6. SumOver(w, T) = SumOver(v, image(T)) * unit
  BY <1>4, <1>5
<1> QED BY <1>5, <1>6

-----------------------------------------------------------------------------
\* What the rows of a paper say when at most the row called bad is not as printed.
ItemValue(item) ==
  [quantity |-> Joined(item.quantity), unit |-> Joined(item.unit) * 100,
   total |-> Joined(item.total) * 100]

SaysItem(row, item) ==
  IsItem(row) /\ ~IsSummary(row) /\ ItemOf(row) = ItemValue(item)

SaysFigure(row, label, amount) ==
  /\ IsSummary(row) /\ row.text[1].label = label
  /\ MoneyMinor(row.text[2].amount) = {Joined(amount) * 100}

ReadsPaper(paper, rows, bad) ==
  LET n == Len(paper.items)
  IN  /\ n \in Nat /\ DOMAIN rows = 1 .. (n + 4)
      /\ ~IsSummary(rows[1]) /\ ~IsItem(rows[1])
      /\ \A k \in 1 .. n :
           /\ ~IsSummary(rows[k + 1])
           /\ bad # k + 1 => SaysItem(rows[k + 1], paper.items[k])
           /\ IsItem(rows[k + 1]) /\ ~ItemOff(ItemOf(rows[k + 1])) =>
                ItemOf(rows[k + 1]) = ItemValue(paper.items[k])
      /\ ~IsItem(rows[n + 2]) /\ ~IsItem(rows[n + 3]) /\ ~IsItem(rows[n + 4])
      /\ bad # n + 2 => SaysFigure(rows[n + 2], "tax", paper.tax)
      /\ bad # n + 3 => SaysFigure(rows[n + 3], "discount", paper.discount)
      /\ bad # n + 4 => SaysFigure(rows[n + 4], "total", paper.total)
      /\ IsSummary(rows[n + 4]) =>
           \E v \in Nat : MoneyMinor(rows[n + 4].text[2].amount) = {v * 100}

\* The items that show, in the order of the rows.
ItemsShown(paper, rows) == {k \in 1 .. Len(paper.items) : IsItem(rows[k + 1])}

Enumerates(S, m, b) ==
  /\ m \in Nat /\ b \in [1 .. m -> S]
  /\ \A s \in S : \E j \in 1 .. m : b[j] = s
  /\ \A j, k \in 1 .. m : j < k => b[j] < b[k]

ItemsAre(items, rows, m, b) == items = [j \in 1 .. m |-> ItemOf(rows[b[j] + 1])]

\* The items found are those that show, as they are printed.
LEMMA ItemsFound ==
  ASSUME NEW paper, NEW rows, NEW bad, ReadsPaper(paper, rows, bad)
  PROVE  \E m, b : /\ Enumerates(ItemsShown(paper, rows), m, b)
                   /\ ItemsOf(rows) = [j \in 1 .. m |-> ItemOf(rows[b[j] + 1])]
<1> DEFINE n == Len(paper.items)
           shown == ItemsShown(paper, rows)
           itemRows == {i \in DOMAIN rows : IsItem(rows[i])}
           order == {e \in itemRows \X itemRows : e[1] < e[2]}
           places == Ranked(itemRows, order)
           m == Cardinality(itemRows)
           b == [j \in 1 .. m |-> places[j] - 1]
<1>1. /\ n \in Nat /\ DOMAIN rows = 1 .. (n + 4) /\ ~IsItem(rows[1])
      /\ ~IsItem(rows[n + 2]) /\ ~IsItem(rows[n + 3]) /\ ~IsItem(rows[n + 4])
  BY DEF ReadsPaper
<1>2. ASSUME NEW i \in itemRows PROVE i - 1 \in shown /\ (i - 1) + 1 = i /\ i \in Int
  <2>1. i \in 1 .. (n + 4) /\ IsItem(rows[i])
    BY <1>1
  <2>2. i # 1 /\ i # n + 2 /\ i # n + 3 /\ i # n + 4
    BY <1>1, <2>1
  <2>3. i - 1 \in 1 .. n /\ (i - 1) + 1 = i
    BY <1>1, <2>1, <2>2
  <2> QED BY <2>1, <2>3 DEF ItemsShown
<1>3. ASSUME NEW k \in shown PROVE k + 1 \in itemRows /\ k \in Int
  <2>1. k \in 1 .. n /\ IsItem(rows[k + 1])
    BY DEF ItemsShown
  <2>2. k + 1 \in 1 .. (n + 4)
    BY <1>1, <2>1
  <2> QED BY <1>1, <2>1, <2>2
<1>4. IsFiniteSet(itemRows) /\ itemRows \subseteq Int
  <2>1. itemRows \subseteq 1 .. (n + 4) /\ IsFiniteSet(1 .. (n + 4))
    BY <1>1, FS_Interval
  <2> QED BY <1>2, <2>1, FS_Subset
<1>5. ItemsOf(rows) = [j \in DOMAIN places |-> ItemOf(rows[places[j]])]
  BY DEF ItemsOf
<1> HIDE DEF itemRows, n, shown
<1>6. \A i, j \in itemRows : <<i, j>> \in order <=> i < j
  OBVIOUS
<1>7. IsOrder(itemRows, order)
  BY <1>4, NumbersInOrder
<1> HIDE DEF order
<1>8. /\ m \in Nat /\ places \in [1 .. m -> itemRows]
      /\ \A i \in itemRows : \E j \in 1 .. m : places[j] = i
      /\ \A j, k \in 1 .. m : j < k => <<places[j], places[k]>> \in order
  BY <1>4, <1>7, RankedIs
<1> HIDE DEF places, m
<1>9. b \in [1 .. m -> shown] /\ \A j \in 1 .. m : b[j] + 1 = places[j]
  BY <1>2, <1>8
<1>10. \A s \in shown : \E j \in 1 .. m : b[j] = s
  <2> TAKE s \in shown
  <2>1. PICK j \in 1 .. m : places[j] = s + 1
    BY <1>3, <1>8
  <2>2. b[j] = s
    BY <1>3, <2>1
  <2> QED BY <2>2
<1>11. ASSUME NEW j \in 1 .. m, NEW k \in 1 .. m, j < k PROVE b[j] < b[k]
  <2>1. places[j] \in itemRows /\ places[k] \in itemRows /\ <<places[j], places[k]>> \in order
    BY <1>8, <1>11
  <2>2. places[j] < places[k] /\ places[j] \in Int /\ places[k] \in Int
    BY <1>2, <1>6, <2>1
  <2> QED BY <2>2
<1>12. ItemsOf(rows) = [j \in 1 .. m |-> ItemOf(rows[b[j] + 1])]
  BY <1>5, <1>8, <1>9
<1> HIDE DEF b
<1>13. Enumerates(shown, m, b)
  BY <1>8, <1>9, <1>10, <1>11 DEF Enumerates
<1> QED BY <1>12, <1>13 DEF shown

\* What they cost together.
Costs(rows, S, v) ==
  \A k \in S : k \in Int /\ v[k] \in Int /\ ItemOf(rows[k + 1]).total = v[k] * 100

\* Their price is a sum over the items that show.
LEMMA PriceFound ==
  ASSUME NEW rows, NEW m, NEW b, NEW S, Enumerates(S, m, b),
         NEW v, Costs(rows, S, v),
         NEW items, ItemsAre(items, rows, m, b)
  PROVE  ItemsPrice(items) = SumOver(v, S) * 100
<1> DEFINE w == [j \in DOMAIN items |-> items[j].total]
<1>1. /\ m \in Nat /\ b \in [1 .. m -> S]
      /\ \A s \in S : \E j \in 1 .. m : b[j] = s
      /\ \A j, k \in 1 .. m : j < k => b[j] < b[k]
      /\ \A k \in S : k \in Int /\ v[k] \in Int /\ ItemOf(rows[k + 1]).total = v[k] * 100
  BY DEF Enumerates, Costs
<1>2. DOMAIN w = 1 .. m /\ \A j \in 1 .. m : w[j] = v[b[j]] * 100
  <2>1. items = [j \in 1 .. m |-> ItemOf(rows[b[j] + 1])]
    BY DEF ItemsAre
  <2> QED BY <1>1, <2>1
<1>3. ASSUME NEW j \in 1 .. m PROVE w[j] \in Int
  <2>1. b[j] \in S
    BY <1>1
  <2>2. v[b[j]] \in Int /\ w[j] = v[b[j]] * 100
    BY <1>1, <1>2, <2>1
  <2> QED BY <2>2
<1>4. ItemsPrice(items) = SumFunction(w)
  BY DEF ItemsPrice
<1> HIDE DEF w
<1>5. IsFiniteSet(1 .. m)
  BY <1>1, FS_Interval
<1>6. SumFunction(w) = SumOver(w, 1 .. m)
  BY <1>2, <1>3, <1>5, SumFunctionIs
<1>7. \A j, k \in 1 .. m : b[j] = b[k] => j = k
  <2> SUFFICES ASSUME NEW j \in 1 .. m, NEW k \in 1 .. m, b[j] = b[k], j # k PROVE FALSE
    OBVIOUS
  <2>1. j < k \/ k < j
    BY <1>1
  <2>2. b[j] \in Int /\ b[k] \in Int
    BY <1>1
  <2> QED BY <1>1, <2>1, <2>2
<1>8. SumOver(w, 1 .. m) = SumOver(v, S) * 100
  <2>1. Numbers(S, m, b)
    BY <1>1, <1>7 DEF Numbers
  <2>2. InUnits(S, m, b, v, 100, w)
    BY <1>1, <1>2 DEF InUnits
  <2> QED BY <2>1, <2>2, SumReordered
<1> QED BY <1>4, <1>6, <1>8

\* The last row with a label is the one that counts.
LEMMA FigureFound ==
  ASSUME NEW rows, NEW label, NEW r \in LabelRows(rows, label),
         LabelRows(rows, label) \subseteq Int, \A i \in LabelRows(rows, label) : i <= r
  PROVE  Labelled(rows, label) = MoneyMinor(rows[r].text[2].amount)
<1> DEFINE found == LabelRows(rows, label)
           lastRow == CHOOSE i \in found : \A j \in found : j <= i
<1>1. lastRow \in found /\ \A j \in found : j <= lastRow
  OBVIOUS
<1>2. Labelled(rows, label) =
        IF found = {} THEN {} ELSE MoneyMinor(rows[lastRow].text[2].amount)
  BY DEF Labelled
<1> HIDE DEF found, lastRow
<1>3. r \in found /\ found \subseteq Int /\ \A i \in found : i <= r
  BY DEF found
<1>4. lastRow = r
  BY <1>1, <1>3
<1> QED BY <1>2, <1>3, <1>4

\* What nobody has to review is then what the paper says: a missing item is missing
\* in the total, an altered figure does not add up.
LEMMA ExactWhenUnreviewed ==
  ASSUME NEW paper, PaperAdds(paper), NEW rows, NEW bad, ReadsPaper(paper, rows, bad),
         ~NeedsReview(rows, ItemsOf(rows), Labelled(rows, "subtotal"),
                      Amount(Labelled(rows, "tax")), Amount(Labelled(rows, "discount")),
                      Labelled(rows, "total"))
  PROVE  /\ ItemsOf(rows) = PrintedItems(paper)
         /\ Labelled(rows, "total") = {Joined(paper.total) * 100}
<1> DEFINE n == Len(paper.items)
           shown == ItemsShown(paper, rows)
           items == ItemsOf(rows)
           total == Labelled(rows, "total")
           v == [k \in 1 .. n |-> Joined(paper.items[k].total)]
           t == Joined(paper.tax)
           d == Joined(paper.discount)
           T == Joined(paper.total)
           sum == SumOver(v, 1 .. n)
           price == ItemsPrice(items)
<1>1. /\ n \in Nat /\ DOMAIN rows = 1 .. (n + 4)
      /\ ~IsSummary(rows[1])
      /\ \A k \in 1 .. n :
           /\ ~IsSummary(rows[k + 1])
           /\ bad # k + 1 => SaysItem(rows[k + 1], paper.items[k])
           /\ IsItem(rows[k + 1]) /\ ~ItemOff(ItemOf(rows[k + 1])) =>
                ItemOf(rows[k + 1]) = ItemValue(paper.items[k])
      /\ bad # n + 2 => SaysFigure(rows[n + 2], "tax", paper.tax)
      /\ bad # n + 3 => SaysFigure(rows[n + 3], "discount", paper.discount)
      /\ bad # n + 4 => SaysFigure(rows[n + 4], "total", paper.total)
      /\ IsSummary(rows[n + 4]) =>
           \E u \in Nat : MoneyMinor(rows[n + 4].text[2].amount) = {u * 100}
  BY DEF ReadsPaper
<1>2. /\ DOMAIN paper.items = 1 .. n
      /\ \A k \in 1 .. n : Whole(paper.items[k].total) /\ Joined(paper.items[k].total) > 0
      /\ Whole(paper.tax) /\ Whole(paper.discount) /\ Whole(paper.total)
      /\ T = SumFunction(v) + t - d
  BY DEF PaperAdds
<1>3. /\ \A k \in 1 .. n : v[k] \in Nat /\ v[k] > 0
      /\ t \in Nat /\ d \in Nat /\ T \in Nat
  BY <1>2, MoneyTyped DEF Whole
<1>4. PICK m, b : /\ Enumerates(shown, m, b)
                  /\ items = [j \in 1 .. m |-> ItemOf(rows[b[j] + 1])]
  BY ItemsFound
<1>5. /\ \A i \in DOMAIN items : ~ItemOff(items[i])
      /\ total # {}
      /\ ~(Distance(Amount(total),
                    (IF Labelled(rows, "subtotal") = {} THEN price
                     ELSE Amount(Labelled(rows, "subtotal")))
                      + Amount(Labelled(rows, "tax")) - Amount(Labelled(rows, "discount")))
             > Tolerance)
  BY DEF NeedsReview
<1>6. shown \subseteq 1 .. n /\ \A k \in shown : IsItem(rows[k + 1])
  BY DEF ItemsShown
<1>7. \A k \in 1 .. n : IsItem(rows[k + 1]) => k \in shown
  BY DEF ItemsShown
<1>8. SumFunction(v) = sum
  <2>1. IsFiniteSet(1 .. n)
    BY <1>1, FS_Interval
  <2>2. DOMAIN v = 1 .. n
    OBVIOUS
  <2>3. \A k \in 1 .. n : v[k] \in Int
    BY <1>3, SMTT(30)
  <2> HIDE DEF v
  <2> QED BY <2>1, <2>2, <2>3, SumFunctionIs
<1> HIDE DEF n, shown, items, total, v, t, d, T, sum, price
<1>9. ASSUME NEW k \in shown PROVE ItemOf(rows[k + 1]) = ItemValue(paper.items[k])
  <2>1. PICK j \in 1 .. m : b[j] = k
    BY <1>4 DEF Enumerates
  <2>2. j \in DOMAIN items /\ items[j] = ItemOf(rows[k + 1])
    BY <1>4, <2>1
  <2>3. ~ItemOff(ItemOf(rows[k + 1]))
    BY <1>5, <2>2
  <2> QED BY <1>1, <1>6, <2>3
<1>10. ASSUME shown = 1 .. n PROVE items = PrintedItems(paper)
  <2> DEFINE id == [k \in 1 .. n |-> k]
             order == {e \in shown \X shown : e[1] < e[2]}
  <2>1. IsFiniteSet(1 .. n) /\ 1 .. n \subseteq Int
    <3>1. \A k \in 1 .. n : k \in Int
      OBVIOUS
    <3> QED BY <1>1, <3>1, FS_Interval
  <2>2. /\ id \in [1 .. n -> 1 .. n]
        /\ \A i \in 1 .. n : \E k \in 1 .. n : id[k] = i
        /\ \A j, k \in 1 .. n : j < k => id[j] < id[k]
    OBVIOUS
  <2> HIDE DEF id
  <2>3. n = Cardinality(shown) /\ id = Ranked(shown, order)
    BY <1>1, <1>10, <2>1, <2>2, RisingIsRanked
  <2>4. m \in Nat /\ m = Cardinality(shown) /\ b = Ranked(shown, order)
    BY <1>4, <1>10, <2>1, RisingIsRanked DEF Enumerates
  <2>5. m = n /\ \A k \in 1 .. n : b[k] = k
    BY <1>10, <2>1, <2>3, <2>4 DEF id
  <2>6. \A k \in 1 .. n : items[k] = ItemValue(paper.items[k])
    BY <1>4, <1>9, <1>10, <2>5
  <2>7. DOMAIN items = 1 .. n /\ items = [k \in 1 .. n |-> items[k]]
    BY <1>4, <2>5
  <2>8. PrintedItems(paper) = [k \in 1 .. n |-> ItemValue(paper.items[k])]
    BY <1>2 DEF PrintedItems, ItemValue
  <2> QED BY <2>6, <2>7, <2>8
<1>11. price = SumOver(v, shown) * 100
  <2>1. IsFiniteSet(shown) /\ shown \subseteq Int
    <3>1. IsFiniteSet(1 .. n) /\ \A k \in 1 .. n : k \in Int
      BY <1>1, FS_Interval
    <3> QED BY <1>6, <3>1, FS_Subset
  <2>2. ASSUME NEW k \in shown PROVE v[k] \in Int /\ ItemOf(rows[k + 1]).total = v[k] * 100
    <3>1. v[k] = Joined(paper.items[k].total) /\ v[k] \in Int
      BY <1>3, <1>6 DEF v
    <3>2. ItemValue(paper.items[k]).total = Joined(paper.items[k].total) * 100
      BY DEF ItemValue
    <3>3. ItemOf(rows[k + 1]) = ItemValue(paper.items[k])
      BY <1>9
    <3> QED BY <3>1, <3>2, <3>3
  <2>3. Costs(rows, shown, v)
    BY <2>1, <2>2 DEF Costs
  <2>4. ItemsPrice(items) = SumOver(v, shown) * 100
    <3>1. Enumerates(shown, m, b) /\ ItemsAre(items, rows, m, b)
      BY <1>4 DEF ItemsAre
    <3> QED BY <2>3, <3>1, PriceFound
  <2> QED BY <2>4 DEF price
\* the figures
<1>12. ASSUME NEW label, NEW i \in LabelRows(rows, label)
       PROVE  i \in {n + 2, n + 3, n + 4} /\ IsSummary(rows[i]) /\ rows[i].text[1].label = label
  <2>1. i \in 1 .. (n + 4) /\ IsSummary(rows[i]) /\ rows[i].text[1].label = label
    BY <1>1 DEF LabelRows
  <2>2. i # 1 /\ \A k \in 1 .. n : i # k + 1
    BY <1>1, <2>1
  <2>3. i \notin 1 .. (n + 1)
    <3> SUFFICES ASSUME i \in 1 .. (n + 1) PROVE FALSE
      OBVIOUS
    <3>1. i - 1 \in 1 .. n /\ i = (i - 1) + 1
      BY <1>1, <2>2
    <3> QED BY <2>2, <3>1
  <2> QED BY <1>1, <2>1, <2>3
<1>13. ASSUME NEW label, NEW amount, NEW r \in {n + 2, n + 3, n + 4},
              SaysFigure(rows[r], label, amount),
              \A i \in {n + 2, n + 3, n + 4} : i > r => i \notin LabelRows(rows, label)
       PROVE  Labelled(rows, label) = {Joined(amount) * 100}
  <2>1. r \in 1 .. (n + 4) /\ r \in Int
    BY <1>1
  <2>2. r \in LabelRows(rows, label)
    BY <1>1, <1>13, <2>1 DEF LabelRows, SaysFigure
  <2>3. LabelRows(rows, label) \subseteq Int
    BY <1>1, <1>12
  <2>4. \A i \in LabelRows(rows, label) : i <= r
    BY <1>1, <1>12, <1>13, <2>1
  <2>5. Labelled(rows, label) = MoneyMinor(rows[r].text[2].amount)
    BY <2>2, <2>3, <2>4, FigureFound
  <2> QED BY <1>13, <2>5 DEF SaysFigure
<1>14. n + 2 # n + 3 /\ n + 2 # n + 4 /\ n + 3 # n + 4 /\ n + 2 < n + 3 /\ n + 3 < n + 4
  BY <1>1
<1>15. bad # n + 4 => total = {T * 100}
  <2> SUFFICES ASSUME bad # n + 4 PROVE total = {T * 100}
    OBVIOUS
  <2>1. SaysFigure(rows[n + 4], "total", paper.total)
    BY <1>1
  <2>2. \A i \in {n + 2, n + 3, n + 4} : ~(i > n + 4)
    BY <1>1
  <2> QED BY <1>13, <2>1, <2>2 DEF total, T
<1>16. CASE bad \in {n + 2, n + 3}
  <2>1. \A k \in 1 .. n : bad # k + 1
    BY <1>1, <1>16
  <2>2. shown = 1 .. n
    BY <1>1, <1>6, <1>7, <2>1 DEF SaysItem
  <2> QED BY <1>10, <1>14, <1>15, <1>16, <2>2 DEF items, total, T
<1>17. CASE bad \notin {n + 2, n + 3}
  <2>1. SaysFigure(rows[n + 2], "tax", paper.tax) /\ SaysFigure(rows[n + 3], "discount", paper.discount)
    BY <1>1, <1>17
  <2>2. rows[n + 2].text[1].label = "tax" /\ rows[n + 3].text[1].label = "discount"
    BY <2>1 DEF SaysFigure
  <2>3. n + 4 \in LabelRows(rows, "total")
    <3>1. PICK i : i \in LabelRows(rows, "total")
      BY <1>5 DEF Labelled, total
    <3> QED BY <1>12, <2>2, <3>1
  <2>4. IsSummary(rows[n + 4]) /\ rows[n + 4].text[1].label = "total"
    BY <1>12, <2>3
  <2>5. Labelled(rows, "subtotal") = {}
    <3>1. LabelRows(rows, "subtotal") = {}
      BY <1>12, <2>2, <2>4
    <3> QED BY <3>1 DEF Labelled
  <2>6. Labelled(rows, "tax") = {t * 100}
    <3>1. \A i \in {n + 2, n + 3, n + 4} : i > n + 2 => i \notin LabelRows(rows, "tax")
      BY <1>12, <1>14, <2>2, <2>4
    <3> QED BY <1>13, <2>1, <3>1 DEF t
  <2>7. Labelled(rows, "discount") = {d * 100}
    <3>1. \A i \in {n + 2, n + 3, n + 4} : i > n + 3 => i \notin LabelRows(rows, "discount")
      BY <1>12, <1>14, <2>2, <2>4
    <3> QED BY <1>13, <2>1, <3>1 DEF d
  <2>8. PICK u \in Nat : total = {u * 100}
    <3>1. PICK u \in Nat : MoneyMinor(rows[n + 4].text[2].amount) = {u * 100}
      BY <1>1, <2>4
    <3>2. LabelRows(rows, "total") \subseteq Int /\ \A i \in LabelRows(rows, "total") : i <= n + 4
      BY <1>1, <1>12
    <3>3. total = MoneyMinor(rows[n + 4].text[2].amount)
      BY <2>3, <3>2, FigureFound DEF total
    <3> QED BY <3>1, <3>3
  <2>9. \A x : Amount({x}) = x
    BY DEF Amount
  <2>10. sum \in Int /\ SumOver(v, shown) \in Int
    <3>1. IsFiniteSet(1 .. n)
      BY <1>1, FS_Interval
    <3>2. IsFiniteSet(shown)
      BY <1>6, <3>1, FS_Subset
    <3>3. (\A k \in 1 .. n : v[k] \in Int) /\ \A k \in shown : v[k] \in Int
      BY <1>3, <1>6
    <3> QED BY <3>1, <3>2, <3>3, SumTyped DEF sum
  <2> DEFINE part == SumOver(v, shown)
  <2>11. ~(Distance(u * 100, part * 100 + t * 100 - d * 100) > 1)
    <3>1. ~(Distance(Amount(total), price + Amount(Labelled(rows, "tax"))
                                      - Amount(Labelled(rows, "discount"))) > Tolerance)
      BY <1>5, <2>5
    <3> QED BY <1>11, <2>6, <2>7, <2>8, <2>9, <3>1 DEF Tolerance
  <2>12. part \in Int
    BY <2>10
  <2> HIDE DEF part
  <2>13. u = part + t - d
    BY <1>3, <2>8, <2>11, <2>12 DEF Distance
  <2>14. shown = 1 .. n
    <3> SUFFICES ASSUME shown # 1 .. n PROVE FALSE
      OBVIOUS
    <3>1. PICK k \in 1 .. n : k \notin shown
      BY <1>6
    <3>2. bad = k + 1 /\ bad # n + 4
      BY <1>1, <1>7, <3>1 DEF SaysItem
    <3>3. u = T
      <4>1. {u * 100} = {T * 100}
        BY <1>15, <2>8, <3>2
      <4>2. u * 100 = T * 100
        BY <4>1
      <4> QED BY <1>3, <2>8, <4>2
    <3>4. \A j \in 1 .. n : j # k => j \in shown
      BY <1>1, <1>7, <3>2 DEF SaysItem
    <3>5. 1 .. n = shown \cup {k}
      BY <1>6, <3>4
    <3>6. sum = v[k] + part
      <4>1. IsFiniteSet(shown)
        <5>1. IsFiniteSet(1 .. n)
          BY <1>1, FS_Interval
        <5> QED BY <1>6, <5>1, FS_Subset
      <4>2. \A y \in shown \cup {k} : v[y] \in Int
        BY <1>3, <3>5
      <4> QED BY <3>1, <3>5, <4>1, <4>2, SumOfOneMore DEF sum, part
    <3> QED BY <1>2, <1>3, <1>8, <2>10, <2>12, <2>13, <3>3, <3>6, SMTT(30)
  <2>15. u = T
    BY <1>2, <1>8, <2>13, <2>14 DEF sum, part
  <2> QED BY <1>10, <2>8, <2>14, <2>15 DEF items, total, T
<1> QED BY <1>16, <1>17

-----------------------------------------------------------------------------
\* What a row says when its boxes are as printed, or one of them is not.
AsPrinted(text, printed, w) == text = [c \in 1 .. w |-> printed[c]]

Altered(text, printed, w) ==
  \/ text = [c \in 1 .. (w - 1) |-> text[c]]
  \/ \E d \in 1 .. w : \E x :
       /\ Whole(x.amount)
       /\ text = [c \in 1 .. w |-> IF c = d THEN x ELSE printed[c]]

\* A whole amount is a number of units.
LEMMA WholeMoney ==
  ASSUME NEW amount, Whole(amount)
  PROVE  MoneyMinor(amount) = {Joined(amount) * 100} /\ Joined(amount) \in Nat
<1>1. amount \in PrintedAmounts /\ amount.cents = <<>> /\ amount.groups <= 2
  BY DEF Whole
<1>2. MoneyMinor(amount) = {Joined(amount) * 100}
  BY <1>1 DEF MoneyMinor
<1> QED BY <1>1, <1>2, MoneyTyped

\* Equal products of the same positive number.
LEMMA Cancelled ==
  ASSUME NEW a \in Nat, NEW b \in Nat, NEW c \in Nat, c > 0, a * c = b * c
  PROVE  a = b
<1>1. ASSUME NEW x \in Nat, NEW y \in Nat, x < y PROVE x * c < y * c
  <2>1. (x + 1) * c <= y * c
    <3>1. x + 1 \in Nat /\ x + 1 <= y
      BY <1>1
    <3> QED BY <3>1, ProductsGrow
  <2>2. (x + 1) * c = x * c + c /\ x * c \in Nat /\ y * c \in Nat
    OBVIOUS
  <2> QED BY <2>1, <2>2
<1>2. a * c \in Nat /\ b * c \in Nat
  OBVIOUS
<1> QED BY <1>1, <1>2

\* In whole amounts the tolerance forgives nothing.
LEMMA PriceNotOff ==
  ASSUME NEW q \in Nat, NEW u \in Nat, NEW t \in Nat,
         ~ItemOff([quantity |-> q, unit |-> u * 100, total |-> t * 100])
  PROVE  q * u = t
<1> DEFINE x == q * u
<1>1. x \in Nat /\ q * (u * 100) = x * 100
  OBVIOUS
<1>2. ~(Distance(q * (u * 100), t * 100) > 1)
  BY DEF ItemOff, Tolerance
<1> HIDE DEF x
<1>3. ~(Distance(x * 100, t * 100) > 1)
  BY <1>1, <1>2
<1>4. x = t
  BY <1>1, <1>3 DEF Distance
<1> QED BY <1>4 DEF x

\* An item.
ItemAdds(item) ==
  /\ Whole(item.quantity) /\ Whole(item.unit) /\ Whole(item.total)
  /\ Joined(item.quantity) * Joined(item.unit) = Joined(item.total)
  /\ Joined(item.total) > 0

\* What is printed for it.
LEMMA PrintedItem ==
  ASSUME NEW item
  PROVE  /\ ItemRow(item)[1].is = "word"
         /\ ItemRow(item)[2].is = "times" /\ ItemRow(item)[2].amount = item.quantity
         /\ ItemRow(item)[3].is = "money" /\ ItemRow(item)[3].amount = item.unit
         /\ ItemRow(item)[4].is = "money" /\ ItemRow(item)[4].amount = item.total
         /\ DOMAIN ItemRow(item) = 1 .. 4
<1>1. /\ Word.is = "word"
      /\ \A a : Times(a).is = "times" /\ Times(a).amount = a
      /\ \A a : Money(a).is = "money" /\ Money(a).amount = a
  BY DEF Word, Times, Money
<1> HIDE DEF Word, Times, Money
<1>2. /\ ItemRow(item)[1] = Word /\ ItemRow(item)[2] = Times(item.quantity)
      /\ ItemRow(item)[3] = Money(item.unit) /\ ItemRow(item)[4] = Money(item.total)
  BY DEF ItemRow
<1>3. DOMAIN ItemRow(item) = 1 .. 4
  BY DEF ItemRow
<1> QED BY <1>1, <1>2, <1>3

\* A row of four texts.
LEMMA FourTexts ==
  ASSUME NEW row, NEW h, row.text = [c \in 1 .. 4 |-> h[c]],
         Whole(h[2].amount), Whole(h[3].amount), Whole(h[4].amount)
  PROVE  /\ ~IsSummary(row)
         /\ IsItem(row) <=> h[2].is = "times" /\ h[3].is = "money" /\ h[4].is = "money"
         /\ ItemOf(row) = [quantity |-> Joined(h[2].amount), unit |-> Joined(h[3].amount) * 100,
                           total |-> Joined(h[4].amount) * 100]
<1>1. Len(row.text) = 4
  BY LenOf
<1>2. \A c \in 1 .. 4 : row.text[c] = h[c]
  OBVIOUS
<1>3. row.text[2] = h[2] /\ row.text[3] = h[3] /\ row.text[4] = h[4]
  BY <1>2
<1>4. /\ (CHOOSE v \in MoneyMinor(h[3].amount) : TRUE) = Joined(h[3].amount) * 100
      /\ (CHOOSE v \in MoneyMinor(h[4].amount) : TRUE) = Joined(h[4].amount) * 100
  <2>1. /\ MoneyMinor(h[3].amount) = {Joined(h[3].amount) * 100}
        /\ MoneyMinor(h[4].amount) = {Joined(h[4].amount) * 100}
    BY WholeMoney
  <2> QED BY <2>1
<1>5. IsItem(row) <=> h[2].is = "times" /\ h[3].is = "money" /\ h[4].is = "money"
  BY <1>1, <1>3 DEF IsItem
<1>6. ~IsSummary(row)
  BY <1>1 DEF IsSummary
<1>7. ItemOf(row) = [quantity |-> Joined(h[2].amount), unit |-> Joined(h[3].amount) * 100,
                     total |-> Joined(h[4].amount) * 100]
  <2>1. 4 - 2 = 2 /\ 4 - 1 = 3
    OBVIOUS
  <2>2. ItemOf(row) = [quantity |-> Joined(row.text[4 - 2].amount),
                       unit |-> CHOOSE v \in MoneyMinor(row.text[4 - 1].amount) : TRUE,
                       total |-> CHOOSE v \in MoneyMinor(row.text[4].amount) : TRUE]
    BY <1>1 DEF ItemOf
  <2> QED BY <1>3, <1>4, <2>1, <2>2
<1> QED BY <1>5, <1>6, <1>7

\* An item as it is printed says what it is.
LEMMA ItemAsPrinted ==
  ASSUME NEW item, ItemAdds(item), NEW row, AsPrinted(row.text, ItemRow(item), 4)
  PROVE  SaysItem(row, item)
<1> DEFINE h == ItemRow(item)
<1>1. /\ h[2].is = "times" /\ h[3].is = "money" /\ h[4].is = "money"
      /\ h[2].amount = item.quantity /\ h[3].amount = item.unit /\ h[4].amount = item.total
  BY PrintedItem
<1> HIDE DEF h
<1>2. Whole(h[2].amount) /\ Whole(h[3].amount) /\ Whole(h[4].amount)
  BY <1>1 DEF ItemAdds
<1>3. row.text = [c \in 1 .. 4 |-> h[c]]
  BY DEF AsPrinted, h
<1>4. /\ ~IsSummary(row) /\ IsItem(row)
      /\ ItemOf(row) = [quantity |-> Joined(h[2].amount), unit |-> Joined(h[3].amount) * 100,
                        total |-> Joined(h[4].amount) * 100]
  BY <1>1, <1>2, <1>3, FourTexts
<1> QED BY <1>1, <1>4 DEF SaysItem, ItemValue

\* An item of which one text is altered is no item, or it does not add up, or it is
\* the same.
LEMMA ItemAltered ==
  ASSUME NEW item, ItemAdds(item), NEW row, Altered(row.text, ItemRow(item), 4)
  PROVE  /\ ~IsSummary(row)
         /\ IsItem(row) /\ ~ItemOff(ItemOf(row)) => ItemOf(row) = ItemValue(item)
<1> DEFINE p == ItemRow(item)
           q == Joined(item.quantity)
           u == Joined(item.unit)
           t == Joined(item.total)
<1>1. /\ p[2].amount = item.quantity /\ p[3].amount = item.unit /\ p[4].amount = item.total
  BY PrintedItem
<1> HIDE DEF p
<1>2. Whole(item.quantity) /\ Whole(item.unit) /\ Whole(item.total) /\ q * u = t /\ t > 0
  BY DEF ItemAdds
<1>3. q \in Nat /\ u \in Nat /\ t \in Nat
  BY <1>2, WholeMoney
<1>4. CASE row.text = [c \in 1 .. (4 - 1) |-> row.text[c]]
  <2>1. row.text = [c \in 1 .. 3 |-> row.text[c]]
    BY <1>4
  <2>2. Len(row.text) = 3
    BY <2>1, LenOf
  <2> QED BY <2>2 DEF IsItem, IsSummary
<1>5. ASSUME NEW d \in 1 .. 4, NEW x, Whole(x.amount),
             row.text = [c \in 1 .. 4 |-> IF c = d THEN x ELSE p[c]]
      PROVE  /\ ~IsSummary(row)
             /\ IsItem(row) /\ ~ItemOff(ItemOf(row)) => ItemOf(row) = ItemValue(item)
  <2> DEFINE h == [c \in 1 .. 4 |-> IF c = d THEN x ELSE p[c]]
             y == Joined(x.amount)
  <2>1. /\ h[2] = IF d = 2 THEN x ELSE p[2]
        /\ h[3] = IF d = 3 THEN x ELSE p[3]
        /\ h[4] = IF d = 4 THEN x ELSE p[4]
    OBVIOUS
  <2>2. row.text = [c \in 1 .. 4 |-> h[c]]
    BY <1>5
  <2> HIDE DEF h
  <2>3. Whole(h[2].amount) /\ Whole(h[3].amount) /\ Whole(h[4].amount)
    BY <1>1, <1>2, <1>5, <2>1
  <2>4. ~IsSummary(row)
    BY <2>2, <2>3, FourTexts
  <2>5. ItemOf(row) = [quantity |-> IF d = 2 THEN y ELSE q,
                       unit |-> (IF d = 3 THEN y ELSE u) * 100,
                       total |-> (IF d = 4 THEN y ELSE t) * 100]
    <3>1. ItemOf(row) = [quantity |-> Joined(h[2].amount), unit |-> Joined(h[3].amount) * 100,
                         total |-> Joined(h[4].amount) * 100]
      BY <2>2, <2>3, FourTexts
    <3>2. /\ Joined(h[2].amount) = IF d = 2 THEN y ELSE q
          /\ Joined(h[3].amount) = IF d = 3 THEN y ELSE u
          /\ Joined(h[4].amount) = IF d = 4 THEN y ELSE t
      BY <1>1, <2>1
    <3> QED BY <3>1, <3>2
  <2>6. y \in Nat
    BY <1>5, WholeMoney
  <2> HIDE DEF y
  <2>7. ASSUME ~ItemOff(ItemOf(row)) PROVE ItemOf(row) = [quantity |-> q, unit |-> u * 100, total |-> t * 100]
    <3>1. (IF d = 2 THEN y ELSE q) * (IF d = 3 THEN y ELSE u) = (IF d = 4 THEN y ELSE t)
      <4> DEFINE a == IF d = 2 THEN y ELSE q
                 b == IF d = 3 THEN y ELSE u
                 e == IF d = 4 THEN y ELSE t
      <4>1. a \in Nat /\ b \in Nat /\ e \in Nat
        BY <1>3, <2>6
      <4>2. ~ItemOff([quantity |-> a, unit |-> b * 100, total |-> e * 100])
        BY <2>5, <2>7
      <4> HIDE DEF a, b, e
      <4>3. a * b = e
        BY <4>1, <4>2, PriceNotOff
      <4> QED BY <4>3 DEF a, b, e
    <3>2. q > 0 /\ u > 0
      <4>1. q # 0 /\ u # 0
        <5>1. 0 * u = 0 /\ q * 0 = 0
          BY <1>3
        <5> QED BY <1>2, <5>1
      <4> QED BY <1>3, <4>1
    <3>3. CASE d = 2
      <4>1. y * u = q * u
        BY <1>2, <3>1, <3>3
      <4>2. y = q
        BY <1>3, <2>6, <3>2, <4>1, Cancelled
      <4> QED BY <2>5, <3>3, <4>2
    <3>4. CASE d = 3
      <4>1. q * y = q * u
        BY <1>2, <3>1, <3>4
      <4>2. y * q = u * q
        BY <1>3, <2>6, <4>1
      <4>3. y = u
        BY <1>3, <2>6, <3>2, <4>2, Cancelled
      <4> QED BY <2>5, <3>4, <4>3
    <3>5. CASE d = 4
      <4>1. y = t
        BY <1>2, <3>1, <3>5
      <4> QED BY <2>5, <3>5, <4>1
    <3>6. CASE d = 1
      BY <2>5, <3>6
    <3> QED BY <1>5, <3>3, <3>4, <3>5, <3>6
  <2> QED BY <2>4, <2>7 DEF ItemValue
<1> QED BY <1>4, <1>5 DEF Altered, p

\* A figure.
LEMMA FigureAsPrinted ==
  ASSUME NEW name, NEW amount, Whole(amount), NEW row,
         AsPrinted(row.text, <<Label(name), Money(amount)>>, 2)
  PROVE  SaysFigure(row, name, amount) /\ ~IsItem(row)
<1> DEFINE h == <<Label(name), Money(amount)>>
<1>1. /\ h[1].is = "label" /\ h[1].label = name
      /\ h[2].is = "money" /\ h[2].amount = amount
  BY DEF Label, Money, Word
<1> HIDE DEF h
<1>2. row.text = [c \in 1 .. 2 |-> h[c]]
  BY DEF AsPrinted, h
<1>3. Len(row.text) = 2 /\ row.text[1] = h[1] /\ row.text[2] = h[2]
  BY <1>2, LenOf
<1>4. MoneyMinor(amount) = {Joined(amount) * 100}
  BY WholeMoney
<1> QED BY <1>1, <1>3, <1>4 DEF SaysFigure, IsSummary, IsItem

\* A figure of which one text is altered is no item, and whole if it is a figure.
LEMMA FigureAltered ==
  ASSUME NEW name, NEW amount, Whole(amount), NEW row,
         Altered(row.text, <<Label(name), Money(amount)>>, 2)
  PROVE  /\ ~IsItem(row)
         /\ IsSummary(row) => \E v \in Nat : MoneyMinor(row.text[2].amount) = {v * 100}
<1> DEFINE p == <<Label(name), Money(amount)>>
<1>1. p[2].amount = amount
  BY DEF Money, Word
<1> HIDE DEF p
<1>2. CASE row.text = [c \in 1 .. (2 - 1) |-> row.text[c]]
  <2>1. row.text = [c \in 1 .. 1 |-> row.text[c]]
    BY <1>2
  <2>2. Len(row.text) = 1
    BY <2>1, LenOf
  <2> QED BY <2>2 DEF IsItem, IsSummary
<1>3. ASSUME NEW d \in 1 .. 2, NEW x, Whole(x.amount),
             row.text = [c \in 1 .. 2 |-> IF c = d THEN x ELSE p[c]]
      PROVE  ~IsItem(row) /\ \E v \in Nat : MoneyMinor(row.text[2].amount) = {v * 100}
  <2> DEFINE h == [c \in 1 .. 2 |-> IF c = d THEN x ELSE p[c]]
  <2>1. h[2] = IF d = 2 THEN x ELSE p[2]
    OBVIOUS
  <2>2. row.text = [c \in 1 .. 2 |-> h[c]]
    BY <1>3
  <2> HIDE DEF h
  <2>3. Len(row.text) = 2 /\ row.text[2] = h[2]
    BY <2>2, LenOf
  <2>4. Whole(row.text[2].amount)
    BY <1>1, <1>3, <2>1, <2>3
  <2> QED BY <2>3, <2>4, WholeMoney DEF IsItem
<1> QED BY <1>2, <1>3 DEF Altered, p

-----------------------------------------------------------------------------
\* What is printed where.
Width(n, r) == IF r = 1 THEN 1 ELSE IF r <= n + 1 THEN 4 ELSE 2

\* The rows of a paper.
LEMMA PrintedPaper ==
  ASSUME NEW paper, PaperAdds(paper)
  PROVE  LET n == Len(paper.items)
             printed == PrintedRows(paper)
         IN  /\ n \in Nat /\ DOMAIN printed = 1 .. (n + 4)
             /\ printed[1] = <<Word>>
             /\ \A k \in 1 .. n : printed[k + 1] = ItemRow(paper.items[k])
             /\ printed[n + 2] = <<Label("tax"), Money(paper.tax)>>
             /\ printed[n + 3] = <<Label("discount"), Money(paper.discount)>>
             /\ printed[n + 4] = <<Label("total"), Money(paper.total)>>
<1> DEFINE n == Len(paper.items)
           printed == PrintedRows(paper)
           row(r) == IF r = 1 THEN <<Word>>
                     ELSE IF r <= n + 1 THEN ItemRow(paper.items[r - 1])
                     ELSE IF r = n + 2 THEN <<Label("tax"), Money(paper.tax)>>
                     ELSE IF r = n + 3 THEN <<Label("discount"), Money(paper.discount)>>
                     ELSE <<Label("total"), Money(paper.total)>>
<1>1. n \in Nat
  BY DEF PaperAdds
<1>2. printed = [r \in 1 .. (n + 4) |-> row(r)]
  BY DEF PrintedRows
<1> HIDE DEF printed, row
<1>3. DOMAIN printed = 1 .. (n + 4) /\ \A r \in 1 .. (n + 4) : printed[r] = row(r)
  BY <1>2
<1> HIDE DEF n
<1>4. /\ 1 \in 1 .. (n + 4) /\ n + 2 \in 1 .. (n + 4) /\ n + 3 \in 1 .. (n + 4)
      /\ n + 4 \in 1 .. (n + 4)
      /\ \A k \in 1 .. n : /\ k + 1 \in 1 .. (n + 4) /\ k + 1 # 1 /\ k + 1 <= n + 1
                           /\ (k + 1) - 1 = k
  BY <1>1
<1>5. row(1) = <<Word>> /\ \A k \in 1 .. n : row(k + 1) = ItemRow(paper.items[k])
  BY <1>4 DEF row
<1>6. row(n + 2) = <<Label("tax"), Money(paper.tax)>>
  <2>1. n + 2 # 1 /\ ~(n + 2 <= n + 1)
    BY <1>1
  <2> QED BY <2>1 DEF row
<1>7. row(n + 3) = <<Label("discount"), Money(paper.discount)>>
  <2>1. n + 3 # 1 /\ ~(n + 3 <= n + 1) /\ n + 3 # n + 2
    BY <1>1
  <2> QED BY <2>1 DEF row
<1>8. row(n + 4) = <<Label("total"), Money(paper.total)>>
  <2>1. n + 4 # 1 /\ ~(n + 4 <= n + 1) /\ n + 4 # n + 2 /\ n + 4 # n + 3
    BY <1>1
  <2> QED BY <2>1 DEF row
<1> QED BY <1>1, <1>3, <1>4, <1>5, <1>6, <1>7, <1>8 DEF n, printed

\* The rows of a paper, one by one.
LEMMA PaperRows ==
  ASSUME NEW n \in Nat, NEW r \in 1 .. (n + 4)
  PROVE  \/ r = 1
         \/ \E k \in 1 .. n : r = k + 1
         \/ r = n + 2 \/ r = n + 3 \/ r = n + 4
<1>1. CASE r <= n + 1 /\ r # 1
  <2>1. r - 1 \in 1 .. n /\ r = (r - 1) + 1
    BY <1>1
  <2> QED BY <2>1
<1> QED BY <1>1

\* No printed text is blank.
LEMMA PrintedTexts ==
  ASSUME NEW paper, PaperAdds(paper), NEW r \in 1 .. (Len(paper.items) + 4)
  PROVE  /\ Width(Len(paper.items), r) \in Nat
         /\ DOMAIN PrintedRows(paper)[r] = 1 .. Width(Len(paper.items), r)
         /\ \A c \in 1 .. Width(Len(paper.items), r) : PrintedRows(paper)[r][c].is # "blank"
<1> DEFINE n == Len(paper.items)
           text == PrintedRows(paper)[r]
<1>1. /\ n \in Nat
      /\ PrintedRows(paper)[1] = <<Word>>
      /\ \A k \in 1 .. n : PrintedRows(paper)[k + 1] = ItemRow(paper.items[k])
      /\ PrintedRows(paper)[n + 2] = <<Label("tax"), Money(paper.tax)>>
      /\ PrintedRows(paper)[n + 3] = <<Label("discount"), Money(paper.discount)>>
      /\ PrintedRows(paper)[n + 4] = <<Label("total"), Money(paper.total)>>
  BY PrintedPaper
<1>2. /\ Word.is = "word"
      /\ \A a : Money(a).is = "money" /\ Label(a).is = "label"
  BY DEF Word, Money, Label
<1>3. ASSUME r = 1
      PROVE  /\ Width(n, r) = 1 /\ DOMAIN text = 1 .. 1
             /\ \A c \in 1 .. 1 : text[c].is # "blank"
  <2>1. Width(n, r) = 1 /\ text = <<Word>>
    BY <1>1, <1>3 DEF Width
  <2>2. DOMAIN text = 1 .. 1 /\ \A c \in 1 .. 1 : text[c] = Word
    BY <2>1
  <2> QED BY <1>2, <2>1, <2>2
<1>4. ASSUME NEW k \in 1 .. n, r = k + 1
      PROVE  /\ Width(n, r) = 4 /\ DOMAIN text = 1 .. 4
             /\ \A c \in 1 .. 4 : text[c].is # "blank"
  <2>1. r # 1 /\ r <= n + 1
    BY <1>1, <1>4
  <2>2. Width(n, r) = 4
    BY <2>1 DEF Width
  <2>3. text = ItemRow(paper.items[k])
    BY <1>1, <1>4
  <2>4. DOMAIN text = 1 .. 4
    BY <2>3, PrintedItem
  <2>5. \A c \in 1 .. 4 : c = 1 \/ c = 2 \/ c = 3 \/ c = 4
    OBVIOUS
  <2>6. /\ text[1].is # "blank" /\ text[2].is # "blank"
        /\ text[3].is # "blank" /\ text[4].is # "blank"
    BY <2>3, PrintedItem
  <2> QED BY <2>2, <2>4, <2>5, <2>6
<1>5. ASSUME r = n + 2 \/ r = n + 3 \/ r = n + 4
      PROVE  /\ Width(n, r) = 2 /\ DOMAIN text = 1 .. 2
             /\ \A c \in 1 .. 2 : text[c].is # "blank"
  <2>1. r # 1 /\ ~(r <= n + 1)
    BY <1>1, <1>5
  <2>2. Width(n, r) = 2
    BY <2>1 DEF Width
  <2>3. PICK name, amount : text = <<Label(name), Money(amount)>>
    BY <1>1, <1>5
  <2> HIDE DEF text
  <2>5. DOMAIN text = 1 .. 2 /\ text[1] = Label(name) /\ text[2] = Money(amount)
    BY <2>3
  <2>4. \A c \in 1 .. 2 : c = 1 \/ c = 2
    OBVIOUS
  <2> QED BY <1>2, <2>2, <2>4, <2>5
<1>6. r = 1 \/ (\E k \in 1 .. n : r = k + 1) \/ r = n + 2 \/ r = n + 3 \/ r = n + 4
  BY <1>1, PaperRows
<1> HIDE DEF n, text
<1>7. Width(n, r) \in {1, 2, 4}
  BY DEF Width
<1>8. /\ DOMAIN text = 1 .. Width(n, r)
      /\ \A c \in 1 .. Width(n, r) : text[c].is # "blank"
  <2>1. CASE \E k \in 1 .. n : r = k + 1
    BY <1>4, <2>1
  <2>2. CASE r = n + 2 \/ r = n + 3 \/ r = n + 4
    BY <1>5, <2>2
  <2> QED BY <1>3, <1>6, <2>1, <2>2
<1> QED BY <1>7, <1>8 DEF n, text

\* A box is a row and a place in it.
LEMMA BoxesAre ==
  ASSUME NEW paper, PaperAdds(paper)
  PROVE  LET n == Len(paper.items)
         IN  /\ \A box \in PrintedBoxes(paper) :
                   /\ box[1] \in 1 .. (n + 4) /\ box[2] \in 1 .. Width(n, box[1])
                   /\ box = <<box[1], box[2]>>
             /\ \A r \in 1 .. (n + 4) : \A c \in 1 .. Width(n, r) : <<r, c>> \in PrintedBoxes(paper)
<1> DEFINE n == Len(paper.items)
           printed == PrintedRows(paper)
<1>1. DOMAIN printed = 1 .. (n + 4)
  BY PrintedPaper
<1>2. \A r \in 1 .. (n + 4) : DOMAIN printed[r] = 1 .. Width(n, r)
  BY PrintedTexts
<1> HIDE DEF printed, n
<1>3. ASSUME NEW box \in PrintedBoxes(paper)
      PROVE  /\ box[1] \in 1 .. (n + 4) /\ box[2] \in 1 .. Width(n, box[1])
             /\ box = <<box[1], box[2]>>
  <2>1. box \in UNION {{r} \X DOMAIN printed[r] : r \in DOMAIN printed}
    BY DEF PrintedBoxes, printed
  <2>2. PICK r \in DOMAIN printed : box \in {r} \X DOMAIN printed[r]
    BY <2>1, Zenon
  <2>3. r \in 1 .. (n + 4) /\ box \in {r} \X (1 .. Width(n, r))
    BY <1>1, <1>2, <2>2
  <2> QED BY <2>3
<1>4. ASSUME NEW r \in 1 .. (n + 4), NEW c \in 1 .. Width(n, r)
      PROVE  <<r, c>> \in PrintedBoxes(paper)
  <2>1. r \in DOMAIN printed /\ <<r, c>> \in {r} \X DOMAIN printed[r]
    BY <1>1, <1>2
  <2>2. <<r, c>> \in UNION {{k} \X DOMAIN printed[k] : k \in DOMAIN printed}
    BY <2>1, Zenon
  <2> QED BY <2>2 DEF PrintedBoxes, printed
<1> QED BY <1>3, <1>4 DEF n

-----------------------------------------------------------------------------
\* An answer that reads a paper and misreads at most one box of it.
Legible(answer) ==
  /\ answer.lines \in Seq(OcrLines)
  /\ PaperAdds(answer.paper) /\ LaidOut(answer) /\ OneMisread(answer)

RowsOf(answer) == [i \in Recognised(answer) |-> answer.place[i][1]]

\* What an answer shows of the places of its boxes.
LEMMA PlacesAre ==
  ASSUME NEW answer, Legible(answer)
  PROVE  LET n == Len(answer.paper.items)
             lines == answer.lines
             place == answer.place
             kept == Recognised(answer)
         IN  /\ n \in Nat /\ kept \subseteq DOMAIN lines
             /\ kept \subseteq Nat /\ IsFiniteSet(kept)
             /\ \A i \in DOMAIN lines :
                  /\ lines[i] \in OcrLines
                  /\ place[i][1] \in 1 .. (n + 4)
                  /\ place[i][2] \in 1 .. Width(n, place[i][1])
                  /\ place[i] = <<place[i][1], place[i][2]>>
                  /\ i \notin kept => i \in Misread(answer)
                  /\ i \notin Misread(answer) =>
                       lines[i].token = PrintedRows(answer.paper)[place[i][1]][place[i][2]]
             /\ \A r \in 1 .. (n + 4) : \A c \in 1 .. Width(n, r) :
                  \E i \in DOMAIN lines : place[i] = <<r, c>>
<1> DEFINE n == Len(answer.paper.items)
           lines == answer.lines
           place == answer.place
           kept == Recognised(answer)
           printed == PrintedRows(answer.paper)
<1>1. lines \in Seq(OcrLines) /\ PaperAdds(answer.paper) /\ LaidOut(answer) /\ OneMisread(answer)
  BY DEF Legible
<1>2. /\ n \in Nat
      /\ \A box \in PrintedBoxes(answer.paper) :
           /\ box[1] \in 1 .. (n + 4) /\ box[2] \in 1 .. Width(n, box[1])
           /\ box = <<box[1], box[2]>>
      /\ \A r \in 1 .. (n + 4) : \A c \in 1 .. Width(n, r) :
           <<r, c>> \in PrintedBoxes(answer.paper)
  BY <1>1, BoxesAre, PrintedPaper
<1>3. \A r \in 1 .. (n + 4) : \A c \in 1 .. Width(n, r) : printed[r][c].is # "blank"
  BY <1>1, PrintedTexts
<1>4. /\ \A i \in DOMAIN lines : place[i] \in PrintedBoxes(answer.paper)
      /\ \A box \in PrintedBoxes(answer.paper) : \E i \in DOMAIN lines : place[i] = box
  BY <1>1 DEF LaidOut
<1>5. kept = {i \in DOMAIN lines : lines[i].token.is # "blank"}
  BY DEF Recognised
<1>6. Misread(answer) = {i \in DOMAIN lines : lines[i].token # printed[place[i][1]][place[i][2]]}
  BY DEF Misread
<1>7. DOMAIN lines = 1 .. Len(lines) /\ Len(lines) \in Int /\ \A i \in DOMAIN lines : lines[i] \in OcrLines
  BY <1>1
<1> HIDE DEF n, lines, place, kept, printed
<1>8. IsFiniteSet(DOMAIN lines) /\ DOMAIN lines \subseteq Nat
  BY <1>7, FS_Interval
<1>9. kept \subseteq DOMAIN lines /\ IsFiniteSet(kept)
  BY <1>5, <1>8, FS_Subset
<1>10. ASSUME NEW i \in DOMAIN lines
       PROVE  /\ lines[i] \in OcrLines
              /\ place[i][1] \in 1 .. (n + 4)
              /\ place[i][2] \in 1 .. Width(n, place[i][1])
              /\ place[i] = <<place[i][1], place[i][2]>>
              /\ i \notin kept => i \in Misread(answer)
              /\ i \notin Misread(answer) => lines[i].token = printed[place[i][1]][place[i][2]]
  <2>1. /\ place[i][1] \in 1 .. (n + 4) /\ place[i][2] \in 1 .. Width(n, place[i][1])
        /\ place[i] = <<place[i][1], place[i][2]>>
    BY <1>2, <1>4, Zenon
  <2>2. printed[place[i][1]][place[i][2]].is # "blank"
    BY <1>3, <2>1
  <2>3. i \notin kept => lines[i].token.is = "blank"
    BY <1>5
  <2>4. i \notin kept => lines[i].token # printed[place[i][1]][place[i][2]]
    BY <2>2, <2>3
  <2> QED BY <1>6, <1>7, <2>1, <2>4
<1>11. \A r \in 1 .. (n + 4) : \A c \in 1 .. Width(n, r) :
          \E i \in DOMAIN lines : place[i] = <<r, c>>
  BY <1>2, <1>4
<1> QED BY <1>2, <1>8, <1>9, <1>10, <1>11 DEF n, lines, place, kept, printed

\* Its boxes lie in the rows of the paper: something of every row is left.
LEMMA AnswerInRows ==
  ASSUME NEW answer, Legible(answer)
  PROVE  InRows(answer.lines, Recognised(answer), RowsOf(answer), Len(answer.paper.items) + 4)
<1> DEFINE n == Len(answer.paper.items)
           lines == answer.lines
           place == answer.place
           kept == Recognised(answer)
           row == RowsOf(answer)
<1>1. /\ n \in Nat /\ kept \subseteq DOMAIN lines
      /\ kept \subseteq Nat /\ IsFiniteSet(kept)
      /\ \A i \in DOMAIN lines : /\ lines[i] \in OcrLines
                                 /\ place[i][1] \in 1 .. (n + 4)
                                 /\ place[i] = <<place[i][1], place[i][2]>>
                                 /\ i \notin kept => i \in Misread(answer)
      /\ \A r \in 1 .. (n + 4) : \A c \in 1 .. Width(n, r) :
           \E i \in DOMAIN lines : place[i] = <<r, c>>
  BY PlacesAre
<1>2. /\ \A i, j \in Misread(answer) : i = j
      /\ \A i \in Misread(answer) : place[i][1] # 1
  BY DEF Legible, OneMisread
<1>3. \A i, j \in DOMAIN lines :
        /\ place[i][1] < place[j][1] => CenterY(lines[i]) + VerticalTolerance < CenterY(lines[j])
        /\ place[i][1] = place[j][1] =>
             /\ Distance(CenterY(lines[i]), CenterY(lines[j])) <= VerticalTolerance
             /\ place[i][2] < place[j][2] => lines[i].left < lines[j].left
        /\ place[i] = place[j] => i = j
  BY DEF Legible, LaidOut
<1>4. row = [i \in kept |-> place[i][1]]
  BY DEF RowsOf
<1>5. /\ \A i \in DOMAIN lines : place[i][2] \in 1 .. Width(n, place[i][1])
      /\ \A i \in DOMAIN lines : lines[i].left \in Nat
  <2>1. \A i \in DOMAIN lines : place[i][2] \in 1 .. Width(n, place[i][1])
    BY PlacesAre
  <2>2. \A i \in DOMAIN lines : lines[i].left \in Nat
    BY <1>1, BoxPlace
  <2> QED BY <2>1, <2>2
<1> HIDE DEF n, lines, place, kept, row
<1>6. ASSUME NEW r \in 1 .. (n + 4) PROVE \E i \in kept : row[i] = r
  <2>1. 1 \in 1 .. Width(n, r) /\ (r # 1 => 2 \in 1 .. Width(n, r))
    BY DEF Width
  <2>2. PICK i \in DOMAIN lines : place[i] = <<r, 1>>
    BY <1>1, <2>1
  <2>3. place[i][1] = r
    BY <2>2
  <2>4. CASE i \in kept
    BY <1>4, <2>3, <2>4
  <2>5. CASE i \notin kept
    <3>1. i \in Misread(answer) /\ r # 1
      BY <1>1, <1>2, <2>3, <2>5
    <3>2. PICK j \in DOMAIN lines : place[j] = <<r, 2>>
      BY <1>1, <2>1, <3>1
    <3>3. place[j][1] = r /\ j # i
      BY <2>2, <3>2
    <3>4. j \in kept
      BY <1>1, <1>2, <3>1, <3>3
    <3> QED BY <1>4, <3>3, <3>4
  <2> QED BY <2>4, <2>5
<1>7. ASSUME NEW i \in kept, NEW j \in kept
      PROVE  /\ row[i] < row[j] => CenterY(lines[i]) + VerticalTolerance < CenterY(lines[j])
             /\ row[i] = row[j] =>
                  /\ Distance(CenterY(lines[i]), CenterY(lines[j])) <= VerticalTolerance
                  /\ i # j => lines[i].left # lines[j].left
  <2>1. row[i] = place[i][1] /\ row[j] = place[j][1] /\ i \in DOMAIN lines /\ j \in DOMAIN lines
    BY <1>1, <1>4
  <2>2. ASSUME row[i] = row[j], i # j PROVE lines[i].left # lines[j].left
    <3>1. place[i] # place[j]
      BY <1>3, <2>1, <2>2
    <3>2. place[i][2] # place[j][2]
      <4>1. place[i] = <<place[i][1], place[i][2]>> /\ place[j] = <<place[j][1], place[j][2]>>
        BY <1>1, <2>1
      <4> QED BY <2>1, <2>2, <3>1, <4>1, Zenon
    <3>3. place[i][2] \in Int /\ place[j][2] \in Int
      BY <1>5, <2>1
    <3>4. place[i][2] < place[j][2] \/ place[j][2] < place[i][2]
      BY <3>2, <3>3
    <3>5. lines[i].left < lines[j].left \/ lines[j].left < lines[i].left
      BY <1>3, <2>1, <2>2, <3>4
    <3> QED BY <1>5, <2>1, <3>5
  <2> QED BY <1>3, <2>1, <2>2
<1>8. n + 4 \in Nat /\ row \in [kept -> 1 .. (n + 4)]
  BY <1>1, <1>4
<1>9. \A i \in kept : lines[i] \in OcrLines
  BY <1>1
<1>10. InRows(lines, kept, row, n + 4)
  BY <1>1, <1>6, <1>7, <1>8, <1>9 DEF InRows
<1> QED BY <1>10 DEF n, lines, kept, row

\* A row of an answer says what is printed, unless a box of it is misread.
LEMMA AnswerRow ==
  ASSUME NEW answer, Legible(answer), NEW r \in 1 .. (Len(answer.paper.items) + 4), NEW text,
         ReadsRow(answer.lines, {i \in Recognised(answer) : RowsOf(answer)[i] = r}, text)
  PROVE  LET printed == PrintedRows(answer.paper)[r]
             w == Width(Len(answer.paper.items), r)
         IN  /\ (\A i \in Misread(answer) : answer.place[i][1] # r) => AsPrinted(text, printed, w)
             /\ (\E i \in Misread(answer) : answer.place[i][1] = r) =>
                    r # 1 /\ Altered(text, printed, w)
<1> DEFINE n == Len(answer.paper.items)
           w == Width(n, r)
           lines == answer.lines
           place == answer.place
           kept == Recognised(answer)
           printed == PrintedRows(answer.paper)[r]
           boxes == {i \in kept : RowsOf(answer)[i] = r}
           col == [i \in boxes |-> place[i][2]]
<1>1. /\ n \in Nat /\ kept \subseteq DOMAIN lines
      /\ \A i \in DOMAIN lines : /\ lines[i] \in OcrLines
                                 /\ place[i][1] \in 1 .. (n + 4)
                                 /\ place[i][2] \in 1 .. Width(n, place[i][1])
                                 /\ place[i] = <<place[i][1], place[i][2]>>
                                 /\ i \notin kept => i \in Misread(answer)
      /\ \A c \in 1 .. w : \E i \in DOMAIN lines : place[i] = <<r, c>>
  BY PlacesAre
<1>2. \A i \in DOMAIN lines : i \notin Misread(answer) =>
        lines[i].token = PrintedRows(answer.paper)[place[i][1]][place[i][2]]
  BY PlacesAre
<1>3. /\ \A i, j \in Misread(answer) : i = j
      /\ \A i \in Misread(answer) : place[i][1] # 1 /\ Whole(lines[i].token.amount)
  BY DEF Legible, OneMisread
<1>4. \A i, j \in DOMAIN lines :
        /\ place[i][1] = place[j][1] /\ place[i][2] < place[j][2] => lines[i].left < lines[j].left
        /\ place[i] = place[j] => i = j
  BY DEF Legible, LaidOut
<1>5. boxes = {i \in kept : place[i][1] = r}
  BY DEF RowsOf
<1>6. w \in Nat
  BY PrintedTexts DEF Legible
<1>7. Misread(answer) \subseteq DOMAIN lines
  BY DEF Misread
<1> DEFINE misread == Misread(answer)
<1> HIDE DEF n, w, lines, place, kept, printed, boxes, misread
<1>8. \A i \in boxes : /\ i \in kept /\ i \in DOMAIN lines
                       /\ place[i][1] = r /\ place[i] = <<r, col[i]>> /\ col[i] \in 1 .. w
  <2>1. ASSUME NEW i \in boxes
        PROVE  /\ i \in kept /\ i \in DOMAIN lines
               /\ place[i][1] = r /\ place[i] = <<r, col[i]>> /\ col[i] \in 1 .. w
    <3>1. i \in kept /\ i \in DOMAIN lines /\ place[i][1] = r /\ col[i] = place[i][2]
      BY <1>1, <1>5
    <3>2. place[i][2] \in 1 .. w /\ place[i] = <<place[i][1], place[i][2]>>
      BY <1>1, <3>1 DEF w
    <3> QED BY <3>1, <3>2
  <2> QED BY <2>1
<1>9. InColumns(lines, boxes, col, w)
  <2>1. ASSUME NEW i \in boxes, NEW j \in boxes
        PROVE  /\ col[i] = col[j] => i = j
               /\ lines[i].left \in Nat
               /\ col[i] < col[j] => lines[i].left < lines[j].left
    <3>1. col[i] = place[i][2] /\ col[j] = place[j][2]
      OBVIOUS
    <3>2. lines[i].left \in Nat
      BY <1>1, <1>8, BoxPlace
    <3>3. col[i] = col[j] => place[i] = place[j]
      BY <1>8, Zenon
    <3> QED BY <1>4, <1>8, <3>1, <3>2, <3>3
  <2>2. col \in [boxes -> 1 .. w]
    BY <1>8
  <2> QED BY <1>6, <2>1, <2>2 DEF InColumns
<1>10. ReadsRow(lines, boxes, text)
  BY DEF lines, boxes, kept
<1>11. /\ (\A c \in 1 .. w : \E i \in boxes : col[i] = c) =>
              /\ text = [c \in 1 .. w |-> text[c]]
              /\ \A i \in boxes : text[col[i]] = lines[i].token
       /\ \A d \in 1 .. w :
              /\ \A c \in 1 .. w : c # d => \E i \in boxes : col[i] = c
              /\ \A i \in boxes : col[i] # d
              => text = [c \in 1 .. (w - 1) |-> text[c]]
  <2> HIDE DEF col
  <2> QED BY <1>9, <1>10, RowText
<1>12. ASSUME NEW i \in DOMAIN lines, NEW c \in 1 .. w, place[i] = <<r, c>>
       PROVE  /\ i \in kept => i \in boxes /\ col[i] = c
              /\ i \notin misread => i \in kept /\ lines[i].token = printed[c]
  <2>1. place[i][1] = r /\ place[i][2] = c
    BY <1>12
  <2>2. i \in kept => i \in boxes /\ col[i] = c
    BY <1>5, <2>1
  <2>3. i \notin misread => i \in kept /\ lines[i].token = printed[c]
    BY <1>1, <1>2, <2>1 DEF misread, printed
  <2> QED BY <2>2, <2>3
<1>13. ASSUME \A i \in misread : place[i][1] # r PROVE AsPrinted(text, printed, w)
  <2>1. ASSUME NEW c \in 1 .. w PROVE \E i \in boxes : col[i] = c /\ lines[i].token = printed[c]
    <3>1. PICK i \in DOMAIN lines : place[i] = <<r, c>>
      BY <1>1
    <3>2. i \notin misread
      BY <1>13, <3>1
    <3> QED BY <1>12, <3>1, <3>2
  <2> HIDE DEF col
  <2>2. \A c \in 1 .. w : text[c] = printed[c]
    BY <1>11, <2>1
  <2>3. text = [c \in 1 .. w |-> text[c]]
    BY <1>11, <2>1
  <2>4. [c \in 1 .. w |-> text[c]] = [c \in 1 .. w |-> printed[c]]
    BY <2>2
  <2> QED BY <2>3, <2>4, Zenon DEF AsPrinted
<1>14. ASSUME NEW k \in misread, place[k][1] = r PROVE r # 1 /\ Altered(text, printed, w)
  <2> DEFINE d == place[k][2]
  <2>1. k \in DOMAIN lines /\ d \in 1 .. w /\ place[k] = <<r, d>>
    <3>1. k \in DOMAIN lines
      BY <1>7 DEF misread
    <3>2. d \in 1 .. Width(n, r) /\ place[k] = <<place[k][1], d>>
      BY <1>1, <1>14, <3>1
    <3> QED BY <1>14, <3>1, <3>2 DEF w
  <2>2. r # 1 /\ Whole(lines[k].token.amount)
    BY <1>3, <1>14 DEF misread
  <2> HIDE DEF d
  <2>3. ASSUME NEW c \in 1 .. w, c # d
        PROVE  \E i \in boxes : col[i] = c /\ lines[i].token = printed[c]
    <3>1. PICK i \in DOMAIN lines : place[i] = <<r, c>>
      BY <1>1
    <3>2. i # k
      BY <2>1, <2>3, <3>1
    <3>3. i \notin misread
      BY <1>3, <3>2 DEF misread
    <3> QED BY <1>12, <3>1, <3>3
  <2>4. CASE k \in kept
    <3>1. k \in boxes /\ col[k] = d
      BY <1>12, <2>1, <2>4
    <3> HIDE DEF col
    <3>2. \A c \in 1 .. w : \E i \in boxes : col[i] = c
      BY <2>3, <3>1
    <3>3. /\ text = [c \in 1 .. w |-> text[c]]
          /\ \A i \in boxes : text[col[i]] = lines[i].token
      BY <1>11, <3>2
    <3>4. \A c \in 1 .. w : text[c] = IF c = d THEN lines[k].token ELSE printed[c]
      BY <2>3, <3>1, <3>3
    <3>5. text = [c \in 1 .. w |-> IF c = d THEN lines[k].token ELSE printed[c]]
      BY <3>3, <3>4
    <3> QED BY <2>1, <2>2, <3>5 DEF Altered
  <2>5. CASE k \notin kept
    <3>1. ASSUME NEW i \in boxes PROVE col[i] # d
      <4>1. i # k /\ i \in DOMAIN lines /\ place[i] = <<r, col[i]>>
        BY <1>8, <2>5
      <4> QED BY <1>4, <2>1, <4>1
    <3>2. \A c \in 1 .. w : c # d => \E i \in boxes : col[i] = c
      BY <2>3
    <3> HIDE DEF col
    <3>3. text = [c \in 1 .. (w - 1) |-> text[c]]
      BY <1>11, <2>1, <3>1, <3>2
    <3> QED BY <2>2, <3>3 DEF Altered
  <2> QED BY <2>4, <2>5
<1> QED BY <1>13, <1>14 DEF w, n, place, printed, misread

\* What an answer reads, row by row, is the paper but for the row of the misread box.
LEMMA AnswerReads ==
  ASSUME NEW answer, Legible(answer)
  PROVE  \E bad : ReadsPaper(answer.paper,
                             GroupLines(InReadingOrder(answer.lines, Recognised(answer))), bad)
<1> DEFINE paper == answer.paper
           n == Len(paper.items)
           rows == GroupLines(InReadingOrder(answer.lines, Recognised(answer)))
           printed == PrintedRows(paper)
           badRows == {r \in 1 .. (n + 4) : \E i \in Misread(answer) : answer.place[i][1] = r}
           text(r) == rows[r].text
<1>1. /\ DOMAIN rows = 1 .. (n + 4)
      /\ \A r \in 1 .. (n + 4) :
           ReadsRow(answer.lines, {i \in Recognised(answer) : RowsOf(answer)[i] = r}, rows[r].text)
  BY AnswerInRows, RowsRecovered
<1>2. PaperAdds(paper) /\ \A i, j \in Misread(answer) : i = j
  BY DEF Legible, OneMisread
<1>3. /\ n \in Nat
      /\ printed[1] = <<Word>>
      /\ \A k \in 1 .. n : printed[k + 1] = ItemRow(paper.items[k])
      /\ printed[n + 2] = <<Label("tax"), Money(paper.tax)>>
      /\ printed[n + 3] = <<Label("discount"), Money(paper.discount)>>
      /\ printed[n + 4] = <<Label("total"), Money(paper.total)>>
  BY <1>2, PrintedPaper
<1>4. \A r \in 1 .. (n + 4) :
        /\ r \notin badRows => AsPrinted(rows[r].text, printed[r], Width(n, r))
        /\ r \in badRows => r # 1 /\ Altered(rows[r].text, printed[r], Width(n, r))
  BY <1>1, AnswerRow
<1>5. \A r, s \in badRows : r = s
  BY <1>2
<1> DEFINE bad == IF badRows = {} THEN 0 ELSE CHOOSE r \in badRows : TRUE
<1>6. \A r \in 1 .. (n + 4) : bad # r => r \notin badRows
  BY <1>5
<1>7. /\ \A k \in 1 .. n : ItemAdds(paper.items[k])
      /\ Whole(paper.tax) /\ Whole(paper.discount) /\ Whole(paper.total)
  <2>1. DOMAIN paper.items = 1 .. n
    BY <1>2 DEF PaperAdds
  <2> QED BY <1>2, <2>1 DEF PaperAdds, ItemAdds
<1> HIDE DEF paper, n, rows, printed, badRows, bad
<1>8. ~IsSummary(rows[1]) /\ ~IsItem(rows[1])
  <2>1. 1 \in 1 .. (n + 4) /\ Width(n, 1) = 1
    BY <1>3 DEF Width
  <2>2. AsPrinted(rows[1].text, <<Word>>, 1)
    BY <1>3, <1>4, <2>1
  <2>3. Len(rows[1].text) = 1
    BY <2>2, LenOf DEF AsPrinted
  <2> QED BY <2>3 DEF IsSummary, IsItem
<1>9. ASSUME NEW k \in 1 .. n
      PROVE  /\ ~IsSummary(rows[k + 1])
             /\ bad # k + 1 => SaysItem(rows[k + 1], paper.items[k])
             /\ IsItem(rows[k + 1]) /\ ~ItemOff(ItemOf(rows[k + 1])) =>
                  ItemOf(rows[k + 1]) = ItemValue(paper.items[k])
  <2> DEFINE item == paper.items[k]
             row == rows[k + 1]
  <2>1. k + 1 \in 1 .. (n + 4) /\ k + 1 # 1 /\ k + 1 <= n + 1
    BY <1>3
  <2>2. Width(n, k + 1) = 4
    BY <2>1 DEF Width
  <2>3. ItemAdds(item)
    BY <1>7
  <2>4. /\ k + 1 \notin badRows => AsPrinted(row.text, ItemRow(item), 4)
        /\ k + 1 \in badRows => Altered(row.text, ItemRow(item), 4)
    BY <1>3, <1>4, <2>1, <2>2
  <2> HIDE DEF item, row
  <2>5. CASE k + 1 \notin badRows
    <3>1. SaysItem(row, item)
      BY <2>3, <2>4, <2>5, ItemAsPrinted
    <3> QED BY <3>1 DEF SaysItem, item, row
  <2>6. CASE k + 1 \in badRows
    <3>1. /\ ~IsSummary(row)
          /\ IsItem(row) /\ ~ItemOff(ItemOf(row)) => ItemOf(row) = ItemValue(item)
      BY <2>3, <2>4, <2>6, ItemAltered
    <3>2. bad = k + 1
      BY <1>6, <2>1, <2>6
    <3> QED BY <3>1, <3>2 DEF item, row
  <2> QED BY <2>5, <2>6
<1>10. ASSUME NEW r \in 1 .. (n + 4), ~(r <= n + 1), NEW name, NEW amount, Whole(amount),
              printed[r] = <<Label(name), Money(amount)>>
       PROVE  /\ ~IsItem(rows[r])
              /\ bad # r => SaysFigure(rows[r], name, amount)
              /\ IsSummary(rows[r]) => \E v \in Nat : MoneyMinor(rows[r].text[2].amount) = {v * 100}
  <2> DEFINE row == rows[r]
  <2>1. Width(n, r) = 2
    BY <1>3, <1>10 DEF Width
  <2>2. /\ r \notin badRows => AsPrinted(row.text, <<Label(name), Money(amount)>>, 2)
        /\ r \in badRows => Altered(row.text, <<Label(name), Money(amount)>>, 2)
    BY <1>4, <1>10, <2>1
  <2> HIDE DEF row
  <2>3. CASE r \notin badRows
    <3>1. SaysFigure(row, name, amount) /\ ~IsItem(row)
      BY <1>10, <2>2, <2>3, FigureAsPrinted
    <3>2. MoneyMinor(row.text[2].amount) = {Joined(amount) * 100} /\ Joined(amount) \in Nat
      BY <1>10, <3>1, WholeMoney DEF SaysFigure
    <3> QED BY <3>1, <3>2 DEF row
  <2>4. CASE r \in badRows
    <3>1. /\ ~IsItem(row)
          /\ IsSummary(row) => \E v \in Nat : MoneyMinor(row.text[2].amount) = {v * 100}
      BY <1>10, <2>2, <2>4, FigureAltered
    <3>2. bad = r
      BY <1>6, <2>4
    <3> QED BY <3>1, <3>2 DEF row
  <2> QED BY <2>3, <2>4
<1>11. /\ n + 2 \in 1 .. (n + 4) /\ ~(n + 2 <= n + 1)
       /\ n + 3 \in 1 .. (n + 4) /\ ~(n + 3 <= n + 1)
       /\ n + 4 \in 1 .. (n + 4) /\ ~(n + 4 <= n + 1)
  BY <1>3
<1>12. ~IsItem(rows[n + 2]) /\ (bad # n + 2 => SaysFigure(rows[n + 2], "tax", paper.tax))
  <2>1. /\ n + 2 \in 1 .. (n + 4) /\ ~(n + 2 <= n + 1) /\ Whole(paper.tax)
        /\ printed[n + 2] = <<Label("tax"), Money(paper.tax)>>
    BY <1>3, <1>7, <1>11
  <2> QED BY <1>10, <2>1
<1>13. ~IsItem(rows[n + 3]) /\ (bad # n + 3 => SaysFigure(rows[n + 3], "discount", paper.discount))
  <2>1. /\ n + 3 \in 1 .. (n + 4) /\ ~(n + 3 <= n + 1) /\ Whole(paper.discount)
        /\ printed[n + 3] = <<Label("discount"), Money(paper.discount)>>
    BY <1>3, <1>7, <1>11
  <2> QED BY <1>10, <2>1
<1>14. /\ ~IsItem(rows[n + 4])
       /\ bad # n + 4 => SaysFigure(rows[n + 4], "total", paper.total)
       /\ IsSummary(rows[n + 4]) =>
            \E v \in Nat : MoneyMinor(rows[n + 4].text[2].amount) = {v * 100}
  <2>1. /\ n + 4 \in 1 .. (n + 4) /\ ~(n + 4 <= n + 1) /\ Whole(paper.total)
        /\ printed[n + 4] = <<Label("total"), Money(paper.total)>>
    BY <1>3, <1>7, <1>11
  <2> QED BY <1>10, <2>1
<1>15. ReadsPaper(paper, rows, bad)
  BY <1>1, <1>3, <1>8, <1>9, <1>12, <1>13, <1>14 DEF ReadsPaper, n, rows
<1> QED BY <1>15, Zenon DEF paper, rows

\* Without a line there is no row, and somebody has to look.
LEMMA NothingIsReviewed ==
  ASSUME NEW answer \in OcrAnswers, answer.lines = <<>>,
         NEW result \in Parse(answer.lines, Recognised(answer))
  PROVE  result.review
<1> DEFINE lines == answer.lines
           kept == Recognised(answer)
           ordered == InReadingOrder(lines, kept)
           rows == GroupLines(ordered)
<1>1. kept = {}
  BY DEF Recognised
<1>2. Cardinality(kept) = 0
  BY <1>1, FS_EmptySet
<1>3. Len(ordered) = 0
  BY <1>2, AnswersAreLines, ReadInOrder
<1>4. PICK groups : /\ GroupingSteps(ordered, 0, groups)
                    /\ rows = [i \in DOMAIN groups[0] |-> MergeGroup(groups[0][i])]
  BY <1>3, GroupingIs
<1> HIDE DEF rows, ordered
<1>5. groups[0] = <<>>
  BY <1>4 DEF GroupingSteps
<1>6. rows = <<>>
  BY <1>4, <1>5
<1> QED BY <1>6 DEF Parse, NeedsReview, rows, ordered

\* What is done is then exact.
LEMMA DoneIsExact ==
  ASSUME AnswersReadPapers
  PROVE  ReceiptInv => UnreviewedIsExact
<1> SUFFICES ASSUME ReceiptInv, receiptJob.phase = "done", ~receiptJob.result.review,
                    BelowAMillion(receiptJob.answer.paper)
             PROVE  /\ receiptJob.result.items = PrintedItems(receiptJob.answer.paper)
                    /\ receiptJob.result.total = {Joined(receiptJob.answer.paper.total) * 100}
                    /\ Balanced(receiptJob.result)
  BY DEF UnreviewedIsExact
<1> DEFINE answer == receiptJob.answer
           result == receiptJob.result
           rows == GroupLines(InReadingOrder(answer.lines, Recognised(answer)))
<1>1. /\ answer \in OcrAnswers /\ AnswerValid(answer)
      /\ result \in Parse(answer.lines, Recognised(answer))
  BY DEF ReceiptInv
<1>2. ~result.review /\ BelowAMillion(answer.paper)
  OBVIOUS
<1>3. Balanced(result)
  BY DoneBalances DEF UnreviewedBalances
<1> HIDE DEF answer, result
<1>4. answer.lines # <<>>
  BY <1>1, <1>2, NothingIsReviewed
<1>5. Legible(answer)
  <2>1. answer.lines \in Seq(OcrLines)
    BY <1>1, ReceiptAssumption
  <2>2. PaperAdds(answer.paper) /\ LaidOut(answer) /\ OneMisread(answer)
    BY <1>1, <1>2, <1>4 DEF AnswersReadPapers
  <2> QED BY <2>1, <2>2 DEF Legible
<1>6. PICK bad : ReadsPaper(answer.paper, rows, bad)
  BY <1>5, AnswerReads
<1>7. PaperAdds(answer.paper)
  BY <1>5 DEF Legible
<1>8. /\ result.items = ItemsOf(rows) /\ result.total = Labelled(rows, "total")
      /\ result.review = NeedsReview(rows, ItemsOf(rows), Labelled(rows, "subtotal"),
                                     Amount(Labelled(rows, "tax")),
                                     Amount(Labelled(rows, "discount")), Labelled(rows, "total"))
  BY <1>1 DEF Parse
<1> HIDE DEF rows
<1>9. /\ ItemsOf(rows) = PrintedItems(answer.paper)
      /\ Labelled(rows, "total") = {Joined(answer.paper.total) * 100}
  BY <1>2, <1>6, <1>7, <1>8, ExactWhenUnreviewed
<1> QED BY <1>3, <1>8, <1>9 DEF answer, result

\* What nobody is asked to review is what the paper says, item by item and in its
\* total, when the paper adds up, its amounts are whole and below a million, and the
\* library read its boxes in their rows, in any order, all but at most one of them
\* right (_group_lines and _reconcile, ocr/receipt_parser.py).
THEOREM UnreviewedIsThePaper ==
  ASSUME AnswersReadPapers
  PROVE  ReceiptSpec => []UnreviewedIsExact
<1>1. ReceiptInv => UnreviewedIsExact
  BY DoneIsExact
<1> QED BY <1>1, ReceiptStarts, ReceiptSteps, PTL DEF ReceiptSpec
=============================================================================
