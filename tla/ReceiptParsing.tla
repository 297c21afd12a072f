--------------------------- MODULE ReceiptParsing ---------------------------
(* One receipt image on the receipt worker (backend/src/maki/ocr): the file  *)
(* guard, the OCR library's answer, and the parser that turns recognised     *)
(* boxes back into rows, items and totals and decides whether a person has   *)
(* to review them.  A recognised box is a token: a word, one of the known    *)
(* labels, a quantity ("2 x") or an amount of money as it is printed.        *)
EXTENDS Integers, Sequences, FiniteSets, SequencesExt, Functions

CONSTANTS Images,               \* uploaded files
          OcrAnswers,           \* what the external library may answer to an image
          MaximumImageBytes, MaximumPixels,
          VerticalTolerance,    \* 5 in the code, in pixels
          MinimumConfidence     \* 70 per cent

VARIABLES receiptJob            \* the image, what was recognised and the result

receiptVars == receiptJob

NoReceipt == [phase |-> "waiting"]
SupportedFormats == {"JPEG", "PNG"}
Tolerance == 1                  \* _RECONCILIATION_TOLERANCE_MINOR

(* What a box may hold.  An amount is printed in groups of three digits, of  *)
(* which the last is kept apart, and sometimes cents.                        *)
PrintedAmounts ==
    [front : Nat, last : Nat, groups : Nat, cents : {<<>>} \cup {<<c>> : c \in 0..99}]
ReceiptTexts ==
    [is : {"word", "blank", "label", "times", "money"}, amount : PrintedAmounts,
     label : {"", "subtotal", "tax", "discount", "total"}]
OcrLines ==
    [token : ReceiptTexts, left : Nat, top : Nat, bottom : Nat, confidence : 0..100]

(* OcrLine and OcrBox say what a line is; the library may read anything.     *)
ASSUME ReceiptAssumption ==
    /\ MinimumConfidence \in Nat /\ VerticalTolerance \in Nat
    /\ \A answer \in OcrAnswers : answer.lines \in Seq(OcrLines) /\ answer.scores \in Nat

Distance(a, b) == IF a < b THEN b - a ELSE a - b

(* What sorted() returns: the places of S, each once, in this order.         *)
Ranked(S, order) ==
    [n \in 1..Cardinality(S) |->
        CHOOSE i \in S : Cardinality({j \in S : <<j, i>> \in order}) = n - 1]

(* FileGuard.sanitize: size, first bytes, then what the decoder says, twice. *)
ImageAccepted(image) ==
    /\ 0 < image.bytes /\ image.bytes <= MaximumImageBytes
    /\ image.signature \in SupportedFormats
    /\ ~image.corrupt
    /\ image.format \in SupportedFormats
    /\ image.frames = 1
    /\ image.pixels <= MaximumPixels

(* PaddleOcrAdapter.extract: the three lists must agree in length; blank     *)
(* texts are dropped, and every box of the others must have a positive area. *)
Recognised(answer) == {i \in DOMAIN answer.lines : answer.lines[i].token.is # "blank"}

AnswerValid(answer) ==
    /\ answer.scores = Len(answer.lines)
    /\ \A i \in Recognised(answer) : answer.lines[i].top < answer.lines[i].bottom

(* _group_lines: rows from boxes, sorted by the height of their centre; a    *)
(* box belongs to the last row when it is close to that row's FIRST box.     *)
CenterY(line) == (line.top + line.bottom) \div 2

ReadsBefore(a, b) ==
    \/ CenterY(a) < CenterY(b)
    \/ CenterY(a) = CenterY(b) /\ a.left < b.left

ReadingOrder(lines, kept) ==
    {e \in kept \X kept :
        \/ ReadsBefore(lines[e[1]], lines[e[2]])
        \/ ~ReadsBefore(lines[e[2]], lines[e[1]]) /\ e[1] < e[2]}

InReadingOrder(lines, kept) ==
    LET places == Ranked(kept, ReadingOrder(lines, kept))
    IN  [n \in DOMAIN places |-> lines[places[n]]]

SameRow(group, line) == Distance(CenterY(group[1]), CenterY(line)) <= VerticalTolerance

AddToRows(rows, line) ==
    IF rows # <<>> /\ SameRow(Last(rows), line)
    THEN Append(Front(rows), Append(Last(rows), line))
    ELSE Append(rows, <<line>>)

LeftToRight(group) ==
    {e \in (DOMAIN group) \X (DOMAIN group) :
        \/ group[e[1]].left < group[e[2]].left
        \/ group[e[1]].left = group[e[2]].left /\ e[1] < e[2]}

MergeGroup(group) ==
    LET places == Ranked(DOMAIN group, LeftToRight(group))
    IN  [text |-> [n \in DOMAIN places |-> group[places[n]].token],
         confidence |-> CHOOSE c \in {group[n].confidence : n \in DOMAIN group} :
                            \A n \in DOMAIN group : c <= group[n].confidence]

GroupLines(ordered) ==
    LET rows[n \in 0..Len(ordered)] ==
            IF n = 0 THEN <<>> ELSE AddToRows(rows[n - 1], ordered[n])
    IN  [i \in DOMAIN rows[Len(ordered)] |-> MergeGroup(rows[Len(ordered)][i])]

(* _money_minor after _normalize_money, for an amount printed as groups of   *)
(* three digits and, after the other separator, cents.  A single separator   *)
(* is one of thousands only when at most three digits stand before it: of an *)
(* amount of three groups or more the last group is read as a fraction.      *)
(* The set is empty where the conversion raises ValueError.                  *)
Joined(amount) == amount.front * 1000 + amount.last

MoneyMinor(amount) ==
    IF amount.cents # <<>> THEN {Joined(amount) * 100 + amount.cents[1]}
    ELSE IF amount.groups <= 2 THEN {Joined(amount) * 100}
    ELSE IF amount.last % 10 # 0 THEN {}
    ELSE {amount.front * 100 + amount.last \div 10}

(* _summary: a row that is exactly a known label and an amount.              *)
IsSummary(row) ==
    /\ Len(row.text) = 2
    /\ row.text[1].is = "label"
    /\ row.text[2].is = "money"

(* _item: a name, a quantity, the price of one and the price of all.  A      *)
(* quantity is digits without a separator.                                   *)
IsItem(row) ==
    LET n == Len(row.text)
    IN  /\ n >= 4
        /\ row.text[n - 2].is = "times"
        /\ row.text[n - 1].is = "money" /\ row.text[n].is = "money"

RowAmounts(row) ==
    IF IsSummary(row) THEN <<row.text[2].amount>>
    ELSE IF IsItem(row) THEN <<row.text[Len(row.text) - 1].amount, Last(row.text).amount>>
    ELSE <<>>

ItemOf(row) ==
    LET n == Len(row.text)
    IN  [quantity |-> Joined(row.text[n - 2].amount),
         unit |-> CHOOSE m \in MoneyMinor(row.text[n - 1].amount) : TRUE,
         total |-> CHOOSE m \in MoneyMinor(row.text[n].amount) : TRUE]

(* _consume_line over all rows: the last row of a label wins, the first row  *)
(* that is neither a total nor an item names the merchant.                   *)
LabelRows(rows, label) ==
    {i \in DOMAIN rows : IsSummary(rows[i]) /\ rows[i].text[1].label = label}

Labelled(rows, label) ==
    LET found == LabelRows(rows, label)
        lastRow == CHOOSE i \in found : \A j \in found : j <= i
    IN  IF found = {} THEN {} ELSE MoneyMinor(rows[lastRow].text[2].amount)

Amount(values) == IF values = {} THEN 0 ELSE CHOOSE v \in values : TRUE

ItemsOf(rows) ==
    LET itemRows == {i \in DOMAIN rows : IsItem(rows[i])}
        places == Ranked(itemRows, {e \in itemRows \X itemRows : e[1] < e[2]})
    IN  [n \in DOMAIN places |-> ItemOf(rows[places[n]])]

MerchantRows(rows) ==
    {i \in DOMAIN rows :
        /\ ~IsSummary(rows[i]) /\ ~IsItem(rows[i])
        /\ \A j \in 1..(i - 1) : ~IsItem(rows[j])
        /\ \A j \in 1..(i - 1) : IsSummary(rows[j])}

Read(rows) ==
    {i \in DOMAIN rows : IsSummary(rows[i]) \/ IsItem(rows[i])} \cup MerchantRows(rows)

(* _reconcile: everything that asks for a review.                            *)
ItemsPrice(items) == SumFunction([i \in DOMAIN items |-> items[i].total])

(* Mutant: the price of an item is not compared with its quantity.           *)
ItemNeverOff(item) == FALSE

ItemOff(item) == Distance(item.quantity * item.unit, item.total) > Tolerance

NeedsReview(rows, items, subtotal, tax, discount, total) ==
    \/ rows = <<>>
    \/ items = <<>>
    \/ \E i \in DOMAIN items : ItemOff(items[i])
    \/ subtotal # {} /\ Distance(Amount(subtotal), ItemsPrice(items)) > Tolerance
    \/ total = {}
    \/ Distance(Amount(total),
                (IF subtotal = {} THEN ItemsPrice(items) ELSE Amount(subtotal)) + tax - discount)
            > Tolerance
    \/ \E i \in Read(rows) : rows[i].confidence < MinimumConfidence

(* ReceiptParser.parse; {} when an amount cannot be converted.               *)
Parse(lines, kept) ==
    LET rows == GroupLines(InReadingOrder(lines, kept))
        items == ItemsOf(rows)
        subtotal == Labelled(rows, "subtotal")
        tax == Amount(Labelled(rows, "tax"))
        discount == Amount(Labelled(rows, "discount"))
        total == Labelled(rows, "total")
    IN  IF \E i \in DOMAIN rows, k \in 1..2 :
            k \in DOMAIN RowAmounts(rows[i]) /\ MoneyMinor(RowAmounts(rows[i])[k]) = {}
        THEN {}
        ELSE {[items |-> items, subtotal |-> subtotal, tax |-> tax, discount |-> discount,
               total |-> total, merchant |-> MerchantRows(rows),
               review |-> NeedsReview(rows, items, subtotal, tax, discount, total)]}

----------------------------------------------------------------------------

ReceiptInit == receiptJob = NoReceipt

(* ReceiptHandler.handle, first the guard.  ImageRejectedError fails the job *)
TakeImage(image) ==
    /\ receiptJob.phase = "waiting"
    /\ receiptJob' = IF ImageAccepted(image)
                     THEN [phase |-> "clean", image |-> image]
                     ELSE [phase |-> "rejected", image |-> image]

(* The OCR library's answer, for the re-encoded image.                       *)
Recognise(answer) ==
    /\ receiptJob.phase = "clean"
    /\ receiptJob' = IF AnswerValid(answer)
                     THEN [phase |-> "recognised", answer |-> answer,
                           kept |-> Recognised(answer)]
                     ELSE [phase |-> "failed"]

(* The parser, and the completion record that carries only two figures.      *)
ParseReceipt ==
    LET results == Parse(receiptJob.answer.lines, receiptJob.kept)
    IN  /\ receiptJob.phase = "recognised"
        /\ \/ /\ results = {}
              /\ receiptJob' = [phase |-> "failed"]
           \/ \E result \in results :
                receiptJob' = [phase |-> "done", answer |-> receiptJob.answer, result |-> result]

ReceiptNext ==
    \/ \E image \in Images : TakeImage(image)
    \/ \E answer \in OcrAnswers : Recognise(answer)
    \/ ParseReceipt

ReceiptSpec == ReceiptInit /\ [][ReceiptNext]_receiptVars

----------------------------------------------------------------------------

(* Types: an image is in one of the stages of ocr/handler.py.                 *)
ReceiptTypeOK ==
    receiptJob.phase \in {"waiting", "clean", "rejected", "recognised", "failed", "done"}

(* What a paper says: the merchant, a row for each item, the tax, the        *)
(* discount and the total.                                                   *)
Word == [is |-> "word", label |-> "",
         amount |-> [front |-> 0, last |-> 0, groups |-> 1, cents |-> <<>>]]
Label(name) == [Word EXCEPT !.is = "label", !.label = name]
Times(quantity) == [Word EXCEPT !.is = "times", !.amount = quantity]
Money(amount) == [Word EXCEPT !.is = "money", !.amount = amount]
ItemRow(item) == <<Word, Times(item.quantity), Money(item.unit), Money(item.total)>>

PrintedRows(paper) ==
    LET n == Len(paper.items)
    IN  [r \in 1..(n + 4) |->
            IF r = 1 THEN <<Word>>
            ELSE IF r <= n + 1 THEN ItemRow(paper.items[r - 1])
            ELSE IF r = n + 2 THEN <<Label("tax"), Money(paper.tax)>>
            ELSE IF r = n + 3 THEN <<Label("discount"), Money(paper.discount)>>
            ELSE <<Label("total"), Money(paper.total)>>]

PrintedBoxes(paper) ==
    UNION {{r} \X DOMAIN PrintedRows(paper)[r] : r \in DOMAIN PrintedRows(paper)}

(* The paper's own arithmetic is right; its amounts are whole.               *)
Whole(amount) == amount \in PrintedAmounts /\ amount.cents = <<>> /\ amount.groups <= 2

PaperAdds(paper) ==
    /\ Len(paper.items) \in Nat /\ DOMAIN paper.items = 1..Len(paper.items)
    /\ \A i \in DOMAIN paper.items :
        LET item == paper.items[i]
        IN  /\ Whole(item.quantity) /\ Whole(item.unit) /\ Whole(item.total)
            /\ Joined(item.quantity) * Joined(item.unit) = Joined(item.total)
            /\ Joined(item.total) > 0
    /\ Whole(paper.tax) /\ Whole(paper.discount) /\ Whole(paper.total)
    /\ Joined(paper.total) =
            SumFunction([i \in DOMAIN paper.items |-> Joined(paper.items[i].total)])
                + Joined(paper.tax) - Joined(paper.discount)

(* Every printed box is recognised once, in any order and a few pixels off   *)
(* the row it is printed in,                                                 *)
LaidOut(answer) ==
    LET place == answer.place
        line == answer.lines
        center(i) == CenterY(line[i])
    IN  /\ DOMAIN place = DOMAIN line
        /\ \A i \in DOMAIN line : place[i] \in PrintedBoxes(answer.paper)
        /\ \A box \in PrintedBoxes(answer.paper) : \E i \in DOMAIN line : place[i] = box
        /\ \A i, j \in DOMAIN line :
            /\ place[i] = place[j] => i = j
            /\ place[i][1] < place[j][1] => center(i) + VerticalTolerance < center(j)
            /\ place[i][1] = place[j][1] =>
                /\ Distance(center(i), center(j)) <= VerticalTolerance
                /\ place[i][2] < place[j][2] => line[i].left < line[j].left

(* and one of them, beside the merchant, may be misread, or read as nothing. *)
Misread(answer) ==
    {i \in DOMAIN answer.lines :
        answer.lines[i].token # PrintedRows(answer.paper)[answer.place[i][1]][answer.place[i][2]]}

OneMisread(answer) ==
    /\ \A i, j \in Misread(answer) : i = j
    /\ \A i \in Misread(answer) : answer.place[i][1] # 1 /\ Whole(answer.lines[i].token.amount)

PrintedItems(paper) ==
    [i \in DOMAIN paper.items |->
        [quantity |-> Joined(paper.items[i].quantity),
         unit |-> Joined(paper.items[i].unit) * 100,
         total |-> Joined(paper.items[i].total) * 100]]

BelowAMillion(paper) == \A i \in DOMAIN paper.items : paper.items[i].total.groups <= 2

(* An answer of the library carries, beside what it recognised, the paper    *)
(* and the place of every box on it.  Amounts of a million and more are left *)
(* out: see MoneyMinor.                                                      *)
AnswersReadPapers ==
    \A answer \in OcrAnswers :
        AnswerValid(answer) /\ answer.lines # <<>> /\ BelowAMillion(answer.paper) =>
            PaperAdds(answer.paper) /\ LaidOut(answer) /\ OneMisread(answer)

Balanced(result) ==
    /\ result.items # <<>>
    /\ \A i \in DOMAIN result.items : ~ItemOff(result.items[i])
    /\ result.total # {}
    /\ Distance(Amount(result.total), ItemsPrice(result.items) + result.tax - result.discount)
            <= 2 * Tolerance

(* A result that nobody is asked to review is what the paper says.           *)
UnreviewedIsExact ==
    receiptJob.phase = "done" /\ ~receiptJob.result.review =>
        LET paper == receiptJob.answer.paper
            result == receiptJob.result
        IN  BelowAMillion(paper) =>
                /\ result.items = PrintedItems(paper)
                /\ result.total = {Joined(paper.total) * 100}
                /\ Balanced(result)
=============================================================================
