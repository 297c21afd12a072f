---------------------------- MODULE GroundedCoach ----------------------------
(* One coach job on the coach worker (backend/src/maki/coach): the question  *)
(* is scrubbed, published official figures are looked up and numbered, the   *)
(* provider answers with the numbers it cites, and those become the sources  *)
(* that the user sees.  A question is its length, what scrubbing and HTML    *)
(* escaping add to it, and the series it matches; a card is the figure of a  *)
(* series with the length of its line and what escaping adds to the line.    *)
EXTENDS Integers, Sequences, FiniteSets

CONSTANTS Cards,                \* official figures: [series, period, released, size, escaping]
          CoachQuestions,
          ProviderReplies,      \* what the external provider may answer
          SourceLimit,          \* 5 in the code
          MaximumCitations,     \* 5
          MaximumQuestion, MaximumContext, MaximumPrompt  \* 2000, 6000, 9000

ASSUME GroundedAssumption ==
    /\ IsFiniteSet(Cards) /\ SourceLimit \in Nat
    /\ \A c \in Cards : c.series \in Int /\ c.period \in Int /\ c.released \in Int
    /\ \A c, d \in Cards :       \* SeriesPointTable: one figure per series and period
        c.series = d.series /\ c.period = d.period /\ c.released = d.released => c = d
    /\ \A a \in ProviderReplies : a.kind = "answer" => a.cites \in Seq(Int)

VARIABLES publishedCards,       \* the figures whose snapshot is the published one
          coachJob

groundedVars == <<publishedCards, coachJob>>

NoCoachJob == [phase |-> "waiting"]

(* Mutant: the order is turned round.                                        *)
OldestFirst(a, b) ==
    \/ a.released < b.released
    \/ a.released = b.released /\ a.period < b.period
    \/ a.released = b.released /\ a.period = b.period /\ a.series < b.series

(* SqlAlchemySourceCardRepository.search_published: the newest releases of   *)
(* the matching series, of published snapshots only.                         *)
NewestFirst(a, b) ==
    \/ a.released > b.released
    \/ a.released = b.released /\ a.period > b.period
    \/ a.released = b.released /\ a.period = b.period /\ a.series < b.series

Before(cards, c) == {d \in cards : NewestFirst(d, c)}

SearchPublished(question, limit) ==
    LET matching == {c \in publishedCards : c.series \in question.matches}
        found == Cardinality(matching)
    IN  [n \in 1..(IF found < limit THEN found ELSE limit) |->
            CHOOSE c \in matching : Cardinality(Before(matching, c)) = n - 1]

(* OfficialSourceRetriever.retrieve: whole lines from the first on, until    *)
(* one no longer fits; a line break stands between two lines.                *)
LinesLength(cards, n) ==
    LET length[k \in 0..n] ==
            IF k = 0 THEN 0 ELSE length[k - 1] + cards[k].size + (IF k > 1 THEN 1 ELSE 0)
    IN  length[n]

FittingCards(cards) ==
    LET fits == {0} \cup {n \in 1..Len(cards) : LinesLength(cards, n) <= MaximumContext}
    IN  SubSeq(cards, 1, CHOOSE n \in fits : \A k \in fits : k <= n)

(* The numbered lines of the context, as the provider reads them.            *)
Numbered(cards) == [n \in DOMAIN cards |-> [number |-> n, card |-> cards[n]]]

Scrubbed(question) == question.length + question.masking
Escaped(question) == Scrubbed(question) + question.escaping

(* build_coach_prompt escapes the context too, after its limit was checked.  *)
EscapedContext(cards) ==
    LET added[k \in 0..Len(cards)] == IF k = 0 THEN 0 ELSE added[k - 1] + cards[k].escaping
    IN  LinesLength(cards, Len(cards)) + added[Len(cards)]

(* ProviderAnswer and _cited_sources.                                        *)
CitationsValid(cites) ==
    /\ 1 <= Len(cites) /\ Len(cites) <= MaximumCitations
    /\ \A i \in DOMAIN cites : cites[i] > 0
    /\ \A i, j \in DOMAIN cites : i # j => cites[i] # cites[j]

CitedSources(sources, cites) == [i \in DOMAIN cites |-> sources[cites[i]]]

Transient == {"timeout", "rate_limit", "connection", "server_error"}
Permanent == {"authentication", "rejected", "broken_text", "broken_json"}

----------------------------------------------------------------------------

GroundedInit ==
    /\ publishedCards \in SUBSET Cards
    /\ coachJob = NoCoachJob

(* External: the official data worker publishes another snapshot.            *)
Republish(cards) ==
    /\ coachJob.phase = "asking"
    /\ publishedCards' = cards
    /\ UNCHANGED coachJob

(* CoachService.answer up to the call of the provider.  Masking may make a   *)
(* question longer than the retriever takes, which refuses a blank one too,  *)
(* and escaping a prompt longer than CoachPrompt allows: all of them raise,  *)
(* and the job fails.                                                        *)
AskCoach(question) ==
    LET context == FittingCards(SearchPublished(question, SourceLimit))
        prompt == [lines |-> Numbered(context),
                   length |-> Escaped(question) + EscapedContext(context)]
    IN  /\ coachJob.phase = "waiting"
        /\ coachJob' =
              IF Scrubbed(question) \notin 1..MaximumQuestion THEN [phase |-> "failed"]
              ELSE IF context = <<>> THEN [phase |-> "insufficient_sources"]
              ELSE IF prompt.length <= MaximumPrompt
              THEN [phase |-> "asking", question |-> question, sources |-> context,
                    prompt |-> prompt, known |-> publishedCards]
              ELSE [phase |-> "failed"]
        /\ UNCHANGED publishedCards

(* AnthropicAdapter.answer and the rest of the service: a transport error is *)
(* retryable or not, an answer must cite sources that were given to it.      *)
ProviderFails(answer) ==
    /\ coachJob.phase = "asking"
    /\ answer.kind \in Transient \cup Permanent
    /\ coachJob' = [phase |-> IF answer.kind \in Transient THEN "retry" ELSE "failed"]
    /\ UNCHANGED publishedCards

ProviderAnswers(answer) ==
    /\ coachJob.phase = "asking"
    /\ answer.kind = "answer"
    /\ coachJob' =
          IF ~CitationsValid(answer.cites) THEN [phase |-> "failed"]
          ELSE IF \E i \in DOMAIN answer.cites : answer.cites[i] > Len(coachJob.sources)
          THEN [phase |-> "failed"]
          ELSE [phase |-> "answered", question |-> coachJob.question,
                prompt |-> coachJob.prompt, known |-> coachJob.known, cites |-> answer.cites,
                shown |-> CitedSources(coachJob.sources, answer.cites)]
    /\ UNCHANGED publishedCards

GroundedNext ==
    \/ \E cards \in SUBSET Cards : Republish(cards)
    \/ \E q \in CoachQuestions : AskCoach(q)
    \/ \E a \in ProviderReplies : ProviderFails(a) \/ ProviderAnswers(a)

GroundedSpec == GroundedInit /\ [][GroundedNext]_groundedVars

----------------------------------------------------------------------------

(* Types: a job of coach/service.py is in one of its phases.                  *)
GroundedTypeOK ==
    /\ publishedCards \subseteq Cards
    /\ coachJob.phase \in {"waiting", "asking", "answered", "insufficient_sources",
                           "retry", "failed"}

(* The figures shown under an answer are, one by one, those whose line the   *)
(* provider read under the number it cites; every line was a published       *)
(* figure of a series the question is about when the question was asked, no  *)
(* newer figure was passed over for it, and the prompt is within its limits. *)
AnswerIsGrounded ==
    coachJob.phase = "answered" =>
        LET lines == coachJob.prompt.lines
            read == {lines[n].card : n \in DOMAIN lines}
        IN  /\ coachJob.shown # <<>>
            /\ \A i \in DOMAIN coachJob.cites :
                \E n \in DOMAIN lines :
                    /\ lines[n].number = coachJob.cites[i]
                    /\ lines[n].card = coachJob.shown[i]
            /\ \A c \in read : c \in coachJob.known /\ c.series \in coachJob.question.matches
            /\ \A c \in read, d \in coachJob.known \ read :
                    d.series \in coachJob.question.matches => d.released <= c.released
            /\ coachJob.prompt.length <= MaximumPrompt
            /\ Cardinality(read) <= SourceLimit
=============================================================================
