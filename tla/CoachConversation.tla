-------------------------- MODULE CoachConversation --------------------------
(* The coach that answers without a worker (backend/src/maki/coach):         *)
(* AdaptiveCoachService tries Gemini when there is a key and falls back to   *)
(* the local conversation engine, which keeps the last financial topic of    *)
(* each session in a bounded, expiring, least-recently-answered memory.      *)
(* A question is what the classifier sees of it: the weight of the matched   *)
(* terms per intent, in the user's own words and in the whole text that the  *)
(* app sends, and whether it is a short follow-up.                           *)
EXTENDS Tables, Integers, Sequences, FiniteSets, Functions

CONSTANTS ChatSessions, ChatQuestions,
          Intents,              \* _INTENT_TERMS: the intents by priority
          FinancialIntents,
          MemoryTtl, MaxSessions,
          MaxTurns, ChatEnd     \* bounds: answers remembered by talk, time

ASSUME ChatAssumption ==
    /\ MemoryTtl \in Nat \ {0} /\ MaxSessions \in Nat \ {0}
    /\ MaxTurns \in Nat /\ ChatEnd \in Nat

VARIABLES memory,               \* OrderedDict: session -> [topic, updatedAt, turn]
          chatClock,            \* time.monotonic
          talk,                 \* history: the financial answers, in order
          reply                 \* the last answer

chatVars == <<memory, chatClock, talk, reply>>

NoReply == [session |-> "none"]
Sole(entries) == CHOOSE e \in entries : TRUE

(* _classify: the greatest total weight, the earlier intent on a tie.        *)
Classify(scores) ==
    LET matched == {i \in DOMAIN Intents : scores[Intents[i]] > 0}
    IN  IF matched = {}
        THEN "fallback"
        ELSE Intents[CHOOSE i \in matched : \A j \in matched :
                        \/ scores[Intents[i]] > scores[Intents[j]]
                        \/ scores[Intents[i]] = scores[Intents[j]] /\ i <= j]

IntentOf(question) ==
    IF Classify(question.user) # "fallback" THEN Classify(question.user)
                                            ELSE Classify(question.route)

(* _evict_expired, then the session's own entry.                             *)
Unexpired(entries, now) ==
    Restrict(entries, {s \in DOMAIN entries : now - entries[s].updatedAt <= MemoryTtl})

(* Mutant: the last topic of whichever session.                              *)
EntryOfAnyone(entries, session) ==
    {entries[s] : s \in {t \in DOMAIN entries :
                            \A u \in DOMAIN entries : entries[u].turn <= entries[t].turn}}

EntryOf(entries, session) == {entries[s] : s \in DOMAIN entries \cap {session}}

(* The order of the OrderedDict is that of the turns: an entry that is       *)
(* written moves to the end, and the oldest one leaves when there are too    *)
(* many.                                                                     *)
Remember(entries, session, entry) ==
    LET all == With(entries, session, entry)
        oldest == {s \in DOMAIN all : \A t \in DOMAIN all : all[s].turn <= all[t].turn}
    IN  IF Cardinality(DOMAIN all) > MaxSessions THEN Restrict(all, DOMAIN all \ oldest) ELSE all

(* _response: the two answers that depend on what was said before.           *)
Variant(intent, question, previous) ==
    CASE intent = "debt" /\ "hangisi" \in question.words /\ (\E e \in previous : e.topic = "debt")
            -> "avalanche or snowball"
      [] intent = "savings" /\ "kadar" \in question.words /\ (\E e \in previous : e.topic = "savings")
            -> "lower bound"
      [] OTHER -> "general"

(* LocalConversationEngine.respond.  There is no await between reading the   *)
(* clock and leaving the lock, so one answer is one step.                    *)
RespondLocally(session, question) ==
    LET known == Unexpired(memory, chatClock)
        previous == EntryOf(known, session)
        followed == question.followUp /\ previous # {}
        intent == IF followed THEN Sole(previous).topic ELSE IntentOf(question)
        entry == [topic |-> intent, updatedAt |-> chatClock, turn |-> Len(talk) + 1]
        financial == intent \in FinancialIntents
    IN  /\ financial => Len(talk) < MaxTurns
        /\ memory' = IF financial THEN Remember(known, session, entry) ELSE known
        /\ talk' = IF financial
                   THEN Append(talk, [session |-> session, topic |-> intent, updatedAt |-> chatClock])
                   ELSE talk
        /\ reply' = [session |-> session, intent |-> intent, followed |-> followed,
                     variant |-> Variant(intent, question, previous),
                     disclaimer |-> financial, by |-> "local_guidance",
                     turn |-> Len(talk), at |-> chatClock]
        /\ UNCHANGED chatClock

----------------------------------------------------------------------------

ChatInit == memory = << >> /\ chatClock = 0 /\ talk = <<>> /\ reply = NoReply

(* AdaptiveCoachService.answer: without a key, with one GeminiAdapter        *)
(* refuses, or after any provider error the local engine answers; what       *)
(* Gemini answers leaves no trace in the memory.                             *)
AnswerLocally(session, question) == RespondLocally(session, question)

AnswerWithGemini(session) ==
    /\ reply' = [session |-> session, followed |-> FALSE, by |-> "gemini_guidance"]
    /\ UNCHANGED <<memory, chatClock, talk>>

ChatTick ==
    /\ chatClock < ChatEnd
    /\ chatClock' = chatClock + 1
    /\ UNCHANGED <<memory, talk, reply>>

ChatNext ==
    \/ \E s \in ChatSessions, q \in ChatQuestions : AnswerLocally(s, q)
    \/ \E s \in ChatSessions : AnswerWithGemini(s)
    \/ ChatTick

ChatSpec == ChatInit /\ [][ChatNext]_chatVars

----------------------------------------------------------------------------

(* Types of the memory (local_conversation.py) and of the history.            *)
ChatTypeOK ==
    /\ \A s \in DOMAIN memory :
        /\ s \in ChatSessions /\ memory[s].topic \in FinancialIntents
        /\ memory[s].updatedAt \in 0..chatClock
    /\ chatClock \in 0..ChatEnd
    /\ Len(talk) <= MaxTurns

(* The index in talk of the last financial answer of a session among the     *)
(* first n, or 0.                                                            *)
LastTurn(session, n) ==
    LET mine == {i \in 1..n : talk[i].session = session}
    IN  IF mine = {} THEN 0 ELSE CHOOSE i \in mine : \A j \in mine : j <= i

(* A follow-up is answered on the last financial topic the local engine      *)
(* answered to that same session, and only while that is recent; the memory  *)
(* stays within its limit, and a recent topic is only ever forgotten for as  *)
(* many other sessions that were answered after it.                          *)
TopicIsTheSessionsOwn ==
    /\ reply # NoReply /\ reply.followed =>
        LET last == LastTurn(reply.session, reply.turn)
        IN  /\ last > 0
            /\ talk[last].topic = reply.intent
            /\ reply.at - talk[last].updatedAt <= MemoryTtl
    /\ Cardinality(DOMAIN memory) <= MaxSessions
    /\ \A s \in ChatSessions :
        LET last == LastTurn(s, Len(talk))
            later == {talk[i].session : i \in (last + 1)..Len(talk)}
        IN  \/ last = 0
            \/ chatClock - talk[last].updatedAt > MemoryTtl
            \/ Cardinality(later) >= MaxSessions
            \/ /\ s \in DOMAIN memory
               /\ memory[s] = [topic |-> talk[last].topic, updatedAt |-> talk[last].updatedAt,
                               turn |-> last]
=============================================================================
