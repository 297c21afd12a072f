----------------------------- MODULE RateLimiter -----------------------------
\* The sliding-window rate limiter (infrastructure/redis_rate_limit.py,
\* security/rate_limit.py), for one subject and route. The script runs in Redis
\* as one step; each process passes the reading of its own clock.
EXTENDS Tables, Integers, FiniteSets, Functions

CONSTANTS
  RequestIds,  \* request ids; a client may use one twice
  MaxRequests, \* policy.limit
  Window,      \* policy.window_seconds
  Grace,       \* what PEXPIRE adds to the window, 1000 ms
  Drift,       \* bound: how far the clock of a process is ahead of the slowest
  FailOpen,    \* fail_open
  RateEnd      \* bound: the last reading of the clock

ASSUME RateAssumption ==
  /\ MaxRequests \in Nat \ {0} /\ Window \in Nat \ {0} /\ FailOpen \in BOOLEAN
  /\ Drift \in Nat /\ Grace \in Nat /\ RateEnd \in Nat

VARIABLES
  hits,       \* the sorted set of the key: request id -> score
  lapses,     \* when Redis drops the key
  time,       \* the time, as the slowest process reads it
  admissions, \* history: <<request id, time>> of requests admitted by the script
  decision    \* the latest decision

rateVars == <<hits, lapses, time, admissions, decision>>

\* Redis drops the key when its time to live has passed.
Stored == IF lapses <= time THEN << >> ELSE hits

\* Mutant: a hit leaves one unit early.
CurrentShort(now) == Restrict(Stored, {r \in DOMAIN Stored : Stored[r] > now - Window + 1})

\* What ZREMRANGEBYSCORE leaves in the set.
Current(now) == Restrict(Stored, {r \in DOMAIN Stored : Stored[r] > now - Window})

\* The script: expired hits leave, then the request is refused or added.
Check(id, now) ==
  LET current == Current(now)
      count == Cardinality(DOMAIN current)
      oldest == CHOOSE r \in DOMAIN current : \A q \in DOMAIN current : current[r] <= current[q]
      wait == current[oldest] + Window - now
      added == With(current, id, now)
  IN IF count >= MaxRequests
     THEN /\ hits' = current
          /\ decision' = [allowed |-> FALSE, remaining |-> 0, degraded |-> FALSE,
                          retry_after |-> IF wait < 0 THEN 0 ELSE wait]
          /\ UNCHANGED <<lapses, admissions>>
     ELSE /\ hits' = added
          /\ lapses' = time + Window + Grace
          /\ decision' = [allowed |-> TRUE, degraded |-> FALSE, retry_after |-> 0,
                          remaining |-> MaxRequests - Cardinality(DOMAIN added)]
          /\ admissions' = admissions \union {<<id, time>>}

CheckRequest(id) ==
  /\ \E ahead \in 0 .. Drift : Check(id, time + ahead)
  /\ UNCHANGED time

\* Redis is not reached: the request passes unrecorded, or is refused.
Unreachable ==
  /\ decision' = [allowed |-> FailOpen, remaining |-> IF FailOpen THEN MaxRequests ELSE 0,
                  degraded |-> TRUE, retry_after |-> 0]
  /\ UNCHANGED <<hits, lapses, time, admissions>>

RateTick ==
  /\ time < RateEnd
  /\ time' = time + 1
  /\ UNCHANGED <<hits, lapses, admissions, decision>>

RateInit ==
  /\ hits = << >> /\ lapses = 0 /\ time = 1 /\ admissions = {}
  /\ decision = [allowed |-> FALSE, remaining |-> 0, degraded |-> FALSE, retry_after |-> 0]

RateNext == (\E id \in RequestIds : CheckRequest(id)) \/ Unreachable \/ RateTick

RateSpec == RateInit /\ [][RateNext]_rateVars

-----------------------------------------------------------------------------
\* Types; the sorted set holds at most the limit, and the wait a client is
\* told is within the window (redis_rate_limit.py).
RateTypeOK ==
  /\ DOMAIN hits \subseteq RequestIds /\ Cardinality(DOMAIN hits) <= MaxRequests
  /\ decision.remaining \in 0 .. MaxRequests /\ decision.retry_after \in 0 .. Window + Drift

\* In every span of Window - Drift, at most MaxRequests different requests are
\* admitted, though the processes read different clocks, requests repeat their
\* ids and the key lapses; requests that pass while Redis is out of reach are
\* not counted.
WindowBounded ==
  \A end \in 1 .. time :
    Cardinality({a[1] : a \in {b \in admissions : b[2] > end - (Window - Drift) /\ b[2] <= end}})
      <= MaxRequests
=============================================================================
