---------------------------- MODULE OfficialData ----------------------------
\* Fetching, publishing and serving official statistics
\* (src/backend/src/maki/official_data, infrastructure/official_data_repository.py,
\* api/routes/official_data.py). Workers fetch a source over HTTP with bounded
\* redirects and retries and publish what they parsed; several may publish the
\* same source at once. The route serves the published snapshot.
EXTENDS Integers, FiniteSets, Sequences, SequencesExt

CONSTANTS
  Publishers,        \* processes that fetch and publish
  Sources,           \* "tuik", "tcmb_evds"
  Responses,         \* what a provider may answer to one request
  MaximumRedirects,  \* 3
  MaximumAttempts,   \* 3
  MaximumDelay,      \* 5 seconds, in quarters of a second
  MaximumBytes,      \* 5 MiB
  Today,             \* the period of the clock, the release date of EVDS points
  General            \* the series TUFE_GENEL; series are numbered in order of their names

Nobody == "nobody"

\* A document is a finite table, whatever its cells say.
ASSUME FetchAssumption ==
  /\ MaximumRedirects \in Nat /\ MaximumAttempts \in Nat \ {0} /\ MaximumDelay \in Nat
  /\ Nobody \notin Publishers /\ "tuik" \in Sources
  /\ \A response \in Responses : response.kind = "answer" =>
       /\ response.retry_after \subseteq Int
       /\ \A d \in response.document : Len(d.rows) \in Nat /\ DOMAIN d.rows = 1 .. Len(d.rows)

VARIABLES
  worker,       \* each publisher's fetch, then its publication
  snapshots,    \* table source_snapshots with its points: identity -> row
  publication,  \* table source_publications: the identity each source points to
  lock,         \* the row lock on a publication and its holder
  served        \* the latest answer of the inflation route

officialVars == <<worker, snapshots, publication, lock, served>>

Unpublished == << >>
Waiting == [stage |-> "waiting"]

-----------------------------------------------------------------------------
\* From a document to a snapshot.

\* normalize_decimal: Turkish grouping with a decimal comma, or a plain decimal
\* number with either separator; "1.234" is therefore a fraction.
IsDecimal(text) == text.form \in {"grouped_comma", "plain"}

\* Series and months are numbered in their order, an amount in its smallest unit.
ASSUME TableAssumption ==
  \A response \in Responses : response.kind = "answer" =>
    \A d \in response.document : \A i \in DOMAIN d.rows :
      /\ d.rows[i].series \in Int /\ d.rows[i].period \in Int
      /\ IsDecimal(d.rows[i].value) => d.rows[i].value.number \in Int

\* SeriesPoint: monthly periods begin on the first, no release before the period.
PointAllowed(point) == point.day = 1 /\ point.release >= point.period

TuikParses(document) ==
  /\ document.version # "none"
  /\ document.rows # << >>
  /\ \A i \in DOMAIN document.rows :
       IsDecimal(document.rows[i].value) /\ PointAllowed(document.rows[i])

\* EVDS counts its items, knows every field of a row, and may carry its version in
\* the ETag.
EvdsParses(document) ==
  /\ document.total = Len(document.rows)
  /\ \A i \in DOMAIN document.rows :
       /\ {"Tarih", "value"} \subseteq document.rows[i].fields
       /\ document.rows[i].fields \subseteq {"Tarih", "value", "UNIXTIME"}
       /\ IsDecimal(document.rows[i].value)
       /\ PointAllowed([document.rows[i] EXCEPT !.release = Today])
  /\ document.version # "none" \/ document.etag # "none"

Parses(document) ==
  IF document.source = "tuik" THEN TuikParses(document) ELSE EvdsParses(document)

\* sorted, which is stable, by series and period: the rows at some places of a
\* table; written with ranks, because the proof system does not know SortSeq.
Precedes(p, q) == p.series < q.series \/ (p.series = q.series /\ p.period < q.period)
Earlier(points, j, i) ==
  \/ Precedes(points[j], points[i])
  \/ ~Precedes(points[i], points[j]) /\ j < i
SortedAt(points, places) ==
  LET Rank(i) == Cardinality({j \in places : Earlier(points, j, i)})
  IN [n \in 1 .. Cardinality(places) |-> points[CHOOSE i \in places : Rank(i) = n - 1]]
Sorted(points) == SortedAt(points, DOMAIN points)

Snapshot(document) ==
  [source |-> document.source,
   version |-> IF document.version # "none" THEN document.version ELSE document.etag,
   content |-> document.content,
   points |-> Sorted([i \in DOMAIN document.rows |->
                        [series |-> document.rows[i].series, period |-> document.rows[i].period,
                         value |-> document.rows[i].value.number]])]

Identity(snapshot) == <<snapshot.source, snapshot.version, snapshot.content>>

-----------------------------------------------------------------------------
\* The HTTP client. What a response may lack is a set with one or no element.
The(header) == CHOOSE value \in header : TRUE

\* Mutant: a pause in the past is not rounded up to none.
RetryDelayUnclamped(response, attempt) ==
  LET wished == IF response.retry_after # {} THEN The(response.retry_after) ELSE 2 ^ attempt
  IN IF wished > MaximumDelay THEN MaximumDelay ELSE wished

\* Retry-After if the provider names one, else 0.25 s doubled by every attempt.
RetryDelay(response, attempt) ==
  LET wished == IF response.retry_after # {} THEN The(response.retry_after) ELSE 2 ^ attempt
  IN IF wished > MaximumDelay THEN MaximumDelay ELSE IF wished < 0 THEN 0 ELSE wished

Busy(response) == response.status = 429 \/ response.status >= 500

\* A body that is read to its end.
Bounded(response) ==
  /\ \A length \in response.declared : length <= MaximumBytes
  /\ response.bytes <= MaximumBytes

Decoded(response) ==
  /\ response.status \in 200 .. 299
  /\ response.media_type \in {"application/json", "text/json"}
  /\ response.document # {}

StartFetch(p, source) ==
  /\ worker[p] = Waiting
  /\ worker' = [worker EXCEPT ![p] =
       [stage |-> "sending", source |-> source, origin |-> source,
        attempt |-> 0, hops |-> 0, sent |-> 1, slept |-> 0]]
  /\ UNCHANGED <<snapshots, publication, lock, served>>

\* A redirect within the origin is followed, up to the limit; any other ends the
\* fetch before it is followed.
Redirected(p, response) ==
  LET w == worker[p]
  IN /\ response.kind = "redirect"
     /\ worker' = [worker EXCEPT ![p] =
          IF response.origin = w.source /\ w.hops < MaximumRedirects
          THEN [w EXCEPT !.hops = @ + 1, !.sent = @ + 1, !.origin = response.origin]
          ELSE Waiting]

\* 429 and 5xx are retried from the first address after a pause, unless this was
\* the last attempt; any other status, and a body too long or unparsable, ends
\* the fetch.
Answered(p, response) ==
  LET w == worker[p]
  IN /\ response.kind = "answer"
     /\ worker' = [worker EXCEPT ![p] =
          CASE Bounded(response) /\ Busy(response) /\ w.attempt < MaximumAttempts - 1 ->
                 [w EXCEPT !.attempt = @ + 1, !.hops = 0, !.sent = @ + 1, !.origin = w.source,
                           !.slept = @ + RetryDelay(response, w.attempt)]
            [] Bounded(response) /\ Decoded(response) /\ Parses(The(response.document)) ->
                 [stage |-> "fetched", snapshot |-> Snapshot(The(response.document)), again |-> FALSE]
            [] OTHER -> Waiting]

Receive(p, response) ==
  /\ worker[p].stage = "sending"
  /\ response.kind = "answer" => \A d \in response.document : d.source = worker[p].source
  /\ Redirected(p, response) \/ Answered(p, response)
  /\ UNCHANGED <<snapshots, publication, lock, served>>

-----------------------------------------------------------------------------
\* OfficialDataService.publish and the repository.

Published(source) == snapshots[publication[source]]

Shrinks(snapshot) ==
  /\ publication[snapshot.source] # Unpublished
  /\ Len(snapshot.points) * 2 < Len(Published(snapshot.source).points)

SeriesPeriods(points) == {<<points[i].series, points[i].period>> : i \in DOMAIN points}

\* publish, before its transaction: a known snapshot is returned as it is; an
\* empty one, one with a period twice and one that shrinks are refused.
Look(p) ==
  LET s == worker[p].snapshot
  IN /\ worker[p].stage = "fetched"
     /\ worker' = [worker EXCEPT ![p] =
          IF \/ Identity(s) \in DOMAIN snapshots
             \/ s.points = << >>
             \/ Cardinality(SeriesPeriods(s.points)) # Len(s.points)
             \/ Shrinks(s)
          THEN Waiting ELSE [@ EXCEPT !.stage = "looked"]]
     /\ UNCHANGED <<snapshots, publication, lock, served>>

\* _publish_once looks the snapshot up again, in a new transaction.
Begin(p) ==
  /\ worker[p].stage = "looked"
  /\ worker' = [worker EXCEPT ![p] =
       IF Identity(@.snapshot) \in DOMAIN snapshots THEN Waiting ELSE [@ EXCEPT !.stage = "began"]]
  /\ UNCHANGED <<snapshots, publication, lock, served>>

\* Then the publication of the source is locked, if there is one, and compared.
Compare(p) ==
  LET s == worker[p].snapshot
      locks == publication[s.source] # Unpublished
  IN /\ worker[p].stage = "began"
     /\ locks => lock[s.source] = Nobody
     /\ IF Shrinks(s)
        THEN worker' = [worker EXCEPT ![p] = Waiting] /\ UNCHANGED lock
        ELSE /\ worker' = [worker EXCEPT ![p] =
                  [stage |-> "writing", snapshot |-> s, again |-> @.again, locks |-> locks]]
             /\ lock' = IF locks THEN [lock EXCEPT ![s.source] = p] ELSE lock
     /\ UNCHANGED <<snapshots, publication, served>>

\* Mutant: the connection goes back to the pool with its transaction open.
NotReleased(p) == lock

Released(p) == [s \in Sources |-> IF lock[s] = p THEN Nobody ELSE lock[s]]

\* Mutant: no unique key on the source of a publication.
ConflictsOnIdentity(p) == Identity(worker[p].snapshot) \in DOMAIN snapshots

\* The writes commit, unless a unique key refuses them: the identity was stored
\* meanwhile, or the first publication of the source was.
Conflicts(p) ==
  LET s == worker[p].snapshot
  IN \/ Identity(s) \in DOMAIN snapshots
     \/ ~worker[p].locks /\ publication[s.source] # Unpublished

Commit(p) ==
  LET s == worker[p].snapshot
  IN /\ worker[p].stage = "writing"
     /\ IF Conflicts(p)
        THEN /\ worker' = [worker EXCEPT ![p] =
                  IF @.again THEN Waiting
                  ELSE [stage |-> "refused", snapshot |-> s, again |-> TRUE]]
             /\ UNCHANGED <<snapshots, publication>>
        ELSE /\ worker' = [worker EXCEPT ![p] = Waiting]
             /\ snapshots' = [i \in DOMAIN snapshots \union {Identity(s)} |->
                  IF i = Identity(s) THEN [state |-> "published", points |-> s.points]
                  ELSE snapshots[i]]
             /\ publication' = [publication EXCEPT ![s.source] = Identity(s)]
     /\ lock' = Released(p)
     /\ UNCHANGED served

\* After IntegrityError: the winner's snapshot is returned if it is the same one,
\* otherwise the transaction is tried once more.
Recover(p) ==
  /\ worker[p].stage = "refused"
  /\ worker' = [worker EXCEPT ![p] =
       IF Identity(@.snapshot) \in DOMAIN snapshots THEN Waiting ELSE [@ EXCEPT !.stage = "looked"]]
  /\ UNCHANGED <<snapshots, publication, lock, served>>

\* The total timeout, a connection error or the end of the process: nothing of
\* an open transaction stays, its lock is released.
Abandon(p) ==
  /\ worker[p] # Waiting
  /\ worker' = [worker EXCEPT ![p] = Waiting]
  /\ lock' = Released(p)
  /\ UNCHANGED <<snapshots, publication, served>>

-----------------------------------------------------------------------------
\* GET /official-data/inflation/latest.

\* The points of TUFE_GENEL if there is one, else of the first series with two,
\* by period.
ServedPoints(points) ==
  LET Group(series) == {i \in DOMAIN points : points[i].series = series}
      long == {s \in {points[i].series : i \in DOMAIN points} : Cardinality(Group(s)) >= 2}
  IN SortedAt(points,
       CASE Group(General) # {} -> Group(General)
         [] Group(General) = {} /\ long # {} -> Group(CHOOSE s \in long : \A t \in long : s <= t)
         [] OTHER -> {})

\* ROUND_HALF_EVEN of a quotient with a positive denominator.
RoundHalfEven(n, d) ==
  LET q == n \div d  r == n % d
  IN IF 2 * r > d \/ (2 * r = d /\ q % 2 = 1) THEN q + 1 ELSE q

\* LatestInflationResponse: the rate in basis points.
Rates == -10000 .. 100000

\* The rate between the last two periods; a rate out of the bounds of the
\* response model is an internal error.
Inflation(points) ==
  LET n == Len(points)
  IN IF n < 2 \/ points[n - 1].value <= 0
     THEN [status |-> "not_ready"]
     ELSE LET previous == points[n - 1]  latest == points[n]
              rate == RoundHalfEven(10000 * (latest.value - previous.value), previous.value)
          IN IF rate \in Rates
             THEN [status |-> "ok", previous |-> previous, latest |-> latest, rate |-> rate]
             ELSE [status |-> "error"]

ServeInflation ==
  /\ served' = IF publication["tuik"] = Unpublished THEN [status |-> "not_ready"]
               ELSE Inflation(ServedPoints(Published("tuik").points))
  /\ UNCHANGED <<worker, snapshots, publication, lock>>

-----------------------------------------------------------------------------
OfficialInit ==
  /\ worker = [p \in Publishers |-> Waiting]
  /\ snapshots = << >>
  /\ publication = [s \in Sources |-> Unpublished]
  /\ lock = [s \in Sources |-> Nobody]
  /\ served = [status |-> "none"]

OfficialNext ==
  \/ \E p \in Publishers :
       \/ \E source \in Sources : StartFetch(p, source)
       \/ \E response \in Responses : Receive(p, response)
       \/ Look(p) \/ Begin(p) \/ Compare(p) \/ Commit(p) \/ Recover(p)
       \/ Abandon(p)
  \/ ServeInflation

OfficialSpec == OfficialInit /\ [][OfficialNext]_officialVars

\* A provider answers or the client gives up (the total timeout), and the
\* database grants a row lock in the order of the requests: who waits for it is
\* served though others go on taking it. No publisher is obliged to fetch, or to
\* fail.
PublisherStep(p) ==
  \/ \E response \in Responses : Receive(p, response)
  \/ worker[p].stage = "sending" /\ Abandon(p)
  \/ Look(p) \/ Begin(p) \/ Compare(p) \/ Commit(p) \/ Recover(p)

PublisherFairness ==
  \A p \in Publishers : WF_officialVars(PublisherStep(p)) /\ SF_officialVars(Compare(p))

-----------------------------------------------------------------------------
\* A provider that redirects and fails in any pattern gets a bounded number of
\* requests, the waits are bounded and no request leaves the origin of the source
\* (OfficialHttpClient._get_with_retries, _send).
RequestsAreBounded ==
  \A p \in Publishers : worker[p].stage = "sending" =>
    /\ worker[p].sent \in 1 .. (MaximumRedirects + 1) * MaximumAttempts
    /\ worker[p].slept \in 0 .. (MaximumAttempts - 1) * MaximumDelay
    /\ worker[p].origin = worker[p].source

\* Besides the types and these bounds: the served inflation is the change between
\* two different periods of one series, the later one last, whatever was published.
OfficialTypeOK ==
  /\ \A p \in Publishers :
       worker[p].stage \in
         {"waiting", "sending", "fetched", "looked", "began", "writing", "refused"}
  /\ RequestsAreBounded
  /\ \A s \in Sources :
       /\ publication[s] = Unpublished \/ publication[s] \in DOMAIN snapshots
       /\ lock[s] \in Publishers \union {Nobody}
  /\ \A id \in DOMAIN snapshots : id[1] \in Sources
  /\ served.status = "ok" =>
       /\ served.previous.series = served.latest.series
       /\ served.previous.period < served.latest.period
       /\ served.previous.value > 0

\* Whatever publishers race, what a source points to never loses more than half
\* of its points in one publication (UnexpectedSourceShrinkError).
NoSharpShrink ==
  [][\A s \in Sources : publication[s] # Unpublished =>
       2 * Len(snapshots'[publication'[s]].points) >= Len(Published(s).points)]_publication

\* A fetch and its publication end: no chain of redirects, retries and lost races
\* goes on for ever, and nobody waits for ever for the lock of a publication
\* though others go on publishing (fetch_with_retries, publish).
PublisherEnds == \A p \in Publishers : worker[p] # Waiting ~> worker[p] = Waiting
=============================================================================
