----------------------------- MODULE MCBackend -----------------------------
\* The parts beside the job pipeline and the forest, each as an area of one
\* instance for TLC: those of the backend, and the purchases of the client. The areas share no state, but for the clock and the
\* subjects of SubjectData and the deletion, which reaches the three areas that
\* keep a subject's data; so a behaviour stays in the area it starts in.
EXTENDS SubjectData, OfficialData, LocalExecution, RequestGate, RateLimiter,
        Forecasting, ReceiptParsing, CoachConversation, GroundedCoach, ModelRelease,
        PremiumPurchase

CONSTANT Areas
VARIABLE area

-----------------------------------------------------------------------------
\* Values of the constants, area by area.

MCSymmetry ==
  Permutations(Requests) \union Permutations(Calls) \union Permutations(Handlers)

\* billing, accepting
SomeSubject == CHOOSE s \in Subjects : TRUE
Root == [name |-> "root", issuer |-> "root", authority |-> TRUE, valid |-> 0 .. 9,
         key |-> "kr", signer |-> "kr"]
Leaf == [name |-> "leaf", issuer |-> "root", authority |-> FALSE, valid |-> 0 .. 2,
         key |-> "kl", signer |-> "kr"]
Proof(chain, signed, revoked) ==
  [account |-> SomeSubject, x5c |-> chain, signer |-> "kl", well_formed |-> TRUE,
   bundle_ours |-> TRUE, environment_ours |-> TRUE, product |-> "pro",
   transaction |-> "tx1", signed |-> signed, purchased |-> 1, expires |-> 3,
   revoked |-> revoked]
MCProducts == {"pro"}
MCTokens == {"t1"}
MCTokenInfo == [t1 |-> [package_ours |-> TRUE, acknowledgement |-> "pending", test |-> FALSE,
                        account |-> SomeSubject, products |-> {"pro"}]]
MCProofs == {Proof(<<Leaf, Root>>, 1, 0), Proof(<<Leaf>>, 2, 2)}
MCPayloads == {{[key |-> "amount", depth |-> 1]}, {[key |-> "iban", depth |-> 1]},
               {[key |-> "amount", depth |-> 1], [key |-> "x", depth |-> 3]}}

\* official: three versions of a TUIK table, a broken one, an EVDS answer, and
\* providers that redirect, fail, ask for patience or answer with rubbish.
HttpAnswer(status, retry, document) ==
  [kind |-> "answer", status |-> status, retry_after |-> retry, declared |-> {},
   bytes |-> 1, media_type |-> "application/json", document |-> document]
HttpRedirect(origin) == [kind |-> "redirect", origin |-> origin]
Figure(series, period, number) ==
  [series |-> series, period |-> period, release |-> 3, day |-> 1,
   fields |-> {"Tarih", "value"}, value |-> [form |-> "plain", number |-> number]]
Document(source, version, rows) ==
  [source |-> source, version |-> version, etag |-> "e1", content |-> version,
   total |-> Len(rows), rows |-> rows]
MCDocuments ==
  {Document("tuik", "v1", <<Figure(1, 2, 5), Figure(1, 1, 4), Figure(2, 1, 3), Figure(2, 2, 3)>>),
   Document("tuik", "v2", <<Figure(1, 1, 4), Figure(1, 2, 5)>>),
   Document("tuik", "v3", <<Figure(2, 1, 4)>>),
   Document("tuik", "v4", <<Figure(1, 1, 4), Figure(1, 1, 5)>>),
   Document("tcmb_evds", "none", <<Figure(3, 1, 4)>>)}
MCResponses ==
  {HttpRedirect("tuik"), HttpRedirect("elsewhere"), HttpAnswer(503, {}, {}),
   HttpAnswer(429, {-1}, {}), HttpAnswer(404, {}, {})}
  \union {HttpAnswer(200, {}, {d}) : d \in MCDocuments}
\* For liveness: less of what ends a fetch at once.
MCLivelyResponses ==
  {HttpRedirect("tuik"), HttpAnswer(503, {}, {})}
  \union {HttpAnswer(200, {}, {d}) : d \in {d \in MCDocuments : d.source = "tuik"}}

\* gate
Configured(environment, mode, stores) ==
  [environment |-> environment, mode |-> mode, database |-> stores, redis |-> stores,
   jwt_key |-> TRUE, otlp |-> TRUE, insecure_auth |-> FALSE, anthropic |-> stores,
   apple_root |-> FALSE, apple_secret |-> FALSE, ocr_detection |-> TRUE,
   ocr_recognition |-> TRUE, ocr_installed |-> TRUE,
   origins |-> {[well_formed |-> TRUE, scheme |-> "https", loopback |-> FALSE]}]
LocalSettings == Configured("development", "local", FALSE)
MCConfigurations ==
  {LocalSettings, Configured("production", "queue", TRUE),
   Configured("development", "queue", FALSE), Configured("production", "local", TRUE)}
Exchange(route, media, keyNames, parsed, chunks, declared) ==
  [route |-> route, media |-> media, body |-> {[key |-> k, depth |-> 1] : k \in keyNames},
   parsed |-> parsed, valid |-> parsed /\ keyNames \subseteq {"series", "question"},
   chunks |-> chunks, declared |-> declared]
MCExchanges ==
  {Exchange(route, "none", {}, TRUE, <<0>>, {}) : route \in Bodyless} \union
  {Exchange(route, media, keyNames, parsed, chunks, {}) :
     route \in {"coach", "billing"}, media \in {"application/json", "other+json"},
     keyNames \in {{"question"}, {"question", "iban"}}, parsed \in BOOLEAN,
     chunks \in {<<2>>, <<1, 1>>, <<1, 2>>}} \union
  {Exchange("receipts", "multipart", {}, TRUE, <<2, 2>>, {n}) : n \in {4, 9}}

\* forecast
MCRelease == [w \in ForecastWorkers |-> IF w = "w1" THEN "v1" ELSE "v2"]
MCSeries == {<<1, 3, 1, 3, 2, 4, 2, 9>>, <<1, 1, 2, 2, 3, 3, 4, 4>>}
ProphetRun(bias, below, above, fits) ==
  [bias |-> bias, below |-> below, above |-> above, fits |-> fits]
MCRuns == {ProphetRun(1, 0, 0, 8), ProphetRun(1, 1, 0, 7), ProphetRun(1, -1, 2, 8),
           ProphetRun(0, 1, 1, 5)}

\* receipt: two papers and two with amounts of a million; boxes ten pixels
\* apart that lean by up to two, in either order, any one of them misread.
Lira(n) ==
  [front |-> n \div 1000, last |-> n % 1000, cents |-> <<>>,
   groups |-> IF n < 1000 THEN 1 ELSE IF n < 1000000 THEN 2 ELSE 3]
Blank == [Word EXCEPT !.is = "blank"]
Item(quantity, unit, total) ==
  [quantity |-> Lira(quantity), unit |-> Lira(unit), total |-> Lira(total)]
Paper(items, tax, discount, total) ==
  [items |-> items, tax |-> Lira(tax), discount |-> Lira(discount), total |-> Lira(total)]
Papers ==
  {Paper(<<Item(2, 3, 6), Item(1, 1250, 1250)>>, 5, 4, 1257), Paper(<<Item(3, 4, 12)>>, 2, 2, 12)}
LargePapers == {Paper(<<Item(1, n, n)>>, 0, 0, n) : n \in {1250000, 1250555}}
Places(paper) ==
  LET printed == PrintedRows(paper)
  IN FlattenSeq([r \in DOMAIN printed |-> [c \in DOMAIN printed[r] |-> <<r, c>>]])
BoxAt(place, token, skew) ==
  LET top == 10 * place[1] + IF place[2] % 2 = 0 THEN skew ELSE 0 - skew
  IN [token |-> token, left |-> 10 * place[2], top |-> top, bottom |-> top + 8,
      confidence |-> 90]
OcrAnswer(paper, places, lines) ==
  [paper |-> paper, scores |-> Len(lines), lines |-> lines, place |-> places]
Reading(paper, places, skew) ==
  OcrAnswer(paper, places,
    [i \in DOMAIN places |->
      BoxAt(places[i], PrintedRows(paper)[places[i][1]][places[i][2]], skew)])
MisreadAnswers(answer) ==
  {[answer EXCEPT !.lines[i].token = token, !.lines[i].confidence = confidence] :
     i \in 2 .. Len(answer.lines), token \in {Blank, Word, Money(Lira(7)), Times(Lira(9))},
     confidence \in {60, 90}}
  \union {[answer EXCEPT !.lines[i].confidence = 60] : i \in DOMAIN answer.lines}
MCAnswers ==
  UNION {{Reading(p, Reverse(Places(p)), skew)} \union MisreadAnswers(Reading(p, Places(p), skew))
           \union {Reading(p, Places(p), skew)} : p \in Papers, skew \in {0, 2}}
  \union {Reading(p, Places(p), 0) : p \in LargePapers}
  \union {OcrAnswer(p, <<>>, <<>>) : p \in Papers}
  \union {[OcrAnswer(p, <<>>, <<>>) EXCEPT !.scores = 3] : p \in Papers}
ASSUME AnswersAssumption == AnswersReadPapers

MCImages ==
  LET good == [bytes |-> 5, signature |-> "PNG", format |-> "PNG", corrupt |-> FALSE,
               frames |-> 1, pixels |-> 4]
  IN {good, [good EXCEPT !.bytes = 9], [good EXCEPT !.bytes = 0], [good EXCEPT !.signature = "EXE"],
      [good EXCEPT !.corrupt = TRUE], [good EXCEPT !.format = "GIF"], [good EXCEPT !.frames = 2],
      [good EXCEPT !.pixels = 99]}

\* chat
MCIntents == <<"fraud", "debt", "savings", "greeting">>
Unmatched == [i \in {"fraud", "debt", "savings", "greeting"} |-> 0]
Asked(user, route, followUp, words) ==
  [user |-> user, route |-> route, followUp |-> followUp, words |-> words]
MCQuestions ==
  {Asked([Unmatched EXCEPT !["debt"] = 11], Unmatched, FALSE, {}),
   Asked(Unmatched, [Unmatched EXCEPT !["savings"] = 5, !["greeting"] = 5], FALSE, {}),
   Asked(Unmatched, Unmatched, TRUE, {"hangisi", "kadar"}),
   Asked([Unmatched EXCEPT !["fraud"] = 10], Unmatched, TRUE, {"ne"}),
   Asked([Unmatched EXCEPT !["greeting"] = 6], Unmatched, FALSE, {})}

\* grounded
Card(series, period, released, size, escaping) ==
  [series |-> series, period |-> period, released |-> released, size |-> size,
   escaping |-> escaping]
MCCards ==
  {Card(1, 2, 3, 2, 0), Card(1, 1, 3, 4, 0), Card(2, 1, 3, 3, 1), Card(2, 1, 1, 2, 0)}
CoachQuestion(length, masking, escaping, matches) ==
  [length |-> length, masking |-> masking, escaping |-> escaping, matches |-> matches]
MCCoachQuestions ==
  {CoachQuestion(3, 0, 0, {1, 2}), CoachQuestion(4, 1, 0, {1}), CoachQuestion(4, 0, 6, {1, 2}),
   CoachQuestion(2, -1, 1, {2})}
MCReplies ==
  {[kind |-> k, cites |-> <<>>] : k \in Transient \union Permanent}
  \union {[kind |-> "answer", cites |-> c] :
            c \in {<<>>, <<1>>, <<2>>, <<2, 1>>, <<3, 2>>, <<1, 1>>, <<0>>, <<3, 2, 1>>}}

\* release: eight periods, the fifth fits the calibration, the sixth chooses it,
\* the last two are the holdout.
Observed(period, score, label) == [period |-> period, score |-> score, label |-> label]
History(fit, hold) ==
  <<Observed(1, 1, 0), Observed(2, 2, 1), Observed(3, 1, 0), Observed(4, 3, 1)>>
  \o [i \in DOMAIN fit |-> Observed(5, fit[i][1], fit[i][2])]
  \o <<Observed(6, 1, 0), Observed(6, 2, 0), Observed(6, 3, 1), Observed(6, 4, 1)>>
  \o [i \in DOMAIN hold |-> Observed(7 + (i % 2), hold[i][1], hold[i][2])]
MCFits == {<< <<1, a>>, <<2, b>>, <<x, c>>, <<x + 1, d>> >> : a, b, c, d \in {0, 1}, x \in {2, 3}}
MCHolds ==
  {<< <<1, 0>>, <<2, 0>>, <<3, 1>>, <<4, 1>> >>, << <<1, 0>>, <<2, 1>>, <<2, 0>>, <<4, 1>> >>,
   << <<1, 1>>, <<2, 0>>, <<3, 0>>, <<4, 1>> >>, << <<2, 1>>, <<3, 1>> >>}
Dataset(rows) ==
  [rows |-> rows, rowCount |-> Len(rows), digestMatches |-> TRUE,
   features |-> {[from |-> -30, to |-> 0]}, start |-> 1, end |-> 8, synthetic |-> FALSE,
   purpose |-> "training"]
MCDatasets ==
  LET base == Dataset(History(<< <<1, 0>>, <<2, 1>> >>,
                              << <<1, 0>>, <<2, 0>>, <<3, 1>>, <<4, 1>> >>))
  IN {Dataset(History(fit, hold)) : fit \in MCFits, hold \in MCHolds}
     \union {[base EXCEPT !.synthetic = TRUE], [base EXCEPT !.purpose = "test"],
             [base EXCEPT !.digestMatches = FALSE], [base EXCEPT !.rowCount = 3],
             [base EXCEPT !.features = {[from |-> -3, to |-> 1]}], [base EXCEPT !.end = 9],
             [Dataset(SubSeq(base.rows, 1, 4)) EXCEPT !.end = 4]}
MCSigmoid == <<4, 5, 7, 8>>
MCPlatt == {<<1, 5, 8, 11>>, <<6, 6, 6, 6>>}

\* store: an empty list, a purchase without proof, which takes the path of a
\* cancelled one, before one that is to be completed, and a purchase of something
\* else.
StoreItem(id, status) ==
  [id |-> id, ours |-> TRUE, status |-> status, proof |-> TRUE, unfinished |-> TRUE]
MCDeliveries ==
  {<< >>,
   <<[StoreItem("p1", "restored") EXCEPT !.proof = FALSE], StoreItem("p2", "purchased")>>,
   <<[StoreItem("p1", "purchased") EXCEPT !.ours = FALSE]>>}

-----------------------------------------------------------------------------
SubjectAreas == {"billing", "accepting", "comparing"}

backendVars ==
  <<area, subjectVars, officialVars, localVars, gateVars, rateVars, forecastVars,
    receiptVars, chatVars, groundedVars, releaseVars, premiumVars>>

\* A part with several initial states is explored from each in its own area; a
\* user who had access from the start would make GrantComesFirst hold at once.
BackendInit ==
  /\ area \in Areas
  /\ SubjectInit /\ OfficialInit /\ LocalInit /\ GateInit /\ RateInit
  /\ ForecastInit /\ ReceiptInit /\ ChatInit /\ GroundedInit /\ ReleaseInit /\ PremiumInit
  /\ area = "gate" \/ settings = LocalSettings
  /\ area = "grounded" \/ publishedCards = {}
  /\ ~server.ever

\* A step of one area leaves the others alone.
Only(own) ==
  /\ area = own
  /\ UNCHANGED area
  /\ own \notin SubjectAreas => UNCHANGED subjectVars
  /\ own # "official" => UNCHANGED officialVars
  /\ own # "local" => UNCHANGED localVars
  /\ own # "gate" => UNCHANGED gateVars
  /\ own # "rate" => UNCHANGED rateVars
  /\ own # "forecast" => UNCHANGED forecastVars
  /\ own # "receipt" => UNCHANGED receiptVars
  /\ own # "chat" => UNCHANGED chatVars
  /\ own # "grounded" => UNCHANGED groundedVars
  /\ own # "release" => UNCHANGED releaseVars
  /\ own # "store" => UNCHANGED premiumVars

BackendNext ==
  \/ Only("billing") /\ Billing /\ Written
  \/ Only("accepting") /\ Accepting /\ Written
  \/ Only("comparing") /\ Comparing /\ Written
  \/ \E own \in SubjectAreas, s \in Subjects : Only(own) /\ DeleteSubject(s)
  \/ \E own \in SubjectAreas : Only(own) /\ Tick
  \/ Only("official") /\ OfficialNext
  \/ Only("local") /\ LocalNext
  \/ Only("gate") /\ GateNext
  \/ Only("rate") /\ RateNext
  \/ Only("forecast") /\ ForecastNext
  \/ Only("receipt") /\ ReceiptNext
  \/ Only("chat") /\ ChatNext
  \/ Only("grounded") /\ GroundedNext
  \/ Only("release") /\ ReleaseNext
  \/ Only("store") /\ PremiumNext

BackendSpec == BackendInit /\ [][BackendNext]_backendVars

ProgressSpec ==
  BackendSpec /\ LocalFairness /\ RetentionFairness /\ PublisherFairness /\ PremiumFairness

\* What is begun comes to an end: a retention pass although rows keep expiring, a
\* publisher whoever holds the row lock, a job of the local runtime, and the wait
\* of a user who tapped to buy (RetentionWorker.run, publish, _run, purchase).
WorkEnds == PassEnds /\ PublisherEnds /\ LocalJobsSettle /\ TapEnds

\* The type invariants of all parts at once. Besides the types they bound the
\* requests, waits and origins of OfficialHttpClient, the size of a rate window,
\* the life of cache entries and images, and keep the foreign keys of the tables
\* (official_data/clients/base.py, redis_rate_limit.py, infrastructure/tables.py).
BackendTypeOK ==
  /\ SubjectTypeOK /\ OfficialTypeOK /\ LocalTypeOK /\ GateTypeOK /\ RateTypeOK
  /\ ForecastTypeOK /\ ReceiptTypeOK /\ ChatTypeOK /\ GroundedTypeOK /\ ReleaseTypeOK
=============================================================================
