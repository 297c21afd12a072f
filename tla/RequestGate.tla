----------------------------- MODULE RequestGate -----------------------------
\* What a request passes before a service is called (api/middleware, the
\* dependencies and handlers of api/, security/tokens.py), which services a
\* configuration has (common/config.py, bootstrap.py), and what telemetry keeps
\* of a request (observability). One request at a time: requests share only the
\* configuration. Its body arrives in chunks while time passes.
EXTENDS Naturals, Sequences, FiniteSets

CONSTANTS
  Configurations,  \* settings a process may be started with
  Exchanges,       \* requests clients may send
  TokenSubjects,   \* subjects of session tokens
  DefaultBytes,    \* 1 MiB
  ReceiptBytes,    \* 8 MiB and the overhead of multipart
  BodyDepth,       \* greatest depth of a payload, 20
  PrivateKeys,     \* FORBIDDEN_KEYS
  MinTokenLife,    \* 30 s
  MaxTokenLife,    \* 3600 s
  ClockSkew,       \* clock_skew_seconds, 0 in bootstrap.py
  GateEnd          \* bound: the last reading of the clock

ASSUME GateAssumption ==
  /\ DefaultBytes \in Nat /\ ReceiptBytes \in Nat /\ BodyDepth \in Nat /\ ClockSkew \in Nat
  /\ MinTokenLife \in Nat \ {0} /\ MaxTokenLife \in Nat /\ GateEnd \in Nat \ {0}

VARIABLES
  settings,  \* the configuration of the process, fixed when it starts
  exchange,  \* the request under way
  clock,     \* the reading of the clock
  called,    \* the service call of the latest request
  recorded   \* the attributes telemetry kept of it

gateVars == <<settings, exchange, clock, called, recorded>>

-----------------------------------------------------------------------------
\* Settings and the container of services built from them.

ValidSettings(c) ==
  /\ c.apple_root <=> c.apple_secret
  /\ c.ocr_detection <=> c.ocr_recognition
  /\ c.insecure_auth => c.environment = "development"
  /\ c.mode = "local" => c.environment = "development"
  /\ \A origin \in c.origins :
       /\ origin.well_formed
       /\ c.environment = "development" \/ origin.scheme = "https"
       /\ origin.scheme = "http" => origin.loopback
  /\ c.environment = "production" => c.database /\ c.redis /\ c.jwt_key /\ c.otlp

EnabledKinds(c) ==
  IF c.mode = "local"
  THEN {"coach"} \union (IF c.ocr_detection /\ c.ocr_installed THEN {"receipt"} ELSE {})
  ELSE {"forecast"} \union (IF c.anthropic THEN {"coach"} ELSE {})
                    \union (IF c.ocr_detection THEN {"receipt"} ELSE {})

\* The services a container holds.
Container(c) ==
  (IF c.jwt_key THEN {"token_verifier"} ELSE {}) \union
  (IF c.database THEN {"official_data"} ELSE {}) \union
  (IF c.mode = "local"
   THEN {"job_service", "receipt_ingress", "job_query", "coach_request_acceptor"}
   ELSE (IF c.database
         THEN {"billing_verification", "data_exporter", "deletion_service", "leaderboard"}
         ELSE {}) \union
        (IF c.database /\ c.redis THEN {"job_service", "receipt_ingress", "job_query"} ELSE {}))

\* The dependencies of the routes.
Needs ==
  [health |-> {}, official_data |-> {"official_data"},
   jobs |-> {"token_verifier", "job_query"},
   forecasts |-> {"token_verifier", "job_service"},
   coach |-> {"token_verifier", "job_service"},
   receipts |-> {"token_verifier", "job_service", "receipt_ingress"},
   leaderboard |-> {"token_verifier", "leaderboard"},
   billing |-> {"token_verifier", "billing_verification"},
   export |-> {"token_verifier", "data_exporter"},
   deletion |-> {"token_verifier", "deletion_service"}, unknown |-> {}]

\* Routes whose requests have no body.
Bodyless == {"health", "official_data", "jobs", "export", "deletion", "unknown"}

JobKindOf == [forecasts |-> "forecast", coach |-> "coach", receipts |-> "receipt"]

\* Coach and receipt jobs also need their kind to be enabled; forecasts do not.
Ready(c, route) ==
  /\ Needs[route] \subseteq Container(c)
  /\ route \in {"coach", "receipts"} => JobKindOf[route] \in EnabledKinds(c)

Capabilities(c) ==
  [fis_tarama |-> "receipt" \in EnabledKinds(c), maki_koc |-> "coach" \in EnabledKinds(c)]

-----------------------------------------------------------------------------
\* Session tokens.

Issued(subject, ttl, at) ==
  [sub |-> subject, iat |-> at, nbf |-> at, exp |-> at + ttl, genuine |-> TRUE]

KnownTokens ==
  {Issued(s, ttl, at) : s \in TokenSubjects, ttl \in MinTokenLife .. MaxTokenLife, at \in 1 .. GateEnd}
    \union {[Issued(s, MinTokenLife, 1) EXCEPT !.genuine = FALSE] : s \in TokenSubjects}

\* Mutant: a session does not run out.
TokenVerifiesForever(token, at) == token.genuine /\ token.nbf <= at + ClockSkew

\* `genuine` stands for size, header, known key, allowed algorithm, signature,
\* issuer, audience and required claims.
TokenVerifies(token, at) ==
  /\ token.genuine
  /\ token.exp + ClockSkew > at
  /\ token.nbf <= at + ClockSkew
  /\ token.iat <= at + ClockSkew
  /\ token.exp > token.nbf

-----------------------------------------------------------------------------
\* Answers: what the exception handlers make of an error.

Problem(status, retryable) == [status |-> status, retryable |-> retryable]

BillingProblems ==
  [ProviderNotConfigured |-> Problem(503, TRUE), StoreVerificationError |-> Problem(422, FALSE),
   StoreProviderUnavailableError |-> Problem(503, TRUE)]
DomainProblems ==
  [AuthenticationError |-> Problem(401, FALSE), ServiceNotReadyError |-> Problem(503, TRUE),
   JobNotFoundError |-> Problem(404, FALSE), IdempotencyConflictError |-> Problem(409, FALSE),
   UnsafeJobPayloadError |-> Problem(422, FALSE), StoreUnavailableError |-> Problem(503, TRUE)]
FrameworkProblems ==
  [RequestValidationError |-> Problem(422, FALSE), HTTPException |-> Problem(404, FALSE),
   Exception |-> Problem(500, FALSE)]

AnswerTo(error) ==
  CASE error \in DOMAIN BillingProblems -> BillingProblems[error]
    [] error \in DOMAIN DomainProblems -> DomainProblems[error]
    [] error \in DOMAIN FrameworkProblems -> FrameworkProblems[error]

\* Errors the services of a route raise.
Raises(route) ==
  CASE route \in {"coach", "forecasts"} -> {"IdempotencyConflictError", "Exception"}
    [] route = "receipts" -> {"IdempotencyConflictError", "StoreUnavailableError", "Exception"}
    [] route = "jobs" -> {"JobNotFoundError", "StoreUnavailableError", "Exception"}
    [] route = "billing" -> DOMAIN BillingProblems \union {"Exception"}
    [] route = "official_data" -> {"ServiceNotReadyError", "Exception"}
    [] OTHER -> {"Exception"}

-----------------------------------------------------------------------------
NoExchange == [stage |-> "none"]
NotCalled == [route |-> "none"]
NotRecorded == [status |-> {}, route |-> {}]

Private(body) == \E m \in body : m.depth > BodyDepth \/ m.key \in PrivateKeys

\* A request comes in at least one message, and the request models of the routes
\* that accept no job have no private field and forbid any they do not know
\* (common/models.py).
ASSUME ExchangeAssumption ==
  \A x \in Exchanges :
    /\ x.route \in DOMAIN Needs
    /\ x.chunks \in Seq(Nat) /\ x.chunks # << >>
    /\ x.valid /\ x.route \notin DOMAIN JobKindOf => ~Private(x.body)

Limit(route) == IF route = "receipts" THEN ReceiptBytes ELSE DefaultBytes

\* safe_attributes: a status in its range, a route that is one of the known
\* templates; anything else is dropped. Without a matched route the path itself is
\* offered, and the path of a job or of an unknown route is no template.
Templates == DOMAIN Needs \ {"official_data", "unknown"}
SafeAttributes(route, matched, answer) ==
  [status |-> {answer.status} \cap 100 .. 599,
   route |-> IF matched \/ route \notin {"jobs", "unknown"} THEN {route} \cap Templates ELSE {}]

\* The response leaves: telemetry counts the request.
Finish(x, answer) ==
  /\ exchange' = NoExchange
  /\ recorded' = SafeAttributes(x.route, x.matched, answer)

Refuse(x, error) == Finish(x, AnswerTo(error)) /\ UNCHANGED called

\* A request arrives; a declared length above the limit, or no number, is enough
\* to refuse it.
Arrive(x, token) ==
  /\ exchange = NoExchange
  /\ IF x.declared \subseteq 0 .. Limit(x.route)
     THEN /\ exchange' = [stage |-> "reading", matched |-> FALSE, route |-> x.route, token |-> token,
                          media |-> x.media, body |-> x.body, parsed |-> x.parsed,
                          valid |-> x.valid,
                          left |-> x.chunks, size |-> 0, whole |-> FALSE, checked |-> 0]
          /\ recorded' = NotRecorded
     ELSE Finish([route |-> x.route, matched |-> FALSE], Problem(413, FALSE))
  /\ called' = NotCalled
  /\ UNCHANGED <<settings, clock>>

\* _read_body of the body limit: the next chunk.
ReadChunk ==
  /\ exchange.stage = "reading"
  /\ LET size == exchange.size + Head(exchange.left)
         left == Tail(exchange.left)
     IN IF size > Limit(exchange.route)
        THEN Finish(exchange, Problem(413, FALSE))
        ELSE /\ exchange' = [exchange EXCEPT !.size = size, !.left = left, !.whole = left = << >>,
                                             !.stage = IF left = << >> THEN "read" ELSE @]
             /\ UNCHANGED recorded
  /\ UNCHANGED <<settings, clock, called>>

\* A client that disconnects leaves an empty body to the application.
Disconnect ==
  /\ exchange.stage = "reading"
  /\ exchange' = [exchange EXCEPT !.stage = "read", !.size = 0, !.body = {}, !.parsed = TRUE,
                                  !.valid = exchange.route \in Bodyless, !.left = << >>]
  /\ UNCHANGED <<settings, clock, called, recorded>>

\* PrivacyMiddleware looks into application/json only, and lets pass what does
\* not parse.
Inspect ==
  /\ exchange.stage = "read"
  /\ IF /\ exchange.media = "application/json" /\ exchange.route # "health"
        /\ exchange.parsed /\ Private(exchange.body)
     THEN Refuse(exchange, "UnsafeJobPayloadError")
     ELSE /\ exchange' = [exchange EXCEPT !.stage = "inspected",
                                          !.matched = exchange.route # "unknown"]
          /\ UNCHANGED <<called, recorded>>
  /\ UNCHANGED <<settings, clock>>

\* A body that is not JSON is refused first; then the dependencies of the route
\* in their order, the session before the services, and at last the fields.
Refusal(x) ==
  LET held == Container(settings)
      session == "token_verifier" \in Needs[x.route]
  IN CASE x.route = "unknown" -> "HTTPException"
       [] x.route # "unknown" /\ ~x.parsed -> "RequestValidationError"
       [] x.route # "unknown" /\ x.parsed ->
            IF session /\ "token_verifier" \notin held THEN "ServiceNotReadyError"
            ELSE IF session /\ ~TokenVerifies(x.token, clock) THEN "AuthenticationError"
            ELSE IF ~Ready(settings, x.route)
                 THEN IF x.route = "billing" THEN "ProviderNotConfigured" ELSE "ServiceNotReadyError"
            ELSE IF ~x.valid THEN "RequestValidationError" ELSE "none"

Dispatch ==
  /\ exchange.stage = "inspected"
  /\ IF Refusal(exchange) # "none"
     THEN Refuse(exchange, Refusal(exchange))
     ELSE /\ exchange' = [exchange EXCEPT !.stage = "calling", !.checked = clock]
          /\ UNCHANGED <<called, recorded>>
  /\ UNCHANGED <<settings, clock>>

\* /health/ready: every probe is asked at once and has 250 ms.
ProbeStatus == {"hazir", "hazir_degil", "zaman_asimi"}
Probes(c) == {p \in {"database", "redis"} : c[p]}
Readiness(probe) ==
  Problem(IF \A p \in DOMAIN probe : probe[p] = "hazir" THEN 200 ELSE 503, FALSE)

\* The service is called; a job service looks at the payload once more, whatever
\* the middleware saw.
Call ==
  /\ exchange.stage = "calling"
  /\ LET x == exchange
     IN IF x.route \in DOMAIN JobKindOf /\ Private(x.body)
        THEN Refuse(x, "UnsafeJobPayloadError")
        ELSE /\ called' = [route |-> x.route, token |-> x.token, body |-> x.body, size |-> x.size,
                           whole |-> x.whole, checked |-> x.checked]
             /\ \/ \E error \in Raises(x.route) : Finish(x, AnswerTo(error))
                \/ x.route # "health" /\ Finish(x, Problem(200, FALSE))
                \/ /\ x.route = "health"
                   /\ \E probe \in [Probes(settings) -> ProbeStatus] : Finish(x, Readiness(probe))
  /\ UNCHANGED <<settings, clock>>

GateTick ==
  /\ clock < GateEnd
  /\ clock' = clock + 1
  /\ UNCHANGED <<settings, exchange, called, recorded>>

GateInit ==
  /\ settings \in {c \in Configurations : ValidSettings(c)}
  /\ exchange = NoExchange
  /\ clock = 1
  /\ called = NotCalled
  /\ recorded = NotRecorded

GateNext ==
  \/ \E x \in Exchanges, token \in KnownTokens : Arrive(x, token)
  \/ ReadChunk \/ Disconnect \/ Inspect \/ Dispatch \/ Call
  \/ GateTick

GateSpec == GateInit /\ [][GateNext]_gateVars

-----------------------------------------------------------------------------
\* Types: the settings are ones the process starts with, and every answer
\* carries an HTTP status (api/handlers.py).
GateTypeOK ==
  /\ ValidSettings(settings) /\ clock \in 1 .. GateEnd
  /\ exchange.stage \in {"none", "reading", "read", "inspected", "calling"}
  /\ recorded.status \subseteq 100 .. 599

\* A service is called only with a whole body within the limit of its route, or
\* with none when the client left; never with a private field, whichever media
\* type carried it past the middleware; and only for a session that had not run
\* out when it was checked, however long the body took. And a production process
\* has the services that /health/capabilities promises.
CallIsSound ==
  /\ called # NotCalled =>
       /\ called.size <= Limit(called.route)
       /\ called.whole \/ called.body = {}
       /\ ~Private(called.body)
       /\ "token_verifier" \in Needs[called.route] =>
            called.token.exp + ClockSkew > called.checked /\ called.token.genuine
  /\ settings.environment = "production" =>
       /\ Capabilities(settings).fis_tarama => Ready(settings, "receipts")
       /\ Capabilities(settings).maki_koc => Ready(settings, "coach")
=============================================================================
