---------------------------- MODULE HttpSurface ----------------------------
(***************************************************************************)
(* What the server does with each HTTP request around the ask service      *)
(* (src/app/api/middleware.py, auth.py, ratelimit.py, errors.py, ask.py,   *)
(* routes.py): the request id, authentication, validation, the rate limit, *)
(* the error envelope, the access line.  What the service answers is       *)
(* arbitrary; AskService models it.                                        *)
(*                                                                         *)
(* A request passes, from the outside in: the framework's handler of last  *)
(* resort, RequestContextMiddleware, the other exception handlers, the     *)
(* route.  A step is what its coroutine does from one await to the next.   *)
(***************************************************************************)
EXTENDS Integers, Sequences, FiniteSets

CONSTANTS
  Requests,    \* each arrives at most once
  Addresses,   \* where they come from
  Limit        \* rate_limit: requests per client and window

ASSUME LimitAssumption == Limit \in Nat \ {0}
ASSUME AddressesAssumption == Addresses # {} /\ Addresses \cap {"right", "wrong"} = {}

VARIABLES
  api_key,    \* whether the server wants a key
  request,    \* request -> what was asked, how far it is, what was sent and logged
  hits,       \* client -> requests counted in its window
  admitted    \* client -> those the handler was run for in this window (history variable)

httpVars == <<api_key, request, hits, admitted>>

\* What X-API-Key holds: nothing, the configured key or another.
Asks == [route : {"ask"}, key : {"none", "right", "wrong"}, address : Addresses,
         valid : BOOLEAN, stream : BOOLEAN]

Others == [route : {"ready", "unknown"}, key : {"none"}, address : Addresses,
           valid : {TRUE}, stream : {FALSE}]

Statuses == {200, 400, 401, 404, 422, 429, 500, 502, 503, 504}

\* ids: headers that carry the request id.  named: it is in the body as well.
Responses == [status : Statuses, ids : 0..2, named : BOOLEAN]

NoResponse == [status |-> 0, ids |-> 0, named |-> FALSE]

\* at: not arrived; its body is read; the service works; a stream is under way; over.
\* bound: the id is bound in the logging context.  lines: the statuses of its access
\* lines.  traces: of each logged exception, whether the id was on it.
\* over_limit: the limiter refused it.
RequestRecords ==
  [at : {"new", "reading", "working", "streaming", "over"}, asked : Asks \cup Others,
   bound : BOOLEAN, response : Responses \cup {NoResponse},
   lines : Seq(Statuses), traces : Seq(BOOLEAN), over_limit : BOOLEAN]

Clients == Addresses \cup {"right", "wrong"}

HttpTypeOK ==
  /\ api_key \in BOOLEAN
  /\ request \in [Requests -> RequestRecords]
  /\ hits \in [Clients -> Nat]
  /\ admitted \in [Clients -> SUBSET Requests]

NotArrived ==
  [at |-> "new",
   asked |-> [route |-> "unknown", key |-> "none", address |-> CHOOSE a \in Addresses : TRUE,
              valid |-> TRUE, stream |-> FALSE],
   bound |-> FALSE, response |-> NoResponse, lines |-> <<>>, traces |-> <<>>, over_limit |-> FALSE]

HttpInit ==
  /\ api_key \in BOOLEAN
  /\ request = [r \in Requests |-> NotArrived]
  /\ hits = [c \in Clients |-> 0]
  /\ admitted = [c \in Clients |-> {}]

-----------------------------------------------------------------------------
(***************************************************************************)
(* Responses and how they leave.                                           *)
(***************************************************************************)

\* error_response.
ErrorResponse(status) == [status |-> status, ids |-> 1, named |-> TRUE]

\* A route's own response.
Plain(status) == [status |-> status, ids |-> 0, named |-> FALSE]

\* Mutant: the header is added to every response.
WithRequestId_Always(response) == [response EXCEPT !.ids = @ + 1]

\* send_with_request_id.
WithRequestId(response) == IF response.ids = 0 THEN [response EXCEPT !.ids = 1] ELSE response

\* The response starts inside the middleware.
Begins(q, response) == [q EXCEPT !.response = WithRequestId(response)]

\* Mutant: the access line of a request that raises is lost.
Unwind_OnlyIfAnswered(q) ==
  [q EXCEPT !.bound = FALSE,
            !.lines = IF q.response = NoResponse THEN @ ELSE Append(@, q.response.status)]

\* Mutant: no status is assumed for a response that never starts.
Unwind_NoDefault(q) ==
  [q EXCEPT !.bound = FALSE, !.lines = Append(@, q.response.status)]

\* The finally clause of the middleware: the access line, then the context is cleared.
Unwind(q) ==
  [q EXCEPT !.bound = FALSE,
            !.lines = Append(@, IF q.response = NoResponse THEN 500 ELSE q.response.status)]

\* The handler of last resort: it logs the exception and answers, unless a
\* response has begun.
Rescue(q) ==
  [q EXCEPT !.traces = Append(@, q.bound),
            !.response = IF q.response = NoResponse THEN ErrorResponse(500) ELSE @]

Over(q) == [q EXCEPT !.at = "over"]

Answered(q, response) == Over(Unwind(Begins(q, response)))

\* An exception no handler knows passes the middleware first.
Raised(q) == Over(Rescue(Unwind(q)))

Becomes(r, q) == request' = [request EXCEPT ![r] = q]

-----------------------------------------------------------------------------
(***************************************************************************)
(* Arrival and admission.                                                  *)
(***************************************************************************)

\* RequestContextMiddleware binds the id; then the body is read.
Arrive(r, asked) ==
  /\ request[r].at = "new"
  /\ Becomes(r, [NotArrived EXCEPT !.at = "reading", !.asked = asked, !.bound = TRUE])
  /\ UNCHANGED <<api_key, hits, admitted>>

Reading(r, route) == request[r].at = "reading" /\ request[r].asked.route = route

\* require_api_key.
Authorized(q) == api_key => q.asked.key = "right"

\* client_key.
Client(q) == IF q.asked.key = "none" THEN q.asked.address ELSE q.asked.key

\* The limiter counts a request, then compares.
WithinLimit(n) == n <= Limit

\* No such route, or a body that breaks off.
RefuseUnread(r) ==
  /\ \/ Reading(r, "unknown") /\ Becomes(r, Answered(request[r], ErrorResponse(404)))
     \/ Reading(r, "ask") /\ Becomes(r, Answered(request[r], ErrorResponse(400)))
  /\ UNCHANGED <<api_key, hits, admitted>>

\* GET /health/ready.
AnswerReady(r, ready) ==
  /\ Reading(r, "ready")
  /\ Becomes(r, Answered(request[r], Plain(IF ready THEN 200 ELSE 503)))
  /\ UNCHANGED <<api_key, hits, admitted>>

\* Mutant: the limiter counts before the request is authorised and validated.
RefuseUncounted_Counted(r) ==
  /\ Reading(r, "ask") /\ ~(Authorized(request[r]) /\ request[r].asked.valid)
  /\ Becomes(r, Answered(request[r], ErrorResponse(IF Authorized(request[r]) THEN 422 ELSE 401)))
  /\ hits' = [hits EXCEPT ![Client(request[r])] = @ + 1]
  /\ UNCHANGED <<api_key, admitted>>

\* Authentication comes first, then validation; neither request is counted.
RefuseUncounted(r) ==
  /\ Reading(r, "ask") /\ ~(Authorized(request[r]) /\ request[r].asked.valid)
  /\ Becomes(r, Answered(request[r], ErrorResponse(IF Authorized(request[r]) THEN 422 ELSE 401)))
  /\ UNCHANGED <<api_key, hits, admitted>>

\* The limiter's wrapper around the handler: count, then refuse or run it.  A stream
\* starts its response before the service is asked for the first event.
Count(r) ==
  LET q == request[r]
      c == Client(q)
      within == WithinLimit(hits[c] + 1)
  IN  /\ Reading(r, "ask") /\ Authorized(q) /\ q.asked.valid
      /\ hits' = [hits EXCEPT ![c] = @ + 1]
      /\ admitted' = [admitted EXCEPT ![c] = IF within THEN @ \cup {r} ELSE @]
      /\ Becomes(r,
           IF ~within THEN [Answered(q, ErrorResponse(429)) EXCEPT !.over_limit = TRUE]
           ELSE IF q.asked.stream THEN [Begins(q, Plain(200)) EXCEPT !.at = "streaming"]
           ELSE [q EXCEPT !.at = "working"])
      /\ UNCHANGED api_key

\* The client's window ends.
WindowEnds(c) ==
  /\ hits[c] > 0
  /\ hits' = [hits EXCEPT ![c] = 0]
  /\ admitted' = [admitted EXCEPT ![c] = {}]
  /\ UNCHANGED <<api_key, request>>

-----------------------------------------------------------------------------
(***************************************************************************)
(* The handler ends.                                                       *)
(***************************************************************************)

\* status_code of the AppErrors the service lets out: too long, upstream_rate_limited,
\* upstream_error, upstream_unavailable, timeout.
AppErrorStatus == {422, 429, 502, 503, 504}

\* The service returns, or raises an AppError.
Answer(r) ==
  /\ request[r].at = "working"
  /\ \E response \in {Plain(200)} \cup {ErrorResponse(status) : status \in AppErrorStatus} :
       Becomes(r, Answered(request[r], response))
  /\ UNCHANGED <<api_key, hits, admitted>>

\* The stream ends with its last event, or because its client left.
EndStream(r) ==
  /\ request[r].at = "streaming"
  /\ Becomes(r, Over(Unwind(request[r])))
  /\ UNCHANGED <<api_key, hits, admitted>>

\* The service raises what is no AppError.
RaiseUnexpected(r) ==
  /\ request[r].at \in {"working", "streaming"}
  /\ Becomes(r, Raised(request[r]))
  /\ UNCHANGED <<api_key, hits, admitted>>

InFlight(r) == request[r].at \in {"reading", "working", "streaming"}

\* A request whose body has come goes on; the service answers in time.
Proceed(r) == RefuseUnread(r) \/ RefuseUncounted(r) \/ Count(r) \/ Answer(r) \/ RaiseUnexpected(r)

-----------------------------------------------------------------------------
(***************************************************************************)
(* Properties.                                                             *)
(***************************************************************************)

\* Each request that is over has exactly one access line, with the status its
\* client was sent: also when the response was sent above the middleware, or had
\* begun before the failure (middleware.py:9, :56, :73-84).
OneAccessLine ==
  \A r \in Requests :
    request[r].lines = (IF request[r].at = "over" THEN <<request[r].response.status>> ELSE <<>>)

\* Each response carries the request id once in its headers, and each error in its
\* envelope as well, whichever of the four places it was made in
\* (middleware.py:63-66, errors.py:84-105).  One error has no envelope and does
\* not name its request in its body: the 503 of the readiness check, which is a
\* ReadinessResponse (routes.py:43-48), see OneErrorShape.
ResponseNamesRequest ==
  \A r \in Requests :
    LET q == request[r] IN
      /\ q.at = "over" => q.response # NoResponse
      /\ q.response # NoResponse => q.response.ids = 1
      /\ q.response.status >= 400 =>
           q.response.named \/ (q.asked.route = "ready" /\ q.response.status = 503)

\* Within a window the handler runs for at most Limit requests of a client, and a
\* request is refused only when it really ran for that many: what authentication or
\* validation refused has cost the client nothing (ask.py:45-53, ratelimit.py:24-32).
LimitIsExact ==
  [][/\ \A c \in Clients : Cardinality(admitted'[c]) <= Limit
     /\ \A r \in Requests : request'[r].over_limit /\ ~request[r].over_limit =>
          Cardinality(admitted[Client(request[r])]) = Limit]_httpVars

-----------------------------------------------------------------------------
\* Said of the code, and not so.

\* errors.py:1: "One error shape for every failure the API returns", and
\* routes.py:22-27 documents the 503 of the readiness check as an ErrorEnvelope.
OneErrorShape ==
  \A r \in Requests : request[r].response.status >= 400 => request[r].response.named

\* errors.py:8-9: an unexpected error's "trace goes to the log under the same request
\* id".
TracedUnderItsId ==
  \A r \in Requests : \A i \in DOMAIN request[r].traces : request[r].traces[i]
=============================================================================
