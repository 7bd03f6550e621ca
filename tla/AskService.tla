----------------------------- MODULE AskService -----------------------------
(***************************************************************************)
(* AskService with its SessionStore and ResponseCache                      *)
(* (src/app/api/service.py, sessions.py, cache.py): concurrent requests,   *)
(* as one JSON body or as an event stream, stateless or in a session.  The *)
(* graph (AskGraph) is one awaited call whose outcome is arbitrary.        *)
(*                                                                         *)
(* A coroutine runs alone between awaits, so reading the history with the  *)
(* start of the graph is one step, and so is building the response with    *)
(* recording the turn and caching.  The clock moves in units; a request's  *)
(* deadline fires before the clock moves past it.                          *)
(***************************************************************************)
EXTENDS Integers, Sequences, FiniteSets

CONSTANTS
  Requests,     \* each arrives at most once
  Questions,    \* question texts
  Key,          \* question -> its normalised key
  Sessions,     \* session ids
  Bodies,       \* what clients may post: question, session_id, stream
  NoSession,    \* a request without session_id
  NoRequest,    \* no cached response
  MaxTurns,     \* session_max_turns
  MaxSessions,  \* max_sessions of the SessionStore
  MaxCached,    \* response_cache_size
  SessionTtl,   \* session_ttl_s, in units of time
  CacheTtl,     \* response_cache_ttl_s
  Deadline,     \* ask_timeout_s
  Outcomes      \* how a graph run may end: an answer, degraded, with a gap in its sources

ASSUME NoSessionAssumption == NoSession \notin Sessions
ASSUME NoRequestAssumption == NoRequest \notin Requests
ASSUME MaxTurnsAssumption == MaxTurns \in Nat \ {0}
ASSUME QuestionsAssumption == Questions # {} /\ IsFiniteSet(Questions) /\ IsFiniteSet(Sessions)
ASSUME BodiesAssumption == Bodies \subseteq [question : Questions, session : Sessions \cup {NoSession}, stream : BOOLEAN]
ASSUME SizesAssumption == {MaxSessions, MaxCached} \subseteq Nat \ {0}
ASSUME OutcomesAssumption == Outcomes \subseteq [answer : BOOLEAN, degraded : BOOLEAN, gap : BOOLEAN]
ASSUME TimesAssumption == {SessionTtl, CacheTtl, Deadline} \subseteq Nat \ {0}

Keys == {Key[q] : q \in Questions}

VARIABLES
  request,   \* what each request asked for, how far it is and how it ended
  history,   \* session -> the requests whose turns it remembers, oldest first
  expires,   \* session -> time until its history expires
  cache,     \* key -> the request whose response is cached; NoRequest for none
  fresh      \* key -> time until the cached response expires

vars == <<request, history, expires, cache, fresh>>

\* at: not arrived; waiting for the graph; an event is being sent; over.
\* seen: the history it was given.  response: whose graph run the response comes from.
RequestRecords ==
  [at : {"new", "running", "sending", "over"},
   question : Questions, session : Sessions \cup {NoSession}, stream : BOOLEAN,
   seen : Seq(Requests), left : 0..Deadline,
   result : {"none", "response", "rejected", "error", "timeout", "gone", "broken"},
   response : Requests \cup {NoRequest}, gap : BOOLEAN]

NotArrived ==
  [at |-> "new", question |-> CHOOSE q \in Questions : TRUE, session |-> NoSession, stream |-> FALSE,
   seen |-> <<>>, left |-> 0, result |-> "none", response |-> NoRequest, gap |-> FALSE]

\* The entries of the two TTLCaches.
Remembered == {s \in Sessions : history[s] # <<>>}
Cached == {k \in Keys : cache[k] # NoRequest}

TypeOK ==
  /\ request \in [Requests -> RequestRecords]
  /\ history \in [Sessions -> Seq(Requests)]
  /\ \A s \in Sessions : Len(history[s]) <= MaxTurns
  /\ expires \in [Sessions -> 0..SessionTtl]
  /\ cache \in [Keys -> Requests \cup {NoRequest}]
  /\ fresh \in [Keys -> 0..CacheTtl]
  /\ Cardinality(Remembered) <= MaxSessions /\ Cardinality(Cached) <= MaxCached

Init ==
  /\ request = [r \in Requests |-> NotArrived]
  /\ history = [s \in Sessions |-> <<>>]
  /\ expires = [s \in Sessions |-> 0]
  /\ cache = [k \in Keys |-> NoRequest]
  /\ fresh = [k \in Keys |-> 0]

-----------------------------------------------------------------------------
(***************************************************************************)
(* Arrival: length check, cache, history, start of the graph.              *)
(***************************************************************************)
HistoryOf(s) == IF s = NoSession THEN <<>> ELSE history[s]

ArrivesWith(q, s, stream) ==
  [NotArrived EXCEPT !.question = q, !.session = s, !.stream = stream]

\* Only ask looks into the cache, and only without a session.
Hit(q, s, stream) == ~stream /\ s = NoSession /\ cache[Key[q]] # NoRequest

\* _check_length: an error response, or an error event.
Reject(r, q, s, stream) ==
  request' = [request EXCEPT ![r] =
    [ArrivesWith(q, s, stream) EXCEPT !.at = "over", !.result = "rejected"]]

ServeFromCache(r, q, s, stream) ==
  LET author == request[cache[Key[q]]]
  IN  /\ Hit(q, s, stream)
      /\ request' = [request EXCEPT ![r] =
           [ArrivesWith(q, s, stream) EXCEPT
              !.at = "over", !.result = "response", !.response = cache[Key[q]], !.gap = author.gap]]

StartGraph(r, q, s, stream) ==
  /\ ~Hit(q, s, stream)
  /\ request' = [request EXCEPT ![r] =
       [ArrivesWith(q, s, stream) EXCEPT !.at = "running", !.seen = HistoryOf(s), !.left = Deadline]]

Arrive(r, q, s, stream) ==
  /\ request[r].at = "new"
  /\ Reject(r, q, s, stream) \/ ServeFromCache(r, q, s, stream) \/ StartGraph(r, q, s, stream)
  /\ UNCHANGED <<history, expires, cache, fresh>>

-----------------------------------------------------------------------------
(***************************************************************************)
(* The end of the graph: build_response and _finish.                       *)
(***************************************************************************)

\* Mutant: every turn of the conversation is kept.
Recent_Uncapped(turns) == turns

\* The last MaxTurns exchanges.
Recent(turns) ==
  IF Len(turns) <= MaxTurns THEN turns ELSE SubSeq(turns, Len(turns) - MaxTurns + 1, Len(turns))

\* Mutant: the turn is appended to the history the request was given.
WithTurn_OfSeen(r, s) == Recent(Append(request[r].seen, r))

\* SessionStore.record.
WithTurn(r, s) == Recent(Append(history[s], r))

Cacheable(s, outcome) == s = NoSession /\ outcome.answer /\ ~outcome.degraded

\* What a TTLCache drops to make room for an entry: nothing, or what would expire
\* first (of what was set in the same unit of time, any).
Dropped(entries, left, new, size) ==
  IF new \in entries \/ Cardinality(entries) < size THEN {{}}
  ELSE {{old} : old \in {e \in entries : \A f \in entries : left[e] <= left[f]}}

Remember(r, s) ==
  \E gone \in Dropped(Remembered, expires, s, MaxSessions) :
    /\ history' = [t \in Sessions |->
         IF t = s THEN WithTurn(r, s) ELSE IF t \in gone THEN <<>> ELSE history[t]]
    /\ expires' = [t \in Sessions |->
         IF t = s THEN SessionTtl ELSE IF t \in gone THEN 0 ELSE expires[t]]

Cache(r, k) ==
  \E gone \in Dropped(Cached, fresh, k, MaxCached) :
    /\ cache' = [j \in Keys |-> IF j = k THEN r ELSE IF j \in gone THEN NoRequest ELSE cache[j]]
    /\ fresh' = [j \in Keys |-> IF j = k THEN CacheTtl ELSE IF j \in gone THEN 0 ELSE fresh[j]]

\* _finish: remember the turn, cache the response, when appropriate.
Finish(r, outcome) ==
  LET s == request[r].session
  IN  /\ IF outcome.answer /\ s # NoSession THEN Remember(r, s) ELSE UNCHANGED <<history, expires>>
      /\ IF Cacheable(s, outcome) THEN Cache(r, Key[request[r].question]) ELSE UNCHANGED <<cache, fresh>>

GraphEnds(r) ==
  /\ request[r].at = "running"
  /\ \E outcome \in Outcomes :
       /\ Finish(r, outcome)
       /\ request' = [request EXCEPT ![r] =
            [@ EXCEPT !.at = "over", !.left = 0, !.result = "response", !.response = r, !.gap = outcome.gap]]

\* The request is over without a response.
Ends(r, result) ==
  request' = [request EXCEPT ![r] = [@ EXCEPT !.at = "over", !.left = 0, !.result = result]]

\* The graph raises: an AppError becomes an error response or event, anything else
\* an error response, but the end of a stream.
GraphRaises(r) ==
  /\ request[r].at = "running"
  /\ \/ Ends(r, "error")
     \/ request[r].stream /\ Ends(r, "broken")
  /\ UNCHANGED <<history, expires, cache, fresh>>

-----------------------------------------------------------------------------
(***************************************************************************)
(* Streaming, deadlines and clients that leave.                            *)
(***************************************************************************)
SendEvent(r) ==
  /\ request[r].at = "running" /\ request[r].stream
  /\ request' = [request EXCEPT ![r].at = "sending"]
  /\ UNCHANGED <<history, expires, cache, fresh>>

EventSent(r) ==
  /\ request[r].at = "sending"
  /\ request' = [request EXCEPT ![r].at = "running"]
  /\ UNCHANGED <<history, expires, cache, fresh>>

\* Mutant: a stream has no deadline while it sends.
DeadlinePasses_NotSending(r) ==
  /\ request[r].at = "running" /\ request[r].left = 0
  /\ Ends(r, "timeout")
  /\ UNCHANGED <<history, expires, cache, fresh>>

\* The deadline cancels the task: in the graph it becomes a timeout response or
\* event; while an event is being sent it ends the task outside of the generator.
DeadlinePasses(r) ==
  /\ request[r].at \in {"running", "sending"} /\ request[r].left = 0
  /\ Ends(r, IF request[r].at = "sending" THEN "broken" ELSE "timeout")
  /\ UNCHANGED <<history, expires, cache, fresh>>

\* The client of a stream leaves; a JSON request runs on without its client.
ClientLeaves(r) ==
  /\ request[r].at \in {"running", "sending"} /\ request[r].stream
  /\ Ends(r, "gone")
  /\ UNCHANGED <<history, expires, cache, fresh>>

UnlessZero(n) == IF n > 0 THEN n - 1 ELSE 0

\* TTLCache drops what has expired.
Tick ==
  /\ \A r \in Requests : request[r].at \in {"running", "sending"} => request[r].left > 0
  /\ request' = [r \in Requests |-> [request[r] EXCEPT !.left = UnlessZero(@)]]
  /\ expires' = [s \in Sessions |-> UnlessZero(expires[s])]
  /\ history' = [s \in Sessions |-> IF expires[s] <= 1 THEN <<>> ELSE history[s]]
  /\ fresh' = [k \in Keys |-> UnlessZero(fresh[k])]
  /\ cache' = [k \in Keys |-> IF fresh[k] <= 1 THEN NoRequest ELSE cache[k]]

Progress(r) == GraphEnds(r) \/ GraphRaises(r) \/ EventSent(r) \/ DeadlinePasses(r)

Next ==
  \/ \E r \in Requests :
       \/ \E body \in Bodies : Arrive(r, body.question, body.session, body.stream)
       \/ SendEvent(r) \/ ClientLeaves(r)
       \/ Progress(r)
  \/ Tick

Spec == Init /\ [][Next]_vars

\* The clock moves and the deadline fires; the graph may take for ever, the client
\* may read as slowly as it likes.
FairSpec == Spec /\ WF_vars(Tick) /\ \A r \in Requests : WF_vars(DeadlinePasses(r))

-----------------------------------------------------------------------------
(***************************************************************************)
(* Properties.                                                             *)
(***************************************************************************)
Over(r) == request[r].at = "over"

\* What Conversations sees of a request.
StatusOf(q) == IF q.at \in {"running", "sending"} THEN "open" ELSE q.at

AskedOf(q) ==
  IF q.at = "new" THEN [key |-> NoRequest, session |-> NoSession]
  ELSE [key |-> Key[q.question], session |-> q.session]

Status == [r \in Requests |-> StatusOf(request[r])]
Asked == [r \in Requests |-> AskedOf(request[r])]
Told == [r \in Requests |-> request[r].seen]
Answered == [r \in Requests |-> request[r].response]

\* What the service remembers, and tells, is what Conversations promises: no turn is
\* lost or doubled by requests that overlap; a request that failed, timed out or was
\* abandoned leaves no trace; no session's answer reaches another client
\* (service.py:82-154, :217-226, sessions.py:25-33, cache.py:3-7).
Promise ==
  INSTANCE Conversations WITH
    status <- Status, asked <- Asked, told <- Told, answered <- Answered, log <- history, slot <- cache

ImplementsConversations == Promise!Spec

\* A request that waits for the graph is over by its deadline, however slow the
\* graph and the client are.
RequestsEnd == \A r \in Requests : request[r].at \in {"running", "sending"} ~> Over(r)

\* cache.py:3-4: what is cached is a "complete, non-degraded answer".
OnlyCompleteCached == \A k \in Keys : cache[k] # NoRequest => ~request[cache[k]].gap

\* ask.py:6-7: the done event is "exactly the JSON body the non-streaming call would
\* return", which for a cached question is the cached response: no graph run.
StreamSameAsJson ==
  [][\A r \in Requests :
       (request[r].at = "new" /\ request'[r].at = "running" /\ request'[r].session = NoSession) =>
         cache[Key[request'[r].question]] = NoRequest]_vars

\* ask.py:6-7: the stream "ends with a ``done`` event", or with an error event, as
\* long as its client stays.
StreamEndsWithEvent == \A r \in Requests : request[r].result # "broken"

\* sessions.py:5: history "expires after inactivity", so not while the session waits
\* for an answer.
ExpiresAfterInactivity ==
  [][\A s \in Sessions : (history[s] # <<>> /\ history'[s] = <<>>) =>
       \A r \in Requests : request[r].session = s => request[r].at \notin {"running", "sending"}]_vars
=============================================================================
