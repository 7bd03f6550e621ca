---------------------------- MODULE ServerProofs ----------------------------
(***************************************************************************)
(* For every set of configurations, requests and addresses and every       *)
(* limit: the types of Server, what is open while requests are in flight,  *)
(* and what is sent, logged and counted of each request.                   *)
(***************************************************************************)
EXTENDS Server, FiniteSetTheorems, TLAPS

-----------------------------------------------------------------------------
(***************************************************************************)
(* What a request record can be.                                           *)
(***************************************************************************)

\* Of a request that is over, its response is the one its line speaks of; before, a
\* response has begun only for a stream.
Consistent(q) ==
  /\ q.at = "over" => q.response # NoResponse /\ q.lines = <<q.response.status>>
  /\ q.at # "over" => q.lines = <<>>
  /\ q.at \in {"new", "reading", "working"} => q.response = NoResponse
  /\ q.at = "streaming" => q.response # NoResponse /\ q.response.status = 200
  /\ q.response # NoResponse => q.response.ids = 1
  /\ q.response.status >= 400 =>
       q.response.named \/ (q.asked.route = "ready" /\ q.response.status = 503)

Sound(q) == q \in RequestRecords /\ Consistent(q)

Pending(q) == q.at \in {"reading", "working"}

LEMMA NothingIsSound == Sound(NotArrived)
<1>1. (CHOOSE a \in Addresses : TRUE) \in Addresses
  BY AddressesAssumption
<1>2. NotArrived.asked \in Others
  BY <1>1 DEF NotArrived, Others
<1>3. NotArrived.response = NoResponse /\ NotArrived.lines = <<>> /\ NotArrived.traces = <<>>
  BY DEF NotArrived
<1>4. NotArrived \in RequestRecords
  BY <1>2, <1>3 DEF NotArrived, RequestRecords, NoResponse
<1>5. Consistent(NotArrived)
  BY DEF NotArrived, Consistent, NoResponse
<1> QED
  BY <1>4, <1>5 DEF Sound

\* What send_with_request_id makes of a response has the id once.
LEMMA IdIsAdded ==
  ASSUME NEW response \in Responses, response.ids \in {0, 1}
  PROVE  /\ WithRequestId(response) \in Responses
         /\ WithRequestId(response).ids = 1
         /\ WithRequestId(response).status = response.status
         /\ WithRequestId(response).named = response.named
         /\ WithRequestId(response) # NoResponse
BY DEF WithRequestId, Responses, NoResponse, Statuses

LEMMA ErrorsAreNamed ==
  ASSUME NEW status \in Statuses
  PROVE  /\ ErrorResponse(status) \in Responses
         /\ ErrorResponse(status).ids = 1 /\ ErrorResponse(status).named
         /\ ErrorResponse(status).status = status
         /\ ErrorResponse(status) # NoResponse
BY DEF ErrorResponse, Responses, NoResponse, Statuses

\* The sets of the fields are named, so that a record is seen apart from them.
Logged == Seq(Statuses)
Traced == Seq(BOOLEAN)
Asked == Asks \cup Others
Sent == Responses \cup {NoResponse}

LEMMA RecordsHaveFields ==
  RequestRecords = [at : {"new", "reading", "working", "streaming", "over"}, asked : Asked, bound : BOOLEAN,
                    response : Sent, lines : Logged, traces : Traced, over_limit : BOOLEAN]
BY DEF RequestRecords, Logged, Traced, Asked, Sent

\* One access line of a status, or one more trace.
LEMMA LogsAreTyped ==
  /\ \A status \in Statuses : Append(<<>>, status) = <<status>> /\ <<status>> \in Logged
  /\ \A traces \in Traced : Append(traces, FALSE) \in Traced /\ Append(traces, TRUE) \in Traced
BY DEF Logged, Traced

\* What each part of the way out changes of a record, and what it keeps.
LEMMA BeginsChanges ==
  ASSUME NEW q \in RequestRecords, NEW response \in Responses, response.ids \in {0, 1}
  PROVE  /\ Begins(q, response) \in RequestRecords
         /\ Begins(q, response).response = WithRequestId(response)
         /\ Begins(q, response).at = q.at /\ Begins(q, response).asked = q.asked
         /\ Begins(q, response).lines = q.lines /\ Begins(q, response).over_limit = q.over_limit
<1>1. WithRequestId(response) \in Sent
  BY IdIsAdded DEF Sent
<1> QED
  BY <1>1, RecordsHaveFields DEF Begins

LEMMA UnwindChanges ==
  ASSUME NEW q \in RequestRecords, q.lines = <<>>, NEW status \in Statuses,
         status = IF q.response = NoResponse THEN 500 ELSE q.response.status
  PROVE  /\ Unwind(q) \in RequestRecords
         /\ Unwind(q).lines = <<status>>
         /\ Unwind(q).at = q.at /\ Unwind(q).asked = q.asked
         /\ Unwind(q).response = q.response /\ Unwind(q).over_limit = q.over_limit
<1>1. Append(q.lines, status) = <<status>> /\ <<status>> \in Logged
  BY LogsAreTyped
<1>2. Unwind(q) = [q EXCEPT !.bound = FALSE, !.lines = <<status>>]
  BY <1>1, RecordsHaveFields DEF Unwind
<1> QED
  BY <1>1, <1>2, RecordsHaveFields

LEMMA RescueChanges ==
  ASSUME NEW q \in RequestRecords
  PROVE  /\ Rescue(q) \in RequestRecords
         /\ Rescue(q).response = IF q.response = NoResponse THEN ErrorResponse(500) ELSE q.response
         /\ Rescue(q).at = q.at /\ Rescue(q).asked = q.asked
         /\ Rescue(q).lines = q.lines /\ Rescue(q).over_limit = q.over_limit
<1>1. ErrorResponse(500) \in Sent /\ q.response \in Sent /\ q.traces \in Traced
  BY ErrorsAreNamed, RecordsHaveFields DEF Sent, Statuses
<1>2. Append(q.traces, q.bound) \in Traced
  BY <1>1, LogsAreTyped, RecordsHaveFields
<1> DEFINE traces == Append(q.traces, q.bound)
<1>3. Rescue(q) = [q EXCEPT !.traces = traces,
                            !.response = IF q.response = NoResponse THEN ErrorResponse(500) ELSE q.response]
  BY RecordsHaveFields DEF Rescue
<1> HIDE DEF traces
<1> QED
  BY <1>1, <1>2, <1>3, RecordsHaveFields DEF traces

LEMMA OverChanges ==
  ASSUME NEW q \in RequestRecords
  PROVE  /\ Over(q) \in RequestRecords
         /\ Over(q).at = "over" /\ Over(q).response = q.response /\ Over(q).asked = q.asked
         /\ Over(q).lines = q.lines /\ Over(q).over_limit = q.over_limit
BY RecordsHaveFields DEF Over

-----------------------------------------------------------------------------
LEMMA AnsweredIsSound ==
  ASSUME NEW q, Sound(q), Pending(q), NEW response \in Responses, response.ids \in {0, 1},
         response.status >= 400 =>
           response.named \/ (q.asked.route = "ready" /\ response.status = 503)
  PROVE  /\ Sound(Answered(q, response))
         /\ Answered(q, response).at = "over"
         /\ Answered(q, response).over_limit = q.over_limit
<1> DEFINE w == WithRequestId(response)
<1>1. w \in Responses /\ w.ids = 1 /\ w.status = response.status /\ w.named = response.named /\ w # NoResponse
  BY IdIsAdded
<1>2. w.status \in Statuses
  BY <1>1 DEF Responses
<1>3. q \in RequestRecords /\ q.lines = <<>>
  BY DEF Sound, Consistent, Pending
<1> DEFINE begun == Begins(q, response)
<1>4. begun \in RequestRecords /\ begun.response = w /\ begun.lines = <<>> /\ begun.asked = q.asked
      /\ begun.over_limit = q.over_limit
  BY <1>3, BeginsChanges
<1> HIDE DEF w, begun
<1> DEFINE logged == Unwind(begun)
<1>5. logged \in RequestRecords /\ logged.response = w /\ logged.lines = <<w.status>>
      /\ logged.asked = q.asked /\ logged.over_limit = q.over_limit
  BY <1>1, <1>2, <1>4, UnwindChanges
<1> HIDE DEF logged
<1> DEFINE over == Over(logged)
<1>6. over \in RequestRecords /\ over.at = "over" /\ over.response = w /\ over.lines = <<w.status>>
      /\ over.asked = q.asked /\ over.over_limit = q.over_limit
  BY <1>5, OverChanges
<1> HIDE DEF over
<1>7. Answered(q, response) = over
  BY DEF Answered, over, logged, begun
<1>8. Consistent(over)
  BY <1>1, <1>6 DEF Consistent
<1> QED
  BY <1>6, <1>7, <1>8 DEF Sound

LEMMA RaisedIsSound ==
  ASSUME NEW q, Sound(q), q.at \in {"working", "streaming"}
  PROVE  Sound(Raised(q)) /\ Raised(q).at = "over" /\ Raised(q).over_limit = q.over_limit
<1> DEFINE sent == IF q.response = NoResponse THEN ErrorResponse(500) ELSE q.response
<1>1. q \in RequestRecords /\ q.lines = <<>> /\ q.response \in Sent
  BY RecordsHaveFields DEF Sound, Consistent
<1>2. /\ ErrorResponse(500) \in Responses /\ ErrorResponse(500).ids = 1 /\ ErrorResponse(500).named
      /\ ErrorResponse(500).status = 500 /\ ErrorResponse(500) # NoResponse
  BY ErrorsAreNamed DEF Statuses
<1>3. sent \in Responses /\ sent.ids = 1 /\ sent # NoResponse
      /\ (sent.status >= 400 => sent.named \/ (q.asked.route = "ready" /\ sent.status = 503))
      /\ sent.status = IF q.response = NoResponse THEN 500 ELSE q.response.status
  BY <1>1, <1>2 DEF Sound, Consistent, Sent
<1>4. sent.status \in Statuses
  BY <1>3 DEF Responses
<1> HIDE DEF sent
<1> DEFINE logged == Unwind(q)
<1>5. logged \in RequestRecords /\ logged.response = q.response /\ logged.lines = <<sent.status>>
      /\ logged.asked = q.asked /\ logged.over_limit = q.over_limit
  BY <1>1, <1>3, <1>4, UnwindChanges
<1> HIDE DEF logged
<1> DEFINE rescued == Rescue(logged)
<1>6. rescued \in RequestRecords /\ rescued.response = sent /\ rescued.lines = <<sent.status>>
      /\ rescued.asked = q.asked /\ rescued.over_limit = q.over_limit
  BY <1>5, RescueChanges DEF sent
<1> HIDE DEF rescued
<1> DEFINE over == Over(rescued)
<1>7. over \in RequestRecords /\ over.at = "over" /\ over.response = sent /\ over.lines = <<sent.status>>
      /\ over.asked = q.asked /\ over.over_limit = q.over_limit
  BY <1>6, OverChanges
<1> HIDE DEF over
<1>8. Raised(q) = over
  BY DEF Raised, over, rescued, logged
<1>9. Consistent(over)
  BY <1>3, <1>7 DEF Consistent
<1> QED
  BY <1>7, <1>8, <1>9 DEF Sound

LEMMA EndedStreamIsSound ==
  ASSUME NEW q, Sound(q), q.at = "streaming"
  PROVE  Sound(Over(Unwind(q))) /\ Over(Unwind(q)).at = "over" /\ Over(Unwind(q)).over_limit = q.over_limit
<1>1. q \in RequestRecords /\ q.lines = <<>> /\ q.response # NoResponse /\ q.response \in Responses
      /\ q.response.ids = 1 /\ q.response.status = 200
  BY RecordsHaveFields DEF Sound, Consistent, Sent
<1>2. 200 \in Statuses
  BY DEF Statuses
<1> DEFINE logged == Unwind(q)
<1>3. logged \in RequestRecords /\ logged.response = q.response /\ logged.lines = <<200>>
      /\ logged.asked = q.asked /\ logged.over_limit = q.over_limit
  BY <1>1, <1>2, UnwindChanges
<1> HIDE DEF logged
<1> DEFINE over == Over(logged)
<1>4. over \in RequestRecords /\ over.at = "over" /\ over.response = q.response /\ over.lines = <<200>>
      /\ over.asked = q.asked /\ over.over_limit = q.over_limit
  BY <1>3, OverChanges
<1> HIDE DEF over
<1>5. Consistent(over)
  BY <1>1, <1>4 DEF Consistent
<1> QED
  BY <1>4, <1>5 DEF Sound, over, logged

-----------------------------------------------------------------------------
(***************************************************************************)
(* What each step makes of the records.                                    *)
(***************************************************************************)
AllSound == request \in [Requests -> RequestRecords] /\ \A r \in Requests : Consistent(request[r])

\* The record of r becomes a sound one that is on its way.
Moves(r) ==
  \E q : /\ Becomes(r, q) /\ Sound(q) /\ q.at # "new"
         /\ q.at = "reading" => request[r].at = "new"
         /\ q.over_limit => request[r].over_limit

LEMMA PlainIsResponse ==
  ASSUME NEW status \in Statuses
  PROVE  /\ Plain(status) \in Responses /\ Plain(status).ids = 0
         /\ Plain(status).status = status
BY DEF Plain, Responses

LEMMA SoundRecord ==
  ASSUME AllSound, NEW r \in Requests
  PROVE  Sound(request[r]) /\ Client(request[r]) \in Clients
<1>1. Sound(request[r])
  BY DEF AllSound, Sound
<1>2. request[r].asked \in Asks \cup Others
  BY <1>1, RecordsHaveFields DEF Sound, Asked
<1> QED
  BY <1>1, <1>2 DEF Client, Clients, Asks, Others

LEMMA AnsweringMoves ==
  ASSUME AllSound, NEW r \in Requests, Pending(request[r]), NEW response \in Responses,
         response.ids \in {0, 1},
         response.status >= 400 =>
           response.named \/ (request[r].asked.route = "ready" /\ response.status = 503),
         Becomes(r, Answered(request[r], response))
  PROVE  Moves(r)
<1>1. Sound(request[r])
  BY SoundRecord
<1>2. /\ Sound(Answered(request[r], response)) /\ Answered(request[r], response).at = "over"
      /\ Answered(request[r], response).over_limit = request[r].over_limit
  BY <1>1, AnsweredIsSound
<1> QED
  BY <1>2 DEF Moves

LEMMA ErrorMoves ==
  ASSUME AllSound, NEW r \in Requests, Pending(request[r]), NEW status \in Statuses,
         Becomes(r, Answered(request[r], ErrorResponse(status)))
  PROVE  Moves(r)
<1>1. ErrorResponse(status) \in Responses /\ ErrorResponse(status).ids = 1 /\ ErrorResponse(status).named
  BY ErrorsAreNamed
<1> QED
  BY <1>1, AnsweringMoves

LEMMA ArriveMoves ==
  ASSUME AllSound, NEW r \in Requests, NEW asked \in Asks \cup Others, Arrive(r, asked)
  PROVE  Moves(r)
<1> DEFINE q == [NotArrived EXCEPT !.at = "reading", !.asked = asked, !.bound = TRUE]
<1>1. NotArrived \in RequestRecords /\ Consistent(NotArrived) /\ asked \in Asked
      /\ NotArrived.over_limit = FALSE /\ NotArrived.at = "new"
  BY NothingIsSound DEF Sound, Asked, NotArrived
<1> HIDE DEF q
<1>2. q \in RequestRecords /\ q.at = "reading" /\ q.asked = asked /\ q.response = NotArrived.response
      /\ q.lines = NotArrived.lines /\ q.over_limit = NotArrived.over_limit
  BY <1>1, RecordsHaveFields DEF q
<1>3. Consistent(q)
  BY <1>1, <1>2 DEF Consistent, NoResponse
<1> QED
  BY <1>1, <1>2, <1>3 DEF Arrive, Moves, Sound, q

LEMMA UncountedMoves ==
  ASSUME AllSound, NEW r \in Requests,
         \/ RefuseUnread(r) \/ RefuseUncounted(r) \/ Answer(r) \/ EndStream(r) \/ RaiseUnexpected(r)
         \/ \E ready \in BOOLEAN : AnswerReady(r, ready)
  PROVE  Moves(r)
<1>0. Sound(request[r])
  BY SoundRecord
<1>1. CASE RefuseUnread(r)
  <2>1. 404 \in Statuses /\ 400 \in Statuses
    BY DEF Statuses
  <2> QED
    BY <1>1, <2>1, ErrorMoves DEF RefuseUnread, Reading, Pending
<1>2. CASE RefuseUncounted(r)
  <2>1. 422 \in Statuses /\ 401 \in Statuses
    BY DEF Statuses
  <2> QED
    BY <1>2, <2>1, ErrorMoves DEF RefuseUncounted, Reading, Pending
<1>3. CASE Answer(r)
  <2>1. CASE Becomes(r, Answered(request[r], Plain(200)))
    <3>1. 200 \in Statuses
      BY DEF Statuses
    <3>2. Plain(200) \in Responses /\ Plain(200).ids = 0 /\ Plain(200).status = 200
      BY <3>1, PlainIsResponse
    <3> QED
      BY <1>3, <2>1, <3>2, AnsweringMoves DEF Answer, Pending
  <2>2. ASSUME NEW status \in AppErrorStatus, Becomes(r, Answered(request[r], ErrorResponse(status)))
        PROVE  Moves(r)
    <3>1. status \in Statuses
      BY DEF AppErrorStatus, Statuses
    <3> QED
      BY <1>3, <2>2, <3>1, ErrorMoves DEF Answer, Pending
  <2> QED
    BY <1>3, <2>1, <2>2 DEF Answer
<1>4. CASE EndStream(r)
  BY <1>0, <1>4, EndedStreamIsSound DEF EndStream, Moves
<1>5. CASE RaiseUnexpected(r)
  BY <1>0, <1>5, RaisedIsSound DEF RaiseUnexpected, Moves
<1>6. CASE \E ready \in BOOLEAN : AnswerReady(r, ready)
  <2>1. 200 \in Statuses /\ 503 \in Statuses
    BY DEF Statuses
  <2>2. /\ Plain(200) \in Responses /\ Plain(200).ids = 0
        /\ Plain(503) \in Responses /\ Plain(503).ids = 0
        /\ Plain(200).status = 200 /\ Plain(503).status = 503
    BY <2>1, PlainIsResponse
  <2>3. Pending(request[r]) /\ request[r].asked.route = "ready"
    BY <1>6 DEF AnswerReady, Reading, Pending
  <2>4. \/ Becomes(r, Answered(request[r], Plain(200)))
        \/ Becomes(r, Answered(request[r], Plain(503)))
    BY <1>6 DEF AnswerReady
  <2> QED
    BY <2>2, <2>3, <2>4, AnsweringMoves
<1> QED
  BY <1>1, <1>2, <1>3, <1>4, <1>5, <1>6

\* The limiter's three ways out.
LEMMA CountMoves ==
  ASSUME AllSound, NEW r \in Requests, Count(r)
  PROVE  \E q : /\ Becomes(r, q) /\ Sound(q) /\ q.at \notin {"new", "reading"}
                /\ q.over_limit => request[r].over_limit \/ ~WithinLimit(hits[Client(request[r])] + 1)
<1> DEFINE q == request[r]
<1>1. Sound(q) /\ q.at = "reading"
  BY SoundRecord DEF Count, Reading
<1>2. CASE ~WithinLimit(hits[Client(q)] + 1)
  <2> DEFINE answered == Answered(q, ErrorResponse(429))
             refused == [answered EXCEPT !.over_limit = TRUE]
  <2>1. 429 \in Statuses
    BY DEF Statuses
  <2>2. ErrorResponse(429) \in Responses /\ ErrorResponse(429).ids = 1 /\ ErrorResponse(429).named
    BY <2>1, ErrorsAreNamed
  <2>3. answered \in RequestRecords /\ Consistent(answered) /\ answered.at = "over"
    BY <1>1, <2>2, AnsweredIsSound DEF Pending, Sound
  <2> HIDE DEF answered
  <2>4. /\ refused \in RequestRecords /\ refused.at = answered.at /\ refused.response = answered.response
        /\ refused.lines = answered.lines /\ refused.asked = answered.asked
    BY <2>3, RecordsHaveFields
  <2>5. Consistent(refused)
    BY <2>3, <2>4 DEF Consistent
  <2>6. Becomes(r, refused)
    BY <1>2 DEF Count, answered
  <2> HIDE DEF refused
  <2> QED
    BY <1>2, <2>3, <2>4, <2>5, <2>6 DEF Sound
<1>3. CASE WithinLimit(hits[Client(q)] + 1) /\ q.asked.stream
  <2> DEFINE begun == Begins(q, Plain(200))
             streamed == [begun EXCEPT !.at = "streaming"]
  <2>1. 200 \in Statuses
    BY DEF Statuses
  <2>2. Plain(200) \in Responses /\ Plain(200).ids = 0 /\ Plain(200).status = 200
    BY <2>1, PlainIsResponse
  <2>3. /\ WithRequestId(Plain(200)).ids = 1 /\ WithRequestId(Plain(200)).status = 200
        /\ WithRequestId(Plain(200)) # NoResponse
    BY <2>2, IdIsAdded
  <2>4. /\ begun \in RequestRecords /\ begun.response = WithRequestId(Plain(200))
        /\ begun.lines = <<>> /\ begun.over_limit = q.over_limit
    BY <1>1, <2>2, BeginsChanges DEF Sound, Consistent
  <2> HIDE DEF begun
  <2>5. /\ streamed \in RequestRecords /\ streamed.at = "streaming" /\ streamed.response = begun.response
        /\ streamed.lines = begun.lines /\ streamed.over_limit = begun.over_limit
    BY <2>4, RecordsHaveFields
  <2>6. Becomes(r, streamed)
    BY <1>3 DEF Count, begun
  <2> HIDE DEF streamed
  <2>7. Consistent(streamed)
    BY <2>3, <2>4, <2>5 DEF Consistent
  <2> QED
    BY <2>4, <2>5, <2>6, <2>7 DEF Sound
<1>4. CASE WithinLimit(hits[Client(q)] + 1) /\ ~q.asked.stream
  <2> DEFINE working == [q EXCEPT !.at = "working"]
  <2>1. Becomes(r, working)
    BY <1>4 DEF Count
  <2> HIDE DEF q
  <2>2. /\ working \in RequestRecords /\ working.at = "working" /\ working.response = q.response
        /\ working.lines = q.lines /\ working.over_limit = q.over_limit /\ working.asked = q.asked
    BY <1>1, RecordsHaveFields DEF Sound
  <2> HIDE DEF working
  <2>3. Consistent(working)
    BY <1>1, <2>2 DEF Sound, Consistent, NoResponse
  <2> QED
    BY <2>1, <2>2, <2>3 DEF Sound, q
<1> QED
  BY <1>2, <1>3, <1>4

-----------------------------------------------------------------------------
(***************************************************************************)
(* The inductive invariant: the records, the life of the process, and the  *)
(* limiter's count.                                                        *)
(***************************************************************************)
Least(m, n) == IF m <= n THEN m ELSE n

\* The handler ran for as many requests of a window as were counted, up to the limit.
Counted ==
  /\ hits \in [Clients -> Nat]
  /\ admitted \in [Clients -> SUBSET Requests]
  /\ \A c \in Clients :
       /\ IsFiniteSet(admitted[c])
       /\ Cardinality(admitted[c]) = Least(hits[c], Limit)
       /\ \A r \in admitted[c] : request[r].at \notin {"new", "reading"}

\* What is open at each point of the process's life, and when there are requests.
Alive ==
  /\ at \in {"reranker", "connect", "list_tools", "serving", "draining", "close_bridge", "close_http"} =>
       "http" \in open
  /\ at = "list_tools" \/ (at \in {"serving", "draining"} /\ OverMcp) => "bridge" \in open
  /\ at \in {"boot", "reranker", "connect", "close_http", "exited"} => "bridge" \notin open
  /\ "bridge" \in open <=> session # "none"
  /\ at = "exited" => open = {}
  /\ \A r \in Requests : InFlight(r) => at \in {"serving", "draining"}

IInv == LifeTypeOK /\ api_key \in BOOLEAN /\ AllSound /\ Counted /\ Alive

LEMMA InitIsInvariant == Init => IInv
<1> SUFFICES ASSUME Init PROVE IInv
  OBVIOUS
<1>1. LifeTypeOK
  BY ConfigurationsAssumption DEF Init, LifeInit, LifeTypeOK, Openable
<1>2. AllSound
  BY NothingIsSound DEF Init, HttpInit, AllSound, Sound
<1>3. Counted
  <2>1. IsFiniteSet({}) /\ Cardinality({}) = 0
    BY FS_EmptySet
  <2>2. 0 = Least(0, Limit)
    BY LimitAssumption DEF Least
  <2> QED
    BY <2>1, <2>2 DEF Init, HttpInit, Counted
<1>4. Alive
  BY DEF Init, LifeInit, HttpInit, Alive, InFlight, NotArrived
<1> QED
  BY <1>1, <1>2, <1>3, <1>4 DEF IInv, Init, HttpInit

-----------------------------------------------------------------------------
\* A record that moves leaves the others alone.
LEMMA MovingKeepsRecords ==
  ASSUME AllSound, NEW r \in Requests, NEW q, Becomes(r, q), Sound(q)
  PROVE  /\ AllSound' /\ request'[r] = q
         /\ \A s \in Requests : s # r => request'[s] = request[s]
BY DEF AllSound, Becomes, Sound

\* Each step of a request moves its record, or is Count.
LEMMA RequestSteps ==
  ASSUME AllSound, NEW r \in Requests, Accept(r) \/ Handle(r) \/ Stream(r)
  PROVE  (Moves(r) /\ UNCHANGED <<api_key, hits, admitted>>) \/ Count(r)
<1>1. CASE Accept(r)
  <2>1. PICK asked \in Asks \cup Others : Arrive(r, asked)
    BY <1>1 DEF Accept
  <2> QED
    BY <2>1, ArriveMoves DEF Arrive
<1>2. CASE Handle(r)
  <2>1. IsReady(settings, found) \in BOOLEAN
    BY DEF IsReady, HasSecrets
  <2> QED
    BY <1>2, <2>1, UncountedMoves
       DEF Handle, Proceed, RefuseUnread, RefuseUncounted, Answer, RaiseUnexpected, AnswerReady
<1>3. CASE Stream(r)
  BY <1>3, UncountedMoves DEF Stream, EndStream
<1> QED
  BY <1>1, <1>2, <1>3

LEMMA MovingKeepsCount ==
  ASSUME AllSound, Counted, NEW r \in Requests, Moves(r), UNCHANGED <<hits, admitted>>
  PROVE  AllSound' /\ Counted'
<1>1. PICK q : Becomes(r, q) /\ Sound(q) /\ q.at # "new" /\ (q.at = "reading" => request[r].at = "new")
  BY DEF Moves
<1>2. AllSound' /\ request'[r] = q /\ \A s \in Requests : s # r => request'[s] = request[s]
  BY <1>1, MovingKeepsRecords
<1>3. \A s \in Requests : request[s].at \notin {"new", "reading"} => request'[s].at \notin {"new", "reading"}
  BY <1>1, <1>2
<1> QED
  BY <1>2, <1>3 DEF Counted

LEMMA CountKeepsCount ==
  ASSUME AllSound, Counted, NEW r \in Requests, Count(r)
  PROVE  AllSound' /\ Counted'
<1> DEFINE c == Client(request[r])
           within == WithinLimit(hits[c] + 1)
<1>1. PICK q : Becomes(r, q) /\ Sound(q) /\ q.at \notin {"new", "reading"}
  BY CountMoves
<1>2. AllSound' /\ request'[r] = q /\ \A s \in Requests : s # r => request'[s] = request[s]
  BY <1>1, MovingKeepsRecords
<1>3. c \in Clients
  BY SoundRecord
<1>4. /\ hits' = [hits EXCEPT ![c] = @ + 1]
      /\ admitted' = [admitted EXCEPT ![c] = IF within THEN @ \cup {r} ELSE @]
  BY DEF Count
<1>5. r \notin admitted[c]
  BY <1>3 DEF Count, Reading, Counted
<1> HIDE DEF c, within
<1>6. IsFiniteSet(admitted[c]) /\ Cardinality(admitted[c]) = Least(hits[c], Limit) /\ hits[c] \in Nat
  BY <1>3 DEF Counted
<1>7. /\ IsFiniteSet(admitted[c] \cup {r})
      /\ Cardinality(admitted[c] \cup {r}) = Cardinality(admitted[c]) + 1
  BY <1>5, <1>6, FS_AddElement
<1>8. within <=> hits[c] + 1 <= Limit
  BY DEF within, WithinLimit
<1>9. hits' \in [Clients -> Nat] /\ admitted' \in [Clients -> SUBSET Requests]
  BY <1>3, <1>4, <1>6 DEF Counted
<1>10. /\ IsFiniteSet(admitted'[c])
       /\ Cardinality(admitted'[c]) = Least(hits'[c], Limit)
  BY <1>3, <1>4, <1>6, <1>7, <1>8, LimitAssumption DEF Least, Counted
<1>11. \A d \in Clients : d # c => admitted'[d] = admitted[d] /\ hits'[d] = hits[d]
  BY <1>4 DEF Counted
<1>12. \A d \in Clients : \A s \in admitted'[d] : s \in admitted[d] \/ s = r
  BY <1>3, <1>4, <1>11 DEF Counted
<1>13. \A d \in Clients : \A s \in admitted'[d] : request'[s].at \notin {"new", "reading"}
  BY <1>1, <1>2, <1>12 DEF Counted
<1>14. \A d \in Clients : IsFiniteSet(admitted'[d]) /\ Cardinality(admitted'[d]) = Least(hits'[d], Limit)
  BY <1>10, <1>11 DEF Counted
<1> QED
  BY <1>2, <1>9, <1>13, <1>14 DEF Counted

LEMMA WindowKeepsCount ==
  ASSUME AllSound, Counted, NEW c \in Clients, WindowEnds(c)
  PROVE  AllSound' /\ Counted'
<1>1. IsFiniteSet({}) /\ Cardinality({}) = 0
  BY FS_EmptySet
<1>2. 0 = Least(0, Limit)
  BY LimitAssumption DEF Least
<1>3. hits' = [hits EXCEPT ![c] = 0] /\ admitted' = [admitted EXCEPT ![c] = {}] /\ request' = request
  BY DEF WindowEnds
<1>4. \A d \in Clients : /\ d = c => admitted'[d] = {} /\ hits'[d] = 0
                         /\ d # c => admitted'[d] = admitted[d] /\ hits'[d] = hits[d]
  BY <1>3 DEF Counted
<1>5. hits' \in [Clients -> Nat] /\ admitted' \in [Clients -> SUBSET Requests]
  BY <1>3 DEF Counted
<1>6. \A d \in Clients : IsFiniteSet(admitted'[d]) /\ Cardinality(admitted'[d]) = Least(hits'[d], Limit)
  BY <1>1, <1>2, <1>4 DEF Counted
<1>7. \A d \in Clients : \A s \in admitted'[d] : request'[s].at \notin {"new", "reading"}
  BY <1>3, <1>4 DEF Counted
<1> QED
  BY <1>3, <1>5, <1>6, <1>7 DEF AllSound, Counted

-----------------------------------------------------------------------------
\* The steps of the process, while no step takes a request away.
LEMMA LifeStepsKeepLife ==
  ASSUME LifeTypeOK, Alive, UNCHANGED httpVars,
         StartupStep \/ SessionLost \/ StopRequested \/ ShutdownStep \/ (Finally /\ \A r \in Requests : ~InFlight(r))
  PROVE  LifeTypeOK' /\ Alive'
<1>1. \A r \in Requests : InFlight(r)' <=> InFlight(r)
  BY DEF httpVars, InFlight
<1>2. OverMcp' <=> settings'.tools_backend = "mcp"
  BY DEF OverMcp
<1>3. CASE Boot \/ RefuseToBoot \/ RerankerLoads \/ RerankerFails
  BY <1>1, <1>3 DEF Boot, RefuseToBoot, RerankerLoads, RerankerFails, Crash, LifeTypeOK, Alive, Openable, OverMcp
<1>4. CASE Connects \/ ConnectFails \/ ListsTools \/ ListFails
  BY <1>1, <1>4 DEF Connects, ConnectFails, ListsTools, ListFails, Crash, LifeTypeOK, Alive, Openable, OverMcp
<1>5. CASE SessionLost \/ StopRequested
  BY <1>1, <1>5 DEF SessionLost, StopRequested, LifeTypeOK, Alive, OverMcp
<1>6. CASE Finally /\ \A r \in Requests : ~InFlight(r)
  BY <1>1, <1>6 DEF Finally, LifeTypeOK, Alive, OverMcp
<1>7. CASE BridgeCloses \/ BridgeCloseFails
  BY <1>1, <1>7 DEF BridgeCloses, BridgeCloseFails, LifeTypeOK, Alive, Openable, OverMcp
<1>8. CASE HttpCloses
  BY <1>1, <1>8 DEF HttpCloses, LifeTypeOK, Alive, Openable, OverMcp
<1> QED
  BY <1>3, <1>4, <1>5, <1>6, <1>7, <1>8 DEF StartupStep, ShutdownStep

\* A request is only in flight while the process serves or drains.
LEMMA RequestStepsKeepLife ==
  ASSUME LifeTypeOK, Alive, NEW r \in Requests, Accept(r) \/ Handle(r) \/ Stream(r),
         \A s \in Requests : s # r => request'[s] = request[s]
  PROVE  LifeTypeOK' /\ Alive'
<1>1. UNCHANGED lifeVars
  BY DEF Accept, Handle, Stream
<1>2. at \in {"serving", "draining"}
  <2>1. Handle(r) \/ Stream(r) => InFlight(r)
    BY DEF Handle, Stream, Proceed, RefuseUnread, RefuseUncounted, Count, Answer, RaiseUnexpected, AnswerReady,
           EndStream, Reading, InFlight
  <2> QED
    BY <2>1 DEF Accept, Alive
<1> QED
  BY <1>1, <1>2 DEF lifeVars, LifeTypeOK, Alive, OverMcp

LEMMA NextKeepsInvariant == IInv /\ [Next]_vars => IInv'
<1> SUFFICES ASSUME IInv, [Next]_vars PROVE IInv'
  OBVIOUS
<1> USE DEF IInv
<1>1. ASSUME NEW r \in Requests, Accept(r) \/ Handle(r) \/ Stream(r) PROVE IInv'
  <2>1. (Moves(r) /\ UNCHANGED <<api_key, hits, admitted>>) \/ Count(r)
    BY <1>1, RequestSteps
  <2>2. AllSound' /\ Counted'
    BY <2>1, MovingKeepsCount, CountKeepsCount
  <2>3. api_key' = api_key
    BY <2>1 DEF Count
  <2>4. \A s \in Requests : s # r => request'[s] = request[s]
    BY <2>1, CountMoves DEF Moves, Becomes, AllSound
  <2> QED
    BY <1>1, <2>2, <2>3, <2>4, RequestStepsKeepLife
<1>2. ASSUME NEW c \in Clients, WindowEnds(c), UNCHANGED lifeVars PROVE IInv'
  <2>1. AllSound' /\ Counted' /\ api_key' = api_key /\ request' = request
    BY <1>2, WindowKeepsCount DEF WindowEnds
  <2>2. LifeTypeOK' /\ Alive'
    BY <1>2, <2>1 DEF lifeVars, LifeTypeOK, Alive, OverMcp, InFlight
  <2> QED
    BY <2>1, <2>2
<1>3. CASE Lives
  BY <1>3, LifeStepsKeepLife DEF Lives, httpVars, AllSound, Counted
<1>4. CASE Drained
  BY <1>4, LifeStepsKeepLife DEF Drained, httpVars, AllSound, Counted
<1>5. CASE UNCHANGED vars
  BY <1>5 DEF vars, LifeTypeOK, AllSound, Counted, Alive, OverMcp, InFlight
<1> QED
  BY <1>1, <1>2, <1>3, <1>4, <1>5 DEF Next

LEMMA InvariantHolds == Spec => []IInv
BY InitIsInvariant, NextKeepsInvariant, PTL DEF Spec

-----------------------------------------------------------------------------
(***************************************************************************)
(* The theorems.                                                           *)
(***************************************************************************)

\* For any requests, addresses and configurations: process, records and counts have
\* their types (lifespan.py, middleware.py, ratelimit.py).
THEOREM TypeCorrect == Spec => []TypeOK
<1>1. IInv => TypeOK
  BY DEF IInv, AllSound, Counted, TypeOK, HttpTypeOK
<1> QED
  BY <1>1, InvariantHolds, PTL

\* For any number of requests, in every configuration, and wherever startup or
\* shutdown fails: no request meets a client or session that is not open, and a
\* process that exits by itself leaves nothing open (lifespan.py:46-59, :104-113).
THEOREM ResourcesHeldWhileNeeded == Spec => []HeldWhileNeeded
<1>1. IInv => HeldWhileNeeded
  BY DEF IInv, Alive, HeldWhileNeeded
<1> QED
  BY <1>1, InvariantHolds, PTL

\* Each request that is over has one access line with the status that was sent,
\* wherever it failed (middleware.py:56-84).
THEOREM OneLinePerRequest == Spec => []OneAccessLine
<1>1. IInv => OneAccessLine
  BY DEF IInv, AllSound, Consistent, OneAccessLine
<1> QED
  BY <1>1, InvariantHolds, PTL

\* Each response carries its request's id once in its header, each error also in its
\* envelope, but for the 503 of readiness, which has none (middleware.py:63-66,
\* errors.py:84-105, routes.py:43-48).
THEOREM EveryResponseNamesItsRequest == Spec => []ResponseNamesRequest
<1>1. IInv => ResponseNamesRequest
  BY DEF IInv, AllSound, Consistent, ResponseNamesRequest
<1> QED
  BY <1>1, InvariantHolds, PTL

\* For every limit and any number of requests and clients: the handler runs at most
\* Limit times per client and window, and nobody is refused earlier
\* (ratelimit.py:24-32, ask.py:45-53).
THEOREM TheLimitIsExact == Spec => LimitIsExact
<1>1. ASSUME IInv, IInv', [Next]_vars
      PROVE  /\ \A c \in Clients : Cardinality(admitted'[c]) <= Limit
             /\ \A r \in Requests : request'[r].over_limit /\ ~request[r].over_limit =>
                  Cardinality(admitted[Client(request[r])]) = Limit
  <2>1. \A c \in Clients : Cardinality(admitted'[c]) <= Limit
    BY <1>1, LimitAssumption DEF IInv, Counted, Least
  <2>2. ASSUME NEW r \in Requests, request'[r].over_limit, ~request[r].over_limit
        PROVE  Cardinality(admitted[Client(request[r])]) = Limit
    <3>1. request' # request
      BY <2>2
    <3>2. PICK s \in Requests : Accept(s) \/ Handle(s) \/ Stream(s)
      BY <1>1, <3>1 DEF Next, Lives, Drained, WindowEnds, httpVars, vars
    <3>3. AllSound /\ Counted
      BY <1>1 DEF IInv
    <3>4. Moves(s) /\ request'[r].over_limit => request[r].over_limit
      BY <3>3 DEF Moves, Becomes, AllSound
    <3>5. Count(s)
      BY <2>2, <3>2, <3>3, <3>4, RequestSteps
    <3>6. r = s /\ ~WithinLimit(hits[Client(request[r])] + 1)
      BY <2>2, <3>3, <3>5, CountMoves DEF Becomes, AllSound
    <3>7. Client(request[r]) \in Clients
      BY <3>3, SoundRecord
    <3> QED
      BY <3>3, <3>6, <3>7, LimitAssumption DEF Counted, Least, WithinLimit
  <2> QED
    BY <2>1, <2>2
<1>2. IInv /\ IInv' /\ [Next]_vars =>
        [/\ \A c \in Clients : Cardinality(admitted'[c]) <= Limit
         /\ \A r \in Requests : request'[r].over_limit /\ ~request[r].over_limit =>
              Cardinality(admitted[Client(request[r])]) = Limit]_httpVars
  BY <1>1
<1> QED
  BY <1>2, InvariantHolds, PTL DEF Spec, LimitIsExact
=============================================================================
