-------------------------- MODULE AskServiceProofs --------------------------
(***************************************************************************)
(* For any number of requests, questions and sessions and all durations:   *)
(* the types of AskService, and that each of its steps is a step of        *)
(* Conversations or leaves it alone.                                       *)
(***************************************************************************)
EXTENDS AskService, SequenceTheorems, FiniteSetTheorems, TLAPS

-----------------------------------------------------------------------------
(***************************************************************************)
(* The sets of a record's fields are named, so that a record is seen apart *)
(* from them.                                                              *)
(***************************************************************************)
Places == {"new", "running", "sending", "over"}
Results == {"none", "response", "rejected", "error", "timeout", "gone", "broken"}
Histories == Seq(Requests)
Times == 0..Deadline
Authors == Requests \cup {NoRequest}
Anywhere == Sessions \cup {NoSession}

LEMMA RecordsHaveFields ==
  RequestRecords =
    [at : Places, question : Questions, session : Anywhere, stream : BOOLEAN, seen : Histories,
     left : Times, result : Results, response : Authors, gap : BOOLEAN]
BY DEF RequestRecords, Places, Results, Histories, Times, Authors, Anywhere

LEMMA NothingArrived ==
  /\ NotArrived \in RequestRecords
  /\ NotArrived.at = "new" /\ NotArrived.seen = <<>> /\ NotArrived.response = NoRequest
<1>1. (CHOOSE q \in Questions : TRUE) \in Questions
  BY QuestionsAssumption
<1>2. <<>> \in Histories /\ 0 \in Times /\ NoRequest \in Authors /\ NoSession \in Anywhere
      /\ "new" \in Places /\ "none" \in Results
  BY TimesAssumption DEF Histories, Times, Authors, Anywhere, Places, Results
<1> QED
  BY <1>1, <1>2, RecordsHaveFields DEF NotArrived

\* A request as it arrives.
LEMMA ArrivesTyped ==
  ASSUME NEW q \in Questions, NEW s \in Sessions \cup {NoSession}, NEW stream \in BOOLEAN
  PROVE  /\ ArrivesWith(q, s, stream) \in RequestRecords
         /\ ArrivesWith(q, s, stream).question = q /\ ArrivesWith(q, s, stream).session = s
         /\ ArrivesWith(q, s, stream).seen = <<>> /\ ArrivesWith(q, s, stream).response = NoRequest
<1>1. s \in Anywhere
  BY DEF Anywhere
<1> QED
  BY <1>1, NothingArrived, RecordsHaveFields DEF ArrivesWith

\* The last MaxTurns of the turns are turns.
LEMMA RecentTyped ==
  ASSUME NEW turns \in Seq(Requests)
  PROVE  Recent(turns) \in Seq(Requests) /\ Len(Recent(turns)) <= MaxTurns
<1>1. CASE Len(turns) <= MaxTurns
  BY <1>1 DEF Recent
<1>2. CASE ~(Len(turns) <= MaxTurns)
  <2> DEFINE first == Len(turns) - MaxTurns + 1
  <2>1. first \in Int /\ Len(turns) \in Nat /\ MaxTurns \in Nat \ {0} /\ first >= 1
    BY <1>2, MaxTurnsAssumption
  <2>2. \A i \in first..Len(turns) : turns[i] \in Requests
    BY <2>1
  <2>3. /\ SubSeq(turns, first, Len(turns)) \in Seq(Requests)
        /\ Len(SubSeq(turns, first, Len(turns))) = IF first <= Len(turns) THEN Len(turns) - first + 1 ELSE 0
    BY <2>1, <2>2, SubSeqProperties
  <2>4. Recent(turns) = SubSeq(turns, first, Len(turns))
    BY <1>2 DEF Recent
  <2> HIDE DEF first
  <2>5. first = Len(turns) - MaxTurns + 1
    BY DEF first
  <2> QED
    BY <2>1, <2>3, <2>4, <2>5
<1> QED
  BY <1>1, <1>2

-----------------------------------------------------------------------------
(***************************************************************************)
(* The inductive invariant, and what each step makes of a record.          *)
(***************************************************************************)

\* A request that has not arrived was told nothing and has no answer.
Blank == \A r \in Requests : request[r].at = "new" => request[r].seen = <<>> /\ request[r].response = NoRequest

IInv == TypeOK /\ Blank

\* The record of r becomes q.
Becomes(r, q) == request' = [request EXCEPT ![r] = q] /\ q \in RequestRecords

LEMMA RecordTyped ==
  ASSUME TypeOK, NEW r \in Requests
  PROVE  request[r] \in RequestRecords
BY DEF TypeOK

LEMMA HistoryTyped ==
  ASSUME TypeOK, NEW s \in Sessions \cup {NoSession}
  PROVE  HistoryOf(s) \in Histories
BY DEF TypeOK, HistoryOf, Histories

LEMMA RejectChanges ==
  ASSUME NEW r \in Requests, NEW k \in Questions, NEW s \in Sessions \cup {NoSession}, NEW stream \in BOOLEAN,
         Reject(r, k, s, stream)
  PROVE  \E q : /\ Becomes(r, q) /\ q.at = "over" /\ q.question = k /\ q.session = s
                /\ q.seen = <<>> /\ q.response = NoRequest
<1> DEFINE a == ArrivesWith(k, s, stream)
           q == [a EXCEPT !.at = "over", !.result = "rejected"]
<1>1. a \in RequestRecords /\ a.question = k /\ a.session = s /\ a.seen = <<>> /\ a.response = NoRequest
  BY ArrivesTyped
<1>2. request' = [request EXCEPT ![r] = q]
  BY DEF Reject
<1> HIDE DEF a
<1>3. q \in RequestRecords /\ q.at = "over" /\ q.question = a.question /\ q.session = a.session
      /\ q.seen = a.seen /\ q.response = a.response
  BY <1>1, RecordsHaveFields DEF Places, Results
<1> HIDE DEF q
<1> QED
  BY <1>1, <1>2, <1>3 DEF Becomes

LEMMA ServeChanges ==
  ASSUME TypeOK, NEW r \in Requests, NEW k \in Questions, NEW s \in Sessions \cup {NoSession},
         NEW stream \in BOOLEAN, ServeFromCache(r, k, s, stream)
  PROVE  /\ s = NoSession /\ cache[Key[k]] # NoRequest
         /\ \E q : /\ Becomes(r, q) /\ q.at = "over" /\ q.question = k /\ q.session = s
                   /\ q.seen = <<>> /\ q.response = cache[Key[k]]
<1> DEFINE a == ArrivesWith(k, s, stream)
           author == request[cache[Key[k]]]
           whose == cache[Key[k]]
           q == [a EXCEPT !.at = "over", !.result = "response", !.response = whose, !.gap = author.gap]
<1>1. a \in RequestRecords /\ a.question = k /\ a.session = s /\ a.seen = <<>>
  BY ArrivesTyped
<1>2. s = NoSession /\ whose # NoRequest /\ whose \in Requests
  BY DEF ServeFromCache, Hit, TypeOK, Keys
<1>3. request' = [request EXCEPT ![r] = q]
  BY DEF ServeFromCache
<1>4. author \in RequestRecords
  BY <1>2, RecordTyped
<1> HIDE DEF a, author, whose
<1>5. author.gap \in BOOLEAN /\ whose \in Authors
  BY <1>2, <1>4, RecordsHaveFields DEF Authors
<1>6. q \in RequestRecords
  BY <1>1, <1>5, RecordsHaveFields DEF Places, Results
<1>7. q.at = "over" /\ q.question = a.question /\ q.session = a.session
      /\ q.seen = a.seen /\ q.response = whose
  BY <1>1, RecordsHaveFields
<1> HIDE DEF q
<1> QED
  BY <1>1, <1>2, <1>3, <1>6, <1>7 DEF Becomes, whose

LEMMA StartChanges ==
  ASSUME TypeOK, NEW r \in Requests, NEW k \in Questions, NEW s \in Sessions \cup {NoSession},
         NEW stream \in BOOLEAN, StartGraph(r, k, s, stream)
  PROVE  \E q : /\ Becomes(r, q) /\ q.at = "running" /\ q.question = k /\ q.session = s
                /\ q.seen = HistoryOf(s) /\ q.response = NoRequest
<1> DEFINE a == ArrivesWith(k, s, stream)
           h == HistoryOf(s)
           q == [a EXCEPT !.at = "running", !.seen = h, !.left = Deadline]
<1>1. a \in RequestRecords /\ a.question = k /\ a.session = s /\ a.response = NoRequest
  BY ArrivesTyped
<1>2. h \in Histories /\ Deadline \in Times
  BY HistoryTyped, TimesAssumption DEF Times
<1>3. request' = [request EXCEPT ![r] = q]
  BY DEF StartGraph
<1> HIDE DEF a, h
<1>4. q \in RequestRecords /\ q.at = "running" /\ q.question = a.question /\ q.session = a.session
      /\ q.seen = h /\ q.response = a.response
  BY <1>1, <1>2, RecordsHaveFields DEF Places
<1> HIDE DEF q
<1> QED
  BY <1>1, <1>3, <1>4 DEF Becomes, h

\* The same request, further on.
Continues(r, q) ==
  /\ Becomes(r, q)
  /\ q.question = request[r].question /\ q.session = request[r].session /\ q.seen = request[r].seen

LEMMA EndsChanges ==
  ASSUME TypeOK, NEW r \in Requests, NEW result \in Results, Ends(r, result)
  PROVE  \E q : Continues(r, q) /\ q.at = "over" /\ q.response = request[r].response
<1> DEFINE p == request[r]
           q == [p EXCEPT !.at = "over", !.left = 0, !.result = result]
<1>1. p \in RequestRecords /\ 0 \in Times
  BY RecordTyped, TimesAssumption DEF Times
<1>2. request' = [request EXCEPT ![r] = q]
  BY DEF Ends
<1> HIDE DEF p
<1>3. q \in RequestRecords /\ q.at = "over" /\ q.question = p.question /\ q.session = p.session
      /\ q.seen = p.seen /\ q.response = p.response
  BY <1>1, RecordsHaveFields DEF Places
<1> HIDE DEF q
<1> QED
  BY <1>2, <1>3 DEF Continues, Becomes, p

LEMMA SendChanges ==
  ASSUME TypeOK, NEW r \in Requests, SendEvent(r) \/ EventSent(r)
  PROVE  \E q : Continues(r, q) /\ q.at \in {"running", "sending"} /\ q.response = request[r].response
<1> DEFINE p == request[r]
<1>1. p \in RequestRecords
  BY RecordTyped
<1>2. PICK next \in {"running", "sending"} : request' = [request EXCEPT ![r].at = next]
  BY DEF SendEvent, EventSent
<1> DEFINE q == [p EXCEPT !.at = next]
<1>3. request' = [request EXCEPT ![r] = q]
  BY <1>2
<1> HIDE DEF p
<1>4. q \in RequestRecords /\ q.at = next /\ q.question = p.question /\ q.session = p.session
      /\ q.seen = p.seen /\ q.response = p.response
  BY <1>1, RecordsHaveFields DEF Places
<1> HIDE DEF q
<1> QED
  BY <1>3, <1>4 DEF Continues, Becomes, p

LEMMA GraphEndsChanges ==
  ASSUME TypeOK, NEW r \in Requests, GraphEnds(r)
  PROVE  /\ \E q : Continues(r, q) /\ q.at = "over" /\ q.response = r
         /\ \E outcome \in Outcomes : Finish(r, outcome)
<1> DEFINE p == request[r]
<1>1. p \in RequestRecords /\ r \in Authors /\ 0 \in Times
  BY RecordTyped, TimesAssumption DEF Times, Authors
<1>2. PICK outcome \in Outcomes :
        /\ Finish(r, outcome)
        /\ request' = [request EXCEPT ![r] =
             [@ EXCEPT !.at = "over", !.left = 0, !.result = "response", !.response = r, !.gap = outcome.gap]]
  BY DEF GraphEnds
<1>3. outcome.gap \in BOOLEAN
  BY OutcomesAssumption
<1> DEFINE q == [p EXCEPT !.at = "over", !.left = 0, !.result = "response", !.response = r, !.gap = outcome.gap]
<1>4. request' = [request EXCEPT ![r] = q]
  BY <1>2
<1> HIDE DEF p
<1>5. q \in RequestRecords
  BY <1>1, <1>3, RecordsHaveFields DEF Places, Results
<1>6. q.at = "over" /\ q.question = p.question /\ q.session = p.session /\ q.seen = p.seen /\ q.response = r
  BY <1>1, RecordsHaveFields
<1> HIDE DEF q
<1> QED
  BY <1>2, <1>4, <1>5, <1>6 DEF Continues, Becomes, p

-----------------------------------------------------------------------------
(***************************************************************************)
(* The sessions and the cache.                                             *)
(***************************************************************************)
MemoryOK ==
  /\ history \in [Sessions -> Seq(Requests)]
  /\ \A s \in Sessions : Len(history[s]) <= MaxTurns
  /\ expires \in [Sessions -> 0..SessionTtl]
  /\ cache \in [Keys -> Authors]
  /\ fresh \in [Keys -> 0..CacheTtl]
  /\ Cardinality(Remembered) <= MaxSessions /\ Cardinality(Cached) <= MaxCached

memory == <<history, expires, cache, fresh>>

LEMMA TypesAreBoth == TypeOK <=> request \in [Requests -> RequestRecords] /\ MemoryOK
BY DEF TypeOK, MemoryOK, Authors

LEMMA TurnTyped ==
  ASSUME MemoryOK, NEW r \in Requests, NEW s \in Sessions
  PROVE  WithTurn(r, s) \in Seq(Requests) /\ Len(WithTurn(r, s)) <= MaxTurns
<1>1. Append(history[s], r) \in Seq(Requests)
  BY DEF MemoryOK
<1> QED
  BY <1>1, RecentTyped DEF WithTurn

LEMMA EntriesFinite == IsFiniteSet(Remembered) /\ IsFiniteSet(Cached)
<1>1. IsFiniteSet(Keys)
  <2> DEFINE f == [q \in Questions |-> Key[q]]
  <2>1. f \in Surjection(Questions, Keys)
    BY DEF Surjection, Keys
  <2> QED
    BY <2>1, QuestionsAssumption, FS_Surjection DEF ExistsSurjection
<1> QED
  BY <1>1, QuestionsAssumption, FS_Subset DEF Remembered, Cached

\* Room is made for an entry, so that there are never more than the size.
LEMMA RoomIsMade ==
  ASSUME NEW entries, IsFiniteSet(entries), NEW size \in Nat \ {0}, Cardinality(entries) <= size,
         NEW left, NEW new, NEW gone \in Dropped(entries, left, new, size),
         NEW after, after \subseteq (entries \ gone) \cup {new}
  PROVE  Cardinality(after) <= size
<1> DEFINE kept == entries \ gone
<1>1. IsFiniteSet(kept) /\ Cardinality(kept) \in Nat /\ Cardinality(entries) \in Nat
      /\ Cardinality(kept) <= Cardinality(entries)
  BY FS_Subset, FS_CardinalityType
<1>2. /\ IsFiniteSet(kept \cup {new})
      /\ Cardinality(kept \cup {new}) = IF new \in kept THEN Cardinality(kept) ELSE Cardinality(kept) + 1
  BY <1>1, FS_AddElement
<1>3. Cardinality(after) <= Cardinality(kept \cup {new}) /\ Cardinality(after) \in Nat
  BY <1>2, FS_Subset, FS_CardinalityType
<1>4. CASE new \in entries
  <2>1. gone = {}
    BY <1>4 DEF Dropped
  <2>2. kept = entries
    BY <2>1
  <2> QED
    BY <1>1, <1>2, <1>3, <1>4, <2>2
<1>5. CASE Cardinality(entries) < size
  BY <1>1, <1>2, <1>3, <1>5
<1>6. CASE new \notin entries /\ ~(Cardinality(entries) < size)
  <2>1. PICK old \in entries : gone = {old}
    BY <1>6 DEF Dropped
  <2>2. Cardinality(kept) = Cardinality(entries) - 1
    BY <2>1, FS_RemoveElement
  <2> QED
    BY <1>1, <1>2, <1>3, <2>2
<1> QED
  BY <1>4, <1>5, <1>6

LEMMA RememberKeepsMemory ==
  ASSUME MemoryOK, NEW r \in Requests, NEW s \in Sessions, Remember(r, s)
  PROVE  /\ history' \in [Sessions -> Seq(Requests)]
         /\ \A t \in Sessions : Len(history'[t]) <= MaxTurns
         /\ expires' \in [Sessions -> 0..SessionTtl]
         /\ Cardinality(Remembered') <= MaxSessions
<1>1. PICK gone \in Dropped(Remembered, expires, s, MaxSessions) :
        /\ history' = [t \in Sessions |->
             IF t = s THEN WithTurn(r, s) ELSE IF t \in gone THEN <<>> ELSE history[t]]
        /\ expires' = [t \in Sessions |->
             IF t = s THEN SessionTtl ELSE IF t \in gone THEN 0 ELSE expires[t]]
  BY DEF Remember
<1>2. SessionTtl \in 0..SessionTtl /\ 0 \in 0..SessionTtl /\ <<>> \in Seq(Requests) /\ Len(<<>>) = 0
      /\ MaxSessions \in Nat \ {0}
  BY TimesAssumption, SizesAssumption
<1>3. history' \in [Sessions -> Seq(Requests)] /\ \A t \in Sessions : Len(history'[t]) <= MaxTurns
  BY <1>1, <1>2, TurnTyped, MaxTurnsAssumption DEF MemoryOK
<1>4. expires' \in [Sessions -> 0..SessionTtl]
  BY <1>1, <1>2 DEF MemoryOK
<1>5. Remembered' \subseteq (Remembered \ gone) \cup {s}
  BY <1>1 DEF Remembered
<1>6. Cardinality(Remembered) <= MaxSessions
  BY DEF MemoryOK
<1> QED
  BY <1>1, <1>2, <1>3, <1>4, <1>5, <1>6, EntriesFinite, RoomIsMade

LEMMA CacheKeepsMemory ==
  ASSUME MemoryOK, NEW r \in Requests, NEW k \in Keys, Cache(r, k)
  PROVE  /\ cache' \in [Keys -> Authors]
         /\ fresh' \in [Keys -> 0..CacheTtl]
         /\ Cardinality(Cached') <= MaxCached
<1>1. PICK gone \in Dropped(Cached, fresh, k, MaxCached) :
        /\ cache' = [j \in Keys |-> IF j = k THEN r ELSE IF j \in gone THEN NoRequest ELSE cache[j]]
        /\ fresh' = [j \in Keys |-> IF j = k THEN CacheTtl ELSE IF j \in gone THEN 0 ELSE fresh[j]]
  BY DEF Cache
<1>2. CacheTtl \in 0..CacheTtl /\ 0 \in 0..CacheTtl /\ r \in Authors /\ NoRequest \in Authors
      /\ MaxCached \in Nat \ {0}
  BY TimesAssumption, SizesAssumption DEF Authors
<1>3. cache' \in [Keys -> Authors]
  BY <1>1, <1>2 DEF MemoryOK
<1>4. fresh' \in [Keys -> 0..CacheTtl]
  BY <1>1, <1>2 DEF MemoryOK
<1>5. Cached' \subseteq (Cached \ gone) \cup {k}
  BY <1>1 DEF Cached
<1>6. Cardinality(Cached) <= MaxCached
  BY DEF MemoryOK
<1> QED
  BY <1>1, <1>2, <1>3, <1>4, <1>5, <1>6, EntriesFinite, RoomIsMade

LEMMA FinishKeepsMemory ==
  ASSUME TypeOK, NEW r \in Requests, NEW outcome \in Outcomes, Finish(r, outcome)
  PROVE  MemoryOK'
<1> DEFINE s == request[r].session
           k == Key[request[r].question]
<1>1. MemoryOK
  BY TypesAreBoth
<1>2. s \in Sessions \cup {NoSession} /\ k \in Keys
  <2>1. request[r].session \in Anywhere /\ request[r].question \in Questions
    BY RecordTyped, RecordsHaveFields
  <2> QED
    BY <2>1 DEF Anywhere, Keys
<1> HIDE DEF s, k
<1>3. /\ IF outcome.answer /\ s # NoSession THEN Remember(r, s) ELSE UNCHANGED <<history, expires>>
      /\ IF Cacheable(s, outcome) THEN Cache(r, k) ELSE UNCHANGED <<cache, fresh>>
  BY DEF Finish, s, k
<1>4. /\ history' \in [Sessions -> Seq(Requests)] /\ \A t \in Sessions : Len(history'[t]) <= MaxTurns
      /\ expires' \in [Sessions -> 0..SessionTtl] /\ Cardinality(Remembered') <= MaxSessions
  <2>1. CASE outcome.answer /\ s # NoSession
    BY <1>1, <1>2, <1>3, <2>1, RememberKeepsMemory
  <2>2. CASE ~(outcome.answer /\ s # NoSession)
    BY <1>1, <1>3, <2>2 DEF MemoryOK, Remembered
  <2> QED
    BY <2>1, <2>2
<1>5. cache' \in [Keys -> Authors] /\ fresh' \in [Keys -> 0..CacheTtl] /\ Cardinality(Cached') <= MaxCached
  <2>1. CASE Cacheable(s, outcome)
    BY <1>1, <1>2, <1>3, <2>1, CacheKeepsMemory
  <2>2. CASE ~Cacheable(s, outcome)
    BY <1>1, <1>3, <2>2 DEF MemoryOK, Cached
  <2> QED
    BY <2>1, <2>2
<1> QED
  BY <1>4, <1>5 DEF MemoryOK

LEMMA UnlessZeroTyped ==
  ASSUME NEW limit \in Nat, NEW n \in 0..limit
  PROVE  UnlessZero(n) \in 0..limit
BY DEF UnlessZero

LEMMA TickKeepsMemory ==
  ASSUME MemoryOK, Tick
  PROVE  MemoryOK'
<1>1. <<>> \in Seq(Requests) /\ Len(<<>>) = 0 /\ NoRequest \in Authors /\ SessionTtl \in Nat /\ CacheTtl \in Nat
  BY TimesAssumption DEF Authors
<1>2. history' \in [Sessions -> Seq(Requests)] /\ \A s \in Sessions : Len(history'[s]) <= MaxTurns
  BY <1>1, MaxTurnsAssumption DEF Tick, MemoryOK
<1>3. expires' \in [Sessions -> 0..SessionTtl]
  BY <1>1, UnlessZeroTyped DEF Tick, MemoryOK
<1>4. cache' \in [Keys -> Authors]
  BY <1>1 DEF Tick, MemoryOK
<1>5. fresh' \in [Keys -> 0..CacheTtl]
  BY <1>1, UnlessZeroTyped DEF Tick, MemoryOK
<1>6. Remembered' \subseteq Remembered /\ Cached' \subseteq Cached
  BY DEF Tick, Remembered, Cached
<1>7. /\ Cardinality(Remembered') <= Cardinality(Remembered) /\ Cardinality(Cached') <= Cardinality(Cached)
      /\ {Cardinality(Remembered), Cardinality(Remembered'), Cardinality(Cached), Cardinality(Cached')} \subseteq Nat
  <2>1. IsFiniteSet(Remembered') /\ IsFiniteSet(Cached')
    BY <1>6, EntriesFinite, FS_Subset
  <2> QED
    BY <1>6, <2>1, EntriesFinite, FS_Subset, FS_CardinalityType
<1>8. Cardinality(Remembered') <= MaxSessions /\ Cardinality(Cached') <= MaxCached
  BY <1>7, SizesAssumption DEF MemoryOK
<1> QED
  BY <1>2, <1>3, <1>4, <1>5, <1>8 DEF MemoryOK

\* Time changes nothing of a request but what is left of it.
LEMMA TickChanges ==
  ASSUME TypeOK, Tick
  PROVE  /\ request' \in [Requests -> RequestRecords]
         /\ \A r \in Requests :
              /\ request'[r].at = request[r].at /\ request'[r].question = request[r].question
              /\ request'[r].session = request[r].session /\ request'[r].seen = request[r].seen
              /\ request'[r].response = request[r].response
<1> SUFFICES ASSUME NEW r \in Requests
             PROVE  /\ request'[r] \in RequestRecords
                    /\ request'[r].at = request[r].at /\ request'[r].question = request[r].question
                    /\ request'[r].session = request[r].session /\ request'[r].seen = request[r].seen
                    /\ request'[r].response = request[r].response
  BY DEF Tick
<1> DEFINE p == request[r]
           left == UnlessZero(p.left)
           q == [p EXCEPT !.left = left]
<1>1. p \in RequestRecords
  BY RecordTyped
<1>2. p.left \in 0..Deadline /\ Deadline \in Nat
  BY <1>1, TimesAssumption, RecordsHaveFields DEF Times
<1>3. left \in Times
  BY <1>2, UnlessZeroTyped DEF Times
<1>4. request'[r] = q
  BY DEF Tick
<1> HIDE DEF p, left
<1>5. q \in RequestRecords /\ q.at = p.at /\ q.question = p.question /\ q.session = p.session
      /\ q.seen = p.seen /\ q.response = p.response
  BY <1>1, <1>3, RecordsHaveFields
<1> QED
  BY <1>4, <1>5 DEF p

-----------------------------------------------------------------------------
(***************************************************************************)
(* The invariant is kept.                                                  *)
(***************************************************************************)
LEMMA BecomingKeepsRecords ==
  ASSUME IInv, NEW r \in Requests, NEW q, Becomes(r, q),
         q.at = "new" => q.seen = <<>> /\ q.response = NoRequest
  PROVE  request' \in [Requests -> RequestRecords] /\ Blank'
<1>1. request \in [Requests -> RequestRecords]
  BY DEF IInv, TypeOK
<1>2. request' \in [Requests -> RequestRecords] /\ \A s \in Requests : request'[s] = IF s = r THEN q ELSE request[s]
  BY <1>1 DEF Becomes
<1> QED
  BY <1>2 DEF IInv, Blank

LEMMA InitIsInvariant == Init => IInv
<1> SUFFICES ASSUME Init PROVE IInv
  OBVIOUS
<1>1. request \in [Requests -> RequestRecords] /\ Blank
  BY NothingArrived DEF Init, Blank
<1>2. MemoryOK
  <2>1. <<>> \in Seq(Requests) /\ Len(<<>>) = 0 /\ NoRequest \in Authors /\ 0 \in 0..SessionTtl /\ 0 \in 0..CacheTtl
    BY TimesAssumption DEF Authors
  <2>2. Remembered = {} /\ Cached = {} /\ Cardinality({}) = 0
    BY FS_EmptySet DEF Init, Remembered, Cached
  <2>3. 0 <= MaxSessions /\ 0 <= MaxCached
    BY SizesAssumption
  <2> QED
    BY <2>1, <2>2, <2>3, MaxTurnsAssumption DEF Init, MemoryOK
<1> QED
  BY <1>1, <1>2, TypesAreBoth DEF IInv

LEMMA NextKeepsInvariant == IInv /\ [Next]_vars => IInv'
<1> SUFFICES ASSUME IInv, [Next]_vars PROVE IInv'
  OBVIOUS
<1>0. TypeOK /\ MemoryOK
  BY TypesAreBoth DEF IInv
<1>1. TypeOK' <=> request' \in [Requests -> RequestRecords] /\ MemoryOK'
  BY DEF TypeOK, MemoryOK, Authors
<1>2. UNCHANGED memory => MemoryOK'
  BY <1>0 DEF MemoryOK, memory, Remembered, Cached
<1>3. ASSUME NEW r \in Requests, NEW k \in Questions, NEW s \in Sessions \cup {NoSession},
             NEW stream \in BOOLEAN, Arrive(r, k, s, stream)
      PROVE  IInv'
  <2>1. \E q : Becomes(r, q) /\ q.at # "new"
    BY <1>0, <1>3, RejectChanges, ServeChanges, StartChanges DEF Arrive
  <2>2. UNCHANGED memory
    BY <1>3 DEF Arrive, memory
  <2> QED
    BY <1>1, <1>2, <2>1, <2>2, BecomingKeepsRecords DEF IInv
<1>4. ASSUME NEW r \in Requests, SendEvent(r) \/ EventSent(r) PROVE IInv'
  <2>1. \E q : Becomes(r, q) /\ q.at # "new"
    BY <1>0, <1>4, SendChanges DEF Continues
  <2>2. UNCHANGED memory
    BY <1>4 DEF SendEvent, EventSent, memory
  <2> QED
    BY <1>1, <1>2, <2>1, <2>2, BecomingKeepsRecords DEF IInv
<1>5. ASSUME NEW r \in Requests, GraphEnds(r) PROVE IInv'
  <2>1. \E q : Becomes(r, q) /\ q.at # "new"
    BY <1>0, <1>5, GraphEndsChanges DEF Continues
  <2>2. MemoryOK'
    BY <1>0, <1>5, GraphEndsChanges, FinishKeepsMemory
  <2> QED
    BY <1>1, <2>1, <2>2, BecomingKeepsRecords DEF IInv
<1>6. ASSUME NEW r \in Requests, GraphRaises(r) \/ DeadlinePasses(r) \/ ClientLeaves(r) PROVE IInv'
  <2>1. \E result \in Results : Ends(r, result)
    BY <1>6 DEF GraphRaises, DeadlinePasses, ClientLeaves, Results
  <2>2. \E q : Becomes(r, q) /\ q.at # "new"
    BY <1>0, <2>1, EndsChanges DEF Continues
  <2>3. UNCHANGED memory
    BY <1>6 DEF GraphRaises, DeadlinePasses, ClientLeaves, memory
  <2> QED
    BY <1>1, <1>2, <2>2, <2>3, BecomingKeepsRecords DEF IInv
<1>7. CASE Tick
  BY <1>0, <1>1, <1>7, TickChanges, TickKeepsMemory DEF IInv, Blank
<1>8. CASE UNCHANGED vars
  BY <1>0, <1>1, <1>2, <1>8 DEF vars, memory, IInv, Blank, TypeOK
<1>9. ASSUME NEW r \in Requests, NEW body \in Bodies, Arrive(r, body.question, body.session, body.stream)
      PROVE  IInv'
  BY <1>3, <1>9, BodiesAssumption
<1> QED
  BY <1>4, <1>5, <1>6, <1>7, <1>8, <1>9 DEF Next, Progress

LEMMA InvariantHolds == Spec => []IInv
BY InitIsInvariant, NextKeepsInvariant, PTL DEF Spec

\* For any number of requests, questions and sessions and all durations: records,
\* sessions and cache have their types, and no session remembers more than MaxTurns
\* turns (service.py, sessions.py, cache.py).
THEOREM TypeCorrect == Spec => []TypeOK
BY InvariantHolds, PTL DEF IInv

-----------------------------------------------------------------------------
(***************************************************************************)
(* The simulation.                                                         *)
(***************************************************************************)

\* What Conversations sees when the record of r becomes q.
LEMMA SeenFrom ==
  ASSUME TypeOK, NEW r \in Requests, NEW q, Becomes(r, q)
  PROVE  /\ Status' = [Status EXCEPT ![r] = StatusOf(q)]
         /\ Asked' = [Asked EXCEPT ![r] = AskedOf(q)]
         /\ Told' = [Told EXCEPT ![r] = q.seen]
         /\ Answered' = [Answered EXCEPT ![r] = q.response]
<1>1. request' = [s \in Requests |-> IF s = r THEN q ELSE request[s]]
  BY DEF Becomes, TypeOK
<1>2. \A s \in Requests : request'[s] = IF s = r THEN q ELSE request[s]
  BY <1>1
<1>3. Status' = [Status EXCEPT ![r] = StatusOf(q)]
  BY <1>2 DEF Status, StatusOf
<1>4. Asked' = [Asked EXCEPT ![r] = AskedOf(q)]
  BY <1>2 DEF Asked, AskedOf
<1>5. Told' = [Told EXCEPT ![r] = q.seen]
  BY <1>2 DEF Told
<1>6. Answered' = [Answered EXCEPT ![r] = q.response]
  BY <1>2 DEF Answered
<1> QED
  BY <1>3, <1>4, <1>5, <1>6

\* A step that leaves a field of r as it was leaves it all alone.
LEMMA SeenTheSame ==
  ASSUME TypeOK, NEW r \in Requests
  PROVE  /\ Status = [Status EXCEPT ![r] = StatusOf(request[r])]
         /\ Asked = [Asked EXCEPT ![r] = AskedOf(request[r])]
         /\ Told = [Told EXCEPT ![r] = request[r].seen]
         /\ Answered = [Answered EXCEPT ![r] = request[r].response]
         /\ Status[r] = StatusOf(request[r]) /\ Asked[r] = AskedOf(request[r])
         /\ Told[r] = request[r].seen /\ Answered[r] = request[r].response
BY DEF Status, Asked, Told, Answered

LEMMA InitPromised == Init => Promise!Init
<1> SUFFICES ASSUME Init PROVE Promise!Init
  OBVIOUS
<1>1. \A r \in Requests : /\ request[r] = NotArrived /\ NotArrived.at = "new" /\ NotArrived.seen = <<>>
                          /\ NotArrived.response = NoRequest
  BY NothingArrived DEF Init
<1>2. Status = [r \in Requests |-> "new"]
  BY <1>1 DEF Status, StatusOf
<1>3. Asked = [r \in Requests |-> Promise!NotAsked]
  BY <1>1 DEF Asked, AskedOf, Promise!NotAsked
<1>4. Told = [r \in Requests |-> <<>>] /\ Answered = [r \in Requests |-> NoRequest]
  BY <1>1 DEF Told, Answered
<1> QED
  BY <1>2, <1>3, <1>4 DEF Init, Promise!Init

\* Arriving is asking, being refused or being answered out of the slot.
LEMMA ArrivalPromised ==
  ASSUME IInv, NEW r \in Requests, NEW k \in Questions, NEW s \in Sessions \cup {NoSession},
         NEW stream \in BOOLEAN, Arrive(r, k, s, stream)
  PROVE  Promise!Next
<1>1. TypeOK /\ request[r].at = "new" /\ UNCHANGED <<history, cache>> /\ Key[k] \in Keys
  BY DEF IInv, Arrive, Keys
<1>2. request[r].seen = <<>> /\ request[r].response = NoRequest
  BY <1>1 DEF IInv, Blank
<1>3. Status[r] = "new" /\ Told = [Told EXCEPT ![r] = <<>>] /\ Answered = [Answered EXCEPT ![r] = NoRequest]
  BY <1>1, <1>2, SeenTheSame DEF StatusOf
<1>4. ASSUME NEW q, Becomes(r, q), q.question = k, q.session = s, q.at \in {"running", "over"}
      PROVE  /\ Status' = [Status EXCEPT ![r] = IF q.at = "running" THEN "open" ELSE "over"]
             /\ Asked' = [Asked EXCEPT ![r] = [key |-> Key[k], session |-> s]]
             /\ Told' = [Told EXCEPT ![r] = q.seen] /\ Answered' = [Answered EXCEPT ![r] = q.response]
  BY <1>1, <1>4, SeenFrom DEF StatusOf, AskedOf
<1>5. CASE Reject(r, k, s, stream)
  <2>1. PICK q : /\ Becomes(r, q) /\ q.at = "over" /\ q.question = k /\ q.session = s
                 /\ q.seen = <<>> /\ q.response = NoRequest
    BY <1>5, RejectChanges
  <2>2. Promise!Refuse(r, Key[k], s)
    BY <1>1, <1>3, <1>4, <2>1 DEF Promise!Refuse, Promise!Asks
  <2> QED
    BY <1>1, <2>2 DEF Promise!Next
<1>6. CASE ServeFromCache(r, k, s, stream)
  <2>1. PICK q : /\ Becomes(r, q) /\ q.at = "over" /\ q.question = k /\ q.session = s
                 /\ q.seen = <<>> /\ q.response = cache[Key[k]]
    BY <1>1, <1>6, ServeChanges
  <2>2. s = NoSession /\ cache[Key[k]] # NoRequest
    BY <1>1, <1>6, ServeChanges
  <2>3. Promise!Recall(r, Key[k])
    BY <1>1, <1>3, <1>4, <2>1, <2>2 DEF Promise!Recall, Promise!Asks
  <2> QED
    BY <1>1, <2>3 DEF Promise!Next
<1>7. CASE StartGraph(r, k, s, stream)
  <2>1. PICK q : /\ Becomes(r, q) /\ q.at = "running" /\ q.question = k /\ q.session = s
                 /\ q.seen = HistoryOf(s) /\ q.response = NoRequest
    BY <1>1, <1>7, StartChanges
  <2>2. HistoryOf(s) = Promise!Turns(s)
    BY DEF HistoryOf, Promise!Turns
  <2>3. Promise!Ask(r, Key[k], s)
    BY <1>1, <1>3, <1>4, <2>1, <2>2 DEF Promise!Ask, Promise!Asks
  <2> QED
    BY <1>1, <2>3 DEF Promise!Next
<1> QED
  BY <1>5, <1>6, <1>7 DEF Arrive

\* What a request that goes on shows.
LEMMA ContinuingShows ==
  ASSUME IInv, NEW r \in Requests, request[r].at \in {"running", "sending"}, NEW q, Continues(r, q),
         q.at \in {"running", "sending", "over"}
  PROVE  /\ Status[r] = "open"
         /\ Status' = [Status EXCEPT ![r] = StatusOf(q)] /\ UNCHANGED <<Asked, Told>>
         /\ Answered' = [Answered EXCEPT ![r] = q.response]
         /\ Asked[r] = [key |-> Key[request[r].question], session |-> request[r].session]
<1>1. TypeOK /\ Becomes(r, q)
  BY DEF IInv, Continues
<1>2. AskedOf(q) = AskedOf(request[r]) /\ q.seen = request[r].seen
  BY DEF Continues, AskedOf
<1>3. Asked' = [Asked EXCEPT ![r] = AskedOf(request[r])] /\ Told' = [Told EXCEPT ![r] = request[r].seen]
  BY <1>1, <1>2, SeenFrom
<1>4. UNCHANGED <<Asked, Told>>
  BY <1>1, <1>3, SeenTheSame
<1>5. Status[r] = "open" /\ Asked[r] = [key |-> Key[request[r].question], session |-> request[r].session]
  BY <1>1, SeenTheSame DEF StatusOf, AskedOf
<1> QED
  BY <1>1, <1>4, <1>5, SeenFrom

\* A graph that ends answers; the turn or the response is remembered, or neither.
LEMMA AnswerPromised ==
  ASSUME IInv, NEW r \in Requests, GraphEnds(r)
  PROVE  Promise!Next
<1>1. TypeOK /\ request[r].at = "running" /\ request[r] \in RequestRecords
  BY RecordTyped DEF IInv, GraphEnds
<1>2. PICK q : Continues(r, q) /\ q.at = "over" /\ q.response = r
  BY <1>1, GraphEndsChanges
<1>3. /\ Status[r] = "open" /\ Status' = [Status EXCEPT ![r] = "over"] /\ UNCHANGED <<Asked, Told>>
      /\ Answered' = [Answered EXCEPT ![r] = r]
      /\ Asked[r] = [key |-> Key[request[r].question], session |-> request[r].session]
  BY <1>1, <1>2, ContinuingShows DEF StatusOf
<1> DEFINE s == request[r].session
           k == Key[request[r].question]
<1>4. Asked[r].key = k /\ Asked[r].session = s /\ s \in Sessions \cup {NoSession} /\ k \in Keys
  <2>1. request[r].question \in Questions /\ request[r].session \in Anywhere
    BY <1>1, RecordsHaveFields
  <2> QED
    BY <1>3, <2>1 DEF Keys, Anywhere
<1>5. PICK outcome \in Outcomes : Finish(r, outcome)
  BY <1>1, GraphEndsChanges
<1>6. history \in [Sessions -> Seq(Requests)] /\ cache \in [Keys -> Authors]
  BY <1>1, TypesAreBoth DEF MemoryOK
<1> HIDE DEF s, k
<1>7. /\ IF outcome.answer /\ s # NoSession THEN Remember(r, s) ELSE UNCHANGED <<history, expires>>
      /\ IF Cacheable(s, outcome) THEN Cache(r, k) ELSE UNCHANGED <<cache, fresh>>
  BY <1>5 DEF Finish, s, k
<1>8. CASE s # NoSession /\ outcome.answer
  <2>1. PICK gone \in Dropped(Remembered, expires, s, MaxSessions) : history' = [t \in Sessions |->
          IF t = s THEN WithTurn(r, s) ELSE IF t \in gone THEN <<>> ELSE history[t]]
    BY <1>7, <1>8 DEF Remember
  <2>2. WithTurn(r, s) = Promise!Last(Append(history[s], r))
    BY DEF WithTurn, Recent, Promise!Last
  <2>3. \E S \in SUBSET Sessions : history' = [t \in Sessions |->
          IF t = Asked[r].session THEN Promise!Last(Append(history[t], r)) ELSE IF t \in S THEN <<>> ELSE history[t]]
    <3> DEFINE S == gone \cap Sessions
    <3>1. history' = [t \in Sessions |->
            IF t = s THEN Promise!Last(Append(history[t], r)) ELSE IF t \in S THEN <<>> ELSE history[t]]
      BY <2>1, <2>2
    <3> QED
      BY <1>4, <3>1
  <2>4. cache' = cache
    BY <1>7, <1>8 DEF Cacheable
  <2> QED
    BY <1>3, <1>4, <1>8, <2>3, <2>4 DEF Promise!Next, Promise!Answer, Promise!Closes
<1>9. CASE s = NoSession /\ Cacheable(s, outcome)
  <2>1. PICK gone \in Dropped(Cached, fresh, k, MaxCached) : cache' = [j \in Keys |->
          IF j = k THEN r ELSE IF j \in gone THEN NoRequest ELSE cache[j]]
    BY <1>7, <1>9 DEF Cache
  <2>2. \E K \in SUBSET Keys : cache' = [j \in Keys |->
          IF j = Asked[r].key THEN r ELSE IF j \in K THEN NoRequest ELSE cache[j]]
    <3> DEFINE K == gone \cap Keys
    <3>1. cache' = [j \in Keys |-> IF j = k THEN r ELSE IF j \in K THEN NoRequest ELSE cache[j]]
      BY <2>1
    <3> QED
      BY <1>4, <3>1
  <2>3. history' = history
    BY <1>7, <1>9
  <2> QED
    BY <1>3, <1>4, <1>9, <2>2, <2>3 DEF Promise!Next, Promise!Answer, Promise!Closes
<1>10. CASE ~(s # NoSession /\ outcome.answer) /\ ~Cacheable(s, outcome)
  <2>1. history' = history /\ cache' = cache
    BY <1>7, <1>10
  <2> QED
    BY <1>3, <2>1 DEF Promise!Next, Promise!Answer, Promise!Closes
<1> QED
  BY <1>8, <1>9, <1>10 DEF Cacheable

LEMMA FailurePromised ==
  ASSUME IInv, NEW r \in Requests, GraphRaises(r) \/ DeadlinePasses(r) \/ ClientLeaves(r)
  PROVE  Promise!Next
<1>1. TypeOK /\ request[r].at \in {"running", "sending"} /\ UNCHANGED <<history, cache>>
  BY DEF IInv, GraphRaises, DeadlinePasses, ClientLeaves
<1>2. \E result \in Results : Ends(r, result)
  BY DEF GraphRaises, DeadlinePasses, ClientLeaves, Results
<1>3. PICK q : Continues(r, q) /\ q.at = "over" /\ q.response = request[r].response
  BY <1>1, <1>2, EndsChanges
<1>4. /\ Status[r] = "open" /\ Status' = [Status EXCEPT ![r] = "over"] /\ UNCHANGED <<Asked, Told>>
      /\ Answered' = [Answered EXCEPT ![r] = q.response]
  <2>1. Continues(r, q) /\ q.at \in {"running", "sending", "over"} /\ StatusOf(q) = "over"
    BY <1>3 DEF StatusOf
  <2>2. /\ Status[r] = "open" /\ Status' = [Status EXCEPT ![r] = StatusOf(q)] /\ UNCHANGED <<Asked, Told>>
        /\ Answered' = [Answered EXCEPT ![r] = q.response]
    BY <1>1, <2>1, ContinuingShows
  <2> QED
    BY <2>1, <2>2
<1>5. Answered' = Answered
  BY <1>1, <1>3, <1>4, SeenTheSame
<1>6. Promise!Fail(r)
  BY <1>1, <1>4, <1>5 DEF Promise!Fail, Promise!Closes
<1> QED
  BY <1>6, Zenon DEF Promise!Next

LEMMA SendingUnseen ==
  ASSUME IInv, NEW r \in Requests, SendEvent(r) \/ EventSent(r)
  PROVE  UNCHANGED Promise!vars
<1>1. TypeOK /\ request[r].at \in {"running", "sending"} /\ UNCHANGED <<history, cache>>
  BY DEF IInv, SendEvent, EventSent
<1>2. PICK q : Continues(r, q) /\ q.at \in {"running", "sending"} /\ q.response = request[r].response
  BY <1>1, SendChanges
<1>3. /\ Status' = [Status EXCEPT ![r] = StatusOf(q)] /\ UNCHANGED <<Asked, Told>>
      /\ Answered' = [Answered EXCEPT ![r] = q.response]
  <2>1. Continues(r, q) /\ q.at \in {"running", "sending", "over"}
    BY <1>2
  <2> QED
    BY <1>1, <2>1, ContinuingShows
<1>4. StatusOf(q) = StatusOf(request[r])
  <2>1. StatusOf(q) = "open" /\ StatusOf(request[r]) = "open"
    BY <1>1, <1>2 DEF StatusOf
  <2> QED
    BY <2>1
<1>5. UNCHANGED <<Status, Answered>>
  BY <1>1, <1>2, <1>3, <1>4, SeenTheSame
<1> QED
  BY <1>1, <1>3, <1>5 DEF Promise!vars

\* What expires is forgotten.
LEMMA TickPromised ==
  ASSUME IInv, Tick
  PROVE  Promise!Next
<1>1. TypeOK
  BY DEF IInv
<1>2. \A r \in Requests :
        /\ request'[r].at = request[r].at /\ request'[r].question = request[r].question
        /\ request'[r].session = request[r].session /\ request'[r].seen = request[r].seen
        /\ request'[r].response = request[r].response
  BY <1>1, TickChanges
<1>3. UNCHANGED <<Status, Asked, Told, Answered>>
  BY <1>2 DEF Status, StatusOf, Asked, AskedOf, Told, Answered
<1>4. \E S \in SUBSET Sessions : history' = [s \in Sessions |-> IF s \in S THEN <<>> ELSE history[s]]
  <2> DEFINE S == {s \in Sessions : expires[s] <= 1}
  <2>1. history' = [s \in Sessions |-> IF s \in S THEN <<>> ELSE history[s]]
    BY DEF Tick
  <2> QED
    BY <2>1
<1>5. \E K \in SUBSET Keys : cache' = [k \in Keys |-> IF k \in K THEN NoRequest ELSE cache[k]]
  <2> DEFINE K == {k \in Keys : fresh[k] <= 1}
  <2>1. cache' = [k \in Keys |-> IF k \in K THEN NoRequest ELSE cache[k]]
    BY DEF Tick
  <2> QED
    BY <2>1
<1> QED
  BY <1>3, <1>4, <1>5 DEF Promise!Next, Promise!Forget

LEMMA StepPromised == IInv /\ [Next]_vars => [Promise!Next]_Promise!vars
<1> SUFFICES ASSUME IInv, [Next]_vars PROVE [Promise!Next]_Promise!vars
  OBVIOUS
<1>1. ASSUME NEW r \in Requests, NEW k \in Questions, NEW s \in Sessions \cup {NoSession},
             NEW stream \in BOOLEAN, Arrive(r, k, s, stream)
      PROVE  Promise!Next
  BY <1>1, ArrivalPromised
<1>2. ASSUME NEW r \in Requests, GraphEnds(r) PROVE Promise!Next
  BY <1>2, AnswerPromised
<1>3. ASSUME NEW r \in Requests, GraphRaises(r) \/ DeadlinePasses(r) \/ ClientLeaves(r) PROVE Promise!Next
  BY <1>3, FailurePromised
<1>4. ASSUME NEW r \in Requests, SendEvent(r) \/ EventSent(r) PROVE UNCHANGED Promise!vars
  BY <1>4, SendingUnseen
<1>5. CASE Tick
  BY <1>5, TickPromised
<1>6. CASE UNCHANGED vars
  BY <1>6 DEF vars, Promise!vars, Status, StatusOf, Asked, AskedOf, Told, Answered
<1>7. ASSUME NEW r \in Requests, NEW body \in Bodies, Arrive(r, body.question, body.session, body.stream)
      PROVE  Promise!Next
  BY <1>1, <1>7, BodiesAssumption
<1> QED
  BY <1>2, <1>3, <1>4, <1>5, <1>6, <1>7 DEF Next, Progress

\* For any number of requests, questions and sessions and all durations, what the
\* service remembers and tells is what Conversations promises: no turn lost or
\* doubled, no trace of a request without an answer, no session's answer to others
\* (service.py:82-154, :217-226, sessions.py:25-33, cache.py:3-7).
THEOREM MemoryIsPromised == Spec => ImplementsConversations
BY InitPromised, StepPromised, InvariantHolds, PTL DEF Spec, ImplementsConversations, Promise!Spec
=============================================================================
