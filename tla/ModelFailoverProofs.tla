------------------------ MODULE ModelFailoverProofs ------------------------
(***************************************************************************)
(* Theorems about ModelFailover for any callers, providers, limits, blocks *)
(* and waits.                                                              *)
(***************************************************************************)
EXTENDS ModelFailover, TLAPS, WellFoundedInduction, FiniteSetTheorems

\* What the order of the calls needs to know of the budgets.
BudgetTypes ==
  /\ starts \in [Providers -> Seq(Int)]
  /\ sent \in [Providers -> Seq(Int)]
  /\ blocked \in [Providers -> Nat]

\* One call: what its record may be.
Sound(k) ==
  /\ k \in CallRecords
  /\ k.at = "calling" =>
       k.skipped \cup k.failed = {p \in Providers : p < k.provider} /\ k.provider \in Providers
  /\ k.at \in {"waiting", "last"} =>
       k.skipped \cup k.failed = Providers /\ k.provider \in k.skipped
  /\ k.at # "idle" => k.skipped \cap k.failed = {}
  /\ k.result = "unavailable" =>
       /\ k.skipped \cup k.failed = Providers
       /\ k.skipped # {} => k.skipped \cap k.failed # {}

IInv ==
  /\ BudgetTypes
  /\ call \in [Calls -> CallRecords]
  /\ \A c \in Calls : Sound(call[c])

-----------------------------------------------------------------------------
\* A non-empty set of naturals has a least element.
LEMMA LeastExists ==
  ASSUME NEW S \in SUBSET Nat, S # {}
  PROVE  \E x \in S : \A y \in S : x <= y
<1> DEFINE R == OpToRel(<, Nat)
<1>1. IsWellFoundedOn(R, Nat)
  BY NatLessThanWellFounded
<1> HIDE DEF R
<1>2. PICK x \in S : \A y \in S : ~(<<y, x>> \in R)
  BY <1>1, WFMin
<1>3. ASSUME NEW y \in S PROVE ~(y < x)
  BY <1>2 DEF R, OpToRel
<1> QED
  BY <1>3

\* Foremost picks a member that precedes the others.
LEMMA ForemostIsFirst ==
  ASSUME NEW S \in SUBSET Providers, S # {}
  PROVE  Foremost(S) \in S /\ \A q \in S : Foremost(S) <= q
<1>1. \E x \in S : \A y \in S : x <= y
  BY LeastExists DEF Providers
<1> QED
  BY <1>1 DEF Foremost

LEMMA SecondsAreNatural ==
  ASSUME BudgetTypes, NEW p \in Providers
  PROVE  SecondsUntilFree(p) \in Nat
<1>1. Limit[p] \in Nat \ {0}
  BY LimitAssumption
<1>2. blocked[p] \in Nat /\ starts[p] \in Seq(Int)
  BY DEF BudgetTypes
<1>3. (IF Len(starts[p]) >= Limit[p] THEN Head(starts[p]) ELSE 0) \in Int
  BY <1>1, <1>2
<1> QED
  BY <1>2, <1>3 DEF SecondsUntilFree, AtLeast

\* Soonest picks a member that frees no later than any other.
LEMMA SoonestIsSoonest ==
  ASSUME BudgetTypes, NEW S \in SUBSET Providers, S # {}
  PROVE  /\ Soonest(S) \in S
         /\ \A q \in S : SecondsUntilFree(Soonest(S)) <= SecondsUntilFree(q)
<1> DEFINE V == {SecondsUntilFree(p) : p \in S}
           T == {p \in S : \A q \in S : SecondsUntilFree(p) <= SecondsUntilFree(q)}
<1>1. V \in SUBSET Nat /\ V # {}
  BY SecondsAreNatural
<1>2. PICK v \in V : \A w \in V : v <= w
  BY <1>1, LeastExists
<1>3. T # {}
  BY <1>2
<1>4. Foremost(T) \in T
  BY <1>3, ForemostIsFirst
<1> QED
  BY <1>4 DEF Soonest

-----------------------------------------------------------------------------
\* The budgets keep their types.
LEMMA OlderIsSeq ==
  ASSUME NEW s \in Seq(Int)
  PROVE  Older(s) \in Seq(Int) /\ Len(Older(s)) <= Len(s)
<1> DEFINE G == {i \in DOMAIN s : s[i] = 1}
           gone == Cardinality(G)
<1>0. Len(s) \in Nat
  OBVIOUS
<1>1. IsFiniteSet(1..Len(s)) /\ Cardinality(1..Len(s)) = Len(s)
  <2>1. \A n \in Nat : IsFiniteSet(1..n) /\ Cardinality(1..n) = IF 1 > n THEN 0 ELSE n - 1 + 1
    BY FS_Interval
  <2>2. \A n \in Nat : (IF 1 > n THEN 0 ELSE n - 1 + 1) = n
    OBVIOUS
  <2> QED
    BY <1>0, <2>1, <2>2
<1>2. G \in SUBSET (1..Len(s))
  OBVIOUS
<1>3. IsFiniteSet(G) /\ gone <= Len(s)
  BY <1>1, <1>2, FS_Subset
<1>4. gone \in 0..Len(s)
  BY <1>3, FS_CardinalityType
<1> HIDE DEF G, gone
<1>5. /\ [i \in 1..(Len(s) - gone) |-> s[i + gone] - 1] \in Seq(Int)
      /\ Len([i \in 1..(Len(s) - gone) |-> s[i + gone] - 1]) = Len(s) - gone
  <2>1. Len(s) - gone \in Nat
    BY <1>4
  <2>2. \A i \in 1..(Len(s) - gone) : i + gone \in 1..Len(s)
    BY <1>4
  <2>3. \A i \in 1..(Len(s) - gone) : s[i + gone] - 1 \in Int
    BY <2>2
  <2> QED
    BY <2>1, <2>3
<1>6. Len(s) - gone <= Len(s)
  BY <1>0, <1>4
<1>7. Older(s) = [i \in 1..(Len(s) - gone) |-> s[i + gone] - 1]
  BY DEF Older, G, gone
<1> QED
  BY <1>5, <1>6, <1>7

LEMMA RecordedIsTyped ==
  ASSUME BudgetTypes, NEW p \in Providers
  PROVE  Recorded(p) \in [Providers -> Seq(Int)] /\ Sent(p) \in [Providers -> Seq(Int)]
BY WindowAssumption DEF BudgetTypes, Recorded, Sent

LEMMA WalkKeepsBudgets ==
  ASSUME BudgetTypes, NEW c \in Calls, NEW i \in Nat, NEW skipped, NEW failed,
         Walk(c, i, skipped, failed)
  PROVE  starts' \in [Providers -> Seq(Int)] /\ sent' \in [Providers -> Seq(Int)]
<1>1. CASE CallNext(c, i, skipped, failed)
  <2>1. Foremost(FreeFrom(i)) \in Providers
    BY <1>1, ForemostIsFirst DEF CallNext, FreeFrom
  <2> QED
    BY <1>1, <2>1, RecordedIsTyped DEF CallNext
<1>2. CASE WaitForBudget(c, i, skipped, failed) \/ GiveUp(c, i, skipped, failed)
  BY <1>2 DEF WaitForBudget, GiveUp, BudgetTypes
<1> QED
  BY <1>1, <1>2 DEF Walk

LEMMA NextKeepsBudgetTypes ==
  ASSUME IInv, [Next]_vars
  PROVE  BudgetTypes'
<1> USE DEF IInv
<1>1. CASE UNCHANGED vars
  BY <1>1 DEF vars, BudgetTypes
<1>2. CASE Tick
  <2>1. \A p \in Providers : starts[p] \in Seq(Int) /\ sent[p] \in Seq(Int)
    BY DEF BudgetTypes
  <2>2. starts' \in [Providers -> Seq(Int)] /\ sent' \in [Providers -> Seq(Int)]
    BY <1>2, <2>1, OlderIsSeq DEF Tick
  <2>3. blocked' \in [Providers -> Nat]
    BY <1>2 DEF Tick, BudgetTypes
  <2> QED
    BY <2>2, <2>3 DEF BudgetTypes
<1>3. ASSUME NEW c \in Calls, Begin(c)
      PROVE  BudgetTypes'
  BY <1>3, WalkKeepsBudgets DEF Begin, BudgetTypes
<1>4. ASSUME NEW c \in Calls, Failed(c)
      PROVE  BudgetTypes'
  <2>1. call[c].provider \in 0..Last
    BY DEF CallRecords
  <2>2. starts' \in [Providers -> Seq(Int)] /\ sent' \in [Providers -> Seq(Int)]
    BY <1>4, <2>1, LastAssumption, WalkKeepsBudgets DEF Failed
  <2>3. blocked' \in [Providers -> Nat]
    <3>1. PICK failure \in Failures :
            \E seconds \in FailureBlockSeconds(failure) : blocked' = BlockFor(call[c].provider, seconds)
      BY <1>4 DEF Failed
    <3>2. FailureBlockSeconds(failure) \subseteq Nat
      BY FailuresAssumption, BlocksAssumption, WindowAssumption DEF FailureBlockSeconds
    <3> QED
      BY <3>1, <3>2 DEF BlockFor, AtLeast, BudgetTypes
  <2> QED
    BY <2>2, <2>3 DEF BudgetTypes
<1>5. ASSUME NEW c \in Calls, CallAnyway(c)
      PROVE  BudgetTypes'
  <2>1. call[c].provider \in Providers
    BY <1>5 DEF CallAnyway, Sound, CallRecords
  <2> QED
    BY <1>5, <2>1, RecordedIsTyped DEF CallAnyway, BudgetTypes
<1>6. ASSUME NEW c \in Calls, Answered(c) \/ FailedAnyway(c) \/ Cancelled(c)
      PROVE  BudgetTypes'
  BY <1>6 DEF Answered, FailedAnyway, Cancelled, BudgetTypes
<1> QED
  BY <1>1, <1>2, <1>3, <1>4, <1>5, <1>6 DEF Next, Progress

-----------------------------------------------------------------------------
\* A walk that has accounted for every candidate before i goes on accounting.
LEMMA WalkIsSound ==
  ASSUME BudgetTypes, NEW c \in Calls, call \in [Calls -> CallRecords],
         NEW i \in 1..(Last + 1), NEW skipped \in SUBSET Providers, NEW failed \in SUBSET Providers,
         skipped \cup failed = {p \in Providers : p < i}, skipped \cap failed = {},
         Walk(c, i, skipped, failed)
  PROVE  /\ call' \in [Calls -> CallRecords]
         /\ Sound(call'[c])
         /\ \A d \in Calls : d # c => call'[d] = call[d]
<1>1. CASE CallNext(c, i, skipped, failed)
  <2> DEFINE p == Foremost(FreeFrom(i))
  <2>1. p \in Providers /\ i <= p /\ p \in 0..Last
    BY <1>1, ForemostIsFirst DEF CallNext, FreeFrom, Providers
  <2> HIDE DEF p
  <2>2. call' = [call EXCEPT ![c] = [at |-> "calling", provider |-> p,
                   skipped |-> skipped \cup (From(i) \ From(p)), failed |-> failed, wait |-> 0,
                   result |-> "none"]]
    BY <1>1 DEF CallNext, Becomes, p
  <2>3. (skipped \cup (From(i) \ From(p))) \cup failed = {q \in Providers : q < p}
    BY <2>1 DEF From, Providers
  <2>4. (skipped \cup (From(i) \ From(p))) \cap failed = {}
    BY DEF From, Providers
  <2>5. skipped \cup (From(i) \ From(p)) \in SUBSET Providers
    BY DEF From
  <2> QED
    BY <2>1, <2>2, <2>3, <2>4, <2>5, MaxWaitAssumption DEF Sound, CallRecords
<1>2. CASE WaitForBudget(c, i, skipped, failed)
  <2> DEFINE S == skipped \cup From(i)
             p == Soonest(S)
             w == AtMost(MaxWait, SecondsUntilFree(p))
  <2>1. S \in SUBSET Providers /\ S # {}
    BY <1>2 DEF WaitForBudget, From
  <2>2. p \in S
    BY <2>1, SoonestIsSoonest
  <2>3. w \in 0..MaxWait
    BY <2>1, <2>2, SecondsAreNatural, MaxWaitAssumption DEF AtMost
  <2>4. S \cup failed = Providers /\ S \cap failed = {}
    BY DEF From, Providers
  <2>5. p \in 0..Last
    BY <2>1, <2>2 DEF Providers
  <2> HIDE DEF w, p
  <2>6. call' = [call EXCEPT ![c] = [at |-> "waiting", provider |-> p, skipped |-> S,
                   failed |-> failed, wait |-> w, result |-> "none"]]
    BY <1>2 DEF WaitForBudget, Becomes, p, w
  <2> HIDE DEF S
  <2> QED
    BY <2>1, <2>2, <2>3, <2>4, <2>5, <2>6 DEF Sound, CallRecords
<1>3. CASE GiveUp(c, i, skipped, failed)
  <2>1. skipped = {} /\ failed = Providers
    <3>1. skipped = {} /\ From(i) = {}
      BY <1>3 DEF GiveUp
    <3>2. \A p \in Providers : p < i
      BY <3>1 DEF From, Providers
    <3> QED
      BY <3>1, <3>2
  <2>2. call' = [call EXCEPT ![c] = [at |-> "idle", provider |-> 0, skipped |-> skipped,
                   failed |-> failed, wait |-> 0, result |-> "unavailable"]]
    BY <1>3 DEF GiveUp, Becomes
  <2> QED
    BY <2>1, <2>2, LastAssumption, MaxWaitAssumption DEF Sound, CallRecords
<1> QED
  BY <1>1, <1>2, <1>3 DEF Walk

LEMMA NextKeepsCalls ==
  ASSUME IInv, [Next]_vars
  PROVE  call' \in [Calls -> CallRecords] /\ \A c \in Calls : Sound(call'[c])
<1> USE DEF IInv
<1>0. \A c \in Calls : call[c] \in CallRecords /\ Sound(call[c])
  OBVIOUS
<1>1. CASE UNCHANGED vars
  BY <1>1 DEF vars
<1>2. CASE Tick
  <2>1. ASSUME NEW c \in Calls
        PROVE  call'[c] \in CallRecords /\ Sound(call'[c])
    <3> DEFINE w == IF call[c].wait > 0 THEN call[c].wait - 1 ELSE 0
    <3>1. call'[c] = [call[c] EXCEPT !.wait = w]
      BY <1>2 DEF Tick
    <3>2. w \in 0..MaxWait
      BY <1>0, MaxWaitAssumption DEF CallRecords
    <3> HIDE DEF w
    <3>3. call'[c] \in CallRecords
      BY <1>0, <3>1, <3>2 DEF CallRecords
    <3> QED
      BY <1>0, <3>1, <3>3 DEF Sound, CallRecords
  <2> QED
    BY <1>2, <2>1 DEF Tick
<1>3. ASSUME NEW c \in Calls, Begin(c)
      PROVE  call' \in [Calls -> CallRecords] /\ \A d \in Calls : Sound(call'[d])
  <2>1. {} \cup {} = {p \in Providers : p < 1}
    BY DEF Providers
  <2>2. 1 \in 1..(Last + 1)
    BY LastAssumption
  <2>3. Walk(c, 1, {}, {})
    BY <1>3 DEF Begin
  <2>4. /\ call' \in [Calls -> CallRecords] /\ Sound(call'[c])
        /\ \A d \in Calls : d # c => call'[d] = call[d]
    BY <2>1, <2>2, <2>3, WalkIsSound
  <2> QED
    BY <1>0, <2>4
<1>4. ASSUME NEW c \in Calls, Failed(c)
      PROVE  call' \in [Calls -> CallRecords] /\ \A d \in Calls : Sound(call'[d])
  <2> DEFINE k == call[c]
             failed == k.failed \cup {k.provider}
             i == k.provider + 1
  <2>1. k \in CallRecords /\ k.at = "calling" /\ Sound(k)
    BY <1>0, <1>4 DEF Failed
  <2>2. k.skipped \cup k.failed = {p \in Providers : p < k.provider} /\ k.skipped \cap k.failed = {}
    BY <2>1 DEF Sound
  <2>3. k.provider \in Providers
    BY <2>1 DEF Sound
  <2>4. i \in 1..(Last + 1) /\ k.skipped \in SUBSET Providers /\ failed \in SUBSET Providers
    BY <2>1, <2>3, LastAssumption DEF CallRecords, Providers
  <2>5. k.skipped \cup failed = {p \in Providers : p < i}
    BY <2>2, <2>3 DEF Providers
  <2>6. k.skipped \cap failed = {}
    BY <2>2, <2>3 DEF Providers
  <2>7. Walk(c, i, k.skipped, failed)
    BY <1>4 DEF Failed
  <2> HIDE DEF i, failed, k
  <2>8. /\ call' \in [Calls -> CallRecords] /\ Sound(call'[c])
        /\ \A d \in Calls : d # c => call'[d] = call[d]
    BY <2>4, <2>5, <2>6, <2>7, WalkIsSound
  <2> QED
    BY <1>0, <2>8
<1>5. ASSUME NEW c \in Calls, CallAnyway(c)
      PROVE  call' \in [Calls -> CallRecords] /\ \A d \in Calls : Sound(call'[d])
  <2>1. call' = [call EXCEPT ![c] = [call[c] EXCEPT !.at = "last"]]
    BY <1>5 DEF CallAnyway
  <2>2. Sound([call[c] EXCEPT !.at = "last"])
    BY <1>0, <1>5 DEF CallAnyway, Sound, CallRecords
  <2> QED
    BY <1>0, <2>1, <2>2 DEF Sound
<1>6. ASSUME NEW c \in Calls, Answered(c) \/ FailedAnyway(c) \/ Cancelled(c)
      PROVE  call' \in [Calls -> CallRecords] /\ \A d \in Calls : Sound(call'[d])
  <2>1. ASSUME Answered(c)
        PROVE  Sound(call'[c]) /\ call' = [call EXCEPT ![c] = call'[c]]
    BY <1>0, <2>1, MaxWaitAssumption DEF Answered, Becomes, Sound, CallRecords
  <2>2. ASSUME FailedAnyway(c)
        PROVE  Sound(call'[c]) /\ call' = [call EXCEPT ![c] = call'[c]]
    BY <1>0, <2>2, LastAssumption, MaxWaitAssumption DEF FailedAnyway, Becomes, Sound, CallRecords
  <2>3. ASSUME Cancelled(c)
        PROVE  Sound(call'[c]) /\ call' = [call EXCEPT ![c] = call'[c]]
    BY <1>0, <2>3, LastAssumption, MaxWaitAssumption DEF Cancelled, Becomes, Sound, CallRecords
  <2>4. Sound(call'[c]) /\ call' = [call EXCEPT ![c] = call'[c]]
    BY <1>6, <2>1, <2>2, <2>3
  <2> QED
    BY <1>0, <2>4 DEF Sound
<1> QED
  BY <1>1, <1>2, <1>3, <1>4, <1>5, <1>6 DEF Next, Progress

-----------------------------------------------------------------------------
LEMMA InitIsSound == Init => IInv
BY LastAssumption, MaxWaitAssumption
   DEF Init, NoCall, IInv, BudgetTypes, Sound, CallRecords

LEMMA CallsAreSound == Spec => []IInv
<1>1. IInv /\ [Next]_vars => IInv'
  <2> SUFFICES ASSUME IInv, [Next]_vars PROVE IInv'
    OBVIOUS
  <2>1. BudgetTypes'
    BY NextKeepsBudgetTypes
  <2>2. call' \in [Calls -> CallRecords] /\ \A c \in Calls : Sound(call'[c])
    BY NextKeepsCalls
  <2> QED
    BY <2>1, <2>2 DEF IInv
<1> QED
  BY <1>1, InitIsSound, PTL DEF Spec

\* For any providers, callers and budgets: candidates are called in order, each
\* earlier one having failed or been skipped, a call waits only when none is left,
\* and one that gives up has been failed by or refused everywhere, and tried one it
\* was refused by (providers.py:195-236).
THEOREM CallsInFailoverOrder == Spec => []InFailoverOrder
<1>1. IInv => InFailoverOrder
  BY DEF IInv, Sound, InFailoverOrder
<1> QED
  BY <1>1, CallsAreSound, PTL

-----------------------------------------------------------------------------
LEMMA SequenceItem ==
  ASSUME NEW S, NEW s \in Seq(S), NEW i \in 1..Len(s)
  PROVE  s[i] \in S
OBVIOUS

LEMMA FunctionIsSequence ==
  ASSUME NEW S, NEW n \in Nat, NEW f \in [1..n -> S]
  PROVE  f \in Seq(S)
OBVIOUS

\* What a budget records is in order, so that the starts that leave the window in
\* a unit of time are the ones in front.
Windows == {s \in Seq(1..Window) : \A i, j \in DOMAIN s : i < j => s[i] <= s[j]}

WindowsInv == starts \in [Providers -> Windows] /\ sent \in [Providers -> Windows]

LEMMA AppendKeepsWindows ==
  ASSUME NEW s \in Windows
  PROVE  Append(s, Window) \in Windows
<1>1. s \in Seq(1..Window) /\ Window \in 1..Window /\ Len(s) \in Nat
  BY WindowAssumption DEF Windows
<1>2. Append(s, Window) \in Seq(1..Window) /\ Len(Append(s, Window)) = Len(s) + 1
  BY <1>1
<1>3. ASSUME NEW i \in 1..(Len(s) + 1), NEW j \in 1..(Len(s) + 1), i < j
      PROVE  Append(s, Window)[i] <= Append(s, Window)[j]
  <2>1. i \in 1..Len(s) /\ Append(s, Window)[i] = s[i] /\ s[i] \in 1..Window
    BY <1>1, <1>3
  <2>2. CASE j \in 1..Len(s)
    BY <1>1, <1>3, <2>1, <2>2 DEF Windows
  <2>3. CASE j = Len(s) + 1
    BY <1>1, <2>1, <2>3, WindowAssumption
  <2> QED
    BY <1>1, <2>2, <2>3
<1>4. DOMAIN Append(s, Window) = 1..(Len(s) + 1)
  BY <1>2
<1> QED
  BY <1>2, <1>3, <1>4 DEF Windows

\* The starts about to leave are the first ones: whoever comes after them stays.
LEMMA OlderKeepsWindows ==
  ASSUME NEW s \in Windows
  PROVE  Older(s) \in Windows
<1> DEFINE G == {i \in DOMAIN s : s[i] = 1}
           gone == Cardinality(G)
<1>1. s \in Seq(1..Window) /\ Len(s) \in Nat /\ DOMAIN s = 1..Len(s)
  BY DEF Windows
<1>2. \A n \in Nat : IsFiniteSet(1..n) /\ Cardinality(1..n) = n
  <2>1. \A n \in Nat : IsFiniteSet(1..n) /\ Cardinality(1..n) = IF 1 > n THEN 0 ELSE n - 1 + 1
    BY FS_Interval
  <2>2. \A n \in Nat : (IF 1 > n THEN 0 ELSE n - 1 + 1) = n
    OBVIOUS
  <2> QED
    BY <2>1, <2>2
<1>3. G \in SUBSET (1..Len(s))
  BY <1>1
<1>4. IsFiniteSet(G) /\ gone \in 0..Len(s)
  <2>1. IsFiniteSet(1..Len(s)) /\ Cardinality(1..Len(s)) = Len(s)
    BY <1>1, <1>2
  <2>2. IsFiniteSet(G) /\ gone <= Len(s)
    BY <1>3, <2>1, FS_Subset
  <2> QED
    BY <1>1, <2>2, FS_CardinalityType
<1>5. ASSUME NEW k \in 1..Len(s), k > gone
      PROVE  s[k] # 1
  <2> SUFFICES ASSUME s[k] = 1 PROVE FALSE
    OBVIOUS
  <2>1. 1..k \subseteq G
    <3> SUFFICES ASSUME NEW j \in 1..k PROVE j \in 1..Len(s) /\ s[j] = 1
      BY <1>1
    <3>1. j \in 1..Len(s)
      BY <1>1
    <3>2. s[j] \in 1..Window
      BY <1>1, <3>1, SequenceItem
    <3>3. s[j] <= s[k]
      BY <1>1, <3>1 DEF Windows
    <3> QED
      BY <3>1, <3>2, <3>3, WindowAssumption
  <2>2. Cardinality(1..k) <= gone
    BY <1>4, <2>1, FS_Subset
  <2>3. Cardinality(1..k) = k
    BY <1>2
  <2> QED
    BY <1>4, <1>5, <2>2, <2>3
<1>6. Older(s) = [i \in 1..(Len(s) - gone) |-> s[i + gone] - 1]
  BY DEF Older
<1> HIDE DEF G, gone
<1>7. Len(s) - gone \in Nat
  BY <1>1, <1>4
<1>8. \A i \in 1..(Len(s) - gone) : i + gone \in 1..Len(s) /\ i + gone > gone
  BY <1>1, <1>4
<1>9. \A i \in 1..(Len(s) - gone) : s[i + gone] \in 1..Window /\ s[i + gone] # 1
  <2> SUFFICES ASSUME NEW i \in 1..(Len(s) - gone)
               PROVE  s[i + gone] \in 1..Window /\ s[i + gone] # 1
    OBVIOUS
  <2>1. i + gone \in 1..Len(s) /\ i + gone > gone
    BY <1>8
  <2>2. s[i + gone] # 1
    BY <1>5, <2>1
  <2>3. s[i + gone] \in 1..Window
    BY <1>1, <2>1, SequenceItem
  <2> QED
    BY <2>2, <2>3
<1>10. \A i \in 1..(Len(s) - gone) : s[i + gone] - 1 \in 1..Window
  BY <1>9, WindowAssumption
<1>11. Older(s) \in Seq(1..Window) /\ DOMAIN Older(s) = 1..(Len(s) - gone)
  <2>1. Older(s) \in [1..(Len(s) - gone) -> 1..Window]
    BY <1>6, <1>10
  <2>2. DOMAIN Older(s) = 1..(Len(s) - gone)
    BY <1>6
  <2> QED
    BY <1>7, <2>1, <2>2, FunctionIsSequence
<1>12. ASSUME NEW i \in 1..(Len(s) - gone), NEW j \in 1..(Len(s) - gone), i < j
       PROVE  Older(s)[i] <= Older(s)[j]
  <2>1. i + gone \in 1..Len(s) /\ j + gone \in 1..Len(s) /\ i + gone < j + gone
    BY <1>4, <1>8, <1>12
  <2>2. s[i + gone] <= s[j + gone]
    BY <1>1, <2>1 DEF Windows
  <2> QED
    BY <1>6, <1>9, <2>2, WindowAssumption
<1> QED
  BY <1>11, <1>12 DEF Windows

LEMMA BeganKeepsWindows ==
  ASSUME WindowsInv, NEW p \in Providers, starts' = Recorded(p), sent' = Sent(p)
  PROVE  WindowsInv'
<1>1. \A q \in Providers : starts[q] \in Windows /\ sent[q] \in Windows
  BY DEF WindowsInv
<1>2. Append(starts[p], Window) \in Windows /\ Append(sent[p], Window) \in Windows
  BY <1>1, AppendKeepsWindows
<1> QED
  BY <1>2 DEF WindowsInv, Recorded, Sent

LEMMA WalkKeepsWindows ==
  ASSUME WindowsInv, NEW c \in Calls, NEW i, NEW skipped, NEW failed,
         Walk(c, i, skipped, failed)
  PROVE  WindowsInv'
<1>1. CASE CallNext(c, i, skipped, failed)
  <2>1. Foremost(FreeFrom(i)) \in Providers
    BY <1>1, ForemostIsFirst DEF CallNext, FreeFrom
  <2> QED
    BY <1>1, <2>1, BeganKeepsWindows DEF CallNext
<1>2. CASE WaitForBudget(c, i, skipped, failed) \/ GiveUp(c, i, skipped, failed)
  BY <1>2 DEF WaitForBudget, GiveUp, WindowsInv
<1> QED
  BY <1>1, <1>2 DEF Walk

LEMMA NextKeepsWindows ==
  ASSUME IInv, WindowsInv, [Next]_vars
  PROVE  WindowsInv'
<1>1. CASE UNCHANGED vars
  BY <1>1 DEF vars, WindowsInv
<1>2. CASE Tick
  <2>1. \A p \in Providers : Older(starts[p]) \in Windows /\ Older(sent[p]) \in Windows
    BY OlderKeepsWindows DEF WindowsInv
  <2> QED
    BY <1>2, <2>1 DEF Tick, WindowsInv
<1>3. ASSUME NEW c \in Calls, Begin(c) \/ Failed(c)
      PROVE  WindowsInv'
  BY <1>3, WalkKeepsWindows DEF Begin, Failed
<1>4. ASSUME NEW c \in Calls, CallAnyway(c)
      PROVE  WindowsInv'
  <2>1. call[c].provider \in Providers
    BY <1>4 DEF IInv, CallAnyway, Sound, CallRecords
  <2> QED
    BY <1>4, <2>1, BeganKeepsWindows DEF CallAnyway
<1>5. ASSUME NEW c \in Calls, Answered(c) \/ FailedAnyway(c) \/ Cancelled(c)
      PROVE  WindowsInv'
  BY <1>5 DEF Answered, FailedAnyway, Cancelled, WindowsInv
<1> QED
  BY <1>1, <1>2, <1>3, <1>4, <1>5 DEF Next, Progress

LEMMA OvertakenIsTyped ==
  ASSUME overtaken \in [Calls -> BOOLEAN], [Next]_vars
  PROVE  overtaken' \in [Calls -> BOOLEAN]
<1>1. CASE Tick \/ UNCHANGED vars
  BY <1>1 DEF Tick, vars
<1>2. ASSUME NEW c \in Calls, Overtakes(c) PROVE overtaken' \in [Calls -> BOOLEAN]
  <2> DEFINE cut == call'[c].at = "waiting" /\ SecondsUntilFree(call'[c].provider) > MaxWait
             used == {p \in Providers : starts'[p] # starts[p] \/ blocked'[p] # blocked[p]}
             late(d) == overtaken[d] \/ (call[d].at = "waiting" /\ call[d].provider \in used)
  <2>1. overtaken' = [d \in Calls |-> IF d = c THEN cut ELSE late(d)]
    BY <1>2 DEF Overtakes
  <2>2. cut \in BOOLEAN /\ \A d \in Calls : late(d) \in BOOLEAN
    OBVIOUS
  <2> HIDE DEF cut, late
  <2> QED
    BY <2>1, <2>2
<1> QED
  BY <1>1, <1>2 DEF Next, Progress

\* For any providers, callers and budgets: what a budget records stays within the
\* window, a call names a provider of the list, and no sleep exceeds the longest
\* wait (providers.py:69-92, :214-226).
THEOREM TypeCorrect == Spec => []TypeOK
<1>1. Init => WindowsInv
  BY DEF Init, WindowsInv, Windows
<1>2. IInv /\ WindowsInv /\ [Next]_vars => WindowsInv'
  BY NextKeepsWindows
<1>3. Init => overtaken \in [Calls -> BOOLEAN]
  BY DEF Init
<1>4. overtaken \in [Calls -> BOOLEAN] /\ [Next]_vars => (overtaken \in [Calls -> BOOLEAN])'
  BY OvertakenIsTyped
<1>5. IInv /\ WindowsInv /\ overtaken \in [Calls -> BOOLEAN] => TypeOK
  BY DEF IInv, BudgetTypes, WindowsInv, Windows, TypeOK
<1> QED
  BY <1>1, <1>2, <1>3, <1>4, <1>5, CallsAreSound, PTL DEF Spec

-----------------------------------------------------------------------------
\* However many calls wake for one slot, a budget records no more than it allows.
RecordInv == \A p \in Budgeted : Len(starts[p]) <= Limit[p]

\* How long a provider with this block and these starts is without room.
FreeIn(p, block, recorded) ==
  AtLeast(block, IF Len(recorded) >= Limit[p] THEN Head(recorded) ELSE 0)

\* Who sleeps undisturbed sleeps long enough.
SleepInv ==
  \A c \in Calls : \A p \in Budgeted :
    (call[c].at = "waiting" /\ ~overtaken[c] /\ call[c].provider = p) =>
      FreeIn(p, blocked[p], starts[p]) <= call[c].wait

LEMMA FreeInIsNatural ==
  ASSUME NEW p \in Providers, NEW block \in Nat, NEW recorded \in Seq(Int)
  PROVE  FreeIn(p, block, recorded) \in Nat
<1>1. Limit[p] \in Nat \ {0}
  BY LimitAssumption
<1>2. (IF Len(recorded) >= Limit[p] THEN Head(recorded) ELSE 0) \in Int
  BY <1>1
<1> QED
  BY <1>2 DEF FreeIn, AtLeast

LEMMA WalkRecords ==
  ASSUME NEW c \in Calls, NEW i, NEW skipped, NEW failed, Walk(c, i, skipped, failed)
  PROVE  starts' = starts \/ \E q \in Providers : starts' = Recorded(q)
<1>1. CASE CallNext(c, i, skipped, failed)
  BY <1>1, ForemostIsFirst DEF CallNext, FreeFrom
<1>2. CASE WaitForBudget(c, i, skipped, failed) \/ GiveUp(c, i, skipped, failed)
  BY <1>2 DEF WaitForBudget, GiveUp
<1> QED
  BY <1>1, <1>2 DEF Walk

LEMMA NextKeepsRecord ==
  ASSUME IInv, RecordInv, [Next]_vars
  PROVE  RecordInv'
<1>0. \A p \in Budgeted : /\ p \in Providers /\ starts[p] \in Seq(Int) /\ Len(starts[p]) \in Nat
                          /\ Limit[p] \in Nat
  BY BudgetedAssumption, LimitAssumption DEF IInv, BudgetTypes
<1>1. CASE starts' = starts
  BY <1>1 DEF RecordInv
<1>2. CASE Tick
  <2> SUFFICES ASSUME NEW p \in Budgeted PROVE Len(Older(starts[p])) <= Limit[p]
    BY <1>0, <1>2 DEF RecordInv, Tick
  <2>1. Older(starts[p]) \in Seq(Int) /\ Len(Older(starts[p])) <= Len(starts[p])
    BY <1>0, OlderIsSeq
  <2> QED
    BY <1>0, <2>1 DEF RecordInv
<1>3. ASSUME NEW q \in Providers, starts' = Recorded(q) PROVE RecordInv'
  <2> SUFFICES ASSUME NEW p \in Budgeted, starts'[p] # starts[p] PROVE Len(starts'[p]) <= Limit[p]
    BY DEF RecordInv
  <2>1. q = p /\ Accepts(p) /\ starts'[p] = Append(starts[p], Window)
    BY <1>3, <1>0 DEF Recorded, IInv, BudgetTypes
  <2> QED
    BY <1>0, <2>1, WindowAssumption DEF Accepts
<1>4. ASSUME NEW c \in Calls, Begin(c) \/ Failed(c) PROVE RecordInv'
  BY <1>1, <1>3, <1>4, WalkRecords DEF Begin, Failed
<1>5. ASSUME NEW c \in Calls, CallAnyway(c) PROVE RecordInv'
  <2>1. call[c].provider \in Providers
    BY <1>5 DEF IInv, CallAnyway, Sound, CallRecords
  <2> QED
    BY <1>3, <1>5, <2>1 DEF CallAnyway
<1>6. ASSUME NEW c \in Calls, Answered(c) \/ FailedAnyway(c) \/ Cancelled(c) PROVE RecordInv'
  BY <1>1, <1>6 DEF Answered, FailedAnyway, Cancelled
<1> QED
  BY <1>1, <1>2, <1>4, <1>5, <1>6 DEF Next, Progress, vars

\* A unit of time brings a budget that is full or parked a unit closer to room.
LEMMA TimeFrees ==
  ASSUME IInv, WindowsInv, RecordInv, Tick, NEW p \in Budgeted
  PROVE  LET free == FreeIn(p, blocked[p], starts[p])
         IN  FreeIn(p, blocked'[p], starts'[p]) <= IF free > 0 THEN free - 1 ELSE 0
<1> DEFINE s == starts[p]
           gone == Cardinality({i \in DOMAIN s : s[i] = 1})
<1>1. p \in Providers /\ Limit[p] \in Nat \ {0} /\ blocked[p] \in Nat
  BY BudgetedAssumption, LimitAssumption DEF IInv, BudgetTypes
<1>2. /\ s \in Seq(1..Window) /\ s \in Seq(Int) /\ Len(s) \in Nat /\ Len(s) <= Limit[p]
      /\ DOMAIN s = 1..Len(s)
  BY <1>1 DEF WindowsInv, Windows, RecordInv, IInv, BudgetTypes
<1>3. starts'[p] = Older(s) /\ blocked'[p] = IF blocked[p] > 0 THEN blocked[p] - 1 ELSE 0
  BY <1>1 DEF Tick
<1>4. Older(s) \in Seq(Int) /\ Len(Older(s)) \in Nat /\ Len(Older(s)) <= Len(s)
  BY <1>2, OlderIsSeq
<1>5. ASSUME Len(Older(s)) >= Limit[p]
      PROVE  Len(s) >= Limit[p] /\ Head(s) \in 1..Window /\ Head(Older(s)) = Head(s) - 1
  <2>1. Len(Older(s)) = Len(s) /\ Len(s) = Limit[p]
    BY <1>1, <1>2, <1>4, <1>5
  <2>2. Older(s) = [i \in 1..(Len(s) - gone) |-> s[i + gone] - 1]
    BY DEF Older
  <2>3. gone \in Nat
    <3>1. IsFiniteSet(1..Len(s))
      BY <1>2, FS_Interval
    <3>2. {i \in DOMAIN s : s[i] = 1} \in SUBSET (1..Len(s))
      BY <1>2
    <3> QED
      BY <3>1, <3>2, FS_Subset, FS_CardinalityType
  <2> HIDE DEF gone
  <2>4. gone = 0
    <3>1. DOMAIN Older(s) = 1..Len(s)
      BY <1>4, <2>1
    <3>2. DOMAIN Older(s) = 1..(Len(s) - gone)
      BY <2>2
    <3>3. Len(s) \in 1..Len(s)
      BY <1>1, <1>2, <2>1
    <3> QED
      BY <1>2, <2>3, <3>1, <3>2, <3>3
  <2>5. 1 \in 1..Len(s)
    BY <1>1, <1>2, <2>1
  <2>6. Older(s)[1] = s[1] - 1
    BY <1>2, <2>2, <2>4, <2>5
  <2>7. s[1] \in 1..Window
    BY <1>2, <2>5, SequenceItem
  <2>8. Head(s) = s[1] /\ Head(Older(s)) = Older(s)[1]
    BY <1>2, <1>4, <2>1, <2>5
  <2> QED
    BY <2>1, <2>6, <2>7, <2>8
<1>6. FreeIn(p, blocked[p], s) =
        AtLeast(blocked[p], IF Len(s) >= Limit[p] THEN Head(s) ELSE 0)
  BY DEF FreeIn
<1>7. FreeIn(p, blocked'[p], starts'[p]) =
        AtLeast(IF blocked[p] > 0 THEN blocked[p] - 1 ELSE 0,
                IF Len(Older(s)) >= Limit[p] THEN Head(Older(s)) ELSE 0)
  BY <1>3 DEF FreeIn
<1>8. Len(s) >= Limit[p] => Head(s) \in 1..Window
  <2> SUFFICES ASSUME Len(s) >= Limit[p] PROVE Head(s) \in 1..Window
    OBVIOUS
  <2>1. 1 \in 1..Len(s)
    BY <1>1, <1>2
  <2>2. s[1] \in 1..Window
    BY <1>2, <2>1, SequenceItem
  <2> QED
    BY <1>2, <2>1, <2>2
<1> HIDE DEF s
<1>9. CASE Len(Older(s)) >= Limit[p]
  <2>1. FreeIn(p, blocked'[p], starts'[p]) <=
          IF FreeIn(p, blocked[p], s) > 0 THEN FreeIn(p, blocked[p], s) - 1 ELSE 0
    BY <1>1, <1>5, <1>6, <1>7, <1>9, WindowAssumption DEF AtLeast
  <2> QED
    BY <2>1 DEF s
<1>10. CASE ~(Len(Older(s)) >= Limit[p])
  <2>1. FreeIn(p, blocked'[p], starts'[p]) <=
          IF FreeIn(p, blocked[p], s) > 0 THEN FreeIn(p, blocked[p], s) - 1 ELSE 0
    BY <1>1, <1>6, <1>7, <1>8, <1>10, WindowAssumption DEF AtLeast
  <2> QED
    BY <2>1 DEF s
<1> QED
  BY <1>9, <1>10

\* A call that goes to sleep names the time until its provider is free.
LEMMA SleepIsMeasured ==
  ASSUME IInv, NEW c \in Calls, Begin(c) \/ Failed(c) \/ Answered(c) \/ CallAnyway(c)
                               \/ FailedAnyway(c) \/ Cancelled(c),
         NEW p \in Budgeted, call'[c].at = "waiting", call'[c].provider = p
  PROVE  /\ call'[c].wait = AtMost(MaxWait, SecondsUntilFree(p))
         /\ starts'[p] = starts[p] /\ blocked'[p] = blocked[p]
<1>1. Begin(c) \/ Failed(c)
  <2>1. ASSUME CallAnyway(c) PROVE FALSE
    <3>1. call[c] \in CallRecords /\ call'[c] = [call[c] EXCEPT !.at = "last"]
      BY <2>1 DEF CallAnyway, IInv
    <3> QED
      BY <3>1 DEF CallRecords
  <2> QED
    BY <2>1 DEF Answered, FailedAnyway, Cancelled, Becomes, IInv
<1>2. \E i \in Nat, skipped \in SUBSET Providers, failed \in SUBSET Providers :
        /\ WaitForBudget(c, i, skipped, failed)
        /\ \A q \in skipped \cup From(i) : blocked'[q] = blocked[q]
  <2>1. CASE Begin(c)
    <3>1. Walk(c, 1, {}, {}) /\ blocked' = blocked
      BY <2>1 DEF Begin
    <3>2. WaitForBudget(c, 1, {}, {})
      BY <3>1 DEF Walk, CallNext, GiveUp, Becomes, IInv
    <3> QED
      BY <3>1, <3>2
  <2>2. CASE Failed(c)
    <3> DEFINE k == call[c]
    <3>1. k \in CallRecords /\ k.at = "calling" /\ Sound(k)
      BY <2>2 DEF Failed, IInv
    <3>2. /\ k.provider \in Providers /\ k.provider + 1 \in Nat /\ k.skipped \in SUBSET Providers
          /\ k.failed \cup {k.provider} \in SUBSET Providers
          /\ k.skipped \subseteq {q \in Providers : q < k.provider}
      BY <3>1, LastAssumption DEF Sound, CallRecords, Providers
    <3>3. WaitForBudget(c, k.provider + 1, k.skipped, k.failed \cup {k.provider})
      BY <2>2 DEF Failed, Walk, CallNext, GiveUp, Becomes, IInv
    <3>4. \E seconds : blocked' = BlockFor(k.provider, seconds)
      BY <2>2 DEF Failed
    <3>5. ASSUME NEW q \in k.skipped \cup From(k.provider + 1) PROVE blocked'[q] = blocked[q]
      <4>1. q \in Providers /\ q # k.provider
        BY <3>2 DEF From, Providers
      <4> QED
        BY <3>4, <4>1 DEF BlockFor, IInv, BudgetTypes
    <3> QED
      BY <3>2, <3>3, <3>5
  <2> QED
    BY <1>1, <2>1, <2>2
<1>3. PICK i \in Nat, skipped \in SUBSET Providers, failed \in SUBSET Providers :
        /\ WaitForBudget(c, i, skipped, failed)
        /\ \A q \in skipped \cup From(i) : blocked'[q] = blocked[q]
  BY <1>2
<1> DEFINE q == Soonest(skipped \cup From(i))
<1>4. q \in skipped \cup From(i)
  BY <1>3, SoonestIsSoonest DEF WaitForBudget, From, IInv
<1>5. starts' = starts /\ call' = [call EXCEPT ![c] =
        [at |-> "waiting", provider |-> q, skipped |-> skipped \cup From(i), failed |-> failed,
         wait |-> AtMost(MaxWait, SecondsUntilFree(q)), result |-> "none"]]
  BY <1>3 DEF WaitForBudget, Becomes
<1> HIDE DEF q
<1>6. p = q /\ call'[c].wait = AtMost(MaxWait, SecondsUntilFree(q))
  BY <1>5 DEF IInv
<1> QED
  BY <1>3, <1>4, <1>5, <1>6

LEMMA NextKeepsSleep ==
  ASSUME IInv, WindowsInv, RecordInv, SleepInv, [Next]_vars
  PROVE  SleepInv'
<1> SUFFICES ASSUME NEW d \in Calls, NEW p \in Budgeted, call'[d].at = "waiting", ~overtaken'[d],
                    call'[d].provider = p
             PROVE  FreeIn(p, blocked'[p], starts'[p]) <= call'[d].wait
  BY DEF SleepInv
<1>0. /\ p \in Providers /\ call[d] \in CallRecords
      /\ SecondsUntilFree(p) = FreeIn(p, blocked[p], starts[p])
  BY BudgetedAssumption DEF IInv, SecondsUntilFree, FreeIn
<1>1. CASE UNCHANGED vars
  BY <1>1 DEF vars, SleepInv
<1>2. CASE Tick
  <2>1. /\ call[d].at = "waiting" /\ ~overtaken[d] /\ call[d].provider = p
        /\ call'[d].wait = IF call[d].wait > 0 THEN call[d].wait - 1 ELSE 0
    BY <1>0, <1>2 DEF Tick, CallRecords
  <2> DEFINE free == FreeIn(p, blocked[p], starts[p])
             freed == FreeIn(p, blocked'[p], starts'[p])
  <2>2. free <= call[d].wait
    BY <2>1 DEF SleepInv
  <2>3. freed <= IF free > 0 THEN free - 1 ELSE 0
    BY <1>2, TimeFrees
  <2>4. free \in Nat
    BY <1>0, FreeInIsNatural DEF IInv, BudgetTypes
  <2>5. freed \in Nat
    <3>1. blocked'[p] \in Nat /\ starts'[p] \in Seq(Int)
      BY <1>0, NextKeepsBudgetTypes DEF BudgetTypes
    <3> QED
      BY <1>0, <3>1, FreeInIsNatural
  <2>6. call[d].wait \in Nat
    BY <1>0, MaxWaitAssumption DEF CallRecords
  <2> HIDE DEF free, freed
  <2>7. freed <= call'[d].wait
    BY <2>1, <2>2, <2>3, <2>4, <2>5, <2>6
  <2> QED
    BY <2>7 DEF freed
<1>3. ASSUME NEW c \in Calls, Overtakes(c), Begin(c) \/ Failed(c) \/ Answered(c) \/ CallAnyway(c)
                                            \/ FailedAnyway(c) \/ Cancelled(c)
      PROVE  FreeIn(p, blocked'[p], starts'[p]) <= call'[d].wait
  <2>1. CASE d = c
    <3>1. /\ call'[d].wait = AtMost(MaxWait, SecondsUntilFree(p))
          /\ starts'[p] = starts[p] /\ blocked'[p] = blocked[p]
      BY <1>3, <2>1, SleepIsMeasured
    <3>2. ~(SecondsUntilFree(call'[d].provider)  > MaxWait)
      <4> DEFINE free == SecondsUntilFree(call'[c].provider)
                 late(e) == overtaken[e] \/ (call[e].at = "waiting" /\ call[e].provider \in
                   {q \in Providers : starts'[q] # starts[q] \/ blocked'[q] # blocked[q]})
      <4>1. overtaken' = [e \in Calls |->
                            IF e = c THEN call'[c].at = "waiting" /\ free > MaxWait ELSE late(e)]
        BY <1>3 DEF Overtakes
      <4> HIDE DEF free, late
      <4>2. overtaken'[c] = (call'[c].at = "waiting" /\ free > MaxWait)
        BY <4>1
      <4>3. ~(free > MaxWait)
        BY <2>1, <4>2
      <4> QED
        BY <2>1, <4>3 DEF free
    <3>3. SecondsUntilFree(p) \in Nat
      BY <1>0, SecondsAreNatural DEF IInv
    <3> QED
      BY <1>0, <3>1, <3>2, <3>3, MaxWaitAssumption DEF AtMost
  <2>2. CASE d # c
    <3>1. call'[d] = call[d]
      <4>1. \E k : call' = [call EXCEPT ![c] = k]
        BY <1>3 DEF Begin, Failed, Answered, CallAnyway, FailedAnyway, Cancelled, Walk, CallNext,
                    WaitForBudget, GiveUp, Becomes
      <4> QED
        BY <2>2, <4>1 DEF IInv
    <3> DEFINE used == {q \in Providers : starts'[q] # starts[q] \/ blocked'[q] # blocked[q]}
    <3>2. ~(overtaken[d] \/ (call[d].at = "waiting" /\ call[d].provider \in used))
      BY <1>3, <2>2 DEF Overtakes
    <3>3. ~overtaken[d] /\ starts'[p] = starts[p] /\ blocked'[p] = blocked[p]
      BY <1>0, <3>1, <3>2
    <3> QED
      BY <3>1, <3>3 DEF SleepInv
  <2> QED
    BY <2>1, <2>2
<1> QED
  BY <1>1, <1>2, <1>3 DEF Next, Progress

\* For any number of callers and providers and any budgets: a call whose sleep was
\* neither cut at the longest wait nor overtaken by another call is accepted by
\* the budget it waited for, so its last resort is within the limit and recorded
\* (providers.py:214-224).
THEOREM LastResortFindsRoom == Spec => []WaitedLongEnough
<1>1. Init => WindowsInv /\ RecordInv /\ SleepInv
  BY BudgetedAssumption, LimitAssumption
     DEF Init, WindowsInv, Windows, RecordInv, SleepInv, NoCall
<1>2. IInv /\ WindowsInv /\ [Next]_vars => WindowsInv'
  BY NextKeepsWindows
<1>3. IInv /\ RecordInv /\ [Next]_vars => RecordInv'
  BY NextKeepsRecord
<1>4. IInv /\ WindowsInv /\ RecordInv /\ SleepInv /\ [Next]_vars => SleepInv'
  BY NextKeepsSleep
<1>5. IInv /\ WindowsInv /\ SleepInv => WaitedLongEnough
  <2> SUFFICES ASSUME IInv, WindowsInv, SleepInv, NEW c \in Calls, call[c].at = "waiting",
                      call[c].wait = 0, ~overtaken[c], call[c].provider \in Budgeted
               PROVE  Accepts(call[c].provider)
    BY DEF WaitedLongEnough, Accepts
  <2> DEFINE p == call[c].provider
  <2>1. FreeIn(p, blocked[p], starts[p]) <= 0
    BY DEF SleepInv
  <2>2. p \in Providers /\ Limit[p] \in Nat \ {0}
    BY BudgetedAssumption, LimitAssumption
  <2>3. blocked[p] \in Nat /\ starts[p] \in Seq(1..Window)
    BY <2>2 DEF IInv, BudgetTypes, WindowsInv, Windows
  <2> HIDE DEF p
  <2>4. Len(starts[p]) \in Nat /\ (Len(starts[p]) >= Limit[p] => Head(starts[p]) \in 1..Window)
    <3> SUFFICES ASSUME Len(starts[p]) >= Limit[p] PROVE Head(starts[p]) \in 1..Window
      BY <2>3
    <3>1. 1 \in 1..Len(starts[p])
      BY <2>2, <2>3
    <3>2. starts[p][1] \in 1..Window
      BY <2>3, <3>1, SequenceItem
    <3> QED
      BY <2>3, <3>1, <3>2
  <2>5. blocked[p] = 0 /\ Len(starts[p]) < Limit[p]
    BY <2>1, <2>2, <2>3, <2>4, WindowAssumption DEF FreeIn, AtLeast
  <2> QED
    BY <2>5 DEF Accepts, p
<1> QED
  BY <1>1, <1>2, <1>3, <1>4, <1>5, CallsAreSound, PTL DEF Spec
=============================================================================
