------------------------- MODULE SuperheroAgentProofs -------------------------
(***************************************************************************)
(* One sub-query makes at most max_agent_steps tool calls, and its agents  *)
(* are not cut off by the recursion limit, for any number of providers and *)
(* of parallel calls and for any budget; and its answer cites what the     *)
(* tools returned, for transcripts of any length.                          *)
(***************************************************************************)
EXTENDS SuperheroAgent, WellFoundedInduction, TLAPS

\* A result that cost one call of the budget.
Paid(r) == r.is \in {"found", "record", "error"}

Productive(results) == \E i \in DOMAIN results : Paid(results[i])

\* The current round has used the budget.
Spending == \E i \in DOMAIN round :
  round[i].is = "running" \/ (round[i].is = "returned" /\ Paid(round[i].result))

Types ==
  /\ remaining \in Nat /\ called \in Nat /\ supersteps \in Nat
  /\ round \in Seq(Calls)
  /\ \A i \in DOMAIN round : round[i].tool = "invalid" => round[i].is = "returned"
  /\ transcript \in Seq(Seq(Results))

\* Model and tool supersteps alternate.
InStep ==
  /\ at = "model" => supersteps = 2 * Len(transcript)
  /\ at = "tools" => supersteps = 2 * Len(transcript) + 1

AllProductive(k) == \A r \in 1..k : Productive(transcript[r])

\* A productive round has cost at least one call.
RoundsArePaid ==
  /\ \A k \in 0..Len(transcript) : AllProductive(k) => k <= called
  /\ (at = "tools" /\ Spending /\ AllProductive(Len(transcript))) => Len(transcript) + 1 <= called

\* What is left and what was let through add up.
Budgeted == called + remaining = MaxAgentSteps

IInv == Types /\ Budgeted /\ InStep /\ RoundsArePaid

-----------------------------------------------------------------------------
LEMMA InitIsSound == Init => IInv
<1> SUFFICES ASSUME Init PROVE IInv
  OBVIOUS
<1>1. Types /\ Budgeted
  BY MaxAgentStepsAssumption DEF Init, Types, Budgeted
<1>2. InStep /\ RoundsArePaid
  BY MaxAgentStepsAssumption DEF Init, InStep, RoundsArePaid
<1> QED
  BY <1>1, <1>2 DEF IInv

\* Setting one call of the round leaves it a sequence of calls.
LEMMA RoundIsTyped ==
  ASSUME Types, NEW i \in DOMAIN round,
         NEW is \in {"running", "returned"}, NEW returned \in Results,
         round[i].tool # "invalid", SetCall(i, is, returned)
  PROVE  /\ round' \in Seq(Calls) /\ DOMAIN round' = DOMAIN round
         /\ round'[i].is = is /\ round'[i].result = returned
         /\ \A j \in DOMAIN round : j # i => round'[j] = round[j]
         /\ \A j \in DOMAIN round : round'[j].tool = "invalid" => round'[j].is = "returned"
<1>1. round[i] \in Calls
  BY DEF Types
<1> DEFINE new == [round[i] EXCEPT !.is = is, !.result = returned]
<1>2. new \in Calls /\ new.is = is /\ new.result = returned /\ new.tool = round[i].tool
  BY <1>1 DEF Calls
<1>3. round' = [round EXCEPT ![i] = new]
  BY <1>1 DEF SetCall, Calls
<1> HIDE DEF new
<1>4. round' \in Seq(Calls) /\ DOMAIN round' = DOMAIN round /\ round'[i] = new
  BY <1>2, <1>3 DEF Types
<1>5. \A j \in DOMAIN round : j # i => round'[j] = round[j]
  BY <1>3 DEF Types
<1> QED
  BY <1>2, <1>4, <1>5 DEF Types

\* What the tools return is a result that was paid for.
LEMMA ResultsAreTyped ==
  /\ \A kind \in {"found", "record", "error", "refused", "invalid"} : Without(kind) \in Results
  /\ \A tool \in ToolCalls \ {"invalid"} : ReturnsOf(tool) \subseteq Results
                                          /\ \A r \in ReturnsOf(tool) : Paid(r)
BY DEF Without, Results, ReturnsOf, ToolCalls, Paid

-----------------------------------------------------------------------------
LEMMA LetThroughIsSound ==
  ASSUME IInv, NEW i \in DOMAIN round, LetThrough(i) PROVE IInv'
<1>0. round[i] \in Calls /\ round[i].tool # "invalid"
  BY DEF IInv, Types, LetThrough
<1>1. round[i].result \in Results
  BY <1>0 DEF Calls
<1>2. /\ round' \in Seq(Calls) /\ DOMAIN round' = DOMAIN round
      /\ \A j \in DOMAIN round : round'[j].tool = "invalid" => round'[j].is = "returned"
  BY <1>0, <1>1, RoundIsTyped DEF IInv, LetThrough
<1>3. Types' /\ Budgeted'
  BY <1>2 DEF IInv, Types, Budgeted, LetThrough, agent
<1>4. InStep'
  BY DEF IInv, InStep, LetThrough, agent
<1>5. RoundsArePaid'
  <2>1. transcript' = transcript /\ called' = called + 1 /\ Len(transcript) \in Nat
    BY DEF LetThrough, agent, IInv, Types
  <2>2. \A k \in 0..Len(transcript) : AllProductive(k)' => AllProductive(k)
    BY <2>1 DEF AllProductive
  <2> QED
    BY <2>1, <2>2 DEF IInv, RoundsArePaid, Types
<1> QED
  BY <1>3, <1>4, <1>5 DEF IInv

\* A call that is refused, or returns, neither pays nor was unpaid before.
LEMMA CallEndsSoundly ==
  ASSUME IInv, NEW i \in DOMAIN round, Refuse(i) \/ Returns(i) PROVE IInv'
<1>a. round[i] \in Calls /\ round[i].tool # "invalid"
  BY DEF IInv, Types, Refuse, Returns
<1>0. round[i].result \in Results /\ round[i].tool \in ToolCalls \ {"invalid"}
  BY <1>a DEF Calls
<1>1. /\ at' = at /\ called' = called /\ remaining' = remaining /\ supersteps' = supersteps
      /\ transcript' = transcript
  BY DEF Refuse, Returns, agent
<1>2. PICK returned \in Results :
        /\ SetCall(i, "returned", returned)
        /\ Paid(returned) => round[i].is = "running"
  <2>1. CASE Refuse(i)
    BY <2>1, ResultsAreTyped DEF Refuse, Without, Paid
  <2>2. CASE Returns(i)
    <3>1. PICK r \in ReturnsOf(round[i].tool) : SetCall(i, "returned", r)
      BY <2>2 DEF Returns
    <3>2. r \in Results
      BY <1>0, <3>1, ResultsAreTyped
    <3> QED
      BY <2>2, <3>1, <3>2 DEF Returns
  <2> QED
    BY <2>1, <2>2
<1>3. /\ round' \in Seq(Calls) /\ DOMAIN round' = DOMAIN round
      /\ round'[i].is = "returned" /\ round'[i].result = returned
      /\ \A j \in DOMAIN round : j # i => round'[j] = round[j]
      /\ \A j \in DOMAIN round : round'[j].tool = "invalid" => round'[j].is = "returned"
  BY <1>a, <1>2, RoundIsTyped DEF IInv
<1>4. Spending' => Spending
  BY <1>2, <1>3 DEF Spending
<1>5. \A k : AllProductive(k)' <=> AllProductive(k)
  BY <1>1 DEF AllProductive
<1>6. Types' /\ Budgeted' /\ InStep'
  BY <1>1, <1>3 DEF IInv, Types, Budgeted, InStep
<1>7. RoundsArePaid'
  BY <1>1, <1>4, <1>5 DEF IInv, RoundsArePaid
<1> QED
  BY <1>6, <1>7 DEF IInv

LEMMA RoundEndsSoundly == ASSUME IInv, RoundEnds PROVE IInv'
<1> DEFINE results == [i \in DOMAIN round |-> round[i].result]
<1>1. results \in Seq(Results)
  <2>1. PICK n \in Nat : DOMAIN round = 1..n
    BY DEF IInv, Types
  <2>2. \A i \in 1..n : round[i] \in Calls
    BY <2>1 DEF IInv, Types
  <2>3. \A i \in 1..n : round[i].result \in Results
    BY <2>2 DEF Calls
  <2> QED
    BY <2>1, <2>3
<1>2. transcript' = Append(transcript, results) /\ called' = called /\ at = "tools" /\ at' = "model"
  BY DEF RoundEnds
<1>3. transcript \in Seq(Seq(Results)) /\ Len(transcript) \in Nat /\ called \in Nat
  BY DEF IInv, Types
<1> HIDE DEF results
<1>4. /\ transcript' \in Seq(Seq(Results)) /\ Len(transcript') = Len(transcript) + 1
      /\ transcript'[Len(transcript) + 1] = results
      /\ \A r \in 1..Len(transcript) : transcript'[r] = transcript[r]
  BY <1>1, <1>2, <1>3
<1>5. Types' /\ Budgeted' /\ InStep'
  BY <1>4, <1>2 DEF IInv, Types, Budgeted, InStep, RoundEnds
<1>6. Productive(results) => Spending
  BY DEF RoundEnds, Productive, Spending, results
<1>7. RoundsArePaid'
  <2>1. ASSUME NEW k \in 0..Len(transcript), AllProductive(k)' PROVE AllProductive(k)
    <3>1. \A r \in 1..k : r \in 1..Len(transcript) /\ Productive(transcript[r])'
      BY <1>3, <2>1 DEF AllProductive
    <3> QED
      BY <1>4, <3>1 DEF AllProductive, Productive
  <2>2. ASSUME NEW k \in Nat, k = Len(transcript) + 1, AllProductive(k)' PROVE k <= called
    <3>1. Productive(results)
      <4>1. k \in 1..k
        BY <1>3, <2>2
      <4>2. Productive(transcript'[k])
        BY <2>2, <4>1 DEF AllProductive, Productive
      <4> QED
        BY <1>4, <2>2, <4>2
    <3>2. AllProductive(Len(transcript))
      BY <1>3, <1>4, <2>2 DEF AllProductive
    <3> QED
      BY <1>2, <1>6, <2>2, <3>1, <3>2 DEF IInv, RoundsArePaid
  <2>3. ASSUME NEW k \in 0..Len(transcript'), AllProductive(k)' PROVE k <= called'
    <3>1. CASE k = Len(transcript) + 1
      BY <1>2, <2>2, <2>3, <3>1
    <3>2. CASE k \in 0..Len(transcript)
      BY <1>2, <2>1, <2>3, <3>2 DEF IInv, RoundsArePaid
    <3> QED
      BY <1>3, <1>4, <3>1, <3>2
  <2> QED
    BY <1>2, <2>3 DEF RoundsArePaid
<1> QED
  BY <1>5, <1>7 DEF IInv

\* The round a model asks for has cost nothing yet.
LEMMA CallsToolsIsSound == ASSUME IInv, CallsTools PROVE IInv'
<1>1. PICK n \in 1..MaxParallel : \E tools \in [1..n -> ToolCalls] :
         round' = [i \in 1..n |-> Asked(tools[i])]
  BY DEF CallsTools
<1>2. PICK tools \in [1..n -> ToolCalls] : round' = [i \in 1..n |-> Asked(tools[i])]
  BY <1>1
<1>3. \A tool \in ToolCalls : /\ Asked(tool) \in Calls
                              /\ Asked(tool).is # "running"
                              /\ Asked(tool).tool = "invalid" => Asked(tool).is = "returned"
                              /\ Asked(tool).is = "returned" => ~Paid(Asked(tool).result)
  BY DEF Asked, Calls, Without, Results, Paid
<1>4. /\ round' \in Seq(Calls)
      /\ \A i \in DOMAIN round' : round'[i].tool = "invalid" => round'[i].is = "returned"
  <2>1. n \in Nat
    BY MaxParallelAssumption
  <2> QED
    BY <1>2, <1>3, <2>1
<1>5. ~Spending'
  BY <1>2, <1>3 DEF Spending
<1>6. /\ transcript' = transcript /\ called' = called /\ remaining' = remaining
      /\ supersteps' = supersteps + 1 /\ at = "model" /\ at' = "tools"
  BY DEF CallsTools
<1>7. \A k : AllProductive(k)' <=> AllProductive(k)
  BY <1>6 DEF AllProductive
<1>8. Types' /\ Budgeted' /\ InStep'
  BY <1>4, <1>6 DEF IInv, Types, Budgeted, InStep
<1>9. RoundsArePaid'
  BY <1>5, <1>6, <1>7 DEF IInv, RoundsArePaid
<1> QED
  BY <1>8, <1>9 DEF IInv

\* The steps that end a run, or begin one.
LEMMA OtherStepsAreSound ==
  ASSUME IInv, \/ UNCHANGED <<at, agent, remaining, round, called>>
               \/ UNCHANGED <<agent, remaining, called>> /\ (round' = round \/ round' = <<>>)
                    /\ at' \in {"failover", "END"}
               \/ \E p \in Providers : Try(p)
  PROVE  IInv'
<1>1. CASE UNCHANGED <<at, agent, remaining, round, called>>
  BY <1>1 DEF IInv, Types, Budgeted, InStep, RoundsArePaid, AllProductive, Spending, agent
<1>2. CASE UNCHANGED <<agent, remaining, called>> /\ (round' = round \/ round' = <<>>) /\ at' \in {"failover", "END"}
  <2>1. Types'
    <3>1. round' \in Seq(Calls) /\ \A i \in DOMAIN round' : round'[i].tool = "invalid" => round'[i].is = "returned"
      <4>1. CASE round' = round
        BY <4>1 DEF IInv, Types
      <4>2. CASE round' = <<>>
        BY <4>2
      <4> QED
        BY <1>2, <4>1, <4>2
    <3> QED
      BY <1>2, <3>1 DEF IInv, Types, agent
  <2>2. Budgeted' /\ InStep'
    BY <1>2 DEF IInv, Budgeted, InStep, agent
  <2>3. RoundsArePaid'
    BY <1>2 DEF IInv, RoundsArePaid, AllProductive, agent
  <2> QED
    BY <2>1, <2>2, <2>3 DEF IInv
<1>3. ASSUME NEW p \in Providers, Try(p) PROVE IInv'
  <2>1. /\ transcript' = <<>> /\ supersteps' = 0 /\ called' = called /\ remaining' = remaining
        /\ round' = round /\ at' = "model"
    BY <1>3 DEF Try
  <2>2. Types' /\ Budgeted' /\ InStep'
    BY <2>1 DEF IInv, Types, Budgeted, InStep
  <2>3. RoundsArePaid'
    BY <2>1 DEF IInv, Types, RoundsArePaid
  <2> QED
    BY <2>2, <2>3 DEF IInv
<1> QED
  BY <1>1, <1>2, <1>3

LEMMA StepIsSound == IInv /\ [Next]_vars => IInv'
<1> SUFFICES ASSUME IInv, [Next]_vars PROVE IInv'
  OBVIOUS
<1>1. CASE UNCHANGED vars \/ Ended \/ Begin
  <2>1. CASE UNCHANGED vars \/ Ended
    BY <2>1, OtherStepsAreSound DEF vars, agent, Ended
  <2>2. CASE Begin
    BY <2>2, OtherStepsAreSound DEF Begin
  <2> QED
    BY <1>1, <2>1, <2>2
<1>2. CASE Unconfigured \/ NoModel \/ GiveUp \/ Answers
  BY <1>2, OtherStepsAreSound DEF Unconfigured, NoModel, GiveUp, Answers, Finish
<1>3. CASE ProviderFails \/ CutOff
  BY <1>3, OtherStepsAreSound DEF ProviderFails, CutOff
<1>4. CASE \E p \in Providers : Try(p)
  BY <1>4, OtherStepsAreSound
<1>5. CASE CallsTools \/ RoundEnds
  BY <1>5, CallsToolsIsSound, RoundEndsSoundly
<1>6. CASE \E i \in DOMAIN round : LetThrough(i) \/ Refuse(i) \/ Returns(i)
  BY <1>6, LetThroughIsSound, CallEndsSoundly
<1> QED
  BY <1>1, <1>2, <1>3, <1>4, <1>5, <1>6 DEF Next, AgentStep

-----------------------------------------------------------------------------
\* Who was refused met an empty budget, and it stays empty.
RefusedWhenSpent == WasRefused => remaining = 0

LEMMA InitRefusesNobody == Init => RefusedWhenSpent
BY DEF Init, RefusedWhenSpent, WasRefused

LEMMA StepRefusesWhenSpent == IInv /\ RefusedWhenSpent /\ [Next]_vars => RefusedWhenSpent'
<1> SUFFICES ASSUME IInv, RefusedWhenSpent, [Next]_vars, remaining' # 0 PROVE ~WasRefused'
  BY DEF RefusedWhenSpent
<1>1. remaining # 0
  <2>1. remaining' = remaining \/ \E i \in DOMAIN round : LetThrough(i)
    BY DEF Next, AgentStep, Ended, Unconfigured, NoModel, Begin, GiveUp, ProviderFails, Try, CallsTools,
           CutOff, Answers, RoundEnds, Refuse, Returns, Finish, vars
  <2> QED
    BY <2>1 DEF LetThrough
<1>2. ~WasRefused
  BY <1>1 DEF RefusedWhenSpent
<1>3. CASE /\ transcript' = transcript \/ transcript' = <<>>
           /\ round' = round \/ round' = <<>>
  BY <1>2, <1>3 DEF WasRefused
<1>4. CASE CallsTools
  <2>1. \A tool \in ToolCalls : Asked(tool).result.is # "refused"
    BY DEF Asked, Without
  <2>2. \A i \in DOMAIN round' : round'[i].result.is # "refused"
    BY <1>4, <2>1 DEF CallsTools
  <2>3. transcript' = transcript
    BY <1>4 DEF CallsTools
  <2> QED
    BY <1>2, <2>2, <2>3 DEF WasRefused
<1>5. CASE \E i \in DOMAIN round : LetThrough(i) \/ Refuse(i) \/ Returns(i)
  <2>1. PICK i \in DOMAIN round : LetThrough(i) \/ Refuse(i) \/ Returns(i)
    BY <1>5
  <2>2. ~Refuse(i)
    BY <1>1 DEF Refuse
  <2>3. round[i] \in Calls /\ round[i].tool # "invalid"
    BY <2>1 DEF IInv, Types, LetThrough, Refuse, Returns
  <2>4. round[i].result \in Results /\ round[i].tool \in ToolCalls \ {"invalid"}
    BY <2>3 DEF Calls
  <2>5. \E is \in {"running", "returned"}, returned \in Results :
          SetCall(i, is, returned) /\ returned.is # "refused"
    <3>1. CASE LetThrough(i)
      BY <1>2, <2>4, <3>1 DEF LetThrough, WasRefused
    <3>2. CASE Returns(i)
      <4>1. PICK r \in ReturnsOf(round[i].tool) : SetCall(i, "returned", r)
        BY <3>2 DEF Returns
      <4>2. r \in Results /\ r.is # "refused"
        BY <2>4, <4>1, ResultsAreTyped DEF Paid
      <4> QED
        BY <4>1, <4>2
    <3> QED
      BY <2>1, <2>2, <3>1, <3>2
  <2>6. PICK is \in {"running", "returned"}, returned \in Results :
          SetCall(i, is, returned) /\ returned.is # "refused"
    BY <2>5
  <2>7. /\ DOMAIN round' = DOMAIN round
        /\ round'[i].result = returned
        /\ \A j \in DOMAIN round : j # i => round'[j] = round[j]
    BY <2>3, <2>6, RoundIsTyped DEF IInv
  <2>8. transcript' = transcript
    BY <2>1 DEF LetThrough, Refuse, Returns, agent
  <2> QED
    BY <1>2, <2>6, <2>7, <2>8 DEF WasRefused
<1>6. CASE RoundEnds
  <2> DEFINE results == [i \in DOMAIN round |-> round[i].result]
  <2>1. transcript' = Append(transcript, results) /\ round' = <<>>
    BY <1>6 DEF RoundEnds
  <2>2. ~HasRefusal(results)
    BY <1>2 DEF WasRefused, HasRefusal
  <2> HIDE DEF results
  <2>3. transcript \in Seq(Seq(Results))
    BY DEF IInv, Types
  <2>4. \A r \in DOMAIN transcript' :
          \/ r \in DOMAIN transcript /\ transcript'[r] = transcript[r]
          \/ transcript'[r] = results
    BY <2>1, <2>3
  <2>5. \A r \in DOMAIN transcript' : ~HasRefusal(transcript'[r])
    BY <1>2, <2>2, <2>4 DEF WasRefused
  <2> QED
    BY <2>1, <2>5 DEF WasRefused, HasRefusal
<1>7. CASE ~CallsTools /\ ~RoundEnds /\ ~\E i \in DOMAIN round : LetThrough(i) \/ Refuse(i) \/ Returns(i)
  <2>1. (transcript' = transcript \/ transcript' = <<>>) /\ (round' = round \/ round' = <<>>)
    BY <1>7 DEF Next, AgentStep, Ended, Unconfigured, NoModel, Begin, GiveUp, ProviderFails, Try,
                CutOff, Answers, Finish, agent, vars
  <2> QED
    BY <1>3, <2>1
<1> QED
  BY <1>4, <1>5, <1>6, <1>7

\* Whatever the models ask for, in parallel or one provider after the other,
\* the tools are called at most max_agent_steps times, and no call is refused
\* before they were (tools.py:69-82).
THEOREM BudgetIsKept == Spec => []WithinBudget
<1>1. IInv /\ RefusedWhenSpent => WithinBudget
  BY MaxAgentStepsAssumption DEF IInv, Budgeted, RefusedWhenSpent, WithinBudget, Types
<1> QED
  BY InitIsSound, StepIsSound, InitRefusesNobody, StepRefusesWhenSpent, <1>1, PTL DEF Spec

\* An agent whose model answers once it is refused, and does not waste whole
\* replies on bad arguments, never meets the recursion limit
\* (tools.py:7-10, superhero_agent.py:59).
THEOREM RefusalsEndTheLoop == Spec => []NeverCutOff
<1>1. IInv => NeverCutOff
  <2> SUFFICES ASSUME IInv, at = "model", supersteps = RecursionLimit,
                      \A r \in 1..(Len(transcript) - 1) : ~HasRefusal(transcript[r]),
                      \A r \in 1..Len(transcript) : HasCall(transcript[r])
               PROVE  FALSE
    BY DEF NeverCutOff
  <2>1. Len(transcript) = MaxAgentSteps + 2 /\ MaxAgentSteps \in Nat
    BY MaxAgentStepsAssumption DEF IInv, InStep, Types, RecursionLimit
  <2>2. ASSUME NEW r \in 1..(MaxAgentSteps + 1) PROVE Productive(transcript[r])
    <3>1. HasCall(transcript[r]) /\ ~HasRefusal(transcript[r])
      BY <2>1
    <3>2. transcript[r] \in Seq(Results)
      BY <2>1 DEF IInv, Types
    <3>3. PICK i \in DOMAIN transcript[r] : transcript[r][i].is # "invalid"
      BY <3>1 DEF HasCall, ToSet
    <3>4. transcript[r][i].is # "refused"
      BY <3>1, <3>3 DEF HasRefusal, ToSet
    <3>5. transcript[r][i] \in Results
      BY <3>2, <3>3
    <3> QED
      BY <3>3, <3>4, <3>5 DEF Productive, Paid, Results
  <2>3. MaxAgentSteps + 1 <= called
    BY <2>1, <2>2 DEF IInv, RoundsArePaid, AllProductive
  <2> QED
    BY <2>1, <2>3 DEF IInv, Budgeted, Types
<1> QED
  BY InitIsSound, StepIsSound, <1>1, PTL DEF Spec

-----------------------------------------------------------------------------
\* A set of naturals with 0 and the successor of each member has them all.
LEMMA Induction ==
  ASSUME NEW S \in SUBSET Nat, 0 \in S, \A n \in S : n + 1 \in S
  PROVE  S = Nat
<1> DEFINE R == OpToRel(<, Nat)
           Left == Nat \ S
<1>1. IsWellFoundedOn(R, Nat)
  BY NatLessThanWellFounded
<1> HIDE DEF R
<1>2. ASSUME Left # {} PROVE FALSE
  <2>1. PICK x \in Left : \A y \in Left : ~(<<y, x>> \in R)
    BY <1>1, <1>2, WFMin
  <2>2. x \in Nat /\ x # 0
    OBVIOUS
  <2>3. x - 1 \in Nat /\ x - 1 < x
    BY <2>2
  <2>4. <<x - 1, x>> \in R
    BY <2>2, <2>3 DEF R, OpToRel
  <2>5. x - 1 \in S
    BY <2>1, <2>3, <2>4
  <2>6. (x - 1) + 1 \in S
    BY <2>5
  <2> QED
    BY <2>2, <2>6
<1> QED
  BY <1>2

\* What an answer may cite: some characters, each with a summary or its record.
EvidenceMaps == UNION {[S -> {"summary", "full"}] : S \in SUBSET Heroes}

\* One message adds its characters; a record it holds is cited from then on.
LEMMA AbsorbIsTyped ==
  ASSUME NEW cited \in EvidenceMaps, NEW m \in Results
  PROVE  /\ Absorb(cited, m) \in EvidenceMaps
         /\ DOMAIN Absorb(cited, m) = DOMAIN cited \cup m.heroes
         /\ \A h \in DOMAIN cited \cup m.heroes :
              Absorb(cited, m)[h] = "full" <=>
                (m.is = "record" /\ h \in m.heroes) \/ (h \in DOMAIN cited /\ cited[h] = "full")
<1>1. PICK S \in SUBSET Heroes : cited \in [S -> {"summary", "full"}]
  BY DEF EvidenceMaps
<1>2. m.heroes \in SUBSET Heroes
  BY DEF Results
<1>3. Absorb(cited, m) \in [S \cup m.heroes -> {"summary", "full"}]
  BY <1>1 DEF Absorb
<1>4. S \cup m.heroes \in SUBSET Heroes
  BY <1>2
<1>5. Absorb(cited, m) \in EvidenceMaps
  BY <1>3, <1>4 DEF EvidenceMaps
<1> QED
  BY <1>1, <1>5 DEF Absorb

\* The walk over the messages exists, and after each of them it cites what those
\* so far hold; by induction on their number.
LEMMA CitedIsWhatWasReturned ==
  ASSUME NEW ms \in Seq(Results)
  PROVE  /\ Cited(ms) \in EvidenceMaps
         /\ DOMAIN Cited(ms) = {h \in Heroes : \E i \in 1..Len(ms) : h \in ms[i].heroes}
         /\ \A h \in DOMAIN Cited(ms) :
              Cited(ms)[h] = "full" <=> \E i \in 1..Len(ms) : ms[i].is = "record" /\ h \in ms[i].heroes
<1> DEFINE n == Len(ms)
           Walk(f, k) == f = [i \in 0..k |-> IF i = 0 THEN <<>> ELSE Absorb(f[i - 1], ms[i])]
           walk == CHOOSE f : Walk(f, n)
           Ways == {k \in Nat : \E f : Walk(f, k)}
<1>1. n \in Nat /\ \A i \in 1..n : ms[i] \in Results
  OBVIOUS
<1>2. <<>> \in EvidenceMaps
  <2>1. <<>> \in [1..0 -> {"summary", "full"}] /\ 1..0 = {}
    OBVIOUS
  <2> QED
    BY <2>1 DEF EvidenceMaps
<1>3. 0 \in Ways
  <2>1. Walk([i \in 0..0 |-> <<>>], 0)
    OBVIOUS
  <2> HIDE DEF Walk
  <2> QED
    BY <2>1
<1>4. ASSUME NEW k \in Ways PROVE k + 1 \in Ways
  <2>1. PICK f : Walk(f, k)
    OBVIOUS
  <2> DEFINE g == [i \in 0..(k + 1) |-> IF i <= k THEN f[i] ELSE Absorb(f[k], ms[k + 1])]
  <2>2. k \in Nat /\ f[0] = <<>> /\ \A i \in 1..k : f[i] = Absorb(f[i - 1], ms[i])
    BY <2>1
  <2>3. /\ g[0] = <<>>
        /\ \A i \in 1..k : g[i] = f[i] /\ g[i - 1] = f[i - 1]
        /\ g[k + 1] = Absorb(f[k], ms[k + 1]) /\ g[k] = f[k]
    BY <2>2
  <2>4. g = [i \in 0..(k + 1) |-> g[i]]
    OBVIOUS
  <2> HIDE DEF g
  <2>5. \A i \in 0..(k + 1) : g[i] = IF i = 0 THEN <<>> ELSE Absorb(g[i - 1], ms[i])
    BY <2>2, <2>3
  <2>6. Walk(g, k + 1)
    BY <2>4, <2>5
  <2> HIDE DEF Walk
  <2> QED
    BY <2>2, <2>6
<1>5. Ways = Nat
  <2>1. Ways \in SUBSET Nat
    OBVIOUS
  <2> HIDE DEF Ways
  <2> QED
    BY <2>1, <1>3, <1>4, Induction
<1>6. Walk(walk, n)
  <2>1. \E f : Walk(f, n)
    BY <1>1, <1>5
  <2> HIDE DEF Walk
  <2> QED
    BY <2>1
<1>7. Cited(ms) = walk[n]
  BY DEF Cited
<1> HIDE DEF walk
<1>8. walk[0] = <<>> /\ \A i \in 1..n : walk[i] = Absorb(walk[i - 1], ms[i])
  BY <1>1, <1>6
<1> DEFINE Right(i) ==
             /\ walk[i] \in EvidenceMaps
             /\ DOMAIN walk[i] = {h \in Heroes : \E j \in 1..i : h \in ms[j].heroes}
             /\ \A h \in DOMAIN walk[i] :
                  walk[i][h] = "full" <=> \E j \in 1..i : ms[j].is = "record" /\ h \in ms[j].heroes
           S == {i \in Nat : i <= n => Right(i)}
<1>9. Right(0)
  BY <1>2, <1>8
<1>10. ASSUME NEW i \in Nat, i + 1 <= n, Right(i) PROVE Right(i + 1)
  <2>1. i + 1 \in 1..n /\ ms[i + 1] \in Results /\ walk[i + 1] = Absorb(walk[i], ms[i + 1])
    BY <1>1, <1>8, <1>10
  <2>2. ms[i + 1].heroes \subseteq Heroes
    BY <2>1 DEF Results
  <2>3. \A j : j \in 1..(i + 1) <=> j \in 1..i \/ j = i + 1
    BY <1>10
  <2> DEFINE c == walk[i]
             m == ms[i + 1]
  <2>9. c \in EvidenceMaps /\ m \in Results
    BY <1>10, <2>1
  <2> HIDE DEF c, m
  <2>10. /\ Absorb(c, m) \in EvidenceMaps
        /\ DOMAIN Absorb(c, m) = DOMAIN c \cup m.heroes
        /\ \A h \in DOMAIN c \cup m.heroes :
              Absorb(c, m)[h] = "full" <=>
                (m.is = "record" /\ h \in m.heroes) \/ (h \in DOMAIN c /\ c[h] = "full")
    BY <2>9, AbsorbIsTyped
  <2> USE DEF c, m
  <2>4. /\ walk[i + 1] \in EvidenceMaps
        /\ DOMAIN walk[i + 1] = DOMAIN walk[i] \cup ms[i + 1].heroes
        /\ \A h \in DOMAIN walk[i] \cup ms[i + 1].heroes :
              walk[i + 1][h] = "full" <=>
                (ms[i + 1].is = "record" /\ h \in ms[i + 1].heroes) \/ (h \in DOMAIN walk[i] /\ walk[i][h] = "full")
    BY <2>1, <2>10
  <2> QED
    BY <1>10, <2>2, <2>3, <2>4
<1> HIDE DEF Right
<1>11. S = Nat
  <2>1. 0 \in S
    BY <1>9
  <2>2. ASSUME NEW i \in S PROVE i + 1 \in S
    BY <1>1, <1>10
  <2> HIDE DEF S
  <2>3. S \in SUBSET Nat
    BY DEF S
  <2> QED
    BY <2>1, <2>2, <2>3, Induction
<1>12. Right(n)
  BY <1>1, <1>11
<1> QED
  BY <1>7, <1>12 DEF Right

\* The rounds of a transcript, one after the other, are a sequence of results.
LEMMA MessagesAreTyped ==
  ASSUME transcript \in Seq(Seq(Results))
  PROVE  Messages \in Seq(Results)
<1> DEFINE n == Len(transcript)
           Flat(f, k) == f = [i \in 1..k |-> IF i = 1 THEN transcript[i] ELSE f[i - 1] \o transcript[i]]
           flat == CHOOSE f : Flat(f, n)
           Ways == {k \in Nat : \E f : Flat(f, k)}
<1>1. n \in Nat /\ \A i \in 1..n : transcript[i] \in Seq(Results)
  OBVIOUS
<1>2. 0 \in Ways
  <2>1. Flat([i \in 1..0 |-> <<>>], 0)
    OBVIOUS
  <2> HIDE DEF Flat
  <2> QED
    BY <2>1
<1>3. ASSUME NEW k \in Ways PROVE k + 1 \in Ways
  <2>1. PICK f : Flat(f, k)
    OBVIOUS
  <2> DEFINE g == [i \in 1..(k + 1) |->
                     IF i <= k THEN f[i] ELSE IF i = 1 THEN transcript[i] ELSE f[k] \o transcript[i]]
  <2>2. k \in Nat /\ \A i \in 1..k : f[i] = IF i = 1 THEN transcript[i] ELSE f[i - 1] \o transcript[i]
    BY <2>1
  <2>3. /\ \A i \in 1..k : g[i] = f[i]
        /\ g[k + 1] = IF k = 0 THEN transcript[1] ELSE f[k] \o transcript[k + 1]
    <3>1. k + 1 \in 1..(k + 1) /\ ~(k + 1 <= k) /\ (k + 1 = 1 <=> k = 0)
      BY <2>2
    <3>2. g[k + 1] = IF k + 1 = 1 THEN transcript[k + 1] ELSE f[k] \o transcript[k + 1]
      BY <3>1
    <3>3. \A i \in 1..k : i \in 1..(k + 1) /\ i <= k
      BY <2>2
    <3>4. \A i \in 1..k : g[i] = f[i]
      BY <3>3
    <3> HIDE DEF g
    <3> QED
      BY <3>1, <3>2, <3>4
  <2>4. g = [i \in 1..(k + 1) |-> g[i]]
    OBVIOUS
  <2> HIDE DEF g
  <2>5. \A i \in 1..(k + 1) : g[i] = IF i = 1 THEN transcript[i] ELSE g[i - 1] \o transcript[i]
    <3>1. ASSUME NEW i \in 1..k PROVE g[i] = IF i = 1 THEN transcript[i] ELSE g[i - 1] \o transcript[i]
      BY <2>2, <2>3
    <3>2. g[k + 1] = IF k + 1 = 1 THEN transcript[k + 1] ELSE g[(k + 1) - 1] \o transcript[k + 1]
      BY <2>2, <2>3
    <3> QED
      BY <2>2, <3>1, <3>2
  <2>6. Flat(g, k + 1)
    BY <2>4, <2>5
  <2> HIDE DEF Flat
  <2> QED
    BY <2>2, <2>6
<1>4. Ways = Nat
  <2>1. Ways \in SUBSET Nat
    OBVIOUS
  <2> HIDE DEF Ways
  <2> QED
    BY <2>1, <1>2, <1>3, Induction
<1>5. Flat(flat, n)
  <2>1. \E f : Flat(f, n)
    BY <1>1, <1>4
  <2> HIDE DEF Flat
  <2> QED
    BY <2>1
<1>6. Messages = IF n = 0 THEN transcript ELSE flat[n]
  BY DEF Messages, FlattenSeq
<1> HIDE DEF flat
<1>7. \A i \in 1..n : flat[i] = IF i = 1 THEN transcript[i] ELSE flat[i - 1] \o transcript[i]
  BY <1>5
<1> DEFINE S == {k \in Nat : k + 1 <= n => flat[k + 1] \in Seq(Results)}
<1>8. 0 \in S
  BY <1>1, <1>7
<1>9. ASSUME NEW k \in S PROVE k + 1 \in S
  <2> SUFFICES ASSUME (k + 1) + 1 <= n PROVE flat[(k + 1) + 1] \in Seq(Results)
    OBVIOUS
  <2>1. flat[k + 1] \in Seq(Results) /\ transcript[(k + 1) + 1] \in Seq(Results)
    BY <1>1
  <2>2. flat[(k + 1) + 1] = flat[k + 1] \o transcript[(k + 1) + 1]
    <3>1. (k + 1) + 1 \in 1..n /\ (k + 1) + 1 # 1 /\ ((k + 1) + 1) - 1 = k + 1
      BY <1>1
    <3> QED
      BY <1>7, <3>1
  <2> QED
    BY <2>1, <2>2
<1>10. S = Nat
  <2>1. S \in SUBSET Nat
    OBVIOUS
  <2> HIDE DEF S
  <2> QED
    BY <2>1, <1>8, <1>9, Induction
<1>11. n > 0 => flat[n] \in Seq(Results)
  <2> SUFFICES ASSUME n > 0 PROVE flat[n] \in Seq(Results)
    OBVIOUS
  <2>1. n - 1 \in Nat /\ (n - 1) + 1 = n
    BY <1>1
  <2>2. \A k \in Nat : k + 1 <= n => flat[k + 1] \in Seq(Results)
    BY <1>10
  <2> HIDE DEF n
  <2> QED
    BY <2>1, <2>2
<1>12. n = 0 => transcript \in Seq(Results)
  <2>1. n = 0 => transcript = <<>>
    OBVIOUS
  <2> QED
    BY <2>1
<1> QED
  BY <1>1, <1>6, <1>11, <1>12

-----------------------------------------------------------------------------
\* The types, and that what was answered is still what the transcript says.
Recorded ==
  /\ TypeOK
  /\ evidence \in EvidenceMaps
  /\ outcome = "answered" => at = "END" /\ evidence = Evidence

LEMMA EvidenceIsTyped ==
  ASSUME transcript \in Seq(Seq(Results)) PROVE Evidence \in EvidenceMaps
BY MessagesAreTyped, CitedIsWhatWasReturned DEF Evidence

LEMMA MapsAreTyped ==
  ASSUME NEW e \in EvidenceMaps
  PROVE  DOMAIN e \subseteq Heroes /\ \A h \in DOMAIN e : e[h] \in {"summary", "full"}
BY DEF EvidenceMaps

LEMMA NothingIsTyped == <<>> \in EvidenceMaps
<1>1. <<>> \in [1..0 -> {"summary", "full"}] /\ 1..0 = {}
  OBVIOUS
<1> QED
  BY <1>1 DEF EvidenceMaps

LEMMA InitIsRecorded == Init => Recorded
<1> SUFFICES ASSUME Init PROVE Recorded
  OBVIOUS
<1>1. deps \in [models : BOOLEAN, tools : BOOLEAN, asks : BOOLEAN]
  <2>1. PICK start \in Started :
          deps = [part \in {"models", "tools", "asks"} |-> Build(start[1], start[2])[part]]
    BY DEF Init, Servers
  <2>2. start[1] \in Settings
    BY DEF Started
  <2>3. /\ Build(start[1], start[2])["models"] = start[1].gemini_api_key
        /\ Build(start[1], start[2])["tools"] = HasHeroTools(start[1], start[2])
        /\ Build(start[1], start[2])["asks"] = HeroToolsAsk(start[1], start[2])
    BY DEF Build
  <2>4. start[1].gemini_api_key \in BOOLEAN
    BY <2>2 DEF Settings
  <2>5. HasHeroTools(start[1], start[2]) \in BOOLEAN /\ HeroToolsAsk(start[1], start[2]) \in BOOLEAN
    BY DEF HasHeroTools, HeroToolsAsk
  <2> QED
    BY <2>1, <2>3, <2>4, <2>5
<1>2. evidence \in EvidenceMaps
  BY NothingIsTyped DEF Init
<1>3. remaining \in 0..MaxAgentSteps /\ supersteps \in 0..RecursionLimit
  BY MaxAgentStepsAssumption DEF Init, RecursionLimit
<1>4. round \in Seq(Calls) /\ Len(round) <= MaxParallel /\ transcript \in Seq(Seq(Results))
  BY MaxParallelAssumption DEF Init
<1> QED
  BY <1>1, <1>2, <1>3, <1>4, MapsAreTyped DEF Init, Recorded, TypeOK

\* Until an answer is given nothing is cited; once it is, the transcript rests.
LEMMA StepIsRecorded == IInv /\ IInv' /\ Recorded /\ [Next]_vars => Recorded'
<1> SUFFICES ASSUME IInv, IInv', Recorded, [Next]_vars PROVE Recorded'
  OBVIOUS
<1>1. /\ remaining' \in 0..MaxAgentSteps
      /\ called' \in Nat /\ round' \in Seq(Calls) /\ transcript' \in Seq(Seq(Results))
  BY MaxAgentStepsAssumption DEF IInv, Budgeted, Types
<1>2. supersteps' \in 0..RecursionLimit
  <2>1. supersteps \in 0..RecursionLimit /\ supersteps' \in Nat /\ Len(transcript) \in Nat
    BY DEF Recorded, TypeOK, IInv, Types
  <2>2. CASE CallsTools
    BY <2>1, <2>2, MaxAgentStepsAssumption DEF CallsTools, RecursionLimit
  <2>3. CASE RoundEnds
    <3>1. supersteps = 2 * Len(transcript) + 1 /\ supersteps' = supersteps + 1
      BY <2>3 DEF RoundEnds, IInv, InStep
    <3> QED
      BY <2>1, <3>1, MaxAgentStepsAssumption DEF RecursionLimit
  <2>4. CASE ~CallsTools /\ ~RoundEnds
    <3>1. supersteps' = supersteps \/ supersteps' = 0
      BY <2>4 DEF Next, AgentStep, Ended, Unconfigured, NoModel, Begin, GiveUp, ProviderFails, Try,
                  CutOff, Answers, LetThrough, Refuse, Returns, Finish, agent, vars
    <3> QED
      BY <2>1, <3>1, MaxAgentStepsAssumption DEF RecursionLimit
  <2> QED
    BY <2>2, <2>3, <2>4
<1>3. Len(round') <= MaxParallel
  <2>1. Len(round) <= MaxParallel /\ round \in Seq(Calls)
    BY DEF Recorded, TypeOK
  <2>2. CASE CallsTools
    <3>1. PICK n \in 1..MaxParallel : \E tools \in [1..n -> ToolCalls] :
             round' = [i \in 1..n |-> Asked(tools[i])]
      BY <2>2 DEF CallsTools
    <3>2. DOMAIN round' = 1..n /\ n \in Nat
      BY <3>1, MaxParallelAssumption
    <3>3. Len(round') = n
      BY <1>1, <3>2
    <3> QED
      BY <3>1, <3>3, MaxParallelAssumption
  <2>3. CASE \E i \in DOMAIN round : LetThrough(i) \/ Refuse(i) \/ Returns(i)
    <3>1. DOMAIN round' = DOMAIN round
      BY <2>1, <2>3 DEF LetThrough, Refuse, Returns, SetCall
    <3> QED
      BY <1>1, <2>1, <3>1
  <2>4. CASE ~CallsTools /\ ~\E i \in DOMAIN round : LetThrough(i) \/ Refuse(i) \/ Returns(i)
    <3>1. round' = round \/ round' = <<>>
      BY <2>4 DEF Next, AgentStep, Ended, Unconfigured, NoModel, Begin, GiveUp, ProviderFails, Try,
                  CutOff, Answers, RoundEnds, Finish, vars
    <3> QED
      BY <2>1, <3>1, MaxParallelAssumption
  <2> QED
    BY <2>2, <2>3, <2>4
<1>4. /\ at' \in {"start", "failover", "model", "tools", "END"}
      /\ provider' \in Providers \cup {NoProvider} /\ tried' \subseteq Providers
      /\ gap' \in BOOLEAN
      /\ outcome' \in {"none", "unconfigured", "no_model", "unavailable", "answered"}
      /\ deps' = deps
  <2>1. CASE \E p \in Providers : Try(p)
    BY <2>1 DEF Recorded, TypeOK, Try, result
  <2>2. CASE Answers
    BY <2>2 DEF Recorded, TypeOK, Answers, Finish, agent, HasErrors
  <2>3. CASE ~Answers /\ ~\E p \in Providers : Try(p)
    BY <2>3 DEF Recorded, TypeOK, Next, AgentStep, Ended, Unconfigured, NoModel, Begin, GiveUp,
                ProviderFails, CallsTools, CutOff, LetThrough, Refuse, Returns, RoundEnds, Finish,
                agent, result, vars
  <2> QED
    BY <2>1, <2>2, <2>3
<1>5. evidence' \in EvidenceMaps /\ (outcome' = "answered" => at' = "END" /\ evidence' = Evidence')
  <2>1. CASE Answers
    <3>1. transcript' = transcript /\ evidence' = Evidence /\ at' = "END"
      BY <2>1 DEF Answers, Finish, agent
    <3>2. Evidence' = Evidence
      BY <3>1 DEF Evidence, Messages
    <3>3. Evidence \in EvidenceMaps
      BY EvidenceIsTyped DEF IInv, Types
    <3> QED
      BY <3>1, <3>2, <3>3
  <2>2. CASE Unconfigured \/ NoModel \/ GiveUp
    BY <2>2, NothingIsTyped DEF Unconfigured, NoModel, GiveUp, Finish
  <2>3. CASE Ended \/ UNCHANGED vars
    <3>1. transcript' = transcript /\ evidence' = evidence /\ at' = at /\ outcome' = outcome
      BY <2>3 DEF Ended, vars, agent, result
    <3>2. Evidence' = Evidence
      BY <3>1 DEF Evidence, Messages
    <3> QED
      BY <3>1, <3>2 DEF Recorded
  <2>4. CASE Begin \/ ProviderFails \/ (\E p \in Providers : Try(p))
               \/ CallsTools \/ CutOff \/ RoundEnds
               \/ (\E i \in DOMAIN round : LetThrough(i) \/ Refuse(i) \/ Returns(i))
    <3>1. at # "END" /\ evidence' = evidence /\ outcome' = outcome
      BY <2>4 DEF Begin, ProviderFails, Try, CallsTools, CutOff, RoundEnds, LetThrough, Refuse,
                  Returns, result
    <3> QED
      BY <3>1 DEF Recorded
  <2> QED
    BY <2>1, <2>2, <2>3, <2>4 DEF Next, AgentStep
<1>6. deps' \in [models : BOOLEAN, tools : BOOLEAN, asks : BOOLEAN]
  BY <1>4 DEF Recorded, TypeOK
<1>7. DOMAIN evidence' \subseteq Heroes /\ \A h \in DOMAIN evidence' : evidence'[h] \in {"summary", "full"}
  BY <1>5, MapsAreTyped
<1> QED
  BY <1>1, <1>2, <1>3, <1>4, <1>5, <1>6, <1>7 DEF Recorded, TypeOK

LEMMA AlwaysRecorded == Spec => [](IInv /\ Recorded)
BY InitIsSound, InitIsRecorded, StepIsSound, StepIsRecorded, PTL DEF Spec

\* For any providers, characters, budget and number of parallel calls: every variable
\* keeps its type, and no agent takes more supersteps than its recursion limit
\* (superhero_agent.py:51-111).
THEOREM TypeCorrect == Spec => []TypeOK
<1>1. Recorded => TypeOK
  BY DEF Recorded
<1> QED
  BY <1>1, AlwaysRecorded, PTL

\* For any transcript: what an answer cites is what the tools returned to the provider
\* that answered, each character with its full record iff one was returned
\* (superhero_agent.py:85-111).
THEOREM EvidenceIsWhatWasFetched == Spec => []EvidenceIsFetched
<1>1. IInv /\ Recorded => EvidenceIsFetched
  <2> SUFFICES ASSUME IInv, Recorded, outcome = "answered", NEW h \in Heroes
               PROVE  LET about == {m \in ToSet(Messages) : h \in m.heroes}
                      IN  /\ h \in DOMAIN evidence <=> about # {}
                          /\ h \in DOMAIN evidence =>
                               (evidence[h] = "full" <=> \E m \in about : m.is = "record")
    BY DEF EvidenceIsFetched
  <2>1. evidence = Cited(Messages)
    BY DEF Recorded, Evidence
  <2>2. Messages \in Seq(Results)
    BY MessagesAreTyped DEF IInv, Types
  <2>3. /\ DOMAIN evidence = {k \in Heroes : \E i \in 1..Len(Messages) : k \in Messages[i].heroes}
        /\ \A k \in DOMAIN evidence :
             evidence[k] = "full" <=>
               \E i \in 1..Len(Messages) : Messages[i].is = "record" /\ k \in Messages[i].heroes
    BY <2>1, <2>2, CitedIsWhatWasReturned
  <2>4. ToSet(Messages) = {Messages[i] : i \in 1..Len(Messages)}
    BY <2>2 DEF ToSet
  <2> QED
    BY <2>3, <2>4
<1> QED
  BY <1>1, AlwaysRecorded, PTL
=============================================================================
