------------------------ MODULE FactProcessorProofs ------------------------
(* FactProcessor decides every fact once, with everything the decision     *)
(* does.                                                                   *)
(*                                                                         *)
(* Only the transaction that publishes a fact writes its digest, and only  *)
(* while it is applied (StageIsTrue): so the fact an execution names as    *)
(* its cause is never the one a worker has in hand, unless it is held for  *)
(* it or new, and every decision moves such an execution on.  That is the  *)
(* whole argument; which worker has which claim enters only through        *)
(* Holds, in the count of the failures.                                    *)
EXTENDS FactProcessor, TLAPS

-----------------------------------------------------------------------------
(* Types, and what a transition leaves behind.                             *)

(* What a fact that moves an execution leaves: the status it asked for,    *)
(* with itself as the cause unless the status was that before; nothing     *)
(* else is touched, and nothing of a closed execution.                     *)
Moved(e, to, f) ==
    /\ status' = [status EXCEPT ![e] = to]
    /\ cause' = [cause EXCEPT ![e] = cause'[e]]
    /\ cause'[e] = f \/ (status[e] = to /\ cause'[e] = cause[e])
    /\ status[e] = "CLOSED" => to = "CLOSED" /\ cause'[e] = cause[e]

Target(d) == CASE d = "create" -> "RUNNING" [] d = "wait" -> "HOLD"
               [] d = "pause" -> "RECONCILING" [] d = "complete" -> "CLOSED"

LEMMA FactFacts ==
  /\ Event \subseteq Fact /\ \A f \in Fact : Of[f] \in Event /\ MayDecide[f] \subseteq Decision
  /\ \A e \in Event : Of[e] = e
  BY FactAssumption DEF Fact

LEMMA TransitionMoves ==
  ASSUME TypeOK, NEW e \in Event, NEW f \in Fact, NEW to \in Status, Transition(e, to, f)
  PROVE  Moved(e, to, f)
<1>1. CASE status[e] = to
  <2>1. status' = status /\ cause' = cause
    BY <1>1 DEF Transition, executionVars
  <2>. QED BY <1>1, <2>1 DEF Moved, TypeOK
<1>2. CASE status[e] # to
  BY <1>2 DEF Transition, Moved, TypeOK
<1>. QED BY <1>1, <1>2

LEMMA EffectMoves ==
  ASSUME TypeOK, NEW f \in Fact, NEW d \in MayDecide[f] \ {"defer"}, Effect(f, d)
  PROVE  /\ d \in {"create", "wait", "pause", "complete"}
         /\ Target(d) \in Status /\ Moved(Of[f], Target(d), f)
         /\ duties' = IF d = "create" THEN duties \cup {f} ELSE duties
<1>1. d \in {"create", "wait", "pause", "complete"} /\ Of[f] \in Event
  BY FactFacts DEF Decision
<1>2. Target(d) \in Status
  BY <1>1 DEF Target, Status
<1>3. CASE d = "pause"
  <2>1. Pause(Of[f], f) /\ UNCHANGED duties
    BY <1>3 DEF Effect
  <2>. QED BY <1>1, <1>2, <1>3, <2>1 DEF Pause, Moved, Target, TypeOK
<1>4. CASE d \in {"create", "wait", "complete"}
  <2>1. /\ Transition(Of[f], Target(d), f)
        /\ duties' = IF d = "create" THEN duties \cup {f} ELSE duties
    BY <1>4 DEF Effect, Target
  <2>. QED BY <1>1, <1>2, <2>1, TransitionMoves
<1>. QED BY <1>1, <1>3, <1>4

LEMMA MovedTypes ==
  ASSUME TypeOK, NEW e \in Event, NEW f \in Fact, NEW to \in Status, Moved(e, to, f)
  PROVE  status' \in [Event -> Status] /\ cause' \in [Event -> Fact]
  BY DEF Moved, TypeOK

LEMMA WorkTypes ==
  ASSUME TypeOK, NEW w \in Worker, NEW f \in Fact, Process(w, f)
  PROVE  TypeOK'
<1>. USE FactFacts
<1>1. CASE Apply(w, f)
  <2>1. PICK d \in MayDecide[f] \ {"defer"} : Effect(f, d) /\ digest' = [digest EXCEPT ![f] = d]
    BY <1>1 DEF Apply
  <2>2. /\ status' \in [Event -> Status] /\ cause' \in [Event -> Fact]
        /\ duties' \subseteq Fact /\ d \in Decision
    BY <2>1, EffectMoves, MovedTypes DEF TypeOK
  <2>. QED BY <1>1, <2>1, <2>2 DEF Apply, TypeOK, Release, Done, Stage
<1>2. CASE Defer(w, f)
  <2>1. status' \in [Event -> Status] /\ cause' \in [Event -> Fact]
    BY <1>2, TransitionMoves, MovedTypes DEF Defer, Status
  <2>. QED BY <1>2, <2>1 DEF Defer, TypeOK, Release, Done
<1>3. CASE Postpone(w, f)
  BY <1>3 DEF Postpone, TypeOK, Release, Done, executionVars, Status
<1>4. CASE Consume(w, f)
  BY <1>4 DEF Consume, TypeOK, Release, Done, executionVars, Stage
<1>5. CASE RecordFailure(w, f)
  <2>1. status' \in [Event -> Status] /\ cause' \in [Event -> Fact]
    BY <1>5, TransitionMoves, MovedTypes DEF RecordFailure, GiveUp, executionVars, Status, TypeOK
  <2>2. stage' \in [Fact -> Stage]
    BY <1>5 DEF RecordFailure, GiveUp, TypeOK, Stage
  <2>3. attempts' \in [Fact -> Nat]
    <3>1. attempts' = [attempts EXCEPT ![f] = @ + 1] \/ attempts' = attempts
      BY <1>5 DEF RecordFailure
    <3>. QED BY <3>1 DEF TypeOK
  <2>. QED BY <1>5, <2>1, <2>2, <2>3 DEF RecordFailure, TypeOK, Release, Done, claimVars
<1>. QED BY <1>1, <1>2, <1>3, <1>4, <1>5 DEF Process

LEMMA StepTypes ==
  ASSUME TypeOK, [Next]_vars
  PROVE  TypeOK'
<1>1. ASSUME NEW f \in Fact, Arrive(f) PROVE TypeOK'
  BY <1>1 DEF Arrive, TypeOK, Stage, claimVars, executionVars
<1>2. ASSUME NEW f \in Fact, BecomesDue(f) PROVE TypeOK'
  BY <1>2 DEF BecomesDue, TypeOK, executionVars
<1>3. ASSUME NEW f \in Fact, LeaseRunsOut(f) PROVE TypeOK'
  BY <1>3 DEF LeaseRunsOut, TypeOK, executionVars
<1>4. ASSUME NEW w \in Worker, Claim(w) PROVE TypeOK'
  BY <1>4 DEF Claim, TypeOK, executionVars
<1>5. ASSUME NEW w \in Worker, Abandon(w) PROVE TypeOK'
  BY <1>5 DEF Abandon, TypeOK, claimVars, executionVars
<1>6. CASE UNCHANGED vars
  BY <1>6 DEF vars, TypeOK, claimVars, executionVars
<1>. QED BY <1>1, <1>2, <1>3, <1>4, <1>5, <1>6, WorkTypes DEF Next, Work

(* Every column of a fact and of an execution keeps its type.              *)
THEOREM Typing == Spec => []TypeOK
<1>1. Init => TypeOK
  BY FactFacts DEF Init, TypeOK, Stage, Status
<1>. QED BY <1>1, StepTypes, PTL DEF Spec

-----------------------------------------------------------------------------
(* One lemma per action.                                                   *)

LEMMA ApplyStep ==
  ASSUME TypeOK, ProcessingInv, NEW w \in Worker, NEW f \in Fact, Apply(w, f)
  PROVE  ProcessingInv'
<1>. DEFINE e == Of[f]
<1>1. PICK d \in MayDecide[f] \ {"defer"} : Effect(f, d) /\ digest' = [digest EXCEPT ![f] = d]
  BY DEF Apply
<1>2. /\ stage[f] = "applied" /\ Bound(f) /\ UNCHANGED attempts
      /\ stage' = [stage EXCEPT ![f] = "published"]
  BY DEF Apply, Holds
<1>3. /\ d \in {"create", "wait", "pause", "complete"} /\ e \in Event
      /\ Target(d) \in Status /\ Moved(e, Target(d), f)
  BY <1>1, EffectMoves, FactFacts
<1>4. digest[f] = "none"
  BY <1>2 DEF ProcessingInv, StageIsTrue
<1>5. status'[e] = Target(d) /\ Target(d) # "none"
      /\ \A x \in Event \ {e} : status'[x] = status[x] /\ cause'[x] = cause[x]
  BY <1>3 DEF Moved, Target, TypeOK
<1>6. \A g \in Fact : Bound(g)' <=> Bound(g)
  BY <1>2, <1>5, FactFacts DEF Bound
<1>7. StageIsTrue'
  BY <1>1, <1>2, <1>3, <1>6 DEF ProcessingInv, StageIsTrue, TypeOK
<1>8. SetAsideIsEarned'
  BY <1>2, <1>6 DEF ProcessingInv, SetAsideIsEarned, TypeOK
<1>9. CauseIsReal'
  <2>. SUFFICES ASSUME NEW x \in Event, status'[x] # "none"
                PROVE  /\ Of[cause'[x]] = x
                       /\ status'[x] = "CREATED" => stage'[x] = "applied"
                       /\ status'[x] = "RUNNING" => digest'[cause'[x]] = "create"
                       /\ status'[x] = "HOLD" =>
                            digest'[cause'[x]] = "wait" \/ stage'[cause'[x]] = "applied"
                       /\ status'[x] = "RECONCILING" =>
                            digest'[cause'[x]] = "pause" \/ stage'[cause'[x]] = "RECONCILING"
                       /\ status'[x] = "CLOSED" => digest'[cause'[x]] = "complete"
    BY DEF CauseIsReal
  <2>1. CASE x # e
    <3>1. status'[x] = status[x] /\ cause'[x] = cause[x] /\ cause[x] \in Fact
      BY <1>5, <2>1 DEF TypeOK
    <3>2. cause[x] # f /\ x # f
      BY <2>1, <3>1, FactFacts DEF ProcessingInv, CauseIsReal
    <3>. QED BY <1>1, <1>2, <3>1, <3>2, FactFacts DEF ProcessingInv, CauseIsReal, TypeOK
  <2>2. CASE x = e /\ cause'[e] = f
    BY <1>1, <1>3, <1>5, <2>2 DEF Target, TypeOK
  <2>3. CASE x = e /\ cause'[e] # f
    <3>1. status[e] = Target(d) /\ cause'[e] = cause[e] /\ cause[e] \in Fact
      BY <1>3, <2>3 DEF Moved, TypeOK
    <3>2. digest'[cause[e]] = digest[cause[e]] /\ stage'[cause[e]] = stage[cause[e]]
      BY <1>1, <1>2, <2>3, <3>1 DEF TypeOK
    <3>. QED BY <1>3, <1>5, <2>3, <3>1, <3>2 DEF ProcessingInv, CauseIsReal, Target
  <2>. QED BY <2>1, <2>2, <2>3
<1>. QED BY <1>7, <1>8, <1>9 DEF ProcessingInv

LEMMA DeferStep ==
  ASSUME TypeOK, ProcessingInv, NEW w \in Worker, NEW f \in Fact, Defer(w, f)
  PROVE  ProcessingInv'
<1>. DEFINE e == Of[f]
<1>1. stage[f] = "applied" /\ Bound(f) /\ UNCHANGED <<stage, digest, attempts>>
  BY DEF Defer, Holds
<1>2. Moved(e, "HOLD", f) /\ e \in Event
  BY TransitionMoves, FactFacts DEF Defer, Status
<1>3. status'[e] = "HOLD"
      /\ \A x \in Event \ {e} : status'[x] = status[x] /\ cause'[x] = cause[x]
  BY <1>2 DEF Moved, TypeOK
<1>4. \A g \in Fact : Bound(g)' <=> Bound(g)
  BY <1>1, <1>3, FactFacts DEF Bound
<1>5. StageIsTrue' /\ SetAsideIsEarned'
  BY <1>1, <1>4 DEF ProcessingInv, StageIsTrue, SetAsideIsEarned
<1>6. CauseIsReal'
  BY <1>1, <1>2, <1>3 DEF ProcessingInv, CauseIsReal, Moved
<1>. QED BY <1>5, <1>6 DEF ProcessingInv

LEMMA PostponeStep ==
  ASSUME TypeOK, ProcessingInv, NEW w \in Worker, NEW f \in Fact, Postpone(w, f)
  PROVE  ProcessingInv'
<1>1. stage[f] = "applied" /\ ~Bound(f) /\ UNCHANGED <<stage, digest, attempts>>
  BY DEF Postpone, Holds
<1>2. f \in Event /\ Of[f] = f
  BY <1>1, FactFacts DEF ProcessingInv, StageIsTrue, Fact
<1>3. CASE UNCHANGED executionVars
  BY <1>1, <1>3 DEF ProcessingInv, StageIsTrue, SetAsideIsEarned, CauseIsReal, Bound, executionVars
<1>4. CASE /\ status' = [status EXCEPT ![f] = "CREATED"]
           /\ cause' = [cause EXCEPT ![f] = f]
  <2>1. /\ status'[f] = "CREATED" /\ cause'[f] = f
        /\ \A x \in Event \ {f} : status'[x] = status[x] /\ cause'[x] = cause[x]
    BY <1>2, <1>4 DEF TypeOK
  <2>2. \A g \in Fact : Bound(g) => Bound(g)'
    BY <2>1, FactFacts DEF Bound
  <2>3. \A g \in Fact : Bound(g)' => Bound(g) \/ Of[g] = f
    BY <2>1, FactFacts DEF Bound
  <2>4. StageIsTrue'
    <3>1. \A g \in Event : Bound(g)' => Bound(g) \/ g = f
      BY <2>3, FactFacts
    <3>2. digest[f] = "none"
      BY <1>1, <1>2, FactFacts DEF ProcessingInv, StageIsTrue
    <3>. QED BY <1>1, <2>2, <3>1, <3>2 DEF ProcessingInv, StageIsTrue
  <2>5. SetAsideIsEarned'
    <3>1. ASSUME NEW g \in Fact, stage[g] = "RECONCILING", Bound(g)' PROVE Bound(g)
      <4>1. CASE g \in Event
        BY <1>1, <2>3, <3>1, <4>1, FactFacts
      <4>2. CASE g \in Result
        BY <3>1, <4>2 DEF ProcessingInv, StageIsTrue
      <4>. QED BY <4>1, <4>2 DEF Fact
    <3>. QED BY <1>1, <3>1 DEF ProcessingInv, SetAsideIsEarned
  <2>6. CauseIsReal'
    BY <1>1, <1>2, <2>1 DEF ProcessingInv, CauseIsReal
  <2>. QED BY <2>4, <2>5, <2>6 DEF ProcessingInv
<1>. QED BY <1>3, <1>4 DEF Postpone

(* Evidence of no execution: no cause, and not a result.                   *)
LEMMA UnboundIsNoCause ==
  ASSUME TypeOK, ProcessingInv, NEW f \in Fact, ~Bound(f)
  PROVE  \A x \in Event : status[x] # "none" => cause[x] # f /\ x # f
  BY FactFacts DEF ProcessingInv, CauseIsReal, Bound, TypeOK

LEMMA ConsumeStep ==
  ASSUME TypeOK, ProcessingInv, NEW w \in Worker, NEW f \in Fact, Consume(w, f)
  PROVE  ProcessingInv'
<1>1. stage[f] = "applied" /\ ~Bound(f) /\ UNCHANGED <<status, cause, attempts>>
  BY DEF Consume, Holds, executionVars
<1>2. \A g \in Fact : Bound(g)' <=> Bound(g)
  BY <1>1 DEF Bound
<1>3. /\ \A g \in Fact \ {f} : stage'[g] = stage[g] /\ digest'[g] = digest[g]
      /\ stage'[f] \in {"published", "IGNORED", "RECONCILING"}
      /\ digest'[f] # "none" <=> stage'[f] = "published"
  <2>1. digest[f] = "none"
    BY <1>1 DEF ProcessingInv, StageIsTrue
  <2>. QED BY <2>1 DEF Consume, TypeOK
<1>4. StageIsTrue'
  BY <1>1, <1>2, <1>3 DEF ProcessingInv, StageIsTrue
<1>5. SetAsideIsEarned'
  BY <1>1, <1>2, <1>3 DEF ProcessingInv, SetAsideIsEarned
<1>6. CauseIsReal'
  BY <1>1, <1>3, UnboundIsNoCause, FactFacts DEF ProcessingInv, CauseIsReal, TypeOK
<1>. QED BY <1>4, <1>5, <1>6 DEF ProcessingInv

LEMMA FailureStep ==
  ASSUME TypeOK, ProcessingInv, NEW w \in Worker, NEW f \in Fact, RecordFailure(w, f)
  PROVE  ProcessingInv'
<1>. DEFINE e == Of[f]
<1>1. CASE ~Holds(w, f)
  BY <1>1 DEF RecordFailure, executionVars, ProcessingInv, StageIsTrue, SetAsideIsEarned,
     CauseIsReal, Bound
<1>2. CASE Holds(w, f)
  <2>1. /\ stage[f] = "applied" /\ UNCHANGED digest
        /\ attempts' = [attempts EXCEPT ![f] = @ + 1]
        /\ IF attempts[f] + 1 >= MaxAttempts
           THEN GiveUp(f) ELSE UNCHANGED <<stage, status, cause>>
    BY <1>2 DEF RecordFailure, Holds, executionVars
  <2>2. digest[f] = "none" /\ attempts[f] \in Nat /\ attempts[f] < MaxAttempts
    BY <2>1 DEF ProcessingInv, StageIsTrue, SetAsideIsEarned, TypeOK
  <2>3. CASE attempts[f] + 1 < MaxAttempts
    <3>1. UNCHANGED <<stage, status, cause>>
      BY <2>1, <2>2, <2>3, AttemptAssumption
    <3>2. StageIsTrue' /\ CauseIsReal'
      BY <2>1, <3>1 DEF ProcessingInv, StageIsTrue, CauseIsReal, Bound, TypeOK
    <3>3. SetAsideIsEarned'
      BY <2>1, <2>2, <2>3, <3>1 DEF ProcessingInv, SetAsideIsEarned, Bound, TypeOK
    <3>. QED BY <3>2, <3>3 DEF ProcessingInv
  <2>4. CASE attempts[f] + 1 >= MaxAttempts
    <3>1. /\ GiveUp(f) /\ stage' = [stage EXCEPT ![f] = "RECONCILING"]
          /\ attempts'[f] = MaxAttempts
          /\ \A g \in Fact \ {f} : attempts'[g] = attempts[g] /\ stage'[g] = stage[g]
      BY <2>1, <2>2, <2>4, AttemptAssumption DEF GiveUp, TypeOK
    <3>2. \/ UNCHANGED <<status, cause>> /\ (~Bound(f) \/ status[e] = "CLOSED")
          \/ Moved(e, "RECONCILING", f) /\ status[e] \notin {"none", "CLOSED"}
      BY <3>1, TransitionMoves, FactFacts DEF GiveUp, Status, executionVars, Bound
    <3>3. \A g \in Fact : Bound(g)' <=> Bound(g)
      BY <3>2, FactFacts DEF Bound, Moved, TypeOK
    <3>4. StageIsTrue'
      BY <2>1, <2>2, <3>1, <3>3 DEF ProcessingInv, StageIsTrue, TypeOK
    <3>5. SetAsideIsEarned'
      BY <3>1, <3>3 DEF ProcessingInv, SetAsideIsEarned, TypeOK
    <3>6. CauseIsReal'
      <4>1. CASE UNCHANGED <<status, cause>> /\ ~Bound(f)
        BY <2>1, <3>1, <4>1, UnboundIsNoCause, FactFacts DEF ProcessingInv, CauseIsReal, TypeOK
      <4>2. CASE UNCHANGED <<status, cause>> /\ status[e] = "CLOSED"
        <5>1. \A x \in Event : status[x] \notin {"none", "CLOSED"} => cause[x] # f /\ x # f
          BY <4>2, FactFacts DEF ProcessingInv, CauseIsReal
        <5>. QED BY <2>1, <3>1, <4>2, <5>1, FactFacts DEF ProcessingInv, CauseIsReal, TypeOK
      <4>3. CASE Moved(e, "RECONCILING", f)
        <5>1. /\ status'[e] = "RECONCILING" /\ e \in Event
              /\ \A x \in Event \ {e} : status'[x] = status[x] /\ cause'[x] = cause[x]
              /\ cause'[e] = f \/ (status[e] = "RECONCILING" /\ cause'[e] = cause[e])
          BY <4>3, FactFacts DEF Moved, TypeOK
        <5>2. \A x \in Event \ {e} : status[x] # "none" => cause[x] # f /\ x # f
          BY FactFacts DEF ProcessingInv, CauseIsReal
        <5>3. ASSUME NEW x \in Event \ {e}, status'[x] # "none"
              PROVE  cause'[x] \in Fact \ {f} /\ x # f /\ stage'[x] = stage[x]
                     /\ stage'[cause'[x]] = stage[cause[x]]
          BY <3>1, <5>1, <5>2, <5>3, FactFacts DEF TypeOK
        <5>4. stage'[cause'[e]] = "RECONCILING" \/ digest'[cause'[e]] = "pause"
          BY <2>1, <3>1, <5>1 DEF ProcessingInv, CauseIsReal, TypeOK
        <5>. QED BY <2>1, <5>1, <5>3, <5>4 DEF ProcessingInv, CauseIsReal
      <4>. QED BY <3>2, <4>1, <4>2, <4>3
    <3>. QED BY <3>4, <3>5, <3>6 DEF ProcessingInv
  <2>. QED BY <2>2, <2>3, <2>4, AttemptAssumption
<1>. QED BY <1>1, <1>2

LEMMA ProcessingStep ==
  ASSUME TypeOK, ProcessingInv, [Next]_vars
  PROVE  ProcessingInv'
<1>1. ASSUME NEW f \in Fact, Arrive(f) PROVE ProcessingInv'
  <2>1. /\ stage[f] = "absent" /\ stage' = [stage EXCEPT ![f] = "applied"]
        /\ UNCHANGED <<digest, attempts, status, cause>>
        /\ f \in Result => Bound(f)
    BY <1>1 DEF Arrive, executionVars
  <2>2. \A g \in Fact : Bound(g)' <=> Bound(g)
    BY <2>1 DEF Bound
  <2>3. StageIsTrue' /\ SetAsideIsEarned'
    BY <2>1, <2>2, AttemptAssumption DEF ProcessingInv, StageIsTrue, SetAsideIsEarned, TypeOK
  <2>4. CauseIsReal'
    BY <2>1, FactFacts DEF ProcessingInv, CauseIsReal, TypeOK
  <2>. QED BY <2>3, <2>4 DEF ProcessingInv
<1>2. ASSUME UNCHANGED <<stage, digest, attempts, status, cause>> PROVE ProcessingInv'
  BY <1>2 DEF ProcessingInv, StageIsTrue, SetAsideIsEarned, CauseIsReal, Bound
<1>3. ASSUME NEW f \in Fact, BecomesDue(f) \/ LeaseRunsOut(f) PROVE ProcessingInv'
  BY <1>2, <1>3 DEF BecomesDue, LeaseRunsOut, executionVars
<1>4. ASSUME NEW w \in Worker, Claim(w) \/ Abandon(w) PROVE ProcessingInv'
  BY <1>2, <1>4 DEF Claim, Abandon, executionVars
<1>5. CASE UNCHANGED vars
  BY <1>2, <1>5 DEF vars, executionVars
<1>6. ASSUME NEW w \in Worker, NEW f \in Fact, Process(w, f) PROVE ProcessingInv'
  BY <1>6, ApplyStep, DeferStep, PostponeStep, ConsumeStep, FailureStep DEF Process
<1>. QED BY <1>1, <1>3, <1>4, <1>5, <1>6 DEF Next, Work

(* Facts, what was decided about them and the executions they moved agree  *)
(* after every transaction.                                                *)
THEOREM Processing == Spec => []ProcessingInv
<1>1. Init => ProcessingInv
  BY FactFacts, AttemptAssumption DEF Init, ProcessingInv, StageIsTrue, SetAsideIsEarned,
     CauseIsReal, Bound
<1>. QED BY <1>1, ProcessingStep, Typing, PTL DEF Spec

-----------------------------------------------------------------------------
(* The properties.                                                         *)

(* An execution and the fact it names as its cause agree.                  *)
THEOREM Causes == Spec => []CauseIsReal
<1>1. ProcessingInv => CauseIsReal
  BY DEF ProcessingInv
<1>. QED BY <1>1, Processing, PTL

(* A fact is set aside after so many counted failures, never sooner.       *)
THEOREM Earned == Spec => []SetAsideIsEarned
<1>1. ProcessingInv => SetAsideIsEarned
  BY DEF ProcessingInv
<1>. QED BY <1>1, Processing, PTL

(* How a step may move an execution: a fact of its own moves it on from    *)
(* what is not closed, and an event opens one.                             *)
LEMMA HowExecutionsMove ==
  ASSUME TypeOK, ProcessingInv, [Next]_vars
  PROVE  \/ UNCHANGED <<status, cause, duties>>
         \/ \E f \in Fact, to \in Status :
              /\ Moved(Of[f], to, f) /\ status[Of[f]] # "none" /\ to # "none"
              /\ duties' = duties \/ (duties' = duties \cup {f} /\ to = "RUNNING")
         \/ \E e \in Event :
              /\ status[e] = "none" /\ status' = [status EXCEPT ![e] = "CREATED"]
              /\ cause' = [cause EXCEPT ![e] = e] /\ UNCHANGED duties
<1>. USE DEF executionVars
<1>1. ASSUME NEW w \in Worker, NEW f \in Fact, Apply(w, f)
      PROVE  \E to \in Status :
              /\ Moved(Of[f], to, f) /\ status[Of[f]] # "none" /\ to # "none"
              /\ duties' = duties \/ (duties' = duties \cup {f} /\ to = "RUNNING")
  <2>1. PICK d \in MayDecide[f] \ {"defer"} : Effect(f, d)
    BY <1>1 DEF Apply
  <2>2. /\ Target(d) \in Status /\ Moved(Of[f], Target(d), f) /\ Target(d) # "none"
        /\ duties' = duties \/ (duties' = duties \cup {f} /\ Target(d) = "RUNNING")
    BY <2>1, EffectMoves DEF Target
  <2>. QED BY <1>1, <2>2 DEF Apply, Bound
<1>2. ASSUME NEW w \in Worker, NEW f \in Fact, Defer(w, f)
      PROVE  Moved(Of[f], "HOLD", f) /\ status[Of[f]] # "none" /\ UNCHANGED duties
  BY <1>2, TransitionMoves, FactFacts DEF Defer, Status, Bound
<1>3. ASSUME NEW w \in Worker, NEW f \in Fact, Postpone(w, f)
      PROVE  \/ UNCHANGED <<status, cause, duties>>
             \/ /\ f \in Event /\ status[f] = "none" /\ UNCHANGED duties
                /\ status' = [status EXCEPT ![f] = "CREATED"] /\ cause' = [cause EXCEPT ![f] = f]
  <2>1. stage[f] = "applied" /\ ~Bound(f)
    BY <1>3 DEF Postpone, Holds
  <2>2. f \in Event /\ status[f] = "none"
    BY <2>1, FactFacts DEF ProcessingInv, StageIsTrue, Bound, Fact
  <2>. QED BY <1>3, <2>2 DEF Postpone
<1>4. ASSUME NEW w \in Worker, NEW f \in Fact, Consume(w, f)
      PROVE  UNCHANGED <<status, cause, duties>>
  BY <1>4 DEF Consume
<1>5. ASSUME NEW w \in Worker, NEW f \in Fact, RecordFailure(w, f)
      PROVE  /\ UNCHANGED duties
             /\ \/ UNCHANGED <<status, cause>>
                \/ Moved(Of[f], "RECONCILING", f) /\ status[Of[f]] # "none"
  BY <1>5, TransitionMoves, FactFacts DEF RecordFailure, GiveUp, Status, Bound
<1>6. ASSUME NEW f \in Fact, Arrive(f) \/ BecomesDue(f) \/ LeaseRunsOut(f)
      PROVE  UNCHANGED <<status, cause, duties>>
  BY <1>6 DEF Arrive, BecomesDue, LeaseRunsOut
<1>7. ASSUME NEW w \in Worker, Claim(w) \/ Abandon(w)
      PROVE  UNCHANGED <<status, cause, duties>>
  BY <1>7 DEF Claim, Abandon
<1>8. CASE UNCHANGED vars
  BY <1>8 DEF vars
<1>9. {"HOLD", "RECONCILING"} \subseteq Status
  BY DEF Status
<1>. QED BY <1>1, <1>2, <1>3, <1>4, <1>5, <1>6, <1>7, <1>8, <1>9 DEF Next, Work, Process

(* A closed execution stands, and nothing is asked on its account.         *)
THEOREM Closing == Spec => ClosedStands
<1>1. ASSUME TypeOK, ProcessingInv, [Next]_vars, NEW e \in Event, status[e] = "CLOSED"
      PROVE  /\ status'[e] = "CLOSED" /\ cause'[e] = cause[e]
             /\ \A f \in duties' \ duties : Of[f] # e
  <2>1. CASE UNCHANGED <<status, cause, duties>>
    BY <1>1, <2>1
  <2>2. ASSUME NEW f \in Fact, NEW to \in Status, Moved(Of[f], to, f),
               duties' = duties \/ (duties' = duties \cup {f} /\ to = "RUNNING")
        PROVE  /\ status'[e] = "CLOSED" /\ cause'[e] = cause[e]
               /\ \A g \in duties' \ duties : Of[g] # e
    <3>1. CASE Of[f] = e
      BY <1>1, <2>2, <3>1 DEF Moved, TypeOK
    <3>2. CASE Of[f] # e
      BY <1>1, <2>2, <3>2 DEF Moved, TypeOK
    <3>. QED BY <3>1, <3>2
  <2>3. ASSUME NEW x \in Event, status[x] = "none", UNCHANGED duties,
               status' = [status EXCEPT ![x] = "CREATED"], cause' = [cause EXCEPT ![x] = x]
        PROVE  status'[e] = "CLOSED" /\ cause'[e] = cause[e]
    BY <1>1, <2>3 DEF TypeOK
  <2>. QED BY <1>1, <2>1, <2>2, <2>3, HowExecutionsMove
<1>2. TypeOK /\ ProcessingInv /\ [Next]_vars =>
        [\A e \in Event : status[e] = "CLOSED" =>
           /\ status'[e] = "CLOSED" /\ cause'[e] = cause[e]
           /\ \A f \in duties' \ duties : Of[f] # e]_vars
  BY <1>1
<1>. QED BY <1>2, Typing, Processing, PTL DEF Spec, ClosedStands

-----------------------------------------------------------------------------
(* FactProcessor implements Decisions.                                     *)

heard == {f \in Fact : stage[f] # "absent"}
Shown == <<heard, decided, life, duties>>

LEMMA SameFact == Promise!Fact = Fact
  BY DEF Promise!Fact, Fact

(* A move of an execution that is open, or complete again of a closed one. *)
LEMMA MovedLife ==
  ASSUME TypeOK, NEW e \in Event, NEW f \in Fact, NEW to \in Status \ {"none", "CREATED"},
         Moved(e, to, f), status[e] # "none"
  PROVE  /\ life[e] # "none" /\ (to # "CLOSED" => life[e] = "open")
         /\ life' = IF to = "CLOSED" THEN [life EXCEPT ![e] = "closed"] ELSE life
<1>1. status' = [status EXCEPT ![e] = to] /\ (status[e] = "CLOSED" => to = "CLOSED")
  BY DEF Moved
<1>2. \A x \in Event : life[x] = IF status[x] = "none" THEN "none"
                                 ELSE IF status[x] = "CLOSED" THEN "closed" ELSE "open"
  BY DEF life
<1>3. life' = [x \in Event |-> IF status'[x] = "none" THEN "none"
                              ELSE IF status'[x] = "CLOSED" THEN "closed" ELSE "open"]
  BY DEF life
<1>4. life \in [Event -> {"none", "open", "closed"}]
  BY DEF life
<1>. QED BY <1>1, <1>2, <1>3, <1>4 DEF TypeOK

(* What is applied is heard and not decided.                               *)
LEMMA AppliedIsUndecided ==
  ASSUME TypeOK, ProcessingInv, NEW f \in Fact, stage[f] = "applied"
  PROVE  Promise!Undecided(f)
<1>1. decided[f] = digest[f] /\ digest[f] = "none"
  BY DEF decided, ProcessingInv, StageIsTrue
<1>. QED BY <1>1 DEF Promise!Undecided

(* A fact leaves the queue by one decision.                                *)
LEMMA FactDecided ==
  ASSUME TypeOK, NEW f \in Fact, stage[f] = "applied",
         NEW s \in Stage \ {"absent", "applied"}, stage' = [stage EXCEPT ![f] = s],
         NEW d, digest' = [digest EXCEPT ![f] = d]
  PROVE  /\ UNCHANGED heard
         /\ decided' = [decided EXCEPT ![f] = IF s = "published" THEN d ELSE "dropped"]
<1>1. UNCHANGED heard
  BY DEF heard, TypeOK
<1>2. decided' = [g \in Fact |-> IF stage'[g] \in {"IGNORED", "RECONCILING"} THEN "dropped"
                                ELSE digest'[g]]
  BY DEF decided
<1>3. \A g \in Fact : decided'[g] = [decided EXCEPT ![f] =
          IF s = "published" THEN d ELSE "dropped"][g]
  BY <1>2 DEF decided, TypeOK, Stage
<1>. QED BY <1>1, <1>2, <1>3 DEF decided

LEMMA ApplyPromise ==
  ASSUME TypeOK, ProcessingInv, NEW w \in Worker, NEW f \in Fact, Apply(w, f)
  PROVE  Promise!Act(f) \/ Promise!Complete(f)
<1>1. PICK d \in MayDecide[f] \ {"defer"} : Effect(f, d) /\ digest' = [digest EXCEPT ![f] = d]
  BY DEF Apply
<1>2. /\ stage[f] = "applied" /\ Bound(f) /\ stage' = [stage EXCEPT ![f] = "published"]
  BY DEF Apply, Holds
<1>3. /\ d \in {"create", "wait", "pause", "complete"}
      /\ Moved(Of[f], Target(d), f)
      /\ duties' = IF d = "create" THEN duties \cup {f} ELSE duties
  BY <1>1, EffectMoves
<1>4. Target(d) \in Status \ {"none", "CREATED"} /\ (Target(d) = "CLOSED" <=> d = "complete")
  BY <1>3 DEF Target, Status
<1>5. /\ life[Of[f]] # "none" /\ (d # "complete" => life[Of[f]] = "open")
      /\ life' = IF d = "complete" THEN [life EXCEPT ![Of[f]] = "closed"] ELSE life
  BY <1>2, <1>3, <1>4, MovedLife, FactFacts DEF Bound
<1>6. UNCHANGED heard /\ decided' = [decided EXCEPT ![f] = d]
  BY <1>1, <1>2, FactDecided DEF Stage
<1>7. Promise!Undecided(f)
  BY <1>2, AppliedIsUndecided
<1>. QED BY <1>3, <1>5, <1>6, <1>7 DEF Promise!Act, Promise!Complete, Promise!Decides, heard

LEMMA PostponePromise ==
  ASSUME TypeOK, ProcessingInv, NEW w \in Worker, NEW f \in Fact, Postpone(w, f)
  PROVE  (f \in Event /\ Promise!Open(f)) \/ UNCHANGED Shown
<1>1. stage[f] = "applied" /\ ~Bound(f) /\ UNCHANGED <<stage, digest, duties>>
  BY DEF Postpone, Holds
<1>2. f \in Event /\ status[f] = "none"
  BY <1>1, FactFacts DEF ProcessingInv, StageIsTrue, Bound, Fact
<1>3. UNCHANGED <<heard, decided>>
  BY <1>1 DEF heard, decided
<1>4. CASE UNCHANGED executionVars
  BY <1>1, <1>3, <1>4 DEF Shown, life, executionVars
<1>5. CASE status' = [status EXCEPT ![f] = "CREATED"]
  <2>1. life[f] = "none" /\ life' = [life EXCEPT ![f] = "open"]
    <3>1. life \in [Event -> {"none", "open", "closed"}] /\ life[f] = "none"
      BY <1>2 DEF life
    <3>2. life' = [x \in Event |-> IF status'[x] = "none" THEN "none"
                                  ELSE IF status'[x] = "CLOSED" THEN "closed" ELSE "open"]
      BY DEF life
    <3>3. \A x \in Event : life[x] = IF status[x] = "none" THEN "none"
                                     ELSE IF status[x] = "CLOSED" THEN "closed" ELSE "open"
      BY DEF life
    <3>. QED BY <1>2, <1>5, <3>1, <3>2, <3>3 DEF TypeOK
  <2>. QED BY <1>1, <1>2, <1>3, <2>1, AppliedIsUndecided DEF Promise!Open, heard
<1>. QED BY <1>4, <1>5 DEF Postpone

LEMMA ConsumePromise ==
  ASSUME TypeOK, ProcessingInv, NEW w \in Worker, NEW f \in Fact, Consume(w, f)
  PROVE  (f \in Event /\ Promise!Consume(f)) \/ Promise!Drop(f)
<1>1. stage[f] = "applied" /\ ~Bound(f) /\ UNCHANGED <<status, duties>>
  BY DEF Consume, Holds, executionVars
<1>2. f \in Event /\ status[f] = "none"
  BY <1>1, FactFacts DEF ProcessingInv, StageIsTrue, Bound, Fact
<1>3. UNCHANGED life /\ life[f] = "none" /\ Promise!Undecided(f)
  BY <1>1, <1>2, AppliedIsUndecided DEF life
<1>4. CASE /\ stage' = [stage EXCEPT ![f] = "published"]
           /\ digest' = [digest EXCEPT ![f] = "consumed"]
  <2>1. UNCHANGED heard /\ decided' = [decided EXCEPT ![f] = "consumed"]
    BY <1>1, <1>4, FactDecided DEF Stage
  <2>. QED BY <1>1, <1>2, <1>3, <2>1 DEF Promise!Consume, Promise!Decides, heard
<1>5. ASSUME NEW set \in {"IGNORED", "RECONCILING"}, stage' = [stage EXCEPT ![f] = set],
             UNCHANGED digest
      PROVE  Promise!Drop(f)
  <2>1. digest' = [digest EXCEPT ![f] = digest[f]]
    BY <1>5 DEF TypeOK
  <2>2. UNCHANGED heard /\ decided' = [decided EXCEPT ![f] = "dropped"]
    BY <1>1, <1>5, <2>1, FactDecided DEF Stage
  <2>. QED BY <1>1, <1>3, <2>2 DEF Promise!Drop, Promise!Decides, heard
<1>. QED BY <1>4, <1>5 DEF Consume

LEMMA FailurePromise ==
  ASSUME TypeOK, ProcessingInv, NEW w \in Worker, NEW f \in Fact, RecordFailure(w, f)
  PROVE  Promise!Drop(f) \/ UNCHANGED Shown
<1>1. UNCHANGED <<digest, duties>>
  BY DEF RecordFailure
<1>2. CASE UNCHANGED <<stage, status>>
  BY <1>1, <1>2 DEF Shown, heard, decided, life
<1>3. CASE Holds(w, f) /\ GiveUp(f)
  <2>1. stage[f] = "applied" /\ stage' = [stage EXCEPT ![f] = "RECONCILING"]
        /\ digest' = [digest EXCEPT ![f] = digest[f]]
    BY <1>1, <1>3 DEF Holds, GiveUp, TypeOK
  <2>2. UNCHANGED heard /\ decided' = [decided EXCEPT ![f] = "dropped"]
    <3>1. "RECONCILING" \in Stage \ {"absent", "applied"} /\ "RECONCILING" # "published"
      BY DEF Stage
    <3>. QED BY <2>1, <3>1, FactDecided
  <2>3. UNCHANGED life
    <3>1. CASE UNCHANGED status
      BY <3>1 DEF life
    <3>2. CASE Transition(Of[f], "RECONCILING", f) /\ Bound(f)
      BY <3>2, TransitionMoves, MovedLife, FactFacts DEF Bound, Status
    <3>. QED BY <1>3, <3>1, <3>2 DEF GiveUp, executionVars
  <2>. QED BY <1>1, <2>1, <2>2, <2>3, AppliedIsUndecided DEF Promise!Drop, Promise!Decides, heard
<1>. QED BY <1>2, <1>3 DEF RecordFailure, executionVars

LEMMA PromiseStep ==
  ASSUME TypeOK, ProcessingInv, [Next]_vars
  PROVE  [Promise!Next]_(Promise!vars)
<1>. SUFFICES Promise!Next \/ UNCHANGED Shown
  BY DEF Promise!vars, Shown, heard
<1>1. ASSUME NEW f \in Fact, Arrive(f) PROVE Promise!Hear(f)
  <2>1. f \notin heard /\ heard' = heard \cup {f}
    BY <1>1 DEF Arrive, heard, TypeOK
  <2>2. UNCHANGED decided
    <3>1. \A g \in Fact : stage'[g] \in {"IGNORED", "RECONCILING"}
                         <=> stage[g] \in {"IGNORED", "RECONCILING"}
      BY <1>1 DEF Arrive, TypeOK
    <3>. QED BY <1>1, <3>1 DEF Arrive, decided
  <2>3. UNCHANGED <<life, duties>>
    BY <1>1 DEF Arrive, life, executionVars
  <2>. QED BY <2>1, <2>2, <2>3 DEF Promise!Hear, heard
<1>2. ASSUME UNCHANGED <<stage, digest, status, duties>> PROVE UNCHANGED Shown
  BY <1>2 DEF Shown, heard, decided, life
<1>3. ASSUME NEW f \in Fact, BecomesDue(f) \/ LeaseRunsOut(f) PROVE UNCHANGED Shown
  BY <1>2, <1>3 DEF BecomesDue, LeaseRunsOut, executionVars
<1>4. ASSUME NEW w \in Worker, Claim(w) \/ Abandon(w) PROVE UNCHANGED Shown
  BY <1>2, <1>4 DEF Claim, Abandon, executionVars
<1>5. CASE UNCHANGED vars
  BY <1>2, <1>5 DEF vars, executionVars
<1>6. ASSUME NEW w \in Worker, NEW f \in Fact, Defer(w, f) PROVE UNCHANGED Shown
  <2>1. UNCHANGED <<stage, digest, duties>> /\ Bound(f)
    BY <1>6 DEF Defer
  <2>2. UNCHANGED life
    BY <1>6, <2>1, TransitionMoves, MovedLife, FactFacts DEF Defer, Bound, Status
  <2>. QED BY <2>1, <2>2 DEF Shown, heard, decided
<1>7. ASSUME NEW w \in Worker, NEW f \in Fact, Process(w, f)
      PROVE  Promise!Next \/ UNCHANGED Shown
  BY <1>6, <1>7, ApplyPromise, PostponePromise, ConsumePromise, FailurePromise, SameFact
     DEF Process, Promise!Next
<1>. QED BY <1>1, <1>3, <1>4, <1>5, <1>7, SameFact DEF Next, Work, Promise!Next

(* Workers, claims, retries and crashes show only as one decision of each  *)
(* fact, with all it does, or as a fact dropped.                           *)
THEOREM ProcessorKeepsPromise == Spec => KeepsPromise
<1>1. Init => Promise!Init
  BY SameFact DEF Init, Promise!Init, decided, life
<1>2. TypeOK /\ ProcessingInv /\ [Next]_vars => [Promise!Next]_(Promise!vars)
  BY PromiseStep
<1>. QED BY <1>1, <1>2, Typing, Processing, PTL DEF Spec, KeepsPromise, Promise!Spec
=============================================================================
