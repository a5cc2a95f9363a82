------------------------ MODULE TransportTaskProofs ------------------------
(* What holds of TransportTask for all members, reports, workers, leases   *)
(* and budgets: its typing, and what its rows say of members and outcome.  *)
EXTENDS TransportTask, FiniteSetTheorems, TLAPS

-----------------------------------------------------------------------------
(* Typing.                                                                 *)

LEMMA InitTyped == Init => TypeOK
<1>. SUFFICES ASSUME Init PROVE TypeOK
  OBVIOUS
<1>1. status \in Status /\ reason \in Reason /\ claim \in [by : Worker \cup {NoWorker}, until : Nat]
  BY DEF Init, Status, Reason, NoClaim
<1>2. /\ memberStatus \in [Member -> {"PENDING", "SUCCEEDED", "FAILED"}]
      /\ position \in [Member -> Known \cup {"none", "unknown"}]
  BY DEF Init
<1>3. evidence \in [Report -> {"none", "ORPHAN", "PENDING", "APPLIED", "CONFLICT"}]
  BY DEF Init
<1>4. /\ pc \in [Worker -> {"idle", "claimed", "ready", "waiting", "answered"}]
      /\ attempt \in [Worker -> Nat] /\ answer \in [Worker -> Answer]
  BY DEF Init, Answer
<1>. QED BY <1>1, <1>2, <1>3, <1>4 DEF Init, TypeOK

(* A claim taken, a fence passed or missed: the queue side of a worker.    *)
LEMMA QueueTyped ==
  ASSUME NEW w \in Worker, TypeOK, Claim(w) \/ Fence(w) \/ FenceMiss(w)
  PROVE  TypeOK'
<1>1. CASE Claim(w)
  BY <1>1, NumberAssumption
  DEF TypeOK, Claim, outcomeVars, memberVars, Message
<1>2. CASE Fence(w)
  BY <1>2 DEF TypeOK, Fence, outcomeVars, memberVars, Message
<1>3. CASE FenceMiss(w)
  BY <1>3 DEF TypeOK, FenceMiss, ClearClaim, NoClaim, Return, Answer, outcomeVars, memberVars, Message
<1>. QED BY <1>1, <1>2, <1>3

(* The send and its answer.                                                *)
LEMMA SendTyped ==
  ASSUME NEW w \in Worker, TypeOK,
         Send(w) \/ NotSent(w) \/ Receive(w) \/ NoTrustedAnswer(w) \/ Crash(w)
  PROVE  TypeOK'
<1>1. CASE Send(w)
  BY <1>1 DEF TypeOK, Send, outcomeVars, submitVars, memberVars, Message
<1>2. CASE NotSent(w)
  BY <1>2 DEF TypeOK, NotSent, Answered, Answer, outcomeVars, submitVars, memberVars, Message
<1>3. CASE Receive(w)
  <2>1. PICK m \in net : m.type # "SUBMIT" /\ Answered(w, m.type)
    BY <1>3 DEF Receive
  <2>2. m.type \in Answer
    BY <2>1 DEF TypeOK, Message, Answer
  <2>. QED BY <1>3, <2>1, <2>2
       DEF TypeOK, Receive, Answered, HangUp, outcomeVars, submitVars, memberVars
<1>4. CASE NoTrustedAnswer(w)
  BY <1>4 DEF TypeOK, NoTrustedAnswer, Answered, HangUp, Answer, outcomeVars, submitVars, memberVars
<1>5. CASE Crash(w)
  BY <1>5 DEF TypeOK, Crash, Return, HangUp, Answer, outcomeVars, submitVars, memberVars
<1>. QED BY <1>1, <1>2, <1>3, <1>4, <1>5

LEMMA RefusalWritten ==
  ASSUME NEW w \in Worker, TypeOK, WriteRefusal(w)
  PROVE  status' \in Status /\ reason' \in Reason /\ version' \in Nat
<1>1. CASE SetOutcome("REJECTED", "WMS_REJECTED")
  BY <1>1 DEF TypeOK, SetOutcome, Status, Reason, Terminal
<1>2. CASE SetOutcome("RECONCILING", "SUBMIT_CONFLICT")
  BY <1>2 DEF TypeOK, SetOutcome, Status, Reason
<1>. QED BY <1>1, <1>2 DEF WriteRefusal

LEMMA UnsentWritten ==
  ASSUME NEW w \in Worker, TypeOK, WriteUnsent(w)
  PROVE  status' \in Status /\ reason' \in Reason /\ version' \in Nat /\ nextSubmit' \in Nat
<1>1. CASE SetOutcome("REJECTED", "RETRY_EXHAUSTED") /\ UNCHANGED nextSubmit
  BY <1>1 DEF TypeOK, SetOutcome, Status, Reason, Terminal
<1>2. CASE reason' = "none" /\ nextSubmit' = now + RetryDelay /\ UNCHANGED <<status, version>>
  BY <1>2, NumberAssumption DEF TypeOK, Reason
<1>. QED BY <1>1, <1>2 DEF WriteUnsent

LEMMA DoubtWritten ==
  ASSUME TypeOK, MarkUnknown
  PROVE  /\ status' \in Status /\ reason' \in Reason /\ sendStarted' \in BOOLEAN
         /\ nextSubmit' \in Nat /\ claim' \in [by : Worker \cup {NoWorker}, until : Nat]
         /\ version' \in Nat /\ revision' \in Nat /\ attempts' \in Nat
<1>1. status' \in Status /\ reason' \in Reason /\ sendStarted' \in BOOLEAN
  BY DEF MarkUnknown, Status, Reason
<1>2. nextSubmit' \in Nat
  BY NumberAssumption DEF TypeOK, MarkUnknown
<1>3. claim' \in [by : Worker \cup {NoWorker}, until : Nat]
  BY DEF MarkUnknown, ClearClaim, NoClaim
<1>. QED BY <1>1, <1>2, <1>3 DEF TypeOK, MarkUnknown

(* The write-back.                                                         *)
LEMMA WriteTyped ==
  ASSUME NEW w \in Worker, TypeOK,
         WriteAck(w) \/ WriteRefusal(w) \/ WriteUnsent(w) \/ WriteDoubt(w) \/ IgnoreAnswer(w)
  PROVE  TypeOK'
<1>. USE DEF TypeOK, Return, Answer, Message, memberVars, NoClaim, ClearClaim, Status, Reason, Terminal
<1>1. CASE WriteAck(w)
  BY <1>1 DEF WriteAck, ReleaseIfLeased
<1>2. CASE WriteRefusal(w)
  <2>1. status' \in Status /\ reason' \in Reason /\ version' \in Nat
    BY <1>2, RefusalWritten
  <2>2. claim' \in [by : Worker \cup {NoWorker}, until : Nat]
    BY <1>2 DEF WriteRefusal, ReleaseIfLeased
  <2>. HIDE DEF Status, Reason, Terminal
  <2>. QED BY <1>2, <2>1, <2>2 DEF WriteRefusal
<1>3. CASE WriteUnsent(w)
  <2>1. /\ status' \in Status /\ reason' \in Reason /\ version' \in Nat
        /\ nextSubmit' \in Nat
    BY <1>3, UnsentWritten
  <2>. HIDE DEF Status, Reason, Terminal
  <2>. QED BY <1>3, <2>1 DEF WriteUnsent
<1>4. CASE WriteDoubt(w)
  <2>. HIDE DEF Status, Reason, Terminal
  <2>. QED BY <1>4, DoubtWritten DEF WriteDoubt
<1>5. CASE IgnoreAnswer(w)
  BY <1>5 DEF IgnoreAnswer, outcomeVars, submitVars
<1>. QED BY <1>1, <1>2, <1>3, <1>4, <1>5

(* Creation, the scan for lost sends, the withdrawal and the clock.        *)
LEMMA RowTyped ==
  ASSUME TypeOK, Create \/ Reconcile \/ Withdraw \/ Tick
  PROVE  TypeOK'
<1>. USE DEF TypeOK, Message, memberVars, workerVars, submitVars, Status, Reason, Terminal
<1>1. CASE Create
  BY <1>1 DEF Create
<1>2. CASE Reconcile
  <2>. HIDE DEF Status, Reason, Terminal
  <2>. QED BY <1>2, DoubtWritten DEF Reconcile
<1>3. CASE Withdraw
  BY <1>3 DEF Withdraw, SetOutcome
<1>4. CASE Tick
  BY <1>4 DEF Tick, outcomeVars
<1>. QED BY <1>1, <1>2, <1>3, <1>4

LEMMA ConflictTyped ==
  ASSUME NEW e \in Report, TypeOK, Conflict(e)
  PROVE  TypeOK'
  BY DEF TypeOK, Conflict, SetOutcome, memberVars, workerVars, submitVars, Status, Reason, Terminal, Message

LEMMA NothingTyped ==
  ASSUME NEW e \in Report, TypeOK, ApplyNothing(e)
  PROVE  TypeOK'
  BY DEF TypeOK, ApplyNothing, Applied, outcomeVars, memberVars, workerVars, submitVars, Message

LEMMA PositionTyped ==
  ASSUME NEW e \in PositionReport, TypeOK, ProcessPosition(e)
  PROVE  TypeOK'
<1>0. e \in Report /\ e.member \in Member
  BY ReportAssumption DEF Report
<1>1. CASE ApplyNothing(e)
  BY <1>0, <1>1, NothingTyped
<1>2. CASE Conflict(e)
  BY <1>0, <1>2, ConflictTyped
<1>3. CASE /\ Applied(e)
           /\ \/ AcceptPositionFact /\ UNCHANGED position
              \/ AcceptPositionFact /\ position' = [position EXCEPT ![e.member] = "target"]
              \/ /\ SetOutcome("RECONCILING", "POSITION_UNKNOWN")
                 /\ position' = [position EXCEPT ![e.member] = "unknown"]
                 /\ UNCHANGED submitVars
           /\ UNCHANGED <<now, revision, memberStatus, workerVars, net, decision>>
  BY <1>0, <1>3 DEF TypeOK, Applied, AcceptPositionFact, SetOutcome, ClearClaim, NoClaim, Known,
     workerVars, submitVars, Status, Reason, Terminal, Message
<1>. QED BY <1>1, <1>2, <1>3 DEF ProcessPosition

LEMMA ResultTyped ==
  ASSUME NEW e \in ResultReport, TypeOK, ProcessResult(e)
  PROVE  TypeOK'
<1>0. /\ e \in Report /\ e.revision \in Nat
      /\ \A m \in Member : e.of[m].status \in {"SUCCEEDED", "FAILED"}
                           /\ e.of[m].position \in Known \cup {"unknown"}
  BY ReportAssumption DEF Report, MemberResult, Known
<1>1. CASE ApplyNothing(e)
  BY <1>0, <1>1, NothingTyped
<1>2. CASE Conflict(e)
  BY <1>0, <1>2, ConflictTyped
<1>3. CASE /\ revision' = e.revision
           /\ Applied(e)
           /\ UNCHANGED <<now, status, reason, version, submitVars, memberVars, workerVars, net, decision>>
  BY <1>0, <1>3 DEF TypeOK, Applied, memberVars, workerVars, submitVars, Message
<1>4. CASE ApplyResult(e)
  <2>1. memberStatus' \in [Member -> {"PENDING", "SUCCEEDED", "FAILED"}]
    BY <1>0, <1>4 DEF ApplyResult
  <2>2. position' \in [Member -> Known \cup {"none", "unknown"}]
    BY <1>0, <1>4 DEF ApplyResult
  <2>3. status' \in Status /\ reason' \in Reason /\ version' \in Nat /\ revision' \in Nat
    BY <1>0, <1>4 DEF ApplyResult, SetOutcome, TypeOK, Status, Reason, Terminal
  <2>4. evidence' \in [Report -> {"none", "ORPHAN", "PENDING", "APPLIED", "CONFLICT"}]
    BY <1>0, <1>4 DEF ApplyResult, Applied, TypeOK
  <2>. QED BY <1>4, <2>1, <2>2, <2>3, <2>4 DEF ApplyResult, TypeOK, workerVars, submitVars, Message
<1>. QED BY <1>1, <1>2, <1>3, <1>4 DEF ProcessResult

LEMMA ConfirmTyped ==
  ASSUME NEW m \in Scannable, TypeOK, Scan(m) \/ Manual(m)
  PROVE  TypeOK'
<1>. m \in Member
  BY MemberAssumption
<1>. USE DEF TypeOK, Delivered, Confirm, SetOutcome, ClearClaim, NoClaim, workerVars,
         Status, Reason, Terminal, Known, Message
<1>1. CASE Scan(m)
  BY <1>1 DEF Scan
<1>2. CASE Manual(m)
  BY <1>2 DEF Manual
<1>. QED BY <1>1, <1>2

LEMMA RecordTyped ==
  ASSUME NEW e \in Report, TypeOK, RecordCallback(e)
  PROVE  TypeOK'
  BY DEF TypeOK, RecordCallback, outcomeVars, memberVars, workerVars, submitVars, Message

LEMMA DecideTyped ==
  ASSUME NEW m \in net, TypeOK, Decide(m)
  PROVE  TypeOK'
<1>1. m.attempt \in Nat
  BY DEF TypeOK, Message
<1>2. \A type \in {"ACK", "REJECTED", "CONFLICT", "UNAVAILABLE"} : Reply(m, type) => net' \subseteq Message
  BY <1>1 DEF TypeOK, Reply, Message
<1>3. net' \subseteq Message /\ decision' \in {"none", "accepted", "rejected"}
  BY <1>2 DEF TypeOK, Decide
<1>. QED BY <1>3 DEF TypeOK, Decide, outcomeVars, memberVars, workerVars, submitVars

(* Every step keeps the type of every variable.                            *)
LEMMA StepTyped ==
  ASSUME TypeOK, [Next]_vars
  PROVE  TypeOK'
<1>1. CASE Next
  <2>1. ASSUME NEW w \in Worker, Job(w) PROVE TypeOK'
    BY <2>1, QueueTyped, SendTyped, WriteTyped DEF Job
  <2>2. ASSUME NEW e \in Report, RecordCallback(e) \/ Process(e) PROVE TypeOK'
    BY <2>2, RecordTyped, PositionTyped, ResultTyped DEF Process
  <2>. QED BY <1>1, <2>1, <2>2, RowTyped, ConfirmTyped, DecideTyped DEF Next
<1>2. CASE UNCHANGED vars
  BY <1>2 DEF TypeOK, vars, outcomeVars, submitVars, memberVars, workerVars
<1>. QED BY <1>1, <1>2

(* Every variable keeps its type: in particular no callback, scan or late  *)
(* answer writes a status or a reason the code does not know.              *)
THEOREM Typing == Spec => []TypeOK
<1>1. TypeOK /\ [Next]_vars => TypeOK'
  BY StepTyped
<1>. QED BY InitTyped, <1>1, PTL DEF Spec

-----------------------------------------------------------------------------
(* Members and outcome.                                                    *)

Facts == <<memberStatus, position>>

(* Applied evidence stays applied.                                         *)
LEMMA PlacementStays ==
  ASSUME NEW m \in Member, PlacementApplied(m),
         \A e \in Report : evidence[e] = "APPLIED" => evidence'[e] = "APPLIED"
  PROVE  PlacementApplied(m)'
  BY DEF PlacementApplied, Report

(* The status after a step that leaves members, success and failure alone. *)
Elsewise == \/ UNCHANGED <<status, reason>>
            \/ status' \notin {"SUCCEEDED", "FAILED"} /\ reason' # "FAILURE"
            \/ status' = "FAILED" /\ reason' = "WITHDRAWN"

LEMMA MembersKept ==
  ASSUME MembersInv, UNCHANGED Facts, Elsewise,
         \A e \in Report : evidence[e] = "APPLIED" => evidence'[e] = "APPLIED"
  PROVE  MembersInv'
<1>1. \A m \in SlotTarget : PlacementApplied(m) => PlacementApplied(m)'
  BY PlacementStays, MemberAssumption
<1>2. ElsewhereIsFailed' /\ SlotIsWitnessed' /\ FailureIsFinal'
  BY <1>1 DEF MembersInv, Facts, Elsewise, ElsewhereIsFailed, SlotIsWitnessed, FailureIsFinal
<1>3. SuccessIsWitnessed'
  BY <1>1 DEF MembersInv, Facts, Elsewise, SuccessIsWitnessed
<1>4. FailureIsLocated'
  BY DEF MembersInv, Facts, Elsewise, FailureIsLocated, FailureIsFinal
<1>. QED BY <1>2, <1>3, <1>4 DEF MembersInv

LEMMA JobLeavesMembers ==
  ASSUME NEW w \in Worker, Job(w)
  PROVE  UNCHANGED Facts /\ UNCHANGED evidence /\ Elsewise
<1>1. UNCHANGED Facts /\ UNCHANGED evidence
  BY DEF Facts, memberVars, Job, Claim, Fence, FenceMiss, Send, NotSent, Receive, NoTrustedAnswer,
     Crash, WriteAck, WriteRefusal, WriteUnsent, WriteDoubt, IgnoreAnswer
<1>2. CASE UNCHANGED outcomeVars
  BY <1>1, <1>2 DEF Elsewise, outcomeVars
<1>3. CASE Claim(w) \/ Fence(w) \/ FenceMiss(w) \/ Send(w) \/ NotSent(w)
  BY <1>2, <1>3 DEF Claim, Fence, FenceMiss, Send, NotSent
<1>4. CASE Receive(w) \/ NoTrustedAnswer(w) \/ Crash(w) \/ IgnoreAnswer(w)
  BY <1>2, <1>4 DEF Receive, NoTrustedAnswer, Crash, IgnoreAnswer
<1>5. CASE WriteAck(w) \/ WriteRefusal(w)
  BY <1>1, <1>5 DEF Elsewise, WriteAck, WriteRefusal, SetOutcome
<1>6. CASE WriteUnsent(w)
  BY <1>1, <1>6 DEF Elsewise, WriteUnsent, SetOutcome
<1>7. CASE WriteDoubt(w)
  BY <1>1, <1>7 DEF Elsewise, WriteDoubt, MarkUnknown
<1>. QED BY <1>1, <1>3, <1>4, <1>5, <1>6, <1>7 DEF Job

LEMMA RowLeavesMembers ==
  ASSUME TypeOK, Create \/ Reconcile \/ Withdraw \/ Tick
  PROVE  /\ UNCHANGED Facts /\ Elsewise
         /\ \A e \in Report : evidence[e] = "APPLIED" => evidence'[e] = "APPLIED"
<1>1. CASE Create
  BY <1>1 DEF Facts, memberVars, Elsewise, Create
<1>2. CASE Reconcile \/ Withdraw \/ Tick
  BY <1>2 DEF Facts, memberVars, Elsewise, Reconcile, Withdraw, Tick, MarkUnknown, SetOutcome, outcomeVars
<1>. QED BY <1>1, <1>2

LEMMA ConflictLeavesMembers ==
  ASSUME NEW e \in Report, TypeOK, evidence[e] = "PENDING", Conflict(e) \/ ApplyNothing(e)
  PROVE  /\ UNCHANGED Facts /\ Elsewise
         /\ \A f \in Report : evidence[f] = "APPLIED" => evidence'[f] = "APPLIED"
  BY DEF TypeOK, Facts, memberVars, Elsewise, Conflict, ApplyNothing, Applied, SetOutcome, outcomeVars

(* A position report moves a member whose place nobody has confirmed.      *)
LEMMA PositionMembers ==
  ASSUME NEW e \in PositionReport, TypeOK, MembersInv, ProcessPosition(e)
  PROVE  MembersInv'
<1>0. e \in Report /\ e.member \in Member
  BY ReportAssumption DEF Report
<1>1. CASE Conflict(e) \/ ApplyNothing(e)
  BY <1>0, <1>1, ConflictLeavesMembers, MembersKept DEF ProcessPosition
<1>2. CASE ~(Conflict(e) \/ ApplyNothing(e))
  <2>1. /\ PositionMoves(e) /\ Applied(e) /\ UNCHANGED memberStatus /\ evidence[e] = "PENDING"
        /\ status' \notin Terminal /\ reason' # "FAILURE"
    BY <1>2 DEF ProcessPosition, PositionMoves, AcceptPositionFact, SetOutcome, Terminal, MembersInv,
       FailureIsFinal
  <2>2. \A m \in Member : position'[m] = position[m] \/ position'[m] \in {"target", "unknown"}
    BY <1>0, <1>2 DEF TypeOK, ProcessPosition
  <2>3. \A f \in Report : evidence[f] = "APPLIED" => evidence'[f] = "APPLIED"
    BY <1>0, <2>1 DEF TypeOK, Applied
  <2>4. \A m \in SlotTarget : PlacementApplied(m) => PlacementApplied(m)'
    BY <2>3, PlacementStays, MemberAssumption
  <2>. QED BY <2>1, <2>2, <2>4 DEF MembersInv, ElsewhereIsFailed, SlotIsWitnessed, FailureIsFinal,
       SuccessIsWitnessed, FailureIsLocated, Terminal
<1>. QED BY <1>1, <1>2

(* A result is applied only when no confirmed place speaks against it and  *)
(* the placements its successes need have been applied.                    *)
LEMMA ResultMembers ==
  ASSUME NEW e \in ResultReport, TypeOK, MembersInv, ProcessResult(e)
  PROVE  MembersInv'
<1>0. /\ e \in Report
      /\ \A m \in Member : /\ e.of[m].status = "SUCCEEDED" => e.of[m].position = "target"
                           /\ e.of[m].status \in {"SUCCEEDED", "FAILED"}
  BY ReportAssumption DEF Report, MemberResult
<1>1. CASE Conflict(e) \/ ApplyNothing(e)
  BY <1>0, <1>1, ConflictLeavesMembers, MembersKept DEF ProcessResult
<1>2. CASE Applied(e) /\ UNCHANGED <<now, status, reason, version, submitVars, memberVars,
                                     workerVars, net, decision>>
  <2>1. \A f \in Report : evidence[f] = "APPLIED" => evidence'[f] = "APPLIED"
    BY <1>0, <1>2 DEF TypeOK, Applied
  <2>2. UNCHANGED Facts /\ Elsewise
    BY <1>2 DEF Facts, memberVars, Elsewise
  <2>. QED BY <2>1, <2>2, MembersKept
<1>3. CASE evidence[e] = "PENDING" /\ ~Contradicts(e) /\ ~AwaitsPlacement(e) /\ ApplyResult(e)
  <2>1. /\ \A m \in Member : memberStatus'[m] = e.of[m].status /\ position'[m] = e.of[m].position
        /\ \/ ~LocatesAll(e) /\ status' = "RECONCILING" /\ reason' = "POSITION_UNKNOWN"
           \/ LocatesAll(e) /\ ~Succeeds(e) /\ status' = "FAILED" /\ reason' = "FAILURE"
           \/ Succeeds(e) /\ status' = "SUCCEEDED" /\ reason' = "none"
    BY <1>3 DEF ApplyResult, SetOutcome
  <2>2. \A f \in Report : evidence[f] = "APPLIED" => evidence'[f] = "APPLIED"
    BY <1>0, <1>3 DEF TypeOK, ApplyResult, Applied
  <2>3. \A m \in SlotTarget : e.of[m].status = "SUCCEEDED" => PlacementApplied(m)'
    BY <1>3, <2>2, PlacementStays, MemberAssumption DEF AwaitsPlacement
  <2>4. ElsewhereIsFailed' /\ FailureIsFinal' /\ FailureIsLocated'
    BY <1>0, <2>1 DEF ElsewhereIsFailed, FailureIsFinal, FailureIsLocated, LocatesAll
  <2>5. SlotIsWitnessed'
    BY <2>1, <2>3, MemberAssumption DEF SlotIsWitnessed
  <2>6. SuccessIsWitnessed'
    BY <1>0, <2>1, <2>3, MemberAssumption DEF SuccessIsWitnessed, Succeeds
  <2>. QED BY <2>4, <2>5, <2>6 DEF MembersInv
<1>. QED BY <1>1, <1>2, <1>3 DEF ProcessResult

(* A confirmation speaks of a handoff, never of a rack slot.               *)
LEMMA ConfirmMembers ==
  ASSUME NEW m \in Scannable, TypeOK, MembersInv, Scan(m) \/ Manual(m)
  PROVE  MembersInv'
<1>1. m \in Member /\ m \notin SlotTarget /\ SlotTarget \subseteq Member
  BY MemberAssumption
<1>2. \A o \in Member :
        /\ memberStatus'[o] = (IF o = m THEN "SUCCEEDED" ELSE memberStatus[o])
        /\ position'[o] = (IF o = m THEN "target" ELSE position[o])
  <2>1. Delivered(m)
    BY DEF Scan, Manual
  <2>. QED BY <2>1, <1>1 DEF Delivered, TypeOK
<1>3. \A o \in SlotTarget : PlacementApplied(o) => PlacementApplied(o)'
  BY DEF Scan, Manual, PlacementApplied
<1>4. ElsewhereIsFailed' /\ SlotIsWitnessed'
  <2>1. ASSUME NEW o \in Member, position'[o] = "elsewhere" PROVE memberStatus'[o] = "FAILED"
    BY <1>2, <2>1 DEF MembersInv, ElsewhereIsFailed
  <2>2. ASSUME NEW o \in SlotTarget, memberStatus'[o] = "SUCCEEDED" PROVE PlacementApplied(o)'
    BY <1>1, <1>2, <1>3, <2>2 DEF MembersInv, SlotIsWitnessed
  <2>. QED BY <2>1, <2>2 DEF ElsewhereIsFailed, SlotIsWitnessed
<1>5. \/ UNCHANGED <<status, reason>> /\ status \notin Terminal
      \/ /\ status' = "SUCCEEDED" /\ reason' \in Confirmed
         /\ \A o \in Member : memberStatus'[o] = "SUCCEEDED" /\ position'[o] = "target"
  <2>1. CASE Scan(m)
    BY <2>1 DEF Scan, Confirm, SetOutcome, Confirmed
  <2>2. CASE Manual(m)
    <3>1. Member = {m} /\ Confirm("MANUAL_CONFIRMED")
      BY <2>2 DEF Manual
    <3>. QED BY <1>2, <3>1 DEF Confirm, SetOutcome, Confirmed
  <2>. QED BY <2>1, <2>2
<1>6. FailureIsFinal' /\ FailureIsLocated'
  BY <1>5 DEF MembersInv, FailureIsFinal, FailureIsLocated, Terminal, Confirmed
<1>7. SuccessIsWitnessed'
  BY <1>1, <1>4, <1>5 DEF SuccessIsWitnessed, SlotIsWitnessed, Terminal
<1>. QED BY <1>4, <1>6, <1>7 DEF MembersInv

LEMMA MembersStep ==
  ASSUME TypeOK, MembersInv, [Next]_vars
  PROVE  MembersInv'
<1>1. ASSUME NEW w \in Worker, Job(w) PROVE MembersInv'
  BY <1>1, JobLeavesMembers, MembersKept
<1>2. CASE Create \/ Reconcile \/ Withdraw \/ Tick
  BY <1>2, RowLeavesMembers, MembersKept
<1>3. ASSUME NEW e \in Report, RecordCallback(e) PROVE MembersInv'
  <2>1. \A f \in Report : evidence[f] = "APPLIED" => evidence'[f] = "APPLIED"
    BY <1>3 DEF TypeOK, RecordCallback
  <2>2. UNCHANGED Facts /\ Elsewise
    BY <1>3 DEF RecordCallback, Facts, memberVars, Elsewise, outcomeVars
  <2>. QED BY <2>1, <2>2, MembersKept
<1>4. ASSUME NEW e \in Report, Process(e) PROVE MembersInv'
  BY <1>4, PositionMembers, ResultMembers DEF Process
<1>5. ASSUME NEW m \in Scannable, Scan(m) \/ Manual(m) PROVE MembersInv'
  BY <1>5, ConfirmMembers
<1>6. ASSUME NEW m \in net, Decide(m) PROVE MembersInv'
  <2>1. UNCHANGED Facts /\ Elsewise /\ UNCHANGED evidence
    BY <1>6 DEF Decide, Facts, memberVars, Elsewise, outcomeVars
  <2>. QED BY <2>1, MembersKept
<1>7. CASE UNCHANGED vars
  <2>1. UNCHANGED Facts /\ Elsewise /\ UNCHANGED evidence
    BY <1>7 DEF vars, Facts, memberVars, Elsewise, outcomeVars
  <2>. QED BY <2>1, MembersKept
<1>. QED BY <1>1, <1>2, <1>3, <1>4, <1>5, <1>6, <1>7 DEF Next

(* The rows of the members, the status of the task and the evidence        *)
(* applied to it agree.                                                    *)
THEOREM Members == Spec => []MembersInv
<1>1. Init => MembersInv
  BY MemberAssumption DEF Init, MembersInv, ElsewhereIsFailed, SlotIsWitnessed, FailureIsFinal, SuccessIsWitnessed,
     FailureIsLocated
<1>2. TypeOK /\ MembersInv /\ [Next]_vars => MembersInv'
  BY MembersStep
<1>. QED BY <1>1, <1>2, Typing, PTL DEF Spec

(* A success has every member at its target and every rack slot witnessed  *)
(* by an applied placement: for any members, reports and their order.      *)
THEOREM Success == Spec => []SuccessIsWitnessed
<1>1. MembersInv => SuccessIsWitnessed
  BY DEF MembersInv
<1>. QED BY <1>1, Members, PTL

(* A failure the WMS reports leaves no member at an unknown place.         *)
THEOREM Failure == Spec => []FailureIsLocated
<1>1. MembersInv => FailureIsLocated
  BY DEF MembersInv
<1>. QED BY <1>1, Members, PTL

-----------------------------------------------------------------------------
(* What no step may do.                                                    *)

(* A known position is never overwritten: what a placement, a result, a    *)
(* scan or a person established stands, in every order they may come in.   *)
THEOREM PositionStands == Spec => ConfirmedPositionStands
<1>. DEFINE Stands == \A m \in Member : position[m] \in Known => position'[m] = position[m]
<1>1. ASSUME TypeOK, MembersInv, [Next]_vars PROVE Stands
  <2>1. ASSUME NEW e \in Report, Process(e) PROVE Stands
    <3>1. UNCHANGED position => Stands
      OBVIOUS
    <3>2. CASE ProcessPosition(e)
      <4>1. ASSUME PositionMoves(e), NEW at, position' = [position EXCEPT ![e.member] = at] PROVE Stands
        BY <4>1, <1>1 DEF TypeOK, PositionMoves
      <4>. QED BY <3>1, <3>2, <4>1 DEF ProcessPosition, ApplyNothing, Conflict, memberVars
    <3>3. CASE ProcessResult(e)
      <4>1. ASSUME ~Contradicts(e), ApplyResult(e) PROVE Stands
        BY <4>1 DEF Contradicts, ApplyResult
      <4>. QED BY <3>1, <3>3, <4>1 DEF ProcessResult, ApplyNothing, Conflict, memberVars
    <3>. QED BY <2>1, <3>2, <3>3 DEF Process
  <2>2. ASSUME NEW m \in Scannable, Scan(m) \/ Manual(m) PROVE Stands
    <3>1. m \in Member /\ position' = [position EXCEPT ![m] = "target"]
      BY <2>2, MemberAssumption DEF Scan, Manual, Delivered
    <3>2. position[m] # "elsewhere"
      BY <1>1, <2>2, <3>1 DEF Scan, Manual, MembersInv, ElsewhereIsFailed
    <3>. QED BY <1>1, <3>1, <3>2 DEF Known, TypeOK
  <2>3. ASSUME NEW w \in Worker, Job(w) PROVE Stands
    BY <2>3, JobLeavesMembers DEF Facts
  <2>4. ASSUME Create \/ Reconcile \/ Withdraw \/ Tick PROVE Stands
    BY <2>4 DEF Create, Reconcile, Withdraw, Tick, memberVars
  <2>5. ASSUME NEW e \in Report, RecordCallback(e) PROVE Stands
    BY <2>5 DEF RecordCallback, memberVars
  <2>6. ASSUME NEW m \in net, Decide(m) PROVE Stands
    BY <2>6 DEF Decide, memberVars
  <2>7. CASE UNCHANGED vars
    BY <2>7 DEF vars, memberVars
  <2>. QED BY <1>1, <2>1, <2>2, <2>3, <2>4, <2>5, <2>6, <2>7 DEF Next
<1>. QED BY <1>1, Typing, Members, PTL DEF Spec, ConfirmedPositionStands

(* No answer, scan or callback takes a task back, and a definite outcome   *)
(* is never rewritten: each step that writes the status reads it first.    *)
THEOREM MovesForward == Spec => StatusMovesForward
<1>. DEFINE Forward == /\ status \in {"ACCEPTED", "RECONCILING"} => status' # "PENDING"
                       /\ status = "RECONCILING" => status' # "ACCEPTED"
                       /\ status \in Terminal => UNCHANGED Frozen
<1>1. ASSUME [Next]_vars PROVE Forward
  <2>1. UNCHANGED Frozen => Forward
    BY DEF Frozen
  <2>2. status \notin Terminal /\ status' \in {"RECONCILING"} \cup Terminal => Forward
    BY DEF Terminal
  <2>3. status = "PENDING" => Forward
    BY DEF Terminal
  <2>4. ASSUME NEW w \in Worker, Job(w) PROVE Forward
    <3>1. UNCHANGED Frozen \/ status = "PENDING"
      BY <2>4 DEF Frozen, outcomeVars, memberVars, Job, Claim, Fence, FenceMiss, Send, NotSent,
         Receive, NoTrustedAnswer, Crash, WriteAck, WriteRefusal, WriteUnsent, WriteDoubt, IgnoreAnswer
    <3>. QED BY <2>1, <2>3, <3>1
  <2>5. ASSUME NEW e \in Report, Process(e) PROVE Forward
    <3>1. CASE Conflict(e) \/ ApplyNothing(e)
      <4>1. UNCHANGED Frozen \/ (status \notin Terminal /\ status' = "RECONCILING")
        BY <3>1 DEF Conflict, ApplyNothing, SetOutcome, Frozen, outcomeVars, memberVars
      <4>. QED BY <2>1, <2>2, <4>1
    <3>2. CASE ProcessPosition(e)
      <4>1. ASSUME PositionMoves(e), AcceptPositionFact PROVE Forward
        BY <4>1 DEF PositionMoves, AcceptPositionFact, Terminal
      <4>2. ASSUME PositionMoves(e), SetOutcome("RECONCILING", "POSITION_UNKNOWN") PROVE Forward
        BY <4>2, <2>2 DEF PositionMoves, SetOutcome
      <4>. QED BY <3>1, <3>2, <4>1, <4>2 DEF ProcessPosition
    <3>3. CASE ProcessResult(e)
      <4>1. ASSUME Open(e), ApplyResult(e) PROVE Forward
        BY <4>1, <2>2 DEF Open, ApplyResult, SetOutcome, Terminal
      <4>2. CASE UNCHANGED Frozen
        BY <4>2, <2>1
      <4>. QED BY <3>1, <3>3, <4>1, <4>2 DEF ProcessResult, Frozen, memberVars
    <3>. QED BY <2>5, <3>2, <3>3 DEF Process
  <2>6. ASSUME NEW m \in Scannable, Scan(m) \/ Manual(m) PROVE Forward
    <3>1. /\ status \notin Terminal
          /\ UNCHANGED status \/ status' = "SUCCEEDED"
      BY <2>6 DEF Scan, Manual, Confirm, SetOutcome, Terminal
    <3>. QED BY <3>1 DEF Terminal
  <2>7. CASE Create \/ Reconcile \/ Withdraw \/ Tick
    <3>1. UNCHANGED Frozen \/ status \in {"NONE", "PENDING"}
      BY <2>7 DEF Create, Reconcile, Withdraw, Tick, Submittable, Frozen, outcomeVars, memberVars
    <3>. QED BY <2>1, <3>1 DEF Terminal
  <2>8. ASSUME NEW e \in Report, RecordCallback(e) PROVE Forward
    BY <2>1, <2>8 DEF RecordCallback, Frozen, outcomeVars, memberVars
  <2>9. ASSUME NEW m \in net, Decide(m) PROVE Forward
    BY <2>1, <2>9 DEF Decide, Frozen, outcomeVars, memberVars
  <2>10. CASE UNCHANGED vars
    BY <2>1, <2>10 DEF vars, Frozen, outcomeVars, memberVars
  <2>. QED BY <1>1, <2>4, <2>5, <2>6, <2>7, <2>8, <2>9, <2>10 DEF Next
<1>. QED BY <1>1, PTL DEF Spec, StatusMovesForward

-----------------------------------------------------------------------------
(* SubmissionInv is inductive: a TransportTask that WES calls REJECTED is  *)
(* not and will not be taken by the WMS, and two workers are past the      *)
(* fence together only while the row says that a delivery is in doubt.     *)
(*                                                                         *)
(* The argument: while the row is Fresh its claim names the only sender    *)
(* (OneSender, FencedOnce), so the one request under way is that sender's  *)
(* (ReadyIsClear, WaitingIsAlone), so an answer that says "not sent" or    *)
(* "unavailable" leaves nothing behind (UnsentIsTrue); only such an answer *)
(* makes the row submittable again without doubt, or rejects it.           *)

Row == <<status, reason, claim, sendStarted>>
Wire == <<pc, attempt, answer, net, decision>>

-----------------------------------------------------------------------------
(* Steps that do not touch the submission, and steps that end it.          *)

LEMMA SameKept ==
  ASSUME SubmissionInv, UNCHANGED Row, UNCHANGED Wire
  PROVE  SubmissionInv'
  BY DEF Row, Wire, SubmissionInv, RefusalIsTrue, UnsentIsNotTaken, NobodyBeforeCreate,
     OneSender, FencedOnce, ReadyIsClear, WaitingIsAlone, UnsentIsTrue, RefusalsAreReal,
     RepliesAreAwaited, NotTaken, NoSubmitUnderWay, Fresh, Sending, Clear, NoneUnderWay, Listening

(* The status after a step that ends the submission or puts it in doubt.   *)
Beyond == /\ status' \notin {"NONE", "REJECTED"}
          /\ status' = "PENDING" => reason' = "SUBMIT_DELIVERY_UNKNOWN"

LEMMA BeyondKept ==
  ASSUME TypeOK, SubmissionInv, Beyond,
         \/ UNCHANGED <<pc, attempt, answer>>
         \/ \E w \in Worker : pc[w] = "answered" /\ Return(w),
         UNCHANGED <<net, decision>>
  PROVE  SubmissionInv'
<1>1. ~Fresh' /\ status' # "NONE" /\ status' # "REJECTED"
  BY DEF Beyond, Fresh
<1>2. RefusalsAreReal'
  BY DEF TypeOK, SubmissionInv, RefusalsAreReal, Return
<1>3. RepliesAreAwaited'
  <2>1. \A v \in Worker : pc[v] = "waiting" => pc'[v] = "waiting" /\ attempt'[v] = attempt[v]
    BY DEF TypeOK, Return
  <2>. QED BY <2>1 DEF SubmissionInv, RepliesAreAwaited, Listening
<1>. QED BY <1>1, <1>2, <1>3 DEF SubmissionInv, RefusalIsTrue, UnsentIsNotTaken, NobodyBeforeCreate,
     OneSender, FencedOnce, ReadyIsClear, WaitingIsAlone, UnsentIsTrue

LEMMA CreateKept ==
  ASSUME TypeOK, SubmissionInv, Create
  PROVE  SubmissionInv'
<1>1. /\ status = "NONE" /\ status' = "PENDING" /\ UNCHANGED Wire /\ UNCHANGED <<claim, sendStarted>>
  BY DEF Create, Wire, submitVars, workerVars
<1>2. NotTaken' /\ \A w \in Worker : pc'[w] = "idle"
  BY <1>1 DEF SubmissionInv, UnsentIsNotTaken, NobodyBeforeCreate, NotTaken, NoSubmitUnderWay, Wire
<1>3. RefusalsAreReal' /\ RepliesAreAwaited'
  BY <1>1 DEF SubmissionInv, RefusalsAreReal, RepliesAreAwaited, Listening, Wire
<1>. QED BY <1>1, <1>2, <1>3 DEF SubmissionInv, RefusalIsTrue, UnsentIsNotTaken, NobodyBeforeCreate,
     OneSender, FencedOnce, ReadyIsClear, WaitingIsAlone, UnsentIsTrue, Sending

(* What the WMS has not taken stays so until a worker passes the fence.    *)
LEMMA NotTakenKept ==
  ASSUME NotTaken, decision' = decision,
         \A m \in net' : m.type = "SUBMIT" => m \in net,
         \A w \in Worker : pc'[w] = "ready" => pc[w] = "ready"
  PROVE  NotTaken'
  BY DEF NotTaken, NoSubmitUnderWay

-----------------------------------------------------------------------------
(* Claim and fence.                                                        *)

LEMMA ClaimKept ==
  ASSUME NEW w \in Worker, TypeOK, SubmissionInv, Claim(w)
  PROVE  SubmissionInv'
<1>. USE DEF SubmissionInv
<1>1. /\ status = "PENDING" /\ ~sendStarted /\ pc[w] = "idle"
      /\ UNCHANGED <<status, reason, sendStarted, attempt, answer, net, decision>>
      /\ claim'.by = w
      /\ \A v \in Worker : pc'[v] = IF v = w THEN "claimed" ELSE pc[v]
  BY DEF TypeOK, Claim, Submittable, outcomeVars
<1>2. NotTaken => NotTaken'
  BY <1>1, NotTakenKept
<1>3. RefusalIsTrue' /\ UnsentIsNotTaken' /\ NobodyBeforeCreate'
  BY <1>1, <1>2 DEF RefusalIsTrue, UnsentIsNotTaken, NobodyBeforeCreate, Fresh
<1>4. OneSender' /\ FencedOnce'
  BY <1>1 DEF OneSender, FencedOnce, Fresh, Sending
<1>5. ReadyIsClear' /\ WaitingIsAlone'
  BY <1>1 DEF ReadyIsClear, WaitingIsAlone, Fresh, Clear, NoneUnderWay
<1>6. UnsentIsTrue'
  BY <1>1, <1>2 DEF UnsentIsTrue, Fresh
<1>7. RefusalsAreReal' /\ RepliesAreAwaited'
  BY <1>1 DEF RefusalsAreReal, RepliesAreAwaited, Listening
<1>. QED BY <1>3, <1>4, <1>5, <1>6, <1>7

(* A fence passed on a fresh row finds nobody past it.                     *)
LEMMA FenceFindsNobody ==
  ASSUME NEW w \in Worker, TypeOK, SubmissionInv, pc[w] = "claimed", claim.by = w, Fresh
  PROVE  ~sendStarted /\ NotTaken /\ \A v \in Worker : ~Sending(v)
<1>1. ~sendStarted
  BY DEF SubmissionInv, FencedOnce
<1>. QED BY <1>1 DEF SubmissionInv, OneSender, UnsentIsNotTaken

LEMMA FenceKept ==
  ASSUME NEW w \in Worker, TypeOK, SubmissionInv, Fence(w)
  PROVE  SubmissionInv'
<1>. USE DEF SubmissionInv
<1>1. /\ status = "PENDING" /\ claim.by = w /\ pc[w] = "claimed" /\ sendStarted'
      /\ UNCHANGED <<status, reason, claim, answer, net, decision>>
      /\ \A v \in Worker : pc'[v] = IF v = w THEN "ready" ELSE pc[v]
      /\ \A v \in Worker \ {w} : attempt'[v] = attempt[v]
  BY DEF TypeOK, Fence, Submittable, LeaseMatches, outcomeVars
<1>2. Fresh => NotTaken /\ \A v \in Worker : ~Sending(v)
  BY <1>1, FenceFindsNobody
<1>3. Fresh' = Fresh
  BY <1>1 DEF Fresh
<1>4. RefusalIsTrue' /\ UnsentIsNotTaken' /\ NobodyBeforeCreate'
  BY <1>1 DEF RefusalIsTrue, UnsentIsNotTaken, NobodyBeforeCreate
<1>5. OneSender' /\ FencedOnce'
  BY <1>1, <1>2, <1>3 DEF OneSender, FencedOnce, Sending
<1>6. ReadyIsClear'
  BY <1>1, <1>2, <1>3 DEF ReadyIsClear, Clear, NoneUnderWay, NotTaken, NoSubmitUnderWay
<1>7. WaitingIsAlone'
  BY <1>1, <1>2, <1>3 DEF WaitingIsAlone, Sending
<1>8. RepliesAreAwaited'
  <2>1. \A n \in Nat : Listening(n) => Listening(n)'
    BY <1>1 DEF Listening
  <2>. QED BY <1>1, <2>1 DEF RepliesAreAwaited, TypeOK, Message
<1>9. UnsentIsTrue'
  <2>1. Fresh => \A m \in net : m.type = "SUBMIT"
    BY <1>2 DEF RepliesAreAwaited, Listening, Sending
  <2>. QED BY <1>1, <1>2, <1>3, <2>1 DEF UnsentIsTrue, Sending
<1>10. RefusalsAreReal'
  BY <1>1 DEF RefusalsAreReal
<1>. QED BY <1>4, <1>5, <1>6, <1>7, <1>8, <1>9, <1>10

(* A missed fence may clear the worker's own claim.                        *)
LEMMA FenceMissKept ==
  ASSUME NEW w \in Worker, TypeOK, SubmissionInv, FenceMiss(w)
  PROVE  SubmissionInv'
<1>. USE DEF SubmissionInv
<1>1. /\ pc[w] = "claimed"
      /\ UNCHANGED <<status, reason, sendStarted, net, decision>>
      /\ \A v \in Worker : pc'[v] = IF v = w THEN "idle" ELSE pc[v]
      /\ \A v \in Worker \ {w} : attempt'[v] = attempt[v] /\ answer'[v] = answer[v]
  BY DEF TypeOK, FenceMiss, Return, outcomeVars
<1>2. UNCHANGED claim \/ (claim.by = w /\ claim' = NoClaim)
  BY DEF FenceMiss, ClearClaim, LeaseMatches
<1>3. Fresh' = Fresh
  BY <1>1 DEF Fresh
<1>4. NotTaken => NotTaken'
  BY <1>1, NotTakenKept
<1>5. RefusalIsTrue' /\ UnsentIsNotTaken' /\ NobodyBeforeCreate'
  BY <1>1, <1>3, <1>4 DEF RefusalIsTrue, UnsentIsNotTaken, NobodyBeforeCreate
<1>6. OneSender'
  <2>1. CASE UNCHANGED claim
    BY <1>1, <1>3, <2>1 DEF OneSender, Sending
  <2>2. CASE claim.by = w
    <3>1. Fresh => \A v \in Worker : ~Sending(v)
      BY <1>1, <2>2, FenceFindsNobody
    <3>. QED BY <1>1, <1>3, <3>1 DEF OneSender, Sending
  <2>. QED BY <1>2, <2>1, <2>2
<1>7. FencedOnce'
  BY <1>1, <1>2, <1>3, WorkerAssumption DEF FencedOnce, NoClaim
<1>8. ReadyIsClear' /\ WaitingIsAlone'
  BY <1>1, <1>3 DEF ReadyIsClear, WaitingIsAlone, Clear, NoneUnderWay
<1>9. UnsentIsTrue'
  BY <1>1, <1>3, <1>4 DEF UnsentIsTrue
<1>10. RefusalsAreReal'
  BY <1>1 DEF RefusalsAreReal
<1>11. RepliesAreAwaited'
  <2>1. \A n \in Nat : Listening(n) => Listening(n)'
    BY <1>1 DEF Listening
  <2>. QED BY <1>1, <2>1 DEF RepliesAreAwaited, TypeOK, Message
<1>. QED BY <1>5, <1>6, <1>7, <1>8, <1>9, <1>10, <1>11

-----------------------------------------------------------------------------
(* The request and its answer.                                             *)

LEMMA SendKept ==
  ASSUME NEW w \in Worker, TypeOK, SubmissionInv, Send(w)
  PROVE  SubmissionInv'
<1>. USE DEF SubmissionInv
<1>1. /\ pc[w] = "ready"
      /\ UNCHANGED <<status, reason, claim, sendStarted, attempt, answer, decision>>
      /\ \A v \in Worker : pc'[v] = IF v = w THEN "waiting" ELSE pc[v]
      /\ net' = net \cup {[type |-> "SUBMIT", attempt |-> attempt[w]]}
  BY DEF TypeOK, Send, outcomeVars, submitVars
<1>2. Fresh' = Fresh
  BY <1>1 DEF Fresh
<1>3. NotTaken => NotTaken'
  BY <1>1 DEF NotTaken, NoSubmitUnderWay
<1>4. RefusalIsTrue' /\ UnsentIsNotTaken' /\ NobodyBeforeCreate'
  BY <1>1, <1>2, <1>3 DEF RefusalIsTrue, UnsentIsNotTaken, NobodyBeforeCreate
<1>5. OneSender' /\ FencedOnce'
  BY <1>1, <1>2 DEF OneSender, FencedOnce, Sending
<1>6. Fresh => \A v \in Worker \ {w} : ~Sending(v)
  BY <1>1 DEF OneSender, Sending
<1>7. ReadyIsClear'
  BY <1>1, <1>2, <1>6 DEF ReadyIsClear, Sending
<1>8. WaitingIsAlone'
  <2>1. Fresh => Clear
    BY <1>1 DEF ReadyIsClear
  <2>2. \A m \in net' : m.type = "SUBMIT" => m \in net \/ m.attempt = attempt[w]
    BY <1>1
  <2>. QED BY <1>1, <1>2, <1>6, <2>1, <2>2 DEF WaitingIsAlone, Clear, NoneUnderWay, Sending
<1>9. UnsentIsTrue'
  <2>1. \A m \in net' : m.type = "UNAVAILABLE" => m \in net
    BY <1>1
  <2>. QED BY <1>1, <1>2, <1>3, <2>1 DEF UnsentIsTrue
<1>10. RefusalsAreReal'
  BY <1>1 DEF RefusalsAreReal
<1>11. RepliesAreAwaited'
  <2>1. \A n \in Nat : Listening(n) => Listening(n)'
    BY <1>1 DEF Listening
  <2>2. \A m \in net' : m.type # "SUBMIT" => m \in net
    BY <1>1
  <2>. QED BY <2>1, <2>2 DEF RepliesAreAwaited, TypeOK, Message
<1>. QED BY <1>4, <1>5, <1>7, <1>8, <1>9, <1>10, <1>11

(* A worker that stops waiting hangs up, so every answer still under way   *)
(* belongs to another one.                                                 *)
LEMMA HangUpKept ==
  ASSUME NEW w \in Worker, TypeOK, RepliesAreAwaited, HangUp(w),
         \A v \in Worker \ {w} : pc'[v] = pc[v] /\ attempt'[v] = attempt[v]
  PROVE  /\ RepliesAreAwaited'
         /\ \A m \in net' : m \in net
         /\ \A m \in net : m.type = "SUBMIT" => m \in net'
<1>1. \A m \in net' : m \in net /\ (m.type # "SUBMIT" => m.attempt # attempt[w])
  BY DEF HangUp
<1>2. ASSUME NEW m \in net', m.type # "SUBMIT" PROVE Listening(m.attempt)'
  <2>1. PICK v \in Worker : pc[v] = "waiting" /\ attempt[v] = m.attempt
    BY <1>1, <1>2 DEF RepliesAreAwaited, Listening
  <2>2. v # w
    BY <1>1, <1>2, <2>1
  <2>. QED BY <2>1, <2>2 DEF Listening
<1>3. \A m \in net : m.type = "SUBMIT" => m \in net'
  BY DEF HangUp
<1>. QED BY <1>1, <1>2, <1>3 DEF RepliesAreAwaited

(* Receive, NoTrustedAnswer and NotSent: the worker learns an answer that  *)
(* the invariant vouches for.                                              *)
LEMMA AnsweredKept ==
  ASSUME NEW w \in Worker, NEW code \in Answer, TypeOK, SubmissionInv,
         Answered(w, code), Sending(w),
         HangUp(w) \/ (UNCHANGED net /\ pc[w] = "ready"),
         UNCHANGED Row, UNCHANGED decision,
         code = "REJECTED" => decision = "rejected",
         Fresh /\ code \in Unsent => NotTaken \/ (Clear /\ pc[w] = "ready")
  PROVE  SubmissionInv'
<1>. USE DEF SubmissionInv
<1>1. /\ UNCHANGED <<status, reason, claim, sendStarted, attempt, decision>>
      /\ \A v \in Worker : pc'[v] = IF v = w THEN "answered" ELSE pc[v]
      /\ answer'[w] = code /\ \A v \in Worker \ {w} : answer'[v] = answer[v]
  BY DEF TypeOK, Answered, Row
<1>2. RepliesAreAwaited' /\ (\A m \in net' : m \in net)
  <2>1. CASE HangUp(w)
    BY <1>1, <2>1, HangUpKept
  <2>2. CASE UNCHANGED net /\ pc[w] = "ready"
    BY <1>1, <2>2 DEF RepliesAreAwaited, Listening, TypeOK, Message
  <2>. QED BY <2>1, <2>2
<1>3. Fresh' = Fresh
  BY <1>1 DEF Fresh
<1>4. NotTaken => NotTaken'
  BY <1>1, <1>2, NotTakenKept
<1>5. RefusalIsTrue' /\ UnsentIsNotTaken' /\ NobodyBeforeCreate'
  BY <1>1, <1>3, <1>4 DEF RefusalIsTrue, UnsentIsNotTaken, NobodyBeforeCreate, Sending
<1>6. OneSender' /\ FencedOnce'
  BY <1>1, <1>3 DEF OneSender, FencedOnce, Sending
<1>7. ReadyIsClear' /\ WaitingIsAlone'
  BY <1>1, <1>2, <1>3 DEF ReadyIsClear, WaitingIsAlone, Clear, NoneUnderWay
<1>8. Fresh => \A v \in Worker \ {w} : ~Sending(v)
  BY DEF OneSender
<1>9. Fresh /\ code \in Unsent => NotTaken'
  BY <1>1, <1>2, <1>4, <1>8 DEF Clear, NoneUnderWay, NotTaken, NoSubmitUnderWay, Sending
<1>10. UnsentIsTrue'
  BY <1>1, <1>2, <1>3, <1>4, <1>9 DEF UnsentIsTrue
<1>11. RefusalsAreReal'
  BY <1>1, <1>2 DEF RefusalsAreReal
<1>. QED BY <1>2, <1>5, <1>6, <1>7, <1>10, <1>11

LEMMA NotSentKept ==
  ASSUME NEW w \in Worker, TypeOK, SubmissionInv, NotSent(w)
  PROVE  SubmissionInv'
<1>1. pc[w] = "ready" /\ Sending(w) /\ "NOT_SENT" \in Answer
  BY DEF NotSent, Sending, Answer
<1>2. Fresh => Clear
  BY <1>1 DEF SubmissionInv, ReadyIsClear
<1>3. Answered(w, "NOT_SENT") /\ UNCHANGED net /\ UNCHANGED Row /\ UNCHANGED decision
  BY DEF NotSent, Row, outcomeVars, submitVars
<1>. QED BY <1>1, <1>2, <1>3, AnsweredKept

LEMMA ReceiveKept ==
  ASSUME NEW w \in Worker, TypeOK, SubmissionInv, Receive(w)
  PROVE  SubmissionInv'
<1>1. PICK m \in net : m.type # "SUBMIT" /\ m.attempt = attempt[w] /\ Answered(w, m.type)
  BY DEF Receive
<1>2. m.type \in Answer /\ (m.type \in Unsent => m.type = "UNAVAILABLE")
  BY <1>1 DEF TypeOK, Message, Answer, Unsent
<1>3. m.type = "REJECTED" => decision = "rejected"
  BY DEF SubmissionInv, RefusalsAreReal
<1>4. Fresh /\ m.type \in Unsent => NotTaken
  BY <1>2 DEF SubmissionInv, UnsentIsTrue
<1>5. Sending(w) /\ HangUp(w) /\ UNCHANGED Row /\ UNCHANGED decision
  BY DEF Receive, Row, outcomeVars, submitVars, Sending
<1>. QED BY <1>1, <1>2, <1>3, <1>4, <1>5, AnsweredKept

LEMMA NoTrustedAnswerKept ==
  ASSUME NEW w \in Worker, TypeOK, SubmissionInv, NoTrustedAnswer(w)
  PROVE  SubmissionInv'
<1>1. "UNKNOWN" \in Answer /\ "UNKNOWN" \notin Unsent
  BY DEF Answer, Unsent
<1>2. Sending(w) /\ Answered(w, "UNKNOWN") /\ HangUp(w) /\ UNCHANGED Row /\ UNCHANGED decision
  BY DEF NoTrustedAnswer, Row, outcomeVars, submitVars, Sending
<1>. QED BY <1>1, <1>2, AnsweredKept

(* A worker that dies, or whose answer the row has overtaken, leaves.      *)
LEMMA LeaveKept ==
  ASSUME NEW w \in Worker, TypeOK, SubmissionInv, Return(w), UNCHANGED Row, UNCHANGED decision,
         HangUp(w) \/ (UNCHANGED net /\ pc[w] = "answered")
  PROVE  SubmissionInv'
<1>. USE DEF SubmissionInv
<1>1. /\ UNCHANGED <<status, reason, claim, sendStarted, decision>>
      /\ \A v \in Worker : pc'[v] = IF v = w THEN "idle" ELSE pc[v]
      /\ \A v \in Worker \ {w} : answer'[v] = answer[v] /\ attempt'[v] = attempt[v]
  BY DEF TypeOK, Return, Row
<1>2. RepliesAreAwaited' /\ (\A m \in net' : m \in net)
  <2>1. CASE HangUp(w)
    BY <1>1, <2>1, HangUpKept
  <2>2. CASE UNCHANGED net /\ pc[w] = "answered"
    BY <1>1, <2>2 DEF RepliesAreAwaited, Listening, TypeOK, Message
  <2>. QED BY <2>1, <2>2
<1>3. Fresh' = Fresh
  BY <1>1 DEF Fresh
<1>4. NotTaken => NotTaken'
  BY <1>1, <1>2, NotTakenKept
<1>5. RefusalIsTrue' /\ UnsentIsNotTaken' /\ NobodyBeforeCreate'
  BY <1>1, <1>3, <1>4 DEF RefusalIsTrue, UnsentIsNotTaken, NobodyBeforeCreate
<1>6. OneSender' /\ FencedOnce'
  BY <1>1, <1>3 DEF OneSender, FencedOnce, Sending
<1>7. ReadyIsClear' /\ WaitingIsAlone'
  BY <1>1, <1>2, <1>3 DEF ReadyIsClear, WaitingIsAlone, Clear, NoneUnderWay
<1>8. UnsentIsTrue' /\ RefusalsAreReal'
  BY <1>1, <1>2, <1>3, <1>4 DEF UnsentIsTrue, RefusalsAreReal
<1>. QED BY <1>2, <1>5, <1>6, <1>7, <1>8

-----------------------------------------------------------------------------
(* The write-back.                                                         *)

(* A refusal or a spent budget: REJECTED is written where NotTaken holds.  *)
LEMMA RejectedKept ==
  ASSUME NEW w \in Worker, TypeOK, SubmissionInv, NotTaken, status' = "REJECTED",
         pc[w] = "answered", Return(w), UNCHANGED <<net, decision>>
  PROVE  SubmissionInv'
<1>. USE DEF SubmissionInv
<1>1. /\ \A v \in Worker : pc'[v] = IF v = w THEN "idle" ELSE pc[v]
      /\ \A v \in Worker \ {w} : answer'[v] = answer[v] /\ attempt'[v] = attempt[v]
  BY DEF TypeOK, Return
<1>2. NotTaken'
  BY <1>1, NotTakenKept
<1>3. ~Fresh' /\ status' # "NONE"
  BY DEF Fresh
<1>4. RefusalsAreReal'
  BY <1>1 DEF RefusalsAreReal
<1>5. RepliesAreAwaited'
  BY <1>1 DEF RepliesAreAwaited, Listening, TypeOK, Message
<1>. QED BY <1>2, <1>3, <1>4, <1>5 DEF RefusalIsTrue, UnsentIsNotTaken, NobodyBeforeCreate,
     OneSender, FencedOnce, ReadyIsClear, WaitingIsAlone, UnsentIsTrue

(* An answer that says the request did not get through opens the row       *)
(* again, when it holds for sure that the WMS took nothing.                *)
LEMMA RetriedKept ==
  ASSUME NEW w \in Worker, TypeOK, SubmissionInv, NotTaken, Fresh,
         pc[w] = "answered", LeaseMatches(w), ClearClaim, ~sendStarted', status' = "PENDING",
         Return(w), UNCHANGED <<net, decision>>
  PROVE  SubmissionInv'
<1>. USE DEF SubmissionInv
<1>1. /\ \A v \in Worker : pc'[v] = IF v = w THEN "idle" ELSE pc[v]
      /\ \A v \in Worker \ {w} : answer'[v] = answer[v] /\ attempt'[v] = attempt[v]
  BY DEF TypeOK, Return
<1>2. \A v \in Worker : ~Sending(v)'
  BY <1>1 DEF OneSender, LeaseMatches, Sending
<1>3. NotTaken'
  BY <1>1, NotTakenKept
<1>4. RefusalIsTrue' /\ UnsentIsNotTaken' /\ NobodyBeforeCreate' /\ FencedOnce'
  BY <1>3 DEF RefusalIsTrue, UnsentIsNotTaken, NobodyBeforeCreate, FencedOnce
<1>5. OneSender' /\ ReadyIsClear' /\ WaitingIsAlone'
  BY <1>2 DEF OneSender, ReadyIsClear, WaitingIsAlone, Sending
<1>6. UnsentIsTrue' /\ RefusalsAreReal'
  BY <1>1, <1>3 DEF UnsentIsTrue, RefusalsAreReal
<1>7. RepliesAreAwaited'
  BY <1>1 DEF RepliesAreAwaited, Listening, TypeOK, Message
<1>. QED BY <1>4, <1>5, <1>6, <1>7

LEMMA WriteKept ==
  ASSUME NEW w \in Worker, TypeOK, SubmissionInv,
         WriteAck(w) \/ WriteRefusal(w) \/ WriteUnsent(w) \/ WriteDoubt(w) \/ IgnoreAnswer(w)
  PROVE  SubmissionInv'
<1>1. CASE WriteAck(w)
  <2>1. Beyond /\ pc[w] = "answered" /\ Return(w) /\ UNCHANGED <<net, decision>>
    BY <1>1 DEF WriteAck, Beyond
  <2>. QED BY <2>1, BeyondKept
<1>2. CASE WriteRefusal(w)
  <2>1. pc[w] = "answered" /\ Return(w) /\ UNCHANGED <<net, decision>>
    BY <1>2 DEF WriteRefusal
  <2>2. CASE answer[w] = "REJECTED" /\ SetOutcome("REJECTED", "WMS_REJECTED")
    <3>1. NotTaken /\ status' = "REJECTED"
      BY <2>1, <2>2 DEF SubmissionInv, RefusalsAreReal, NotTaken, SetOutcome
    <3>. QED BY <2>1, <3>1, RejectedKept
  <2>3. CASE SetOutcome("RECONCILING", "SUBMIT_CONFLICT")
    <3>1. Beyond
      BY <2>3 DEF SetOutcome, Beyond
    <3>. QED BY <2>1, <3>1, BeyondKept
  <2>. QED BY <1>2, <2>2, <2>3 DEF WriteRefusal
<1>3. CASE WriteUnsent(w)
  <2>1. /\ pc[w] = "answered" /\ Return(w) /\ LeaseMatches(w) /\ ClearClaim /\ ~sendStarted'
        /\ UNCHANGED <<net, decision>>
    BY <1>3 DEF WriteUnsent
  <2>2. Fresh /\ answer[w] \in Unsent
    BY <1>3 DEF WriteUnsent, Fresh
  <2>3. NotTaken
    BY <2>1, <2>2 DEF SubmissionInv, UnsentIsTrue
  <2>4. status' = "REJECTED" \/ status' = "PENDING"
    BY <1>3 DEF WriteUnsent, SetOutcome
  <2>. QED BY <2>1, <2>2, <2>3, <2>4, RejectedKept, RetriedKept
<1>4. CASE WriteDoubt(w)
  <2>1. Beyond /\ pc[w] = "answered" /\ Return(w) /\ UNCHANGED <<net, decision>>
    BY <1>4 DEF WriteDoubt, MarkUnknown, Beyond
  <2>. QED BY <2>1, BeyondKept
<1>5. CASE IgnoreAnswer(w)
  <2>1. /\ pc[w] = "answered" /\ Return(w) /\ UNCHANGED Row /\ UNCHANGED <<net, decision>>
    BY <1>5 DEF IgnoreAnswer, Row, outcomeVars, submitVars
  <2>. QED BY <2>1, LeaveKept
<1>. QED BY <1>1, <1>2, <1>3, <1>4, <1>5

LEMMA JobKept ==
  ASSUME NEW w \in Worker, TypeOK, SubmissionInv, Job(w)
  PROVE  SubmissionInv'
<1>1. CASE Crash(w)
  <2>1. Return(w) /\ HangUp(w) /\ UNCHANGED Row /\ UNCHANGED decision
    BY <1>1 DEF Crash, Row, outcomeVars, submitVars
  <2>. QED BY <2>1, LeaveKept
<1>. QED BY <1>1, ClaimKept, FenceKept, FenceMissKept, SendKept, NotSentKept, ReceiveKept,
     NoTrustedAnswerKept, WriteKept DEF Job

-----------------------------------------------------------------------------
(* Evidence and confirmation: they end the submission or do not touch it.  *)

Aside == UNCHANGED Wire /\ (Beyond \/ UNCHANGED Row)

LEMMA AsideKept ==
  ASSUME TypeOK, SubmissionInv, Aside
  PROVE  SubmissionInv'
<1>1. CASE Beyond
  BY <1>1, BeyondKept DEF Aside, Wire
<1>2. CASE UNCHANGED Row
  BY <1>2, SameKept DEF Aside
<1>. QED BY <1>1, <1>2 DEF Aside

LEMMA ConflictAside ==
  ASSUME NEW e \in Report, Conflict(e)
  PROVE  Aside
  BY DEF Conflict, SetOutcome, Aside, Beyond, Row, Wire, submitVars, workerVars

LEMMA NothingAside ==
  ASSUME NEW e \in Report, ApplyNothing(e)
  PROVE  Aside
  BY DEF ApplyNothing, Aside, Row, Wire, outcomeVars, submitVars, workerVars

LEMMA AcceptAside ==
  ASSUME AcceptPositionFact, UNCHANGED <<workerVars, net, decision>>
  PROVE  Aside
<1>1. UNCHANGED Wire
  BY DEF Wire, workerVars
<1>2. CASE status = "PENDING"
  BY <1>1, <1>2 DEF AcceptPositionFact, Aside, Beyond
<1>3. CASE status # "PENDING"
  BY <1>1, <1>3 DEF AcceptPositionFact, Aside, Row
<1>. QED BY <1>2, <1>3

LEMMA ProcessAside ==
  ASSUME NEW e \in Report, Process(e)
  PROVE  Aside
<1>1. CASE ProcessPosition(e)
  <2>1. CASE /\ SetOutcome("RECONCILING", "POSITION_UNKNOWN")
             /\ UNCHANGED <<workerVars, net, decision>>
    BY <2>1 DEF SetOutcome, Aside, Beyond, Wire, workerVars
  <2>. QED BY <1>1, <2>1, ConflictAside, NothingAside, AcceptAside DEF ProcessPosition
<1>2. CASE ProcessResult(e)
  <2>1. CASE ApplyResult(e)
    <3>1. UNCHANGED Wire
      BY <2>1 DEF ApplyResult, Wire, workerVars
    <3>2. Beyond
      BY <2>1 DEF ApplyResult, SetOutcome, Beyond
    <3>. QED BY <3>1, <3>2 DEF Aside
  <2>2. CASE UNCHANGED <<now, status, reason, version, submitVars, memberVars, workerVars,
                         net, decision>>
    BY <2>2 DEF Aside, Row, Wire, submitVars, workerVars
  <2>. QED BY <1>2, <2>1, <2>2, ConflictAside, NothingAside DEF ProcessResult
<1>. QED BY <1>1, <1>2 DEF Process

LEMMA ConfirmAside ==
  ASSUME NEW m \in Scannable, Scan(m) \/ Manual(m)
  PROVE  Aside
<1>1. UNCHANGED Wire
  BY DEF Scan, Manual, Wire, workerVars
<1>2. CASE \E why \in Confirmed : Confirm(why)
  BY <1>1, <1>2 DEF Confirm, SetOutcome, Aside, Beyond
<1>3. CASE UNCHANGED Row
  BY <1>1, <1>3 DEF Aside
<1>4. Scan(m) => (\E why \in Confirmed : Confirm(why)) \/ UNCHANGED Row
  BY DEF Scan, Confirmed, Row
<1>5. Manual(m) => \E why \in Confirmed : Confirm(why)
  BY DEF Manual, Confirmed
<1>. QED BY <1>2, <1>3, <1>4, <1>5

-----------------------------------------------------------------------------
(* The WMS decides.                                                        *)

LEMMA DecideKept ==
  ASSUME NEW m \in net, TypeOK, SubmissionInv, Decide(m)
  PROVE  SubmissionInv'
<1>. USE DEF SubmissionInv
<1>1. /\ m.type = "SUBMIT" /\ UNCHANGED Row /\ UNCHANGED workerVars
      /\ decision = "rejected" => decision' = "rejected"
  BY DEF Decide, outcomeVars, submitVars, Row
<1>2. PICK type \in {"ACK", "REJECTED", "CONFLICT", "UNAVAILABLE"} :
        /\ Reply(m, type)
        /\ type = "REJECTED" => decision' = "rejected"
        /\ type = "UNAVAILABLE" => decision' = decision
  BY DEF Decide
<1>3. \A r \in net' : r \in net \ {m} \/ (r.type = type /\ Listening(m.attempt) /\ r.attempt = m.attempt)
  BY <1>2 DEF Reply
<1>4. /\ UNCHANGED <<status, reason, claim, sendStarted, pc, attempt, answer>>
      /\ Fresh' = Fresh
  BY <1>1 DEF Row, workerVars, Fresh
<1>5. NotTaken => decision = "rejected"
  BY <1>1 DEF NotTaken, NoSubmitUnderWay
<1>6. decision = "rejected" => NotTaken'
  BY <1>1 DEF NotTaken
<1>7. RefusalIsTrue' /\ UnsentIsNotTaken' /\ NobodyBeforeCreate'
  BY <1>4, <1>5, <1>6 DEF RefusalIsTrue, UnsentIsNotTaken, NobodyBeforeCreate
<1>8. OneSender' /\ FencedOnce'
  BY <1>4 DEF OneSender, FencedOnce, Sending
<1>9. ReadyIsClear'
  <2>1. Clear => decision = "rejected"
    BY <1>1 DEF Clear, NoneUnderWay
  <2>. QED BY <1>1, <1>4, <2>1 DEF ReadyIsClear, Clear
<1>10. \A r \in net' : r.type = "SUBMIT" => r \in net \ {m}
  BY <1>2, <1>3
<1>11. Fresh => \A w \in Worker : pc[w] = "waiting" /\ decision # "rejected" =>
         decision = "none" /\ m.attempt = attempt[w] /\ \A r \in net' : r.type # "SUBMIT"
  <2>1. SUFFICES ASSUME Fresh, NEW w \in Worker, pc[w] = "waiting", decision # "rejected"
                 PROVE  decision = "none" /\ m.attempt = attempt[w] /\ \A r \in net' : r.type # "SUBMIT"
    OBVIOUS
  <2>2. \A r \in net : r.type = "SUBMIT" => r.attempt = attempt[w] /\ decision = "none"
    BY <2>1 DEF WaitingIsAlone
  <2>3. \A r \in net : r.type = "SUBMIT" => r = m
    BY <1>1, <2>2 DEF TypeOK, Message
  <2>. QED BY <1>1, <1>10, <2>2, <2>3
<1>12. WaitingIsAlone'
  BY <1>1, <1>4, <1>11 DEF WaitingIsAlone
<1>13. UnsentIsTrue'
  <2>1. ASSUME Fresh, NEW r \in net', r.type = "UNAVAILABLE" PROVE NotTaken'
    <3>1. CASE r \in net
      BY <2>1, <3>1, <1>5, <1>6 DEF UnsentIsTrue
    <3>2. CASE r \notin net
      <4>1. type = "UNAVAILABLE" /\ decision' = decision /\ Listening(m.attempt)
        BY <1>2, <1>3, <2>1, <3>2
      <4>2. PICK w \in Worker : pc[w] = "waiting"
        BY <4>1 DEF Listening
      <4>3. \A v \in Worker : pc[v] # "ready"
        BY <2>1, <4>2 DEF OneSender, Sending
      <4>. QED BY <1>4, <1>6, <1>11, <2>1, <4>1, <4>2, <4>3 DEF NotTaken, NoSubmitUnderWay
    <3>. QED BY <3>1, <3>2
  <2>2. ASSUME Fresh, NEW w \in Worker, pc[w] = "answered", answer[w] \in Unsent PROVE NotTaken'
    BY <2>2, <1>5, <1>6 DEF UnsentIsTrue
  <2>. QED BY <1>4, <2>1, <2>2 DEF UnsentIsTrue
<1>14. RefusalsAreReal'
  BY <1>1, <1>2, <1>3, <1>4 DEF RefusalsAreReal
<1>15. RepliesAreAwaited'
  BY <1>3, <1>4 DEF RepliesAreAwaited, Listening
<1>. QED BY <1>7, <1>8, <1>9, <1>12, <1>13, <1>14, <1>15

-----------------------------------------------------------------------------
(* The theorems.                                                           *)

LEMMA InitHolds == Init => SubmissionInv
  BY DEF Init, SubmissionInv, RefusalIsTrue, UnsentIsNotTaken, NobodyBeforeCreate,
     OneSender, FencedOnce, ReadyIsClear, WaitingIsAlone, UnsentIsTrue, RefusalsAreReal,
     RepliesAreAwaited, NotTaken, NoSubmitUnderWay, Fresh, Sending

LEMMA StepKept ==
  ASSUME TypeOK, SubmissionInv, [Next]_vars
  PROVE  SubmissionInv'
<1>1. CASE Create
  BY <1>1, CreateKept
<1>2. CASE Reconcile \/ Withdraw \/ Tick
  <2>1. Aside
    BY <1>2 DEF Reconcile, Withdraw, Tick, MarkUnknown, SetOutcome, Aside, Beyond, Row, Wire,
       outcomeVars, submitVars, workerVars
  <2>. QED BY <2>1, AsideKept
<1>3. ASSUME NEW w \in Worker, Job(w) PROVE SubmissionInv'
  BY <1>3, JobKept
<1>4. ASSUME NEW e \in Report, RecordCallback(e) PROVE SubmissionInv'
  <2>1. Aside
    BY <1>4 DEF RecordCallback, Aside, Row, Wire, outcomeVars, submitVars, workerVars
  <2>. QED BY <2>1, AsideKept
<1>5. ASSUME NEW e \in Report, Process(e) PROVE SubmissionInv'
  BY <1>5, ProcessAside, AsideKept
<1>6. ASSUME NEW m \in Scannable, Scan(m) \/ Manual(m) PROVE SubmissionInv'
  BY <1>6, ConfirmAside, AsideKept
<1>7. ASSUME NEW m \in net, Decide(m) PROVE SubmissionInv'
  BY <1>7, DecideKept
<1>8. CASE UNCHANGED vars
  BY <1>8, SameKept DEF vars, Row, Wire, outcomeVars, submitVars, workerVars
<1>. QED BY <1>1, <1>2, <1>3, <1>4, <1>5, <1>6, <1>7, <1>8 DEF Next

(* While the row is free of doubt it knows its only sender, and what that  *)
(* sender is told is true.                                                 *)
THEOREM Submission == Spec => []SubmissionInv
<1>1. TypeOK /\ SubmissionInv /\ [Next]_vars => SubmissionInv'
  BY StepKept
<1>. QED BY InitHolds, <1>1, Typing, PTL DEF Spec

(* A task that WES calls REJECTED was not and will not be taken by the     *)
(* WMS: for any number of workers, any lease, delay and budget.            *)
THEOREM Refusal == Spec => []RefusalIsTrue
<1>1. SubmissionInv => RefusalIsTrue
  BY DEF SubmissionInv
<1>. QED BY <1>1, Submission, PTL

(* Two workers are past the fence together only in doubt.                  *)
THEOREM Overlap == Spec => []OverlapOnlyInDoubt
<1>1. SubmissionInv => OverlapOnlyInDoubt
  <2>. SUFFICES ASSUME SubmissionInv, status = "PENDING", reason = "none"
                PROVE  Cardinality({w \in Worker : pc[w] \in {"ready", "waiting", "answered"}}) <= 1
    BY DEF OverlapOnlyInDoubt
  <2>. DEFINE S == {w \in Worker : pc[w] \in {"ready", "waiting", "answered"}}
  <2>1. S \subseteq {claim.by}
    BY DEF SubmissionInv, OneSender, Fresh, Sending
  <2>2. IsFiniteSet({claim.by}) /\ Cardinality({claim.by}) = 1
    BY FS_Singleton
  <2>3. Cardinality(S) <= Cardinality({claim.by})
    BY <2>1, <2>2, FS_Subset
  <2>. QED BY <2>2, <2>3
<1>. QED BY <1>1, Submission, PTL

=============================================================================
