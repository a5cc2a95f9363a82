------------------------ MODULE DeviceCommandProofs ------------------------
(* Proofs about DeviceCommand, for every value of its constants.           *)
EXTENDS DeviceCommand, TLAPS

USE NoCommandAssumption, TimeAssumption, StrayAssumption, BoundAssumption

-----------------------------------------------------------------------------
(* Types, by the groups of variables that the helpers write.               *)

(* A worker that is not idle has a command, claimed at a natural time.     *)
LEMMA BusyWorker ==
    ASSUME WorkerType, NEW w \in Worker, pc[w] # "idle"
    PROVE  job[w].cmd \in Command /\ job[w].token \in Nat /\ job[w].startedAt \in Nat
  BY DEF WorkerType

LEMMA LeaveType ==
    ASSUME RowType, NEW c \in Command, NEW s \in Status, NEW why \in Reason, Leave(c, s, why)
    PROVE  RowType'
  BY DEF RowType, Leave, NoClaim

LEMMA ReleaseType ==
    ASSUME RowType, NEW c \in Command, NEW at \in Nat, Release(c, at)
    PROVE  RowType'
  <1>1. "PENDING" \in Status
    BY DEF Status, Unclosed
  <1> QED
    BY <1>1 DEF RowType, Release, NoClaim

LEMMA ObserveType ==
    ASSUME ObservationType, NEW c \in Command,
           NEW kind \in {"NOT_ACCEPTED", "RESULT_UNKNOWN"},
           NEW why \in {"COMMAND_DEADLINE_EXPIRED", "NOT_DISPATCHED", "ECS_REFUSED"} \cup Reason,
           Observe(c, kind, why)
    PROVE  ObservationType'
  BY DEF ObservationType, Observe, Observation

LEMMA ReasonOf ==
    ASSUME RowType, NEW c \in Command
    PROVE  reason[c] \in Reason
  BY DEF RowType

LEMMA TimeOutType ==
    ASSUME RowType, ObservationType, NEW c \in Command, TimeOut(c)
    PROVE  RowType' /\ ObservationType'
  <1>1. "TIMED_OUT" \in Status
    BY DEF Status, Terminal
  <1> QED
    BY <1>1, LeaveType, ReasonOf, ObserveType DEF TimeOut

LEMMA RefuseType ==
    ASSUME RowType, ObservationType, NEW c \in Command,
           NEW why \in {"NOT_DISPATCHED", "ECS_REFUSED"}, RefuseCommand(c, why)
    PROVE  RowType' /\ ObservationType'
  <1>1. "FAILED" \in Status
    BY DEF Status, Terminal
  <1> QED
    BY <1>1, LeaveType, ReasonOf, ObserveType DEF RefuseCommand

LEMMA DoubtType ==
    ASSUME RowType, ObservationType, NEW c \in Command, NEW why \in Reason, Doubt(c, why)
    PROVE  RowType' /\ ObservationType'
  <1>1. "RECONCILING" \in Status
    BY DEF Status
  <1> QED
    BY <1>1, LeaveType, ObserveType DEF Doubt

LEMMA ReturnType ==
    ASSUME WorkerType, NEW w \in Worker, Return(w)
    PROVE  WorkerType'
  BY DEF WorkerType, Return, NoJob, NoAnswer, Answer

LEMMA AnsweredType ==
    ASSUME WorkerType, now \in Nat, NEW w \in Worker, pc[w] # "idle",
           NEW type \in Answer, Answered(w, type)
    PROVE  WorkerType'
  BY DEF WorkerType, Answered

LEMMA HangUpType ==
    ASSUME NetType, NEW w \in Worker, HangUp(w)
    PROVE  NetType'
  BY DEF NetType, HangUp

LEMMA FileType ==
    ASSUME EvidenceType, NEW c \in Command, NEW r \in Report, NEW s \in EvidenceStatus
    PROVE  File(c, r, s) \in [Command -> [Report -> EvidenceStatus]]
  BY DEF EvidenceType, File

LEMMA ReplyType ==
    ASSUME NetType, NEW m \in net, NEW type \in {"ACK", "BUSY", "REJECTED"}, Reply(m, type)
    PROVE  NetType'
  <1>1. [m EXCEPT !.type = type] \in Message
    BY DEF NetType, Message
  <1>2. net' \subseteq net \cup {[m EXCEPT !.type = type]}
    BY DEF Reply
  <1> QED
    BY <1>1, <1>2 DEF NetType

-----------------------------------------------------------------------------
(* Each step of a dispatching worker keeps the types.                      *)
LEMMA DispatchType ==
    ASSUME TypeOK, NEW w \in Worker, Dispatch(w)
    PROVE  TypeOK'
<1> USE DEF TypeOK
<1> DEFINE c == job[w].cmd
<1>1. ASSUME NEW d \in Command, Claim(w, d) PROVE TypeOK'
  <2>1. "DISPATCHING" \in Status
    BY DEF Status, Unclosed
  <2>2. RowType'
    BY <1>1, <2>1 DEF RowType, Claim
  <2>3. WorkerType'
    BY <1>1 DEF WorkerType, RowType, Claim
  <2> QED
    BY <1>1, <2>2, <2>3 DEF Claim, EvidenceType, ObservationType, NetType
<1>2. CASE EndpointInvalid(w)
  <2>1. c \in Command
    BY <1>2, BusyWorker DEF EndpointInvalid
  <2>2. RowType' /\ ObservationType'
    <3>1. CASE terms[c].eventDebug
      BY <1>2, <2>1, <3>1, RefuseType DEF EndpointInvalid
    <3>2. CASE ~terms[c].eventDebug
      <4>1. "RECONCILING" \in Status /\ "ENDPOINT_INVALID" \in Reason
        BY DEF Status, Reason
      <4> QED
        BY <1>2, <2>1, <3>2, <4>1, LeaveType, ObserveType DEF EndpointInvalid
    <3> QED
      BY <3>1, <3>2
  <2> QED
    BY <1>2, <2>2, ReturnType DEF EndpointInvalid, EvidenceType, NetType
<1>3. CASE EndpointUnavailable(w)
  <2>1. c \in Command /\ job[w].startedAt + RetryDelay \in Nat
    BY <1>3, BusyWorker DEF EndpointUnavailable
  <2>2. RowType' /\ ObservationType'
    <3>1. CASE terms[c].eventDebug
      BY <1>3, <2>1, <3>1, RefuseType DEF EndpointUnavailable
    <3>2. CASE ~terms[c].eventDebug
      BY <1>3, <2>1, <3>2, ReleaseType DEF EndpointUnavailable, ObservationType
    <3> QED
      BY <3>1, <3>2
  <2> QED
    BY <1>3, <2>2, ReturnType DEF EndpointUnavailable, EvidenceType, NetType
<1>4. CASE Authorize(w)
  <2>1. c \in Command
    BY <1>4, BusyWorker DEF Authorize
  <2>2. CASE terms[c].deadline <= now
    BY <1>4, <2>1, <2>2, TimeOutType, ReturnType DEF Authorize, EvidenceType, NetType
  <2>3. CASE ~(terms[c].deadline <= now)
    BY <1>4, <2>3 DEF Authorize, RowType, WorkerType, EvidenceType, ObservationType, NetType, rowVars
  <2> QED
    BY <2>2, <2>3
<1>5. CASE TooLateToSend(w)
  <2>1. c \in Command
    BY <1>5, BusyWorker DEF TooLateToSend
  <2> QED
    BY <1>5, <2>1, TimeOutType, ReturnType DEF TooLateToSend, EvidenceType, NetType
<1>6. CASE Send(w)
  <2>1. job[w].cmd \in Command /\ job[w].token \in Nat
    BY <1>6, BusyWorker DEF Send
  <2>2. NetType'
    BY <1>6, <2>1 DEF Send, NetType, Message
  <2>3. WorkerType'
    BY <1>6 DEF Send, WorkerType
  <2> QED
    BY <1>6, <2>2, <2>3 DEF Send, RowType, EvidenceType, ObservationType, rowVars
<1>7. CASE NotSent(w)
  <2>1. WorkerType'
    BY <1>7, AnsweredType DEF NotSent, Answer
  <2> QED
    BY <1>7, <2>1 DEF NotSent, RowType, EvidenceType, ObservationType, NetType, rowVars
<1>8. ASSUME NEW m \in net, Receive(w, m) PROVE TypeOK'
  <2>1. m.type \in Answer
    BY <1>8 DEF Receive, NetType, Message, Answer
  <2>2. WorkerType'
    BY <1>8, <2>1, AnsweredType DEF Receive
  <2> QED
    BY <1>8, <2>2, HangUpType DEF Receive, RowType, EvidenceType, ObservationType, rowVars
<1>9. CASE NoTrustedAnswer(w)
  <2>1. WorkerType'
    BY <1>9, AnsweredType DEF NoTrustedAnswer, Answer
  <2> QED
    BY <1>9, <2>1, HangUpType
       DEF NoTrustedAnswer, RowType, EvidenceType, ObservationType, rowVars
<1>10. CASE WriteAck(w)
  <2>1. c \in Command
    BY <1>10, BusyWorker DEF WriteAck
  <2>2. RowType' /\ ObservationType'
    <3>1. CASE answer[w].at >= terms[c].deadline
      <4>1. "ACK_AFTER_DEADLINE" \in Reason
        BY DEF Reason
      <4> QED
        BY <1>10, <2>1, <3>1, <4>1, DoubtType DEF WriteAck
    <3>2. CASE ~(answer[w].at >= terms[c].deadline)
      <4>1. "ACKNOWLEDGED" \in Status
        BY DEF Status, Unclosed
      <4> QED
        BY <1>10, <2>1, <3>2, <4>1, LeaveType, ReasonOf DEF WriteAck, ObservationType
    <3> QED
      BY <3>1, <3>2
  <2> QED
    BY <1>10, <2>2, ReturnType DEF WriteAck, EvidenceType, NetType
<1>11. CASE WriteRejected(w)
  <2>1. c \in Command
    BY <1>11, BusyWorker DEF WriteRejected
  <2> QED
    BY <1>11, <2>1, RefuseType, ReturnType DEF WriteRejected, EvidenceType, NetType
<1>12. CASE WriteUnknown(w)
  <2>1. c \in Command /\ "DELIVERY_UNKNOWN" \in Reason
    BY <1>12, BusyWorker DEF WriteUnknown, Reason
  <2> QED
    BY <1>12, <2>1, DoubtType, ReturnType DEF WriteUnknown, EvidenceType, NetType
<1>13. ASSUME NEW d \in RetryAfter \cup {RetryDelay}, WriteBusy(w, d) PROVE TypeOK'
  <2>1. c \in Command
    BY <1>13, BusyWorker DEF WriteBusy
  <2>2. SmallerOf(now + d, terms[c].deadline) \in Nat
    BY <2>1 DEF SmallerOf, RowType
  <2>3. RowType' /\ ObservationType'
    <3>1. CASE terms[c].eventDebug
      BY <1>13, <2>1, <3>1, RefuseType DEF WriteBusy
    <3>2. CASE ~terms[c].eventDebug
      BY <1>13, <2>1, <2>2, <3>2, ReleaseType DEF WriteBusy, ObservationType
    <3> QED
      BY <3>1, <3>2
  <2> QED
    BY <1>13, <2>3, ReturnType DEF WriteBusy, EvidenceType, NetType
<1>14. CASE FenceMiss(w)
  BY <1>14, ReturnType DEF FenceMiss, RowType, EvidenceType, ObservationType, NetType, rowVars
<1>15. CASE Crash(w)
  BY <1>15, ReturnType, HangUpType DEF Crash, RowType, EvidenceType, ObservationType, rowVars
<1> QED
  BY <1>1, <1>2, <1>3, <1>4, <1>5, <1>6, <1>7, <1>8, <1>9, <1>10, <1>11, <1>12, <1>13, <1>14,
     <1>15 DEF Dispatch

(* The scan and the callbacks keep the types.                              *)
LEMMA ReconcileType ==
    ASSUME TypeOK, NEW c \in Command, Reconcile(c)
    PROVE  TypeOK'
<1> USE DEF TypeOK, EvidenceType, NetType, WorkerType, workerVars
<1>1. CASE ReconcilePending(c)
  BY <1>1, TimeOutType DEF ReconcilePending
<1>2. CASE ReconcileDispatching(c)
  <2>1. "RECONCILING" \in Status /\ "DISPATCH_LEASE_EXPIRED" \in Reason
    BY DEF Status, Reason
  <2>2. RowType'
    BY <1>2, <2>1 DEF ReconcileDispatching, RowType
  <2> QED
    BY <1>2, <2>1, <2>2, ObserveType DEF ReconcileDispatching
<1>3. CASE ReconcileAcknowledged(c)
  <2>1. "ACK_DEADLINE_EXPIRED" \in Reason
    BY DEF Reason
  <2> QED
    BY <1>3, <2>1, DoubtType DEF ReconcileAcknowledged
<1> QED
  BY <1>1, <1>2, <1>3 DEF Reconcile

(* A report of another device or contract never becomes applicable: it is  *)
(* refused, or stays an orphan that creation does not pick up.             *)
ForeignIsSetApart ==
    \A c \in Command : evidence[c]["FOREIGN"] \in {"none", "ORPHAN", "REJECTED"}

LEMMA CallbackType ==
    ASSUME TypeOK, ForeignIsSetApart, NEW c \in Command, Callback(c)
    PROVE  TypeOK'
<1> USE DEF TypeOK
<1>1. ASSUME NEW r \in Report, AcceptResult(c, r) PROVE TypeOK'
  <2>1. "RECONCILING" \in Status /\ "RESULT_BEFORE_DISPATCH" \in Reason
    BY DEF Status, Reason
  <2>2. Admission(c, r) \in EvidenceStatus
    BY DEF Admission, EvidenceStatus
  <2>3. EvidenceType'
    BY <1>1, <2>2, FileType DEF AcceptResult, EvidenceType
  <2>4. RowType'
    BY <1>1, <2>1 DEF AcceptResult, RowType
  <2> QED
    BY <1>1, <2>3, <2>4 DEF AcceptResult, WorkerType, ObservationType, NetType, workerVars
<1>2. ASSUME NEW r \in Report, ProcessEvidence(c, r) PROVE TypeOK'
  <2>1. RowType' /\ EvidenceType'
    <3>1. CASE Ignore(c, r)
      <4>1. "IGNORED" \in EvidenceStatus
        BY DEF EvidenceStatus
      <4> QED
        BY <3>1, <4>1, FileType DEF Ignore, RowType, EvidenceType, rowVars
    <3>2. CASE SetAside(c, r)
      <4>1. "RECONCILING" \in EvidenceStatus
        BY DEF EvidenceStatus
      <4> QED
        BY <3>2, <4>1, FileType DEF SetAside, RowType, EvidenceType, rowVars
    <3>3. CASE Conclude(c, r) /\ r \in Matching
      <4>1. "APPLIED" \in EvidenceStatus /\ "SUCCEEDED" \in Status /\ "FAILED" \in Status
        BY DEF EvidenceStatus, Status, Terminal
      <4>2. EvidenceType'
        BY <3>3, <4>1, FileType DEF Conclude, Close, EvidenceType
      <4> QED
        BY <3>3, <4>1, <4>2 DEF Conclude, Close, RowType, NoClaim
    <3>4. r \in Matching
      BY <1>2 DEF ProcessEvidence, ForeignIsSetApart, Report
    <3> QED
      BY <1>2, <3>1, <3>2, <3>3, <3>4 DEF ProcessEvidence
  <2> QED
    BY <1>2, <2>1 DEF ProcessEvidence, WorkerType, ObservationType, NetType, workerVars
<1> QED
  BY <1>1, <1>2 DEF Callback

LEMMA EcsType ==
    ASSUME TypeOK, NEW m \in net, Ecs(m)
    PROVE  TypeOK'
<1> USE DEF TypeOK, RowType, WorkerType, EvidenceType, ObservationType, rowVars, workerVars
<1>1. CASE EcsAccept(m)
  <2>1. NetType'
    BY <1>1, ReplyType DEF EcsAccept
  <2>2. accepted' \in [Command -> Nat]
    BY <1>1 DEF EcsAccept, NetType, Message
  <2> QED
    BY <1>1, <2>1, <2>2 DEF EcsAccept
<1>2. ASSUME NEW type \in {"BUSY", "REJECTED"}, EcsRefuse(m, type) PROVE TypeOK'
  <2>1. NetType'
    BY <1>2, ReplyType DEF EcsRefuse
  <2> QED
    BY <1>2, <2>1 DEF EcsRefuse
<1> QED
  BY <1>1, <1>2 DEF Ecs

LEMMA CreateType ==
    ASSUME TypeOK, NEW c \in Command, NEW e \in BOOLEAN, NEW t \in Timeout, Create(c, e, t)
    PROVE  TypeOK'
<1>1. "PENDING" \in Status /\ "RECONCILING" \in Status
  BY DEF Status, Unclosed
<1>2. "none" \in Reason /\ "RESULT_BEFORE_DISPATCH" \in Reason
  BY DEF Reason
<1>3. RowType'
  BY <1>1, <1>2 DEF TypeOK, RowType, Create
<1>4. EvidenceType'
  <2> DEFINE early == {r \in Matching : evidence[c][r] = "ORPHAN"}
             filed == [r \in Report |-> IF r \in early THEN "PENDING" ELSE evidence[c][r]]
  <2>1. filed \in [Report -> EvidenceStatus]
    BY DEF TypeOK, EvidenceType, EvidenceStatus
  <2>2. evidence' = [evidence EXCEPT ![c] = filed]
    BY DEF Create
  <2> HIDE DEF filed
  <2> QED
    BY <2>1, <2>2 DEF TypeOK, EvidenceType
<1> QED
  BY <1>3, <1>4 DEF TypeOK, Create, WorkerType, ObservationType, NetType, workerVars

(* No worker, scan, device or clock step touches the evidence.             *)
LEMMA EvidenceWriters ==
    ASSUME NEW w \in Worker, Dispatch(w)
    PROVE  UNCHANGED evidence
  BY DEF Dispatch, Claim, EndpointInvalid, EndpointUnavailable, Authorize, TooLateToSend, Send,
         NotSent, Receive, NoTrustedAnswer, WriteAck, WriteBusy, WriteRejected, WriteUnknown,
         FenceMiss, Crash

LEMMA ForeignStep ==
    ASSUME TypeOK, ForeignIsSetApart, [Next]_vars
    PROVE  ForeignIsSetApart'
<1> USE DEF TypeOK, EvidenceType, ForeignIsSetApart
<1>1. ASSUME NEW c \in Command, NEW e \in BOOLEAN, NEW t \in Timeout, Create(c, e, t)
      PROVE ForeignIsSetApart'
  <2> DEFINE early == {r \in Matching : evidence[c][r] = "ORPHAN"}
             filed == [r \in Report |-> IF r \in early THEN "PENDING" ELSE evidence[c][r]]
  <2>1. filed["FOREIGN"] = evidence[c]["FOREIGN"]
    BY DEF Report, Matching
  <2>2. evidence' = [evidence EXCEPT ![c] = filed]
    BY <1>1 DEF Create
  <2> HIDE DEF filed
  <2> QED
    BY <2>1, <2>2
<1>2. ASSUME NEW c \in Command, NEW r \in Report, AcceptResult(c, r)
      PROVE ForeignIsSetApart'
  <2>1. r = "FOREIGN" => Admission(c, r) \in {"ORPHAN", "REJECTED"}
    BY DEF Admission
  <2>2. evidence' = evidence \/ evidence' = File(c, r, Admission(c, r))
    BY <1>2 DEF AcceptResult
  <2> QED
    BY <2>1, <2>2 DEF File, Report, Matching
<1>3. ASSUME NEW c \in Command, NEW r \in Report, ProcessEvidence(c, r)
      PROVE ForeignIsSetApart'
  <2>1. r # "FOREIGN"
    BY <1>3 DEF ProcessEvidence
  <2>2. \E s \in EvidenceStatus : evidence' = File(c, r, s)
    BY <1>3 DEF ProcessEvidence, Ignore, SetAside, Conclude, Close, EvidenceStatus
  <2> QED
    BY <2>1, <2>2 DEF File, Report, Matching
<1>4. ASSUME NEW c \in Command, Reconcile(c) PROVE ForeignIsSetApart'
  BY <1>4 DEF Reconcile, ReconcilePending, ReconcileDispatching, ReconcileAcknowledged
<1>5. ASSUME NEW m \in net, Ecs(m) PROVE ForeignIsSetApart'
  BY <1>5 DEF Ecs, EcsAccept, EcsRefuse
<1>6. CASE Tick
  BY <1>6 DEF Tick
<1>7. CASE UNCHANGED vars
  BY <1>7 DEF vars
<1> QED
  BY <1>1, <1>2, <1>3, <1>4, <1>5, <1>6, <1>7, EvidenceWriters DEF Next, Callback

-----------------------------------------------------------------------------
LEMMA TypeInit == Init => TypeOK /\ ForeignIsSetApart
  BY DEF Init, TypeOK, RowType, WorkerType, EvidenceType, ObservationType, NetType, Status,
         Unclosed, Terminal, Reason, Matching, Report, EvidenceStatus, Observation, Answer,
         Message, NoClaim, NoTerms, NoJob, NoAnswer, ForeignIsSetApart

LEMMA TypeStep ==
    ASSUME TypeOK, ForeignIsSetApart, [Next]_vars
    PROVE  TypeOK'
<1>1. CASE Tick
  BY <1>1 DEF Tick, TypeOK, RowType, WorkerType, EvidenceType, ObservationType, NetType,
              rowVars, workerVars
<1>2. CASE UNCHANGED vars
  BY <1>2 DEF vars, TypeOK, RowType, WorkerType, EvidenceType, ObservationType, NetType,
              rowVars, workerVars
<1> QED
  BY <1>1, <1>2, CreateType, DispatchType, ReconcileType, CallbackType, EcsType DEF Next

(* Every variable of the dispatch protocol keeps its type, in particular a *)
(* worker has a command exactly while dispatch_one runs, and only a report *)
(* of the command's own device and contract ever becomes its result.       *)
THEOREM Typing == Spec => []TypeOK
<1>1. TypeOK /\ ForeignIsSetApart /\ [Next]_vars => (TypeOK /\ ForeignIsSetApart)'
  BY TypeStep, ForeignStep
<1> QED
  BY <1>1, TypeInit, PTL DEF Spec
=============================================================================
