--------------------------- MODULE TransportTask ---------------------------
(***************************************************************************)
(* One TransportTask: a frozen request to move members (racks or bins)     *)
(* that WES submits to the WMS under one operation identity, and the       *)
(* evidence the WMS sends back.  Submission workers claim the task, mark   *)
(* that sending starts, send outside every transaction and write the       *)
(* answer back; a scan finds sends nobody wrote back.  Position and result *)
(* callbacks are stored in one transaction and applied in another, in any  *)
(* order; a bin may also be confirmed locally, by scan or by hand.         *)
(*                                                                         *)
(* No transaction modelled here reads the row of another task, so one task *)
(* is the whole state; any number of workers act on it.                    *)
(***************************************************************************)
EXTENDS Integers, FiniteSets

CONSTANTS
    Member,         \* the objects the task moves
    SlotTarget,     \* members whose target is a rack slot (RACK_BIN_SLOT)
    Scannable,      \* members whose target is a handoff position
    PositionReport, \* position callbacks the WMS may send
    ResultReport,   \* result callbacks the WMS may send
    Worker,         \* submission workers
    NoWorker,       \* the holder of no claim
    Lease,          \* seconds a claim is valid (30 in the code)
    RetryDelay,     \* seconds between attempts (2)
    MaxSubmit,      \* MAX_SUBMIT_ATTEMPTS (3)
    WmsFaults,      \* may the WMS answer CONFLICT and report unaccepted tasks
    MaxClock        \* bound of the model: the clock stops here

(* What a result says of one member.  A success names the target exactly   *)
(* (_validate_result_frozen_identity); a failure or a cancellation names a *)
(* position or says that it is unknown.  Failure codes and faces are left  *)
(* out.  "matches" of a result: kind, members and targets are the frozen   *)
(* ones; "at" of a placement: is its final_position the frozen target.     *)
MemberResult == {[status |-> "SUCCEEDED", position |-> "target"]} \cup
                [status : {"FAILED"}, position : {"target", "elsewhere", "unknown"}]
Milestone == {"SOURCE_PICKED", "TARGET_PLACED", "POSITION_UNKNOWN"}

ASSUME MemberAssumption == SlotTarget \subseteq Member /\ Scannable \subseteq Member \ SlotTarget
ASSUME ReportAssumption ==
    /\ PositionReport \subseteq [op : {"position"}, member : Member, milestone : Milestone,
                                 at : {"target", "elsewhere"}]
    /\ ResultReport \subseteq [op : {"result"}, revision : Nat \ {0}, matches : BOOLEAN,
                               of : [Member -> MemberResult]]
ASSUME WorkerAssumption == NoWorker \notin Worker
ASSUME NumberAssumption == /\ Lease \in Nat \ {0} /\ RetryDelay \in Nat
                           /\ MaxSubmit \in Nat \ {0} /\ MaxClock \in Nat
ASSUME FaultAssumption == WmsFaults \in BOOLEAN

Report == PositionReport \cup ResultReport

VARIABLES
    now,            \* the database clock
    status,         \* transport_tasks: the row, column by column
    reason,         \* reason_code
    claim,          \* submit_claim_token (its worker) and submit_claim_until
    sendStarted,    \* is send_started_at set
    attempts,       \* submit_attempt_count
    nextSubmit,     \* next_submit_at
    version,        \* outcome_version
    revision,       \* last_applied_wms_outcome_revision
    memberStatus,   \* transport_members: status
    position,       \* final_position_json and position_unknown
    evidence,       \* transport_evidence: status, by report
    pc,             \* where each submit_pending_tasks loop is
    attempt,        \* the attempt it sends
    answer,         \* what submit returned
    net,            \* requests and answers under way
    decision        \* what the WMS decided about the operation identity

memberVars == <<memberStatus, position>>
workerVars == <<pc, attempt, answer>>
submitVars == <<claim, sendStarted, attempts, nextSubmit>>
outcomeVars == <<status, reason, version, revision>>
vars == <<now, outcomeVars, submitVars, memberVars, evidence, workerVars, net, decision>>

-----------------------------------------------------------------------------
(* Data.                                                                   *)

Terminal == {"REJECTED", "SUCCEEDED", "FAILED"}
Status == {"NONE", "PENDING", "ACCEPTED", "RECONCILING"} \cup Terminal
Reason == {"none", "SUBMIT_DELIVERY_UNKNOWN", "EVIDENCE_PENDING", "SUBMIT_CONFLICT",
           "EVIDENCE_CONFLICT", "POSITION_UNKNOWN", "WMS_REJECTED", "RETRY_EXHAUSTED",
           "WITHDRAWN", "FAILURE", "SCAN_CONFIRMED", "MANUAL_CONFIRMED"}
Confirmed == {"SCAN_CONFIRMED", "MANUAL_CONFIRMED"}

(* SubmitCode; RECEIVED and DUPLICATE are both ACK, and NOT_SENT stands    *)
(* for every send that provably did not leave.                             *)
Answer == {"ACK", "REJECTED", "CONFLICT", "UNAVAILABLE", "NOT_SENT", "UNKNOWN"}
Message == [type : {"SUBMIT", "ACK", "REJECTED", "CONFLICT", "UNAVAILABLE"}, attempt : Nat]

NoClaim == [by |-> NoWorker, until |-> 0]
Known == {"target", "elsewhere"}

(* The type of every variable.                                             *)
TypeOK ==
    /\ now \in Nat
    /\ status \in Status /\ reason \in Reason
    /\ claim \in [by : Worker \cup {NoWorker}, until : Nat]
    /\ sendStarted \in BOOLEAN /\ attempts \in Nat /\ nextSubmit \in Nat
    /\ version \in Nat /\ revision \in Nat
    /\ memberStatus \in [Member -> {"PENDING", "SUCCEEDED", "FAILED"}]
    /\ position \in [Member -> Known \cup {"none", "unknown"}]
    /\ evidence \in [Report -> {"none", "ORPHAN", "PENDING", "APPLIED", "CONFLICT"}]
    /\ pc \in [Worker -> {"idle", "claimed", "ready", "waiting", "answered"}]
    /\ attempt \in [Worker -> Nat]
    /\ answer \in [Worker -> Answer]
    /\ net \subseteq Message
    /\ decision \in {"none", "accepted", "rejected"}

Init ==
    /\ now = 0
    /\ status = "NONE" /\ reason = "none"
    /\ claim = NoClaim /\ sendStarted = FALSE /\ attempts = 0 /\ nextSubmit = 0
    /\ version = 0 /\ revision = 0
    /\ memberStatus = [m \in Member |-> "PENDING"]
    /\ position = [m \in Member |-> "none"]
    /\ evidence = [e \in Report |-> "none"]
    /\ pc = [w \in Worker |-> "idle"]
    /\ attempt = [w \in Worker |-> 0]
    /\ answer = [w \in Worker |-> "UNKNOWN"]
    /\ net = {}
    /\ decision = "none"

-----------------------------------------------------------------------------
(* Helpers.                                                                *)

HasEvidence == \E e \in Report : evidence[e] # "none"
Submittable == status = "PENDING" /\ reason \in {"none", "SUBMIT_DELIVERY_UNKNOWN"}

(* _set_outcome, and the outcome a result forms.                           *)
SetOutcome(target, why) ==
    /\ status' = target
    /\ reason' = why
    /\ version' = version + 1

ClearClaim == claim' = NoClaim

(* Mutant of MarkUnknown: the doubt is written down as if nothing had been *)
(* sent.                                                                   *)
RetryWithoutDoubt ==
    /\ status' = "PENDING"
    /\ reason' = "none"
    /\ sendStarted' = FALSE
    /\ nextSubmit' = now + RetryDelay
    /\ ClearClaim
    /\ UNCHANGED <<version, revision, attempts>>

(* _mark_submit_delivery_unknown: the frozen identity is sent again.       *)
MarkUnknown ==
    /\ status' = "PENDING"
    /\ reason' = "SUBMIT_DELIVERY_UNKNOWN"
    /\ sendStarted' = FALSE
    /\ nextSubmit' = now + RetryDelay
    /\ ClearClaim
    /\ UNCHANGED <<version, revision, attempts>>

Return(w) == /\ pc' = [pc EXCEPT ![w] = "idle"]
             /\ attempt' = [attempt EXCEPT ![w] = 0]
             /\ answer' = [answer EXCEPT ![w] = "UNKNOWN"]

Answered(w, code) == /\ pc' = [pc EXCEPT ![w] = "answered"]
                     /\ answer' = [answer EXCEPT ![w] = code]
                     /\ UNCHANGED attempt

HangUp(w) == net' = {m \in net : m.type = "SUBMIT" \/ m.attempt # attempt[w]}

-----------------------------------------------------------------------------
(* Creating the task; claiming, fencing and sending the submission.        *)

(* _create_task_in_session: evidence that came first is put back in line,  *)
(* and the task then waits for it instead of being submitted.              *)
Create ==
    /\ status = "NONE"
    /\ status' = "PENDING"
    /\ reason' = IF HasEvidence THEN "EVIDENCE_PENDING" ELSE "none"
    /\ evidence' = [e \in Report |-> IF evidence[e] = "ORPHAN" THEN "PENDING" ELSE evidence[e]]
    /\ UNCHANGED <<now, version, revision, submitVars, memberVars, workerVars, net, decision>>

(* Bound: a claim is taken only if the clock of the model can outrun it.   *)
ClockOutrunsLease == now + Lease < MaxClock

(* claim_next_pending_task.                                                *)
Claim(w) ==
    /\ pc[w] = "idle"
    /\ ClockOutrunsLease
    /\ Submittable
    /\ attempts < MaxSubmit \/ reason = "SUBMIT_DELIVERY_UNKNOWN"
    /\ ~sendStarted
    /\ ~HasEvidence
    /\ nextSubmit <= now
    /\ claim.by = NoWorker \/ claim.until < now
    /\ claim' = [by |-> w, until |-> now + Lease]
    /\ pc' = [pc EXCEPT ![w] = "claimed"]
    /\ UNCHANGED <<now, outcomeVars, sendStarted, attempts, nextSubmit, memberVars, evidence,
                   attempt, answer, net, decision>>

LeaseMatches(w) == claim.by = w /\ claim.until >= now

(* The second transaction of submit_pending_tasks: the last look at the    *)
(* row before the send.  Only a passed fence counts as an attempt.         *)
Fence(w) ==
    /\ pc[w] = "claimed"
    /\ Submittable /\ LeaseMatches(w) /\ ~HasEvidence
    /\ attempts' = attempts + 1
    /\ sendStarted' = TRUE
    /\ pc' = [pc EXCEPT ![w] = "ready"]
    /\ attempt' = [attempt EXCEPT ![w] = attempts + 1]
    /\ UNCHANGED <<now, outcomeVars, claim, nextSubmit, memberVars, evidence, answer, net, decision>>

FenceMiss(w) ==
    /\ pc[w] = "claimed"
    /\ ~(Submittable /\ LeaseMatches(w)) \/ HasEvidence
    /\ IF Submittable /\ LeaseMatches(w) THEN ClearClaim ELSE UNCHANGED claim
    /\ Return(w)
    /\ UNCHANGED <<now, outcomeVars, sendStarted, attempts, nextSubmit, memberVars, evidence,
                   net, decision>>

(* TransportWmsAdapter.submit: the request leaves, or provably does not.   *)
Send(w) ==
    /\ pc[w] = "ready"
    /\ pc' = [pc EXCEPT ![w] = "waiting"]
    /\ net' = net \cup {[type |-> "SUBMIT", attempt |-> attempt[w]]}
    /\ UNCHANGED <<now, outcomeVars, submitVars, memberVars, evidence, attempt, answer, decision>>

NotSent(w) ==
    /\ pc[w] = "ready"
    /\ Answered(w, "NOT_SENT")
    /\ UNCHANGED <<now, outcomeVars, submitVars, memberVars, evidence, net, decision>>

(* The answer of the WMS, mapped by _map_response_code.                    *)
Receive(w) ==
    /\ pc[w] = "waiting"
    /\ \E m \in net : /\ m.type # "SUBMIT" /\ m.attempt = attempt[w]
                      /\ Answered(w, m.type)
    /\ HangUp(w)
    /\ UNCHANGED <<now, outcomeVars, submitVars, memberVars, evidence, decision>>

(* A timeout, a lost connection or an answer the adapter cannot trust.     *)
NoTrustedAnswer(w) ==
    /\ pc[w] = "waiting"
    /\ Answered(w, "UNKNOWN")
    /\ HangUp(w)
    /\ UNCHANGED <<now, outcomeVars, submitVars, memberVars, evidence, decision>>

(* The job dies or is cancelled, or the adapter raises: nothing is         *)
(* written back, and the claim and send_started_at stay on the row.        *)
Crash(w) ==
    /\ pc[w] # "idle"
    /\ Return(w)
    /\ HangUp(w)
    /\ UNCHANGED <<now, outcomeVars, submitVars, memberVars, evidence, decision>>

-----------------------------------------------------------------------------
(* _apply_submit_result, one action per kind of answer.                    *)

ReleaseIfLeased(w) == IF LeaseMatches(w) THEN ClearClaim ELSE UNCHANGED claim

(* Mutant of WriteAck: a late acknowledgement is written over any status.  *)
AckWhatever(w) ==
    /\ pc[w] = "answered" /\ answer[w] = "ACK"
    /\ status' = "ACCEPTED" /\ reason' = "none"
    /\ ReleaseIfLeased(w)
    /\ Return(w)
    /\ UNCHANGED <<now, version, revision, sendStarted, attempts, nextSubmit, memberVars,
                   evidence, net, decision>>

(* An acknowledgement counts whoever holds the lease now.                  *)
WriteAck(w) ==
    /\ pc[w] = "answered" /\ answer[w] = "ACK"
    /\ status = "PENDING"
    /\ status' = "ACCEPTED" /\ reason' = "none"
    /\ ReleaseIfLeased(w)
    /\ Return(w)
    /\ UNCHANGED <<now, version, revision, sendStarted, attempts, nextSubmit, memberVars,
                   evidence, net, decision>>

(* So does a refusal, unless evidence shows the WMS took the task.         *)
WriteRefusal(w) ==
    /\ pc[w] = "answered" /\ answer[w] \in {"REJECTED", "CONFLICT"}
    /\ status = "PENDING" /\ ~HasEvidence
    /\ \/ answer[w] = "REJECTED" /\ SetOutcome("REJECTED", "WMS_REJECTED")
       \/ answer[w] = "CONFLICT" /\ SetOutcome("RECONCILING", "SUBMIT_CONFLICT")
    /\ ReleaseIfLeased(w)
    /\ Return(w)
    /\ UNCHANGED <<now, revision, sendStarted, attempts, nextSubmit, memberVars, evidence,
                   net, decision>>

Unsent == {"NOT_SENT", "UNAVAILABLE"}

(* Mutants of WriteUnsent: an unsent retry clears the doubt of an earlier  *)
(* send; and one attempt too many.                                         *)
RetryFrom(w, spent) ==
    /\ ClearClaim
    /\ sendStarted' = FALSE
    /\ \/ spent /\ SetOutcome("REJECTED", "RETRY_EXHAUSTED") /\ UNCHANGED nextSubmit
       \/ /\ ~spent
          /\ reason' = "none" /\ nextSubmit' = now + RetryDelay
          /\ UNCHANGED <<status, version>>
    /\ Return(w)
    /\ UNCHANGED <<now, revision, attempts, memberVars, evidence, net, decision>>

ForgetDoubt(w) ==
    /\ pc[w] = "answered" /\ answer[w] \in Unsent
    /\ status = "PENDING" /\ LeaseMatches(w)
    /\ RetryFrom(w, attempts >= MaxSubmit)

OneAttemptMore(w) ==
    /\ pc[w] = "answered" /\ answer[w] \in Unsent
    /\ status = "PENDING" /\ LeaseMatches(w)
    /\ reason # "SUBMIT_DELIVERY_UNKNOWN"
    /\ RetryFrom(w, attempts > MaxSubmit)

(* A send that did not get through is retried MaxSubmit times, but the     *)
(* doubt an earlier send left behind outlives it.                          *)
WriteUnsent(w) ==
    /\ pc[w] = "answered" /\ answer[w] \in Unsent
    /\ status = "PENDING" /\ LeaseMatches(w)
    /\ reason # "SUBMIT_DELIVERY_UNKNOWN"
    /\ ClearClaim
    /\ sendStarted' = FALSE
    /\ \/ /\ attempts >= MaxSubmit
          /\ SetOutcome("REJECTED", "RETRY_EXHAUSTED")
          /\ UNCHANGED nextSubmit
       \/ /\ attempts < MaxSubmit
          /\ reason' = "none" /\ nextSubmit' = now + RetryDelay
          /\ UNCHANGED <<status, version>>
    /\ Return(w)
    /\ UNCHANGED <<now, revision, attempts, memberVars, evidence, net, decision>>

WriteDoubt(w) ==
    /\ pc[w] = "answered"
    /\ answer[w] = "UNKNOWN" \/ (answer[w] \in Unsent /\ reason = "SUBMIT_DELIVERY_UNKNOWN")
    /\ status = "PENDING" /\ LeaseMatches(w)
    /\ MarkUnknown
    /\ Return(w)
    /\ UNCHANGED <<now, memberVars, evidence, net, decision>>

(* The early returns: the row has moved on.                                *)
IgnoreAnswer(w) ==
    /\ pc[w] = "answered"
    /\ \/ status # "PENDING"
       \/ answer[w] \in {"REJECTED", "CONFLICT"} /\ HasEvidence
       \/ answer[w] \in Unsent \cup {"UNKNOWN"} /\ ~LeaseMatches(w)
    /\ Return(w)
    /\ UNCHANGED <<now, outcomeVars, submitVars, memberVars, evidence, net, decision>>

(* Mutant of Reconcile: a task already in doubt is left alone.             *)
ReconcileOnce ==
    /\ status = "PENDING" /\ reason = "none" /\ sendStarted
    /\ claim.by # NoWorker /\ claim.until < now
    /\ MarkUnknown
    /\ UNCHANGED <<now, memberVars, evidence, workerVars, net, decision>>

(* reconcile_overdue_tasks: a started send whose lease ran out.            *)
Reconcile ==
    /\ Submittable /\ sendStarted
    /\ claim.by # NoWorker /\ claim.until < now
    /\ MarkUnknown
    /\ UNCHANGED <<now, memberVars, evidence, workerVars, net, decision>>

(* finalize_unsent_task_in_session and _is_unsent_task_finalizable: the    *)
(* picking task that wanted the move is cancelled.                         *)
Withdraw ==
    /\ status = "PENDING" /\ ~sendStarted /\ claim = NoClaim /\ ~HasEvidence
    /\ SetOutcome("FAILED", "WITHDRAWN")
    /\ UNCHANGED <<now, revision, submitVars, memberVars, evidence, workerVars, net, decision>>

-----------------------------------------------------------------------------
(* Evidence.                                                               *)

(* record_callback: a fresh message is stored, for the task or for the     *)
(* task to come; replays and a second result of one revision are not.      *)
RecordCallback(e) ==
    /\ evidence[e] = "none"
    /\ decision = "accepted" \/ WmsFaults
    /\ e.op = "result" => \A f \in ResultReport : f.revision = e.revision => evidence[f] = "none"
    /\ evidence' = [evidence EXCEPT ![e] = IF status = "NONE" THEN "ORPHAN" ELSE "PENDING"]
    /\ UNCHANGED <<now, outcomeVars, submitVars, memberVars, workerVars, net, decision>>

(* The handler of a TransportContractError in process_pending_evidence.    *)
Conflict(e) ==
    /\ evidence' = [evidence EXCEPT ![e] = "CONFLICT"]
    /\ IF status \in Terminal \/ (status = "RECONCILING" /\ reason = "EVIDENCE_CONFLICT")
       THEN UNCHANGED <<status, reason, version>>
       ELSE SetOutcome("RECONCILING", "EVIDENCE_CONFLICT")
    /\ UNCHANGED <<now, revision, submitVars, memberVars, workerVars, net, decision>>

Applied(e) == evidence' = [evidence EXCEPT ![e] = "APPLIED"]

ApplyNothing(e) ==
    /\ Applied(e)
    /\ UNCHANGED <<now, outcomeVars, submitVars, memberVars, workerVars, net, decision>>

(* _accept_position_fact: the first sign of movement accepts the task.     *)
AcceptPositionFact ==
    /\ IF status = "PENDING" THEN status' = "ACCEPTED" /\ reason' = "none"
                             ELSE UNCHANGED <<status, reason>>
    /\ IF status = "PENDING" /\ reason = "SUBMIT_DELIVERY_UNKNOWN" THEN ClearClaim ELSE UNCHANGED claim
    /\ UNCHANGED <<version, sendStarted, attempts, nextSubmit>>

(* _apply_position_evidence: what already holds, what contradicts the      *)
(* row, and what moves it.                                                 *)
PositionHolds(e) ==
    /\ status # "REJECTED"
    /\ \/ e.milestone = "SOURCE_PICKED" /\ position[e.member] \in Known
       \/ /\ e.milestone = "TARGET_PLACED" /\ position[e.member] = e.at
          /\ e.at = "target" \/ status \in Terminal

(* Mutant of PositionMoves: also over a confirmed position.                *)
OverwritesPosition(e) ==
    /\ status \notin Terminal
    /\ e.milestone = "SOURCE_PICKED" => position[e.member] # "unknown"
    /\ e.milestone = "TARGET_PLACED" => e.at = "target"

PositionMoves(e) ==
    /\ status \notin Terminal
    /\ position[e.member] \notin Known
    /\ e.milestone = "SOURCE_PICKED" => position[e.member] # "unknown"
    /\ e.milestone = "TARGET_PLACED" => e.at = "target"

ProcessPosition(e) ==
    /\ evidence[e] = "PENDING"
    /\ \/ PositionHolds(e) /\ ApplyNothing(e)
       \/ ~PositionHolds(e) /\ ~PositionMoves(e) /\ Conflict(e)
       \/ /\ PositionMoves(e)
          /\ \/ /\ e.milestone = "SOURCE_PICKED"
                /\ AcceptPositionFact
                /\ UNCHANGED position
             \/ /\ e.milestone = "TARGET_PLACED"
                /\ AcceptPositionFact
                /\ position' = [position EXCEPT ![e.member] = "target"]
             \/ /\ e.milestone = "POSITION_UNKNOWN"
                /\ SetOutcome("RECONCILING", "POSITION_UNKNOWN")
                /\ position' = [position EXCEPT ![e.member] = "unknown"]
                /\ UNCHANGED submitVars
          /\ Applied(e)
          /\ UNCHANGED <<now, revision, memberStatus, workerVars, net, decision>>

(* _apply_result_evidence: what the rows already say of a member, the      *)
(* placements a success must wait for, and the outcome that is formed.  A  *)
(* scanned member's own fact is repeated by every result that passes.      *)
Contradicts(e) ==
    \E m \in Member : /\ position[m] \in Known
                      /\ \/ e.of[m].position # position[m]
                         \/ memberStatus[m] # "PENDING" /\ e.of[m].status # memberStatus[m]

PlacementApplied(m) ==
    \E e \in PositionReport : /\ e.member = m /\ e.milestone = "TARGET_PLACED" /\ e.at = "target"
                              /\ evidence[e] = "APPLIED"

(* Mutant of AwaitsPlacement: a success is taken at its word.              *)
TakesItsWord(e) == FALSE

AwaitsPlacement(e) ==
    /\ ~Contradicts(e)
    /\ \E m \in SlotTarget : e.of[m].status = "SUCCEEDED" /\ ~PlacementApplied(m)

Succeeds(e) == \A m \in Member : e.of[m].status = "SUCCEEDED"
LocatesAll(e) == \A m \in Member : e.of[m].position \in Known

Stale(e) == e.matches /\ status # "REJECTED" /\ e.revision <= revision

(* Mutant of Agrees: any later result moves the cursor.                    *)
AnyLaterResult(e) ==
    /\ e.matches /\ e.revision > revision
    /\ status = "SUCCEEDED" /\ reason \in Confirmed

(* A late result that agrees with a local confirmation moves the cursor.   *)
Agrees(e) ==
    /\ e.matches /\ e.revision > revision
    /\ status = "SUCCEEDED" /\ reason \in Confirmed /\ Succeeds(e)

Open(e) == e.matches /\ e.revision > revision /\ status \notin Terminal

(* Mutant of ApplyResult: a failed member is looked for first.             *)
FailedFirst(e) ==
    /\ memberStatus' = [m \in Member |-> e.of[m].status]
    /\ position' = [m \in Member |-> e.of[m].position]
    /\ \/ ~Succeeds(e) /\ SetOutcome("FAILED", "FAILURE")
       \/ Succeeds(e) /\ SetOutcome("SUCCEEDED", "none")
    /\ revision' = e.revision
    /\ Applied(e)
    /\ UNCHANGED <<now, submitVars, workerVars, net, decision>>

ApplyResult(e) ==
    /\ memberStatus' = [m \in Member |-> e.of[m].status]
    /\ position' = [m \in Member |-> e.of[m].position]
    /\ \/ ~LocatesAll(e) /\ SetOutcome("RECONCILING", "POSITION_UNKNOWN")
       \/ LocatesAll(e) /\ ~Succeeds(e) /\ SetOutcome("FAILED", "FAILURE")
       \/ Succeeds(e) /\ SetOutcome("SUCCEEDED", "none")
    /\ revision' = e.revision
    /\ Applied(e)
    /\ UNCHANGED <<now, submitVars, workerVars, net, decision>>

(* Mutant of ProcessResult: a stale result is skipped, not closed.         *)
LeaveStaleResults(e) ==
    /\ evidence[e] = "PENDING"
    /\ \/ Open(e) /\ ~Contradicts(e) /\ ~AwaitsPlacement(e) /\ ApplyResult(e)
       \/ ~Stale(e) /\ ~Agrees(e) /\ ~(Open(e) /\ ~Contradicts(e)) /\ Conflict(e)

(* A result that waits for a placement stays PENDING: no step.             *)
ProcessResult(e) ==
    /\ evidence[e] = "PENDING"
    /\ \/ Stale(e) /\ ApplyNothing(e)
       \/ /\ Agrees(e)
          /\ revision' = e.revision
          /\ Applied(e)
          /\ UNCHANGED <<now, status, reason, version, submitVars, memberVars, workerVars,
                         net, decision>>
       \/ Open(e) /\ ~Contradicts(e) /\ ~AwaitsPlacement(e) /\ ApplyResult(e)
       \/ ~Stale(e) /\ ~Agrees(e) /\ ~(Open(e) /\ ~Contradicts(e)) /\ Conflict(e)

Process(e) == \/ e \in PositionReport /\ ProcessPosition(e)
              \/ e \in ResultReport /\ ProcessResult(e)

-----------------------------------------------------------------------------
(* Local confirmation.                                                     *)

Delivered(m) == /\ memberStatus' = [memberStatus EXCEPT ![m] = "SUCCEEDED"]
                /\ position' = [position EXCEPT ![m] = "target"]

Confirm(why) == /\ SetOutcome("SUCCEEDED", why)
                /\ nextSubmit' = 0
                /\ ClearClaim

(* confirm_bin_arrival_in_session: a device scans the bin at its target.   *)
Scan(m) ==
    /\ decision = "accepted" \/ WmsFaults
    /\ status \notin {"NONE"} \cup Terminal
    /\ memberStatus[m] = "PENDING" \/ position[m] = "unknown"
    /\ Delivered(m)
    /\ IF \A other \in Member : memberStatus'[other] = "SUCCEEDED" /\ position'[other] = "target"
       THEN Confirm("SCAN_CONFIRMED")
       ELSE UNCHANGED <<status, reason, version, nextSubmit, claim>>
    /\ UNCHANGED <<now, revision, sendStarted, attempts, evidence, workerVars, net, decision>>

(* confirm_manual_bin_delivery: a named person confirms a single bin.      *)
Manual(m) ==
    /\ Member = {m}
    /\ status \in {"ACCEPTED", "RECONCILING"}
    /\ memberStatus[m] = "PENDING"
    /\ \A e \in ResultReport : evidence[e] # "PENDING"
    /\ Delivered(m)
    /\ Confirm("MANUAL_CONFIRMED")
    /\ UNCHANGED <<now, revision, sendStarted, attempts, evidence, workerVars, net, decision>>

-----------------------------------------------------------------------------
(* The WMS (not in this repository): one decision per operation identity,  *)
(* repeated at every replay; UNAVAILABLE decides nothing.                  *)

Listening(n) == \E w \in Worker : pc[w] = "waiting" /\ attempt[w] = n

Reply(m, type) ==
    net' = (net \ {m}) \cup
           (IF Listening(m.attempt) THEN {[type |-> type, attempt |-> m.attempt]} ELSE {})

Decide(m) ==
    /\ m.type = "SUBMIT"
    /\ \/ decision # "rejected" /\ decision' = "accepted" /\ Reply(m, "ACK")
       \/ decision # "accepted" /\ decision' = "rejected" /\ Reply(m, "REJECTED")
       \/ UNCHANGED decision /\ Reply(m, "UNAVAILABLE")
       \/ WmsFaults /\ UNCHANGED decision /\ Reply(m, "CONFLICT")
    /\ UNCHANGED <<now, outcomeVars, submitVars, memberVars, evidence, workerVars>>

Tick ==
    /\ now < MaxClock
    /\ now' = now + 1
    /\ UNCHANGED <<outcomeVars, submitVars, memberVars, evidence, workerVars, net, decision>>

Job(w) ==
    \/ Claim(w) \/ Fence(w) \/ FenceMiss(w)
    \/ Send(w) \/ NotSent(w) \/ Receive(w) \/ NoTrustedAnswer(w) \/ Crash(w)
    \/ WriteAck(w) \/ WriteRefusal(w) \/ WriteUnsent(w) \/ WriteDoubt(w) \/ IgnoreAnswer(w)

Next ==
    \/ Create \/ Reconcile \/ Withdraw \/ Tick
    \/ \E w \in Worker : Job(w)
    \/ \E e \in Report : RecordCallback(e) \/ Process(e)
    \/ \E m \in Scannable : Scan(m) \/ Manual(m)
    \/ \E m \in net : Decide(m)

Spec == Init /\ [][Next]_vars

(* The beat runs the scans and the evidence worker for ever; workers, the  *)
(* WMS and its callbacks owe nothing.                                      *)
FairSpec ==
    /\ Spec
    /\ WF_vars(Tick) /\ WF_vars(Reconcile)
    /\ \A e \in Report : WF_vars(Process(e))

-----------------------------------------------------------------------------
(* Properties.                                                             *)

(* The row is pending and nothing about its delivery is in doubt.          *)
Fresh == status = "PENDING" /\ reason # "SUBMIT_DELIVERY_UNKNOWN"

(* Nothing of the operation identity can reach the WMS as new work, and    *)
(* the WMS has not taken it.                                               *)
NoSubmitUnderWay == /\ \A m \in net : m.type # "SUBMIT"
                    /\ \A w \in Worker : pc[w] # "ready"
NotTaken == decision = "rejected" \/ (decision = "none" /\ NoSubmitUnderWay)

(* A task WES calls REJECTED, by the WMS's word or because its attempts    *)
(* are spent, was not and will not be taken by the WMS                     *)
(* (_apply_submit_result: retries may run out only without doubt).         *)
RefusalIsTrue == status = "REJECTED" => NotTaken

(* Two workers are past the fence together only while the row itself says  *)
(* that a delivery is in doubt (claim, fence and reconcile_overdue_tasks). *)
OverlapOnlyInDoubt ==
    status = "PENDING" /\ reason = "none" =>
        Cardinality({w \in Worker : pc[w] \in {"ready", "waiting", "answered"}}) <= 1

(* A request without doubt is sent MAX_SUBMIT_ATTEMPTS times at most, and  *)
(* no pending task is stranded between the two comparisons of              *)
(* submit_attempt_count: one without doubt and without a send under way    *)
(* has attempts left, so that the claim takes it (claim_next_pending_task, *)
(* _apply_submit_result).  What becomes of a task whose attempts are spent *)
(* is not asserted: the code rejects it, the contract forbids that.        *)
BudgetIsKept ==
    Fresh => /\ attempts <= MaxSubmit
             /\ ~sendStarted => attempts < MaxSubmit

(* A success, by result, scan or hand, leaves every member at its target,  *)
(* and a rack slot was seen filled by a placement callback first           *)
(* (_has_applied_exact_target_position_evidence).                          *)
SuccessIsWitnessed ==
    status = "SUCCEEDED" =>
        /\ \A m \in Member : memberStatus[m] = "SUCCEEDED" /\ position[m] = "target"
        /\ \A m \in SlotTarget : PlacementApplied(m)

(* A failure the WMS reports leaves no member at an unknown place; an      *)
(* unknown place keeps the task open (_apply_result_evidence).             *)
FailureIsLocated == reason = "FAILURE" => \A m \in Member : position[m] \in Known

(* Results stored in any order leave the rows as the newest applied        *)
(* revision described them, where it described them (outcome_revision).    *)
NewestResultHolds ==
    \A e \in ResultReport :
        evidence[e] = "APPLIED" /\ e.revision = revision =>
            \A m \in Member : e.of[m].position \in Known =>
                position[m] = e.of[m].position /\ memberStatus[m] = e.of[m].status

(* No submission answer, scan or callback takes a task back: accepted is   *)
(* never pending again, doubt about the outcome never merely accepted, and *)
(* a definite outcome is never rewritten.                                  *)
Frozen == <<status, reason, version, memberVars>>
StatusMovesForward ==
    [][/\ status \in {"ACCEPTED", "RECONCILING"} => status' # "PENDING"
       /\ status = "RECONCILING" => status' # "ACCEPTED"
       /\ status \in Terminal => UNCHANGED Frozen]_vars

(* A position the rows hold as known is never overwritten, whatever order  *)
(* placements, results and confirmations come in.                          *)
ConfirmedPositionStands ==
    [][\A m \in Member : position[m] \in Known => position'[m] = position[m]]_vars

(* A started send whose worker is lost is not lost: the row is opened for  *)
(* a new attempt, or answered (reconcile_overdue_tasks).                   *)
LostSendIsRecovered ==
    status = "PENDING" /\ sendStarted ~> status # "PENDING" \/ ~sendStarted

(* Stored evidence is applied or refused, unless it is a result that waits *)
(* for a placement (process_pending_evidence).                             *)
EvidenceIsProcessed ==
    \A e \in Report :
        evidence[e] = "PENDING" /\ ~(e \in ResultReport /\ Open(e) /\ AwaitsPlacement(e))
            ~> evidence[e] \in {"APPLIED", "CONFLICT"}

(* What finalize_unsent_task_in_session says of a task it closes: it       *)
(* provably never reached the WMS.                                         *)
WithdrawnNeverDelivered == reason = "WITHDRAWN" => decision # "accepted"

(* What the transport contract says of UNKNOWN: a higher revision with the *)
(* complete position of every member settles it.                           *)
HigherRevisionSettles ==
    [][\A e \in ResultReport :
         /\ status = "RECONCILING" /\ reason = "POSITION_UNKNOWN"
         /\ e.matches /\ e.revision > revision /\ Succeeds(e)
         /\ \A m \in Member : position[m] # "elsewhere"
         /\ \A m \in SlotTarget : PlacementApplied(m)
         /\ evidence[e] = "PENDING" /\ evidence'[e] # "PENDING"
         => status' = "SUCCEEDED"]_vars

-----------------------------------------------------------------------------
(* What makes the facts about members inductive.                           *)

(* Only a result puts a member elsewhere, and it fails it.                 *)
ElsewhereIsFailed == \A m \in Member : position[m] = "elsewhere" => memberStatus[m] = "FAILED"

(* A rack-slot member succeeds only after its placement was applied.       *)
SlotIsWitnessed == \A m \in SlotTarget : memberStatus[m] = "SUCCEEDED" => PlacementApplied(m)

FailureIsFinal == reason = "FAILURE" => status = "FAILED"

(* What the rows say of the members agrees with the status of the task     *)
(* and with the evidence applied to it (_apply_result_evidence,            *)
(* confirm_bin_arrival_in_session).                                        *)
MembersInv == /\ ElsewhereIsFailed /\ SlotIsWitnessed /\ FailureIsFinal
              /\ SuccessIsWitnessed /\ FailureIsLocated

-----------------------------------------------------------------------------
(* Why the newest result holds.                                            *)

(* The cursor is the highest revision applied, and names its report.       *)
CursorIsApplied ==
    /\ \A e \in ResultReport : evidence[e] = "APPLIED" => e.revision <= revision
    /\ revision # 0 => \E e \in ResultReport : evidence[e] = "APPLIED" /\ e.revision = revision

(* A revision is stored once (the identity record_callback looks up).      *)
RevisionIsStoredOnce ==
    \A e, f \in ResultReport :
        evidence[e] # "none" /\ evidence[f] # "none" /\ e.revision = f.revision => e = f

ResultsInv == CursorIsApplied /\ RevisionIsStoredOnce /\ NewestResultHolds

-----------------------------------------------------------------------------
(* Why a refusal is true: the inductive invariant of the submission.       *)

Sending(w) == pc[w] \in {"ready", "waiting", "answered"}

(* No request under way can still be taken before the next send.           *)
NoneUnderWay == \A m \in net : m.type # "SUBMIT"
Clear == decision = "rejected" \/ (decision = "none" /\ NoneUnderWay)

UnsentIsNotTaken == status = "NONE" \/ (Fresh /\ ~sendStarted) => NotTaken
NobodyBeforeCreate == status = "NONE" => \A w \in Worker : pc[w] = "idle"
OneSender == Fresh => \A w \in Worker : Sending(w) => sendStarted /\ claim.by = w
FencedOnce == Fresh /\ sendStarted => \A w \in Worker : claim.by = w => pc[w] # "claimed"
ReadyIsClear == Fresh => \A w \in Worker : pc[w] = "ready" => Clear
WaitingIsAlone ==
    Fresh => \A w \in Worker : pc[w] = "waiting" =>
        \/ decision = "rejected"
        \/ \A m \in net : m.type = "SUBMIT" => m.attempt = attempt[w] /\ decision = "none"
UnsentIsTrue ==
    Fresh => /\ \A w \in Worker : pc[w] = "answered" /\ answer[w] \in Unsent => NotTaken
             /\ \A m \in net : m.type = "UNAVAILABLE" => NotTaken
RefusalsAreReal ==
    /\ \A w \in Worker : pc[w] = "answered" /\ answer[w] = "REJECTED" => decision = "rejected"
    /\ \A m \in net : m.type = "REJECTED" => decision = "rejected"
RepliesAreAwaited == \A m \in net : m.type # "SUBMIT" => Listening(m.attempt)

(* While the row is free of doubt it knows its only sender, and the        *)
(* answers that sender may act on say the truth about the WMS              *)
(* (_apply_submit_result and the lease it checks).                         *)
SubmissionInv ==
    /\ RefusalIsTrue /\ UnsentIsNotTaken /\ NobodyBeforeCreate
    /\ OneSender /\ FencedOnce /\ ReadyIsClear /\ WaitingIsAlone
    /\ UnsentIsTrue /\ RefusalsAreReal /\ RepliesAreAwaited

(* The budget is spent by the one sender of a fresh row, past the fence.   *)
BudgetInv == BudgetIsKept /\ (status = "NONE" => attempts = 0)

-----------------------------------------------------------------------------
(* What the row tells the owner of the task: the mapping onto Transfer.    *)

told ==
    CASE status = "NONE" -> "absent"
      [] status \in {"PENDING", "ACCEPTED"} -> "open"
      [] status = "RECONCILING" -> "doubt"
      [] status = "REJECTED" -> "refused"
      [] status = "SUCCEEDED" -> "arrived"
      [] OTHER -> IF reason = "WITHDRAWN" THEN "withdrawn" ELSE "lost"

Promise == INSTANCE Transfer WITH
    Member <- Member, Honest <- ~WmsFaults, told <- told, version <- version,
    place <- position, taken <- decision = "accepted"

(* Workers, answers, callbacks, scans and confirmations in any order keep  *)
(* the promise of Transfer: refused is never taken, each word is a new     *)
(* version, the last one final, and places once known stand.               *)
KeepsPromise == Promise!Spec

(* An acknowledgement is true, and a WMS without faults never speaks of a  *)
(* task it did not take (_apply_submit_result, record_callback).           *)
HeardInv ==
    /\ status = "NONE" => \A e \in Report : evidence[e] \in {"none", "ORPHAN"}
    /\ \A w \in Worker : pc[w] = "answered" /\ answer[w] = "ACK" => decision = "accepted"
    /\ \A m \in net : m.type = "ACK" => decision = "accepted"
    /\ ~WmsFaults =>
         /\ \A w \in Worker : answer[w] # "CONFLICT"
         /\ \A m \in net : m.type # "CONFLICT"
         /\ HasEvidence \/ status \in {"ACCEPTED", "RECONCILING"} => decision = "accepted"

=============================================================================
