--------------------------- MODULE DeviceCommand ---------------------------
(***************************************************************************)
(* The life of a DeviceCommand: one reliable obligation to make a device   *)
(* (behind an ECS) perform one physical action.  Any number of Celery      *)
(* workers claim PENDING commands under a lease, send them over HTTP       *)
(* outside every transaction, and write the answer back only if the claim  *)
(* is still theirs; a scan reconciles what ran out of time; RESULT         *)
(* callbacks are stored as evidence and applied by another worker.         *)
(*                                                                         *)
(* One action is one database transaction, one step of an exchange with    *)
(* the ECS, or the clock.  Between the transactions of dispatch_one the    *)
(* worker's local state is pc, job and answer, lost when it crashes.        *)
(***************************************************************************)
EXTENDS Integers, FiniteSets

CONSTANTS
    Command,        \* execution identities; each names at most one command row
    NoCommand,      \* the command of an idle worker
    Worker,         \* dispatching processes
    Lease,          \* seconds a claim is valid (30 in the code)
    RetryDelay,     \* seconds before a refused command is tried again (5)
    RetryAfter,     \* delays an ECS may ask for with 429
    Timeout,        \* command_timeout_ms values requests may carry
    StrayResults,   \* may RESULT callbacks arrive that no accepted command explains
    MaxClock,       \* bound of the model: the clock stops here
    MaxAttempts     \* bound of the model: claims of one command

ASSUME NoCommandAssumption == NoCommand \notin Command
ASSUME TimeAssumption == /\ Lease \in Nat \ {0}
                         /\ RetryDelay \in Nat
                         /\ RetryAfter \subseteq Nat
                         /\ Timeout \subseteq Nat \ {0}
ASSUME StrayAssumption == StrayResults \in BOOLEAN
ASSUME BoundAssumption == MaxClock \in Nat /\ MaxAttempts \in Nat

VARIABLES
    now,            \* the database clock
    status,         \* device_commands, by execution identity, column by column
    reason,         \* reconciliation_reason
    result,         \* the outcome of the evidence result_evidence_id names
    terms,          \* what creation froze: deadline_at, is it an EVENT_DEBUG
    nextAttempt,    \* next_attempt_at
    attempts,       \* attempt_count
    claim,          \* claim_token and claim_expires_at
    evidence,       \* DEVICE_RESULT evidence, by command and report
    observation,    \* DEVICE_OBSERVATION evidence, by command
    pc,             \* where each dispatch_one call is
    job,            \* the command and the token it works with
    answer,         \* what its submit_command returned, and when
    net,            \* requests and answers between the workers and the ECS
    accepted        \* how often the ECS took the command on (it acts each time)

rowVars == <<status, reason, result, terms, nextAttempt, attempts, claim>>
workerVars == <<pc, job, answer>>
vars == <<now, rowVars, evidence, observation, workerVars, net, accepted>>

-----------------------------------------------------------------------------
(* Data.                                                                   *)

Unclosed == {"PENDING", "DISPATCHING", "ACKNOWLEDGED"}
Terminal == {"SUCCEEDED", "FAILED", "TIMED_OUT"}
Status == {"NONE", "RECONCILING"} \cup Unclosed \cup Terminal

(* "NONE" is the absence of the row.                                       *)
AllowedTransition ==
    [s \in Status |->
        CASE s = "NONE" -> {"PENDING", "RECONCILING"}
          [] s = "PENDING" -> {"DISPATCHING", "FAILED", "RECONCILING", "TIMED_OUT"}
          [] s = "DISPATCHING" -> {"PENDING", "ACKNOWLEDGED", "RECONCILING"} \cup Terminal
          [] s = "ACKNOWLEDGED" -> {"SUCCEEDED", "FAILED", "RECONCILING"}
          [] s = "RECONCILING" -> {"SUCCEEDED", "FAILED"}
          [] OTHER -> {}]

Reason == {"none", "RESULT_BEFORE_DISPATCH", "ENDPOINT_INVALID", "DELIVERY_UNKNOWN",
           "ACK_AFTER_DEADLINE", "DISPATCH_LEASE_EXPIRED", "ACK_DEADLINE_EXPIRED"}

(* What a callback may say: two results of the addressed device, or a      *)
(* report whose device or contract is not the command's.  Report bodies    *)
(* differ, so each is an evidence identity of its own.                     *)
Matching == {"SUCCESS", "FAILED"}
Report == Matching \cup {"FOREIGN"}

(* apply_status of a DEVICE_RESULT evidence, and for IGNORED why:          *)
(* ORPHAN is IGNORED but unprocessed, waiting for its command to exist;    *)
(* REJECTED is IGNORED without a command_code, refused with 409.           *)
EvidenceStatus == {"none", "ORPHAN", "REJECTED", "PENDING", "APPLIED", "IGNORED", "RECONCILING"}

Observation == [kind : {"NOT_ACCEPTED", "RESULT_UNKNOWN"},
                reason : {"COMMAND_DEADLINE_EXPIRED", "NOT_DISPATCHED", "ECS_REFUSED"} \cup Reason]

Answer == {"ACK", "BUSY", "REJECTED", "UNKNOWN"}
Message == [type : {"COMMAND", "ACK", "BUSY", "REJECTED"}, cmd : Command, token : Nat]

NoClaim == [token |-> 0, until |-> 0]
NoTerms == [eventDebug |-> FALSE, deadline |-> 0]
NoJob == [cmd |-> NoCommand, token |-> 0, startedAt |-> 0]
NoAnswer == [type |-> "UNKNOWN", at |-> 0]

RowType ==
    /\ status \in [Command -> Status]
    /\ reason \in [Command -> Reason]
    /\ result \in [Command -> Matching \cup {"none"}]
    /\ terms \in [Command -> [eventDebug : BOOLEAN, deadline : Nat]]
    /\ nextAttempt \in [Command -> Nat]
    /\ attempts \in [Command -> Nat]
    /\ claim \in [Command -> [token : Nat, until : Nat]]

WorkerType ==
    /\ pc \in [Worker -> {"idle", "claimed", "ready", "waiting", "answered"}]
    /\ job \in [Worker -> [cmd : Command \cup {NoCommand}, token : Nat, startedAt : Nat]]
    /\ answer \in [Worker -> [type : Answer, at : Nat]]
    /\ \A w \in Worker : pc[w] = "idle" <=> job[w].cmd = NoCommand

EvidenceType == evidence \in [Command -> [Report -> EvidenceStatus]]
ObservationType == observation \in [Command -> SUBSET Observation]
NetType == net \subseteq Message

(* The type of every variable; a worker has a command exactly while its    *)
(* dispatch_one call runs.                                                 *)
TypeOK ==
    /\ RowType /\ WorkerType /\ EvidenceType /\ ObservationType /\ NetType
    /\ now \in Nat
    /\ accepted \in [Command -> Nat]

Init ==
    /\ now = 0
    /\ status = [c \in Command |-> "NONE"]
    /\ reason = [c \in Command |-> "none"]
    /\ result = [c \in Command |-> "none"]
    /\ terms = [c \in Command |-> NoTerms]
    /\ nextAttempt = [c \in Command |-> 0]
    /\ attempts = [c \in Command |-> 0]
    /\ claim = [c \in Command |-> NoClaim]
    /\ evidence = [c \in Command |-> [r \in Report |-> "none"]]
    /\ observation = [c \in Command |-> {}]
    /\ pc = [w \in Worker |-> "idle"]
    /\ job = [w \in Worker |-> NoJob]
    /\ answer = [w \in Worker |-> NoAnswer]
    /\ net = {}
    /\ accepted = [c \in Command |-> 0]

-----------------------------------------------------------------------------
(* Helpers: one row update each, as the repository's methods make them.    *)

SmallerOf(a, b) == IF a <= b THEN a ELSE b

(* Mutant of Holds: the token alone fences a worker.                       *)
HoldsByToken(w) == claim[job[w].cmd].token = job[w].token

(* get_claimed_for_update finds the row: still DISPATCHING, same token.    *)
(* A claim's token is fresh; the attempt it belongs to identifies it.      *)
Holds(w) == /\ status[job[w].cmd] = "DISPATCHING"
            /\ claim[job[w].cmd].token = job[w].token

(* transition_to with the claim cleared (mark_* of the repository).        *)
Leave(c, target, why) ==
    /\ status' = [status EXCEPT ![c] = target]
    /\ reason' = [reason EXCEPT ![c] = why]
    /\ claim' = [claim EXCEPT ![c] = NoClaim]
    /\ UNCHANGED <<result, terms, nextAttempt, attempts>>

(* release_retryable.                                                      *)
Release(c, at) ==
    /\ status' = [status EXCEPT ![c] = "PENDING"]
    /\ nextAttempt' = [nextAttempt EXCEPT ![c] = at]
    /\ claim' = [claim EXCEPT ![c] = NoClaim]
    /\ UNCHANGED <<reason, result, terms, attempts>>

(* An observation has the identity (command, kind): a second one of the    *)
(* kind differs in its time, and the identity conflict rolls back the      *)
(* transaction that records it.                                            *)
Observe(c, kind, why) ==
    /\ \A o \in observation[c] : o.kind # kind
    /\ observation' = [observation EXCEPT ![c] = @ \cup {[kind |-> kind, reason |-> why]}]

TimeOut(c) == /\ Leave(c, "TIMED_OUT", reason[c])
              /\ Observe(c, "NOT_ACCEPTED", "COMMAND_DEADLINE_EXPIRED")

RefuseCommand(c, why) == /\ Leave(c, "FAILED", reason[c])
                         /\ Observe(c, "NOT_ACCEPTED", why)

Doubt(c, why) == /\ Leave(c, "RECONCILING", why)
                 /\ Observe(c, "RESULT_UNKNOWN", why)

Return(w) == /\ pc' = [pc EXCEPT ![w] = "idle"]
             /\ job' = [job EXCEPT ![w] = NoJob]
             /\ answer' = [answer EXCEPT ![w] = NoAnswer]

Answered(w, type) == /\ pc' = [pc EXCEPT ![w] = "answered"]
                     /\ answer' = [answer EXCEPT ![w] = [type |-> type, at |-> now]]
                     /\ UNCHANGED job

(* The worker's HTTP exchange is over: an answer still under way is lost.  *)
HangUp(w) == net' = {m \in net : \/ m.type = "COMMAND"
                                 \/ m.cmd # job[w].cmd
                                 \/ m.token # job[w].token}

-----------------------------------------------------------------------------
(* Creation.                                                               *)

(* A command is created with its identity.  Results stored before it       *)
(* existed are requeued, and then the command is never dispatched.         *)
(* Repeating a creation returns the first row and changes nothing.         *)
Create(c, eventDebug, timeout) ==
    LET early == {r \in Matching : evidence[c][r] = "ORPHAN"}
        parked == early # {}
    IN  /\ status[c] = "NONE"
        /\ now + timeout + Lease <= MaxClock
        /\ status' = [status EXCEPT ![c] = IF parked THEN "RECONCILING" ELSE "PENDING"]
        /\ reason' = [reason EXCEPT ![c] = IF parked THEN "RESULT_BEFORE_DISPATCH" ELSE "none"]
        /\ terms' = [terms EXCEPT ![c] = [eventDebug |-> eventDebug, deadline |-> now + timeout]]
        /\ nextAttempt' = [nextAttempt EXCEPT ![c] = now]
        /\ evidence' = [evidence EXCEPT ![c] =
                          [r \in Report |-> IF r \in early THEN "PENDING" ELSE evidence[c][r]]]
        /\ UNCHANGED <<now, result, attempts, claim, observation, workerVars, net, accepted>>

-----------------------------------------------------------------------------
(* dispatch_one, transaction by transaction.                               *)

Claim(w, c) ==
    /\ pc[w] = "idle"
    /\ status[c] = "PENDING"
    /\ terms[c].deadline > now
    /\ nextAttempt[c] <= now
    /\ attempts[c] < MaxAttempts
    /\ status' = [status EXCEPT ![c] = "DISPATCHING"]
    /\ attempts' = [attempts EXCEPT ![c] = attempts[c] + 1]
    /\ claim' = [claim EXCEPT ![c] = [token |-> attempts[c] + 1, until |-> now + Lease]]
    /\ pc' = [pc EXCEPT ![w] = "claimed"]
    /\ job' = [job EXCEPT ![w] = [cmd |-> c, token |-> attempts[c] + 1, startedAt |-> now]]
    /\ UNCHANGED <<now, reason, result, terms, nextAttempt, evidence, observation, answer, net,
                   accepted>>

(* get_adapter raises ValueError: the frozen endpoint cannot be used.      *)
EndpointInvalid(w) ==
    LET c == job[w].cmd IN
    /\ pc[w] = "claimed"
    /\ Holds(w)
    /\ IF terms[c].eventDebug
       THEN RefuseCommand(c, "NOT_DISPATCHED")
       ELSE /\ Leave(c, "RECONCILING", "ENDPOINT_INVALID")
            /\ Observe(c, "NOT_ACCEPTED", "ENDPOINT_INVALID")
    /\ Return(w)
    /\ UNCHANGED <<now, evidence, net, accepted>>

(* get_adapter raises anything else: no client, try again later.           *)
EndpointUnavailable(w) ==
    LET c == job[w].cmd IN
    /\ pc[w] = "claimed"
    /\ Holds(w)
    /\ IF terms[c].eventDebug
       THEN RefuseCommand(c, "NOT_DISPATCHED")
       ELSE /\ Release(c, job[w].startedAt + RetryDelay)
            /\ UNCHANGED observation
    /\ Return(w)
    /\ UNCHANGED <<now, evidence, net, accepted>>

(* The second transaction: still mine and not too late, take the snapshot. *)
Authorize(w) ==
    LET c == job[w].cmd IN
    /\ pc[w] = "claimed"
    /\ Holds(w)
    /\ IF terms[c].deadline <= now
       THEN TimeOut(c) /\ Return(w)
       ELSE /\ pc' = [pc EXCEPT ![w] = "ready"]
            /\ UNCHANGED <<rowVars, observation, job, answer>>
    /\ UNCHANGED <<now, evidence, net, accepted>>

(* The last look at the clock before the request, outside a transaction.   *)
TooLateToSend(w) ==
    /\ pc[w] = "ready"
    /\ terms[job[w].cmd].deadline <= now
    /\ Holds(w)
    /\ TimeOut(job[w].cmd)
    /\ Return(w)
    /\ UNCHANGED <<now, evidence, net, accepted>>

(* The request leaves.  Nobody looks at the row again before it does.      *)
Send(w) ==
    /\ pc[w] = "ready"
    /\ terms[job[w].cmd].deadline > now
    /\ net' = net \cup {[type |-> "COMMAND", cmd |-> job[w].cmd, token |-> job[w].token]}
    /\ pc' = [pc EXCEPT ![w] = "waiting"]
    /\ UNCHANGED <<now, rowVars, evidence, observation, job, answer, accepted>>

(* It provably does not: no connection, or the adapter sees the deadline   *)
(* pass after dispatch_one last looked.                                    *)
NotSent(w) ==
    /\ pc[w] = "ready"
    /\ Answered(w, "BUSY")
    /\ UNCHANGED <<now, rowVars, evidence, observation, net, accepted>>

Receive(w, m) ==
    /\ pc[w] = "waiting"
    /\ m.type # "COMMAND"
    /\ m.cmd = job[w].cmd
    /\ m.token = job[w].token
    /\ Answered(w, m.type)
    /\ HangUp(w)
    /\ UNCHANGED <<now, rowVars, evidence, observation, accepted>>

(* A timeout, a broken connection or an answer outside the contract: the   *)
(* request may have arrived, or may still arrive.                          *)
NoTrustedAnswer(w) ==
    /\ pc[w] = "waiting"
    /\ Answered(w, "UNKNOWN")
    /\ HangUp(w)
    /\ UNCHANGED <<now, rowVars, evidence, observation, accepted>>

(* The third transaction, by answer.                                       *)
WriteAck(w) ==
    LET c == job[w].cmd IN
    /\ pc[w] = "answered"
    /\ answer[w].type = "ACK"
    /\ Holds(w)
    /\ IF answer[w].at >= terms[c].deadline
       THEN Doubt(c, "ACK_AFTER_DEADLINE")
       ELSE Leave(c, "ACKNOWLEDGED", reason[c]) /\ UNCHANGED observation
    /\ Return(w)
    /\ UNCHANGED <<now, evidence, net, accepted>>

WriteBusy(w, delay) ==
    LET c == job[w].cmd IN
    /\ pc[w] = "answered"
    /\ answer[w].type = "BUSY"
    /\ Holds(w)
    /\ IF terms[c].eventDebug
       THEN RefuseCommand(c, "ECS_REFUSED")
       ELSE /\ Release(c, SmallerOf(now + delay, terms[c].deadline))
            /\ UNCHANGED observation
    /\ Return(w)
    /\ UNCHANGED <<now, evidence, net, accepted>>

WriteRejected(w) ==
    /\ pc[w] = "answered"
    /\ answer[w].type = "REJECTED"
    /\ Holds(w)
    /\ RefuseCommand(job[w].cmd, "ECS_REFUSED")
    /\ Return(w)
    /\ UNCHANGED <<now, evidence, net, accepted>>

(* Mutants of WriteUnknown: an unknown delivery counts as one that did not *)
(* happen, and is repeated or reported so.                                 *)
RetryUnknown(w) ==
    /\ pc[w] = "answered"
    /\ answer[w].type = "UNKNOWN"
    /\ Holds(w)
    /\ Release(job[w].cmd, now)
    /\ Return(w)
    /\ UNCHANGED <<now, evidence, observation, net, accepted>>

RefuseUnknown(w) ==
    /\ pc[w] = "answered"
    /\ answer[w].type = "UNKNOWN"
    /\ Holds(w)
    /\ RefuseCommand(job[w].cmd, "ECS_REFUSED")
    /\ Return(w)
    /\ UNCHANGED <<now, evidence, net, accepted>>

WriteUnknown(w) ==
    /\ pc[w] = "answered"
    /\ answer[w].type = "UNKNOWN"
    /\ Holds(w)
    /\ Doubt(job[w].cmd, "DELIVERY_UNKNOWN")
    /\ Return(w)
    /\ UNCHANGED <<now, evidence, net, accepted>>

(* Any of those transactions finds the claim gone and writes nothing.      *)
FenceMiss(w) ==
    /\ \/ pc[w] \in {"claimed", "answered"}
       \/ pc[w] = "ready" /\ terms[job[w].cmd].deadline <= now
    /\ ~Holds(w)
    /\ Return(w)
    /\ UNCHANGED <<now, rowVars, evidence, observation, net, accepted>>

(* The process dies between two transactions.                              *)
Crash(w) ==
    /\ pc[w] # "idle"
    /\ Return(w)
    /\ HangUp(w)
    /\ UNCHANGED <<now, rowVars, evidence, observation, accepted>>

-----------------------------------------------------------------------------
(* reconcile_one, by the status of the row it locks.                       *)

ReconcilePending(c) ==
    /\ status[c] = "PENDING"
    /\ terms[c].deadline <= now
    /\ TimeOut(c)
    /\ UNCHANGED <<now, evidence, workerVars, net, accepted>>

(* Mutant of ReconcileDispatching: a lease that names its holder is        *)
(* skipped.                                                                *)
SkipClaimed(c) ==
    /\ status[c] = "DISPATCHING"
    /\ claim[c] = NoClaim
    /\ Doubt(c, "DISPATCH_LEASE_EXPIRED")
    /\ UNCHANGED <<now, evidence, workerVars, net, accepted>>

(* The claim's token stays in the row; the status alone fences the worker. *)
ReconcileDispatching(c) ==
    /\ status[c] = "DISPATCHING"
    /\ claim[c].until <= now
    /\ status' = [status EXCEPT ![c] = "RECONCILING"]
    /\ reason' = [reason EXCEPT ![c] = "DISPATCH_LEASE_EXPIRED"]
    /\ Observe(c, "RESULT_UNKNOWN", "DISPATCH_LEASE_EXPIRED")
    /\ UNCHANGED <<now, result, terms, nextAttempt, attempts, claim, evidence, workerVars, net,
                   accepted>>

ReconcileAcknowledged(c) ==
    /\ status[c] = "ACKNOWLEDGED"
    /\ terms[c].deadline <= now
    /\ Doubt(c, "ACK_DEADLINE_EXPIRED")
    /\ UNCHANGED <<now, evidence, workerVars, net, accepted>>

Reconcile(c) == ReconcilePending(c) \/ ReconcileDispatching(c) \/ ReconcileAcknowledged(c)

-----------------------------------------------------------------------------
(* RESULT evidence.                                                        *)

(* Mutant of TooEarly: before the acknowledgement, not before dispatch.    *)
TooEarlyUntilAck(c) == \/ status[c] \in {"PENDING", "DISPATCHING"}
                       \/ reason[c] = "RESULT_BEFORE_DISPATCH" /\ status[c] = "RECONCILING"

TooEarly(c) == \/ status[c] = "PENDING"
               \/ reason[c] = "RESULT_BEFORE_DISPATCH" /\ status[c] = "RECONCILING"

File(c, r, applyStatus) ==
    [evidence EXCEPT ![c] = [evidence[c] EXCEPT ![r] = applyStatus]]

(* What accept_result stores for a report it has not stored before.        *)
Admission(c, r) ==
    IF status[c] = "NONE" THEN "ORPHAN"
    ELSE IF r = "FOREIGN" \/ TooEarly(c) THEN "REJECTED"
    ELSE "PENDING"

(* Mutant of Parks: also a command that is being dispatched.               *)
ParksUnacknowledged(c) == status[c] \in {"PENDING", "DISPATCHING"}

(* A result finds the command still in the queue and takes it out.         *)
Parks(c) == status[c] = "PENDING"

(* The callback transaction.  A report already stored for the command is   *)
(* answered as a duplicate; one refused before is refused again.  A result *)
(* for a PENDING command, even one refused for its identity, parks it.     *)
AcceptResult(c, r) ==
    LET known == evidence[c][r] # "none"
        linked == evidence[c][r] \notin {"none", "REJECTED"}
        duplicate == linked /\ ~(r = "FOREIGN" /\ status[c] # "NONE")
    IN  /\ StrayResults \/ (accepted[c] > 0 /\ r \in Matching)
        /\ ~duplicate
        /\ status' = [status EXCEPT ![c] = IF Parks(c) THEN "RECONCILING" ELSE status[c]]
        /\ reason' = [reason EXCEPT ![c] = IF Parks(c) THEN "RESULT_BEFORE_DISPATCH" ELSE reason[c]]
        /\ evidence' = IF known THEN evidence ELSE File(c, r, Admission(c, r))
        /\ UNCHANGED <<now, result, terms, nextAttempt, attempts, claim, observation, workerVars,
                       net, accepted>>

(* process_one: the first matching result closes the command.              *)
Ignore(c, r) ==
    /\ status[c] \in Terminal
    /\ evidence' = File(c, r, "IGNORED")
    /\ UNCHANGED rowVars

SetAside(c, r) ==
    /\ TooEarly(c)
    /\ evidence' = File(c, r, "RECONCILING")
    /\ UNCHANGED rowVars

Close(c, r) ==
    /\ evidence' = File(c, r, "APPLIED")
    /\ status' = [status EXCEPT ![c] = IF r = "SUCCESS" THEN "SUCCEEDED" ELSE "FAILED"]
    /\ result' = [result EXCEPT ![c] = r]
    /\ claim' = [claim EXCEPT ![c] = NoClaim]
    /\ UNCHANGED <<reason, terms, nextAttempt, attempts>>

(* Mutants of Conclude: every result is applied, also after the first; and *)
(* a command in doubt waits for its ACK.                                   *)
ConcludeAgain(c, r) == Close(c, r)

ConcludeUndoubted(c, r) ==
    /\ status[c] \in {"DISPATCHING", "ACKNOWLEDGED"}
    /\ Close(c, r)

Conclude(c, r) ==
    /\ status[c] \in {"DISPATCHING", "ACKNOWLEDGED", "RECONCILING"}
    /\ reason[c] # "RESULT_BEFORE_DISPATCH"
    /\ Close(c, r)

ProcessEvidence(c, r) ==
    /\ evidence[c][r] = "PENDING"
    /\ Ignore(c, r) \/ SetAside(c, r) \/ Conclude(c, r)
    /\ UNCHANGED <<now, observation, workerVars, net, accepted>>

-----------------------------------------------------------------------------
(* The ECS and the clock.                                                  *)

Waiting(m) == \E w \in Worker : /\ pc[w] = "waiting"
                                /\ job[w].cmd = m.cmd
                                /\ job[w].token = m.token

Reply(m, type) ==
    net' = (net \ {m}) \cup (IF Waiting(m) THEN {[m EXCEPT !.type = type]} ELSE {})

(* The device takes the command on; it will act.                           *)
EcsAccept(m) ==
    /\ m.type = "COMMAND"
    /\ accepted' = [accepted EXCEPT ![m.cmd] = @ + 1]
    /\ Reply(m, "ACK")
    /\ UNCHANGED <<now, rowVars, evidence, observation, workerVars>>

(* 429 or 503 with the contract's body, or a contract rejection (4xx).     *)
EcsRefuse(m, type) ==
    /\ m.type = "COMMAND"
    /\ Reply(m, type)
    /\ UNCHANGED <<now, rowVars, evidence, observation, workerVars, accepted>>

Tick ==
    /\ now < MaxClock
    /\ now' = now + 1
    /\ UNCHANGED <<rowVars, evidence, observation, workerVars, net, accepted>>

-----------------------------------------------------------------------------

Dispatch(w) ==
    \/ \E c \in Command : Claim(w, c)
    \/ EndpointInvalid(w) \/ EndpointUnavailable(w) \/ Authorize(w)
    \/ TooLateToSend(w) \/ Send(w) \/ NotSent(w)
    \/ \E m \in net : Receive(w, m)
    \/ NoTrustedAnswer(w)
    \/ WriteAck(w) \/ WriteRejected(w) \/ WriteUnknown(w)
    \/ \E delay \in RetryAfter \cup {RetryDelay} : WriteBusy(w, delay)
    \/ FenceMiss(w) \/ Crash(w)

Callback(c) == \E r \in Report : AcceptResult(c, r) \/ ProcessEvidence(c, r)

Ecs(m) == EcsAccept(m) \/ \E type \in {"BUSY", "REJECTED"} : EcsRefuse(m, type)

Next ==
    \/ \E c \in Command, eventDebug \in BOOLEAN, t \in Timeout : Create(c, eventDebug, t)
    \/ \E w \in Worker : Dispatch(w)
    \/ \E c \in Command : Reconcile(c) \/ Callback(c)
    \/ \E m \in net : Ecs(m)
    \/ Tick

Spec == Init /\ [][Next]_vars

(* What the deployment keeps alive: time passes, and Celery beat restarts  *)
(* the reconcile and the evidence scan, each of which drains its queue.    *)
(* No dispatcher and no ECS is assumed to make progress.                   *)
FairSpec ==
    /\ Spec
    /\ WF_vars(Tick)
    /\ \A c \in Command : WF_vars(Reconcile(c))
    /\ \A c \in Command, r \in Report : WF_vars(ProcessEvidence(c, r))
-----------------------------------------------------------------------------
(* Properties.                                                             *)

InFlight(c) == \E m \in net : m.type = "COMMAND" /\ m.cmd = c
Dispatched(c) == \E w \in Worker : job[w].cmd = c
NotAccepted(c) == \E o \in observation[c] : o.kind = "NOT_ACCEPTED"

(* A device acts at most once on a command, whatever leases expire,        *)
(* workers crash and requests arrive late: only a request the ECS refused  *)
(* or that never left may be repeated (dispatch_one, reconcile_one).       *)
AtMostOneAction == \A c \in Command : accepted[c] <= 1

(* Once WES has recorded NOT_ACCEPTED the device has not acted and never   *)
(* will: nothing is under way and no worker can still send.  Consumers     *)
(* plan the replacement of the action on this fact.                        *)
NotAcceptedIsFinal ==
    \A c \in Command :
        NotAccepted(c) => accepted[c] = 0 /\ ~InFlight(c) /\ ~Dispatched(c)

(* Every way out of dispatching without a device result leaves exactly one *)
(* observation that says what is known: NOT_ACCEPTED for a closed command, *)
(* one or the other for a RECONCILING one; an open command has none, so    *)
(* recording never meets an identity conflict and never rolls back.        *)
EveryDoubtIsRecorded ==
    \A c \in Command :
        /\ status[c] \in Unclosed => observation[c] = {}
        /\ Cardinality(observation[c]) <= 1
        /\ \/ status[c] = "TIMED_OUT"
           \/ status[c] = "FAILED" /\ result[c] = "none"
           => NotAccepted(c)
        /\ status[c] = "RECONCILING" /\ reason[c] # "RESULT_BEFORE_DISPATCH"
           => observation[c] # {}

(* result_evidence_id, the status and apply_status agree: a command closed *)
(* by its device was closed by exactly one APPLIED evidence, whose outcome *)
(* is its status (accept_result, process_one).                             *)
ResultMatchesEvidence ==
    \A c \in Command :
        /\ \A r \in Report : evidence[c][r] = "APPLIED" <=> result[c] = r
        /\ status[c] = "SUCCEEDED" <=> result[c] = "SUCCESS"
        /\ result[c] = "FAILED" => status[c] = "FAILED"

(* A command parked as RESULT_BEFORE_DISPATCH has not been sent since it   *)
(* was parked and never will be: no worker holds it and nothing is under   *)
(* way, even when the callback raced the dispatcher.                       *)
ParkedIsNeverSent ==
    \A c \in Command :
        reason[c] = "RESULT_BEFORE_DISPATCH" =>
            status[c] = "RECONCILING" /\ ~InFlight(c) /\ ~Dispatched(c)

(* When every callback comes from an accepted command, the out-of-order    *)
(* defences never fire: no result is refused, orphaned or set aside, so    *)
(* each reaches its command whatever worker step it overtakes.             *)
ResultsAreNeverStranded ==
    ~StrayResults =>
        \A c \in Command :
            /\ reason[c] # "RESULT_BEFORE_DISPATCH"
            /\ \A r \in Report : evidence[c][r] \notin {"ORPHAN", "REJECTED", "RECONCILING"}

(* transition_to never raises: every status change any interleaving of     *)
(* workers, scans and callbacks asks for is in the table.                  *)
StatusMovesAsAllowed ==
    [][\A c \in Command : status'[c] # status[c] =>
            status'[c] \in AllowedTransition[status[c]]]_vars

(* A closed command is never touched again: a late answer, a late result   *)
(* or a stale worker changes neither its status nor its result.            *)
FirstOutcomeWins ==
    [][\A c \in Command : status[c] \in Terminal =>
            /\ status'[c] = status[c]
            /\ result'[c] = result[c]
            /\ reason'[c] = reason[c]]_vars

(* A command leaves the dispatch queue for good, also when every           *)
(* dispatcher has died holding it and the ECS never answers.               *)
CommandLeavesQueue ==
    \A c \in Command : status[c] \in Unclosed ~> [](status[c] \notin Unclosed)

(* A stored result of an accepted command closes it.                       *)
ReportedResultCloses ==
    \A c \in Command, r \in Matching :
        evidence[c][r] = "PENDING" ~> status[c] \in {"SUCCEEDED", "FAILED"}

(* Two dispatch_one calls never work on the same command, however slow     *)
(* they are: a lease that runs out is never handed to another worker.      *)
OneDispatcher ==
    \A v, w \in Worker :
        v # w /\ pc[v] # "idle" => job[v].cmd # job[w].cmd

(* docs/architecture/device-command-contract.md says a command for which   *)
(* process_one has put a matching RESULT into RECONCILING, as one that came *)
(* before dispatch, is not dispatched.                                     *)
NoDispatchAfterResult ==
    [][\A c \in Command :
          status[c] = "PENDING" /\ status'[c] = "DISPATCHING" =>
              \A r \in Matching : evidence[c][r] # "RECONCILING"]_vars
-----------------------------------------------------------------------------
(* Why at most one action happens: the inductive invariant.                *)

(* The device has acted, or may still be asked to.                         *)
MayAct(c) == accepted[c] > 0 \/ InFlight(c)

(* While a worker has a command, the command is neither in the queue nor   *)
(* declared not accepted nor parked.                                       *)
WorkersHaveClaimed ==
    \A w \in Worker : pc[w] # "idle" =>
        LET c == job[w].cmd IN
        /\ status[c] \notin {"NONE", "PENDING"}
        /\ ~NotAccepted(c)
        /\ reason[c] # "RESULT_BEFORE_DISPATCH"

(* A worker that has not sent, or was refused, has a harmless command.     *)
HarmlessAtWorker ==
    \A w \in Worker :
        \/ pc[w] \in {"claimed", "ready"}
        \/ pc[w] = "answered" /\ answer[w].type \in {"BUSY", "REJECTED"}
        => ~MayAct(job[w].cmd)

(* A command in the queue, declared not accepted or parked is harmless.    *)
HarmlessInRow ==
    \A c \in Command :
        \/ status[c] \in {"NONE", "PENDING"}
        \/ NotAccepted(c)
        \/ reason[c] = "RESULT_BEFORE_DISPATCH"
        => ~MayAct(c)

(* One request at most is under way for a command nobody acted on; a reply *)
(* has its worker waiting for it, and a refusal is the truth.              *)
RequestsAreSingle ==
    \A m \in net : m.type = "COMMAND" =>
        /\ accepted[m.cmd] = 0
        /\ \A n \in net : n.type = "COMMAND" /\ n.cmd = m.cmd => n = m

RepliesAreAwaited ==
    \A m \in net : m.type # "COMMAND" =>
        /\ Waiting(m)
        /\ m.type \in {"BUSY", "REJECTED"} => ~MayAct(m.cmd)

(* What an open row looks like, and a parked one.                          *)
RowsAgree ==
    \A c \in Command :
        /\ status[c] \in Unclosed \cup {"NONE"} => observation[c] = {}
        /\ reason[c] = "RESULT_BEFORE_DISPATCH" => status[c] = "RECONCILING"

(* The parts together: no interleaving of workers, lease expiries, scans,  *)
(* callbacks and crashes makes a harmless command dangerous except the     *)
(* worker that sends it.                                                   *)
SafetyInv ==
    /\ OneDispatcher /\ WorkersHaveClaimed /\ HarmlessAtWorker /\ HarmlessInRow
    /\ RequestsAreSingle /\ RepliesAreAwaited /\ RowsAgree
    /\ AtMostOneAction

-----------------------------------------------------------------------------
(* What the rows tell a caller, and what the device did: the refinement    *)
(* mapping onto PhysicalAction.                                            *)
told ==
    [c \in Command |->
        IF status[c] = "NONE" THEN "absent"
        ELSE IF status[c] \in Unclosed THEN "open"
        ELSE IF result[c] # "none" THEN result[c]
        ELSE IF NotAccepted(c) THEN "refused"
        ELSE "doubt"]

acted == [c \in Command |-> accepted[c] > 0]

Promise == INSTANCE PhysicalAction WITH
    Command <- Command, told <- told, acted <- acted

(* When callbacks come only from accepted commands, DeviceCommand keeps    *)
(* the promise of PhysicalAction.                                          *)
KeepsPromise == Promise!Spec
=============================================================================
