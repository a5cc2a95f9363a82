---------------------------- MODULE PickingTask ----------------------------
(***************************************************************************)
(* The life of an outbound PickingTask in WES, between the reports the WMS *)
(* sends (issued, queue changed, plan delta, cancel: each under its own    *)
(* operation identity, in any order, again and again) and the requests WES *)
(* sends (prepare and the confirmations of completion).  Every report is   *)
(* one transaction under the locks of its task and work line; so are the   *)
(* scans that prepare and complete tasks.                                  *)
(*                                                                         *)
(* The requests are the obligations of WmsConfirmation, seen through the   *)
(* promise it keeps (Obligation): dispatchers, leases and retries are      *)
(* behind Settle, GiveUp and Void.                                         *)
(***************************************************************************)
EXTENDS Naturals, FiniteSets

CONSTANTS
    Task, Line,
    Home,           \* the work line each task is issued for
    Manual,         \* tasks of the MANUAL type: no timeout of the first plan
    Notice,         \* issued, queue_changed and cancel reports, one of each identity
    Op,             \* identities of plan reports
    Letter,         \* plan reports: one identity may come with different bodies;
                    \* a form "invalid" fails the DTO, "untargeted" lacks the rack
                    \* of an AUTO task's first plan, "twice" names a source twice
    None,
    MaxRevision,    \* bound: plans the WMS publishes for each task
    MaxConfirm      \* bound: completion confirmations of one task

ASSUME HomeAssumption == Home \in [Task -> Line] /\ Manual \subseteq Task
ASSUME NoticeAssumption ==
    \A n \in Notice :
        /\ n.kind \in {"issued", "queue_changed", "cancel"} /\ n.task \in Task
        /\ n.kind # "cancel" => n.sequence \in Nat /\ n.revision \in Nat
        /\ n.kind = "issued" => n.sequence > 0
ASSUME LetterAssumption ==
    \A l \in Letter :
        /\ l.op \in Op /\ l.task \in Task /\ l.revision \in Nat \ {0}
        /\ l.form \in {"valid", "twice", "untargeted", "invalid"}
ASSUME NoneAssumption == None \notin Op \cup Letter
ASSUME BoundAssumption == MaxRevision \in [Task -> Nat] /\ MaxConfirm \in Nat

VARIABLES
    active,     \* work_lines.is_active
    status,     \* picking_tasks: the row, column by column
    sequence,   \* dispatch_sequence
    queueRev,   \* queue_revision
    revision,   \* last_applied_plan_revision
    last,       \* last_plan_evidence_id
    blocked,    \* plan_blocked_evidence_id
    filed,      \* evidence of notices: apply_status
    heard,      \* evidence of plan reports: the first body under each identity
    plan,       \* evidence of plan reports: apply_status
    asked,      \* the plan revision a completion confirmation has frozen
    standing, verdict, told,    \* the requests, as in Obligation
    issued,     \* plans the WMS has published
    knew        \* issued when the WMS decided about a request

taskVars == <<status, sequence, queueRev, revision, last, blocked>>
evidenceVars == <<filed, heard, plan>>
requestVars == <<asked, standing, told>>
wmsVars == <<verdict, issued, knew>>
vars == <<active, taskVars, evidenceVars, requestVars, wmsVars>>

-----------------------------------------------------------------------------
(* Data.                                                                   *)

Status == {"NONE", "QUEUED", "PREPARING", "EXECUTING", "EXECUTION_COMPLETED",
           "CANCELLED", "ARCHIVED"}
Running == {"PREPARING", "EXECUTING"}

(* <<t, 0>> is the prepare request of t, <<t, k>> its k-th confirmation.   *)
Request == Task \X (0..MaxConfirm)
Prepare(t) == <<t, 0>>

(* What the adapters call DETERMINATE; a refusal settles nothing and is    *)
(* given up like silence.                                                  *)
Verdict == {"ACCEPTED", "COMPLETED", "STALE", "BUSY"}

TypeOK ==
    /\ active \in [Line -> BOOLEAN]
    /\ status \in [Task -> Status]
    /\ sequence \in [Task -> Nat \ {0}]
    /\ queueRev \in [Task -> Nat]
    /\ revision \in [Task -> Nat]
    /\ last \in [Task -> Op \cup {None}]
    /\ blocked \in [Task -> Op \cup {None}]
    /\ filed \in [Notice -> {"none", "APPLIED", "RECONCILING"}]
    /\ heard \in [Op -> Letter \cup {None}]
    /\ plan \in [Op -> {"none", "PENDING", "APPLIED", "RECONCILING", "IGNORED"}]
    /\ asked \in [Request -> Nat]
    /\ standing \in [Request -> {"absent", "owed", "settled", "stuck", "void"}]
    /\ verdict \in [Request -> Verdict \cup {"none"}]
    /\ told \in [Request -> Verdict \cup {"none"}]
    /\ issued \in [Task -> Nat]
    /\ knew \in [Request -> Nat]

Init ==
    /\ active = [l \in Line |-> TRUE]
    /\ status = [t \in Task |-> "NONE"]
    /\ sequence = [t \in Task |-> 1]
    /\ queueRev = [t \in Task |-> 0]
    /\ revision = [t \in Task |-> 0]
    /\ last = [t \in Task |-> None]
    /\ blocked = [t \in Task |-> None]
    /\ filed = [n \in Notice |-> "none"]
    /\ heard = [o \in Op |-> None]
    /\ plan = [o \in Op |-> "none"]
    /\ asked = [c \in Request |-> 0]
    /\ standing = [c \in Request |-> "absent"]
    /\ verdict = [c \in Request |-> "none"]
    /\ told = [c \in Request |-> "none"]
    /\ issued = [t \in Task |-> 0]
    /\ knew = [c \in Request |-> 0]

-----------------------------------------------------------------------------
(* Requests.                                                               *)

(* validate_response_owner and is_dispatch_cancelled; cancelled_at is set  *)
(* with the status CANCELLED, which no step leaves.                        *)
Owner(c) ==
    LET t == c[1] IN
    CASE status[t] = "CANCELLED" /\ c = Prepare(t) -> "cancelled"
      [] status[t] \in {"PREPARING", "ARCHIVED"} -> "open"
      [] status[t] = "EXECUTING" /\ c # Prepare(t) -> "open"
      [] OTHER -> "closed"

(* create_or_get in the transaction of the business.                       *)
Owe(c) == standing[c] = "absent" /\ standing' = [standing EXCEPT ![c] = "owed"]

Close(c, s, r) ==
    /\ standing' = [standing EXCEPT ![c] = s]
    /\ told' = [told EXCEPT ![c] = r]
    /\ UNCHANGED <<active, taskVars, evidenceVars, asked, wmsVars>>

(* Mutant of Settle: the owner is not asked when the answer comes.         *)
SettleUnowned(c) ==
    /\ standing[c] = "owed" /\ verdict[c] # "none"
    /\ Close(c, "settled", verdict[c])

Settle(c) ==
    /\ standing[c] = "owed" /\ verdict[c] # "none" /\ Owner(c) = "open"
    /\ Close(c, "settled", verdict[c])

(* A refusal, an answer nobody can read, or an owner that has closed.      *)
GiveUp(c) ==
    /\ standing[c] = "owed" /\ Owner(c) # "cancelled"
    /\ Close(c, "stuck", told[c])

Void(c) ==
    /\ standing[c] \in {"owed", "stuck"} /\ Owner(c) = "cancelled"
    /\ Close(c, "void", told[c])

-----------------------------------------------------------------------------
(* Notices.                                                                *)

(* A replay of a filed notice changes nothing, whatever it is answered.    *)
File(n, s) == filed[n] = "none" /\ filed' = [filed EXCEPT ![n] = s]

SequenceIsFree(n) == \A t \in Task : status[t] = "QUEUED" => sequence[t] # n.sequence

Issued(n) ==
    LET t == n.task
        Admitted == status[t] = "NONE" /\ SequenceIsFree(n) /\ active[Home[t]] IN
    /\ n.kind = "issued"
    /\ \/ /\ Admitted /\ File(n, "APPLIED")
          /\ status' = [status EXCEPT ![t] = "QUEUED"]
          /\ sequence' = [sequence EXCEPT ![t] = n.sequence]
          /\ queueRev' = [queueRev EXCEPT ![t] = n.revision]
          /\ UNCHANGED <<revision, last, blocked>>
       \/ ~Admitted /\ File(n, "RECONCILING") /\ UNCHANGED taskVars
    /\ UNCHANGED <<active, heard, plan, requestVars, wmsVars>>

(* Sequence 0 stands for an omitted dispatch_sequence: not_before changes. *)
Movable(n) ==
    /\ status[n.task] = "QUEUED" /\ blocked[n.task] = None
    /\ n.revision = queueRev[n.task] + 1
    /\ n.sequence # sequence[n.task] /\ SequenceIsFree(n)

QueueChanged(n) ==
    LET t == n.task IN
    /\ n.kind = "queue_changed"
    /\ \/ /\ Movable(n) /\ File(n, "APPLIED")
          /\ sequence' = [sequence EXCEPT ![t] = IF n.sequence = 0 THEN @ ELSE n.sequence]
          /\ queueRev' = [queueRev EXCEPT ![t] = n.revision]
          /\ UNCHANGED <<status, revision, last, blocked>>
       \/ ~Movable(n) /\ File(n, "RECONCILING") /\ UNCHANGED taskVars
    /\ UNCHANGED <<active, heard, plan, requestVars, wmsVars>>

(* cancel_scope TASK.                                                      *)
Cancel(n) ==
    LET t == n.task
        Cancellable == status[t] \in {"QUEUED", "PREPARING"} /\ revision[t] = 0 IN
    /\ n.kind = "cancel"
    /\ \/ /\ Cancellable /\ File(n, "APPLIED")
          /\ status' = [status EXCEPT ![t] = "CANCELLED"]
       \/ ~Cancellable /\ File(n, "RECONCILING") /\ UNCHANGED status
    /\ UNCHANGED <<sequence, queueRev, revision, last, blocked>>
    /\ UNCHANGED <<active, heard, plan, requestVars, wmsVars>>

-----------------------------------------------------------------------------
(* Work lines.                                                             *)

Start(l) ==
    /\ ~active[l]
    /\ active' = [active EXCEPT ![l] = TRUE]
    /\ UNCHANGED <<taskVars, evidenceVars, requestVars, wmsVars>>

(* get_unfinished_workload_summary: tasks, and requests not COMPLETED.     *)
Unfinished(t) ==
    \/ status[t] \in Running
    \/ status[t] # "ARCHIVED" /\ blocked[t] # None
    \/ \E k \in 0..MaxConfirm : standing[<<t, k>>] \notin {"absent", "settled"}

Deactivate(l) ==
    /\ active[l] /\ \A t \in Task : Home[t] = l => ~Unfinished(t)
    /\ active' = [active EXCEPT ![l] = FALSE]
    /\ UNCHANGED <<taskVars, evidenceVars, requestVars, wmsVars>>

Busy(l) == \E t \in Task : Home[t] = l /\ status[t] \in Running

(* Mutant of PrepareNext: the line is not looked at for a running task.    *)
PrepareBeside(t) ==
    /\ active[Home[t]]
    /\ status[t] = "QUEUED"
    /\ status' = [status EXCEPT ![t] = "PREPARING"]
    /\ Owe(Prepare(t))
    /\ UNCHANGED <<sequence, queueRev, revision, last, blocked>>
    /\ UNCHANGED <<active, evidenceVars, asked, told, wmsVars>>

(* prepare_next_in_session.  claim_next_queued takes the first queued task *)
(* of the line that no other transaction holds and whose not_before has    *)
(* come: any of them.                                                      *)
PrepareNext(t) ==
    /\ active[Home[t]] /\ ~Busy(Home[t])
    /\ status[t] = "QUEUED"
    /\ status' = [status EXCEPT ![t] = "PREPARING"]
    /\ Owe(Prepare(t))
    /\ UNCHANGED <<sequence, queueRev, revision, last, blocked>>
    /\ UNCHANGED <<active, evidenceVars, asked, told, wmsVars>>

Archivable(t) == status[t] \in Running \cup {"EXECUTION_COMPLETED"}

(* archive_open_work takes every task of a line, archive_picking_task one. *)
Archive(S) ==
    /\ S # {} /\ \A t \in S : Archivable(t)
    /\ status' = [t \in Task |-> IF t \in S THEN "ARCHIVED" ELSE status[t]]
    /\ UNCHANGED <<sequence, queueRev, revision, last, blocked>>
    /\ UNCHANGED <<active, evidenceVars, requestVars, wmsVars>>

ArchiveLine(l) == Archive({t \in Task : Home[t] = l /\ Archivable(t)})

-----------------------------------------------------------------------------
(* Plan reports.                                                           *)

Block(t, o) ==
    IF status[t] \in {"NONE", "EXECUTION_COMPLETED"} \/ blocked[t] # None
    THEN UNCHANGED blocked ELSE blocked' = [blocked EXCEPT ![t] = o]

Keep(l, s) ==
    /\ heard' = [heard EXCEPT ![l.op] = l]
    /\ plan' = [plan EXCEPT ![l.op] = s]

(* InboundEvidenceService.accept: this identity has another body already.  *)
Clashes(l) == heard[l.op] \notin {None, l}

(* Mutant of Conflict: the body that came is trusted with its task.        *)
ConflictTrusted(l) ==
    /\ Clashes(l)
    /\ IF plan[l.op] # "IGNORED" THEN Block(l.task, l.op) ELSE UNCHANGED blocked
    /\ UNCHANGED <<evidenceVars, status, revision, last>>

Conflict(l) ==
    /\ Clashes(l)
    /\ IF plan[l.op] # "IGNORED" THEN Block(heard[l.op].task, l.op) ELSE UNCHANGED blocked
    /\ UNCHANGED <<evidenceVars, status, revision, last>>

Ignore(l) ==
    /\ ~Clashes(l) /\ l.form = "invalid"
    /\ Keep(l, "IGNORED")
    /\ UNCHANGED <<filed, status, revision, last, blocked>>

(* The report reaches validate_plan.                                       *)
Checked(l) == ~Clashes(l) /\ l.form # "invalid" /\ plan[l.op] # "APPLIED"

(* validate_plan, from top to bottom.                                      *)
Repeats(l) ==
    /\ status[l.task] \in Running /\ l.revision = revision[l.task]
    /\ heard[last[l.task]].body = l.body

(* Mutant of InTurn: any later revision will do.                           *)
InTurnOrLater(l) ==
    LET t == l.task IN
    /\ status[t] \in Running /\ l.revision > revision[t]
    /\ (revision[t] = 0) <=> (status[t] = "PREPARING")
    /\ active[Home[t]]

InTurn(l) ==
    LET t == l.task IN
    /\ status[t] \in Running /\ l.revision = revision[t] + 1
    /\ (l.revision = 1) <=> (status[t] = "PREPARING")
    /\ active[Home[t]]

(* Mutant of Agreed: an answer that is only awaited counts.                *)
Expected(t) == standing[Prepare(t)] \in {"owed", "settled"}

Agreed(t) == standing[Prepare(t)] = "settled" /\ told[Prepare(t)] = "ACCEPTED"

(* The answer to the prepare request is still to come.  Whether the        *)
(* request's deadline_at has passed (then the report is rejected) is open. *)
Early(l) ==
    /\ InTurn(l) /\ l.revision = 1 /\ l.form # "untargeted"
    /\ standing[Prepare(l.task)] = "owed"

Applicable(l) ==
    LET t == l.task IN
    /\ InTurn(l) /\ Agreed(t) /\ l.form = "valid"
    /\ blocked[t] # None => heard[blocked[t]].task = t

(* 503 UNAVAILABLE: the report is kept and must be sent again.             *)
Postpone(l) ==
    /\ Checked(l) /\ Early(l)
    /\ Keep(l, IF plan[l.op] = "none" THEN "PENDING" ELSE plan[l.op])
    /\ UNCHANGED <<filed, status, revision, last, blocked>>

Duplicate(l) ==
    /\ Checked(l) /\ Repeats(l)
    /\ Keep(l, "APPLIED")
    /\ UNCHANGED <<filed, status, revision, last, blocked>>

(* A replay that still does not fit does not block its task again; an      *)
(* admission policy that turns it down now does.                           *)
Reject(l) ==
    /\ Checked(l)
    /\ \/ ~Repeats(l) /\ ~Applicable(l) /\ plan[l.op] # "RECONCILING"
       \/ Applicable(l)
    /\ Keep(l, "RECONCILING")
    /\ Block(l.task, l.op)
    /\ UNCHANGED <<filed, status, revision, last>>

Apply(l) ==
    LET t == l.task IN
    /\ Checked(l) /\ Applicable(l)
    /\ Keep(l, "APPLIED")
    /\ blocked' = [blocked EXCEPT ![t] = None]
    /\ revision' = [revision EXCEPT ![t] = l.revision]
    /\ last' = [last EXCEPT ![t] = l.op]
    /\ status' = [status EXCEPT ![t] = IF l.revision = 1 THEN "EXECUTING" ELSE @]
    /\ UNCHANGED filed

(* The WMS sends what it has published, and uses an identity again for a   *)
(* task that is not running; a report no disjunct covers changes nothing.  *)
Sent(l) ==
    \/ l.revision <= issued[l.task]
    \/ /\ status[l.task] \notin Running
       /\ \E m \in Letter : m.op = l.op /\ m.revision <= issued[m.task]

PlanDelta(l) ==
    /\ Sent(l)
    /\ Conflict(l) \/ Ignore(l) \/ Postpone(l) \/ Duplicate(l) \/ Reject(l) \/ Apply(l)
    /\ UNCHANGED <<active, sequence, queueRev, requestVars, wmsVars>>

-----------------------------------------------------------------------------
(* Completion.                                                             *)

(* The early returns of advance_in_session.                                *)
Completable(t) ==
    /\ active[Home[t]] /\ status[t] \in Running /\ blocked[t] = None
    /\ revision[t] = 0 => status[t] = "PREPARING" /\ Agreed(t) /\ t \notin Manual

(* An answer that lets WES ask again.  (The automatic flow also asks again *)
(* after a COMPLETED of another revision, which a WMS that keeps the       *)
(* contract never answers.)                                                *)
MayAskAgain(c) ==
    /\ standing[c] = "settled"
    /\ \/ told[c] = "BUSY"
       \/ told[c] = "STALE" /\ revision[c[1]] >= knew[c]

(* When the work of every member is done, which ready() tells.             *)
Confirm(t) ==
    /\ Completable(t)
    /\ \E k \in 1..MaxConfirm :
        /\ k = 1 \/ MayAskAgain(<<t, k - 1>>)
        /\ Owe(<<t, k>>)
        /\ asked' = [asked EXCEPT ![<<t, k>>] = revision[t]]
    /\ UNCHANGED <<active, taskVars, evidenceVars, told, wmsVars>>

(* Mutant of Finish: any answer the WMS has decided ends the task.         *)
FinishOnAnyAnswer(t) ==
    /\ Completable(t)
    /\ \E k \in 1..MaxConfirm :
        /\ standing[<<t, k>>] = "settled" /\ asked[<<t, k>>] = revision[t]
        /\ k < MaxConfirm => standing[<<t, k + 1>>] = "absent"
    /\ status' = [status EXCEPT ![t] = "EXECUTION_COMPLETED"]
    /\ UNCHANGED <<sequence, queueRev, revision, last, blocked>>
    /\ UNCHANGED <<active, evidenceVars, requestVars, wmsVars>>

(* Only the latest confirmation counts.                                    *)
Finish(t) ==
    /\ Completable(t)
    /\ \E k \in 1..MaxConfirm :
        /\ standing[<<t, k>>] = "settled" /\ told[<<t, k>>] = "COMPLETED"
        /\ asked[<<t, k>>] = revision[t]
        /\ k < MaxConfirm => standing[<<t, k + 1>>] = "absent"
    /\ status' = [status EXCEPT ![t] = "EXECUTION_COMPLETED"]
    /\ UNCHANGED <<sequence, queueRev, revision, last, blocked>>
    /\ UNCHANGED <<active, evidenceVars, requestVars, wmsVars>>

-----------------------------------------------------------------------------
(* The WMS.                                                                *)

Done(t) == \E k \in 1..MaxConfirm : verdict[<<t, k>>] = "COMPLETED"

(* Plans of an accepted task, until the WMS calls the task completed.      *)
Publish(t) ==
    /\ verdict[Prepare(t)] = "ACCEPTED" /\ ~Done(t) /\ issued[t] < MaxRevision[t]
    /\ issued' = [issued EXCEPT ![t] = @ + 1]
    /\ UNCHANGED <<active, taskVars, evidenceVars, requestVars, verdict, knew>>

(* COMPLETED and BUSY are told of a revision that is the WMS's own.        *)
Decide(c) ==
    LET t == c[1] IN
    /\ standing[c] # "absent" /\ verdict[c] = "none"
    /\ \E v \in Verdict :
        /\ v = "ACCEPTED" => c = Prepare(t)
        /\ v \in {"COMPLETED", "BUSY"} => c # Prepare(t) /\ asked[c] = issued[t]
        /\ v = "STALE" => c # Prepare(t) /\ asked[c] < issued[t]
        /\ verdict' = [verdict EXCEPT ![c] = v]
    /\ knew' = [knew EXCEPT ![c] = issued[t]]
    /\ UNCHANGED <<active, taskVars, evidenceVars, requestVars, issued>>

-----------------------------------------------------------------------------
Next ==
    \/ \E n \in Notice : Issued(n) \/ QueueChanged(n) \/ Cancel(n)
    \/ \E l \in Letter : PlanDelta(l)
    \/ \E l \in Line : Start(l) \/ Deactivate(l) \/ ArchiveLine(l)
    \/ \E t \in Task : \/ PrepareNext(t) \/ Archive({t})
                       \/ Confirm(t) \/ Finish(t) \/ Publish(t)
    \/ \E c \in Request : Settle(c) \/ GiveUp(c) \/ Void(c) \/ Decide(c)

Spec == Init /\ [][Next]_vars

-----------------------------------------------------------------------------
(* Properties.                                                             *)

(* A task executes only after the WMS has accepted it and WES knows: a     *)
(* plan that overtakes the answer to the prepare request waits, and one    *)
(* for a task that was refused, cancelled or archived is turned down.      *)
ExecutionWasAgreed ==
    \A t \in Task :
        revision[t] > 0 \/ status[t] \in {"EXECUTING", "EXECUTION_COMPLETED"} =>
            verdict[Prepare(t)] = "ACCEPTED" /\ told[Prepare(t)] = "ACCEPTED"

Applied(t, n) == {o \in Op : /\ plan[o] = "APPLIED"
                             /\ heard[o].task = t /\ heard[o].revision = n}

(* Plans are applied one by one and once: every revision up to the last    *)
(* applied one has been applied, nothing beyond it, and two reports of one *)
(* revision count as applied only if they say the same.                    *)
PlansInOrder ==
    \A t \in Task :
        /\ \A n \in 1..revision[t] : Applied(t, n) # {}
        /\ \A n \in (revision[t] + 1)..issued[t] : Applied(t, n) = {}
        /\ \A n \in 1..revision[t] : \A o, p \in Applied(t, n) : heard[o].body = heard[p].body

(* What blocks a task is a plan report of its own: otherwise no correction *)
(* could lift the block (REFERENCE_CONFLICT).                              *)
BlockIsItsOwn ==
    \A t \in Task : blocked[t] # None => /\ heard[blocked[t]] # None
                                         /\ heard[blocked[t]].task = t

(* A line works on one task at a time, and no two queued tasks share a     *)
(* place, whatever order of reports, scans and archivings: what the        *)
(* partial unique indexes would otherwise refuse at commit.                *)
LineIsExclusive ==
    \A t, u \in Task :
        t # u => /\ ~(Home[t] = Home[u] /\ status[t] \in Running /\ status[u] \in Running)
                 /\ ~(/\ status[t] = "QUEUED" /\ status[u] = "QUEUED"
                      /\ sequence[t] = sequence[u])

(* A task WES completes has every plan the WMS has published or will.      *)
CompletionMissesNothing ==
    \A t \in Task :
        status[t] = "EXECUTION_COMPLETED" => revision[t] = issued[t] /\ Done(t)

(* docs: only open tasks, blocked plans and requests not closed keep a line *)
(* from being stopped, and cancelling a task closes its prepare request     *)
(* (SUPERSEDED).                                                            *)
ClosedWorkFreesTheLine ==
    \A l \in Line :
        /\ active[l]
        /\ \A t \in Task : Home[t] = l => status[t] \notin Running /\ blocked[t] = None
        /\ \A c \in Request : Home[c[1]] = l => standing[c] \in {"absent", "settled", "void"}
        => ENABLED Deactivate(l)

owner == [c \in Request |-> Owner(c)]

Requests == INSTANCE Obligation WITH
    Item <- Request, Verdict <- Verdict,
    owner <- owner, standing <- standing, verdict <- verdict, told <- told

(* The tasks use their requests as WmsConfirmation expects (an identity is *)
(* never used twice, a cancelled owner never comes back) and learn only    *)
(* what it promises.                                                       *)
RequestsAreKept == Requests!Spec
=============================================================================
