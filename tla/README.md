# Verification of the WES execution core

WES is a warehouse execution system: it stands between a WMS (which owns
business documents and the vehicle fleet) and the ECSs (which own the devices
of a workline).  Everything it does physically is an *obligation*: a row it has
promised to carry to another system at most once, over HTTP, from Celery
workers that may be slow, duplicated or killed, and whose outcome comes back as
a callback.  This directory models those obligations in TLA+, checks them with
TLC and proves what matters most with TLAPS.

All paths below are relative to the repository (`src/app/...` is the Python
package).

## 1. Inventory

| part | state it keeps | operations | hard part |
|---|---|---|---|
| **DeviceCommand** (`src/app/device`) | `device_commands` rows: status, reason, deadline, retry time, claim; DEVICE_RESULT / DEVICE_OBSERVATION evidence | create, `dispatch_one`, `reconcile_one`, `accept_result`, `process_one` | three transactions around an HTTP call, leases that expire under a slow worker, answers that are lost, results that overtake the ACK |
| **TransportTask** (`src/app/transport`) | `transport_tasks`, evidence, callback receipts, outcome version and its publication | create, submit, reconcile, callback, process evidence, confirm, withdraw, publish | the same fences plus evidence that arrives in any order and outcomes that are revised |
| **Inbound evidence, FactProcessor, DecisionApplier** (`src/app/execution`) | `inbound_evidence` with claims, material executions, position projections | accept, claim a batch, decide, apply | batches under one lease, decisions prepared before the row is locked, failures of workers that lost their claim, late facts of closed executions |
| **WmsConfirmation** (`src/app/execution/services/wms_confirmation_service.py`) | `wms_confirmations`: status, claim, frozen request, result; the answer as evidence | create, `dispatch_batch`, supersede, follow up | batches under one lease, owners that close or are cancelled while the request is out, answers later than the lease |
| **Outbound picking** (`src/app/wms_integration`) | picking tasks, plan deltas, bin batches, return batches | issue, reorder, prepare, apply plans, cancel, complete, archive | WMS events out of order, repeated and contradictory; cancel and archive against running work |
| **WorkLine** (`src/app/workline`) | lines, bindings, planes, configuration versions | start, configure, archive | changes under running executions |
| **Transport debug** (`src/app/transport_debug`) | debug runs and steps | start, advance, reset | a state machine on top of transport tasks |
| **Celery runtime** (`src/celery_app`, `src/core/transaction_wakeup.py`) | queues, beat schedule | batches that drain the database, wake-ups after commit | lost wake-ups, repeated tasks |
| **WMS adapters**, **outbound HTTP** | none | encode, classify | what counts as "certainly not delivered" |
| **Plugins** (`workline_plugins`) | none | facts to decisions | - |
| auth, admin, sys, middleware, database layer, tools | accounts, settings, caches | CRUD | outside the execution core |

How they interact: a plugin's decision creates a DeviceCommand or a
TransportTask in the transaction that applies it; a wake-up after commit (or
beat) lets a worker claim and send it; the ECS/WMS answers and later calls
back; the callback is stored as evidence in one transaction and processed in
another, which closes the obligation and publishes a fact; FactProcessor turns
facts into the next decision.  The database row, locked `FOR UPDATE`, is the
only synchronisation between all of them, so **one database transaction is one
action of the models**, and whatever a worker remembers between two
transactions is a local variable it loses when it dies.

What makes each part correct:

- *DeviceCommand*: a device acts at most once; NOT_ACCEPTED is never said of an
  action that happens; the first result closes the command and nothing reopens
  it; every command leaves the queue.
- *TransportTask*: only a task that was provably never delivered may be
  declared rejected or withdrawn; evidence moves a task forward only; every
  outcome version is published, the last one last.
- *FactProcessor*: every fact is decided once, in the transaction that applies
  the decision and against the execution as that transaction finds it; what an
  execution is, and the evidence it names as the cause, agree; every fact leaves
  the queue.
- *WmsConfirmation*: one frozen request, repeated with one identity until a
  definite answer; what WES takes for the answer is the WMS's own, and what is
  closed stays closed however late an answer comes.
- *Outbound picking*: a task executes only after the WMS has accepted it, a
  cancelled task starts no work, a plan delta is applied once and in order, a task
  is completed with all its plans, a line works on one task at a time.

The models follow that structure: each row with its workers is a module
(`DeviceCommand`, `TransportTask`, `WmsConfirmation`), `PickingTask`,
`OutcomePublication` and `FactProcessor` are what lies above them, and four
abstract specifications are the seams:

    PickingTask --------uses---> Obligation     <---implements--- WmsConfirmation
    OutcomePublication --uses---> Transfer       <---implements--- TransportTask
                                  PhysicalAction <---implements--- DeviceCommand
                                  Decisions      <---implements--- FactProcessor

Each abstract specification has no workers, claims, leases or messages: it is what
the owner of an obligation may rely on.  All four refinements are checked by TLC
on the instances below and proved by TLAPS for every value of the constants.

What the runs check and what is only proved.  The runs keep the properties a
reader of the code would argue about.  The type invariants and the inductive
invariants behind the proofs (`SafetyInv`, `SubmissionInv`, `MembersInv`,
`PublicationInv`, `ProcessingInv`) were checked by TLC on the same instances before they were
proved; as theorems they hold for every instance, so they are not run again.

## 2. DeviceCommand

`DeviceCommand.tla` models `src/app/device`; `PhysicalAction.tla` is what it
promises; `MCDeviceCommand.tla` holds the TLC instances.

### State and actions

| variable | code |
|---|---|
| `status`, `reason`, `result`, `terms`, `nextAttempt`, `attempts`, `claim` | the row of `models/command.py`, column by column, indexed by execution identity (creation is idempotent per identity, so `command_code` and identity are 1-1); `"NONE"` is the absent row; `result` is the outcome of the evidence `result_evidence_id` names; `terms` what creation froze |
| `evidence` | DEVICE_RESULT evidence, by command and report; its `apply_status` |
| `observation` | DEVICE_OBSERVATION evidence (NOT_ACCEPTED / RESULT_UNKNOWN and why) |
| `pc`, `job`, `answer` | the local variables of one `dispatch_one` call per worker |
| `net`, `accepted` | the exchange with the ECS, and how often a device took a command on (external) |
| `now` | the database clock, in seconds of the model |

`dispatch_one` is five steps, in the code's order: `Claim`; the endpoint branch
(`EndpointInvalid`, `EndpointUnavailable`) or `Authorize`; `TooLateToSend` or
`Send` / `NotSent`; the end of the exchange (`Receive`, `NoTrustedAnswer`); and the
write-back by answer (`WriteAck`, `WriteBusy`, `WriteRejected`, `WriteUnknown`).
Each write-back rereads the row through `Holds` (`get_claimed_for_update`);
`FenceMiss` is every one of them finding the claim gone.  `Crash` is the process
dying anywhere between two transactions.  `Reconcile` is `reconcile_one`,
`AcceptResult` the callback, `ProcessEvidence` is `process_one`.

Decisions worth knowing:

- `claim_token` is a fresh uuid7 per claim; the model uses the attempt number,
  which is as fresh because `attempt_count` only grows.
- The CHECK constraint of `models/command.py:186-193` makes the
  missing-endpoint branches of `dispatch_one` dead, and `ensure_admissible`
  compares a row with itself; neither is an action.
- Both deadline checks before the request (170-177 and 189-196) are
  `Authorize`: they lock the same row in consecutive transactions and end alike.
- The reads of the clock just before a transaction (`claim_next_pending`'s
  `now`) belong to the transaction.
- An observation has the identity (command, kind), so a second one would raise
  and roll the transaction back; that is the guard in `Observe`, and
  `EveryDoubtIsRecorded` shows that it never bites.
- A worker that hung up or died cannot receive an answer, so answers to it are
  dropped; the *request* stays in `net` and may arrive at any later time.
- The ECS is honest in its answers (ACK means it took the command on, 429/503
  with the contract body and 4xx rejections mean it did not): that is the
  contract, and it is external to `src/`.  Everything else about it is free: it may
  accept a request long after the worker gave up.
- `StrayResults` lets RESULT callbacks arrive that no accepted command explains:
  before the row exists, before it was sent, of another device.  With it FALSE
  results come only from commands the device took on.

### Runs

| run | instance | question |
|---|---|---|
| `dc_honest` | 1 command, 2 workers, lease 2 s, deadlines 1 s and 2 s, clock to 5, honest callbacks, fair scans | at most one action; every doubt recorded; no honest result stranded; the command leaves the queue, a stored result closes it; `PhysicalAction` is implemented |
| `dc_stray` | the same without fairness, deadlines 1 s and 3 s (shorter and longer than the lease), stray callbacks | agreement of rows and evidence, a parked command is never sent, finality of the first outcome |
| `dc_overtaken` | as `dc_stray`, 1 worker | the finding below |

Why the bounds are enough: every race in `dispatch_one` is between *one* row and
two parties (two workers, or a worker and a scan or callback), so one command
with two workers reaches each; no transaction reads a second row, and the proofs
cover any number of them.  The clock values put the deadline before, at and after
the end of the lease, and `MaxAttempts` of 3 admits a retry after a refusal and a
further one.  `Create` is only possible while `deadline + Lease` still fits under
`MaxClock`, so every deadline and lease of a run passes in it.  Real systems stop
when all commands are closed and the model's clock stops at `MaxClock`, hence
`CHECK_DEADLOCK FALSE`.

Fairness (`FairSpec`): time passes; beat starts the reconcile and the evidence
scans (`src/celery_app/config.py:70-87`) and each batch drains its queue
(`src/celery_app/tasks/device_command.py`), so `Reconcile(c)` and
`ProcessEvidence(c, r)` are weakly fair.  No dispatcher, no crash recovery and no
ECS is fair: `CommandLeavesQueue` holds although every worker may hang for ever.

### Finding

`docs/architecture/device-command-contract.md:45-46` says that a PENDING command
which has seen a matching RESULT is parked as `RESULT_BEFORE_DISPATCH` and not
dispatched.  `accept_result` does that, `process_one` does not: a RESULT stored
while the command was DISPATCHING but not yet sent, followed by a retryable
endpoint failure that returns the command to PENDING, leaves only the
*evidence* RECONCILING (`device_evidence_service.py:444-454`); the command stays
PENDING and is dispatched.  The trace of `dc_overtaken` takes just these steps.  It needs a
RESULT no accepted command explains; with honest callbacks
`ResultsAreNeverStranded` shows that it cannot happen.

### What is proved

For every set of commands and workers, every lease, deadline and retry delay,
and with stray callbacks allowed or not:

- `DeviceCommandProofs!Typing`: `Spec => []TypeOK`.
- `DeviceCommandSafety!Safety`: `Spec => []SafetyInv`, and from it
  `AtMostOnce`, `Exclusive`, `NotAcceptedStands` (NOT_ACCEPTED is never said of an
  action that happens) and `ParkedStaysUnsent`.
- In the same module `MovesAsAllowed` (the transition table), `FirstOutcome`,
  `ResultMatches`, `DoubtRecorded`, `NeverStranded`, and `CommandKeepsPromise`,
  the refinement of `PhysicalAction`.

The argument.  `AtMostOneAction` is not inductive: nothing in a row says
whether a request is under way.  The strengthening calls a command *harmless*
when no device acted on it and no request is in flight (`~MayAct`), and says
where that must hold: in the queue, when declared NOT_ACCEPTED, when parked
(`HarmlessInRow`), and with a worker that has not sent or was provably refused
(`HarmlessAtWorker`).  For that to be stable a worker must be alone
(`OneDispatcher`) with a row that is neither queued nor declared
(`WorkersHaveClaimed`), requests are single and replies truthful
(`RequestsAreSingle`, `RepliesAreAwaited`), and open rows carry no observation
(`RowsAgree`).  The key step is that a lease is *never* handed out again: an
expired DISPATCHING row goes to RECONCILING, from where no claim leads back, so
an old worker that wakes up and sends is still the only sender.  The proof has
one lemma per part and one step per action.

The records.  Every step moves at most one row, and in one of six ways
(`Created`, `Works`, `Observed`, `Parked`, `Concluded`, or not at all;
`NextMoves`).  The transition table and the finality of the first outcome are read
off these moves.  `ResultMatchesEvidence` is inductive given that reports of
another device never become applicable (`ForeignIsSetApart`), and
`EveryDoubtIsRecorded` given that open rows carry no observation (`RowsAgree`).
`ResultsAreNeverStranded` needs that a stored report comes from an accepted
command (`ReportsAreExplained`): such a command is no longer harmless, so
`SafetyInv` says that it is neither in the queue nor parked.  The refinement
joins the halves: the device acts only while `told` is open or in doubt, because
an earlier result would need an earlier action, and `refused` is told only of a
harmless command.

Assumptions: those named in `DeviceCommand` (`NoCommand` is no command, times
are naturals), the honesty of the ECS built into `Ecs`, and for
`CommandKeepsPromise` that there are no stray callbacks, the condition under which
`dc_honest` checks it: with them a foreign RESULT closes a command no device acted on.

Only model-checked: the two liveness properties, which are out of the prover's
reach.

## 3. TransportTask

`TransportTask.tla` models `src/app/transport/service.py` with the queries of
`repository.py` and the classification of answers in
`src/app/wms_adapter/transport_adapter.py`.  `MCTransportTask.tla` names the callbacks the
WMS may send in each run.

### State and actions

| variable | code |
|---|---|
| `status`, `reason`, `version`, `revision`, `claim`, `sendStarted`, `attempts`, `nextSubmit` | one row of `transport_tasks` (`models.py:26-100`); `"NONE"` is the absent row; `revision` is `last_applied_wms_outcome_revision` |
| `memberStatus`, `position` | `transport_members`: status, and `final_position_json` with `position_unknown` as one value (target, elsewhere, unknown, none) |
| `evidence` | `transport_evidence` by report; `"ORPHAN"` is CONFLICT / TRANSPORT_TASK_NOT_FOUND |
| `pc`, `attempt`, `answer` | the local variables of one `submit_pending_tasks` iteration per worker |
| `net`, `decision` | requests and answers under way, and what the WMS decided about the operation identity (external) |
| `now` | the database clock |

`submit_pending_tasks` is `Claim`, then `Fence` or `FenceMiss` (the second
transaction), `Send` or `NotSent`, `Receive` or `NoTrustedAnswer`, and the
write-back: `_apply_submit_result` has one action per kind of answer
(`WriteAck`, `WriteRefusal`, `WriteUnsent`, `WriteDoubt`) and `IgnoreAnswer` for its early
returns.  `Crash` is the process ending between any two of them, the
adapter raising included.  `Reconcile` is `reconcile_overdue_tasks`, `Withdraw`
is `finalize_unsent_task_in_session`, `RecordCallback` is `record_callback`,
`Process` is one evidence of `process_pending_evidence` with everything its transaction
writes, `Scan` and `Manual` are the two local confirmations.

Decisions worth knowing:

- One task is the whole state.  No transaction modelled reads the row of
  another task: the claim query takes any claimable row (`SKIP LOCKED`), and the
  advisory locks and projections that do relate tasks are listed below as not modelled.
- The claim token is a uuid per iteration; a worker has one iteration at a
  time, and after a crash its new token differs while the row keeps the old one.
  A worker in the model that crashes loses `pc`, so it cannot write with an
  old claim; it may claim again only once the lease is over.
- `Claim` carries the guard `ClockOutrunsLease`.  It is a bound of the model:
  a claim whose lease the clock could not outrun would never be seen to expire.
- The lease of an evidence claim is left out: `process_pending_evidence` rechecks
  status and token under the row lock, so a second worker changes nothing but the
  time of the step.  A result that waits gives its claim back (lines 802-806): no step.
- `failure_code`, `arrival_face`, kinds of task and target types other than "rack
  slot" and "handoff" are data no property distinguishes: a result says of a member
  whether it succeeded and where it is.  A task cancelled by the RCS is a failure.
  `matches` FALSE stands for a report about another kind, other members
  or another target; `at` says whether a placement names the frozen target, without
  which it is refused (`service.py:1609-1610`).  Callbacks about a container that is no member are
  conflicts at once and are left out.
- Receipts and digests only answer the WMS; a replay of an operation and a
  second result of the same revision store no evidence, which is the guard of
  `RecordCallback`.
- A body the adapter refuses before sending (too large, wrong digest) is refused
  at every attempt, because the body is frozen; it is left out with the rest of
  the validation of the frozen request.
- The code's branches on reason TRANSPORT_DELIVERY_UNKNOWN are dead: no statement
  under `src/` writes that reason.
- The WMS decides once per operation identity and repeats that decision
  (section 4.3 of `docs/contracts/transport-fulfillment-contract.md`, lines 465-471).
  An answer may be lost, a request may arrive at any later time (line 472 of that
  section and the code part ways: see the remark under Findings).  With
  `WmsFaults` it also answers CONFLICT and reports on tasks it never took.

### Runs

| run | instance | question |
|---|---|---|
| `tt_submit` | 2 workers, 1 bin for a handoff (a device may scan it, a person confirm it), its placement and the two results of one success, no WMS faults, fair scans | overlap only in doubt; the attempt budget of a task without doubt; a lost send is recovered; stored evidence is processed; `Transfer` is implemented |
| `tt_evidence` | 2 bins (rack slot, handoff), 1 worker, 4 milestones (one bin's pick-up, placement, and placement somewhere else; the other's unknown position), 4 results of 3 revisions (partial, unknown, contradictory, about something else), WMS faults | success is witnessed, failure located, the newest result holds, status only forward, a confirmed position stands |
| `tt_withdrawn`, `tt_unknown` | small instances | the findings below |

Why the bounds are enough.  A race of the submission has one row and two
parties; with `Lease = 1` and `RetryDelay = 1` the clock of `tt_submit` gives
each worker time to lose its lease, have the row reopened by the scan and taken by
the other, and be answered afterwards; `MaxSubmit` admits a retry and its
exhaustion.  In `tt_evidence` two members are the least for which a result
can be partly good, one of each target kind; revision 1 leaves a position
unknown, two different results claim revision 2, revision 3 does not match,
so gaps, replays, stale and contradictory revisions all occur, in all
orders, before and after creation.  Results that wait for the placement of a rack slot
occur there too; in `tt_submit`, whose bin goes to a handoff, none waits, so
`EvidenceIsProcessed` speaks of every stored callback.  When the task is settled, or the clock has
stopped, nothing need happen any more, hence `CHECK_DEADLOCK FALSE`.

Fairness (`FairSpec`): time passes, `reconcile_overdue_tasks` runs every 30 s and
`process_pending_evidence` every 10 s (`src/celery_app/config.py:34-45`), each
over 100 rows in order of age, so `Reconcile` and `Process(e)` are weakly fair.  Submission
workers, the WMS and whoever confirms by hand owe nothing.

### Findings

1. `tt_withdrawn`.  `_is_unsent_task_finalizable` (`service.py:539-546`) takes a
   PENDING row without claim, `send_started_at` and evidence for one that was
   never sent.  `_mark_submit_delivery_unknown` leaves the very same columns
   after a send whose delivery is in doubt, so between two attempts a cancel of
   plan members (`picking_task_cancel.py:135`) or an aborted debug run
   (`debug_run_service.py:1133`) closes the transport as FAILED,
   TRANSPORT_WITHDRAWN_BEFORE_SEND or TRANSPORT_DEBUG_ABORTED_BEFORE_SEND, while the WMS may
   hold the request.  The
   docstring (line 513) speaks of a task that provably never reached the outside.
2. `tt_unknown`.  The contract lets a higher revision settle UNKNOWN
   (`docs/contracts/transport-fulfillment-contract.md:713`).  After a result that
   fails a member with an unknown position, TARGET_PLACED clears the unknown
   position but not the FAILED status; `_result_contradicts_definite_member_fact`
   then calls the complete success of the next revision a contradiction and
   the task stays RECONCILING.

A disagreement no run shows, because it takes one look: an attempt that provably was not
delivered and was the last one the budget allows ends the task as REJECTED /
TRANSPORT_SUBMIT_RETRY_EXHAUSTED (`service.py:1527-1529`).  So does
`docs/superpowers/specs/2026-08-14-wes-wms-transport-dto-design.md:306-307` have it, but
`docs/contracts/transport-fulfillment-contract.md:472` says that a spent budget must not form a
definite REJECTED (本地发送预算耗尽不能推断远端未接纳，也不能形成确定 `REJECTED`) and that the
task keeps waiting under its identity.  `WriteUnsent` follows the code.  No property
approves of it: `BudgetIsKept` counts attempts and does not say what becomes of the
spent task.  What holds of the rejection is `RefusalIsTrue`: the WMS has not
taken the task, and never will.

### What is proved

For any members, targets, callbacks, workers, lease, delay and number of
attempts, with and without WMS faults:

- `TransportTaskProofs!Typing`: `Spec => []TypeOK`.
- `TransportTaskProofs!Members`: `Spec => []MembersInv`, and from it `Success`
  and `Failure`; `PositionStands` and `MovesForward`, the two action properties.
- `TransportTaskProofs!Submission`: `Spec => []SubmissionInv`, and from it
  `Refusal` and `Overlap`.
- `TransportTaskRecords`: `Budget`, `NewestResult`, `Hearing` (an acknowledgement a
  worker may write is true, and a WMS without faults never speaks of a task
  it did not take) and `TaskKeepsPromise`, the refinement of `Transfer`.

The argument for the evidence half.  `SuccessIsWitnessed` is not
inductive by itself: a scan completes a task whose rack-slot members were settled
earlier, so each such member must already carry its witness
(`SlotIsWitnessed`).  `ConfirmedPositionStands` needs that a member found
elsewhere is FAILED (`ElsewhereIsFailed`), or a confirmation could overwrite it.

The argument for the submission.  `RefusalIsTrue` speaks of a request that
may be anywhere.  As long as the row records no doubt (`Fresh`) there is one sender at
most, and it holds the lease (`OneSender`, `FencedOnce`); before it sends, nothing
is under way (`ReadyIsClear`); while it waits, the only request is its own
(`WaitingIsAlone`); and an answer that says "not taken" is true
(`UnsentIsTrue`, `RefusalsAreReal`).  Once the row is in doubt it stays so until
an answer decides (`WriteUnsent` does not clear doubt), and only the WMS's own
refusal may then reject the task.  Overlap is a corollary: two senders would
both hold the one lease.

The records.  An attempt is counted at the fence, and a fresh row is fenced only
while no send is started (`FencedOnce`), so an attempt is added only below the budget
(`BudgetInv`).  For the newest result the cursor must name the one applied report of
the highest revision (`CursorIsApplied`, `RevisionIsStoredOnce`); a member that
report located is out of reach of scans, confirmations and placements, and a
later result that merely agrees finds every member at its target
(`SuccessIsWitnessed`).

The promise.  `Transfer` knows what is said of a task (`told`: open, in doubt, or one of
four final words), how often something was said (`version` is `outcome_version`), where each
member is, and whether the WMS took the task.  A submission whose delivery is unknown is
still `open`; `doubt` is RECONCILING.  Only the WMS's decision maps to `Take`, allowed
because no SUBMIT is under way for a task that is absent or refused
(`SubmissionInv`).  `Refuse` needs that nothing was taken: `UnsentIsTrue` and
`RefusalsAreReal` say so.  A CONFLICT answer, a report, a scan and a confirmation
map to `Learn`: places once known stand (`PlaceLearnt`, with `ElsewhereIsFailed` for the
confirmations), `arrived` and `lost` have their places by `SuccessIsWitnessed'` and
`FailureIsLocated'`, and with a WMS without faults only a task that was taken is
heard of (`HeardInv`).  Acknowledgements, attempts and claims show nothing.
`Take` is possible after `Withdraw`, too: that is finding 1, stated where the readers of
outcomes meet it.

Assumptions: those named in the module (targets are members, reports have the
shape of reports, times are naturals), and the WMS's single decision
per operation identity built into `Decide`.

Only model-checked: the two liveness properties.

## 4. WmsConfirmation

`WmsConfirmation.tla` models `src/app/execution/services/wms_confirmation_service.py`
with the two queries of its repository, the classification of an exchange in
`src/app/wms_adapter/dispatch.py`, and the owners a row may have.  `Obligation.tla` is what it
promises to those owners; `MCWmsConfirmation.tla` holds the instance.

### State and actions

| variable | code |
|---|---|
| `status`, `claim`, `leaseOver`, `due` | one row of `wms_confirmations`; `claim` is the dispatcher whose `claim_token` it carries; `leaseOver` and `due` are all that is ever asked of `claim_expires_at` and `next_attempt_at` |
| `result`, `evidence` | `response_result`; the WMS_RESULT evidence under the operation identity with its `apply_status` |
| `owner` | what `validate_response_owner` and `is_dispatch_cancelled` say about the business owner |
| `kind` | `category` and `operation`, as far as they decide who is asked before sending: `execution` (MATERIAL_EXECUTION), `fact` (MATERIAL_MOVEMENT_REPORT, RETURN_RACK_ARRIVAL_REPORT), `guarded` (every other) |
| `batch`, `pc`, `job`, `answer` | the local variables of one `dispatch_batch` loop per dispatcher |
| `sent`, `decision` | the requests the WMS has seen, and what it decided about each identity (external) |

`dispatch_batch` is `Claim`, then for each row, in any order, the first transaction of
`_dispatch_claimed` (`PassOver` or `Send`), the exchange (`ReceiveVerdict`,
`ReceiveNothing`) and the second transaction, with one action for each of its
ways out (`DropAnswer`, `WriteCancelled`, `WriteReconciling`, `WriteResult`,
`WriteRetry`, `WriteUnreadable`).  `Abandon` is a crash or an exception of the adapter:
the rest of the batch stays DISPATCHING.

Decisions worth knowing:

- The owner is asked twice, and not the same question.  Before sending
  (`OwnerAgrees`), a row of a material execution is sent without any look at its owner
  (`wms_confirmation_service.py:572-588`), and a report of a fact whatever has become of
  its task (`picking_task_confirmation_owner.py:48-50`); only the guarded rows need an owner
  that still stands.  When the response comes, every owner must still take it, and
  for the guarded rows the two questions coincide.  Only PREPARE, which is guarded, can
  be cancelled.
- Owners move by themselves (`Business`, and together with `Create`): any owner
  may close and a closed one may reopen, as archiving does; only a cancellation
  is final.  `PickingTask` shows that its owners do no more than this.
- One claim token per dispatcher suffices: a dispatcher claims again only when
  its batch is done or abandoned, and then holds no row it still remembers.
- The branches of the write-back for a contradicting answer (`Contradicted`) are in the
  model, and never taken: the WMS repeats its one decision, and no row is claimed
  whose answer is stored (`OpenIsUnanswered`).
- The model has no counter and no clock, so no bound: `Confirmation`, `Worker`
  and `BatchLimit` are the instance.
- With a clock that does not go back, the recheck of `next_attempt_at` before
  sending (lines 552-560) cannot fire: the claim required it to have come.
- `Successor` is the row `_create_follow_up` makes after WAIT, which only executions do; a planner that
  fails, an invalid follow-up or an identity that exists all take the answered
  row back to RECONCILING, its result already written (third disjunct of
  `Completes`).
- The callers of `create_or_get` raise on an identity conflict, so the
  transaction that would have marked the row rolls back; `complete` is reached
  only from DISPATCHING, so its conflict branch is dead.
- Not modelled: `requeue_reconciling` and `supersede_after_wms_void`, which no code of
  production calls, and a work line deleted under a row it owns.

### Runs

| run | instance | question |
|---|---|---|
| `wc_rows` | a row of each kind and the one that asks again after its WAIT, 2 dispatchers, a final and a non-final verdict, unreadable answers, fair | results are verdicts, only a row still held and not cancelled is sent, late answers to cancelled owners are kept, every obligation is closed in the end, `Obligation` is implemented |

Why the bounds are enough: a race is between one row, the dispatcher that lost
its lease and the one that took it, or the owner; every transaction reads one
row.  The second row exists only once the first is completed, so a batch of
this instance has one row: what a longer batch adds is that a row waits in it while its
lease runs out and others act, and here, too, the lease of a claimed row may run out, and
another dispatcher take, send and close it, before its turn.  The proofs are for
every `BatchLimit`.  Rows end closed and dispatchers may be
idle for ever, hence `CHECK_DEADLOCK FALSE`.

Fairness (`FairSpec`): beat starts `dispatch_batch` every 10 s
(`src/celery_app/config.py:95-100`) and `claim_eligible` takes the oldest rows
first, so a row that is due again and again is claimed in the end (SF of
`Claim`); a dispatcher that can go on does (WF of `Proceed`, which is
everything but claiming and crashing); leases run out, delays pass and the WMS
decides what it was asked (WF for each row); and no accident (a lost answer, a
crash, an expired lease) hits the *same* point of every attempt, which is what strong
fairness of having the turn, of receiving and of writing back a verdict while
the claim is held says.  Without it a WMS that never answers leaves the
row owed for ever, and rightly so: `deadline_at` only limits observation
(comment at lines 772-773).

### What is proved

`WmsConfirmationProofs`, for any rows, dispatchers, batch sizes and verdicts:
`Typing`, `ResultsAreVerdicts`, `ClosedRowsStand`, `OnlyHeldRowsAreSent`,
`LateAnswersAreKept`, and `RowsKeepPromise`, the refinement of `Obligation`.

The argument.  What a dispatcher carries home is a decision of the WMS about its
own row (`AnswersAreTrue`), and no answer is stored for a row that is still
open (`OpenIsUnanswered`, part of `ConfirmationInv`); hence each step
does one of six things to a row (`RowStep`: nothing, make it, decide, resolve,
give up, void).  The lemma `RowSteps` goes through the actions once; the action
properties and the refinement are read off those six shapes.  Only the first
two parts need the strengthening: `ResultIsTheVerdict` alone does not say that the
evidence of an *open* row is empty, so a retry might complete it against an
answer stored before.  That no row of a cancelled owner is sent rests on
`CancelledIsGuarded`: only rows whose owner is asked before sending can be cancelled.

## 5. PickingTask

`PickingTask.tla` models the life of an outbound task: the four WMS reports
(`picking_task_issued.py`, `..._queue_changed.py`, `..._plan_delta.py`,
`..._cancel.py`), prepare, archiving, stopping and starting the line
(`src/app/workline/services`), and the completion flows of the automatic and
the manual plugin.  Its requests are items of `Obligation`: `Settle`, `GiveUp` and
`Void` are all it knows of dispatchers.

### State and actions

| variable | code |
|---|---|
| `status`, `sequence`, `queueRev`, `revision`, `last`, `blocked` | one row of `picking_tasks`; `"NONE"` is the absent row |
| `active` | `work_lines.is_active` |
| `filed` | evidence of issued, queue_changed and cancel reports |
| `heard`, `plan` | evidence of plan reports: the first body under an identity, and its `apply_status` |
| `standing`, `told`, `verdict`, `asked` | the prepare request `<<t, 0>>` and the completion confirmations `<<t, k>>`, as in `Obligation`, and the plan revision each confirmation froze |
| `issued`, `knew` | the plans the WMS has published, and how many when it decided (external) |

Every report is one transaction, in the code's order of checks.  `validate_plan` is
split by what it concludes: `Repeats` (DUPLICATE), `InTurn`, `Agreed`, `Early`
(PENDING) and `Applicable` (None); `record` then becomes `Conflict`, `Ignore`, `Postpone`,
`Duplicate`, `Reject` and `Apply`.  Early returns that change nothing are stutters.

Decisions worth knowing:

- `Owner` is `picking_task_confirmation_owner.py`: a prepare request of a cancelled task
  is cancelled, one of an archived task still takes its answer.
- `PrepareNext` takes any queued task of the line: `not_before` and `SKIP LOCKED`
  may hide every earlier one, so the order of the queue is not a guarantee.
- A queue change with sequence 0 stands for one that names no sequence.
- Whether the deadline of the prepare request has passed is left open in
  `Early`, and whether an admission policy turns a plan down, in `Reject`.
- `Deactivate` counts picking tasks and their requests only; the workload of
  other owners restricts it further.
- The work of an executing task is abstracted to when it is ready: `Confirm`
  and `Finish` may wait for ever.
- The WMS (external): one decision per request, COMPLETED and BUSY only of its
  own newest revision, no plan after COMPLETED, reports only of what it published,
  except that it may use an identity again for a task that is not running.
  A refusal settles nothing for WES and is part of `GiveUp`.
- Not modelled: PLAN_MEMBERS cancel, member rows, activation of plans.
- `MaxRevision` (plans the WMS publishes) and `MaxConfirm` (confirmations of one
  task) are the bounds; the proofs hold for all of them.

### Runs

| run | instance | question |
|---|---|---|
| `pt_plan` | 2 tasks issued at the same place of 1 line, a queue change, a cancel, 5 plan reports under 3 identities for 2 revisions, 2 confirmations | execution was agreed; plans in order; a block is the task's own; the line is exclusive; completion misses nothing; requests are used as `Obligation` allows |
| `pt_void` | the same with 1 confirmation | the finding below |

Why the bounds are enough: two revisions are the least with a first and a later
plan and a gap between them; three identities admit a repetition under the
same one, under a new one, and a contradiction under either; two tasks are a
collision, on the line and in the queue, and the second is what a mistaken report
can name; two confirmations are an answer that was overtaken and the next one.
When every report is filed nothing need happen any more, hence `CHECK_DEADLOCK
FALSE`.

### Finding

`get_unfinished_workload_summary` counts every confirmation that is not
COMPLETED (`workline_repository.py:365`), SUPERSEDED included.  A TASK cancel of
a PREPARING task closes its prepare request as SUPERSEDED (`docs/contracts/wms-outbound-picking-task-integration-requirements.md:538`),
from where nothing leads on, so the line can never be deactivated again although
`docs/integration/operation-integration-delivery-2026-09-06.md:100` lets only
confirmations not closed prevent it.  `pt_void` needs four steps: issued,
prepare, cancel, supersede.

### What is proved

`PickingTaskProofs`, for any tasks, lines, reports, identities and numbers of plans
and confirmations: `Typing`, `ExecutionIsAgreed`, `PlansComeInOrder`,
`BlockingStaysAtHome`, `LinesAreExclusive`, `CompletionIsComplete`, and
`TasksKeepRequests`, the refinement of `Obligation`.

The argument.  `PlansInOrder` is carried by four parts (`NotAhead`, `NoGap`,
`LastIsKnown`, `SameBody`): a report is applied only as the next revision, or as a
repetition of the last one with the same body, which is why two bodies of one
revision never both count.  `ExecutionWasAgreed` needs what the requests know
(`RequestInv`): an answer told is the decision made.  `CompletionMissesNothing`
adds that a COMPLETED decision fixes the number of plans published
(`VerdictIsCurrent`).  Assumptions: the shapes of notices and letters named in the module,
and the WMS's part built into `Publish`, `Sent` and `Decide`.

### The composition

`WmsConfirmation` is proved to implement `Obligation` for owners that move as
`OwnersMove` allows, and `PickingTask` to use the same `Obligation`, its owners moving
by its own transactions.  So what the two models assume of each other is one
specification, proved on both sides: a dispatcher never tells a task what the WMS did
not decide, and a task never brings a cancelled request back.

## 6. Publication of outcomes

`OutcomePublication.tla` models `publish_pending_outcomes`
(`src/app/transport/service.py`), the publisher it calls
(`src/app/workline/plugin_routing.py`) with `InboundEvidenceService.accept`, and
the change of a line's plugin (`workline_configuration_service.py`).  The task
itself is `Transfer`: publication relies on nothing else `TransportTask` does.

### State and actions

| variable | code |
|---|---|
| `told`, `version`, `place`, `taken` | of `Transfer`; `version` and `told` are `outcome_version` and `outcome_json` |
| `published`, `claim`, `leaseOver` | `published_outcome_version`, `outcome_claim_token`, whether `outcome_claim_until` has passed |
| `pc`, `snapshot`, `plugin` | the local variables of one publication per publisher |
| `lock` | the publisher that holds the task's row `FOR UPDATE` while the plugin stores |
| `stored` | TRANSPORT_RESULT evidence under `transport:<task>:outcome:<version>` |
| `line` | which plugin the work line has |

A publication is `Claim`, `Admit`, `Store`, `WriteBack`, or `GiveUp` at any point:
the plugin raises, the publication times out (perhaps when the commit is
done), or the process dies.

Decisions worth knowing:

- The publisher's transaction is the one place where a lock is a variable:
  the plugin runs inside it, and what keeps the line from being reconfigured meanwhile is
  exactly this lock.  `Admit` takes it, `Store` and `GiveUp` release it.
  `Reconfigure` reads the task without locking it, as the summary query does.
- The publisher's identity suffices as token: it claims again only when
  idle, and then remembers nothing.
- A task that waits for its turn in a batch is one that stays claimed; after a failed
  publication the claim stays on the row, which delays the next attempt.
- `Reconfigure` is allowed by the task alone; the other unfinished work that forbids it
  only narrows it.
- `_discard_stale_delivery_unknown` has no effect on a row that was ever said
  anything of (its version is 0 then); for tasks of debug runs the publisher returns at once,
  and they are left out.

### Run

| run | instance | question |
|---|---|---|
| `op_outcomes` | 1 member, 2 publishers, up to 3 versions, a WMS that speaks freely, fair | what is published is stored; a final outcome is the last; nothing is stored after a reconfiguration; the published version goes forward; the last word is published in the end |

Why the bounds are enough: a publisher that is slow, the one that overtakes it,
and three versions: one carried by the slow one, one said since, and a final one.
Nothing need be said of a task for ever, hence `CHECK_DEADLOCK FALSE`.

Fairness (`FairSpec`): beat starts a batch every 10 s
(`src/celery_app/config.py:58-63`), so a task with something to publish is
claimed; a publisher goes on (WF); and not every attempt of the holder of the claim fails at
the same point (SF).

### What is proved

`OutcomePublicationProofs`, for any publishers, versions and members, with an honest
WMS or not: `Typing`, `Publication` (`Spec => []PublicationInv`), and from it `Readers`,
`Finality`, `NoConflict`, `Reconfiguration` and `Forward`.

The argument.  Whatever is carried, by a publisher or as evidence, was said
(`CarriedWasSaid`): because after a final word `Transfer` says nothing, an outcome
below the latest version is never final.  Two that carry the same version carry the same
word (`CarriedAgrees`), so evidence never conflicts.  Storing needs the lock and an
unpublished version, and reconfiguring that all is published; no one can write back
while the lock is held, so the two exclude each other (`LockIsHeld`,
`LineIsDone`).  What is written back was stored, or is published already
(`WriteBackIsTrue`).

Only model-checked: `LastWordIsPublished`.

## 7. FactProcessor

`FactProcessor.tla` models `process_batch` (`src/app/execution/services/fact_processor.py`)
with the claims of `inbound_evidence_repository.py`, what `DecisionApplier`
makes of a decision, and the status of a material execution.  `Decisions.tla` is what
it promises; `MCFactProcessor.tla` holds the instance.

### State and actions

| variable | code |
|---|---|
| `stage` | `apply_status` and `published_at` of the evidence: absent, applied, published, IGNORED, RECONCILING |
| `digest` | `decision_digest`: what was decided |
| `attempts`, `due` | `decision_attempt_count`; whether `decision_next_attempt_at` has come |
| `claim`, `leaseOver` | `decision_claim_token` by its worker; whether `decision_claim_expires_at` has passed |
| `status`, `cause` | of `material_executions`: `status`, `last_transition_evidence_id` |
| `duties` | the facts whose decision created a command, a transport or a request |
| `batch` | the facts each `process_batch` call has still to process |

An execution is named by the event that opened it (`admission_evidence_id`).  A worker
takes a batch (`Claim`) and then each fact of it, in any order: `Apply` (decide, apply,
publish), `Defer` (`_hold_deferred`), `Postpone` and `Consume` (the four
dispositions of a plugin's evidence consumer, and a reserved line), or `RecordFailure`; `Abandon`
is the process dying.

Decisions worth knowing:

- The transaction that prepares a fact writes nothing that stays: what
  it decided is decided again in `_apply_locked`, under the lock.  So it is part of the
  action that follows, and where it raises, of `RecordFailure`.  The model carries no
  prepared decision, so it would not notice code that applied a stale one.
- A WMS fact without an execution that another component processed between claim and
  apply is given back unpublished (`fact_processor.py:208-217`); that way out is not modelled.
- What a handler may decide is a parameter (`MayDecide`), and when another component
  answers is a parameter, too (`AnswerTo`: one of these facts must have asked); arrivals
  of device results are allowed earlier than a device would send them.
- The SDK lets a handler return several decisions; the installed plugins return
  one, and so does the model.
- Branches no installed plugin reaches are left out: an event without handlers (IGNORED
  at preparation), the initial correlator, a digest that differs from one
  stored (a fact is published in the transaction that stores it), a recovery after a
  TRANSPORT_RESULT.
- A line that is deactivated, or a decision that cannot be applied (an identity
  conflict, a missing role), is a failure: `RecordFailure` may happen at any fact.
- The query's order and limit are left out, any set of claimable facts is a
  batch; so is the rule that an older UNKNOWN outcome of a transport goes first.
- The limit of attempts is 5 in the code (`_MAX_ATTEMPTS`) and a parameter here.

### Run

| run | instance | question |
|---|---|---|
| `fp_batch` | a scan, the result of a placement and a final report of one material, 2 workers, 2 attempts, fair | the cause of an execution's status is real; a fact is set aside only after its attempts; a closed execution stands; every fact leaves the queue; `Decisions` is implemented |

Why the bounds are enough: one execution, because no transaction locks two;
an opening fact, one that may ask or wait for its turn, and one that may close, wait or pause are
every way in and out of each status; with two attempts a fact may fail
once and be decided, or be set aside.  When every fact is decided nothing
is left to do, hence `CHECK_DEADLOCK FALSE`.

Fairness (`FairSpec`): beat starts a batch every 10 s (`src/celery_app/config.py:89-94`), which takes the
facts waiting longest, and ends (WF of `Work`); delays and leases pass; a fact is
not deferred, or hit by a crash, at every attempt (SF of `Claims` and
`Settles`).  A plugin that deferred a fact for ever would keep it in the queue for ever.

### What is proved

`FactProcessorProofs`, for any facts, executions, workers, handlers and attempt limits:
`Typing`, `Processing` (`Spec => []ProcessingInv`), and from it `Causes` and `Earned`;
`Closing`, the action property; and `ProcessorKeepsPromise`, the refinement of `Decisions`.

The argument.  A digest is written only by the transaction that publishes
its fact (`StageIsTrue`), and such a fact is never taken up again.  So the evidence an execution
names as its cause is settled, unless the execution is new or held for a deferred
fact, and then that fact's next step moves the execution on or sets it aside with
it.  A fact that finds the status it asks for leaves the cause alone, and the old cause
had asked for the same.  Failures are counted only by the holder of the claim
(`Holds`), which is what `SetAsideIsEarned` turns on.  For the refinement every action is one step
of `Decisions` or none: an event `Open`s an execution when it is bound; a
decision is `Act` or `Complete`; giving up is `Drop`.

Assumptions: the shapes of `Of`, `AnswerTo` and `MayDecide` named in the module.
Only model-checked: `FactLeavesQueue`.

A remark, not a finding: a later fact may lead an execution out of RECONCILING (the
transition table allows it), and after five failures an execution goes to RECONCILING, although
`docs/architecture/SRS.md:31` would not have application failures become reconciliation directly.

## 8. Modules

| module | models | refines |
|---|---|---|
| `PhysicalAction`, `Obligation`, `Transfer`, `Decisions` | abstract specifications: a device command, a request owed to the WMS, a transfer and its outcome, facts and their decisions | - |
| `DeviceCommand` | section 2 | `PhysicalAction` (`KeepsPromise`) |
| `TransportTask` | section 3 | `Transfer` (`KeepsPromise`) |
| `WmsConfirmation` | section 4 | `Obligation` (`KeepsPromise`) |
| `PickingTask` | section 5 | `Obligation` (`RequestsAreKept`) |
| `OutcomePublication` | section 6 | uses `Transfer` |
| `FactProcessor` | section 7 | `Decisions` (`KeepsPromise`) |
| `MC*` | instances for TLC | - |
| `*Proofs`, `*Safety`, `*Records` | theorems | - |

What would come next: position projections, bin batches, material decisions and
return racks inside an executing task, the debug run's state machine.

## 9. What is not modelled, and what cannot be proved

- Position projections and their replay, the debug dispatch gate.  The gate only claims and releases a row in one
  transaction, which changes nothing.
- The contents of facts and decisions, the FIFO of material executions; the work inside an
  executing picking task (bin batches, scans, material decisions, return racks,
  the plugins' flows); configuration of lines; debug runs.
- EVENT callbacks of devices, the debug preflight, read models: append-only or
  read-only.
- HTTP parsing, schema validation, diagnostics, authentication, administration,
  middleware, the generic repository and cache, migrations and deployment: no
  rule of the execution core lives there.
- Statement-level interleaving inside a transaction: rows are locked `FOR
  UPDATE` in every modelled transaction, so a transaction is one action.  Two
  places rest on another lock: a callback for a task that is just being created
  (`src/app/transport/service.py:925`: one transaction stores an orphan, the other
  looks for orphans) is kept in order by an advisory lock on the identity, and the
  publisher of outcomes by the lock section 6 models.
- Liveness under fairness and ENABLED are outside the prover's reach and are
  checked by TLC only; so is what a recursive definition computes for every
  input (induction over data), of which these modules have none.  No module uses
  a RECURSIVE operator.

## 10. Running

    tlc -workers 2 -config tt_submit.cfg MCTransportTask.tla
    tlapm TransportTaskProofs.tla

Each `.cfg` belongs to the MC module with its prefix (`dc_` to `MCDeviceCommand`,
`tt_` to `MCTransportTask`, `wc_` to `MCWmsConfirmation`, `pt_` to `MCPickingTask`,
`op_` to `MCOutcomePublication`, `fp_` to `MCFactProcessor`).  Runs whose name ends in `_overtaken`, `_withdrawn`, `_unknown`
or `_void` are expected to end in a counterexample; all others in no error.
`PROJECT.json` maps every definition to its source lines and lists for each
property a mutation of the model that TLC finds violated.
