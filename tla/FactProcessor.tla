--------------------------- MODULE FactProcessor ---------------------------
(***************************************************************************)
(* Evidence becomes decisions: process_batch of FactProcessor with its     *)
(* claims, what DecisionApplier makes of a decision, and the material      *)
(* execution they move.  A worker claims a batch of facts under one lease  *)
(* and takes them one by one; what it prepared is thrown away and decided  *)
(* again inside the transaction that applies it, so a fact is one action   *)
(* that commits or a failure that is counted.                              *)
(*                                                                         *)
(* An execution is named by the event that opened it.  What the handlers   *)
(* of the plugin may decide about a fact is a parameter.                   *)
(***************************************************************************)
EXTENDS Naturals

CONSTANTS
    Event,          \* evidence of no execution, for the plugin's consumer:
                    \* it may open an execution for it (a scan)
    Result,         \* device and WMS results that belong to one
    Of,             \* the event whose execution a fact belongs to
    AnswerTo,       \* the facts one of which asked for a result, if any
    MayDecide,      \* what the handler of a fact may decide
    Worker,         \* process_batch loops
    Nobody,         \* the holder of no claim
    MaxAttempts     \* _MAX_ATTEMPTS

Fact == Event \cup Result
Decision == {"create", "wait", "defer", "pause", "complete"}

ASSUME FactAssumption ==
    /\ Of \in [Fact -> Event] /\ \A e \in Event : Of[e] = e
    /\ AnswerTo \in [Result -> SUBSET Fact]
    /\ MayDecide \in [Fact -> SUBSET Decision]
ASSUME ClaimAssumption == Nobody \notin Worker
ASSUME AttemptAssumption == MaxAttempts \in Nat \ {0}

VARIABLES
    stage,      \* apply_status of the evidence, and published_at
    digest,     \* what was decided, as decision_digest tells
    attempts,   \* decision_attempt_count
    due,        \* has decision_next_attempt_at come
    claim,      \* decision_claim_token (its worker)
    leaseOver,  \* has decision_claim_expires_at passed
    status,     \* material_executions.status, by event
    cause,      \* last_transition_evidence_id
    duties,     \* the facts whose decision created an obligation
    batch       \* the facts each worker has still to process

claimVars == <<due, claim, leaseOver>>
executionVars == <<status, cause>>
vars == <<stage, digest, attempts, claimVars, executionVars, duties, batch>>

Stage == {"absent", "applied", "published", "IGNORED", "RECONCILING"}
Status == {"none", "CREATED", "RUNNING", "HOLD", "RECONCILING", "CLOSED"}

TypeOK ==
    /\ stage \in [Fact -> Stage]
    /\ digest \in [Fact -> Decision \cup {"none", "consumed"}]
    /\ attempts \in [Fact -> Nat]
    /\ due \in [Fact -> BOOLEAN] /\ leaseOver \in [Fact -> BOOLEAN]
    /\ claim \in [Fact -> Worker \cup {Nobody}]
    /\ status \in [Event -> Status]
    /\ cause \in [Event -> Fact]
    /\ duties \subseteq Fact
    /\ batch \in [Worker -> SUBSET Fact]

Init ==
    /\ stage = [f \in Fact |-> "absent"]
    /\ digest = [f \in Fact |-> "none"]
    /\ attempts = [f \in Fact |-> 0]
    /\ due = [f \in Fact |-> TRUE]
    /\ claim = [f \in Fact |-> Nobody]
    /\ leaseOver = [f \in Fact |-> FALSE]
    /\ status = [e \in Event |-> "none"]
    /\ cause = [e \in Event |-> e]
    /\ duties = {}
    /\ batch = [w \in Worker |-> {}]

-----------------------------------------------------------------------------
(* The fact belongs to an execution (material_execution_id is set).        *)
Bound(f) == status[Of[f]] # "none"

(* Evidence is there and past its basic processing.  An answer needs a     *)
(* request, a device result an execution.                                  *)
Arrive(f) ==
    /\ stage[f] = "absent"
    /\ f \in Result => Bound(f) /\ (AnswerTo[f] = {} \/ AnswerTo[f] \cap duties # {})
    /\ stage' = [stage EXCEPT ![f] = "applied"]
    /\ UNCHANGED <<digest, attempts, claimVars, executionVars, duties, batch>>

BecomesDue(f) ==
    /\ ~due[f]
    /\ due' = [due EXCEPT ![f] = TRUE]
    /\ UNCHANGED <<stage, digest, attempts, claim, leaseOver, executionVars, duties, batch>>

LeaseRunsOut(f) ==
    /\ claim[f] # Nobody /\ ~leaseOver[f]
    /\ leaseOver' = [leaseOver EXCEPT ![f] = TRUE]
    /\ UNCHANGED <<stage, digest, attempts, due, claim, executionVars, duties, batch>>

(* Mutant of Claimable: a lease never runs out.                            *)
ClaimableOnce(f) == stage[f] = "applied" /\ due[f] /\ claim[f] = Nobody

(* claim_decision_batch: any batch of what is due and not claimed.         *)
Claimable(f) == stage[f] = "applied" /\ due[f] /\ (claim[f] = Nobody \/ leaseOver[f])

Claim(w) ==
    /\ batch[w] = {}
    /\ \E B \in SUBSET {f \in Fact : Claimable(f)} :
        /\ B # {}
        /\ batch' = [batch EXCEPT ![w] = B]
        /\ claim' = [f \in Fact |-> IF f \in B THEN w ELSE claim[f]]
        /\ leaseOver' = [f \in Fact |-> f \notin B /\ leaseOver[f]]
    /\ UNCHANGED <<stage, digest, attempts, due, executionVars, duties>>

(* get_decision_claim_for_update.                                          *)
Holds(w, f) == f \in batch[w] /\ stage[f] = "applied" /\ claim[f] = w /\ ~leaseOver[f]

Done(w, f) == batch' = [batch EXCEPT ![w] = @ \ {f}]

(* The fact leaves its worker; after may name the next attempt.            *)
Release(f, after) ==
    /\ claim' = [claim EXCEPT ![f] = Nobody]
    /\ leaseOver' = [leaseOver EXCEPT ![f] = FALSE]
    /\ due' = [due EXCEPT ![f] = after]

(* Mutants of Transition: the cause of a move is not written down; a       *)
(* closed execution is moved like any other.                               *)
TransitionOnly(e, to, f) ==
    IF status[e] = to
    THEN UNCHANGED executionVars
    ELSE /\ status[e] # "CLOSED"
         /\ status' = [status EXCEPT ![e] = to]
         /\ cause' = cause

TransitionFromAny(e, to, f) ==
    IF status[e] = to
    THEN UNCHANGED executionVars
    ELSE /\ status' = [status EXCEPT ![e] = to]
         /\ cause' = [cause EXCEPT ![e] = f]

(* MaterialExecutionService.transition: the status it has already is no    *)
(* move, and nothing leads on from CLOSED (the transaction rolls back).    *)
Transition(e, to, f) ==
    IF status[e] = to
    THEN UNCHANGED executionVars
    ELSE /\ status[e] # "CLOSED"
         /\ status' = [status EXCEPT ![e] = to]
         /\ cause' = [cause EXCEPT ![e] = f]

(* A pause moves the fence of an execution in RECONCILING, too.            *)
Pause(e, f) ==
    /\ status[e] # "CLOSED"
    /\ status' = [status EXCEPT ![e] = "RECONCILING"]
    /\ cause' = [cause EXCEPT ![e] = f]

(* _apply_one, by decision.                                                *)
Effect(f, d) ==
    CASE d = "create"   -> duties' = duties \cup {f} /\ Transition(Of[f], "RUNNING", f)
      [] d = "wait"     -> Transition(Of[f], "HOLD", f) /\ UNCHANGED duties
      [] d = "pause"    -> Pause(Of[f], f) /\ UNCHANGED duties
      [] d = "complete" -> Transition(Of[f], "CLOSED", f) /\ UNCHANGED duties

(* Mutant of Apply: the decision is applied and the fact not published.    *)
ApplyUnpublished(w, f) ==
    /\ Holds(w, f) /\ Bound(f)
    /\ \E d \in MayDecide[f] \ {"defer"} :
        /\ Effect(f, d)
        /\ digest' = [digest EXCEPT ![f] = d]
    /\ Release(f, TRUE) /\ Done(w, f)
    /\ UNCHANGED <<stage, attempts>>

(* _apply_locked: decide, apply and publish.                               *)
Apply(w, f) ==
    /\ Holds(w, f) /\ Bound(f)
    /\ \E d \in MayDecide[f] \ {"defer"} :
        /\ Effect(f, d)
        /\ digest' = [digest EXCEPT ![f] = d]
    /\ stage' = [stage EXCEPT ![f] = "published"]
    /\ Release(f, TRUE) /\ Done(w, f)
    /\ UNCHANGED attempts

(* _hold_deferred: the fact is due again at once, and no attempt counted.  *)
Defer(w, f) ==
    /\ Holds(w, f) /\ Bound(f) /\ "defer" \in MayDecide[f]
    /\ Transition(Of[f], "HOLD", f)
    /\ Release(f, TRUE) /\ Done(w, f)
    /\ UNCHANGED <<stage, digest, attempts, duties>>

(* _apply_business_evidence, by disposition: evidence of no execution goes *)
(* to the plugin's consumer, which may bind it to a new execution and      *)
(* leave it to be decided later; a reserved line delays it, too.           *)
Postpone(w, f) ==
    /\ Holds(w, f) /\ ~Bound(f)
    /\ \/ UNCHANGED executionVars
       \/ /\ status' = [status EXCEPT ![f] = "CREATED"]
          /\ cause' = [cause EXCEPT ![f] = f]
    /\ Release(f, FALSE) /\ Done(w, f)
    /\ UNCHANGED <<stage, digest, attempts, duties>>

Consume(w, f) ==
    /\ Holds(w, f) /\ ~Bound(f)
    /\ \/ /\ stage' = [stage EXCEPT ![f] = "published"]
          /\ digest' = [digest EXCEPT ![f] = "consumed"]
       \/ /\ \E set \in {"IGNORED", "RECONCILING"} : stage' = [stage EXCEPT ![f] = set]
          /\ UNCHANGED digest
    /\ Release(f, TRUE) /\ Done(w, f)
    /\ UNCHANGED <<attempts, executionVars, duties>>

(* _record_failure counts what the worker that holds the claim could not   *)
(* do; with the last attempt the fact is set aside and its execution, if   *)
(* still open, is up for reconciliation.  A worker that lost its claim     *)
(* fails, too, and leaves no trace.                                        *)
GiveUp(f) ==
    /\ stage' = [stage EXCEPT ![f] = "RECONCILING"]
    /\ IF Bound(f) /\ status[Of[f]] # "CLOSED"
       THEN Transition(Of[f], "RECONCILING", f)
       ELSE UNCHANGED executionVars

(* Mutant of RecordFailure: whoever fails is counted.                      *)
CountAnyFailure(w, f) ==
    /\ f \in batch[w] /\ Done(w, f)
    /\ attempts' = [attempts EXCEPT ![f] = @ + 1]
    /\ IF attempts[f] + 1 >= MaxAttempts
       THEN GiveUp(f) ELSE UNCHANGED <<stage, executionVars>>
    /\ Release(f, FALSE)
    /\ UNCHANGED <<digest, duties>>

RecordFailure(w, f) ==
    /\ f \in batch[w] /\ Done(w, f)
    /\ IF Holds(w, f)
       THEN /\ attempts' = [attempts EXCEPT ![f] = @ + 1]
            /\ IF attempts[f] + 1 >= MaxAttempts
               THEN GiveUp(f) ELSE UNCHANGED <<stage, executionVars>>
            /\ Release(f, FALSE)
       ELSE UNCHANGED <<stage, attempts, claimVars, executionVars>>
    /\ UNCHANGED <<digest, duties>>

(* The process dies: its claims stay until they run out.                   *)
Abandon(w) ==
    /\ batch[w] # {}
    /\ batch' = [batch EXCEPT ![w] = {}]
    /\ UNCHANGED <<stage, digest, attempts, claimVars, executionVars, duties>>

Process(w, f) ==
    Apply(w, f) \/ Defer(w, f) \/ Postpone(w, f) \/ Consume(w, f) \/ RecordFailure(w, f)

Work(w) == Abandon(w) \/ \E f \in Fact : Process(w, f)

Next ==
    \/ \E f \in Fact : Arrive(f) \/ BecomesDue(f) \/ LeaseRunsOut(f)
    \/ \E w \in Worker : Claim(w) \/ Work(w)

Spec == Init /\ [][Next]_vars

(* Beat starts a batch every ten seconds, oldest facts first, and a batch  *)
(* ends; a fact that is claimed again and again is not put off, deferred   *)
(* or lost in a crash every single time.                                   *)
Claims(f) == \E w \in Worker : Claim(w) /\ f \in batch'[w]
Settles(f) == \E w \in Worker : Holds(w, f) /\ (Apply(w, f) \/ Consume(w, f) \/ RecordFailure(w, f))

Fairness ==
    /\ \A w \in Worker : WF_vars(Work(w))
    /\ \A f \in Fact :
        /\ WF_vars(BecomesDue(f)) /\ WF_vars(LeaseRunsOut(f))
        /\ SF_vars(Claims(f)) /\ SF_vars(Settles(f))

FairSpec == Spec /\ Fairness

-----------------------------------------------------------------------------
(* Properties.                                                             *)

(* What an execution is and the evidence it names as its cause agree: it   *)
(* runs because that fact asked for something, is held because it said so  *)
(* or is still deferred, is reconciled because it paused or could not be   *)
(* applied, is closed because it was the last; and a new one still has its *)
(* event in the queue.  (People and plugins look for the cause there.)     *)
CauseIsReal ==
    \A e \in Event : status[e] # "none" =>
        /\ Of[cause[e]] = e
        /\ status[e] = "CREATED" => stage[e] = "applied"
        /\ status[e] = "RUNNING" => digest[cause[e]] = "create"
        /\ status[e] = "HOLD" => digest[cause[e]] = "wait" \/ stage[cause[e]] = "applied"
        /\ status[e] = "RECONCILING" => digest[cause[e]] = "pause" \/ stage[cause[e]] = "RECONCILING"
        /\ status[e] = "CLOSED" => digest[cause[e]] = "complete"

(* A fact of an execution is set aside after exactly so many failures of   *)
(* workers that held it: not earlier, and none is counted afterwards.      *)
SetAsideIsEarned ==
    \A f \in Fact :
        /\ stage[f] = "applied" => attempts[f] < MaxAttempts
        /\ stage[f] = "RECONCILING" /\ Bound(f) => attempts[f] = MaxAttempts

(* Where a fact stands and what was decided about it agree; a result       *)
(* always has its execution, and an event that has one was not consumed.   *)
StageIsTrue ==
    \A f \in Fact :
        /\ digest[f] # "none" <=> stage[f] = "published"
        /\ stage[f] = "absent" => attempts[f] = 0
        /\ f \in Result /\ stage[f] # "absent" => Bound(f)
        /\ Bound(f) /\ f \in Event =>
            stage[f] \notin {"absent", "IGNORED"} /\ digest[f] # "consumed"

(* The inductive invariant.                                                *)
ProcessingInv == StageIsTrue /\ CauseIsReal /\ SetAsideIsEarned

(* A closed execution stands: late facts, retries and failures neither     *)
(* reopen it nor ask for anything on its account.                          *)
ClosedStands ==
    [][\A e \in Event : status[e] = "CLOSED" =>
        /\ status'[e] = "CLOSED" /\ cause'[e] = cause[e]
        /\ \A f \in duties' \ duties : Of[f] # e]_vars

(* To its readers FactProcessor is Decisions: every fact is decided once,  *)
(* with everything the decision does.                                      *)
life == [e \in Event |-> CASE status[e] = "none"   -> "none"
                          [] status[e] = "CLOSED" -> "closed"
                          [] OTHER                -> "open"]
decided == [f \in Fact |-> IF stage[f] \in {"IGNORED", "RECONCILING"} THEN "dropped" ELSE digest[f]]

Promise == INSTANCE Decisions
    WITH heard <- {f \in Fact : stage[f] # "absent"}, decision <- decided

KeepsPromise == Promise!Spec

(* Every fact leaves the queue, whatever crashes and failures it meets.    *)
FactLeavesQueue == \A f \in Fact : stage[f] = "applied" ~> stage[f] # "applied"
=============================================================================
