-------------------------- MODULE WmsConfirmation --------------------------
(***************************************************************************)
(* The reliable obligations WES owes the WMS: requests frozen under one    *)
(* operation identity, each belonging to a business owner that may be      *)
(* cancelled or closed while the request is under way.  Dispatchers claim  *)
(* a batch of rows under one lease and then work through it row by row:    *)
(* one transaction looks at the row once more, and for some kinds of rows  *)
(* at its owner, the request is sent outside every transaction, and        *)
(* another transaction writes the answer back, perhaps after the lease ran *)
(* out and another dispatcher, or the owner, has closed the row.           *)
(*                                                                         *)
(* Time is abstracted to two facts of each row: that its lease has run out *)
(* and that its next attempt is due.                                       *)
(***************************************************************************)
EXTENDS Naturals, FiniteSets

CONSTANTS
    Confirmation,   \* the rows
    Successor,      \* the row that asks again after WAIT, where there is one
    Worker,         \* dispatch_batch loops
    Nobody,         \* the holder of no claim
    Verdict,        \* what the WMS may decide about a request
    Final,          \* the verdicts the adapter calls DETERMINATE
    BatchLimit,     \* WMS_CONFIRMATION_BATCH_LIMIT (100)
    WmsFaults       \* may the WMS answer what the adapter cannot read

ASSUME ConfirmationAssumption ==
    /\ Confirmation # {}
    /\ DOMAIN Successor \subseteq Confirmation
    /\ Successor \in [DOMAIN Successor -> Confirmation]
ASSUME WorkerAssumption == Nobody \notin Worker
ASSUME VerdictAssumption ==
    /\ Final \subseteq Verdict
    /\ Verdict \cap {"none", "UNAVAILABLE", "NO_ANSWER", "UNREADABLE"} = {}
ASSUME LimitAssumption == BatchLimit \in Nat \ {0} /\ WmsFaults \in BOOLEAN

VARIABLES
    owner,      \* how each row's business owner stands: does it take the answer
    kind,       \* what each identity is owed for; it never changes
    status,     \* wms_confirmations: the row, column by column
    claim,      \* claim_token (its worker)
    leaseOver,  \* has claim_expires_at passed
    due,        \* has next_attempt_at passed
    result,     \* response_result
    evidence,   \* the answer stored under the identity, and its apply_status
    batch,      \* the claimed rows a dispatcher has not come to yet
    pc,         \* where each dispatcher is
    job,        \* the row it sends
    answer,     \* what adapter.dispatch returned
    sent,       \* the rows whose request has left once
    decision    \* what the WMS decided about each identity

rowVars == <<status, claim, leaseOver, due>>
outcomeVars == <<result, evidence>>
workerVars == <<batch, pc, job, answer>>
wmsVars == <<sent, decision>>
vars == <<owner, kind, rowVars, outcomeVars, workerVars, wmsVars>>

-----------------------------------------------------------------------------
(* Data.                                                                   *)

Owner == {"open", "closed", "cancelled"}

(* A row of a material execution, a report of a fact (MATERIAL_MOVEMENT,   *)
(* RETURN_RACK_ARRIVAL), or any other row of a picking task or work line.  *)
Kind == {"execution", "fact", "guarded"}
Open == {"PENDING", "DISPATCHING"}
Closed == {"COMPLETED", "RECONCILING", "SUPERSEDED"}
Status == {"NONE"} \cup Open \cup Closed

(* WmsDispatchCode: a verdict and UNAVAILABLE (RETRY) carry a response;    *)
(* NO_ANSWER is NOT_SENT or DELIVERY_UNKNOWN, UNREADABLE is RECONCILING    *)
(* without a response.                                                     *)
Response == Verdict \cup {"UNAVAILABLE"}
Answer == Response \cup {"NO_ANSWER", "UNREADABLE"}

NoEvidence == [answer |-> "none", apply |-> "none"]
Evidence == [answer : Response, apply : {"APPLIED", "RECONCILING"}]

TypeOK ==
    /\ owner \in [Confirmation -> Owner]
    /\ kind \in [Confirmation -> Kind]
    /\ status \in [Confirmation -> Status]
    /\ claim \in [Confirmation -> Worker \cup {Nobody}]
    /\ leaseOver \in [Confirmation -> BOOLEAN]
    /\ due \in [Confirmation -> BOOLEAN]
    /\ result \in [Confirmation -> Final \cup {"none"}]
    /\ evidence \in [Confirmation -> Evidence \cup {NoEvidence}]
    /\ batch \in [Worker -> SUBSET Confirmation]
    /\ pc \in [Worker -> {"idle", "sending", "answered"}]
    /\ job \in [Worker -> Confirmation]
    /\ answer \in [Worker -> Answer]
    /\ sent \subseteq Confirmation
    /\ decision \in [Confirmation -> Verdict \cup {"none"}]

AnyRow == CHOOSE c \in Confirmation : TRUE

Init ==
    /\ owner \in [Confirmation -> {"open", "closed"}]
    /\ kind \in [Confirmation -> Kind]
    /\ \A c \in DOMAIN Successor : kind[Successor[c]] = "execution"
    /\ status = [c \in Confirmation |-> "NONE"]
    /\ claim = [c \in Confirmation |-> Nobody]
    /\ leaseOver = [c \in Confirmation |-> FALSE]
    /\ due = [c \in Confirmation |-> TRUE]
    /\ result = [c \in Confirmation |-> "none"]
    /\ evidence = [c \in Confirmation |-> NoEvidence]
    /\ batch = [w \in Worker |-> {}]
    /\ pc = [w \in Worker |-> "idle"]
    /\ job = [w \in Worker |-> AnyRow]
    /\ answer = [w \in Worker |-> "NO_ANSWER"]
    /\ sent = {}
    /\ decision = [c \in Confirmation |-> "none"]

-----------------------------------------------------------------------------
(* The business around the rows.                                           *)

(* An applied cancellation is final, and it concerns PREPARE only          *)
(* (is_dispatch_cancelled); any other owner may close, and a closed one    *)
(* may become answerable again (archiving).                                *)
OwnersMove ==
    /\ owner' \in [Confirmation -> Owner]
    /\ \A c \in Confirmation :
        /\ owner[c] = "cancelled" => owner'[c] = "cancelled"
        /\ owner'[c] = "cancelled" => kind[c] = "guarded"
    /\ UNCHANGED kind

Business == OwnersMove /\ UNCHANGED <<rowVars, outcomeVars, workerVars, wmsVars>>

(* create_or_get under a new identity, in the business's own transaction.  *)
(* The row that asks again has a fresh identity, which nobody else uses    *)
(* (_valid_follow_up: a uuid7 of its own): only _create_follow_up adds it. *)
Create(c) ==
    /\ status[c] = "NONE" /\ \A d \in DOMAIN Successor : Successor[d] # c
    /\ status' = [status EXCEPT ![c] = "PENDING"]
    /\ OwnersMove
    /\ UNCHANGED <<claim, leaseOver, due, outcomeVars, workerVars, wmsVars>>

-----------------------------------------------------------------------------
(* Time.                                                                   *)

LeaseRunsOut(c) ==
    /\ status[c] = "DISPATCHING" /\ ~leaseOver[c]
    /\ leaseOver' = [leaseOver EXCEPT ![c] = TRUE]
    /\ UNCHANGED <<owner, kind, status, claim, due, outcomeVars, workerVars, wmsVars>>

ComesDue(c) ==
    /\ status[c] = "PENDING" /\ ~due[c]
    /\ due' = [due EXCEPT ![c] = TRUE]
    /\ UNCHANGED <<owner, kind, status, claim, leaseOver, outcomeVars, workerVars, wmsVars>>

-----------------------------------------------------------------------------
(* Rows.                                                                   *)

(* mark_reconciling, complete and supersede_after_owner_cancel all leave   *)
(* the row unclaimed; record_delivery_unknown too, and sets next_attempt.  *)
Leave(c, s) ==
    /\ status' = [status EXCEPT ![c] = s]
    /\ claim' = [claim EXCEPT ![c] = Nobody]
    /\ leaseOver' = [leaseOver EXCEPT ![c] = FALSE]

Close(c, s) == Leave(c, s) /\ due' = [due EXCEPT ![c] = TRUE]

(* Mutant of Supersede: a completed row is superseded as well.             *)
SupersedeAll(c) ==
    IF status[c] = "SUPERSEDED" THEN UNCHANGED rowVars ELSE Close(c, "SUPERSEDED")

Retry(c) == Leave(c, "PENDING") /\ due' = [due EXCEPT ![c] = FALSE]

Supersede(c) ==
    IF status[c] \in {"COMPLETED", "SUPERSEDED"} THEN UNCHANGED rowVars
    ELSE Close(c, "SUPERSEDED")

(* InboundEvidenceService.accept under the operation identity: the first   *)
(* content stands.                                                         *)
Keep(c, a, apply) ==
    evidence' = IF evidence[c] # NoEvidence THEN evidence
                ELSE [evidence EXCEPT ![c] = [answer |-> a, apply |-> apply]]

(* IdentityConflict of accept; WES looks for it, but OpenIsUnanswered      *)
(* below says that no claimed row has an answer stored.                    *)
Contradicted(c, a) == evidence[c] # NoEvidence /\ evidence[c].answer # a

(* get_claimed_for_update.                                                 *)
Held(w, c) == status[c] = "DISPATCHING" /\ claim[c] = w

-----------------------------------------------------------------------------
(* Claiming a batch, and the last look at a row before it is sent.         *)

(* Mutant of Eligible: what a dead dispatcher held is not taken over.      *)
PendingOnly == {c \in Confirmation : status[c] = "PENDING" /\ due[c]}

(* claim_eligible.                                                         *)
Eligible == {c \in Confirmation : \/ status[c] = "PENDING" /\ due[c]
                                  \/ status[c] = "DISPATCHING" /\ leaseOver[c]}

(* dispatch_batch: skip_locked may pass over any row another transaction   *)
(* holds.                                                                  *)
Claim(w, S) ==
    /\ pc[w] = "idle" /\ batch[w] = {}
    /\ S # {} /\ S \subseteq Eligible /\ Cardinality(S) <= BatchLimit
    /\ status' = [c \in Confirmation |-> IF c \in S THEN "DISPATCHING" ELSE status[c]]
    /\ claim' = [c \in Confirmation |-> IF c \in S THEN w ELSE claim[c]]
    /\ leaseOver' = [c \in Confirmation |-> IF c \in S THEN FALSE ELSE leaseOver[c]]
    /\ batch' = [batch EXCEPT ![w] = S]
    /\ UNCHANGED <<owner, kind, due, outcomeVars, pc, job, answer, wmsVars>>

Turn(w, c) == pc[w] = "idle" /\ c \in batch[w]

(* validate_dispatch_owner and _validate_workline_owner: an execution's    *)
(* row is sent without a look at its owner, and a fact that was frozen is  *)
(* reported whatever has become of its task.                               *)
OwnerAgrees(c) == kind[c] = "guarded" => owner[c] = "open"

(* Mutant of Send: the claim is not looked at again before sending.        *)
SendUnchecked(w, c) ==
    /\ Turn(w, c)
    /\ OwnerAgrees(c)
    /\ batch' = [batch EXCEPT ![w] = @ \ {c}]
    /\ pc' = [pc EXCEPT ![w] = "sending"]
    /\ job' = [job EXCEPT ![w] = c]
    /\ sent' = sent \cup {c}
    /\ UNCHANGED <<owner, kind, rowVars, outcomeVars, answer, decision>>

(* The first transaction of _dispatch_claimed: nothing to send.            *)
PassOver(w, c) ==
    /\ Turn(w, c)
    /\ batch' = [batch EXCEPT ![w] = @ \ {c}]
    /\ \/ ~Held(w, c) /\ UNCHANGED rowVars
       \/ Held(w, c) /\ owner[c] = "cancelled" /\ Supersede(c)
       \/ Held(w, c) /\ owner[c] = "closed" /\ ~OwnerAgrees(c) /\ Close(c, "RECONCILING")
    /\ UNCHANGED <<owner, kind, outcomeVars, pc, job, answer, wmsVars>>

Send(w, c) ==
    /\ Turn(w, c)
    /\ Held(w, c) /\ OwnerAgrees(c)
    /\ batch' = [batch EXCEPT ![w] = @ \ {c}]
    /\ pc' = [pc EXCEPT ![w] = "sending"]
    /\ job' = [job EXCEPT ![w] = c]
    /\ sent' = sent \cup {c}
    /\ UNCHANGED <<owner, kind, rowVars, outcomeVars, answer, decision>>

-----------------------------------------------------------------------------
(* The exchange.                                                           *)

(* The WMS: one decision for each identity, repeated whenever it is asked. *)
Decide(c) ==
    /\ c \in sent /\ decision[c] = "none"
    /\ \E v \in Verdict : decision' = [decision EXCEPT ![c] = v]
    /\ UNCHANGED <<owner, kind, rowVars, outcomeVars, workerVars, sent>>

Answered(w, a) ==
    /\ pc[w] = "sending"
    /\ pc' = [pc EXCEPT ![w] = "answered"]
    /\ answer' = [answer EXCEPT ![w] = a]
    /\ UNCHANGED <<owner, kind, rowVars, outcomeVars, batch, job, wmsVars>>

ReceiveVerdict(w) == decision[job[w]] # "none" /\ Answered(w, decision[job[w]])

(* 503 UNAVAILABLE, a request that never left or whose answer never came,  *)
(* and an answer the adapter cannot read.                                  *)
ReceiveNothing(w) ==
    \E a \in {"UNAVAILABLE", "NO_ANSWER"} \cup (IF WmsFaults THEN {"UNREADABLE"} ELSE {}) :
        Answered(w, a)

(* A crash, a cancelled task, or an exception of the adapter, which leaves *)
(* the whole rest of the batch behind.                                     *)
Abandon(w) ==
    /\ pc[w] # "idle" \/ batch[w] # {}
    /\ pc' = [pc EXCEPT ![w] = "idle"]
    /\ batch' = [batch EXCEPT ![w] = {}]
    /\ answer' = [answer EXCEPT ![w] = "NO_ANSWER"]
    /\ job' = [job EXCEPT ![w] = AnyRow]
    /\ UNCHANGED <<owner, kind, rowVars, outcomeVars, wmsVars>>

-----------------------------------------------------------------------------
(* The second transaction of _dispatch_claimed.                            *)

Return(w) == /\ pc[w] = "answered"
             /\ pc' = [pc EXCEPT ![w] = "idle"]
             /\ answer' = [answer EXCEPT ![w] = "NO_ANSWER"]
             /\ job' = [job EXCEPT ![w] = AnyRow]
             /\ UNCHANGED <<owner, kind, batch, wmsVars>>

(* Mutant of DropAnswer: a lost claim drops every answer.                  *)
DropLate(w) ==
    /\ Return(w)
    /\ ~Held(w, job[w])
    /\ UNCHANGED <<rowVars, outcomeVars>>

(* The claim is lost and nobody cancelled the owner: the answer is         *)
(* dropped; whoever holds the row asks again under the same identity.      *)
DropAnswer(w) ==
    /\ Return(w)
    /\ ~Held(w, job[w]) /\ owner[job[w]] # "cancelled"
    /\ UNCHANGED <<rowVars, outcomeVars>>

(* Held or not: a true answer to a cancelled owner is kept, never applied. *)
WriteCancelled(w) ==
    LET c == job[w] IN
    /\ Return(w)
    /\ owner[c] = "cancelled"
    /\ IF answer[w] \in Response
       THEN Keep(c, answer[w], IF answer[w] \in Final \cup {"UNAVAILABLE"} THEN "APPLIED" ELSE "RECONCILING")
       ELSE UNCHANGED evidence
    /\ Supersede(c)
    /\ UNCHANGED result

Refused(w, c) == owner[c] = "closed" \/ Contradicted(c, answer[w]) \/ answer[w] \notin Final

(* A response that decides nothing for WES: kept, and left to people.      *)
WriteReconciling(w) ==
    LET c == job[w] IN
    /\ Return(w)
    /\ Held(w, c) /\ owner[c] # "cancelled"
    /\ answer[w] \in Verdict /\ Refused(w, c)
    /\ Keep(c, answer[w], IF owner[c] = "open" THEN "APPLIED" ELSE "RECONCILING")
    /\ Close(c, "RECONCILING")
    /\ UNCHANGED result

(* Only an execution asks again after WAIT.                                *)
AsksAgain(c, v) == v = "WAIT" /\ kind[c] = "execution" /\ c \in DOMAIN Successor

(* complete; a WAIT answer also creates the row that asks again later      *)
(* (_create_follow_up), or leaves the row to people if it cannot.          *)
Completes(c, v) ==
    \/ ~AsksAgain(c, v) /\ Close(c, "COMPLETED")
    \/ /\ AsksAgain(c, v)
       /\ status[Successor[c]] = "NONE"
       /\ status' = [status EXCEPT ![c] = "COMPLETED", ![Successor[c]] = "PENDING"]
       /\ claim' = [claim EXCEPT ![c] = Nobody]
       /\ leaseOver' = [leaseOver EXCEPT ![c] = FALSE]
       /\ due' = [due EXCEPT ![c] = TRUE, ![Successor[c]] = FALSE]
    \/ AsksAgain(c, v) /\ Close(c, "RECONCILING")

(* Mutant of WriteResult: the row is completed before the answer is stored. *)
CompleteUnkept(w) ==
    LET c == job[w] IN
    /\ Return(w)
    /\ Held(w, c) /\ owner[c] # "cancelled"
    /\ answer[w] \in Final /\ ~Refused(w, c)
    /\ result' = [result EXCEPT ![c] = answer[w]]
    /\ Completes(c, answer[w])
    /\ UNCHANGED evidence

WriteResult(w) ==
    LET c == job[w] IN
    /\ Return(w)
    /\ Held(w, c) /\ owner[c] # "cancelled"
    /\ answer[w] \in Final /\ ~Refused(w, c)
    /\ Keep(c, answer[w], "APPLIED")
    /\ result' = [result EXCEPT ![c] = answer[w]]
    /\ Completes(c, answer[w])

WriteRetry(w) ==
    /\ Return(w)
    /\ Held(w, job[w]) /\ owner[job[w]] # "cancelled"
    /\ answer[w] \in {"UNAVAILABLE", "NO_ANSWER"}
    /\ Retry(job[w])
    /\ UNCHANGED outcomeVars

WriteUnreadable(w) ==
    /\ Return(w)
    /\ Held(w, job[w]) /\ owner[job[w]] # "cancelled"
    /\ answer[w] = "UNREADABLE"
    /\ Close(job[w], "RECONCILING")
    /\ UNCHANGED outcomeVars

WriteBack(w) == DropAnswer(w) \/ WriteCancelled(w) \/ WriteReconciling(w)
                    \/ WriteResult(w) \/ WriteRetry(w) \/ WriteUnreadable(w)

-----------------------------------------------------------------------------
Proceed(w) == \/ \E c \in Confirmation : PassOver(w, c) \/ Send(w, c)
              \/ ReceiveVerdict(w) \/ ReceiveNothing(w) \/ WriteBack(w)

Dispatch(w) == Abandon(w) \/ Proceed(w) \/ \E S \in SUBSET Confirmation : Claim(w, S)

Passage(c) == LeaseRunsOut(c) \/ ComesDue(c) \/ Decide(c)

Next == \/ Business
        \/ \E c \in Confirmation : Create(c) \/ Passage(c)
        \/ \E w \in Worker : Dispatch(w)

Spec == Init /\ [][Next]_vars

(* A due row is claimed in the end (claim_eligible takes the oldest rows   *)
(* first), dispatchers go on, the WMS decides what it was asked, and       *)
(* neither a lost answer nor a crash nor an expired lease hits the same    *)
(* point of every attempt at a row.                                        *)
Fairness ==
    /\ \A w \in Worker : WF_vars(Proceed(w))
    /\ \A c \in Confirmation :
        /\ WF_vars(LeaseRunsOut(c)) /\ WF_vars(ComesDue(c)) /\ WF_vars(Decide(c))
        /\ SF_vars(\E w \in Worker, S \in SUBSET Confirmation : c \in S /\ Claim(w, S))
        /\ SF_vars(\E w \in Worker : Held(w, c) /\ (PassOver(w, c) \/ Send(w, c)))
        /\ SF_vars(\E w \in Worker : Held(w, c) /\ job[w] = c /\ ReceiveVerdict(w))
        /\ SF_vars(\E w \in Worker : /\ Held(w, c) /\ job[w] = c /\ answer[w] \in Verdict
                                     /\ WriteBack(w))

FairSpec == Spec /\ Fairness

-----------------------------------------------------------------------------
(* Properties.                                                             *)

(* What WES takes for the result of a request is what the WMS decided      *)
(* about it, and that answer is stored under the identity, applied: no     *)
(* retry, late answer or lost lease completes a row with anything else.    *)
ResultIsTheVerdict ==
    \A c \in Confirmation :
        /\ status[c] = "COMPLETED" => result[c] # "none"
        /\ result[c] # "none" => /\ result[c] = decision[c]
                                 /\ evidence[c] = [answer |-> decision[c], apply |-> "APPLIED"]

(* The late write-back of a dispatcher whose lease was taken over never    *)
(* reopens or rewrites a closed row; only the cancellation of its owner    *)
(* moves a row that was left to people.                                    *)
ClosedStands ==
    [][\A c \in Confirmation :
        /\ status[c] \in {"COMPLETED", "SUPERSEDED"} => /\ status'[c] = status[c]
                                                       /\ result'[c] = result[c]
        /\ status[c] = "RECONCILING" =>
               \/ status'[c] = "RECONCILING"
               \/ status'[c] = "SUPERSEDED" /\ owner[c] = "cancelled"]_vars

(* A dispatcher that comes late to a row of its batch does not send what   *)
(* another one has taken over or closed in the meantime; what its owner    *)
(* cancelled is not sent again by anyone.  The rows of executions and the  *)
(* reports of facts do go out although their owner takes no answer any     *)
(* more; every other row is sent for an owner that takes it, only.         *)
ClosedIsNeverSent ==
    [][\A w \in Worker :
        pc[w] # "sending" /\ pc'[w] = "sending" =>
            /\ status[job'[w]] = "DISPATCHING" /\ claim[job'[w]] = w
            /\ owner[job'[w]] # "cancelled"
            /\ kind[job'[w]] = "guarded" => owner[job'[w]] = "open"]_vars

(* A true answer that reaches WES after the owner was cancelled is kept,   *)
(* whoever holds the row by then.                                          *)
CancelledAnswersAreKept ==
    [][\A w \in Worker :
        WriteBack(w) /\ answer[w] \in Verdict /\ owner[job[w]] = "cancelled" =>
            evidence'[job[w]] # NoEvidence]_vars

(* Every request WES owes is closed in the end: completed, superseded or   *)
(* left to people.                                                         *)
ObligationCloses ==
    \A c \in Confirmation : status[c] \in Open ~> status[c] \in Closed

-----------------------------------------------------------------------------
(* The rows keep the promise of Obligation.                                *)
standing ==
    [c \in Confirmation |->
        CASE status[c] = "NONE" -> "absent"
          [] status[c] \in Open -> "owed"
          [] status[c] = "COMPLETED" -> "settled"
          [] status[c] = "RECONCILING" -> "stuck"
          [] OTHER -> "void"]

Promise == INSTANCE Obligation WITH
    Item <- Confirmation, Verdict <- Verdict,
    owner <- owner, standing <- standing, verdict <- decision, told <- result

(* WmsConfirmation implements Obligation.                                  *)
KeepsPromise == Promise!Spec
=============================================================================
