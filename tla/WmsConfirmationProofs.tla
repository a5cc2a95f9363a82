----------------------- MODULE WmsConfirmationProofs -----------------------
(***************************************************************************)
(* What holds of WmsConfirmation for every set of rows, dispatchers,       *)
(* verdicts and batch sizes.  RowSteps says once, action by action, what a *)
(* step may do to one row and to the answer kept under its identity; the   *)
(* theorems follow from it.                                                *)
(***************************************************************************)
EXTENDS WmsConfirmation, TLAPS

LEMMA AnyRowIsRow == AnyRow \in Confirmation
BY ConfirmationAssumption DEF AnyRow

LEMMA SuccessorIsRow == ASSUME NEW c \in DOMAIN Successor PROVE Successor[c] \in Confirmation
BY ConfirmationAssumption

-----------------------------------------------------------------------------
(* Typing, one group of variables at a time.                               *)

RowTyped ==
    /\ status \in [Confirmation -> Status]
    /\ claim \in [Confirmation -> Worker \cup {Nobody}]
    /\ leaseOver \in [Confirmation -> BOOLEAN]
    /\ due \in [Confirmation -> BOOLEAN]

WorkerTyped ==
    /\ batch \in [Worker -> SUBSET Confirmation]
    /\ pc \in [Worker -> {"idle", "sending", "answered"}]
    /\ job \in [Worker -> Confirmation]
    /\ answer \in [Worker -> Answer]

OutcomeTyped ==
    /\ result \in [Confirmation -> Final \cup {"none"}]
    /\ evidence \in [Confirmation -> Evidence \cup {NoEvidence}]

LEMMA TypeOKSplits ==
    TypeOK <=> /\ owner \in [Confirmation -> Owner] /\ kind \in [Confirmation -> Kind] /\ RowTyped /\ WorkerTyped /\ OutcomeTyped
               /\ sent \subseteq Confirmation
               /\ decision \in [Confirmation -> Verdict \cup {"none"}]
BY DEF TypeOK, RowTyped, WorkerTyped, OutcomeTyped

LEMMA LeaveTyping ==
    ASSUME RowTyped, NEW c \in Confirmation, NEW s \in Status, Leave(c, s)
    PROVE  /\ status' \in [Confirmation -> Status]
           /\ claim' \in [Confirmation -> Worker \cup {Nobody}]
           /\ leaseOver' \in [Confirmation -> BOOLEAN]
BY DEF RowTyped, Leave

LEMMA CloseTyping ==
    ASSUME RowTyped, NEW c \in Confirmation, NEW s \in Closed, Close(c, s)
    PROVE  RowTyped'
<1>1. s \in Status
    BY DEF Status
<1>2. due' \in [Confirmation -> BOOLEAN]
    BY DEF Close, RowTyped
<1> QED
    BY <1>1, <1>2, LeaveTyping DEF Close, RowTyped

LEMMA SupersedeTyping ==
    ASSUME RowTyped, NEW c \in Confirmation, Supersede(c)
    PROVE  RowTyped'
<1>1. CASE UNCHANGED rowVars
    BY <1>1 DEF rowVars, RowTyped
<1>2. CASE Close(c, "SUPERSEDED")
    BY <1>2, CloseTyping DEF Closed
<1> QED
    BY <1>1, <1>2 DEF Supersede

LEMMA CompletesTyping ==
    ASSUME RowTyped, NEW c \in Confirmation, NEW v, Completes(c, v)
    PROVE  RowTyped'
<1>1. CASE Close(c, "COMPLETED") \/ Close(c, "RECONCILING")
    BY <1>1, CloseTyping DEF Closed
<1>2. CASE /\ c \in DOMAIN Successor
           /\ status' = [status EXCEPT ![c] = "COMPLETED", ![Successor[c]] = "PENDING"]
           /\ claim' = [claim EXCEPT ![c] = Nobody]
           /\ leaseOver' = [leaseOver EXCEPT ![c] = FALSE]
           /\ due' = [due EXCEPT ![c] = TRUE, ![Successor[c]] = FALSE]
    <2>1. "COMPLETED" \in Status /\ "PENDING" \in Status
        BY DEF Status, Open, Closed
    <2>2. Successor[c] \in Confirmation
        BY <1>2, SuccessorIsRow
    <2>3. status' \in [Confirmation -> Status]
        BY <1>2, <2>1, <2>2 DEF RowTyped
    <2>4. /\ claim' \in [Confirmation -> Worker \cup {Nobody}]
          /\ leaseOver' \in [Confirmation -> BOOLEAN]
          /\ due' \in [Confirmation -> BOOLEAN]
        BY <1>2, <2>2 DEF RowTyped
    <2> QED
        BY <2>3, <2>4 DEF RowTyped
<1> QED
    BY <1>1, <1>2 DEF Completes, AsksAgain

LEMMA KeepTyping ==
    ASSUME OutcomeTyped, NEW c \in Confirmation, NEW a \in Response,
           NEW s \in {"APPLIED", "RECONCILING"}, Keep(c, a, s)
    PROVE  evidence' \in [Confirmation -> Evidence \cup {NoEvidence}]
<1>1. [answer |-> a, apply |-> s] \in Evidence
    BY DEF Evidence
<1> QED
    BY <1>1 DEF Keep, OutcomeTyped

LEMMA ReturnTyping ==
    ASSUME WorkerTyped, NEW w \in Worker, Return(w)
    PROVE  WorkerTyped'
BY AnyRowIsRow DEF WorkerTyped, Return, Answer

LEMMA WriteBackTyping ==
    ASSUME TypeOK, NEW w \in Worker, WriteBack(w)
    PROVE  TypeOK'
<1> DEFINE c == job[w]
<1>0. c \in Confirmation /\ RowTyped /\ WorkerTyped /\ OutcomeTyped
    BY TypeOKSplits DEF WorkerTyped
<1>r. Return(w)
    BY DEF WriteBack, DropAnswer, WriteCancelled, WriteReconciling, WriteResult, WriteRetry,
           WriteUnreadable
<1>w. WorkerTyped' /\ UNCHANGED <<owner, kind, sent, decision>>
    BY <1>0, <1>r, ReturnTyping DEF Return, wmsVars
<1>a. SUFFICES RowTyped' /\ OutcomeTyped'
    BY <1>w, TypeOKSplits DEF TypeOK, WorkerTyped, RowTyped, OutcomeTyped
<1>c. {"RECONCILING", "COMPLETED", "SUPERSEDED"} \subseteq Closed
    BY DEF Closed
<1>v. Final \subseteq Response /\ Verdict \subseteq Response
    BY VerdictAssumption DEF Response
<1> HIDE DEF c
<1>1. CASE DropAnswer(w)
    BY <1>0, <1>1 DEF DropAnswer, rowVars, outcomeVars, RowTyped, OutcomeTyped
<1>2. CASE WriteCancelled(w)
    <2>1. RowTyped'
        BY <1>0, <1>2, SupersedeTyping DEF WriteCancelled, c
    <2>2. evidence' \in [Confirmation -> Evidence \cup {NoEvidence}]
        <3>1. CASE answer[w] \in Response
            BY <1>0, <1>2, <3>1, KeepTyping DEF WriteCancelled, c
        <3>2. CASE answer[w] \notin Response
            BY <1>0, <1>2, <3>2 DEF WriteCancelled, OutcomeTyped
        <3> QED
            BY <3>1, <3>2
    <2> QED
        BY <1>0, <1>2, <2>1, <2>2 DEF WriteCancelled, OutcomeTyped
<1>3. CASE WriteReconciling(w)
    <2>1. RowTyped'
        BY <1>0, <1>3, <1>c, CloseTyping DEF WriteReconciling, c
    <2>2. evidence' \in [Confirmation -> Evidence \cup {NoEvidence}]
        BY <1>0, <1>3, <1>v, KeepTyping DEF WriteReconciling, c
    <2> QED
        BY <1>0, <1>3, <2>1, <2>2 DEF WriteReconciling, OutcomeTyped
<1>4. CASE WriteResult(w)
    <2>1. RowTyped'
        BY <1>0, <1>4, CompletesTyping DEF WriteResult, c
    <2>2. evidence' \in [Confirmation -> Evidence \cup {NoEvidence}]
        BY <1>0, <1>4, <1>v, KeepTyping DEF WriteResult, c
    <2>3. result' \in [Confirmation -> Final \cup {"none"}]
        BY <1>0, <1>4 DEF WriteResult, OutcomeTyped, c
    <2> QED
        BY <2>1, <2>2, <2>3 DEF OutcomeTyped
<1>5. CASE WriteRetry(w)
    <2>1. "PENDING" \in Status
        BY DEF Status, Open
    <2>2. due' \in [Confirmation -> BOOLEAN]
        BY <1>0, <1>5 DEF WriteRetry, Retry, RowTyped
    <2>3. Leave(c, "PENDING")
        BY <1>5 DEF WriteRetry, Retry, c
    <2> QED
        BY <1>0, <1>5, <2>1, <2>2, <2>3, LeaveTyping
        DEF WriteRetry, RowTyped, OutcomeTyped, outcomeVars
<1>6. CASE WriteUnreadable(w)
    BY <1>0, <1>6, <1>c, CloseTyping DEF WriteUnreadable, OutcomeTyped, outcomeVars, c
<1> QED
    BY <1>1, <1>2, <1>3, <1>4, <1>5, <1>6 DEF WriteBack

LEMMA DispatchTyping ==
    ASSUME TypeOK, NEW w \in Worker, Dispatch(w)
    PROVE  TypeOK'
<1>0. RowTyped /\ WorkerTyped /\ OutcomeTyped
    BY TypeOKSplits
<1>1. ASSUME NEW S \in SUBSET Confirmation, Claim(w, S) PROVE TypeOK'
    <2>1. status' \in [Confirmation -> Status]
        BY <1>0, <1>1 DEF Claim, RowTyped, Status, Open
    <2>2. /\ claim' \in [Confirmation -> Worker \cup {Nobody}]
          /\ leaseOver' \in [Confirmation -> BOOLEAN]
          /\ batch' \in [Worker -> SUBSET Confirmation]
        BY <1>0, <1>1 DEF Claim, RowTyped, WorkerTyped
    <2> QED
        BY <1>1, <2>1, <2>2 DEF Claim, TypeOK, outcomeVars, wmsVars
<1>2. ASSUME NEW c \in Confirmation, PassOver(w, c) PROVE TypeOK'
    <2>1. RowTyped'
        <3>1. CASE UNCHANGED rowVars
            BY <1>0, <3>1 DEF rowVars, RowTyped
        <3>2. CASE Supersede(c)
            BY <1>0, <3>2, SupersedeTyping
        <3>3. CASE Close(c, "RECONCILING")
            BY <1>0, <3>3, CloseTyping DEF Closed
        <3> QED
            BY <1>2, <3>1, <3>2, <3>3 DEF PassOver
    <2>2. batch' \in [Worker -> SUBSET Confirmation]
        BY <1>0, <1>2 DEF PassOver, WorkerTyped
    <2> QED
        BY <1>2, <2>1, <2>2 DEF PassOver, TypeOK, RowTyped, outcomeVars, wmsVars
<1>3. ASSUME NEW c \in Confirmation, Send(w, c) PROVE TypeOK'
    <2>1. WorkerTyped'
        BY <1>0, <1>3 DEF Send, WorkerTyped
    <2> QED
        BY <1>3, <2>1 DEF Send, TypeOK, WorkerTyped, rowVars, outcomeVars
<1>4. ASSUME NEW a \in Answer, Answered(w, a) PROVE TypeOK'
    <2>1. WorkerTyped'
        BY <1>0, <1>4 DEF Answered, WorkerTyped
    <2> QED
        BY <1>4, <2>1 DEF Answered, TypeOK, WorkerTyped, rowVars, outcomeVars, wmsVars
<1>5. CASE ReceiveVerdict(w)
    <2>1. decision[job[w]] \in Answer
        BY <1>5 DEF ReceiveVerdict, TypeOK, Answer, Response
    <2> QED
        BY <1>4, <1>5, <2>1 DEF ReceiveVerdict
<1>6. CASE ReceiveNothing(w)
    BY <1>4, <1>6 DEF ReceiveNothing, Answer, Response
<1>7. CASE Abandon(w)
    <2>1. WorkerTyped'
        BY <1>0, <1>7, AnyRowIsRow DEF Abandon, WorkerTyped, Answer
    <2> QED
        BY <1>7, <2>1 DEF Abandon, TypeOK, WorkerTyped, rowVars, outcomeVars, wmsVars
<1> QED
    BY <1>1, <1>2, <1>3, <1>5, <1>6, <1>7, WriteBackTyping DEF Dispatch, Proceed

LEMMA ElsewhereTyping ==
    ASSUME TypeOK, NEW c \in Confirmation, Business \/ Create(c) \/ Passage(c)
    PROVE  TypeOK'
<1>1. CASE Business
    BY <1>1 DEF Business, OwnersMove, TypeOK, rowVars, outcomeVars, workerVars, wmsVars
<1>2. CASE Create(c)
    <2>1. status' \in [Confirmation -> Status]
        BY <1>2 DEF Create, TypeOK, Status, Open
    <2> QED
        BY <1>2, <2>1 DEF Create, OwnersMove, TypeOK, outcomeVars, workerVars, wmsVars
<1>3. CASE LeaseRunsOut(c) \/ ComesDue(c)
    BY <1>3 DEF LeaseRunsOut, ComesDue, TypeOK, outcomeVars, workerVars, wmsVars
<1>4. CASE Decide(c)
    <2>1. decision' \in [Confirmation -> Verdict \cup {"none"}]
        BY <1>4 DEF Decide, TypeOK
    <2> QED
        BY <1>4, <2>1 DEF Decide, TypeOK, rowVars, outcomeVars, workerVars
<1> QED
    BY <1>1, <1>2, <1>3, <1>4 DEF Passage

LEMMA InitTyping == Init => TypeOK
BY AnyRowIsRow DEF Init, TypeOK, Owner, Status, Answer

LEMMA NextTyping == TypeOK /\ [Next]_vars => TypeOK'
<1> SUFFICES ASSUME TypeOK, [Next]_vars PROVE TypeOK'
    OBVIOUS
<1>1. CASE Next
    BY <1>1, ElsewhereTyping, DispatchTyping, ConfirmationAssumption DEF Next
<1>2. CASE UNCHANGED vars
    BY <1>2 DEF vars, TypeOK, rowVars, outcomeVars, workerVars, wmsVars
<1> QED
    BY <1>1, <1>2

(* Every column keeps its type: nothing but an answer of the WMS is stored *)
(* as one, whatever the exchange came to.                                  *)
THEOREM Typing == Spec => []TypeOK
BY InitTyping, NextTyping, PTL DEF Spec

-----------------------------------------------------------------------------
(* What a step may do to one row.                                          *)

(* What dispatchers hold in hand is true, and no row still open has an     *)
(* answer stored.                                                          *)
AnswersAreTrue ==
    \A w \in Worker : pc[w] = "answered" /\ answer[w] \in Verdict =>
                          answer[w] = decision[job[w]]

OpenIsUnanswered ==
    \A c \in Confirmation : status[c] \notin Closed => evidence[c] = NoEvidence

SentWasMade == \A c \in sent : status[c] # "NONE"

Truth == AnswersAreTrue /\ OpenIsUnanswered /\ SentWasMade

Stored(c, apply) == evidence'[c] = [answer |-> decision[c], apply |-> apply]

Quiet(c) ==
    /\ status'[c] = status[c] \/ (status[c] \in Open /\ status'[c] \in Open)
    /\ UNCHANGED <<result[c], decision[c], evidence[c]>>

Made(c) ==
    /\ status[c] = "NONE" /\ status'[c] = "PENDING"
    /\ UNCHANGED <<result[c], decision[c], evidence[c]>>

Decided(c) ==
    /\ status[c] # "NONE" /\ decision[c] = "none" /\ decision'[c] \in Verdict
    /\ UNCHANGED <<status[c], result[c], evidence[c]>>

Resolved(c) ==
    /\ status[c] = "DISPATCHING" /\ status'[c] \in {"COMPLETED", "RECONCILING"}
    /\ owner[c] = "open" /\ decision[c] \in Final /\ result'[c] = decision[c]
    /\ Stored(c, "APPLIED")
    /\ UNCHANGED decision[c]

GivenUp(c) ==
    /\ status[c] = "DISPATCHING" /\ status'[c] = "RECONCILING" /\ owner[c] # "cancelled"
    /\ evidence'[c] = evidence[c] \/ \E a \in {"APPLIED", "RECONCILING"} : Stored(c, a)
    /\ UNCHANGED <<result[c], decision[c]>>

(* The owner was cancelled: the row is superseded unless it is completed,  *)
(* and an answer is kept beside the one that may be there.                 *)
Voided(c) ==
    /\ owner[c] = "cancelled" /\ status[c] # "NONE"
    /\ status'[c] = IF status[c] = "COMPLETED" THEN "COMPLETED" ELSE "SUPERSEDED"
    /\ evidence[c] # NoEvidence => evidence'[c] = evidence[c]
    /\ UNCHANGED <<result[c], decision[c]>>

RowStep(c) ==
    Quiet(c) \/ Made(c) \/ Decided(c) \/ Resolved(c) \/ GivenUp(c) \/ Voided(c)

(* The job of a dispatcher that is out was made once.                      *)
JobsWereMade == \A w \in Worker : pc[w] # "idle" => job[w] \in sent

LEMMA CloseEffect ==
    ASSUME TypeOK, NEW c \in Confirmation, NEW s, Close(c, s) \/ Leave(c, s)
    PROVE  status'[c] = s /\ \A d \in Confirmation \ {c} : status'[d] = status[d]
BY DEF Close, Leave, TypeOK

LEMMA SupersedeEffect ==
    ASSUME TypeOK, NEW c \in Confirmation, Supersede(c)
    PROVE  /\ status'[c] = IF status[c] = "COMPLETED" THEN "COMPLETED" ELSE "SUPERSEDED"
           /\ \A d \in Confirmation \ {c} : status'[d] = status[d]
BY CloseEffect DEF Supersede, rowVars

LEMMA KeepEffect ==
    ASSUME TypeOK, NEW c \in Confirmation, NEW a, NEW s, Keep(c, a, s)
    PROVE  /\ evidence[c] # NoEvidence => evidence'[c] = evidence[c]
           /\ evidence[c] = NoEvidence => evidence'[c] = [answer |-> a, apply |-> s]
           /\ \A d \in Confirmation \ {c} : evidence'[d] = evidence[d]
BY DEF Keep, TypeOK

LEMMA CompletesEffect ==
    ASSUME TypeOK, NEW c \in Confirmation, status[c] = "DISPATCHING", NEW v, Completes(c, v)
    PROVE  /\ status'[c] \in {"COMPLETED", "RECONCILING"}
           /\ \A d \in Confirmation \ {c} :
                  status'[d] = status[d] \/ (status[d] = "NONE" /\ status'[d] = "PENDING")
<1>1. CASE Close(c, "COMPLETED") \/ Close(c, "RECONCILING")
    BY <1>1, CloseEffect
<1>2. CASE /\ c \in DOMAIN Successor /\ status[Successor[c]] = "NONE"
           /\ status' = [status EXCEPT ![c] = "COMPLETED", ![Successor[c]] = "PENDING"]
    <2>1. Successor[c] \in Confirmation /\ Successor[c] # c
        BY <1>2, SuccessorIsRow
    <2> QED
        BY <1>2, <2>1 DEF TypeOK
<1> QED
    BY <1>1, <1>2 DEF Completes, AsksAgain

LEMMA WriteBackRowSteps ==
    ASSUME TypeOK, Truth, JobsWereMade, NEW w \in Worker, WriteBack(w)
    PROVE  \A c \in Confirmation : RowStep(c)
<1>0. PICK c \in Confirmation : c = job[w]
    BY DEF TypeOK
<1>r. pc[w] = "answered" /\ UNCHANGED <<owner, sent, decision>>
    BY DEF WriteBack, DropAnswer, WriteCancelled, WriteReconciling, WriteResult, WriteRetry,
           WriteUnreadable, Return, wmsVars
<1>m. c \in sent /\ status[c] # "NONE"
    BY <1>0, <1>r DEF JobsWereMade, Truth, SentWasMade
<1>t. answer[w] \in Verdict => answer[w] = decision[c]
    BY <1>0, <1>r DEF Truth, AnswersAreTrue
<1>e. status[c] = "DISPATCHING" => evidence[c] = NoEvidence
    BY <1>0 DEF Truth, OpenIsUnanswered, Closed
<1>1. CASE DropAnswer(w)
    BY <1>1, <1>r DEF DropAnswer, rowVars, outcomeVars, RowStep, Quiet
<1>2. CASE WriteCancelled(w)
    <2>1. owner[c] = "cancelled" /\ Supersede(c) /\ UNCHANGED result
        BY <1>0, <1>2 DEF WriteCancelled
    <2>2. /\ evidence[c] # NoEvidence => evidence'[c] = evidence[c]
          /\ \A d \in Confirmation \ {c} : evidence'[d] = evidence[d]
        <3>1. CASE UNCHANGED evidence
            BY <3>1
        <3>2. CASE ~UNCHANGED evidence
            BY <1>0, <1>2, <3>2, KeepEffect DEF WriteCancelled
        <3> QED
            BY <3>1, <3>2
    <2>3. Voided(c)
        BY <1>0, <1>r, <1>m, <2>1, <2>2, SupersedeEffect DEF Voided
    <2>4. \A d \in Confirmation \ {c} : Quiet(d)
        BY <1>0, <1>r, <2>1, <2>2, SupersedeEffect DEF Quiet
    <2> QED
        BY <2>3, <2>4 DEF RowStep
<1>3. CASE WriteReconciling(w)
    <2>1. /\ status[c] = "DISPATCHING" /\ owner[c] # "cancelled" /\ UNCHANGED result
          /\ answer[w] = decision[c] /\ Close(c, "RECONCILING")
          /\ \E a \in {"APPLIED", "RECONCILING"} : Keep(c, answer[w], a)
        BY <1>0, <1>3, <1>t DEF WriteReconciling, Held
    <2>2. GivenUp(c)
        BY <1>0, <1>r, <1>e, <2>1, CloseEffect, KeepEffect DEF GivenUp, Stored
    <2>3. \A d \in Confirmation \ {c} : Quiet(d)
        BY <1>0, <1>r, <2>1, CloseEffect, KeepEffect DEF Quiet
    <2> QED
        BY <2>2, <2>3 DEF RowStep
<1>4. CASE WriteResult(w)
    <2>1. /\ status[c] = "DISPATCHING" /\ owner[c] = "open"
          /\ result' = [result EXCEPT ![c] = answer[w]] /\ answer[w] \in Final
          /\ Keep(c, answer[w], "APPLIED") /\ Completes(c, answer[w])
        BY <1>0, <1>4 DEF WriteResult, Held, Refused, TypeOK, Owner
    <2>2. answer[w] = decision[c]
        BY <1>t, <2>1, VerdictAssumption
    <2>3. result'[c] = answer[w] /\ \A d \in Confirmation \ {c} : result'[d] = result[d]
        BY <1>0, <2>1 DEF TypeOK
    <2>4. Resolved(c)
        BY <1>0, <1>r, <1>e, <2>1, <2>2, <2>3, KeepEffect, CompletesEffect DEF Resolved, Stored
    <2>5. \A d \in Confirmation \ {c} : Quiet(d) \/ Made(d)
        BY <1>0, <1>r, <2>1, <2>3, KeepEffect, CompletesEffect DEF Quiet, Made
    <2> QED
        BY <2>4, <2>5 DEF RowStep
<1>5. CASE WriteRetry(w)
    <2>1. status[c] = "DISPATCHING" /\ Leave(c, "PENDING") /\ UNCHANGED <<result, evidence>>
        BY <1>0, <1>5 DEF WriteRetry, Held, Retry, outcomeVars
    <2> QED
        BY <1>0, <1>r, <2>1, CloseEffect DEF RowStep, Quiet, Open
<1>6. CASE WriteUnreadable(w)
    <2>1. /\ status[c] = "DISPATCHING" /\ owner[c] # "cancelled"
          /\ Close(c, "RECONCILING") /\ UNCHANGED <<result, evidence>>
        BY <1>0, <1>6 DEF WriteUnreadable, Held, outcomeVars
    <2> QED
        BY <1>0, <1>r, <2>1, CloseEffect DEF RowStep, Quiet, GivenUp
<1> QED
    BY <1>1, <1>2, <1>3, <1>4, <1>5, <1>6 DEF WriteBack

LEMMA RowSteps ==
    ASSUME TypeOK, Truth, JobsWereMade, [Next]_vars
    PROVE  \A c \in Confirmation : RowStep(c)
<1>1. CASE UNCHANGED <<status, result, decision, evidence>>
    BY <1>1 DEF RowStep, Quiet
<1>2. ASSUME NEW w \in Worker, NEW S \in SUBSET Confirmation, Claim(w, S)
      PROVE  \A c \in Confirmation : RowStep(c)
    BY <1>2 DEF Claim, Eligible, RowStep, Quiet, Open, outcomeVars, wmsVars, TypeOK
<1>3. ASSUME NEW w \in Worker, NEW d \in Confirmation, PassOver(w, d)
      PROVE  \A c \in Confirmation : RowStep(c)
    <2>1. UNCHANGED <<result, decision, evidence>>
        BY <1>3 DEF PassOver, outcomeVars, wmsVars
    <2>2. CASE UNCHANGED rowVars
        BY <1>1, <2>1, <2>2 DEF rowVars
    <2>3. CASE Held(w, d) /\ owner[d] = "cancelled" /\ Supersede(d)
        BY <2>1, <2>3, SupersedeEffect DEF Held, RowStep, Quiet, Voided
    <2>4. CASE Held(w, d) /\ owner[d] = "closed" /\ Close(d, "RECONCILING")
        BY <2>1, <2>4, CloseEffect DEF Held, RowStep, Quiet, GivenUp
    <2> QED
        BY <1>3, <2>2, <2>3, <2>4 DEF PassOver
<1>4. ASSUME NEW w \in Worker, NEW d \in Confirmation, Send(w, d)
      PROVE  \A c \in Confirmation : RowStep(c)
    BY <1>1, <1>4 DEF Send, rowVars, outcomeVars
<1>5. ASSUME NEW w \in Worker, ReceiveVerdict(w) \/ ReceiveNothing(w) \/ Abandon(w)
      PROVE  \A c \in Confirmation : RowStep(c)
    BY <1>1, <1>5 DEF ReceiveVerdict, ReceiveNothing, Answered, Abandon, rowVars, outcomeVars, wmsVars
<1>6. ASSUME NEW d \in Confirmation, Create(d)
      PROVE  \A c \in Confirmation : RowStep(c)
    BY <1>6 DEF Create, RowStep, Quiet, Made, outcomeVars, wmsVars, TypeOK
<1>7. ASSUME NEW d \in Confirmation, Decide(d)
      PROVE  \A c \in Confirmation : RowStep(c)
    <2>1. PICK v \in Verdict : decision' = [decision EXCEPT ![d] = v]
        BY <1>7 DEF Decide
    <2>2. /\ status[d] # "NONE" /\ decision[d] = "none"
          /\ UNCHANGED <<status, result, evidence>>
        BY <1>7 DEF Decide, Truth, SentWasMade, rowVars, outcomeVars
    <2> QED
        BY <2>1, <2>2 DEF RowStep, Quiet, Decided, TypeOK
<1>8. ASSUME NEW d \in Confirmation, LeaseRunsOut(d) \/ ComesDue(d)
      PROVE  \A c \in Confirmation : RowStep(c)
    BY <1>1, <1>8 DEF LeaseRunsOut, ComesDue, outcomeVars, wmsVars
<1>9. CASE Business \/ UNCHANGED vars
    BY <1>1, <1>9 DEF Business, vars, rowVars, outcomeVars, wmsVars
<1> QED
    BY <1>2, <1>3, <1>4, <1>5, <1>6, <1>7, <1>8, <1>9, WriteBackRowSteps
    DEF Next, Dispatch, Proceed, Passage

-----------------------------------------------------------------------------
(* The inductive invariant, and the theorems.                              *)

LEMMA SentGrows ==
    ASSUME TypeOK, JobsWereMade, [Next]_vars
    PROVE  sent \subseteq sent' /\ JobsWereMade'
<1>1. CASE UNCHANGED <<pc, job, sent>>
    BY <1>1 DEF JobsWereMade
<1>2. ASSUME NEW w \in Worker, NEW S \in SUBSET Confirmation, Claim(w, S)
      PROVE  UNCHANGED <<pc, job, sent>>
    BY <1>2 DEF Claim, wmsVars
<1>3. ASSUME NEW w \in Worker, NEW c \in Confirmation, PassOver(w, c)
      PROVE  UNCHANGED <<pc, job, sent>>
    BY <1>3 DEF PassOver, wmsVars
<1>4. ASSUME NEW w \in Worker, NEW c \in Confirmation, Send(w, c)
      PROVE  sent \subseteq sent' /\ JobsWereMade'
    BY <1>4 DEF Send, JobsWereMade, TypeOK
<1>5. ASSUME NEW w \in Worker, ReceiveVerdict(w) \/ ReceiveNothing(w)
      PROVE  sent \subseteq sent' /\ JobsWereMade'
    BY <1>5 DEF ReceiveVerdict, ReceiveNothing, Answered, JobsWereMade, TypeOK, wmsVars
<1>6. ASSUME NEW w \in Worker, Abandon(w) \/ Return(w)
      PROVE  sent \subseteq sent' /\ JobsWereMade'
    BY <1>6 DEF Abandon, Return, JobsWereMade, TypeOK, wmsVars
<1>7. ASSUME NEW w \in Worker, WriteBack(w) PROVE Return(w)
    BY <1>7 DEF WriteBack, DropAnswer, WriteCancelled, WriteReconciling, WriteResult, WriteRetry,
                WriteUnreadable
<1>8. ASSUME NEW c \in Confirmation, Create(c) \/ LeaseRunsOut(c) \/ ComesDue(c) \/ Decide(c)
      PROVE  UNCHANGED <<pc, job, sent>>
    BY <1>8 DEF Create, LeaseRunsOut, ComesDue, Decide, workerVars, wmsVars
<1>9. CASE Business \/ UNCHANGED vars
    BY <1>1, <1>9 DEF Business, vars, workerVars, wmsVars
<1> QED
    BY <1>1, <1>2, <1>3, <1>4, <1>5, <1>6, <1>7, <1>8, <1>9 DEF Next, Dispatch, Proceed, Passage

LEMMA AnswersStayTrue ==
    ASSUME TypeOK, Truth, JobsWereMade, [Next]_vars
    PROVE  AnswersAreTrue'
<1>0. AnswersAreTrue /\ "none" \notin Verdict
    BY VerdictAssumption DEF Truth
<1>1. CASE UNCHANGED <<pc, job, answer, decision>>
    BY <1>0, <1>1 DEF AnswersAreTrue
<1>2. ASSUME NEW w \in Worker, NEW S \in SUBSET Confirmation, Claim(w, S)
      PROVE  AnswersAreTrue'
    BY <1>1, <1>2 DEF Claim, wmsVars
<1>3. ASSUME NEW w \in Worker, NEW c \in Confirmation, PassOver(w, c)
      PROVE  AnswersAreTrue'
    BY <1>1, <1>3 DEF PassOver, wmsVars
<1>4. ASSUME NEW w \in Worker, NEW c \in Confirmation, Send(w, c)
      PROVE  AnswersAreTrue'
    BY <1>0, <1>4 DEF Send, AnswersAreTrue, TypeOK
<1>5. ASSUME NEW w \in Worker, NEW a, Answered(w, a),
             a \in Verdict => a = decision[job[w]]
      PROVE  AnswersAreTrue'
    BY <1>0, <1>5 DEF Answered, AnswersAreTrue, TypeOK, wmsVars
<1>6. ASSUME NEW w \in Worker, ReceiveVerdict(w) \/ ReceiveNothing(w)
      PROVE  AnswersAreTrue'
    BY <1>5, <1>6, VerdictAssumption DEF ReceiveVerdict, ReceiveNothing
<1>7. ASSUME NEW w \in Worker, Abandon(w) \/ Return(w)
      PROVE  AnswersAreTrue'
    BY <1>0, <1>7 DEF Abandon, Return, AnswersAreTrue, TypeOK, wmsVars
<1>8. ASSUME NEW w \in Worker, WriteBack(w) PROVE Return(w)
    BY <1>8 DEF WriteBack, DropAnswer, WriteCancelled, WriteReconciling, WriteResult, WriteRetry,
                WriteUnreadable
<1>9. ASSUME NEW c \in Confirmation, Create(c) \/ LeaseRunsOut(c) \/ ComesDue(c)
      PROVE  AnswersAreTrue'
    BY <1>1, <1>9 DEF Create, LeaseRunsOut, ComesDue, workerVars, wmsVars
<1>10. ASSUME NEW c \in Confirmation, Decide(c) PROVE AnswersAreTrue'
    <2>1. decision[c] = "none" /\ UNCHANGED <<pc, job, answer>>
          /\ \A d \in Confirmation \ {c} : decision'[d] = decision[d]
        BY <1>10 DEF Decide, TypeOK, workerVars
    <2> QED
        BY <1>0, <2>1 DEF AnswersAreTrue, TypeOK
<1>11. CASE Business \/ UNCHANGED vars
    BY <1>1, <1>11 DEF Business, vars, workerVars, wmsVars
<1> QED
    BY <1>2, <1>3, <1>4, <1>6, <1>7, <1>8, <1>9, <1>10, <1>11 DEF Next, Dispatch, Proceed, Passage

LEMMA SentStaysMade ==
    ASSUME TypeOK, Truth, JobsWereMade, [Next]_vars
    PROVE  SentWasMade'
<1>1. \A c \in Confirmation : status[c] # "NONE" => status'[c] # "NONE"
    BY RowSteps DEF RowStep, Quiet, Made, Decided, Resolved, GivenUp, Voided, Open
<1>2. \A c \in sent' : c \in sent \/ status[c] # "NONE"
    <2>1. ASSUME NEW w \in Worker, NEW c \in Confirmation, Send(w, c)
          PROVE  \A d \in sent' : d \in sent \/ status[d] # "NONE"
        BY <2>1 DEF Send, Held
    <2>2. CASE UNCHANGED sent
        BY <2>2
    <2>3. ASSUME NEW w \in Worker, Dispatch(w), ~(\E c \in Confirmation : Send(w, c))
          PROVE  UNCHANGED sent
        BY <2>3 DEF Dispatch, Proceed, Claim, PassOver, ReceiveVerdict, ReceiveNothing, Answered, Abandon,
            WriteBack, DropAnswer, WriteCancelled, WriteReconciling, WriteResult, WriteRetry,
            WriteUnreadable, Return, wmsVars
    <2>4. ASSUME NEW c \in Confirmation, Create(c) \/ Passage(c)
          PROVE  UNCHANGED sent
        BY <2>4 DEF Create, Passage, LeaseRunsOut, ComesDue, Decide, wmsVars
    <2>5. CASE Business \/ UNCHANGED vars
        BY <2>5 DEF Business, vars, wmsVars
    <2> QED
        BY <2>1, <2>2, <2>3, <2>4, <2>5 DEF Next
<1>3. sent' \subseteq Confirmation
    BY NextTyping DEF TypeOK
<1> QED
    BY <1>1, <1>2, <1>3 DEF Truth, SentWasMade

ConfirmationInv == Truth /\ JobsWereMade /\ ResultIsTheVerdict

LEMMA InvHolds == Spec => []ConfirmationInv
<1>1. Init => ConfirmationInv
    BY DEF Init, ConfirmationInv, Truth, AnswersAreTrue, OpenIsUnanswered, SentWasMade,
           JobsWereMade, ResultIsTheVerdict
<1>2. TypeOK /\ ConfirmationInv /\ [Next]_vars => ConfirmationInv'
    <2> SUFFICES ASSUME TypeOK, ConfirmationInv, [Next]_vars PROVE ConfirmationInv'
        OBVIOUS
    <2>0. Truth /\ JobsWereMade /\ ResultIsTheVerdict
        BY DEF ConfirmationInv
    <2>1. \A c \in Confirmation : RowStep(c)
        BY <2>0, RowSteps
    <2>2. OpenIsUnanswered'
        BY <2>0, <2>1 DEF Truth, OpenIsUnanswered, RowStep, Quiet, Made, Decided, Resolved,
            GivenUp, Voided, Open, Closed
    <2>3. ResultIsTheVerdict'
        <3> SUFFICES ASSUME NEW c \in Confirmation
                     PROVE  /\ status'[c] = "COMPLETED" => result'[c] # "none"
                            /\ result'[c] # "none" =>
                                 /\ result'[c] = decision'[c]
                                 /\ evidence'[c] = [answer |-> decision'[c], apply |-> "APPLIED"]
            BY DEF ResultIsTheVerdict
        <3>1. /\ status[c] = "COMPLETED" => result[c] # "none"
              /\ result[c] # "none" =>
                   /\ result[c] = decision[c]
                   /\ evidence[c] = [answer |-> decision[c], apply |-> "APPLIED"]
            BY <2>0 DEF ResultIsTheVerdict
        <3>2. evidence[c] = [answer |-> decision[c], apply |-> "APPLIED"] =>
                  evidence[c] # NoEvidence
            <4>1. [answer |-> decision[c], apply |-> "APPLIED"].apply # NoEvidence.apply
                BY DEF NoEvidence
            <4> QED
                BY <4>1
        <3>3. CASE Quiet(c) \/ Made(c) \/ Decided(c)
            BY <3>1, <3>3 DEF Quiet, Made, Decided, Open
        <3>4. CASE Resolved(c)
            BY <3>4, VerdictAssumption DEF Resolved, Stored
        <3>5. CASE GivenUp(c)
            <4>1. evidence[c] = NoEvidence
                BY <2>0, <3>5 DEF GivenUp, Truth, OpenIsUnanswered, Closed
            <4> QED
                BY <3>1, <3>2, <3>5, <4>1 DEF GivenUp
        <3>6. CASE Voided(c)
            BY <3>1, <3>2, <3>6 DEF Voided
        <3> QED
            BY <2>1, <3>3, <3>4, <3>5, <3>6 DEF RowStep
    <2> QED
        BY <2>0, <2>2, <2>3, SentGrows, AnswersStayTrue, SentStaysMade DEF ConfirmationInv, Truth
<1> QED
    BY <1>1, <1>2, Typing, PTL DEF Spec

(* A completed row says what the WMS decided, and that answer is stored:   *)
(* whatever was retried, came late or lost its lease.                      *)
THEOREM ResultsAreVerdicts == Spec => []ResultIsTheVerdict
<1>1. ConfirmationInv => ResultIsTheVerdict
    BY DEF ConfirmationInv
<1> QED
    BY <1>1, InvHolds, PTL

(* No late write-back reopens or rewrites a closed row.                    *)
THEOREM ClosedRowsStand == Spec => ClosedStands
<1>1. TypeOK /\ ConfirmationInv /\ [Next]_vars =>
          [\A c \in Confirmation :
             /\ status[c] \in {"COMPLETED", "SUPERSEDED"} => /\ status'[c] = status[c]
                                                            /\ result'[c] = result[c]
             /\ status[c] = "RECONCILING" =>
                    \/ status'[c] = "RECONCILING"
                    \/ status'[c] = "SUPERSEDED" /\ owner[c] = "cancelled"]_vars
    BY RowSteps
    DEF ConfirmationInv, RowStep, Quiet, Made, Decided, Resolved, GivenUp, Voided, Open
<1> QED
    BY <1>1, Typing, InvHolds, PTL DEF Spec, ClosedStands

(* A cancellation concerns rows whose owner is asked before sending.       *)
CancelledIsGuarded == \A c \in Confirmation : owner[c] = "cancelled" => kind[c] = "guarded"

LEMMA CancelledAreGuarded == Spec => []CancelledIsGuarded
<1>1. Init => CancelledIsGuarded
    BY DEF Init, CancelledIsGuarded
<1>2. CancelledIsGuarded /\ [Next]_vars => CancelledIsGuarded'
    <2> SUFFICES ASSUME CancelledIsGuarded, [Next]_vars PROVE CancelledIsGuarded'
        OBVIOUS
    <2>1. ASSUME NEW w \in Worker, Dispatch(w) PROVE UNCHANGED <<owner, kind>>
        BY <2>1 DEF Dispatch, Proceed, Claim, PassOver, Send, ReceiveVerdict, ReceiveNothing,
            Answered, Abandon, WriteBack, DropAnswer, WriteCancelled, WriteReconciling,
            WriteResult, WriteRetry, WriteUnreadable, Return
    <2>2. ASSUME NEW c \in Confirmation, Passage(c) PROVE UNCHANGED <<owner, kind>>
        BY <2>2 DEF Passage, LeaseRunsOut, ComesDue, Decide
    <2>3. ASSUME NEW c \in Confirmation, Business \/ Create(c) PROVE OwnersMove
        BY <2>3 DEF Business, Create
    <2>4. CASE OwnersMove
        BY <2>4 DEF OwnersMove, CancelledIsGuarded
    <2>5. CASE UNCHANGED <<owner, kind>>
        BY <2>5 DEF CancelledIsGuarded
    <2>6. CASE UNCHANGED vars
        BY <2>5, <2>6 DEF vars
    <2> QED
        BY <2>1, <2>2, <2>3, <2>4, <2>5, <2>6, ConfirmationAssumption DEF Next
<1> QED
    BY <1>1, <1>2, PTL DEF Spec

(* However old its batch is, a dispatcher sends only rows it still holds,  *)
(* never one whose owner was cancelled, and a row whose owner is asked     *)
(* only for an owner that takes the answer.                                *)
THEOREM OnlyHeldRowsAreSent == Spec => ClosedIsNeverSent
<1>1. TypeOK /\ CancelledIsGuarded /\ [Next]_vars =>
          [\A w \in Worker :
             pc[w] # "sending" /\ pc'[w] = "sending" =>
                 /\ status[job'[w]] = "DISPATCHING" /\ claim[job'[w]] = w
                 /\ owner[job'[w]] # "cancelled"
                 /\ kind[job'[w]] = "guarded" => owner[job'[w]] = "open"]_vars
    <2> SUFFICES ASSUME TypeOK, CancelledIsGuarded, [Next]_vars, NEW w \in Worker,
                        pc[w] # "sending", pc'[w] = "sending"
                 PROVE  /\ status[job'[w]] = "DISPATCHING" /\ claim[job'[w]] = w
                        /\ owner[job'[w]] # "cancelled"
                        /\ kind[job'[w]] = "guarded" => owner[job'[w]] = "open"
        OBVIOUS
    <2>1. ASSUME NEW u \in Worker, NEW c \in Confirmation, Send(u, c)
          PROVE  u = w /\ job'[w] = c /\ Held(w, c) /\ OwnerAgrees(c)
        BY <2>1 DEF Send, TypeOK
    <2>2. ASSUME NEW u \in Worker, Dispatch(u), ~(\E c \in Confirmation : Send(u, c))
          PROVE  pc'[w] = pc[w] \/ pc'[w] # "sending"
        BY <2>2 DEF Dispatch, Proceed, Claim, PassOver, ReceiveVerdict, ReceiveNothing, Answered, Abandon,
            WriteBack, DropAnswer, WriteCancelled, WriteReconciling, WriteResult, WriteRetry,
            WriteUnreadable, Return, TypeOK
    <2>3. ASSUME NEW c \in Confirmation, Create(c) \/ Passage(c) PROVE FALSE
        BY <2>3 DEF Create, Passage, LeaseRunsOut, ComesDue, Decide, workerVars
    <2>4. ~(Business \/ UNCHANGED vars)
        BY DEF Business, vars, workerVars
    <2>5. PICK u \in Worker : \E c \in Confirmation : Send(u, c)
        <3>1. PICK u \in Worker : Dispatch(u)
            BY <2>3, <2>4 DEF Next
        <3> QED
            BY <2>2, <3>1
    <2>6. PICK c \in Confirmation : job'[w] = c /\ Held(w, c) /\ OwnerAgrees(c)
        BY <2>1, <2>5
    <2> QED
        BY <2>6 DEF Held, OwnerAgrees, CancelledIsGuarded
<1> QED
    BY <1>1, Typing, CancelledAreGuarded, PTL DEF Spec, ClosedIsNeverSent

(* Whoever holds the row by then, a true answer to a cancelled owner is    *)
(* kept.                                                                   *)
THEOREM LateAnswersAreKept == Spec => CancelledAnswersAreKept
<1>1. TypeOK =>
          \A w \in Worker :
             WriteBack(w) /\ answer[w] \in Verdict /\ owner[job[w]] = "cancelled" =>
                 evidence'[job[w]] # NoEvidence
    <2> SUFFICES ASSUME TypeOK, NEW w \in Worker, WriteBack(w),
                        answer[w] \in Verdict, owner[job[w]] = "cancelled"
                 PROVE  evidence'[job[w]] # NoEvidence
        OBVIOUS
    <2>0. PICK c \in Confirmation : c = job[w]
        BY DEF TypeOK
    <2>1. WriteCancelled(w)
        BY VerdictAssumption
        DEF WriteBack, DropAnswer, WriteReconciling, WriteResult, WriteRetry, WriteUnreadable
    <2>2. \E s \in {"APPLIED", "RECONCILING"} : Keep(c, answer[w], s)
        BY <2>0, <2>1 DEF WriteCancelled, Response
    <2>3. \A s \in {"APPLIED", "RECONCILING"} : [answer |-> answer[w], apply |-> s] # NoEvidence
        <3> SUFFICES ASSUME NEW s \in {"APPLIED", "RECONCILING"}
                     PROVE  [answer |-> answer[w], apply |-> s].apply # NoEvidence.apply
            OBVIOUS
        <3> QED
            BY DEF NoEvidence
    <2>4. PICK s \in {"APPLIED", "RECONCILING"} : Keep(c, answer[w], s)
        BY <2>2
    <2>5. \/ evidence'[c] = evidence[c] /\ evidence[c] # NoEvidence
          \/ evidence'[c] = [answer |-> answer[w], apply |-> s]
        BY <2>4, KeepEffect
    <2> QED
        BY <2>0, <2>3, <2>5
<1> QED
    BY <1>1, Typing, PTL DEF CancelledAnswersAreKept

-----------------------------------------------------------------------------
(* The promise.                                                            *)

LEMMA OwnersMoveOn ==
    ASSUME TypeOK, [Next]_vars
    PROVE  \A c \in Confirmation : owner[c] = "cancelled" => owner'[c] = "cancelled"
<1>1. CASE UNCHANGED owner
    BY <1>1
<1>2. ASSUME NEW w \in Worker, Dispatch(w) PROVE UNCHANGED owner
    BY <1>2 DEF Dispatch, Proceed, Claim, PassOver, Send, ReceiveVerdict, ReceiveNothing, Answered, Abandon,
        WriteBack, DropAnswer, WriteCancelled, WriteReconciling, WriteResult, WriteRetry,
        WriteUnreadable, Return
<1>3. ASSUME NEW c \in Confirmation, Passage(c) PROVE UNCHANGED owner
    BY <1>3 DEF Passage, LeaseRunsOut, ComesDue, Decide
<1>4. ASSUME NEW c \in Confirmation, Business \/ Create(c) PROVE OwnersMove
    BY <1>4 DEF Business, Create
<1>5. CASE UNCHANGED vars
    BY <1>1, <1>5 DEF vars
<1> QED
    BY <1>1, <1>2, <1>3, <1>4, <1>5, ConfirmationAssumption DEF Next, OwnersMove

StandingOf(s) ==
    CASE s = "NONE" -> "absent" [] s \in Open -> "owed" [] s = "COMPLETED" -> "settled"
      [] s = "RECONCILING" -> "stuck" [] OTHER -> "void"

LEMMA StandingValues ==
    /\ StandingOf("NONE") = "absent" /\ StandingOf("PENDING") = "owed"
    /\ StandingOf("DISPATCHING") = "owed" /\ StandingOf("COMPLETED") = "settled"
    /\ StandingOf("RECONCILING") = "stuck" /\ StandingOf("SUPERSEDED") = "void"
BY DEF StandingOf, Open

LEMMA StepKeepsPromise ==
    ASSUME TypeOK, TypeOK', ConfirmationInv, [Next]_vars
    PROVE  Promise!Next
<1>0. \A c \in Confirmation : standing[c] = StandingOf(status[c])
                               /\ standing'[c] = StandingOf(status'[c])
    BY DEF standing, StandingOf
<1>s. \A c \in Confirmation : status[c] \in Status /\ status'[c] \in Status
    BY DEF TypeOK
<1>1. /\ owner' \in [Confirmation -> Promise!Owner]
      /\ decision' \in [Confirmation -> Verdict \cup {"none"}]
      /\ result' \in [Confirmation -> Verdict \cup {"none"}]
    BY VerdictAssumption DEF TypeOK, Owner, Promise!Owner
<1>2. standing' \in [Confirmation -> Promise!Standing]
    <2>1. \A c \in Confirmation : standing'[c] \in Promise!Standing
        BY <1>0, <1>s, StandingValues DEF Promise!Standing, Status, Open, Closed
    <2> QED
        BY <2>1 DEF standing
<1>3. ASSUME NEW c \in Confirmation
      PROVE  /\ Promise!OwnerMoves(c) /\ Promise!Decided(c)
             /\ \/ Promise!Same(c) \/ Promise!Owe(c) \/ Promise!Settle(c)
                \/ Promise!GiveUp(c) \/ Promise!Void(c)
    <2>1. Promise!OwnerMoves(c)
        BY OwnersMoveOn DEF Promise!OwnerMoves
    <2>2. RowStep(c)
        BY RowSteps DEF ConfirmationInv
    <2>3. status[c] \in {"NONE", "PENDING", "DISPATCHING", "COMPLETED", "RECONCILING", "SUPERSEDED"}
        BY <1>s DEF Status, Open, Closed
    <2>4. Promise!Decided(c)
        BY <1>0, <2>2, <2>3, StandingValues
        DEF RowStep, Quiet, Made, Decided, Resolved, GivenUp, Voided, Promise!Decided
    <2>5. /\ standing[c] = StandingOf(status[c])
          /\ standing'[c] = StandingOf(status'[c])
        BY <1>0
    <2>6. \/ Promise!Same(c) \/ Promise!Owe(c) \/ Promise!Settle(c)
          \/ Promise!GiveUp(c) \/ Promise!Void(c)
        <3>1. CASE Quiet(c) \/ Decided(c)
            <4>1. standing'[c] = standing[c] /\ result'[c] = result[c]
                BY <2>5, <3>1, StandingValues DEF Quiet, Decided, Open
            <4> QED
                BY <4>1 DEF Promise!Same
        <3>2. CASE Made(c)
            BY <2>5, <3>2, StandingValues DEF Made, Promise!Owe, Promise!Moves
        <3>3. CASE Resolved(c)
            <4>1. /\ standing[c] = "owed" /\ standing'[c] \in {"settled", "stuck"}
                  /\ owner[c] = "open" /\ result'[c] = decision[c] /\ decision[c] # "none"
                BY <2>5, <3>3, StandingValues, VerdictAssumption DEF Resolved
            <4> QED
                BY <4>1 DEF Promise!Settle, Promise!GiveUp, Promise!Moves
        <3>4. CASE GivenUp(c)
            <4>1. /\ standing[c] = "owed" /\ standing'[c] = "stuck"
                  /\ owner[c] # "cancelled" /\ result'[c] = result[c]
                BY <2>5, <3>4, StandingValues DEF GivenUp
            <4> QED
                BY <4>1 DEF Promise!GiveUp, Promise!Moves
        <3>5. CASE Voided(c)
            <4>1. /\ owner[c] = "cancelled" /\ result'[c] = result[c]
                  /\ \/ standing'[c] = standing[c]
                     \/ standing[c] \in {"owed", "stuck"} /\ standing'[c] = "void"
                BY <2>3, <2>5, <3>5, StandingValues DEF Voided
            <4> QED
                BY <4>1 DEF Promise!Same, Promise!Void, Promise!Moves
        <3> QED
            BY <2>2, <3>1, <3>2, <3>3, <3>4, <3>5 DEF RowStep
    <2> QED
        BY <2>1, <2>4, <2>6
<1> QED
    BY <1>1, <1>2, <1>3 DEF Promise!Next

(* Batches, leases, crashes and lost answers implement Obligation.         *)
THEOREM RowsKeepPromise == Spec => KeepsPromise
<1>1. Init => Promise!Init
    BY StandingValues DEF Init, standing, StandingOf, Promise!Init
<1>2. TypeOK /\ TypeOK' /\ ConfirmationInv /\ [Next]_vars => [Promise!Next]_Promise!vars
    BY StepKeepsPromise
<1> QED
    BY <1>1, <1>2, Typing, InvHolds, PTL DEF Spec, KeepsPromise, Promise!Spec
=============================================================================
