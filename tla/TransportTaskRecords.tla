------------------------ MODULE TransportTaskRecords -----------------------
(* What the row of a TransportTask records is kept true: its attempt       *)
(* budget, the newest result that was applied to it, and what it tells the *)
(* owner of the transfer (Transfer).                                       *)
(*                                                                         *)
(* Budget: a fresh row is fenced only while no send is started             *)
(* (FencedOnce), so an attempt is added only below the budget.  Results:   *)
(* the cursor names the one report of the highest applied revision, and a  *)
(* member that this report located is out of reach of scans, confirmations *)
(* and placements.  The promise: refusals are true (SubmissionInv), places *)
(* and last words come from the members (MembersInv), and nothing is heard *)
(* of a task the WMS did not take (HeardInv).                              *)
EXTENDS TransportTaskProofs

-----------------------------------------------------------------------------
(* The attempt budget.                                                     *)

Count == <<status, reason, sendStarted, attempts>>

(* The status after a step that ends the submission or puts it in doubt.   *)
Settled == /\ status' # "NONE"
           /\ status' = "PENDING" => reason' = "SUBMIT_DELIVERY_UNKNOWN"

LEMMA CountKept ==
  ASSUME BudgetInv, UNCHANGED Count \/ Settled
  PROVE  BudgetInv'
  BY DEF BudgetInv, BudgetIsKept, Fresh, Count, Settled

LEMMA JobBudget ==
  ASSUME NEW w \in Worker, TypeOK, SubmissionInv, BudgetInv, Job(w)
  PROVE  BudgetInv'
<1>1. CASE Claim(w) \/ FenceMiss(w) \/ Send(w) \/ NotSent(w)
  BY <1>1, CountKept DEF Claim, FenceMiss, Send, NotSent, Count, outcomeVars, submitVars
<1>2. CASE Receive(w) \/ NoTrustedAnswer(w) \/ Crash(w) \/ IgnoreAnswer(w)
  BY <1>2, CountKept DEF Receive, NoTrustedAnswer, Crash, IgnoreAnswer, Count, outcomeVars, submitVars
<1>3. CASE WriteAck(w) \/ WriteRefusal(w) \/ WriteDoubt(w)
  BY <1>3, CountKept DEF WriteAck, WriteRefusal, WriteDoubt, MarkUnknown, SetOutcome, Settled
<1>4. CASE Fence(w)
  <2>1. /\ status = "PENDING" /\ claim.by = w /\ pc[w] = "claimed"
        /\ attempts' = attempts + 1 /\ sendStarted' = TRUE
        /\ UNCHANGED <<status, reason>>
    BY <1>4 DEF Fence, Submittable, LeaseMatches, outcomeVars
  <2>2. Fresh => attempts < MaxSubmit
    BY <2>1 DEF SubmissionInv, FencedOnce, BudgetInv, BudgetIsKept, TypeOK
  <2>. QED BY <2>1, <2>2, NumberAssumption DEF BudgetInv, BudgetIsKept, Fresh, TypeOK
<1>5. CASE WriteUnsent(w)
  <2>1. Fresh /\ attempts <= MaxSubmit
    BY <1>5 DEF WriteUnsent, Fresh, BudgetInv, BudgetIsKept
  <2>2. CASE attempts >= MaxSubmit /\ SetOutcome("REJECTED", "RETRY_EXHAUSTED")
    BY <1>5, <2>1, <2>2, NumberAssumption DEF WriteUnsent, SetOutcome, BudgetInv, BudgetIsKept, Fresh, TypeOK
  <2>3. CASE attempts < MaxSubmit /\ reason' = "none" /\ UNCHANGED status
    BY <1>5, <2>1, <2>3, NumberAssumption DEF WriteUnsent, BudgetInv, BudgetIsKept, Fresh, TypeOK
  <2>. QED BY <1>5, <2>2, <2>3 DEF WriteUnsent
<1>. QED BY <1>1, <1>2, <1>3, <1>4, <1>5 DEF Job

LEMMA ConflictBudget ==
  ASSUME NEW e \in Report, BudgetInv, Conflict(e)
  PROVE  BudgetInv'
  BY CountKept DEF Conflict, SetOutcome, Count, Settled, submitVars

LEMMA NothingBudget ==
  ASSUME NEW e \in Report, BudgetInv, ApplyNothing(e)
  PROVE  BudgetInv'
  BY CountKept DEF ApplyNothing, Count, outcomeVars, submitVars

LEMMA AcceptBudget ==
  ASSUME BudgetInv, AcceptPositionFact
  PROVE  BudgetInv'
<1>1. CASE status = "PENDING"
  BY <1>1, CountKept DEF AcceptPositionFact, Settled
<1>2. CASE status # "PENDING"
  BY <1>2, CountKept DEF AcceptPositionFact, Count
<1>. QED BY <1>1, <1>2

LEMMA ProcessBudget ==
  ASSUME NEW e \in Report, BudgetInv, Process(e)
  PROVE  BudgetInv'
<1>1. CASE ProcessPosition(e)
  <2>1. CASE SetOutcome("RECONCILING", "POSITION_UNKNOWN")
    BY <2>1, CountKept DEF SetOutcome, Settled
  <2>. QED BY <1>1, <2>1, ConflictBudget, NothingBudget, AcceptBudget DEF ProcessPosition
<1>2. CASE ProcessResult(e)
  <2>1. CASE ApplyResult(e)
    BY <2>1, CountKept DEF ApplyResult, SetOutcome, Settled
  <2>2. CASE UNCHANGED <<now, status, reason, version, submitVars, memberVars, workerVars,
                         net, decision>>
    BY <2>2, CountKept DEF Count, submitVars
  <2>. QED BY <1>2, <2>1, <2>2, ConflictBudget, NothingBudget DEF ProcessResult
<1>. QED BY <1>1, <1>2 DEF Process

LEMMA BudgetStep ==
  ASSUME TypeOK, SubmissionInv, BudgetInv, [Next]_vars
  PROVE  BudgetInv'
<1>1. CASE Create
  <2>1. /\ status' = "PENDING" /\ attempts' = 0
        /\ reason' \in {"none", "EVIDENCE_PENDING"}
    BY <1>1 DEF Create, submitVars, BudgetInv
  <2>. QED BY <2>1, NumberAssumption DEF BudgetInv, BudgetIsKept, Fresh
<1>2. CASE Reconcile \/ Withdraw \/ Tick
  BY <1>2, CountKept DEF Reconcile, Withdraw, Tick, MarkUnknown, SetOutcome, Settled, Count,
     outcomeVars, submitVars
<1>3. ASSUME NEW w \in Worker, Job(w) PROVE BudgetInv'
  BY <1>3, JobBudget
<1>4. ASSUME NEW e \in Report, RecordCallback(e) PROVE BudgetInv'
  BY <1>4, CountKept DEF RecordCallback, Count, outcomeVars, submitVars
<1>5. ASSUME NEW e \in Report, Process(e) PROVE BudgetInv'
  BY <1>5, ProcessBudget
<1>6. ASSUME NEW m \in Scannable, Scan(m) \/ Manual(m) PROVE BudgetInv'
  <2>1. UNCHANGED Count \/ Settled
    BY <1>6 DEF Scan, Manual, Confirm, SetOutcome, Count, Settled
  <2>. QED BY <2>1, CountKept
<1>7. ASSUME NEW m \in net, Decide(m) PROVE BudgetInv'
  BY <1>7, CountKept DEF Decide, Count, outcomeVars, submitVars
<1>8. CASE UNCHANGED vars
  BY <1>8, CountKept DEF vars, Count, outcomeVars, submitVars
<1>. QED BY <1>1, <1>2, <1>3, <1>4, <1>5, <1>6, <1>7, <1>8 DEF Next

(* A pending task without doubt was sent no more often than the budget     *)
(* allows, and has an attempt left whenever it waits to be sent: for any   *)
(* number of workers and any budget.                                       *)
THEOREM Budget == Spec => []BudgetIsKept
<1>1. Init => BudgetInv
  BY NumberAssumption DEF Init, BudgetInv, BudgetIsKept, Fresh
<1>2. TypeOK /\ SubmissionInv /\ BudgetInv /\ [Next]_vars => BudgetInv'
  BY BudgetStep
<1>3. BudgetInv => BudgetIsKept
  BY DEF BudgetInv
<1>. QED BY <1>1, <1>2, <1>3, Typing, Submission, PTL DEF Spec

-----------------------------------------------------------------------------
(* The newest result.                                                      *)

Located(m) == position[m] \in Known /\ memberStatus[m] # "PENDING"

(* A step that applies no result and moves no member a result has located. *)
LEMMA ResultsKept ==
  ASSUME ResultsInv, UNCHANGED revision,
         \A e \in ResultReport : /\ evidence'[e] = "APPLIED" <=> evidence[e] = "APPLIED"
                                 /\ evidence'[e] # "none" <=> evidence[e] # "none",
         \A m \in Member : Located(m) => position'[m] = position[m] /\ memberStatus'[m] = memberStatus[m]
  PROVE  ResultsInv'
<1>1. CursorIsApplied' /\ RevisionIsStoredOnce'
  BY DEF ResultsInv, CursorIsApplied, RevisionIsStoredOnce
<1>2. ASSUME NEW e \in ResultReport, evidence'[e] = "APPLIED", e.revision = revision',
             NEW m \in Member, e.of[m].position \in Known
      PROVE  position'[m] = e.of[m].position /\ memberStatus'[m] = e.of[m].status
  <2>1. position[m] = e.of[m].position /\ memberStatus[m] = e.of[m].status
    BY <1>2 DEF ResultsInv, NewestResultHolds
  <2>2. e.of[m].status # "PENDING"
    BY ReportAssumption DEF MemberResult
  <2>. QED BY <1>2, <2>1, <2>2 DEF Located
<1>3. NewestResultHolds'
  BY <1>2 DEF NewestResultHolds
<1>. QED BY <1>1, <1>3 DEF ResultsInv

(* A new highest revision moves the cursor to a report that was waiting.   *)
LEMMA ResultsMoved ==
  ASSUME NEW e \in ResultReport, TypeOK, ResultsInv,
         evidence[e] = "PENDING", Applied(e), e.revision > revision, revision' = e.revision,
         \A m \in Member : e.of[m].position \in Known =>
             position'[m] = e.of[m].position /\ memberStatus'[m] = e.of[m].status
  PROVE  ResultsInv'
<1>1. /\ e \in Report /\ ResultReport \subseteq Report /\ e.revision \in Nat
      /\ \A f \in ResultReport : f.revision \in Nat
  BY ReportAssumption DEF Report
<1>2. \A f \in Report : evidence'[f] = (IF f = e THEN "APPLIED" ELSE evidence[f])
  BY <1>1 DEF TypeOK, Applied
<1>3. CursorIsApplied'
  <2>1. ASSUME NEW f \in ResultReport, evidence'[f] = "APPLIED" PROVE f.revision <= revision'
    <3>1. CASE f = e
      BY <1>1, <3>1
    <3>2. CASE f # e
      <4>1. f.revision <= revision
        BY <1>1, <1>2, <2>1, <3>2 DEF ResultsInv, CursorIsApplied
      <4>. QED BY <1>1, <4>1 DEF TypeOK
    <3>. QED BY <3>1, <3>2
  <2>2. evidence'[e] = "APPLIED"
    BY <1>1, <1>2
  <2>. QED BY <2>1, <2>2 DEF CursorIsApplied
<1>4. RevisionIsStoredOnce'
  BY <1>1, <1>2 DEF ResultsInv, RevisionIsStoredOnce
<1>5. NewestResultHolds'
  <2>1. ASSUME NEW f \in ResultReport, evidence'[f] = "APPLIED", f.revision = revision' PROVE f = e
    <3>1. evidence[f] = "APPLIED" => f.revision <= revision
      BY DEF ResultsInv, CursorIsApplied
    <3>. QED BY <1>1, <1>2, <2>1, <3>1 DEF TypeOK
  <2>. QED BY <2>1 DEF NewestResultHolds
<1>. QED BY <1>3, <1>4, <1>5 DEF ResultsInv

(* A stale result is not the one the cursor names.                         *)
LEMMA StaleResult ==
  ASSUME NEW e \in ResultReport, TypeOK, ResultsInv,
         evidence[e] = "PENDING", Stale(e), ApplyNothing(e)
  PROVE  ResultsInv'
<1>1. /\ e \in Report /\ ResultReport \subseteq Report
      /\ \A f \in ResultReport : f.revision \in Nat /\ f.revision # 0
  BY ReportAssumption DEF Report
<1>2. /\ \A f \in Report : evidence'[f] = (IF f = e THEN "APPLIED" ELSE evidence[f])
      /\ UNCHANGED <<revision, position, memberStatus>>
  BY <1>1 DEF TypeOK, ApplyNothing, Applied, outcomeVars, memberVars
<1>3. e.revision <= revision /\ e.revision # revision
  <2>1. e.revision <= revision
    BY DEF Stale
  <2>2. ASSUME e.revision = revision PROVE FALSE
    <3>1. PICK f \in ResultReport : evidence[f] = "APPLIED" /\ f.revision = revision
      BY <1>1, <2>2 DEF ResultsInv, CursorIsApplied
    <3>. QED BY <2>2, <3>1 DEF ResultsInv, RevisionIsStoredOnce
  <2>. QED BY <2>1, <2>2
<1>4. CursorIsApplied'
  <2>1. ASSUME NEW f \in ResultReport, evidence'[f] = "APPLIED" PROVE f.revision <= revision'
    BY <1>1, <1>2, <1>3, <2>1 DEF ResultsInv, CursorIsApplied
  <2>2. revision' # 0 => \E f \in ResultReport : evidence'[f] = "APPLIED" /\ f.revision = revision'
    BY <1>1, <1>2 DEF ResultsInv, CursorIsApplied
  <2>. QED BY <2>1, <2>2 DEF CursorIsApplied
<1>5. RevisionIsStoredOnce'
  BY <1>1, <1>2 DEF ResultsInv, RevisionIsStoredOnce
<1>6. NewestResultHolds'
  BY <1>1, <1>2, <1>3 DEF ResultsInv, NewestResultHolds
<1>. QED BY <1>4, <1>5, <1>6 DEF ResultsInv

LEMMA ConflictResults ==
  ASSUME NEW e \in Report, TypeOK, ResultsInv, evidence[e] = "PENDING", Conflict(e)
  PROVE  ResultsInv'
<1>1. \A f \in ResultReport : /\ evidence'[f] = "APPLIED" <=> evidence[f] = "APPLIED"
                              /\ evidence'[f] # "none" <=> evidence[f] # "none"
  BY DEF TypeOK, Conflict, Report
<1>2. UNCHANGED <<revision, position, memberStatus>>
  BY DEF Conflict, memberVars
<1>. QED BY <1>1, <1>2, ResultsKept

LEMMA PositionResults ==
  ASSUME NEW e \in PositionReport, TypeOK, ResultsInv, ProcessPosition(e)
  PROVE  ResultsInv'
<1>1. e \in Report /\ e \notin ResultReport /\ e.member \in Member /\ evidence[e] = "PENDING"
  <2>1. e.op = "position" /\ e.member \in Member /\ \A f \in ResultReport : f.op = "result"
    BY ReportAssumption
  <2>. QED BY <2>1 DEF Report, ProcessPosition
<1>2. CASE Conflict(e)
  BY <1>1, <1>2, ConflictResults
<1>3. CASE Applied(e) /\ UNCHANGED <<revision, memberStatus>> /\
           \A m \in Member : position[m] \in Known => position'[m] = position[m]
  <2>1. \A f \in ResultReport : evidence'[f] = evidence[f]
    BY <1>1, <1>3 DEF TypeOK, Applied, Report
  <2>. QED BY <1>3, <2>1, ResultsKept DEF Located
<1>4. ApplyNothing(e) => /\ Applied(e) /\ UNCHANGED <<revision, memberStatus>>
                         /\ \A m \in Member : position[m] \in Known => position'[m] = position[m]
  BY DEF ApplyNothing, outcomeVars, memberVars
<1>5. ~Conflict(e) /\ ~ApplyNothing(e) =>
          /\ Applied(e) /\ UNCHANGED <<revision, memberStatus>>
          /\ \A m \in Member : position[m] \in Known => position'[m] = position[m]
  BY <1>1 DEF ProcessPosition, PositionMoves, TypeOK
<1>. QED BY <1>2, <1>3, <1>4, <1>5

LEMMA ResultResults ==
  ASSUME NEW e \in ResultReport, TypeOK, MembersInv, ResultsInv, ProcessResult(e)
  PROVE  ResultsInv'
<1>1. evidence[e] = "PENDING" /\ e \in Report
  BY DEF ProcessResult, Report
<1>2. CASE Stale(e) /\ ApplyNothing(e)
  BY <1>1, <1>2, StaleResult
<1>3. CASE Agrees(e) /\ revision' = e.revision /\ Applied(e) /\ UNCHANGED memberVars
  <2>1. \A m \in Member : e.of[m].status = "SUCCEEDED" /\ e.of[m].position = "target"
    BY <1>3, ReportAssumption DEF Agrees, Succeeds, MemberResult
  <2>2. \A m \in Member : memberStatus[m] = "SUCCEEDED" /\ position[m] = "target"
    BY <1>3 DEF Agrees, MembersInv, SuccessIsWitnessed
  <2>. QED BY <1>1, <1>3, <2>1, <2>2, ResultsMoved DEF Agrees, memberVars
<1>4. CASE Open(e) /\ ApplyResult(e)
  <2>1. /\ Applied(e) /\ revision' = e.revision /\ e.revision > revision
        /\ \A m \in Member : position'[m] = e.of[m].position /\ memberStatus'[m] = e.of[m].status
    BY <1>4 DEF Open, ApplyResult
  <2>. QED BY <1>1, <2>1, ResultsMoved
<1>5. CASE Conflict(e)
  BY <1>1, <1>5, ConflictResults
<1>. QED BY <1>2, <1>3, <1>4, <1>5 DEF ProcessResult

(* A scan or a confirmation speaks of a member no result has located.      *)
LEMMA ConfirmResults ==
  ASSUME NEW m \in Scannable, TypeOK, ResultsInv, Scan(m) \/ Manual(m)
  PROVE  ResultsInv'
<1>1. Delivered(m) /\ ~Located(m) /\ UNCHANGED <<revision, evidence>>
  BY DEF Scan, Manual, Confirm, Located, Known
<1>2. \A o \in Member : Located(o) => position'[o] = position[o] /\ memberStatus'[o] = memberStatus[o]
  BY <1>1 DEF Delivered, TypeOK
<1>. QED BY <1>1, <1>2, ResultsKept

LEMMA RecordResults ==
  ASSUME NEW e \in Report, TypeOK, ResultsInv, RecordCallback(e)
  PROVE  ResultsInv'
<1>1. /\ \A f \in Report : f # e => evidence'[f] = evidence[f]
      /\ evidence[e] = "none" /\ evidence'[e] \in {"ORPHAN", "PENDING"}
      /\ UNCHANGED <<revision, position, memberStatus>> /\ ResultReport \subseteq Report
  BY DEF RecordCallback, TypeOK, outcomeVars, memberVars, Report
<1>2. CursorIsApplied' /\ NewestResultHolds'
  <2>1. \A f \in ResultReport : evidence'[f] = "APPLIED" <=> evidence[f] = "APPLIED"
    BY <1>1
  <2>. QED BY <1>1, <2>1 DEF ResultsInv, CursorIsApplied, NewestResultHolds
<1>3. RevisionIsStoredOnce'
  <2>1. e \in ResultReport =>
            \A f \in ResultReport : f.revision = e.revision => evidence[f] = "none"
    BY ReportAssumption DEF RecordCallback
  <2>. QED BY <1>1, <2>1 DEF ResultsInv, RevisionIsStoredOnce
<1>. QED BY <1>2, <1>3 DEF ResultsInv

LEMMA ResultsStep ==
  ASSUME TypeOK, MembersInv, ResultsInv, [Next]_vars
  PROVE  ResultsInv'
<1>1. CASE Create
  <2>1. \A e \in ResultReport : /\ evidence'[e] = "APPLIED" <=> evidence[e] = "APPLIED"
                                /\ evidence'[e] # "none" <=> evidence[e] # "none"
    BY <1>1 DEF Create, TypeOK, Report
  <2>2. UNCHANGED <<revision, position, memberStatus>>
    BY <1>1 DEF Create, memberVars
  <2>. QED BY <2>1, <2>2, ResultsKept
<1>2. CASE UNCHANGED <<revision, position, memberStatus, evidence>>
  BY <1>2, ResultsKept
<1>3. CASE Reconcile \/ Withdraw \/ Tick
  BY <1>2, <1>3 DEF Reconcile, Withdraw, Tick, MarkUnknown, outcomeVars, memberVars
<1>4. ASSUME NEW w \in Worker, Job(w) PROVE ResultsInv'
  <2>1. UNCHANGED revision
    BY <1>4 DEF Job, Claim, Fence, FenceMiss, Send, NotSent, Receive, NoTrustedAnswer, Crash,
       WriteAck, WriteRefusal, WriteUnsent, WriteDoubt, MarkUnknown, IgnoreAnswer, outcomeVars
  <2>. QED BY <1>2, <1>4, <2>1, JobLeavesMembers DEF Facts
<1>5. ASSUME NEW e \in Report, RecordCallback(e) PROVE ResultsInv'
  BY <1>5, RecordResults
<1>6. ASSUME NEW e \in Report, Process(e) PROVE ResultsInv'
  BY <1>6, PositionResults, ResultResults DEF Process
<1>7. ASSUME NEW m \in Scannable, Scan(m) \/ Manual(m) PROVE ResultsInv'
  BY <1>7, ConfirmResults
<1>8. ASSUME NEW m \in net, Decide(m) PROVE ResultsInv'
  BY <1>2, <1>8 DEF Decide, outcomeVars, memberVars
<1>9. CASE UNCHANGED vars
  BY <1>2, <1>9 DEF vars, outcomeVars, memberVars
<1>. QED BY <1>1, <1>3, <1>4, <1>5, <1>6, <1>7, <1>8, <1>9 DEF Next

(* Whatever order results are stored and applied in, the rows stay as the  *)
(* newest applied revision located the members: for any members, reports   *)
(* and confirmations between them.                                         *)
THEOREM NewestResult == Spec => []NewestResultHolds
<1>1. Init => ResultsInv
  BY DEF Init, ResultsInv, CursorIsApplied, RevisionIsStoredOnce, NewestResultHolds, Report
<1>2. TypeOK /\ MembersInv /\ ResultsInv /\ [Next]_vars => ResultsInv'
  BY ResultsStep
<1>3. ResultsInv => NewestResultHolds
  BY DEF ResultsInv
<1>. QED BY <1>1, <1>2, <1>3, Typing, Members, PTL DEF Spec

-----------------------------------------------------------------------------
(* What is heard of the WMS.                                               *)

Heard == <<evidence, answer, pc, net, decision>>

(* The status after a step that learns nothing of the WMS.                 *)
Silent == status' = status \/ (status # "NONE" /\ status' \notin {"NONE", "ACCEPTED", "RECONCILING"})

LEMMA HeardKept ==
  ASSUME HeardInv, UNCHANGED Heard, Silent
  PROVE  HeardInv'
  BY DEF HeardInv, Heard, Silent, HasEvidence

LEMMA HeardReturn ==
  ASSUME NEW w \in Worker, TypeOK, HeardInv, Return(w), net' \subseteq net,
         UNCHANGED <<evidence, decision>>,
         Silent \/ (status = "PENDING" /\ status' # "NONE" /\ (~WmsFaults => decision = "accepted"))
  PROVE  HeardInv'
<1>1. \A u \in Worker : /\ pc'[u] = (IF u = w THEN "idle" ELSE pc[u])
                        /\ answer'[u] = (IF u = w THEN "UNKNOWN" ELSE answer[u])
  BY DEF Return, TypeOK
<1>. QED BY <1>1 DEF HeardInv, Silent, HasEvidence

LEMMA HeardAnswer ==
  ASSUME NEW w \in Worker, NEW code, TypeOK, HeardInv, Answered(w, code), net' \subseteq net,
         UNCHANGED <<evidence, decision, status>>,
         code = "ACK" => decision = "accepted", ~WmsFaults => code # "CONFLICT"
  PROVE  HeardInv'
<1>1. \A u \in Worker : /\ pc'[u] = (IF u = w THEN "answered" ELSE pc[u])
                        /\ answer'[u] = (IF u = w THEN code ELSE answer[u])
  BY DEF Answered, TypeOK
<1>. QED BY <1>1 DEF HeardInv, HasEvidence

LEMMA JobHeard ==
  ASSUME NEW w \in Worker, TypeOK, HeardInv, Job(w)
  PROVE  HeardInv'
<1>1. ASSUME NEW where \in {"claimed", "ready", "waiting"}, pc' = [pc EXCEPT ![w] = where],
             UNCHANGED <<evidence, answer, decision, status>>,
             \A m \in net' : m \in net \/ m.type = "SUBMIT"
      PROVE  HeardInv'
  <2>1. \A u \in Worker : pc'[u] = "answered" => pc[u] = "answered"
    BY <1>1 DEF TypeOK
  <2>. QED BY <1>1, <2>1 DEF HeardInv, HasEvidence
<1>2. CASE Claim(w) \/ Fence(w) \/ Send(w)
  BY <1>1, <1>2 DEF Claim, Fence, Send, outcomeVars
<1>3. CASE FenceMiss(w) \/ Crash(w) \/ IgnoreAnswer(w)
  BY <1>3, HeardReturn DEF FenceMiss, Crash, IgnoreAnswer, HangUp, outcomeVars, Silent
<1>4. CASE NotSent(w) \/ NoTrustedAnswer(w)
  BY <1>4, HeardAnswer DEF NotSent, NoTrustedAnswer, HangUp, outcomeVars
<1>5. CASE Receive(w)
  <2>1. PICK m \in net : Answered(w, m.type)
    BY <1>5 DEF Receive
  <2>2. /\ m.type = "ACK" => decision = "accepted"
        /\ ~WmsFaults => m.type # "CONFLICT"
    BY DEF HeardInv
  <2>3. net' \subseteq net /\ UNCHANGED <<evidence, decision, status>>
    BY <1>5 DEF Receive, HangUp, outcomeVars
  <2>. QED BY <2>1, <2>2, <2>3, HeardAnswer
<1>6. CASE WriteAck(w)
  <2>1. /\ Return(w) /\ UNCHANGED <<net, evidence, decision>>
        /\ status = "PENDING" /\ status' = "ACCEPTED" /\ decision = "accepted"
    BY <1>6 DEF WriteAck, HeardInv
  <2>. QED BY <2>1, HeardReturn
<1>7. CASE WriteRefusal(w)
  <2>1. ~WmsFaults => status' = "REJECTED"
    BY <1>7 DEF WriteRefusal, SetOutcome, HeardInv
  <2>2. /\ Return(w) /\ UNCHANGED <<net, evidence, decision>> /\ status = "PENDING"
        /\ status' \in {"REJECTED", "RECONCILING"}
    BY <1>7 DEF WriteRefusal, SetOutcome
  <2>3. CASE WmsFaults
    BY <2>2, <2>3, HeardReturn
  <2>4. CASE ~WmsFaults
    BY <2>1, <2>2, <2>4, HeardReturn DEF Silent
  <2>. QED BY <2>3, <2>4
<1>8. CASE WriteUnsent(w) \/ WriteDoubt(w)
  BY <1>8, HeardReturn DEF WriteUnsent, WriteDoubt, MarkUnknown, SetOutcome, Silent
<1>. QED BY <1>2, <1>3, <1>4, <1>5, <1>6, <1>7, <1>8 DEF Job

LEMMA ProcessHeard ==
  ASSUME NEW e \in Report, TypeOK, HeardInv, Process(e)
  PROVE  HeardInv'
<1>1. /\ evidence[e] = "PENDING" /\ HasEvidence /\ status # "NONE"
      /\ ~WmsFaults => decision = "accepted"
  BY DEF Process, ProcessPosition, ProcessResult, HeardInv, HasEvidence
<1>2. UNCHANGED <<pc, answer, net, decision>>
  BY DEF Process, ProcessPosition, ProcessResult, ApplyResult, ApplyNothing, Conflict, workerVars
<1>3. status' # "NONE"
  BY <1>1 DEF Process, ProcessPosition, ProcessResult, ApplyResult, ApplyNothing, Conflict,
     AcceptPositionFact, SetOutcome, outcomeVars
<1>. QED BY <1>1, <1>2, <1>3 DEF HeardInv

LEMMA DecideHeard ==
  ASSUME NEW m \in net, HeardInv, Decide(m)
  PROVE  HeardInv'
<1>1. UNCHANGED <<status, evidence, pc, answer>> /\ (decision = "accepted" => decision' = "accepted")
  BY DEF Decide, outcomeVars, workerVars
<1>2. \A n \in net' : n \in net \/ (n.type = "ACK" => decision' = "accepted")
  BY DEF Decide, Reply
<1>3. ~WmsFaults => \A n \in net' : n \in net \/ n.type # "CONFLICT"
  BY DEF Decide, Reply
<1>. QED BY <1>1, <1>2, <1>3 DEF HeardInv, HasEvidence

LEMMA HeardStep ==
  ASSUME TypeOK, HeardInv, [Next]_vars
  PROVE  HeardInv'
<1>1. CASE Create
  <2>1. /\ status = "NONE" /\ status' = "PENDING" /\ UNCHANGED <<pc, answer, net, decision>>
        /\ \A e \in Report : evidence'[e] # "none" <=> evidence[e] # "none"
    BY <1>1 DEF Create, workerVars, TypeOK
  <2>. QED BY <2>1 DEF HeardInv, HasEvidence
<1>2. CASE Reconcile \/ Withdraw \/ Tick
  BY <1>2, HeardKept DEF Reconcile, Withdraw, Tick, Submittable, MarkUnknown, SetOutcome, Heard,
     Silent, outcomeVars, workerVars
<1>3. ASSUME NEW w \in Worker, Job(w) PROVE HeardInv'
  BY <1>3, JobHeard
<1>4. ASSUME NEW e \in Report, RecordCallback(e) PROVE HeardInv'
  <2>1. /\ UNCHANGED <<status, pc, answer, net, decision>>
        /\ ~WmsFaults => decision = "accepted"
        /\ \A f \in Report : evidence'[f] = IF f # e THEN evidence[f] ELSE
                                            IF status = "NONE" THEN "ORPHAN" ELSE "PENDING"
    BY <1>4 DEF RecordCallback, outcomeVars, workerVars, TypeOK
  <2>. QED BY <2>1 DEF HeardInv
<1>5. ASSUME NEW e \in Report, Process(e) PROVE HeardInv'
  BY <1>5, ProcessHeard
<1>6. ASSUME NEW m \in Scannable, Scan(m) \/ Manual(m) PROVE HeardInv'
  <2>1. UNCHANGED Heard /\ Silent
    BY <1>6 DEF Scan, Manual, Confirm, SetOutcome, Heard, Silent, workerVars
  <2>. QED BY <2>1, HeardKept
<1>7. ASSUME NEW m \in net, Decide(m) PROVE HeardInv'
  BY <1>7, DecideHeard
<1>8. CASE UNCHANGED vars
  BY <1>8, HeardKept DEF vars, Heard, Silent, outcomeVars, workerVars
<1>. QED BY <1>1, <1>2, <1>3, <1>4, <1>5, <1>6, <1>7, <1>8 DEF Next

(* An acknowledgement a worker may write down is the WMS's own word, and a *)
(* WMS without faults never speaks of a task it did not take: for any      *)
(* workers, members and reports.                                           *)
THEOREM Hearing == Spec => []HeardInv
<1>1. Init => HeardInv
  BY DEF Init, HeardInv, HasEvidence
<1>. QED BY <1>1, HeardStep, Typing, PTL DEF Spec

-----------------------------------------------------------------------------
(* The promise of Transfer.                                                *)

Taken == decision = "accepted"
Shown == <<told, version, position, Taken>>

(* Places are kept, or learnt where nothing was known.                     *)
PlacesLearnt ==
    /\ position' \in [Member -> Known \cup {"none", "unknown"}]
    /\ \A m \in Member : /\ position[m] \in Known => position'[m] = position[m]
                         /\ position[m] # "none" => position'[m] # "none"

LEMMA PlacesKept ==
  ASSUME TypeOK, UNCHANGED position
  PROVE  PlacesLearnt
  BY DEF TypeOK, PlacesLearnt

LEMMA PlaceLearnt ==
  ASSUME TypeOK, NEW m \in Member, NEW at \in Known \cup {"unknown"},
         position[m] \in Known => at = position[m], position' = [position EXCEPT ![m] = at]
  PROVE  PlacesLearnt
  BY DEF TypeOK, PlacesLearnt, Known

(* A step that shows nothing, and one that only learns.                    *)
LEMMA ShownAside ==
  ASSUME UNCHANGED <<status, reason, version, position, decision>>
  PROVE  UNCHANGED Shown
  BY DEF Shown, told, Taken

LEMMA LearnStep ==
  ASSUME TypeOK, status \in {"PENDING", "ACCEPTED", "RECONCILING"}, ~WmsFaults => Taken,
         UNCHANGED decision, PlacesLearnt,
         \/ told' = told /\ version' = version
         \/ /\ version' = version + 1
            /\ \/ status' = "RECONCILING"
               \/ status' = "SUCCEEDED" /\ \A m \in Member : position'[m] = "target"
               \/ /\ status' = "FAILED" /\ reason' = "FAILURE"
                  /\ \A m \in Member : position'[m] \in Known
  PROVE  Promise!Learn
<1>1. told \in {"open", "doubt"}
  BY DEF told
<1>2. /\ status' = "RECONCILING" => told' = "doubt"
      /\ status' = "SUCCEEDED" => told' = "arrived"
      /\ status' = "FAILED" /\ reason' = "FAILURE" => told' = "lost"
  BY DEF told
<1>3. UNCHANGED Taken
  BY DEF Taken
<1>. QED BY <1>1, <1>2, <1>3 DEF PlacesLearnt, Promise!Learn, Promise!Say, Promise!Place,
        Promise!Known, Known, Taken

LEMMA JobPromise ==
  ASSUME NEW w \in Worker, TypeOK, SubmissionInv, HeardInv, Job(w)
  PROVE  Promise!Next \/ UNCHANGED Shown
<1>1. UNCHANGED <<position, decision>>
  BY JobLeavesMembers DEF Facts, Job, Claim, Fence, FenceMiss, Send, NotSent, Receive,
     NoTrustedAnswer, Crash, WriteAck, WriteRefusal, WriteUnsent, WriteDoubt, MarkUnknown, IgnoreAnswer
<1>2. CASE UNCHANGED outcomeVars
  BY <1>1, <1>2, ShownAside DEF outcomeVars
<1>3. CASE status = "PENDING" /\ status' \in {"PENDING", "ACCEPTED"} /\ UNCHANGED version
  BY <1>1, <1>3 DEF Shown, told, Taken
<1>4. ASSUME status = "PENDING", SetOutcome("REJECTED", reason'), decision # "accepted"
      PROVE  Promise!Next
  <2>1. told = "open" /\ told' = "refused" /\ version' = version + 1
    BY <1>4 DEF told, SetOutcome
  <2>. QED BY <1>1, <1>4, <2>1 DEF Promise!Next, Promise!Refuse, Promise!Say
<1>5. CASE Claim(w) \/ Fence(w) \/ FenceMiss(w) \/ Send(w) \/ NotSent(w)
  BY <1>2, <1>5 DEF Claim, Fence, FenceMiss, Send, NotSent
<1>6. CASE Receive(w) \/ NoTrustedAnswer(w) \/ Crash(w) \/ IgnoreAnswer(w)
  BY <1>2, <1>6 DEF Receive, NoTrustedAnswer, Crash, IgnoreAnswer
<1>7. CASE WriteAck(w) \/ WriteDoubt(w)
  BY <1>3, <1>7 DEF WriteAck, WriteDoubt, MarkUnknown
<1>8. CASE WriteRefusal(w)
  <2>1. CASE answer[w] = "REJECTED" /\ SetOutcome("REJECTED", "WMS_REJECTED")
    <3>1. decision # "accepted"
      BY <1>8, <2>1 DEF WriteRefusal, SubmissionInv, RefusalsAreReal
    <3>. QED BY <1>4, <1>8, <2>1, <3>1 DEF WriteRefusal, SetOutcome
  <2>2. CASE answer[w] = "CONFLICT" /\ SetOutcome("RECONCILING", "SUBMIT_CONFLICT")
    <3>1. WmsFaults /\ status = "PENDING"
      BY <1>8, <2>2 DEF WriteRefusal, HeardInv
    <3>. QED BY <1>1, <2>2, <3>1, PlacesKept, LearnStep DEF SetOutcome, Promise!Next
  <2>. QED BY <1>8, <2>1, <2>2 DEF WriteRefusal
<1>9. CASE WriteUnsent(w)
  <2>1. status = "PENDING" /\ decision # "accepted"
    BY <1>9 DEF WriteUnsent, SubmissionInv, UnsentIsTrue, Fresh, NotTaken
  <2>2. CASE SetOutcome("REJECTED", "RETRY_EXHAUSTED")
    BY <1>4, <2>1, <2>2 DEF SetOutcome
  <2>. QED BY <1>3, <1>9, <2>1, <2>2 DEF WriteUnsent
<1>. QED BY <1>5, <1>6, <1>7, <1>8, <1>9 DEF Job

LEMMA ProcessPromise ==
  ASSUME NEW e \in Report, TypeOK, MembersInv, MembersInv', HeardInv, Process(e)
  PROVE  Promise!Next \/ UNCHANGED Shown
<1>1. /\ status # "NONE" /\ UNCHANGED decision
      /\ ~WmsFaults => Taken
  BY DEF Process, ProcessPosition, ProcessResult, ApplyResult, ApplyNothing, Conflict, HeardInv,
     HasEvidence, Taken
<1>2. status \notin Terminal => status \in {"PENDING", "ACCEPTED", "RECONCILING"}
  BY <1>1 DEF TypeOK, Status
<1>3. CASE ApplyNothing(e)
  BY <1>3, ShownAside DEF ApplyNothing, outcomeVars, memberVars
<1>4. CASE Conflict(e)
  <2>1. CASE UNCHANGED <<status, reason, version>>
    BY <1>4, <2>1, ShownAside DEF Conflict, memberVars
  <2>2. CASE status \notin Terminal /\ SetOutcome("RECONCILING", "EVIDENCE_CONFLICT")
    BY <1>1, <1>2, <1>4, <2>2, PlacesKept, LearnStep DEF Conflict, SetOutcome, memberVars, Promise!Next
  <2>. QED BY <1>4, <2>1, <2>2 DEF Conflict
<1>5. ASSUME e \in PositionReport, PositionMoves(e), ProcessPosition(e)
      PROVE  Promise!Next \/ UNCHANGED Shown
  <2>1. e.member \in Member /\ status \in {"PENDING", "ACCEPTED", "RECONCILING"}
    BY <1>2, <1>5, ReportAssumption DEF PositionMoves
  <2>2. AcceptPositionFact => UNCHANGED <<told, version>>
    BY DEF AcceptPositionFact, told
  <2>3. PlacesLearnt
    <3>1. ASSUME NEW at \in Known \cup {"unknown"}, position' = [position EXCEPT ![e.member] = at]
          PROVE  PlacesLearnt
      BY <1>5, <2>1, <3>1, PlaceLearnt DEF PositionMoves
    <3>2. UNCHANGED position \/ \E at \in Known \cup {"unknown"} : position' = [position EXCEPT ![e.member] = at]
      BY <1>5 DEF ProcessPosition, ApplyNothing, Conflict, memberVars, Known
    <3>. QED BY <3>1, <3>2, PlacesKept
  <2>4. \/ UNCHANGED <<told, version>>
        \/ version' = version + 1 /\ status' = "RECONCILING"
        \/ ApplyNothing(e) \/ Conflict(e)
    BY <1>5, <2>2 DEF ProcessPosition, SetOutcome
  <2>. QED BY <1>1, <1>3, <1>4, <2>1, <2>3, <2>4, LearnStep DEF Promise!Next
<1>6. ASSUME e \in ResultReport, Open(e), ~Contradicts(e), ApplyResult(e)
      PROVE  Promise!Next
  <2>1. status \in {"PENDING", "ACCEPTED", "RECONCILING"}
    BY <1>2, <1>6 DEF Open
  <2>2. \A m \in Member : position'[m] = e.of[m].position /\ e.of[m].position \in Known \cup {"unknown"}
    BY <1>6, ReportAssumption DEF ApplyResult, MemberResult, Known
  <2>3. PlacesLearnt
    BY <1>6, <2>2 DEF PlacesLearnt, Contradicts, ApplyResult, Known
  <2>4. /\ version' = version + 1
        /\ \/ status' = "RECONCILING"
           \/ status' = "FAILED" /\ reason' = "FAILURE"
           \/ status' = "SUCCEEDED"
    BY <1>6 DEF ApplyResult, SetOutcome
  <2>5. /\ status' = "SUCCEEDED" => \A m \in Member : position'[m] = "target"
        /\ reason' = "FAILURE" => \A m \in Member : position'[m] \in Known
    BY DEF MembersInv, SuccessIsWitnessed, FailureIsLocated
  <2>. QED BY <1>1, <2>1, <2>3, <2>4, <2>5, LearnStep DEF Promise!Next
<1>7. CASE ProcessPosition(e) /\ e \in PositionReport
  BY <1>3, <1>4, <1>5, <1>7 DEF ProcessPosition
<1>8. CASE ProcessResult(e) /\ e \in ResultReport
  <2>1. CASE UNCHANGED <<status, reason, version, memberVars, decision>>
    BY <2>1, ShownAside DEF memberVars
  <2>. QED BY <1>3, <1>4, <1>6, <1>8, <2>1 DEF ProcessResult
<1>. QED BY <1>7, <1>8 DEF Process

LEMMA ConfirmPromise ==
  ASSUME NEW m \in Scannable, TypeOK, MembersInv, MembersInv', HeardInv, Scan(m) \/ Manual(m)
  PROVE  Promise!Next
<1>1. /\ m \in Member /\ position' = [position EXCEPT ![m] = "target"]
      /\ status \in {"PENDING", "ACCEPTED", "RECONCILING"} /\ UNCHANGED decision
  BY MemberAssumption DEF Scan, Manual, Delivered, TypeOK, Status
<1>2. ~WmsFaults => Taken
  BY DEF Scan, Manual, HeardInv, Taken
<1>3. PlacesLearnt
  <2>1. position[m] # "elsewhere"
    BY <1>1 DEF Scan, Manual, MembersInv, ElsewhereIsFailed
  <2>. QED BY <1>1, <2>1, PlaceLearnt DEF Known
<1>4. UNCHANGED <<status, reason, version>> \/ (status' = "SUCCEEDED" /\ version' = version + 1)
  BY DEF Scan, Manual, Confirm, SetOutcome
<1>5. status' = "SUCCEEDED" => \A o \in Member : position'[o] = "target"
  BY DEF MembersInv, SuccessIsWitnessed
<1>6. UNCHANGED <<status, reason>> => UNCHANGED told
  BY DEF told
<1>. QED BY <1>1, <1>2, <1>3, <1>4, <1>5, <1>6, LearnStep DEF Promise!Next

LEMMA DecidePromise ==
  ASSUME NEW m \in net, SubmissionInv, TypeOK, Decide(m)
  PROVE  Promise!Next \/ UNCHANGED Shown
<1>1. UNCHANGED <<status, reason, version, position>>
  BY DEF Decide, outcomeVars, memberVars
<1>2. CASE Taken' = Taken
  BY <1>1, <1>2 DEF Shown, told
<1>3. CASE Taken' # Taken
  <2>1. decision = "none" /\ decision' = "accepted" /\ m.type = "SUBMIT"
    BY <1>3 DEF Decide, Taken, TypeOK
  <2>2. ~NotTaken
    BY <2>1 DEF NotTaken, NoSubmitUnderWay
  <2>3. status \notin {"NONE", "REJECTED"}
    BY <2>2 DEF SubmissionInv, RefusalIsTrue, UnsentIsNotTaken
  <2>4. told \notin {"absent", "refused"} /\ UNCHANGED told
    BY <1>1, <2>3 DEF told, TypeOK, Status, Terminal
  <2>. QED BY <1>1, <2>1, <2>4 DEF Promise!Next, Promise!Take
<1>. QED BY <1>2, <1>3

LEMMA PromiseStep ==
  ASSUME TypeOK, MembersInv, MembersInv', SubmissionInv, HeardInv, [Next]_vars
  PROVE  [Promise!Next]_(Promise!vars)
<1>. SUFFICES Promise!Next \/ UNCHANGED Shown
  BY DEF Promise!vars, Shown, Taken
<1>1. CASE Create
  <2>1. told = "absent" /\ told' = "open" /\ UNCHANGED <<version, position, decision>>
    BY <1>1 DEF Create, told, memberVars
  <2>. QED BY <2>1 DEF Promise!Next, Promise!Ask
<1>2. CASE Withdraw
  <2>1. told = "open" /\ told' = "withdrawn" /\ version' = version + 1
    BY <1>2 DEF Withdraw, SetOutcome, told
  <2>2. UNCHANGED <<position, decision>>
    BY <1>2 DEF Withdraw, memberVars
  <2>. QED BY <2>1, <2>2 DEF Promise!Next, Promise!Withdraw, Promise!Say
<1>3. CASE Reconcile
  BY <1>3 DEF Reconcile, Submittable, MarkUnknown, Shown, told, Taken, memberVars
<1>4. CASE Tick \/ UNCHANGED vars
  BY <1>4, ShownAside DEF Tick, vars, outcomeVars, memberVars
<1>5. ASSUME NEW w \in Worker, Job(w) PROVE Promise!Next \/ UNCHANGED Shown
  BY <1>5, JobPromise
<1>6. ASSUME NEW e \in Report, RecordCallback(e) PROVE UNCHANGED Shown
  BY <1>6, ShownAside DEF RecordCallback, outcomeVars, memberVars
<1>7. ASSUME NEW e \in Report, Process(e) PROVE Promise!Next \/ UNCHANGED Shown
  BY <1>7, ProcessPromise
<1>8. ASSUME NEW m \in Scannable, Scan(m) \/ Manual(m) PROVE Promise!Next
  BY <1>8, ConfirmPromise
<1>9. ASSUME NEW m \in net, Decide(m) PROVE Promise!Next \/ UNCHANGED Shown
  BY <1>9, DecidePromise
<1>. QED BY <1>1, <1>2, <1>3, <1>4, <1>5, <1>6, <1>7, <1>8, <1>9 DEF Next

(* TransportTask implements Transfer: to those who asked for the transfer  *)
(* and read its outcome, every step of workers, evidence, scans and the    *)
(* WMS is one step of the promise or none.                                 *)
THEOREM TaskKeepsPromise == Spec => KeepsPromise
<1>1. Init => Promise!Init
  BY DEF Init, Promise!Init, told
<1>2. TypeOK /\ MembersInv /\ MembersInv' /\ SubmissionInv /\ HeardInv /\ [Next]_vars
          => [Promise!Next]_(Promise!vars)
  BY PromiseStep
<1>. QED BY <1>1, <1>2, Typing, Members, Submission, Hearing, PTL DEF Spec, KeepsPromise, Promise!Spec

=============================================================================
