------------------------- MODULE PickingTaskProofs -------------------------
(***************************************************************************)
(* Invariants of PickingTask for every set of tasks, lines and reports.    *)
(* Each rests on typing and on one inductive invariant of its own, about   *)
(* the rows a few actions write; the other actions leave them alone.       *)
(***************************************************************************)
EXTENDS PickingTask, TLAPS

LEMMA RequestIsPair ==
    ASSUME NEW t \in Task, NEW k \in 0..MaxConfirm
    PROVE  <<t, k>> \in Request /\ <<t, k>>[1] = t
BY DEF Request

LEMMA PrepareIsRequest == ASSUME NEW t \in Task PROVE Prepare(t) \in Request
BY BoundAssumption DEF Request, Prepare

-----------------------------------------------------------------------------
(* Typing.                                                                 *)

LEMMA KeepTyping ==
    ASSUME TypeOK, NEW l \in Letter, NEW s \in {"PENDING", "APPLIED", "RECONCILING", "IGNORED"},
           Keep(l, s)
    PROVE  /\ heard' \in [Op -> Letter \cup {None}]
           /\ plan' \in [Op -> {"none", "PENDING", "APPLIED", "RECONCILING", "IGNORED"}]
BY LetterAssumption DEF TypeOK, Keep

LEMMA BlockTyping ==
    ASSUME TypeOK, NEW t \in Task, NEW o \in Op, Block(t, o)
    PROVE  blocked' \in [Task -> Op \cup {None}]
BY DEF TypeOK, Block

LEMMA PlanDeltaTyping ==
    ASSUME TypeOK, NEW l \in Letter, PlanDelta(l)
    PROVE  TypeOK'
<1>0. l.op \in Op /\ l.task \in Task /\ l.revision \in Nat
    BY LetterAssumption
<1>f. UNCHANGED <<active, sequence, queueRev, requestVars, wmsVars>>
    BY DEF PlanDelta
<1>r. SUFFICES /\ status' \in [Task -> Status] /\ revision' \in [Task -> Nat]
               /\ last' \in [Task -> Op \cup {None}] /\ blocked' \in [Task -> Op \cup {None}]
               /\ filed' = filed /\ heard' \in [Op -> Letter \cup {None}]
               /\ plan' \in [Op -> {"none", "PENDING", "APPLIED", "RECONCILING", "IGNORED"}]
    BY <1>f DEF TypeOK, requestVars, wmsVars
<1>1. CASE Conflict(l)
    <2>1. heard[l.op] \in Letter
        BY <1>1, <1>0 DEF Conflict, Clashes, TypeOK
    <2>2. heard[l.op].task \in Task
        BY <2>1, LetterAssumption
    <2>3. blocked' \in [Task -> Op \cup {None}]
        BY <1>1, <1>0, <2>2, BlockTyping DEF Conflict, TypeOK
    <2> QED
        BY <1>1, <2>3 DEF Conflict, TypeOK, evidenceVars
<1>2. CASE Ignore(l)
    BY <1>2, KeepTyping DEF Ignore, TypeOK
<1>3. CASE Postpone(l)
    <2>1. (IF plan[l.op] = "none" THEN "PENDING" ELSE plan[l.op])
              \in {"PENDING", "APPLIED", "RECONCILING", "IGNORED"}
        BY <1>0 DEF TypeOK
    <2> QED
        BY <1>3, <2>1, KeepTyping DEF Postpone, TypeOK
<1>4. CASE Duplicate(l)
    BY <1>4, KeepTyping DEF Duplicate, TypeOK
<1>5. CASE Reject(l)
    BY <1>0, <1>5, KeepTyping, BlockTyping DEF Reject, TypeOK
<1>6. CASE Apply(l)
    <2>1. heard' \in [Op -> Letter \cup {None}]
          /\ plan' \in [Op -> {"none", "PENDING", "APPLIED", "RECONCILING", "IGNORED"}]
        BY <1>6, KeepTyping DEF Apply
    <2>2. status' \in [Task -> Status]
        BY <1>6, <1>0 DEF Apply, TypeOK, Status
    <2> QED
        BY <1>6, <1>0, <2>1, <2>2 DEF Apply, TypeOK
<1> QED
    BY <1>1, <1>2, <1>3, <1>4, <1>5, <1>6 DEF PlanDelta

LEMMA NoticeTyping ==
    ASSUME TypeOK, NEW n \in Notice, Issued(n) \/ QueueChanged(n) \/ Cancel(n)
    PROVE  TypeOK'
<1>0. n.task \in Task
    BY NoticeAssumption
<1>1. CASE Issued(n)
    <2>1. n.sequence \in Nat \ {0} /\ n.revision \in Nat
        BY <1>1, NoticeAssumption DEF Issued
    <2>2. status' \in [Task -> Status] /\ sequence' \in [Task -> Nat \ {0}]
          /\ queueRev' \in [Task -> Nat] /\ UNCHANGED <<revision, last, blocked>>
        BY <1>0, <1>1, <2>1 DEF Issued, TypeOK, Status, taskVars
    <2>3. filed' \in [Notice -> {"none", "APPLIED", "RECONCILING"}]
        BY <1>1 DEF Issued, File, TypeOK
    <2> QED
        BY <1>1, <2>2, <2>3 DEF Issued, TypeOK, requestVars, wmsVars
<1>2. CASE QueueChanged(n)
    <2>1. n.sequence \in Nat /\ n.revision \in Nat
        BY <1>2, NoticeAssumption DEF QueueChanged
    <2>2. status' \in [Task -> Status] /\ sequence' \in [Task -> Nat \ {0}]
          /\ queueRev' \in [Task -> Nat] /\ UNCHANGED <<revision, last, blocked>>
        BY <1>0, <1>2, <2>1 DEF QueueChanged, TypeOK, taskVars
    <2>3. filed' \in [Notice -> {"none", "APPLIED", "RECONCILING"}]
        BY <1>2 DEF QueueChanged, File, TypeOK
    <2> QED
        BY <1>2, <2>2, <2>3 DEF QueueChanged, TypeOK, requestVars, wmsVars
<1>3. CASE Cancel(n)
    <2>1. status' \in [Task -> Status]
        BY <1>0, <1>3 DEF Cancel, TypeOK, Status
    <2>2. filed' \in [Notice -> {"none", "APPLIED", "RECONCILING"}]
        BY <1>3 DEF Cancel, File, TypeOK
    <2> QED
        BY <1>3, <2>1, <2>2 DEF Cancel, TypeOK, requestVars, wmsVars
<1> QED
    BY <1>1, <1>2, <1>3

LEMMA RequestTyping ==
    ASSUME TypeOK, NEW c \in Request, Settle(c) \/ GiveUp(c) \/ Void(c) \/ Decide(c)
    PROVE  TypeOK'
<1>1. ASSUME NEW s \in {"settled", "stuck", "void"}, NEW r \in Verdict \cup {"none"}, Close(c, s, r)
      PROVE  TypeOK'
    BY <1>1 DEF Close, TypeOK, taskVars, evidenceVars, wmsVars
<1>2. verdict[c] \in Verdict \cup {"none"} /\ told[c] \in Verdict \cup {"none"}
    BY DEF TypeOK
<1>3. CASE Settle(c) \/ GiveUp(c) \/ Void(c)
    BY <1>1, <1>2, <1>3 DEF Settle, GiveUp, Void
<1>4. CASE Decide(c)
    <2>1. c[1] \in Task
        BY DEF Request
    <2>2. PICK v \in Verdict : verdict' = [verdict EXCEPT ![c] = v]
        BY <1>4 DEF Decide
    <2>3. verdict' \in [Request -> Verdict \cup {"none"}] /\ knew' \in [Request -> Nat]
        BY <1>4, <2>1, <2>2 DEF Decide, TypeOK
    <2> QED
        BY <1>4, <2>3 DEF Decide, TypeOK, taskVars, evidenceVars, requestVars
<1> QED
    BY <1>3, <1>4

LEMMA TaskTyping ==
    ASSUME TypeOK, NEW t \in Task,
           PrepareNext(t) \/ Archive({t}) \/ Confirm(t) \/ Finish(t) \/ Publish(t)
    PROVE  TypeOK'
<1>1. CASE PrepareNext(t)
    <2>1. standing' \in [Request -> {"absent", "owed", "settled", "stuck", "void"}]
        BY <1>1, PrepareIsRequest DEF PrepareNext, Owe, TypeOK
    <2>2. status' \in [Task -> Status]
        BY <1>1 DEF PrepareNext, TypeOK, Status
    <2> QED
        BY <1>1, <2>1, <2>2 DEF PrepareNext, TypeOK, evidenceVars, wmsVars
<1>2. CASE Archive({t})
    <2>1. status' \in [Task -> Status]
        BY <1>2 DEF Archive, TypeOK, Status
    <2> QED
        BY <1>2, <2>1 DEF Archive, TypeOK, evidenceVars, requestVars, wmsVars
<1>3. CASE Confirm(t)
    <2>1. PICK k \in 1..MaxConfirm : /\ Owe(<<t, k>>)
                                     /\ asked' = [asked EXCEPT ![<<t, k>>] = revision[t]]
        BY <1>3 DEF Confirm
    <2>2. <<t, k>> \in Request
        BY BoundAssumption DEF Request
    <2>3. standing' \in [Request -> {"absent", "owed", "settled", "stuck", "void"}]
        BY <2>1, <2>2 DEF Owe, TypeOK
    <2>4. asked' \in [Request -> Nat]
        BY <2>1, <2>2 DEF TypeOK
    <2> QED
        BY <1>3, <2>3, <2>4 DEF Confirm, TypeOK, taskVars, evidenceVars, wmsVars
<1>4. CASE Finish(t)
    <2>1. status' \in [Task -> Status]
        BY <1>4 DEF Finish, TypeOK, Status
    <2> QED
        BY <1>4, <2>1 DEF Finish, TypeOK, evidenceVars, requestVars, wmsVars
<1>5. CASE Publish(t)
    <2>1. issued' \in [Task -> Nat]
        BY <1>5 DEF Publish, TypeOK
    <2> QED
        BY <1>5, <2>1 DEF Publish, TypeOK, taskVars, evidenceVars, requestVars
<1> QED
    BY <1>1, <1>2, <1>3, <1>4, <1>5

LEMMA LineTyping ==
    ASSUME TypeOK, NEW l \in Line, Start(l) \/ Deactivate(l) \/ ArchiveLine(l)
    PROVE  TypeOK'
<1>1. CASE Start(l) \/ Deactivate(l)
    <2>1. active' \in [Line -> BOOLEAN]
        BY <1>1 DEF Start, Deactivate, TypeOK
    <2> QED
        BY <1>1, <2>1 DEF Start, Deactivate, TypeOK, taskVars, evidenceVars, requestVars, wmsVars
<1>2. CASE ArchiveLine(l)
    <2>1. status' \in [Task -> Status]
        BY <1>2 DEF ArchiveLine, Archive, TypeOK, Status
    <2> QED
        BY <1>2, <2>1 DEF ArchiveLine, Archive, TypeOK, evidenceVars, requestVars, wmsVars
<1> QED
    BY <1>1, <1>2

LEMMA InitTyping == Init => TypeOK
BY DEF Init, TypeOK, Status

LEMMA NextTyping == TypeOK /\ [Next]_vars => TypeOK'
<1> SUFFICES ASSUME TypeOK, [Next]_vars PROVE TypeOK'
    OBVIOUS
<1>1. CASE Next
    BY <1>1, NoticeTyping, PlanDeltaTyping, LineTyping, TaskTyping, RequestTyping DEF Next
<1>2. CASE UNCHANGED vars
    BY <1>2 DEF vars, TypeOK, taskVars, evidenceVars, requestVars, wmsVars
<1> QED
    BY <1>1, <1>2

(* Every variable keeps its type: in particular a queue change without a   *)
(* sequence leaves the place of its task as it is.                         *)
THEOREM Typing == Spec => []TypeOK
BY InitTyping, NextTyping, PTL DEF Spec

-----------------------------------------------------------------------------
(* Plan reports and blocks: only PlanDelta writes their rows.              *)

planVars == <<heard, plan, revision, last, blocked>>

LEMMA OnlyReportsPlan ==
    ASSUME Next, ~(\E l \in Letter : PlanDelta(l))
    PROVE  UNCHANGED planVars
<1>1. ASSUME NEW n \in Notice, Issued(n) \/ QueueChanged(n) \/ Cancel(n)
      PROVE  UNCHANGED planVars
    BY <1>1 DEF Issued, QueueChanged, Cancel, planVars, taskVars
<1>2. ASSUME NEW l \in Line, Start(l) \/ Deactivate(l) \/ ArchiveLine(l)
      PROVE  UNCHANGED planVars
    BY <1>2 DEF Start, Deactivate, ArchiveLine, Archive, planVars, taskVars, evidenceVars
<1>3. ASSUME NEW t \in Task,
             PrepareNext(t) \/ Archive({t}) \/ Confirm(t) \/ Finish(t) \/ Publish(t)
      PROVE  UNCHANGED planVars
    BY <1>3 DEF PrepareNext, Archive, Confirm, Finish, Publish, planVars, taskVars, evidenceVars
<1>4. ASSUME NEW c \in Request, Settle(c) \/ GiveUp(c) \/ Void(c) \/ Decide(c)
      PROVE  UNCHANGED planVars
    BY <1>4 DEF Settle, GiveUp, Void, Decide, Close, planVars, taskVars, evidenceVars
<1> QED
    BY <1>1, <1>2, <1>3, <1>4 DEF Next

(* The first body under an identity is kept.                               *)
LEMMA FirstBodyStays ==
    ASSUME TypeOK, NEW l \in Letter, PlanDelta(l)
    PROVE  /\ \A o \in Op : heard[o] # None => heard'[o] = heard[o]
           /\ heard'[l.op] # None
<1>0. l.op \in Op /\ l # None
    BY LetterAssumption, NoneAssumption
<1>1. CASE Conflict(l)
    BY <1>0, <1>1 DEF Conflict, Clashes, evidenceVars
<1>2. CASE ~Clashes(l) /\ heard' = [heard EXCEPT ![l.op] = l]
    BY <1>0, <1>2 DEF Clashes, TypeOK
<1> QED
    BY <1>1, <1>2
    DEF PlanDelta, Ignore, Postpone, Duplicate, Reject, Apply, Keep, Checked

LEMMA BlockedByOwn ==
    ASSUME TypeOK, BlockIsItsOwn, NEW l \in Letter, PlanDelta(l)
    PROVE  BlockIsItsOwn'
<1>0. l.op \in Op /\ l.task \in Task /\ l # None
    BY LetterAssumption, NoneAssumption
<1>b. \A t \in Task : blocked[t] # None => blocked[t] \in Op
    BY DEF TypeOK
<1>1. CASE UNCHANGED blocked
    BY <1>1, <1>b, FirstBodyStays DEF BlockIsItsOwn
<1>2. CASE Conflict(l)
    <2>1. heard[l.op] \in Letter /\ heard[l.op].task \in Task /\ heard[l.op] # None
        BY <1>0, <1>2, LetterAssumption, NoneAssumption DEF Conflict, Clashes, TypeOK
    <2>2. blocked' = [blocked EXCEPT ![heard[l.op].task] = l.op] \/ blocked' = blocked
        BY <1>2 DEF Conflict, Block
    <2> QED
        BY <1>0, <1>1, <1>b, <2>1, <2>2, FirstBodyStays DEF BlockIsItsOwn, TypeOK
<1>3. CASE Reject(l)
    <2>1. heard'[l.op] = l
        BY <1>0, <1>3 DEF Reject, Keep, TypeOK
    <2>2. blocked' = [blocked EXCEPT ![l.task] = l.op] \/ blocked' = blocked
        BY <1>3 DEF Reject, Block
    <2> QED
        BY <1>0, <1>1, <1>b, <2>1, <2>2, FirstBodyStays DEF BlockIsItsOwn, TypeOK
<1>4. CASE Apply(l)
    <2>1. blocked' = [blocked EXCEPT ![l.task] = None]
        BY <1>4 DEF Apply
    <2> QED
        BY <1>0, <1>b, <2>1, FirstBodyStays DEF BlockIsItsOwn, TypeOK
<1> QED
    BY <1>1, <1>2, <1>3, <1>4 DEF PlanDelta, Ignore, Postpone, Duplicate

(* A task is blocked by a report of its own only, whatever body comes      *)
(* under a known identity: the block can be lifted by a correction.        *)
THEOREM BlockingStaysAtHome == Spec => []BlockIsItsOwn
<1>1. Init => BlockIsItsOwn
    BY DEF Init, BlockIsItsOwn
<1>2. TypeOK /\ BlockIsItsOwn /\ [Next]_vars => BlockIsItsOwn'
    <2> SUFFICES ASSUME TypeOK, BlockIsItsOwn, [Next]_vars PROVE BlockIsItsOwn'
        OBVIOUS
    <2>1. CASE UNCHANGED planVars
        BY <2>1 DEF planVars, BlockIsItsOwn
    <2>2. CASE UNCHANGED vars
        BY <2>2 DEF vars, taskVars, evidenceVars, BlockIsItsOwn
    <2>3. CASE \E l \in Letter : PlanDelta(l)
        BY <2>3, BlockedByOwn
    <2> QED
        BY <2>1, <2>2, <2>3, OnlyReportsPlan
<1> QED
    BY <1>1, <1>2, Typing, PTL DEF Spec

(* Why plans come in order: what counts as applied was valid and not ahead *)
(* of its task, every revision has its report, the last one is remembered, *)
(* and reports of one revision say the same.                               *)
NotAhead ==
    \A o \in Op : plan[o] = "APPLIED" =>
        /\ heard[o] \in Letter /\ heard[o].form # "invalid"
        /\ heard[o].revision <= revision[heard[o].task]

IsApplied(o, t, n) == plan[o] = "APPLIED" /\ heard[o].task = t /\ heard[o].revision = n

NoGap == \A t \in Task : \A n \in 1..revision[t] : \E o \in Op : IsApplied(o, t, n)

LastIsKnown == \A t \in Task : revision[t] > 0 => /\ last[t] \in Op
                                                   /\ IsApplied(last[t], t, revision[t])

SameBody == \A t \in Task : \A n \in Nat : \A o, p \in Op :
                IsApplied(o, t, n) /\ IsApplied(p, t, n) => heard[o].body = heard[p].body

PlanInv == NotAhead /\ NoGap /\ LastIsKnown /\ SameBody

LEMMA PlanInvOrders ==
    ASSUME TypeOK, PlanInv
    PROVE  PlansInOrder
<1> SUFFICES ASSUME NEW t \in Task
             PROVE  /\ \A n \in 1..revision[t] : Applied(t, n) # {}
                    /\ \A n \in (revision[t] + 1)..issued[t] : Applied(t, n) = {}
                    /\ \A n \in 1..revision[t] :
                         \A o, p \in Applied(t, n) : heard[o].body = heard[p].body
    BY DEF PlansInOrder
<1>0. revision[t] \in Nat /\ issued[t] \in Nat
    BY DEF TypeOK
<1>1. \A n \in 1..revision[t] : Applied(t, n) # {}
    BY DEF PlanInv, NoGap, IsApplied, Applied
<1>2. \A n \in (revision[t] + 1)..issued[t] : Applied(t, n) = {}
    BY <1>0 DEF PlanInv, NotAhead, Applied
<1>3. \A n \in 1..revision[t] :
          \A o, p \in Applied(t, n) : heard[o].body = heard[p].body
    BY <1>0 DEF PlanInv, SameBody, IsApplied, Applied
<1> QED
    BY <1>1, <1>2, <1>3

(* A report that is not applied by this step.                              *)
LEMMA SetAsideKeepsPlanInv ==
    ASSUME TypeOK, PlanInv, NEW l \in Letter, PlanDelta(l),
           UNCHANGED <<revision, last>>,
           \A o \in Op : plan'[o] = "APPLIED" <=> plan[o] = "APPLIED"
    PROVE  PlanInv'
<1>1. \A o \in Op : plan[o] = "APPLIED" => heard'[o] = heard[o]
    BY FirstBodyStays, NoneAssumption DEF PlanInv, NotAhead
<1>2. \A o \in Op : \A t, n : IsApplied(o, t, n)' <=> IsApplied(o, t, n)
    BY <1>1 DEF IsApplied
<1>3. NotAhead'
    BY <1>1 DEF PlanInv, NotAhead
<1>4. NoGap' /\ LastIsKnown'
    BY <1>2 DEF PlanInv, NoGap, LastIsKnown
<1>5. SameBody'
    BY <1>1, <1>2 DEF PlanInv, SameBody, IsApplied
<1> QED
    BY <1>3, <1>4, <1>5 DEF PlanInv

LEMMA CountedAsApplied ==
    ASSUME TypeOK, PlanInv, NEW l \in Letter, PlanDelta(l), Checked(l), Keep(l, "APPLIED")
    PROVE  /\ heard'[l.op] = l /\ plan'[l.op] = "APPLIED" /\ plan[l.op] # "APPLIED"
           /\ \A o \in Op \ {l.op} : plan'[o] = plan[o] /\ heard'[o] = heard[o]
           /\ \A o \in Op : \A t, n : IsApplied(o, t, n)' <=>
                  IsApplied(o, t, n) \/ (o = l.op /\ t = l.task /\ n = l.revision)
<1>1. l.op \in Op
    BY LetterAssumption
<1>2. /\ heard'[l.op] = l /\ plan'[l.op] = "APPLIED" /\ plan[l.op] # "APPLIED"
      /\ \A o \in Op \ {l.op} : plan'[o] = plan[o] /\ heard'[o] = heard[o]
    BY <1>1 DEF Keep, Checked, TypeOK
<1> QED
    BY <1>2 DEF IsApplied

LEMMA DuplicateKeepsPlanInv ==
    ASSUME TypeOK, PlanInv, NEW l \in Letter, PlanDelta(l), Duplicate(l)
    PROVE  PlanInv'
<1> DEFINE t == l.task
<1>0. l.op \in Op /\ t \in Task /\ l.revision \in Nat \ {0} /\ l.form # "invalid"
    BY LetterAssumption DEF Duplicate, Checked
<1>1. Checked(l) /\ Keep(l, "APPLIED") /\ UNCHANGED <<revision, last>>
    BY DEF Duplicate
<1>2. l.revision = revision[t] /\ heard[last[t]].body = l.body
    BY DEF Duplicate, Repeats
<1>3. last[t] \in Op /\ IsApplied(last[t], t, l.revision)
    BY <1>0, <1>2 DEF PlanInv, LastIsKnown
<1> HIDE DEF t
<1>4. NotAhead'
    BY <1>0, <1>1, <1>2, CountedAsApplied DEF PlanInv, NotAhead, TypeOK, t
<1>5. NoGap' /\ LastIsKnown'
    BY <1>1, CountedAsApplied DEF PlanInv, NoGap, LastIsKnown
<1>6. SameBody'
    <2> SUFFICES ASSUME NEW u \in Task, NEW n \in Nat, NEW o \in Op, NEW p \in Op,
                        IsApplied(o, u, n)', IsApplied(p, u, n)'
                 PROVE  heard'[o].body = heard'[p].body
        BY DEF SameBody
    <2>1. ASSUME NEW q \in Op, IsApplied(q, u, n)', u = t, n = l.revision
          PROVE  heard'[q].body = l.body
        <3>1. CASE q = l.op
            BY <1>1, <3>1, CountedAsApplied
        <3>2. CASE q # l.op
            BY <1>0, <1>1, <1>2, <1>3, <2>1, <3>2, CountedAsApplied DEF PlanInv, SameBody
        <3> QED
            BY <3>1, <3>2
    <2>2. CASE u = t /\ n = l.revision
        BY <2>1, <2>2
    <2>3. CASE ~(u = t /\ n = l.revision)
        <3>1. IsApplied(o, u, n) /\ IsApplied(p, u, n)
            BY <1>1, <2>3, CountedAsApplied DEF t
        <3>2. o # l.op /\ p # l.op
            BY <1>1, <3>1, CountedAsApplied DEF IsApplied
        <3> QED
            BY <1>1, <3>1, <3>2, CountedAsApplied DEF PlanInv, SameBody
    <2> QED
        BY <2>2, <2>3
<1> QED
    BY <1>4, <1>5, <1>6 DEF PlanInv

LEMMA ApplyKeepsPlanInv ==
    ASSUME TypeOK, PlanInv, NEW l \in Letter, PlanDelta(l), Apply(l)
    PROVE  PlanInv'
<1> DEFINE t == l.task
<1>0. l.op \in Op /\ t \in Task /\ l.revision \in Nat \ {0} /\ l.form # "invalid"
    BY LetterAssumption DEF Apply, Checked
<1>1. Checked(l) /\ Keep(l, "APPLIED")
    BY DEF Apply
<1>2. /\ l.revision = revision[t] + 1 /\ revision[t] \in Nat
      /\ revision' = [revision EXCEPT ![t] = l.revision]
      /\ last' = [last EXCEPT ![t] = l.op]
    BY <1>0 DEF Apply, Applicable, InTurn, TypeOK
<1> HIDE DEF t
<1>3. /\ revision'[t] = l.revision /\ last'[t] = l.op
      /\ \A u \in Task \ {t} : revision'[u] = revision[u] /\ last'[u] = last[u]
    BY <1>0, <1>2 DEF TypeOK
<1>4. IsApplied(l.op, t, l.revision)'
    BY <1>1, CountedAsApplied, <1>0 DEF t
<1>5. \A o \in Op : ~IsApplied(o, t, l.revision)
    <2> SUFFICES ASSUME NEW o \in Op, IsApplied(o, t, l.revision) PROVE FALSE
        OBVIOUS
    <2>1. heard[o].revision <= revision[heard[o].task]
        BY DEF PlanInv, NotAhead, IsApplied
    <2> QED
        BY <1>2, <2>1 DEF IsApplied
<1>6. NotAhead'
    <2> SUFFICES ASSUME NEW o \in Op, plan'[o] = "APPLIED"
                 PROVE  /\ heard'[o] \in Letter /\ heard'[o].form # "invalid"
                        /\ heard'[o].revision <= revision'[heard'[o].task]
        BY DEF NotAhead
    <2>1. CASE o = l.op
        BY <1>0, <1>1, <1>3, <2>1, CountedAsApplied DEF t
    <2>2. CASE o # l.op
        <3>1. heard'[o] = heard[o] /\ heard[o] \in Letter /\ heard[o].form # "invalid"
              /\ heard[o].revision <= revision[heard[o].task]
            BY <1>1, <2>2, CountedAsApplied DEF PlanInv, NotAhead
        <3>2. heard[o].task \in Task /\ heard[o].revision \in Nat
            BY <3>1, LetterAssumption
        <3>3. revision'[heard[o].task] = revision[heard[o].task]
              \/ (heard[o].task = t /\ revision'[heard[o].task] = revision[t] + 1)
            BY <1>2, <1>3, <3>2
        <3> QED
            BY <1>2, <3>1, <3>2, <3>3
    <2> QED
        BY <2>1, <2>2
<1>7. NoGap'
    <2> SUFFICES ASSUME NEW u \in Task, NEW n \in 1..revision'[u]
                 PROVE  \E o \in Op : IsApplied(o, u, n)'
        BY DEF NoGap
    <2>1. CASE u = t /\ n = l.revision
        BY <1>0, <1>4, <2>1
    <2>2. CASE ~(u = t /\ n = l.revision)
        <3>1. n \in 1..revision[u]
            BY <1>2, <1>3, <2>2 DEF TypeOK
        <3>2. PICK o \in Op : IsApplied(o, u, n)
            BY <3>1 DEF PlanInv, NoGap
        <3> QED
            BY <1>1, <3>2, CountedAsApplied
    <2> QED
        BY <2>1, <2>2
<1>8. LastIsKnown'
    <2> SUFFICES ASSUME NEW u \in Task, revision'[u] > 0
                 PROVE  last'[u] \in Op /\ IsApplied(last[u], u, revision[u])'
        BY DEF LastIsKnown
    <2>1. CASE u = t
        BY <1>0, <1>3, <1>4, <2>1
    <2>2. CASE u # t
        <3>1. last[u] \in Op /\ IsApplied(last[u], u, revision[u])
            BY <1>3, <2>2 DEF PlanInv, LastIsKnown
        <3>2. IsApplied(last[u], u, revision[u]) => plan'[last[u]] = "APPLIED"
                  /\ heard'[last[u]] = heard[last[u]]
            BY <1>1, <3>1, CountedAsApplied DEF IsApplied
        <3> QED
            BY <1>3, <2>2, <3>1, <3>2 DEF IsApplied
    <2> QED
        BY <2>1, <2>2
<1>9. SameBody'
    <2> SUFFICES ASSUME NEW u \in Task, NEW n \in Nat, NEW o \in Op, NEW p \in Op,
                        IsApplied(o, u, n)', IsApplied(p, u, n)'
                 PROVE  heard'[o].body = heard'[p].body
        BY DEF SameBody
    <2>1. CASE u = t /\ n = l.revision
        <3>1. o = l.op /\ p = l.op
            BY <1>1, <1>5, <2>1, CountedAsApplied
        <3> QED
            BY <3>1
    <2>2. CASE ~(u = t /\ n = l.revision)
        <3>1. IsApplied(o, u, n) /\ IsApplied(p, u, n)
            BY <1>1, <2>2, CountedAsApplied DEF t
        <3>2. o # l.op /\ p # l.op
            BY <1>1, <3>1, CountedAsApplied DEF IsApplied
        <3> QED
            BY <1>1, <3>1, <3>2, CountedAsApplied DEF PlanInv, SameBody
    <2> QED
        BY <2>1, <2>2
<1> QED
    BY <1>6, <1>7, <1>8, <1>9 DEF PlanInv

LEMMA PlanDeltaKeepsPlanInv ==
    ASSUME TypeOK, PlanInv, NEW l \in Letter, PlanDelta(l)
    PROVE  PlanInv'
<1>0. l.op \in Op
    BY LetterAssumption
<1>1. CASE Conflict(l)
    BY <1>1, SetAsideKeepsPlanInv DEF Conflict, evidenceVars
<1>2. CASE Ignore(l)
    <2>1. plan[l.op] # "APPLIED"
        BY <1>0, <1>2, NoneAssumption DEF Ignore, Clashes, PlanInv, NotAhead
    <2> QED
        BY <1>0, <1>2, <2>1, SetAsideKeepsPlanInv DEF Ignore, Keep, TypeOK
<1>3. CASE Postpone(l)
    BY <1>0, <1>3, SetAsideKeepsPlanInv DEF Postpone, Checked, Keep, TypeOK
<1>4. CASE Reject(l)
    BY <1>0, <1>4, SetAsideKeepsPlanInv DEF Reject, Checked, Keep, TypeOK
<1> QED
    BY <1>1, <1>2, <1>3, <1>4, DuplicateKeepsPlanInv, ApplyKeepsPlanInv DEF PlanDelta

LEMMA PlanInvHolds == Spec => []PlanInv
<1>1. Init => PlanInv
    BY DEF Init, PlanInv, NotAhead, NoGap, LastIsKnown, SameBody, IsApplied
<1>2. TypeOK /\ PlanInv /\ [Next]_vars => PlanInv'
    <2> SUFFICES ASSUME TypeOK, PlanInv, [Next]_vars PROVE PlanInv'
        OBVIOUS
    <2>1. CASE UNCHANGED planVars
        BY <2>1 DEF planVars, PlanInv, NotAhead, NoGap, LastIsKnown, SameBody, IsApplied
    <2>2. CASE UNCHANGED vars
        BY <2>1, <2>2 DEF vars, taskVars, evidenceVars, planVars
    <2>3. CASE \E l \in Letter : PlanDelta(l)
        BY <2>3, PlanDeltaKeepsPlanInv
    <2> QED
        BY <2>1, <2>2, <2>3, OnlyReportsPlan
<1> QED
    BY <1>1, <1>2, Typing, PTL DEF Spec

(* However the reports of plans are lost, repeated, reordered or sent with *)
(* other bodies, plans are applied one by one and each once.               *)
THEOREM PlansComeInOrder == Spec => []PlansInOrder
BY Typing, PlanInvHolds, PlanInvOrders, PTL

-----------------------------------------------------------------------------
(* Lines.                                                                  *)

(* Steps that start no task and queue none: all but three operations.      *)
LEMMA NoNewcomer ==
    ASSUME LineIsExclusive,
           \A t \in Task : status'[t] \in Running => status[t] \in Running,
           \A t \in Task : status'[t] = "QUEUED" =>
               status[t] = "QUEUED" /\ sequence'[t] = sequence[t]
    PROVE  LineIsExclusive'
BY DEF LineIsExclusive

LEMMA NextExclusive ==
    ASSUME TypeOK, LineIsExclusive, [Next]_vars
    PROVE  LineIsExclusive'
<1>1. CASE UNCHANGED <<status, sequence>>
    BY <1>1, NoNewcomer
<1>2. ASSUME NEW n \in Notice, Issued(n) PROVE LineIsExclusive'
    <2>1. CASE UNCHANGED taskVars
        BY <1>1, <2>1 DEF taskVars
    <2>2. CASE ~UNCHANGED taskVars
        <3>1. n.task \in Task /\ SequenceIsFree(n)
              /\ status' = [status EXCEPT ![n.task] = "QUEUED"]
              /\ sequence' = [sequence EXCEPT ![n.task] = n.sequence]
            BY <1>2, <2>2, NoticeAssumption DEF Issued
        <3> QED
            BY <3>1 DEF SequenceIsFree, LineIsExclusive, TypeOK, Running
    <2> QED
        BY <2>1, <2>2
<1>3. ASSUME NEW n \in Notice, QueueChanged(n) PROVE LineIsExclusive'
    <2>1. CASE UNCHANGED taskVars
        BY <1>1, <2>1 DEF taskVars
    <2>2. CASE ~UNCHANGED taskVars
        <3>1. n.task \in Task /\ SequenceIsFree(n) /\ status' = status
              /\ sequence' = [sequence EXCEPT ![n.task] = IF n.sequence = 0 THEN @ ELSE n.sequence]
            BY <1>3, <2>2, NoticeAssumption DEF QueueChanged, Movable
        <3> QED
            BY <3>1 DEF SequenceIsFree, LineIsExclusive, TypeOK
    <2> QED
        BY <2>1, <2>2
<1>4. ASSUME NEW n \in Notice, Cancel(n) PROVE LineIsExclusive'
    <2>1. n.task \in Task
        BY NoticeAssumption
    <2> QED
        BY <1>4, <2>1, NoNewcomer DEF Cancel, TypeOK, Running
<1>5. ASSUME NEW l \in Letter, PlanDelta(l) PROVE LineIsExclusive'
    <2>1. CASE Apply(l)
        BY <1>5, <2>1, LetterAssumption, NoNewcomer
        DEF Apply, Applicable, InTurn, PlanDelta, TypeOK, Running
    <2>2. CASE ~Apply(l)
        BY <1>1, <1>5, <2>2 DEF PlanDelta, Conflict, Ignore, Postpone, Duplicate, Reject
    <2> QED
        BY <2>1, <2>2
<1>6. ASSUME NEW S \in SUBSET Task, Archive(S) PROVE LineIsExclusive'
    BY <1>6, NoNewcomer DEF Archive, TypeOK, Running
<1>7. ASSUME NEW t \in Task, PrepareNext(t) PROVE LineIsExclusive'
    BY <1>7 DEF PrepareNext, Busy, LineIsExclusive, TypeOK, Running
<1>8. ASSUME NEW t \in Task, Finish(t) PROVE LineIsExclusive'
    BY <1>8, NoNewcomer DEF Finish, TypeOK, Running
<1>9. ASSUME NEW l \in Line, Start(l) \/ Deactivate(l) PROVE LineIsExclusive'
    BY <1>1, <1>9 DEF Start, Deactivate, taskVars
<1>10. ASSUME NEW t \in Task, Confirm(t) \/ Publish(t) PROVE LineIsExclusive'
    BY <1>1, <1>10 DEF Confirm, Publish, taskVars
<1>11. ASSUME NEW c \in Request, Settle(c) \/ GiveUp(c) \/ Void(c) \/ Decide(c)
       PROVE LineIsExclusive'
    BY <1>1, <1>11 DEF Settle, GiveUp, Void, Decide, Close, taskVars
<1>12. CASE UNCHANGED vars
    BY <1>1, <1>12 DEF vars, taskVars
<1>13. ASSUME NEW l \in Line, ArchiveLine(l) PROVE LineIsExclusive'
    <2>1. {t \in Task : Home[t] = l /\ Archivable(t)} \in SUBSET Task
        OBVIOUS
    <2> QED
        BY <1>6, <1>13, <2>1 DEF ArchiveLine
<1>14. ASSUME NEW t \in Task, Archive({t}) PROVE LineIsExclusive'
    BY <1>6, <1>14
<1> QED
    BY <1>2, <1>3, <1>4, <1>5, <1>7, <1>8, <1>9, <1>10, <1>11, <1>12, <1>13, <1>14 DEF Next

(* A line never has two running tasks and a place in the queue never two   *)
(* waiting ones, in whatever order reports, scans and archivings come: the *)
(* checks made before the writes suffice without the unique indexes.       *)
THEOREM LinesAreExclusive == Spec => []LineIsExclusive
<1>1. Init => LineIsExclusive
    BY DEF Init, LineIsExclusive, Running
<1> QED
    BY <1>1, NextExclusive, Typing, PTL DEF Spec

-----------------------------------------------------------------------------
(* Requests.                                                               *)

(* What WES was told is what the WMS decided, of requests it has made.     *)
RequestInv ==
    \A c \in Request :
        /\ standing[c] = "absent" => verdict[c] = "none"
        /\ told[c] # "none" => standing[c] = "settled" /\ told[c] = verdict[c]

LEMMA RequestsElsewhere ==
    ASSUME Next,
           ~(\E t \in Task : PrepareNext(t) \/ Confirm(t)),
           ~(\E c \in Request : Settle(c) \/ GiveUp(c) \/ Void(c) \/ Decide(c))
    PROVE  UNCHANGED <<asked, standing, told, verdict>>
<1>1. ASSUME NEW n \in Notice, Issued(n) \/ QueueChanged(n) \/ Cancel(n)
      PROVE  UNCHANGED <<asked, standing, told, verdict>>
    BY <1>1 DEF Issued, QueueChanged, Cancel, requestVars, wmsVars
<1>2. ASSUME NEW l \in Line, Start(l) \/ Deactivate(l) \/ ArchiveLine(l)
      PROVE  UNCHANGED <<asked, standing, told, verdict>>
    BY <1>2 DEF Start, Deactivate, ArchiveLine, Archive, requestVars, wmsVars
<1>3. ASSUME NEW l \in Letter, PlanDelta(l)
      PROVE  UNCHANGED <<asked, standing, told, verdict>>
    BY <1>3 DEF PlanDelta, requestVars, wmsVars
<1>4. ASSUME NEW t \in Task, Archive({t}) \/ Finish(t) \/ Publish(t)
      PROVE  UNCHANGED <<asked, standing, told, verdict>>
    BY <1>4 DEF Archive, Finish, Publish, requestVars, wmsVars
<1> QED
    BY <1>1, <1>2, <1>3, <1>4 DEF Next

(* How a step may touch a request.                                         *)
Touch(c) ==
    \/ UNCHANGED <<standing[c], told[c], verdict[c]>>
    \/ standing[c] = "absent" /\ standing'[c] = "owed" /\ UNCHANGED <<told[c], verdict[c]>>
    \/ /\ standing[c] = "owed" /\ standing'[c] = "settled" /\ Owner(c) = "open"
       /\ verdict[c] # "none" /\ told'[c] = verdict[c] /\ UNCHANGED verdict[c]
    \/ /\ standing[c] = "owed" /\ standing'[c] = "stuck" /\ Owner(c) # "cancelled"
       /\ UNCHANGED <<told[c], verdict[c]>>
    \/ /\ standing[c] \in {"owed", "stuck"} /\ standing'[c] = "void" /\ Owner(c) = "cancelled"
       /\ UNCHANGED <<told[c], verdict[c]>>
    \/ /\ standing[c] # "absent" /\ verdict[c] = "none" /\ verdict'[c] \in Verdict
       /\ UNCHANGED <<standing[c], told[c]>>

LEMMA StepsTouch ==
    ASSUME TypeOK, [Next]_vars
    PROVE  \A c \in Request : Touch(c)
<1>1. ASSUME NEW d \in Request, Owe(d), UNCHANGED <<told, verdict>>
      PROVE  \A c \in Request : Touch(c)
    BY <1>1 DEF Owe, Touch, TypeOK
<1>2. ASSUME NEW t \in Task, PrepareNext(t)
      PROVE  \A c \in Request : Touch(c)
    BY <1>1, <1>2, PrepareIsRequest DEF PrepareNext, wmsVars
<1>3. ASSUME NEW t \in Task, Confirm(t)
      PROVE  \A c \in Request : Touch(c)
    <2>1. PICK k \in 1..MaxConfirm : Owe(<<t, k>>)
        BY <1>3 DEF Confirm
    <2>2. <<t, k>> \in Request
        BY BoundAssumption DEF Request
    <2> QED
        BY <1>1, <1>3, <2>1, <2>2 DEF Confirm, wmsVars
<1>4. ASSUME NEW d \in Request, Settle(d) \/ GiveUp(d) \/ Void(d)
      PROVE  \A c \in Request : Touch(c)
    BY <1>4 DEF Settle, GiveUp, Void, Close, Touch, TypeOK, wmsVars
<1>5. ASSUME NEW d \in Request, Decide(d)
      PROVE  \A c \in Request : Touch(c)
    <2>1. PICK v \in Verdict : verdict' = [verdict EXCEPT ![d] = v]
        BY <1>5 DEF Decide
    <2>2. standing[d] # "absent" /\ verdict[d] = "none" /\ UNCHANGED <<standing, told>>
        BY <1>5 DEF Decide, requestVars
    <2> QED
        BY <2>1, <2>2 DEF Touch, TypeOK
<1>6. CASE UNCHANGED <<asked, standing, told, verdict>>
    BY <1>6 DEF Touch
<1>7. CASE UNCHANGED vars
    BY <1>6, <1>7 DEF vars, requestVars, wmsVars
<1> QED
    BY <1>2, <1>3, <1>4, <1>5, <1>6, <1>7, RequestsElsewhere

LEMMA RequestInvHolds == Spec => []RequestInv
<1>1. Init => RequestInv
    BY DEF Init, RequestInv
<1>2. TypeOK /\ RequestInv /\ [Next]_vars => RequestInv'
    <2> SUFFICES ASSUME TypeOK, RequestInv, [Next]_vars, NEW c \in Request
                 PROVE  /\ standing'[c] = "absent" => verdict'[c] = "none"
                        /\ told'[c] # "none" => /\ standing'[c] = "settled"
                                                /\ told'[c] = verdict'[c]
        BY DEF RequestInv
    <2>1. Touch(c)
        BY StepsTouch
    <2>2. /\ standing[c] = "absent" => verdict[c] = "none"
          /\ told[c] # "none" => standing[c] = "settled" /\ told[c] = verdict[c]
        BY DEF RequestInv
    <2> QED
        BY <2>1, <2>2 DEF Touch
<1> QED
    BY <1>1, <1>2, Typing, PTL DEF Spec

(* Steps that leave revisions alone and set no task executing or completed.*)
LEMMA AgreementStays ==
    ASSUME TypeOK, ExecutionWasAgreed, RequestInv, [Next]_vars, UNCHANGED revision,
           \A t \in Task : status'[t] \in {"EXECUTING", "EXECUTION_COMPLETED"} =>
               status[t] \in {"EXECUTING", "EXECUTION_COMPLETED"}
    PROVE  ExecutionWasAgreed'
<1>1. \A t \in Task : Touch(Prepare(t))
    BY StepsTouch, PrepareIsRequest
<1>2. \A t \in Task : told[Prepare(t)] = "ACCEPTED" =>
          /\ standing[Prepare(t)] = "settled" /\ verdict[Prepare(t)] = "ACCEPTED"
          /\ told'[Prepare(t)] = "ACCEPTED" /\ verdict'[Prepare(t)] = "ACCEPTED"
    BY <1>1, PrepareIsRequest DEF RequestInv, Touch
<1> QED
    BY <1>2 DEF ExecutionWasAgreed, Prepare

LEMMA NextAgreed ==
    ASSUME TypeOK, ExecutionWasAgreed, RequestInv, [Next]_vars
    PROVE  ExecutionWasAgreed'
<1>1. CASE UNCHANGED <<status, revision>>
    BY <1>1, AgreementStays
<1>2. ASSUME NEW n \in Notice, Issued(n) \/ QueueChanged(n) \/ Cancel(n)
      PROVE  ExecutionWasAgreed'
    BY <1>2, NoticeAssumption, AgreementStays
    DEF Issued, QueueChanged, Cancel, TypeOK, taskVars
<1>3. ASSUME NEW l \in Letter, PlanDelta(l) PROVE ExecutionWasAgreed'
    <2>1. CASE Apply(l)
        <3>1. /\ l.task \in Task /\ Agreed(l.task)
              /\ status' = [status EXCEPT ![l.task] = IF l.revision = 1 THEN "EXECUTING" ELSE @]
              /\ revision' = [revision EXCEPT ![l.task] = l.revision]
            BY <2>1, LetterAssumption DEF Apply, Applicable
        <3>2. told[Prepare(l.task)] = "ACCEPTED" /\ verdict[Prepare(l.task)] = "ACCEPTED"
            BY <3>1, PrepareIsRequest DEF Agreed, RequestInv
        <3>3. UNCHANGED <<told, verdict>>
            BY <1>3 DEF PlanDelta, requestVars, wmsVars
        <3> QED
            BY <3>1, <3>2, <3>3 DEF ExecutionWasAgreed, TypeOK, Prepare
    <2>2. CASE ~Apply(l)
        BY <1>1, <1>3, <2>2 DEF PlanDelta, Conflict, Ignore, Postpone, Duplicate, Reject
    <2> QED
        BY <2>1, <2>2
<1>4. ASSUME NEW S \in SUBSET Task, Archive(S) PROVE ExecutionWasAgreed'
    BY <1>4, AgreementStays DEF Archive, TypeOK
<1>5. ASSUME NEW t \in Task, PrepareNext(t) PROVE ExecutionWasAgreed'
    BY <1>5, AgreementStays DEF PrepareNext, TypeOK
<1>6. ASSUME NEW t \in Task, Finish(t) PROVE ExecutionWasAgreed'
    <2>1. told[Prepare(t)] = "ACCEPTED" /\ verdict[Prepare(t)] = "ACCEPTED"
        <3>1. CASE revision[t] = 0
            BY <1>6, <3>1, PrepareIsRequest DEF Finish, Completable, Agreed, RequestInv
        <3>2. CASE revision[t] # 0
            BY <3>2 DEF ExecutionWasAgreed, TypeOK
        <3> QED
            BY <3>1, <3>2
    <2>2. status' = [status EXCEPT ![t] = "EXECUTION_COMPLETED"]
          /\ UNCHANGED <<revision, told, verdict>>
        BY <1>6 DEF Finish, requestVars, wmsVars
    <2> QED
        BY <2>1, <2>2 DEF ExecutionWasAgreed, TypeOK, Prepare
<1>7. ASSUME NEW l \in Line, Start(l) \/ Deactivate(l) PROVE ExecutionWasAgreed'
    BY <1>1, <1>7 DEF Start, Deactivate, taskVars
<1>8. ASSUME NEW t \in Task, Confirm(t) \/ Publish(t) PROVE ExecutionWasAgreed'
    BY <1>1, <1>8 DEF Confirm, Publish, taskVars
<1>9. ASSUME NEW c \in Request, Settle(c) \/ GiveUp(c) \/ Void(c) \/ Decide(c)
      PROVE  ExecutionWasAgreed'
    BY <1>1, <1>9 DEF Settle, GiveUp, Void, Decide, Close, taskVars
<1>10. CASE UNCHANGED vars
    BY <1>1, <1>10 DEF vars, taskVars
<1>11. ASSUME NEW l \in Line, ArchiveLine(l) PROVE ExecutionWasAgreed'
    <2>1. {t \in Task : Home[t] = l /\ Archivable(t)} \in SUBSET Task
        OBVIOUS
    <2> QED
        BY <1>4, <1>11, <2>1 DEF ArchiveLine
<1>12. ASSUME NEW t \in Task, Archive({t}) PROVE ExecutionWasAgreed'
    BY <1>4, <1>12
<1> QED
    BY <1>2, <1>3, <1>5, <1>6, <1>7, <1>8, <1>9, <1>10, <1>11, <1>12 DEF Next

(* No plan takes effect and no task executes or completes before the WMS   *)
(* accepted the task and WES took that answer in.                          *)
THEOREM ExecutionIsAgreed == Spec => []ExecutionWasAgreed
<1>1. Init => ExecutionWasAgreed
    BY DEF Init, ExecutionWasAgreed
<1> QED
    BY <1>1, NextAgreed, Typing, RequestInvHolds, PTL DEF Spec

-----------------------------------------------------------------------------
(* Completion.                                                             *)

(* A task the WMS called completed was asked about with all its plans.     *)
VerdictIsCurrent ==
    \A t \in Task : \A k \in 1..MaxConfirm :
        verdict[<<t, k>>] = "COMPLETED" => asked[<<t, k>>] = issued[t]

CompletionInv == VerdictIsCurrent /\ CompletionMissesNothing

LEMMA CompletionStays ==
    ASSUME TypeOK, CompletionInv, UNCHANGED <<verdict, issued>>,
           \A t \in Task : status'[t] = "EXECUTION_COMPLETED" =>
               status[t] = "EXECUTION_COMPLETED" /\ revision'[t] = revision[t],
           \A c \in Request : verdict[c] = "COMPLETED" => asked'[c] = asked[c]
    PROVE  CompletionInv'
<1>1. \A t \in Task, k \in 1..MaxConfirm : <<t, k>> \in Request
    BY BoundAssumption DEF Request
<1> QED
    BY <1>1 DEF CompletionInv, VerdictIsCurrent, CompletionMissesNothing, Done

LEMMA NextCompletion ==
    ASSUME TypeOK, CompletionInv, RequestInv, [Next]_vars
    PROVE  CompletionInv'
<1>0. \A t \in Task, k \in 1..MaxConfirm : <<t, k>> \in Request
    BY BoundAssumption DEF Request
<1>1. CASE UNCHANGED <<status, revision, verdict, issued, asked>>
    BY <1>1, CompletionStays
<1>2. ASSUME NEW n \in Notice, Issued(n) \/ QueueChanged(n) \/ Cancel(n)
      PROVE  CompletionInv'
    BY <1>2, NoticeAssumption, CompletionStays
    DEF Issued, QueueChanged, Cancel, TypeOK, taskVars, requestVars, wmsVars
<1>3. ASSUME NEW l \in Letter, PlanDelta(l) PROVE CompletionInv'
    <2>1. UNCHANGED <<verdict, issued, asked>>
        BY <1>3 DEF PlanDelta, requestVars, wmsVars
    <2>2. CASE Apply(l)
        BY <2>1, <2>2, LetterAssumption, CompletionStays
        DEF Apply, Applicable, InTurn, TypeOK, Running
    <2>3. CASE ~Apply(l)
        BY <1>1, <1>3, <2>1, <2>3 DEF PlanDelta, Conflict, Ignore, Postpone, Duplicate, Reject
    <2> QED
        BY <2>2, <2>3
<1>4. ASSUME NEW S \in SUBSET Task, Archive(S) PROVE CompletionInv'
    BY <1>4, CompletionStays DEF Archive, TypeOK, requestVars, wmsVars
<1>5. ASSUME NEW t \in Task, PrepareNext(t) PROVE CompletionInv'
    BY <1>5, CompletionStays DEF PrepareNext, TypeOK, wmsVars
<1>6. ASSUME NEW t \in Task, Finish(t) PROVE CompletionInv'
    <2>1. PICK k \in 1..MaxConfirm : /\ told[<<t, k>>] = "COMPLETED"
                                     /\ asked[<<t, k>>] = revision[t]
        BY <1>6 DEF Finish
    <2>2. verdict[<<t, k>>] = "COMPLETED" /\ revision[t] = issued[t]
        BY <1>0, <2>1 DEF RequestInv, CompletionInv, VerdictIsCurrent
    <2>3. status' = [status EXCEPT ![t] = "EXECUTION_COMPLETED"]
          /\ UNCHANGED <<revision, verdict, issued, asked>>
        BY <1>6 DEF Finish, requestVars, wmsVars
    <2>4. VerdictIsCurrent'
        BY <2>3 DEF CompletionInv, VerdictIsCurrent
    <2>5. Done(t) /\ \A u \in Task : Done(u)' <=> Done(u)
        BY <2>2, <2>3 DEF Done
    <2>6. CompletionMissesNothing'
        BY <2>2, <2>3, <2>5 DEF CompletionInv, CompletionMissesNothing, TypeOK
    <2> QED
        BY <2>4, <2>6 DEF CompletionInv
<1>7. ASSUME NEW l \in Line, Start(l) \/ Deactivate(l) PROVE CompletionInv'
    BY <1>1, <1>7 DEF Start, Deactivate, taskVars, requestVars, wmsVars
<1>8. ASSUME NEW t \in Task, Confirm(t) PROVE CompletionInv'
    <2>1. PICK k \in 1..MaxConfirm : /\ Owe(<<t, k>>)
                                     /\ asked' = [asked EXCEPT ![<<t, k>>] = revision[t]]
        BY <1>8 DEF Confirm
    <2>2. verdict[<<t, k>>] = "none"
        BY <1>0, <2>1 DEF Owe, RequestInv
    <2>3. \A c \in Request : verdict[c] = "COMPLETED" => asked'[c] = asked[c]
        BY <2>1, <2>2 DEF TypeOK
    <2> QED
        BY <1>8, <2>3, CompletionStays DEF Confirm, taskVars, wmsVars
<1>9. ASSUME NEW t \in Task, Publish(t) PROVE CompletionInv'
    <2>1. ~Done(t) /\ issued' = [issued EXCEPT ![t] = @ + 1]
          /\ UNCHANGED <<status, revision, verdict, asked>>
        BY <1>9 DEF Publish, taskVars, requestVars
    <2>2. \A u \in Task : u # t => issued'[u] = issued[u]
        BY <2>1 DEF TypeOK
    <2>3. \A u \in Task : Done(u)' <=> Done(u)
        BY <2>1 DEF Done
    <2>4. VerdictIsCurrent'
        <3> SUFFICES ASSUME NEW u \in Task, NEW k \in 1..MaxConfirm,
                            verdict[<<u, k>>] = "COMPLETED"
                     PROVE  asked[<<u, k>>] = issued'[u]
            BY <2>1 DEF VerdictIsCurrent
        <3>1. u # t
            BY <2>1 DEF Done
        <3> QED
            BY <2>2, <3>1 DEF CompletionInv, VerdictIsCurrent
    <2>5. CompletionMissesNothing'
        BY <2>1, <2>2, <2>3 DEF CompletionInv, CompletionMissesNothing
    <2> QED
        BY <2>4, <2>5 DEF CompletionInv
<1>10. ASSUME NEW c \in Request, Decide(c) PROVE CompletionInv'
    <2>1. PICK v \in Verdict : /\ v \in {"COMPLETED", "BUSY"} => asked[c] = issued[c[1]]
                               /\ verdict' = [verdict EXCEPT ![c] = v]
        BY <1>10 DEF Decide
    <2>2. verdict[c] = "none" /\ UNCHANGED <<status, revision, issued, asked>>
        BY <1>10 DEF Decide, taskVars, requestVars
    <2>3. VerdictIsCurrent'
        <3> SUFFICES ASSUME NEW t \in Task, NEW k \in 1..MaxConfirm,
                            verdict'[<<t, k>>] = "COMPLETED"
                     PROVE  asked[<<t, k>>] = issued[t]
            BY <2>2 DEF VerdictIsCurrent
        <3>1. CASE <<t, k>> = c
            BY <2>1, <3>1 DEF TypeOK
        <3>2. CASE <<t, k>> # c
            BY <1>0, <2>1, <3>2 DEF CompletionInv, VerdictIsCurrent, TypeOK
        <3> QED
            BY <3>1, <3>2
    <2>4. \A t \in Task : Done(t) => Done(t)'
        BY <1>0, <2>1, <2>2 DEF Done, TypeOK
    <2>5. CompletionMissesNothing'
        BY <2>2, <2>4 DEF CompletionInv, CompletionMissesNothing
    <2> QED
        BY <2>3, <2>5 DEF CompletionInv
<1>11. ASSUME NEW c \in Request, Settle(c) \/ GiveUp(c) \/ Void(c) PROVE CompletionInv'
    BY <1>1, <1>11 DEF Settle, GiveUp, Void, Close, taskVars, wmsVars
<1>12. CASE UNCHANGED vars
    BY <1>1, <1>12 DEF vars, taskVars, requestVars, wmsVars
<1>13. ASSUME NEW l \in Line, ArchiveLine(l) PROVE CompletionInv'
    <2>1. {t \in Task : Home[t] = l /\ Archivable(t)} \in SUBSET Task
        OBVIOUS
    <2> QED
        BY <1>4, <1>13, <2>1 DEF ArchiveLine
<1>14. ASSUME NEW t \in Task, Archive({t}) PROVE CompletionInv'
    BY <1>4, <1>14
<1> QED
    BY <1>2, <1>3, <1>5, <1>6, <1>7, <1>8, <1>9, <1>10, <1>11, <1>12, <1>13, <1>14 DEF Next

(* A task WES completes had every plan the WMS has published or will, with *)
(* a WMS that decides about the revision it is asked about.                *)
THEOREM CompletionIsComplete == Spec => []CompletionMissesNothing
<1>1. Init => CompletionInv
    BY DEF Init, CompletionInv, VerdictIsCurrent, CompletionMissesNothing, Request
<1>2. CompletionInv => CompletionMissesNothing
    BY DEF CompletionInv
<1> QED
    BY <1>1, <1>2, NextCompletion, Typing, RequestInvHolds, PTL DEF Spec

-----------------------------------------------------------------------------
(* The promise of the requests.                                            *)

LEMMA OwnerIsOwner == TypeOK => \A c \in Request : Owner(c) \in Requests!Owner
BY DEF Owner, Requests!Owner

LEMMA CancelledIsFinal ==
    ASSUME TypeOK, [Next]_vars, NEW t \in Task, status[t] = "CANCELLED"
    PROVE  status'[t] = "CANCELLED"
<1>1. ASSUME NEW n \in Notice, Issued(n) \/ QueueChanged(n) \/ Cancel(n)
      PROVE  status'[t] = "CANCELLED"
    BY <1>1, NoticeAssumption DEF Issued, QueueChanged, Cancel, TypeOK, taskVars
<1>2. ASSUME NEW l \in Letter, PlanDelta(l) PROVE status'[t] = "CANCELLED"
    BY <1>2, LetterAssumption
    DEF PlanDelta, Conflict, Ignore, Postpone, Duplicate, Reject, Apply, Applicable, InTurn,
        Running, TypeOK
<1>3. ASSUME NEW S, Archive(S) PROVE status'[t] = "CANCELLED"
    BY <1>3 DEF Archive, Archivable, Running
<1>4. ASSUME NEW l \in Line, Start(l) \/ Deactivate(l) \/ ArchiveLine(l)
      PROVE  status'[t] = "CANCELLED"
    BY <1>3, <1>4 DEF Start, Deactivate, ArchiveLine, taskVars
<1>5. ASSUME NEW u \in Task,
             PrepareNext(u) \/ Archive({u}) \/ Confirm(u) \/ Finish(u) \/ Publish(u)
      PROVE  status'[t] = "CANCELLED"
    BY <1>3, <1>5
    DEF PrepareNext, Confirm, Finish, Publish, Completable, Running, TypeOK, taskVars
<1>6. ASSUME NEW c \in Request, Settle(c) \/ GiveUp(c) \/ Void(c) \/ Decide(c)
      PROVE  status'[t] = "CANCELLED"
    BY <1>6 DEF Settle, GiveUp, Void, Decide, Close, taskVars
<1>7. CASE UNCHANGED vars
    BY <1>7 DEF vars, taskVars
<1> QED
    BY <1>1, <1>2, <1>4, <1>5, <1>6, <1>7 DEF Next

LEMMA OwnersMove ==
    ASSUME TypeOK, [Next]_vars, NEW c \in Request, Owner(c) = "cancelled"
    PROVE  Owner(c)' = "cancelled"
<1>1. c[1] \in Task /\ status[c[1]] = "CANCELLED" /\ c = Prepare(c[1])
    BY DEF Owner, Request
<1>2. status'[c[1]] = "CANCELLED"
    BY <1>1, CancelledIsFinal
<1> QED
    BY <1>1, <1>2 DEF Owner, Prepare

LEMMA StepKeepsPromise ==
    ASSUME TypeOK, TypeOK', [Next]_vars
    PROVE  Requests!Next
<1>1. /\ owner' \in [Request -> Requests!Owner]
      /\ standing' \in [Request -> Requests!Standing]
      /\ verdict' \in [Request -> Verdict \cup {"none"}]
      /\ told' \in [Request -> Verdict \cup {"none"}]
    <2>1. \A c \in Request : Owner(c)' \in Requests!Owner
        BY DEF Owner, Requests!Owner
    <2> QED
        BY <2>1 DEF owner, TypeOK, Requests!Standing
<1>2. ASSUME NEW c \in Request
      PROVE  /\ Requests!OwnerMoves(c) /\ Requests!Decided(c)
             /\ \/ Requests!Same(c) \/ Requests!Owe(c) \/ Requests!Settle(c)
                \/ Requests!GiveUp(c) \/ Requests!Void(c)
    <2>1. Requests!OwnerMoves(c)
        BY OwnersMove DEF owner, Requests!OwnerMoves
    <2>2. Touch(c)
        BY StepsTouch
    <2>3. owner[c] = Owner(c)
        BY DEF owner
    <2>4. Requests!Decided(c)
        BY <2>2 DEF Touch, Requests!Decided
    <2>5. \/ Requests!Same(c) \/ Requests!Owe(c) \/ Requests!Settle(c)
          \/ Requests!GiveUp(c) \/ Requests!Void(c)
        BY <2>2, <2>3 DEF Touch, Requests!Same, Requests!Owe, Requests!Settle, Requests!GiveUp,
            Requests!Void, Requests!Moves
    <2> QED
        BY <2>1, <2>4, <2>5
<1> QED
    BY <1>1, <1>2 DEF Requests!Next

(* Picking tasks implement Obligation: the promise WmsConfirmation keeps   *)
(* to its owners is all they rely on and all they need to provide.         *)
THEOREM TasksKeepRequests == Spec => RequestsAreKept
<1>1. Init => Requests!Init
    <2> SUFFICES ASSUME Init PROVE Requests!Init
        OBVIOUS
    <2>1. \A c \in Request : c[1] \in Task
        BY DEF Request
    <2>2. \A c \in Request : Owner(c) = "closed"
        BY <2>1 DEF Init, Owner
    <2> QED
        BY <2>2 DEF Init, owner, Requests!Init
<1>2. TypeOK /\ TypeOK' /\ [Next]_vars => [Requests!Next]_Requests!vars
    BY StepKeepsPromise
<1> QED
    BY <1>1, <1>2, Typing, PTL DEF Spec, RequestsAreKept, Requests!Spec
=============================================================================
