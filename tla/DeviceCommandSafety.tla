------------------------ MODULE DeviceCommandSafety ------------------------
(* At most one action: the proof that SafetyInv is inductive, and what it  *)
(* implies.  Then the records: what rows, evidence and observations tell   *)
(* agrees, and DeviceCommand implements PhysicalAction.                    *)
EXTENDS DeviceCommandProofs, FiniteSetTheorems

-----------------------------------------------------------------------------
(* Frames.                                                                 *)

(* Whether a command may act depends on the requests and the device only.  *)
LEMMA MayActFrame ==
    ASSUME UNCHANGED <<net, accepted>>, NEW c \in Command
    PROVE  MayAct(c)' <=> MayAct(c)
  BY DEF MayAct, InFlight

LEMMA NotAcceptedFrame ==
    ASSUME NEW c \in Command, observation'[c] = observation[c]
    PROVE  NotAccepted(c)' <=> NotAccepted(c)
  BY DEF NotAccepted

(* A worker that returns is idle; the others do not notice.                *)
LEMMA ReturnFrame ==
    ASSUME WorkerType, NEW w \in Worker, Return(w)
    PROVE  /\ pc'[w] = "idle" /\ job'[w].cmd = NoCommand
           /\ \A v \in Worker : v # w =>
                pc'[v] = pc[v] /\ job'[v] = job[v] /\ answer'[v] = answer[v]
  BY DEF WorkerType, Return, NoJob

LEMMA AnsweredFrame ==
    ASSUME WorkerType, NEW w \in Worker, NEW type \in Answer, Answered(w, type)
    PROVE  /\ pc'[w] = "answered" /\ answer'[w].type = type /\ job' = job
           /\ \A v \in Worker : v # w => pc'[v] = pc[v] /\ answer'[v] = answer[v]
  BY DEF WorkerType, Answered

-----------------------------------------------------------------------------
(* A worker that is not waiting writes its command's row back and returns. *)
LEMMA Writeback ==
    ASSUME TypeOK, SafetyInv, NEW w \in Worker, pc[w] \notin {"idle", "waiting"}, Return(w),
           UNCHANGED <<net, accepted>>,
           NEW c \in Command, c = job[w].cmd,
           \A d \in Command \ {c} : /\ status'[d] = status[d]
                                    /\ reason'[d] = reason[d]
                                    /\ observation'[d] = observation[d],
           status'[c] # "NONE",
           status'[c] = "PENDING" \/ NotAccepted(c)' => ~MayAct(c),
           reason'[c] # "RESULT_BEFORE_DISPATCH",
           status'[c] \in Unclosed => observation'[c] = {}
    PROVE  SafetyInv'
<1> USE DEF SafetyInv
<1>1. WorkerType /\ WorkerType'
  BY ReturnType DEF TypeOK
<1>2. OneDispatcher'
  BY <1>1, ReturnFrame DEF OneDispatcher, WorkerType
<1>3. \A v \in Worker : v # w /\ pc[v] # "idle" =>
         job[v].cmd \in Command \ {c}
  BY <1>1 DEF OneDispatcher, WorkerType
<1>4. WorkersHaveClaimed'
  <2>1. ASSUME NEW v \in Worker, pc'[v] # "idle"
        PROVE  LET d == job[v].cmd IN
               /\ job'[v] = job[v]
               /\ status'[d] \notin {"NONE", "PENDING"}
               /\ ~NotAccepted(d)'
               /\ reason'[d] # "RESULT_BEFORE_DISPATCH"
    <3>1. v # w /\ pc[v] # "idle" /\ job'[v] = job[v]
      BY <1>1, <2>1, ReturnFrame
    <3>2. job[v].cmd \in Command \ {c}
      BY <1>3, <3>1
    <3> QED
      BY <3>1, <3>2, NotAcceptedFrame DEF WorkersHaveClaimed
  <2> QED
    BY <2>1 DEF WorkersHaveClaimed, NotAccepted
<1>5. HarmlessAtWorker'
  <2>1. ASSUME NEW v \in Worker,
               \/ pc'[v] \in {"claimed", "ready"}
               \/ pc'[v] = "answered" /\ answer'[v].type \in {"BUSY", "REJECTED"}
        PROVE  job'[v] = job[v] /\ ~MayAct(job[v].cmd)'
    <3>1. v # w /\ pc[v] # "idle" /\ pc'[v] = pc[v] /\ job'[v] = job[v] /\ answer'[v] = answer[v]
      BY <1>1, <2>1, ReturnFrame
    <3>2. ~MayAct(job[v].cmd) /\ job[v].cmd \in Command
      BY <1>3, <2>1, <3>1 DEF HarmlessAtWorker
    <3> QED
      BY <3>1, <3>2, MayActFrame
  <2> QED
    BY <2>1 DEF HarmlessAtWorker, MayAct, InFlight
<1>6. HarmlessInRow'
  <2> SUFFICES ASSUME NEW d \in Command,
                      \/ status'[d] \in {"NONE", "PENDING"}
                      \/ NotAccepted(d)'
                      \/ reason'[d] = "RESULT_BEFORE_DISPATCH"
               PROVE  ~MayAct(d)'
    BY DEF HarmlessInRow
  <2>1. CASE d = c
    BY <2>1, MayActFrame
  <2>2. CASE d # c
    BY <2>2, MayActFrame, NotAcceptedFrame DEF HarmlessInRow
  <2> QED
    BY <2>1, <2>2
<1>7. RequestsAreSingle'
  BY DEF RequestsAreSingle
<1>8. RepliesAreAwaited'
  <2> SUFFICES ASSUME NEW m \in net, m.type # "COMMAND"
               PROVE  /\ Waiting(m)'
                      /\ m.type \in {"BUSY", "REJECTED"} => ~MayAct(m.cmd)'
    BY DEF RepliesAreAwaited
  <2>1. Waiting(m)'
    BY <1>1, ReturnFrame DEF RepliesAreAwaited, Waiting
  <2>2. m.cmd \in Command
    BY DEF TypeOK, NetType, Message
  <2> QED
    BY <2>1, <2>2, MayActFrame DEF RepliesAreAwaited
<1>9. RowsAgree'
  <2> SUFFICES ASSUME NEW d \in Command
               PROVE  /\ status'[d] \in Unclosed \cup {"NONE"} => observation'[d] = {}
                      /\ reason'[d] = "RESULT_BEFORE_DISPATCH" => status'[d] = "RECONCILING"
    BY DEF RowsAgree
  <2> QED
    BY DEF RowsAgree
<1>10. AtMostOneAction'
  BY DEF AtMostOneAction
<1> QED
  BY <1>2, <1>4, <1>5, <1>6, <1>7, <1>8, <1>9, <1>10

-----------------------------------------------------------------------------
(* A worker goes on, or gives up, without touching a row or sending.       *)
LEMMA WorkerStep ==
    ASSUME TypeOK, SafetyInv, NEW w \in Worker, pc[w] # "idle",
           UNCHANGED <<rowVars, observation, accepted>>,
           net' \subseteq net,
           \A v \in Worker : v # w =>
               pc'[v] = pc[v] /\ job'[v] = job[v] /\ answer'[v] = answer[v],
           \/ pc'[w] = "idle" /\ job'[w].cmd = NoCommand
           \/ pc'[w] # "idle" /\ job'[w] = job[w],
           \/ pc'[w] \in {"claimed", "ready"}
           \/ pc'[w] = "answered" /\ answer'[w].type \in {"BUSY", "REJECTED"}
           => ~MayAct(job[w].cmd),
           pc[w] = "waiting" =>
               \A m \in net' : m.type = "COMMAND" \/ m.cmd # job[w].cmd \/ m.token # job[w].token
    PROVE  SafetyInv'
<1> USE DEF SafetyInv
<1>1. WorkerType /\ \A v \in Worker : pc[v] # "idle" => job[v].cmd \in Command
  BY DEF TypeOK, WorkerType
<1>2. OneDispatcher'
  BY <1>1 DEF OneDispatcher, WorkerType
<1>3. WorkersHaveClaimed'
  BY DEF WorkersHaveClaimed, NotAccepted, rowVars
<1>4. \A c \in Command : MayAct(c)' => MayAct(c)
  BY DEF MayAct, InFlight
<1>5. HarmlessAtWorker'
  <2>1. ASSUME NEW v \in Worker,
               \/ pc'[v] \in {"claimed", "ready"}
               \/ pc'[v] = "answered" /\ answer'[v].type \in {"BUSY", "REJECTED"}
        PROVE  job'[v] = job[v] /\ job[v].cmd \in Command /\ ~MayAct(job[v].cmd)
    BY <1>1, <2>1 DEF HarmlessAtWorker
  <2> QED
    BY <1>4, <2>1 DEF HarmlessAtWorker, MayAct, InFlight
<1>6. HarmlessInRow'
  BY <1>4 DEF HarmlessInRow, NotAccepted, rowVars
<1>7. RequestsAreSingle'
  BY DEF RequestsAreSingle
<1>8. RepliesAreAwaited'
  <2> SUFFICES ASSUME NEW m \in net', m.type # "COMMAND"
               PROVE  /\ Waiting(m)'
                      /\ m.type \in {"BUSY", "REJECTED"} => ~MayAct(m.cmd)'
    BY DEF RepliesAreAwaited
  <2>1. m \in net /\ m.cmd \in Command
    BY DEF TypeOK, NetType, Message
  <2>2. PICK v \in Worker : pc[v] = "waiting" /\ job[v].cmd = m.cmd /\ job[v].token = m.token
    BY <2>1 DEF RepliesAreAwaited, Waiting
  <2>3. v # w
    BY <2>2
  <2> QED
    BY <1>4, <2>1, <2>2, <2>3 DEF RepliesAreAwaited, Waiting
<1>9. RowsAgree'
  BY DEF RowsAgree, rowVars
<1>10. AtMostOneAction'
  BY DEF AtMostOneAction
<1> QED
  BY <1>2, <1>3, <1>5, <1>6, <1>7, <1>8, <1>9, <1>10

(* The database changes one row, by a transaction of no worker's.          *)
LEMMA RowStep ==
    ASSUME TypeOK, SafetyInv, NEW c \in Command,
           UNCHANGED <<workerVars, net, accepted>>,
           \A d \in Command \ {c} : /\ status'[d] = status[d]
                                    /\ reason'[d] = reason[d]
                                    /\ observation'[d] = observation[d],
           \/ status'[c] \in {"NONE", "PENDING"}
           \/ NotAccepted(c)'
           \/ reason'[c] = "RESULT_BEFORE_DISPATCH"
           => /\ ~MayAct(c)
              /\ \A w \in Worker : pc[w] # "idle" => job[w].cmd # c,
           status'[c] \in Unclosed \cup {"NONE"} => observation'[c] = {},
           reason'[c] = "RESULT_BEFORE_DISPATCH" => status'[c] = "RECONCILING"
    PROVE  SafetyInv'
<1> USE DEF SafetyInv, workerVars
<1>1. \A w \in Worker : pc[w] # "idle" => job[w].cmd \in Command
  BY DEF TypeOK, WorkerType
<1>2. WorkersHaveClaimed'
  <2>1. ASSUME NEW w \in Worker, NEW d \in Command, pc[w] # "idle", job[w].cmd = d
        PROVE  /\ status'[d] \notin {"NONE", "PENDING"}
               /\ ~NotAccepted(d)'
               /\ reason'[d] # "RESULT_BEFORE_DISPATCH"
    <3>1. CASE d = c
      BY <2>1, <3>1
    <3>2. CASE d # c
      BY <2>1, <3>2, NotAcceptedFrame DEF WorkersHaveClaimed
    <3> QED
      BY <3>1, <3>2
  <2> QED
    BY <1>1, <2>1 DEF WorkersHaveClaimed
<1>3. HarmlessInRow'
  <2> SUFFICES ASSUME NEW d \in Command,
                      \/ status'[d] \in {"NONE", "PENDING"}
                      \/ NotAccepted(d)'
                      \/ reason'[d] = "RESULT_BEFORE_DISPATCH"
               PROVE  ~MayAct(d)'
    BY DEF HarmlessInRow
  <2>1. CASE d = c
    BY <2>1, MayActFrame
  <2>2. CASE d # c
    BY <2>2, MayActFrame, NotAcceptedFrame DEF HarmlessInRow
  <2> QED
    BY <2>1, <2>2
<1>4. RowsAgree'
  BY DEF RowsAgree
<1>5. OneDispatcher' /\ HarmlessAtWorker' /\ RequestsAreSingle' /\ AtMostOneAction'
  BY DEF OneDispatcher, HarmlessAtWorker, RequestsAreSingle, AtMostOneAction, MayAct, InFlight
<1>6. RepliesAreAwaited'
  BY DEF RepliesAreAwaited, Waiting, MayAct, InFlight
<1> QED
  BY <1>2, <1>3, <1>4, <1>5, <1>6

-----------------------------------------------------------------------------
(* The steps that make a command dangerous, and the ECS.                   *)

LEMMA ClaimStep ==
    ASSUME TypeOK, SafetyInv, NEW w \in Worker, NEW c \in Command, Claim(w, c)
    PROVE  SafetyInv'
<1> USE DEF SafetyInv
<1>1. /\ pc[w] = "idle" /\ status[c] = "PENDING"
      /\ pc'[w] = "claimed" /\ job'[w].cmd = c /\ answer' = answer
      /\ \A v \in Worker : v # w => pc'[v] = pc[v] /\ job'[v] = job[v]
      /\ UNCHANGED <<net, accepted, reason, observation>>
  BY DEF Claim, TypeOK, WorkerType
<1>2. /\ status'[c] = "DISPATCHING"
      /\ \A d \in Command : d # c => status'[d] = status[d]
  BY DEF Claim, TypeOK, RowType
<1>3. ~MayAct(c) /\ ~NotAccepted(c) /\ reason[c] # "RESULT_BEFORE_DISPATCH"
  BY <1>1 DEF HarmlessInRow, RowsAgree, NotAccepted, Unclosed
<1>4. \A v \in Worker : pc[v] # "idle" => job[v].cmd \in Command /\ job[v].cmd # c
  BY <1>1 DEF WorkersHaveClaimed, TypeOK, WorkerType
<1>5. OneDispatcher'
  <2>1. ASSUME NEW v \in Worker, v # w PROVE job'[v].cmd # c
    <3>1. job'[v] = job[v] /\ NoCommand # c
      BY <1>1, <2>1, NoCommandAssumption
    <3>2. pc[v] = "idle" => job[v].cmd = NoCommand
      BY DEF TypeOK, WorkerType
    <3> QED
      BY <1>4, <3>1, <3>2
  <2> QED
    BY <1>1, <2>1 DEF OneDispatcher
<1>6. WorkersHaveClaimed'
  BY <1>1, <1>2, <1>3, <1>4 DEF WorkersHaveClaimed, NotAccepted
<1>7. HarmlessAtWorker'
  BY <1>1, <1>3 DEF HarmlessAtWorker, MayAct, InFlight
<1>8. HarmlessInRow'
  BY <1>1, <1>2, <1>3 DEF HarmlessInRow, MayAct, InFlight, NotAccepted
<1>9. RowsAgree'
  BY <1>1, <1>2, <1>3 DEF RowsAgree, Unclosed
<1>10. RequestsAreSingle' /\ AtMostOneAction'
  BY <1>1 DEF RequestsAreSingle, AtMostOneAction
<1>11. RepliesAreAwaited'
  <2>1. \A m \in net : m.type # "COMMAND" => Waiting(m)'
    BY <1>1 DEF RepliesAreAwaited, Waiting
  <2> QED
    BY <1>1, <2>1 DEF RepliesAreAwaited, MayAct, InFlight
<1> QED
  BY <1>5, <1>6, <1>7, <1>8, <1>9, <1>10, <1>11

LEMMA SendStep ==
    ASSUME TypeOK, SafetyInv, NEW w \in Worker, Send(w)
    PROVE  SafetyInv'
<1> USE DEF SafetyInv
<1> DEFINE c == job[w].cmd
           request == [type |-> "COMMAND", cmd |-> c, token |-> job[w].token]
<1>1. /\ pc[w] = "ready" /\ pc'[w] = "waiting" /\ net' = net \cup {request}
      /\ \A v \in Worker : v # w => pc'[v] = pc[v]
      /\ UNCHANGED <<rowVars, observation, accepted, job, answer>>
  BY DEF Send, TypeOK, WorkerType
<1>2. c \in Command /\ \A v \in Worker : v # w => job[v].cmd # c
  BY <1>1 DEF OneDispatcher, TypeOK, WorkerType
<1>3. ~MayAct(c) /\ status[c] \notin {"NONE", "PENDING"} /\ ~NotAccepted(c)
      /\ reason[c] # "RESULT_BEFORE_DISPATCH"
  BY <1>1 DEF HarmlessAtWorker, WorkersHaveClaimed
<1>4. accepted[c] = 0 /\ \A m \in net : m.type = "COMMAND" => m.cmd # c
  BY <1>2, <1>3 DEF MayAct, InFlight, TypeOK
<1>5. \A d \in Command : d # c => (MayAct(d)' <=> MayAct(d))
  BY <1>1 DEF MayAct, InFlight
<1>6. OneDispatcher' /\ RowsAgree' /\ AtMostOneAction'
  BY <1>1 DEF OneDispatcher, RowsAgree, AtMostOneAction, rowVars
<1>7. WorkersHaveClaimed'
  BY <1>1 DEF WorkersHaveClaimed, NotAccepted, rowVars
<1>8. HarmlessAtWorker'
  <2>1. ASSUME NEW v \in Worker,
               \/ pc'[v] \in {"claimed", "ready"}
               \/ pc'[v] = "answered" /\ answer'[v].type \in {"BUSY", "REJECTED"}
        PROVE  \A d \in Command : d = job[v].cmd => ~MayAct(d)'
    BY <1>1, <1>2, <1>5, <2>1 DEF HarmlessAtWorker
  <2>2. \A v \in Worker : pc'[v] # "idle" => job'[v].cmd \in Command
    BY <1>1, <1>2 DEF TypeOK, WorkerType
  <2> QED
    BY <1>1, <2>1, <2>2 DEF HarmlessAtWorker, MayAct, InFlight
<1>9. HarmlessInRow'
  BY <1>1, <1>3, <1>5 DEF HarmlessInRow, NotAccepted, rowVars
<1>10. RequestsAreSingle'
  BY <1>1, <1>4 DEF RequestsAreSingle
<1>11. RepliesAreAwaited'
  <2> SUFFICES ASSUME NEW m \in net, m.type # "COMMAND"
               PROVE  /\ Waiting(m)'
                      /\ m.type \in {"BUSY", "REJECTED"} => ~MayAct(m.cmd)'
    BY <1>1 DEF RepliesAreAwaited
  <2>1. PICK v \in Worker : pc[v] = "waiting" /\ job[v].cmd = m.cmd /\ job[v].token = m.token
    BY DEF RepliesAreAwaited, Waiting
  <2>2. v # w /\ m.cmd \in Command /\ m.cmd # c
    BY <1>1, <1>2, <2>1 DEF TypeOK, NetType, Message
  <2> QED
    BY <1>1, <1>5, <2>1, <2>2 DEF RepliesAreAwaited, Waiting
<1> QED
  BY <1>6, <1>7, <1>8, <1>9, <1>10, <1>11

(* What the ECS does to the requests: it takes one, and may answer it.     *)
LEMMA ReplyFrame ==
    ASSUME TypeOK, NEW m \in net, m.type = "COMMAND",
           NEW type \in {"ACK", "BUSY", "REJECTED"}, Reply(m, type)
    PROVE  /\ m \notin net'
           /\ \A n \in net' : \/ n \in net /\ n # m
                             \/ /\ n.type = type /\ n.cmd = m.cmd /\ n.token = m.token
                                /\ Waiting(m)
<1>1. m \in Message
  BY DEF TypeOK, NetType
<1> DEFINE r == [m EXCEPT !.type = type]
<1>2. r.type = type /\ r.cmd = m.cmd /\ r.token = m.token
  BY <1>1 DEF Message
<1>3. r # m
  BY <1>2
<1> QED
  BY <1>2, <1>3 DEF Reply

LEMMA EcsStep ==
    ASSUME TypeOK, SafetyInv, NEW m \in net, Ecs(m)
    PROVE  SafetyInv'
<1> USE DEF SafetyInv, rowVars, workerVars
<1> DEFINE c == m.cmd
<1>1. PICK type \in {"ACK", "BUSY", "REJECTED"} :
         /\ Reply(m, type)
         /\ type = "ACK" => accepted' = [accepted EXCEPT ![c] = accepted[c] + 1]
         /\ type # "ACK" => accepted' = accepted
  BY DEF Ecs, EcsAccept, EcsRefuse
<1>2. m.type = "COMMAND" /\ UNCHANGED <<rowVars, workerVars, observation>>
  BY DEF Ecs, EcsAccept, EcsRefuse
<1>3. c \in Command /\ accepted[c] = 0 /\ MayAct(c)
  BY <1>2 DEF TypeOK, NetType, Message, RequestsAreSingle, MayAct, InFlight
<1>4. /\ accepted'[c] = IF type = "ACK" THEN 1 ELSE 0
      /\ \A d \in Command : d # c => accepted'[d] = accepted[d]
  BY <1>1, <1>3 DEF TypeOK
<1>5. /\ m \notin net'
      /\ \A n \in net' : \/ n \in net /\ n # m
                         \/ n.type = type /\ n.cmd = c /\ n.token = m.token /\ Waiting(m)
  BY <1>1, <1>2, ReplyFrame
<1>6. \A n \in net' : n.type = "COMMAND" => n \in net /\ n.cmd # c
  BY <1>1, <1>2, <1>5 DEF RequestsAreSingle
<1>7. \A d \in Command : MayAct(d)' => MayAct(d)
  BY <1>3, <1>4, <1>6 DEF MayAct, InFlight
<1>8. OneDispatcher' /\ RowsAgree'
  BY <1>2 DEF OneDispatcher, RowsAgree
<1>9. WorkersHaveClaimed'
  BY <1>2 DEF WorkersHaveClaimed, NotAccepted
<1>10. HarmlessAtWorker'
  <2>1. \A v \in Worker : pc[v] # "idle" => job[v].cmd \in Command
    BY DEF TypeOK, WorkerType
  <2> QED
    BY <1>2, <1>7, <2>1 DEF HarmlessAtWorker
<1>11. HarmlessInRow'
  BY <1>2, <1>7 DEF HarmlessInRow, NotAccepted
<1>12. RequestsAreSingle'
  <2>1. \A n \in net' : n.type = "COMMAND" => n \in net /\ n.cmd \in Command /\ n.cmd # c
    BY <1>6 DEF TypeOK, NetType, Message
  <2> QED
    BY <1>4, <2>1 DEF RequestsAreSingle
<1>13. RepliesAreAwaited'
  <2> SUFFICES ASSUME NEW n \in net', n.type # "COMMAND"
               PROVE  /\ Waiting(n)'
                      /\ n.type \in {"BUSY", "REJECTED"} => ~MayAct(n.cmd)'
    BY DEF RepliesAreAwaited
  <2>1. CASE n \in net
    <3>1. n.cmd \in Command
      BY <2>1 DEF TypeOK, NetType, Message
    <3> QED
      BY <1>2, <1>7, <2>1, <3>1 DEF RepliesAreAwaited, Waiting
  <2>2. CASE n \notin net
    <3>1. n.type = type /\ n.cmd = c /\ n.token = m.token /\ Waiting(m)
      BY <1>5, <2>2
    <3>2. type # "ACK" => ~MayAct(c)'
      BY <1>4, <1>6 DEF MayAct, InFlight
    <3> QED
      BY <1>2, <3>1, <3>2 DEF Waiting
  <2> QED
    BY <2>1, <2>2
<1>14. AtMostOneAction'
  BY <1>4 DEF AtMostOneAction
<1> QED
  BY <1>8, <1>9, <1>10, <1>11, <1>12, <1>13, <1>14

-----------------------------------------------------------------------------
(* dispatch_one, the rest: each transaction is a Writeback or a WorkerStep. *)

LEMMA LeaveFrame ==
    ASSUME RowType, NEW c \in Command, NEW target \in Status, NEW why \in Reason,
           Leave(c, target, why)
    PROVE  /\ status'[c] = target /\ reason'[c] = why
           /\ \A d \in Command \ {c} : status'[d] = status[d] /\ reason'[d] = reason[d]
  BY DEF RowType, Leave

LEMMA ObserveFrame ==
    ASSUME ObservationType, NEW c \in Command, NEW kind, NEW why, Observe(c, kind, why)
    PROVE  \A d \in Command \ {c} : observation'[d] = observation[d]
  BY DEF ObservationType, Observe

(* A refusal or a deadline, written by a worker whose command is harmless. *)
LEMMA ClosingWriteback ==
    ASSUME TypeOK, SafetyInv, NEW w \in Worker, pc[w] \notin {"idle", "waiting"}, Return(w),
           UNCHANGED <<net, accepted>>,
           NEW c \in Command, c = job[w].cmd, ~MayAct(c),
           NEW target \in {"FAILED", "TIMED_OUT", "RECONCILING"}, NEW why \in Reason,
           why # "RESULT_BEFORE_DISPATCH",
           Leave(c, target, why), NEW kind, NEW note, Observe(c, kind, note)
    PROVE  SafetyInv'
<1>1. target \in Status \ (Unclosed \cup {"NONE"})
  BY DEF Status, Unclosed, Terminal
<1>2. /\ status'[c] = target /\ reason'[c] = why
      /\ \A d \in Command \ {c} : status'[d] = status[d] /\ reason'[d] = reason[d]
  BY <1>1, LeaveFrame DEF TypeOK
<1>3. \A d \in Command \ {c} : observation'[d] = observation[d]
  BY ObserveFrame DEF TypeOK
<1> QED
  BY <1>1, <1>2, <1>3, Writeback

(* The command goes back to the queue.                                     *)
LEMMA ReleasingWriteback ==
    ASSUME TypeOK, SafetyInv, NEW w \in Worker, pc[w] \notin {"idle", "waiting"}, Return(w),
           UNCHANGED <<net, accepted, observation>>,
           NEW c \in Command, c = job[w].cmd, ~MayAct(c), Holds(w),
           NEW at \in Nat, Release(c, at)
    PROVE  SafetyInv'
<1>1. /\ status'[c] = "PENDING" /\ reason' = reason
      /\ \A d \in Command \ {c} : status'[d] = status[d]
  BY DEF Release, TypeOK, RowType
<1>2. observation[c] = {} /\ reason[c] # "RESULT_BEFORE_DISPATCH"
  BY DEF SafetyInv, RowsAgree, WorkersHaveClaimed, Holds, Unclosed
<1> QED
  BY <1>1, <1>2, Writeback

(* Nothing is known of the delivery: only a doubt is written.              *)
LEMMA DoubtingWriteback ==
    ASSUME TypeOK, SafetyInv, NEW w \in Worker, pc[w] \notin {"idle", "waiting"}, Return(w),
           UNCHANGED <<net, accepted>>,
           NEW c \in Command, c = job[w].cmd, Holds(w),
           NEW why \in Reason, why # "RESULT_BEFORE_DISPATCH", Doubt(c, why)
    PROVE  SafetyInv'
<1>1. "RECONCILING" \in Status
  BY DEF Status
<1>2. /\ status'[c] = "RECONCILING" /\ reason'[c] = why
      /\ \A d \in Command \ {c} : status'[d] = status[d] /\ reason'[d] = reason[d]
  BY <1>1, LeaveFrame DEF TypeOK, Doubt
<1>3. \A d \in Command \ {c} : observation'[d] = observation[d]
  BY ObserveFrame DEF TypeOK, Doubt
<1>4. ~NotAccepted(c)'
  <2>1. ~NotAccepted(c)
    BY DEF SafetyInv, WorkersHaveClaimed
  <2>2. observation'[c] = observation[c] \cup {[kind |-> "RESULT_UNKNOWN", reason |-> why]}
    BY DEF Doubt, Observe, TypeOK, ObservationType
  <2> QED
    BY <2>1, <2>2 DEF NotAccepted
<1> QED
  BY <1>2, <1>3, <1>4, Writeback DEF Unclosed

LEMMA DispatchStep ==
    ASSUME TypeOK, SafetyInv, NEW w \in Worker, Dispatch(w)
    PROVE  SafetyInv'
<1> DEFINE c == job[w].cmd
<1>1. ASSUME pc[w] # "idle"
      PROVE  /\ c \in Command /\ job[w].startedAt \in Nat
             /\ reason[c] \in Reason /\ reason[c] # "RESULT_BEFORE_DISPATCH"
  BY <1>1, BusyWorker, ReasonOf DEF TypeOK, SafetyInv, WorkersHaveClaimed
<1>2. ASSUME pc[w] \in {"claimed", "ready"} PROVE ~MayAct(c)
  BY <1>2 DEF SafetyInv, HarmlessAtWorker
<1>3. ASSUME pc[w] = "answered", answer[w].type \in {"BUSY", "REJECTED"} PROVE ~MayAct(c)
  BY <1>3 DEF SafetyInv, HarmlessAtWorker
<1>4. CASE EndpointInvalid(w)
  <2>1. CASE terms[c].eventDebug
    BY <1>1, <1>2, <1>4, <2>1, ClosingWriteback DEF EndpointInvalid, RefuseCommand
  <2>2. CASE ~terms[c].eventDebug
    <3>1. "ENDPOINT_INVALID" \in Reason
      BY DEF Reason
    <3> QED
      BY <1>1, <1>2, <1>4, <2>2, <3>1, ClosingWriteback DEF EndpointInvalid
  <2> QED
    BY <2>1, <2>2
<1>5. CASE EndpointUnavailable(w)
  <2>1. CASE terms[c].eventDebug
    BY <1>1, <1>2, <1>5, <2>1, ClosingWriteback DEF EndpointUnavailable, RefuseCommand
  <2>2. CASE ~terms[c].eventDebug
    <3>1. job[w].startedAt + RetryDelay \in Nat
      BY <1>1, <1>5, TimeAssumption DEF EndpointUnavailable
    <3> QED
      BY <1>1, <1>2, <1>5, <2>2, <3>1, ReleasingWriteback DEF EndpointUnavailable
  <2> QED
    BY <2>1, <2>2
<1>6. CASE Authorize(w)
  <2>1. CASE terms[c].deadline <= now
    BY <1>1, <1>2, <1>6, <2>1, ClosingWriteback DEF Authorize, TimeOut
  <2>2. CASE ~(terms[c].deadline <= now)
    <3>1. /\ pc[w] = "claimed" /\ pc'[w] = "ready" /\ UNCHANGED <<job, answer, net>>
          /\ \A v \in Worker : v # w => pc'[v] = pc[v]
      BY <1>6, <2>2 DEF Authorize, TypeOK, WorkerType
    <3> QED
      BY <1>1, <1>2, <1>6, <2>2, <3>1, WorkerStep DEF Authorize
  <2> QED
    BY <2>1, <2>2
<1>7. CASE TooLateToSend(w)
  BY <1>1, <1>2, <1>7, ClosingWriteback DEF TooLateToSend, TimeOut
<1>8. CASE NotSent(w)
  <2>1. WorkerType /\ "BUSY" \in Answer
    BY DEF TypeOK, Answer
  <2> QED
    BY <1>1, <1>2, <1>8, <2>1, AnsweredFrame, WorkerStep DEF NotSent
<1>9. ASSUME NEW m \in net, Receive(w, m) PROVE SafetyInv'
  <2>1. m.type \in Answer
    BY <1>9 DEF Receive, TypeOK, NetType, Message, Answer
  <2>2. m.type \in {"BUSY", "REJECTED"} => ~MayAct(c)
    BY <1>9 DEF Receive, SafetyInv, RepliesAreAwaited
  <2> QED
    BY <1>9, <2>1, <2>2, AnsweredFrame, WorkerStep DEF Receive, HangUp, TypeOK
<1>10. CASE NoTrustedAnswer(w)
  <2>1. WorkerType /\ "UNKNOWN" \in Answer
    BY DEF TypeOK, Answer
  <2> QED
    BY <1>10, <2>1, AnsweredFrame, WorkerStep DEF NoTrustedAnswer, HangUp
<1>11. CASE WriteAck(w)
  <2>1. CASE answer[w].at >= terms[c].deadline
    <3>1. "ACK_AFTER_DEADLINE" \in Reason
      BY DEF Reason
    <3> QED
      BY <1>1, <1>11, <2>1, <3>1, DoubtingWriteback DEF WriteAck
  <2>2. CASE ~(answer[w].at >= terms[c].deadline)
    <3>1. "ACKNOWLEDGED" \in Status
      BY DEF Status, Unclosed
    <3>2. /\ status'[c] = "ACKNOWLEDGED" /\ reason'[c] = reason[c]
          /\ \A d \in Command \ {c} : status'[d] = status[d] /\ reason'[d] = reason[d]
      BY <1>1, <1>11, <2>2, <3>1, LeaveFrame DEF WriteAck, TypeOK
    <3>3. observation[c] = {} /\ UNCHANGED observation
      BY <1>1, <1>11, <2>2 DEF WriteAck, Holds, SafetyInv, RowsAgree, Unclosed
    <3> QED
      BY <1>1, <1>11, <3>2, <3>3, Writeback DEF WriteAck, NotAccepted
  <2> QED
    BY <2>1, <2>2
<1>12. CASE WriteRejected(w)
  BY <1>1, <1>3, <1>12, ClosingWriteback DEF WriteRejected, RefuseCommand
<1>13. CASE WriteUnknown(w)
  <2>1. "DELIVERY_UNKNOWN" \in Reason
    BY DEF Reason
  <2> QED
    BY <1>1, <1>13, <2>1, DoubtingWriteback DEF WriteUnknown
<1>14. ASSUME NEW d \in RetryAfter \cup {RetryDelay}, WriteBusy(w, d) PROVE SafetyInv'
  <2>1. CASE terms[c].eventDebug
    BY <1>1, <1>3, <1>14, <2>1, ClosingWriteback DEF WriteBusy, RefuseCommand
  <2>2. CASE ~terms[c].eventDebug
    <3>1. c \in Command /\ now \in Nat /\ d \in Nat
      BY <1>1, <1>14, TimeAssumption DEF TypeOK, WriteBusy
    <3>2. SmallerOf(now + d, terms[c].deadline) \in Nat
      BY <3>1 DEF SmallerOf, TypeOK, RowType
    <3> QED
      BY <1>1, <1>3, <1>14, <2>2, <3>2, ReleasingWriteback DEF WriteBusy
  <2> QED
    BY <2>1, <2>2
<1>15. CASE FenceMiss(w)
  <2>1. pc[w] # "idle" /\ pc[w] # "waiting" /\ WorkerType
    BY <1>15 DEF FenceMiss, TypeOK
  <2> QED
    BY <1>15, <2>1, ReturnFrame, WorkerStep DEF FenceMiss
<1>16. CASE Crash(w)
  <2>1. WorkerType
    BY DEF TypeOK
  <2> QED
    BY <1>16, <2>1, ReturnFrame, WorkerStep DEF Crash, HangUp
<1> QED
  BY <1>4, <1>5, <1>6, <1>7, <1>8, <1>9, <1>10, <1>11, <1>12, <1>13, <1>14, <1>15, <1>16,
     ClaimStep, SendStep DEF Dispatch

-----------------------------------------------------------------------------
(* The database's own steps.                                               *)

LEMMA CreateStep ==
    ASSUME TypeOK, SafetyInv, NEW c \in Command, NEW e \in BOOLEAN, NEW t \in Timeout,
           Create(c, e, t)
    PROVE  SafetyInv'
<1>1. /\ status[c] = "NONE" /\ UNCHANGED <<observation, workerVars, net, accepted>>
      /\ \A d \in Command \ {c} : status'[d] = status[d] /\ reason'[d] = reason[d]
      /\ \/ status'[c] = "RECONCILING"
         \/ status'[c] = "PENDING" /\ reason'[c] = "none"
  BY DEF Create, TypeOK, RowType
<1>2. ~MayAct(c) /\ observation[c] = {}
  BY <1>1 DEF SafetyInv, HarmlessInRow, RowsAgree
<1>3. \A w \in Worker : pc[w] # "idle" => job[w].cmd # c
  BY <1>1 DEF SafetyInv, WorkersHaveClaimed
<1> QED
  BY <1>1, <1>2, <1>3, RowStep

LEMMA ReconcileStep ==
    ASSUME TypeOK, SafetyInv, NEW c \in Command, Reconcile(c)
    PROVE  SafetyInv'
<1>1. CASE ReconcilePending(c)
  <2>1. "TIMED_OUT" \in Status /\ reason[c] \in Reason
    BY ReasonOf DEF Status, Terminal, TypeOK
  <2>2. /\ status'[c] = "TIMED_OUT" /\ reason'[c] = reason[c]
        /\ \A d \in Command \ {c} : status'[d] = status[d] /\ reason'[d] = reason[d]
        /\ \A d \in Command \ {c} : observation'[d] = observation[d]
    BY <1>1, <2>1, LeaveFrame, ObserveFrame DEF ReconcilePending, TimeOut, TypeOK
  <2>3. ~MayAct(c) /\ reason[c] # "RESULT_BEFORE_DISPATCH"
        /\ \A w \in Worker : pc[w] # "idle" => job[w].cmd # c
    BY <1>1 DEF ReconcilePending, SafetyInv, HarmlessInRow, RowsAgree, WorkersHaveClaimed
  <2> QED
    BY <1>1, <2>2, <2>3, RowStep DEF ReconcilePending, Unclosed
<1>2. ASSUME status[c] \in {"DISPATCHING", "ACKNOWLEDGED"}, status'[c] = "RECONCILING",
             NEW why \in Reason \ {"RESULT_BEFORE_DISPATCH"}, reason'[c] = why,
             \A d \in Command \ {c} : status'[d] = status[d] /\ reason'[d] = reason[d],
             Observe(c, "RESULT_UNKNOWN", why), UNCHANGED <<workerVars, net, accepted>>
      PROVE  SafetyInv'
  <2>1. \A d \in Command \ {c} : observation'[d] = observation[d]
    BY <1>2, ObserveFrame DEF TypeOK
  <2>2. ~NotAccepted(c)'
    <3>1. observation[c] = {}
      BY <1>2 DEF SafetyInv, RowsAgree, Unclosed
    <3>2. observation'[c] = observation[c] \cup {[kind |-> "RESULT_UNKNOWN", reason |-> why]}
      BY <1>2 DEF Observe, TypeOK, ObservationType
    <3> QED
      BY <3>1, <3>2 DEF NotAccepted
  <2> QED
    BY <1>2, <2>1, <2>2, RowStep DEF Unclosed
<1>3. CASE ReconcileDispatching(c)
  <2>1. "DISPATCH_LEASE_EXPIRED" \in Reason \ {"RESULT_BEFORE_DISPATCH"}
    BY DEF Reason
  <2>2. /\ status'[c] = "RECONCILING" /\ reason'[c] = "DISPATCH_LEASE_EXPIRED"
        /\ \A d \in Command \ {c} : status'[d] = status[d] /\ reason'[d] = reason[d]
    BY <1>3 DEF ReconcileDispatching, TypeOK, RowType
  <2> QED
    BY <1>2, <1>3, <2>1, <2>2 DEF ReconcileDispatching
<1>4. CASE ReconcileAcknowledged(c)
  <2>1. "ACK_DEADLINE_EXPIRED" \in Reason \ {"RESULT_BEFORE_DISPATCH"} /\ "RECONCILING" \in Status
    BY DEF Reason, Status
  <2>2. /\ status'[c] = "RECONCILING" /\ reason'[c] = "ACK_DEADLINE_EXPIRED"
        /\ \A d \in Command \ {c} : status'[d] = status[d] /\ reason'[d] = reason[d]
    BY <1>4, <2>1, LeaveFrame DEF ReconcileAcknowledged, Doubt, TypeOK
  <2> QED
    BY <1>2, <1>4, <2>1, <2>2 DEF ReconcileAcknowledged, Doubt
<1> QED
  BY <1>1, <1>3, <1>4 DEF Reconcile

LEMMA CallbackStep ==
    ASSUME TypeOK, SafetyInv, NEW c \in Command, Callback(c)
    PROVE  SafetyInv'
<1>1. ASSUME NEW r \in Report, AcceptResult(c, r) PROVE SafetyInv'
  <2>1. /\ UNCHANGED <<observation, workerVars, net, accepted>>
        /\ \A d \in Command \ {c} : status'[d] = status[d] /\ reason'[d] = reason[d]
        /\ status'[c] = IF Parks(c) THEN "RECONCILING" ELSE status[c]
        /\ reason'[c] = IF Parks(c) THEN "RESULT_BEFORE_DISPATCH" ELSE reason[c]
    BY <1>1 DEF AcceptResult, TypeOK, RowType
  <2>2. \/ status[c] \in {"NONE", "PENDING"}
        \/ NotAccepted(c)
        \/ reason[c] = "RESULT_BEFORE_DISPATCH"
        => /\ ~MayAct(c)
           /\ \A w \in Worker : pc[w] # "idle" => job[w].cmd # c
    BY DEF SafetyInv, HarmlessInRow, WorkersHaveClaimed
  <2>3. NotAccepted(c)' <=> NotAccepted(c)
    BY <2>1 DEF NotAccepted
  <2> QED
    BY <2>1, <2>2, <2>3, RowStep DEF Parks, SafetyInv, RowsAgree, Unclosed
<1>2. ASSUME NEW r \in Report, ProcessEvidence(c, r) PROVE SafetyInv'
  <2>1. UNCHANGED <<observation, workerVars, net, accepted>>
    BY <1>2 DEF ProcessEvidence
  <2>2. NotAccepted(c)' <=> NotAccepted(c)
    BY <2>1 DEF NotAccepted
  <2>3. \/ status[c] \in {"NONE", "PENDING"}
        \/ NotAccepted(c)
        \/ reason[c] = "RESULT_BEFORE_DISPATCH"
        => /\ ~MayAct(c)
           /\ \A w \in Worker : pc[w] # "idle" => job[w].cmd # c
    BY DEF SafetyInv, HarmlessInRow, WorkersHaveClaimed
  <2>4. CASE Ignore(c, r) \/ SetAside(c, r)
    <3>1. UNCHANGED <<status, reason>>
      BY <2>4 DEF Ignore, SetAside, rowVars
    <3> QED
      BY <2>1, <2>2, <2>3, <3>1, RowStep DEF SafetyInv, RowsAgree
  <2>5. CASE Conclude(c, r)
    <3>1. /\ reason[c] # "RESULT_BEFORE_DISPATCH" /\ reason' = reason
          /\ status'[c] \in {"SUCCEEDED", "FAILED"}
          /\ \A d \in Command \ {c} : status'[d] = status[d]
      BY <2>5 DEF Conclude, Close, TypeOK, RowType
    <3> QED
      BY <2>1, <2>2, <2>3, <3>1, RowStep DEF Unclosed
  <2> QED
    BY <1>2, <2>4, <2>5 DEF ProcessEvidence
<1> QED
  BY <1>1, <1>2 DEF Callback

LEMMA StutterStep ==
    ASSUME SafetyInv, UNCHANGED <<rowVars, workerVars, observation, net, accepted>>
    PROVE  SafetyInv'
<1> USE DEF SafetyInv, rowVars, workerVars, MayAct, InFlight
<1>1. OneDispatcher' /\ WorkersHaveClaimed' /\ RowsAgree' /\ AtMostOneAction'
  BY DEF OneDispatcher, WorkersHaveClaimed, RowsAgree, AtMostOneAction, NotAccepted
<1>2. HarmlessAtWorker' /\ HarmlessInRow'
  BY DEF HarmlessAtWorker, HarmlessInRow, NotAccepted
<1>3. RequestsAreSingle' /\ RepliesAreAwaited'
  BY DEF RequestsAreSingle, RepliesAreAwaited, Waiting
<1> QED
  BY <1>1, <1>2, <1>3

LEMMA SafetyInit == Init => SafetyInv
<1> SUFFICES ASSUME Init PROVE SafetyInv
  OBVIOUS
<1>1. \A c \in Command : ~MayAct(c) /\ ~NotAccepted(c)
  BY DEF Init, MayAct, InFlight, NotAccepted
<1>2. OneDispatcher /\ WorkersHaveClaimed /\ HarmlessAtWorker
  BY DEF Init, OneDispatcher, WorkersHaveClaimed, HarmlessAtWorker
<1>3. HarmlessInRow /\ RowsAgree /\ AtMostOneAction
  BY <1>1 DEF Init, HarmlessInRow, RowsAgree, AtMostOneAction
<1>4. RequestsAreSingle /\ RepliesAreAwaited
  BY DEF Init, RequestsAreSingle, RepliesAreAwaited
<1> QED
  BY <1>2, <1>3, <1>4 DEF SafetyInv

LEMMA SafetyStep == TypeOK /\ SafetyInv /\ [Next]_vars => SafetyInv'
<1> SUFFICES ASSUME TypeOK, SafetyInv, [Next]_vars PROVE SafetyInv'
  OBVIOUS
<1>1. CASE Tick
  BY <1>1, StutterStep DEF Tick
<1>2. CASE UNCHANGED vars
  BY <1>2, StutterStep DEF vars
<1> QED
  BY <1>1, <1>2, CreateStep, DispatchStep, ReconcileStep, CallbackStep, EcsStep DEF Next

-----------------------------------------------------------------------------
(* No interleaving of dispatchers, lease expiries, crashes, late requests  *)
(* and callbacks turns a harmless command into a dangerous one behind the  *)
(* back of the worker that sends it (dispatch_one, reconcile_one,          *)
(* accept_result).                                                         *)
THEOREM Safety == Spec => []SafetyInv
<1>1. TypeOK /\ SafetyInv /\ [Next]_vars => SafetyInv'
  BY SafetyStep
<1> QED
  BY <1>1, SafetyInit, Typing, PTL DEF Spec

(* The device acts at most once on a command.                              *)
THEOREM AtMostOnce == Spec => []AtMostOneAction
<1>1. SafetyInv => AtMostOneAction
  BY DEF SafetyInv
<1> QED
  BY <1>1, Safety, PTL

(* Two dispatch_one calls never work on the same command.                  *)
THEOREM Exclusive == Spec => []OneDispatcher
<1>1. SafetyInv => OneDispatcher
  BY DEF SafetyInv
<1> QED
  BY <1>1, Safety, PTL

LEMMA HarmlessMeans ==
    ASSUME TypeOK, SafetyInv, NEW c \in Command, NotAccepted(c) \/ reason[c] = "RESULT_BEFORE_DISPATCH"
    PROVE  accepted[c] = 0 /\ ~InFlight(c) /\ ~Dispatched(c)
<1>1. ~MayAct(c)
  BY DEF SafetyInv, HarmlessInRow
<1>2. ~Dispatched(c)
  <2>1. \A w \in Worker : job[w].cmd = c => pc[w] # "idle"
    BY NoCommandAssumption DEF TypeOK, WorkerType
  <2> QED
    BY <2>1 DEF Dispatched, SafetyInv, WorkersHaveClaimed
<1> QED
  BY <1>1, <1>2 DEF MayAct, TypeOK

(* A command told NOT_ACCEPTED has not been acted on and never will be.    *)
THEOREM NotAcceptedStands == Spec => []NotAcceptedIsFinal
<1>1. TypeOK /\ SafetyInv => NotAcceptedIsFinal
  BY HarmlessMeans DEF NotAcceptedIsFinal
<1> QED
  BY <1>1, Safety, Typing, PTL

(* A command parked as RESULT_BEFORE_DISPATCH is never sent.               *)
THEOREM ParkedStaysUnsent == Spec => []ParkedIsNeverSent
<1>1. TypeOK /\ SafetyInv => ParkedIsNeverSent
  <2>1. SafetyInv => \A c \in Command :
           reason[c] = "RESULT_BEFORE_DISPATCH" => status[c] = "RECONCILING"
    BY DEF SafetyInv, RowsAgree
  <2> QED
    BY <2>1, HarmlessMeans DEF ParkedIsNeverSent
<1> QED
  BY <1>1, Safety, Typing, PTL

-----------------------------------------------------------------------------
(* What a DeviceCommand row and its evidence tell stays consistent: every  *)
(* step moves at most one row, in one of six ways, and from these moves    *)
(* follow the table of transitions, the finality of the first outcome, the *)
(* agreement of rows, observations and results, and the refinement of      *)
(* PhysicalAction.                                                         *)

(* The moves of one row.                                                   *)

Unanswered(c) ==
    /\ result'[c] = result[c]
    /\ \A r \in Report : evidence'[c][r] = "APPLIED" <=> evidence[c][r] = "APPLIED"

Same(c) == /\ status'[c] = status[c] /\ reason'[c] = reason[c]
           /\ observation'[c] = observation[c]
           /\ Unanswered(c)

Only(c) == \A d \in Command \ {c} : Same(d)

Created(c) ==
    /\ status[c] = "NONE"
    /\ \/ status'[c] = "PENDING" /\ reason'[c] = "none"
       \/ status'[c] = "RECONCILING" /\ reason'[c] = "RESULT_BEFORE_DISPATCH"
    /\ observation'[c] = observation[c]
    /\ Unanswered(c)

(* The command is claimed, released or acknowledged.                       *)
Works(c) ==
    /\ \/ status[c] = "PENDING" /\ status'[c] = "DISPATCHING"
       \/ status[c] = "DISPATCHING" /\ status'[c] \in {"PENDING", "ACKNOWLEDGED"}
    /\ reason'[c] = reason[c]
    /\ observation'[c] = observation[c]
    /\ Unanswered(c)

(* The command leaves the queue with one more observation.                 *)
Observed(c) ==
    /\ \/ status[c] = "PENDING" /\ status'[c] = "TIMED_OUT"
       \/ status[c] = "DISPATCHING" /\ status'[c] \in {"TIMED_OUT", "FAILED", "RECONCILING"}
       \/ status[c] = "ACKNOWLEDGED" /\ status'[c] = "RECONCILING"
    /\ IF status'[c] = "RECONCILING" THEN reason'[c] # "RESULT_BEFORE_DISPATCH"
                                     ELSE reason'[c] = reason[c]
    /\ \E kind \in {"NOT_ACCEPTED", "RESULT_UNKNOWN"} : \E why :
          /\ observation'[c] = observation[c] \cup {[kind |-> kind, reason |-> why]}
          /\ status'[c] # "RECONCILING" => kind = "NOT_ACCEPTED"
    /\ Unanswered(c)

Parked(c) ==
    /\ status[c] = "PENDING" /\ status'[c] = "RECONCILING"
    /\ reason'[c] = "RESULT_BEFORE_DISPATCH"
    /\ observation'[c] = observation[c]
    /\ Unanswered(c)

(* A report of the device closes the command.                              *)
Concluded(c, r) ==
    /\ status[c] \in {"DISPATCHING", "ACKNOWLEDGED", "RECONCILING"}
    /\ status'[c] = (IF r = "SUCCESS" THEN "SUCCEEDED" ELSE "FAILED")
    /\ reason'[c] = reason[c]
    /\ observation'[c] = observation[c]
    /\ evidence[c][r] = "PENDING"
    /\ result'[c] = r
    /\ \A s \in Report : evidence'[c][s] = (IF s = r THEN "APPLIED" ELSE evidence[c][s])

Moves(c) == \/ Same(c) \/ Created(c) \/ Works(c) \/ Observed(c) \/ Parked(c)
            \/ \E r \in Matching : Concluded(c, r)

-----------------------------------------------------------------------------
(* Every step makes one of these moves.                                    *)

LEMMA SameFrame ==
    ASSUME UNCHANGED <<status, reason, result, observation, evidence>>
    PROVE  \A d \in Command : Same(d)
  BY DEF Same, Unanswered

LEMMA LeaveMoves ==
    ASSUME RowType, NEW c \in Command, NEW target \in Status, NEW why, Leave(c, target, why)
    PROVE  /\ status'[c] = target /\ reason'[c] = why /\ result' = result
           /\ \A d \in Command \ {c} : status'[d] = status[d] /\ reason'[d] = reason[d]
  BY DEF RowType, Leave

LEMMA ObserveMoves ==
    ASSUME ObservationType, NEW c \in Command, NEW kind, NEW why, Observe(c, kind, why)
    PROVE  /\ observation'[c] = observation[c] \cup {[kind |-> kind, reason |-> why]}
           /\ \A d \in Command \ {c} : observation'[d] = observation[d]
  BY DEF ObservationType, Observe

(* The command is closed, or doubted, and an observation says why.         *)
LEMMA ClosingMoves ==
    ASSUME TypeOK, NEW c \in Command, UNCHANGED evidence,
           NEW target \in {"TIMED_OUT", "FAILED", "RECONCILING"}, NEW why,
           NEW kind \in {"NOT_ACCEPTED", "RESULT_UNKNOWN"}, NEW note,
           Leave(c, target, why), Observe(c, kind, note),
           \/ status[c] = "PENDING" /\ target = "TIMED_OUT"
           \/ status[c] = "DISPATCHING"
           \/ status[c] = "ACKNOWLEDGED" /\ target = "RECONCILING",
           IF target = "RECONCILING" THEN why # "RESULT_BEFORE_DISPATCH"
                                     ELSE why = reason[c] /\ kind = "NOT_ACCEPTED"
    PROVE  Observed(c) /\ Only(c)
<1>1. target \in Status
  BY DEF Status, Terminal
<1>2. /\ status'[c] = target /\ reason'[c] = why /\ result' = result
      /\ \A d \in Command \ {c} : status'[d] = status[d] /\ reason'[d] = reason[d]
  BY <1>1, LeaveMoves DEF TypeOK
<1>3. /\ observation'[c] = observation[c] \cup {[kind |-> kind, reason |-> note]}
      /\ \A d \in Command \ {c} : observation'[d] = observation[d]
  BY ObserveMoves DEF TypeOK
<1>4. \A d \in Command : Unanswered(d)
  BY <1>2 DEF Unanswered
<1>5. Only(c)
  BY <1>2, <1>3, <1>4 DEF Only, Same
<1>6. Observed(c)
  BY <1>2, <1>3, <1>4 DEF Observed
<1> QED
  BY <1>5, <1>6

LEMMA ReleaseMoves ==
    ASSUME TypeOK, NEW c \in Command, UNCHANGED <<observation, evidence>>, NEW at,
           Release(c, at), status[c] = "DISPATCHING"
    PROVE  Works(c) /\ Only(c)
  BY DEF Release, Works, Only, Same, Unanswered, TypeOK, RowType

LEMMA RefuseMoves ==
    ASSUME TypeOK, NEW c \in Command, UNCHANGED evidence, NEW why,
           RefuseCommand(c, why), status[c] = "DISPATCHING"
    PROVE  Observed(c) /\ Only(c)
  BY ClosingMoves DEF RefuseCommand

LEMMA TimeOutMoves ==
    ASSUME TypeOK, NEW c \in Command, UNCHANGED evidence, TimeOut(c),
           status[c] \in {"PENDING", "DISPATCHING"}
    PROVE  Observed(c) /\ Only(c)
  BY ClosingMoves DEF TimeOut

LEMMA DoubtMoves ==
    ASSUME TypeOK, NEW c \in Command, UNCHANGED evidence, NEW why, Doubt(c, why),
           why # "RESULT_BEFORE_DISPATCH", status[c] \in {"DISPATCHING", "ACKNOWLEDGED"}
    PROVE  Observed(c) /\ Only(c)
  BY ClosingMoves DEF Doubt

(* A worker works on its command, or tells what became of it.              *)
LEMMA DispatchMoves ==
    ASSUME TypeOK, NEW w \in Worker, Dispatch(w)
    PROVE  \/ \A d \in Command : Same(d)
           \/ \E c \in Command : (Works(c) \/ Observed(c)) /\ Only(c)
<1> DEFINE c == job[w].cmd
           Moved == (Works(c) \/ Observed(c)) /\ Only(c)
           Still == \A d \in Command : Same(d)
<1>1. pc[w] # "idle" => c \in Command
  BY BusyWorker DEF TypeOK
<1>2. Holds(w) => status[c] = "DISPATCHING"
  BY DEF Holds
<1>3. UNCHANGED evidence
  BY EvidenceWriters
<1>4. ASSUME NEW d \in Command, Claim(w, d) PROVE Works(d) /\ Only(d)
  BY <1>3, <1>4 DEF Claim, Works, Only, Same, Unanswered, TypeOK, RowType
<1>5. CASE EndpointInvalid(w)
  <2>1. CASE terms[c].eventDebug
    BY <1>1, <1>2, <1>3, <1>5, <2>1, RefuseMoves DEF EndpointInvalid
  <2>2. CASE ~terms[c].eventDebug
    BY <1>1, <1>2, <1>3, <1>5, <2>2, ClosingMoves DEF EndpointInvalid
  <2> QED
    BY <1>1, <1>5, <2>1, <2>2 DEF EndpointInvalid
<1>6. CASE EndpointUnavailable(w)
  <2>1. CASE terms[c].eventDebug
    BY <1>1, <1>2, <1>3, <1>6, <2>1, RefuseMoves DEF EndpointUnavailable
  <2>2. CASE ~terms[c].eventDebug
    BY <1>1, <1>2, <1>3, <1>6, <2>2, ReleaseMoves DEF EndpointUnavailable
  <2> QED
    BY <1>1, <1>6, <2>1, <2>2 DEF EndpointUnavailable
<1>7. CASE Authorize(w)
  <2>1. CASE terms[c].deadline <= now
    BY <1>1, <1>2, <1>3, <1>7, <2>1, TimeOutMoves DEF Authorize
  <2>2. CASE ~(terms[c].deadline <= now)
    BY <1>3, <1>7, <2>2, SameFrame DEF Authorize, rowVars
  <2> QED
    BY <1>1, <1>7, <2>1, <2>2 DEF Authorize
<1>8. CASE TooLateToSend(w)
  BY <1>1, <1>2, <1>3, <1>8, TimeOutMoves DEF TooLateToSend
<1>9. CASE Send(w) \/ NotSent(w) \/ NoTrustedAnswer(w) \/ FenceMiss(w) \/ Crash(w)
  BY <1>9, SameFrame DEF Send, NotSent, NoTrustedAnswer, FenceMiss, Crash, rowVars
<1>10. ASSUME NEW m \in net, Receive(w, m) PROVE Still
  BY <1>10, SameFrame DEF Receive, rowVars
<1>11. CASE WriteAck(w)
  <2>1. CASE answer[w].at >= terms[c].deadline
    BY <1>1, <1>2, <1>3, <1>11, <2>1, DoubtMoves DEF WriteAck
  <2>2. CASE ~(answer[w].at >= terms[c].deadline)
    <3>1. c \in Command /\ "ACKNOWLEDGED" \in Status
      BY <1>1, <1>11 DEF WriteAck, Status, Unclosed
    <3>2. Leave(c, "ACKNOWLEDGED", reason[c]) /\ UNCHANGED observation
      BY <1>11, <2>2 DEF WriteAck
    <3>3. /\ status'[c] = "ACKNOWLEDGED" /\ reason'[c] = reason[c] /\ result' = result
          /\ \A d \in Command \ {c} : status'[d] = status[d] /\ reason'[d] = reason[d]
      BY <3>1, <3>2, LeaveMoves DEF TypeOK
    <3> QED
      BY <1>2, <1>3, <1>11, <3>1, <3>2, <3>3 DEF WriteAck, Works, Only, Same, Unanswered
  <2> QED
    BY <1>1, <1>11, <2>1, <2>2 DEF WriteAck
<1>12. CASE WriteRejected(w)
  BY <1>1, <1>2, <1>3, <1>12, RefuseMoves DEF WriteRejected
<1>13. CASE WriteUnknown(w)
  BY <1>1, <1>2, <1>3, <1>13, DoubtMoves DEF WriteUnknown
<1>14. ASSUME NEW d \in RetryAfter \cup {RetryDelay}, WriteBusy(w, d) PROVE c \in Command /\ Moved
  <2>1. CASE terms[c].eventDebug
    BY <1>1, <1>2, <1>3, <1>14, <2>1, RefuseMoves DEF WriteBusy
  <2>2. CASE ~terms[c].eventDebug
    BY <1>1, <1>2, <1>3, <1>14, <2>2, ReleaseMoves DEF WriteBusy
  <2> QED
    BY <1>1, <1>14, <2>1, <2>2 DEF WriteBusy
<1> QED
  BY <1>4, <1>5, <1>6, <1>7, <1>8, <1>9, <1>10, <1>11, <1>12, <1>13, <1>14 DEF Dispatch

LEMMA ReconcileMoves ==
    ASSUME TypeOK, NEW c \in Command, Reconcile(c)
    PROVE  Observed(c) /\ Only(c)
<1>1. CASE ReconcilePending(c)
  BY <1>1, TimeOutMoves DEF ReconcilePending
<1>2. CASE ReconcileDispatching(c)
  <2>1. /\ observation'[c] = observation[c] \cup
               {[kind |-> "RESULT_UNKNOWN", reason |-> "DISPATCH_LEASE_EXPIRED"]}
        /\ \A d \in Command \ {c} : observation'[d] = observation[d]
    BY <1>2, ObserveMoves DEF ReconcileDispatching, TypeOK
  <2>2. /\ status[c] = "DISPATCHING" /\ status'[c] = "RECONCILING"
        /\ reason'[c] = "DISPATCH_LEASE_EXPIRED" /\ UNCHANGED <<result, evidence>>
        /\ \A d \in Command \ {c} : status'[d] = status[d] /\ reason'[d] = reason[d]
    BY <1>2 DEF ReconcileDispatching, TypeOK, RowType
  <2> QED
    BY <2>1, <2>2 DEF Observed, Only, Same, Unanswered
<1>3. CASE ReconcileAcknowledged(c)
  BY <1>3, DoubtMoves DEF ReconcileAcknowledged
<1> QED
  BY <1>1, <1>2, <1>3 DEF Reconcile

LEMMA CreateMoves ==
    ASSUME TypeOK, NEW c \in Command, NEW e \in BOOLEAN, NEW t \in Timeout, Create(c, e, t)
    PROVE  /\ Created(c) /\ Only(c)
           /\ \A r \in Report : evidence'[c][r] =
                (IF r \in Matching /\ evidence[c][r] = "ORPHAN" THEN "PENDING" ELSE evidence[c][r])
           /\ \A d \in Command \ {c} : evidence'[d] = evidence[d]
           /\ (\A r \in Matching : evidence[c][r] # "ORPHAN") => reason'[c] = "none"
<1> DEFINE early == {r \in Matching : evidence[c][r] = "ORPHAN"}
           filed == [r \in Report |-> IF r \in early THEN "PENDING" ELSE evidence[c][r]]
<1>1. evidence' = [evidence EXCEPT ![c] = filed]
  BY DEF Create
<1>2. \A r \in Report : filed[r] = (IF r \in early THEN "PENDING" ELSE evidence[c][r])
  OBVIOUS
<1> HIDE DEF filed
<1>3. evidence'[c] = filed /\ \A d \in Command \ {c} : evidence'[d] = evidence[d]
  BY <1>1 DEF TypeOK, EvidenceType
<1>4. \A d \in Command : Unanswered(d)
  BY <1>2, <1>3 DEF Create, Unanswered
<1>5. /\ \A d \in Command \ {c} : status'[d] = status[d] /\ reason'[d] = reason[d]
      /\ status[c] = "NONE" /\ UNCHANGED observation
      /\ status'[c] = (IF early # {} THEN "RECONCILING" ELSE "PENDING")
      /\ reason'[c] = (IF early # {} THEN "RESULT_BEFORE_DISPATCH" ELSE "none")
  BY DEF Create, TypeOK, RowType
<1>6. Created(c) /\ Only(c)
  BY <1>4, <1>5 DEF Created, Only, Same
<1> QED
  BY <1>2, <1>3, <1>5, <1>6

LEMMA AcceptMoves ==
    ASSUME TypeOK, NEW c \in Command, NEW r \in Report, AcceptResult(c, r)
    PROVE  /\ Parked(c) \/ Same(c)
           /\ Only(c)
           /\ status[c] # "PENDING" => Same(c)
<1>1. \A d \in Command : Unanswered(d)
  <2>1. CASE evidence' = evidence
    BY <2>1 DEF AcceptResult, Unanswered
  <2>2. CASE evidence[c][r] = "none" /\ evidence' = File(c, r, Admission(c, r))
    <3>1. Admission(c, r) # "APPLIED"
      BY DEF Admission
    <3> QED
      BY <2>2, <3>1 DEF AcceptResult, Unanswered, File, TypeOK, EvidenceType
  <2> QED
    BY <2>1, <2>2 DEF AcceptResult
<1>2. /\ status'[c] = (IF Parks(c) THEN "RECONCILING" ELSE status[c])
      /\ reason'[c] = (IF Parks(c) THEN "RESULT_BEFORE_DISPATCH" ELSE reason[c])
      /\ \A d \in Command \ {c} : status'[d] = status[d] /\ reason'[d] = reason[d]
      /\ UNCHANGED observation
  BY DEF AcceptResult, TypeOK, RowType
<1> QED
  BY <1>1, <1>2 DEF Parked, Same, Only, Parks

LEMMA ProcessMoves ==
    ASSUME TypeOK, ForeignIsSetApart, NEW c \in Command, NEW r \in Report, ProcessEvidence(c, r)
    PROVE  /\ Same(c) \/ (r \in Matching /\ Concluded(c, r))
           /\ Only(c)
<1>1. r \in Matching /\ evidence[c][r] = "PENDING" /\ UNCHANGED observation
  BY DEF ProcessEvidence, ForeignIsSetApart, Report
<1>2. CASE Ignore(c, r) \/ SetAside(c, r)
  <2>1. UNCHANGED <<status, reason, result>>
    BY <1>2 DEF Ignore, SetAside, rowVars
  <2>2. evidence' = File(c, r, "IGNORED") \/ evidence' = File(c, r, "RECONCILING")
    BY <1>2 DEF Ignore, SetAside
  <2>3. \A d \in Command : Unanswered(d)
    BY <1>1, <2>1, <2>2 DEF Unanswered, File, TypeOK, EvidenceType
  <2> QED
    BY <1>1, <2>1, <2>3 DEF Same, Only
<1>3. CASE Conclude(c, r)
  <2>1. /\ \A s \in Report : evidence'[c][s] = (IF s = r THEN "APPLIED" ELSE evidence[c][s])
        /\ \A d \in Command \ {c} : evidence'[d] = evidence[d]
    BY <1>3 DEF Conclude, Close, File, TypeOK, EvidenceType
  <2>2. /\ status[c] \in {"DISPATCHING", "ACKNOWLEDGED", "RECONCILING"}
        /\ status'[c] = (IF r = "SUCCESS" THEN "SUCCEEDED" ELSE "FAILED")
        /\ result'[c] = r /\ UNCHANGED reason
        /\ \A d \in Command \ {c} : status'[d] = status[d] /\ result'[d] = result[d]
    BY <1>3 DEF Conclude, Close, TypeOK, RowType
  <2> QED
    BY <1>1, <2>1, <2>2 DEF Concluded, Same, Only, Unanswered
<1> QED
  BY <1>2, <1>3 DEF ProcessEvidence

LEMMA EcsMoves ==
    ASSUME NEW m \in net, Ecs(m)
    PROVE  \A d \in Command : Same(d)
  BY SameFrame DEF Ecs, EcsAccept, EcsRefuse, rowVars

(* One step moves one row at most.                                         *)
LEMMA NextMoves ==
    ASSUME TypeOK, ForeignIsSetApart, [Next]_vars, NEW c \in Command
    PROVE  Moves(c)
<1>1. \A d \in Command : Only(d) => c = d \/ Same(c)
  BY DEF Only
<1>2. ASSUME NEW d \in Command, Only(d), Moves(d) PROVE Moves(c)
  BY <1>1, <1>2 DEF Moves
<1>3. ASSUME NEW w \in Worker, Dispatch(w) PROVE Moves(c)
  BY <1>2, <1>3, DispatchMoves DEF Moves
<1>4. ASSUME NEW d \in Command, NEW e \in BOOLEAN, NEW t \in Timeout, Create(d, e, t) PROVE Moves(c)
  BY <1>2, <1>4, CreateMoves DEF Moves
<1>5. ASSUME NEW d \in Command, Reconcile(d) PROVE Moves(c)
  BY <1>2, <1>5, ReconcileMoves DEF Moves
<1>6. ASSUME NEW d \in Command, Callback(d) PROVE Moves(c)
  BY <1>2, <1>6, AcceptMoves, ProcessMoves DEF Moves, Callback
<1>7. ASSUME NEW m \in net, Ecs(m) PROVE Moves(c)
  BY <1>7, EcsMoves DEF Moves
<1>8. CASE Tick \/ UNCHANGED vars
  BY <1>8, SameFrame DEF Moves, Tick, vars, rowVars
<1> QED
  BY <1>3, <1>4, <1>5, <1>6, <1>7, <1>8 DEF Next

-----------------------------------------------------------------------------
(* The status of one row.                                                  *)

LEMMA ForeignHolds == Spec => [](TypeOK /\ ForeignIsSetApart)
<1>1. TypeOK /\ ForeignIsSetApart /\ [Next]_vars => (TypeOK /\ ForeignIsSetApart)'
  BY TypeStep, ForeignStep
<1> QED
  BY <1>1, TypeInit, PTL DEF Spec

(* transition_to never raises: no interleaving of workers, scans and       *)
(* callbacks asks for a status change that is not in its table.            *)
THEOREM MovesAsAllowed == Spec => StatusMovesAsAllowed
<1>1. ASSUME TypeOK, ForeignIsSetApart, [Next]_vars, NEW c \in Command, status'[c] # status[c]
      PROVE  status'[c] \in AllowedTransition[status[c]]
  <2>1. Moves(c)
    BY <1>1, NextMoves
  <2>2. status[c] \in Status
    BY <1>1 DEF TypeOK, RowType
  <2> QED
    BY <1>1, <2>1, <2>2 DEF Moves, Same, Created, Works, Observed, Parked, Concluded,
       AllowedTransition, Status, Unclosed, Terminal
<1>2. TypeOK /\ ForeignIsSetApart /\ [Next]_vars =>
        [\A c \in Command : status'[c] # status[c] =>
            status'[c] \in AllowedTransition[status[c]]]_vars
  BY <1>1
<1> QED
  BY <1>2, ForeignHolds, PTL DEF Spec, StatusMovesAsAllowed

(* A closed command is never touched again.                                *)
THEOREM FirstOutcome == Spec => FirstOutcomeWins
<1>1. ASSUME TypeOK, ForeignIsSetApart, [Next]_vars, NEW c \in Command, status[c] \in Terminal
      PROVE  status'[c] = status[c] /\ result'[c] = result[c] /\ reason'[c] = reason[c]
  <2>1. Moves(c)
    BY <1>1, NextMoves
  <2> QED
    BY <1>1, <2>1 DEF Moves, Same, Unanswered, Created, Works, Observed, Parked, Concluded, Terminal
<1>2. TypeOK /\ ForeignIsSetApart /\ [Next]_vars =>
        [\A c \in Command : status[c] \in Terminal =>
            /\ status'[c] = status[c]
            /\ result'[c] = result[c]
            /\ reason'[c] = reason[c]]_vars
  BY <1>1
<1> QED
  BY <1>2, ForeignHolds, PTL DEF Spec, FirstOutcomeWins

-----------------------------------------------------------------------------
(* The row and its evidence.                                               *)

LEMMA ResultStep ==
    ASSUME TypeOK, ForeignIsSetApart, ResultMatchesEvidence, [Next]_vars
    PROVE  ResultMatchesEvidence'
<1> SUFFICES ASSUME NEW c \in Command
             PROVE  /\ \A r \in Report : evidence'[c][r] = "APPLIED" <=> result'[c] = r
                    /\ status'[c] = "SUCCEEDED" <=> result'[c] = "SUCCESS"
                    /\ result'[c] = "FAILED" => status'[c] = "FAILED"
  BY DEF ResultMatchesEvidence
<1>1. /\ \A r \in Report : evidence[c][r] = "APPLIED" <=> result[c] = r
      /\ status[c] = "SUCCEEDED" <=> result[c] = "SUCCESS"
      /\ result[c] = "FAILED" => status[c] = "FAILED"
      /\ result[c] \in {"SUCCESS", "FAILED", "none"}
  BY DEF ResultMatchesEvidence, TypeOK, RowType, Matching
<1>2. CASE Unanswered(c) /\ status[c] \notin Terminal /\ status'[c] # "SUCCEEDED"
  BY <1>1, <1>2 DEF Unanswered, Terminal
<1>3. CASE Same(c)
  BY <1>1, <1>3 DEF Same, Unanswered
<1>4. ASSUME NEW r \in Matching, Concluded(c, r)
      PROVE  /\ \A s \in Report : evidence'[c][s] = "APPLIED" <=> result'[c] = s
             /\ status'[c] = "SUCCEEDED" <=> result'[c] = "SUCCESS"
             /\ result'[c] = "FAILED" => status'[c] = "FAILED"
  <2>1. result[c] = "none" /\ \A s \in Report : evidence[c][s] # "APPLIED"
    BY <1>1, <1>4 DEF Concluded, Report, Matching
  <2> QED
    BY <1>4, <2>1 DEF Concluded, Matching
<1>5. Created(c) \/ Works(c) \/ Observed(c) \/ Parked(c) =>
        Unanswered(c) /\ status[c] \notin Terminal /\ status'[c] # "SUCCEEDED"
  BY DEF Created, Works, Observed, Parked, Terminal
<1> QED
  BY <1>2, <1>3, <1>4, <1>5, NextMoves DEF Moves

(* A command closed by its device was closed by exactly one applied        *)
(* report, whose outcome is its status.                                    *)
THEOREM ResultMatches == Spec => []ResultMatchesEvidence
<1>1. Init => ResultMatchesEvidence
  BY DEF Init, ResultMatchesEvidence, Report, Matching
<1>2. TypeOK /\ ForeignIsSetApart /\ ResultMatchesEvidence /\ [Next]_vars => ResultMatchesEvidence'
  BY ResultStep
<1> QED
  BY <1>1, <1>2, ForeignHolds, PTL DEF Spec

LEMMA DoubtStep ==
    ASSUME TypeOK, ForeignIsSetApart, SafetyInv, ResultMatchesEvidence, EveryDoubtIsRecorded,
           SafetyInv', [Next]_vars
    PROVE  EveryDoubtIsRecorded'
<1> DEFINE Recorded(c) ==
             /\ status[c] \in Unclosed => observation[c] = {}
             /\ Cardinality(observation[c]) <= 1
             /\ \/ status[c] = "TIMED_OUT"
                \/ status[c] = "FAILED" /\ result[c] = "none"
                => NotAccepted(c)
             /\ status[c] = "RECONCILING" /\ reason[c] # "RESULT_BEFORE_DISPATCH"
                => observation[c] # {}
<1> SUFFICES ASSUME NEW c \in Command PROVE Recorded(c)'
  BY DEF EveryDoubtIsRecorded
<1>1. Recorded(c) /\ Moves(c)
  BY NextMoves DEF EveryDoubtIsRecorded
<1>2. observation'[c] = observation[c] => (NotAccepted(c)' <=> NotAccepted(c))
  BY NotAcceptedFrame
<1>3. CASE Same(c)
  BY <1>1, <1>2, <1>3 DEF Same, Unanswered
<1>4. CASE Created(c) \/ Works(c) \/ Parked(c)
  <2>1. observation[c] = {} /\ observation'[c] = {}
    BY <1>4 DEF Created, Works, Parked, SafetyInv, RowsAgree, Unclosed
  <2>2. Cardinality({}) = 0
    BY FS_EmptySet
  <2>3. /\ status'[c] \in {"PENDING", "DISPATCHING", "ACKNOWLEDGED", "RECONCILING"}
        /\ status'[c] = "RECONCILING" => reason'[c] = "RESULT_BEFORE_DISPATCH"
    BY <1>4 DEF Created, Works, Parked
  <2> QED
    BY <2>1, <2>2, <2>3
<1>5. CASE Observed(c)
  <2>1. observation[c] = {}
    BY <1>5 DEF Observed, SafetyInv, RowsAgree, Unclosed
  <2>2. PICK kind \in {"NOT_ACCEPTED", "RESULT_UNKNOWN"} : \E why :
           /\ observation'[c] = {[kind |-> kind, reason |-> why]}
           /\ status'[c] # "RECONCILING" => kind = "NOT_ACCEPTED"
    BY <1>5, <2>1 DEF Observed
  <2>3. PICK why :
           /\ observation'[c] = {[kind |-> kind, reason |-> why]}
           /\ status'[c] # "RECONCILING" => kind = "NOT_ACCEPTED"
    BY <2>2
  <2>4. Cardinality(observation'[c]) = 1
    BY <2>3, FS_Singleton
  <2>5. observation'[c] # {}
    BY <2>3
  <2>6. status'[c] # "RECONCILING" => NotAccepted(c)'
    BY <2>3 DEF NotAccepted
  <2>7. status'[c] \in {"TIMED_OUT", "FAILED", "RECONCILING"}
    BY <1>5 DEF Observed
  <2> QED
    BY <2>4, <2>5, <2>6, <2>7 DEF Unclosed
<1>6. ASSUME NEW r \in Matching, Concluded(c, r) PROVE Recorded(c)'
  <2>1. /\ status'[c] \in {"SUCCEEDED", "FAILED"} /\ result'[c] # "none"
        /\ observation'[c] = observation[c]
    BY <1>6 DEF Concluded, Matching
  <2> QED
    BY <1>1, <2>1 DEF Unclosed
<1> QED
  BY <1>1, <1>3, <1>4, <1>5, <1>6 DEF Moves

(* Every way out of dispatching without a device result leaves exactly one *)
(* observation that says what is known.                                    *)
THEOREM DoubtRecorded == Spec => []EveryDoubtIsRecorded
<1>1. Init => EveryDoubtIsRecorded
  BY FS_EmptySet DEF Init, EveryDoubtIsRecorded, Unclosed
<1>2. /\ TypeOK /\ ForeignIsSetApart /\ SafetyInv /\ ResultMatchesEvidence /\ EveryDoubtIsRecorded
      /\ SafetyInv' /\ [Next]_vars
      => EveryDoubtIsRecorded'
  BY DoubtStep
<1> QED
  BY <1>1, <1>2, ForeignHolds, Safety, ResultMatches, PTL DEF Spec

-----------------------------------------------------------------------------
(* Honest callbacks.                                                       *)

(* Without stray callbacks every stored report comes from a command the    *)
(* device accepted, none is refused or set aside, and nothing is parked.   *)
ReportsAreExplained ==
    ~StrayResults =>
        \A c \in Command :
            /\ reason[c] # "RESULT_BEFORE_DISPATCH"
            /\ \A r \in Report :
                  /\ evidence[c][r] \in {"none", "PENDING", "APPLIED", "IGNORED"}
                  /\ evidence[c][r] # "none" => accepted[c] > 0

(* No report is stored, and no row is parked, by a step of another kind.   *)
LEMMA ReportsFrame ==
    ASSUME ReportsAreExplained, UNCHANGED evidence,
           \A c \in Command : accepted'[c] >= accepted[c] /\ accepted[c] \in Nat /\ accepted'[c] \in Nat,
           \A c \in Command : reason'[c] = reason[c] \/ reason'[c] # "RESULT_BEFORE_DISPATCH"
    PROVE  ReportsAreExplained'
  BY DEF ReportsAreExplained

LEMMA ReportsStep ==
    ASSUME TypeOK, TypeOK', ForeignIsSetApart, SafetyInv, ReportsAreExplained, [Next]_vars
    PROVE  ReportsAreExplained'
<1>1. \A c \in Command : accepted[c] \in Nat /\ accepted'[c] \in Nat
  BY DEF TypeOK
<1>2. ASSUME UNCHANGED <<accepted, evidence>>, NEW c \in Command,
             Same(c) \/ Works(c) \/ Observed(c), Only(c)
      PROVE  ReportsAreExplained'
  <2>1. \A d \in Command : reason'[d] = reason[d] \/ reason'[d] # "RESULT_BEFORE_DISPATCH"
    BY <1>2 DEF Only, Same, Works, Observed
  <2> QED
    BY <1>1, <1>2, <2>1, ReportsFrame
<1>3. ASSUME NEW w \in Worker, Dispatch(w) PROVE ReportsAreExplained'
  <2>1. UNCHANGED accepted
    BY <1>3 DEF Dispatch, Claim, EndpointInvalid, EndpointUnavailable, Authorize, TooLateToSend, Send,
       NotSent, Receive, NoTrustedAnswer, WriteAck, WriteBusy, WriteRejected, WriteUnknown,
       FenceMiss, Crash
  <2>2. CASE \A d \in Command : Same(d)
    BY <1>1, <1>3, <2>1, <2>2, EvidenceWriters, ReportsFrame DEF Same
  <2> QED
    BY <1>2, <1>3, <2>1, <2>2, EvidenceWriters, DispatchMoves
<1>4. ASSUME NEW c \in Command, Reconcile(c) PROVE ReportsAreExplained'
  <2>1. UNCHANGED <<accepted, evidence>>
    BY <1>4 DEF Reconcile, ReconcilePending, ReconcileDispatching, ReconcileAcknowledged
  <2> QED
    BY <1>2, <1>4, <2>1, ReconcileMoves
<1>5. ASSUME NEW c \in Command, NEW e \in BOOLEAN, NEW t \in Timeout, Create(c, e, t), ~StrayResults
      PROVE  ReportsAreExplained'
  <2>1. \A r \in Report : evidence[c][r] # "ORPHAN"
    BY <1>5 DEF ReportsAreExplained
  <2>2. \A d \in Command : \A r \in Report : evidence'[d][r] = evidence[d][r]
    BY <1>5, <2>1, CreateMoves
  <2>3. reason'[c] = "none" /\ \A d \in Command \ {c} : reason'[d] = reason[d]
    BY <1>5, <2>1, CreateMoves DEF Only, Same, Report
  <2>4. UNCHANGED accepted
    BY <1>5 DEF Create
  <2> QED
    BY <2>2, <2>3, <2>4 DEF ReportsAreExplained
<1>6. ASSUME NEW c \in Command, NEW r \in Report, AcceptResult(c, r), ~StrayResults
      PROVE  ReportsAreExplained'
  <2>1. accepted[c] > 0 /\ r \in Matching /\ UNCHANGED accepted
    BY <1>6 DEF AcceptResult
  <2>2. status[c] \notin {"NONE", "PENDING"}
    BY <2>1 DEF SafetyInv, HarmlessInRow, MayAct
  <2>3. Same(c) /\ Only(c)
    BY <1>6, <2>2, AcceptMoves
  <2>4. Admission(c, r) = "PENDING"
    BY <1>6, <2>1, <2>2 DEF Admission, TooEarly, ReportsAreExplained, Matching
  <2>5. evidence' = evidence \/ evidence' = File(c, r, "PENDING")
    BY <1>6, <2>4 DEF AcceptResult
  <2>6. \A d \in Command : \A s \in Report :
          evidence'[d][s] = evidence[d][s] \/ (d = c /\ evidence'[d][s] = "PENDING")
    BY <2>5 DEF File, TypeOK, EvidenceType
  <2>7. \A d \in Command : reason'[d] = reason[d]
    BY <2>3 DEF Same, Only
  <2> QED
    BY <2>1, <2>6, <2>7 DEF ReportsAreExplained
<1>7. ASSUME NEW c \in Command, NEW r \in Report, ProcessEvidence(c, r), ~StrayResults
      PROVE  ReportsAreExplained'
  <2>1. evidence[c][r] = "PENDING" /\ UNCHANGED accepted
    BY <1>7 DEF ProcessEvidence
  <2>2. accepted[c] > 0 /\ reason[c] # "RESULT_BEFORE_DISPATCH"
    BY <1>7, <2>1 DEF ReportsAreExplained
  <2>3. status[c] # "PENDING"
    BY <2>2 DEF SafetyInv, HarmlessInRow, MayAct
  <2>4. ~SetAside(c, r)
    BY <2>2, <2>3 DEF SetAside, TooEarly
  <2>5. evidence' = File(c, r, "IGNORED") \/ evidence' = File(c, r, "APPLIED")
    BY <1>7, <2>4 DEF ProcessEvidence, Ignore, Conclude, Close
  <2>6. \A d \in Command : \A s \in Report :
          evidence'[d][s] = evidence[d][s] \/ (d = c /\ evidence'[d][s] \in {"IGNORED", "APPLIED"})
    BY <2>5 DEF File, TypeOK, EvidenceType
  <2>7. \A d \in Command : reason'[d] = reason[d]
    BY <1>7, ProcessMoves DEF Same, Only, Concluded
  <2> QED
    BY <2>1, <2>2, <2>6, <2>7 DEF ReportsAreExplained
<1>8. ASSUME NEW m \in net, Ecs(m) PROVE ReportsAreExplained'
  <2>1. UNCHANGED <<evidence, reason>>
    BY <1>8 DEF Ecs, EcsAccept, EcsRefuse, rowVars
  <2>2. \A c \in Command : accepted'[c] >= accepted[c]
    BY <1>1, <1>8 DEF Ecs, EcsAccept, EcsRefuse, TypeOK
  <2> QED
    BY <1>1, <2>1, <2>2, ReportsFrame
<1>9. CASE Tick \/ UNCHANGED vars
  BY <1>1, <1>9, ReportsFrame DEF Tick, vars, rowVars
<1>10. CASE StrayResults
  BY <1>10 DEF ReportsAreExplained
<1> QED
  BY <1>3, <1>4, <1>5, <1>6, <1>7, <1>8, <1>9, <1>10 DEF Next, Callback

LEMMA ReportsHold == Spec => []ReportsAreExplained
<1>1. Init => ReportsAreExplained
  BY DEF Init, ReportsAreExplained
<1>2. /\ TypeOK /\ TypeOK' /\ ForeignIsSetApart /\ SafetyInv /\ ReportsAreExplained /\ [Next]_vars
      => ReportsAreExplained'
  BY ReportsStep
<1> QED
  BY <1>1, <1>2, ForeignHolds, Safety, PTL DEF Spec

(* When every callback comes from an accepted command, none is refused,    *)
(* orphaned or set aside.                                                  *)
THEOREM NeverStranded == Spec => []ResultsAreNeverStranded
<1>1. ReportsAreExplained => ResultsAreNeverStranded
  BY DEF ReportsAreExplained, ResultsAreNeverStranded
<1> QED
  BY <1>1, ReportsHold, PTL

-----------------------------------------------------------------------------
(* The promise to the callers.                                             *)

(* What is told of a command depends on its row alone.                     *)
LEMMA ToldRow ==
    ASSUME NEW c \in Command
    PROVE  told[c] = IF status[c] = "NONE" THEN "absent"
                     ELSE IF status[c] \in Unclosed THEN "open"
                     ELSE IF result[c] # "none" THEN result[c]
                     ELSE IF NotAccepted(c) THEN "refused"
                     ELSE "doubt"
  BY DEF told

LEMMA ToldSame ==
    ASSUME NEW c \in Command, Same(c)
    PROVE  told'[c] = told[c]
  BY NotAcceptedFrame DEF told, Same, Unanswered

(* What makes a row's tale consistent with what the device did.            *)
Consistent == TypeOK /\ ForeignIsSetApart /\ SafetyInv /\ ResultMatchesEvidence /\ ReportsAreExplained

LEMMA ConsistentRow ==
    ASSUME Consistent, ~StrayResults, NEW c \in Command
    PROVE  /\ accepted[c] \in Nat
           /\ status[c] \in {"NONE"} \cup Unclosed \cup {"RECONCILING", "TIMED_OUT"} => result[c] = "none"
           /\ result[c] # "none" => accepted[c] > 0
           /\ NotAccepted(c) \/ status[c] \in {"NONE", "PENDING"} => ~MayAct(c)
           /\ reason[c] # "RESULT_BEFORE_DISPATCH"
<1>1. accepted[c] \in Nat /\ result[c] \in {"SUCCESS", "FAILED", "none"}
  BY DEF Consistent, TypeOK, RowType, Matching
<1>2. status[c] \in {"NONE"} \cup Unclosed \cup {"RECONCILING", "TIMED_OUT"} => result[c] = "none"
  BY <1>1 DEF Consistent, ResultMatchesEvidence, Unclosed
<1>3. result[c] # "none" => accepted[c] > 0
  BY <1>1 DEF Consistent, ResultMatchesEvidence, ReportsAreExplained, Report, Matching
<1>4. NotAccepted(c) \/ status[c] \in {"NONE", "PENDING"} => ~MayAct(c)
  BY DEF Consistent, SafetyInv, HarmlessInRow
<1>5. reason[c] # "RESULT_BEFORE_DISPATCH"
  BY DEF Consistent, ReportsAreExplained
<1> QED
  BY <1>1, <1>2, <1>3, <1>4, <1>5

(* One row moves and the device does nothing: a caller learns of it.       *)
LEMMA RowPromise ==
    ASSUME Consistent, Consistent', ~StrayResults, UNCHANGED accepted,
           NEW c \in Command, Moves(c), Only(c)
    PROVE  [Promise!Next]_Promise!vars
<1> DEFINE known(x) == told' = [told EXCEPT ![c] = x]
<1>1. acted' = acted
  BY DEF acted
<1>2. told = [d \in Command |-> told[d]] /\ told' = [d \in Command |-> told'[d]]
  BY DEF told
<1>3. \A d \in Command \ {c} : told'[d] = told[d]
  BY ToldSame DEF Only
<1>4. ASSUME told'[c] = told[c] PROVE told' = told
  BY <1>2, <1>3, <1>4
<1>5. ASSUME NEW x, told'[c] = x PROVE known(x)
  BY <1>2, <1>3, <1>5
<1>6. CASE Same(c)
  BY <1>1, <1>4, <1>6, ToldSame DEF Promise!vars
<1>7. CASE Created(c)
  <2>1. status[c] = "NONE" /\ status'[c] = "PENDING"
    BY <1>7, ConsistentRow DEF Created, Consistent, ReportsAreExplained
  <2>2. told[c] = "absent" /\ told'[c] = "open"
    BY <2>1 DEF told, Unclosed
  <2> QED
    BY <1>1, <1>5, <2>2 DEF Promise!Next, Promise!Request
<1>8. CASE Works(c)
  <2>1. told[c] = "open" /\ told'[c] = "open"
    BY <1>8 DEF Works, told, Unclosed
  <2> QED
    BY <1>1, <1>4, <2>1 DEF Promise!vars
<1>9. CASE Observed(c)
  <2>1. told[c] = "open"
    BY <1>9 DEF Observed, told, Unclosed
  <2>2. result[c] = "none" /\ result'[c] = "none"
    BY <1>9, ConsistentRow DEF Observed, Unanswered, Unclosed
  <2>3. told'[c] = IF NotAccepted(c)' THEN "refused" ELSE "doubt"
    BY <1>9, <2>2 DEF Observed, told, Unclosed
  <2>4. CASE NotAccepted(c)'
    <3>1. ~MayAct(c)'
      BY <2>4 DEF Consistent, SafetyInv, HarmlessInRow
    <3>2. ~acted[c]
      BY <3>1 DEF MayAct, acted
    <3> QED
      BY <1>1, <1>5, <2>1, <2>3, <2>4, <3>2 DEF Promise!Next, Promise!Refuse
  <2>5. CASE ~NotAccepted(c)'
    BY <1>1, <1>5, <2>1, <2>3, <2>5 DEF Promise!Next, Promise!Doubt
  <2> QED
    BY <2>4, <2>5
<1>10. ~Parked(c)
  BY DEF Parked, Consistent, ReportsAreExplained
<1>11. ASSUME NEW r \in Matching, Concluded(c, r) PROVE Promise!Next
  <2>1. accepted[c] > 0
    BY <1>11 DEF Concluded, Consistent, ReportsAreExplained, Report
  <2>2. ~NotAccepted(c)
    BY <2>1, ConsistentRow DEF MayAct
  <2>3. told[c] \in {"open", "doubt"}
    BY <1>11, <2>2, ConsistentRow DEF Concluded, told, Unclosed
  <2>4. told'[c] = r
    BY <1>11 DEF Concluded, told, Unclosed, Matching
  <2>5. acted[c]
    BY <2>1 DEF acted
  <2>6. r \in Promise!Outcome
    BY DEF Promise!Outcome, Matching
  <2> QED
    BY <1>1, <1>5, <2>3, <2>4, <2>5, <2>6 DEF Promise!Next, Promise!Conclude
<1> QED
  BY <1>6, <1>7, <1>8, <1>9, <1>10, <1>11 DEF Moves

(* The device takes a command on: it acts, for the first time, while the   *)
(* callers know that it may.                                               *)
LEMMA ActPromise ==
    ASSUME Consistent, ~StrayResults, NEW m \in net, EcsAccept(m)
    PROVE  Promise!Next
<1> DEFINE c == m.cmd
<1>1. c \in Command /\ m.type = "COMMAND"
  BY DEF Consistent, TypeOK, NetType, Message, EcsAccept
<1>2. accepted[c] = 0 /\ MayAct(c)
  BY <1>1 DEF Consistent, SafetyInv, RequestsAreSingle, MayAct, InFlight
<1>3. status[c] # "NONE" /\ ~NotAccepted(c) /\ result[c] = "none"
  BY <1>1, <1>2, ConsistentRow
<1>4. told[c] \in {"open", "doubt"}
  BY <1>1, <1>3 DEF told
<1>5. accepted' = [accepted EXCEPT ![c] = 1]
  BY <1>1, <1>2 DEF EcsAccept, Consistent, TypeOK
<1>6. acted' = [acted EXCEPT ![c] = TRUE] /\ ~acted[c]
  <2>1. \A d \in Command : accepted'[d] = (IF d = c THEN 1 ELSE accepted[d])
    BY <1>1, <1>5 DEF Consistent, TypeOK
  <2>2. \A d \in Command : (accepted'[d] > 0) = (IF d = c THEN TRUE ELSE accepted[d] > 0)
    <3>1. (1 > 0) = TRUE
      OBVIOUS
    <3>2. ASSUME NEW d \in Command, d = c
          PROVE  (accepted'[d] > 0) = (IF d = c THEN TRUE ELSE accepted[d] > 0)
      BY <2>1, <3>1, <3>2, Zenon
    <3>3. ASSUME NEW d \in Command, d # c
          PROVE  (accepted'[d] > 0) = (IF d = c THEN TRUE ELSE accepted[d] > 0)
      BY <2>1, <3>3, Zenon
    <3> QED
      BY <3>2, <3>3
  <2>3. acted' = [d \in Command |-> IF d = c THEN TRUE ELSE accepted[d] > 0]
    BY <2>2, Zenon DEF acted
  <2>4. acted = [d \in Command |-> accepted[d] > 0]
    BY DEF acted
  <2>5. [acted EXCEPT ![c] = TRUE] = [d \in Command |-> IF d = c THEN TRUE ELSE accepted[d] > 0]
    BY <2>4, Zenon
  <2>6. acted[c] = (accepted[c] > 0) /\ ~(accepted[c] > 0)
    BY <1>1, <1>2, <2>4
  <2> QED
    BY <2>3, <2>5, <2>6
<1>7. told' = told
  <2>1. UNCHANGED <<status, result, observation>>
    BY DEF EcsAccept, rowVars
  <2> QED
    BY <2>1 DEF told, NotAccepted
<1> QED
  BY <1>1, <1>4, <1>6, <1>7 DEF Promise!Next, Promise!Act

LEMMA StillPromise ==
    ASSUME UNCHANGED accepted, \A d \in Command : Same(d)
    PROVE  UNCHANGED Promise!vars
<1>1. told = [d \in Command |-> told[d]] /\ told' = [d \in Command |-> told'[d]]
  BY DEF told
<1>2. told' = told
  BY <1>1, ToldSame
<1> QED
  BY <1>2 DEF acted, Promise!vars

LEMMA StepPromise ==
    ASSUME Consistent, Consistent', ~StrayResults, [Next]_vars
    PROVE  [Promise!Next]_Promise!vars
<1> USE DEF Consistent
<1>1. ASSUME NEW w \in Worker, Dispatch(w) PROVE [Promise!Next]_Promise!vars
  <2>1. UNCHANGED accepted
    BY <1>1 DEF Dispatch, Claim, EndpointInvalid, EndpointUnavailable, Authorize, TooLateToSend, Send,
       NotSent, Receive, NoTrustedAnswer, WriteAck, WriteBusy, WriteRejected, WriteUnknown,
       FenceMiss, Crash
  <2>2. CASE \A d \in Command : Same(d)
    BY <2>1, <2>2, StillPromise
  <2>3. ASSUME NEW c \in Command, Works(c) \/ Observed(c), Only(c) PROVE [Promise!Next]_Promise!vars
    <3>1. Moves(c)
      BY <2>3 DEF Moves
    <3> QED
      BY <2>1, <2>3, <3>1, RowPromise
  <2> QED
    BY <1>1, <2>2, <2>3, DispatchMoves
<1>2. ASSUME NEW c \in Command, NEW e \in BOOLEAN, NEW t \in Timeout, Create(c, e, t)
      PROVE  [Promise!Next]_Promise!vars
  <2>1. Moves(c) /\ Only(c) /\ UNCHANGED accepted
    BY <1>2, CreateMoves DEF Create, Moves
  <2> QED
    BY <2>1, RowPromise
<1>3. ASSUME NEW c \in Command, Reconcile(c) PROVE [Promise!Next]_Promise!vars
  <2>1. Moves(c) /\ Only(c)
    BY <1>3, ReconcileMoves DEF Moves
  <2>2. UNCHANGED accepted
    BY <1>3 DEF Reconcile, ReconcilePending, ReconcileDispatching, ReconcileAcknowledged
  <2> QED
    BY <2>1, <2>2, RowPromise
<1>4. ASSUME NEW c \in Command, Callback(c) PROVE [Promise!Next]_Promise!vars
  <2>1. Moves(c) /\ Only(c)
    BY <1>4, AcceptMoves, ProcessMoves DEF Moves, Callback
  <2>2. UNCHANGED accepted
    BY <1>4 DEF Callback, AcceptResult, ProcessEvidence
  <2> QED
    BY <2>1, <2>2, RowPromise
<1>5. ASSUME NEW m \in net, Ecs(m) PROVE [Promise!Next]_Promise!vars
  <2>1. CASE EcsAccept(m)
    BY <2>1, ActPromise
  <2>2. ASSUME NEW type, EcsRefuse(m, type) PROVE [Promise!Next]_Promise!vars
    BY <1>5, <2>2, EcsMoves, StillPromise DEF EcsRefuse
  <2> QED
    BY <1>5, <2>1, <2>2 DEF Ecs
<1>6. CASE Tick \/ UNCHANGED vars
  BY <1>6, SameFrame, StillPromise DEF Tick, vars, rowVars
<1> QED
  BY <1>1, <1>2, <1>3, <1>4, <1>5, <1>6 DEF Next

(* Without stray callbacks DeviceCommand implements PhysicalAction: its    *)
(* callers are never told an outcome of an action that did not happen, nor *)
(* a refusal of one that did or will.                                      *)
THEOREM CommandKeepsPromise == ASSUME ~StrayResults PROVE Spec => KeepsPromise
<1>1. Init => Promise!Init
  <2> SUFFICES ASSUME Init PROVE Promise!Init
    OBVIOUS
  <2>1. told = [c \in Command |-> "absent"]
    BY DEF Init, told
  <2>2. \A c \in Command : (accepted[c] > 0) = FALSE
    BY DEF Init
  <2>3. acted = [c \in Command |-> FALSE]
    BY <2>2, Zenon DEF acted
  <2> QED
    BY <2>1, <2>3 DEF Promise!Init
<1>2. Consistent /\ Consistent' /\ [Next]_vars => [Promise!Next]_Promise!vars
  BY StepPromise
<1>3. Spec => []Consistent
  BY ForeignHolds, Safety, ResultMatches, ReportsHold, PTL DEF Consistent
<1> QED
  BY <1>1, <1>2, <1>3, PTL DEF Spec, KeepsPromise, Promise!Spec
=============================================================================
