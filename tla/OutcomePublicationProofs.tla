---------------------- MODULE OutcomePublicationProofs ----------------------
(* The outcomes of a transfer reach the plugin as they were said.          *)
(*                                                                         *)
(* Nothing is carried, by a publisher or in the evidence, that was not     *)
(* said: an outcome below the latest version is not final, because after a *)
(* final word Transfer says nothing (CarriedWasSaid, which every word said *)
(* and every claim keeps).  Storing needs the lock and an unpublished      *)
(* version, reconfiguring needs all published: that is why they exclude    *)
(* each other (LockIsHeld, LineIsDone).                                    *)
EXTENDS OutcomePublication, TLAPS

-----------------------------------------------------------------------------
(* Types, and what the transfer may do to what it said.                    *)

LEMMA TransferTypes ==
  ASSUME TypeOK, Transfer!Next
  PROVE  told' \in Told /\ version' \in Nat /\ taken' \in BOOLEAN
         /\ place' \in [Member -> Transfer!Place]
<1>1. told \in Told /\ version \in Nat /\ taken \in BOOLEAN /\ place \in [Member -> Transfer!Place]
  BY DEF TypeOK
<1>2. CASE Transfer!Ask
  BY <1>1, <1>2 DEF Told, Transfer!Ask
<1>3. CASE Transfer!Take
  <2>1. told' = told /\ version' = version /\ place' = place /\ taken' = TRUE
    BY <1>3 DEF Transfer!Take
  <2>. QED BY <1>1, <2>1
<1>4. CASE Transfer!Refuse \/ Transfer!Withdraw
  <2>1. told' \in Transfer!Final /\ version' = version + 1 /\ place' = place /\ taken' = taken
    BY <1>4 DEF Transfer!Refuse, Transfer!Withdraw, Transfer!Say, Transfer!Final
  <2>. QED BY <1>1, <2>1 DEF Told
<1>5. CASE Transfer!Learn
  <2>1. place' \in [Member -> Transfer!Place] /\ taken' = taken
    BY <1>5 DEF Transfer!Learn
  <2>2. told' \in Told /\ version' \in Nat
    BY <1>1, <1>5 DEF Transfer!Learn, Told, Transfer!Say, Transfer!Final
  <2>. QED BY <1>1, <2>1, <2>2
<1>. QED BY <1>2, <1>3, <1>4, <1>5 DEF Transfer!Next

LEMMA TransferWords ==
  ASSUME TypeOK, Transfer!Next
  PROVE  \/ UNCHANGED <<told, version>>
         \/ told = "absent" /\ told' = "open" /\ version' = version
         \/ /\ told \in {"open", "doubt"} /\ told' \in Transfer!Final \cup {"doubt"}
            /\ version' = version + 1
  BY DEF Transfer!Next, Transfer!Ask, Transfer!Take, Transfer!Refuse,
         Transfer!Withdraw, Transfer!Learn, Transfer!Say, Transfer!Final

LEMMA InitTypes ==
  ASSUME Init
  PROVE  TypeOK
  BY DEF Init, Transfer!Init, TypeOK, Told, Transfer!Place, Outcome, NoOutcome, Plugin

LEMMA PublishTypes ==
  ASSUME NEW w \in Worker, TypeOK, Publish(w)
  PROVE  TypeOK'
<1>1. /\ Content(w) \in Evidence /\ Latest \in Outcome
      /\ UNCHANGED taskVars
  BY DEF TypeOK, Content, Evidence, Outcome, Latest, Publish, Claim, Admit, Store, GiveUp,
         WriteBack
<1>2. CASE Claim(w)
  BY <1>1, <1>2 DEF Claim, TypeOK, taskVars
<1>3. CASE Admit(w)
  BY <1>1, <1>3 DEF Admit, Goes, TypeOK, taskVars, rowVars
<1>4. CASE Store(w)
  BY <1>1, <1>4 DEF Store, Goes, Unlock, TypeOK, taskVars, rowVars
<1>5. CASE GiveUp(w)
  BY <1>1, <1>5 DEF GiveUp, Goes, Unlock, TypeOK, taskVars, rowVars
<1>6. CASE WriteBack(w)
  BY <1>1, <1>6 DEF WriteBack, Goes, TypeOK, taskVars, rowVars
<1>. QED BY <1>2, <1>3, <1>4, <1>5, <1>6 DEF Publish

LEMMA StepTypes ==
  ASSUME TypeOK, [Next]_vars
  PROVE  TypeOK'
<1>1. CASE TransferMoves
  <2>1. Transfer!Next
    BY <1>1 DEF TransferMoves, Transfer!Next
  <2>. QED BY <1>1, <2>1, TransferTypes DEF TransferMoves, TypeOK, rowVars, workerVars
<1>2. CASE LeaseRunsOut
  BY <1>2 DEF LeaseRunsOut, TypeOK, taskVars, workerVars
<1>3. CASE Reconfigure
  BY <1>3 DEF Reconfigure, TypeOK, taskVars, rowVars, workerVars, Plugin
<1>4. CASE \E w \in Worker : Publish(w)
  BY <1>4, PublishTypes
<1>5. CASE UNCHANGED vars
  BY <1>5 DEF vars, TypeOK, taskVars, rowVars, workerVars
<1>. QED BY <1>1, <1>2, <1>3, <1>4, <1>5 DEF Next

(* Every column, every local variable and every piece of evidence keeps    *)
(* its type.                                                               *)
THEOREM Typing == Spec => []TypeOK
<1>. QED BY InitTypes, StepTypes, PTL DEF Spec

-----------------------------------------------------------------------------
(* One lemma per action.                                                   *)

LEMMA InitPublication ==
  ASSUME Init
  PROVE  PublicationInv
  BY WorkerAssumption DEF Init, Transfer!Init, PublicationInv, RowIsSound, CarriedWasSaid,
     CarriedAgrees, LockIsHeld, LineIsDone, WriteBackIsTrue, PublishedIsStored, Busy

LEMMA TransferStep ==
  ASSUME TypeOK, PublicationInv, TransferMoves
  PROVE  PublicationInv'
<1>1. Transfer!Next /\ UNCHANGED <<rowVars, workerVars, stored, line>>
  BY DEF TransferMoves, Transfer!Next
<1>2. lock # Nobody => UNCHANGED <<told, version>>
  BY DEF TransferMoves, Transfer!Take
<1>3. \/ UNCHANGED <<told, version>>
      \/ told = "absent" /\ told' = "open" /\ version' = version
      \/ /\ told \in {"open", "doubt"} /\ told' \in Transfer!Final \cup {"doubt"}
         /\ version' = version + 1
  BY <1>1, TransferWords
<1>4. ASSUME NEW o, o.version \in Nat, WasSaid(o)
      PROVE  WasSaid(o)'
  BY <1>3, <1>4 DEF WasSaid, TypeOK, PublicationInv, RowIsSound, Transfer!Final
<1>5. RowIsSound'
  BY <1>1, <1>3 DEF RowIsSound, PublicationInv, TypeOK, rowVars, Transfer!Final
<1>6. CarriedWasSaid'
  <2>1. /\ \A s \in stored : s.version \in Nat
        /\ \A w \in Worker : snapshot[w].version \in Nat
    BY DEF TypeOK, Evidence, Outcome
  <2>. QED BY <1>1, <1>4, <2>1 DEF CarriedWasSaid, PublicationInv, Busy, workerVars
<1>7. CarriedAgrees' /\ LockIsHeld' /\ WriteBackIsTrue'
  BY <1>1 DEF CarriedAgrees, LockIsHeld, WriteBackIsTrue, PublicationInv, Busy, workerVars, rowVars
<1>8. LineIsDone'
  BY <1>1, <1>3 DEF LineIsDone, PublicationInv, workerVars, rowVars, Transfer!Final
<1>9. PublishedIsStored'
  BY <1>1, <1>3 DEF PublishedIsStored, RowIsSound, PublicationInv, TypeOK, rowVars, Transfer!Final
<1>. QED BY <1>5, <1>6, <1>7, <1>8, <1>9 DEF PublicationInv

LEMMA ReconfigureStep ==
  ASSUME TypeOK, PublicationInv, Reconfigure
  PROVE  PublicationInv'
<1>1. /\ UNCHANGED <<taskVars, rowVars, workerVars, stored>>
      /\ told \in Transfer!Final /\ published = version
  BY DEF Reconfigure
<1>2. RowIsSound' /\ CarriedWasSaid' /\ CarriedAgrees' /\ LockIsHeld' /\ WriteBackIsTrue'
      /\ PublishedIsStored'
  BY <1>1 DEF PublicationInv, RowIsSound, CarriedWasSaid, CarriedAgrees, LockIsHeld,
     WriteBackIsTrue, PublishedIsStored, WasSaid, Busy, taskVars, rowVars, workerVars
<1>3. LineIsDone'
  BY <1>1 DEF LineIsDone, PublicationInv, taskVars, rowVars, workerVars
<1>. QED BY <1>2, <1>3 DEF PublicationInv

LEMMA ClaimStep ==
  ASSUME NEW w \in Worker, TypeOK, PublicationInv, Claim(w)
  PROVE  PublicationInv'
<1>1. /\ UNCHANGED <<taskVars, published, lock, plugin, stored, line>>
      /\ pc[w] = "idle" /\ version > published
      /\ pc' = [pc EXCEPT ![w] = "claimed"]
      /\ snapshot' = [snapshot EXCEPT ![w] = Latest]
  BY DEF Claim
<1>2. /\ snapshot'[w] = Latest /\ pc'[w] = "claimed"
      /\ \A x \in Worker \ {w} : snapshot'[x] = snapshot[x] /\ pc'[x] = pc[x]
  BY <1>1 DEF TypeOK
<1>3. /\ Latest.version = version /\ Latest.word = told /\ version \in 1 .. version
  BY <1>1 DEF Latest, TypeOK
<1>4. RowIsSound' /\ PublishedIsStored'
  BY <1>1 DEF PublicationInv, RowIsSound, PublishedIsStored, taskVars
<1>5. CarriedWasSaid'
  BY <1>1, <1>2, <1>3 DEF CarriedWasSaid, PublicationInv, WasSaid, Busy, taskVars
<1>6. CarriedAgrees'
  BY <1>1, <1>2, <1>3 DEF CarriedAgrees, CarriedWasSaid, PublicationInv, WasSaid, Busy, taskVars
<1>7. LockIsHeld' /\ LineIsDone' /\ WriteBackIsTrue'
  BY <1>1, <1>2 DEF PublicationInv, LockIsHeld, LineIsDone, WriteBackIsTrue, taskVars, TypeOK
<1>. QED BY <1>4, <1>5, <1>6, <1>7 DEF PublicationInv

(* What no step of a busy publisher changes but the lock and the evidence. *)
LEMMA BusyStep ==
  ASSUME NEW w \in Worker, NEW to \in {"idle", "storing", "published"},
         TypeOK, PublicationInv, Busy(w), Goes(w, to),
         UNCHANGED <<taskVars, snapshot, line>>,
         stored' = stored \/ (pc[w] = "storing" /\ stored' = stored \cup {Content(w)})
  PROVE  CarriedWasSaid' /\ CarriedAgrees' /\ (\A s \in stored' : s.by = "own")
         /\ \A x \in Worker : pc'[x] = IF x = w THEN to ELSE pc[x]
<1>1. \A x \in Worker : pc'[x] = IF x = w THEN to ELSE pc[x]
  BY DEF Goes, TypeOK
<1>2. \A x \in Worker : Busy(x)' => Busy(x)
  BY <1>1 DEF Busy
<1>3. \A s \in stored' : s \in stored \/ (s = Content(w) /\ pc[w] = "storing")
  OBVIOUS
<1>4. /\ Content(w).version = snapshot[w].version /\ Content(w).word = snapshot[w].word
      /\ Content(w).by = plugin[w]
  BY DEF Content
<1>5. CarriedWasSaid'
  BY <1>2, <1>3, <1>4 DEF CarriedWasSaid, PublicationInv, WasSaid, taskVars
<1>6. CarriedAgrees'
  BY <1>2, <1>3, <1>4 DEF CarriedAgrees, PublicationInv
<1>7. \A s \in stored' : s.by = "own"
  BY <1>3, <1>4 DEF PublicationInv, LineIsDone
<1>. QED BY <1>1, <1>5, <1>6, <1>7

LEMMA AdmitStep ==
  ASSUME NEW w \in Worker, TypeOK, PublicationInv, Admit(w)
  PROVE  PublicationInv'
<1>1. /\ UNCHANGED <<taskVars, rowVars, snapshot, stored, line>>
      /\ lock = Nobody /\ Busy(w) /\ pc[w] = "claimed"
  BY DEF Admit, Busy
<1>2. PICK to \in {"idle", "storing", "published"} :
        /\ Goes(w, to)
        /\ \/ /\ to = "published" /\ published >= snapshot[w].version
              /\ UNCHANGED <<lock, plugin>>
           \/ /\ to = "storing" /\ published < snapshot[w].version
              /\ lock' = w /\ plugin' = [plugin EXCEPT ![w] = line]
  BY DEF Admit
<1>3. CarriedWasSaid' /\ CarriedAgrees' /\ (\A s \in stored' : s.by = "own")
      /\ \A x \in Worker : pc'[x] = IF x = w THEN to ELSE pc[x]
  BY <1>1, <1>2, BusyStep
<1>4. RowIsSound' /\ PublishedIsStored'
  BY <1>1 DEF PublicationInv, RowIsSound, PublishedIsStored, taskVars, rowVars
<1>5. \A x \in Worker : pc[x] # "storing"
  BY <1>1, WorkerAssumption DEF PublicationInv, LockIsHeld
<1>6. LockIsHeld'
  BY <1>1, <1>2, <1>3, <1>5 DEF LockIsHeld, rowVars
<1>7. LineIsDone'
  <2>1. to = "storing" => line = "own"
    <3>1. snapshot[w].version <= version /\ snapshot[w].version \in Nat
      BY <1>1 DEF PublicationInv, CarriedWasSaid, WasSaid, TypeOK
    <3>. QED BY <1>2, <3>1 DEF PublicationInv, LineIsDone, TypeOK, Plugin
  <2>2. \A x \in Worker : pc'[x] = "storing" => plugin'[x] = "own"
    BY <1>2, <1>3, <1>5, <2>1 DEF TypeOK
  <2>. QED BY <1>1, <1>3, <2>2 DEF LineIsDone, PublicationInv, taskVars, rowVars
<1>8. WriteBackIsTrue'
  BY <1>1, <1>2, <1>3 DEF WriteBackIsTrue, PublicationInv, rowVars
<1>. QED BY <1>3, <1>4, <1>6, <1>7, <1>8 DEF PublicationInv

(* Storing and giving up: the row is untouched, the lock is given back.    *)
LEMMA ReleaseStep ==
  ASSUME NEW w \in Worker, NEW to \in {"idle", "published"},
         TypeOK, PublicationInv, Busy(w), Goes(w, to), Unlock(w),
         UNCHANGED <<taskVars, rowVars, snapshot, plugin, line>>,
         stored' = stored \/ (pc[w] = "storing" /\ stored' = stored \cup {Content(w)}),
         to = "published" => Content(w) \in stored'
  PROVE  PublicationInv'
<1>1. CarriedWasSaid' /\ CarriedAgrees' /\ (\A s \in stored' : s.by = "own")
      /\ \A x \in Worker : pc'[x] = IF x = w THEN to ELSE pc[x]
  BY BusyStep
<1>2. RowIsSound'
  BY DEF PublicationInv, RowIsSound, taskVars, rowVars
<1>3. PublishedIsStored'
  BY DEF PublicationInv, PublishedIsStored, taskVars, rowVars
<1>4. LockIsHeld'
  BY <1>1, WorkerAssumption DEF PublicationInv, LockIsHeld, Unlock, rowVars, TypeOK
<1>5. LineIsDone'
  BY <1>1 DEF PublicationInv, LineIsDone, taskVars, rowVars
<1>6. WriteBackIsTrue'
  BY <1>1 DEF PublicationInv, WriteBackIsTrue, Content, rowVars
<1>. QED BY <1>1, <1>2, <1>3, <1>4, <1>5, <1>6 DEF PublicationInv

LEMMA WriteBackStep ==
  ASSUME NEW w \in Worker, TypeOK, PublicationInv, WriteBack(w)
  PROVE  PublicationInv' /\ published' >= published
<1>1. /\ UNCHANGED <<taskVars, lock, snapshot, plugin, stored, line>>
      /\ lock = Nobody /\ Busy(w) /\ pc[w] = "published" /\ Goes(w, "idle")
  BY DEF WriteBack, Busy
<1>2. CarriedWasSaid' /\ CarriedAgrees' /\ (\A s \in stored' : s.by = "own")
      /\ \A x \in Worker : pc'[x] = IF x = w THEN "idle" ELSE pc[x]
  BY <1>1, BusyStep
<1>3. published' = published \/ (published' = version /\ version = snapshot[w].version)
  BY DEF WriteBack, rowVars
<1>4. published' >= published /\ published' <= version /\ published' \in Nat
  BY <1>3 DEF PublicationInv, RowIsSound, TypeOK
<1>5. RowIsSound'
  BY <1>1, <1>4 DEF PublicationInv, RowIsSound, taskVars
<1>6. PublishedIsStored'
  <2>1. CASE published' = published
    BY <1>1, <2>1 DEF PublicationInv, PublishedIsStored, taskVars
  <2>2. CASE version = snapshot[w].version /\ published >= version
    BY <1>1, <2>2 DEF PublicationInv, RowIsSound, PublishedIsStored, taskVars, TypeOK
  <2>3. CASE \E s \in stored : s.version = version
    BY <1>1, <2>3 DEF PublicationInv, CarriedWasSaid, WasSaid, PublishedIsStored, taskVars
  <2>. QED BY <1>1, <1>3, <2>1, <2>2, <2>3 DEF PublicationInv, WriteBackIsTrue
<1>7. LockIsHeld'
  BY <1>1, <1>2, WorkerAssumption DEF PublicationInv, LockIsHeld
<1>8. LineIsDone'
  BY <1>1, <1>2, <1>3 DEF PublicationInv, LineIsDone, taskVars
<1>9. WriteBackIsTrue'
  <2>1. \A x \in Worker : snapshot[x].version \in Nat
    BY DEF TypeOK, Outcome
  <2>. QED BY <1>1, <1>2, <1>4, <2>1 DEF PublicationInv, WriteBackIsTrue, TypeOK
<1>. QED BY <1>2, <1>4, <1>5, <1>6, <1>7, <1>8, <1>9 DEF PublicationInv

LEMMA PublicationStep ==
  ASSUME TypeOK, PublicationInv, [Next]_vars
  PROVE  PublicationInv'
<1>1. CASE LeaseRunsOut \/ UNCHANGED vars
  BY <1>1 DEF LeaseRunsOut, vars, PublicationInv, RowIsSound, CarriedWasSaid, CarriedAgrees,
     LockIsHeld, LineIsDone, WriteBackIsTrue, PublishedIsStored, WasSaid, Busy, taskVars,
     rowVars, workerVars
<1>2. ASSUME NEW w \in Worker, Publish(w)
      PROVE  PublicationInv'
  <2>1. CASE Store(w)
    BY <2>1, ReleaseStep DEF Store, Busy
  <2>2. CASE GiveUp(w)
    BY <2>2, ReleaseStep DEF GiveUp, Busy
  <2>. QED BY <1>2, <2>1, <2>2, ClaimStep, AdmitStep, WriteBackStep DEF Publish
<1>. QED BY <1>1, <1>2, TransferStep, ReconfigureStep DEF Next

(* Whatever is claimed, stored and published was said, under its version.  *)
THEOREM Publication == Spec => []PublicationInv
<1>. QED BY InitPublication, PublicationStep, Typing, PTL DEF Spec

-----------------------------------------------------------------------------
(* The properties.                                                         *)

(* What is marked as published is stored, as the row has it.               *)
THEOREM Readers == Spec => []PublishedIsStored
<1>1. PublicationInv => PublishedIsStored
  BY DEF PublicationInv
<1>. QED BY <1>1, Publication, PTL

(* A final outcome a plugin was given is the last.                         *)
THEOREM Finality == Spec => []FinalWordIsLast
<1>1. PublicationInv => FinalWordIsLast
  BY DEF PublicationInv, CarriedWasSaid, WasSaid, FinalWordIsLast
<1>. QED BY <1>1, Publication, PTL

(* Evidence under one version never conflicts.                             *)
THEOREM NoConflict == Spec => []NeverConflicts
<1>1. ASSUME TypeOK, PublicationInv, NEW w \in Worker, pc[w] = "storing"
      PROVE  ~Conflicts(w)
  <2>. SUFFICES ASSUME NEW s \in stored, s.version = snapshot[w].version
                PROVE  s = Content(w)
    BY DEF Conflicts
  <2>1. s.word = snapshot[w].word
    BY <1>1 DEF PublicationInv, CarriedAgrees, Busy
  <2>2. s.by = "own" /\ plugin[w] = "own"
    BY <1>1 DEF PublicationInv, LineIsDone
  <2>3. s = [version |-> s.version, word |-> s.word, by |-> s.by]
    BY <1>1 DEF TypeOK, Evidence
  <2>. QED BY <2>1, <2>2, <2>3 DEF Content
<1>2. TypeOK /\ PublicationInv => NeverConflicts
  BY <1>1 DEF NeverConflicts
<1>. QED BY <1>2, Typing, Publication, PTL

LEMMA NewEvidence ==
  ASSUME TypeOK, PublicationInv, [Next]_vars
  PROVE  \/ UNCHANGED stored
         \/ \E w \in Worker : pc[w] = "storing" /\ stored' = stored \cup {Content(w)}
                              /\ UNCHANGED published
  BY DEF Next, vars, TransferMoves, LeaseRunsOut, Reconfigure, Publish, Claim, Admit, Store,
     GiveUp, WriteBack, rowVars

(* No publication continues after the line was given another plugin.       *)
THEOREM Reconfiguration == Spec => NothingAfterReconfigure
<1>1. ASSUME TypeOK, PublicationInv, [Next]_vars, line = "other"
      PROVE  UNCHANGED stored
  <2>. SUFFICES ASSUME NEW w \in Worker, pc[w] = "storing"
                PROVE  FALSE
    BY <1>1, NewEvidence
  <2>1. published < snapshot[w].version /\ snapshot[w].version <= version
    BY <1>1 DEF PublicationInv, LockIsHeld, CarriedWasSaid, WasSaid, Busy
  <2>. QED BY <1>1, <2>1 DEF PublicationInv, LineIsDone, TypeOK, Outcome
<1>. QED BY <1>1, Typing, Publication, PTL DEF Spec, NothingAfterReconfigure

(* The published version only grows, and nothing below it is handed over.  *)
THEOREM Forward == Spec => PublishedMovesForward
<1>1. ASSUME TypeOK, PublicationInv, [Next]_vars
      PROVE  /\ published' >= published
             /\ \A s \in stored' \ stored : s.version > published
  <2>1. published' >= published
    <3>1. CASE \E w \in Worker : WriteBack(w)
      BY <1>1, <3>1, WriteBackStep
    <3>2. CASE ~\E w \in Worker : WriteBack(w)
      <4>1. published' = published
        BY <1>1, <3>2 DEF Next, vars, TransferMoves, LeaseRunsOut, Reconfigure, Publish, Claim,
           Admit, Store, GiveUp, rowVars
      <4>. QED BY <1>1, <4>1 DEF TypeOK
    <3>. QED BY <3>1, <3>2
  <2>2. \A s \in stored' \ stored : s.version > published
    <3>1. ASSUME NEW w \in Worker, pc[w] = "storing"
          PROVE  Content(w).version > published
      BY <1>1, <3>1 DEF PublicationInv, LockIsHeld, Content, TypeOK, Outcome
    <3>. QED BY <1>1, <3>1, NewEvidence
  <2>. QED BY <2>1, <2>2
<1>. QED BY <1>1, Typing, Publication, PTL DEF Spec, PublishedMovesForward
=============================================================================
