------------------------- MODULE OutcomePublication -------------------------
(***************************************************************************)
(* How what WES says of a transfer reaches the plugin that asked for it.   *)
(* Whatever forms an outcome raises outcome_version with it; publishers    *)
(* claim the task under a lease, remember version and outcome, let the     *)
(* plugin of the work line store it as evidence in a transaction of its    *)
(* own, and write published_outcome_version back in a third one.  Between  *)
(* them a newer outcome may be formed, the lease may run out and another   *)
(* publisher take over, the process may die, and once nothing is left to   *)
(* publish the work line may be given another plugin.                      *)
(*                                                                         *)
(* What is said, and when it is final, is Transfer's; one task is the      *)
(* whole state, as in TransportTask.                                       *)
(***************************************************************************)
EXTENDS Naturals

CONSTANTS
    Member, Honest, \* of Transfer
    Worker,         \* publish_pending_outcomes loops
    Nobody,         \* the holder of no claim and no lock
    MaxVersion      \* bound of the model: versions said

ASSUME WorkerAssumption == Nobody \notin Worker
ASSUME VersionAssumption == MaxVersion \in Nat

VARIABLES
    told, version, place, taken,    \* of Transfer
    published,      \* published_outcome_version
    claim,          \* outcome_claim_token (its worker)
    leaseOver,      \* has outcome_claim_until passed
    lock,           \* the publisher that holds the row FOR UPDATE
    pc,             \* where each publisher is with the task
    snapshot,       \* the version and outcome it claimed
    plugin,         \* the plugin it resolved
    stored,         \* TRANSPORT_RESULT evidence of the task
    line            \* the plugin the work line has

Transfer == INSTANCE Transfer

taskVars == <<told, version, place, taken>>
rowVars == <<published, claim, leaseOver>>
workerVars == <<lock, pc, snapshot, plugin>>
vars == <<taskVars, rowVars, workerVars, stored, line>>

-----------------------------------------------------------------------------
Plugin == {"own", "other"}
Told == {"absent", "open", "doubt"} \cup Transfer!Final
Outcome == [version : Nat, word : Told]
Evidence == [version : Nat, word : Told, by : Plugin]
NoOutcome == [version |-> 0, word |-> "absent"]

(* The outcome on the row (outcome_version, outcome_json).                 *)
Latest == [version |-> version, word |-> told]

TypeOK ==
    /\ told \in Told /\ version \in Nat /\ taken \in BOOLEAN
    /\ place \in [Member -> Transfer!Place]
    /\ published \in Nat
    /\ claim \in Worker \cup {Nobody} /\ leaseOver \in BOOLEAN
    /\ lock \in Worker \cup {Nobody}
    /\ pc \in [Worker -> {"idle", "claimed", "storing", "published"}]
    /\ snapshot \in [Worker -> Outcome]
    /\ plugin \in [Worker -> Plugin]
    /\ stored \subseteq Evidence
    /\ line \in Plugin

Init ==
    /\ Transfer!Init
    /\ published = 0 /\ claim = Nobody /\ leaseOver = FALSE
    /\ lock = Nobody
    /\ pc = [w \in Worker |-> "idle"]
    /\ snapshot = [w \in Worker |-> NoOutcome]
    /\ plugin = [w \in Worker |-> "own"]
    /\ stored = {}
    /\ line = "own"

-----------------------------------------------------------------------------
(* The transfer moves: every transaction that writes its row locks it, the *)
(* WMS taking it on does not.  Bound: MaxVersion.                          *)
TransferMoves ==
    /\ IF lock = Nobody THEN Transfer!Next ELSE Transfer!Take
    /\ version' <= MaxVersion
    /\ UNCHANGED <<rowVars, workerVars, stored, line>>

LeaseRunsOut ==
    /\ claim # Nobody /\ ~leaseOver
    /\ leaseOver' = TRUE
    /\ UNCHANGED <<taskVars, published, claim, workerVars, stored, line>>

(* Mutant of Claim: only a task without a token is claimed.                *)
ClaimUnclaimed(w) ==
    /\ pc[w] = "idle" /\ lock = Nobody
    /\ version > published
    /\ claim = Nobody
    /\ claim' = w /\ leaseOver' = FALSE
    /\ pc' = [pc EXCEPT ![w] = "claimed"]
    /\ snapshot' = [snapshot EXCEPT ![w] = Latest]
    /\ UNCHANGED <<taskVars, published, lock, plugin, stored, line>>

(* claim_pending_outcomes and the snapshot its caller keeps.               *)
Claim(w) ==
    /\ pc[w] = "idle" /\ lock = Nobody
    /\ version > published
    /\ claim = Nobody \/ leaseOver
    /\ claim' = w /\ leaseOver' = FALSE
    /\ pc' = [pc EXCEPT ![w] = "claimed"]
    /\ snapshot' = [snapshot EXCEPT ![w] = Latest]
    /\ UNCHANGED <<taskVars, published, lock, plugin, stored, line>>

Goes(w, to) == pc' = [pc EXCEPT ![w] = to]

(* Mutant of Admit: the row is read without its lock.                      *)
AdmitUnlocked(w) ==
    /\ pc[w] = "claimed" /\ lock = Nobody
    /\ \/ /\ published >= snapshot[w].version
          /\ Goes(w, "published")
          /\ UNCHANGED plugin
       \/ /\ published < snapshot[w].version
          /\ Goes(w, "storing")
          /\ plugin' = [plugin EXCEPT ![w] = line]
    /\ UNCHANGED <<taskVars, rowVars, lock, snapshot, stored, line>>

(* Mutant of Admit: what the row says by now goes out under the version    *)
(* that was claimed.                                                       *)
AdmitLatestWord(w) ==
    /\ pc[w] = "claimed" /\ lock = Nobody
    /\ published < snapshot[w].version
    /\ lock' = w
    /\ Goes(w, "storing")
    /\ plugin' = [plugin EXCEPT ![w] = line]
    /\ snapshot' = [snapshot EXCEPT ![w].word = told]
    /\ UNCHANGED <<taskVars, rowVars, stored, line>>

(* InstalledPluginTransportOutcomePublisher.publish up to the plugin: the  *)
(* row is locked, a version that is published already is left alone.       *)
Admit(w) ==
    /\ pc[w] = "claimed" /\ lock = Nobody
    /\ \/ /\ published >= snapshot[w].version
          /\ Goes(w, "published")
          /\ UNCHANGED <<lock, plugin>>
       \/ /\ published < snapshot[w].version
          /\ lock' = w
          /\ Goes(w, "storing")
          /\ plugin' = [plugin EXCEPT ![w] = line]
    /\ UNCHANGED <<taskVars, rowVars, snapshot, stored, line>>

(* InboundEvidenceService.accept under transport:<task>:outcome:<version>: *)
(* the same evidence again is a duplicate, another one a conflict.         *)
Content(w) == [version |-> snapshot[w].version, word |-> snapshot[w].word, by |-> plugin[w]]
Conflicts(w) == \E s \in stored : s.version = snapshot[w].version /\ s # Content(w)

Unlock(w) == lock' = IF lock = w THEN Nobody ELSE lock

(* The plugin stores the outcome; the transaction commits.                 *)
Store(w) ==
    /\ pc[w] = "storing" /\ ~Conflicts(w)
    /\ stored' = stored \cup {Content(w)}
    /\ Unlock(w)
    /\ Goes(w, "published")
    /\ UNCHANGED <<taskVars, rowVars, snapshot, plugin, line>>

(* The plugin raises, the publication times out (perhaps when its commit   *)
(* is already done) or the process dies: the claim stays on the row.       *)
GiveUp(w) ==
    /\ pc[w] # "idle"
    /\ \/ UNCHANGED stored
       \/ pc[w] = "storing" /\ ~Conflicts(w) /\ stored' = stored \cup {Content(w)}
    /\ Unlock(w)
    /\ Goes(w, "idle")
    /\ UNCHANGED <<taskVars, rowVars, snapshot, plugin, line>>

(* Mutants of WriteBack: the version of the row, not the one that was      *)
(* stored, is published; and nothing is compared at all.                   *)
WriteLatest(w) ==
    /\ pc[w] = "published" /\ lock = Nobody
    /\ IF claim = w
       THEN published' = version /\ claim' = Nobody /\ leaseOver' = FALSE
       ELSE UNCHANGED rowVars
    /\ Goes(w, "idle")
    /\ UNCHANGED <<taskVars, lock, snapshot, plugin, stored, line>>

WriteAnyway(w) ==
    /\ pc[w] = "published" /\ lock = Nobody
    /\ published' = snapshot[w].version /\ claim' = Nobody /\ leaseOver' = FALSE
    /\ Goes(w, "idle")
    /\ UNCHANGED <<taskVars, lock, snapshot, plugin, stored, line>>

(* The last transaction of publish_pending_outcomes: a publisher that lost *)
(* its claim, or whose version is not the latest any more, writes nothing  *)
(* (and leaves the claim to run out).                                      *)
WriteBack(w) ==
    /\ pc[w] = "published" /\ lock = Nobody
    /\ IF claim = w /\ version = snapshot[w].version
       THEN published' = version /\ claim' = Nobody /\ leaseOver' = FALSE
       ELSE UNCHANGED rowVars
    /\ Goes(w, "idle")
    /\ UNCHANGED <<taskVars, lock, snapshot, plugin, stored, line>>

(* WorkLineConfigurationService.save, once get_unfinished_workload_summary *)
(* finds the task settled and published; it does not lock the task.        *)
Reconfigure ==
    /\ told \in Transfer!Final /\ version = published
    /\ line' = "other"
    /\ UNCHANGED <<taskVars, rowVars, workerVars, stored>>

Publish(w) == Claim(w) \/ Admit(w) \/ Store(w) \/ GiveUp(w) \/ WriteBack(w)

Next == TransferMoves \/ LeaseRunsOut \/ Reconfigure \/ \E w \in Worker : Publish(w)

Spec == Init /\ [][Next]_vars

(* Beat starts a batch every ten seconds, so an unpublished task is        *)
(* claimed in the end, and not every attempt of every publisher fails:     *)
(* what may be done again and again at some point is done.                 *)
Fairness ==
    /\ WF_vars(LeaseRunsOut)
    /\ WF_vars(\E w \in Worker : Claim(w))
    /\ \A w \in Worker : WF_vars(Admit(w)) /\ WF_vars(Store(w)) /\ WF_vars(WriteBack(w))
    /\ SF_vars(\E w \in Worker : claim = w /\ Admit(w))
    /\ SF_vars(\E w \in Worker : claim = w /\ Store(w))
    /\ SF_vars(\E w \in Worker : claim = w /\ version = snapshot[w].version /\ WriteBack(w))

FairSpec == Spec /\ Fairness

-----------------------------------------------------------------------------
(* Properties.                                                             *)

(* Whoever finds the latest outcome marked as published finds it stored    *)
(* under its version, as the row has it: the readers in the plugins look   *)
(* it up by that identity and compare it with the row (drain_inbound_      *)
(* repository.py, target_rotation_repository.py).                          *)
PublishedIsStored ==
    version > 0 /\ published = version =>
        \E s \in stored : s.version = version /\ s.word = told

(* A plugin that has been given a final outcome will never be given        *)
(* another one: it is the last version and what the row says.              *)
FinalWordIsLast ==
    \A s \in stored : s.word \in Transfer!Final => s.version = version /\ s.word = told

(* Publishers that overlap never store different outcomes under one        *)
(* version: the conflict that would block the task for good never arises.  *)
NeverConflicts == \A w \in Worker : pc[w] = "storing" => ~Conflicts(w)

(* No publication continues after the work line was given another plugin   *)
(* (plugin_routing.py says why it keeps the row locked).                   *)
NothingAfterReconfigure == [][line = "other" => UNCHANGED stored]_vars

(* A slow publisher never takes published_outcome_version back, nor hands  *)
(* the plugin a version below it.                                          *)
PublishedMovesForward ==
    [][/\ published' >= published
       /\ \A s \in stored' \ stored : s.version > published]_vars

(* The last word about a transfer is published in the end, whoever crashed *)
(* on the way and however many versions came before.                       *)
LastWordIsPublished == told \in Transfer!Final ~> told \in Transfer!Final /\ published = version
-----------------------------------------------------------------------------
(* Why they hold: the inductive invariant.                                 *)

Busy(w) == pc[w] # "idle"

(* An outcome somebody carries is one that was said: under its version, or *)
(* below the latest one and then not final.                                *)
WasSaid(o) ==
    /\ o.version \in 1 .. version
    /\ o.version = version => o.word = told
    /\ o.word \in Transfer!Final => o.version = version

(* The row: nothing is published that was not said, and a version is a     *)
(* word about the transfer.                                                *)
RowIsSound ==
    /\ published <= version
    /\ version = 0 <=> told \in {"absent", "open"}

CarriedWasSaid ==
    /\ \A s \in stored : WasSaid(s)
    /\ \A w \in Worker : Busy(w) => WasSaid(snapshot[w])

(* One version, one word.                                                  *)
CarriedAgrees ==
    \A w \in Worker : Busy(w) =>
        /\ \A s \in stored : s.version = snapshot[w].version => s.word = snapshot[w].word
        /\ \A x \in Worker : Busy(x) /\ snapshot[x].version = snapshot[w].version =>
               snapshot[x].word = snapshot[w].word

(* The lock is held by the one that stores, and what it stores is not      *)
(* published yet: so nobody can reconfigure the line.                      *)
LockIsHeld ==
    /\ \A w \in Worker : pc[w] = "storing" => lock = w /\ published < snapshot[w].version
    /\ lock # Nobody => pc[lock] = "storing"

(* A line that has another plugin has nothing left to publish.             *)
LineIsDone ==
    /\ line = "other" => told \in Transfer!Final /\ published = version
    /\ \A w \in Worker : pc[w] = "storing" => plugin[w] = "own"
    /\ \A s \in stored : s.by = "own"

(* A publisher writes back what is stored, or published already.           *)
WriteBackIsTrue ==
    \A w \in Worker : pc[w] = "published" =>
        \/ published >= snapshot[w].version
        \/ \E s \in stored : s.version = snapshot[w].version

PublicationInv == /\ RowIsSound /\ CarriedWasSaid /\ CarriedAgrees /\ LockIsHeld
                  /\ LineIsDone /\ WriteBackIsTrue /\ PublishedIsStored
=============================================================================
