------------------------------ MODULE Transfer ------------------------------
(***************************************************************************)
(* What TransportTask promises the owner of one transfer, and those who    *)
(* read its outcome: no workers, leases, attempts, evidence or messages.   *)
(* The WMS takes a transfer at most once and never one that was called     *)
(* refused.  Places are learnt, and what is known of a place stands.  Each *)
(* new word about the transfer has the next version; the last word is      *)
(* final: arrived with everything at its target, lost with everything at   *)
(* a known place, refused, or withdrawn.  A WMS that reports only what it  *)
(* took (Honest) is believed about nothing else.                           *)
(***************************************************************************)
EXTENDS Naturals

CONSTANTS Member, Honest

VARIABLES
    told,       \* what WES says of the transfer
    version,    \* how often it has said so
    place,      \* where it knows each member to be
    taken       \* has the WMS taken it

vars == <<told, version, place, taken>>

Known == {"target", "elsewhere"}
Place == Known \cup {"none", "unknown"}
Final == {"arrived", "lost", "refused", "withdrawn"}

Init ==
    /\ told = "absent"
    /\ version = 0
    /\ place = [m \in Member |-> "none"]
    /\ taken = FALSE

Say(word) == told' = word /\ version' = version + 1

Ask ==
    /\ told = "absent"
    /\ told' = "open"
    /\ UNCHANGED <<version, place, taken>>

(* The finding of tt_withdrawn: also after it was withdrawn.               *)
Take ==
    /\ told \notin {"absent", "refused"}
    /\ ~taken
    /\ taken' = TRUE
    /\ UNCHANGED <<told, version, place>>

Refuse ==
    /\ told = "open" /\ ~taken
    /\ Say("refused")
    /\ UNCHANGED <<place, taken>>

Withdraw ==
    /\ told = "open"
    /\ Say("withdrawn")
    /\ UNCHANGED <<place, taken>>

(* Something is heard of the members, and perhaps something said of it.    *)
Learn ==
    /\ told \in {"open", "doubt"}
    /\ Honest => taken
    /\ place' \in [Member -> Place]
    /\ \A m \in Member : /\ place[m] \in Known => place'[m] = place[m]
                         /\ place[m] # "none" => place'[m] # "none"
    /\ \/ UNCHANGED <<told, version>>
       \/ Say("doubt")
       \/ Say("arrived") /\ \A m \in Member : place'[m] = "target"
       \/ Say("lost") /\ \A m \in Member : place'[m] \in Known
    /\ UNCHANGED taken

Next == Ask \/ Take \/ Refuse \/ Withdraw \/ Learn

Spec == Init /\ [][Next]_vars
=============================================================================
