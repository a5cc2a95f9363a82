--------------------------- MODULE PhysicalAction ---------------------------
(***************************************************************************)
(* What DeviceCommand promises its callers about one physical action: what *)
(* they are told, and what the device does.  No workers, no leases, no     *)
(* clock, no messages: the device acts at most once, only while the action *)
(* is still open or in doubt; "refused" is told only of an action that has *)
(* not happened, and never changes; an outcome is told only of an action   *)
(* that did.                                                               *)
(***************************************************************************)
CONSTANT Command

VARIABLES
    told,       \* what WES knows and tells about each command
    acted       \* has the device acted on it

vars == <<told, acted>>

Outcome == {"SUCCESS", "FAILED"}

TypeOK == /\ told \in [Command -> {"absent", "open", "doubt", "refused"} \cup Outcome]
          /\ acted \in [Command -> BOOLEAN]

Init == /\ told = [c \in Command |-> "absent"]
        /\ acted = [c \in Command |-> FALSE]

Request(c) == /\ told[c] = "absent"
              /\ told' = [told EXCEPT ![c] = "open"]
              /\ UNCHANGED acted

Act(c) == /\ told[c] \in {"open", "doubt"}
          /\ ~acted[c]
          /\ acted' = [acted EXCEPT ![c] = TRUE]
          /\ UNCHANGED told

Refuse(c) == /\ told[c] = "open"
             /\ ~acted[c]
             /\ told' = [told EXCEPT ![c] = "refused"]
             /\ UNCHANGED acted

(* Whether it acted or not is no longer known; only the device can tell.   *)
Doubt(c) == /\ told[c] = "open"
            /\ told' = [told EXCEPT ![c] = "doubt"]
            /\ UNCHANGED acted

Conclude(c, outcome) == /\ told[c] \in {"open", "doubt"}
                        /\ acted[c]
                        /\ told' = [told EXCEPT ![c] = outcome]
                        /\ UNCHANGED acted

Next == \E c \in Command :
            \/ Request(c) \/ Act(c) \/ Refuse(c) \/ Doubt(c)
            \/ \E outcome \in Outcome : Conclude(c, outcome)

Spec == Init /\ [][Next]_vars
=============================================================================
