----------------------------- MODULE Decisions -----------------------------
(***************************************************************************)
(* What FactProcessor promises those whose facts it decides: no workers,   *)
(* claims, attempts or statuses.  A fact is decided once, together with    *)
(* all the decision does.  An event is consumed, or opens the execution of *)
(* a material; the facts of the execution are decided while it is open,    *)
(* the decision to complete closes it, and after that nothing is asked,    *)
(* paused or held for it any more.  A fact that cannot be decided is       *)
(* dropped, which decides nothing.                                         *)
(***************************************************************************)
CONSTANTS Event, Result, Of

VARIABLES
    heard,      \* the facts there are
    decision,   \* what was decided about each
    life,       \* of the execution an event opens
    duties      \* the facts whose decision asked for something

vars == <<heard, decision, life, duties>>

Fact == Event \cup Result

Init ==
    /\ heard = {}
    /\ decision = [f \in Fact |-> "none"]
    /\ life = [e \in Event |-> "none"]
    /\ duties = {}

Hear(f) ==
    /\ f \notin heard
    /\ heard' = heard \cup {f}
    /\ UNCHANGED <<decision, life, duties>>

Undecided(f) == f \in heard /\ decision[f] = "none"

Open(e) ==
    /\ Undecided(e) /\ life[e] = "none"
    /\ life' = [life EXCEPT ![e] = "open"]
    /\ UNCHANGED <<heard, decision, duties>>

Decides(f, d) == decision' = [decision EXCEPT ![f] = d]

Act(f) ==
    /\ Undecided(f) /\ life[Of[f]] = "open"
    /\ \/ Decides(f, "create") /\ duties' = duties \cup {f}
       \/ (Decides(f, "wait") \/ Decides(f, "pause")) /\ UNCHANGED duties
    /\ UNCHANGED <<heard, life>>

Complete(f) ==
    /\ Undecided(f) /\ life[Of[f]] # "none"
    /\ Decides(f, "complete")
    /\ life' = [life EXCEPT ![Of[f]] = "closed"]
    /\ UNCHANGED <<heard, duties>>

Consume(e) ==
    /\ Undecided(e) /\ life[e] = "none"
    /\ Decides(e, "consumed")
    /\ UNCHANGED <<heard, life, duties>>

Drop(f) ==
    /\ Undecided(f)
    /\ Decides(f, "dropped")
    /\ UNCHANGED <<heard, life, duties>>

Next ==
    \/ \E f \in Fact : Hear(f) \/ Act(f) \/ Complete(f) \/ Drop(f)
    \/ \E e \in Event : Open(e) \/ Consume(e)

Spec == Init /\ [][Next]_vars
=============================================================================
