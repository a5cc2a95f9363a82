----------------------------- MODULE Obligation -----------------------------
(***************************************************************************)
(* What WmsConfirmation promises about each request it owes the other      *)
(* side: no dispatchers, leases, retries or lost answers.  A request that  *)
(* is owed is settled by the other side's own verdict while its business   *)
(* owner still takes it, given up to people, or void because the owner was *)
(* cancelled; what was settled stays so, and nothing is told that the      *)
(* other side did not decide.  PickingTask is built on this promise.       *)
(***************************************************************************)
CONSTANTS Item, Verdict

VARIABLES
    owner,      \* how the business owner of each request stands
    standing,   \* how each request stands
    verdict,    \* what the other side decided about it
    told        \* what WES took it to have decided

vars == <<owner, standing, verdict, told>>

Owner == {"open", "closed", "cancelled"}
Standing == {"absent", "owed", "settled", "stuck", "void"}

Init ==
    /\ owner \in [Item -> {"open", "closed"}]
    /\ standing = [i \in Item |-> "absent"]
    /\ verdict = [i \in Item |-> "none"]
    /\ told = [i \in Item |-> "none"]

Moves(i, from, to) == standing[i] \in from /\ standing'[i] = to

Same(i) == standing'[i] = standing[i] /\ told'[i] = told[i]

Owe(i) == Moves(i, {"absent"}, "owed") /\ told'[i] = told[i]

Settle(i) == /\ Moves(i, {"owed"}, "settled")
             /\ owner[i] = "open" /\ verdict[i] # "none" /\ told'[i] = verdict[i]

(* People take over; a verdict that was taken in is not lost by it.        *)
GiveUp(i) == /\ Moves(i, {"owed"}, "stuck")
             /\ owner[i] # "cancelled" /\ told'[i] \in {told[i], verdict[i]}

Void(i) == /\ Moves(i, {"owed", "stuck"}, "void")
           /\ owner[i] = "cancelled" /\ told'[i] = told[i]

(* A cancellation is final.                                                *)
OwnerMoves(i) == owner[i] = "cancelled" => owner'[i] = "cancelled"

(* The other side decides once.                                            *)
Decided(i) == \/ verdict'[i] = verdict[i]
              \/ /\ standing[i] # "absent" /\ verdict[i] = "none"
                 /\ verdict'[i] \in Verdict

(* One transaction may settle one request and owe the next.                *)
Next ==
    /\ owner' \in [Item -> Owner]
    /\ standing' \in [Item -> Standing]
    /\ verdict' \in [Item -> Verdict \cup {"none"}]
    /\ told' \in [Item -> Verdict \cup {"none"}]
    /\ \A i \in Item : /\ OwnerMoves(i) /\ Decided(i)
                       /\ Same(i) \/ Owe(i) \/ Settle(i) \/ GiveUp(i) \/ Void(i)

Spec == Init /\ [][Next]_vars
=============================================================================
