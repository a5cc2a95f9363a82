-------------------------- MODULE MCTransportTask --------------------------
(* Small instances of TransportTask: which reports the WMS may send.       *)
EXTENDS TransportTask, TLC

CONSTANTS m1, m2, w1, w2

Success == [status |-> "SUCCEEDED", position |-> "target"]
Failure(at) == [status |-> "FAILED", position |-> at]
Position(m, what) == [op |-> "position", member |-> m, milestone |-> what, at |-> "target"]
Misplaced(m) == [Position(m, "TARGET_PLACED") EXCEPT !.at = "elsewhere"]
Result(n, ok, of) == [op |-> "result", revision |-> n, matches |-> ok, of |-> of]

NoReport == {}

(* Two bins, m1 for a rack slot and m2 for a handoff.                      *)
Milestones == {Position(m1, "SOURCE_PICKED"), Position(m1, "TARGET_PLACED"), Misplaced(m1),
               Position(m2, "POSITION_UNKNOWN")}
Results == {Result(1, TRUE, m1 :> Success @@ m2 :> Failure("unknown")),
            Result(2, TRUE, m1 :> Failure("elsewhere") @@ m2 :> Success),
            Result(2, TRUE, m1 :> Success @@ m2 :> Success),
            Result(3, FALSE, m1 :> Success @@ m2 :> Success)}

(* One bin for a rack slot: unknown, placed, then a complete success.      *)
Placement == {Position(m1, "TARGET_PLACED")}
LateSuccess == {Result(1, TRUE, m1 :> Failure("unknown")), Result(2, TRUE, m1 :> Success)}

(* The same success twice: the older report is stale if it comes second.   *)
SuccessTwice == {Result(1, TRUE, m1 :> Success), Result(2, TRUE, m1 :> Success)}
=============================================================================
