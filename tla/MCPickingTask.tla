--------------------------- MODULE MCPickingTask ---------------------------
(* A small instance of PickingTask.                                        *)
EXTENDS PickingTask, TLC

CONSTANTS t1, t2, l1, a, b, c

Plans == t1 :> 2 @@ t2 :> 0

OneLine == t1 :> l1 @@ t2 :> l1

IssuedAs(t, s) == [kind |-> "issued", task |-> t, sequence |-> s, revision |-> 1]
MovedTo(t, s) == [kind |-> "queue_changed", task |-> t, sequence |-> s, revision |-> 2]
Cancels(t) == [kind |-> "cancel", task |-> t]

(* Both tasks are issued at the first place; the second may get an earliest *)
(* time, the first may be cancelled.                                       *)
Notices == {IssuedAs(t1, 1), IssuedAs(t2, 1), MovedTo(t2, 0), Cancels(t1)}

Report(o, t, n, body, form) ==
    [op |-> o, task |-> t, revision |-> n, body |-> body, form |-> form]

(* Two plans of the first task.  The second is published twice, and under  *)
(* the second identity perhaps with another content; the first identity    *)
(* comes again, broken and for the other task.                             *)
Letters == {Report(a, t1, 1, "x", "valid"), Report(a, t2, 1, "x", "invalid"),
            Report(b, t1, 2, "x", "valid"), Report(c, t1, 2, "x", "valid"),
            Report(c, t1, 2, "y", "valid")}
=============================================================================
