-------------------------- MODULE MCFactProcessor --------------------------
(* Instances of FactProcessor: the facts of one material as the automatic  *)
(* plugin decides them.  A scan asks the WMS; the answer to it only holds; *)
(* the result of the placement asks again, or waits for its own evidence;  *)
(* a report closes.                                                        *)
EXTENDS FactProcessor

CONSTANTS scan, put, report, w1, w2

Events == {scan}
Results == {put, report}
OneMaterial == [f \in {scan, put, report} |-> scan]
Questions == [f \in {put, report} |-> IF f = put THEN {} ELSE {put}]
Handlers == [f \in {scan, put, report} |->
    CASE f = scan   -> {"create", "wait"}
      [] f = put    -> {"create", "defer"}
      [] f = report -> {"complete", "defer", "pause"}]
=============================================================================
