------------------------ MODULE MCOutcomePublication ------------------------
(* A small instance of OutcomePublication: one member, two publishers.     *)
EXTENDS OutcomePublication

CONSTANTS m1, w1, w2

OneMember == {m1}
TwoPublishers == {w1, w2}
=============================================================================
