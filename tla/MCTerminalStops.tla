-------------------------- MODULE MCTerminalStops --------------------------
(* A small instance of the terminal stops for TLC.                         *)
EXTENDS TerminalStops

CONSTANT w1

\* The first event closes the first enrollment's opportunity, the second is firm-wide.
OneThenAll == [e \in Events |-> IF e = 1 THEN {1} ELSE Enrollments]
=============================================================================
