------------------------ MODULE MCOperationRegistry ------------------------
(* Instances of the operation registry for TLC. *)
EXTENDS OperationRegistry

CONSTANTS g1, g2, s1

\* Two requests for one scenario: one at a time, and one after the other.
Groups == {[id |-> g1, scenario |-> s1], [id |-> g2, scenario |-> s1]}

=============================================================================
