--------------------------- MODULE MCSolverRouter ---------------------------
(***************************************************************************)
(* Instances of SolverRouter for TLC.                                      *)
(***************************************************************************)
EXTENDS SolverRouter

\* A good solution, a worse one whose claimed objective is not its score, and
\* something that is no solution.
MCQuality ==
    {[sound |-> TRUE, score |-> 1, matches |-> TRUE],
     [sound |-> TRUE, score |-> 2, matches |-> FALSE],
     [sound |-> FALSE, score |-> 1, matches |-> TRUE]}

\* One of each; a collecting router has room for a second candidate.
MCLimits ==
    [candidates |-> 1, assignments |-> 1, progress |-> 1, lines |-> 1]

=============================================================================
