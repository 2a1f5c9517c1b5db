--------------------------- MODULE MCExecutionCore ---------------------------
(***************************************************************************)
(* Instances of ExecutionCore for TLC.                                     *)
(***************************************************************************)
EXTENDS CoreService, TLC

\* Descriptors are only compared, so any permutation of them gives the same
\* behaviours.
Symmetry == Permutations(Fds)

=============================================================================
