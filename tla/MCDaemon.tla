------------------------------ MODULE MCDaemon ------------------------------
(***************************************************************************)
(* Instances of Daemon for TLC.                                            *)
(***************************************************************************)
EXTENDS Daemon, TLC

\* Descriptors and clients are only compared.
Symmetry == Permutations(Fds) \cup Permutations(Clients)

=============================================================================
