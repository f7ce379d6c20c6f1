--------------------------- MODULE MCServiceDaemon ---------------------------
(***************************************************************************)
(* Instances of ServiceDaemon for TLC.                                     *)
(***************************************************************************)
EXTENDS ServiceDaemon, TLC

Symmetry == Permutations(Clients) \cup Permutations(Pids)

=============================================================================
