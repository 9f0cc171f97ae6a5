---------------------------- MODULE MCSupervisor ----------------------------
(***************************************************************************)
(* Small instances of Supervisor for TLC.                                  *)
(***************************************************************************)
EXTENDS SupervisorInvariant, TLC

TaskSymmetry == Permutations(Tasks)

=============================================================================
