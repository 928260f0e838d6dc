------------------------------- MODULE MCQEMU -------------------------------
(* QEMUManager for TLC: VM IDs are interchangeable. *)
EXTENDS QEMUManager, TLC

Symm == Permutations(VMs)
=============================================================================
