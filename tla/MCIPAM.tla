------------------------------ MODULE MCIPAM --------------------------------
(* A /29 network, the smallest checkSubnet accepts, shared by two VMs and by   *)
(* clients that allocate addresses by hand: large enough for every address to  *)
(* be in use at once.  By hand they return the gateway's address and the first *)
(* one the scan gives out, whoever has it by then.                             *)
EXTENDS IPAM, TLC

Symm == Permutations(Owners)
=============================================================================
