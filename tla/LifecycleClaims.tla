-------------------------- MODULE LifecycleClaims --------------------------
(***************************************************************************)
(* lifecycleClaims (internal/vm/lifecycle_claims.go): what gives one       *)
(* lifecycle operation at a time a VM of the Firecracker backend.          *)
(***************************************************************************)
EXTENDS VMCore

VARIABLES
    claims,   \* lifecycleClaims.ops, "none" when the VM is free
    pending   \* lifecycleClaims.restart

(* Mutant: claimVM does not look whether somebody else has the VM. *)
claimVMUnchecked(v) == v \in reg

(* claimVM: the VM is free and, looked up again under the claim, registered. *)
claimVM(v) == v \in reg /\ claims[v] = "none"

Claim(v, op) == claims' = [claims EXCEPT ![v] = op]

(* Mutant: the error paths of an operation keep its claim. *)
KeepClaim(v) == UNCHANGED claims

Release(v) == claims' = [claims EXCEPT ![v] = "none"]
=============================================================================
