------------------------------ MODULE MCDaemon ------------------------------
(***************************************************************************)
(* Model checking of the daemon's bookkeeping: one behaviour is about one  *)
(* part, scen, and the others stay as they start.  Leases and Snapshots    *)
(* share their model values, so that one small set of permutations serves  *)
(* both: a1 to a3 are the VMs of Leases and the snapshot names, b1 and b2  *)
(* the VMs with snapshots.                                                 *)
(***************************************************************************)
EXTENDS Leases, SQLiteStore, RestartPolicy, TLC

CONSTANTS a1, a2, a3, b1, b2, NoName, NoEntry, NoOp

VARIABLES scen, daemon, exits, handled, vm, op, reserved, inUse, rec, journal, entry, guest, orphans

(* Two VMs and a crash, or one VM and two crashes. *)
Pair == INSTANCE Snapshots WITH
    VMs <- {b1, b2}, Names <- {a1, a2, a3}, Sizes <- {1, 3}, Estimate <- 1, Sidecar <- 1,
    MaxCount <- 2, MaxBytes <- 3, MaxCrashes <- 1, phase <- daemon, crashes <- exits
Alone == INSTANCE Snapshots WITH
    VMs <- {b1}, Names <- {a1, a2, a3}, Sizes <- {1, 3}, Estimate <- 1, Sidecar <- 1,
    MaxCount <- 2, MaxBytes <- 3, MaxCrashes <- 2, phase <- daemon, crashes <- exits

(* The boundaries of the 7 bits that survive, of the u8, and signals' 128 + n. *)
BoundaryCodes == {0, 1, 2, 3, 63, 64, 126, 127, 128, 129, 134, 137, 143, 254, 255, 256, 257, 384}

snapVars == <<daemon, exits, handled, vm, op, reserved, inUse, rec, journal, entry, guest, orphans>>
allVars == <<scen, lvars, storeVars, restartVars, snapVars>>

MCInit ==
    /\ scen \in {"leases", "store", "restart", "pair", "alone"}
    /\ LInit
    /\ StoreInit /\ (scen # "store" => \A v \in Legacy : file[v] = "stopped")
    /\ RestartInit /\ (scen # "restart" => policy = "never" /\ maxRetries = 0 /\ ~acpi)
    /\ IF scen = "alone" THEN Alone!Init ELSE Pair!Init

MCNext ==
    /\ UNCHANGED scen
    /\ \/ scen = "leases" /\ LNext /\ UNCHANGED <<storeVars, restartVars, snapVars>>
       \/ scen = "store" /\ StoreNext /\ UNCHANGED <<lvars, restartVars, snapVars>>
       \/ scen = "restart" /\ RestartNext /\ UNCHANGED <<lvars, storeVars, snapVars>>
       \/ scen = "pair" /\ Pair!Next /\ UNCHANGED <<lvars, storeVars, restartVars>>
       \/ scen = "alone" /\ Alone!Next /\ UNCHANGED <<lvars, storeVars, restartVars>>

MCSpec == MCInit /\ [][MCNext]_allVars

Symm == Permutations({a1, a2, a3}) \cup Permutations({b1, b2})

(* Snapshots (snapshot_darwin.go, snapshot/store.go): what a create or a       *)
(* restore leaves behind, done, failed or cut off by a crash.                  *)
SnapshotsAreSound ==
    /\ scen = "pair" => Pair!SnapshotsAreSound
    /\ scen = "alone" => Alone!SnapshotsAreSound

(* A crash loses a supervisor only between its launch and the record of its PID. *)
LostOnlyAtLaunch ==
    [][IF scen = "alone" THEN Alone!LosesOnlyAtLaunch ELSE Pair!LosesOnlyAtLaunch]_allVars
=============================================================================
