----------------------------- MODULE Snapshots -----------------------------
(***************************************************************************)
(* Snapshots of Firecracker/HVF guests (internal/snapshot and              *)
(* internal/vm/snapshot_darwin.go): SnapshotCreate pauses a running guest, *)
(* captures it into a staging directory and publishes that under a name;   *)
(* SnapshotRestore starts a supervisor that loads a published snapshot     *)
(* into the same, stopped VM.  Both keep a journal record per VM that the  *)
(* next daemon reads when this one dies on the way.  Supervisors outlive   *)
(* the daemon.  Start, Stop and the restart policy are those of            *)
(* FirecrackerManager; here a VM is killed, dies or is removed in one step.*)
(***************************************************************************)
EXTENDS Naturals, FiniteSets, FiniteSetsExt

CONSTANTS
    VMs, Names,       \* VM IDs and snapshot names
    NoName, NoEntry, NoOp,
    Sizes, Estimate,  \* real sizes of an artifact, and SnapshotCreate's guess
    Sidecar,          \* size of the sidecar that Publish adds
    MaxCount, MaxBytes, \* Limits
    MaxCrashes        \* how often the daemon exits at a point of its choosing

VARIABLES
    phase,    \* the daemon: "down", "recovering" or "up"
    crashes,
    handled,  \* RecoverSnapshotOperations: the VMs whose record was dealt with
    vm,       \* in memory: state, whether v.pid/v.proc name the supervisor,
              \* and whether a monitor waits for it
    op,       \* the snapshot operation that holds the VM's claim: its step, its
              \* snapshot and whether it still has a reservation
    reserved, inUse,  \* Store.reserved and Store.inUse
    rec,      \* state.json: state and whether its PID names the supervisor
    journal,  \* .operations/<vm>.json: kind, snapshot, whether it has the PID
    entry,    \* the published snapshots
    guest,    \* the VM's supervisor, as readNativeFCState reports it
    orphans   \* VMs with a supervisor that no record names

storeVars == <<reserved, inUse, entry>>
daemonVars == <<phase, crashes, handled>>
vars == <<daemonVars, vm, op, storeVars, rec, journal, guest, orphans>>

States == {"running", "stopping", "stopped", "restoring", "gone"}
Alive(v) == guest[v] # "none"
Idle == [step |-> "idle", name |-> NoName, held |-> FALSE]
Published == {n \in Names : entry[n] # NoEntry}

CreateSteps == {"reserved", "pausing", "paused", "capturing", "captured",
                "settling", "killing", "forgetting", "aborting"}
(* Steps of SnapshotRestore in which the deferred rollback is armed. *)
ArmedSteps == {"begun", "saved", "launched", "started", "configured",
               "loaded", "resumed"}
RestoreSteps == ArmedSteps \cup {"acquired", "validated", "rollback",
                                 "rolledback", "undone", "committed"}

-----------------------------------------------------------------------------
(* Helpers.  Go is the next step of the operation; Save writes state.json.    *)
Go(v, step) == op' = [op EXCEPT ![v].step = step]
Save(v) == rec' = [rec EXCEPT ![v] = [state |-> vm'[v].state, pid |-> vm'[v].pid]]
Claimable(v) == phase = "up" /\ op[v] = Idle

(* usageLocked, in bytes on disk, and what the reservations add to it. *)
Used == MapThenSumSet(LAMBDA n : entry[n].size, Published)
Pending(names) == Estimate * Cardinality(names)

WriteOperation(v, kind, pid) ==
    journal' = [journal EXCEPT ![v] =
                    [kind |-> kind, name |-> op[v].name, pid |-> pid]]

RemoveOperation(v) == journal' = [journal EXCEPT ![v] = NoOp]

Release(n) == inUse' = [inUse EXCEPT ![n] = @ - 1]

-----------------------------------------------------------------------------
(* SnapshotCreate.                                                            *)

(* Reserve: the name is free and both limits admit the estimate. *)
Reservable(n) ==
    /\ n \notin reserved
    /\ n \notin Published
    /\ Cardinality(Published) + Cardinality(reserved) + 1 <= MaxCount
    /\ Used + Pending(reserved) + Estimate <= MaxBytes

(* The VM is claimed, running and its guest Running, and the name reserved. *)
CreateReserve(v, n) ==
    /\ Claimable(v)
    /\ vm[v].state = "running" /\ guest[v] = "running"
    /\ Reservable(n)
    /\ op' = [op EXCEPT ![v] = [step |-> "reserved", name |-> n, held |-> TRUE]]
    /\ reserved' = reserved \cup {n}
    /\ UNCHANGED <<daemonVars, vm, inUse, rec, journal, entry, guest, orphans>>

(* The record is written before Pause is sent; if it cannot be, nothing else   *)
(* has happened yet and the reservation is given up.                           *)
CreateJournal(v) ==
    /\ op[v].step = "reserved"
    /\ \/ WriteOperation(v, "create", FALSE) /\ Go(v, "pausing")
       \/ UNCHANGED journal /\ Go(v, "aborting")
    /\ UNCHANGED <<daemonVars, vm, storeVars, rec, guest, orphans>>

(* Pause.  A failed request may have been delivered. *)
CreatePause(v) ==
    /\ op[v].step = "pausing"
    /\ \/ /\ guest[v] = "running"
          /\ guest' = [guest EXCEPT ![v] = "paused"]
          /\ Go(v, "paused") \/ Go(v, "settling")
       \/ UNCHANGED guest /\ Go(v, "settling")
    /\ UNCHANGED <<daemonVars, vm, storeVars, rec, journal, orphans>>

(* The record moves on to "capturing" and the capture is requested. *)
CreateCapture(v) ==
    /\ op[v].step = "paused"
    /\ \/ /\ guest[v] = "paused"
          /\ guest' = [guest EXCEPT ![v] = "capturing"]
          /\ Go(v, "capturing") \/ Go(v, "settling")
       \/ UNCHANGED guest /\ Go(v, "settling")
    /\ UNCHANGED <<daemonVars, vm, storeVars, rec, journal, orphans>>

(* waitNativeFCOperation: the capture is over, failed or takes too long. *)
CreateCaptured(v) ==
    /\ op[v].step = "capturing"
    /\ \/ guest[v] = "paused" /\ Go(v, "captured")
       \/ Go(v, "settling")
    /\ UNCHANGED <<daemonVars, vm, storeVars, rec, journal, guest, orphans>>

(* Publish's second look at the quota, with the real size. *)
Fits(v, size) == Used + Pending(reserved \ {op[v].name}) + size <= MaxBytes

(* Publish: the verified artifact is renamed into place if its real size still *)
(* fits, with the other reservations counted; either way the reservation ends. *)
(* The sidecar is written after the check, and usageLocked counts it.          *)
CreatePublish(v) ==
    /\ op[v].step = "captured"
    /\ reserved' = reserved \ {op[v].name}
    /\ op' = [op EXCEPT ![v].step = "settling", ![v].held = FALSE]
    /\ \/ \E size \in Sizes :
             /\ Fits(v, size)
             /\ entry' = [entry EXCEPT ![op[v].name] = [vm |-> v, size |-> size + Sidecar]]
       \/ UNCHANGED entry
    /\ UNCHANGED <<daemonVars, vm, inUse, rec, journal, guest, orphans>>

(* resumeAfterSnapshot, when it works: the guest is Running, or is Paused and  *)
(* resumed; one still being captured is waited for.                            *)
CreateResume(v) ==
    /\ op[v].step = "settling"
    /\ guest[v] \in {"running", "paused"}
    /\ guest' = [guest EXCEPT ![v] = "running"]
    /\ Go(v, "forgetting")
    /\ UNCHANGED <<daemonVars, vm, storeVars, rec, journal, orphans>>

(* resumeAfterSnapshot, when the guest cannot be read or resumed: a VM still   *)
(* in running is moved to stopping, to be killed.  The record is kept.         *)
CreateResumeFails(v) ==
    /\ op[v].step = "settling"
    /\ \/ /\ vm[v].state = "running"
          /\ vm' = [vm EXCEPT ![v].state = "stopping"]
          /\ Save(v)
          /\ Go(v, "killing")
       \/ /\ vm[v].state # "running"
          /\ UNCHANGED <<vm, rec>>
          /\ Go(v, "aborting")
    /\ UNCHANGED <<daemonVars, storeVars, journal, guest, orphans>>

(* Mutant: the VM is reported as stopping and its supervisor left alone. *)
CreateKillNot(v) ==
    /\ op[v].step = "killing"
    /\ Go(v, "aborting")
    /\ UNCHANGED <<daemonVars, vm, storeVars, rec, journal, guest, orphans>>

CreateKill(v) ==
    /\ op[v].step = "killing"
    /\ guest' = [guest EXCEPT ![v] = "none"]
    /\ Go(v, "aborting")
    /\ UNCHANGED <<daemonVars, vm, storeVars, rec, journal, orphans>>

(* RemoveOperation once the guest is settled; the file may also stay. *)
CreateForget(v) ==
    /\ op[v].step = "forgetting"
    /\ RemoveOperation(v) \/ UNCHANGED journal
    /\ Go(v, "aborting")
    /\ UNCHANGED <<daemonVars, vm, storeVars, rec, guest, orphans>>

(* The outermost deferred calls: Abort, unless Publish has ended the           *)
(* reservation (r.done), and the release of the claim.                         *)
CreateDone(v) ==
    /\ op[v].step = "aborting"
    /\ reserved' = IF op[v].held THEN reserved \ {op[v].name} ELSE reserved
    /\ op' = [op EXCEPT ![v] = Idle]
    /\ UNCHANGED <<daemonVars, vm, inUse, entry, rec, journal, guest, orphans>>

-----------------------------------------------------------------------------
(* SnapshotRestore.                                                           *)

(* The VM is claimed and stopped; the snapshot is acquired, verified and       *)
(* belongs to this VM (validateRestoreTarget).                                 *)
RestoreAcquire(v, n) ==
    /\ Claimable(v)
    /\ vm[v].state = "stopped"
    /\ n \in Published
    /\ entry[n].vm = v
    /\ inUse' = [inUse EXCEPT ![n] = @ + 1]
    /\ op' = [op EXCEPT ![v] = [step |-> "acquired", name |-> n, held |-> FALSE]]
    /\ UNCHANGED <<daemonVars, vm, reserved, entry, rec, journal,
                   guest, orphans>>

RestoreJournal(v) ==
    /\ op[v].step = "acquired"
    /\ \/ /\ WriteOperation(v, "restore", FALSE)
          /\ Go(v, "validated")
          /\ UNCHANGED inUse
       \/ /\ Release(op[v].name)
          /\ op' = [op EXCEPT ![v] = Idle]
          /\ UNCHANGED journal
    /\ UNCHANGED <<daemonVars, vm, reserved, entry, rec, guest, orphans>>

(* beginRestore: the previous supervisor is forgotten. *)
RestoreBegin(v) ==
    /\ op[v].step = "validated"
    /\ vm' = [vm EXCEPT ![v].state = "restoring", ![v].pid = FALSE]
    /\ Go(v, "begun")
    /\ UNCHANGED <<daemonVars, storeVars, rec, journal, guest, orphans>>

RestoreSave(v) ==
    /\ op[v].step = "begun"
    /\ UNCHANGED vm
    /\ Save(v)
    /\ Go(v, "saved")
    /\ UNCHANGED <<daemonVars, storeVars, journal, guest, orphans>>

(* The host side is prepared and the supervisor launched; only the daemon's    *)
(* memory has its PID.                                                         *)
RestoreLaunch(v) ==
    /\ op[v].step = "saved"
    /\ guest' = [guest EXCEPT ![v] = "booting"]
    /\ vm' = [vm EXCEPT ![v].pid = TRUE]
    /\ Go(v, "launched")
    /\ UNCHANGED <<daemonVars, storeVars, rec, journal, orphans>>

(* Mutant: the record written after the launch lacks the PID. *)
RestoreStartedNoPID(v) ==
    /\ op[v].step = "launched"
    /\ WriteOperation(v, "restore", FALSE)
    /\ Go(v, "started")
    /\ UNCHANGED <<daemonVars, vm, storeVars, rec, guest, orphans>>

RestoreStarted(v) ==
    /\ op[v].step = "launched"
    /\ WriteOperation(v, "restore", TRUE)
    /\ Go(v, "started")
    /\ UNCHANGED <<daemonVars, vm, storeVars, rec, guest, orphans>>

(* A Save whose error is ignored, and the supervisor's configuration. *)
RestoreConfigure(v) ==
    /\ op[v].step = "started"
    /\ UNCHANGED vm
    /\ Save(v) \/ UNCHANGED rec
    /\ Go(v, "configured")
    /\ UNCHANGED <<daemonVars, storeVars, journal, guest, orphans>>

RestoreLoad(v) ==
    /\ op[v].step = "configured"
    /\ guest[v] = "booting"
    /\ guest' = [guest EXCEPT ![v] = "paused"]
    /\ Go(v, "loaded")
    /\ UNCHANGED <<daemonVars, vm, storeVars, rec, journal, orphans>>

RestoreResume(v) ==
    /\ op[v].step = "loaded"
    /\ guest[v] = "paused"
    /\ guest' = [guest EXCEPT ![v] = "running"]
    /\ Go(v, "resumed")
    /\ UNCHANGED <<daemonVars, vm, storeVars, rec, journal, orphans>>

(* persistRestoreRunning: the VM is running, and the restore is committed if   *)
(* that could be saved.                                                        *)
RestoreCommit(v) ==
    /\ op[v].step = "resumed"
    /\ vm' = [vm EXCEPT ![v].state = "running"]
    /\ \/ Save(v) /\ Go(v, "committed")
       \/ UNCHANGED rec /\ Go(v, "rollback")
    /\ UNCHANGED <<daemonVars, storeVars, journal, guest, orphans>>

(* After the commit the record is removed, or stays if that fails, and the     *)
(* monitor started.                                                            *)
RestoreDone(v) ==
    /\ op[v].step = "committed"
    /\ RemoveOperation(v) \/ UNCHANGED journal
    /\ vm' = [vm EXCEPT ![v].mon = TRUE]
    /\ Release(op[v].name)
    /\ op' = [op EXCEPT ![v] = Idle]
    /\ UNCHANGED <<daemonVars, reserved, entry, rec, guest, orphans>>

(* Any step in between may fail: a Save, the journal, the host, the launch,    *)
(* the supervisor or its guest.                                                *)
RestoreFails(v) ==
    /\ op[v].step \in ArmedSteps
    /\ Go(v, "rollback")
    /\ UNCHANGED <<daemonVars, vm, storeVars, rec, journal, guest, orphans>>

(* rollbackRestore, in memory: the supervisor this restore launched is stopped *)
(* and the VM is stopped, whatever state it had reached.                       *)
Rollback(v) ==
    /\ op[v].step = "rollback"
    /\ guest' = [guest EXCEPT ![v] = IF vm[v].pid THEN "none" ELSE @]
    /\ vm' = [vm EXCEPT ![v].state = "stopped", ![v].pid = FALSE]
    /\ Go(v, "rolledback")
    /\ UNCHANGED <<daemonVars, storeVars, rec, journal, orphans>>

(* The rollback is saved; if it cannot be, the record is kept. *)
RollbackSave(v) ==
    /\ op[v].step = "rolledback"
    /\ UNCHANGED vm
    /\ \/ /\ Save(v)
          /\ Go(v, "undone")
          /\ UNCHANGED inUse
       \/ /\ Release(op[v].name)
          /\ op' = [op EXCEPT ![v] = Idle]
          /\ UNCHANGED rec
    /\ UNCHANGED <<daemonVars, reserved, entry, journal, guest, orphans>>

RollbackForget(v) ==
    /\ op[v].step = "undone"
    /\ RemoveOperation(v) \/ UNCHANGED journal
    /\ Release(op[v].name)
    /\ op' = [op EXCEPT ![v] = Idle]
    /\ UNCHANGED <<daemonVars, vm, reserved, entry, rec, guest, orphans>>

-----------------------------------------------------------------------------
(* The rest of the daemon.                                                    *)

(* Store.Remove refuses a snapshot in use, and one a restore record names. *)
Removable(n) ==
    /\ n \in Published
    /\ inUse[n] = 0
    /\ \A v \in VMs : journal[v] # NoOp =>
          ~(journal[v].kind = "restore" /\ journal[v].name = n)

SnapshotRemove(n) ==
    /\ phase = "up"
    /\ Removable(n)
    /\ entry' = [entry EXCEPT ![n] = NoEntry]
    /\ UNCHANGED <<daemonVars, vm, op, reserved, inUse, rec, journal, guest,
                   orphans>>

(* Kill under the VM's claim. *)
Kill(v) ==
    /\ Claimable(v)
    /\ vm[v].state = "running"
    /\ vm' = [vm EXCEPT ![v].state = "stopping"]
    /\ Save(v)
    /\ guest' = [guest EXCEPT ![v] = "none"]
    /\ UNCHANGED <<daemonVars, op, storeVars, journal, orphans>>

(* Remove under the VM's claim; its snapshots and its record stay. *)
Remove(v) ==
    /\ Claimable(v)
    /\ vm[v].state = "stopped"
    /\ vm' = [vm EXCEPT ![v] = [state |-> "gone", pid |-> FALSE, mon |-> FALSE]]
    /\ Save(v)
    /\ UNCHANGED <<daemonVars, op, storeVars, journal, guest, orphans>>

(* monitor and adoptMonitor: the supervisor's end stops the VM. *)
Monitor(v) ==
    /\ phase # "down"
    /\ vm[v].mon /\ ~Alive(v)
    /\ vm' = [vm EXCEPT ![v].mon = FALSE, ![v].state = "stopped"]
    /\ Save(v)
    /\ UNCHANGED <<daemonVars, op, storeVars, journal, guest, orphans>>

(* The supervisor finishes the capture it was asked for. *)
CaptureEnds(v) ==
    /\ guest[v] = "capturing"
    /\ guest' = [guest EXCEPT ![v] = "paused"]
    /\ UNCHANGED <<daemonVars, vm, op, storeVars, rec, journal, orphans>>

(* The guest ends or the supervisor dies. *)
Exit(v) ==
    /\ Alive(v)
    /\ guest' = [guest EXCEPT ![v] = "none"]
    /\ UNCHANGED <<daemonVars, vm, op, storeVars, rec, journal, orphans>>

-----------------------------------------------------------------------------
(* A daemon exit and the next start.                                          *)

(* The memory is lost.  A supervisor that neither state.json nor the journal   *)
(* names is beyond the reach of every later daemon.                            *)
Named(v) == rec[v].pid \/ (journal[v] # NoOp /\ journal[v].pid)

Down ==
    /\ phase' = "down"
    /\ handled' = {}
    /\ op' = [v \in VMs |-> Idle]
    /\ reserved' = {}
    /\ inUse' = [n \in Names |-> 0]
    /\ vm' = [v \in VMs |-> [state |-> rec[v].state, pid |-> FALSE, mon |-> FALSE]]
    /\ orphans' = orphans \cup {v \in VMs : Alive(v) /\ ~Named(v)}
    /\ guest' = [v \in VMs |-> IF Named(v) THEN guest[v] ELSE "none"]
    /\ UNCHANGED <<rec, journal, entry>>

Crash ==
    /\ phase # "down"
    /\ crashes < MaxCrashes
    /\ crashes' = crashes + 1
    /\ Down

(* FileStore.Restore: a supervisor that survived is adopted, and what was      *)
(* running, starting or stopping without one is stopped and saved.             *)
Restored(v) ==
    CASE rec[v].state \in {"running", "stopping"} /\ rec[v].pid /\ Alive(v) ->
            [state |-> "running", pid |-> TRUE, mon |-> TRUE]
      [] rec[v].state \in {"running", "stopping"} /\ ~(rec[v].pid /\ Alive(v)) ->
            [state |-> "stopped", pid |-> FALSE, mon |-> FALSE]
      [] OTHER ->
            [state |-> rec[v].state, pid |-> FALSE, mon |-> FALSE]

Restore ==
    /\ phase = "down"
    /\ phase' = "recovering"
    /\ vm' = [v \in VMs |-> Restored(v)]
    /\ rec' = [v \in VMs |->
                  IF rec[v].state # Restored(v).state /\ Restored(v).state = "stopped"
                  THEN [state |-> "stopped", pid |-> FALSE] ELSE rec[v]]
    /\ UNCHANGED <<crashes, handled, op, storeVars, journal, guest, orphans>>

(* RecoverSnapshotOperations takes one record after the other. *)
NextRecord(v) ==
    /\ phase = "recovering"
    /\ journal[v] # NoOp
    /\ v \notin handled
    /\ \A w \in handled : journal[w] = NoOp

Owned(v) == journal[v].pid /\ Alive(v)

(* recoverRestore.  A restore that was still under way is adopted if its guest *)
(* is seen Running, else its supervisor is stopped and the VM abandoned to     *)
(* stopped.  A VM in another state keeps it; one that is not running keeps no  *)
(* supervisor.                                                                 *)
RecoverRestore(v) ==
    /\ NextRecord(v)
    /\ journal[v].kind = "restore"
    /\ handled' = handled \cup {v}
    /\ \/ /\ vm[v].state # "restoring"
          /\ guest' = [guest EXCEPT ![v] =
                          IF Owned(v) /\ vm[v].state # "running" THEN "none" ELSE @]
          /\ UNCHANGED vm
       \/ /\ vm[v].state = "restoring"
          /\ Owned(v) /\ guest[v] = "running"
          /\ vm' = [vm EXCEPT ![v] = [state |-> "running", pid |-> TRUE, mon |-> TRUE]]
          /\ UNCHANGED guest
       \/ /\ vm[v].state = "restoring"
          /\ guest' = [guest EXCEPT ![v] = IF Owned(v) THEN "none" ELSE @]
          /\ vm' = [vm EXCEPT ![v].state = "stopped", ![v].pid = FALSE]
    /\ Save(v)
    /\ UNCHANGED <<phase, crashes, op, storeVars, journal, orphans>>

(* recoverCreate: the guest of a running VM is resumed. *)
RecoverCreate(v) ==
    /\ NextRecord(v)
    /\ journal[v].kind = "create"
    /\ handled' = handled \cup {v}
    /\ \/ vm[v].state # "running" /\ UNCHANGED guest
       \/ /\ vm[v].state = "running"
          /\ guest[v] \in {"running", "paused"}
          /\ guest' = [guest EXCEPT ![v] = "running"]
    /\ UNCHANGED <<phase, crashes, vm, op, storeVars, rec, journal, orphans>>

(* A capture that does not settle in time, or a guest that is gone before its  *)
(* monitor noticed, fails the daemon's start.                                  *)
RecoverFails(v) ==
    /\ NextRecord(v)
    /\ journal[v].kind = "create"
    /\ vm[v].state = "running"
    /\ guest[v] \in {"capturing", "none"}
    /\ UNCHANGED crashes
    /\ Down

(* The record goes once its operation was dealt with. *)
RecoverForget(v) ==
    /\ phase = "recovering"
    /\ v \in handled /\ journal[v] # NoOp
    /\ RemoveOperation(v)
    /\ UNCHANGED <<daemonVars, vm, op, storeVars, rec, guest, orphans>>

(* The rest of RecoverSnapshotOperations: VMs left in restoring without a      *)
(* record are abandoned and the daemon serves.                                 *)
RecoverDone ==
    /\ phase = "recovering"
    /\ \A v \in VMs : journal[v] = NoOp
    /\ phase' = "up"
    /\ handled' = {}
    /\ vm' = [v \in VMs |-> IF vm[v].state = "restoring"
                            THEN [state |-> "stopped", pid |-> FALSE, mon |-> FALSE]
                            ELSE vm[v]]
    /\ rec' = [v \in VMs |-> IF vm[v].state = "restoring"
                             THEN [state |-> "stopped", pid |-> FALSE] ELSE rec[v]]
    /\ UNCHANGED <<crashes, op, reserved, inUse, entry, journal, guest, orphans>>

-----------------------------------------------------------------------------
Init ==
    /\ phase = "up" /\ crashes = 0 /\ handled = {}
    /\ vm = [v \in VMs |-> [state |-> "running", pid |-> TRUE, mon |-> TRUE]]
    /\ op = [v \in VMs |-> Idle]
    /\ reserved = {} /\ inUse = [n \in Names |-> 0]
    /\ rec = [v \in VMs |-> [state |-> "running", pid |-> TRUE]]
    /\ journal = [v \in VMs |-> NoOp]
    /\ entry = [n \in Names |-> NoEntry]
    /\ guest = [v \in VMs |-> "running"]
    /\ orphans = {}

CreateStep(v) ==
    \/ CreateJournal(v) \/ CreatePause(v) \/ CreateCapture(v) \/ CreateCaptured(v)
    \/ CreatePublish(v) \/ CreateResume(v) \/ CreateResumeFails(v) \/ CreateKill(v)
    \/ CreateForget(v) \/ CreateDone(v)

RestoreStep(v) ==
    \/ RestoreJournal(v) \/ RestoreBegin(v) \/ RestoreSave(v) \/ RestoreLaunch(v)
    \/ RestoreStarted(v) \/ RestoreConfigure(v) \/ RestoreLoad(v)
    \/ RestoreResume(v) \/ RestoreCommit(v) \/ RestoreDone(v) \/ RestoreFails(v)
    \/ Rollback(v) \/ RollbackSave(v) \/ RollbackForget(v)

RecoveryStep ==
    \/ Restore \/ RecoverDone
    \/ \E v \in VMs : \/ RecoverRestore(v) \/ RecoverCreate(v)
                      \/ RecoverFails(v) \/ RecoverForget(v)

Next ==
    \/ \E v \in VMs : \/ CreateStep(v) \/ RestoreStep(v) \/ Kill(v) \/ Remove(v)
                      \/ Monitor(v) \/ CaptureEnds(v) \/ Exit(v)
    \/ \E v \in VMs, n \in Names : CreateReserve(v, n) \/ RestoreAcquire(v, n)
    \/ \E n \in Names : SnapshotRemove(n)
    \/ Crash
    \/ RecoveryStep

Spec == Init /\ [][Next]_vars

-----------------------------------------------------------------------------
(* What the daemon reports of a VM no operation is working on is the case,     *)
(* also after any crash: running is never a paused guest, a VM that is not     *)
(* running has no supervisor, and no restore is left half done.                *)
ReportedIsReal ==
    phase = "up" =>
        \A v \in VMs : op[v] = Idle =>
            /\ vm[v].state # "restoring"
            /\ vm[v].state = "running" => guest[v] \in {"running", "none"}
            /\ vm[v].state # "running" => ~Alive(v)
            /\ vm[v].state \in {"running", "stopping"} => vm[v].mon

(* The snapshot a restore loads stays in the store, and stays this VM's, from  *)
(* Acquire to the end of the restore, over a crash to the end of its recovery. *)
SourceStays ==
    \A v \in VMs, n \in Names :
        \/ op[v].step \in RestoreSteps /\ op[v].name = n
        \/ journal[v] # NoOp /\ journal[v].kind = "restore" /\ journal[v].name = n
        => n \in Published /\ entry[n].vm = v

(* The limits hold for what is published and what is promised together, with   *)
(* creates in flight and artifacts larger than estimated, and a reservation    *)
(* does not outlive the create that made it.  The bytes may exceed the limit   *)
(* by one sidecar: Publish writes it after its check.                          *)
QuotaHolds ==
    /\ MapThenSumSet(LAMBDA n : entry[n].size, Published)
          + Estimate * Cardinality(reserved) <= MaxBytes + Sidecar
    /\ Cardinality(Published) + Cardinality(reserved) <= MaxCount
    /\ \A n \in reserved : n \notin Published /\
          \E v \in VMs : op[v].step \in CreateSteps /\ op[v].name = n

(* A crash loses a supervisor in one window only: between the launch of a      *)
(* restore's supervisor and the record with its PID or, if that record cannot  *)
(* be written, the rollback.                                                   *)
LosesOnlyAtLaunch == \A v \in orphans' \ orphans : op[v].step \in {"launched", "rollback"}

(* A guest that is paused or being captured is always somebody's to resume or  *)
(* end: of an operation in flight or, with the daemon down or recovering, of a *)
(* record that leads the next start to it.                                     *)
PausedIsOwned ==
    \A v \in VMs : guest[v] \in {"paused", "capturing"} =>
        \/ op[v].step \in {"paused", "capturing", "captured", "settling",
                           "killing", "loaded", "rollback"}
        \/ /\ phase # "up"
           /\ journal[v] # NoOp
           /\ IF journal[v].kind = "create"
              THEN rec[v].pid /\ rec[v].state \in {"running", "stopping"}
              ELSE journal[v].pid /\ rec[v].state = "restoring"

(* A create or a restore that fails or is cut off by a crash leaves the VM, its *)
(* guest and the store in states that the daemon reports truly and accounts for. *)
SnapshotsAreSound == ReportedIsReal /\ SourceStays /\ QuotaHolds /\ PausedIsOwned
=============================================================================
