------------------------------- MODULE VMCore -------------------------------
(***************************************************************************)
(* What the two VM managers share: the VM object and its state machine     *)
(* (internal/vm/types.go), the registry with its copy on disk (store.go,   *)
(* filestore.go), the hypervisor process, and what a daemon restart does   *)
(* to all of them (recover.go).  Every VM of the model has one name and    *)
(* one configuration, so the VMs are the successive incarnations that      *)
(* restart policies and VM.Start create, plus what a later run of the same *)
(* name adds.                                                              *)
(*                                                                         *)
(* A goroutine is a program counter: start[v] for a Start call, stop[v]    *)
(* for Stop or Kill, mon[v] for the monitor, restart[v] for restartVM, and *)
(* api for the request that holds Server.resourceMu.                       *)
(***************************************************************************)
EXTENDS Naturals, FiniteSets

CONSTANTS
    VMs,         \* VM IDs; newID draws each one once
    NoVM,        \* no VM
    NoRecord,    \* no state.json
    Policy,      \* Cfg.Restart.Policy
    MaxRetries,  \* Cfg.Restart.MaxRetries, 0 for no limit
    MaxCrashes,  \* bound of the model: daemon crashes in a behaviour
    Exits        \* bound of the model: how a guest may exit by itself

ASSUME NoVMAssumption == NoVM \notin VMs
ASSUME PolicyAssumption == Policy \in {"never", "on-failure", "always"}
ASSUME BoundsAssumption ==
    MaxRetries \in Nat /\ MaxCrashes \in Nat /\ Exits \subseteq {"ok", "failed"}

VARIABLES
    up,       \* the daemon is running and has restored its registry
    crashes,  \* daemon crashes so far
    vm,       \* the VM objects, reachable from goroutines even when unregistered
    reg,      \* MemoryStore.vms
    disk,     \* state.json of each VM
    proc,     \* hypervisor process: "none", "up", or how it exited: "ok", "failed"
    orphans,  \* VMs with a live process that no VM object has a handle on
    probes,   \* HealthChecker.probes
    start, stop, mon, restart, api,
    seen,     \* the explicitStop flag the monitor read
    repl      \* the replacement that restartVM created

coreVars == <<up, crashes, vm, reg, disk, proc, orphans, probes,
              start, stop, mon, restart, api, seen, repl>>

States == {"created", "starting", "running", "stopping", "stopped"}

(* No VM object: the ID was never drawn, or the daemon that had it is gone. *)
Fresh == "fresh"
Lost == "lost"

validTransitions ==
    [created  |-> {"starting"},
     starting |-> {"running", "stopped"},
     running  |-> {"stopping", "stopped"},
     stopping |-> {"stopped"},
     stopped  |-> {"restoring"}]

Object(st, closed, restarts) ==
    [state |-> st, explicitStop |-> FALSE, closed |-> closed,
     pid |-> FALSE, restarts |-> restarts]

IdleAPI == [pc |-> "idle", vm |-> NoVM, old |-> NoVM]

CanMove(v, to) == to \in validTransitions[vm[v].state]

(* transition: a move into stopped closes the done channel, and closing it     *)
(* twice would panic; closed counts.                                           *)
Moved(v, to) ==
    [vm EXCEPT ![v].state = to,
               ![v].closed = IF to = "stopped" THEN @ + 1 ELSE @]

(* transition where the caller ignores the error. *)
TriedMove(v, to) == IF CanMove(v, to) THEN Moved(v, to) ELSE vm

(* The fields of state.json that recovery reads. *)
Record(v) == [state |-> vm[v].state, pid |-> vm[v].pid, restarts |-> vm[v].restarts]

(* writeState: a VM that is no longer in the registry is not written. *)
Saved(v) == IF v \in reg THEN [disk EXCEPT ![v] = Record(v)] ELSE disk

(* FileStore.Create: a VM in state created, in memory and on disk. *)
Created(v, restarts) ==
    /\ vm[v].state = Fresh
    /\ vm' = [vm EXCEPT ![v] = Object("created", 0, restarts)]
    /\ reg' = reg \cup {v}
    /\ disk' = [disk EXCEPT ![v] = [state |-> "created", pid |-> FALSE, restarts |-> restarts]]

(* FileStore.Remove: memory first, then the directory, under one lock. *)
Dropped(v) ==
    /\ reg' = reg \ {v}
    /\ disk' = IF v \in reg THEN [disk EXCEPT ![v] = NoRecord] ELSE disk

(* proc.kill: a process that already exited is left alone (os.ErrProcessDone). *)
Killed(v) == [proc EXCEPT ![v] = IF @ = "up" THEN "failed" ELSE @]

-----------------------------------------------------------------------------

CoreTypeOK ==
    /\ up \in BOOLEAN
    /\ crashes \in 0 .. MaxCrashes
    /\ vm \in [VMs -> [state : States \cup {Fresh, Lost}, explicitStop : BOOLEAN,
                       closed : Nat, pid : BOOLEAN, restarts : Nat]]
    /\ reg \subseteq VMs
    /\ disk \in [VMs -> [state : States, pid : BOOLEAN, restarts : Nat] \cup {NoRecord}]
    /\ proc \in [VMs -> {"none", "up", "ok", "failed"}]
    /\ orphans \subseteq VMs
    /\ probes \subseteq VMs
    /\ start \in [VMs -> {"idle", "begin", "prep", "launched", "running", "saved",
                          "monitored", "ok", "err"}]
    /\ stop \in [VMs -> {"idle", "accepted", "quiet", "marked"}]
    /\ mon \in [VMs -> {"idle", "wait", "exited", "stopped", "adopt", "adoptStopped"}]
    /\ restart \in [VMs -> {"idle", "backoff", "starting"}]
    /\ api \in [pc : {"idle", "run", "inplace", "replace", "rollback", "remove"},
                vm : VMs \cup {NoVM}, old : VMs \cup {NoVM}]
    /\ seen \in [VMs -> BOOLEAN]
    /\ repl \in [VMs -> VMs \cup {NoVM}]

(* No goroutine of any kind runs. *)
Idle == [v \in VMs |-> "idle"]

CoreInit ==
    /\ up = TRUE
    /\ crashes = 0
    /\ vm = [v \in VMs |-> Object(Fresh, 0, 0)]
    /\ reg = {}
    /\ disk = [v \in VMs |-> NoRecord]
    /\ proc = [v \in VMs |-> "none"]
    /\ orphans = {}
    /\ probes = {}
    /\ start = Idle /\ stop = Idle /\ mon = Idle /\ restart = Idle
    /\ api = IdleAPI
    /\ seen = [v \in VMs |-> FALSE]
    /\ repl = [v \in VMs |-> NoVM]

-----------------------------------------------------------------------------
(* The guest or its hypervisor exits by itself, whether or not a daemon runs:  *)
(* a clean shutdown, a power-down it was asked for, a crash.                   *)
GuestExit(v, how) ==
    /\ proc[v] = "up"
    /\ proc' = [proc EXCEPT ![v] = how]
    /\ UNCHANGED <<up, crashes, vm, reg, disk, orphans, probes,
                   start, stop, mon, restart, api, seen, repl>>

(* The daemon dies.  Everything in memory is gone; hypervisors live on. *)
CoreCrash ==
    /\ up
    /\ crashes < MaxCrashes
    /\ up' = FALSE
    /\ crashes' = crashes + 1
    /\ vm' = [v \in VMs |-> IF vm[v].state = Fresh THEN vm[v] ELSE Object(Lost, 0, 0)]
    /\ reg' = {}
    /\ probes' = {}
    /\ start' = Idle /\ stop' = Idle /\ mon' = Idle /\ restart' = Idle
    /\ api' = IdleAPI
    /\ seen' = [v \in VMs |-> FALSE]
    /\ repl' = [v \in VMs |-> NoVM]
    /\ UNCHANGED <<disk, proc, orphans>>

(* Mutant: a VM that was being stopped is not re-adopted. *)
AdoptableRunning(v) ==
    disk[v] # NoRecord /\ disk[v].state = "running" /\ disk[v].pid /\ proc[v] = "up"

(* recoverVM: the recorded process still runs and is this VM's. *)
Adoptable(v) ==
    /\ disk[v] # NoRecord
    /\ disk[v].state \in {"starting", "running", "stopping"}
    /\ disk[v].pid
    /\ proc[v] = "up"

(* Mutant: the done channel of a VM restored as stopped is left open. *)
RestoredObjectOpen(v) ==
    IF Adoptable(v) THEN [Object("running", 0, disk[v].restarts) EXCEPT !.pid = TRUE]
    ELSE Object(IF disk[v].state = "created" THEN "created" ELSE "stopped", 0, disk[v].restarts)

(* The VM object Restore builds from state.json. *)
RestoredObject(v) ==
    IF Adoptable(v) THEN [Object("running", 0, disk[v].restarts) EXCEPT !.pid = TRUE]
    ELSE IF disk[v].state = "created" THEN Object("created", 0, disk[v].restarts)
    ELSE Object("stopped", 1, disk[v].restarts)

(* FileStore.Restore with recoverVM for each VM that was active.  A process    *)
(* no record leads to is left running with nobody to manage it.                *)
CoreRestore ==
    LET known == {v \in VMs : disk[v] # NoRecord}
        died(v) == disk[v].state \in {"starting", "running", "stopping"} /\ ~Adoptable(v)
        lone == {v \in VMs : proc[v] = "up" /\ ~Adoptable(v)}
    IN
    /\ ~up
    /\ up' = TRUE
    /\ reg' = known
    /\ vm' = [v \in VMs |-> IF v \in known THEN RestoredObject(v) ELSE vm[v]]
    /\ disk' = [v \in VMs |-> IF v \in known /\ died(v)
                              THEN [state |-> "stopped", pid |-> FALSE, restarts |-> disk[v].restarts]
                              ELSE disk[v]]
    /\ mon' = [v \in VMs |-> IF Adoptable(v) THEN "adopt" ELSE "idle"]
    /\ orphans' = orphans \cup lone
    /\ proc' = [v \in VMs |-> IF v \in lone THEN "none" ELSE proc[v]]
    /\ UNCHANGED <<crashes, probes, start, stop, restart, api, seen, repl>>

(* adoptMonitor: the poll that finds the process gone, and the move to stopped. *)
AdoptExit(v) ==
    /\ mon[v] = "adopt"
    /\ proc[v] # "up"
    /\ vm' = TriedMove(v, "stopped")
    /\ mon' = [mon EXCEPT ![v] = "adoptStopped"]
    /\ UNCHANGED <<up, crashes, reg, disk, proc, orphans, probes,
                   start, stop, restart, api, seen, repl>>

(* adoptMonitor: the final Save.  No restart policy applies to an adopted VM. *)
AdoptSave(v) ==
    /\ mon[v] = "adoptStopped"
    /\ disk' = Saved(v)
    /\ mon' = [mon EXCEPT ![v] = "idle"]
    /\ UNCHANGED <<up, crashes, vm, reg, proc, orphans, probes,
                   start, stop, restart, api, seen, repl>>

-----------------------------------------------------------------------------
(* The VMs are interchangeable: what eventually happens to one of them, in all *)
(* behaviours, happens to each.                                                *)
AnyVM == CHOOSE v \in VMs : TRUE

(* A stop that was marked while the process was alive is final: the monitor    *)
(* does not restart this VM, then or later.                                    *)
StopPreventsRestart ==
    [](proc[AnyVM] = "up" /\ vm[AnyVM].explicitStop => [](restart[AnyVM] = "idle"))

(* A VM that is being started ends up running or stopped, and an accepted stop *)
(* ends with the VM stopped, unless the daemon dies first: no failure in the   *)
(* middle of Start and no late exit leaves it in between.                      *)
TransientStatesEnd ==
    vm[AnyVM].state \in {"starting", "stopping"}
        ~> vm[AnyVM].state \notin {"starting", "stopping"}
=============================================================================
