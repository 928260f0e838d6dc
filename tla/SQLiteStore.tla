---------------------------- MODULE SQLiteStore ----------------------------
(***************************************************************************)
(* The SQLite VM store (internal/vm/sqlitestore.go) and the migration of   *)
(* file-backed VMs into it (migrate.go), over daemon restarts: newVMStore  *)
(* opens the database and migrates before Restore loads the rows.          *)
(***************************************************************************)
EXTENDS Naturals, FiniteSets

CONSTANTS
    VMs,     \* VM IDs
    Legacy,  \* the VMs a file-backed daemon left behind
    NoVM     \* no record

ASSUME LegacyAssumption == Legacy \subseteq VMs
ASSUME NoVMAssumption == NoVM \notin {"created", "starting", "running", "stopping", "stopped"}

VARIABLES
    phase,  \* "down", "opened" (database open, files migrated), "up" (restored)
    file,   \* state.json of the file-backed store
    row,    \* the rows of table vms
    mem,    \* MemoryStore.vms, with the state of each VM
    live,   \* VMs whose hypervisor process is alive
    owned,  \* VMs whose process this daemon holds (v.proc)
    saving, \* VMs whose state was changed and whose Save is still to come
    gone,   \* VMs a remove request took out and was answered for
    stray   \* history: processes that ran unrecorded when their daemon exited

storeVars == <<phase, file, row, mem, live, owned, saving, gone, stray>>

States == {"created", "starting", "running", "stopping", "stopped"}
Active == {"starting", "running", "stopping"}

(* writeVM, with registry m: a VM that is not registered is not written. *)
writeVM(m, v) == IF m[v] # NoVM THEN [row EXCEPT ![v] = m[v]] ELSE row

StoreInit ==
    /\ phase = "down"
    /\ file \in [VMs -> States \cup {NoVM}]
    /\ \A v \in VMs : file[v] # NoVM <=> v \in Legacy
    /\ row = [v \in VMs |-> NoVM]
    /\ mem = [v \in VMs |-> NoVM]
    /\ live = {v \in VMs : file[v] \in Active}
    /\ owned = {} /\ saving = {}
    /\ gone = {} /\ stray = {}

(* The state a migrated VM gets; one that was being stopped keeps it. *)
Migrated(v) == IF file[v] \in {"running", "starting"} THEN "stopped" ELSE file[v]

(* newVMStore: an empty registry, and every file record entered into it.  Its  *)
(* write to the database comes before the VM is in the registry, so it is      *)
(* none.  The files stay.                                                      *)
Migrate ==
    /\ phase = "down"
    /\ phase' = "opened"
    /\ mem' = [v \in VMs |-> Migrated(v)]
    /\ UNCHANGED <<file, row, live, owned, saving, gone, stray>>

(* Mutant: a row that says stopping is kept. *)
RecoveredKeepsStopping(v) ==
    IF row[v] \in Active \ {"stopping"} THEN (IF v \in live THEN "running" ELSE "stopped")
    ELSE row[v]

(* recoverVM: a row that says active is adopted or becomes stopped. *)
Recovered(v) ==
    IF row[v] \in Active THEN (IF v \in live THEN "running" ELSE "stopped") ELSE row[v]

(* Restore: the rows enter the registry, over what the migration put there;    *)
(* those found dead are saved as stopped.                                      *)
StoreRestore ==
    /\ phase = "opened"
    /\ phase' = "up"
    /\ mem' = [v \in VMs |-> IF row[v] # NoVM THEN Recovered(v) ELSE mem[v]]
    /\ row' = [v \in VMs |-> IF row[v] \in Active /\ v \notin live THEN "stopped" ELSE row[v]]
    /\ owned' = {v \in live : row[v] \in Active}
    /\ UNCHANGED <<file, live, saving, gone, stray>>

StoreCreate(v) ==
    /\ phase = "up"
    /\ mem[v] = NoVM /\ v \notin gone \cup Legacy
    /\ mem' = [mem EXCEPT ![v] = "created"]
    /\ row' = writeVM(mem', v)
    /\ UNCHANGED <<phase, file, live, owned, saving, gone, stray>>

(* v.transition: the state of a VM changes in memory only. *)
Transition(v, from, to) ==
    /\ phase = "up"
    /\ mem[v] \in from
    /\ mem' = [mem EXCEPT ![v] = to]
    /\ UNCHANGED <<phase, file, row, live, gone, stray>>

(* Start of a manager, up to the launch. *)
Begin(v) == Transition(v, {"created"}, "starting") /\ UNCHANGED <<owned, saving>>

(* A start that fails before its process runs; it saves nothing. *)
LaunchFails(v) ==
    /\ v \notin owned
    /\ Transition(v, {"starting"}, "stopped")
    /\ UNCHANGED <<owned, saving>>

(* cmd.Start: there is a process, and no record of it. *)
Launch(v) ==
    /\ phase = "up"
    /\ mem[v] = "starting" /\ v \notin owned
    /\ live' = live \cup {v}
    /\ owned' = owned \cup {v}
    /\ UNCHANGED <<phase, file, row, mem, saving, gone, stray>>

(* The start is complete but for its Save. *)
Launched(v) ==
    /\ v \in owned
    /\ Transition(v, {"starting"}, "running")
    /\ saving' = saving \cup {v}
    /\ UNCHANGED owned

(* Stop and Kill, up to their Save. *)
BeginStop(v) ==
    /\ Transition(v, {"running"}, "stopping")
    /\ saving' = saving \cup {v}
    /\ UNCHANGED owned

(* A hypervisor ends, with or without a daemon. *)
Die(v) ==
    /\ v \in live
    /\ live' = live \ {v}
    /\ UNCHANGED <<phase, file, row, mem, owned, saving, gone, stray>>

(* The monitor of a process that has ended, also of one that a failing start   *)
(* took down, up to its Save.                                                  *)
MonitorEnds(v) ==
    /\ v \in owned \ live
    /\ Transition(v, Active, "stopped")
    /\ owned' = owned \ {v}
    /\ saving' = saving \cup {v}

(* Mutant: a Save writes also a VM that was removed in the meantime. *)
SaveUnregistered(v) ==
    /\ phase = "up"
    /\ v \in saving
    /\ row' = [row EXCEPT ![v] = IF mem[v] = NoVM THEN "stopped" ELSE mem[v]]
    /\ saving' = saving \ {v}
    /\ UNCHANGED <<phase, file, mem, live, owned, gone, stray>>

(* Save: the state the VM has by now. *)
Save(v) ==
    /\ phase = "up"
    /\ v \in saving
    /\ row' = writeVM(mem, v)
    /\ saving' = saving \ {v}
    /\ UNCHANGED <<phase, file, mem, live, owned, gone, stray>>

StoreRemove(v) ==
    /\ phase = "up"
    /\ mem[v] \in {"created", "stopped"}
    /\ mem' = [mem EXCEPT ![v] = NoVM]
    /\ row' = [row EXCEPT ![v] = NoVM]
    /\ gone' = gone \cup {v}
    /\ UNCHANGED <<phase, file, live, owned, saving, stray>>

(* The daemon exits, between any two of these steps. *)
StoreCrash ==
    /\ phase # "down"
    /\ phase' = "down"
    /\ mem' = [v \in VMs |-> NoVM]
    /\ owned' = {} /\ saving' = {}
    /\ stray' = stray \cup {v \in owned \cap live : row[v] \notin Active}
    /\ UNCHANGED <<file, row, live, gone>>

StoreNext ==
    \/ Migrate \/ StoreRestore \/ StoreCrash
    \/ \E v \in VMs : \/ StoreCreate(v) \/ StoreRemove(v) \/ Save(v)
                     \/ Begin(v) \/ LaunchFails(v) \/ Launch(v) \/ Launched(v)
                     \/ BeginStop(v) \/ Die(v) \/ MonitorEnds(v)

StoreSpec == StoreInit /\ [][StoreNext]_storeVars

-----------------------------------------------------------------------------
(* A VM created in this store is there, over any number of restarts, exactly   *)
(* until it is removed, also when a Save is still under way as it goes.  Its   *)
(* row has the state it is in but for a Save to come and for starts, which     *)
(* save only once they are through.  A process that runs belongs to a VM that  *)
(* is active and watched, or was launched and not yet saved when an earlier    *)
(* daemon exited.                                                              *)
NativeDurable ==
    phase = "up" =>
        \A v \in VMs \ Legacy :
            /\ mem[v] # NoVM <=> row[v] # NoVM
            /\ v \in gone => mem[v] = NoVM
            /\ row[v] # mem[v] /\ v \notin saving =>
                  \/ row[v] = "created" /\ mem[v] \in {"starting", "stopped"}
                  \/ row[v] \in Active /\ mem[v] = "running"
            /\ v \in live \ stray => mem[v] \in Active /\ v \in owned

(* The migration loses no VM: one that was not removed is in the registry.     *)
NothingLost ==
    phase = "up" => \A v \in Legacy \ gone : mem[v] # NoVM

(* Restarts keep every VM, those of SQLite and those of the files. *)
StoreIsDurable == NativeDurable /\ NothingLost

(* docs: the daemon "migrates file-backed VM state into SQLite on first use",  *)
(* so a VM removed afterwards is gone.  Violated: nothing is written and the   *)
(* next daemon migrates the file again.                                        *)
NoZombie == \A v \in gone : mem[v] = NoVM

(* A stop in progress when the daemon exits is resolved by the next one: a VM  *)
(* that is being stopped has a process whose end completes the stop.  Not so a *)
(* migrated one: Migrate keeps stopping and adopts nothing, and such a VM can  *)
(* be neither stopped nor removed.                                             *)
StopHasProcess == \A v \in VMs \ Legacy : mem[v] = "stopping" => v \in owned
=============================================================================
