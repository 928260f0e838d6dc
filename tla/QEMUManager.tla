----------------------------- MODULE QEMUManager -----------------------------
(***************************************************************************)
(* The QEMU backend of internal/vm/qemu.go under the API server's          *)
(* run, start, stop and rm requests.  Nothing but the VM's own mutex       *)
(* orders the manager's goroutines, so a step here is what runs between    *)
(* two points where another goroutine can see or change the VM.            *)
(***************************************************************************)
EXTENDS VMCore

-----------------------------------------------------------------------------
(* Requests that hold Server.resourceMu: one at a time.                      *)

(* handleRun: createUnique refuses a name any registered VM has, then Start. *)
Run(v) ==
    /\ up /\ api.pc = "idle"
    /\ reg = {}
    /\ Created(v, 0)
    /\ start' = [start EXCEPT ![v] = "begin"]
    /\ api' = [pc |-> "run", vm |-> v, old |-> NoVM]
    /\ UNCHANGED <<up, crashes, proc, orphans, probes, stop, mon, restart, seen, repl>>

(* handleStart of a VM that never ran.  Its Start may race the one restartVM   *)
(* is about to make; transition lets one of them through, and the loser of     *)
(* the two is restartVM here (the other way round nothing happens).            *)
StartInPlace(v) ==
    /\ up /\ api.pc = "idle"
    /\ v \in reg /\ vm[v].state = "created"
    /\ start[v] \in {"idle", "begin"}
    /\ vm' = Moved(v, "starting")
    /\ start' = [start EXCEPT ![v] = "prep"]
    /\ restart' = [o \in VMs |-> IF repl[o] = v THEN "idle" ELSE restart[o]]
    /\ repl' = [o \in VMs |-> IF repl[o] = v THEN NoVM ELSE repl[o]]
    /\ api' = [pc |-> "inplace", vm |-> v, old |-> NoVM]
    /\ UNCHANGED <<up, crashes, reg, disk, proc, orphans, probes, stop, mon, seen>>

(* Mutant: handleStart does not look at the state of the VM. *)
StartReplaceAny(old, v) ==
    /\ up /\ api.pc = "idle"
    /\ old \in reg
    /\ Created(v, 0)
    /\ start' = [start EXCEPT ![v] = "begin"]
    /\ api' = [pc |-> "replace", vm |-> v, old |-> old]
    /\ UNCHANGED <<up, crashes, proc, orphans, probes, stop, mon, restart, seen, repl>>

(* handleStart of a stopped VM: a replacement with the same configuration. *)
StartReplace(old, v) ==
    /\ up /\ api.pc = "idle"
    /\ old \in reg /\ vm[old].state = "stopped"
    /\ Created(v, 0)
    /\ start' = [start EXCEPT ![v] = "begin"]
    /\ api' = [pc |-> "replace", vm |-> v, old |-> old]
    /\ UNCHANGED <<up, crashes, proc, orphans, probes, stop, mon, restart, seen, repl>>

(* Remove, up to its state check: where the removal goes on, and the request   *)
(* ends where the VM is unknown or active.                                     *)
Removable(v) == v \in reg /\ vm[v].state \in {"stopped", "created"}

RemoveOrEnd(v) ==
    api' = IF Removable(v) THEN [pc |-> "remove", vm |-> v, old |-> NoVM] ELSE IdleAPI

(* Start returned to handleRun or handleStart.  A failed Start is followed by  *)
(* Remove of the new VM, a successful replacement by Remove of its predecessor. *)
StartReturned ==
    /\ api.pc \in {"run", "inplace", "replace"}
    /\ start[api.vm] \in {"ok", "err"}
    /\ IF api.pc = "inplace" \/ (api.pc = "run" /\ start[api.vm] = "ok")
       THEN api' = IdleAPI
       ELSE RemoveOrEnd(IF start[api.vm] = "err" THEN api.vm ELSE api.old)
    /\ UNCHANGED <<up, crashes, vm, reg, disk, proc, orphans, probes,
                   start, stop, mon, restart, seen, repl>>

(* removeVM, from an rm request or from autoRemove, up to the state check. *)
RemoveCheck(v) ==
    /\ up /\ api.pc = "idle"
    /\ Removable(v)
    /\ RemoveOrEnd(v)
    /\ UNCHANGED <<up, crashes, vm, reg, disk, proc, orphans, probes,
                   start, stop, mon, restart, seen, repl>>

(* Remove after its state check. *)
RemoveDone ==
    /\ api.pc = "remove"
    /\ probes' = probes \ {api.vm}
    /\ Dropped(api.vm)
    /\ api' = IdleAPI
    /\ UNCHANGED <<up, crashes, vm, proc, orphans, start, stop, mon, restart, seen, repl>>

-----------------------------------------------------------------------------
(* Start.                                                                    *)

(* Resolve and the move to starting. *)
StartBegin(v) ==
    /\ start[v] = "begin"
    /\ IF v \in reg /\ CanMove(v, "starting")
       THEN vm' = Moved(v, "starting") /\ start' = [start EXCEPT ![v] = "prep"]
       ELSE UNCHANGED vm /\ start' = [start EXCEPT ![v] = "err"]
    /\ UNCHANGED <<up, crashes, reg, disk, proc, orphans, probes,
                   stop, mon, restart, api, seen, repl>>

(* Host preparation, boot disk or launch failed.  Nothing is saved. *)
StartFail(v) ==
    /\ start[v] = "prep"
    /\ vm' = Moved(v, "stopped")
    /\ start' = [start EXCEPT ![v] = "err"]
    /\ UNCHANGED <<up, crashes, reg, disk, proc, orphans, probes,
                   stop, mon, restart, api, seen, repl>>

(* cmd.Start, and the handle and PID in the VM object. *)
StartLaunch(v) ==
    /\ start[v] = "prep"
    /\ proc' = [proc EXCEPT ![v] = "up"]
    /\ vm' = [vm EXCEPT ![v].pid = TRUE]
    /\ start' = [start EXCEPT ![v] = "launched"]
    /\ UNCHANGED <<up, crashes, reg, disk, orphans, probes,
                   stop, mon, restart, api, seen, repl>>

(* Mutant: the bare Kill the comment in Start warns about, with no monitor. *)
StartAbortBareKill(v) ==
    /\ start[v] \in {"launched", "saved"}
    /\ vm' = [vm EXCEPT ![v].explicitStop = TRUE]
    /\ proc' = Killed(v)
    /\ start' = [start EXCEPT ![v] = "err"]
    /\ UNCHANGED <<up, crashes, reg, disk, orphans, probes,
                   stop, mon, restart, api, seen, repl>>

(* abort: limits (before running) or published ports (after Save) failed. *)
StartAbort(v) ==
    /\ start[v] \in {"launched", "saved"}
    /\ vm' = [vm EXCEPT ![v].explicitStop = TRUE]
    /\ proc' = Killed(v)
    /\ mon' = [mon EXCEPT ![v] = "wait"]
    /\ start' = [start EXCEPT ![v] = "err"]
    /\ UNCHANGED <<up, crashes, reg, disk, orphans, probes,
                   stop, restart, api, seen, repl>>

(* The move to running.  Nobody else moves a VM out of starting, so it does not *)
(* fail; if it did, StartAbort is what follows.                                 *)
StartRunning(v) ==
    /\ start[v] = "launched"
    /\ CanMove(v, "running")
    /\ vm' = Moved(v, "running")
    /\ start' = [start EXCEPT ![v] = "running"]
    /\ UNCHANGED <<up, crashes, reg, disk, proc, orphans, probes,
                   stop, mon, restart, api, seen, repl>>

StartSave(v) ==
    /\ start[v] = "running"
    /\ disk' = Saved(v)
    /\ start' = [start EXCEPT ![v] = "saved"]
    /\ UNCHANGED <<up, crashes, vm, reg, proc, orphans, probes,
                   stop, mon, restart, api, seen, repl>>

(* Ports are published and the monitor goroutine is started. *)
StartMonitor(v) ==
    /\ start[v] = "saved"
    /\ mon' = [mon EXCEPT ![v] = "wait"]
    /\ start' = [start EXCEPT ![v] = "monitored"]
    /\ UNCHANGED <<up, crashes, vm, reg, disk, proc, orphans, probes,
                   stop, restart, api, seen, repl>>

(* hchecker.Start, after the monitor is already running. *)
StartHealth(v) ==
    /\ start[v] = "monitored"
    /\ probes' = probes \cup {v}
    /\ start' = [start EXCEPT ![v] = "ok"]
    /\ UNCHANGED <<up, crashes, vm, reg, disk, proc, orphans,
                   stop, mon, restart, api, seen, repl>>

-----------------------------------------------------------------------------
(* Stop and Kill: the same steps, Kill without the grace period.  On a stopped *)
(* VM both return at once, in any other state but running with an error.       *)

StopAccept(v) ==
    /\ up /\ v \in reg
    /\ CanMove(v, "stopping")
    /\ vm' = Moved(v, "stopping")
    /\ stop' = [stop EXCEPT ![v] = "accepted"]
    /\ UNCHANGED <<up, crashes, reg, disk, proc, orphans, probes,
                   start, mon, restart, api, seen, repl>>

(* Save and hchecker.Stop. *)
StopQuiet(v) ==
    /\ stop[v] = "accepted"
    /\ disk' = Saved(v)
    /\ probes' = probes \ {v}
    /\ stop' = [stop EXCEPT ![v] = "quiet"]
    /\ UNCHANGED <<up, crashes, vm, reg, proc, orphans,
                   start, mon, restart, api, seen, repl>>

StopMark(v) ==
    /\ stop[v] = "quiet"
    /\ vm' = [vm EXCEPT ![v].explicitStop = TRUE]
    /\ stop' = [stop EXCEPT ![v] = "marked"]
    /\ UNCHANGED <<up, crashes, reg, disk, proc, orphans, probes,
                   start, mon, restart, api, seen, repl>>

(* The guest shut down in time (done is closed), or the process is killed. *)
StopEnd(v) ==
    /\ stop[v] = "marked"
    /\ stop' = [stop EXCEPT ![v] = "idle"]
    /\ proc' = Killed(v)
    /\ UNCHANGED <<up, crashes, vm, reg, disk, orphans, probes,
                   start, mon, restart, api, seen, repl>>

(* Signal with SIGKILL, or with a signal the guest exits on: the VM's state is *)
(* not touched.                                                                *)
Signal(v) ==
    /\ up /\ v \in reg /\ vm[v].pid
    /\ proc[v] = "up"
    /\ proc' = Killed(v)
    /\ UNCHANGED <<up, crashes, vm, reg, disk, orphans, probes,
                   start, stop, mon, restart, api, seen, repl>>

-----------------------------------------------------------------------------
(* monitor and restartVM.                                                    *)

(* cmd.Wait returned; explicitStop is read before the host cleanup. *)
MonitorExit(v) ==
    /\ mon[v] = "wait"
    /\ proc[v] # "up"
    /\ seen' = [seen EXCEPT ![v] = vm[v].explicitStop]
    /\ mon' = [mon EXCEPT ![v] = "exited"]
    /\ UNCHANGED <<up, crashes, vm, reg, disk, proc, orphans, probes,
                   start, stop, restart, api, repl>>

MonitorStopped(v) ==
    /\ mon[v] = "exited"
    /\ vm' = TriedMove(v, "stopped")
    /\ mon' = [mon EXCEPT ![v] = "stopped"]
    /\ UNCHANGED <<up, crashes, reg, disk, proc, orphans, probes,
                   start, stop, restart, api, seen, repl>>

(* Mutant: the restart decision ignores an explicit stop. *)
ShouldRestartIgnoringStop(v) ==
    /\ Policy = "always" \/ (Policy = "on-failure" /\ proc[v] = "failed")
    /\ MaxRetries = 0 \/ vm[v].restarts < MaxRetries

ShouldRestart(v) ==
    /\ ~seen[v]
    /\ Policy = "always" \/ (Policy = "on-failure" /\ proc[v] = "failed")
    /\ MaxRetries = 0 \/ vm[v].restarts < MaxRetries

(* Save, hchecker.Stop and the restart decision. *)
MonitorDone(v) ==
    /\ mon[v] = "stopped"
    /\ disk' = Saved(v)
    /\ probes' = probes \ {v}
    /\ mon' = [mon EXCEPT ![v] = "idle"]
    /\ seen' = [seen EXCEPT ![v] = FALSE]
    /\ restart' = [restart EXCEPT ![v] = IF ShouldRestart(v) THEN "backoff" ELSE "idle"]
    /\ UNCHANGED <<up, crashes, vm, reg, proc, orphans, start, stop, api, repl>>

(* restartVM after its backoff: the replacement is created and saved.  Whether *)
(* the old VM is still registered is not looked at.                            *)
RestartCreate(v, w) ==
    /\ restart[v] = "backoff"
    /\ Created(w, vm[v].restarts + 1)
    /\ restart' = [restart EXCEPT ![v] = "starting"]
    /\ repl' = [repl EXCEPT ![v] = w]
    /\ start' = [start EXCEPT ![w] = "begin"]
    /\ UNCHANGED <<up, crashes, proc, orphans, probes, stop, mon, api, seen>>

(* restartVM: store.Create failed. *)
RestartCreateFail(v) ==
    /\ restart[v] = "backoff"
    /\ restart' = [restart EXCEPT ![v] = "idle"]
    /\ UNCHANGED <<up, crashes, vm, reg, disk, proc, orphans, probes,
                   start, stop, mon, api, seen, repl>>

(* restartVM after Start of the replacement: the old VM is taken out of the    *)
(* store, or stays when the replacement did not start.                         *)
RestartDone(v) ==
    /\ restart[v] = "starting"
    /\ start[repl[v]] \in {"ok", "err"}
    /\ IF start[repl[v]] = "ok" THEN Dropped(v) ELSE UNCHANGED <<reg, disk>>
    /\ restart' = [restart EXCEPT ![v] = "idle"]
    /\ repl' = [repl EXCEPT ![v] = NoVM]
    /\ UNCHANGED <<up, crashes, vm, proc, orphans, probes, start, stop, mon, api, seen>>

-----------------------------------------------------------------------------

Init == CoreInit

StartStep(v) ==
    \/ StartBegin(v) \/ StartFail(v) \/ StartLaunch(v) \/ StartAbort(v)
    \/ StartRunning(v) \/ StartSave(v) \/ StartMonitor(v) \/ StartHealth(v)

StopStep(v) == StopQuiet(v) \/ StopMark(v) \/ StopEnd(v)

MonitorStep(v) ==
    MonitorExit(v) \/ MonitorStopped(v) \/ MonitorDone(v) \/ AdoptExit(v) \/ AdoptSave(v)

RestartStep(v) ==
    RestartCreateFail(v) \/ RestartDone(v) \/ \E w \in VMs : RestartCreate(v, w)

Next ==
    \/ \E v \in VMs : \/ Run(v) \/ StartInPlace(v) \/ RemoveCheck(v)
                      \/ StopAccept(v) \/ Signal(v)
                      \/ StartStep(v) \/ StopStep(v) \/ MonitorStep(v) \/ RestartStep(v)
    \/ \E old, v \in VMs : StartReplace(old, v)
    \/ StartReturned \/ RemoveDone
    \/ \E v \in VMs, how \in Exits : GuestExit(v, how)
    \/ CoreCrash \/ CoreRestore

Spec == Init /\ [][Next]_coreVars

(* Goroutines that are running keep running: Go's scheduler is fair to them,   *)
(* backoffs, grace periods and polls are finite sleeps.  No fairness for       *)
(* requests, for the guest, for crashes, or for the daemon being restarted.    *)
Fairness ==
    /\ \A v \in VMs : /\ WF_coreVars(StartStep(v)) /\ WF_coreVars(StopStep(v))
                      /\ WF_coreVars(MonitorStep(v)) /\ WF_coreVars(RestartStep(v))
    /\ WF_coreVars(StartReturned) /\ WF_coreVars(RemoveDone)

FairSpec == Spec /\ Fairness

-----------------------------------------------------------------------------
(* types.go: stopped means the process has exited, and running that there is a *)
(* process to wait for.  On disk too: a crash never leaves a live process      *)
(* behind a record that says stopped.                                          *)
StateMatchesProcess ==
    \A v \in VMs :
        /\ vm[v].state = "stopped" => proc[v] # "up"
        /\ vm[v].state \in {"running", "stopping"} => proc[v] # "none"
        /\ disk[v] # NoRecord /\ disk[v].state = "stopped" => proc[v] # "up"

(* The done channel is closed exactly when the VM is stopped, and never twice, *)
(* whichever of Start, monitor, adoptMonitor and Restore gets there first.     *)
DoneOnce ==
    \A v \in VMs : vm[v].closed = IF vm[v].state = "stopped" THEN 1 ELSE 0

(* A VM that was removed does not come back: a late Save of a goroutine that   *)
(* still has the VM (the monitor after an rm, Start after a racing Remove)     *)
(* writes no record the next daemon would restore.                             *)
NoResurrection == up => \A v \in VMs : disk[v] # NoRecord => v \in reg

(* What the daemon knows of a VM, in memory and on disk, is so: its state, its *)
(* done channel and whether it is still there.                                 *)
VMIsConsistent == StateMatchesProcess /\ DoneOnce /\ NoResurrection

(* Every process somebody is told about is waited for: once Start is past the  *)
(* point where it hands over, a VM in running or stopping has a monitor that   *)
(* will see the exit, also after a daemon restart.                             *)
ExitIsNoticed ==
    \A v \in VMs :
        vm[v].state \in {"running", "stopping"} /\ start[v] \notin {"running", "saved"} =>
            mon[v] \in {"wait", "exited", "adopt"}

(* Start gave up on a process it had launched: the VM is stopped only later,   *)
(* when the Remove that follows a failed Start has already been refused.       *)
Aborted(v) == start[v] = "err" /\ vm[v].pid

(* One process, and a registry that knows it, but for what restartVM and       *)
(* failures leave behind.  VM.Start during the backoff boots a second          *)
(* replacement, and Remove may pass its state check just before restartVM      *)
(* starts the VM; a replacement that was aborted, or a daemon that died before *)
(* the predecessor was removed, leaves two stopped VMs, each of which can be   *)
(* started.  Everything else resourceMu keeps apart.                           *)
OneOwnerButForRestarts ==
    /\ crashes = 0 /\ (\A v \in VMs : vm[v].restarts = 0 /\ ~Aborted(v)) =>
          \A v, w \in VMs : proc[v] = "up" /\ proc[w] = "up" => v = w
    /\ up => \A v \in VMs : proc[v] = "up" /\ v \notin reg => vm[v].restarts > 0

(* A process that is left behind had no record, or one that knows of no process. *)
OrphanWasUnsaved ==
    \A v \in orphans' \ orphans :
        disk[v] # NoRecord => disk[v].state = "created" /\ ~disk[v].pid

(* The next daemon finds every process that was saved: what it leaves behind   *)
(* was launched and not yet saved as running when its daemon died, or had      *)
(* escaped from the registry.                                                  *)
SavedIsAdopted == [][OrphanWasUnsaved]_coreVars

=============================================================================
