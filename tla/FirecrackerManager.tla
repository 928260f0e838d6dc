-------------------------- MODULE FirecrackerManager --------------------------
(***************************************************************************)
(* The Firecracker backend of internal/vm/firecracker.go.  Its goroutines  *)
(* take the steps of the QEMU backend under lifecycleClaims                *)
(* (lifecycle_claims.go), which gives one lifecycle operation at a time a  *)
(* VM: a step is the QEMU step and what happens to the claims.  Two things *)
(* differ besides: the health probe is registered before the monitor is    *)
(* started, and restartVM looks again before it creates a replacement.     *)
(***************************************************************************)
EXTENDS LifecycleClaims

Q == INSTANCE QEMUManager

fcVars == <<up, crashes, vm, reg, disk, proc, orphans, probes,
            start, stop, mon, restart, api, seen, repl, claims, pending>>

-----------------------------------------------------------------------------
(* Requests under Server.resourceMu. *)

Run(v) == Q!Run(v) /\ UNCHANGED <<claims, pending>>

(* As in the QEMU backend, the Start of restartVM that loses to this one has   *)
(* no effect of its own; restartVM returns and gives up its claim.             *)
StartInPlace(v) ==
    /\ claimVM(v)
    /\ Q!StartInPlace(v)
    /\ claims' = [w \in VMs |-> IF w = v THEN "start"
                                ELSE IF repl[w] = v THEN "none" ELSE claims[w]]
    /\ pending' = {w \in pending : repl[w] # v}

StartReplace(old, v) == Q!StartReplace(old, v) /\ UNCHANGED <<claims, pending>>

(* Remove claims the VM; a busy VM ends the request like an active one. *)
RemoveOrEnd(v) ==
    IF claimVM(v) /\ Q!Removable(v)
    THEN api' = [pc |-> "remove", vm |-> v, old |-> NoVM] /\ Claim(v, "remove")
    ELSE api' = IdleAPI /\ UNCHANGED claims

StartReturned ==
    /\ api.pc \in {"run", "inplace", "replace"}
    /\ start[api.vm] \in {"ok", "err"}
    /\ IF api.pc = "inplace" \/ (api.pc = "run" /\ start[api.vm] = "ok")
       THEN api' = IdleAPI /\ UNCHANGED claims
       ELSE RemoveOrEnd(IF start[api.vm] = "err" THEN api.vm ELSE api.old)
    /\ UNCHANGED <<up, crashes, vm, reg, disk, proc, orphans, probes,
                   start, stop, mon, restart, seen, repl, pending>>

RemoveCheck(v) ==
    /\ claimVM(v)
    /\ Q!RemoveCheck(v)
    /\ Claim(v, "remove")
    /\ UNCHANGED pending

RemoveDone == Q!RemoveDone /\ Release(api.vm) /\ UNCHANGED pending

-----------------------------------------------------------------------------
(* Start, under the claim from its first step to its return. *)

StartBegin(v) ==
    /\ start[v] = "begin"
    /\ IF claimVM(v) /\ CanMove(v, "starting")
       THEN /\ vm' = Moved(v, "starting")
            /\ start' = [start EXCEPT ![v] = "prep"]
            /\ Claim(v, "start")
       ELSE /\ start' = [start EXCEPT ![v] = "err"]
            /\ UNCHANGED <<vm, claims>>
    /\ UNCHANGED <<up, crashes, reg, disk, proc, orphans, probes,
                   stop, mon, restart, api, seen, repl, pending>>

StartFail(v) == Q!StartFail(v) /\ Release(v) /\ UNCHANGED pending

StartLaunch(v) == Q!StartLaunch(v) /\ UNCHANGED <<claims, pending>>

(* abort: no API socket in time, limits, or ports. *)
StartAbort(v) == Q!StartAbort(v) /\ Release(v) /\ UNCHANGED pending

StartRunning(v) == Q!StartRunning(v) /\ UNCHANGED <<claims, pending>>

StartSave(v) == Q!StartSave(v) /\ UNCHANGED <<claims, pending>>

(* Ports are published and the probe is registered. *)
StartHealth(v) ==
    /\ start[v] = "saved"
    /\ probes' = probes \cup {v}
    /\ start' = [start EXCEPT ![v] = "monitored"]
    /\ UNCHANGED <<up, crashes, vm, reg, disk, proc, orphans,
                   stop, mon, restart, api, seen, repl, claims, pending>>

(* The monitor is started and Start returns. *)
StartMonitor(v) ==
    /\ start[v] = "monitored"
    /\ mon' = [mon EXCEPT ![v] = "wait"]
    /\ start' = [start EXCEPT ![v] = "ok"]
    /\ Release(v)
    /\ UNCHANGED <<up, crashes, vm, reg, disk, proc, orphans, probes,
                   stop, restart, api, seen, repl, pending>>

-----------------------------------------------------------------------------
(* Stop, Kill, and Signal, which calls one of the two. *)

StopAccept(v) ==
    /\ claimVM(v)
    /\ Q!StopAccept(v)
    /\ Claim(v, "stop")
    /\ UNCHANGED pending

StopQuiet(v) == Q!StopQuiet(v) /\ UNCHANGED <<claims, pending>>

StopMark(v) == Q!StopMark(v) /\ UNCHANGED <<claims, pending>>

StopEnd(v) == Q!StopEnd(v) /\ Release(v) /\ UNCHANGED pending

-----------------------------------------------------------------------------
(* monitor takes no claim; restartVM claims the VM it replaces. *)

MonitorExit(v) == Q!MonitorExit(v) /\ UNCHANGED <<claims, pending>>

MonitorStopped(v) == Q!MonitorStopped(v) /\ UNCHANGED <<claims, pending>>

MonitorDone(v) ==
    /\ Q!MonitorDone(v)
    /\ pending' = IF Q!ShouldRestart(v) THEN pending \cup {v} ELSE pending
    /\ UNCHANGED claims

RestartCreate(v, w) ==
    /\ restart[v] = "backoff"
    /\ claimVM(v)
    /\ vm[v].state = "stopped"
    /\ Q!RestartCreate(v, w)
    /\ Claim(v, "restart")
    /\ UNCHANGED pending

(* Mutant: the deferred setRestartPending(false) comes after the claim. *)
RestartSkipPending(v) == Q!RestartCreateFail(v) /\ UNCHANGED <<claims, pending>>

(* The VM is busy, removed or no longer stopped, or store.Create failed. *)
RestartSkip(v) ==
    /\ Q!RestartCreateFail(v)
    /\ pending' = pending \ {v}
    /\ UNCHANGED claims

RestartDone(v) ==
    /\ Q!RestartDone(v)
    /\ Release(v)
    /\ pending' = pending \ {v}

-----------------------------------------------------------------------------

Init ==
    /\ CoreInit
    /\ claims = [v \in VMs |-> "none"]
    /\ pending = {}

Crash ==
    /\ CoreCrash
    /\ claims' = [v \in VMs |-> "none"]
    /\ pending' = {}

StartStep(v) ==
    \/ StartBegin(v) \/ StartFail(v) \/ StartLaunch(v) \/ StartAbort(v)
    \/ StartRunning(v) \/ StartSave(v) \/ StartHealth(v) \/ StartMonitor(v)

StopStep(v) == StopQuiet(v) \/ StopMark(v) \/ StopEnd(v)

AdoptStep(v) == (AdoptExit(v) \/ AdoptSave(v)) /\ UNCHANGED <<claims, pending>>

MonitorStep(v) == MonitorExit(v) \/ MonitorStopped(v) \/ MonitorDone(v) \/ AdoptStep(v)

RestartStep(v) == RestartSkip(v) \/ RestartDone(v) \/ \E w \in VMs : RestartCreate(v, w)

Next ==
    \/ \E v \in VMs : \/ Run(v) \/ StartInPlace(v) \/ RemoveCheck(v) \/ StopAccept(v)
                      \/ StartStep(v) \/ StopStep(v) \/ MonitorStep(v) \/ RestartStep(v)
    \/ \E old, v \in VMs : StartReplace(old, v)
    \/ StartReturned \/ RemoveDone
    \/ \E v \in VMs, how \in Exits : GuestExit(v, how) /\ UNCHANGED <<claims, pending>>
    \/ Crash
    \/ CoreRestore /\ UNCHANGED <<claims, pending>>

Spec == Init /\ [][Next]_fcVars

(* As for the QEMU backend: running goroutines keep running. *)
Fairness ==
    /\ \A v \in VMs : /\ WF_fcVars(StartStep(v)) /\ WF_fcVars(StopStep(v))
                      /\ WF_fcVars(MonitorStep(v)) /\ WF_fcVars(RestartStep(v))
    /\ WF_fcVars(StartReturned) /\ WF_fcVars(RemoveDone)

FairSpec == Spec /\ Fairness

-----------------------------------------------------------------------------
(* The variables have their types. *)
TypeOK ==
    /\ CoreTypeOK
    /\ claims \in [VMs -> {"none", "start", "stop", "remove", "restart"}]
    /\ pending \subseteq VMs

(* No claim is leaked and none is shared: a claimed VM has exactly the         *)
(* goroutine the claim names, which gives it back, and no other operation; and *)
(* the restart map names exactly the VMs whose restartVM is under way, so that *)
(* snapshot restore can rely on it from the monitor's decision to the end.     *)
ClaimsAreHeld ==
    \A v \in VMs :
        /\ claims[v] = "start" <=>
             start[v] \in {"prep", "launched", "running", "saved", "monitored"}
        /\ claims[v] = "stop" <=> stop[v] # "idle"
        /\ claims[v] = "remove" <=> api.pc = "remove" /\ api.vm = v
        /\ claims[v] = "restart" <=> restart[v] = "starting"
        /\ v \in pending <=> restart[v] # "idle"

(* A process has its VM in the registry: the claim orders Remove with Start,   *)
(* which the QEMU backend leaves open.                                         *)
RemovedIsStopped == up => \A v \in VMs : proc[v] = "up" => v \in reg

(* No health probe outlives its VM: once the VM is stopped, the monitor that   *)
(* takes the probe down is still to come.                                      *)
ProbesFollowVM ==
    \A v \in probes : vm[v].state = "stopped" => mon[v] = "stopped"

(* A process is in the registry, and a probe has a VM to look at. *)
ProcessIsManaged == RemovedIsStopped /\ ProbesFollowVM

(* A claim is given back: no VM stays busy.                                    *)
ClaimsEnd == claims[AnyVM] # "none" ~> claims[AnyVM] = "none"

(* No operation lasts for ever: the claim is given back and the VM settles. *)
NothingStaysBusy == ClaimsEnd /\ TransientStatesEnd
=============================================================================
