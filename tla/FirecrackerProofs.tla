------------------------- MODULE FirecrackerProofs -------------------------
(***************************************************************************)
(* The theorems about FirecrackerManager: each of its steps is one that    *)
(* FirecrackerSteps shows to keep the invariant, or concerns more than one *)
(* VM (requests, restarts by policy, a crash of the daemon and its return) *)
(* and is dealt with here.                                                 *)
(***************************************************************************)
EXTENDS FirecrackerManager, FirecrackerSteps


-----------------------------------------------------------------------------
(* The steps of QEMUManager speak of the operators of VMCore. *)
LEMMA SameOperators ==
    ASSUME NEW v, NEW x
    PROVE  /\ Q!Moved(v, x) = Moved(v, x) /\ Q!TriedMove(v, x) = TriedMove(v, x)
           /\ Q!CanMove(v, x) <=> CanMove(v, x)
           /\ Q!Saved(v) = Saved(v) /\ Q!Killed(v) = Killed(v) /\ Q!IdleAPI = IdleAPI
           /\ Q!Dropped(v) <=> Dropped(v)
           /\ Q!Created(v, x) <=> Created(v, x)
<1>1. Q!Moved(v, x) = Moved(v, x) BY DEF Q!Moved, Moved
<1>2. Q!CanMove(v, x) <=> CanMove(v, x)
  BY DEF Q!CanMove, CanMove, Q!validTransitions, validTransitions
<1>3. Q!TriedMove(v, x) = TriedMove(v, x) BY <1>1, <1>2 DEF Q!TriedMove, TriedMove
<1>4. Q!Saved(v) = Saved(v) BY DEF Q!Saved, Saved, Q!Record, Record
<1>5. Q!Killed(v) = Killed(v) BY DEF Q!Killed, Killed
<1>6. Q!Dropped(v) <=> Dropped(v) BY DEF Q!Dropped, Dropped
<1>7. Q!Created(v, x) <=> Created(v, x)
  BY DEF Q!Created, Created, Q!Object, Object, Q!Fresh, Fresh
<1>8. Q!IdleAPI = IdleAPI BY DEF Q!IdleAPI, IdleAPI
<1>9. QED BY <1>1, <1>2, <1>3, <1>4, <1>5, <1>6, <1>7, <1>8
-----------------------------------------------------------------------------
(* The steps of one VM's goroutines. *)

(* Start takes the claim and moves the VM to starting. *)
LEMMA StartBeginMovesIInv ==
    ASSUME IInv, NEW v \in VMs, StartBegin(v), claimVM(v) /\ CanMove(v, "starting")
    PROVE  IInv'
<1>1. Types /\ Life(v) /\ ClaimMatches(v) BY Zenon DEF IInv
<1>a. mon \in [VMs -> MonPoints] /\ restart \in [VMs -> RestartPoints] BY <1>1 DEF Types
<1>2. /\ start[v] = "begin" /\ vm[v].state = "created" /\ v \in reg
      /\ claims[v] = "none" /\ mon[v] = "idle" /\ proc[v] # "up" /\ restart[v] = "idle"
      /\ v \notin probes
  BY <1>1, <1>a DEF StartBegin, Life, StartMatches, MonMatches, ObjectMatches,
     ClaimMatches, claimVM, Moving, Going, Fresh, Lost, StartPoints, MonPoints,
     RestartPoints
<1>3. /\ vm' = Moved(v, "starting")
      /\ start' = [start EXCEPT ![v] = "prep"]
      /\ claims' = [claims EXCEPT ![v] = "start"]
      /\ UNCHANGED <<up, reg, disk, proc, probes, stop, mon, restart, api, repl, pending>>
  BY <1>2, SameOperators DEF StartBegin, Claim, Release, StartPoints, MonPoints, RestartPoints
<1>4. QED BY <1>2, <1>3, StartBeginMovesStep, Zenon

(* The VM is busy or gone, or somebody else started it. *)
LEMMA StartBeginRefusedIInv ==
    ASSUME IInv, NEW v \in VMs, StartBegin(v), ~(claimVM(v) /\ CanMove(v, "starting"))
    PROVE  IInv'
<1>1. Types /\ Life(v) /\ ClaimMatches(v) BY Zenon DEF IInv
<1>2. /\ start[v] = "begin" /\ vm[v].state = "created"
  BY <1>1 DEF StartBegin, Life, StartMatches, MonMatches, ObjectMatches, ClaimMatches,
     claimVM, Moving, Going, Fresh, Lost
<1>3. /\ start' = [start EXCEPT ![v] = "err"]
      /\ UNCHANGED <<up, vm, reg, disk, proc, probes, stop, mon, restart, api, repl, claims, pending>>
  BY <1>2, SameOperators DEF StartBegin, Claim, Release
<1>4. QED BY <1>2, <1>3, StartBeginRefusedStep, Zenon

(* Host preparation, boot disk or launch failed. *)
LEMMA StartFailIInv ==
    ASSUME IInv, NEW v \in VMs, StartFail(v)
    PROVE  IInv'
<1>1. Types /\ Life(v) /\ ClaimMatches(v) BY Zenon DEF IInv
<1>2. /\ start[v] = "prep" /\ vm[v].state = "starting" /\ mon[v] = "idle"
      /\ proc[v] # "up" /\ claims[v] = "start" /\ v \notin probes
  BY <1>1, GoingStops DEF StartFail, Q!StartFail, Life, StartMatches, MonMatches,
     ObjectMatches, ClaimMatches, claimVM, Moving, Going, Fresh, Lost
<1>3. /\ vm' = Moved(v, "stopped")
      /\ start' = [start EXCEPT ![v] = "err"]
      /\ claims' = [claims EXCEPT ![v] = "none"]
      /\ UNCHANGED <<up, reg, disk, proc, probes, stop, mon, restart, api, repl, pending>>
  BY <1>2, GoingStops, SameOperators DEF StartFail, Q!StartFail, Claim, Release
<1>4. QED BY <1>2, <1>3, StartFailStep, Zenon

(* The hypervisor is launched. *)
LEMMA StartLaunchIInv ==
    ASSUME IInv, NEW v \in VMs, StartLaunch(v)
    PROVE  IInv'
<1>1. Types /\ Life(v) /\ ClaimMatches(v) BY Zenon DEF IInv
<1>2. /\ start[v] = "prep" /\ vm[v].state = "starting" /\ mon[v] = "idle"
      /\ claims[v] = "start"
  BY <1>1 DEF StartLaunch, Q!StartLaunch, Life, StartMatches, MonMatches, ObjectMatches,
     ClaimMatches, claimVM, Moving, Going, Fresh, Lost
<1>3. /\ vm' = [vm EXCEPT ![v].pid = TRUE]
      /\ proc' = [proc EXCEPT ![v] = "up"]
      /\ start' = [start EXCEPT ![v] = "launched"]
      /\ UNCHANGED <<up, reg, disk, probes, stop, mon, restart, api, repl, claims, pending>>
  BY <1>2, SameOperators DEF StartLaunch, Q!StartLaunch, Claim, Release
<1>4. QED BY <1>2, <1>3, StartLaunchStep, Zenon

(* Start kills what it launched and leaves the rest to a monitor. *)
LEMMA StartAbortIInv ==
    ASSUME IInv, NEW v \in VMs, StartAbort(v)
    PROVE  IInv'
<1>1. Types /\ Life(v) /\ ClaimMatches(v) BY Zenon DEF IInv
<1>2. /\ start[v] \in {"launched", "saved"} /\ vm[v].state \in Going /\ mon[v] = "idle"
      /\ claims[v] = "start" /\ v \notin probes
  BY <1>1 DEF StartAbort, Q!StartAbort, Life, StartMatches, MonMatches, ObjectMatches,
     ClaimMatches, claimVM, Moving, Going, Fresh, Lost
<1>3. /\ vm' = [vm EXCEPT ![v].explicitStop = TRUE]
      /\ proc' = Killed(v)
      /\ mon' = [mon EXCEPT ![v] = "wait"]
      /\ start' = [start EXCEPT ![v] = "err"]
      /\ claims' = [claims EXCEPT ![v] = "none"]
      /\ UNCHANGED <<up, reg, disk, probes, stop, restart, api, repl, pending>>
  BY <1>2, SameOperators DEF StartAbort, Q!StartAbort, Claim, Release
<1>4. QED BY <1>2, <1>3, StartAbortStep, Zenon

(* The VM runs. *)
LEMMA StartRunningIInv ==
    ASSUME IInv, NEW v \in VMs, StartRunning(v)
    PROVE  IInv'
<1>1. Types /\ Life(v) /\ ClaimMatches(v) BY Zenon DEF IInv
<1>2. /\ start[v] = "launched" /\ vm[v].state = "starting" /\ mon[v] = "idle"
      /\ v \in reg /\ v \notin probes
  BY <1>1 DEF StartRunning, Q!StartRunning, Life, StartMatches, MonMatches, ObjectMatches,
     ClaimMatches, claimVM, Moving, Going, Fresh, Lost
<1>3. /\ vm' = Moved(v, "running")
      /\ start' = [start EXCEPT ![v] = "running"]
      /\ UNCHANGED <<up, reg, disk, proc, probes, stop, mon, restart, api, repl, claims, pending>>
  BY <1>2, SameOperators DEF StartRunning, Q!StartRunning, Claim, Release
<1>4. QED BY <1>2, <1>3, StartRunningStep, Zenon

(* Start saves the VM. *)
LEMMA StartSaveIInv ==
    ASSUME IInv, NEW v \in VMs, StartSave(v)
    PROVE  IInv'
<1>1. Types /\ Life(v) /\ ClaimMatches(v) BY Zenon DEF IInv
<1>2. /\ start[v] = "running" /\ vm[v].state = "running" /\ mon[v] = "idle"
      /\ vm[v].state \in States
  BY <1>1 DEF StartSave, Q!StartSave, Life, StartMatches, MonMatches, ObjectMatches,
     ClaimMatches, claimVM, Moving, Going, Fresh, Lost, States
<1>3. /\ disk' = Saved(v)
      /\ start' = [start EXCEPT ![v] = "saved"]
      /\ UNCHANGED <<up, vm, reg, proc, probes, stop, mon, restart, api, repl, claims, pending>>
  BY <1>2, SameOperators DEF StartSave, Q!StartSave, Claim, Release, States
<1>4. QED BY <1>2, <1>3, StartSaveStep, Zenon

(* Start registers the health probe. *)
LEMMA StartHealthIInv ==
    ASSUME IInv, NEW v \in VMs, StartHealth(v)
    PROVE  IInv'
<1>1. Types /\ Life(v) /\ ClaimMatches(v) BY Zenon DEF IInv
<1>2. /\ start[v] = "saved" /\ vm[v].state = "running" /\ mon[v] = "idle"
  BY <1>1 DEF StartHealth, Life, StartMatches, MonMatches, ObjectMatches, ClaimMatches,
     claimVM, Moving, Going, Fresh, Lost
<1>3. /\ probes' = probes \cup {v}
      /\ start' = [start EXCEPT ![v] = "monitored"]
      /\ UNCHANGED <<up, vm, reg, disk, proc, stop, mon, restart, api, repl, claims, pending>>
  BY <1>2, SameOperators DEF StartHealth, Claim, Release
<1>4. QED BY <1>2, <1>3, StartHealthStep, Zenon

(* Start hands the process over to the monitor and returns. *)
LEMMA StartMonitorIInv ==
    ASSUME IInv, NEW v \in VMs, StartMonitor(v)
    PROVE  IInv'
<1>1. Types /\ Life(v) /\ ClaimMatches(v) BY Zenon DEF IInv
<1>2. /\ start[v] = "monitored" /\ vm[v].state = "running" /\ mon[v] = "idle"
      /\ claims[v] = "start"
  BY <1>1 DEF StartMonitor, Life, StartMatches, MonMatches, ObjectMatches, ClaimMatches,
     claimVM, Moving, Going, Fresh, Lost
<1>3. /\ mon' = [mon EXCEPT ![v] = "wait"]
      /\ start' = [start EXCEPT ![v] = "ok"]
      /\ claims' = [claims EXCEPT ![v] = "none"]
      /\ UNCHANGED <<up, vm, reg, disk, proc, probes, stop, restart, api, repl, pending>>
  BY <1>2, SameOperators DEF StartMonitor, Claim, Release
<1>4. QED BY <1>2, <1>3, StartMonitorStep, Zenon

(* Stop or Kill is accepted. *)
LEMMA StopAcceptIInv ==
    ASSUME IInv, NEW v \in VMs, StopAccept(v)
    PROVE  IInv'
<1>1. Types /\ Life(v) /\ ClaimMatches(v) BY Zenon DEF IInv
<1>a. vm[v].state \in States
  BY <1>1 DEF StopAccept, claimVM, Life, ObjectMatches, Types, Objects
<1>b. vm[v].state = "running" BY <1>a, RunningStops, SameOperators DEF StopAccept, Q!StopAccept
<1>c. start \in [VMs -> StartPoints] BY <1>1 DEF Types
<1>2. /\ up /\ v \in reg /\ vm[v].state = "running"
      /\ claims[v] = "none" /\ start[v] \in {"idle", "ok", "err"}
  BY <1>1, <1>b, <1>c DEF StopAccept, Q!StopAccept, Life, StartMatches, MonMatches,
     ObjectMatches, ClaimMatches, claimVM, Moving, Going, Fresh, Lost, StartPoints
<1>3. /\ vm' = Moved(v, "stopping")
      /\ stop' = [stop EXCEPT ![v] = "accepted"]
      /\ claims' = [claims EXCEPT ![v] = "stop"]
      /\ UNCHANGED <<up, reg, disk, proc, probes, start, mon, restart, api, repl, pending>>
  BY <1>2, SameOperators DEF StopAccept, Q!StopAccept, Claim, Release, StartPoints
<1>4. QED BY <1>2, <1>3, StopAcceptStep, Zenon

(* Stop saves the VM and takes the probe down. *)
LEMMA StopQuietIInv ==
    ASSUME IInv, NEW v \in VMs, StopQuiet(v)
    PROVE  IInv'
<1>1. Types /\ Life(v) /\ ClaimMatches(v) BY Zenon DEF IInv
<1>2. /\ stop[v] = "accepted" /\ claims[v] = "stop"
      /\ vm[v].state \in {"stopping", "stopped"}
  BY <1>1 DEF StopQuiet, Q!StopQuiet, Life, StartMatches, MonMatches, ObjectMatches,
     ClaimMatches, claimVM, Moving, Going, Fresh, Lost
<1>3. /\ disk' = Saved(v)
      /\ probes' = probes \ {v}
      /\ stop' = [stop EXCEPT ![v] = "quiet"]
      /\ UNCHANGED <<up, vm, reg, proc, start, mon, restart, api, repl, claims, pending>>
  BY <1>2, SameOperators DEF StopQuiet, Q!StopQuiet, Claim, Release
<1>4. QED BY <1>2, <1>3, StopQuietStep, Zenon

(* Stop marks the VM. *)
LEMMA StopMarkIInv ==
    ASSUME IInv, NEW v \in VMs, StopMark(v)
    PROVE  IInv'
<1>1. Types /\ Life(v) /\ ClaimMatches(v) BY Zenon DEF IInv
<1>2. /\ stop[v] = "quiet" /\ claims[v] = "stop"
  BY <1>1 DEF StopMark, Q!StopMark, Life, StartMatches, MonMatches, ObjectMatches,
     ClaimMatches, claimVM, Moving, Going, Fresh, Lost
<1>3. /\ vm' = [vm EXCEPT ![v].explicitStop = TRUE]
      /\ stop' = [stop EXCEPT ![v] = "marked"]
      /\ UNCHANGED <<up, reg, disk, proc, probes, start, mon, restart, api, repl, claims, pending>>
  BY <1>2, SameOperators DEF StopMark, Q!StopMark, Claim, Release
<1>4. QED BY <1>2, <1>3, StopMarkStep, Zenon

(* Stop kills the process, or finds it gone. *)
LEMMA StopEndIInv ==
    ASSUME IInv, NEW v \in VMs, StopEnd(v)
    PROVE  IInv'
<1>1. Types /\ Life(v) /\ ClaimMatches(v) BY Zenon DEF IInv
<1>2. /\ stop[v] = "marked" /\ claims[v] = "stop"
  BY <1>1 DEF StopEnd, Q!StopEnd, Life, StartMatches, MonMatches, ObjectMatches,
     ClaimMatches, claimVM, Moving, Going, Fresh, Lost
<1>3. /\ proc' = Killed(v)
      /\ stop' = [stop EXCEPT ![v] = "idle"]
      /\ claims' = [claims EXCEPT ![v] = "none"]
      /\ UNCHANGED <<up, vm, reg, disk, probes, start, mon, restart, api, repl, pending>>
  BY <1>2, SameOperators DEF StopEnd, Q!StopEnd, Claim, Release
<1>4. QED BY <1>2, <1>3, StopEndStep, Zenon

(* The guest exits by itself. *)
LEMMA GuestExitIInv ==
    ASSUME IInv, NEW v \in VMs, NEW how \in Exits, GuestExit(v, how), UNCHANGED <<claims, pending>>
    PROVE  IInv'
<1>1. Types /\ Life(v) /\ ClaimMatches(v) BY Zenon DEF IInv
<1>2. /\ proc[v] = "up" /\ how \in {"ok", "failed"}
  BY <1>1, BoundsAssumption DEF GuestExit, Life, StartMatches, MonMatches, ObjectMatches,
     ClaimMatches, claimVM, Moving, Going, Fresh, Lost
<1>3. /\ proc' = [proc EXCEPT ![v] = how]
      /\ UNCHANGED <<up, vm, reg, disk, probes, start, stop, mon, restart, api, repl, claims, pending>>
  BY <1>2, SameOperators DEF GuestExit, Claim, Release
<1>4. QED BY <1>2, <1>3, GuestExitStep, Zenon

(* The monitor sees the exit. *)
LEMMA MonitorExitIInv ==
    ASSUME IInv, NEW v \in VMs, MonitorExit(v)
    PROVE  IInv'
<1>1. Types /\ Life(v) /\ ClaimMatches(v) BY Zenon DEF IInv
<1>2. /\ mon[v] = "wait" /\ proc[v] # "up" /\ vm[v].state \in Going
  BY <1>1 DEF MonitorExit, Q!MonitorExit, Life, StartMatches, MonMatches, ObjectMatches,
     ClaimMatches, claimVM, Moving, Going, Fresh, Lost
<1>3. /\ mon' = [mon EXCEPT ![v] = "exited"]
      /\ UNCHANGED <<up, vm, reg, disk, proc, probes, start, stop, restart, api, repl, claims, pending>>
  BY <1>2, SameOperators DEF MonitorExit, Q!MonitorExit, Claim, Release
<1>4. QED BY <1>2, <1>3, MonitorExitStep, Zenon

(* The monitor stops the VM. *)
LEMMA MonitorStoppedIInv ==
    ASSUME IInv, NEW v \in VMs, MonitorStopped(v)
    PROVE  IInv'
<1>1. Types /\ Life(v) /\ ClaimMatches(v) BY Zenon DEF IInv
<1>2. /\ mon[v] = "exited" /\ vm[v].state \in Going /\ proc[v] # "up"
      /\ start[v] \in {"ok", "err"}
  BY <1>1, GoingStops DEF MonitorStopped, Q!MonitorStopped, Life, StartMatches,
     MonMatches, ObjectMatches, ClaimMatches, claimVM, Moving, Going, Fresh, Lost
<1>3. /\ vm' = Moved(v, "stopped")
      /\ mon' = [mon EXCEPT ![v] = "stopped"]
      /\ UNCHANGED <<up, reg, disk, proc, probes, start, stop, restart, api, repl, claims, pending>>
  BY <1>2, GoingStops, SameOperators DEF MonitorStopped, Q!MonitorStopped, Claim, Release
<1>4. QED BY <1>2, <1>3, MonitorStoppedStep, Zenon

(* The monitor saves the VM, takes the probe down and decides about a restart. *)
LEMMA MonitorDoneIInv ==
    ASSUME IInv, NEW v \in VMs, MonitorDone(v)
    PROVE  IInv'
<1>1. Types /\ Life(v) /\ ClaimMatches(v) BY Zenon DEF IInv
<1>2. /\ mon[v] = "stopped" /\ vm[v].state = "stopped" /\ restart[v] = "idle" /\ repl[v] = NoVM
      /\ v \notin pending /\ claims[v] # "restart"
  BY <1>1 DEF MonitorDone, Q!MonitorDone, Life, StartMatches, MonMatches, ObjectMatches,
     ClaimMatches, claimVM, Moving, Going, Fresh, Lost
<1>3. /\ disk' = Saved(v)
      /\ probes' = probes \ {v}
      /\ mon' = [mon EXCEPT ![v] = "idle"]
      /\ \/ pending' = pending \cup {v} /\ restart' = [restart EXCEPT ![v] = "backoff"]
         \/ pending' = pending /\ restart' = [restart EXCEPT ![v] = "idle"]
      /\ UNCHANGED <<up, vm, reg, proc, start, stop, api, repl, claims>>
  BY <1>2, SameOperators DEF MonitorDone, Q!MonitorDone, Claim, Release
<1>4. QED BY <1>2, <1>3, MonitorDoneStep, Zenon

(* The monitor of an adopted VM finds the process gone. *)
LEMMA AdoptExitIInv ==
    ASSUME IInv, NEW v \in VMs, AdoptExit(v), UNCHANGED <<claims, pending>>
    PROVE  IInv'
<1>1. Types /\ Life(v) /\ ClaimMatches(v) BY Zenon DEF IInv
<1>2. /\ mon[v] = "adopt" /\ vm[v].state \in Moving /\ start[v] = "idle" /\ proc[v] # "up"
      /\ vm[v].state \in Going
  BY <1>1, GoingStops DEF AdoptExit, Life, StartMatches, MonMatches, ObjectMatches,
     ClaimMatches, claimVM, Moving, Going, Fresh, Lost
<1>3. /\ vm' = Moved(v, "stopped")
      /\ mon' = [mon EXCEPT ![v] = "adoptStopped"]
      /\ UNCHANGED <<up, reg, disk, proc, probes, start, stop, restart, api, repl, claims, pending>>
  BY <1>2, GoingStops, SameOperators DEF AdoptExit, Claim, Release
<1>4. QED BY <1>2, <1>3, AdoptExitStep, Zenon

(* The monitor of an adopted VM saves it. *)
LEMMA AdoptSaveIInv ==
    ASSUME IInv, NEW v \in VMs, AdoptSave(v), UNCHANGED <<claims, pending>>
    PROVE  IInv'
<1>1. Types /\ Life(v) /\ ClaimMatches(v) BY Zenon DEF IInv
<1>2. /\ mon[v] = "adoptStopped" /\ vm[v].state = "stopped"
  BY <1>1 DEF AdoptSave, Life, StartMatches, MonMatches, ObjectMatches, ClaimMatches,
     claimVM, Moving, Going, Fresh, Lost
<1>3. /\ disk' = Saved(v)
      /\ mon' = [mon EXCEPT ![v] = "idle"]
      /\ UNCHANGED <<up, vm, reg, proc, probes, start, stop, restart, api, repl, claims, pending>>
  BY <1>2, SameOperators DEF AdoptSave, Claim, Release
<1>4. QED BY <1>2, <1>3, AdoptSaveStep, Zenon

(* restartVM gives up before it created a replacement. *)
LEMMA RestartSkipIInv ==
    ASSUME IInv, NEW v \in VMs, RestartSkip(v)
    PROVE  IInv'
<1>1. Types /\ Life(v) /\ ClaimMatches(v) BY Zenon DEF IInv
<1>2. /\ restart[v] = "backoff" /\ repl[v] = NoVM
  BY <1>1 DEF RestartSkip, Q!RestartCreateFail, Life, StartMatches, MonMatches,
     ObjectMatches, ClaimMatches, claimVM, Moving, Going, Fresh, Lost
<1>3. /\ restart' = [restart EXCEPT ![v] = "idle"]
      /\ pending' = pending \ {v}
      /\ UNCHANGED <<up, vm, reg, disk, proc, probes, start, stop, mon, api, repl, claims>>
  BY <1>2, SameOperators DEF RestartSkip, Q!RestartCreateFail, Claim, Release
<1>4. QED BY <1>2, <1>3, RestartSkipStep, Zenon

(* restartVM takes the old VM, which is stopped, out of the store. *)
LEMMA RestartDoneIInv ==
    ASSUME IInv, NEW v \in VMs, RestartDone(v)
    PROVE  IInv'
<1>1. Types /\ Life(v) /\ ClaimMatches(v) BY Zenon DEF IInv
<1>2. restart[v] = "starting" /\ vm[v].state = "stopped" /\ claims[v] = "restart"
  BY <1>1 DEF RestartDone, Q!RestartDone, Life, MonMatches, ClaimMatches
<1>3. /\ restart' = [restart EXCEPT ![v] = "idle"] /\ repl' = [repl EXCEPT ![v] = NoVM]
      /\ claims' = [claims EXCEPT ![v] = "none"] /\ pending' = pending \ {v}
      /\ UNCHANGED <<up, vm, proc, probes, start, stop, mon, api>>
      /\ Dropped(v) \/ UNCHANGED <<reg, disk>>
  BY SameOperators DEF RestartDone, Q!RestartDone, Release
<1>4. QED BY <1>2, <1>3, RestartDoneStep, Zenon

-----------------------------------------------------------------------------
(* A step that concerns only the request and the claim of Remove. *)
LEMMA RequestLife ==
    ASSUME IInv, UNCHANGED <<up, vm, reg, proc, probes, start, stop, mon, restart, repl>>,
           NEW w \in VMs
    PROVE  Life(w)'
<1>1. Life(w) BY DEF IInv
<1>2. QED BY <1>1, Frame

(* The request ends. *)
LEMMA RequestEndsIInv ==
    ASSUME IInv, api.pc # "remove", api' = IdleAPI,
           UNCHANGED <<up, vm, reg, disk, proc, probes, start, stop, mon, restart, repl,
                       claims, pending>>
    PROVE  IInv'
<1>1. Types'
  <2>1. Types /\ api' \in Calls BY DEF IInv, Calls, IdleAPI
  <2>2. QED BY <2>1, TypesStep
<1>2. ASSUME NEW w \in VMs PROVE ClaimMatches(w)'
  <2>1. ClaimMatches(w) BY DEF IInv
  <2>2. QED BY <2>1 DEF ClaimMatches, IdleAPI
<1>3. Requests' BY DEF Requests, IdleAPI
<1>4. QED BY <1>1, <1>2, <1>3, RequestLife DEF IInv

(* Remove claims the VM and finds it created or stopped. *)
LEMMA RemoveBeginsIInv ==
    ASSUME IInv, NEW v \in VMs, claims[v] = "none",
           vm[v].state \in {"created", "stopped"}, up, api.pc # "remove",
           api' = [pc |-> "remove", vm |-> v, old |-> NoVM],
           claims' = [claims EXCEPT ![v] = "remove"],
           UNCHANGED <<up, vm, reg, disk, proc, probes, start, stop, mon, restart, repl, pending>>
    PROVE  IInv'
<1>1. Types BY DEF IInv
<1>2. claims \in [VMs -> Claimers] BY <1>1 DEF Types
<1>3. Types'
  <2>1. claims' \in [VMs -> Claimers] /\ api' \in Calls BY <1>2 DEF Claimers, Calls
  <2>2. QED BY <1>1, <2>1, TypesStep
<1>4. ASSUME NEW w \in VMs PROVE ClaimMatches(w)'
  <2>1. ClaimMatches(w) BY DEF IInv
  <2>2. claims'[w] = IF w = v THEN "remove" ELSE claims[w] BY <1>2
  <2>3. QED BY <2>1, <2>2 DEF ClaimMatches
<1>5. Requests' BY DEF Requests
<1>6. QED BY <1>3, <1>4, <1>5, RequestLife DEF IInv

(* Remove after its check: nobody has started the VM in between. *)
LEMMA RemoveDoneStep ==
    ASSUME IInv, NEW v \in VMs, v = api.vm, api.pc = "remove",
           vm[v].state \in {"created", "stopped"} /\ up,
           probes' = probes \ {v}, Dropped(v), api' = IdleAPI,
           claims' = [claims EXCEPT ![v] = "none"],
           UNCHANGED <<up, vm, proc, start, stop, mon, restart, repl, pending>>
    PROVE  IInv'
<1>1. Types /\ Life(v) /\ ClaimMatches(v) BY DEF IInv
<1>2. /\ claims \in [VMs -> Claimers] /\ disk \in [VMs -> Records \cup {NoRecord}]
      /\ reg \subseteq VMs /\ probes \subseteq VMs
  BY <1>1 DEF Types
<1>5. disk' \in [VMs -> Records \cup {NoRecord}] /\ reg' = reg \ {v}
  BY <1>2 DEF Dropped
<1>6. Types'
  <2>1. claims' \in [VMs -> Claimers] /\ api' \in Calls BY <1>2 DEF Claimers, Calls, IdleAPI
  <2>2. QED BY <1>1, <1>2, <1>5, <2>1, TypesStep
<1>7. ASSUME NEW w \in VMs \ {v} PROVE Life(w)' /\ ClaimMatches(w)'
  <2>1. Life(w) /\ ClaimMatches(w) BY DEF IInv
  <2>2. Life(w)' BY <1>5, <2>1, Frame
  <2>3. claims'[w] = claims[w] BY <1>2
  <2>4. api.vm # w OBVIOUS
  <2>5. ClaimMatches(w)' BY <2>1, <2>3, <2>4 DEF ClaimMatches, IdleAPI
  <2>6. QED BY <2>2, <2>5
<1>8. Life(v)'
  <2>1. v \notin probes' /\ v \notin reg' BY <1>5
  <2>2. QED
    BY <1>1, <2>1 DEF Life, StartMatches, MonMatches, ObjectMatches, DownMatches,
       Going, Fresh, Lost
<1>9. ClaimMatches(v)'
  <2>1. claims[v] = "remove" BY <1>1 DEF ClaimMatches
  <2>2. claims'[v] = "none" BY <1>2
  <2>3. QED BY <1>1, <2>1, <2>2 DEF ClaimMatches, IdleAPI
<1>10. Requests' BY DEF Requests, IdleAPI
<1>11. QED BY <1>6, <1>7, <1>8, <1>9, <1>10 DEF IInv


(* The daemon dies, and every claim with it. *)
LEMMA CrashStep ==
    ASSUME IInv, CoreCrash, claims' = [v \in VMs |-> "none"], pending' = {}
    PROVE  IInv'
<1>1. /\ up' = FALSE /\ reg' = {} /\ api' = IdleAPI /\ probes' = {}
      /\ vm' = [v \in VMs |-> IF vm[v].state = Fresh THEN vm[v] ELSE Object(Lost, 0, 0)]
      /\ start' = Idle /\ stop' = Idle /\ mon' = Idle /\ restart' = Idle
      /\ repl' = [v \in VMs |-> NoVM] /\ claims' = [v \in VMs |-> "none"] /\ pending' = {}
      /\ disk' = disk /\ proc' = proc
  BY DEF CoreCrash
<1>2. Types BY DEF IInv
<1>3. \A v \in VMs : /\ start'[v] = "idle" /\ stop'[v] = "idle" /\ mon'[v] = "idle"
                     /\ restart'[v] = "idle" /\ repl'[v] = NoVM /\ claims'[v] = "none"
  BY <1>1 DEF Idle
<1> DEFINE o == Object(Lost, 0, 0)
<1>4. /\ o \in [state : States \cup {Fresh, Lost}, explicitStop : BOOLEAN,
                closed : Nat, pid : BOOLEAN, restarts : Nat]
      /\ o.state = Lost
  BY DEF Object
<1>5. vm' = [v \in VMs |-> IF vm[v].state = Fresh THEN vm[v] ELSE o] BY <1>1
<1> HIDE DEF o
<1>6. vm' \in Objects BY <1>2, <1>4, <1>5 DEF Types, Objects
<1>7. \A v \in VMs : /\ vm[v].state = Fresh => vm'[v].state = Fresh
                     /\ vm[v].state # Fresh => vm'[v].state = Lost
  BY <1>4, <1>5
<1>8. Types'
  <2>1. /\ up' \in BOOLEAN /\ reg' \subseteq VMs /\ probes' \subseteq VMs /\ pending' \subseteq VMs
        /\ api' \in Calls
    BY <1>1 DEF IdleAPI, Calls
  <2>2. /\ start' \in [VMs -> StartPoints] /\ stop' \in [VMs -> StopPoints]
        /\ mon' \in [VMs -> MonPoints] /\ restart' \in [VMs -> RestartPoints]
        /\ repl' \in [VMs -> VMs \cup {NoVM}] /\ claims' \in [VMs -> Claimers]
    BY <1>1 DEF Idle, StartPoints, StopPoints, MonPoints, RestartPoints, Claimers
  <2>3. QED BY <1>1, <1>2, <1>6, <2>1, <2>2, TypesStep
<1>9. ASSUME NEW v \in VMs PROVE Life(v)' /\ ClaimMatches(v)'
  <2>1. Life(v) BY DEF IInv
  <2>2. vm'[v].state \in {Fresh, Lost} BY <1>7
  <2>3. StartMatches(v)' BY <1>3, <2>2 DEF StartMatches
  <2>4. MonMatches(v)' BY <1>1, <1>3 DEF MonMatches
  <2>5. ObjectMatches(v)' BY <1>1, <1>7, <2>1 DEF Life, ObjectMatches, Going, Fresh, Lost
  <2>6. DownMatches(v)' BY <1>1, <1>3, <2>2 DEF DownMatches
  <2>7. ClaimMatches(v)' BY <1>1, <1>3 DEF ClaimMatches, IdleAPI
  <2>8. QED BY <2>3, <2>4, <2>5, <2>6, <2>7 DEF Life
<1>10. Requests' BY <1>1 DEF Requests, IdleAPI
<1>11. QED BY <1>8, <1>9, <1>10 DEF IInv

(* FileStore.Restore with recoverVM. *)
LEMMA CoreRestoreStep ==
    ASSUME IInv, CoreRestore, UNCHANGED <<claims, pending>>
    PROVE  IInv'
<1> DEFINE known == {v \in VMs : disk[v] # NoRecord}
           died(v) == disk[v].state \in Going /\ ~Adoptable(v)
           lone == {v \in VMs : proc[v] = "up" /\ ~Adoptable(v)}
<1>1. /\ ~up /\ up' = TRUE /\ reg' = known
      /\ vm' = [v \in VMs |-> IF v \in known THEN RestoredObject(v) ELSE vm[v]]
      /\ disk' = [v \in VMs |-> IF v \in known /\ died(v)
                                THEN [state |-> "stopped", pid |-> FALSE, restarts |-> disk[v].restarts]
                                ELSE disk[v]]
      /\ mon' = [v \in VMs |-> IF Adoptable(v) THEN "adopt" ELSE "idle"]
      /\ proc' = [v \in VMs |-> IF v \in lone THEN "none" ELSE proc[v]]
      /\ UNCHANGED <<probes, start, stop, restart, api, repl>>
  BY DEF CoreRestore, Going
<1>2. Types /\ Requests BY DEF IInv
<1>3. api.pc = "idle" BY <1>1, <1>2 DEF Requests
<1>4. ASSUME NEW v \in VMs, disk[v] # NoRecord PROVE disk[v] \in Records
  BY <1>2, <1>4 DEF Types
<1>5. Types'
  <2>1. vm' \in Objects BY <1>1, <1>2, <1>4, RestoredFacts DEF Types, Objects
  <2>2. disk' \in [VMs -> Records \cup {NoRecord}]
    <3>1. ASSUME NEW v \in VMs, v \in known
          PROVE  [state |-> "stopped", pid |-> FALSE, restarts |-> disk[v].restarts] \in Records
      BY <1>4, <3>1 DEF Records, States
    <3>2. QED BY <1>1, <1>2, <3>1 DEF Types
  <2>3. proc' \in [VMs -> Processes] BY <1>1, <1>2 DEF Types, Processes
  <2>4. mon' \in [VMs -> MonPoints] BY <1>1 DEF MonPoints
  <2>5. up' \in BOOLEAN /\ reg' \subseteq VMs BY <1>1
  <2>6. QED BY <1>1, <1>2, <2>1, <2>2, <2>3, <2>4, <2>5, TypesStep
<1>6. ASSUME NEW v \in VMs PROVE Life(v)' /\ ClaimMatches(v)'
  <2>1. Life(v) /\ ClaimMatches(v) BY DEF IInv
  <2>2. /\ vm[v].state \in {Fresh, Lost} /\ start'[v] = "idle" /\ stop'[v] = "idle"
        /\ restart'[v] = "idle" /\ repl'[v] = NoVM /\ v \notin probes'
    BY <1>1, <2>1 DEF Life, DownMatches, MonMatches
  <2>3. DownMatches(v)' BY <1>1 DEF DownMatches
  <2>4. ClaimMatches(v)' BY <1>1, <2>1 DEF ClaimMatches
  <2>5. CASE Adoptable(v)
    <3>1. disk[v] # NoRecord BY <2>5 DEF Adoptable
    <3>2. v \in reg' /\ mon'[v] = "adopt" /\ vm'[v] = RestoredObject(v) BY <1>1, <2>5, <3>1
    <3>3. vm'[v].state = "running" BY <1>4, <2>5, <3>1, <3>2, RestoredFacts
    <3>4. StartMatches(v)' /\ MonMatches(v)' /\ ObjectMatches(v)'
      BY <2>2, <3>2, <3>3 DEF StartMatches, MonMatches, ObjectMatches, Moving, Going, Fresh, Lost
    <3>5. QED BY <2>3, <2>4, <3>4 DEF Life
  <2>6. CASE ~Adoptable(v) /\ disk[v] # NoRecord
    <3>1. mon'[v] = "idle" /\ proc'[v] # "up" /\ vm'[v] = RestoredObject(v) BY <1>1, <2>6
    <3>2. vm'[v].state \in {"created", "stopped"} BY <1>4, <2>6, <3>1, RestoredFacts
    <3>3. StartMatches(v)' BY <2>2, <3>2 DEF StartMatches
    <3>4. MonMatches(v)' BY <2>2, <3>1 DEF MonMatches
    <3>5. ObjectMatches(v)' BY <3>1, <3>2 DEF ObjectMatches, Going, Fresh, Lost
    <3>6. QED BY <2>3, <2>4, <3>3, <3>4, <3>5 DEF Life
  <2>7. CASE disk[v] = NoRecord
    <3>1. ~Adoptable(v) BY <2>7 DEF Adoptable
    <3>2. v \notin reg' /\ mon'[v] = "idle" /\ proc'[v] # "up" /\ vm'[v] = vm[v]
      BY <1>1, <2>7, <3>1
    <3>3. StartMatches(v)' BY <2>2, <3>2 DEF StartMatches
    <3>4. MonMatches(v)' BY <2>2, <3>2 DEF MonMatches
    <3>5. ObjectMatches(v)' BY <2>2, <3>2 DEF ObjectMatches, Going, Fresh, Lost
    <3>6. QED BY <2>3, <2>4, <3>3, <3>4, <3>5 DEF Life
  <2>8. QED BY <2>5, <2>6, <2>7
<1>7. Requests' BY <1>1, <1>3 DEF Requests
<1>8. QED BY <1>5, <1>6, <1>7 DEF IInv

(* A step that leaves all of it alone. *)
LEMMA StutterStep ==
    ASSUME IInv, UNCHANGED <<up, vm, reg, disk, proc, probes, start, stop, mon, restart, api, repl,
                             claims, pending>>
    PROVE  IInv'
<1>1. Types' BY TypesStep DEF IInv
<1>2. ASSUME NEW v \in VMs PROVE ClaimMatches(v)'
  <2>1. ClaimMatches(v) BY DEF IInv
  <2>2. QED BY <2>1 DEF ClaimMatches
<1>3. Requests' BY DEF IInv, Requests
<1>4. QED BY <1>1, <1>2, <1>3, RequestLife DEF IInv

(* The first daemon has no VMs. *)
LEMMA InitStep ==
    ASSUME CoreInit, claims = [v \in VMs |-> "none"], pending = {}
    PROVE  IInv
<1>1. /\ up = TRUE /\ reg = {} /\ probes = {} /\ pending = {} /\ api = IdleAPI
      /\ disk = [v \in VMs |-> NoRecord] /\ proc = [v \in VMs |-> "none"]
      /\ vm = [v \in VMs |-> Object(Fresh, 0, 0)]
      /\ start = [v \in VMs |-> "idle"] /\ stop = [v \in VMs |-> "idle"]
      /\ mon = [v \in VMs |-> "idle"] /\ restart = [v \in VMs |-> "idle"]
      /\ repl = [v \in VMs |-> NoVM] /\ claims = [v \in VMs |-> "none"]
  BY DEF CoreInit, Idle
<1>2. vm \in Objects /\ \A v \in VMs : vm[v].state = Fresh
  <2>1. /\ Object(Fresh, 0, 0) \in [state : States \cup {Fresh, Lost}, explicitStop : BOOLEAN,
                                    closed : Nat, pid : BOOLEAN, restarts : Nat]
        /\ Object(Fresh, 0, 0).state = Fresh
    BY DEF Object
  <2>2. QED BY <1>1, <2>1 DEF Objects
<1>3. Types
  BY <1>1, <1>2 DEF Types, IdleAPI, StartPoints, StopPoints, MonPoints, RestartPoints, Claimers,
     Processes, Calls
<1>4. ASSUME NEW v \in VMs PROVE Life(v) /\ ClaimMatches(v)
  <2>1. StartMatches(v) BY <1>1, <1>2 DEF StartMatches
  <2>2. MonMatches(v) BY <1>1 DEF MonMatches
  <2>3. ObjectMatches(v) BY <1>1, <1>2 DEF ObjectMatches, Going, Fresh, Lost
  <2>4. DownMatches(v) BY <1>1 DEF DownMatches
  <2>5. ClaimMatches(v) BY <1>1 DEF ClaimMatches, IdleAPI
  <2>6. QED BY <2>1, <2>2, <2>3, <2>4, <2>5 DEF Life
<1>5. Requests BY <1>1 DEF Requests, IdleAPI
<1>6. QED BY <1>3, <1>4, <1>5 DEF IInv

-----------------------------------------------------------------------------
(* The requests. *)
LEMMA RunIInv ==
    ASSUME IInv, NEW v \in VMs, Run(v)
    PROVE  IInv'
<1>1. api' = [pc |-> "run", vm |-> v, old |-> NoVM] BY DEF Run, Q!Run
<1>2. /\ Created(v, 0) /\ up /\ api.pc = "idle" /\ start' = [start EXCEPT ![v] = "begin"]
      /\ UNCHANGED <<up, proc, probes, stop, mon, restart, repl, claims, pending>>
  BY SameOperators DEF Run, Q!Run
<1>3. QED BY <1>1, <1>2, RequestCreatesIInv, Zenon

LEMMA StartReplaceIInv ==
    ASSUME IInv, NEW old \in VMs, NEW v \in VMs, StartReplace(old, v)
    PROVE  IInv'
<1>1. api' = [pc |-> "replace", vm |-> v, old |-> old] BY DEF StartReplace, Q!StartReplace
<1>2. /\ Created(v, 0) /\ up /\ api.pc = "idle" /\ start' = [start EXCEPT ![v] = "begin"]
      /\ UNCHANGED <<up, proc, probes, stop, mon, restart, repl, claims, pending>>
  BY SameOperators DEF StartReplace, Q!StartReplace
<1>3. QED BY <1>1, <1>2, RequestCreatesIInv, Zenon

(* restartVM creates the replacement of a VM it has claimed. *)
LEMMA RestartCreateIInv ==
    ASSUME IInv, NEW v \in VMs, NEW w \in VMs, RestartCreate(v, w)
    PROVE  IInv'
<1>1. Types /\ Life(v) BY DEF IInv
<1>2. restart[v] = "backoff" /\ claims[v] = "none" /\ vm[v].state = "stopped" /\ up
  BY <1>1 DEF RestartCreate, claimVM, Life, DownMatches
<1>3. PICK n \in Nat : n = vm[v].restarts + 1 BY <1>1 DEF Types, Objects
<1>4. /\ Created(w, n) /\ start' = [start EXCEPT ![w] = "begin"]
      /\ restart' = [restart EXCEPT ![v] = "starting"] /\ repl' = [repl EXCEPT ![v] = w]
      /\ claims' = [claims EXCEPT ![v] = "restart"]
      /\ UNCHANGED <<up, proc, probes, stop, mon, api, pending>>
  BY <1>3, SameOperators DEF RestartCreate, Q!RestartCreate, Claim
<1>5. QED BY <1>2, <1>4, RestartCreateStep, Zenon

(* handleStart of a VM that never ran. *)
LEMMA StartInPlaceIInv ==
    ASSUME IInv, NEW v \in VMs, StartInPlace(v)
    PROVE  IInv'
<1>1. up /\ api.pc = "idle" /\ v \in reg /\ vm[v].state = "created" /\ claims[v] = "none"
  BY DEF StartInPlace, Q!StartInPlace, claimVM
<1>2. /\ vm' = Moved(v, "starting") /\ start' = [start EXCEPT ![v] = "prep"]
      /\ restart' = [o \in VMs |-> IF repl[o] = v THEN "idle" ELSE restart[o]]
      /\ repl' = [o \in VMs |-> IF repl[o] = v THEN NoVM ELSE repl[o]]
      /\ claims' = [w \in VMs |-> IF w = v THEN "start"
                                  ELSE IF repl[w] = v THEN "none" ELSE claims[w]]
      /\ pending' = {w \in pending : repl[w] # v}
      /\ api' = [pc |-> "inplace", vm |-> v, old |-> NoVM]
      /\ UNCHANGED <<up, reg, disk, proc, probes, stop, mon>>
  BY SameOperators DEF StartInPlace, Q!StartInPlace
<1>3. QED BY <1>1, <1>2, StartInPlaceStep, Zenon

LEMMA RemoveCheckIInv ==
    ASSUME IInv, NEW v \in VMs, RemoveCheck(v)
    PROVE  IInv'
<1>1. /\ claims[v] = "none" /\ vm[v].state \in {"created", "stopped"} /\ up /\ api.pc # "remove"
      /\ claims' = [claims EXCEPT ![v] = "remove"] /\ api' = [pc |-> "remove", vm |-> v, old |-> NoVM]
      /\ UNCHANGED <<up, vm, reg, disk, proc, probes, start, stop, mon, restart, repl, pending>>
  BY DEF RemoveCheck, Q!RemoveCheck, Q!RemoveOrEnd, Q!Removable, claimVM, Claim
<1>2. QED BY <1>1, RemoveBeginsIInv, Zenon

(* Start returned to the request. *)
LEMMA StartReturnedIInv ==
    ASSUME IInv, StartReturned
    PROVE  IInv'
<1>1. /\ api.pc \in {"run", "inplace", "replace"} /\ up /\ api.pc # "remove" /\ api.vm \in VMs
      /\ api.pc = "replace" => api.old \in VMs
      /\ start[api.vm] \in {"ok", "err"}
  BY DEF StartReturned, IInv, Requests
<1>2. UNCHANGED <<up, vm, reg, disk, proc, probes, start, stop, mon, restart, repl, pending>>
  BY DEF StartReturned
<1>3. ASSUME NEW v \in VMs, RemoveOrEnd(v) PROVE IInv'
  <2>1. CASE claimVM(v) /\ Q!Removable(v)
    BY <1>1, <1>2, <1>3, <2>1, RemoveBeginsIInv
       DEF RemoveOrEnd, Q!Removable, claimVM, Claim
  <2>2. CASE ~(claimVM(v) /\ Q!Removable(v))
    BY <1>1, <1>2, <1>3, <2>2, RequestEndsIInv DEF RemoveOrEnd
  <2>3. QED BY <2>1, <2>2
<1>4. CASE api.pc = "inplace" \/ (api.pc = "run" /\ start[api.vm] = "ok")
  BY <1>1, <1>2, <1>4, RequestEndsIInv DEF StartReturned
<1>5. CASE ~(api.pc = "inplace" \/ (api.pc = "run" /\ start[api.vm] = "ok"))
  <2>1. RemoveOrEnd(IF start[api.vm] = "err" THEN api.vm ELSE api.old)
    BY <1>5 DEF StartReturned
  <2>2. (IF start[api.vm] = "err" THEN api.vm ELSE api.old) \in VMs BY <1>1, <1>5
  <2>3. QED BY <1>3, <2>1, <2>2
<1>6. QED BY <1>4, <1>5

(* Remove after its check: nobody has started the VM in between. *)
LEMMA RemoveDoneIInv ==
    ASSUME IInv, RemoveDone
    PROVE  IInv'
<1>1. PICK v \in VMs : v = api.vm BY DEF RemoveDone, Q!RemoveDone, IInv, Requests
<1>2. /\ api.pc = "remove" /\ vm[v].state \in {"created", "stopped"} /\ up
  BY <1>1 DEF RemoveDone, Q!RemoveDone, IInv, Requests
<1>3. /\ probes' = probes \ {v} /\ Dropped(v) /\ api' = IdleAPI
      /\ claims' = [claims EXCEPT ![v] = "none"]
      /\ UNCHANGED <<up, vm, proc, start, stop, mon, restart, repl, pending>>
  BY <1>1, SameOperators DEF RemoveDone, Q!RemoveDone, Release
<1>4. QED BY <1>1, <1>2, <1>3, RemoveDoneStep, Zenon

-----------------------------------------------------------------------------
LEMMA InitIInv == Init => IInv
  BY InitStep DEF Init

LEMMA NextIInv == IInv /\ [Next]_fcVars => IInv'
<1> SUFFICES ASSUME IInv, [Next]_fcVars PROVE IInv' OBVIOUS
<1>1. ASSUME NEW v \in VMs, Run(v) \/ StartInPlace(v) \/ RemoveCheck(v) \/ StopAccept(v)
      PROVE  IInv'
  BY <1>1, RunIInv, StartInPlaceIInv, RemoveCheckIInv, StopAcceptIInv
<1>2. ASSUME NEW v \in VMs, StartStep(v) PROVE IInv'
  BY <1>2, StartBeginMovesIInv, StartBeginRefusedIInv, StartFailIInv, StartLaunchIInv,
     StartAbortIInv, StartRunningIInv, StartSaveIInv, StartHealthIInv, StartMonitorIInv
     DEF StartStep
<1>3. ASSUME NEW v \in VMs, StopStep(v) PROVE IInv'
  BY <1>3, StopQuietIInv, StopMarkIInv, StopEndIInv DEF StopStep
<1>4. ASSUME NEW v \in VMs, MonitorStep(v) PROVE IInv'
  BY <1>4, MonitorExitIInv, MonitorStoppedIInv, MonitorDoneIInv, AdoptExitIInv, AdoptSaveIInv
     DEF MonitorStep, AdoptStep
<1>5. ASSUME NEW v \in VMs, RestartStep(v) PROVE IInv'
  BY <1>5, RestartSkipIInv, RestartDoneIInv, RestartCreateIInv DEF RestartStep
<1>6. ASSUME NEW old \in VMs, NEW v \in VMs, StartReplace(old, v) PROVE IInv'
  BY <1>6, StartReplaceIInv
<1>7. ASSUME NEW v \in VMs, NEW how \in Exits, GuestExit(v, how), UNCHANGED <<claims, pending>>
      PROVE  IInv'
  BY <1>7, GuestExitIInv
<1>8. CASE StartReturned \/ RemoveDone \/ Crash
  BY <1>8, StartReturnedIInv, RemoveDoneIInv, CrashStep DEF Crash
<1>9. CASE CoreRestore /\ UNCHANGED <<claims, pending>> BY <1>9, CoreRestoreStep
<1>10. CASE UNCHANGED fcVars BY <1>10, StutterStep DEF fcVars
<1>11. QED BY <1>1, <1>2, <1>3, <1>4, <1>5, <1>6, <1>7, <1>8, <1>9, <1>10 DEF Next

(* What goroutines, claims and requests know of each other holds from the      *)
(* first run on, through every crash of the daemon.                            *)
THEOREM FirecrackerInductive == Spec => []IInv
  BY InitIInv, NextIInv, PTL DEF Spec

(* lifecycleClaims: no claim is leaked and none is shared.  A claimed VM has   *)
(* exactly the operation the claim names, and the restart map names exactly    *)
(* the VMs that restartVM is at work on.                                       *)
THEOREM ClaimsHold == Spec => []ClaimsAreHeld
<1>1. IInv => ClaimsAreHeld BY DEF IInv, ClaimMatches, ClaimsAreHeld
<1>2. QED BY <1>1, FirecrackerInductive, PTL

(* Every process belongs to a registered VM while a daemon runs, and no health *)
(* probe outlives its VM.                                                      *)
THEOREM ProcessesAreManaged == Spec => []ProcessIsManaged
<1>1. IInv => ProcessIsManaged
  <2> SUFFICES ASSUME IInv PROVE ProcessIsManaged OBVIOUS
  <2>1. ASSUME up, NEW v \in VMs, proc[v] = "up" PROVE v \in reg
    <3>1. Life(v) /\ vm[v].state \in States \cup {Fresh, Lost} BY DEF IInv, Types, Objects
    <3>2. QED BY <2>1, <3>1 DEF Life, ObjectMatches, States, Going
  <2>2. ASSUME NEW v \in probes, vm[v].state = "stopped" PROVE mon[v] = "stopped"
    <3>1. v \in VMs BY DEF IInv, Types
    <3>2. Life(v) BY <3>1 DEF IInv
    <3>3. QED BY <2>2, <3>2 DEF Life, MonMatches, Moving
  <2>3. QED BY <2>1, <2>2 DEF ProcessIsManaged, RemovedIsStopped, ProbesFollowVM
<1>2. QED BY <1>1, FirecrackerInductive, PTL
=============================================================================
