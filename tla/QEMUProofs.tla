----------------------------- MODULE QEMUProofs -----------------------------
(***************************************************************************)
(* The theorems about QEMUManager: each of its steps is one that QEMUSteps *)
(* or QEMUEndSteps shows to keep the invariant, or moves a request on and  *)
(* is dealt with here.                                                     *)
(***************************************************************************)
EXTENDS QEMUManager, QEMUEndSteps

(* The steps of one VM's goroutines. *)

(* The VM is registered and may be started. *)
LEMMA StartBeginMovesIInv ==
    ASSUME IInv, NEW v \in VMs, StartBegin(v), v \in reg /\ CanMove(v, "starting")
    PROVE  IInv'
<1>1. VMInv(v) /\ Types BY Zenon DEF IInv
<1>2. /\ start[v] = "begin" /\ v \in reg /\ vm[v].state = "created"
      /\ mon[v] = "idle" /\ proc[v] # "up"
  BY <1>1 DEF StartBegin, VMInv, StartMatches, MonMatches, ObjectMatches, Moving, Going, Fresh, Lost
<1>3. /\ vm' = Moved(v, "starting")
      /\ start' = [start EXCEPT ![v] = "prep"]
      /\ UNCHANGED <<up, crashes, reg, disk, proc, stop, mon, restart, api>>
  BY <1>2 DEF StartBegin
<1>4. QED BY <1>2, <1>3, StartBeginMovesStep, Zenon

(* The VM is gone, or somebody else started it. *)
LEMMA StartBeginRefusedIInv ==
    ASSUME IInv, NEW v \in VMs, StartBegin(v), ~(v \in reg /\ CanMove(v, "starting"))
    PROVE  IInv'
<1>1. VMInv(v) /\ Types BY Zenon DEF IInv
<1>2. /\ start[v] = "begin" /\ vm[v].state = "created"
  BY <1>1 DEF StartBegin, VMInv, StartMatches, MonMatches, ObjectMatches, Moving, Going, Fresh, Lost
<1>3. /\ start' = [start EXCEPT ![v] = "err"]
      /\ UNCHANGED <<up, crashes, vm, reg, disk, proc, stop, mon, restart, api>>
  BY <1>2 DEF StartBegin
<1>4. QED BY <1>2, <1>3, StartBeginRefusedStep, Zenon

(* Host preparation, boot disk or launch failed. *)
LEMMA StartFailIInv ==
    ASSUME IInv, NEW v \in VMs, StartFail(v)
    PROVE  IInv'
<1>1. VMInv(v) /\ Types BY Zenon DEF IInv
<1>2. /\ start[v] = "prep" /\ vm[v].state = "starting" /\ vm[v].closed = 0
      /\ mon[v] = "idle" /\ proc[v] # "up"
  BY <1>1 DEF StartFail, VMInv, StartMatches, MonMatches, ObjectMatches, Moving, Going, Fresh, Lost
<1>3. /\ vm' = Moved(v, "stopped")
      /\ start' = [start EXCEPT ![v] = "err"]
      /\ UNCHANGED <<up, crashes, reg, disk, proc, stop, mon, restart, api>>
  BY <1>2 DEF StartFail
<1>4. QED BY <1>2, <1>3, StartFailStep, Zenon

(* The hypervisor is launched. *)
LEMMA StartLaunchIInv ==
    ASSUME IInv, NEW v \in VMs, StartLaunch(v)
    PROVE  IInv'
<1>1. VMInv(v) /\ Types BY Zenon DEF IInv
<1>2. /\ start[v] = "prep" /\ vm[v].state = "starting" /\ mon[v] = "idle"
  BY <1>1 DEF StartLaunch, VMInv, StartMatches, MonMatches, ObjectMatches, Moving, Going, Fresh, Lost
<1>3. /\ vm' = [vm EXCEPT ![v].pid = TRUE]
      /\ proc' = [proc EXCEPT ![v] = "up"]
      /\ start' = [start EXCEPT ![v] = "launched"]
      /\ UNCHANGED <<up, crashes, reg, disk, stop, mon, restart, api>>
  BY <1>2 DEF StartLaunch
<1>4. QED BY <1>2, <1>3, StartLaunchStep, Zenon

(* Start kills what it launched and leaves the rest to a monitor. *)
LEMMA StartAbortIInv ==
    ASSUME IInv, NEW v \in VMs, StartAbort(v)
    PROVE  IInv'
<1>1. VMInv(v) /\ Types BY Zenon DEF IInv
<1>2. /\ start[v] \in {"launched", "saved"} /\ vm[v].state \in Going /\ mon[v] = "idle"
      /\ vm[v].pid /\ proc[v] # "none"
  BY <1>1 DEF StartAbort, VMInv, StartMatches, MonMatches, ObjectMatches, Moving, Going, Fresh, Lost
<1>3. /\ vm' = [vm EXCEPT ![v].explicitStop = TRUE]
      /\ proc' = Killed(v)
      /\ mon' = [mon EXCEPT ![v] = "wait"]
      /\ start' = [start EXCEPT ![v] = "err"]
      /\ UNCHANGED <<up, crashes, reg, disk, stop, restart, api>>
  BY <1>2 DEF StartAbort
<1>4. QED BY <1>2, <1>3, StartAbortStep, Zenon

(* The VM runs. *)
LEMMA StartRunningIInv ==
    ASSUME IInv, NEW v \in VMs, StartRunning(v)
    PROVE  IInv'
<1>1. VMInv(v) /\ Types BY Zenon DEF IInv
<1>2. /\ start[v] = "launched" /\ vm[v].state = "starting" /\ mon[v] = "idle"
      /\ vm[v].pid /\ proc[v] # "none"
  BY <1>1 DEF StartRunning, VMInv, StartMatches, MonMatches, ObjectMatches, Moving, Going, Fresh, Lost
<1>3. /\ vm' = Moved(v, "running")
      /\ start' = [start EXCEPT ![v] = "running"]
      /\ UNCHANGED <<up, crashes, reg, disk, proc, stop, mon, restart, api>>
  BY <1>2 DEF StartRunning
<1>4. QED BY <1>2, <1>3, StartRunningStep, Zenon

(* Start saves the VM. *)
LEMMA StartSaveIInv ==
    ASSUME IInv, NEW v \in VMs, StartSave(v)
    PROVE  IInv'
<1>1. VMInv(v) /\ Types BY Zenon DEF IInv
<1>2. /\ start[v] = "running" /\ vm[v].state \in {"running", "stopping"}
      /\ mon[v] = "idle" /\ vm[v].pid
  BY <1>1 DEF StartSave, VMInv, StartMatches, MonMatches, ObjectMatches, Moving, Going, Fresh, Lost
<1>3. /\ disk' = Saved(v)
      /\ start' = [start EXCEPT ![v] = "saved"]
      /\ UNCHANGED <<up, crashes, vm, reg, proc, stop, mon, restart, api>>
  BY <1>2 DEF StartSave
<1>4. QED BY <1>2, <1>3, StartSaveStep, Zenon

(* Start hands the process over to the monitor. *)
LEMMA StartMonitorIInv ==
    ASSUME IInv, NEW v \in VMs, StartMonitor(v)
    PROVE  IInv'
<1>1. VMInv(v) /\ Types BY Zenon DEF IInv
<1>2. /\ start[v] = "saved" /\ vm[v].state \in {"running", "stopping"}
      /\ mon[v] = "idle" /\ proc[v] # "none"
  BY <1>1 DEF StartMonitor, VMInv, StartMatches, MonMatches, ObjectMatches, Moving, Going, Fresh, Lost
<1>3. /\ mon' = [mon EXCEPT ![v] = "wait"]
      /\ start' = [start EXCEPT ![v] = "monitored"]
      /\ UNCHANGED <<up, crashes, vm, reg, disk, proc, stop, restart, api>>
  BY <1>2 DEF StartMonitor
<1>4. QED BY <1>2, <1>3, StartMonitorStep, Zenon

(* Start returns. *)
LEMMA StartHealthIInv ==
    ASSUME IInv, NEW v \in VMs, StartHealth(v)
    PROVE  IInv'
<1>1. VMInv(v) /\ Types BY Zenon DEF IInv
<1>2. /\ start[v] = "monitored"
  BY <1>1 DEF StartHealth, VMInv, StartMatches, MonMatches, ObjectMatches, Moving, Going, Fresh, Lost
<1>3. /\ start' = [start EXCEPT ![v] = "ok"]
      /\ UNCHANGED <<up, crashes, vm, reg, disk, proc, stop, mon, restart, api>>
  BY <1>2 DEF StartHealth
<1>4. QED BY <1>2, <1>3, StartHealthStep, Zenon

(* Stop or Kill is accepted. *)
LEMMA StopAcceptIInv ==
    ASSUME IInv, NEW v \in VMs, StopAccept(v)
    PROVE  IInv'
<1>1. VMInv(v) /\ Types BY Zenon DEF IInv
<1>a. vm[v].state \in States BY <1>1 DEF StopAccept, VMInv, ObjectMatches, Types, Objects
<1>b. vm[v].state = "running" BY <1>a, RunningStops DEF StopAccept
<1>2. /\ up /\ v \in reg /\ vm[v].state = "running" /\ vm[v].pid
  BY <1>1, <1>b DEF StopAccept, VMInv, StartMatches, MonMatches, ObjectMatches, Moving, Going, Fresh, Lost
<1>3. /\ vm' = Moved(v, "stopping")
      /\ stop' = [stop EXCEPT ![v] = "accepted"]
      /\ UNCHANGED <<up, crashes, reg, disk, proc, start, mon, restart, api>>
  BY <1>2 DEF StopAccept
<1>4. QED BY <1>2, <1>3, StopAcceptStep, Zenon

(* Stop saves the VM. *)
LEMMA StopQuietIInv ==
    ASSUME IInv, NEW v \in VMs, StopQuiet(v)
    PROVE  IInv'
<1>1. VMInv(v) /\ Types BY Zenon DEF IInv
<1>2. /\ stop[v] = "accepted" /\ vm[v].state \in {"stopping", "stopped"} /\ vm[v].pid
      /\ vm[v].state = "stopped" => proc[v] # "up"
  BY <1>1 DEF StopQuiet, VMInv, StartMatches, MonMatches, ObjectMatches, Moving, Going, Fresh, Lost
<1>3. /\ disk' = Saved(v)
      /\ stop' = [stop EXCEPT ![v] = "quiet"]
      /\ UNCHANGED <<up, crashes, vm, reg, proc, start, mon, restart, api>>
  BY <1>2 DEF StopQuiet
<1>4. QED BY <1>2, <1>3, StopQuietStep, Zenon

(* Stop marks the VM. *)
LEMMA StopMarkIInv ==
    ASSUME IInv, NEW v \in VMs, StopMark(v)
    PROVE  IInv'
<1>1. VMInv(v) /\ Types BY Zenon DEF IInv
<1>2. /\ stop[v] = "quiet"
  BY <1>1 DEF StopMark, VMInv, StartMatches, MonMatches, ObjectMatches, Moving, Going, Fresh, Lost
<1>3. /\ vm' = [vm EXCEPT ![v].explicitStop = TRUE]
      /\ stop' = [stop EXCEPT ![v] = "marked"]
      /\ UNCHANGED <<up, crashes, reg, disk, proc, start, mon, restart, api>>
  BY <1>2 DEF StopMark
<1>4. QED BY <1>2, <1>3, StopMarkStep, Zenon

(* Stop kills the process, or finds it gone. *)
LEMMA StopEndIInv ==
    ASSUME IInv, NEW v \in VMs, StopEnd(v)
    PROVE  IInv'
<1>1. VMInv(v) /\ Types BY Zenon DEF IInv
<1>2. /\ stop[v] = "marked"
  BY <1>1 DEF StopEnd, VMInv, StartMatches, MonMatches, ObjectMatches, Moving, Going, Fresh, Lost
<1>3. /\ proc' = Killed(v)
      /\ stop' = [stop EXCEPT ![v] = "idle"]
      /\ UNCHANGED <<up, crashes, vm, reg, disk, start, mon, restart, api>>
  BY <1>2 DEF StopEnd
<1>4. QED BY <1>2, <1>3, StopEndStep, Zenon

(* A signal ends the guest. *)
LEMMA SignalIInv ==
    ASSUME IInv, NEW v \in VMs, Signal(v)
    PROVE  IInv'
<1>1. VMInv(v) /\ Types BY Zenon DEF IInv
<1>2. /\ proc[v] = "up"
  BY <1>1 DEF Signal, VMInv, StartMatches, MonMatches, ObjectMatches, Moving, Going, Fresh, Lost
<1>3. /\ proc' = Killed(v)
      /\ UNCHANGED <<up, crashes, vm, reg, disk, start, stop, mon, restart, api>>
  BY <1>2 DEF Signal
<1>4. QED BY <1>2, <1>3, SignalStep, Zenon

(* The monitor sees the exit. *)
LEMMA MonitorExitIInv ==
    ASSUME IInv, NEW v \in VMs, MonitorExit(v)
    PROVE  IInv'
<1>1. VMInv(v) /\ Types BY Zenon DEF IInv
<1>2. /\ mon[v] = "wait"
      /\ proc[v] # "up"
      /\ proc[v] # "none"
  BY <1>1 DEF MonitorExit, VMInv, StartMatches, MonMatches, ObjectMatches, Moving, Going, Fresh, Lost
<1>3. /\ mon' = [mon EXCEPT ![v] = "exited"]
      /\ UNCHANGED <<up, crashes, vm, reg, disk, proc, start, stop, restart, api>>
  BY <1>2 DEF MonitorExit
<1>4. QED BY <1>2, <1>3, MonitorExitStep, Zenon

(* The monitor stops the VM. *)
LEMMA MonitorStoppedIInv ==
    ASSUME IInv, NEW v \in VMs, MonitorStopped(v)
    PROVE  IInv'
<1>1. VMInv(v) /\ Types BY Zenon DEF IInv
<1>2. /\ mon[v] = "exited" /\ vm[v].state \in Going /\ vm[v].closed = 0
      /\ proc[v] # "up" /\ start[v] \in {"monitored", "ok", "err"}
  BY <1>1 DEF MonitorStopped, VMInv, StartMatches, MonMatches, ObjectMatches, Moving, Going, Fresh, Lost
<1>3. /\ vm' = Moved(v, "stopped")
      /\ mon' = [mon EXCEPT ![v] = "stopped"]
      /\ UNCHANGED <<up, crashes, reg, disk, proc, start, stop, restart, api>>
  BY <1>2, GoingStops DEF MonitorStopped
<1>4. QED BY <1>2, <1>3, MonitorStoppedStep, Zenon

(* The monitor saves the VM and decides about a restart. *)
LEMMA MonitorDoneIInv ==
    ASSUME IInv, NEW v \in VMs, MonitorDone(v)
    PROVE  IInv'
<1>1. VMInv(v) /\ Types BY Zenon DEF IInv
<1>2. /\ mon[v] = "stopped" /\ vm[v].state = "stopped" /\ proc[v] # "up"
  BY <1>1 DEF MonitorDone, VMInv, StartMatches, MonMatches, ObjectMatches, Moving, Going, Fresh, Lost
<1>3. /\ disk' = Saved(v)
      /\ mon' = [mon EXCEPT ![v] = "idle"]
      /\ \E r \in {"backoff", "idle"} : restart' = [restart EXCEPT ![v] = r]
      /\ UNCHANGED <<up, crashes, vm, reg, proc, start, stop, api>>
  BY <1>2 DEF MonitorDone
<1>4. QED BY <1>2, <1>3, MonitorDoneStep, Zenon

(* The replacement cannot be created. *)
LEMMA RestartCreateFailIInv ==
    ASSUME IInv, NEW v \in VMs, RestartCreateFail(v)
    PROVE  IInv'
<1>1. VMInv(v) /\ Types BY Zenon DEF IInv
<1>2. /\ restart[v] = "backoff"
  BY <1>1 DEF RestartCreateFail, VMInv, StartMatches, MonMatches, ObjectMatches, Moving, Going, Fresh, Lost
<1>3. /\ restart' = [restart EXCEPT ![v] = "idle"]
      /\ UNCHANGED <<up, crashes, vm, reg, disk, proc, start, stop, mon, api>>
  BY <1>2 DEF RestartCreateFail
<1>4. QED BY <1>2, <1>3, RestartCreateFailStep, Zenon

-----------------------------------------------------------------------------
(* Requests, one at a time, and restarts. *)

(* handleRun. *)
LEMMA RunIInv ==
    ASSUME IInv, NEW v \in VMs, Run(v)
    PROVE  IInv'
<1>1. /\ up /\ api.pc = "idle" /\ reg = {} /\ Created(v, 0)
      /\ start' = [start EXCEPT ![v] = "begin"]
      /\ api' = [pc |-> "run", vm |-> v, old |-> NoVM]
      /\ UNCHANGED <<up, crashes, proc, stop, mon, restart>>
  BY Zenon DEF Run
<1>2. QED BY <1>1, RunStep, Zenon

(* handleStart of a stopped VM: the one VM there is gets a replacement. *)
LEMMA StartReplaceIInv ==
    ASSUME IInv, NEW old \in VMs, NEW v \in VMs, StartReplace(old, v)
    PROVE  IInv'
<1>1. /\ up /\ api.pc = "idle" /\ old \in reg /\ vm[old].state = "stopped" /\ Created(v, 0)
      /\ start' = [start EXCEPT ![v] = "begin"]
      /\ api' = [pc |-> "replace", vm |-> v, old |-> old]
      /\ UNCHANGED <<up, crashes, proc, stop, mon, restart>>
  BY Zenon DEF StartReplace
<1>2. QED BY <1>1, StartReplaceStep, Zenon

(* handleStart of a VM that never ran. *)
LEMMA StartInPlaceIInv ==
    ASSUME IInv, NEW v \in VMs, StartInPlace(v)
    PROVE  IInv'
<1>1. /\ up /\ api.pc = "idle" /\ v \in reg /\ vm[v].state = "created"
      /\ start[v] \in {"idle", "begin"} /\ vm' = Moved(v, "starting")
      /\ start' = [start EXCEPT ![v] = "prep"]
      /\ restart' = [o \in VMs |-> IF repl[o] = v THEN "idle" ELSE restart[o]]
      /\ api' = [pc |-> "inplace", vm |-> v, old |-> NoVM]
      /\ UNCHANGED <<up, crashes, reg, disk, proc, stop, mon>>
  BY Zenon DEF StartInPlace
<1>2. QED BY <1>1, StartInPlaceStep, Zenon

(* A step that only moves the request on keeps what is said of each VM. *)
LEMMA OnlyRequest ==
    ASSUME IInv, UNCHANGED <<up, crashes, vm, reg, disk, proc, start, stop, mon, restart>>
    PROVE  (\A w \in VMs : VMInv(w)') /\ (Undisturbed' <=> Undisturbed)
<1>1. ASSUME NEW w \in VMs PROVE VMInv(w)'
  <2>1. VMInv(w) BY DEF IInv
  <2>2. QED BY <2>1, Frame
<1>2. Undisturbed' <=> Undisturbed BY DEF Undisturbed
<1>3. QED BY <1>1, <1>2

(* Start returned to the request. *)
LEMMA StartReturnedIInv ==
    ASSUME IInv, StartReturned
    PROVE  IInv'
<1> DEFINE gone == IF start[api.vm] = "err" THEN api.vm ELSE api.old
<1>1. /\ api.pc \in {"run", "inplace", "replace"} /\ start[api.vm] \in {"ok", "err"}
      /\ UNCHANGED <<up, crashes, vm, reg, disk, proc, start, stop, mon, restart>>
  BY DEF StartReturned
<1>2. Types /\ Requests /\ OneRegistered /\ api.vm \in VMs /\ up
  BY <1>1 DEF IInv, Requests
<1>3. VMInv(api.vm) BY <1>2 DEF IInv
<1>4. \/ api' = IdleAPI
      \/ /\ api' = [pc |-> "remove", vm |-> gone, old |-> NoVM]
         /\ Removable(gone)
         /\ api.pc \in {"run", "replace"} /\ (api.pc = "run" => start[api.vm] = "err")
  BY <1>1 DEF StartReturned, RemoveOrEnd
<1>5. api' = IdleAPI => \/ api.pc = "inplace" \/ (api.pc = "run" /\ start[api.vm] = "ok")
                        \/ ~Removable(gone)
  BY <1>1 DEF StartReturned, RemoveOrEnd, IdleAPI
<1>6. api.pc \in {"run", "replace"} /\ (api.pc = "run" => start[api.vm] = "err") => gone \in VMs
  BY <1>1, <1>2 DEF Requests
<1> HIDE DEF gone
<1>7. Types'
  <2>1. api' \in Calls BY <1>4, <1>6 DEF Calls, IdleAPI
  <2>2. QED BY <1>1, <1>2, <2>1, TypesStep
<1>8. (\A w \in VMs : VMInv(w)') /\ (Undisturbed' <=> Undisturbed) BY <1>1, OnlyRequest
<1>9. Requests'
  <2>1. \A w \in VMs : start[w] \notin {"idle", "ok", "err"} => vm[w].restarts # 0
    BY <1>1, <1>2, NoRequestNoStart
  <2>2. QED BY <1>1, <1>2, <1>4, <1>6, <2>1 DEF Requests, Removable, IdleAPI
<1>10. OneRegistered'
  <2> SUFFICES ASSUME Undisturbed PROVE OneRegistered' BY <1>8 DEF OneRegistered
  <2>1. CASE api' # IdleAPI
    <3>1. \A x, y \in reg \ {gone} : x = y BY <1>2, <1>4, <2>1 DEF OneRegistered, gone
    <3>2. QED BY <1>1, <1>4, <2>1, <3>1 DEF OneRegistered
  <2>2. CASE api' = IdleAPI
    <3>1. \A x, y \in reg : x = y
      <4>1. CASE api.pc = "inplace" BY <1>2, <4>1 DEF OneRegistered
      <4>2. CASE api.pc = "run" BY <1>2, <4>2 DEF OneRegistered
      <4>3. CASE api.pc = "replace"
        <5>1. reg \subseteq {api.vm, api.old} /\ ~Removable(gone)
          BY <1>2, <1>5, <2>2, <4>3 DEF OneRegistered
        <5>2. gone \notin reg
          <6>1. CASE start[api.vm] = "ok"
            BY <1>2, <4>3, <5>1, <6>1 DEF Requests, Removable, gone
          <6>2. CASE start[api.vm] = "err"
            BY <1>2, <1>3, <5>1, <6>2
               DEF Undisturbed, Removable, VMInv, StartMatches, gone
          <6>3. QED BY <1>1, <6>1, <6>2
        <5>3. gone \in {api.vm, api.old} BY DEF gone
        <5>4. QED BY <5>1, <5>2, <5>3
      <4>4. QED BY <1>1, <4>1, <4>2, <4>3
    <3>2. QED BY <1>1, <2>2, <3>1 DEF OneRegistered, IdleAPI
  <2>3. QED BY <2>1, <2>2
<1>11. QED BY <1>7, <1>8, <1>9, <1>10 DEF IInv

(* removeVM up to its state check. *)
LEMMA RemoveCheckIInv ==
    ASSUME IInv, NEW v \in VMs, RemoveCheck(v)
    PROVE  IInv'
<1>1. /\ up /\ api.pc = "idle" /\ Removable(v)
      /\ api' = [pc |-> "remove", vm |-> v, old |-> NoVM]
      /\ UNCHANGED <<up, crashes, vm, reg, disk, proc, start, stop, mon, restart>>
  BY DEF RemoveCheck, RemoveOrEnd
<1>2. Types /\ Requests /\ OneRegistered BY DEF IInv
<1>3. Types'
  <2>1. api' \in Calls BY <1>1 DEF Calls
  <2>2. QED BY <1>1, <1>2, <2>1, TypesStep
<1>4. (\A w \in VMs : VMInv(w)') /\ (Undisturbed' <=> Undisturbed) BY <1>1, OnlyRequest
<1>5. Requests'
  <2>1. \A w \in VMs : start[w] \notin {"idle", "ok", "err"} => vm[w].restarts # 0
    BY <1>1, <1>2, NoRequestNoStart
  <2>2. QED BY <1>1, <1>2, <2>1 DEF Requests, Removable
<1>6. OneRegistered' BY <1>1, <1>2, <1>4 DEF OneRegistered
<1>7. QED BY <1>3, <1>4, <1>5, <1>6 DEF IInv

(* FileStore.Remove leaves no record of the VM, registered or not. *)
LEMMA DroppedVMInv ==
    ASSUME IInv, NEW v \in VMs, Dropped(v), up,
           UNCHANGED <<up, vm, proc, start, stop, mon>>,
           \A w \in VMs : restart'[w] # "idle" => restart[w] # "idle"
    PROVE  /\ disk' \in [VMs -> Records \cup {NoRecord}]
           /\ reg' \subseteq reg /\ v \notin reg'
           /\ \A w \in VMs \ {v} : w \in reg' <=> w \in reg
           /\ \A w \in VMs : VMInv(w)'
<1>1. Types /\ VMInv(v) BY DEF IInv
<1>2. /\ disk' \in [VMs -> Records \cup {NoRecord}] /\ disk'[v] = NoRecord
      /\ \A w \in VMs \ {v} : disk'[w] = disk[w]
  <2>1. disk \in [VMs -> Records \cup {NoRecord}] BY <1>1 DEF Types
  <2>2. QED BY <1>1, <2>1 DEF Dropped, VMInv, DiskMatches
<1>3. reg' = reg \ {v} BY DEF Dropped
<1>4. ASSUME NEW w \in VMs, w # v PROVE VMInv(w)'
  <2>1. VMInv(w) BY DEF IInv
  <2>2. QED BY <1>2, <1>3, <1>4, <2>1, Frame
<1>5. VMInv(v)'
  <2>1. StartMatches(v)' /\ MonMatches(v)' BY <1>1 DEF VMInv, StartMatches, MonMatches
  <2>2. ObjectMatches(v)' BY <1>1, <1>3 DEF VMInv, ObjectMatches
  <2>3. DiskMatches(v)' /\ DownMatches(v)' BY <1>2 DEF DiskMatches, DownMatches
  <2>4. QED BY <2>1, <2>2, <2>3 DEF VMInv
<1>6. QED BY <1>2, <1>3, <1>4, <1>5

(* Remove after its state check. *)
LEMMA RemoveDoneIInv ==
    ASSUME IInv, RemoveDone
    PROVE  IInv'
<1>1. /\ api.pc = "remove" /\ Dropped(api.vm) /\ api' = IdleAPI
      /\ UNCHANGED <<up, crashes, vm, proc, start, stop, mon, restart>>
  BY DEF RemoveDone
<1>2. Types /\ Requests /\ OneRegistered /\ api.vm \in VMs /\ up BY <1>1 DEF IInv, Requests
<1>3. /\ disk' \in [VMs -> Records \cup {NoRecord}]
      /\ \A w \in VMs \ {api.vm} : w \in reg' <=> w \in reg
      /\ \A w \in VMs : VMInv(w)'
      /\ reg' \subseteq reg /\ api.vm \notin reg'
  BY <1>1, <1>2, DroppedVMInv
<1>4. Types'
  <2>1. api' \in Calls BY <1>1 DEF Calls, IdleAPI
  <2>2. reg' \subseteq VMs BY <1>2, <1>3 DEF Types
  <2>3. QED BY <1>1, <1>2, <1>3, <2>1, <2>2, TypesStep
<1>5. Requests'
  <2>1. \A w \in VMs : start[w] \notin {"idle", "ok", "err"} => vm[w].restarts # 0
    BY <1>1, <1>2, NoRequestNoStart
  <2>2. \A w \in VMs : vm[w].state \in Going /\ vm[w].restarts = 0 => w \in reg'
    BY <1>1, <1>2, <1>3 DEF Requests, Going
  <2>3. QED BY <1>1, <1>2, <2>1, <2>2 DEF Requests, IdleAPI
<1>6. OneRegistered'
  <2>1. Undisturbed' <=> Undisturbed BY <1>1 DEF Undisturbed
  <2>2. QED BY <1>1, <1>2, <1>3, <2>1 DEF OneRegistered, IdleAPI
<1>7. QED BY <1>3, <1>4, <1>5, <1>6 DEF IInv

(* restartVM creates a replacement, whose restart count is not zero. *)
LEMMA RestartCreateIInv ==
    ASSUME IInv, NEW v \in VMs, NEW w \in VMs, RestartCreate(v, w)
    PROVE  IInv'
<1> DEFINE n == vm[v].restarts + 1
<1>1. /\ restart[v] = "backoff" /\ Created(w, n)
      /\ restart' = [restart EXCEPT ![v] = "starting"]
      /\ start' = [start EXCEPT ![w] = "begin"]
      /\ UNCHANGED <<up, crashes, proc, stop, mon, api>>
  BY DEF RestartCreate
<1>2. Types /\ VMInv(v) /\ Requests BY DEF IInv
<1>3. n \in Nat /\ n > 0 BY <1>2 DEF Types, Objects
<1> HIDE DEF n
<1>4. up BY <1>1, <1>2 DEF VMInv, DownMatches
<1>5. /\ restart' \in [VMs -> RestartPoints] /\ start' \in [VMs -> StartPoints]
      /\ \A u \in VMs : restart'[u] # "idle" => restart[u] # "idle"
      /\ \A u \in VMs \ {w} : start'[u] = start[u]
  <2>1. restart \in [VMs -> RestartPoints] /\ start \in [VMs -> StartPoints] BY <1>2 DEF Types
  <2>2. QED BY <1>1, <2>1 DEF RestartPoints, StartPoints
<1>6. \A u \in VMs : VMInv(u)' BY <1>1, <1>3, <1>4, <1>5, CreatedVMInv
<1>7. /\ vm[w].state = Fresh /\ vm[w].restarts = 0 /\ reg' = reg \cup {w}
      /\ vm' \in Objects /\ disk' \in [VMs -> Records \cup {NoRecord}]
      /\ vm'[w].restarts = n /\ \A u \in VMs \ {w} : vm'[u] = vm[u]
  BY <1>1, <1>3, CreatedFacts
<1>8. Types'
  <2>1. reg' \subseteq VMs BY <1>2, <1>7 DEF Types
  <2>2. QED BY <1>1, <1>2, <1>5, <1>7, <2>1, TypesStep
<1>9. Requests'
  <2>1. \A u \in VMs : start'[u] \notin {"idle", "ok", "err"} /\ vm'[u].restarts = 0 =>
           api.vm = u /\ api.pc \in {"run", "inplace", "replace"}
    BY <1>2, <1>3, <1>5, <1>7 DEF Requests
  <2>2. \A u \in VMs : vm'[u].state \in Going /\ vm'[u].restarts = 0 => u \in reg'
    BY <1>2, <1>3, <1>7 DEF Requests
  <2>3. api.pc = "remove" => vm'[api.vm].state \in {"created", "stopped"} \/ vm'[api.vm].restarts > 0
    BY <1>2, <1>3, <1>7 DEF Requests, Fresh
  <2>4. api.pc = "replace" => api.old \in VMs /\ vm'[api.old].state = "stopped"
    BY <1>2, <1>7 DEF Requests, Fresh
  <2>5. QED BY <1>1, <1>2, <2>1, <2>2, <2>3, <2>4 DEF Requests
<1>10. OneRegistered' BY <1>3, <1>7 DEF OneRegistered, Undisturbed
<1>11. QED BY <1>6, <1>8, <1>9, <1>10 DEF IInv

(* restartVM takes the old VM, which is stopped, out of the store. *)
LEMMA RestartDoneIInv ==
    ASSUME IInv, NEW v \in VMs, RestartDone(v)
    PROVE  IInv'
<1>1. /\ Dropped(v) \/ UNCHANGED <<reg, disk>>
      /\ restart' = [restart EXCEPT ![v] = "idle"]
      /\ UNCHANGED <<up, crashes, vm, proc, start, stop, mon, api>>
  BY DEF RestartDone
<1>2. Types /\ VMInv(v) /\ Requests /\ OneRegistered BY DEF IInv
<1>3. restart[v] = "starting" BY DEF RestartDone
<1>4. up /\ vm[v].state = "stopped" BY <1>2, <1>3 DEF VMInv, DownMatches, MonMatches
<1>5. /\ restart' \in [VMs -> RestartPoints]
      /\ \A w \in VMs : restart'[w] # "idle" => restart[w] # "idle"
  <2>1. restart \in [VMs -> RestartPoints] BY <1>2 DEF Types
  <2>2. QED BY <1>1, <2>1 DEF RestartPoints
<1>6. /\ disk' \in [VMs -> Records \cup {NoRecord}] /\ reg' \subseteq reg
      /\ \A w \in VMs \ {v} : w \in reg' <=> w \in reg
      /\ \A w \in VMs : VMInv(w)'
  <2>1. CASE Dropped(v) BY <1>1, <1>4, <1>5, <2>1, DroppedVMInv
  <2>2. CASE UNCHANGED <<reg, disk>>
    <3>1. ASSUME NEW w \in VMs PROVE VMInv(w)'
      <4>1. VMInv(w) BY DEF IInv
      <4>2. QED BY <1>1, <1>5, <2>2, <4>1, Frame
    <3>2. QED BY <1>2, <2>2, <3>1 DEF Types
  <2>3. QED BY <1>1, <2>1, <2>2
<1>7. Types'
  <2>1. reg' \subseteq VMs BY <1>2, <1>6 DEF Types
  <2>2. QED BY <1>1, <1>2, <1>5, <1>6, <2>1, TypesStep
<1>8. Requests' BY <1>1, <1>2, <1>4, <1>6 DEF Requests, Going
<1>9. OneRegistered'
  <2>1. Undisturbed' <=> Undisturbed BY <1>1 DEF Undisturbed
  <2>2. QED BY <1>1, <1>2, <1>6, <2>1 DEF OneRegistered
<1>10. QED BY <1>6, <1>7, <1>8, <1>9 DEF IInv

-----------------------------------------------------------------------------
(* The daemon dies: what was in memory is lost, records and processes are not. *)
LEMMA CoreCrashIInv ==
    ASSUME IInv, CoreCrash
    PROVE  IInv'
<1>1. /\ up' = FALSE /\ crashes' = crashes + 1 /\ reg' = {} /\ api' = IdleAPI
      /\ vm' = [v \in VMs |-> IF vm[v].state = Fresh THEN vm[v] ELSE Object(Lost, 0, 0)]
      /\ start' = Idle /\ stop' = Idle /\ mon' = Idle /\ restart' = Idle
      /\ disk' = disk /\ proc' = proc
  BY DEF CoreCrash
<1>2. Types BY DEF IInv
<1>3. \A v \in VMs : start'[v] = "idle" /\ stop'[v] = "idle" /\ mon'[v] = "idle" /\ restart'[v] = "idle"
  BY <1>1 DEF Idle
<1> DEFINE o == Object(Lost, 0, 0)
<1>4. /\ o \in [state : States \cup {Fresh, Lost}, explicitStop : BOOLEAN,
                closed : Nat, pid : BOOLEAN, restarts : Nat]
      /\ o.state = Lost /\ o.closed = 0 /\ ~o.pid
  BY DEF Object
<1>5. vm' = [v \in VMs |-> IF vm[v].state = Fresh THEN vm[v] ELSE o] BY <1>1
<1> HIDE DEF o
<1>6. vm' \in Objects BY <1>2, <1>4, <1>5 DEF Types, Objects
<1>7. \A v \in VMs : vm[v].state = Fresh => vm'[v] = vm[v] BY <1>5
<1>8. \A v \in VMs : vm[v].state # Fresh => vm'[v].state = Lost /\ vm'[v].closed = 0 /\ ~vm'[v].pid
  BY <1>4, <1>5
<1>9. Types'
  <2>1. crashes' \in Nat BY <1>1, <1>2 DEF Types
  <2>2. /\ up' \in BOOLEAN /\ reg' \subseteq VMs
        /\ api' \in Calls
    BY <1>1 DEF IdleAPI, Calls
  <2>3. /\ start' \in [VMs -> StartPoints] /\ stop' \in [VMs -> StopPoints]
        /\ mon' \in [VMs -> MonPoints] /\ restart' \in [VMs -> RestartPoints]
    BY <1>1 DEF Idle, StartPoints, StopPoints, MonPoints, RestartPoints
  <2>4. QED BY <1>1, <1>2, <1>6, <2>1, <2>2, <2>3, TypesStep
<1>10. ASSUME NEW v \in VMs PROVE VMInv(v)'
  <2>1. VMInv(v) BY DEF IInv
  <2>2. vm'[v].state \in {Fresh, Lost} BY <1>7, <1>8
  <2>3. StartMatches(v)' BY <1>3, <2>2 DEF StartMatches
  <2>4. MonMatches(v)' BY <1>3 DEF MonMatches
  <2>5. ObjectMatches(v)'
    <3>1. CASE vm[v].state = Fresh
      BY <1>1, <1>7, <2>1, <3>1 DEF VMInv, ObjectMatches, Moving, Fresh, Lost
    <3>2. CASE vm[v].state # Fresh
      BY <1>1, <1>8, <3>2 DEF ObjectMatches, Moving, Fresh, Lost
    <3>3. QED BY <3>1, <3>2
  <2>6. DiskMatches(v)' BY <1>1, <1>8, <2>1 DEF VMInv, DiskMatches, Fresh, Lost
  <2>7. DownMatches(v)' BY <1>1, <1>3, <2>2 DEF DownMatches
  <2>8. QED BY <2>3, <2>4, <2>5, <2>6, <2>7 DEF VMInv
<1>11. Requests'
  <2>1. crashes' > 0 BY <1>1, <1>2 DEF Types
  <2>2. \A v \in VMs : vm'[v].state \notin Going BY <1>7, <1>8 DEF Going, Fresh, Lost
  <2>3. api'.pc = "idle" BY <1>1 DEF IdleAPI
  <2>4. QED BY <1>3, <2>1, <2>2, <2>3 DEF Requests
<1>12. OneRegistered' BY <1>1 DEF OneRegistered, IdleAPI
<1>13. QED BY <1>9, <1>10, <1>11, <1>12 DEF IInv

(* FileStore.Restore with recoverVM. *)
LEMMA CoreRestoreIInv ==
    ASSUME IInv, CoreRestore
    PROVE  IInv'
<1> DEFINE known == {v \in VMs : disk[v] # NoRecord}
           died(v) == disk[v].state \in Going /\ ~Adoptable(v)
           lone == {v \in VMs : proc[v] = "up" /\ ~Adoptable(v)}
<1>1. /\ ~up /\ up' = TRUE /\ reg' = known
      /\ vm' = [v \in VMs |-> IF v \in known THEN RestoredObject(v) ELSE vm[v]]
      /\ disk' = [v \in VMs |-> IF v \in known /\ died(v)
                                THEN [state |-> "stopped", pid |-> FALSE, restarts |-> disk[v].restarts]
                                ELSE disk[v]]
      /\ mon' = [v \in VMs |-> IF Adoptable(v) THEN "adopt" ELSE "idle"]
      /\ proc' = [v \in VMs |-> IF v \in lone THEN "none" ELSE proc[v]]
      /\ UNCHANGED <<crashes, start, stop, restart, api>>
  BY DEF CoreRestore, Going
<1>2. Types /\ Requests BY DEF IInv
<1>3. api.pc = "idle" /\ crashes > 0 BY <1>1, <1>2 DEF Requests
<1>4. ASSUME NEW v \in VMs, disk[v] # NoRecord PROVE disk[v] \in Records
  BY <1>2, <1>4 DEF Types
<1>5. Types'
  <2>1. vm' \in Objects BY <1>1, <1>2, <1>4, RestoredFacts DEF Types, Objects
  <2>2. disk' \in [VMs -> Records \cup {NoRecord}]
    <3>1. ASSUME NEW v \in VMs, v \in known
          PROVE  [state |-> "stopped", pid |-> FALSE, restarts |-> disk[v].restarts] \in Records
      BY <1>4, <3>1 DEF Records, States
    <3>2. QED BY <1>1, <1>2, <3>1 DEF Types
  <2>3. proc' \in [VMs -> Processes] BY <1>1, <1>2 DEF Types, Processes
  <2>4. mon' \in [VMs -> MonPoints] BY <1>1 DEF MonPoints
  <2>5. up' \in BOOLEAN /\ reg' \subseteq VMs BY <1>1
  <2>6. QED BY <1>1, <1>2, <2>1, <2>2, <2>3, <2>4, <2>5, TypesStep
<1>6. ASSUME NEW v \in VMs PROVE VMInv(v)'
  <2>1. VMInv(v) BY DEF IInv
  <2>2. /\ vm[v].state \in {Fresh, Lost} /\ start'[v] = "idle" /\ stop'[v] = "idle"
        /\ restart'[v] = "idle"
    BY <1>1, <2>1 DEF VMInv, DownMatches
  <2>3. DownMatches(v)' BY <1>1 DEF DownMatches
  <2>4. CASE Adoptable(v)
    <3>1. disk[v] # NoRecord /\ disk[v].state \in Going /\ disk[v].pid /\ proc[v] = "up"
      BY <2>4 DEF Adoptable, Going
    <3>2. /\ v \in reg' /\ mon'[v] = "adopt" /\ proc'[v] = "up" /\ disk'[v] = disk[v]
          /\ vm'[v] = RestoredObject(v)
      BY <1>1, <2>4, <3>1
    <3>3. vm'[v].state = "running" /\ vm'[v].pid /\ vm'[v].closed = 0
      BY <1>4, <2>4, <3>1, <3>2, RestoredFacts
    <3>4. StartMatches(v)' /\ MonMatches(v)' /\ ObjectMatches(v)'
      BY <2>2, <3>2, <3>3 DEF StartMatches, MonMatches, ObjectMatches, Moving, Fresh, Lost
    <3>5. DiskMatches(v)' BY <3>1, <3>2, <3>3 DEF DiskMatches, Going, Fresh
    <3>6. QED BY <2>3, <3>4, <3>5 DEF VMInv
  <2>5. CASE ~Adoptable(v) /\ disk[v] # NoRecord
    <3>1. disk[v] \in Records /\ disk[v].state \in States BY <1>4, <2>5 DEF Records
    <3>2. v \in reg' /\ mon'[v] = "idle" /\ proc'[v] # "up" /\ vm'[v] = RestoredObject(v)
      BY <1>1, <2>5
    <3>3. /\ ~vm'[v].pid
          /\ vm'[v].state = IF disk[v].state = "created" THEN "created" ELSE "stopped"
          /\ vm'[v].closed = IF disk[v].state = "created" THEN 0 ELSE 1
      BY <2>5, <3>1, <3>2, RestoredFacts
    <3>4. StartMatches(v)' BY <2>2, <3>3 DEF StartMatches
    <3>5. MonMatches(v)' BY <2>2, <3>2 DEF MonMatches
    <3>6. ObjectMatches(v)' BY <3>2, <3>3 DEF ObjectMatches, Moving, Fresh, Lost
    <3>7. DiskMatches(v)'
      <4>1. CASE disk[v].state \in Going
        <5>1. disk'[v] = [state |-> "stopped", pid |-> FALSE, restarts |-> disk[v].restarts]
          BY <1>1, <2>5, <4>1
        <5>2. vm'[v].state = "stopped" BY <3>3, <4>1 DEF Going
        <5>3. QED BY <3>2, <5>1, <5>2 DEF DiskMatches, Going, Fresh
      <4>2. CASE disk[v].state \notin Going
        <5>1. disk'[v] = disk[v] BY <1>1, <4>2
        <5>2. disk[v].state \in {"created", "stopped"} BY <3>1, <4>2 DEF States, Going
        <5>3. QED BY <2>1, <2>5, <3>2, <3>3, <5>1, <5>2 DEF VMInv, DiskMatches, Going, Fresh
      <4>3. QED BY <4>1, <4>2
    <3>8. QED BY <2>3, <3>4, <3>5, <3>6, <3>7 DEF VMInv
  <2>6. CASE disk[v] = NoRecord
    <3>1. ~Adoptable(v) BY <2>6 DEF Adoptable
    <3>2. /\ v \notin reg' /\ mon'[v] = "idle" /\ proc'[v] # "up"
          /\ vm'[v] = vm[v] /\ disk'[v] = NoRecord
      BY <1>1, <2>6, <3>1
    <3>3. StartMatches(v)' /\ MonMatches(v)' BY <2>2, <3>2 DEF StartMatches, MonMatches
    <3>4. ObjectMatches(v)'
      BY <2>1, <2>2, <3>2 DEF VMInv, ObjectMatches, Moving, Fresh, Lost
    <3>5. DiskMatches(v)' BY <3>2 DEF DiskMatches
    <3>6. QED BY <2>3, <3>3, <3>4, <3>5 DEF VMInv
  <2>7. QED BY <2>4, <2>5, <2>6
<1>7. Requests'
  <2>1. \A v \in VMs : start'[v] = "idle"
    <3>1. \A v \in VMs : VMInv(v) BY DEF IInv
    <3>2. QED BY <1>1, <3>1 DEF VMInv, DownMatches
  <2>2. ASSUME NEW v \in VMs, vm'[v].state \in Going PROVE v \in reg'
    <3>1. VMInv(v)' BY <1>6
    <3>2. vm'[v].state \notin {Fresh, Lost} BY <2>2 DEF Going, Fresh, Lost
    <3>3. CASE v \in known BY <1>1, <3>3
    <3>4. CASE v \notin known
      <4>1. vm'[v] = vm[v] BY <1>1, <3>4
      <4>2. VMInv(v) BY DEF IInv
      <4>3. vm[v].state \in {Fresh, Lost} BY <1>1, <4>2 DEF VMInv, DownMatches
      <4>4. QED BY <3>2, <4>1, <4>3
    <3>5. QED BY <3>3, <3>4
  <2>3. QED BY <1>1, <1>3, <2>1, <2>2 DEF Requests
<1>8. OneRegistered'
  <2>1. crashes' # 0 BY <1>1, <1>2, <1>3 DEF Types
  <2>2. QED BY <2>1 DEF OneRegistered, Undisturbed
<1>9. QED BY <1>5, <1>6, <1>7, <1>8 DEF IInv

-----------------------------------------------------------------------------
LEMMA InitIInv == Init => IInv
<1> SUFFICES ASSUME Init PROVE IInv OBVIOUS
<1> DEFINE o == Object(Fresh, 0, 0)
<1>1. /\ o \in [state : States \cup {Fresh, Lost}, explicitStop : BOOLEAN,
                closed : Nat, pid : BOOLEAN, restarts : Nat]
      /\ o.state = Fresh /\ o.closed = 0 /\ ~o.pid /\ o.restarts = 0
  BY DEF Object
<1>2. vm = [v \in VMs |-> o] BY DEF Init, CoreInit
<1> HIDE DEF o
<1>3. /\ vm \in Objects
      /\ \A v \in VMs : vm[v].state = Fresh /\ vm[v].closed = 0 /\ ~vm[v].pid /\ vm[v].restarts = 0
  BY <1>1, <1>2 DEF Objects
<1>4. /\ up = TRUE /\ crashes = 0 /\ reg = {} /\ api = IdleAPI
      /\ disk = [v \in VMs |-> NoRecord] /\ proc = [v \in VMs |-> "none"]
      /\ start = Idle /\ stop = Idle /\ mon = Idle /\ restart = Idle
  BY DEF Init, CoreInit
<1>5. \A v \in VMs : /\ disk[v] = NoRecord /\ proc[v] = "none" /\ start[v] = "idle"
                     /\ stop[v] = "idle" /\ mon[v] = "idle" /\ restart[v] = "idle"
  BY <1>4 DEF Idle
<1>6. Types
  <2>1. up \in BOOLEAN /\ reg \subseteq VMs BY <1>4
  <2>2. crashes \in Nat BY <1>4
  <2>3. /\ start \in [VMs -> StartPoints] /\ stop \in [VMs -> StopPoints]
        /\ mon \in [VMs -> MonPoints] /\ restart \in [VMs -> RestartPoints]
    BY <1>4 DEF Idle, StartPoints, StopPoints, MonPoints, RestartPoints
  <2>4. disk \in [VMs -> Records \cup {NoRecord}] /\ proc \in [VMs -> Processes]
    BY <1>4 DEF Processes
  <2>5. api \in Calls BY <1>4 DEF IdleAPI, Calls
  <2>6. QED BY <1>3, <2>1, <2>2, <2>3, <2>4, <2>5 DEF Types
<1>7. ASSUME NEW v \in VMs PROVE VMInv(v)
  <2>1. StartMatches(v) /\ MonMatches(v) BY <1>3, <1>5 DEF StartMatches, MonMatches
  <2>2. ObjectMatches(v) BY <1>3, <1>4, <1>5 DEF ObjectMatches, Moving, Fresh, Lost
  <2>3. DiskMatches(v) /\ DownMatches(v) BY <1>4, <1>5 DEF DiskMatches, DownMatches
  <2>4. QED BY <2>1, <2>2, <2>3 DEF VMInv
<1>8. Requests BY <1>3, <1>4, <1>5 DEF Requests, Going, Fresh, IdleAPI
<1>9. OneRegistered BY <1>4 DEF OneRegistered, IdleAPI
<1>10. QED BY <1>6, <1>7, <1>8, <1>9 DEF IInv

LEMMA NextIInv == IInv /\ [Next]_coreVars => IInv'
<1> SUFFICES ASSUME IInv, [Next]_coreVars PROVE IInv' OBVIOUS
<1>1. ASSUME NEW v \in VMs, StartStep(v) PROVE IInv'
  BY <1>1, StartBeginMovesIInv, StartBeginRefusedIInv, StartFailIInv, StartLaunchIInv,
     StartAbortIInv, StartRunningIInv, StartSaveIInv, StartMonitorIInv, StartHealthIInv
     DEF StartStep
<1>2. ASSUME NEW v \in VMs, StopStep(v) PROVE IInv'
  BY <1>2, StopQuietIInv, StopMarkIInv, StopEndIInv DEF StopStep
<1>3. ASSUME NEW v \in VMs, MonitorStep(v) PROVE IInv'
  BY <1>3, MonitorExitIInv, MonitorStoppedIInv, MonitorDoneIInv, AdoptExitIInv, AdoptSaveIInv
     DEF MonitorStep
<1>4. ASSUME NEW v \in VMs, RestartStep(v) PROVE IInv'
  BY <1>4, RestartCreateFailIInv, RestartDoneIInv, RestartCreateIInv DEF RestartStep
<1>5. ASSUME NEW v \in VMs,
             Run(v) \/ StartInPlace(v) \/ RemoveCheck(v) \/ StopAccept(v) \/ Signal(v)
      PROVE  IInv'
  BY <1>5, RunIInv, StartInPlaceIInv, RemoveCheckIInv, StopAcceptIInv, SignalIInv
<1>6. ASSUME NEW old \in VMs, NEW v \in VMs, StartReplace(old, v) PROVE IInv'
  BY <1>6, StartReplaceIInv
<1>7. ASSUME NEW v \in VMs, NEW how \in Exits, GuestExit(v, how) PROVE IInv'
  BY <1>7, GuestExitIInv, BoundsAssumption
<1>8. CASE StartReturned \/ RemoveDone \/ CoreCrash \/ CoreRestore
  BY <1>8, StartReturnedIInv, RemoveDoneIInv, CoreCrashIInv, CoreRestoreIInv
<1>9. CASE UNCHANGED coreVars
  <2>1. UNCHANGED <<up, crashes, vm, reg, disk, proc, start, stop, mon, restart>> /\ api' = api
    BY <1>9 DEF coreVars
  <2>2. (\A w \in VMs : VMInv(w)') /\ (Undisturbed' <=> Undisturbed) BY <2>1, OnlyRequest
  <2>3. Types' BY <2>1 DEF IInv, Types
  <2>4. Requests' BY <2>1 DEF IInv, Requests
  <2>5. OneRegistered' BY <2>1, <2>2 DEF IInv, OneRegistered
  <2>6. QED BY <2>2, <2>3, <2>4, <2>5 DEF IInv
<1>10. QED BY <1>1, <1>2, <1>3, <1>4, <1>5, <1>6, <1>7, <1>8, <1>9 DEF Next

(* The agreement of goroutines, records and requests holds from the first run  *)
(* on, through every crash of the daemon.                                      *)
THEOREM QEMUInductive == Spec => []IInv
  BY InitIInv, NextIInv, PTL DEF Spec

(* What the daemon says of a VM is so: a stopped VM has no process and its     *)
(* done channel was closed once, a running one has a process, and no record of *)
(* a removed VM is left for the next daemon.                                   *)
THEOREM VMsAreConsistent == Spec => []VMIsConsistent
<1>1. IInv => VMIsConsistent
  <2> SUFFICES ASSUME IInv PROVE VMIsConsistent OBVIOUS
  <2>1. \A v \in VMs : VMInv(v) BY DEF IInv
  <2>2. StateMatchesProcess
    BY <2>1 DEF StateMatchesProcess, VMInv, ObjectMatches, DiskMatches, Moving
  <2>3. DoneOnce BY <2>1 DEF DoneOnce, VMInv, ObjectMatches
  <2>4. NoResurrection BY <2>1 DEF NoResurrection, VMInv, DiskMatches
  <2>5. QED BY <2>2, <2>3, <2>4 DEF VMIsConsistent
<1>2. QED BY <1>1, QEMUInductive, PTL

(* Every running VM has a monitor, or a Start that is about to give it one,    *)
(* also after a restart of the daemon.                                         *)
THEOREM ExitsAreNoticed == Spec => []ExitIsNoticed
<1>1. IInv => ExitIsNoticed
  <2> SUFFICES ASSUME IInv, NEW v \in VMs, vm[v].state \in {"running", "stopping"},
                      start[v] \notin {"running", "saved"}
               PROVE  mon[v] \in {"wait", "exited", "adopt"}
    BY DEF ExitIsNoticed
  <2>1. VMInv(v) /\ Types BY DEF IInv
  <2>2. QED
    <3>1. start \in [VMs -> StartPoints] BY <2>1 DEF Types
    <3>2. QED BY <2>1, <3>1 DEF VMInv, StartMatches, Moving, Going, Fresh, Lost, StartPoints
<1>2. QED BY <1>1, QEMUInductive, PTL

(* While no VM was restarted by policy, no replacement was aborted and no      *)
(* daemon died there is at most one process; and a process that escaped the    *)
(* registry belongs to a VM that restartVM created.                            *)
THEOREM ProcessHasOneOwner == Spec => []OneOwnerButForRestarts
<1>1. IInv => OneOwnerButForRestarts
  <2> SUFFICES ASSUME IInv PROVE OneOwnerButForRestarts OBVIOUS
  <2>1. ASSUME up, NEW v \in VMs, proc[v] = "up" PROVE v \in reg \/ vm[v].restarts > 0
    <3>1. VMInv(v) /\ Types /\ Requests BY DEF IInv
    <3>2. vm[v].state \in Going
      <4>1. vm[v].state \in States \cup {Fresh, Lost} BY <3>1 DEF Types, Objects
      <4>2. QED BY <2>1, <3>1, <4>1 DEF VMInv, ObjectMatches, States, Going
    <3>3. vm[v].restarts \in Nat BY <3>1 DEF Types, Objects
    <3>4. QED BY <3>1, <3>2, <3>3 DEF Requests
  <2>2. ASSUME crashes = 0, \A v \in VMs : vm[v].restarts = 0 /\ ~Aborted(v),
               NEW v \in VMs, NEW w \in VMs, proc[v] = "up", proc[w] = "up"
        PROVE  v = w
    <3>1. Undisturbed /\ Types /\ Requests /\ OneRegistered BY <2>2 DEF IInv, Undisturbed, Aborted
    <3>2. up BY <2>2, <3>1 DEF Requests
    <3>3. v \in reg /\ w \in reg /\ vm[v].restarts = 0 /\ vm[w].restarts = 0
      BY <2>1, <2>2, <3>2
    <3>4. vm[v].state \in Going /\ vm[w].state \in Going
      <4>1. VMInv(v) /\ VMInv(w) BY DEF IInv
      <4>2. vm[v].state \in States \cup {Fresh, Lost} /\ vm[w].state \in States \cup {Fresh, Lost}
        BY <3>1 DEF Types, Objects
      <4>3. QED BY <2>2, <3>2, <4>1, <4>2 DEF VMInv, ObjectMatches, States, Going
    <3>5. api.pc = "replace" => api.old \notin {v, w} BY <3>1, <3>4 DEF Requests, Going
    <3>6. api.pc = "remove" => api.vm \notin {v, w} BY <2>2, <3>1, <3>3, <3>4 DEF Requests, Going
    <3>7. api.pc \in {"idle", "run", "inplace", "replace", "remove"} BY <3>1 DEF Types, Calls
    <3>8. QED BY <3>1, <3>3, <3>5, <3>6, <3>7 DEF OneRegistered
  <2>3. QED BY <2>1, <2>2 DEF OneOwnerButForRestarts
<1>2. QED BY <1>1, QEMUInductive, PTL

(* A process no daemon takes over had not been saved: whoever has a record of  *)
(* a live process on disk is adopted by the next daemon.                       *)
THEOREM SavedAreAdopted == Spec => SavedIsAdopted
<1>1. IInv /\ [Next]_coreVars => [OrphanWasUnsaved]_coreVars
  <2> SUFFICES ASSUME IInv, Next PROVE OrphanWasUnsaved OBVIOUS
  <2>1. CASE CoreRestore
    <3> SUFFICES ASSUME NEW v \in orphans' \ orphans, disk[v] # NoRecord
                 PROVE  disk[v].state = "created" /\ ~disk[v].pid
      BY DEF OrphanWasUnsaved
    <3>1. v \in VMs /\ proc[v] = "up" /\ ~Adoptable(v) BY <2>1 DEF CoreRestore
    <3>2. VMInv(v) /\ Types BY <3>1 DEF IInv
    <3>3. disk[v].state \in States BY <3>1, <3>2 DEF Types, Records
    <3>4. QED BY <3>1, <3>2, <3>3 DEF VMInv, DiskMatches, Adoptable, States, Going
  <2>2. CASE orphans' = orphans BY <2>2 DEF OrphanWasUnsaved
  <2>3. CoreRestore \/ orphans' = orphans
    BY DEF Next, Run, StartInPlace, RemoveCheck, StopAccept, Signal, StartStep, StopStep,
       MonitorStep, RestartStep, StartReplace, StartReturned, RemoveDone, GuestExit, CoreCrash,
       StartBegin, StartFail, StartLaunch, StartAbort, StartRunning, StartSave, StartMonitor,
       StartHealth, StopQuiet, StopMark, StopEnd, MonitorExit, MonitorStopped, MonitorDone,
       AdoptExit, AdoptSave, RestartCreate, RestartCreateFail, RestartDone
  <2>4. QED BY <2>1, <2>2, <2>3
<1>2. QED BY <1>1, QEMUInductive, PTL DEF Spec, SavedIsAdopted
=============================================================================
