--------------------------- MODULE QEMUEndSteps ---------------------------
(***************************************************************************)
(* Proofs about QEMUManager, continued from QEMUSteps: the steps that end  *)
(* a VM (Stop, exits and their monitors) and those that create one.        *)
(***************************************************************************)
EXTENDS QEMUSteps

(* Stop or Kill is accepted. *)
LEMMA StopAcceptStep ==
    ASSUME IInv, NEW v \in VMs,
           up /\ v \in reg /\ vm[v].state = "running" /\ vm[v].pid,
           vm' = Moved(v, "stopping"),
           stop' = [stop EXCEPT ![v] = "accepted"],
           UNCHANGED <<up, crashes, reg, disk, proc, start, mon, restart, api>>
    PROVE  IInv'
<1>1. VMInv(v) /\ Types BY Zenon DEF IInv
<1>2. vm \in Objects /\ stop \in [VMs -> StopPoints] BY <1>1 DEF Types
<1>3. /\ vm' \in Objects
      /\ vm'[v].state = "stopping" /\ vm'[v].closed = vm[v].closed
      /\ vm'[v].pid <=> vm[v].pid
      /\ vm'[v].restarts = vm[v].restarts
      /\ \A w \in VMs \ {v} : vm'[w] = vm[w]
  BY <1>2, MovedFacts DEF States
<1>4. /\ stop'[v] = "accepted" /\ \A w \in VMs \ {v} : stop'[w] = stop[w]
  BY <1>2
<1>5. Types' BY <1>1, <1>2, <1>3, TypesStep DEF StopPoints
<1>6. VMInv(v)'
  <2>1. StartMatches(v)' /\ MonMatches(v)'
    BY <1>1, <1>3, <1>4 DEF VMInv, StartMatches, MonMatches, Moving, Going, Fresh, Lost
  <2>2. ObjectMatches(v)' BY <1>1, <1>3, <1>4 DEF VMInv, ObjectMatches, Moving, Going, Fresh, Lost
  <2>3. DiskMatches(v)' /\ DownMatches(v)'
    BY <1>1, <1>3, <1>4 DEF VMInv, DiskMatches, DownMatches, Moving, Going, Fresh, Lost
  <2>4. QED BY <2>1, <2>2, <2>3, Zenon DEF VMInv
<1>7. Elsewhere(v) BY <1>3, <1>4, Zenon DEF Elsewhere
<1>8. Allowed(v) BY <1>3, <1>4 DEF Allowed, Moving, Going
<1>9. QED BY <1>5, <1>6, <1>7, <1>8, LocalIInv, Zenon DEF Local

(* Stop saves the VM. *)
LEMMA StopQuietStep ==
    ASSUME IInv, NEW v \in VMs,
           stop[v] = "accepted" /\ vm[v].state \in {"stopping", "stopped"} /\ vm[v].pid,
           vm[v].state = "stopped" => proc[v] # "up",
           disk' = Saved(v),
           stop' = [stop EXCEPT ![v] = "quiet"],
           UNCHANGED <<up, crashes, vm, reg, proc, start, mon, restart, api>>
    PROVE  IInv'
<1>1. VMInv(v) /\ Types BY Zenon DEF IInv
<1>2. disk \in [VMs -> Records \cup {NoRecord}] /\ stop \in [VMs -> StopPoints] /\ vm \in Objects BY <1>1 DEF Types
<1>3. /\ disk' \in [VMs -> Records \cup {NoRecord}]
      /\ v \in reg => disk'[v].state = vm[v].state
      /\ v \in reg => (disk'[v].pid <=> vm[v].pid)
      /\ v \notin reg => disk'[v] = disk[v]
      /\ \A w \in VMs \ {v} : disk'[w] = disk[w]
  BY <1>2, SavedFacts DEF States
<1>4. /\ stop'[v] = "quiet" /\ \A w \in VMs \ {v} : stop'[w] = stop[w]
  BY <1>2
<1>5. Types' BY <1>1, <1>2, <1>3, TypesStep DEF StopPoints
<1>6. VMInv(v)'
  <2>1. StartMatches(v)' /\ MonMatches(v)'
    BY <1>1, <1>3, <1>4 DEF VMInv, StartMatches, MonMatches, Moving, Going, Fresh, Lost
  <2>2. ObjectMatches(v)' BY <1>1, <1>3, <1>4 DEF VMInv, ObjectMatches, Moving, Going, Fresh, Lost
  <2>3. DiskMatches(v)' /\ DownMatches(v)'
    BY <1>1, <1>3, <1>4 DEF VMInv, DiskMatches, DownMatches, Moving, Going, Fresh, Lost
  <2>4. QED BY <2>1, <2>2, <2>3, Zenon DEF VMInv
<1>7. Elsewhere(v) BY <1>3, <1>4, Zenon DEF Elsewhere
<1>8. Allowed(v) BY <1>3, <1>4 DEF Allowed, Moving, Going
<1>9. QED BY <1>5, <1>6, <1>7, <1>8, LocalIInv, Zenon DEF Local

(* Stop marks the VM. *)
LEMMA StopMarkStep ==
    ASSUME IInv, NEW v \in VMs,
           stop[v] = "quiet",
           vm' = [vm EXCEPT ![v].explicitStop = TRUE],
           stop' = [stop EXCEPT ![v] = "marked"],
           UNCHANGED <<up, crashes, reg, disk, proc, start, mon, restart, api>>
    PROVE  IInv'
<1>1. VMInv(v) /\ Types BY Zenon DEF IInv
<1>2. vm \in Objects /\ stop \in [VMs -> StopPoints] BY <1>1 DEF Types
<1>3. /\ vm' \in Objects
      /\ vm'[v].state = vm[v].state /\ vm'[v].closed = vm[v].closed
      /\ vm'[v].pid <=> vm[v].pid
      /\ vm'[v].restarts = vm[v].restarts
      /\ \A w \in VMs \ {v} : vm'[w] = vm[w]
  BY <1>2, MarkedFacts, Zenon
<1>4. /\ stop'[v] = "marked" /\ \A w \in VMs \ {v} : stop'[w] = stop[w]
  BY <1>2
<1>5. Types' BY <1>1, <1>2, <1>3, TypesStep DEF StopPoints
<1>6. VMInv(v)'
  <2>1. StartMatches(v)' /\ MonMatches(v)'
    BY <1>1, <1>3, <1>4 DEF VMInv, StartMatches, MonMatches, Moving, Going, Fresh, Lost
  <2>2. ObjectMatches(v)' BY <1>1, <1>3, <1>4 DEF VMInv, ObjectMatches, Moving, Going, Fresh, Lost
  <2>3. DiskMatches(v)' /\ DownMatches(v)'
    BY <1>1, <1>3, <1>4 DEF VMInv, DiskMatches, DownMatches, Moving, Going, Fresh, Lost
  <2>4. QED BY <2>1, <2>2, <2>3, Zenon DEF VMInv
<1>7. Elsewhere(v) BY <1>3, <1>4, Zenon DEF Elsewhere
<1>8. Allowed(v) BY <1>3, <1>4 DEF Allowed, Moving, Going
<1>9. QED BY <1>5, <1>6, <1>7, <1>8, LocalIInv, Zenon DEF Local

(* Stop kills the process, or finds it gone. *)
LEMMA StopEndStep ==
    ASSUME IInv, NEW v \in VMs,
           stop[v] = "marked",
           proc' = Killed(v),
           stop' = [stop EXCEPT ![v] = "idle"],
           UNCHANGED <<up, crashes, vm, reg, disk, start, mon, restart, api>>
    PROVE  IInv'
<1>1. VMInv(v) /\ Types BY Zenon DEF IInv
<1>2. stop \in [VMs -> StopPoints] /\ proc \in [VMs -> Processes] BY <1>1 DEF Types
<1>3. /\ proc' \in [VMs -> Processes] /\ proc'[v] # "up"
      /\ proc[v] # "none" => proc'[v] # "none"
      /\ proc[v] # "up" => proc'[v] = proc[v]
      /\ \A w \in VMs \ {v} : proc'[w] = proc[w]
  BY <1>2, KilledFacts
<1>4. /\ stop'[v] = "idle" /\ \A w \in VMs \ {v} : stop'[w] = stop[w]
  BY <1>2
<1>5. Types' BY <1>1, <1>2, <1>3, TypesStep DEF StopPoints
<1>6. VMInv(v)'
  <2>1. StartMatches(v)' /\ MonMatches(v)'
    BY <1>1, <1>3, <1>4 DEF VMInv, StartMatches, MonMatches, Moving, Going, Fresh, Lost
  <2>2. ObjectMatches(v)' BY <1>1, <1>3, <1>4 DEF VMInv, ObjectMatches, Moving, Going, Fresh, Lost
  <2>3. DiskMatches(v)' /\ DownMatches(v)'
    BY <1>1, <1>3, <1>4 DEF VMInv, DiskMatches, DownMatches, Moving, Going, Fresh, Lost
  <2>4. QED BY <2>1, <2>2, <2>3, Zenon DEF VMInv
<1>7. Elsewhere(v) BY <1>3, <1>4, Zenon DEF Elsewhere
<1>8. Allowed(v) BY <1>3, <1>4 DEF Allowed, Moving, Going
<1>9. QED BY <1>5, <1>6, <1>7, <1>8, LocalIInv, Zenon DEF Local

(* A signal ends the guest. *)
LEMMA SignalStep ==
    ASSUME IInv, NEW v \in VMs,
           proc[v] = "up",
           proc' = Killed(v),
           UNCHANGED <<up, crashes, vm, reg, disk, start, stop, mon, restart, api>>
    PROVE  IInv'
<1>1. VMInv(v) /\ Types BY Zenon DEF IInv
<1>2. proc \in [VMs -> Processes] BY <1>1 DEF Types
<1>3. /\ proc' \in [VMs -> Processes] /\ proc'[v] # "up"
      /\ proc[v] # "none" => proc'[v] # "none"
      /\ proc[v] # "up" => proc'[v] = proc[v]
      /\ \A w \in VMs \ {v} : proc'[w] = proc[w]
  BY <1>2, KilledFacts
<1>4. Types' BY <1>1, <1>2, <1>3, TypesStep
<1>5. VMInv(v)'
  <2>1. StartMatches(v)' /\ MonMatches(v)'
    BY <1>1, <1>3 DEF VMInv, StartMatches, MonMatches, Moving, Going, Fresh, Lost
  <2>2. ObjectMatches(v)' BY <1>1, <1>3 DEF VMInv, ObjectMatches, Moving, Going, Fresh, Lost
  <2>3. DiskMatches(v)' /\ DownMatches(v)'
    BY <1>1, <1>3 DEF VMInv, DiskMatches, DownMatches, Moving, Going, Fresh, Lost
  <2>4. QED BY <2>1, <2>2, <2>3, Zenon DEF VMInv
<1>6. Elsewhere(v) BY <1>3, Zenon DEF Elsewhere
<1>7. Allowed(v) BY <1>3 DEF Allowed, Moving, Going
<1>8. QED BY <1>4, <1>5, <1>6, <1>7, LocalIInv, Zenon DEF Local

(* The guest exits by itself. *)
LEMMA GuestExitStep ==
    ASSUME IInv, NEW v \in VMs, NEW how \in Exits,
           proc[v] = "up",
           how \in {"ok", "failed"},
           proc' = [proc EXCEPT ![v] = how],
           UNCHANGED <<up, crashes, vm, reg, disk, start, stop, mon, restart, api>>
    PROVE  IInv'
<1>1. VMInv(v) /\ Types BY Zenon DEF IInv
<1>2. proc \in [VMs -> Processes] BY <1>1 DEF Types
<1>3. /\ proc'[v] = how /\ \A w \in VMs \ {v} : proc'[w] = proc[w]
  BY <1>2
<1>4. Types' BY <1>1, <1>2, TypesStep DEF Processes
<1>5. VMInv(v)'
  <2>1. StartMatches(v)' /\ MonMatches(v)'
    BY <1>1, <1>3 DEF VMInv, StartMatches, MonMatches, Moving, Going, Fresh, Lost
  <2>2. ObjectMatches(v)' BY <1>1, <1>3 DEF VMInv, ObjectMatches, Moving, Going, Fresh, Lost
  <2>3. DiskMatches(v)' /\ DownMatches(v)'
    BY <1>1, <1>3 DEF VMInv, DiskMatches, DownMatches, Moving, Going, Fresh, Lost
  <2>4. QED BY <2>1, <2>2, <2>3, Zenon DEF VMInv
<1>6. Elsewhere(v) BY <1>3, Zenon DEF Elsewhere
<1>7. Allowed(v) BY <1>3 DEF Allowed, Moving, Going
<1>8. QED BY <1>4, <1>5, <1>6, <1>7, LocalIInv, Zenon DEF Local

(* The monitor sees the exit. *)
LEMMA MonitorExitStep ==
    ASSUME IInv, NEW v \in VMs,
           mon[v] = "wait",
           proc[v] # "up",
           proc[v] # "none",
           mon' = [mon EXCEPT ![v] = "exited"],
           UNCHANGED <<up, crashes, vm, reg, disk, proc, start, stop, restart, api>>
    PROVE  IInv'
<1>1. VMInv(v) /\ Types BY Zenon DEF IInv
<1>2. mon \in [VMs -> MonPoints] /\ proc \in [VMs -> Processes] BY <1>1 DEF Types
<1>3. /\ mon'[v] = "exited" /\ \A w \in VMs \ {v} : mon'[w] = mon[w]
      /\ proc[v] \in {"ok", "failed"}
  BY <1>2 DEF Processes
<1>4. Types' BY <1>1, <1>2, TypesStep DEF MonPoints
<1>5. VMInv(v)'
  <2>1. StartMatches(v)' /\ MonMatches(v)'
    BY <1>1, <1>3 DEF VMInv, StartMatches, MonMatches, Moving, Going, Fresh, Lost
  <2>2. ObjectMatches(v)' BY <1>1, <1>3 DEF VMInv, ObjectMatches, Moving, Going, Fresh, Lost
  <2>3. DiskMatches(v)' /\ DownMatches(v)'
    BY <1>1, <1>3 DEF VMInv, DiskMatches, DownMatches, Moving, Going, Fresh, Lost
  <2>4. QED BY <2>1, <2>2, <2>3, Zenon DEF VMInv
<1>6. Elsewhere(v) BY <1>3, Zenon DEF Elsewhere
<1>7. Allowed(v) BY <1>3 DEF Allowed, Moving, Going
<1>8. QED BY <1>4, <1>5, <1>6, <1>7, LocalIInv, Zenon DEF Local

(* The monitor stops the VM. *)
LEMMA MonitorStoppedStep ==
    ASSUME IInv, NEW v \in VMs,
           mon[v] = "exited" /\ vm[v].state \in Going /\ vm[v].closed = 0,
           proc[v] # "up" /\ start[v] \in {"monitored", "ok", "err"},
           vm' = Moved(v, "stopped"),
           mon' = [mon EXCEPT ![v] = "stopped"],
           UNCHANGED <<up, crashes, reg, disk, proc, start, stop, restart, api>>
    PROVE  IInv'
<1>1. VMInv(v) /\ Types BY Zenon DEF IInv
<1>2. vm \in Objects /\ mon \in [VMs -> MonPoints] BY <1>1 DEF Types
<1>3. /\ vm' \in Objects
      /\ vm'[v].state = "stopped" /\ vm'[v].closed = 1
      /\ vm'[v].pid <=> vm[v].pid
      /\ vm'[v].restarts = vm[v].restarts
      /\ \A w \in VMs \ {v} : vm'[w] = vm[w]
  BY <1>2, MovedFacts DEF States
<1>4. /\ mon'[v] = "stopped" /\ \A w \in VMs \ {v} : mon'[w] = mon[w]
  BY <1>2
<1>5. Types' BY <1>1, <1>2, <1>3, TypesStep DEF MonPoints
<1>6. VMInv(v)'
  <2>1. StartMatches(v)' /\ MonMatches(v)'
    BY <1>1, <1>3, <1>4 DEF VMInv, StartMatches, MonMatches, Moving, Going, Fresh, Lost
  <2>2. ObjectMatches(v)' BY <1>1, <1>3, <1>4 DEF VMInv, ObjectMatches, Moving, Going, Fresh, Lost
  <2>3. DiskMatches(v)' /\ DownMatches(v)'
    BY <1>1, <1>3, <1>4 DEF VMInv, DiskMatches, DownMatches, Moving, Going, Fresh, Lost
  <2>4. QED BY <2>1, <2>2, <2>3, Zenon DEF VMInv
<1>7. Elsewhere(v) BY <1>3, <1>4, Zenon DEF Elsewhere
<1>8. Allowed(v) BY <1>3, <1>4 DEF Allowed, Moving, Going
<1>9. QED BY <1>5, <1>6, <1>7, <1>8, LocalIInv, Zenon DEF Local

(* The monitor saves the VM and decides about a restart. *)
LEMMA MonitorDoneStep ==
    ASSUME IInv, NEW v \in VMs,
           mon[v] = "stopped" /\ vm[v].state = "stopped" /\ proc[v] # "up",
           disk' = Saved(v),
           mon' = [mon EXCEPT ![v] = "idle"],
           \E r \in {"backoff", "idle"} : restart' = [restart EXCEPT ![v] = r],
           UNCHANGED <<up, crashes, vm, reg, proc, start, stop, api>>
    PROVE  IInv'
<1>1. VMInv(v) /\ Types BY Zenon DEF IInv
<1>2. disk \in [VMs -> Records \cup {NoRecord}] /\ mon \in [VMs -> MonPoints] /\ restart \in [VMs -> RestartPoints] /\ vm \in Objects BY <1>1 DEF Types
<1>3. /\ disk' \in [VMs -> Records \cup {NoRecord}]
      /\ v \in reg => disk'[v].state = vm[v].state
      /\ v \in reg => (disk'[v].pid <=> vm[v].pid)
      /\ v \notin reg => disk'[v] = disk[v]
      /\ \A w \in VMs \ {v} : disk'[w] = disk[w]
  BY <1>2, SavedFacts DEF States
<1>4. /\ mon'[v] = "idle" /\ \A w \in VMs \ {v} : mon'[w] = mon[w]
      /\ \A w \in VMs \ {v} : restart'[w] = restart[w]
  BY <1>2
<1>5. Types' BY <1>1, <1>2, <1>3, TypesStep DEF MonPoints, RestartPoints
<1>6. VMInv(v)'
  <2>1. StartMatches(v)' /\ MonMatches(v)'
    BY <1>1, <1>3, <1>4 DEF VMInv, StartMatches, MonMatches, Moving, Going, Fresh, Lost
  <2>2. ObjectMatches(v)' BY <1>1, <1>3, <1>4 DEF VMInv, ObjectMatches, Moving, Going, Fresh, Lost
  <2>3. DiskMatches(v)' /\ DownMatches(v)'
    BY <1>1, <1>3, <1>4 DEF VMInv, DiskMatches, DownMatches, Moving, Going, Fresh, Lost
  <2>4. QED BY <2>1, <2>2, <2>3, Zenon DEF VMInv
<1>7. Elsewhere(v) BY <1>3, <1>4, Zenon DEF Elsewhere
<1>8. Allowed(v) BY <1>3, <1>4 DEF Allowed, Moving, Going
<1>9. QED BY <1>5, <1>6, <1>7, <1>8, LocalIInv, Zenon DEF Local

(* The monitor of an adopted VM finds the process gone. *)
LEMMA AdoptExitStep ==
    ASSUME IInv, NEW v \in VMs,
           mon[v] = "adopt" /\ vm[v].state \in Moving /\ start[v] = "idle",
           proc[v] # "up",
           vm[v].closed = 0,
           vm' = Moved(v, "stopped"),
           mon' = [mon EXCEPT ![v] = "adoptStopped"],
           UNCHANGED <<up, crashes, reg, disk, proc, start, stop, restart, api>>
    PROVE  IInv'
<1>1. VMInv(v) /\ Types BY Zenon DEF IInv
<1>2. vm \in Objects /\ mon \in [VMs -> MonPoints] BY <1>1 DEF Types
<1>3. /\ vm' \in Objects
      /\ vm'[v].state = "stopped" /\ vm'[v].closed = 1
      /\ vm'[v].pid <=> vm[v].pid
      /\ vm'[v].restarts = vm[v].restarts
      /\ \A w \in VMs \ {v} : vm'[w] = vm[w]
  BY <1>2, MovedFacts DEF States
<1>4. /\ mon'[v] = "adoptStopped" /\ \A w \in VMs \ {v} : mon'[w] = mon[w]
  BY <1>2
<1>5. Types' BY <1>1, <1>2, <1>3, TypesStep DEF MonPoints
<1>6. VMInv(v)'
  <2>1. StartMatches(v)' /\ MonMatches(v)'
    BY <1>1, <1>3, <1>4 DEF VMInv, StartMatches, MonMatches, Moving, Going, Fresh, Lost
  <2>2. ObjectMatches(v)' BY <1>1, <1>3, <1>4 DEF VMInv, ObjectMatches, Moving, Going, Fresh, Lost
  <2>3. DiskMatches(v)' /\ DownMatches(v)'
    BY <1>1, <1>3, <1>4 DEF VMInv, DiskMatches, DownMatches, Moving, Going, Fresh, Lost
  <2>4. QED BY <2>1, <2>2, <2>3, Zenon DEF VMInv
<1>7. Elsewhere(v) BY <1>3, <1>4, Zenon DEF Elsewhere
<1>8. Allowed(v) BY <1>3, <1>4 DEF Allowed, Moving, Going
<1>9. QED BY <1>5, <1>6, <1>7, <1>8, LocalIInv, Zenon DEF Local

(* The monitor of an adopted VM saves it. *)
LEMMA AdoptSaveStep ==
    ASSUME IInv, NEW v \in VMs,
           mon[v] = "adoptStopped" /\ vm[v].state = "stopped" /\ proc[v] # "up",
           disk' = Saved(v),
           mon' = [mon EXCEPT ![v] = "idle"],
           UNCHANGED <<up, crashes, vm, reg, proc, start, stop, restart, api>>
    PROVE  IInv'
<1>1. VMInv(v) /\ Types BY Zenon DEF IInv
<1>2. disk \in [VMs -> Records \cup {NoRecord}] /\ mon \in [VMs -> MonPoints] /\ vm \in Objects BY <1>1 DEF Types
<1>3. /\ disk' \in [VMs -> Records \cup {NoRecord}]
      /\ v \in reg => disk'[v].state = vm[v].state
      /\ v \in reg => (disk'[v].pid <=> vm[v].pid)
      /\ v \notin reg => disk'[v] = disk[v]
      /\ \A w \in VMs \ {v} : disk'[w] = disk[w]
  BY <1>2, SavedFacts DEF States
<1>4. /\ mon'[v] = "idle" /\ \A w \in VMs \ {v} : mon'[w] = mon[w]
  BY <1>2
<1>5. Types' BY <1>1, <1>2, <1>3, TypesStep DEF MonPoints
<1>6. VMInv(v)'
  <2>1. StartMatches(v)' /\ MonMatches(v)'
    BY <1>1, <1>3, <1>4 DEF VMInv, StartMatches, MonMatches, Moving, Going, Fresh, Lost
  <2>2. ObjectMatches(v)' BY <1>1, <1>3, <1>4 DEF VMInv, ObjectMatches, Moving, Going, Fresh, Lost
  <2>3. DiskMatches(v)' /\ DownMatches(v)'
    BY <1>1, <1>3, <1>4 DEF VMInv, DiskMatches, DownMatches, Moving, Going, Fresh, Lost
  <2>4. QED BY <2>1, <2>2, <2>3, Zenon DEF VMInv
<1>7. Elsewhere(v) BY <1>3, <1>4, Zenon DEF Elsewhere
<1>8. Allowed(v) BY <1>3, <1>4 DEF Allowed, Moving, Going
<1>9. QED BY <1>5, <1>6, <1>7, <1>8, LocalIInv, Zenon DEF Local

(* The replacement cannot be created. *)
LEMMA RestartCreateFailStep ==
    ASSUME IInv, NEW v \in VMs,
           restart[v] = "backoff",
           restart' = [restart EXCEPT ![v] = "idle"],
           UNCHANGED <<up, crashes, vm, reg, disk, proc, start, stop, mon, api>>
    PROVE  IInv'
<1>1. VMInv(v) /\ Types BY Zenon DEF IInv
<1>2. restart \in [VMs -> RestartPoints] BY <1>1 DEF Types
<1>3. /\ restart'[v] = "idle" /\ \A w \in VMs \ {v} : restart'[w] = restart[w]
  BY <1>2
<1>4. Types' BY <1>1, <1>2, TypesStep DEF RestartPoints
<1>5. VMInv(v)'
  <2>1. StartMatches(v)' /\ MonMatches(v)'
    BY <1>1, <1>3 DEF VMInv, StartMatches, MonMatches, Moving, Going, Fresh, Lost
  <2>2. ObjectMatches(v)' BY <1>1, <1>3 DEF VMInv, ObjectMatches, Moving, Going, Fresh, Lost
  <2>3. DiskMatches(v)' /\ DownMatches(v)'
    BY <1>1, <1>3 DEF VMInv, DiskMatches, DownMatches, Moving, Going, Fresh, Lost
  <2>4. QED BY <2>1, <2>2, <2>3, Zenon DEF VMInv
<1>6. Elsewhere(v) BY <1>3, Zenon DEF Elsewhere
<1>7. Allowed(v) BY <1>3 DEF Allowed, Moving, Going
<1>8. QED BY <1>4, <1>5, <1>6, <1>7, LocalIInv, Zenon DEF Local

(* The guest exits by itself. *)
LEMMA GuestExitIInv ==
    ASSUME IInv, NEW v \in VMs, NEW how \in Exits, GuestExit(v, how), BoundsAssumption
    PROVE  IInv'
<1>1. VMInv(v) /\ Types BY Zenon DEF IInv
<1>2. /\ proc[v] = "up"
      /\ how \in {"ok", "failed"}
  BY <1>1 DEF GuestExit, VMInv, StartMatches, MonMatches, ObjectMatches, Moving, Going, Fresh, Lost, BoundsAssumption
<1>3. /\ proc' = [proc EXCEPT ![v] = how]
      /\ UNCHANGED <<up, crashes, vm, reg, disk, start, stop, mon, restart, api>>
  BY <1>2 DEF GuestExit
<1>4. QED BY <1>2, <1>3, GuestExitStep, Zenon

(* The monitor of an adopted VM finds the process gone. *)
LEMMA AdoptExitIInv ==
    ASSUME IInv, NEW v \in VMs, AdoptExit(v)
    PROVE  IInv'
<1>1. VMInv(v) /\ Types BY Zenon DEF IInv
<1>2. /\ mon[v] = "adopt" /\ vm[v].state \in Moving /\ start[v] = "idle"
      /\ proc[v] # "up"
      /\ vm[v].closed = 0
  BY <1>1 DEF AdoptExit, VMInv, StartMatches, MonMatches, ObjectMatches, Moving, Going, Fresh, Lost
<1>3. /\ vm' = Moved(v, "stopped")
      /\ mon' = [mon EXCEPT ![v] = "adoptStopped"]
      /\ UNCHANGED <<up, crashes, reg, disk, proc, start, stop, restart, api>>
  BY <1>2, GoingStops DEF AdoptExit, Going, Moving
<1>4. QED BY <1>2, <1>3, AdoptExitStep, Zenon

(* The monitor of an adopted VM saves it. *)
LEMMA AdoptSaveIInv ==
    ASSUME IInv, NEW v \in VMs, AdoptSave(v)
    PROVE  IInv'
<1>1. VMInv(v) /\ Types BY Zenon DEF IInv
<1>2. /\ mon[v] = "adoptStopped" /\ vm[v].state = "stopped" /\ proc[v] # "up"
  BY <1>1 DEF AdoptSave, VMInv, StartMatches, MonMatches, ObjectMatches, Moving, Going, Fresh, Lost
<1>3. /\ disk' = Saved(v)
      /\ mon' = [mon EXCEPT ![v] = "idle"]
      /\ UNCHANGED <<up, crashes, vm, reg, proc, start, stop, restart, api>>
  BY <1>2 DEF AdoptSave
<1>4. QED BY <1>2, <1>3, AdoptSaveStep, Zenon

-----------------------------------------------------------------------------
(* FileStore.Create.  The VM it is given was not there before. *)
LEMMA CreatedFacts ==
    ASSUME IInv, NEW v \in VMs, NEW n \in Nat, Created(v, n)
    PROVE  /\ vm[v].state = Fresh /\ vm[v].restarts = 0 /\ v \notin reg
           /\ start[v] = "idle" /\ stop[v] = "idle" /\ mon[v] = "idle" /\ restart[v] = "idle"
           /\ vm' \in Objects /\ reg' = reg \cup {v}
           /\ disk' \in [VMs -> Records \cup {NoRecord}]
           /\ vm'[v].state = "created" /\ vm'[v].closed = 0 /\ ~vm'[v].pid /\ vm'[v].restarts = n
           /\ disk'[v].state = "created" /\ ~disk'[v].pid /\ proc[v] # "up"
           /\ \A w \in VMs \ {v} : vm'[w] = vm[w] /\ disk'[w] = disk[w]
<1>1. VMInv(v) /\ Types BY Zenon DEF IInv
<1>a. /\ stop \in [VMs -> StopPoints] /\ mon \in [VMs -> MonPoints] /\ restart \in [VMs -> RestartPoints]
      /\ start \in [VMs -> StartPoints] /\ vm \in Objects /\ disk \in [VMs -> Records \cup {NoRecord}]
  BY <1>1 DEF Types
<1>2. vm[v].state = Fresh BY DEF Created
<1>3. start[v] = "idle" /\ stop[v] = "idle" /\ mon[v] = "idle" /\ restart[v] = "idle"
  BY <1>1, <1>2, <1>a DEF VMInv, StartMatches, MonMatches, Moving, Going, Fresh, StartPoints, MonPoints
<1>4. v \notin reg /\ vm[v].restarts = 0 /\ proc[v] # "up"
  BY <1>1, <1>2 DEF VMInv, ObjectMatches
<1> DEFINE o == Object("created", 0, n)
<1>5. /\ o \in [state : States \cup {Fresh, Lost}, explicitStop : BOOLEAN,
                closed : Nat, pid : BOOLEAN, restarts : Nat]
      /\ o.state = "created" /\ o.closed = 0 /\ ~o.pid /\ o.restarts = n
  BY DEF Object, States
<1>6. vm' = [vm EXCEPT ![v] = o] BY DEF Created
<1> HIDE DEF o
<1>7. /\ vm' \in Objects
      /\ vm'[v].state = "created" /\ vm'[v].closed = 0 /\ ~vm'[v].pid /\ vm'[v].restarts = n
      /\ \A w \in VMs \ {v} : vm'[w] = vm[w]
  BY <1>a, <1>5, <1>6 DEF Objects
<1> DEFINE r == [state |-> "created", pid |-> FALSE, restarts |-> n]
<1>8. r \in Records /\ r.state = "created" /\ ~r.pid BY DEF Records, States
<1>9. disk' = [disk EXCEPT ![v] = r] /\ reg' = reg \cup {v} BY DEF Created
<1> HIDE DEF r
<1>10. /\ disk' \in [VMs -> Records \cup {NoRecord}]
       /\ disk'[v].state = "created" /\ ~disk'[v].pid
       /\ \A w \in VMs \ {v} : disk'[w] = disk[w]
  BY <1>a, <1>8, <1>9
<1>11. QED BY <1>2, <1>3, <1>4, <1>7, <1>9, <1>10

(* What a Create followed by a call of Start leaves of the VMs. *)
LEMMA CreatedVMInv ==
    ASSUME IInv, NEW v \in VMs, NEW n \in Nat, Created(v, n), up, up' = up,
           start' = [start EXCEPT ![v] = "begin"], UNCHANGED <<proc, stop, mon>>,
           \A w \in VMs : restart'[w] # "idle" => restart[w] # "idle"
    PROVE  \A w \in VMs : VMInv(w)'
<1> SUFFICES ASSUME NEW w \in VMs PROVE VMInv(w)' OBVIOUS
<1>1. VMInv(w) /\ Types BY DEF IInv
<1>2. CASE w # v
  <2>1. start'[w] = start[w] /\ ((w \in reg') <=> (w \in reg)) BY <1>1, <1>2, CreatedFacts DEF Types
  <2>2. vm'[w] = vm[w] /\ disk'[w] = disk[w] BY <1>2, CreatedFacts
  <2>3. QED BY <1>1, <2>1, <2>2, Frame
<1>3. CASE w = v
  <2>1. /\ start'[v] = "begin" /\ stop'[v] = "idle" /\ mon'[v] = "idle" /\ restart'[v] = "idle"
        /\ v \in reg' /\ proc'[v] # "up"
        /\ vm'[v].state = "created" /\ vm'[v].closed = 0 /\ ~vm'[v].pid
        /\ disk'[v].state = "created" /\ ~disk'[v].pid
    BY <1>1, CreatedFacts DEF Types
  <2>2. StartMatches(v)' /\ MonMatches(v)' /\ ObjectMatches(v)'
    BY <2>1 DEF StartMatches, MonMatches, ObjectMatches, Moving, Fresh, Lost
  <2>3. DiskMatches(v)' BY <2>1 DEF DiskMatches, Going, Fresh
  <2>4. DownMatches(v)' BY DEF DownMatches
  <2>5. QED BY <1>3, <2>2, <2>3, <2>4 DEF VMInv
<1>4. QED BY <1>2, <1>3

(* While no request is under way, the only Start calls are those of restartVM. *)
LEMMA NoRequestNoStart ==
    ASSUME Requests, api.pc = "idle" \/ start[api.vm] \in {"ok", "err"} \/ api.pc = "remove"
    PROVE  \A w \in VMs : start[w] \notin {"idle", "ok", "err"} => vm[w].restarts # 0
  BY DEF Requests

(* What Create and Start of a VM whose restart count is zero keep of the rest. *)
LEMMA CreatedRequests ==
    ASSUME IInv, NEW v \in VMs, Created(v, 0), api.pc = "idle", up, UNCHANGED <<up, crashes>>,
           start' = [start EXCEPT ![v] = "begin"], api'.vm = v, api'.pc \in {"run", "replace"},
           api'.pc = "replace" => api'.old \in VMs /\ vm[api'.old].state = "stopped"
    PROVE  Requests' /\ (Undisturbed' => Undisturbed)
<1>1. Requests /\ Types BY DEF IInv
<1>2. \A w \in VMs : start[w] \notin {"idle", "ok", "err"} => vm[w].restarts # 0
  BY <1>1, NoRequestNoStart
<1>3. /\ vm[v].state = Fresh /\ vm[v].restarts = 0 /\ vm'[v].state = "created"
      /\ start[v] = "idle" /\ reg' = reg \cup {v}
      /\ \A w \in VMs \ {v} : vm'[w] = vm[w]
  BY CreatedFacts
<1>4. \A w \in VMs \ {v} : start'[w] = start[w] BY <1>1 DEF Types
<1>5. \A w \in VMs : start'[w] \notin {"idle", "ok", "err"} /\ vm'[w].restarts = 0 => w = v
  BY <1>2, <1>3, <1>4
<1>6. \A w \in VMs : vm'[w].state \in Going /\ vm'[w].restarts = 0 => w \in reg'
  BY <1>1, <1>3 DEF Requests, Going
<1>7. api'.pc = "replace" => api'.old \in VMs /\ vm'[api'.old].state = "stopped"
  BY <1>3 DEF Fresh
<1>8. Requests' BY <1>5, <1>6, <1>7 DEF Requests
<1>9. Undisturbed' => Undisturbed BY <1>3, <1>4 DEF Undisturbed
<1>10. QED BY <1>8, <1>9

(* handleRun. *)
LEMMA RunStep ==
    ASSUME IInv, NEW v \in VMs,
           up /\ api.pc = "idle" /\ reg = {} /\ Created(v, 0),
           start' = [start EXCEPT ![v] = "begin"],
           api' = [pc |-> "run", vm |-> v, old |-> NoVM],
           UNCHANGED <<up, crashes, proc, stop, mon, restart>>
    PROVE  IInv'
<1>2. Types /\ 0 \in Nat BY DEF IInv
<1>3. \A w \in VMs : VMInv(w)' BY <1>2, CreatedVMInv
<1>4. Requests' BY CreatedRequests
<1>5. reg' = {v} /\ vm' \in Objects /\ disk' \in [VMs -> Records \cup {NoRecord}]
  BY <1>2, CreatedFacts
<1>6. Types'
  <2>1. start' \in [VMs -> StartPoints] /\ reg' \subseteq VMs
    BY <1>2, <1>5 DEF Types, StartPoints
  <2>2. api' \in Calls BY DEF Calls
  <2>3. QED BY <1>2, <1>5, <2>1, <2>2, TypesStep
<1>7. OneRegistered' BY <1>5 DEF OneRegistered
<1>8. QED BY <1>3, <1>4, <1>6, <1>7 DEF IInv

(* handleStart of a stopped VM: the one VM there is gets a replacement. *)
LEMMA StartReplaceStep ==
    ASSUME IInv, NEW old \in VMs, NEW v \in VMs,
           up /\ api.pc = "idle" /\ old \in reg /\ vm[old].state = "stopped" /\ Created(v, 0),
           start' = [start EXCEPT ![v] = "begin"],
           api' = [pc |-> "replace", vm |-> v, old |-> old],
           UNCHANGED <<up, crashes, proc, stop, mon, restart>>
    PROVE  IInv'
<1>2. Types /\ OneRegistered /\ 0 \in Nat BY DEF IInv
<1>3. \A w \in VMs : VMInv(w)' BY <1>2, CreatedVMInv
<1>4. Requests' /\ (Undisturbed' => Undisturbed) BY CreatedRequests
<1>5. reg' = reg \cup {v} /\ vm' \in Objects /\ disk' \in [VMs -> Records \cup {NoRecord}]
  BY <1>2, CreatedFacts
<1>6. Types'
  <2>1. start' \in [VMs -> StartPoints] /\ reg' \subseteq VMs
    BY <1>2, <1>5 DEF Types, StartPoints
  <2>2. api' \in Calls BY DEF Calls
  <2>3. QED BY <1>2, <1>5, <2>1, <2>2, TypesStep
<1>7. OneRegistered' BY <1>2, <1>4, <1>5 DEF OneRegistered
<1>8. QED BY <1>3, <1>4, <1>6, <1>7 DEF IInv

(* handleStart of a VM that never ran. *)
LEMMA StartInPlaceStep ==
    ASSUME IInv, NEW v \in VMs,
           up /\ api.pc = "idle" /\ v \in reg /\ vm[v].state = "created",
           start[v] \in {"idle", "begin"} /\ vm' = Moved(v, "starting"),
           start' = [start EXCEPT ![v] = "prep"],
           restart' = [o \in VMs |-> IF repl[o] = v THEN "idle" ELSE restart[o]],
           api' = [pc |-> "inplace", vm |-> v, old |-> NoVM],
           UNCHANGED <<up, crashes, reg, disk, proc, stop, mon>>
    PROVE  IInv'
<1>2. Types /\ VMInv(v) /\ Requests /\ OneRegistered BY Zenon DEF IInv
<1>a. /\ stop \in [VMs -> StopPoints] /\ mon \in [VMs -> MonPoints] /\ restart \in [VMs -> RestartPoints]
      /\ start \in [VMs -> StartPoints] /\ vm \in Objects
  BY <1>2 DEF Types
<1>3. /\ vm' \in Objects /\ vm'[v].state = "starting" /\ vm'[v].closed = vm[v].closed
      /\ vm'[v].pid <=> vm[v].pid
      /\ vm'[v].restarts = vm[v].restarts
      /\ \A w \in VMs \ {v} : vm'[w] = vm[w]
  BY <1>a, MovedFacts DEF States
<1>4. /\ start'[v] = "prep" /\ \A w \in VMs \ {v} : start'[w] = start[w]
      /\ \A w \in VMs : restart'[w] # "idle" => restart[w] # "idle"
      /\ restart' \in [VMs -> RestartPoints] /\ start' \in [VMs -> StartPoints]
  BY <1>a DEF RestartPoints, StartPoints
<1>5. mon[v] = "idle" /\ stop[v] = "idle" /\ restart[v] = "idle" /\ proc[v] # "up"
  BY <1>2, <1>a DEF VMInv, MonMatches, ObjectMatches, Going, Moving, MonPoints
<1>6. Types'
  <2>1. api' \in Calls BY DEF Calls
  <2>2. QED BY <1>2, <1>3, <1>4, <2>1, TypesStep
<1>7. VMInv(v)'
  <2>1. StartMatches(v)' BY <1>3, <1>4, <1>5 DEF StartMatches
  <2>2. MonMatches(v)' BY <1>4, <1>5 DEF MonMatches
  <2>3. ObjectMatches(v)' BY <1>2, <1>3, <1>5 DEF VMInv, ObjectMatches, Moving, Fresh, Lost
  <2>4. DiskMatches(v)' BY <1>2, <1>3 DEF VMInv, DiskMatches, Fresh, Lost
  <2>5. DownMatches(v)' BY DEF DownMatches
  <2>6. QED BY <2>1, <2>2, <2>3, <2>4, <2>5 DEF VMInv
<1>8. ASSUME NEW w \in VMs, w # v PROVE VMInv(w)'
  <2>1. VMInv(w) BY DEF IInv
  <2>2. QED BY <1>3, <1>4, <1>8, <2>1, Frame
<1>9. Requests'
  <2>1. \A w \in VMs : start[w] \notin {"idle", "ok", "err"} => vm[w].restarts # 0
    BY <1>2, NoRequestNoStart
  <2>2. QED BY <1>2, <1>3, <1>4, <2>1 DEF Requests
<1>10. OneRegistered'
  <2>1. Undisturbed' => Undisturbed BY <1>3, <1>4 DEF Undisturbed
  <2>2. QED BY <1>2, <2>1 DEF OneRegistered
<1>11. QED BY <1>6, <1>7, <1>8, <1>9, <1>10 DEF IInv
=============================================================================
