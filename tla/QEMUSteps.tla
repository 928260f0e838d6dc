----------------------------- MODULE QEMUSteps ------------------------------
(***************************************************************************)
(* Proofs about QEMUManager for every set of VMs, every restart policy and *)
(* any number of crashes.                                                  *)
(*                                                                         *)
(* What the daemon says of one VM is right because Start, the monitors and *)
(* the record on disk agree with one another at each of their steps: VMInv *)
(* says what each program counter knows.  That there is one process needs  *)
(* more: resourceMu lets one request at a time create, start or remove VMs *)
(* (Requests), which leaves at most one registered (OneRegistered).        *)
(***************************************************************************)
EXTENDS VMCoreProofs

(* The types of the variables the argument needs. *)
Types ==
    /\ up \in BOOLEAN
    /\ crashes \in Nat
    /\ vm \in Objects
    /\ reg \subseteq VMs
    /\ disk \in [VMs -> Records \cup {NoRecord}]
    /\ proc \in [VMs -> Processes]
    /\ start \in [VMs -> StartPoints]
    /\ stop \in [VMs -> StopPoints]
    /\ mon \in [VMs -> MonPoints]
    /\ restart \in [VMs -> RestartPoints]
    /\ api \in Calls

(* How far Start is, and what it has made of the VM by then. *)
StartMatches(v) ==
    /\ start[v] = "idle" => \/ vm[v].state \in {Fresh, Lost, "created", "stopped"}
                            \/ vm[v].state \in Moving /\ mon[v] = "adopt"
    /\ start[v] = "begin" => vm[v].state = "created" /\ mon[v] = "idle"
    /\ start[v] = "prep" => vm[v].state = "starting" /\ mon[v] = "idle" /\ proc[v] # "up"
    /\ start[v] = "launched" => /\ vm[v].state = "starting" /\ mon[v] = "idle"
                                /\ proc[v] # "none" /\ vm[v].pid
    /\ start[v] \in {"running", "saved"} => vm[v].state \in Moving /\ mon[v] = "idle"
    /\ start[v] \in {"monitored", "ok"} =>
          \/ vm[v].state \in Moving /\ mon[v] \in {"wait", "exited"}
          \/ vm[v].state = "stopped"
    /\ start[v] = "err" =>
          \/ vm[v].state = "created"
          \/ vm[v].state = "stopped"
          \/ vm[v].state \in Going /\ mon[v] \in {"wait", "exited"} /\ vm[v].pid

(* What a monitor has seen of the process. *)
MonMatches(v) ==
    /\ mon[v] \in {"wait", "exited"} => /\ vm[v].state \in Going
                                        /\ start[v] \in {"monitored", "ok", "err"}
    /\ mon[v] = "wait" => proc[v] # "none"
    /\ mon[v] \in {"exited", "stopped"} => proc[v] \in {"ok", "failed"}
    /\ mon[v] \in {"stopped", "adoptStopped"} => vm[v].state = "stopped"
    /\ mon[v] = "adopt" => vm[v].state \in Moving /\ start[v] = "idle"
    /\ stop[v] # "idle" => vm[v].state \in {"stopping", "stopped"} /\ vm[v].pid
    /\ restart[v] # "idle" => vm[v].state = "stopped"

(* What the VM's state says of the process and of the done channel. *)
ObjectMatches(v) ==
    /\ vm[v].state \in {Fresh, "created", "stopped"} => proc[v] # "up"
    /\ vm[v].state \in {Fresh, "created"} => ~vm[v].pid
    /\ vm[v].state \in Moving => proc[v] # "none" /\ vm[v].pid
    /\ vm[v].closed = IF vm[v].state = "stopped" THEN 1 ELSE 0
    /\ vm[v].state = Lost /\ up => proc[v] # "up"
    /\ vm[v].state \in {Fresh, Lost} => v \notin reg
    /\ vm[v].state = Fresh => vm[v].restarts = 0

(* What the record on disk says. *)
DiskMatches(v) ==
    disk[v] # NoRecord =>
        /\ vm[v].state # Fresh
        /\ up => v \in reg
        /\ disk[v].state = "created" => ~disk[v].pid
        /\ disk[v].state \in Going => disk[v].pid
        /\ disk[v].state = "stopped" => proc[v] # "up" /\ vm[v].state \in {"stopped", Lost}

(* Without a daemon there is nothing in memory. *)
DownMatches(v) ==
    ~up => /\ vm[v].state \in {Fresh, Lost} /\ start[v] = "idle" /\ stop[v] = "idle"
           /\ mon[v] = "idle" /\ restart[v] = "idle" /\ v \notin reg

VMInv(v) ==
    StartMatches(v) /\ MonMatches(v) /\ ObjectMatches(v) /\ DiskMatches(v) /\ DownMatches(v)

(* resourceMu: who may be starting a VM that no restart created, and what a     *)
(* removal that passed its check may meet.                                      *)
Requests ==
    /\ \A v \in VMs : start[v] \notin {"idle", "ok", "err"} /\ vm[v].restarts = 0 =>
          api.vm = v /\ api.pc \in {"run", "inplace", "replace"}
    /\ \A v \in VMs : vm[v].state \in Going /\ vm[v].restarts = 0 => v \in reg
    /\ api.pc # "idle" => api.vm \in VMs /\ up
    /\ ~up => crashes > 0
    /\ api.pc = "remove" => vm[api.vm].state \in {"created", "stopped"} \/ vm[api.vm].restarts > 0
    /\ api.pc = "replace" => api.old \in VMs /\ vm[api.old].state = "stopped"

(* Nothing was left behind so far: at most one VM is registered, but for the    *)
(* one a request is replacing or removing.                                      *)
Undisturbed ==
    crashes = 0 /\ \A v \in VMs : vm[v].restarts = 0 /\ ~(start[v] = "err" /\ vm[v].pid)
OneRegistered ==
    Undisturbed =>
        /\ api.pc \in {"idle", "inplace"} => \A v, w \in reg : v = w
        /\ api.pc = "run" => reg \subseteq {api.vm}
        /\ api.pc = "replace" => reg \subseteq {api.vm, api.old}
        /\ api.pc = "remove" => \A v, w \in reg \ {api.vm} : v = w

IInv == Types /\ (\A v \in VMs : VMInv(v)) /\ Requests /\ OneRegistered

-----------------------------------------------------------------------------
(* What a step on one VM leaves alone: everything of the others, and all that   *)
(* is shared; what it may do to the VM as far as requests and the registry      *)
(* are concerned.                                                               *)
Elsewhere(v) ==
    /\ up' = up /\ crashes' = crashes /\ reg' = reg /\ api' = api
    /\ \A w \in VMs \ {v} :
          /\ vm'[w] = vm[w] /\ proc'[w] = proc[w] /\ disk'[w] = disk[w]
          /\ start'[w] = start[w] /\ stop'[w] = stop[w] /\ mon'[w] = mon[w]
          /\ restart'[w] = restart[w]

Allowed(v) ==
    /\ vm'[v].restarts = vm[v].restarts
    /\ vm[v].pid => vm'[v].pid
    /\ start[v] = "err" => start'[v] = "err"
    /\ start'[v] \notin {"idle", "ok", "err"} => start[v] \notin {"idle", "ok", "err"}
    /\ vm'[v].state \in Going => vm[v].state \in Going \/ v \in reg
    /\ vm[v].state = "stopped" => vm'[v].state = "stopped"
    /\ vm[v].state = "created" => vm'[v].state = "created" \/ start[v] = "begin"

Local(v) == Elsewhere(v) /\ Allowed(v)

(* The invariant of a VM reads nothing of the others. *)
LEMMA Frame ==
    ASSUME NEW w \in VMs, VMInv(w), up' = up, (w \in reg') <=> (w \in reg),
           vm'[w] = vm[w], proc'[w] = proc[w], disk'[w] = disk[w],
           start'[w] = start[w], stop'[w] = stop[w], mon'[w] = mon[w],
           restart'[w] # "idle" => restart[w] # "idle"
    PROVE  VMInv(w)'
<1>1. StartMatches(w)' BY DEF VMInv, StartMatches
<1>2. MonMatches(w)' BY DEF VMInv, MonMatches
<1>3. ObjectMatches(w)' BY DEF VMInv, ObjectMatches
<1>4. DiskMatches(w)' BY DEF VMInv, DiskMatches
<1>5. DownMatches(w)' BY DEF VMInv, DownMatches
<1>6. QED BY <1>1, <1>2, <1>3, <1>4, <1>5 DEF VMInv

(* A variable keeps its type if it is left alone. *)
LEMMA TypesStep ==
    ASSUME Types,
           up' = up \/ up' \in BOOLEAN,
           crashes' = crashes \/ crashes' \in Nat,
           vm' = vm \/ vm' \in Objects,
           reg' = reg \/ reg' \subseteq VMs,
           disk' = disk \/ disk' \in [VMs -> Records \cup {NoRecord}],
           proc' = proc \/ proc' \in [VMs -> Processes],
           start' = start \/ start' \in [VMs -> StartPoints],
           stop' = stop \/ stop' \in [VMs -> StopPoints],
           mon' = mon \/ mon' \in [VMs -> MonPoints],
           restart' = restart \/ restart' \in [VMs -> RestartPoints],
           api' = api \/ api' \in Calls
    PROVE  Types'
  BY DEF Types

(* A step on one VM that keeps its invariant keeps all of it. *)
LEMMA LocalIInv ==
    ASSUME IInv, NEW v \in VMs, Types', VMInv(v)', Local(v)
    PROVE  IInv'
<1> USE DEF IInv
<1>1. \A w \in VMs : VMInv(w)'
  <2> SUFFICES ASSUME NEW w \in VMs, w # v PROVE VMInv(w)' OBVIOUS
  <2>1. VMInv(w) OBVIOUS
  <2>2. QED BY <2>1, Frame DEF Local, Elsewhere, Allowed
<1>2. \A w \in VMs : vm'[w].restarts = vm[w].restarts BY DEF Local, Elsewhere, Allowed
<1>3. Requests'
  <2>1. \A w \in VMs : start'[w] \notin {"idle", "ok", "err"} => start[w] \notin {"idle", "ok", "err"}
    BY DEF Local, Elsewhere, Allowed
  <2>2. \A w \in VMs : vm'[w].state \in Going => vm[w].state \in Going \/ w \in reg
    BY DEF Local, Elsewhere, Allowed
  <2>3. \A w \in VMs : vm[w].state = "stopped" => vm'[w].state = "stopped"
    BY DEF Local, Elsewhere, Allowed
  <2>4. api.pc = "remove" =>
          vm'[api.vm].state \in {"created", "stopped"} \/ vm'[api.vm].restarts > 0
    <3> SUFFICES ASSUME api.pc = "remove", vm'[api.vm].restarts = 0
                 PROVE  vm'[api.vm].state \in {"created", "stopped"}
      <4>1. api.pc = "remove" => vm'[api.vm].restarts \in Nat BY DEF Types, Objects, Requests
      <4>2. QED BY <4>1
    <3>1. api.vm \in VMs /\ vm[api.vm].state \in {"created", "stopped"} /\ vm[api.vm].restarts = 0
      BY <1>2 DEF Requests
    <3>2. start[api.vm] # "begin" BY <3>1 DEF Requests
    <3>3. QED BY <3>1, <3>2 DEF Local, Elsewhere, Allowed
  <2>5. api' = api /\ up' = up /\ reg' = reg /\ crashes' = crashes BY DEF Local, Elsewhere, Allowed
  <2>6. QED BY <1>2, <2>1, <2>2, <2>3, <2>4, <2>5 DEF Requests
<1>4. OneRegistered'
  <2>1. Undisturbed' => Undisturbed BY <1>2 DEF Undisturbed, Local, Elsewhere, Allowed
  <2>2. QED BY <2>1 DEF OneRegistered, Local, Elsewhere, Allowed
<1>5. QED BY <1>1, <1>3, <1>4

-----------------------------------------------------------------------------
(* What a step of one VM's goroutines does, and that it keeps the invariant. *)

(* The VM is registered and may be started. *)
LEMMA StartBeginMovesStep ==
    ASSUME IInv, NEW v \in VMs,
           start[v] = "begin" /\ v \in reg /\ vm[v].state = "created",
           mon[v] = "idle" /\ proc[v] # "up",
           vm' = Moved(v, "starting"),
           start' = [start EXCEPT ![v] = "prep"],
           UNCHANGED <<up, crashes, reg, disk, proc, stop, mon, restart, api>>
    PROVE  IInv'
<1>1. VMInv(v) /\ Types BY Zenon DEF IInv
<1>2. vm \in Objects /\ start \in [VMs -> StartPoints] BY <1>1 DEF Types
<1>3. /\ vm' \in Objects
      /\ vm'[v].state = "starting" /\ vm'[v].closed = vm[v].closed
      /\ vm'[v].pid <=> vm[v].pid
      /\ vm'[v].restarts = vm[v].restarts
      /\ \A w \in VMs \ {v} : vm'[w] = vm[w]
  BY <1>2, MovedFacts DEF States
<1>4. /\ start'[v] = "prep" /\ \A w \in VMs \ {v} : start'[w] = start[w]
  BY <1>2
<1>5. Types' BY <1>1, <1>2, <1>3, TypesStep DEF StartPoints
<1>6. VMInv(v)'
  <2>1. StartMatches(v)' /\ MonMatches(v)'
    BY <1>1, <1>3, <1>4 DEF VMInv, StartMatches, MonMatches, Moving, Going, Fresh, Lost
  <2>2. ObjectMatches(v)' BY <1>1, <1>3, <1>4 DEF VMInv, ObjectMatches, Moving, Going, Fresh, Lost
  <2>3. DiskMatches(v)' /\ DownMatches(v)'
    BY <1>1, <1>3, <1>4 DEF VMInv, DiskMatches, DownMatches, Moving, Going, Fresh, Lost
  <2>4. QED BY <2>1, <2>2, <2>3, Zenon DEF VMInv
<1>7. Elsewhere(v) BY <1>3, <1>4, Zenon DEF Elsewhere
<1>8. Allowed(v) BY <1>3, <1>4 DEF Allowed, Moving, Going
<1>9. QED BY <1>5, <1>6, <1>7, <1>8, LocalIInv, Zenon DEF Local

(* The VM is gone, or somebody else started it. *)
LEMMA StartBeginRefusedStep ==
    ASSUME IInv, NEW v \in VMs,
           start[v] = "begin" /\ vm[v].state = "created",
           start' = [start EXCEPT ![v] = "err"],
           UNCHANGED <<up, crashes, vm, reg, disk, proc, stop, mon, restart, api>>
    PROVE  IInv'
<1>1. VMInv(v) /\ Types BY Zenon DEF IInv
<1>2. start \in [VMs -> StartPoints] BY <1>1 DEF Types
<1>3. /\ start'[v] = "err" /\ \A w \in VMs \ {v} : start'[w] = start[w]
  BY <1>2
<1>4. Types' BY <1>1, <1>2, TypesStep DEF StartPoints
<1>5. VMInv(v)'
  <2>1. StartMatches(v)' /\ MonMatches(v)'
    BY <1>1, <1>3 DEF VMInv, StartMatches, MonMatches, Moving, Going, Fresh, Lost
  <2>2. ObjectMatches(v)' BY <1>1, <1>3 DEF VMInv, ObjectMatches, Moving, Going, Fresh, Lost
  <2>3. DiskMatches(v)' /\ DownMatches(v)'
    BY <1>1, <1>3 DEF VMInv, DiskMatches, DownMatches, Moving, Going, Fresh, Lost
  <2>4. QED BY <2>1, <2>2, <2>3, Zenon DEF VMInv
<1>6. Elsewhere(v) BY <1>3, Zenon DEF Elsewhere
<1>7. Allowed(v) BY <1>3 DEF Allowed, Moving, Going
<1>8. QED BY <1>4, <1>5, <1>6, <1>7, LocalIInv, Zenon DEF Local

(* Host preparation, boot disk or launch failed. *)
LEMMA StartFailStep ==
    ASSUME IInv, NEW v \in VMs,
           start[v] = "prep" /\ vm[v].state = "starting" /\ vm[v].closed = 0,
           mon[v] = "idle" /\ proc[v] # "up",
           vm' = Moved(v, "stopped"),
           start' = [start EXCEPT ![v] = "err"],
           UNCHANGED <<up, crashes, reg, disk, proc, stop, mon, restart, api>>
    PROVE  IInv'
<1>1. VMInv(v) /\ Types BY Zenon DEF IInv
<1>2. vm \in Objects /\ start \in [VMs -> StartPoints] BY <1>1 DEF Types
<1>3. /\ vm' \in Objects
      /\ vm'[v].state = "stopped" /\ vm'[v].closed = 1
      /\ vm'[v].pid <=> vm[v].pid
      /\ vm'[v].restarts = vm[v].restarts
      /\ \A w \in VMs \ {v} : vm'[w] = vm[w]
  BY <1>2, MovedFacts DEF States
<1>4. /\ start'[v] = "err" /\ \A w \in VMs \ {v} : start'[w] = start[w]
  BY <1>2
<1>5. Types' BY <1>1, <1>2, <1>3, TypesStep DEF StartPoints
<1>6. VMInv(v)'
  <2>1. StartMatches(v)' /\ MonMatches(v)'
    BY <1>1, <1>3, <1>4 DEF VMInv, StartMatches, MonMatches, Moving, Going, Fresh, Lost
  <2>2. ObjectMatches(v)' BY <1>1, <1>3, <1>4 DEF VMInv, ObjectMatches, Moving, Going, Fresh, Lost
  <2>3. DiskMatches(v)' /\ DownMatches(v)'
    BY <1>1, <1>3, <1>4 DEF VMInv, DiskMatches, DownMatches, Moving, Going, Fresh, Lost
  <2>4. QED BY <2>1, <2>2, <2>3, Zenon DEF VMInv
<1>7. Elsewhere(v) BY <1>3, <1>4, Zenon DEF Elsewhere
<1>8. Allowed(v) BY <1>3, <1>4 DEF Allowed, Moving, Going
<1>9. QED BY <1>5, <1>6, <1>7, <1>8, LocalIInv, Zenon DEF Local

(* The hypervisor is launched. *)
LEMMA StartLaunchStep ==
    ASSUME IInv, NEW v \in VMs,
           start[v] = "prep" /\ vm[v].state = "starting" /\ mon[v] = "idle",
           vm' = [vm EXCEPT ![v].pid = TRUE],
           proc' = [proc EXCEPT ![v] = "up"],
           start' = [start EXCEPT ![v] = "launched"],
           UNCHANGED <<up, crashes, reg, disk, stop, mon, restart, api>>
    PROVE  IInv'
<1>1. VMInv(v) /\ Types BY Zenon DEF IInv
<1>2. vm \in Objects /\ start \in [VMs -> StartPoints] /\ proc \in [VMs -> Processes] BY <1>1 DEF Types
<1>3. /\ vm' \in Objects
      /\ vm'[v].state = vm[v].state /\ vm'[v].closed = vm[v].closed
      /\ vm'[v].pid
      /\ vm'[v].restarts = vm[v].restarts
      /\ \A w \in VMs \ {v} : vm'[w] = vm[w]
  BY <1>2, LaunchedFacts, Zenon
<1>4. /\ start'[v] = "launched" /\ \A w \in VMs \ {v} : start'[w] = start[w]
      /\ proc'[v] = "up" /\ \A w \in VMs \ {v} : proc'[w] = proc[w]
  BY <1>2
<1>5. Types' BY <1>1, <1>2, <1>3, TypesStep DEF StartPoints, Processes
<1>6. VMInv(v)'
  <2>1. StartMatches(v)' /\ MonMatches(v)'
    BY <1>1, <1>3, <1>4 DEF VMInv, StartMatches, MonMatches, Moving, Going, Fresh, Lost
  <2>2. ObjectMatches(v)' BY <1>1, <1>3, <1>4 DEF VMInv, ObjectMatches, Moving, Going, Fresh, Lost
  <2>3. DiskMatches(v)' /\ DownMatches(v)'
    BY <1>1, <1>3, <1>4 DEF VMInv, DiskMatches, DownMatches, Moving, Going, Fresh, Lost
  <2>4. QED BY <2>1, <2>2, <2>3, Zenon DEF VMInv
<1>7. Elsewhere(v) BY <1>3, <1>4, Zenon DEF Elsewhere
<1>8. Allowed(v) BY <1>3, <1>4 DEF Allowed, Moving, Going
<1>9. QED BY <1>5, <1>6, <1>7, <1>8, LocalIInv, Zenon DEF Local

(* Start kills what it launched and leaves the rest to a monitor. *)
LEMMA StartAbortStep ==
    ASSUME IInv, NEW v \in VMs,
           start[v] \in {"launched", "saved"} /\ vm[v].state \in Going /\ mon[v] = "idle",
           vm[v].pid /\ proc[v] # "none",
           vm' = [vm EXCEPT ![v].explicitStop = TRUE],
           proc' = Killed(v),
           mon' = [mon EXCEPT ![v] = "wait"],
           start' = [start EXCEPT ![v] = "err"],
           UNCHANGED <<up, crashes, reg, disk, stop, restart, api>>
    PROVE  IInv'
<1>1. VMInv(v) /\ Types BY Zenon DEF IInv
<1>2. vm \in Objects /\ start \in [VMs -> StartPoints] /\ mon \in [VMs -> MonPoints] /\ proc \in [VMs -> Processes] BY <1>1 DEF Types
<1>3. /\ vm' \in Objects
      /\ vm'[v].state = vm[v].state /\ vm'[v].closed = vm[v].closed
      /\ vm'[v].pid <=> vm[v].pid
      /\ vm'[v].restarts = vm[v].restarts
      /\ \A w \in VMs \ {v} : vm'[w] = vm[w]
  BY <1>2, MarkedFacts, Zenon
<1>4. /\ proc' \in [VMs -> Processes] /\ proc'[v] # "up"
      /\ proc[v] # "none" => proc'[v] # "none"
      /\ proc[v] # "up" => proc'[v] = proc[v]
      /\ \A w \in VMs \ {v} : proc'[w] = proc[w]
  BY <1>2, KilledFacts
<1>5. /\ start'[v] = "err" /\ \A w \in VMs \ {v} : start'[w] = start[w]
      /\ mon'[v] = "wait" /\ \A w \in VMs \ {v} : mon'[w] = mon[w]
  BY <1>2
<1>6. Types' BY <1>1, <1>2, <1>3, <1>4, TypesStep DEF StartPoints, MonPoints
<1>7. VMInv(v)'
  <2>1. StartMatches(v)' /\ MonMatches(v)'
    BY <1>1, <1>3, <1>4, <1>5 DEF VMInv, StartMatches, MonMatches, Moving, Going, Fresh, Lost
  <2>2. ObjectMatches(v)' BY <1>1, <1>3, <1>4, <1>5 DEF VMInv, ObjectMatches, Moving, Going, Fresh, Lost
  <2>3. DiskMatches(v)' /\ DownMatches(v)'
    BY <1>1, <1>3, <1>4, <1>5 DEF VMInv, DiskMatches, DownMatches, Moving, Going, Fresh, Lost
  <2>4. QED BY <2>1, <2>2, <2>3, Zenon DEF VMInv
<1>8. Elsewhere(v) BY <1>3, <1>4, <1>5, Zenon DEF Elsewhere
<1>9. Allowed(v) BY <1>3, <1>4, <1>5 DEF Allowed, Moving, Going
<1>10. QED BY <1>6, <1>7, <1>8, <1>9, LocalIInv, Zenon DEF Local

(* The VM runs. *)
LEMMA StartRunningStep ==
    ASSUME IInv, NEW v \in VMs,
           start[v] = "launched" /\ vm[v].state = "starting" /\ mon[v] = "idle",
           vm[v].pid /\ proc[v] # "none",
           vm' = Moved(v, "running"),
           start' = [start EXCEPT ![v] = "running"],
           UNCHANGED <<up, crashes, reg, disk, proc, stop, mon, restart, api>>
    PROVE  IInv'
<1>1. VMInv(v) /\ Types BY Zenon DEF IInv
<1>2. vm \in Objects /\ start \in [VMs -> StartPoints] BY <1>1 DEF Types
<1>3. /\ vm' \in Objects
      /\ vm'[v].state = "running" /\ vm'[v].closed = vm[v].closed
      /\ vm'[v].pid <=> vm[v].pid
      /\ vm'[v].restarts = vm[v].restarts
      /\ \A w \in VMs \ {v} : vm'[w] = vm[w]
  BY <1>2, MovedFacts DEF States
<1>4. /\ start'[v] = "running" /\ \A w \in VMs \ {v} : start'[w] = start[w]
  BY <1>2
<1>5. Types' BY <1>1, <1>2, <1>3, TypesStep DEF StartPoints
<1>6. VMInv(v)'
  <2>1. StartMatches(v)' /\ MonMatches(v)'
    BY <1>1, <1>3, <1>4 DEF VMInv, StartMatches, MonMatches, Moving, Going, Fresh, Lost
  <2>2. ObjectMatches(v)' BY <1>1, <1>3, <1>4 DEF VMInv, ObjectMatches, Moving, Going, Fresh, Lost
  <2>3. DiskMatches(v)' /\ DownMatches(v)'
    BY <1>1, <1>3, <1>4 DEF VMInv, DiskMatches, DownMatches, Moving, Going, Fresh, Lost
  <2>4. QED BY <2>1, <2>2, <2>3, Zenon DEF VMInv
<1>7. Elsewhere(v) BY <1>3, <1>4, Zenon DEF Elsewhere
<1>8. Allowed(v) BY <1>3, <1>4 DEF Allowed, Moving, Going
<1>9. QED BY <1>5, <1>6, <1>7, <1>8, LocalIInv, Zenon DEF Local

(* Start saves the VM. *)
LEMMA StartSaveStep ==
    ASSUME IInv, NEW v \in VMs,
           start[v] = "running" /\ vm[v].state \in {"running", "stopping"},
           mon[v] = "idle" /\ vm[v].pid,
           disk' = Saved(v),
           start' = [start EXCEPT ![v] = "saved"],
           UNCHANGED <<up, crashes, vm, reg, proc, stop, mon, restart, api>>
    PROVE  IInv'
<1>1. VMInv(v) /\ Types BY Zenon DEF IInv
<1>2. disk \in [VMs -> Records \cup {NoRecord}] /\ start \in [VMs -> StartPoints] /\ vm \in Objects BY <1>1 DEF Types
<1>3. /\ disk' \in [VMs -> Records \cup {NoRecord}]
      /\ v \in reg => disk'[v].state = vm[v].state
      /\ v \in reg => (disk'[v].pid <=> vm[v].pid)
      /\ v \notin reg => disk'[v] = disk[v]
      /\ \A w \in VMs \ {v} : disk'[w] = disk[w]
  BY <1>2, SavedFacts DEF States
<1>4. /\ start'[v] = "saved" /\ \A w \in VMs \ {v} : start'[w] = start[w]
  BY <1>2
<1>5. Types' BY <1>1, <1>2, <1>3, TypesStep DEF StartPoints
<1>6. VMInv(v)'
  <2>1. StartMatches(v)' /\ MonMatches(v)'
    BY <1>1, <1>3, <1>4 DEF VMInv, StartMatches, MonMatches, Moving, Going, Fresh, Lost
  <2>2. ObjectMatches(v)' BY <1>1, <1>3, <1>4 DEF VMInv, ObjectMatches, Moving, Going, Fresh, Lost
  <2>3. DiskMatches(v)' /\ DownMatches(v)'
    BY <1>1, <1>3, <1>4 DEF VMInv, DiskMatches, DownMatches, Moving, Going, Fresh, Lost
  <2>4. QED BY <2>1, <2>2, <2>3, Zenon DEF VMInv
<1>7. Elsewhere(v) BY <1>3, <1>4, Zenon DEF Elsewhere
<1>8. Allowed(v) BY <1>3, <1>4 DEF Allowed, Moving, Going
<1>9. QED BY <1>5, <1>6, <1>7, <1>8, LocalIInv, Zenon DEF Local

(* Start hands the process over to the monitor. *)
LEMMA StartMonitorStep ==
    ASSUME IInv, NEW v \in VMs,
           start[v] = "saved" /\ vm[v].state \in {"running", "stopping"},
           mon[v] = "idle" /\ proc[v] # "none",
           mon' = [mon EXCEPT ![v] = "wait"],
           start' = [start EXCEPT ![v] = "monitored"],
           UNCHANGED <<up, crashes, vm, reg, disk, proc, stop, restart, api>>
    PROVE  IInv'
<1>1. VMInv(v) /\ Types BY Zenon DEF IInv
<1>2. start \in [VMs -> StartPoints] /\ mon \in [VMs -> MonPoints] BY <1>1 DEF Types
<1>3. /\ start'[v] = "monitored" /\ \A w \in VMs \ {v} : start'[w] = start[w]
      /\ mon'[v] = "wait" /\ \A w \in VMs \ {v} : mon'[w] = mon[w]
  BY <1>2
<1>4. Types' BY <1>1, <1>2, TypesStep DEF StartPoints, MonPoints
<1>5. VMInv(v)'
  <2>1. StartMatches(v)' /\ MonMatches(v)'
    BY <1>1, <1>3 DEF VMInv, StartMatches, MonMatches, Moving, Going, Fresh, Lost
  <2>2. ObjectMatches(v)' BY <1>1, <1>3 DEF VMInv, ObjectMatches, Moving, Going, Fresh, Lost
  <2>3. DiskMatches(v)' /\ DownMatches(v)'
    BY <1>1, <1>3 DEF VMInv, DiskMatches, DownMatches, Moving, Going, Fresh, Lost
  <2>4. QED BY <2>1, <2>2, <2>3, Zenon DEF VMInv
<1>6. Elsewhere(v) BY <1>3, Zenon DEF Elsewhere
<1>7. Allowed(v) BY <1>3 DEF Allowed, Moving, Going
<1>8. QED BY <1>4, <1>5, <1>6, <1>7, LocalIInv, Zenon DEF Local

(* Start returns. *)
LEMMA StartHealthStep ==
    ASSUME IInv, NEW v \in VMs,
           start[v] = "monitored",
           start' = [start EXCEPT ![v] = "ok"],
           UNCHANGED <<up, crashes, vm, reg, disk, proc, stop, mon, restart, api>>
    PROVE  IInv'
<1>1. VMInv(v) /\ Types BY Zenon DEF IInv
<1>2. start \in [VMs -> StartPoints] BY <1>1 DEF Types
<1>3. /\ start'[v] = "ok" /\ \A w \in VMs \ {v} : start'[w] = start[w]
  BY <1>2
<1>4. Types' BY <1>1, <1>2, TypesStep DEF StartPoints
<1>5. VMInv(v)'
  <2>1. StartMatches(v)' /\ MonMatches(v)'
    BY <1>1, <1>3 DEF VMInv, StartMatches, MonMatches, Moving, Going, Fresh, Lost
  <2>2. ObjectMatches(v)' BY <1>1, <1>3 DEF VMInv, ObjectMatches, Moving, Going, Fresh, Lost
  <2>3. DiskMatches(v)' /\ DownMatches(v)'
    BY <1>1, <1>3 DEF VMInv, DiskMatches, DownMatches, Moving, Going, Fresh, Lost
  <2>4. QED BY <2>1, <2>2, <2>3, Zenon DEF VMInv
<1>6. Elsewhere(v) BY <1>3, Zenon DEF Elsewhere
<1>7. Allowed(v) BY <1>3 DEF Allowed, Moving, Going
<1>8. QED BY <1>4, <1>5, <1>6, <1>7, LocalIInv, Zenon DEF Local
=============================================================================
