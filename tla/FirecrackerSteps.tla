-------------------------- MODULE FirecrackerSteps --------------------------
(***************************************************************************)
(* Proofs about FirecrackerManager for every set of VMs, every restart     *)
(* policy and any number of crashes.                                       *)
(*                                                                         *)
(* A claim is never shared or leaked because an operation that takes one   *)
(* sees the VM free and no step of another operation touches it.  That a   *)
(* process is always registered rests on the claims in turn: what Remove   *)
(* found created or stopped cannot be started before it is gone, since     *)
(* Start needs the claim Remove has.                                       *)
(***************************************************************************)
EXTENDS LifecycleClaims, VMCoreProofs

(* Who may have claimed a VM. *)
Claimers == {"none", "start", "stop", "remove", "restart"}

(* The types of the variables the argument needs. *)
Types ==
    /\ up \in BOOLEAN
    /\ vm \in Objects
    /\ reg \subseteq VMs
    /\ disk \in [VMs -> Records \cup {NoRecord}]
    /\ proc \in [VMs -> Processes]
    /\ probes \subseteq VMs
    /\ start \in [VMs -> StartPoints]
    /\ stop \in [VMs -> StopPoints]
    /\ mon \in [VMs -> MonPoints]
    /\ restart \in [VMs -> RestartPoints]
    /\ api \in Calls
    /\ repl \in [VMs -> VMs \cup {NoVM}]
    /\ claims \in [VMs -> Claimers]
    /\ pending \subseteq VMs

(* How far Start is, and what it has made of the VM by then.  Under its claim  *)
(* nobody stops the VM.                                                        *)
StartMatches(v) ==
    /\ start[v] = "idle" => \/ vm[v].state \in {Fresh, Lost, "created", "stopped"}
                            \/ vm[v].state \in Moving /\ mon[v] = "adopt"
    /\ start[v] = "begin" => vm[v].state = "created"
    /\ start[v] = "prep" => vm[v].state = "starting" /\ proc[v] # "up"
    /\ start[v] = "launched" => vm[v].state = "starting"
    /\ start[v] \in {"running", "saved", "monitored"} => vm[v].state = "running"
    /\ start[v] \in {"prep", "launched", "running", "saved", "monitored"} => mon[v] = "idle"
    /\ start[v] = "ok" => \/ vm[v].state \in Moving /\ mon[v] \in {"wait", "exited"}
                          \/ vm[v].state = "stopped"
    /\ start[v] = "err" => \/ vm[v].state \in {"created", "stopped"}
                           \/ vm[v].state \in Going /\ mon[v] \in {"wait", "exited"}

(* What the monitors, restartVM and the health probe know of the VM. *)
MonMatches(v) ==
    /\ mon[v] \in {"wait", "exited"} => vm[v].state \in Going /\ start[v] \in {"ok", "err"}
    /\ mon[v] \in {"exited", "stopped"} => proc[v] # "up"
    /\ mon[v] \in {"stopped", "adoptStopped"} => vm[v].state = "stopped"
    /\ mon[v] = "adopt" => vm[v].state \in Moving /\ start[v] = "idle"
    /\ stop[v] # "idle" => vm[v].state \in {"stopping", "stopped"}
    /\ restart[v] # "idle" => vm[v].state = "stopped" /\ mon[v] = "idle"
    /\ repl[v] # NoVM => restart[v] = "starting"
    /\ v \in probes => /\ start[v] \in {"monitored", "ok"}
                       /\ vm[v].state \in Moving \/ mon[v] = "stopped"

(* What the VM's state says of the process and of the registry. *)
ObjectMatches(v) ==
    /\ vm[v].state \in {Fresh, "created", "stopped"} => proc[v] # "up"
    /\ vm[v].state = Lost /\ up => proc[v] # "up"
    /\ vm[v].state \in {Fresh, Lost} => v \notin reg
    /\ vm[v].state \in Going => v \in reg

(* Without a daemon there is nothing in memory. *)
DownMatches(v) ==
    ~up => /\ vm[v].state \in {Fresh, Lost} /\ start[v] = "idle" /\ stop[v] = "idle"
           /\ mon[v] = "idle" /\ restart[v] = "idle" /\ v \notin reg

(* ClaimsAreHeld for one VM. *)
ClaimMatches(v) ==
    /\ claims[v] = "start" <=>
         start[v] \in {"prep", "launched", "running", "saved", "monitored"}
    /\ claims[v] = "stop" <=> stop[v] # "idle"
    /\ claims[v] = "remove" <=> api.pc = "remove" /\ api.vm = v
    /\ claims[v] = "restart" <=> restart[v] = "starting"
    /\ v \in pending <=> restart[v] # "idle"

Life(v) == StartMatches(v) /\ MonMatches(v) /\ ObjectMatches(v) /\ DownMatches(v)

(* A removal that passed its check goes on with a VM nobody can start. *)
Requests ==
    /\ api.pc # "idle" => api.vm \in VMs /\ up
    /\ api.pc = "remove" => vm[api.vm].state \in {"created", "stopped"}
    /\ api.pc = "replace" => api.old \in VMs

IInv == Types /\ (\A v \in VMs : Life(v) /\ ClaimMatches(v)) /\ Requests

-----------------------------------------------------------------------------
(* What a step on one VM leaves alone: everything of the others, the request   *)
(* that holds resourceMu, and a VM that somebody else has claimed to remove.   *)
Elsewhere(v) ==
    /\ up' = up /\ api' = api
    /\ \A w \in VMs \ {v} :
          /\ vm'[w] = vm[w] /\ proc'[w] = proc[w]
          /\ start'[w] = start[w] /\ stop'[w] = stop[w] /\ mon'[w] = mon[w]
          /\ restart'[w] = restart[w] /\ repl'[w] = repl[w] /\ claims'[w] = claims[w]
          /\ w \in reg' <=> w \in reg
          /\ w \in probes' <=> w \in probes
          /\ w \in pending' <=> w \in pending

Allowed(v) ==
    vm[v].state \in {"created", "stopped"} /\ claims[v] # "none" =>
        vm'[v].state \in {"created", "stopped"}

(* The invariant of a VM reads nothing of the others. *)
LEMMA Frame ==
    ASSUME NEW w \in VMs, Life(w), up' = up,
           vm'[w] = vm[w], proc'[w] = proc[w],
           start'[w] = start[w], stop'[w] = stop[w], mon'[w] = mon[w],
           restart'[w] = restart[w], repl'[w] = repl[w],
           w \in reg' <=> w \in reg, w \in probes' <=> w \in probes
    PROVE  Life(w)'
<1>1. StartMatches(w)' BY DEF Life, StartMatches
<1>2. MonMatches(w)' BY DEF Life, MonMatches
<1>3. ObjectMatches(w)' BY DEF Life, ObjectMatches
<1>4. DownMatches(w)' BY DEF Life, DownMatches
<1>5. QED BY <1>1, <1>2, <1>3, <1>4 DEF Life

(* A variable keeps its type if it is left alone. *)
LEMMA TypesStep ==
    ASSUME Types,
           up' = up \/ up' \in BOOLEAN,
           vm' = vm \/ vm' \in Objects,
           reg' = reg \/ reg' \subseteq VMs,
           disk' = disk \/ disk' \in [VMs -> Records \cup {NoRecord}],
           proc' = proc \/ proc' \in [VMs -> Processes],
           probes' = probes \/ probes' \subseteq VMs,
           start' = start \/ start' \in [VMs -> StartPoints],
           stop' = stop \/ stop' \in [VMs -> StopPoints],
           mon' = mon \/ mon' \in [VMs -> MonPoints],
           restart' = restart \/ restart' \in [VMs -> RestartPoints],
           api' = api \/ api' \in Calls,
           repl' = repl \/ repl' \in [VMs -> VMs \cup {NoVM}],
           claims' = claims \/ claims' \in [VMs -> Claimers],
           pending' = pending \/ pending' \subseteq VMs
    PROVE  Types'
  BY DEF Types

(* A step on one VM that keeps its invariant keeps all of it. *)
LEMMA LocalIInv ==
    ASSUME IInv, NEW v \in VMs, Types', Life(v)', ClaimMatches(v)', Elsewhere(v), Allowed(v)
    PROVE  IInv'
<1>1. ASSUME NEW w \in VMs \ {v} PROVE Life(w)' /\ ClaimMatches(w)'
  <2>1. Life(w) /\ ClaimMatches(w) BY DEF IInv
  <2>2. Life(w)' BY <2>1, Frame DEF Elsewhere
  <2>3. ClaimMatches(w)' BY <2>1 DEF Elsewhere, ClaimMatches
  <2>4. QED BY <2>2, <2>3
<1>2. Requests'
  <2>1. api.pc = "remove" /\ api.vm = v => claims[v] # "none" BY DEF IInv, ClaimMatches
  <2>2. QED BY <2>1 DEF IInv, Requests, Elsewhere, Allowed
<1>3. QED BY <1>1, <1>2 DEF IInv

-----------------------------------------------------------------------------
(* What a step of one VM's goroutines does, and that it keeps the invariant. *)

(* Start takes the claim and moves the VM to starting. *)
LEMMA StartBeginMovesStep ==
    ASSUME IInv, NEW v \in VMs,
           start[v] = "begin" /\ vm[v].state = "created" /\ v \in reg,
           claims[v] = "none" /\ mon[v] = "idle" /\ proc[v] # "up" /\ restart[v] = "idle",
           v \notin probes,
           vm' = Moved(v, "starting"),
           start' = [start EXCEPT ![v] = "prep"],
           claims' = [claims EXCEPT ![v] = "start"],
           UNCHANGED <<up, reg, disk, proc, probes, stop, mon, restart, api, repl, pending>>
    PROVE  IInv'
<1>1. Types /\ Life(v) /\ ClaimMatches(v) BY Zenon DEF IInv
<1>2. vm \in Objects /\ start \in [VMs -> StartPoints] /\ claims \in [VMs -> Claimers]
  BY <1>1 DEF Types
<1>3. /\ vm'[v].state = "starting"
      /\ vm' \in Objects
      /\ \A w \in VMs \ {v} : vm'[w] = vm[w]
  BY <1>2, MovedFacts DEF States
<1>4. /\ start'[v] = "prep"
      /\ \A w \in VMs \ {v} : start'[w] = start[w]
      /\ claims'[v] = "start"
      /\ \A w \in VMs \ {v} : claims'[w] = claims[w]
  BY <1>2
<1>5. Types' BY <1>1, <1>2, <1>3, TypesStep DEF StartPoints, Claimers
<1>6. Life(v)'
  BY <1>1, <1>3, <1>4 DEF Life, StartMatches, MonMatches, ObjectMatches, DownMatches,
     Moving, Going, Fresh, Lost
<1>7. ClaimMatches(v)' BY <1>1, <1>3, <1>4 DEF ClaimMatches
<1>8. Elsewhere(v) /\ Allowed(v) BY <1>3, <1>4 DEF Elsewhere, Allowed, Going
<1>9. QED BY <1>5, <1>6, <1>7, <1>8, LocalIInv, Zenon

(* The VM is busy or gone, or somebody else started it. *)
LEMMA StartBeginRefusedStep ==
    ASSUME IInv, NEW v \in VMs,
           start[v] = "begin" /\ vm[v].state = "created",
           start' = [start EXCEPT ![v] = "err"],
           UNCHANGED <<up, vm, reg, disk, proc, probes, stop, mon, restart, api, repl, claims, pending>>
    PROVE  IInv'
<1>1. Types /\ Life(v) /\ ClaimMatches(v) BY Zenon DEF IInv
<1>2. start \in [VMs -> StartPoints] BY <1>1 DEF Types
<1>3. /\ start'[v] = "err"
      /\ \A w \in VMs \ {v} : start'[w] = start[w]
  BY <1>2
<1>4. Types' BY <1>1, <1>2, TypesStep DEF StartPoints
<1>5. Life(v)'
  BY <1>1, <1>3 DEF Life, StartMatches, MonMatches, ObjectMatches, DownMatches, Moving,
     Going, Fresh, Lost
<1>6. ClaimMatches(v)' BY <1>1, <1>3 DEF ClaimMatches
<1>7. Elsewhere(v) /\ Allowed(v) BY <1>3 DEF Elsewhere, Allowed, Going
<1>8. QED BY <1>4, <1>5, <1>6, <1>7, LocalIInv, Zenon

(* Host preparation, boot disk or launch failed. *)
LEMMA StartFailStep ==
    ASSUME IInv, NEW v \in VMs,
           start[v] = "prep" /\ vm[v].state = "starting" /\ mon[v] = "idle",
           proc[v] # "up" /\ claims[v] = "start" /\ v \notin probes,
           vm' = Moved(v, "stopped"),
           start' = [start EXCEPT ![v] = "err"],
           claims' = [claims EXCEPT ![v] = "none"],
           UNCHANGED <<up, reg, disk, proc, probes, stop, mon, restart, api, repl, pending>>
    PROVE  IInv'
<1>1. Types /\ Life(v) /\ ClaimMatches(v) BY Zenon DEF IInv
<1>2. vm \in Objects /\ start \in [VMs -> StartPoints] /\ claims \in [VMs -> Claimers]
  BY <1>1 DEF Types
<1>3. /\ vm'[v].state = "stopped"
      /\ vm' \in Objects
      /\ \A w \in VMs \ {v} : vm'[w] = vm[w]
  BY <1>2, MovedFacts DEF States
<1>4. /\ start'[v] = "err"
      /\ \A w \in VMs \ {v} : start'[w] = start[w]
      /\ claims'[v] = "none"
      /\ \A w \in VMs \ {v} : claims'[w] = claims[w]
  BY <1>2
<1>5. Types' BY <1>1, <1>2, <1>3, TypesStep DEF StartPoints, Claimers
<1>6. Life(v)'
  BY <1>1, <1>3, <1>4 DEF Life, StartMatches, MonMatches, ObjectMatches, DownMatches,
     Moving, Going, Fresh, Lost
<1>7. ClaimMatches(v)' BY <1>1, <1>3, <1>4 DEF ClaimMatches
<1>8. Elsewhere(v) /\ Allowed(v) BY <1>3, <1>4 DEF Elsewhere, Allowed, Going
<1>9. QED BY <1>5, <1>6, <1>7, <1>8, LocalIInv, Zenon

(* The hypervisor is launched. *)
LEMMA StartLaunchStep ==
    ASSUME IInv, NEW v \in VMs,
           start[v] = "prep" /\ vm[v].state = "starting" /\ mon[v] = "idle",
           claims[v] = "start",
           vm' = [vm EXCEPT ![v].pid = TRUE],
           proc' = [proc EXCEPT ![v] = "up"],
           start' = [start EXCEPT ![v] = "launched"],
           UNCHANGED <<up, reg, disk, probes, stop, mon, restart, api, repl, claims, pending>>
    PROVE  IInv'
<1>1. Types /\ Life(v) /\ ClaimMatches(v) BY Zenon DEF IInv
<1>2. vm \in Objects /\ proc \in [VMs -> Processes] /\ start \in [VMs -> StartPoints]
  BY <1>1 DEF Types
<1>3. /\ vm'[v].state = vm[v].state
      /\ vm' \in Objects
      /\ \A w \in VMs \ {v} : vm'[w] = vm[w]
  BY <1>2, LaunchedFacts, Zenon DEF States
<1>4. /\ proc'[v] = "up"
      /\ \A w \in VMs \ {v} : proc'[w] = proc[w]
      /\ start'[v] = "launched"
      /\ \A w \in VMs \ {v} : start'[w] = start[w]
  BY <1>2
<1>5. Types' BY <1>1, <1>2, <1>3, TypesStep DEF Processes, StartPoints
<1>6. Life(v)'
  BY <1>1, <1>3, <1>4 DEF Life, StartMatches, MonMatches, ObjectMatches, DownMatches,
     Moving, Going, Fresh, Lost
<1>7. ClaimMatches(v)' BY <1>1, <1>3, <1>4 DEF ClaimMatches
<1>8. Elsewhere(v) /\ Allowed(v) BY <1>3, <1>4 DEF Elsewhere, Allowed, Going
<1>9. QED BY <1>5, <1>6, <1>7, <1>8, LocalIInv, Zenon

(* Start kills what it launched and leaves the rest to a monitor. *)
LEMMA StartAbortStep ==
    ASSUME IInv, NEW v \in VMs,
           start[v] \in {"launched", "saved"} /\ vm[v].state \in Going /\ mon[v] = "idle",
           claims[v] = "start" /\ v \notin probes,
           vm' = [vm EXCEPT ![v].explicitStop = TRUE],
           proc' = Killed(v),
           mon' = [mon EXCEPT ![v] = "wait"],
           start' = [start EXCEPT ![v] = "err"],
           claims' = [claims EXCEPT ![v] = "none"],
           UNCHANGED <<up, reg, disk, probes, stop, restart, api, repl, pending>>
    PROVE  IInv'
<1>1. Types /\ Life(v) /\ ClaimMatches(v) BY Zenon DEF IInv
<1>2. vm \in Objects /\ proc \in [VMs -> Processes] /\ mon \in [VMs -> MonPoints] /\ start \in [VMs -> StartPoints] /\ claims \in [VMs -> Claimers]
  BY <1>1 DEF Types
<1>3. /\ vm'[v].state = vm[v].state
      /\ vm' \in Objects
      /\ \A w \in VMs \ {v} : vm'[w] = vm[w]
  BY <1>2, MarkedFacts, Zenon DEF States
<1>4. /\ proc' \in [VMs -> Processes]
      /\ proc'[v] # "up"
      /\ \A w \in VMs \ {v} : proc'[w] = proc[w]
  BY <1>2, KilledFacts
<1>5. /\ mon'[v] = "wait"
      /\ \A w \in VMs \ {v} : mon'[w] = mon[w]
      /\ start'[v] = "err"
      /\ \A w \in VMs \ {v} : start'[w] = start[w]
      /\ claims'[v] = "none"
      /\ \A w \in VMs \ {v} : claims'[w] = claims[w]
  BY <1>2
<1>6. Types' BY <1>1, <1>2, <1>3, <1>4, TypesStep DEF MonPoints, StartPoints, Claimers
<1>7. Life(v)'
  BY <1>1, <1>3, <1>4, <1>5 DEF Life, StartMatches, MonMatches, ObjectMatches,
     DownMatches, Moving, Going, Fresh, Lost
<1>8. ClaimMatches(v)' BY <1>1, <1>3, <1>4, <1>5 DEF ClaimMatches
<1>9. Elsewhere(v) /\ Allowed(v) BY <1>3, <1>4, <1>5 DEF Elsewhere, Allowed, Going
<1>10. QED BY <1>6, <1>7, <1>8, <1>9, LocalIInv, Zenon

(* The VM runs. *)
LEMMA StartRunningStep ==
    ASSUME IInv, NEW v \in VMs,
           start[v] = "launched" /\ vm[v].state = "starting" /\ mon[v] = "idle",
           v \in reg /\ v \notin probes,
           vm' = Moved(v, "running"),
           start' = [start EXCEPT ![v] = "running"],
           UNCHANGED <<up, reg, disk, proc, probes, stop, mon, restart, api, repl, claims, pending>>
    PROVE  IInv'
<1>1. Types /\ Life(v) /\ ClaimMatches(v) BY Zenon DEF IInv
<1>2. vm \in Objects /\ start \in [VMs -> StartPoints] BY <1>1 DEF Types
<1>3. /\ vm'[v].state = "running"
      /\ vm' \in Objects
      /\ \A w \in VMs \ {v} : vm'[w] = vm[w]
  BY <1>2, MovedFacts DEF States
<1>4. /\ start'[v] = "running"
      /\ \A w \in VMs \ {v} : start'[w] = start[w]
  BY <1>2
<1>5. Types' BY <1>1, <1>2, <1>3, TypesStep DEF StartPoints
<1>6. Life(v)'
  BY <1>1, <1>3, <1>4 DEF Life, StartMatches, MonMatches, ObjectMatches, DownMatches,
     Moving, Going, Fresh, Lost
<1>7. ClaimMatches(v)' BY <1>1, <1>3, <1>4 DEF ClaimMatches
<1>8. Elsewhere(v) /\ Allowed(v) BY <1>3, <1>4 DEF Elsewhere, Allowed, Going
<1>9. QED BY <1>5, <1>6, <1>7, <1>8, LocalIInv, Zenon

(* Start saves the VM. *)
LEMMA StartSaveStep ==
    ASSUME IInv, NEW v \in VMs,
           start[v] = "running" /\ vm[v].state = "running" /\ mon[v] = "idle",
           vm[v].state \in States,
           disk' = Saved(v),
           start' = [start EXCEPT ![v] = "saved"],
           UNCHANGED <<up, vm, reg, proc, probes, stop, mon, restart, api, repl, claims, pending>>
    PROVE  IInv'
<1>1. Types /\ Life(v) /\ ClaimMatches(v) BY Zenon DEF IInv
<1>2. disk \in [VMs -> Records \cup {NoRecord}] /\ start \in [VMs -> StartPoints] /\ vm \in Objects
  BY <1>1 DEF Types
<1>3. /\ disk' \in [VMs -> Records \cup {NoRecord}]
  BY <1>2, SavedFacts DEF States
<1>4. /\ start'[v] = "saved"
      /\ \A w \in VMs \ {v} : start'[w] = start[w]
  BY <1>2
<1>5. Types' BY <1>1, <1>2, <1>3, TypesStep DEF StartPoints
<1>6. Life(v)'
  BY <1>1, <1>3, <1>4 DEF Life, StartMatches, MonMatches, ObjectMatches, DownMatches,
     Moving, Going, Fresh, Lost
<1>7. ClaimMatches(v)' BY <1>1, <1>3, <1>4 DEF ClaimMatches
<1>8. Elsewhere(v) /\ Allowed(v) BY <1>3, <1>4 DEF Elsewhere, Allowed, Going
<1>9. QED BY <1>5, <1>6, <1>7, <1>8, LocalIInv, Zenon

(* Start registers the health probe. *)
LEMMA StartHealthStep ==
    ASSUME IInv, NEW v \in VMs,
           start[v] = "saved" /\ vm[v].state = "running" /\ mon[v] = "idle",
           probes' = probes \cup {v},
           start' = [start EXCEPT ![v] = "monitored"],
           UNCHANGED <<up, vm, reg, disk, proc, stop, mon, restart, api, repl, claims, pending>>
    PROVE  IInv'
<1>1. Types /\ Life(v) /\ ClaimMatches(v) BY Zenon DEF IInv
<1>2. probes \subseteq VMs /\ start \in [VMs -> StartPoints] BY <1>1 DEF Types
<1>3. /\ v \in probes'
      /\ \A w \in VMs \ {v} : w \in probes' <=> w \in probes
      /\ start'[v] = "monitored"
      /\ \A w \in VMs \ {v} : start'[w] = start[w]
  BY <1>2
<1>4. Types' BY <1>1, <1>2, TypesStep DEF StartPoints
<1>5. Life(v)'
  BY <1>1, <1>3 DEF Life, StartMatches, MonMatches, ObjectMatches, DownMatches, Moving,
     Going, Fresh, Lost
<1>6. ClaimMatches(v)' BY <1>1, <1>3 DEF ClaimMatches
<1>7. Elsewhere(v) /\ Allowed(v) BY <1>3 DEF Elsewhere, Allowed, Going
<1>8. QED BY <1>4, <1>5, <1>6, <1>7, LocalIInv, Zenon

(* Start hands the process over to the monitor and returns. *)
LEMMA StartMonitorStep ==
    ASSUME IInv, NEW v \in VMs,
           start[v] = "monitored" /\ vm[v].state = "running" /\ mon[v] = "idle",
           claims[v] = "start",
           mon' = [mon EXCEPT ![v] = "wait"],
           start' = [start EXCEPT ![v] = "ok"],
           claims' = [claims EXCEPT ![v] = "none"],
           UNCHANGED <<up, vm, reg, disk, proc, probes, stop, restart, api, repl, pending>>
    PROVE  IInv'
<1>1. Types /\ Life(v) /\ ClaimMatches(v) BY Zenon DEF IInv
<1>2. mon \in [VMs -> MonPoints] /\ start \in [VMs -> StartPoints] /\ claims \in [VMs -> Claimers]
  BY <1>1 DEF Types
<1>3. /\ mon'[v] = "wait"
      /\ \A w \in VMs \ {v} : mon'[w] = mon[w]
      /\ start'[v] = "ok"
      /\ \A w \in VMs \ {v} : start'[w] = start[w]
      /\ claims'[v] = "none"
      /\ \A w \in VMs \ {v} : claims'[w] = claims[w]
  BY <1>2
<1>4. Types' BY <1>1, <1>2, TypesStep DEF MonPoints, StartPoints, Claimers
<1>5. Life(v)'
  BY <1>1, <1>3 DEF Life, StartMatches, MonMatches, ObjectMatches, DownMatches, Moving,
     Going, Fresh, Lost
<1>6. ClaimMatches(v)' BY <1>1, <1>3 DEF ClaimMatches
<1>7. Elsewhere(v) /\ Allowed(v) BY <1>3 DEF Elsewhere, Allowed, Going
<1>8. QED BY <1>4, <1>5, <1>6, <1>7, LocalIInv, Zenon

(* Stop or Kill is accepted. *)
LEMMA StopAcceptStep ==
    ASSUME IInv, NEW v \in VMs,
           up /\ v \in reg /\ vm[v].state = "running",
           claims[v] = "none" /\ start[v] \in {"idle", "ok", "err"},
           vm' = Moved(v, "stopping"),
           stop' = [stop EXCEPT ![v] = "accepted"],
           claims' = [claims EXCEPT ![v] = "stop"],
           UNCHANGED <<up, reg, disk, proc, probes, start, mon, restart, api, repl, pending>>
    PROVE  IInv'
<1>1. Types /\ Life(v) /\ ClaimMatches(v) BY Zenon DEF IInv
<1>2. vm \in Objects /\ stop \in [VMs -> StopPoints] /\ claims \in [VMs -> Claimers]
  BY <1>1 DEF Types
<1>3. /\ vm'[v].state = "stopping"
      /\ vm' \in Objects
      /\ \A w \in VMs \ {v} : vm'[w] = vm[w]
  BY <1>2, MovedFacts DEF States
<1>4. /\ stop'[v] = "accepted"
      /\ \A w \in VMs \ {v} : stop'[w] = stop[w]
      /\ claims'[v] = "stop"
      /\ \A w \in VMs \ {v} : claims'[w] = claims[w]
  BY <1>2
<1>5. Types' BY <1>1, <1>2, <1>3, TypesStep DEF StopPoints, Claimers
<1>6. Life(v)'
  BY <1>1, <1>3, <1>4 DEF Life, StartMatches, MonMatches, ObjectMatches, DownMatches,
     Moving, Going, Fresh, Lost
<1>7. ClaimMatches(v)' BY <1>1, <1>3, <1>4 DEF ClaimMatches
<1>8. Elsewhere(v) /\ Allowed(v) BY <1>3, <1>4 DEF Elsewhere, Allowed, Going
<1>9. QED BY <1>5, <1>6, <1>7, <1>8, LocalIInv, Zenon

(* Stop saves the VM and takes the probe down. *)
LEMMA StopQuietStep ==
    ASSUME IInv, NEW v \in VMs,
           stop[v] = "accepted" /\ claims[v] = "stop",
           vm[v].state \in {"stopping", "stopped"},
           disk' = Saved(v),
           probes' = probes \ {v},
           stop' = [stop EXCEPT ![v] = "quiet"],
           UNCHANGED <<up, vm, reg, proc, start, mon, restart, api, repl, claims, pending>>
    PROVE  IInv'
<1>1. Types /\ Life(v) /\ ClaimMatches(v) BY Zenon DEF IInv
<1>2. disk \in [VMs -> Records \cup {NoRecord}] /\ probes \subseteq VMs /\ stop \in [VMs -> StopPoints] /\ vm \in Objects
  BY <1>1 DEF Types
<1>3. /\ disk' \in [VMs -> Records \cup {NoRecord}]
  BY <1>2, SavedFacts DEF States
<1>4. /\ v \notin probes'
      /\ \A w \in VMs \ {v} : w \in probes' <=> w \in probes
      /\ stop'[v] = "quiet"
      /\ \A w \in VMs \ {v} : stop'[w] = stop[w]
  BY <1>2
<1>5. Types' BY <1>1, <1>2, <1>3, TypesStep DEF StopPoints
<1>6. Life(v)'
  BY <1>1, <1>3, <1>4 DEF Life, StartMatches, MonMatches, ObjectMatches, DownMatches,
     Moving, Going, Fresh, Lost
<1>7. ClaimMatches(v)' BY <1>1, <1>3, <1>4 DEF ClaimMatches
<1>8. Elsewhere(v) /\ Allowed(v) BY <1>3, <1>4 DEF Elsewhere, Allowed, Going
<1>9. QED BY <1>5, <1>6, <1>7, <1>8, LocalIInv, Zenon

(* Stop marks the VM. *)
LEMMA StopMarkStep ==
    ASSUME IInv, NEW v \in VMs,
           stop[v] = "quiet" /\ claims[v] = "stop",
           vm' = [vm EXCEPT ![v].explicitStop = TRUE],
           stop' = [stop EXCEPT ![v] = "marked"],
           UNCHANGED <<up, reg, disk, proc, probes, start, mon, restart, api, repl, claims, pending>>
    PROVE  IInv'
<1>1. Types /\ Life(v) /\ ClaimMatches(v) BY Zenon DEF IInv
<1>2. vm \in Objects /\ stop \in [VMs -> StopPoints] BY <1>1 DEF Types
<1>3. /\ vm'[v].state = vm[v].state
      /\ vm' \in Objects
      /\ \A w \in VMs \ {v} : vm'[w] = vm[w]
  BY <1>2, MarkedFacts, Zenon DEF States
<1>4. /\ stop'[v] = "marked"
      /\ \A w \in VMs \ {v} : stop'[w] = stop[w]
  BY <1>2
<1>5. Types' BY <1>1, <1>2, <1>3, TypesStep DEF StopPoints
<1>6. Life(v)'
  BY <1>1, <1>3, <1>4 DEF Life, StartMatches, MonMatches, ObjectMatches, DownMatches,
     Moving, Going, Fresh, Lost
<1>7. ClaimMatches(v)' BY <1>1, <1>3, <1>4 DEF ClaimMatches
<1>8. Elsewhere(v) /\ Allowed(v) BY <1>3, <1>4 DEF Elsewhere, Allowed, Going
<1>9. QED BY <1>5, <1>6, <1>7, <1>8, LocalIInv, Zenon

(* Stop kills the process, or finds it gone. *)
LEMMA StopEndStep ==
    ASSUME IInv, NEW v \in VMs,
           stop[v] = "marked" /\ claims[v] = "stop",
           proc' = Killed(v),
           stop' = [stop EXCEPT ![v] = "idle"],
           claims' = [claims EXCEPT ![v] = "none"],
           UNCHANGED <<up, vm, reg, disk, probes, start, mon, restart, api, repl, pending>>
    PROVE  IInv'
<1>1. Types /\ Life(v) /\ ClaimMatches(v) BY Zenon DEF IInv
<1>2. proc \in [VMs -> Processes] /\ stop \in [VMs -> StopPoints] /\ claims \in [VMs -> Claimers]
  BY <1>1 DEF Types
<1>3. /\ proc' \in [VMs -> Processes]
      /\ proc'[v] # "up"
      /\ \A w \in VMs \ {v} : proc'[w] = proc[w]
  BY <1>2, KilledFacts DEF States
<1>4. /\ stop'[v] = "idle"
      /\ \A w \in VMs \ {v} : stop'[w] = stop[w]
      /\ claims'[v] = "none"
      /\ \A w \in VMs \ {v} : claims'[w] = claims[w]
  BY <1>2
<1>5. Types' BY <1>1, <1>2, <1>3, TypesStep DEF StopPoints, Claimers
<1>6. Life(v)'
  BY <1>1, <1>3, <1>4 DEF Life, StartMatches, MonMatches, ObjectMatches, DownMatches,
     Moving, Going, Fresh, Lost
<1>7. ClaimMatches(v)' BY <1>1, <1>3, <1>4 DEF ClaimMatches
<1>8. Elsewhere(v) /\ Allowed(v) BY <1>3, <1>4 DEF Elsewhere, Allowed, Going
<1>9. QED BY <1>5, <1>6, <1>7, <1>8, LocalIInv, Zenon

(* The guest exits by itself. *)
LEMMA GuestExitStep ==
    ASSUME IInv, NEW v \in VMs, NEW how \in Exits,
           proc[v] = "up" /\ how \in {"ok", "failed"},
           proc' = [proc EXCEPT ![v] = how],
           UNCHANGED <<up, vm, reg, disk, probes, start, stop, mon, restart, api, repl, claims, pending>>
    PROVE  IInv'
<1>1. Types /\ Life(v) /\ ClaimMatches(v) BY Zenon DEF IInv
<1>2. proc \in [VMs -> Processes] BY <1>1 DEF Types
<1>3. /\ proc'[v] = how
      /\ \A w \in VMs \ {v} : proc'[w] = proc[w]
  BY <1>2
<1>4. Types' BY <1>1, <1>2, TypesStep DEF Processes
<1>5. Life(v)'
  BY <1>1, <1>3 DEF Life, StartMatches, MonMatches, ObjectMatches, DownMatches, Moving,
     Going, Fresh, Lost
<1>6. ClaimMatches(v)' BY <1>1, <1>3 DEF ClaimMatches
<1>7. Elsewhere(v) /\ Allowed(v) BY <1>3 DEF Elsewhere, Allowed, Going
<1>8. QED BY <1>4, <1>5, <1>6, <1>7, LocalIInv, Zenon

(* The monitor sees the exit. *)
LEMMA MonitorExitStep ==
    ASSUME IInv, NEW v \in VMs,
           mon[v] = "wait" /\ proc[v] # "up" /\ vm[v].state \in Going,
           mon' = [mon EXCEPT ![v] = "exited"],
           UNCHANGED <<up, vm, reg, disk, proc, probes, start, stop, restart, api, repl, claims, pending>>
    PROVE  IInv'
<1>1. Types /\ Life(v) /\ ClaimMatches(v) BY Zenon DEF IInv
<1>2. mon \in [VMs -> MonPoints] BY <1>1 DEF Types
<1>3. /\ mon'[v] = "exited"
      /\ \A w \in VMs \ {v} : mon'[w] = mon[w]
  BY <1>2
<1>4. Types' BY <1>1, <1>2, TypesStep DEF MonPoints
<1>5. Life(v)'
  BY <1>1, <1>3 DEF Life, StartMatches, MonMatches, ObjectMatches, DownMatches, Moving,
     Going, Fresh, Lost
<1>6. ClaimMatches(v)' BY <1>1, <1>3 DEF ClaimMatches
<1>7. Elsewhere(v) /\ Allowed(v) BY <1>3 DEF Elsewhere, Allowed, Going
<1>8. QED BY <1>4, <1>5, <1>6, <1>7, LocalIInv, Zenon

(* The monitor stops the VM. *)
LEMMA MonitorStoppedStep ==
    ASSUME IInv, NEW v \in VMs,
           mon[v] = "exited" /\ vm[v].state \in Going /\ proc[v] # "up",
           start[v] \in {"ok", "err"},
           vm' = Moved(v, "stopped"),
           mon' = [mon EXCEPT ![v] = "stopped"],
           UNCHANGED <<up, reg, disk, proc, probes, start, stop, restart, api, repl, claims, pending>>
    PROVE  IInv'
<1>1. Types /\ Life(v) /\ ClaimMatches(v) BY Zenon DEF IInv
<1>2. vm \in Objects /\ mon \in [VMs -> MonPoints] BY <1>1 DEF Types
<1>3. /\ vm'[v].state = "stopped"
      /\ vm' \in Objects
      /\ \A w \in VMs \ {v} : vm'[w] = vm[w]
  BY <1>2, MovedFacts DEF States
<1>4. /\ mon'[v] = "stopped"
      /\ \A w \in VMs \ {v} : mon'[w] = mon[w]
  BY <1>2
<1>5. Types' BY <1>1, <1>2, <1>3, TypesStep DEF MonPoints
<1>6. Life(v)'
  BY <1>1, <1>3, <1>4 DEF Life, StartMatches, MonMatches, ObjectMatches, DownMatches,
     Moving, Going, Fresh, Lost
<1>7. ClaimMatches(v)' BY <1>1, <1>3, <1>4 DEF ClaimMatches
<1>8. Elsewhere(v) /\ Allowed(v) BY <1>3, <1>4 DEF Elsewhere, Allowed, Going
<1>9. QED BY <1>5, <1>6, <1>7, <1>8, LocalIInv, Zenon

(* The monitor saves the VM, takes the probe down and decides about a restart. *)
LEMMA MonitorDoneStep ==
    ASSUME IInv, NEW v \in VMs,
           mon[v] = "stopped" /\ vm[v].state = "stopped" /\ restart[v] = "idle" /\ repl[v] = NoVM,
           v \notin pending /\ claims[v] # "restart",
           disk' = Saved(v),
           probes' = probes \ {v},
           mon' = [mon EXCEPT ![v] = "idle"],
           \/ pending' = pending \cup {v} /\ restart' = [restart EXCEPT ![v] = "backoff"]
           \/ pending' = pending /\ restart' = [restart EXCEPT ![v] = "idle"],
           UNCHANGED <<up, vm, reg, proc, start, stop, api, repl, claims>>
    PROVE  IInv'
<1>1. Types /\ Life(v) /\ ClaimMatches(v) BY Zenon DEF IInv
<1>2. disk \in [VMs -> Records \cup {NoRecord}] /\ probes \subseteq VMs /\ mon \in [VMs -> MonPoints] /\ pending \subseteq VMs /\ restart \in [VMs -> RestartPoints] /\ vm \in Objects
  BY <1>1 DEF Types
<1>3. /\ disk' \in [VMs -> Records \cup {NoRecord}]
  BY <1>2, SavedFacts DEF States
<1>4. /\ v \notin probes'
      /\ \A w \in VMs \ {v} : w \in probes' <=> w \in probes
      /\ mon'[v] = "idle"
      /\ \A w \in VMs \ {v} : mon'[w] = mon[w]
      /\ restart'[v] # "starting"
      /\ v \in pending' <=> restart'[v] # "idle"
      /\ \A w \in VMs \ {v} : restart'[w] = restart[w] /\ (w \in pending' <=> w \in pending)
  BY <1>2
<1>5. Types' BY <1>1, <1>2, <1>3, TypesStep DEF MonPoints, RestartPoints
<1>6. Life(v)'
  BY <1>1, <1>3, <1>4 DEF Life, StartMatches, MonMatches, ObjectMatches, DownMatches,
     Moving, Going, Fresh, Lost
<1>7. ClaimMatches(v)' BY <1>1, <1>3, <1>4 DEF ClaimMatches
<1>8. Elsewhere(v) /\ Allowed(v) BY <1>3, <1>4 DEF Elsewhere, Allowed, Going
<1>9. QED BY <1>5, <1>6, <1>7, <1>8, LocalIInv, Zenon

(* The monitor of an adopted VM finds the process gone. *)
LEMMA AdoptExitStep ==
    ASSUME IInv, NEW v \in VMs,
           mon[v] = "adopt" /\ vm[v].state \in Moving /\ start[v] = "idle" /\ proc[v] # "up",
           vm[v].state \in Going,
           vm' = Moved(v, "stopped"),
           mon' = [mon EXCEPT ![v] = "adoptStopped"],
           UNCHANGED <<up, reg, disk, proc, probes, start, stop, restart, api, repl, claims, pending>>
    PROVE  IInv'
<1>1. Types /\ Life(v) /\ ClaimMatches(v) BY Zenon DEF IInv
<1>2. vm \in Objects /\ mon \in [VMs -> MonPoints] BY <1>1 DEF Types
<1>3. /\ vm'[v].state = "stopped"
      /\ vm' \in Objects
      /\ \A w \in VMs \ {v} : vm'[w] = vm[w]
  BY <1>2, MovedFacts DEF States
<1>4. /\ mon'[v] = "adoptStopped"
      /\ \A w \in VMs \ {v} : mon'[w] = mon[w]
  BY <1>2
<1>5. Types' BY <1>1, <1>2, <1>3, TypesStep DEF MonPoints
<1>6. Life(v)'
  BY <1>1, <1>3, <1>4 DEF Life, StartMatches, MonMatches, ObjectMatches, DownMatches,
     Moving, Going, Fresh, Lost
<1>7. ClaimMatches(v)' BY <1>1, <1>3, <1>4 DEF ClaimMatches
<1>8. Elsewhere(v) /\ Allowed(v) BY <1>3, <1>4 DEF Elsewhere, Allowed, Going
<1>9. QED BY <1>5, <1>6, <1>7, <1>8, LocalIInv, Zenon

(* The monitor of an adopted VM saves it. *)
LEMMA AdoptSaveStep ==
    ASSUME IInv, NEW v \in VMs,
           mon[v] = "adoptStopped" /\ vm[v].state = "stopped",
           disk' = Saved(v),
           mon' = [mon EXCEPT ![v] = "idle"],
           UNCHANGED <<up, vm, reg, proc, probes, start, stop, restart, api, repl, claims, pending>>
    PROVE  IInv'
<1>1. Types /\ Life(v) /\ ClaimMatches(v) BY Zenon DEF IInv
<1>2. disk \in [VMs -> Records \cup {NoRecord}] /\ mon \in [VMs -> MonPoints] /\ vm \in Objects
  BY <1>1 DEF Types
<1>3. /\ disk' \in [VMs -> Records \cup {NoRecord}]
  BY <1>2, SavedFacts DEF States
<1>4. /\ mon'[v] = "idle"
      /\ \A w \in VMs \ {v} : mon'[w] = mon[w]
  BY <1>2
<1>5. Types' BY <1>1, <1>2, <1>3, TypesStep DEF MonPoints
<1>6. Life(v)'
  BY <1>1, <1>3, <1>4 DEF Life, StartMatches, MonMatches, ObjectMatches, DownMatches,
     Moving, Going, Fresh, Lost
<1>7. ClaimMatches(v)' BY <1>1, <1>3, <1>4 DEF ClaimMatches
<1>8. Elsewhere(v) /\ Allowed(v) BY <1>3, <1>4 DEF Elsewhere, Allowed, Going
<1>9. QED BY <1>5, <1>6, <1>7, <1>8, LocalIInv, Zenon

(* restartVM gives up before it created a replacement. *)
LEMMA RestartSkipStep ==
    ASSUME IInv, NEW v \in VMs,
           restart[v] = "backoff" /\ repl[v] = NoVM,
           restart' = [restart EXCEPT ![v] = "idle"],
           pending' = pending \ {v},
           UNCHANGED <<up, vm, reg, disk, proc, probes, start, stop, mon, api, repl, claims>>
    PROVE  IInv'
<1>1. Types /\ Life(v) /\ ClaimMatches(v) BY Zenon DEF IInv
<1>2. restart \in [VMs -> RestartPoints] /\ pending \subseteq VMs BY <1>1 DEF Types
<1>3. /\ restart'[v] = "idle"
      /\ \A w \in VMs \ {v} : restart'[w] = restart[w]
      /\ v \notin pending'
      /\ \A w \in VMs \ {v} : w \in pending' <=> w \in pending
  BY <1>2
<1>4. Types' BY <1>1, <1>2, TypesStep DEF RestartPoints
<1>5. Life(v)'
  BY <1>1, <1>3 DEF Life, StartMatches, MonMatches, ObjectMatches, DownMatches, Moving,
     Going, Fresh, Lost
<1>6. ClaimMatches(v)' BY <1>1, <1>3 DEF ClaimMatches
<1>7. Elsewhere(v) /\ Allowed(v) BY <1>3 DEF Elsewhere, Allowed, Going
<1>8. QED BY <1>4, <1>5, <1>6, <1>7, LocalIInv, Zenon

(* restartVM takes the old VM, which is stopped, out of the store. *)
LEMMA RestartDoneStep ==
    ASSUME IInv, NEW v \in VMs,
           restart[v] = "starting" /\ vm[v].state = "stopped" /\ claims[v] = "restart",
           restart' = [restart EXCEPT ![v] = "idle"] /\ repl' = [repl EXCEPT ![v] = NoVM],
           claims' = [claims EXCEPT ![v] = "none"] /\ pending' = pending \ {v},
           UNCHANGED <<up, vm, proc, probes, start, stop, mon, api>>,
           Dropped(v) \/ UNCHANGED <<reg, disk>>
    PROVE  IInv'
<1>1. Types /\ Life(v) /\ ClaimMatches(v) BY Zenon DEF IInv
<1>2. /\ restart \in [VMs -> RestartPoints] /\ repl \in [VMs -> VMs \cup {NoVM}]
      /\ claims \in [VMs -> Claimers] /\ pending \subseteq VMs
      /\ disk \in [VMs -> Records \cup {NoRecord}] /\ reg \subseteq VMs
  BY <1>1 DEF Types
<1>3. /\ disk' \in [VMs -> Records \cup {NoRecord}] /\ reg' \subseteq VMs
      /\ v \in reg' => v \in reg
      /\ \A w \in VMs \ {v} : w \in reg' <=> w \in reg
  BY <1>2 DEF Dropped
<1>4. /\ restart'[v] = "idle" /\ repl'[v] = NoVM /\ claims'[v] = "none" /\ v \notin pending'
      /\ \A w \in VMs \ {v} : /\ restart'[w] = restart[w] /\ repl'[w] = repl[w]
                              /\ claims'[w] = claims[w] /\ (w \in pending' <=> w \in pending)
  BY <1>2
<1>5. Types' BY <1>1, <1>2, <1>3, TypesStep DEF RestartPoints, Claimers
<1>6. Life(v)'
  BY <1>1, <1>3, <1>4 DEF Life, StartMatches, MonMatches, ObjectMatches,
     DownMatches, Going, Fresh, Lost
<1>7. ClaimMatches(v)' BY <1>1, <1>4 DEF ClaimMatches
<1>8. Elsewhere(v) /\ Allowed(v) BY <1>3, <1>4 DEF Elsewhere, Allowed
<1>9. QED BY <1>5, <1>6, <1>7, <1>8, LocalIInv, Zenon

-----------------------------------------------------------------------------
(* FileStore.Create.  Nobody has to do with the VM it is given. *)
LEMMA CreatedFacts ==
    ASSUME IInv, NEW v \in VMs, NEW n \in Nat, Created(v, n)
    PROVE  /\ vm[v].state = Fresh /\ v \notin reg /\ v \notin probes /\ proc[v] # "up"
           /\ start[v] = "idle" /\ stop[v] = "idle" /\ mon[v] = "idle"
           /\ restart[v] = "idle" /\ repl[v] = NoVM
           /\ vm' \in Objects /\ disk' \in [VMs -> Records \cup {NoRecord}]
           /\ vm'[v].state = "created" /\ reg' = reg \cup {v}
           /\ \A w \in VMs \ {v} : vm'[w] = vm[w] /\ (w \in reg' <=> w \in reg)
<1>1. Types /\ Life(v) BY DEF IInv
<1>2. vm[v].state = Fresh BY DEF Created
<1>3. /\ v \notin reg /\ v \notin probes /\ proc[v] # "up"
      /\ start[v] = "idle" /\ stop[v] = "idle" /\ mon[v] = "idle"
      /\ restart[v] = "idle" /\ repl[v] = NoVM
  <2>1. stop \in [VMs -> StopPoints] /\ mon \in [VMs -> MonPoints] BY <1>1 DEF Types
  <2>2. start \in [VMs -> StartPoints] /\ restart \in [VMs -> RestartPoints] BY <1>1 DEF Types
  <2>3. QED
    BY <1>1, <1>2, <2>1, <2>2 DEF Life, StartMatches, MonMatches, ObjectMatches, Moving, Going,
       Fresh, StopPoints, MonPoints, StartPoints, RestartPoints
<1>4. vm' = [vm EXCEPT ![v] = Object("created", 0, n)] /\ reg' = reg \cup {v} BY DEF Created
<1>5. Object("created", 0, n) \in [state : States \cup {Fresh, Lost}, explicitStop : BOOLEAN,
                                   closed : Nat, pid : BOOLEAN, restarts : Nat]
  BY DEF Object, States
<1>6. Object("created", 0, n).state = "created" BY DEF Object
<1>7. disk' \in [VMs -> Records \cup {NoRecord}]
  <2>1. [state |-> "created", pid |-> FALSE, restarts |-> n] \in Records BY DEF Records, States
  <2>2. QED BY <1>1, <2>1 DEF Created, Types
<1>8. vm' \in Objects BY <1>1, <1>4, <1>5 DEF Types, Objects
<1>9. vm'[v].state = "created" /\ \A w \in VMs \ {v} : vm'[w] = vm[w]
  BY <1>1, <1>4, <1>6 DEF Types, Objects
<1>10. QED BY <1>2, <1>3, <1>4, <1>7, <1>8, <1>9

(* What a Create followed by a call of Start leaves of each VM. *)
LEMMA CreatedLife ==
    ASSUME IInv, NEW v \in VMs, NEW n \in Nat, Created(v, n), up,
           start' = [start EXCEPT ![v] = "begin"],
           UNCHANGED <<up, proc, stop, mon, probes>>,
           NEW w \in VMs,
           \/ restart'[w] = restart[w] /\ repl'[w] = repl[w]
           \/ restart[w] = "backoff" /\ restart'[w] = "starting"
    PROVE  Life(w)'
<1>1. Life(w) /\ Types BY DEF IInv
<1>2. CASE w = v
  <2>1. start'[v] = "begin" BY <1>1 DEF Types
  <2>2. QED
    BY <1>1, <1>2, <2>1, CreatedFacts DEF Life, StartMatches, MonMatches, ObjectMatches,
       DownMatches, Moving, Going, Fresh, Lost
<1>3. CASE w # v
  <2>1. /\ start'[w] = start[w] /\ vm'[w] = vm[w] /\ (w \in reg' <=> w \in reg)
    BY <1>1, <1>3, CreatedFacts DEF Types
  <2>2. CASE restart'[w] = restart[w] /\ repl'[w] = repl[w] BY <1>1, <2>1, <2>2, Frame
  <2>3. CASE restart[w] = "backoff" /\ restart'[w] = "starting"
    BY <1>1, <2>1, <2>3 DEF Life, StartMatches, MonMatches, ObjectMatches, DownMatches
  <2>4. QED BY <2>2, <2>3
<1>4. QED BY <1>2, <1>3

(* handleRun and handleStart of a stopped VM: a request that creates a VM and  *)
(* starts it.                                                                  *)
LEMMA RequestCreatesIInv ==
    ASSUME IInv, NEW v \in VMs, Created(v, 0), up, api.pc = "idle",
           start' = [start EXCEPT ![v] = "begin"],
           api' \in [pc : {"run", "replace"}, vm : {v}, old : VMs \cup {NoVM}],
           api'.pc = "replace" => api'.old \in VMs,
           UNCHANGED <<up, proc, probes, stop, mon, restart, repl, claims, pending>>
    PROVE  IInv'
<1>1. Types BY DEF IInv
<1>2. start \in [VMs -> StartPoints] /\ reg \subseteq VMs BY <1>1 DEF Types
<1>3. start' \in [VMs -> StartPoints] /\ api' \in Calls BY <1>2 DEF StartPoints, Calls
<1>4. reg' \subseteq VMs /\ vm' \in Objects /\ disk' \in [VMs -> Records \cup {NoRecord}]
  BY <1>2, CreatedFacts
<1>5. Types' BY <1>1, <1>3, <1>4, TypesStep
<1>6. ASSUME NEW w \in VMs PROVE Life(w)' /\ ClaimMatches(w)'
  <2>1. Life(w)' BY CreatedLife
  <2>2. ClaimMatches(w) BY DEF IInv
  <2>3. /\ start'[w] # start[w] => w = v /\ start[w] = "idle" /\ start'[w] = "begin"
    BY <1>2, CreatedFacts
  <2>4. api'.pc # "remove" OBVIOUS
  <2>5. ClaimMatches(w)' BY <2>2, <2>3, <2>4 DEF ClaimMatches
  <2>6. QED BY <2>1, <2>5
<1>7. Requests' BY DEF Requests
<1>8. QED BY <1>5, <1>6, <1>7 DEF IInv

(* restartVM creates the replacement of a VM it has claimed. *)
LEMMA RestartCreateStep ==
    ASSUME IInv, NEW v \in VMs, NEW w \in VMs, NEW n \in Nat,
           restart[v] = "backoff" /\ claims[v] = "none" /\ vm[v].state = "stopped" /\ up,
           Created(w, n), start' = [start EXCEPT ![w] = "begin"],
           restart' = [restart EXCEPT ![v] = "starting"], repl' = [repl EXCEPT ![v] = w],
           claims' = [claims EXCEPT ![v] = "restart"],
           UNCHANGED <<up, proc, probes, stop, mon, api, pending>>
    PROVE  IInv'
<1>1. Types BY DEF IInv
<1>2. /\ restart \in [VMs -> RestartPoints] /\ claims \in [VMs -> Claimers]
      /\ start \in [VMs -> StartPoints] /\ repl \in [VMs -> VMs \cup {NoVM}] /\ reg \subseteq VMs
  BY <1>1 DEF Types
<1>5. v # w BY DEF Created, Fresh
<1>6. Types'
  <2>1. reg' \subseteq VMs /\ vm' \in Objects /\ disk' \in [VMs -> Records \cup {NoRecord}]
    BY <1>2, CreatedFacts
  <2>2. /\ start' \in [VMs -> StartPoints] /\ restart' \in [VMs -> RestartPoints]
        /\ claims' \in [VMs -> Claimers] /\ repl' \in [VMs -> VMs \cup {NoVM}]
    BY <1>2 DEF StartPoints, RestartPoints, Claimers
  <2>3. QED BY <1>1, <2>1, <2>2, TypesStep
<1>7. ASSUME NEW u \in VMs PROVE Life(u)' /\ ClaimMatches(u)'
  <2>1. \/ restart'[u] = restart[u] /\ repl'[u] = repl[u]
        \/ restart[u] = "backoff" /\ restart'[u] = "starting"
    BY <1>2
  <2>2. Life(u)' BY <2>1, CreatedLife
  <2>3. ClaimMatches(u) BY DEF IInv
  <2>4. start'[u] # start[u] => start[u] = "idle" /\ start'[u] = "begin"
    BY <1>2, CreatedFacts
  <2>5. /\ u # v => claims'[u] = claims[u] /\ restart'[u] = restart[u]
        /\ u = v => claims'[u] = "restart" /\ restart'[u] = "starting"
    BY <1>2
  <2>6. ClaimMatches(v) BY DEF IInv
  <2>7. ClaimMatches(u)' BY <2>3, <2>4, <2>5, <2>6 DEF ClaimMatches
  <2>8. QED BY <2>2, <2>7
<1>8. Requests'
  <2>1. ASSUME NEW u \in VMs, vm[u].state \in {"created", "stopped"}
        PROVE  vm'[u].state \in {"created", "stopped"}
    BY <2>1, CreatedFacts
  <2>2. QED BY <2>1 DEF IInv, Requests
<1>9. QED BY <1>6, <1>7, <1>8 DEF IInv


(* handleStart of a VM that never ran; a Start call of restartVM loses to it.  *)
LEMMA StartInPlaceStep ==
    ASSUME IInv, NEW v \in VMs,
           up /\ api.pc = "idle" /\ v \in reg /\ vm[v].state = "created" /\ claims[v] = "none",
           vm' = Moved(v, "starting"), start' = [start EXCEPT ![v] = "prep"],
           restart' = [o \in VMs |-> IF repl[o] = v THEN "idle" ELSE restart[o]],
           repl' = [o \in VMs |-> IF repl[o] = v THEN NoVM ELSE repl[o]],
           claims' = [w \in VMs |-> IF w = v THEN "start"
                                    ELSE IF repl[w] = v THEN "none" ELSE claims[w]],
           pending' = {w \in pending : repl[w] # v},
           api' = [pc |-> "inplace", vm |-> v, old |-> NoVM],
           UNCHANGED <<up, reg, disk, proc, probes, stop, mon>>
    PROVE  IInv'
<1>1. Types /\ Life(v) /\ ClaimMatches(v) BY DEF IInv
<1>2. /\ vm \in Objects /\ start \in [VMs -> StartPoints] /\ stop \in [VMs -> StopPoints]
      /\ restart \in [VMs -> RestartPoints] /\ repl \in [VMs -> VMs \cup {NoVM}]
      /\ claims \in [VMs -> Claimers] /\ pending \subseteq VMs /\ mon \in [VMs -> MonPoints]
  BY <1>1 DEF Types
<1>4. /\ vm' \in Objects /\ vm'[v].state = "starting"
      /\ \A w \in VMs \ {v} : vm'[w] = vm[w]
  BY <1>2, MovedFacts DEF States
<1>5. Types'
  <2>1. start' \in [VMs -> StartPoints] /\ restart' \in [VMs -> RestartPoints]
    BY <1>2 DEF StartPoints, RestartPoints
  <2>2. claims' \in [VMs -> Claimers] /\ repl' \in [VMs -> VMs \cup {NoVM}]
    BY <1>2 DEF Claimers
  <2>3. pending' \subseteq VMs /\ api' \in Calls BY <1>2 DEF Calls
  <2>4. QED BY <1>1, <1>4, <2>1, <2>2, <2>3, TypesStep
<1>6. restart[v] = "idle" /\ repl[v] = NoVM /\ mon[v] = "idle" /\ v \notin probes /\ stop[v] = "idle"
  BY <1>1, <1>2 DEF Life, MonMatches, Moving, Going, RestartPoints, MonPoints, StopPoints
<1>7. repl[v] # v BY <1>6, NoVMAssumption
<1>8. /\ start'[v] = "prep" /\ restart'[v] = "idle" /\ repl'[v] = NoVM /\ claims'[v] = "start"
      /\ (v \in pending' <=> v \in pending)
  BY <1>2, <1>6, <1>7
<1>9. Life(v)'
  BY <1>1, <1>4, <1>6, <1>8 DEF Life, StartMatches, MonMatches, ObjectMatches,
     DownMatches, Moving, Going, Fresh, Lost
<1>10. ClaimMatches(v)' BY <1>1, <1>6, <1>8 DEF ClaimMatches
<1>11. ASSUME NEW w \in VMs \ {v} PROVE Life(w)' /\ ClaimMatches(w)'
  <2>1. Life(w) /\ ClaimMatches(w) BY DEF IInv
  <2>2. vm'[w] = vm[w] /\ start'[w] = start[w] BY <1>2, <1>4
  <2>3. CASE repl[w] = v
    <3>1. /\ restart'[w] = "idle" /\ repl'[w] = NoVM /\ claims'[w] = "none" /\ w \notin pending'
      BY <2>3
    <3>2. restart[w] = "starting" /\ claims[w] = "restart"
      BY <2>1, <2>3, NoVMAssumption DEF Life, MonMatches, ClaimMatches
    <3>3. Life(w)'
      BY <2>1, <2>2, <3>1, <3>2 DEF Life, StartMatches, MonMatches, ObjectMatches,
         DownMatches
    <3>4. ClaimMatches(w)' BY <2>1, <2>2, <3>1, <3>2 DEF ClaimMatches
    <3>5. QED BY <3>3, <3>4
  <2>4. CASE repl[w] # v
    <3>1. /\ restart'[w] = restart[w] /\ repl'[w] = repl[w] /\ claims'[w] = claims[w]
          /\ (w \in pending' <=> w \in pending)
      BY <2>4
    <3>2. Life(w)' BY <2>1, <2>2, <3>1, Frame
    <3>3. ClaimMatches(w)' BY <2>1, <2>2, <3>1 DEF ClaimMatches
    <3>4. QED BY <3>2, <3>3
  <2>5. QED BY <2>3, <2>4
<1>12. Requests' BY DEF Requests
<1>13. QED BY <1>5, <1>9, <1>10, <1>11, <1>12 DEF IInv
=============================================================================
