---------------------------- MODULE VMCoreProofs ----------------------------
(***************************************************************************)
(* What the operators of VMCore do to a VM object and to its record, for   *)
(* the proofs about the two VM managers.                                   *)
(***************************************************************************)
EXTENDS VMCore, TLAPS

(* States in which a VM has a process, or is to have one. *)
Moving == {"running", "stopping"}
Going == {"starting", "running", "stopping"}

(* Types of the variables, and the points their goroutines can be at. *)
Objects == [VMs -> [state : States \cup {Fresh, Lost}, explicitStop : BOOLEAN,
                    closed : Nat, pid : BOOLEAN, restarts : Nat]]
Records == [state : States, pid : BOOLEAN, restarts : Nat]
Processes == {"none", "up", "ok", "failed"}
StartPoints == {"idle", "begin", "prep", "launched", "running", "saved", "monitored", "ok", "err"}
StopPoints == {"idle", "accepted", "quiet", "marked"}
MonPoints == {"idle", "wait", "exited", "stopped", "adopt", "adoptStopped"}
RestartPoints == {"idle", "backoff", "starting"}
Calls == [pc : {"idle", "run", "inplace", "replace", "remove"},
          vm : VMs \cup {NoVM}, old : VMs \cup {NoVM}]

-----------------------------------------------------------------------------
(* transition. *)
LEMMA MovedFacts ==
    ASSUME vm \in Objects, NEW v \in VMs, NEW to \in States
    PROVE  /\ Moved(v, to) \in Objects
           /\ Moved(v, to)[v].state = to
           /\ Moved(v, to)[v].closed = IF to = "stopped" THEN vm[v].closed + 1 ELSE vm[v].closed
           /\ Moved(v, to)[v].pid <=> vm[v].pid
           /\ Moved(v, to)[v].restarts = vm[v].restarts
           /\ \A w \in VMs \ {v} : Moved(v, to)[w] = vm[w]
<1>1. vm[v] \in [state : States \cup {Fresh, Lost}, explicitStop : BOOLEAN,
                  closed : Nat, pid : BOOLEAN, restarts : Nat]
  BY DEF Objects
<1> DEFINE n == [vm[v] EXCEPT !.state = to,
                              !.closed = IF to = "stopped" THEN @ + 1 ELSE @]
<1>2. Moved(v, to) = [vm EXCEPT ![v] = n] BY DEF Moved, Objects
<1>3. /\ n.state = to /\ n.closed = IF to = "stopped" THEN vm[v].closed + 1 ELSE vm[v].closed
      /\ n.pid <=> vm[v].pid
      /\ n.restarts = vm[v].restarts
  BY <1>1
<1>4. n \in [state : States \cup {Fresh, Lost}, explicitStop : BOOLEAN,
             closed : Nat, pid : BOOLEAN, restarts : Nat]
  <2>1. vm[v].closed \in Nat BY <1>1
  <2>2. (IF to = "stopped" THEN vm[v].closed + 1 ELSE vm[v].closed) \in Nat BY <2>1
  <2>3. QED BY <1>1, <2>2
<1> HIDE DEF n
<1>5. QED BY <1>2, <1>3, <1>4 DEF Objects

(* The assignments to explicitStop and to the PID. *)
LEMMA MarkedFacts ==
    ASSUME vm \in Objects, NEW v \in VMs, vm' = [vm EXCEPT ![v].explicitStop = TRUE]
    PROVE  /\ vm' \in Objects
           /\ vm'[v].state = vm[v].state /\ vm'[v].closed = vm[v].closed
           /\ vm'[v].pid <=> vm[v].pid
           /\ vm'[v].restarts = vm[v].restarts
           /\ \A w \in VMs \ {v} : vm'[w] = vm[w]
<1>1. vm[v] \in [state : States \cup {Fresh, Lost}, explicitStop : BOOLEAN,
                  closed : Nat, pid : BOOLEAN, restarts : Nat]
  BY DEF Objects
<1>2. vm'[v] = [vm[v] EXCEPT !.explicitStop = TRUE] BY DEF Objects
<1>3. QED BY <1>1, <1>2 DEF Objects

LEMMA LaunchedFacts ==
    ASSUME vm \in Objects, NEW v \in VMs, vm' = [vm EXCEPT ![v].pid = TRUE]
    PROVE  /\ vm' \in Objects
           /\ vm'[v].state = vm[v].state /\ vm'[v].closed = vm[v].closed
           /\ vm'[v].pid /\ vm'[v].restarts = vm[v].restarts
           /\ \A w \in VMs \ {v} : vm'[w] = vm[w]
<1>1. vm[v] \in [state : States \cup {Fresh, Lost}, explicitStop : BOOLEAN,
                  closed : Nat, pid : BOOLEAN, restarts : Nat]
  BY DEF Objects
<1>2. vm'[v] = [vm[v] EXCEPT !.pid = TRUE] BY DEF Objects
<1>3. QED BY <1>1, <1>2 DEF Objects

(* proc.kill. *)
LEMMA KilledFacts ==
    ASSUME proc \in [VMs -> Processes], NEW v \in VMs
    PROVE  /\ Killed(v) \in [VMs -> Processes]
           /\ Killed(v)[v] # "up"
           /\ proc[v] # "none" => Killed(v)[v] # "none"
           /\ proc[v] # "up" => Killed(v)[v] = proc[v]
           /\ \A w \in VMs \ {v} : Killed(v)[w] = proc[w]
  BY DEF Killed, Processes

(* Stop is accepted by a running VM only. *)
LEMMA RunningStops ==
    ASSUME NEW v \in VMs, vm[v].state \in States, CanMove(v, "stopping")
    PROVE  vm[v].state = "running"
<1>1. CASE vm[v].state = "created" BY <1>1 DEF CanMove, validTransitions
<1>2. CASE vm[v].state = "starting" BY <1>2 DEF CanMove, validTransitions
<1>3. CASE vm[v].state = "stopping" BY <1>3 DEF CanMove, validTransitions
<1>4. CASE vm[v].state = "stopped" BY <1>4 DEF CanMove, validTransitions
<1>5. QED BY <1>1, <1>2, <1>3, <1>4 DEF States

(* A VM that is on its way can always be moved to stopped. *)
LEMMA GoingStops ==
    ASSUME NEW v \in VMs, vm[v].state \in Going
    PROVE  TriedMove(v, "stopped") = Moved(v, "stopped")
<1>1. CASE vm[v].state = "starting" BY <1>1 DEF TriedMove, CanMove, validTransitions
<1>2. CASE vm[v].state = "running" BY <1>2 DEF TriedMove, CanMove, validTransitions
<1>3. CASE vm[v].state = "stopping" BY <1>3 DEF TriedMove, CanMove, validTransitions
<1>4. QED BY <1>1, <1>2, <1>3 DEF Going

(* writeState writes the VM's own record, if it is registered. *)
LEMMA SavedFacts ==
    ASSUME vm \in Objects, disk \in [VMs -> Records \cup {NoRecord}],
           NEW v \in VMs, vm[v].state \in States
    PROVE  /\ Saved(v) \in [VMs -> Records \cup {NoRecord}]
           /\ v \in reg => Saved(v)[v] = Record(v)
           /\ v \notin reg => Saved(v)[v] = disk[v]
           /\ Record(v).state = vm[v].state
           /\ Record(v).pid <=> vm[v].pid
           /\ \A w \in VMs \ {v} : Saved(v)[w] = disk[w]
  BY DEF Objects, Records, Saved, Record

(* What the next daemon makes of one record. *)
LEMMA RestoredFacts ==
    ASSUME NEW v \in VMs, disk[v] \in Records
    PROVE  /\ RestoredObject(v) \in [state : States \cup {Fresh, Lost}, explicitStop : BOOLEAN,
                                     closed : Nat, pid : BOOLEAN, restarts : Nat]
           /\ Adoptable(v) => /\ RestoredObject(v).state = "running" /\ RestoredObject(v).pid
                              /\ RestoredObject(v).closed = 0
           /\ ~Adoptable(v) => /\ ~RestoredObject(v).pid
                               /\ RestoredObject(v).state =
                                     IF disk[v].state = "created" THEN "created" ELSE "stopped"
                               /\ RestoredObject(v).closed =
                                     IF disk[v].state = "created" THEN 0 ELSE 1
<1>1. disk[v].restarts \in Nat BY DEF Records
<1>2. CASE Adoptable(v)
  <2>1. RestoredObject(v) = [state |-> "running", explicitStop |-> FALSE, closed |-> 0,
                             pid |-> TRUE, restarts |-> disk[v].restarts]
    BY <1>2 DEF RestoredObject, Object
  <2>2. QED BY <1>1, <1>2, <2>1 DEF States
<1>3. CASE ~Adoptable(v) /\ disk[v].state = "created"
  <2>1. RestoredObject(v) = [state |-> "created", explicitStop |-> FALSE, closed |-> 0,
                             pid |-> FALSE, restarts |-> disk[v].restarts]
    BY <1>3 DEF RestoredObject, Object
  <2>2. QED BY <1>1, <1>3, <2>1 DEF States
<1>4. CASE ~Adoptable(v) /\ disk[v].state # "created"
  <2>1. RestoredObject(v) = [state |-> "stopped", explicitStop |-> FALSE, closed |-> 1,
                             pid |-> FALSE, restarts |-> disk[v].restarts]
    BY <1>4 DEF RestoredObject, Object
  <2>2. QED BY <1>1, <1>4, <2>1 DEF States
<1>5. QED BY <1>2, <1>3, <1>4

=============================================================================
