------------------------------- MODULE Leases -------------------------------
(***************************************************************************)
(* Who holds an address when VMs are replaced.  IPAM alone gives each VM ID *)
(* one lease from run to rm.  Here a VM is stopped and started again, which *)
(* hands its address on to a replacement with a new ID: by handleStart,     *)
(* which holds resourceMu, or by the restart goroutine of the monitor       *)
(* (restartVM of the QEMU manager), which sleeps out its backoff and then   *)
(* creates, starts and removes without looking again.  The network may be   *)
(* removed and created anew, while addresses and removal intents stay filed *)
(* under the old IDs.                                                       *)
(*                                                                          *)
(* loose collects the addresses whose bookkeeping somebody went around;     *)
(* every action says when it adds one.                                      *)
(***************************************************************************)
EXTENDS IPAM

CONSTANTS
    Restarting,      \* VMs run with a restart policy
    MaxTroubles      \* bound of the model: daemon exits and network removals in a behaviour

ASSUME LeaseBounds == MaxTroubles \in Nat
ASSUME RestartingAssumption == Restarting \subseteq Owners

VARIABLES
    power,     \* state of each registered VM: "created", "running" or "stopped"
    jobs,      \* replacements under way
    exists,    \* the network is in the store
    troubles   \* daemon exits and removals of the network so far

leaseVars == <<power, jobs, exists, troubles>>
bounds == <<exists, troubles>>
lvars == <<allocated, nextIndex, pending, owner, held, serving, progress, subject, lease,
           manual, loose, power, jobs, exists, troubles>>

Running == {o \in LiveOwners : power[o] = "running"}

(* A replacement of VM old: asleep in the backoff, its VM created ("start"), or *)
(* started ("drop").  req: handleStart does it, under resourceMu.               *)
Job(old, at, ip, new, req) == [old |-> old, at |-> at, ip |-> ip, new |-> new, req |-> req]

(* The address, if a replacement is under way that takes it over. *)
InTransit(ip) == {j.ip : j \in jobs} \cap {ip}

Loosen(S) == loose' = loose \cup S
Done(j) == jobs' = jobs \ {j}
Moves(j, at, new) == jobs' = (jobs \ {j}) \cup {[j EXCEPT !.at = at, !.new = new]}

(* The registry loses the VM. *)
Unregister(o) == Gone(o) /\ power' = [power EXCEPT ![o] = "created"]

(* handleStart gives resourceMu back; the restart goroutine has not got it. *)
Leave(j) == IF j.req THEN Enter("free", {}, NoIP) ELSE UNCHANGED request

(* handleRun takes an address, registers the VM, or finds it cannot. *)
Run ==
    /\ exists
    /\ \E ip \in Addr : AllocateIP(ip) \/ ReserveIP(ip)
    /\ UNCHANGED leaseVars
RunCreate == (CreateFails \/ \E o \in Owners : Create(o)) /\ UNCHANGED leaseVars

(* The end of a handleRun that leaves its VM: started, or neither that nor     *)
(* removed; and of a removeVM that the manager refused.                        *)
LFinish ==
    /\ Finish
    /\ power' \in {power} \cup {[power EXCEPT ![o] = s] :
                     o \in {v \in subject : progress = "start"}, s \in {"running", "stopped"}}
    /\ UNCHANGED <<jobs, bounds>>

(* A stop request, or the end of a VM without a restart policy. *)
Stop(o) ==
    /\ o \in Running
    /\ power' = [power EXCEPT ![o] = "stopped"]
    /\ UNCHANGED <<vars, jobs, bounds>>

(* The VM ends and its monitor starts restartVM. *)
Exit(o) ==
    /\ serving
    /\ o \in Running \cap Restarting
    /\ power' = [power EXCEPT ![o] = "stopped"]
    /\ jobs' = jobs \cup {Job(o, "sleep", held[o], {}, FALSE)}
    /\ UNCHANGED <<vars, bounds>>

(* A replacement enters the registry with the configuration of its             *)
(* predecessor; no address is reserved for it.                                 *)
Register(p, ip) ==
    /\ owner[p] = "new"
    /\ owner' = [owner EXCEPT ![p] = "live"]
    /\ held' = [held EXCEPT ![p] = ip]
    /\ UNCHANGED <<storeState, serving, manual, power, bounds>>

(* Mutant: handleStart starts a VM whatever state it is in. *)
StartRequestAny(o, p) ==
    /\ serving /\ progress = "free"
    /\ o \in LiveOwners
    /\ Register(p, held[o])
    /\ jobs' = jobs \cup {Job(o, "start", held[o], {p}, TRUE)}
    /\ Enter("again", {o}, held[o])
    /\ Loosen(InTransit(held[o]))

(* handleStart of a stopped VM.  Loose: its address is in transit.          *)
StartRequest(o, p) ==
    /\ serving /\ progress = "free"
    /\ o \in LiveOwners /\ power[o] = "stopped"
    /\ Register(p, held[o])
    /\ jobs' = jobs \cup {Job(o, "start", held[o], {p}, TRUE)}
    /\ Enter("again", {o}, held[o])
    /\ Loosen(InTransit(held[o]))

(* handleStart of a VM that never ran. *)
StartInPlace(o) ==
    /\ serving /\ progress = "free"
    /\ o \in LiveOwners /\ power[o] = "created"
    /\ \E s \in {"running", "stopped"} : power' = [power EXCEPT ![o] = s]
    /\ Loosen(InTransit(held[o]))
    /\ UNCHANGED <<storeState, owner, held, serving, request, manual, jobs, bounds>>

(* restartVM after its sleep, whatever became of the predecessor. *)
RestartCreate(j, p) ==
    /\ j.at = "sleep"
    /\ Register(p, j.ip)
    /\ Moves(j, "start", {p})
    /\ UNCHANGED <<request, loose>>

(* m.Start of the replacement. *)
Started(j) ==
    /\ j.at = "start"
    /\ \E p \in j.new : /\ p \in LiveOwners /\ power[p] = "created"
                        /\ power' = [power EXCEPT ![p] = "running"]
    /\ Moves(j, "drop", j.new)
    /\ UNCHANGED <<vars, bounds>>

(* m.Start fails: handleStart removes the replacement, restartVM leaves it     *)
(* beside its predecessor (loose).                                             *)
StartFails(j) ==
    /\ j.at = "start"
    /\ \E p \in j.new :
          IF j.req THEN Unregister(p) /\ UNCHANGED loose
          ELSE /\ power' = IF p \in LiveOwners /\ power[p] = "created"
                           THEN [power EXCEPT ![p] = "stopped"] ELSE power
               /\ Loosen({j.ip})
               /\ UNCHANGED <<owner, held>>
    /\ Done(j) /\ Leave(j)
    /\ UNCHANGED <<storeState, serving, manual, bounds>>

(* The predecessor leaves the registry, if it is still there, and nothing else *)
(* changes: a removal intent filed under its ID stays.                         *)
Drop(j) ==
    /\ j.at = "drop"
    /\ IF j.old \in LiveOwners THEN Unregister(j.old) ELSE UNCHANGED <<owner, held, power>>
    /\ Done(j) /\ Leave(j)
    /\ UNCHANGED <<storeState, serving, manual, loose, bounds>>

(* The removal fails, which is logged: the predecessor stays (loose). *)
DropFails(j) ==
    /\ j.at = "drop"
    /\ Done(j) /\ Leave(j)
    /\ Loosen({j.ip})
    /\ UNCHANGED <<storeState, owner, held, serving, manual, power, bounds>>

(* removeVM records its intent, also for a running VM, whose removal is then   *)
(* refused.                                                                    *)
RemovePrepare(o) == exists /\ PrepareRelease(o) /\ UNCHANGED leaseVars

(* removeVM, mgr.Remove of a VM that does not run.  Loose: its address  *)
(* is in transit.                                                              *)
LRemove(o) ==
    /\ progress \in {"start", "remove"}
    /\ o \in (subject \cap LiveOwners) \ Running
    /\ Unregister(o)
    /\ progress' = "release" /\ subject' = {}
    /\ Loosen(InTransit(lease))
    /\ UNCHANGED <<storeState, serving, lease, manual, jobs, bounds>>

(* removeVM that releases nothing: the address is shared or its network gone.  *)
(* Loose: the address is in transit.                                           *)
RemoveOnly(o) ==
    /\ serving /\ progress = "free"
    /\ o \in LiveOwners \ Running
    /\ Shared(o) \/ ~exists
    /\ Unregister(o)
    /\ Loosen(InTransit(held[o]))
    /\ UNCHANGED <<storeState, serving, request, manual, jobs, bounds>>

(* Mutant: handleRun keeps the address of a VM it could not create. *)
LReleaseKeeps ==
    /\ progress = "release"
    /\ Enter("free", {}, NoIP)
    /\ UNCHANGED <<storeState, owner, held, serving, manual, loose, leaseVars>>

(* The last step of removeVM and of handleRun's rollbacks; nothing to release  *)
(* in a network that is gone.                                                  *)
LRelease ==
    /\ progress = "release"
    /\ IF exists THEN Free(lease) ELSE UNCHANGED storeState
    /\ Enter("free", {}, NoIP)
    /\ UNCHANGED <<owner, held, serving, manual, loose, leaseVars>>

(* The daemon exits.  Loose: the address of a request that has no VM for it    *)
(* and recorded no intent, and those of replacements left beside their         *)
(* predecessors.                                                               *)
LCrash ==
    /\ troubles < MaxTroubles
    /\ serving /\ serving' = FALSE
    /\ Enter("free", {}, NoIP)
    /\ jobs' = {}
    /\ Loosen((InHand \ {pending[o] : o \in Owners \ LiveOwners})
              \cup {j.ip : j \in {k \in jobs : k.at # "sleep"}})
    /\ troubles' = troubles + 1
    /\ UNCHANGED <<storeState, owner, held, manual, power, exists>>

(* Serve of the next daemon.  Loose: what it frees under a registered VM. *)
LRecover ==
    /\ ~serving /\ serving' = TRUE
    /\ allocated' = allocated \ Reclaimed
    /\ nextIndex' = IF Reclaimed = {} THEN nextIndex ELSE 2
    /\ pending' = [o \in Owners |-> NoIP]
    /\ Loosen(Reclaimed \cap {held[o] : o \in LiveOwners})
    /\ UNCHANGED <<owner, held, request, manual, leaseVars>>

Fresh ==
    /\ allocated' = {Gateway}
    /\ nextIndex' = 2
    /\ pending' = [o \in Owners |-> NoIP]

(* handleNetworkRemove: only running VMs count as users.  Loose: the addresses *)
(* of all others.                                                              *)
NetworkRemove ==
    /\ serving /\ exists
    /\ troubles < MaxTroubles
    /\ Running = {}
    /\ exists' = FALSE
    /\ Fresh
    /\ Loosen(({lease} \cup {held[o] : o \in LiveOwners} \cup {j.ip : j \in jobs}) \ {NoIP})
    /\ troubles' = troubles + 1
    /\ UNCHANGED <<owner, held, serving, request, manual, power, jobs>>

(* handleNetworkCreate of the same name and subnet: a fresh state.json. *)
NetworkCreate ==
    /\ serving /\ ~exists
    /\ exists' = TRUE
    /\ Fresh
    /\ UNCHANGED <<owner, held, serving, request, manual, loose, power, jobs, troubles>>

LInit ==
    /\ Init
    /\ power = [o \in Owners |-> "created"]
    /\ jobs = {}
    /\ exists = TRUE
    /\ troubles = 0

LNext ==
    \/ Run \/ RunCreate \/ LFinish \/ LRelease
    \/ \E o \in Owners : \/ Stop(o) \/ Exit(o) \/ StartInPlace(o)
                         \/ RemovePrepare(o) \/ LRemove(o) \/ RemoveOnly(o)
    \/ \E o, p \in Owners : StartRequest(o, p)
    \/ \E j \in jobs : \/ Started(j) \/ StartFails(j) \/ Drop(j) \/ DropFails(j)
                       \/ \E p \in Owners : RestartCreate(j, p)
    \/ LCrash \/ LRecover \/ NetworkRemove \/ NetworkCreate

LSpec == LInit /\ [][LNext]_lvars

-----------------------------------------------------------------------------
(* Two running VMs have the same address only when somebody went around the    *)
(* bookkeeping: a start or a removal of a VM whose restart is under way,        *)
(* a replacement that was left beside its predecessor by a failed step or a    *)
(* daemon exit, a network removed under its stopped VMs, an intent that        *)
(* outlived its VM.  Every other order of runs, stops, starts, restarts and    *)
(* removals, refused ones included, keeps them apart.                          *)
RunningExclusive ==
    \A o, p \in Running : held[o] = held[p] /\ o # p => held[o] \in loose

(* The addresses somebody answers for: the gateway's, those of registered VMs  *)
(* and of the request at work, and after a daemon exit those of the intents    *)
(* that the next daemon will carry out.                                        *)
Claimed ==
    {Gateway} \cup InHand \cup {held[o] : o \in LiveOwners}
    \cup (IF serving THEN {} ELSE {pending[o] : o \in Owners \ LiveOwners})

(* Leases are exact, address by address: with the same exceptions an address   *)
(* is recorded as in use if and only if somebody answers for it.               *)
NoLeak == exists => \A ip \in Addr \ loose : ip \in allocated <=> ip \in Claimed

(* The scan of AllocateIP misses no free address, whatever was recovered or    *)
(* created anew.                                                               *)
ScanIsComplete == NoAddressSkipped /\ NoFalseExhaustion

(* Every address is in use by a VM or found by the scan.  *)
NoAddressIsLost == NoLeak /\ ScanIsComplete

(* lease.go: recovery finishes a release "without reclaiming an address still  *)
(* held by a registered VM".  Violated: a refused removal's intent outlives    *)
(* the VM it was filed for, and recovery frees the address of the replacement. *)
RecoveryIsSafe ==
    [][~serving /\ serving' => \A o \in LiveOwners : held[o] \in allocated => held[o] \in allocated']_lvars
=============================================================================
