-------------------------------- MODULE IPAM --------------------------------
(***************************************************************************)
(* Address management of one managed network: the networkState record of   *)
(* internal/network/store.go and the removal intents of lease.go, driven   *)
(* by the API server's lease protocol (handleRun, removeVM, Serve) and by  *)
(* the Network.AllocateIP / Network.ReleaseIP calls.                       *)
(*                                                                         *)
(* An address is its offset in the subnet: 0 is the network address, 1 the *)
(* gateway (firstHost), Size - 1 the directed broadcast address; nextIP    *)
(* adds the offset to the base address byte by byte, with carry.           *)
(* Every operation of the store holds Store.mu and replaces state.json by  *)
(* a rename, so each one is a single step and a crash falls between two of *)
(* them.  handleRun and removeVM hold resourceMu over their several steps; *)
(* the Network calls do not, and come between those steps.                 *)
(***************************************************************************)
EXTENDS Naturals, FiniteSets

CONSTANTS
    Size,       \* number of addresses of the subnet, network and broadcast included
    Owners,     \* VM IDs; newID draws each one once, so an ID is never reused
    NoIP,       \* stands for the empty address
    Static,     \* addresses asked for with --ip
    Returned    \* addresses that clients pass to Network.ReleaseIP

(* checkSubnet admits prefixes /16 to /29, so a subnet has at least 8 addresses. *)
ASSUME SizeAssumption == Size \in Nat /\ Size >= 8

(* The empty address is not an address. *)
ASSUME NoIPAssumption == NoIP \notin Nat

Addr == 0 .. Size - 1

ASSUME InputAssumption == Static \subseteq Addr /\ Returned \subseteq Addr

VARIABLES
    allocated,  \* networkState.AllocatedIPs
    nextIndex,  \* networkState.NextIndex
    pending,    \* networkState.PendingReleases: owner -> address, NoIP when absent
    owner,      \* where each VM ID is in its life: "new", "live" (registered), "gone"
    held,       \* the address in the VM's Cfg.IPAddress, NoIP when it has none
    serving,    \* Serve has run RecoverReleases and accepts requests
    progress,   \* how far the request that holds resourceMu is; "free" when none does
    subject,    \* the VM that request is about, as a set of at most one
    lease,      \* the address that request has in hand
    manual,     \* history: addresses handed out by Network.AllocateIP, not returned by hand
    loose       \* history: addresses returned by hand while a VM or the gateway had them

vars == <<allocated, nextIndex, pending, owner, held, serving, progress, subject, lease,
          manual, loose>>

storeState == <<allocated, nextIndex, pending>>
request == <<progress, subject, lease>>

Gateway == 1
Broadcast == Size - 1

(* The addresses the scan of AllocateIP can reach: nextIP starts at index 2   *)
(* and answers nil at the first index outside the subnet.                     *)
Scanned == 2 .. Size - 1

(* Mutant: the monotonic counter the comment in AllocateIP warns about. *)
CandidatesMonotonic(n, taken) == {i \in Scanned : i >= n}

(* What the loop of AllocateIP looks for: indexes from NextIndex on that are  *)
(* inside the subnet and not allocated.                                       *)
CandidatesFrom(n, taken) == {i \in Scanned : i >= n /\ i \notin taken}

Candidates == CandidatesFrom(nextIndex, allocated)

(* The index the loop stops at. *)
FirstCandidate(i) == i \in Candidates /\ \A j \in Candidates : i <= j

(* Mutant: only the network address is refused. *)
networkOnly(ip) == ip = 0

networkOrBroadcast(ip) == ip = 0 \/ ip = Broadcast

LiveOwners == {o \in Owners : owner[o] = "live"}

(* removeVM: another registered VM has the same address. *)
Shared(o) == \E p \in LiveOwners \ {o} : held[p] = held[o]

Stages == {"free",     \* nobody holds resourceMu
           "run",      \* handleRun has an address and no VM yet
           "start",    \* handleRun has registered its VM
           "remove",   \* removeVM has recorded its intent
           "release",  \* the VM is out of the registry, or never was in it
           "again"}    \* handleStart replaces its VM (Leases)

-----------------------------------------------------------------------------

TypeOK ==
    /\ allocated \subseteq Addr
    /\ nextIndex \in 2 .. Size
    /\ pending \in [Owners -> Addr \cup {NoIP}]
    /\ owner \in [Owners -> {"new", "live", "gone"}]
    /\ held \in [Owners -> Addr \cup {NoIP}]
    /\ serving \in BOOLEAN
    /\ progress \in Stages
    /\ subject \subseteq Owners
    /\ lease \in Addr \cup {NoIP}
    /\ manual \subseteq Addr
    /\ loose \subseteq Addr

(* Store.Create writes NextIndex 2 and the gateway as the only address in use. *)
Init ==
    /\ allocated = {Gateway}
    /\ nextIndex = 2
    /\ pending = [o \in Owners |-> NoIP]
    /\ owner = [o \in Owners |-> "new"]
    /\ held = [o \in Owners |-> NoIP]
    /\ serving = TRUE
    /\ progress = "free" /\ subject = {} /\ lease = NoIP
    /\ manual = {}
    /\ loose = {}

(* AllocateIP: the state change of a successful scan. *)
Take(ip) ==
    /\ FirstCandidate(ip)
    /\ allocated' = allocated \cup {ip}
    /\ nextIndex' = ip + 1

(* A request takes resourceMu with an address in hand. *)
Enter(s, who, ip) == progress' = s /\ subject' = who /\ lease' = ip

(* handleRun without --ip. *)
AllocateIP(ip) ==
    /\ serving /\ progress = "free"
    /\ Take(ip)
    /\ Enter("run", {}, ip)
    /\ UNCHANGED <<pending, owner, held, serving, manual, loose>>

(* handleRun with --ip: ReserveIP refuses the network and broadcast addresses *)
(* and every address in use; NextIndex stays where it is.                     *)
ReserveIP(ip) ==
    /\ serving /\ progress = "free"
    /\ ip \in Static
    /\ ~networkOrBroadcast(ip)
    /\ ip \notin allocated
    /\ allocated' = allocated \cup {ip}
    /\ Enter("run", {}, ip)
    /\ UNCHANGED <<nextIndex, pending, owner, held, serving, manual, loose>>

(* handleRun registers the VM with the address. *)
Create(o) ==
    /\ progress = "run"
    /\ owner[o] = "new"
    /\ owner' = [owner EXCEPT ![o] = "live"]
    /\ held' = [held EXCEPT ![o] = lease]
    /\ progress' = "start" /\ subject' = {o}
    /\ UNCHANGED <<storeState, serving, lease, manual, loose>>

(* The VM cannot be created; the address is to be returned. *)
CreateFails ==
    /\ progress = "run"
    /\ progress' = "release"
    /\ UNCHANGED <<storeState, owner, held, serving, subject, lease, manual, loose>>

(* The request ends and its VM stays: handleRun started it, or could neither   *)
(* start nor remove it; the manager refused removeVM, whose intent stays.      *)
Finish ==
    /\ progress \in {"start", "remove"}
    /\ Enter("free", {}, NoIP)
    /\ UNCHANGED <<storeState, owner, held, serving, manual, loose>>

(* removeVM of a VM that has its address alone: PrepareRelease records the     *)
(* intent before the registry is touched, for an address recorded as in use.   *)
PrepareRelease(o) ==
    /\ serving /\ progress = "free"
    /\ o \in LiveOwners /\ held[o] # NoIP /\ ~Shared(o)
    /\ pending' = IF held[o] \in allocated THEN [pending EXCEPT ![o] = held[o]] ELSE pending
    /\ Enter("remove", {o}, held[o])
    /\ UNCHANGED <<allocated, nextIndex, owner, held, serving, manual, loose>>

Gone(o) ==
    /\ owner' = [owner EXCEPT ![o] = "gone"]
    /\ held' = [held EXCEPT ![o] = NoIP]

(* removeVM of a VM whose address another one has as well. *)
RemoveShared(o) ==
    /\ serving /\ progress = "free"
    /\ o \in LiveOwners /\ Shared(o)
    /\ Gone(o)
    /\ UNCHANGED <<storeState, serving, request, manual, loose>>

(* mgr.Remove, in removeVM or in handleRun's rollback of a failed start. *)
Remove(o) ==
    /\ progress \in {"start", "remove"}
    /\ o \in subject
    /\ Gone(o)
    /\ progress' = "release" /\ subject' = {}
    /\ UNCHANGED <<storeState, serving, lease, manual, loose>>

(* Mutant: NextIndex is not reset, as before freed addresses were revisited. *)
FreeKeepsIndex(ip) ==
    IF ip \in allocated
    THEN /\ allocated' = allocated \ {ip}
         /\ UNCHANGED nextIndex
         /\ pending' = [o \in Owners |-> IF pending[o] = ip THEN NoIP ELSE pending[o]]
    ELSE UNCHANGED storeState

(* Mutant: the intents that name the address survive its release. *)
FreeKeepsIntent(ip) ==
    IF ip \in allocated
    THEN /\ allocated' = allocated \ {ip}
         /\ nextIndex' = 2
         /\ UNCHANGED pending
    ELSE UNCHANGED storeState

(* ReleaseIP; for an address that is not in use it returns without writing. *)
Free(ip) ==
    IF ip \in allocated
    THEN /\ allocated' = allocated \ {ip}
         /\ nextIndex' = 2
         /\ pending' = [o \in Owners |-> IF pending[o] = ip THEN NoIP ELSE pending[o]]
    ELSE UNCHANGED storeState

(* The last step of removeVM and of handleRun's rollbacks. *)
ReleaseIP ==
    /\ progress = "release"
    /\ Free(lease)
    /\ Enter("free", {}, NoIP)
    /\ UNCHANGED <<owner, held, serving, manual, loose>>

(* Network.AllocateIP: an address without an owner. *)
AllocateManual(ip) ==
    /\ serving
    /\ Take(ip)
    /\ manual' = manual \cup {ip}
    /\ UNCHANGED <<pending, owner, held, serving, request, loose>>

(* The addresses somebody relies on who has not asked for their release. *)
InUse == {Gateway, lease} \cup {held[o] : o \in LiveOwners}

(* Network.ReleaseIP: any address, whoever has it. *)
ReleaseManual(ip) ==
    /\ serving
    /\ ip \in Returned
    /\ Free(ip)
    /\ manual' = manual \ {ip}
    /\ loose' = loose \cup ({ip} \cap InUse)
    /\ UNCHANGED <<owner, held, serving, request>>

(* The daemon exits, also in the middle of a request: between AllocateIP and   *)
(* the registration (the address stays allocated and nobody has it), or        *)
(* between mgr.Remove and ReleaseIP (in removeVM an intent is on disk, in the  *)
(* rollback of handleRun none is).                                             *)
Crash ==
    /\ serving
    /\ serving' = FALSE
    /\ Enter("free", {}, NoIP)
    /\ UNCHANGED <<storeState, owner, held, manual, loose>>

(* Intents whose owner is no longer registered, in use at the time. *)
Reclaimed == {ip \in allocated : \E o \in Owners \ LiveOwners : pending[o] = ip}

(* Serve, before it accepts connections: every intent is dropped and those of  *)
(* removed VMs are carried out.                                                *)
RecoverReleases ==
    /\ ~serving
    /\ serving' = TRUE
    /\ allocated' = allocated \ Reclaimed
    /\ nextIndex' = IF Reclaimed = {} THEN nextIndex ELSE 2
    /\ pending' = [o \in Owners |-> NoIP]
    /\ UNCHANGED <<owner, held, request, manual, loose>>

Next ==
    \/ \E o \in Owners : Create(o) \/ PrepareRelease(o) \/ RemoveShared(o) \/ Remove(o)
    \/ \E ip \in Addr : \/ AllocateIP(ip) \/ ReserveIP(ip)
                       \/ AllocateManual(ip) \/ ReleaseManual(ip)
    \/ CreateFails \/ Finish \/ ReleaseIP
    \/ Crash \/ RecoverReleases

Spec == Init /\ [][Next]_vars

-----------------------------------------------------------------------------
(* The address a request has taken for a VM not yet registered, or returns for *)
(* one that no longer is.                                                      *)
InHand == IF progress \in {"run", "release"} THEN {lease} ELSE {}

(* Two VMs never have the same address, and none has the gateway's or one that *)
(* a client allocated by hand: the collision on the bridge that ReserveIP and  *)
(* the skip loop of AllocateIP exist to prevent, across removals whose release *)
(* is finished only by the next daemon.  The one way to a collision is that a  *)
(* client returned the address by hand under its user: Network.ReleaseIP asks  *)
(* nobody.                                                                     *)
AddressExclusive ==
    /\ \A o1, o2 \in Owners : held[o1] # NoIP /\ held[o1] = held[o2] /\ o1 # o2
                                => held[o1] \in loose
    /\ \A o \in Owners : held[o] \in manual \cup {Gateway} => held[o] \in loose
    /\ Gateway \in manual => Gateway \in loose

(* A VM's address is recorded as in use for as long as the VM is registered,   *)
(* whatever intents were recorded, dropped or recovered in the meantime.       *)
HeldIsAllocated ==
    /\ \A o \in Owners : held[o] # NoIP => held[o] \in allocated \cup loose
    /\ manual \cup {Gateway} \subseteq allocated \cup loose

(* An intent never covers an address that another VM has, not even when        *)
(* addresses are returned by hand: carrying it out, at once or by the next     *)
(* daemon, cannot take it away from a VM.  Unless the address was returned by  *)
(* hand it takes nothing from a client or the gateway either.                  *)
IntentIsSafe ==
    \A o \in Owners : pending[o] # NoIP =>
        /\ pending[o] \in allocated
        /\ o \in LiveOwners => held[o] = pending[o]
        /\ \A p \in Owners \ {o} : held[p] # pending[o]
        /\ pending[o] \in manual \cup {Gateway} => pending[o] \in loose

(* No address is lost to the scan: every address below NextIndex is in use.    *)
(* ReleaseIP and RecoverReleases reset NextIndex to keep this.                 *)
NoAddressSkipped == \A i \in 2 .. nextIndex - 1 : i \in allocated

(* The part of a VM's life that the other invariants rest on: exactly a        *)
(* registered VM has an address, an unused ID has no removal intent, and a     *)
(* request works for the VM whose address it has in hand.                      *)
OwnerLife ==
    /\ \A o \in Owners : /\ owner[o] = "live" <=> held[o] # NoIP
                         /\ owner[o] = "new" => pending[o] = NoIP
    /\ progress = "free" <=> lease = NoIP
    /\ \A o \in subject : owner[o] = "live" /\ held[o] = lease /\ subject = {o}
    /\ progress \in {"start", "remove"} <=> subject # {}
    /\ ~serving => progress = "free"

(* What a request has in hand for no registered VM is recorded, and is nobody  *)
(* else's.                                                                     *)
InHandIsSafe ==
    /\ \A o \in Owners : held[o] \in InHand => held[o] \in loose
    /\ InHand \cap (manual \cup {Gateway}) \subseteq loose
    /\ InHand \subseteq allocated \cup loose
    /\ progress = "run" => \A o \in Owners : pending[o] # lease
    /\ progress = "start" => \A o \in subject : pending[o] = NoIP

IInv ==
    /\ TypeOK
    /\ OwnerLife
    /\ AddressExclusive
    /\ HeldIsAllocated
    /\ IntentIsSafe
    /\ InHandIsSafe
    /\ NoAddressSkipped

(* AllocateIP fails only on a full network: when its scan finds no candidate,  *)
(* every address the scan may reach from the start is in use.                  *)
NoFalseExhaustion == Candidates = {} => Scanned \subseteq allocated

(* What a step that gives handleRun an address may do with the two addresses   *)
(* that are not assignable.                                                    *)
BroadcastComesLast ==
    progress # "run" /\ progress' = "run" /\ lease' \in {0, Broadcast} =>
        lease' # 0 /\ Scanned \ {Broadcast} \subseteq allocated

(* The network and broadcast addresses are "not assignable" (ReserveIP), and   *)
(* only AllocateIP breaks that: the scan reaches the broadcast address, but    *)
(* gives it away only when every other address is in use.                      *)
BroadcastIsLast == [][BroadcastComesLast]_vars
=============================================================================
