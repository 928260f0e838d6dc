---------------------------- MODULE DaemonProofs ----------------------------
(***************************************************************************)
(* Proofs about the daemon's bookkeeping: IPAM, SQLiteStore and            *)
(* RestartPolicy, for every value of their constants.                      *)
(*                                                                         *)
(* IPAM, for every subnet size and every set of VM IDs.  The inductive     *)
(* invariant is IPAM!IInv.  AddressExclusive is not inductive alone: a     *)
(* step that frees an address is harmless only because the address is the  *)
(* owner's (IntentIsSafe) or in the hand of the request (InHandIsSafe),    *)
(* and a step that takes one because every address in use is recorded      *)
(* (HeldIsAllocated).                                                      *)
(***************************************************************************)
EXTENDS IPAM, SQLiteStore, RestartPolicy, TLAPS

(* The empty address is neither an address of the subnet nor the gateway. *)
LEMMA NoIPFacts == NoIP \notin Addr /\ NoIP # Gateway
<1>1. \A i \in Addr : i \in Nat BY SizeAssumption DEF Addr
<1>2. Gateway \in Nat BY DEF Gateway
<1>3. QED BY <1>1, <1>2, NoIPAssumption

(* The address a scan of AllocateIP returns is inside the subnet, was free and *)
(* leaves no free address below the new NextIndex.                             *)
LEMMA TakeFacts ==
    ASSUME IInv, NEW ip \in Addr, Take(ip)
    PROVE  /\ ip \notin allocated
           /\ allocated' = allocated \cup {ip}
           /\ allocated' \subseteq Addr
           /\ nextIndex' \in 2 .. Size
           /\ NoAddressSkipped'
<1>1. /\ ip \in 2 .. Size - 1 /\ ip >= nextIndex /\ ip \notin allocated
      /\ \A j \in 2 .. Size - 1 : j >= nextIndex /\ j \notin allocated => ip <= j
  BY DEF Take, FirstCandidate, Candidates, CandidatesFrom, Scanned
<1>2. allocated' = allocated \cup {ip} /\ nextIndex' = ip + 1
  BY DEF Take
<1>3. allocated \subseteq Addr /\ nextIndex \in 2 .. Size
  BY DEF IInv, TypeOK
<1>4. \A i \in 2 .. nextIndex - 1 : i \in allocated
  BY DEF IInv, NoAddressSkipped
<1>5. ASSUME NEW i \in 2 .. nextIndex' - 1 PROVE i \in allocated'
  BY <1>1, <1>2, <1>3, <1>4, <1>5, SizeAssumption
<1>6. QED
  BY <1>1, <1>2, <1>3, <1>5, SizeAssumption DEF NoAddressSkipped, Addr

(* Freeing an address keeps the bookkeeping in range and leaves no gap below   *)
(* NextIndex; the intents that name the address are dropped with it.           *)
LEMMA FreeFacts ==
    ASSUME IInv, NEW ip, Free(ip)
    PROVE  /\ allocated' = allocated \ {ip}
           /\ allocated' \subseteq Addr
           /\ nextIndex' \in 2 .. Size
           /\ NoAddressSkipped'
           /\ pending' \in [Owners -> Addr \cup {NoIP}]
           /\ \A o \in Owners : pending'[o] # NoIP => pending'[o] = pending[o] /\ pending[o] # ip
<1>1. allocated \subseteq Addr /\ nextIndex \in 2 .. Size /\ NoAddressSkipped
      /\ pending \in [Owners -> Addr \cup {NoIP}]
      /\ \A o \in Owners : pending[o] # NoIP => pending[o] \in allocated
  BY DEF IInv, TypeOK, IntentIsSafe
<1>2. CASE ip \in allocated
  BY <1>1, <1>2, SizeAssumption DEF Free, NoAddressSkipped
<1>3. CASE ip \notin allocated
  BY <1>1, <1>3 DEF Free, storeState, NoAddressSkipped
<1>4. QED BY <1>2, <1>3

(* Store.Create establishes the invariant. *)
LEMMA InitIInv == Init => IInv
<1> SUFFICES ASSUME Init PROVE IInv OBVIOUS
<1> USE SizeAssumption, NoIPAssumption DEF Init
<1>1. TypeOK BY DEF TypeOK, Addr, Gateway, Stages
<1>2. OwnerLife /\ AddressExclusive /\ HeldIsAllocated
  BY DEF OwnerLife, AddressExclusive, HeldIsAllocated, Gateway
<1>3. IntentIsSafe /\ InHandIsSafe /\ NoAddressSkipped
  BY DEF IntentIsSafe, InHandIsSafe, InHand, NoAddressSkipped
<1>4. QED BY <1>1, <1>2, <1>3 DEF IInv

(* handleRun with an address found by AllocateIP. *)
LEMMA AllocateIPIInv ==
    ASSUME IInv, NEW ip \in Addr, AllocateIP(ip)
    PROVE  IInv'
<1> USE DEF IInv
<1>1. /\ Take(ip)
      /\ serving /\ progress = "free"
      /\ progress' = "run" /\ subject' = {} /\ lease' = ip
      /\ UNCHANGED <<pending, owner, held, serving, manual, loose>>
  BY DEF AllocateIP, Enter
<1>2. /\ ip \notin allocated /\ allocated' = allocated \cup {ip}
      /\ allocated' \subseteq Addr /\ nextIndex' \in 2 .. Size /\ NoAddressSkipped'
  BY <1>1, TakeFacts
<1>3. TypeOK'
  BY <1>1, <1>2, NoIPFacts, SizeAssumption
  DEF TypeOK, Addr, Stages
<1>4. OwnerLife'
  BY <1>1, <1>2, NoIPFacts
  DEF OwnerLife, TypeOK, Stages, IntentIsSafe
<1>5. AddressExclusive'
  BY <1>1, <1>2, NoIPFacts
  DEF AddressExclusive, TypeOK, HeldIsAllocated, InHandIsSafe, InHand, OwnerLife
<1>6. HeldIsAllocated'
  BY <1>1, <1>2, NoIPFacts
  DEF HeldIsAllocated, TypeOK, InHandIsSafe, InHand, OwnerLife, IntentIsSafe
<1>7. IntentIsSafe'
  BY <1>1, <1>2, NoIPFacts
  DEF IntentIsSafe, TypeOK, LiveOwners, OwnerLife, InHandIsSafe, AddressExclusive,
      HeldIsAllocated, InHand
<1>8. InHandIsSafe'
  BY <1>1, <1>2, NoIPFacts
  DEF InHandIsSafe, TypeOK, InHand, OwnerLife, HeldIsAllocated, IntentIsSafe,
      AddressExclusive
<1>9. QED BY <1>3, <1>4, <1>5, <1>6, <1>7, <1>8, <1>2

(* handleRun with an address reserved by ReserveIP. *)
LEMMA ReserveIPIInv ==
    ASSUME IInv, NEW ip \in Addr, ReserveIP(ip)
    PROVE  IInv'
<1> USE DEF IInv
<1>1. /\ ip \notin allocated /\ allocated' = allocated \cup {ip}
      /\ serving /\ progress = "free"
      /\ progress' = "run" /\ subject' = {} /\ lease' = ip
      /\ UNCHANGED <<nextIndex, pending, owner, held, serving, manual, loose>>
  BY DEF ReserveIP, Enter
<1>2. TypeOK'
  BY <1>1, NoIPFacts, SizeAssumption
  DEF TypeOK, Addr, Stages
<1>3. OwnerLife'
  BY <1>1, NoIPFacts
  DEF OwnerLife, TypeOK, Stages, IntentIsSafe
<1>4. AddressExclusive'
  BY <1>1, NoIPFacts
  DEF AddressExclusive, TypeOK, HeldIsAllocated, InHandIsSafe, InHand, OwnerLife
<1>5. HeldIsAllocated'
  BY <1>1, NoIPFacts
  DEF HeldIsAllocated, TypeOK, InHandIsSafe, InHand, OwnerLife, IntentIsSafe
<1>6. IntentIsSafe'
  BY <1>1, NoIPFacts
  DEF IntentIsSafe, TypeOK, LiveOwners, OwnerLife, InHandIsSafe, AddressExclusive,
      HeldIsAllocated, InHand
<1>7. InHandIsSafe'
  BY <1>1, NoIPFacts
  DEF InHandIsSafe, TypeOK, InHand, OwnerLife, HeldIsAllocated, IntentIsSafe,
      AddressExclusive
<1>8. NoAddressSkipped'
  BY <1>1
  DEF NoAddressSkipped, TypeOK
<1>9. QED BY <1>2, <1>3, <1>4, <1>5, <1>6, <1>7, <1>8

(* handleRun registers the VM. *)
LEMMA CreateIInv ==
    ASSUME IInv, NEW o \in Owners, Create(o)
    PROVE  IInv'
<1> USE DEF IInv
<1>1. /\ progress = "run" /\ owner[o] = "new"
      /\ owner' = [owner EXCEPT ![o] = "live"]
      /\ held' = [held EXCEPT ![o] = lease]
      /\ progress' = "start" /\ subject' = {o}
      /\ UNCHANGED <<allocated, nextIndex, pending, serving, lease, manual, loose>>
  BY DEF Create, storeState
<1>2. TypeOK'
  BY <1>1, NoIPFacts, SizeAssumption
  DEF TypeOK, Addr, Stages
<1>3. OwnerLife'
  BY <1>1, NoIPFacts
  DEF OwnerLife, TypeOK, Stages, IntentIsSafe
<1>4. AddressExclusive'
  BY <1>1, NoIPFacts
  DEF AddressExclusive, TypeOK, HeldIsAllocated, InHandIsSafe, InHand, OwnerLife
<1>5. HeldIsAllocated'
  BY <1>1, NoIPFacts
  DEF HeldIsAllocated, TypeOK, InHandIsSafe, InHand, OwnerLife, IntentIsSafe
<1>6. IntentIsSafe'
  BY <1>1, NoIPFacts
  DEF IntentIsSafe, TypeOK, LiveOwners, OwnerLife, InHandIsSafe, AddressExclusive,
      HeldIsAllocated, InHand
<1>7. InHandIsSafe'
  BY <1>1, NoIPFacts
  DEF InHandIsSafe, TypeOK, InHand, OwnerLife, HeldIsAllocated, IntentIsSafe,
      AddressExclusive
<1>8. NoAddressSkipped'
  BY <1>1
  DEF NoAddressSkipped, TypeOK
<1>9. QED BY <1>2, <1>3, <1>4, <1>5, <1>6, <1>7, <1>8

(* handleRun cannot register the VM. *)
LEMMA CreateFailsIInv ==
    ASSUME IInv, CreateFails
    PROVE  IInv'
<1> USE DEF IInv
<1>1. /\ progress = "run" /\ progress' = "release"
      /\ UNCHANGED <<allocated, nextIndex, pending, owner, held, serving, subject, lease,
                     manual, loose>>
  BY DEF CreateFails, storeState
<1>2. TypeOK'
  BY <1>1, NoIPFacts, SizeAssumption
  DEF TypeOK, Addr, Stages
<1>3. OwnerLife'
  BY <1>1, NoIPFacts
  DEF OwnerLife, TypeOK, Stages, IntentIsSafe
<1>4. AddressExclusive'
  BY <1>1, NoIPFacts
  DEF AddressExclusive, TypeOK, HeldIsAllocated, InHandIsSafe, InHand, OwnerLife
<1>5. HeldIsAllocated'
  BY <1>1, NoIPFacts
  DEF HeldIsAllocated, TypeOK, InHandIsSafe, InHand, OwnerLife, IntentIsSafe
<1>6. IntentIsSafe'
  BY <1>1, NoIPFacts
  DEF IntentIsSafe, TypeOK, LiveOwners, OwnerLife, InHandIsSafe, AddressExclusive,
      HeldIsAllocated, InHand
<1>7. InHandIsSafe'
  BY <1>1, NoIPFacts
  DEF InHandIsSafe, TypeOK, InHand, OwnerLife, HeldIsAllocated, IntentIsSafe,
      AddressExclusive
<1>8. NoAddressSkipped'
  BY <1>1
  DEF NoAddressSkipped, TypeOK
<1>9. QED BY <1>2, <1>3, <1>4, <1>5, <1>6, <1>7, <1>8

(* A request ends and its VM stays. *)
LEMMA FinishIInv ==
    ASSUME IInv, Finish
    PROVE  IInv'
<1> USE DEF IInv
<1>1. /\ progress \in {"start", "remove"}
      /\ progress' = "free" /\ subject' = {} /\ lease' = NoIP
      /\ UNCHANGED <<allocated, nextIndex, pending, owner, held, serving, manual, loose>>
  BY DEF Finish, Enter, storeState
<1>2. TypeOK'
  BY <1>1, NoIPFacts, SizeAssumption
  DEF TypeOK, Addr, Stages
<1>3. OwnerLife'
  BY <1>1, NoIPFacts
  DEF OwnerLife, TypeOK, Stages, IntentIsSafe
<1>4. AddressExclusive'
  BY <1>1, NoIPFacts
  DEF AddressExclusive, TypeOK, HeldIsAllocated, InHandIsSafe, InHand, OwnerLife
<1>5. HeldIsAllocated'
  BY <1>1, NoIPFacts
  DEF HeldIsAllocated, TypeOK, InHandIsSafe, InHand, OwnerLife, IntentIsSafe
<1>6. IntentIsSafe'
  BY <1>1, NoIPFacts
  DEF IntentIsSafe, TypeOK, LiveOwners, OwnerLife, InHandIsSafe, AddressExclusive,
      HeldIsAllocated, InHand
<1>7. InHandIsSafe'
  BY <1>1, NoIPFacts
  DEF InHandIsSafe, TypeOK, InHand, OwnerLife, HeldIsAllocated, IntentIsSafe,
      AddressExclusive
<1>8. NoAddressSkipped'
  BY <1>1
  DEF NoAddressSkipped, TypeOK
<1>9. QED BY <1>2, <1>3, <1>4, <1>5, <1>6, <1>7, <1>8

(* removeVM records its intent. *)
LEMMA PrepareReleaseIInv ==
    ASSUME IInv, NEW o \in Owners, PrepareRelease(o)
    PROVE  IInv'
<1> USE DEF IInv
<1>1. /\ serving /\ progress = "free" /\ owner[o] = "live" /\ held[o] # NoIP
      /\ \A p \in Owners \ {o} : owner[p] = "live" => held[p] # held[o]
      /\ pending' = IF held[o] \in allocated THEN [pending EXCEPT ![o] = held[o]] ELSE pending
      /\ progress' = "remove" /\ subject' = {o} /\ lease' = held[o]
      /\ UNCHANGED <<allocated, nextIndex, owner, held, serving, manual, loose>>
  BY DEF PrepareRelease, Enter, LiveOwners, Shared
<1>2. TypeOK'
  BY <1>1, NoIPFacts, SizeAssumption
  DEF TypeOK, Addr, Stages
<1>3. OwnerLife'
  BY <1>1, NoIPFacts
  DEF OwnerLife, TypeOK, Stages, IntentIsSafe
<1>4. AddressExclusive'
  BY <1>1, NoIPFacts
  DEF AddressExclusive, TypeOK, HeldIsAllocated, InHandIsSafe, InHand, OwnerLife
<1>5. HeldIsAllocated'
  BY <1>1, NoIPFacts
  DEF HeldIsAllocated, TypeOK, InHandIsSafe, InHand, OwnerLife, IntentIsSafe
<1>6. IntentIsSafe'
  BY <1>1, NoIPFacts
  DEF IntentIsSafe, TypeOK, LiveOwners, OwnerLife, InHandIsSafe, AddressExclusive,
      HeldIsAllocated, InHand
<1>7. InHandIsSafe'
  BY <1>1, NoIPFacts
  DEF InHandIsSafe, TypeOK, InHand, OwnerLife, HeldIsAllocated, IntentIsSafe,
      AddressExclusive
<1>8. NoAddressSkipped'
  BY <1>1
  DEF NoAddressSkipped, TypeOK
<1>9. QED BY <1>2, <1>3, <1>4, <1>5, <1>6, <1>7, <1>8

(* removeVM of a VM whose address another one has as well. *)
LEMMA RemoveSharedIInv ==
    ASSUME IInv, NEW o \in Owners, RemoveShared(o)
    PROVE  IInv'
<1> USE DEF IInv
<1>1. /\ serving /\ progress = "free" /\ owner[o] = "live"
      /\ \E p \in Owners \ {o} : owner[p] = "live" /\ held[p] = held[o]
      /\ owner' = [owner EXCEPT ![o] = "gone"] /\ held' = [held EXCEPT ![o] = NoIP]
      /\ UNCHANGED <<allocated, nextIndex, pending, serving, progress, subject, lease,
                     manual, loose>>
  BY DEF RemoveShared, Gone, LiveOwners, Shared, storeState, request
<1>2. TypeOK'
  BY <1>1, NoIPFacts, SizeAssumption
  DEF TypeOK, Addr, Stages
<1>3. OwnerLife'
  BY <1>1, NoIPFacts
  DEF OwnerLife, TypeOK, Stages, IntentIsSafe
<1>4. AddressExclusive'
  BY <1>1, NoIPFacts
  DEF AddressExclusive, TypeOK, HeldIsAllocated, InHandIsSafe, InHand, OwnerLife
<1>5. HeldIsAllocated'
  BY <1>1, NoIPFacts
  DEF HeldIsAllocated, TypeOK, InHandIsSafe, InHand, OwnerLife, IntentIsSafe
<1>6. IntentIsSafe'
  BY <1>1, NoIPFacts
  DEF IntentIsSafe, TypeOK, LiveOwners, OwnerLife, InHandIsSafe, AddressExclusive,
      HeldIsAllocated, InHand
<1>7. InHandIsSafe'
  BY <1>1, NoIPFacts
  DEF InHandIsSafe, TypeOK, InHand, OwnerLife, HeldIsAllocated, IntentIsSafe,
      AddressExclusive
<1>8. NoAddressSkipped'
  BY <1>1
  DEF NoAddressSkipped, TypeOK
<1>9. QED BY <1>2, <1>3, <1>4, <1>5, <1>6, <1>7, <1>8

(* mgr.Remove in removeVM or in handleRun's rollback. *)
LEMMA RemoveIInv ==
    ASSUME IInv, NEW o \in Owners, Remove(o)
    PROVE  IInv'
<1> USE DEF IInv
<1>1. /\ progress \in {"start", "remove"} /\ o \in subject
      /\ owner' = [owner EXCEPT ![o] = "gone"] /\ held' = [held EXCEPT ![o] = NoIP]
      /\ progress' = "release" /\ subject' = {}
      /\ UNCHANGED <<allocated, nextIndex, pending, serving, lease, manual, loose>>
  BY DEF Remove, Gone, storeState
<1>2. TypeOK'
  BY <1>1, NoIPFacts, SizeAssumption
  DEF TypeOK, Addr, Stages
<1>3. OwnerLife'
  BY <1>1, NoIPFacts
  DEF OwnerLife, TypeOK, Stages, IntentIsSafe
<1>4. AddressExclusive'
  BY <1>1, NoIPFacts
  DEF AddressExclusive, TypeOK, HeldIsAllocated, InHandIsSafe, InHand, OwnerLife
<1>5. HeldIsAllocated'
  BY <1>1, NoIPFacts
  DEF HeldIsAllocated, TypeOK, InHandIsSafe, InHand, OwnerLife, IntentIsSafe
<1>6. IntentIsSafe'
  BY <1>1, NoIPFacts
  DEF IntentIsSafe, TypeOK, LiveOwners, OwnerLife, InHandIsSafe, AddressExclusive,
      HeldIsAllocated, InHand
<1>7. InHandIsSafe'
  BY <1>1, NoIPFacts
  DEF InHandIsSafe, TypeOK, InHand, OwnerLife, HeldIsAllocated, IntentIsSafe,
      AddressExclusive
<1>8. NoAddressSkipped'
  BY <1>1
  DEF NoAddressSkipped, TypeOK
<1>9. QED BY <1>2, <1>3, <1>4, <1>5, <1>6, <1>7, <1>8

(* The last step of removeVM and of handleRun's rollbacks. *)
LEMMA ReleaseIPIInv ==
    ASSUME IInv, ReleaseIP
    PROVE  IInv'
<1> USE DEF IInv
<1>1. /\ progress = "release" /\ Free(lease)
      /\ progress' = "free" /\ subject' = {} /\ lease' = NoIP
      /\ UNCHANGED <<owner, held, serving, manual, loose>>
  BY DEF ReleaseIP, Enter
<1>2. /\ allocated' = allocated \ {lease}
      /\ allocated' \subseteq Addr /\ nextIndex' \in 2 .. Size /\ NoAddressSkipped'
      /\ pending' \in [Owners -> Addr \cup {NoIP}]
      /\ \A o \in Owners : pending'[o] # NoIP => pending'[o] = pending[o] /\ pending[o] # lease
  BY <1>1, FreeFacts
<1>3. TypeOK'
  BY <1>1, <1>2, NoIPFacts, SizeAssumption
  DEF TypeOK, Addr, Stages
<1>4. OwnerLife'
  BY <1>1, <1>2, NoIPFacts
  DEF OwnerLife, TypeOK, Stages, IntentIsSafe
<1>5. AddressExclusive'
  BY <1>1, <1>2, NoIPFacts
  DEF AddressExclusive, TypeOK, HeldIsAllocated, InHandIsSafe, InHand, OwnerLife
<1>6. HeldIsAllocated'
  BY <1>1, <1>2, NoIPFacts
  DEF HeldIsAllocated, TypeOK, InHandIsSafe, InHand, OwnerLife, IntentIsSafe
<1>7. IntentIsSafe'
  BY <1>1, <1>2, NoIPFacts
  DEF IntentIsSafe, TypeOK, LiveOwners, OwnerLife, InHandIsSafe, AddressExclusive,
      HeldIsAllocated, InHand
<1>8. InHandIsSafe'
  BY <1>1, <1>2, NoIPFacts
  DEF InHandIsSafe, TypeOK, InHand, OwnerLife, HeldIsAllocated, IntentIsSafe,
      AddressExclusive
<1>9. QED BY <1>3, <1>4, <1>5, <1>6, <1>7, <1>8, <1>2

(* Network.AllocateIP. *)
LEMMA AllocateManualIInv ==
    ASSUME IInv, NEW ip \in Addr, AllocateManual(ip)
    PROVE  IInv'
<1> USE DEF IInv
<1>1. /\ serving /\ Take(ip) /\ manual' = manual \cup {ip}
      /\ UNCHANGED <<pending, owner, held, serving, progress, subject, lease, loose>>
  BY DEF AllocateManual, request
<1>2. /\ ip \notin allocated /\ allocated' = allocated \cup {ip}
      /\ allocated' \subseteq Addr /\ nextIndex' \in 2 .. Size /\ NoAddressSkipped'
  BY <1>1, TakeFacts
<1>3. TypeOK'
  BY <1>1, <1>2, NoIPFacts, SizeAssumption
  DEF TypeOK, Addr, Stages
<1>4. OwnerLife'
  BY <1>1, <1>2, NoIPFacts
  DEF OwnerLife, TypeOK, Stages, IntentIsSafe
<1>5. AddressExclusive'
  BY <1>1, <1>2, NoIPFacts
  DEF AddressExclusive, TypeOK, HeldIsAllocated, InHandIsSafe, InHand, OwnerLife
<1>6. HeldIsAllocated'
  BY <1>1, <1>2, NoIPFacts
  DEF HeldIsAllocated, TypeOK, InHandIsSafe, InHand, OwnerLife, IntentIsSafe
<1>7. IntentIsSafe'
  BY <1>1, <1>2, NoIPFacts
  DEF IntentIsSafe, TypeOK, LiveOwners, OwnerLife, InHandIsSafe, AddressExclusive,
      HeldIsAllocated, InHand
<1>8. InHandIsSafe'
  BY <1>1, <1>2, NoIPFacts
  DEF InHandIsSafe, TypeOK, InHand, OwnerLife, HeldIsAllocated, IntentIsSafe,
      AddressExclusive
<1>9. QED BY <1>3, <1>4, <1>5, <1>6, <1>7, <1>8, <1>2

(* Network.ReleaseIP, of any address. *)
LEMMA ReleaseManualIInv ==
    ASSUME IInv, NEW ip \in Addr, ReleaseManual(ip)
    PROVE  IInv'
<1> USE DEF IInv
<1>1. /\ serving /\ Free(ip) /\ manual' = manual \ {ip}
      /\ loose \subseteq loose' /\ loose' \subseteq loose \cup {ip}
      /\ ip = Gateway \/ ip = lease => ip \in loose'
      /\ \A o \in Owners : owner[o] = "live" /\ held[o] = ip => ip \in loose'
      /\ UNCHANGED <<owner, held, serving, progress, subject, lease>>
  BY DEF ReleaseManual, InUse, LiveOwners, request
<1>2. /\ allocated' = allocated \ {ip}
      /\ allocated' \subseteq Addr /\ nextIndex' \in 2 .. Size /\ NoAddressSkipped'
      /\ pending' \in [Owners -> Addr \cup {NoIP}]
      /\ \A o \in Owners : pending'[o] # NoIP => pending'[o] = pending[o] /\ pending[o] # ip
  BY <1>1, FreeFacts
<1>3. TypeOK'
  BY <1>1, <1>2, NoIPFacts, SizeAssumption
  DEF TypeOK, Addr, Stages
<1>4. OwnerLife'
  BY <1>1, <1>2, NoIPFacts
  DEF OwnerLife, TypeOK, Stages, IntentIsSafe
<1>5. AddressExclusive'
  BY <1>1, <1>2, NoIPFacts
  DEF AddressExclusive, TypeOK, HeldIsAllocated, InHandIsSafe, InHand, OwnerLife
<1>6. HeldIsAllocated'
  BY <1>1, <1>2, NoIPFacts
  DEF HeldIsAllocated, TypeOK, InHandIsSafe, InHand, OwnerLife, IntentIsSafe
<1>7. IntentIsSafe'
  BY <1>1, <1>2, NoIPFacts
  DEF IntentIsSafe, TypeOK, LiveOwners, OwnerLife, InHandIsSafe, AddressExclusive,
      HeldIsAllocated, InHand
<1>8. InHandIsSafe'
  BY <1>1, <1>2, NoIPFacts
  DEF InHandIsSafe, TypeOK, InHand, OwnerLife, HeldIsAllocated, IntentIsSafe,
      AddressExclusive
<1>9. QED BY <1>3, <1>4, <1>5, <1>6, <1>7, <1>8, <1>2

(* The daemon exits. *)
LEMMA CrashIInv ==
    ASSUME IInv, Crash
    PROVE  IInv'
<1> USE DEF IInv
<1>1. /\ serving' = FALSE /\ progress' = "free" /\ subject' = {} /\ lease' = NoIP
      /\ UNCHANGED <<allocated, nextIndex, pending, owner, held, manual, loose>>
  BY DEF Crash, Enter, storeState
<1>2. TypeOK'
  BY <1>1, NoIPFacts, SizeAssumption
  DEF TypeOK, Addr, Stages
<1>3. OwnerLife'
  BY <1>1, NoIPFacts
  DEF OwnerLife, TypeOK, Stages, IntentIsSafe
<1>4. AddressExclusive'
  BY <1>1, NoIPFacts
  DEF AddressExclusive, TypeOK, HeldIsAllocated, InHandIsSafe, InHand, OwnerLife
<1>5. HeldIsAllocated'
  BY <1>1, NoIPFacts
  DEF HeldIsAllocated, TypeOK, InHandIsSafe, InHand, OwnerLife, IntentIsSafe
<1>6. IntentIsSafe'
  BY <1>1, NoIPFacts
  DEF IntentIsSafe, TypeOK, LiveOwners, OwnerLife, InHandIsSafe, AddressExclusive,
      HeldIsAllocated, InHand
<1>7. InHandIsSafe'
  BY <1>1, NoIPFacts
  DEF InHandIsSafe, TypeOK, InHand, OwnerLife, HeldIsAllocated, IntentIsSafe,
      AddressExclusive
<1>8. NoAddressSkipped'
  BY <1>1
  DEF NoAddressSkipped, TypeOK
<1>9. QED BY <1>2, <1>3, <1>4, <1>5, <1>6, <1>7, <1>8

(* Serve recovers the intents. *)
LEMMA RecoverReleasesIInv ==
    ASSUME IInv, RecoverReleases
    PROVE  IInv'
<1> USE DEF IInv
<1>1. /\ ~serving /\ serving' = TRUE
      /\ allocated' \subseteq allocated
      /\ allocated' = {ip \in allocated : \A o \in Owners : owner[o] # "live" => pending[o] # ip}
      /\ (allocated' = allocated /\ nextIndex' = nextIndex) \/ nextIndex' = 2
      /\ pending' = [o \in Owners |-> NoIP]
      /\ UNCHANGED <<owner, held, progress, subject, lease, manual, loose>>
  BY DEF RecoverReleases, Reclaimed, LiveOwners, request
<1>2. TypeOK'
  <2>1. allocated' \subseteq Addr /\ nextIndex' \in 2 .. Size
    BY <1>1, SizeAssumption DEF TypeOK
  <2>2. pending' \in [Owners -> Addr \cup {NoIP}] BY <1>1
  <2>3. QED BY <1>1, <2>1, <2>2 DEF TypeOK
<1>3. OwnerLife'
  BY <1>1, NoIPFacts
  DEF OwnerLife, TypeOK, Stages, IntentIsSafe
<1>4. AddressExclusive'
  BY <1>1, NoIPFacts
  DEF AddressExclusive, TypeOK, HeldIsAllocated, InHandIsSafe, InHand, OwnerLife
<1>5. HeldIsAllocated'
  BY <1>1, NoIPFacts
  DEF HeldIsAllocated, TypeOK, InHandIsSafe, InHand, OwnerLife, IntentIsSafe
<1>6. IntentIsSafe'
  BY <1>1, NoIPFacts
  DEF IntentIsSafe, TypeOK, LiveOwners, OwnerLife, InHandIsSafe, AddressExclusive,
      HeldIsAllocated, InHand
<1>7. InHandIsSafe'
  BY <1>1, NoIPFacts
  DEF InHandIsSafe, TypeOK, InHand, OwnerLife, HeldIsAllocated, IntentIsSafe,
      AddressExclusive
<1>8. NoAddressSkipped'
  BY <1>1
  DEF NoAddressSkipped, TypeOK
<1>9. QED BY <1>2, <1>3, <1>4, <1>5, <1>6, <1>7, <1>8

(* Every step of the bookkeeping preserves the invariant. *)
LEMMA NextIInv == IInv /\ [Next]_vars => IInv'
<1> SUFFICES ASSUME IInv, [Next]_vars PROVE IInv' OBVIOUS
<1>1. ASSUME NEW o \in Owners,
             Create(o) \/ PrepareRelease(o) \/ RemoveShared(o) \/ Remove(o)
      PROVE IInv'
  BY <1>1, CreateIInv, PrepareReleaseIInv, RemoveSharedIInv, RemoveIInv
<1>2. ASSUME NEW ip \in Addr,
             AllocateIP(ip) \/ ReserveIP(ip) \/ AllocateManual(ip) \/ ReleaseManual(ip)
      PROVE IInv'
  BY <1>2, AllocateIPIInv, ReserveIPIInv, AllocateManualIInv, ReleaseManualIInv
<1>3. CASE CreateFails \/ Finish \/ ReleaseIP \/ Crash \/ RecoverReleases
  BY <1>3, CreateFailsIInv, FinishIInv, ReleaseIPIInv, CrashIInv, RecoverReleasesIInv
<1>4. CASE UNCHANGED vars
  BY <1>4 DEF vars, IInv, TypeOK, OwnerLife, AddressExclusive, HeldIsAllocated,
      IntentIsSafe,
              InHandIsSafe, InHand, LiveOwners, NoAddressSkipped
<1>5. QED BY <1>1, <1>2, <1>3, <1>4 DEF Next

(* The inductive invariant holds in every reachable state, for every subnet size *)
(* and every set of VMs, whatever addresses clients return by hand.              *)
THEOREM Inductive == Spec => []IInv
<1>1. Init => IInv BY InitIInv
<1>2. IInv /\ [Next]_vars => IInv' BY NextIInv
<1>3. QED BY <1>1, <1>2, PTL DEF Spec

(* Type correctness of the network state. *)
THEOREM TypeCorrect == Spec => []TypeOK
<1>1. IInv => TypeOK BY DEF IInv
<1>2. QED BY <1>1, Inductive, PTL

(* No two VMs, manual allocations or the gateway share an address, across any    *)
(* number of removals, crashes and recoveries, unless a client returned that     *)
(* very address by hand while it was in use.                                     *)
THEOREM ExclusiveAddresses == Spec => []AddressExclusive
<1>1. IInv => AddressExclusive BY DEF IInv
<1>2. QED BY <1>1, Inductive, PTL

(* Carrying out a removal intent never takes an address from another VM.         *)
THEOREM SafeIntents == Spec => []IntentIsSafe
<1>1. IInv => IntentIsSafe BY DEF IInv
<1>2. QED BY <1>1, Inductive, PTL

(* AllocateIP answers "no available IPs" only when the network is full.          *)
THEOREM ExhaustionIsReal == Spec => []NoFalseExhaustion
<1>1. IInv => NoFalseExhaustion
  <2> SUFFICES ASSUME IInv, Candidates = {}, NEW i \in Scanned PROVE i \in allocated
    BY DEF NoFalseExhaustion
  <2>1. nextIndex \in 2 .. Size BY DEF IInv, TypeOK
  <2>2. CASE i >= nextIndex BY <2>2 DEF Candidates, CandidatesFrom
  <2>3. CASE ~(i >= nextIndex)
    <3>1. i \in 2 .. nextIndex - 1
      BY <2>1, <2>3, SizeAssumption DEF Scanned
    <3>2. QED BY <3>1 DEF IInv, NoAddressSkipped
  <2>4. QED BY <2>2, <2>3
<1>2. QED BY <1>1, Inductive, PTL

(* A VM gets the broadcast address only when every other one is in use, and the  *)
(* network address never: the scan of AllocateIP takes the first free address,   *)
(* and ReserveIP refuses both.                                                   *)
THEOREM BroadcastGoesLast == Spec => BroadcastIsLast
<1>1. IInv /\ [Next]_vars => [BroadcastComesLast]_vars
  <2> SUFFICES ASSUME IInv, Next, progress # "run", progress' = "run",
                      lease' \in {0, Broadcast}
               PROVE  lease' # 0 /\ Scanned \ {Broadcast} \subseteq allocated
    BY DEF BroadcastComesLast
  <2>1. nextIndex \in 2 .. Size /\ \A i \in 2 .. nextIndex - 1 : i \in allocated
    BY DEF IInv, TypeOK, NoAddressSkipped
  <2>2. PICK ip \in Addr : AllocateIP(ip) \/ ReserveIP(ip)
    BY DEF Next, Create, CreateFails, Finish, PrepareRelease, RemoveShared, Remove,
      ReleaseIP,
           AllocateManual, ReleaseManual, Crash, RecoverReleases, Enter, request
  <2>3. lease' = ip BY <2>2 DEF AllocateIP, ReserveIP, Enter
  <2>4. ~ReserveIP(ip) BY <2>3, <2>2 DEF ReserveIP, networkOrBroadcast
  <2>5. FirstCandidate(ip) BY <2>2, <2>4 DEF AllocateIP, Take
  <2>6. /\ ip \in 2 .. Size - 1
        /\ \A j \in 2 .. Size - 1 : j >= nextIndex /\ j \notin allocated => ip <= j
    BY <2>5 DEF FirstCandidate, Candidates, CandidatesFrom, Scanned
  <2>7. ip = Size - 1 BY <2>3, <2>6, SizeAssumption DEF Broadcast
  <2>8. ASSUME NEW j \in 2 .. Size - 1, j # Size - 1 PROVE j \in allocated
    BY <2>1, <2>6, <2>7, <2>8, SizeAssumption
  <2>9. QED BY <2>3, <2>6, <2>7, <2>8, SizeAssumption DEF Broadcast, Scanned
<1>2. QED BY <1>1, Inductive, PTL DEF Spec, BroadcastIsLast

-----------------------------------------------------------------------------
(***************************************************************************)
(* SQLiteStore, for every set of VMs, file-backed or not, and any number   *)
(* of daemon restarts.  StoreIsDurable speaks of a daemon that is up.      *)
(* What carries it over a restart is what holds between the daemons: a     *)
(* process that was saved has a row that says active (LiveIsRecorded), a   *)
(* removed VM has no row, and the files still name every VM of the         *)
(* file-backed store.                                                      *)
(***************************************************************************)

(* The variables have their types. *)
StoreTypeOK ==
    /\ phase \in {"down", "opened", "up"}
    /\ file \in [VMs -> States \cup {NoVM}]
    /\ row \in [VMs -> States \cup {NoVM}]
    /\ mem \in [VMs -> States \cup {NoVM}]
    /\ live \subseteq VMs
    /\ owned \subseteq VMs
    /\ saving \subseteq VMs
    /\ gone \subseteq VMs

(* The files name the file-backed VMs and nobody else, for ever. *)
FilesStay == \A v \in VMs : file[v] # NoVM <=> v \in Legacy

(* Between two daemons a process that was saved can be found again from its    *)
(* row.  A VM that was removed has left no row, and a start leaves none until  *)
(* it is complete.                                                             *)
LiveIsRecorded ==
    \A v \in VMs \ Legacy : /\ phase # "up" /\ v \in live \ stray => row[v] \in Active
                            /\ v \in gone => row[v] = NoVM
                            /\ row[v] # "starting"

(* Before Restore the registry holds what the migration put there. *)
BeforeRestore ==
    /\ phase # "up" => saving = {} /\ \A v \in VMs \ Legacy : mem[v] = NoVM
    /\ phase = "opened" => \A v \in Legacy : mem[v] # NoVM

(* After Restore registry and rows agree up to the Saves under way and the     *)
(* starts, and an active VM that is past its launch has a watched process.     *)
AfterRestore ==
    phase = "up" =>
        \A v \in VMs \ Legacy :
            /\ mem[v] # NoVM <=> row[v] # NoVM
            /\ row[v] # mem[v] /\ v \notin saving =>
                  \/ row[v] = "created" /\ mem[v] \in {"starting", "stopped"}
                  \/ row[v] \in Active /\ mem[v] = "running"
            /\ v \in saving => mem[v] \in {"running", "stopping", "stopped"} \/ v \in gone
            /\ v \in live \ stray => v \in owned
            /\ v \in owned => mem[v] \in Active
            /\ mem[v] \in {"running", "stopping"} => v \in owned

StoreIInv ==
    /\ StoreTypeOK
    /\ FilesStay
    /\ LiveIsRecorded
    /\ BeforeRestore
    /\ AfterRestore
    /\ NothingLost

LEMMA StateFacts == NoVM \notin States /\ Active \subseteq States
  BY NoVMAssumption DEF States, Active

(* A file-backed daemon has left its VMs, and the database is empty. *)
LEMMA StoreInitIInv == StoreInit => StoreIInv
<1> SUFFICES ASSUME StoreInit PROVE StoreIInv
  OBVIOUS
<1> USE StateFacts, LegacyAssumption DEF StoreInit
<1>1. StoreTypeOK BY DEF StoreTypeOK
<1>2. FilesStay BY DEF FilesStay
<1>3. LiveIsRecorded BY DEF LiveIsRecorded, States
<1>4. BeforeRestore BY DEF BeforeRestore
<1>5. AfterRestore /\ NothingLost BY DEF AfterRestore, NothingLost
<1>6. QED BY <1>1, <1>2, <1>3, <1>4, <1>5 DEF StoreIInv

(* newVMStore opens the database and enters the file records. *)
LEMMA StoreMigrateIInv ==
    ASSUME StoreIInv, Migrate
    PROVE  StoreIInv'
<1> USE StateFacts, LegacyAssumption DEF StoreIInv
<1>1. /\ phase = "down" /\ phase' = "opened"
      /\ mem' = [v \in VMs |-> Migrated(v)]
      /\ UNCHANGED <<file, row, live, owned, saving, gone, stray>>
  BY DEF Migrate
<1>2. \A v \in VMs : /\ Migrated(v) \in States \cup {NoVM}
                     /\ Migrated(v) = NoVM <=> file[v] = NoVM
  BY DEF Migrated, StoreTypeOK, States
<1>3. StoreTypeOK' BY <1>1, <1>2 DEF StoreTypeOK, States
<1>4. FilesStay' BY <1>1, <1>2 DEF FilesStay
<1>5. LiveIsRecorded' BY <1>1, <1>2 DEF LiveIsRecorded, StoreTypeOK, AfterRestore, States,
      Active
<1>6. BeforeRestore' BY <1>1, <1>2 DEF BeforeRestore, StoreTypeOK, FilesStay
<1>7. AfterRestore' BY <1>1, <1>2 DEF AfterRestore, StoreTypeOK, LiveIsRecorded, States,
      Active
<1>8. NothingLost' BY <1>1, <1>2 DEF NothingLost, StoreTypeOK, BeforeRestore, States
<1>9. QED BY <1>3, <1>4, <1>5, <1>6, <1>7, <1>8

(* Restore: the rows enter the registry and dead VMs are saved as stopped. *)
LEMMA StoreRestoreIInv ==
    ASSUME StoreIInv, StoreRestore
    PROVE  StoreIInv'
<1> USE StateFacts, LegacyAssumption DEF StoreIInv
<1>1. /\ phase = "opened" /\ phase' = "up"
      /\ mem' = [v \in VMs |-> IF row[v] # NoVM THEN Recovered(v) ELSE mem[v]]
      /\ row' = [v \in VMs |-> IF row[v] \in Active /\ v \notin live THEN "stopped" ELSE row[v]]
      /\ owned' = {v \in live : row[v] \in Active}
      /\ UNCHANGED <<file, live, saving, gone, stray>>
  BY DEF StoreRestore
<1>2. \A v \in VMs :
        /\ row[v] \in Active /\ v \in live => Recovered(v) = "running"
        /\ row[v] \in Active /\ v \notin live => Recovered(v) = "stopped"
        /\ row[v] \notin Active => Recovered(v) = row[v]
  BY DEF Recovered
<1>3. StoreTypeOK' BY <1>1, <1>2 DEF StoreTypeOK, States
<1>4. FilesStay' BY <1>1, <1>2 DEF FilesStay
<1>5. LiveIsRecorded' BY <1>1, <1>2 DEF LiveIsRecorded, StoreTypeOK, AfterRestore, States,
      Active
<1>6. BeforeRestore' BY <1>1, <1>2 DEF BeforeRestore, StoreTypeOK, FilesStay
<1>7. AfterRestore' BY <1>1, <1>2 DEF AfterRestore, StoreTypeOK, LiveIsRecorded,
      BeforeRestore, States, Active
<1>8. NothingLost' BY <1>1, <1>2 DEF NothingLost, StoreTypeOK, BeforeRestore, States
<1>9. QED BY <1>3, <1>4, <1>5, <1>6, <1>7, <1>8

(* A run request registers a VM and writes its row. *)
LEMMA StoreCreateIInv ==
    ASSUME StoreIInv, NEW v \in VMs, StoreCreate(v)
    PROVE  StoreIInv'
<1> USE StateFacts, LegacyAssumption DEF StoreIInv
<1>1. /\ phase = "up" /\ mem[v] = NoVM /\ v \notin gone \cup Legacy
      /\ mem' = [mem EXCEPT ![v] = "created"]
      /\ row' = [row EXCEPT ![v] = "created"]
      /\ UNCHANGED <<phase, file, live, owned, saving, gone, stray>>
  BY DEF StoreCreate, writeVM, StoreTypeOK, States
<1>2. StoreTypeOK' BY <1>1 DEF StoreTypeOK, States
<1>3. FilesStay' BY <1>1 DEF FilesStay
<1>4. LiveIsRecorded' BY <1>1 DEF LiveIsRecorded, StoreTypeOK, AfterRestore, States, Active
<1>5. BeforeRestore' BY <1>1 DEF BeforeRestore, StoreTypeOK, FilesStay
<1>6. AfterRestore' BY <1>1 DEF AfterRestore, StoreTypeOK, LiveIsRecorded, States, Active
<1>7. NothingLost' BY <1>1 DEF NothingLost, StoreTypeOK, BeforeRestore, States
<1>8. QED BY <1>2, <1>3, <1>4, <1>5, <1>6, <1>7

(* A manager begins a start. *)
LEMMA StoreBeginIInv ==
    ASSUME StoreIInv, NEW v \in VMs, Begin(v)
    PROVE  StoreIInv'
<1> USE StateFacts, LegacyAssumption DEF StoreIInv
<1>1. /\ phase = "up" /\ mem[v] \in {"created"}
      /\ mem' = [mem EXCEPT ![v] = "starting"]
      /\ UNCHANGED <<owned, saving>>
      /\ UNCHANGED <<phase, file, row, live, gone, stray>>
  BY DEF Begin, Transition
<1>2. StoreTypeOK' BY <1>1 DEF StoreTypeOK, States
<1>3. FilesStay' BY <1>1 DEF FilesStay
<1>4. LiveIsRecorded' BY <1>1 DEF LiveIsRecorded, StoreTypeOK, AfterRestore, States, Active
<1>5. BeforeRestore' BY <1>1 DEF BeforeRestore, StoreTypeOK, FilesStay
<1>6. AfterRestore' BY <1>1 DEF AfterRestore, StoreTypeOK, LiveIsRecorded, States, Active
<1>7. NothingLost' BY <1>1 DEF NothingLost, StoreTypeOK, BeforeRestore, States
<1>8. QED BY <1>2, <1>3, <1>4, <1>5, <1>6, <1>7

(* A start fails before its process runs. *)
LEMMA StoreLaunchFailsIInv ==
    ASSUME StoreIInv, NEW v \in VMs, LaunchFails(v)
    PROVE  StoreIInv'
<1> USE StateFacts, LegacyAssumption DEF StoreIInv
<1>1. /\ phase = "up" /\ mem[v] \in {"starting"}
      /\ mem' = [mem EXCEPT ![v] = "stopped"]
      /\ v \notin owned /\ UNCHANGED <<owned, saving>>
      /\ UNCHANGED <<phase, file, row, live, gone, stray>>
  BY DEF LaunchFails, Transition
<1>2. StoreTypeOK' BY <1>1 DEF StoreTypeOK, States
<1>3. FilesStay' BY <1>1 DEF FilesStay
<1>4. LiveIsRecorded' BY <1>1 DEF LiveIsRecorded, StoreTypeOK, AfterRestore, States, Active
<1>5. BeforeRestore' BY <1>1 DEF BeforeRestore, StoreTypeOK, FilesStay
<1>6. AfterRestore' BY <1>1 DEF AfterRestore, StoreTypeOK, LiveIsRecorded, States, Active
<1>7. NothingLost' BY <1>1 DEF NothingLost, StoreTypeOK, BeforeRestore, States
<1>8. QED BY <1>2, <1>3, <1>4, <1>5, <1>6, <1>7

(* A start launches its process. *)
LEMMA StoreLaunchIInv ==
    ASSUME StoreIInv, NEW v \in VMs, Launch(v)
    PROVE  StoreIInv'
<1> USE StateFacts, LegacyAssumption DEF StoreIInv
<1>1. /\ phase = "up" /\ mem[v] = "starting"
      /\ live' = live \cup {v} /\ owned' = owned \cup {v}
      /\ UNCHANGED <<phase, file, row, mem, saving, gone, stray>>
  BY DEF Launch
<1>2. StoreTypeOK' BY <1>1 DEF StoreTypeOK, States
<1>3. FilesStay' BY <1>1 DEF FilesStay
<1>4. LiveIsRecorded' BY <1>1 DEF LiveIsRecorded, StoreTypeOK, AfterRestore, States, Active
<1>5. BeforeRestore' BY <1>1 DEF BeforeRestore, StoreTypeOK, FilesStay
<1>6. AfterRestore' BY <1>1 DEF AfterRestore, StoreTypeOK, LiveIsRecorded, States, Active
<1>7. NothingLost' BY <1>1 DEF NothingLost, StoreTypeOK, BeforeRestore, States
<1>8. QED BY <1>2, <1>3, <1>4, <1>5, <1>6, <1>7

(* A start is complete but for its Save. *)
LEMMA StoreLaunchedIInv ==
    ASSUME StoreIInv, NEW v \in VMs, Launched(v)
    PROVE  StoreIInv'
<1> USE StateFacts, LegacyAssumption DEF StoreIInv
<1>1. /\ phase = "up" /\ mem[v] \in {"starting"}
      /\ mem' = [mem EXCEPT ![v] = "running"]
      /\ v \in owned /\ owned' = owned /\ saving' = saving \cup {v}
      /\ UNCHANGED <<phase, file, row, live, gone, stray>>
  BY DEF Launched, Transition
<1>2. StoreTypeOK' BY <1>1 DEF StoreTypeOK, States
<1>3. FilesStay' BY <1>1 DEF FilesStay
<1>4. LiveIsRecorded' BY <1>1 DEF LiveIsRecorded, StoreTypeOK, AfterRestore, States, Active
<1>5. BeforeRestore' BY <1>1 DEF BeforeRestore, StoreTypeOK, FilesStay
<1>6. AfterRestore' BY <1>1 DEF AfterRestore, StoreTypeOK, LiveIsRecorded, States, Active
<1>7. NothingLost' BY <1>1 DEF NothingLost, StoreTypeOK, BeforeRestore, States
<1>8. QED BY <1>2, <1>3, <1>4, <1>5, <1>6, <1>7

(* A stop begins. *)
LEMMA StoreBeginStopIInv ==
    ASSUME StoreIInv, NEW v \in VMs, BeginStop(v)
    PROVE  StoreIInv'
<1> USE StateFacts, LegacyAssumption DEF StoreIInv
<1>1. /\ phase = "up" /\ mem[v] \in {"running"}
      /\ mem' = [mem EXCEPT ![v] = "stopping"]
      /\ owned' = owned /\ saving' = saving \cup {v}
      /\ UNCHANGED <<phase, file, row, live, gone, stray>>
  BY DEF BeginStop, Transition
<1>2. StoreTypeOK' BY <1>1 DEF StoreTypeOK, States
<1>3. FilesStay' BY <1>1 DEF FilesStay
<1>4. LiveIsRecorded' BY <1>1 DEF LiveIsRecorded, StoreTypeOK, AfterRestore, States, Active
<1>5. BeforeRestore' BY <1>1 DEF BeforeRestore, StoreTypeOK, FilesStay
<1>6. AfterRestore' BY <1>1 DEF AfterRestore, StoreTypeOK, LiveIsRecorded, States, Active
<1>7. NothingLost' BY <1>1 DEF NothingLost, StoreTypeOK, BeforeRestore, States
<1>8. QED BY <1>2, <1>3, <1>4, <1>5, <1>6, <1>7

(* A hypervisor ends. *)
LEMMA StoreDieIInv ==
    ASSUME StoreIInv, NEW v \in VMs, Die(v)
    PROVE  StoreIInv'
<1> USE StateFacts, LegacyAssumption DEF StoreIInv
<1>1. /\ live' = live \ {v}
      /\ UNCHANGED <<phase, file, row, mem, owned, saving, gone, stray>>
  BY DEF Die
<1>2. StoreTypeOK' BY <1>1 DEF StoreTypeOK, States
<1>3. FilesStay' BY <1>1 DEF FilesStay
<1>4. LiveIsRecorded' BY <1>1 DEF LiveIsRecorded, StoreTypeOK, AfterRestore, States, Active
<1>5. BeforeRestore' BY <1>1 DEF BeforeRestore, StoreTypeOK, FilesStay
<1>6. AfterRestore' BY <1>1 DEF AfterRestore, StoreTypeOK, LiveIsRecorded, States, Active
<1>7. NothingLost' BY <1>1 DEF NothingLost, StoreTypeOK, BeforeRestore, States
<1>8. QED BY <1>2, <1>3, <1>4, <1>5, <1>6, <1>7

(* The monitor of a process that has ended. *)
LEMMA StoreMonitorEndsIInv ==
    ASSUME StoreIInv, NEW v \in VMs, MonitorEnds(v)
    PROVE  StoreIInv'
<1> USE StateFacts, LegacyAssumption DEF StoreIInv
<1>1. /\ phase = "up" /\ mem[v] \in Active
      /\ mem' = [mem EXCEPT ![v] = "stopped"]
      /\ v \notin live /\ owned' = owned \ {v} /\ saving' = saving \cup {v}
      /\ UNCHANGED <<phase, file, row, live, gone, stray>>
  BY DEF MonitorEnds, Transition
<1>2. StoreTypeOK' BY <1>1 DEF StoreTypeOK, States
<1>3. FilesStay' BY <1>1 DEF FilesStay
<1>4. LiveIsRecorded' BY <1>1 DEF LiveIsRecorded, StoreTypeOK, AfterRestore, States, Active
<1>5. BeforeRestore' BY <1>1 DEF BeforeRestore, StoreTypeOK, FilesStay
<1>6. AfterRestore' BY <1>1 DEF AfterRestore, StoreTypeOK, LiveIsRecorded, States, Active
<1>7. NothingLost' BY <1>1 DEF NothingLost, StoreTypeOK, BeforeRestore, States
<1>8. QED BY <1>2, <1>3, <1>4, <1>5, <1>6, <1>7

(* Save writes the state the VM has by now. *)
LEMMA StoreSaveIInv ==
    ASSUME StoreIInv, NEW v \in VMs, Save(v)
    PROVE  StoreIInv'
<1> USE StateFacts, LegacyAssumption DEF StoreIInv
<1>1. /\ phase = "up" /\ v \in saving /\ saving' = saving \ {v}
      /\ row' = IF mem[v] # NoVM THEN [row EXCEPT ![v] = mem[v]] ELSE row
      /\ UNCHANGED <<phase, file, mem, live, owned, gone, stray>>
  BY DEF Save, writeVM
<1>2. StoreTypeOK' BY <1>1 DEF StoreTypeOK, States
<1>3. FilesStay' BY <1>1 DEF FilesStay
<1>4. LiveIsRecorded' BY <1>1 DEF LiveIsRecorded, StoreTypeOK, AfterRestore, States, Active
<1>5. BeforeRestore' BY <1>1 DEF BeforeRestore, StoreTypeOK, FilesStay
<1>6. AfterRestore' BY <1>1 DEF AfterRestore, StoreTypeOK, LiveIsRecorded, States, Active
<1>7. NothingLost' BY <1>1 DEF NothingLost, StoreTypeOK, BeforeRestore, States
<1>8. QED BY <1>2, <1>3, <1>4, <1>5, <1>6, <1>7

(* A remove request deletes the VM and its row. *)
LEMMA StoreRemoveIInv ==
    ASSUME StoreIInv, NEW v \in VMs, StoreRemove(v)
    PROVE  StoreIInv'
<1> USE StateFacts, LegacyAssumption DEF StoreIInv
<1>1. /\ phase = "up" /\ mem[v] \in {"created", "stopped"}
      /\ mem' = [mem EXCEPT ![v] = NoVM]
      /\ row' = [row EXCEPT ![v] = NoVM]
      /\ gone' = gone \cup {v}
      /\ UNCHANGED <<phase, file, live, owned, saving, stray>>
  BY DEF StoreRemove
<1>2. StoreTypeOK' BY <1>1 DEF StoreTypeOK, States
<1>3. FilesStay' BY <1>1 DEF FilesStay
<1>4. LiveIsRecorded' BY <1>1 DEF LiveIsRecorded, StoreTypeOK, AfterRestore, States, Active
<1>5. BeforeRestore' BY <1>1 DEF BeforeRestore, StoreTypeOK, FilesStay
<1>6. AfterRestore' BY <1>1 DEF AfterRestore, StoreTypeOK, LiveIsRecorded, States, Active
<1>7. NothingLost' BY <1>1 DEF NothingLost, StoreTypeOK, BeforeRestore, States
<1>8. QED BY <1>2, <1>3, <1>4, <1>5, <1>6, <1>7

(* The daemon exits. *)
LEMMA StoreCrashIInv ==
    ASSUME StoreIInv, StoreCrash
    PROVE  StoreIInv'
<1> USE StateFacts, LegacyAssumption DEF StoreIInv
<1>1. /\ phase # "down" /\ phase' = "down" /\ mem' = [v \in VMs |-> NoVM]
      /\ owned' = {} /\ saving' = {}
      /\ stray' = stray \cup {v \in owned \cap live : row[v] \notin Active}
      /\ UNCHANGED <<file, row, live, gone>>
  BY DEF StoreCrash
<1>2. StoreTypeOK' BY <1>1 DEF StoreTypeOK, States
<1>3. FilesStay' BY <1>1 DEF FilesStay
<1>4. LiveIsRecorded' BY <1>1 DEF LiveIsRecorded, StoreTypeOK, AfterRestore, States, Active
<1>5. BeforeRestore' BY <1>1 DEF BeforeRestore, StoreTypeOK, FilesStay
<1>6. AfterRestore' BY <1>1 DEF AfterRestore, StoreTypeOK, LiveIsRecorded, States, Active
<1>7. NothingLost' BY <1>1 DEF NothingLost, StoreTypeOK, BeforeRestore, States
<1>8. QED BY <1>2, <1>3, <1>4, <1>5, <1>6, <1>7

(* Every step of a daemon or between two daemons preserves the invariant. *)
LEMMA StoreNextIInv == StoreIInv /\ [StoreNext]_storeVars => StoreIInv'
<1> SUFFICES ASSUME StoreIInv, [StoreNext]_storeVars PROVE StoreIInv'
  OBVIOUS
<1>1. CASE Migrate \/ StoreRestore \/ StoreCrash
  BY <1>1, StoreMigrateIInv, StoreRestoreIInv, StoreCrashIInv
<1>2. ASSUME NEW v \in VMs, StoreCreate(v) \/ StoreRemove(v) \/ Save(v) PROVE StoreIInv'
  BY <1>2, StoreCreateIInv, StoreRemoveIInv, StoreSaveIInv
<1>3. ASSUME NEW v \in VMs, Begin(v) \/ LaunchFails(v) \/ Launch(v) \/ Launched(v)
      PROVE StoreIInv'
  BY <1>3, StoreBeginIInv, StoreLaunchFailsIInv, StoreLaunchIInv, StoreLaunchedIInv
<1>4. ASSUME NEW v \in VMs, BeginStop(v) \/ Die(v) \/ MonitorEnds(v) PROVE StoreIInv'
  BY <1>4, StoreBeginStopIInv, StoreDieIInv, StoreMonitorEndsIInv
<1>5. CASE UNCHANGED storeVars
  BY <1>5 DEF storeVars, StoreIInv, StoreTypeOK, FilesStay, LiveIsRecorded, BeforeRestore,
              AfterRestore, NothingLost
<1>6. QED BY <1>1, <1>2, <1>3, <1>4, <1>5 DEF StoreNext

(* The inductive invariant holds in every reachable state. *)
THEOREM StoreInductive == StoreSpec => []StoreIInv
<1>1. StoreInit => StoreIInv BY StoreInitIInv
<1>2. StoreIInv /\ [StoreNext]_storeVars => StoreIInv' BY StoreNextIInv
<1>3. QED BY <1>1, <1>2, PTL DEF StoreSpec

(* Over any number of restarts a VM created in this store is registered exactly  *)
(* until it is removed, its row has its state but for Saves and starts under     *)
(* way, its process is watched, and no file-backed VM is lost.                   *)
THEOREM StoreDurable == StoreSpec => []StoreIsDurable
<1>1. StoreIInv => NativeDurable
  BY LegacyAssumption, StateFacts
  DEF StoreIInv, NativeDurable, AfterRestore, LiveIsRecorded
<1>2. StoreIInv => StoreIsDurable BY <1>1 DEF StoreIInv, StoreIsDurable
<1>3. QED BY <1>2, StoreInductive, PTL

(* A VM that is being stopped has a process of this daemon whose end completes   *)
(* the stop, also when the daemon that began the stop is gone.                   *)
THEOREM StopsHaveProcess == StoreSpec => []StopHasProcess
<1>1. StoreIInv => StopHasProcess
  BY StateFacts DEF StoreIInv, StopHasProcess, AfterRestore, BeforeRestore, StoreTypeOK,
      States
<1>2. QED BY <1>1, StoreInductive, PTL

-----------------------------------------------------------------------------
(***************************************************************************)
(* Proofs about RestartPolicy for every set of exit codes, policies and    *)
(* limits.  The inductive invariant remembers, in the states between the   *)
(* end of a VM and its restart, what the monitor decided and on what.      *)
(***************************************************************************)

(* The variables have their types, up to what the proofs need. *)
RestartTypeOK ==
    /\ maxRetries \in Nat
    /\ acpi \in BOOLEAN
    /\ stage \in {"running", "backoff", "ended", "failed"}
    /\ count \in Nat
    /\ stage \in {"backoff", "ended"} => cause \in Causes

(* What monitor left behind holds until the replacement runs: the decision is  *)
(* that of shouldRestart on the present count, the wait that of backoff.       *)
DecisionStands ==
    /\ stage \in {"backoff", "ended"} => (stage = "backoff" <=> shouldRestart(cause))
    /\ stage = "backoff" => wait = backoff(count)

RestartIInv == RestartTypeOK /\ DecisionStands /\ RetriesAreBounded

(* The low seven bits of a guest's code reach the host, unless ACPI power-off    *)
(* loses it altogether.                                                          *)
LEMMA StatusRoundTrip ==
    ASSUME NEW c, c.code \in Nat, c.how = "guest", ~acpi
    PROVE  guestExitCode(ExitCode(c)) = c.code % 128
<1> DEFINE k == c.code % 256
<1> DEFINE m == c.code % 128
<1>1. k \in Nat /\ k < 256 /\ m \in Nat /\ m = (IF k < 128 THEN k ELSE k - 128) OBVIOUS
<1>2. (2 * k + 1) % 256 = 2 * m + 1
  <2> HIDE DEF k, m
  <2>1. CASE k < 128 BY <1>1, <2>1
  <2>2. CASE k >= 128 BY <1>1, <2>2
  <2>3. QED BY <1>1, <2>1, <2>2
<1>3. ExitCode(c) = 2 * m + 1 BY <1>2 DEF ExitCode, vm_exit
<1> HIDE DEF k, m
<1>4. guestExitCode(2 * m + 1) = m BY <1>1 DEF guestExitCode
<1>5. QED BY <1>3, <1>4 DEF m

(* What the ends of a VM look like. *)
LEMMA CauseCases ==
    ASSUME NEW c \in Causes
    PROVE  /\ c.how \in {"guest", "qemu", "signal", "poweroff", "explicit"}
           /\ c.how = "guest" => c.code \in Nat /\ c.stderr # "error"
           /\ c.how = "qemu" => c.stderr = "error"
<1>1. CASE c \in {Cause("guest", g, "") : g \in Codes}
               \cup {Cause("guest", g, "warning") : g \in Codes}
  <2>1. PICK g \in Codes, e \in {"", "warning"} : c = Cause("guest", g, e) BY <1>1
  <2>2. QED BY <2>1, CodesAssumption DEF Cause
<1>2. CASE c = Cause("qemu", 0, "error") BY <1>2 DEF Cause
<1>3. CASE c \in {Cause(h, 0, "") : h \in {"signal", "poweroff", "explicit"}}
  <2>1. PICK h \in {"signal", "poweroff", "explicit"} : c = Cause(h, 0, "") BY <1>3
  <2>2. QED BY <2>1 DEF Cause
<1>4. QED BY <1>1, <1>2, <1>3 DEF Causes

(* isFailureExit tells a failure from a clean end, but for the masked failures.  *)
LEMMA FailureIsRecognised ==
    ASSUME NEW c \in Causes, RestartTypeOK, c.how # "explicit"
    PROVE  isFailureExit(c) <=> Failed(c) /\ ~Masked(c)
<1>1. CASE c.how = "guest"
  <2>1. c.code \in Nat /\ c.stderr # "error"
    BY <1>1, CauseCases
  <2>2. c.code % 128 \in Nat /\ (c.code % 128 # 0 => c.code % 256 # 0) BY <2>1
  <2>3. CASE acpi
    <3>1. ExitCode(c) = 0 BY <1>1, <2>3 DEF ExitCode, vm_exit
    <3>2. guestExitCode(0) = -1 BY DEF guestExitCode
    <3>3. QED BY <1>1, <2>3, <3>1, <3>2 DEF isFailureExit, Masked
  <2>4. CASE ~acpi
    <3>1. guestExitCode(ExitCode(c)) = c.code % 128 BY <1>1, <2>1, <2>4, StatusRoundTrip
    <3>2. QED BY <1>1, <2>1, <2>2, <2>4, <3>1 DEF isFailureExit, qemuErrored, Failed, Masked
  <2>5. QED BY <2>3, <2>4
<1>2. CASE c.how = "qemu"
  <2>1. c.stderr = "error" BY <1>2, CauseCases
  <2>2. ExitCode(c) = 1 BY <1>2 DEF ExitCode
  <2>3. guestExitCode(1) = 0 BY DEF guestExitCode
  <2>4. QED BY <1>2, <2>1, <2>2, <2>3 DEF isFailureExit, qemuErrored, Failed, Masked
<1>3. CASE c.how = "signal"
  <2>1. ExitCode(c) = -1 BY <1>3 DEF ExitCode
  <2>2. guestExitCode(-1) = -1 BY DEF guestExitCode
  <2>3. QED BY <1>3, <2>1, <2>2 DEF isFailureExit, Failed, Masked
<1>4. CASE c.how = "poweroff"
  <2>1. ExitCode(c) = 0 BY <1>4 DEF ExitCode
  <2>2. guestExitCode(0) = -1 BY DEF guestExitCode
  <2>3. QED BY <1>4, <2>1, <2>2 DEF isFailureExit, Failed, Masked
<1>5. QED BY <1>1, <1>2, <1>3, <1>4, CauseCases

(* Below the 34th restart the 64-bit duration does not wrap; from the 55th on    *)
(* nothing of it is left.                                                        *)
LEMMA BackoffIsExact ==
    ASSUME NEW n \in Nat
    PROVE  /\ n < 34 => backoff(n) = IF n < 5 THEN 2 ^ n ELSE 30
           /\ n \in 34 .. 54 => backoff(n) \in {0, 30}
           /\ n > 54 => backoff(n) = 0
<1>1. CASE n < 34
  <2>1. ~Negative(n) /\ Residue(n) # 0 BY <1>1 DEF Negative, Residue
  <2>2. CASE n < 5 BY <1>1, <2>1, <2>2 DEF backoff
  <2>3. CASE n >= 5 BY <1>1, <2>1, <2>3 DEF backoff
  <2>4. QED BY <1>1, <2>2, <2>3
<1>2. CASE n \in 34 .. 54 BY <1>2 DEF backoff
<1>3. CASE n > 54
  <2>1. Residue(n) = 0 BY <1>3 DEF Residue
  <2>2. QED BY <1>3, <2>1 DEF backoff
<1>4. QED BY <1>1, <1>2, <1>3

LEMMA RestartInitIInv == RestartInit => RestartIInv
  BY CodesAssumption
  DEF RestartInit, RestartIInv, RestartTypeOK, DecisionStands, RetriesAreBounded

(* The monitor's decision. *)
LEMMA MonitorIInv ==
    ASSUME RestartIInv, NEW c \in Causes, monitor(c)
    PROVE  RestartIInv'
<1> USE DEF RestartIInv
<1>1. /\ cause' = c /\ count' = count /\ policy' = policy
      /\ maxRetries' = maxRetries /\ acpi' = acpi
      /\ stage' = IF shouldRestart(c) THEN "backoff" ELSE "ended"
      /\ shouldRestart(c) => wait' = backoff(count)
  BY DEF monitor, config
<1>2. RestartTypeOK' BY <1>1 DEF RestartTypeOK
<1>3. DecisionStands'
  BY <1>1 DEF DecisionStands, shouldRestart, isFailureExit, guestExitCode, ExitCode,
      vm_exit,
              qemuErrored, backoff, Negative, Residue
<1>4. RetriesAreBounded'
  BY <1>1 DEF RetriesAreBounded, shouldRestart, RestartTypeOK
<1>5. QED BY <1>2, <1>3, <1>4

(* Every step preserves the invariant: a restart counts up only below the limit. *)
LEMMA RestartNextIInv == RestartIInv /\ [RestartNext]_restartVars => RestartIInv'
<1> SUFFICES ASSUME RestartIInv, [RestartNext]_restartVars PROVE RestartIInv'
  OBVIOUS
<1>1. ASSUME NEW c \in Causes, monitor(c) PROVE RestartIInv'
  BY <1>1, MonitorIInv
<1>2. CASE restartVM
  BY <1>2 DEF restartVM, config, RestartIInv, RestartTypeOK, DecisionStands,
      RetriesAreBounded
<1>3. CASE restartVMError
  BY <1>3 DEF restartVMError, config, RestartIInv, RestartTypeOK, DecisionStands,
              RetriesAreBounded
<1>4. CASE UNCHANGED restartVars
  <2>1. RestartTypeOK' BY <1>4 DEF RestartIInv, restartVars, RestartTypeOK
  <2>2. DecisionStands'
    BY <1>4 DEF RestartIInv, restartVars, DecisionStands, shouldRestart, isFailureExit,
                guestExitCode, ExitCode, vm_exit, qemuErrored, backoff, Negative, Residue
  <2>3. RetriesAreBounded' BY <1>4 DEF RestartIInv, restartVars, RetriesAreBounded
  <2>4. QED BY <2>1, <2>2, <2>3 DEF RestartIInv
<1>5. QED BY <1>1, <1>2, <1>3, <1>4 DEF RestartNext

(* The invariant holds in every reachable state. *)
THEOREM RestartInductive == RestartSpec => []RestartIInv
<1>1. RestartInit => RestartIInv BY RestartInitIInv
<1>2. RestartIInv /\ [RestartNext]_restartVars => RestartIInv' BY RestartNextIInv
<1>3. QED BY <1>1, <1>2, PTL DEF RestartSpec

(* Which ends of a VM lead to a restart (under on-failure exactly its failures   *)
(* but for the masked ones), how often (never more than MaxRetries) and after    *)
(* what wait, for every exit code, policy, limit and count.                      *)
THEOREM RestartsAreExact == RestartSpec => []RestartIsExact
<1>1. ASSUME RestartIInv PROVE OnFailureIsExact
  <2> SUFFICES ASSUME policy = "on-failure", stage \in {"backoff", "ended"},
                      maxRetries = 0 \/ count < maxRetries
               PROVE  stage = "backoff" <=> Failed(cause) /\ ~Masked(cause)
    BY DEF OnFailureIsExact
  <2>1. cause \in Causes /\ maxRetries \in Nat BY <1>1 DEF RestartIInv, RestartTypeOK
  <2>2. stage = "backoff" <=> shouldRestart(cause) BY <1>1 DEF RestartIInv, DecisionStands
  <2>3. CASE cause.how = "explicit" BY <2>2, <2>3 DEF shouldRestart, Failed
  <2>4. CASE cause.how # "explicit"
    <3>1. isFailureExit(cause) <=> Failed(cause) /\ ~Masked(cause)
      BY <1>1, <2>1, <2>4, FailureIsRecognised DEF RestartIInv
    <3>2. shouldRestart(cause) <=> isFailureExit(cause) BY <2>1, <2>4 DEF shouldRestart
    <3>3. QED BY <2>2, <3>1, <3>2
  <2>5. QED BY <2>3, <2>4
<1>2. ASSUME RestartIInv PROVE BackoffIsExponential
  BY <1>2, BackoffIsExact DEF RestartIInv, RestartTypeOK, DecisionStands,
      BackoffIsExponential
<1>3. RestartIInv => RestartIsExact BY <1>1, <1>2 DEF RestartIsExact, RestartIInv
<1>4. QED BY <1>3, RestartInductive, PTL
=============================================================================
