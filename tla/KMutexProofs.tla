--------------------------- MODULE KMutexProofs ---------------------------
(***************************************************************************)
(* KMutex is type correct and excludes: proved for any number of contexts  *)
(* and CPUs and any affinity.                                              *)
(***************************************************************************)
EXTENDS KMutex, FiniteSetTheorems, TLAPS

(* A context that executes mutex code does so on a CPU, so that it has an MCS  *)
(* node of its own; only the holder and sleepers may be off.                   *)
OnCPU == \A c \in Contexts : pc[c] \notin {"out", "off", "cs"} => active_cpu[c] \in CPUs

(* TypeOK, in four parts. *)
MutexTypes ==
    /\ turn \in Contexts \cup {NoCtx} /\ waiters_lock \in Contexts \cup {NoCtx}
    /\ mcs_tail \in CPUs \cup {NoCPU} /\ waiters \in Seq(Contexts)
NodeTypes ==
    /\ mcs_prev \in [CPUs -> CPUs \cup {NoCPU}] /\ mcs_next \in [CPUs -> CPUs \cup {NoCPU}]
    /\ mcs_waiting \in [CPUs -> BOOLEAN]
SchedTypes ==
    /\ waiting_on \subseteq Contexts /\ full \subseteq Contexts /\ scheduled \subseteq Contexts
    /\ active_cpu \in [Contexts -> CPUs \cup {NoCPU}] /\ pc \in [Contexts -> Labels]
LocalTypes ==
    /\ prev \in [Contexts -> CPUs \cup {NoCPU}] /\ next \in [Contexts -> CPUs \cup {NoCPU}]
    /\ on_mcs \in [Contexts -> BOOLEAN] /\ after \in [Contexts -> {"out", "wait", "cs"}]
    /\ wake \in [Contexts -> Contexts \cup {NoCtx}]

(* The inductive invariant, with the parts of TypeOK one by one: what a step    *)
(* does to the mutex, the nodes, the scheduler and the locals is seen apart.    *)
IInv ==
    /\ MutexTypes /\ NodeTypes /\ SchedTypes /\ LocalTypes
    /\ OnCPU /\ MutualExclusion

-----------------------------------------------------------------------------
(* One lemma per action.  For MutualExclusion all rest on one observation: an  *)
(* action changes turn only from null to its own context or, as the holder, to *)
(* null.                                                                       *)

(* Invariance: mutex_try_lock enters an empty MCS queue or fails. *)
LEMMA TryEnqueueInv ==
    ASSUME IInv, NEW c \in Contexts, TryEnqueue(c)
    PROVE  IInv'
PROOF
<1>1. MutexTypes'
  BY DEF IInv, MutexTypes, SchedTypes, OnCPU, TryEnqueue, Goto, nodeVars,
     localVars
<1>2. NodeTypes'
  BY DEF IInv, NodeTypes, TryEnqueue, Goto, nodeVars, localVars
<1>3. SchedTypes'
  BY DEF IInv, SchedTypes, LocalTypes, MutexTypes, Labels, TryEnqueue, Goto,
     nodeVars, localVars
<1>4. LocalTypes'
  BY DEF IInv, LocalTypes, TryEnqueue, Goto, nodeVars, localVars
<1>5. OnCPU'
  BY DEF IInv, OnCPU, SchedTypes, LocalTypes, TryEnqueue, Goto, nodeVars,
     localVars
<1>6. MutualExclusion'
  BY NullAssumption DEF IInv, MutualExclusion, Holds, McsUnlocking,
     SchedTypes, LocalTypes, TryEnqueue, Goto, nodeVars, localVars
<1> QED BY <1>1, <1>2, <1>3, <1>4, <1>5, <1>6 DEF IInv

(* Invariance: mutex_try_lock, with the MCS lock, tries to take the turn. *)
LEMMA TryTurnInv ==
    ASSUME IInv, NEW c \in Contexts, TryTurn(c)
    PROVE  IInv'
PROOF
<1>1. MutexTypes'
  BY DEF IInv, MutexTypes, TryTurn, Goto, nodeVars, schedVars
<1>2. NodeTypes'
  BY DEF IInv, NodeTypes, TryTurn, Goto, nodeVars, schedVars
<1>3. SchedTypes'
  BY DEF IInv, SchedTypes, LocalTypes, MutexTypes, Labels, TryTurn, Goto,
     nodeVars, schedVars
<1>4. LocalTypes'
  BY DEF IInv, LocalTypes, NodeTypes, MutexTypes, SchedTypes, OnCPU,
     TryTurn, Goto, nodeVars, schedVars
<1>5. OnCPU'
  BY DEF IInv, OnCPU, SchedTypes, LocalTypes, TryTurn, Goto, nodeVars,
     schedVars
<1>6. MutualExclusion'
  BY NullAssumption DEF IInv, MutualExclusion, Holds, McsUnlocking,
     SchedTypes, LocalTypes, TryTurn, Goto, nodeVars, schedVars
<1> QED BY <1>1, <1>2, <1>3, <1>4, <1>5, <1>6 DEF IInv

(* Invariance: mutex_lock exchanges the tail of the MCS queue. *)
LEMMA EnqueueInv ==
    ASSUME IInv, NEW c \in Contexts, Enqueue(c)
    PROVE  IInv'
PROOF
<1>1. MutexTypes'
  BY DEF IInv, MutexTypes, SchedTypes, OnCPU, Enqueue, Goto, schedVars
<1>2. NodeTypes'
  <2>1. mcs_tail \in CPUs \cup {NoCPU}
    BY DEF IInv, MutexTypes
  <2>2. mcs_next' = mcs_next
    BY DEF Enqueue
  <2>3. \/ mcs_prev' = mcs_prev
        \/ mcs_prev' = [mcs_prev EXCEPT ![active_cpu[c]] = mcs_tail]
    BY Zenon DEF Enqueue
  <2>4. \E b \in BOOLEAN : mcs_waiting' = [mcs_waiting EXCEPT ![active_cpu[c]] = b]
    BY Zenon DEF Enqueue
  <2> QED BY <2>1, <2>2, <2>3, <2>4, Zenon DEF IInv, NodeTypes
<1>3. SchedTypes'
  BY DEF IInv, SchedTypes, LocalTypes, MutexTypes, Labels, Enqueue, Goto,
     schedVars
<1>4. LocalTypes'
  BY DEF IInv, LocalTypes, NodeTypes, MutexTypes, SchedTypes, OnCPU,
     Enqueue, Goto, schedVars
<1>5. OnCPU'
  BY DEF IInv, OnCPU, SchedTypes, LocalTypes, Enqueue, Goto, schedVars
<1>6. MutualExclusion'
  BY NullAssumption DEF IInv, MutualExclusion, Holds, McsUnlocking,
     SchedTypes, LocalTypes, Enqueue, Goto, schedVars
<1> QED BY <1>1, <1>2, <1>3, <1>4, <1>5, <1>6 DEF IInv

(* Invariance: the predecessor's node is made to point at this one. *)
LEMMA LinkInv ==
    ASSUME IInv, NEW c \in Contexts, Link(c)
    PROVE  IInv'
PROOF
<1>1. MutexTypes'
  BY DEF IInv, MutexTypes, Link, Goto, mutexVars, schedVars, localVars
<1>2. NodeTypes'
  BY Zenon DEF IInv, NodeTypes, SchedTypes, OnCPU, LocalTypes, Link, Goto,
     mutexVars, schedVars, localVars
<1>3. SchedTypes'
  BY DEF IInv, SchedTypes, LocalTypes, MutexTypes, Labels, Link, Goto,
     mutexVars, schedVars, localVars
<1>4. LocalTypes'
  BY DEF IInv, LocalTypes, Link, Goto, mutexVars, schedVars, localVars
<1>5. OnCPU'
  BY DEF IInv, OnCPU, SchedTypes, LocalTypes, Link, Goto, mutexVars,
     schedVars, localVars
<1>6. MutualExclusion'
  BY NullAssumption DEF IInv, MutualExclusion, Holds, McsUnlocking,
     SchedTypes, LocalTypes, Link, Goto, mutexVars, schedVars, localVars
<1> QED BY <1>1, <1>2, <1>3, <1>4, <1>5, <1>6 DEF IInv

(* Invariance: a spinner is handed the MCS lock or gives up. *)
LEMMA SpinInv ==
    ASSUME IInv, NEW c \in Contexts, Spin(c)
    PROVE  IInv'
PROOF
<1>1. MutexTypes'
  BY DEF IInv, MutexTypes, Spin, Goto, mutexVars, nodeVars, schedVars,
     localVars
<1>2. NodeTypes'
  BY DEF IInv, NodeTypes, Spin, Goto, mutexVars, nodeVars, schedVars,
     localVars
<1>3. SchedTypes'
  BY DEF IInv, SchedTypes, LocalTypes, MutexTypes, Labels, Spin, Goto,
     mutexVars, nodeVars, schedVars, localVars
<1>4. LocalTypes'
  BY DEF IInv, LocalTypes, Spin, Goto, mutexVars, nodeVars, schedVars,
     localVars
<1>5. OnCPU'
  BY DEF IInv, OnCPU, SchedTypes, LocalTypes, Spin, Goto, mutexVars,
     nodeVars, schedVars, localVars
<1>6. MutualExclusion'
  BY NullAssumption DEF IInv, MutualExclusion, Holds, McsUnlocking,
     SchedTypes, LocalTypes, Spin, Goto, mutexVars, nodeVars, schedVars,
     localVars
<1> QED BY <1>1, <1>2, <1>3, <1>4, <1>5, <1>6 DEF IInv

(* Invariance: a cancelling spinner undoes its predecessor's link. *)
LEMMA StepAInv ==
    ASSUME IInv, NEW c \in Contexts, StepA(c)
    PROVE  IInv'
PROOF
<1>1. MutexTypes'
  BY DEF IInv, MutexTypes, StepA, Goto, mutexVars, schedVars, localVars
<1>2. NodeTypes'
  BY DEF IInv, NodeTypes, SchedTypes, OnCPU, LocalTypes, StepA, Goto,
     mutexVars, schedVars, localVars
<1>3. SchedTypes'
  BY DEF IInv, SchedTypes, LocalTypes, MutexTypes, Labels, StepA, Goto,
     mutexVars, schedVars, localVars
<1>4. LocalTypes'
  BY DEF IInv, LocalTypes, StepA, Goto, mutexVars, schedVars, localVars
<1>5. OnCPU'
  BY DEF IInv, OnCPU, SchedTypes, LocalTypes, StepA, Goto, mutexVars,
     schedVars, localVars
<1>6. MutualExclusion'
  BY NullAssumption DEF IInv, MutualExclusion, Holds, McsUnlocking,
     SchedTypes, LocalTypes, StepA, Goto, mutexVars, schedVars, localVars
<1> QED BY <1>1, <1>2, <1>3, <1>4, <1>5, <1>6 DEF IInv

(* Invariance: a cancelling spinner looks whether it was handed the lock after all. *)
LEMMA HandedInv ==
    ASSUME IInv, NEW c \in Contexts, Handed(c)
    PROVE  IInv'
PROOF
<1>1. MutexTypes'
  BY DEF IInv, MutexTypes, Handed, Goto, mutexVars, nodeVars, schedVars,
     localVars
<1>2. NodeTypes'
  BY DEF IInv, NodeTypes, Handed, Goto, mutexVars, nodeVars, schedVars,
     localVars
<1>3. SchedTypes'
  BY DEF IInv, SchedTypes, LocalTypes, MutexTypes, Labels, Handed, Goto,
     mutexVars, nodeVars, schedVars, localVars
<1>4. LocalTypes'
  BY DEF IInv, LocalTypes, Handed, Goto, mutexVars, nodeVars, schedVars,
     localVars
<1>5. OnCPU'
  BY DEF IInv, OnCPU, SchedTypes, LocalTypes, Handed, Goto, mutexVars,
     nodeVars, schedVars, localVars
<1>6. MutualExclusion'
  BY NullAssumption DEF IInv, MutualExclusion, Holds, McsUnlocking,
     SchedTypes, LocalTypes, Handed, Goto, mutexVars, nodeVars, schedVars,
     localVars
<1> QED BY <1>1, <1>2, <1>3, <1>4, <1>5, <1>6 DEF IInv

(* Invariance: a cancelling spinner reads its predecessor again. *)
LEMMA ResampleInv ==
    ASSUME IInv, NEW c \in Contexts, Resample(c)
    PROVE  IInv'
PROOF
<1>1. MutexTypes'
  BY DEF IInv, MutexTypes, Resample, Goto, mutexVars, nodeVars, schedVars
<1>2. NodeTypes'
  BY DEF IInv, NodeTypes, Resample, Goto, mutexVars, nodeVars, schedVars
<1>3. SchedTypes'
  BY DEF IInv, SchedTypes, LocalTypes, MutexTypes, Labels, Resample, Goto,
     mutexVars, nodeVars, schedVars
<1>4. LocalTypes'
  BY DEF IInv, LocalTypes, NodeTypes, MutexTypes, SchedTypes, OnCPU,
     Resample, Goto, mutexVars, nodeVars, schedVars
<1>5. OnCPU'
  BY DEF IInv, OnCPU, SchedTypes, LocalTypes, Resample, Goto, mutexVars,
     nodeVars, schedVars
<1>6. MutualExclusion'
  BY NullAssumption DEF IInv, MutualExclusion, Holds, McsUnlocking,
     SchedTypes, LocalTypes, Resample, Goto, mutexVars, nodeVars, schedVars
<1> QED BY <1>1, <1>2, <1>3, <1>4, <1>5, <1>6 DEF IInv

(* Invariance: a cancelling spinner rewinds the tail or takes its successor. *)
LEMMA StepBInv ==
    ASSUME IInv, NEW c \in Contexts, StepB(c)
    PROVE  IInv'
PROOF
<1>1. MutexTypes'
  BY DEF IInv, MutexTypes, SchedTypes, OnCPU, LocalTypes, StepB,
     mutex_get_next, Goto, Cleared, schedVars
<1>2. NodeTypes'
  BY Zenon DEF IInv, NodeTypes, SchedTypes, OnCPU, LocalTypes, StepB,
     mutex_get_next, Goto, Cleared, schedVars
<1>3. SchedTypes'
  BY DEF IInv, SchedTypes, LocalTypes, MutexTypes, Labels, StepB,
     mutex_get_next, Goto, Cleared, schedVars
<1>4. LocalTypes'
  BY DEF IInv, LocalTypes, NodeTypes, MutexTypes, SchedTypes, OnCPU, StepB,
     mutex_get_next, Goto, Cleared, schedVars
<1>5. OnCPU'
  BY DEF IInv, OnCPU, SchedTypes, LocalTypes, StepB, mutex_get_next, Goto,
     Cleared, schedVars
<1>6. MutualExclusion'
  BY NullAssumption DEF IInv, MutualExclusion, Holds, McsUnlocking,
     SchedTypes, LocalTypes, StepB, mutex_get_next, Goto, Cleared, schedVars
<1> QED BY <1>1, <1>2, <1>3, <1>4, <1>5, <1>6 DEF IInv

(* Invariance: the successor's predecessor becomes this one's. *)
LEMMA StepCInv ==
    ASSUME IInv, NEW c \in Contexts, StepC(c)
    PROVE  IInv'
PROOF
<1>1. MutexTypes'
  BY DEF IInv, MutexTypes, StepC, Goto, mutexVars, schedVars, localVars
<1>2. NodeTypes'
  BY Zenon DEF IInv, NodeTypes, SchedTypes, OnCPU, LocalTypes, StepC, Goto,
     mutexVars, schedVars, localVars
<1>3. SchedTypes'
  BY DEF IInv, SchedTypes, LocalTypes, MutexTypes, Labels, StepC, Goto,
     mutexVars, schedVars, localVars
<1>4. LocalTypes'
  BY DEF IInv, LocalTypes, StepC, Goto, mutexVars, schedVars, localVars
<1>5. OnCPU'
  BY DEF IInv, OnCPU, SchedTypes, LocalTypes, StepC, Goto, mutexVars,
     schedVars, localVars
<1>6. MutualExclusion'
  BY NullAssumption DEF IInv, MutualExclusion, Holds, McsUnlocking,
     SchedTypes, LocalTypes, StepC, Goto, mutexVars, schedVars, localVars
<1> QED BY <1>1, <1>2, <1>3, <1>4, <1>5, <1>6 DEF IInv

(* Invariance: the predecessor's successor becomes this one's. *)
LEMMA StepC2Inv ==
    ASSUME IInv, NEW c \in Contexts, StepC2(c)
    PROVE  IInv'
PROOF
<1>1. MutexTypes'
  BY DEF IInv, MutexTypes, StepC2, Goto, Cleared, mutexVars, schedVars
<1>2. NodeTypes'
  BY Zenon DEF IInv, NodeTypes, SchedTypes, OnCPU, LocalTypes, StepC2, Goto,
     Cleared, mutexVars, schedVars
<1>3. SchedTypes'
  BY DEF IInv, SchedTypes, LocalTypes, MutexTypes, Labels, StepC2, Goto,
     Cleared, mutexVars, schedVars
<1>4. LocalTypes'
  BY DEF IInv, LocalTypes, NodeTypes, MutexTypes, SchedTypes, OnCPU, StepC2,
     Goto, Cleared, mutexVars, schedVars
<1>5. OnCPU'
  BY DEF IInv, OnCPU, SchedTypes, LocalTypes, StepC2, Goto, Cleared,
     mutexVars, schedVars
<1>6. MutualExclusion'
  BY NullAssumption DEF IInv, MutualExclusion, Holds, McsUnlocking,
     SchedTypes, LocalTypes, StepC2, Goto, Cleared, mutexVars, schedVars
<1> QED BY <1>1, <1>2, <1>3, <1>4, <1>5, <1>6 DEF IInv

(* Invariance: a context that gave up spinning sets waiting_on and takes waiters_lock. *)
LEMMA WaitInv ==
    ASSUME IInv, NEW c \in Contexts, Wait(c)
    PROVE  IInv'
PROOF
<1>1. MutexTypes'
  BY DEF IInv, MutexTypes, Wait, Goto, nodeVars, localVars
<1>2. NodeTypes'
  BY DEF IInv, NodeTypes, Wait, Goto, nodeVars, localVars
<1>3. SchedTypes'
  BY DEF IInv, SchedTypes, LocalTypes, MutexTypes, Labels, Wait, Goto,
     nodeVars, localVars
<1>4. LocalTypes'
  BY DEF IInv, LocalTypes, Wait, Goto, nodeVars, localVars
<1>5. OnCPU'
  BY DEF IInv, OnCPU, SchedTypes, LocalTypes, Wait, Goto, nodeVars,
     localVars
<1>6. MutualExclusion'
  BY NullAssumption DEF IInv, MutualExclusion, Holds, McsUnlocking,
     SchedTypes, LocalTypes, Wait, Goto, nodeVars, localVars
<1> QED BY <1>1, <1>2, <1>3, <1>4, <1>5, <1>6 DEF IInv

(* Invariance: it tries the turn once more under waiters_lock. *)
LEMMA RetryInv ==
    ASSUME IInv, NEW c \in Contexts, Retry(c)
    PROVE  IInv'
PROOF
<1>1. MutexTypes'
  BY DEF IInv, MutexTypes, Retry, Goto, nodeVars, localVars
<1>2. NodeTypes'
  BY DEF IInv, NodeTypes, Retry, Goto, nodeVars, localVars
<1>3. SchedTypes'
  BY DEF IInv, SchedTypes, LocalTypes, MutexTypes, Labels, Retry, Goto,
     nodeVars, localVars
<1>4. LocalTypes'
  BY DEF IInv, LocalTypes, Retry, Goto, nodeVars, localVars
<1>5. OnCPU'
  BY DEF IInv, OnCPU, SchedTypes, LocalTypes, Retry, Goto, nodeVars,
     localVars
<1>6. MutualExclusion'
  BY NullAssumption DEF IInv, MutualExclusion, Holds, McsUnlocking,
     SchedTypes, LocalTypes, Retry, Goto, nodeVars, localVars
<1> QED BY <1>1, <1>2, <1>3, <1>4, <1>5, <1>6 DEF IInv

(* Invariance: it joins the waiters and releases waiters_lock. *)
LEMMA InsertInv ==
    ASSUME IInv, NEW c \in Contexts, Insert(c)
    PROVE  IInv'
PROOF
<1>1. MutexTypes'
  BY DEF IInv, MutexTypes, Insert, Goto, nodeVars, schedVars, localVars
<1>2. NodeTypes'
  BY DEF IInv, NodeTypes, Insert, Goto, nodeVars, schedVars, localVars
<1>3. SchedTypes'
  BY DEF IInv, SchedTypes, LocalTypes, MutexTypes, Labels, Insert, Goto,
     nodeVars, schedVars, localVars
<1>4. LocalTypes'
  BY DEF IInv, LocalTypes, Insert, Goto, nodeVars, schedVars, localVars
<1>5. OnCPU'
  BY DEF IInv, OnCPU, SchedTypes, LocalTypes, Insert, Goto, nodeVars,
     schedVars, localVars
<1>6. MutualExclusion'
  BY NullAssumption DEF IInv, MutualExclusion, Holds, McsUnlocking,
     SchedTypes, LocalTypes, Insert, Goto, nodeVars, schedVars, localVars
<1> QED BY <1>1, <1>2, <1>3, <1>4, <1>5, <1>6 DEF IInv

(* Invariance: context_suspend saves the frame. *)
LEMMA SuspendInv ==
    ASSUME IInv, NEW c \in Contexts, Suspend(c)
    PROVE  IInv'
PROOF
<1>1. MutexTypes'
  BY DEF IInv, MutexTypes, Suspend, Goto, mutexVars, nodeVars, localVars
<1>2. NodeTypes'
  BY DEF IInv, NodeTypes, Suspend, Goto, mutexVars, nodeVars, localVars
<1>3. SchedTypes'
  BY DEF IInv, SchedTypes, LocalTypes, MutexTypes, Labels, Suspend, Goto,
     mutexVars, nodeVars, localVars
<1>4. LocalTypes'
  BY DEF IInv, LocalTypes, Suspend, Goto, mutexVars, nodeVars, localVars
<1>5. OnCPU'
  BY DEF IInv, OnCPU, SchedTypes, LocalTypes, Suspend, Goto, mutexVars,
     nodeVars, localVars
<1>6. MutualExclusion'
  BY NullAssumption DEF IInv, MutualExclusion, Holds, McsUnlocking,
     SchedTypes, LocalTypes, Suspend, Goto, mutexVars, nodeVars, localVars
<1> QED BY <1>1, <1>2, <1>3, <1>4, <1>5, <1>6 DEF IInv

(* Invariance: the CPU lets go of the suspended context. *)
LEMMA ReleaseInv ==
    ASSUME IInv, NEW c \in Contexts, Release(c)
    PROVE  IInv'
PROOF
<1>1. MutexTypes'
  BY DEF IInv, MutexTypes, Release, Goto, mutexVars, nodeVars, localVars
<1>2. NodeTypes'
  BY DEF IInv, NodeTypes, Release, Goto, mutexVars, nodeVars, localVars
<1>3. SchedTypes'
  BY DEF IInv, SchedTypes, LocalTypes, MutexTypes, Labels, Release, Goto,
     mutexVars, nodeVars, localVars
<1>4. LocalTypes'
  BY DEF IInv, LocalTypes, Release, Goto, mutexVars, nodeVars, localVars
<1>5. OnCPU'
  BY DEF IInv, OnCPU, SchedTypes, LocalTypes, Release, Goto, mutexVars,
     nodeVars, localVars
<1>6. MutualExclusion'
  BY NullAssumption DEF IInv, MutualExclusion, Holds, McsUnlocking,
     SchedTypes, LocalTypes, Release, Goto, mutexVars, nodeVars, localVars
<1> QED BY <1>1, <1>2, <1>3, <1>4, <1>5, <1>6 DEF IInv

(* Invariance: the head of the queue, or a woken waiter, takes the turn. *)
LEMMA AcquireInv ==
    ASSUME IInv, NEW c \in Contexts, Acquire(c)
    PROVE  IInv'
PROOF
<1>1. MutexTypes'
  BY DEF IInv, MutexTypes, Acquire, Goto, LeaveQueue, Cleared, schedVars
<1>2. NodeTypes'
  BY DEF IInv, NodeTypes, SchedTypes, OnCPU, LocalTypes, Acquire, Goto,
     LeaveQueue, Cleared, schedVars
<1>3. SchedTypes'
  BY DEF IInv, SchedTypes, LocalTypes, MutexTypes, Labels, Acquire, Goto,
     LeaveQueue, Cleared, schedVars
<1>4. LocalTypes'
  BY DEF IInv, LocalTypes, NodeTypes, MutexTypes, SchedTypes, OnCPU,
     Acquire, Goto, LeaveQueue, Cleared, schedVars
<1>5. OnCPU'
  BY DEF IInv, OnCPU, SchedTypes, LocalTypes, Acquire, Goto, LeaveQueue,
     Cleared, schedVars
<1>6. MutualExclusion'
  BY NullAssumption DEF IInv, MutualExclusion, Holds, McsUnlocking,
     SchedTypes, LocalTypes, Acquire, Goto, LeaveQueue, Cleared, schedVars
<1> QED BY <1>1, <1>2, <1>3, <1>4, <1>5, <1>6 DEF IInv

(* Invariance: it gives up polling and joins the waiters or is rescheduled. *)
LEMMA AcquireSpinoutInv ==
    ASSUME IInv, NEW c \in Contexts, AcquireSpinout(c)
    PROVE  IInv'
PROOF
<1>1. MutexTypes'
  BY DEF IInv, MutexTypes, AcquireSpinout, Goto, LeaveQueue, Cleared,
     mutexVars
<1>2. NodeTypes'
  BY DEF IInv, NodeTypes, SchedTypes, OnCPU, LocalTypes, AcquireSpinout,
     Goto, LeaveQueue, Cleared, mutexVars
<1>3. SchedTypes'
  BY DEF IInv, SchedTypes, LocalTypes, MutexTypes, Labels, AcquireSpinout,
     Goto, LeaveQueue, Cleared, mutexVars
<1>4. LocalTypes'
  BY DEF IInv, LocalTypes, NodeTypes, MutexTypes, SchedTypes, OnCPU,
     AcquireSpinout, Goto, LeaveQueue, Cleared, mutexVars
<1>5. OnCPU'
  BY DEF IInv, OnCPU, SchedTypes, LocalTypes, AcquireSpinout, Goto,
     LeaveQueue, Cleared, mutexVars
<1>6. MutualExclusion'
  BY NullAssumption DEF IInv, MutualExclusion, Holds, McsUnlocking,
     SchedTypes, LocalTypes, AcquireSpinout, Goto, LeaveQueue, Cleared,
     mutexVars
<1> QED BY <1>1, <1>2, <1>3, <1>4, <1>5, <1>6 DEF IInv

(* Invariance: mcs_unlock finds no successor, or its node. *)
LEMMA McsUnlockInv ==
    ASSUME IInv, NEW c \in Contexts, McsUnlock(c)
    PROVE  IInv'
PROOF
<1>1. MutexTypes'
  BY DEF IInv, MutexTypes, McsUnlock, McsReturn, Goto, Cleared, Left,
     nodeVars
<1>2. NodeTypes'
  BY DEF IInv, NodeTypes, McsUnlock, McsReturn, Goto, Cleared, Left,
     nodeVars
<1>3. SchedTypes'
  BY DEF IInv, SchedTypes, LocalTypes, MutexTypes, Labels, McsUnlock,
     McsReturn, Goto, Cleared, Left, nodeVars
<1>4. LocalTypes'
  BY DEF IInv, LocalTypes, NodeTypes, MutexTypes, SchedTypes, OnCPU,
     McsUnlock, McsReturn, Goto, Cleared, Left, nodeVars
<1>5. OnCPU'
  BY DEF IInv, OnCPU, SchedTypes, LocalTypes, McsUnlock, McsReturn, Goto,
     Cleared, Left, nodeVars
<1>6. MutualExclusion'
  BY NullAssumption DEF IInv, MutualExclusion, Holds, McsUnlocking,
     SchedTypes, LocalTypes, McsUnlock, McsReturn, Goto, Cleared, Left,
     nodeVars
<1> QED BY <1>1, <1>2, <1>3, <1>4, <1>5, <1>6 DEF IInv

(* Invariance: mcs_unlock rewinds the tail or takes a successor that has linked itself. *)
LEMMA McsSuccessorInv ==
    ASSUME IInv, NEW c \in Contexts, McsSuccessor(c)
    PROVE  IInv'
PROOF
<1>1. MutexTypes'
  BY DEF IInv, MutexTypes, McsSuccessor, mutex_get_next, Goto, McsReturn,
     Cleared, Left
<1>2. NodeTypes'
  BY DEF IInv, NodeTypes, SchedTypes, OnCPU, LocalTypes, McsSuccessor,
     mutex_get_next, Goto, McsReturn, Cleared, Left
<1>3. SchedTypes'
  BY DEF IInv, SchedTypes, LocalTypes, MutexTypes, Labels, McsSuccessor,
     mutex_get_next, Goto, McsReturn, Cleared, Left
<1>4. LocalTypes'
  <2>1. UNCHANGED <<prev, on_mcs, wake>>
    BY DEF McsSuccessor
  <2>2. after' = after \/ after' = [after EXCEPT ![c] = "out"]
    BY Zenon DEF McsSuccessor, McsReturn, Cleared
  <2>3. next' = next \/ next' = [next EXCEPT ![c] = mcs_next[active_cpu[c]]]
    BY Zenon DEF McsSuccessor, mutex_get_next
  <2>4. mcs_next[active_cpu[c]] \in CPUs \cup {NoCPU}
    BY DEF IInv, NodeTypes, SchedTypes, OnCPU, McsSuccessor, mutex_get_next, Goto
  <2> QED BY <2>1, <2>2, <2>3, <2>4 DEF IInv, LocalTypes
<1>5. OnCPU'
  BY DEF IInv, OnCPU, SchedTypes, LocalTypes, McsSuccessor, mutex_get_next,
     Goto, McsReturn, Cleared, Left
<1>6. MutualExclusion'
  BY NullAssumption DEF IInv, MutualExclusion, Holds, McsUnlocking,
     SchedTypes, LocalTypes, McsSuccessor, mutex_get_next, Goto, McsReturn,
     Cleared, Left
<1> QED BY <1>1, <1>2, <1>3, <1>4, <1>5, <1>6 DEF IInv

(* Invariance: mcs_unlock tells the successor. *)
LEMMA McsHandInv ==
    ASSUME IInv, NEW c \in Contexts, McsHand(c)
    PROVE  IInv'
PROOF
<1>1. MutexTypes'
  BY DEF IInv, MutexTypes, McsHand, McsReturn, Goto, Cleared, Left,
     mutexVars
<1>2. NodeTypes'
  BY Zenon DEF IInv, NodeTypes, SchedTypes, OnCPU, LocalTypes, McsHand,
     McsReturn, Goto, Cleared, Left, mutexVars
<1>3. SchedTypes'
  BY DEF IInv, SchedTypes, LocalTypes, MutexTypes, Labels, McsHand,
     McsReturn, Goto, Cleared, Left, mutexVars
<1>4. LocalTypes'
  BY DEF IInv, LocalTypes, NodeTypes, MutexTypes, SchedTypes, OnCPU,
     McsHand, McsReturn, Goto, Cleared, Left, mutexVars
<1>5. OnCPU'
  BY DEF IInv, OnCPU, SchedTypes, LocalTypes, McsHand, McsReturn, Goto,
     Cleared, Left, mutexVars
<1>6. MutualExclusion'
  BY NullAssumption DEF IInv, MutualExclusion, Holds, McsUnlocking,
     SchedTypes, LocalTypes, McsHand, McsReturn, Goto, Cleared, Left,
     mutexVars
<1> QED BY <1>1, <1>2, <1>3, <1>4, <1>5, <1>6 DEF IInv

(* Invariance: the holder is suspended or resumes, maybe on another CPU. *)
LEMMA MigrateInv ==
    ASSUME IInv, NEW c \in Contexts, Migrate(c)
    PROVE  IInv'
PROOF
<1>1. MutexTypes'
  BY DEF IInv, MutexTypes, Migrate, Free, mutexVars, nodeVars, localVars
<1>2. NodeTypes'
  BY DEF IInv, NodeTypes, Migrate, Free, mutexVars, nodeVars, localVars
<1>3. SchedTypes'
  <2>1. UNCHANGED <<waiting_on, full, scheduled, pc>>
    BY DEF Migrate
  <2>2. \E k \in CPUs \cup {NoCPU} : active_cpu' = [active_cpu EXCEPT ![c] = k]
    BY Zenon DEF Migrate
  <2> QED BY <2>1, <2>2 DEF IInv, SchedTypes
<1>4. LocalTypes'
  BY DEF IInv, LocalTypes, Migrate, Free, mutexVars, nodeVars, localVars
<1>5. OnCPU'
  BY Zenon DEF IInv, OnCPU, SchedTypes, LocalTypes, Migrate, Free,
     mutexVars, nodeVars, localVars
<1>6. MutualExclusion'
  BY NullAssumption DEF IInv, MutualExclusion, Holds, McsUnlocking,
     SchedTypes, LocalTypes, Migrate, Free, mutexVars, nodeVars, localVars
<1> QED BY <1>1, <1>2, <1>3, <1>4, <1>5, <1>6 DEF IInv

(* Invariance: mutex_unlock gives up the turn. *)
LEMMA UnlockInv ==
    ASSUME IInv, NEW c \in Contexts, Unlock(c)
    PROVE  IInv'
PROOF
<1>1. MutexTypes'
  BY DEF IInv, MutexTypes, Unlock, Goto, nodeVars, schedVars, localVars
<1>2. NodeTypes'
  BY DEF IInv, NodeTypes, Unlock, Goto, nodeVars, schedVars, localVars
<1>3. SchedTypes'
  BY DEF IInv, SchedTypes, LocalTypes, MutexTypes, Labels, Unlock, Goto,
     nodeVars, schedVars, localVars
<1>4. LocalTypes'
  BY DEF IInv, LocalTypes, Unlock, Goto, nodeVars, schedVars, localVars
<1>5. OnCPU'
  BY DEF IInv, OnCPU, SchedTypes, LocalTypes, Unlock, Goto, nodeVars,
     schedVars, localVars
<1>6. MutualExclusion'
  BY NullAssumption DEF IInv, MutualExclusion, Holds, McsUnlocking,
     SchedTypes, LocalTypes, Unlock, Goto, nodeVars, schedVars, localVars
<1> QED BY <1>1, <1>2, <1>3, <1>4, <1>5, <1>6 DEF IInv

(* Invariance: mutex_unlock takes the first waiter off the list. *)
LEMMA TakeWaiterInv ==
    ASSUME IInv, NEW c \in Contexts, TakeWaiter(c)
    PROVE  IInv'
PROOF
<1>1. MutexTypes'
  <2>1. waiters \in Seq(Contexts)
    BY DEF IInv, MutexTypes
  <2>2. waiters # <<>> => Tail(waiters) \in Seq(Contexts)
    BY <2>1
  <2>3. waiters' \in Seq(Contexts)
    BY <2>1, <2>2, Zenon DEF TakeWaiter
  <2>4. UNCHANGED <<turn, mcs_tail, waiters_lock>>
    BY DEF TakeWaiter
  <2> QED BY <2>3, <2>4 DEF IInv, MutexTypes
<1>2. NodeTypes'
  BY DEF IInv, NodeTypes, TakeWaiter, Goto, Left, nodeVars
<1>3. SchedTypes'
  BY DEF IInv, SchedTypes, LocalTypes, MutexTypes, Labels, TakeWaiter, Goto,
     Left, nodeVars
<1>4. LocalTypes'
  BY DEF IInv, LocalTypes, NodeTypes, MutexTypes, SchedTypes, OnCPU,
     TakeWaiter, Goto, Left, nodeVars
<1>5. OnCPU'
  BY DEF IInv, OnCPU, SchedTypes, LocalTypes, TakeWaiter, Goto, Left,
     nodeVars
<1>6. MutualExclusion'
  BY NullAssumption DEF IInv, MutualExclusion, Holds, McsUnlocking,
     SchedTypes, LocalTypes, TakeWaiter, Goto, Left, nodeVars
<1> QED BY <1>1, <1>2, <1>3, <1>4, <1>5, <1>6 DEF IInv

(* Invariance: mutex_unlock clears the waiter's waiting_on. *)
LEMMA WokenInv ==
    ASSUME IInv, NEW c \in Contexts, Woken(c)
    PROVE  IInv'
PROOF
<1>1. MutexTypes'
  BY DEF IInv, MutexTypes, Woken, Goto, mutexVars, nodeVars, localVars
<1>2. NodeTypes'
  BY DEF IInv, NodeTypes, Woken, Goto, mutexVars, nodeVars, localVars
<1>3. SchedTypes'
  BY DEF IInv, SchedTypes, LocalTypes, MutexTypes, Labels, Woken, Goto,
     mutexVars, nodeVars, localVars
<1>4. LocalTypes'
  BY DEF IInv, LocalTypes, Woken, Goto, mutexVars, nodeVars, localVars
<1>5. OnCPU'
  BY DEF IInv, OnCPU, SchedTypes, LocalTypes, Woken, Goto, mutexVars,
     nodeVars, localVars
<1>6. MutualExclusion'
  BY NullAssumption DEF IInv, MutualExclusion, Holds, McsUnlocking,
     SchedTypes, LocalTypes, Woken, Goto, mutexVars, nodeVars, localVars
<1> QED BY <1>1, <1>2, <1>3, <1>4, <1>5, <1>6 DEF IInv

(* Invariance: mutex_unlock schedules the waiter once its frame is full. *)
LEMMA ScheduleInv ==
    ASSUME IInv, NEW c \in Contexts, Schedule(c)
    PROVE  IInv'
PROOF
<1>1. MutexTypes'
  BY DEF IInv, MutexTypes, Schedule, Goto, Left, mutexVars, nodeVars
<1>2. NodeTypes'
  BY DEF IInv, NodeTypes, Schedule, Goto, Left, mutexVars, nodeVars
<1>3. SchedTypes'
  BY DEF IInv, SchedTypes, LocalTypes, MutexTypes, Labels, Schedule, Goto,
     Left, mutexVars, nodeVars
<1>4. LocalTypes'
  BY DEF IInv, LocalTypes, NodeTypes, MutexTypes, SchedTypes, OnCPU,
     Schedule, Goto, Left, mutexVars, nodeVars
<1>5. OnCPU'
  BY DEF IInv, OnCPU, SchedTypes, LocalTypes, Schedule, Goto, Left,
     mutexVars, nodeVars
<1>6. MutualExclusion'
  BY NullAssumption DEF IInv, MutualExclusion, Holds, McsUnlocking,
     SchedTypes, LocalTypes, Schedule, Goto, Left, mutexVars, nodeVars
<1> QED BY <1>1, <1>2, <1>3, <1>4, <1>5, <1>6 DEF IInv

(* Invariance: the run loop resumes a scheduled context. *)
LEMMA ResumeInv ==
    ASSUME IInv, NEW c \in Contexts, NEW k \in CPUs, Resume(c, k)
    PROVE  IInv'
PROOF
<1>1. MutexTypes'
  BY DEF IInv, MutexTypes, Resume, Free, Goto, mutexVars, nodeVars,
     localVars
<1>2. NodeTypes'
  BY DEF IInv, NodeTypes, Resume, Free, Goto, mutexVars, nodeVars, localVars
<1>3. SchedTypes'
  BY DEF IInv, SchedTypes, LocalTypes, MutexTypes, Labels, Resume, Free,
     Goto, mutexVars, nodeVars, localVars
<1>4. LocalTypes'
  BY DEF IInv, LocalTypes, Resume, Free, Goto, mutexVars, nodeVars,
     localVars
<1>5. OnCPU'
  BY DEF IInv, OnCPU, SchedTypes, LocalTypes, Resume, Free, Goto, mutexVars,
     nodeVars, localVars
<1>6. MutualExclusion'
  BY NullAssumption DEF IInv, MutualExclusion, Holds, McsUnlocking,
     SchedTypes, LocalTypes, Resume, Free, Goto, mutexVars, nodeVars,
     localVars
<1> QED BY <1>1, <1>2, <1>3, <1>4, <1>5, <1>6 DEF IInv


(* Together: every step of a context that is inside the mutex code. *)
LEMMA StepInv ==
    ASSUME IInv, NEW c \in Contexts,
           Step(c) \/ Acquire(c) \/ AcquireSpinout(c) \/ Migrate(c) \/ Unlock(c)
    PROVE  IInv'
BY TryEnqueueInv, TryTurnInv, EnqueueInv, LinkInv, SpinInv, StepAInv,
   HandedInv, ResampleInv, StepBInv, StepCInv, StepC2Inv, WaitInv, RetryInv,
   InsertInv, SuspendInv, ReleaseInv, AcquireInv, AcquireSpinoutInv,
   McsUnlockInv, McsSuccessorInv, McsHandInv, MigrateInv, UnlockInv,
   TakeWaiterInv, WokenInv, ScheduleInv, ResumeInv
   DEF Step

(* The same for a call of mutex_lock or mutex_try_lock. *)
LEMMA EnterInv ==
    ASSUME IInv, NEW c \in Contexts, NEW k \in CPUs, NEW how \in {"try", "lock"}, Enter(c, k, how)
    PROVE  IInv'
PROOF
<1>1. MutexTypes'
  BY DEF IInv, MutexTypes, Enter, Free, Goto, mutexVars, nodeVars, localVars
<1>2. NodeTypes'
  BY DEF IInv, NodeTypes, SchedTypes, OnCPU, LocalTypes, Enter, Free, Goto,
     mutexVars, nodeVars, localVars
<1>3. SchedTypes'
  BY DEF IInv, SchedTypes, LocalTypes, MutexTypes, Labels, Enter, Free,
     Goto, mutexVars, nodeVars, localVars
<1>4. LocalTypes'
  BY DEF IInv, LocalTypes, NodeTypes, MutexTypes, SchedTypes, OnCPU, Enter,
     Free, Goto, mutexVars, nodeVars, localVars
<1>5. OnCPU'
  BY DEF IInv, OnCPU, SchedTypes, LocalTypes, Enter, Free, Goto, mutexVars,
     nodeVars, localVars
<1>6. MutualExclusion'
  BY NullAssumption DEF IInv, MutualExclusion, Holds, McsUnlocking,
     SchedTypes, LocalTypes, Enter, Free, Goto, mutexVars, nodeVars,
     localVars
<1> QED BY <1>1, <1>2, <1>3, <1>4, <1>5, <1>6 DEF IInv

LEMMA InitIInv == Init => IInv
  BY NullAssumption DEF Init, IInv, MutexTypes, NodeTypes, SchedTypes, LocalTypes,
     OnCPU, Labels, MutualExclusion, Holds, McsUnlocking

LEMMA NextIInv == IInv /\ [Next]_vars => IInv'
PROOF
<1> SUFFICES ASSUME IInv, [Next]_vars PROVE IInv'
  OBVIOUS
<1>1. CASE Next
  BY <1>1, StepInv, EnterInv DEF Next
<1>2. CASE UNCHANGED vars
  BY <1>2 DEF IInv, MutexTypes, NodeTypes, SchedTypes, LocalTypes, OnCPU,
     MutualExclusion, Holds, McsUnlocking, vars, mutexVars, nodeVars, schedVars,
     localVars
<1> QED BY <1>1, <1>2

(* The inductive invariant. *)
THEOREM Inductive == Spec => []IInv
BY InitIInv, NextIInv, PTL DEF Spec

(* Type correctness of the mutex, its MCS nodes and its callers' locals. *)
THEOREM TypeCorrect == Spec => []TypeOK
PROOF
<1>1. IInv => TypeOK
  BY DEF IInv, MutexTypes, NodeTypes, SchedTypes, LocalTypes, TypeOK
<1> QED BY <1>1, Inductive, PTL

(* mutex_lock and mutex_try_lock exclude one another, whichever of the four    *)
(* compare-and-swaps on m->turn succeeds.                                      *)
THEOREM Exclusion == Spec => []MutualExclusion
PROOF
<1>1. IInv => MutualExclusion
  BY DEF IInv
<1> QED BY <1>1, Inductive, PTL

-----------------------------------------------------------------------------
(***************************************************************************)
(* The waiters.  SleeperIsHeld is inductive together with who holds         *)
(* waiters_lock and who carries a waiter; NoLostWakeup is not: between      *)
(* Retry and Insert a context is bound for the list without being on it,    *)
(* and what it has seen of m->turn may be stale by then.                    *)
(***************************************************************************)

(* Inside the section of waiters_lock; with a waiter in hand. *)
Locked(c) == pc[c] \in {"retry", "insert"}
Waking(c) == pc[c] \in {"woken", "schedule"}
Queueing == {"link", "spin", "A", "handed", "resample", "B", "acquire"}

(* waiters_lock names the context inside; a waker has its waiter; on_mcs is set *)
(* only between the exchange of the tail and the end of the wait.               *)
LockIsHeld == \A c \in Contexts : Locked(c) <=> waiters_lock = c
WakesMatch == \A c \in Contexts : Waking(c) <=> wake[c] # NoCtx
OnQueue == \A c \in Contexts : on_mcs[c] => pc[c] \in Queueing

(* Nobody is twice on the list, in two hands, or in two of the three places,    *)
(* and those in one of them are those that sleep.                               *)
ListOnce == \A i, j \in DOMAIN waiters : waiters[i] = waiters[j] => i = j
WakeOnce == \A c, d \in Contexts : wake[c] = wake[d] /\ wake[c] # NoCtx => c = d
OnePlace ==
    /\ \A c \in Contexts : OnList(c) => c \notin scheduled
    /\ \A c \in Contexts : wake[c] # NoCtx => wake[c] \notin scheduled /\ ~OnList(wake[c])
Held(c) == OnList(c) \/ c \in scheduled \/ \E d \in Contexts : wake[d] = c
AsleepIsHeld == \A c \in Contexts : Asleep(c) <=> Held(c)

Places == LockIsHeld /\ WakesMatch /\ ListOnce /\ WakeOnce /\ OnePlace /\ AsleepIsHeld

(* c has the mutex to look after: it is waking somebody, about to look at the   *)
(* list, or polling m->turn after a wakeup.                                     *)
Attends(c) == Waking(c) \/ pc[c] = "unlocked" \/ (pc[c] = "acquire" /\ ~on_mcs[c])
Attended == turn # NoCtx \/ scheduled # {} \/ \E c \in Contexts : Attends(c)
ListIsAttended == (waiters # <<>> \/ \E c \in Contexts : pc[c] = "insert") => Attended

SInv == IInv /\ OnQueue /\ Places /\ ListIsAttended

(* A step that moves nobody in or out of the three places, ... *)
SamePlaces ==
    /\ UNCHANGED <<waiters_lock, waiters, scheduled, wake>>
    /\ \A d \in Contexts : /\ Locked(d)' <=> Locked(d)
                           /\ Waking(d)' <=> Waking(d)
                           /\ Asleep(d)' <=> Asleep(d)

(* ... and one that leaves the list as well attended as it was. *)
Aside ==
    /\ SamePlaces /\ OnQueue'
    /\ \A d \in Contexts : pc'[d] = "insert" => pc[d] = "insert"
    /\ turn' # NoCtx \/ (turn = NoCtx /\ \A d \in Contexts : Attends(d) => Attends(d)')

LEMMA SamePlacesKeep == Places /\ SamePlaces => Places'
PROOF
<1> SUFFICES ASSUME Places, SamePlaces PROVE Places'
  OBVIOUS
<1> USE DEF Places, SamePlaces
<1>1. LockIsHeld' /\ WakesMatch'
  BY DEF LockIsHeld, WakesMatch
<1>2. ListOnce' /\ WakeOnce' /\ OnePlace'
  BY DEF ListOnce, WakeOnce, OnePlace, OnList
<1>3. AsleepIsHeld'
  BY DEF AsleepIsHeld, Held, OnList
<1> QED BY <1>1, <1>2, <1>3

LEMMA AsideKeeps == Places /\ ListIsAttended /\ Aside => OnQueue' /\ Places' /\ ListIsAttended'
PROOF
<1> SUFFICES ASSUME Places, ListIsAttended, Aside PROVE OnQueue' /\ Places' /\ ListIsAttended'
  OBVIOUS
<1>1. Places' /\ OnQueue'
  BY SamePlacesKeep DEF Aside
<1>2. ListIsAttended'
  BY DEF Aside, SamePlaces, ListIsAttended, Attended
<1> QED BY <1>1, <1>2

(* Most steps leave the list aside: spinning, handing the MCS lock on, going to *)
(* sleep, and taking the turn.                                                  *)
LEMMA AsideSteps ==
    ASSUME IInv, OnQueue, NEW c \in Contexts
    PROVE  /\ TryEnqueue(c) => Aside
           /\ TryTurn(c) => Aside
           /\ Enqueue(c) => Aside
           /\ Link(c) => Aside
           /\ Spin(c) => Aside
           /\ StepA(c) => Aside
           /\ Handed(c) => Aside
           /\ Resample(c) => Aside
           /\ StepB(c) => Aside
           /\ StepC(c) => Aside
           /\ StepC2(c) => Aside
           /\ Suspend(c) => Aside
           /\ Release(c) => Aside
           /\ Acquire(c) => Aside
           /\ McsUnlock(c) => Aside
           /\ McsSuccessor(c) => Aside
           /\ McsHand(c) => Aside
           /\ Migrate(c) => Aside
           /\ Woken(c) => Aside
PROOF
<1> USE NullAssumption DEF IInv, OnQueue, Aside, SamePlaces, Locked, Waking, Asleep, Attends, Queueing
<1>1. ASSUME TryEnqueue(c) PROVE Aside
  BY <1>1 DEF SchedTypes, LocalTypes, TryEnqueue, Goto, localVars
<1>2. ASSUME TryTurn(c) PROVE Aside
  BY <1>2 DEF SchedTypes, LocalTypes, TryTurn, Goto, schedVars
<1>3. ASSUME Enqueue(c) PROVE Aside
  BY <1>3 DEF SchedTypes, LocalTypes, Enqueue, Goto, schedVars
<1>4. ASSUME Link(c) PROVE Aside
  BY <1>4 DEF SchedTypes, LocalTypes, Link, Goto, mutexVars, schedVars,
     localVars
<1>5. ASSUME Spin(c) PROVE Aside
  BY <1>5 DEF SchedTypes, LocalTypes, Spin, Goto, mutexVars, schedVars,
     localVars
<1>6. ASSUME StepA(c) PROVE Aside
  BY <1>6 DEF SchedTypes, LocalTypes, StepA, Goto, mutexVars, schedVars,
     localVars
<1>7. ASSUME Handed(c) PROVE Aside
  BY <1>7 DEF SchedTypes, LocalTypes, Handed, Goto, mutexVars, schedVars,
     localVars
<1>8. ASSUME Resample(c) PROVE Aside
  BY <1>8 DEF SchedTypes, LocalTypes, Resample, Goto, mutexVars, schedVars
<1>9. ASSUME StepB(c) PROVE Aside
  BY <1>9 DEF SchedTypes, LocalTypes, StepB, mutex_get_next, Goto, schedVars
<1>10. ASSUME StepC(c) PROVE Aside
  BY <1>10 DEF SchedTypes, LocalTypes, StepC, Goto, mutexVars, schedVars,
     localVars
<1>11. ASSUME StepC2(c) PROVE Aside
  BY <1>11 DEF SchedTypes, LocalTypes, StepC2, Goto, mutexVars, schedVars
<1>12. ASSUME Suspend(c) PROVE Aside
  BY <1>12 DEF SchedTypes, LocalTypes, Suspend, Goto, mutexVars, localVars
<1>13. ASSUME Release(c) PROVE Aside
  BY <1>13 DEF SchedTypes, LocalTypes, Release, Goto, mutexVars, localVars
<1>14. ASSUME Acquire(c) PROVE Aside
  BY <1>14 DEF SchedTypes, LocalTypes, Acquire, LeaveQueue, Goto, schedVars
<1>15. ASSUME McsUnlock(c) PROVE Aside
  BY <1>15 DEF SchedTypes, LocalTypes, McsUnlock, McsReturn, Goto
<1>16. ASSUME McsSuccessor(c) PROVE Aside
  BY <1>16 DEF SchedTypes, LocalTypes, McsSuccessor, mutex_get_next,
     McsReturn, Goto
<1>17. ASSUME McsHand(c) PROVE Aside
  BY <1>17 DEF SchedTypes, LocalTypes, McsHand, McsReturn, Goto, mutexVars
<1>18. ASSUME Migrate(c) PROVE Aside
  BY <1>18 DEF SchedTypes, LocalTypes, Migrate, mutexVars, localVars
<1>19. ASSUME Woken(c) PROVE Aside
  BY <1>19 DEF SchedTypes, LocalTypes, Woken, Goto, mutexVars, localVars
<1> QED BY <1>1, <1>2, <1>3, <1>4, <1>5, <1>6, <1>7, <1>8, <1>9, <1>10,
   <1>11, <1>12, <1>13, <1>14, <1>15, <1>16, <1>17, <1>18, <1>19, Zenon

(* The same for a call of mutex_lock or mutex_try_lock. *)
LEMMA EnterAside ==
    ASSUME IInv, OnQueue, NEW c \in Contexts, NEW k \in CPUs, NEW how \in {"try", "lock"}, Enter(c, k, how)
    PROVE  Aside
BY NullAssumption DEF IInv, OnQueue, Aside, SamePlaces, Locked, Waking, Asleep, Attends, Queueing,
   SchedTypes, LocalTypes, Enter, Goto, mutexVars, localVars

(* A context takes waiters_lock and is inside its section. *)
LEMMA WaitSleep ==
    ASSUME SInv, NEW c \in Contexts, Wait(c)
    PROVE  OnQueue' /\ Places' /\ ListIsAttended'
PROOF
<1> USE NullAssumption DEF SInv, IInv, SchedTypes, LocalTypes, Places
<1>1. /\ waiters_lock = NoCtx /\ waiters_lock' = c
      /\ pc[c] = "wait" /\ pc' = [pc EXCEPT ![c] = "retry"]
      /\ UNCHANGED <<turn, waiters, scheduled, on_mcs, wake>>
  BY DEF Wait, Goto, localVars
<1>2. LockIsHeld'
  BY <1>1 DEF LockIsHeld, Locked
<1>3. WakesMatch' /\ AsleepIsHeld'
  BY <1>1 DEF WakesMatch, AsleepIsHeld, Waking, Asleep, Held, OnList
<1>4. ListOnce' /\ WakeOnce' /\ OnePlace'
  BY <1>1 DEF ListOnce, WakeOnce, OnePlace, OnList
<1>5. OnQueue'
  BY <1>1 DEF OnQueue, Queueing
<1>6. ListIsAttended'
  BY <1>1 DEF ListIsAttended, Attended, Attends, Waking
<1> QED BY <1>2, <1>3, <1>4, <1>5, <1>6

(* It gets the turn after all, or sees that somebody has it. *)
LEMMA RetrySleep ==
    ASSUME SInv, NEW c \in Contexts, Retry(c)
    PROVE  OnQueue' /\ Places' /\ ListIsAttended'
PROOF
<1> USE NullAssumption DEF SInv, IInv, SchedTypes, LocalTypes, Places
<1>1. /\ pc[c] = "retry" /\ UNCHANGED <<waiters, scheduled, on_mcs, wake>>
      /\ turn' # NoCtx
      /\ \/ pc' = [pc EXCEPT ![c] = "cs"] /\ waiters_lock' = NoCtx
         \/ pc' = [pc EXCEPT ![c] = "insert"] /\ waiters_lock' = waiters_lock
  BY DEF Retry, Goto, localVars
<1>2. LockIsHeld'
  BY <1>1 DEF LockIsHeld, Locked
<1>3. WakesMatch' /\ AsleepIsHeld'
  BY <1>1 DEF WakesMatch, AsleepIsHeld, Waking, Asleep, Held, OnList
<1>4. ListOnce' /\ WakeOnce' /\ OnePlace'
  BY <1>1 DEF ListOnce, WakeOnce, OnePlace, OnList
<1>5. OnQueue'
  BY <1>1 DEF OnQueue, Queueing
<1>6. ListIsAttended'
  BY <1>1 DEF ListIsAttended, Attended
<1> QED BY <1>2, <1>3, <1>4, <1>5, <1>6

(* What is on the list after list_push_back, and after the oldest was taken. *)
LEMMA AppendMembers ==
    ASSUME NEW S, NEW s \in Seq(S), NEW e \in S,
           \A i \in DOMAIN s : s[i] # e,
           \A i, j \in DOMAIN s : s[i] = s[j] => i = j
    PROVE  /\ \A d : (\E i \in DOMAIN Append(s, e) : Append(s, e)[i] = d) <=> (\E i \in DOMAIN s : s[i] = d) \/ d = e
           /\ \A i, j \in DOMAIN Append(s, e) : Append(s, e)[i] = Append(s, e)[j] => i = j
PROOF
<1>1. /\ Len(s) \in Nat /\ DOMAIN s = 1 .. Len(s)
      /\ DOMAIN Append(s, e) = 1 .. Len(s) + 1
      /\ Append(s, e)[Len(s) + 1] = e
      /\ \A i \in DOMAIN s : Append(s, e)[i] = s[i]
  OBVIOUS
<1>2. \A i \in DOMAIN Append(s, e) : i \in DOMAIN s \/ i = Len(s) + 1
  BY <1>1
<1>3. DOMAIN s \subseteq DOMAIN Append(s, e) /\ Len(s) + 1 \in DOMAIN Append(s, e)
  BY <1>1
<1> QED BY <1>1, <1>2, <1>3, Zenon

LEMMA ListPushBack ==
    ASSUME NEW c \in Contexts, waiters \in Seq(Contexts), ListOnce, ~OnList(c),
           waiters' = Append(waiters, c)
    PROVE  (\A d : OnList(d)' <=> OnList(d) \/ d = c) /\ ListOnce'
PROOF
<1>1. \A i \in DOMAIN waiters : waiters[i] # c
  BY Zenon DEF OnList
<1>2. PICK s : s = Append(waiters, c)
  OBVIOUS
<1>3. /\ \A d : (\E i \in DOMAIN s : s[i] = d) <=> (\E i \in DOMAIN waiters : waiters[i] = d) \/ d = c
      /\ \A i, j \in DOMAIN s : s[i] = s[j] => i = j
  BY <1>1, <1>2, AppendMembers DEF ListOnce
<1> QED BY <1>2, <1>3 DEF OnList, ListOnce

LEMMA TailMembers ==
    ASSUME NEW S, NEW s \in Seq(S), s # <<>>,
           \A i, j \in DOMAIN s : s[i] = s[j] => i = j
    PROVE  /\ Head(s) \in S /\ \E i \in DOMAIN s : s[i] = Head(s)
           /\ \A d : (\E i \in DOMAIN Tail(s) : Tail(s)[i] = d) <=> (\E i \in DOMAIN s : s[i] = d) /\ d # Head(s)
           /\ \A i, j \in DOMAIN Tail(s) : Tail(s)[i] = Tail(s)[j] => i = j
PROOF
<1>1. /\ Len(s) \in Nat \ {0} /\ DOMAIN s = 1 .. Len(s)
      /\ Head(s) = s[1] /\ s[1] \in S
      /\ DOMAIN Tail(s) = 1 .. Len(s) - 1
      /\ \A i \in 1 .. Len(s) - 1 : Tail(s)[i] = s[i + 1]
  OBVIOUS
<1>2. \A d : (\E i \in DOMAIN Tail(s) : Tail(s)[i] = d) => (\E i \in DOMAIN s : s[i] = d) /\ d # Head(s)
  BY <1>1
<1>3. ASSUME NEW i \in DOMAIN s, s[i] # Head(s) PROVE i - 1 \in DOMAIN Tail(s) /\ Tail(s)[i - 1] = s[i]
  BY <1>1, <1>3
<1>4. \A i, j \in DOMAIN Tail(s) : Tail(s)[i] = Tail(s)[j] => i = j
  BY <1>1
<1>5. \A d : (\E i \in DOMAIN s : s[i] = d) /\ d # Head(s) => \E i \in DOMAIN Tail(s) : Tail(s)[i] = d
  BY <1>3, Zenon
<1>6. Head(s) \in S /\ \E i \in DOMAIN s : s[i] = Head(s)
  BY <1>1
<1> QED BY <1>2, <1>4, <1>5, <1>6, Zenon

(* It joins the list and leaves the section of waiters_lock. *)
LEMMA InsertSleep ==
    ASSUME SInv, NEW c \in Contexts, Insert(c)
    PROVE  OnQueue' /\ Places' /\ ListIsAttended'
PROOF
<1> USE NullAssumption DEF SInv, IInv, SchedTypes, LocalTypes, Places
<1>1. /\ pc[c] = "insert" /\ pc' = [pc EXCEPT ![c] = "suspend"]
      /\ waiters' = Append(waiters, c) /\ waiters_lock' = NoCtx
      /\ UNCHANGED <<turn, scheduled, on_mcs, wake>>
  BY DEF Insert, Goto, schedVars, localVars
<1>2. ~Asleep(c) /\ ~OnList(c) /\ c \notin scheduled /\ \A d \in Contexts : wake[d] # c
  BY <1>1 DEF AsleepIsHeld, Held, Asleep
<1>3. waiters \in Seq(Contexts)
  BY DEF MutexTypes
<1>4. (\A d : OnList(d)' <=> OnList(d) \/ d = c) /\ ListOnce'
  BY <1>1, <1>2, <1>3, ListPushBack
<1>5. LockIsHeld'
  BY <1>1 DEF LockIsHeld, Locked
<1>6. WakesMatch' /\ WakeOnce'
  BY <1>1 DEF WakesMatch, WakeOnce, Waking
<1>7. OnePlace'
  BY <1>1, <1>2, <1>4 DEF OnePlace
<1>8. AsleepIsHeld'
  BY <1>1, <1>2, <1>4 DEF AsleepIsHeld, Held, Asleep
<1>9. OnQueue'
  BY <1>1 DEF OnQueue, Queueing
<1>10. ListIsAttended'
  BY <1>1 DEF ListIsAttended, Attended, Attends, Waking
<1> QED BY <1>4, <1>5, <1>6, <1>7, <1>8, <1>9, <1>10

(* A scheduled sleeper wakes up and polls m->turn. *)
LEMMA ResumeSleep ==
    ASSUME SInv, NEW c \in Contexts, NEW k \in CPUs, Resume(c, k)
    PROVE  OnQueue' /\ Places' /\ ListIsAttended'
PROOF
<1> USE NullAssumption DEF SInv, IInv, SchedTypes, LocalTypes, Places
<1>1. /\ pc[c] = "off" /\ pc' = [pc EXCEPT ![c] = "acquire"]
      /\ c \in scheduled /\ scheduled' = scheduled \ {c}
      /\ UNCHANGED <<turn, waiters, waiters_lock, on_mcs, wake>>
  BY DEF Resume, Goto, mutexVars, localVars
<1>2. LockIsHeld' /\ WakesMatch'
  BY <1>1 DEF LockIsHeld, Locked, WakesMatch, Waking
<1>3. ListOnce' /\ WakeOnce' /\ OnePlace'
  BY <1>1 DEF ListOnce, WakeOnce, OnePlace, OnList
<1>4. AsleepIsHeld'
  BY <1>1 DEF AsleepIsHeld, OnePlace, Held, OnList, Asleep
<1>5. OnQueue'
  BY <1>1 DEF OnQueue, Queueing
<1>6. Attends(c)'
  BY <1>1 DEF OnQueue, Queueing, Attends
<1>7. ListIsAttended'
  BY <1>6 DEF ListIsAttended, Attended
<1> QED BY <1>2, <1>3, <1>4, <1>5, <1>7

(* A poller gives up: it leaves the MCS queue, or it goes back to sleep with    *)
(* its return already scheduled.                                                *)
LEMMA AcquireSpinoutSleep ==
    ASSUME SInv, NEW c \in Contexts, AcquireSpinout(c)
    PROVE  OnQueue' /\ Places' /\ ListIsAttended'
PROOF
<1> USE NullAssumption DEF SInv, IInv, SchedTypes, LocalTypes, Places
<1>1. /\ pc[c] = "acquire" /\ on_mcs' = [on_mcs EXCEPT ![c] = FALSE]
      /\ UNCHANGED <<turn, waiters, waiters_lock, wake>>
  BY DEF AcquireSpinout, LeaveQueue, Goto, mutexVars
<1>2. CASE on_mcs[c]
  <2>1. pc' = [pc EXCEPT ![c] = "u1"] /\ scheduled' = scheduled
    BY <1>2 DEF AcquireSpinout, Goto
  <2>2. Aside
    BY <1>1, <1>2, <2>1 DEF Aside, SamePlaces, OnQueue, Locked, Waking, Asleep, Attends, Queueing
  <2> QED BY <2>2, AsideKeeps
<1>3. CASE ~on_mcs[c]
  <2>1. pc' = [pc EXCEPT ![c] = "suspend"] /\ scheduled' = scheduled \cup {c}
    BY <1>3 DEF AcquireSpinout, Goto
  <2>2. ~OnList(c) /\ \A d \in Contexts : wake[d] # c
    BY <1>1 DEF AsleepIsHeld, Held, Asleep
  <2>3. LockIsHeld' /\ WakesMatch'
    BY <1>1, <2>1 DEF LockIsHeld, Locked, WakesMatch, Waking
  <2>4. ListOnce' /\ WakeOnce' /\ OnePlace'
    BY <1>1, <2>1, <2>2 DEF ListOnce, WakeOnce, OnePlace, OnList
  <2>5. AsleepIsHeld'
    BY <1>1, <2>1 DEF AsleepIsHeld, Held, OnList, Asleep
  <2>6. OnQueue'
    BY <1>1, <2>1 DEF OnQueue, Queueing
  <2>7. ListIsAttended'
    BY <2>1 DEF ListIsAttended, Attended
  <2> QED BY <2>3, <2>4, <2>5, <2>6, <2>7
<1> QED BY <1>2, <1>3

(* Whoever gives up the turn looks at the list next. *)
LEMMA UnlockSleep ==
    ASSUME SInv, NEW c \in Contexts, Unlock(c)
    PROVE  OnQueue' /\ Places' /\ ListIsAttended'
PROOF
<1> USE DEF SInv, IInv, SchedTypes, LocalTypes
<1>1. /\ pc[c] = "cs" /\ pc' = [pc EXCEPT ![c] = "unlocked"]
      /\ UNCHANGED <<waiters, waiters_lock, scheduled, on_mcs, wake>>
  BY DEF Unlock, Goto, schedVars, localVars
<1>2. SamePlaces
  BY <1>1 DEF SamePlaces, Locked, Waking, Asleep
<1>3. OnQueue'
  BY <1>1 DEF OnQueue, Queueing
<1>4. ListIsAttended'
  BY <1>1 DEF ListIsAttended, Attended, Attends
<1> QED BY <1>2, <1>3, <1>4, SamePlacesKeep

(* It leaves an empty list, or has the oldest waiter in hand. *)
LEMMA TakeWaiterSleep ==
    ASSUME SInv, NEW c \in Contexts, TakeWaiter(c)
    PROVE  OnQueue' /\ Places' /\ ListIsAttended'
PROOF
<1> USE NullAssumption DEF SInv, IInv, SchedTypes, LocalTypes, Places
<1>1. /\ pc[c] = "unlocked" /\ waiters_lock = NoCtx
      /\ UNCHANGED <<turn, waiters_lock, scheduled, on_mcs>>
  BY DEF TakeWaiter, Goto
<1>2. CASE waiters = <<>>
  <2>1. pc' = [pc EXCEPT ![c] = "out"] /\ UNCHANGED <<waiters, wake>>
    BY <1>2 DEF TakeWaiter, Goto
  <2>2. SamePlaces
    BY <1>1, <2>1 DEF SamePlaces, Locked, Waking, Asleep
  <2>3. OnQueue'
    BY <1>1, <2>1 DEF OnQueue, Queueing
  <2>4. ListIsAttended'
    BY <1>1, <1>2, <2>1 DEF ListIsAttended, LockIsHeld, Locked
  <2> QED BY <2>2, <2>3, <2>4, SamePlacesKeep
<1>3. CASE waiters # <<>>
  <2> DEFINE h == Head(waiters)
  <2>1. /\ pc' = [pc EXCEPT ![c] = "woken"]
        /\ waiters' = Tail(waiters) /\ wake' = [wake EXCEPT ![c] = h]
    BY <1>3, Zenon DEF TakeWaiter, Goto
  <2>2. waiters \in Seq(Contexts)
    BY DEF MutexTypes
  <2>3. /\ h \in Contexts /\ OnList(h) /\ ListOnce'
        /\ \A d : OnList(d)' <=> OnList(d) /\ d # h
    BY <1>3, <2>1, <2>2, TailMembers, Zenon DEF OnList, ListOnce
  <2> HIDE DEF h
  <2>4. h \notin scheduled /\ (\A d \in Contexts : wake[d] # h) /\ wake[c] = NoCtx
    BY <1>1, <2>3 DEF OnePlace, WakesMatch, Waking
  <2>5. LockIsHeld' /\ WakesMatch'
    BY <1>1, <2>1, <2>3 DEF LockIsHeld, Locked, WakesMatch, Waking
  <2>6. WakeOnce' /\ OnePlace'
    BY <1>1, <2>1, <2>3, <2>4 DEF WakeOnce, OnePlace
  <2>7. AsleepIsHeld'
    BY <1>1, <2>1, <2>3, <2>4 DEF AsleepIsHeld, Held, Asleep
  <2>8. OnQueue'
    BY <1>1, <2>1 DEF OnQueue, Queueing
  <2>9. ListIsAttended'
    BY <1>1, <2>1 DEF ListIsAttended, Attended, Attends, Waking
  <2> QED BY <2>3, <2>5, <2>6, <2>7, <2>8, <2>9
<1> QED BY <1>2, <1>3

(* The waiter passes from the hands of its waker to the scheduler. *)
LEMMA ScheduleSleep ==
    ASSUME SInv, NEW c \in Contexts, Schedule(c)
    PROVE  OnQueue' /\ Places' /\ ListIsAttended'
PROOF
<1> USE NullAssumption DEF SInv, IInv, SchedTypes, LocalTypes, Places
<1>1. /\ pc[c] = "schedule" /\ pc' = [pc EXCEPT ![c] = "out"]
      /\ scheduled' = scheduled \cup {wake[c]} /\ wake' = [wake EXCEPT ![c] = NoCtx]
      /\ UNCHANGED <<turn, waiters_lock, waiters, on_mcs>>
  BY DEF Schedule, Goto, mutexVars
<1>2. wake[c] \in Contexts /\ wake[c] \notin scheduled /\ ~OnList(wake[c])
  BY <1>1 DEF WakesMatch, Waking, OnePlace
<1>3. LockIsHeld' /\ WakesMatch'
  BY <1>1 DEF LockIsHeld, Locked, WakesMatch, Waking
<1>4. ListOnce' /\ WakeOnce'
  BY <1>1 DEF ListOnce, WakeOnce
<1>5. OnePlace'
  BY <1>1, <1>2 DEF OnePlace, WakeOnce, OnList
<1>6. AsleepIsHeld'
  BY <1>1, <1>2 DEF AsleepIsHeld, Held, OnList, Asleep
<1>7. OnQueue'
  BY <1>1 DEF OnQueue, Queueing
<1>8. ListIsAttended'
  BY <1>1 DEF ListIsAttended, Attended
<1> QED BY <1>3, <1>4, <1>5, <1>6, <1>7, <1>8

(* The inductive invariant of the waiters. *)
THEOREM SleepInductive == Spec => []SInv
PROOF
<1>1. Init => SInv
  <2>1. Init => IInv
    BY InitIInv
  <2>2. Init => OnQueue /\ Places /\ ListIsAttended
    BY NullAssumption DEF Init, OnQueue, Places, ListIsAttended, LockIsHeld, Locked, WakesMatch, Waking,
       ListOnce, WakeOnce, OnePlace, AsleepIsHeld, Held, OnList, Asleep
  <2> QED BY <2>1, <2>2 DEF SInv
<1>2. SInv /\ [Next]_vars => SInv'
  <2> SUFFICES ASSUME SInv, [Next]_vars PROVE SInv'
    OBVIOUS
  <2>1. IInv'
    BY NextIInv DEF SInv
  <2>2. ASSUME Next PROVE OnQueue' /\ Places' /\ ListIsAttended'
    <3>1. PICK c \in Contexts :
            \/ \E k \in CPUs, how \in {"try", "lock"} : Enter(c, k, how)
            \/ Step(c) \/ Acquire(c) \/ AcquireSpinout(c) \/ Migrate(c) \/ Unlock(c)
      BY <2>2 DEF Next
    <3>2. CASE Aside
      BY <3>2, AsideKeeps DEF SInv
    <3>3. CASE ~Aside
      BY <3>1, <3>3, AsideSteps, EnterAside, WaitSleep, RetrySleep, InsertSleep, ResumeSleep,
         AcquireSpinoutSleep, UnlockSleep, TakeWaiterSleep, ScheduleSleep, Zenon DEF Step, SInv
    <3> QED BY <3>2, <3>3
  <2>3. CASE UNCHANGED vars
    <3>1. Aside
      BY <2>3 DEF SInv, Aside, SamePlaces, OnQueue, Locked, Waking, Asleep, Attends, vars, mutexVars,
         schedVars, localVars
    <3> QED BY <2>1, <3>1, AsideKeeps DEF SInv
  <2> QED BY <2>1, <2>2, <2>3 DEF SInv
<1> QED BY <1>1, <1>2, PTL DEF Spec

(* A sleeper is on the list, in one unlocker's hands or scheduled, and in one   *)
(* of these only once: no second wakeup, and none that is forgotten.            *)
THEOREM SleepersAreHeld == Spec => []SleeperIsHeld
PROOF
<1>1. ASSUME SInv, NEW c \in Contexts, Asleep(c)
      PROVE  Cardinality({i \in DOMAIN waiters : waiters[i] = c})
             + Cardinality({d \in Contexts : wake[d] = c})
             + (IF c \in scheduled THEN 1 ELSE 0) = 1
  <2> DEFINE L == {i \in DOMAIN waiters : waiters[i] = c}
             W == {d \in Contexts : wake[d] = c}
  <2>1. c # NoCtx /\ Held(c) /\ ListOnce /\ WakeOnce /\ OnePlace
    BY <1>1, NullAssumption DEF SInv, Places, AsleepIsHeld
  <2>2. OnList(c) => \E i : L = {i}
    BY <2>1, Zenon DEF OnList, ListOnce
  <2>3. ~OnList(c) => L = {}
    BY Zenon DEF OnList
  <2>4. (\E d \in Contexts : wake[d] = c) => \E d : W = {d}
    BY <2>1, Zenon DEF WakeOnce
  <2>5. ~(\E d \in Contexts : wake[d] = c) => W = {}
    BY Zenon
  <2>6. Cardinality(L) = (IF OnList(c) THEN 1 ELSE 0)
    <3>1. OnList(c) => Cardinality(L) = 1
      BY <2>2, FS_Singleton, Zenon
    <3>2. ~OnList(c) => Cardinality(L) = 0
      BY <2>3, FS_EmptySet, Zenon
    <3> QED BY <3>1, <3>2
  <2>7. Cardinality(W) = (IF \E d \in Contexts : wake[d] = c THEN 1 ELSE 0)
    <3>1. (\E d \in Contexts : wake[d] = c) => Cardinality(W) = 1
      BY <2>4, FS_Singleton, Zenon
    <3>2. ~(\E d \in Contexts : wake[d] = c) => Cardinality(W) = 0
      BY <2>5, FS_EmptySet, Zenon
    <3> QED BY <3>1, <3>2, Zenon
  <2>8. /\ OnList(c) => c \notin scheduled
        /\ (\E d \in Contexts : wake[d] = c) => c \notin scheduled /\ ~OnList(c)
    BY <2>1 DEF OnePlace
  <2> QED BY <2>1, <2>6, <2>7, <2>8 DEF Held
<1>2. SInv => SleeperIsHeld
  BY <1>1 DEF SleeperIsHeld, SInv, Places, AsleepIsHeld, Held
<1> QED BY <1>2, SleepInductive, PTL

(* mutex_unlock loses no waiter: while the list is not empty somebody has the   *)
(* mutex or will look at the list, for any number of contexts and CPUs.         *)
THEOREM WakeupsAreNotLost == Spec => []NoLostWakeup
PROOF
<1>1. SInv => NoLostWakeup
  BY DEF SInv, IInv, SchedTypes, ListIsAttended, Attended, Attends, Waking, NoLostWakeup
<1> QED BY <1>1, SleepInductive, PTL
=============================================================================
