------------------------------- MODULE KMutex -------------------------------
(***************************************************************************)
(* The kernel's two-phase mutex (kernel/src/kernel/mutex.c): contexts spin *)
(* on a cancelable MCS queue of CPUs, give up after a while, and then      *)
(* sleep on a list of waiters.  One step per shared-memory access whose    *)
(* order matters; a spin loop waits, and the two spin limits are a choice  *)
(* to give up at any time.  A local variable, and the mcs_prev of a node    *)
(* that is not waiting, is cleared when it is dead.                        *)
(***************************************************************************)
EXTENDS Naturals, Sequences, FiniteSets

CONSTANTS
    Contexts,  \* kernel contexts that use the mutex
    CPUs,      \* cpuinfo structures, each with its one MCS node
    Affinity,  \* <<context, CPU>> pairs: where the scheduler may run a context
    NoCtx,     \* the null context
    NoCPU      \* the null cpuinfo

ASSUME NullAssumption == NoCtx \notin Contexts /\ NoCPU \notin CPUs
ASSUME AffinityAssumption == Affinity \subseteq Contexts \X CPUs

VARIABLES
    turn,         \* m->turn
    mcs_tail,     \* m->mcs_tail
    waiters_lock, \* the context that holds m->waiters_lock
    waiters,      \* m->waiters, oldest first
    mcs_prev, mcs_next, mcs_waiting,  \* of each CPU
    waiting_on,   \* contexts whose waiting_on is this mutex
    full,         \* contexts whose frame is full
    scheduled,    \* contexts handed to schedule_return and not resumed yet
    active_cpu,   \* the CPU a context runs on
    pc,           \* where each context is
    prev, next,   \* local variables of mutex_lock_internal and mcs_unlock
    on_mcs,       \* local of mutex_lock_internal
    after,        \* where mcs_unlock returns to
    wake          \* local `next` of mutex_unlock

mutexVars == <<turn, mcs_tail, waiters_lock, waiters>>
nodeVars  == <<mcs_prev, mcs_next, mcs_waiting>>
schedVars == <<waiting_on, full, scheduled, active_cpu>>
localVars == <<prev, next, on_mcs, after, wake>>
vars == <<mutexVars, nodeVars, schedVars, pc, localVars>>

Init ==
    /\ turn = NoCtx /\ mcs_tail = NoCPU /\ waiters_lock = NoCtx /\ waiters = <<>>
    /\ mcs_prev = [k \in CPUs |-> NoCPU]
    /\ mcs_next = [k \in CPUs |-> NoCPU]
    /\ mcs_waiting = [k \in CPUs |-> FALSE]
    /\ waiting_on = {} /\ full = {} /\ scheduled = {}
    /\ active_cpu = [c \in Contexts |-> NoCPU]
    /\ pc = [c \in Contexts |-> "out"]
    /\ prev = [c \in Contexts |-> NoCPU]
    /\ next = [c \in Contexts |-> NoCPU]
    /\ on_mcs = [c \in Contexts |-> FALSE]
    /\ after = [c \in Contexts |-> "out"]
    /\ wake = [c \in Contexts |-> NoCtx]

Goto(c, from, to) == pc[c] = from /\ pc' = [pc EXCEPT ![c] = to]

(* The variable f of x is dead. *)
Cleared(f, x, none) == [f EXCEPT ![x] = none]

(* The scheduler may run c on k now. *)
Free(c, k) == <<c, k>> \in Affinity /\ \A d \in Contexts : active_cpu[d] # k

-----------------------------------------------------------------------------
(* mutex_try_lock and mutex_lock *)

(* A context calls one of them, on the CPU it happens to run on. *)
Enter(c, k, how) ==
    /\ Free(c, k)
    /\ Goto(c, "out", how)
    /\ active_cpu' = [active_cpu EXCEPT ![c] = k]
    /\ UNCHANGED <<mutexVars, nodeVars, waiting_on, full, scheduled, localVars>>

(* The mutex is tried only from an empty MCS queue. *)
TryEnqueue(c) ==
    /\ \/ /\ mcs_tail = NoCPU
          /\ Goto(c, "try", "tryturn")
          /\ mcs_tail' = active_cpu[c]
          /\ UNCHANGED active_cpu
       \/ /\ mcs_tail # NoCPU
          /\ Goto(c, "try", "out")
          /\ active_cpu' = [active_cpu EXCEPT ![c] = NoCPU]
          /\ UNCHANGED mcs_tail
    /\ UNCHANGED <<turn, waiters_lock, waiters, nodeVars, waiting_on, full, scheduled, localVars>>

(* Mutant: an empty MCS queue is taken for a free mutex. *)
TryTurnBlind(c) ==
    /\ Goto(c, "tryturn", "u1")
    /\ turn' = c
    /\ after' = [after EXCEPT ![c] = "cs"]
    /\ UNCHANGED <<mcs_tail, waiters_lock, waiters, nodeVars, schedVars, prev, next, on_mcs, wake>>

(* try_lock: one compare-and-swap, and off the MCS queue whatever it says. *)
TryTurn(c) ==
    /\ Goto(c, "tryturn", "u1")
    /\ turn' = IF turn = NoCtx THEN c ELSE turn
    /\ after' = [after EXCEPT ![c] = IF turn = NoCtx THEN "cs" ELSE "out"]
    /\ UNCHANGED <<mcs_tail, waiters_lock, waiters, nodeVars, schedVars, prev, next, on_mcs, wake>>

(* Swap this CPU into the tail.  mcs_waiting and mcs_prev are private until    *)
(* Link publishes the node.                                                    *)
Enqueue(c) ==
    LET k == active_cpu[c] IN
    /\ mcs_tail' = k
    /\ prev' = [prev EXCEPT ![c] = mcs_tail]
    /\ on_mcs' = [on_mcs EXCEPT ![c] = TRUE]
    /\ IF mcs_tail = NoCPU
       THEN /\ Goto(c, "lock", "acquire")
            /\ mcs_waiting' = [mcs_waiting EXCEPT ![k] = FALSE]
            /\ UNCHANGED mcs_prev
       ELSE /\ Goto(c, "lock", "link")
            /\ mcs_waiting' = [mcs_waiting EXCEPT ![k] = TRUE]
            /\ mcs_prev' = [mcs_prev EXCEPT ![k] = mcs_tail]
    /\ UNCHANGED <<turn, waiters_lock, waiters, mcs_next, schedVars, next, after, wake>>

Link(c) ==
    /\ Goto(c, "link", "spin")
    /\ mcs_next' = [mcs_next EXCEPT ![prev[c]] = active_cpu[c]]
    /\ UNCHANGED <<mutexVars, mcs_prev, mcs_waiting, schedVars, localVars>>

(* Handed the MCS lock, or out of spins. *)
Spin(c) ==
    /\ \/ Goto(c, "spin", "acquire") /\ ~mcs_waiting[active_cpu[c]]
       \/ Goto(c, "spin", "A")
    /\ UNCHANGED <<mutexVars, nodeVars, schedVars, localVars>>

(* Step A: undo prev->mcs_next, unless the lock is handed over meanwhile. *)
StepA(c) ==
    /\ \/ /\ Goto(c, "A", "B")
          /\ mcs_next[prev[c]] = active_cpu[c]
          /\ mcs_next' = [mcs_next EXCEPT ![prev[c]] = NoCPU]
       \/ /\ Goto(c, "A", "handed")
          /\ mcs_next[prev[c]] # active_cpu[c]
          /\ UNCHANGED mcs_next
    /\ UNCHANGED <<mutexVars, mcs_prev, mcs_waiting, schedVars, localVars>>

Handed(c) ==
    /\ \/ Goto(c, "handed", "resample") /\ mcs_waiting[active_cpu[c]]
       \/ Goto(c, "handed", "acquire") /\ ~mcs_waiting[active_cpu[c]]
    /\ UNCHANGED <<mutexVars, nodeVars, schedVars, localVars>>

Resample(c) ==
    /\ Goto(c, "resample", "A")
    /\ prev' = [prev EXCEPT ![c] = mcs_prev[active_cpu[c]]]
    /\ UNCHANGED <<mutexVars, nodeVars, schedVars, next, on_mcs, after, wake>>

(* Mutant: the successor's pointer is read but stays in the node. *)
mutex_get_nextKeeps(c, p, from, none, some) ==
    LET k == active_cpu[c] IN
    \/ /\ mcs_tail = k
       /\ Goto(c, from, none)
       /\ mcs_tail' = p
       /\ UNCHANGED <<mcs_next, next>>
    \/ /\ Goto(c, from, some)
       /\ mcs_tail # k
       /\ mcs_next[k] # NoCPU
       /\ next' = [next EXCEPT ![c] = mcs_next[k]]
       /\ UNCHANGED <<mcs_tail, mcs_next>>

(* mutex_get_next: rewind the tail to p, or wait for a successor and take it. *)
mutex_get_next(c, p, from, none, some) ==
    LET k == active_cpu[c] IN
    \/ /\ mcs_tail = k
       /\ Goto(c, from, none)
       /\ mcs_tail' = p
       /\ UNCHANGED <<mcs_next, next>>
    \/ /\ Goto(c, from, some)
       /\ mcs_tail # k
       /\ mcs_next[k] # NoCPU
       /\ next' = [next EXCEPT ![c] = mcs_next[k]]
       /\ mcs_next' = [mcs_next EXCEPT ![k] = NoCPU]
       /\ UNCHANGED mcs_tail

(* Step B: the tail goes back to prev, or the successor is taken. *)
StepB(c) ==
    /\ mutex_get_next(c, prev[c], "B", "wait", "C")
    /\ on_mcs' = [on_mcs EXCEPT ![c] = FALSE]
    /\ LET k == active_cpu[c] IN
       IF mcs_tail = k
       THEN /\ mcs_waiting' = [mcs_waiting EXCEPT ![k] = FALSE]
            /\ mcs_prev' = Cleared(mcs_prev, k, NoCPU)
            /\ prev' = Cleared(prev, c, NoCPU)
       ELSE UNCHANGED <<mcs_waiting, mcs_prev, prev>>
    /\ UNCHANGED <<turn, waiters_lock, waiters, schedVars, after, wake>>

(* Step C: link prev and the successor to each other. *)
StepC(c) ==
    /\ Goto(c, "C", "C2")
    /\ mcs_prev' = [mcs_prev EXCEPT ![next[c]] = prev[c]]
    /\ UNCHANGED <<mutexVars, mcs_next, mcs_waiting, schedVars, localVars>>

StepC2(c) ==
    /\ Goto(c, "C2", "wait")
    /\ mcs_next' = [mcs_next EXCEPT ![prev[c]] = next[c]]
    /\ mcs_waiting' = [mcs_waiting EXCEPT ![active_cpu[c]] = FALSE]
    /\ mcs_prev' = Cleared(mcs_prev, active_cpu[c], NoCPU)
    /\ prev' = Cleared(prev, c, NoCPU)
    /\ next' = Cleared(next, c, NoCPU)
    /\ UNCHANGED <<mutexVars, schedVars, on_mcs, after, wake>>

-----------------------------------------------------------------------------
(* the waiters list *)

(* ctx->waiting_on = m; spin_lock(&m->waiters_lock) *)
Wait(c) ==
    /\ waiters_lock = NoCtx
    /\ Goto(c, "wait", "retry")
    /\ waiters_lock' = c
    /\ waiting_on' = waiting_on \cup {c}
    /\ UNCHANGED <<turn, mcs_tail, waiters, nodeVars, full, scheduled, active_cpu, localVars>>

(* Mutant: the mutex is not tried again under waiters_lock. *)
RetryNever(c) ==
    /\ Goto(c, "retry", "insert")
    /\ UNCHANGED <<mutexVars, nodeVars, schedVars, localVars>>

(* Try the mutex once more under waiters_lock. *)
Retry(c) ==
    /\ \/ /\ turn = NoCtx
          /\ Goto(c, "retry", "cs")
          /\ turn' = c
          /\ waiting_on' = waiting_on \ {c}
          /\ waiters_lock' = NoCtx
       \/ /\ turn # NoCtx
          /\ Goto(c, "retry", "insert")
          /\ UNCHANGED <<turn, waiting_on, waiters_lock>>
    /\ UNCHANGED <<mcs_tail, waiters, nodeVars, full, scheduled, active_cpu, localVars>>

(* Mutant: the waiter reschedules itself instead of only suspending. *)
InsertReschedule(c) ==
    /\ Goto(c, "insert", "suspend")
    /\ waiters' = Append(waiters, c)
    /\ waiters_lock' = NoCtx
    /\ scheduled' = scheduled \cup {c}
    /\ UNCHANGED <<turn, mcs_tail, nodeVars, waiting_on, full, active_cpu, localVars>>

(* Join the waiters and go to context_suspend. *)
Insert(c) ==
    /\ Goto(c, "insert", "suspend")
    /\ waiters' = Append(waiters, c)
    /\ waiters_lock' = NoCtx
    /\ UNCHANGED <<turn, mcs_tail, nodeVars, schedVars, localVars>>

(* context_suspend saves the frame, then the CPU lets go of the context. *)
Suspend(c) ==
    /\ Goto(c, "suspend", "release")
    /\ full' = full \cup {c}
    /\ UNCHANGED <<mutexVars, nodeVars, waiting_on, scheduled, active_cpu, localVars>>

Release(c) ==
    /\ Goto(c, "release", "off")
    /\ active_cpu' = [active_cpu EXCEPT ![c] = NoCPU]
    /\ UNCHANGED <<mutexVars, nodeVars, waiting_on, full, scheduled, localVars>>

(* kernel_context_return on some CPU; context_acquire waits for the release. *)
Resume(c, k) ==
    /\ c \in scheduled /\ Free(c, k)
    /\ Goto(c, "off", "acquire")
    /\ active_cpu' = [active_cpu EXCEPT ![c] = k]
    /\ scheduled' = scheduled \ {c}
    /\ full' = full \ {c}
    /\ UNCHANGED <<mutexVars, nodeVars, waiting_on, localVars>>

-----------------------------------------------------------------------------
(* the acquire loop *)

LeaveQueue(c) ==
    /\ on_mcs' = [on_mcs EXCEPT ![c] = FALSE]
    /\ prev' = Cleared(prev, c, NoCPU)
    /\ mcs_prev' = Cleared(mcs_prev, active_cpu[c], NoCPU)

Acquire(c) ==
    /\ turn = NoCtx
    /\ turn' = c
    /\ IF on_mcs[c]
       THEN Goto(c, "acquire", "u1") /\ after' = [after EXCEPT ![c] = "cs"]
       ELSE Goto(c, "acquire", "cs") /\ UNCHANGED after
    /\ LeaveQueue(c)
    /\ UNCHANGED <<mcs_tail, waiters_lock, waiters, mcs_next, mcs_waiting, schedVars, next, wake>>

(* Out of spins on the MCS lock: give it up and join the waiters.  Out of      *)
(* spins after a wakeup: reschedule and come back.                             *)
AcquireSpinout(c) ==
    /\ IF on_mcs[c]
       THEN /\ Goto(c, "acquire", "u1")
            /\ after' = [after EXCEPT ![c] = "wait"]
            /\ UNCHANGED scheduled
       ELSE /\ Goto(c, "acquire", "suspend")
            /\ scheduled' = scheduled \cup {c}
            /\ UNCHANGED after
    /\ LeaveQueue(c)
    /\ UNCHANGED <<mutexVars, mcs_next, mcs_waiting, waiting_on, full, active_cpu, next, wake>>

(* A context that leaves the mutex code is no longer bound to its CPU. *)
Left(c) == active_cpu' = [active_cpu EXCEPT ![c] = NoCPU]

(* Return from mcs_unlock. *)
McsReturn(c, from) ==
    /\ Goto(c, from, after[c])
    /\ after' = Cleared(after, c, "out")
    /\ IF after[c] = "out" THEN Left(c) ELSE UNCHANGED active_cpu

(* mcs_unlock: no successor, or its address from mcs_next. *)
McsUnlock(c) ==
    LET k == active_cpu[c] IN
    /\ \/ /\ mcs_tail = k
          /\ McsReturn(c, "u1")
          /\ mcs_tail' = NoCPU
       \/ /\ mcs_tail # k
          /\ Goto(c, "u1", "u2")
          /\ UNCHANGED <<mcs_tail, active_cpu, after>>
    /\ UNCHANGED <<turn, waiters_lock, waiters, nodeVars, waiting_on, full, scheduled,
                   prev, next, on_mcs, wake>>

McsSuccessor(c) ==
    /\ mutex_get_next(c, NoCPU, "u2", after[c], "u3")
    /\ IF mcs_tail = active_cpu[c] THEN McsReturn(c, "u2") ELSE UNCHANGED <<active_cpu, after>>
    /\ UNCHANGED <<turn, waiters_lock, waiters, mcs_prev, mcs_waiting, waiting_on, full, scheduled,
                   prev, on_mcs, wake>>

(* Mutant: the successor is not told. *)
McsHandSilent(c) ==
    /\ McsReturn(c, "u3")
    /\ next' = Cleared(next, c, NoCPU)
    /\ UNCHANGED <<mutexVars, nodeVars, waiting_on, full, scheduled, prev, on_mcs, wake>>

McsHand(c) ==
    /\ McsReturn(c, "u3")
    /\ mcs_waiting' = [mcs_waiting EXCEPT ![next[c]] = FALSE]
    /\ next' = Cleared(next, c, NoCPU)
    /\ UNCHANGED <<mutexVars, mcs_prev, mcs_next, waiting_on, full, scheduled, prev, on_mcs, wake>>

-----------------------------------------------------------------------------
(* mutex_unlock *)

(* The holder may be suspended meanwhile and resume on another CPU. *)
Migrate(c) ==
    /\ pc[c] = "cs"
    /\ \/ active_cpu[c] # NoCPU /\ active_cpu' = [active_cpu EXCEPT ![c] = NoCPU]
       \/ \E k \in CPUs :
             /\ active_cpu[c] = NoCPU /\ Free(c, k)
             /\ active_cpu' = [active_cpu EXCEPT ![c] = k]
    /\ UNCHANGED <<mutexVars, nodeVars, waiting_on, full, scheduled, pc, localVars>>

Unlock(c) ==
    /\ active_cpu[c] # NoCPU
    /\ Goto(c, "cs", "unlocked")
    /\ turn' = NoCtx
    /\ UNCHANGED <<mcs_tail, waiters_lock, waiters, nodeVars, schedVars, localVars>>

(* Mutant: the newest waiter is taken. *)
TakeWaiterNewest(c) ==
    /\ waiters_lock = NoCtx
    /\ IF waiters = <<>>
       THEN Goto(c, "unlocked", "out") /\ Left(c) /\ UNCHANGED <<waiters, wake>>
       ELSE /\ Goto(c, "unlocked", "woken")
            /\ wake' = [wake EXCEPT ![c] = waiters[Len(waiters)]]
            /\ waiters' = SubSeq(waiters, 1, Len(waiters) - 1)
            /\ UNCHANGED active_cpu
    /\ UNCHANGED <<turn, mcs_tail, waiters_lock, nodeVars, waiting_on, full, scheduled,
                   prev, next, on_mcs, after>>

(* Take the oldest waiter off the list, under waiters_lock. *)
TakeWaiter(c) ==
    /\ waiters_lock = NoCtx
    /\ IF waiters = <<>>
       THEN Goto(c, "unlocked", "out") /\ Left(c) /\ UNCHANGED <<waiters, wake>>
       ELSE /\ Goto(c, "unlocked", "woken")
            /\ wake' = [wake EXCEPT ![c] = Head(waiters)]
            /\ waiters' = Tail(waiters)
            /\ UNCHANGED active_cpu
    /\ UNCHANGED <<turn, mcs_tail, waiters_lock, nodeVars, waiting_on, full, scheduled,
                   prev, next, on_mcs, after>>

Woken(c) ==
    /\ Goto(c, "woken", "schedule")
    /\ waiting_on' = waiting_on \ {wake[c]}
    /\ UNCHANGED <<mutexVars, nodeVars, full, scheduled, active_cpu, localVars>>

(* Wait until the waiter's frame is full, then schedule its return. *)
Schedule(c) ==
    /\ wake[c] \in full
    /\ Goto(c, "schedule", "out")
    /\ scheduled' = scheduled \cup {wake[c]}
    /\ wake' = [wake EXCEPT ![c] = NoCtx]
    /\ Left(c)
    /\ UNCHANGED <<mutexVars, nodeVars, waiting_on, full, prev, next, on_mcs, after>>

-----------------------------------------------------------------------------
Step(c) ==
    \/ TryEnqueue(c) \/ TryTurn(c) \/ Enqueue(c) \/ Link(c)
    \/ Spin(c) \/ StepA(c) \/ Handed(c) \/ Resample(c) \/ StepB(c) \/ StepC(c) \/ StepC2(c)
    \/ Wait(c) \/ Retry(c) \/ Insert(c) \/ Suspend(c) \/ Release(c)
    \/ (\E k \in CPUs : Resume(c, k))
    \/ McsUnlock(c) \/ McsSuccessor(c) \/ McsHand(c)
    \/ TakeWaiter(c) \/ Woken(c) \/ Schedule(c)

Next ==
    \E c \in Contexts :
        \/ \E k \in CPUs, how \in {"try", "lock"} : Enter(c, k, how)
        \/ Step(c) \/ Acquire(c) \/ AcquireSpinout(c)
        \/ Migrate(c) \/ Unlock(c)

Spec == Init /\ [][Next]_vars

(* A CPU keeps running what it runs, the run loop resumes what is scheduled, a *)
(* holder ends its critical section, and a polling loop sees what is true      *)
(* again and again (m->turn is polled 2^20 times a round).                     *)
Fairness ==
    \A c \in Contexts :
        /\ SF_vars(Step(c) \/ (active_cpu[c] = NoCPU /\ Migrate(c)))
        /\ WF_vars(Acquire(c) \/ AcquireSpinout(c))
        /\ SF_vars(Acquire(c) \/ Unlock(c))

FairSpec == Spec /\ Fairness

-----------------------------------------------------------------------------
Labels == {"out", "try", "tryturn", "lock", "link", "spin", "A", "handed", "resample", "B", "C", "C2",
           "wait", "retry", "insert", "suspend", "release", "off", "acquire", "u1", "u2", "u3",
           "cs", "unlocked", "woken", "schedule"}

(* The variables have their types. *)
TypeOK ==
    /\ turn \in Contexts \cup {NoCtx} /\ waiters_lock \in Contexts \cup {NoCtx}
    /\ mcs_tail \in CPUs \cup {NoCPU}
    /\ waiters \in Seq(Contexts)
    /\ mcs_prev \in [CPUs -> CPUs \cup {NoCPU}] /\ mcs_next \in [CPUs -> CPUs \cup {NoCPU}]
    /\ mcs_waiting \in [CPUs -> BOOLEAN]
    /\ waiting_on \subseteq Contexts /\ full \subseteq Contexts /\ scheduled \subseteq Contexts
    /\ active_cpu \in [Contexts -> CPUs \cup {NoCPU}]
    /\ pc \in [Contexts -> Labels]
    /\ prev \in [Contexts -> CPUs \cup {NoCPU}] /\ next \in [Contexts -> CPUs \cup {NoCPU}]
    /\ on_mcs \in [Contexts -> BOOLEAN]
    /\ after \in [Contexts -> {"out", "wait", "cs"}]
    /\ wake \in [Contexts -> Contexts \cup {NoCtx}]

McsUnlocking(c) == pc[c] \in {"u1", "u2", "u3"}

(* Past its successful compare-and-swap and before its unlock. *)
Holds(c) == pc[c] = "cs" \/ (McsUnlocking(c) /\ after[c] = "cs")

(* Mutual exclusion: the contexts between a successful lock and the unlock are *)
(* exactly the one m->turn names, whichever of the four compare-and-swaps it   *)
(* won (mutex_unlock asserts ctx == m->turn).                                  *)
MutualExclusion == \A c \in Contexts : Holds(c) <=> turn = c

(* The MCS lock is exclusive too: among the CPUs in the queue at most one is   *)
(* past the wait, spinning on m->turn or handing the lock on, however many     *)
(* spinners are cancelling at the same time.                                   *)
McsOwner(c) == McsUnlocking(c) \/ pc[c] = "tryturn" \/ (pc[c] = "acquire" /\ on_mcs[c])
               \/ (pc[c] \in {"spin", "A", "handed", "resample"} /\ ~mcs_waiting[active_cpu[c]])
McsExclusive == \A c, d \in Contexts : McsOwner(c) /\ McsOwner(d) => c = d

(* Nobody is handed the MCS lock after leaving the queue, or is left in the    *)
(* queue after leaving: a CPU with nobody in the lock code has an empty node   *)
(* and is not the tail, and a link leads to a CPU that is in the queue.        *)
Queued(k) == \E c \in Contexts :
    active_cpu[c] = k /\ (McsUnlocking(c) \/ pc[c] \in {"tryturn", "link", "spin", "A", "handed", "resample", "B", "C", "C2"}
                          \/ (pc[c] = "acquire" /\ on_mcs[c]))
QueueIsClean ==
    /\ mcs_tail # NoCPU => Queued(mcs_tail)
    /\ \A k \in CPUs : mcs_next[k] # NoCPU => Queued(k) /\ Queued(mcs_next[k])

(* The queue of CPUs is intact, and one of them at most has its turn. *)
McsIsSound == McsExclusive /\ QueueIsClean

(* A sleeper is always in exactly one place from which it will be woken: on    *)
(* the list, in the hands of one unlocker, or scheduled (the race between      *)
(* enqueue and context_suspend that mutex_unlock covers).                      *)
Asleep(c) == pc[c] \in {"suspend", "release", "off"}
OnList(c) == \E i \in DOMAIN waiters : waiters[i] = c
SleeperIsHeld ==
    /\ \A c \in Contexts : Asleep(c) =>
          Cardinality({i \in DOMAIN waiters : waiters[i] = c})
          + Cardinality({d \in Contexts : wake[d] = c})
          + (IF c \in scheduled THEN 1 ELSE 0) = 1
    /\ \A c \in Contexts : OnList(c) \/ c \in scheduled \/ (\E d \in Contexts : wake[d] = c) => Asleep(c)

(* No lost wakeup: while somebody sleeps on the list, the mutex is held, or    *)
(* somebody is about to look at the list or to take the mutex.                 *)
NoLostWakeup ==
    waiters # <<>> =>
        \/ turn # NoCtx
        \/ \E c \in Contexts :
              \/ pc[c] \in {"unlocked", "woken", "schedule", "retry", "insert"}
              \/ c \in scheduled \/ pc[c] = "acquire"

(* Cancellation ends: a CPU in the MCS queue gets the MCS lock or leaves the   *)
(* queue, even while its neighbours cancel too and all wait for one another    *)
(* (step A for prev, mutex_get_next for a successor).                          *)
QueueExits ==
    \A c \in Contexts :
        pc[c] \in {"link", "spin", "A", "handed", "resample", "B", "C", "C2"} ~> pc[c] \in {"acquire", "wait"}

(* A sleeper is woken: each unlock takes the oldest one off the list, and      *)
(* whoever overtakes it must unlock as well.                                   *)
SleeperWakes == \A c \in Contexts : pc[c] = "off" ~> pc[c] = "acquire"
=============================================================================
