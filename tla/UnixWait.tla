------------------------------ MODULE UnixWait ------------------------------
(***************************************************************************)
(* Threads that block in system calls on a pipe, an eventfd or two futexes *)
(* (kernel/src/unix/pipe.c, eventfd.c, futex.c, thread.c), composed with   *)
(* the wait queues, their timers and signals that interrupt a sleeper.     *)
(* One step per critical section: a call runs its action, then queues      *)
(* itself; a woken thread's action runs later in its own context.  Bytes   *)
(* and counts are small numbers; return values are left out.               *)
(***************************************************************************)
EXTENDS BlockQueue, FiniteSets

CONSTANTS
    Kinds,         \* which objects: "pipe", "eventfd", "semaphore", "futex"
    Q1, Q2,        \* the two blockqs: read and write, or one per futex
    MaxSize,       \* largest capacity of the pipe, EFD_COUNTER_MAX
    MaxCalls       \* system calls made and signals sent (bound)

VARIABLES
    kind,     \* the object this behaviour is about
    obj,      \* its state
    pc,       \* where each thread is in its system call
    op,       \* the call and its arguments
    todo,     \* wakes, flushes and transfers a thread has still to do
    intr,     \* queue that a thread_attempt_interrupt in progress has read
    sig,      \* threads with a pending unmasked signal
    owed,     \* threads a FUTEX_WAKE should have found (history)
    calls     \* system calls made, signals sent

objVars == <<kind, obj, op, todo, owed>>
sigVars == <<intr, sig>>
vars == <<bqVars, excuse, objVars, pc, calls, sigVars>>

NoOp == [name |-> "none", q |-> NoQueue]

Init ==
    /\ BlockQueueInit
    /\ kind \in Kinds
    /\ obj = CASE kind = "pipe" -> [len |-> 0, max_size |-> 1, open |-> Queues]
               [] kind \in {"eventfd", "semaphore"} -> [counter |-> 0]
               [] kind = "futex" -> [f |-> Queues]
    /\ pc = [t \in Threads |-> "user"]
    /\ op = [t \in Threads |-> NoOp]
    /\ todo = [t \in Threads |-> <<>>]
    /\ intr = [t \in Threads |-> NoQueue]
    /\ sig = {} /\ owed = {} /\ calls = 0

Goto(t, to) == pc' = [pc EXCEPT ![t] = to]
Entering(q) == {t \in Threads : pc[t] = "enter" /\ op[t].q = q}
Begin == calls < MaxCalls /\ calls' = calls + 1
Resuming(q) == {t \in Threads : pc[t] = "resume" /\ blocked_on[t] = q}
Pending(q) == Range(waiters[q]) \cup Entering(q) \cup Resuming(q)
Least(a, b) == IF a < b THEN a ELSE b
Wake(q, n) == [how |-> "wake", q |-> q, n |-> n]
Other(q) == IF q = Q1 THEN Q2 ELSE Q1

-----------------------------------------------------------------------------
(* The actions that blockq_check applies.                                  *)

(* t must block: the object, in state o, has nothing for it. *)
MustBlockOn(o, t) ==
    CASE op[t].name = "read" /\ kind = "pipe" -> o.len = 0 /\ Q2 \in o.open
      [] op[t].name = "write" /\ kind = "pipe" -> o.len = o.max_size /\ Q1 \in o.open
      [] op[t].name = "read" /\ kind # "pipe" -> o.counter = 0
      [] op[t].name = "write" /\ kind # "pipe" -> op[t].n > MaxSize - o.counter
      [] op[t].name = "wait" -> TRUE

MustBlock(t) == MustBlockOn(obj, t)

(* pipe_read_bh: what is there, up to n; a reader's success wakes a writer. *)
pipe_read_bh(n) ==
    [obj |-> [obj EXCEPT !.len = @ - Least(@, n)],
     todo |-> IF obj.len > 0 /\ Q2 \in obj.open THEN <<Wake(Q2, 1)>> ELSE <<>>]

(* pipe_write_bh: what fits; a full pipe without a reader is EPIPE. *)
pipe_write_bh(n) ==
    [obj |-> [obj EXCEPT !.len = @ + Least(obj.max_size - @, n)],
     todo |-> IF obj.len < obj.max_size /\ Q1 \in obj.open THEN <<Wake(Q1, 1)>> ELSE <<>>]

efd_read_bh ==
    [obj |-> [obj EXCEPT !.counter = IF kind = "semaphore" THEN @ - 1 ELSE 0],
     todo |-> <<Wake(Q2, 1)>>]

efd_write_bh(n) == [obj |-> [obj EXCEPT !.counter = @ + n], todo |-> <<Wake(Q1, 1)>>]

(* futex_bh: any application in blocked state returns. *)
futex_bh == [obj |-> obj, todo |-> <<>>]

Effect(t) ==
    CASE op[t].name = "read" /\ kind = "pipe" -> pipe_read_bh(op[t].n)
      [] op[t].name = "write" /\ kind = "pipe" -> pipe_write_bh(op[t].n)
      [] op[t].name = "read" /\ kind # "pipe" -> efd_read_bh
      [] op[t].name = "write" /\ kind # "pipe" -> efd_write_bh(op[t].n)
      [] op[t].name = "wait" -> futex_bh

(* The action succeeds: its effect, then the wakes it owes. *)
Succeed(t) ==
    /\ obj' = Effect(t).obj
    /\ todo' = [todo EXCEPT ![t] = Effect(t).todo]
    /\ Goto(t, "notify")

(* The ways a wake meant for a thread is lost; they end with its next wake. *)
Losses == {"cleared", "resume", "timedout", "spent", "flush", "grown", "requeued"}

-----------------------------------------------------------------------------
(* blockq_check_timeout, called by a thread *)

Ops ==
    IF kind = "futex"
    THEN {[name |-> "wait", q |-> Q1, timeout |-> b] : b \in BOOLEAN}
    ELSE {[name |-> "read", q |-> Q1, n |-> 1, timeout |-> FALSE]}
         \cup {[name |-> "write", q |-> Q2, n |-> n, timeout |-> FALSE] : n \in 1..MaxSize}

(* The end of the pipe a call needs is open. *)
Open(q) == kind = "pipe" => q \in obj.open

(* futex_lock is free: a waker holds it while it goes through its queues. *)
Locks(t) == IF op[t].name \in {"wake", "requeue", "wake_op"} THEN op[t].locks ELSE {}
Unlocked(q) == kind = "futex" => \A u \in Threads : q \notin Locks(u)

(* The call begins: the flag is cleared.  A futex wait gets here, with the *)
(* lock held, when the word still has the value it was given.              *)
Call(t, o) ==
    /\ pc[t] = "user" /\ Begin
    /\ Open(o.q) /\ Unlocked(o.q)
    /\ op' = [op EXCEPT ![t] = o]
    /\ owed' = owed \ {t}
    /\ blockq_check(o.q, t, Entering(o.q))
    /\ Goto(t, IF kind = "futex" THEN "enter" ELSE "check")
    /\ UNCHANGED <<kind, obj, todo, sigVars>>

(* The action in the caller: it blocks, or returns at once.  A file in     *)
(* non-blocking mode, or a bad user buffer, returns without effect.        *)
Apply(t) ==
    /\ pc[t] = "check"
    /\ \/ MustBlock(t) /\ Goto(t, "enter") /\ UNCHANGED <<obj, todo>>
       \/ ~MustBlock(t) /\ Succeed(t)
       \/ Goto(t, "notify") /\ UNCHANGED <<obj, todo>>
    /\ UNCHANGED <<calls, bqVars, excuse, kind, op, owed, sigVars>>

Enqueue(t) ==
    /\ pc[t] = "enter"
    /\ blockq_enqueue(op[t].q, t, op[t].timeout)
    /\ Goto(t, IF wake[op[t].q] THEN "queued" ELSE "sleep")
    /\ UNCHANGED <<calls, objVars, sigVars>>

(* The flag was set in between: wake the oldest waiter. *)
Rewake(t) ==
    /\ pc[t] = "queued"
    /\ blockq_wake_one(op[t].q, Resuming(op[t].q))
    /\ Goto(t, "sleep")
    /\ owed' = owed \ {t}
    /\ UNCHANGED <<calls, blocked_on, kind, obj, op, todo, sigVars>>

(* The action of a woken thread, in its context, once the thread has left it:  *)
(* it must block again, or takes its share, or returns without one (a flush, a *)
(* signal, a timeout, a bad user buffer, a file made non-blocking meanwhile).  *)
(* Nobody passes the wake on: for the others whom the object is ready for, as  *)
(* it is afterwards, this one is "spent".                                      *)
Woken(t) ==
    /\ pc[t] = "sleep" /\ act[t] # "none"
    /\ act' = [act EXCEPT ![t] = "none"]
    /\ LET again == kind # "futex" /\ MustBlock(t)
       IN  \/ act[t] = "wake" /\ again /\ Goto(t, "resume") /\ UNCHANGED <<obj, todo>>
           \/ act[t] = "wake" /\ ~again /\ Succeed(t)
           \/ Goto(t, "notify") /\ UNCHANGED <<obj, todo>>
    /\ excuse' = [u \in Threads |->
           IF u = t THEN excuse[t] \ Losses
           ELSE IF act[t] = "wake" /\ u \in Pending(op[t].q) /\ ~MustBlockOn(obj', u)
           THEN excuse[u] \cup {"spent"}
           ELSE excuse[u]]
    /\ UNCHANGED <<calls, waiters, wake, blocked_on, bq_timer, bq_remain, kind, op, owed, sigVars>>

Resume(t) ==
    /\ pc[t] = "resume"
    /\ blockq_resume_blocking(t)
    /\ Goto(t, "sleep")
    /\ UNCHANGED <<calls, objVars, sigVars>>

-----------------------------------------------------------------------------
(* What a call does for others *)

(* One wake, flush or transfer of those the call owes. *)
Notify(t) ==
    /\ pc[t] = "notify" /\ todo[t] # <<>>
    /\ LET do   == Head(todo[t])
           last == waiters[do.q] = <<>>
           rest == [todo EXCEPT ![t] = Tail(@)]
       IN  \/ /\ do.how = "wake"
              /\ blockq_wake_one(do.q, Resuming(do.q))
              /\ owed' = owed \cup (IF last THEN Entering(do.q)
                                    ELSE IF remove_timer_fails(Head(waiters[do.q])) THEN Range(Tail(waiters[do.q]))
                                    ELSE {})
              /\ todo' = IF last \/ do.n = 1 THEN rest ELSE [todo EXCEPT ![t][1].n = @ - 1]
              /\ UNCHANGED blocked_on
           \/ /\ do.how = "flush"
              /\ blockq_flush(do.q, Entering(do.q) \cup Resuming(do.q))
              /\ todo' = IF last THEN rest ELSE todo
              /\ UNCHANGED <<blocked_on, owed>>
           \/ /\ do.how = "requeue"
              /\ blockq_transfer_waiters(Other(do.q), do.q, do.n, {u \in Threads : pc[u] = "queued"})
              /\ todo' = rest
              /\ UNCHANGED owed
    /\ UNCHANGED <<calls, kind, obj, op, pc, sigVars>>

(* syscall_return: the thread is made runnable; signals are dispatched on  *)
(* its way to user mode.                                                   *)
Return(t) ==
    /\ pc[t] = "notify" /\ todo[t] = <<>>
    /\ blocked_on' = [blocked_on EXCEPT ![t] = NoQueue]
    /\ op' = [op EXCEPT ![t] = NoOp]
    /\ sig' = sig \ {t}
    /\ Goto(t, IF op[t].name = "exit" THEN "gone" ELSE "user")
    /\ UNCHANGED <<calls, waiters, wake, act, bq_timer, bq_remain, excuse, kind, obj, todo, owed, intr>>

(* A call that never blocks: what it changes and what it owes. *)
Quick(t, o, ob, td) ==
    /\ pc[t] = "user" /\ Begin
    /\ op' = [op EXCEPT ![t] = o]
    /\ obj' = ob
    /\ todo' = [todo EXCEPT ![t] = td]
    /\ Goto(t, "notify")
    /\ UNCHANGED <<bqVars, kind, owed, sigVars>>

(* pipe_dealloc_end, when the last reference to an end goes: the waiters   *)
(* of the other end are flushed.                                           *)
pipe_dealloc_end(t, q) ==
    /\ kind = "pipe" /\ q \in obj.open
    /\ \A u \in Threads : op[u].q # q
    /\ Quick(t, [name |-> "close", q |-> NoQueue], [obj EXCEPT !.open = @ \ {q}],
             IF Other(q) \in obj.open THEN <<[how |-> "flush", q |-> Other(q)]>> ELSE <<>>)
    /\ UNCHANGED excuse

(* F_SETPIPE_SZ; a larger capacity wakes nobody. *)
pipe_set_capacity(t, n) ==
    /\ kind = "pipe" /\ obj.open # {} /\ n >= obj.len
    /\ Quick(t, [name |-> "fcntl", q |-> NoQueue], [obj EXCEPT !.max_size = n], <<>>)
    /\ excuse' = Excuse({u \in Threads : op[u].q = Q2}, "grown")

(* FUTEX_WAKE *)
futex_wake_many(t, q, n) ==
    /\ kind = "futex" /\ Unlocked(q)
    /\ Quick(t, [name |-> "wake", q |-> NoQueue, locks |-> {q}], obj, <<Wake(q, n)>>)
    /\ UNCHANGED excuse

(* FUTEX_CMP_REQUEUE, between two different addresses. *)
futex_cmp_requeue(t, q) ==
    /\ kind = "futex" /\ Unlocked(q)
    /\ Quick(t, [name |-> "requeue", q |-> NoQueue, locks |-> {q}], obj,
             <<Wake(q, 1), [how |-> "requeue", q |-> q, n |-> Cardinality(Threads)]>>)
    /\ UNCHANGED excuse

(* FUTEX_WAKE_OP: a wake at one address and, as the old value at the other *)
(* compares, one there.                                                    *)
futex_wake_op(t, q, c) ==
    /\ kind = "futex" /\ Unlocked(Q1) /\ Unlocked(Q2)
    /\ Quick(t, [name |-> "wake_op", q |-> NoQueue, locks |-> Queues], obj,
             <<Wake(q, 1)>> \o IF c THEN <<Wake(Other(q), 1)>> ELSE <<>>)
    /\ UNCHANGED excuse

(* exit_thread with robust futexes held: each is marked and one waiter woken. *)
wake_robust_list(t) ==
    /\ kind = "futex" /\ \A q \in Queues : Unlocked(q)
    /\ Quick(t, [name |-> "exit", q |-> NoQueue], obj, <<Wake(Q1, 1), Wake(Q2, 1)>>)
    /\ UNCHANGED excuse

-----------------------------------------------------------------------------
(* thread_attempt_interrupt: the queue is read under the thread's lock,    *)
(* the wake comes after it.  A thread that is not on a queue is taken to   *)
(* be running.                                                             *)
Signal(t) ==
    /\ Begin
    /\ pc[t] \notin {"user", "gone"} /\ intr[t] = NoQueue
    /\ sig' = sig \cup {t}
    /\ intr' = [intr EXCEPT ![t] = blocked_on[t]]
    /\ excuse' = IF blocked_on[t] = NoQueue THEN Excuse({t}, "running") ELSE excuse
    /\ UNCHANGED <<bqVars, objVars, pc>>

thread_attempt_interrupt(t) ==
    /\ intr[t] # NoQueue
    /\ blockq_wake_one_for_thread(intr[t], t)
    /\ intr' = [intr EXCEPT ![t] = NoQueue]
    /\ UNCHANGED <<calls, blocked_on, objVars, pc, sig>>

Timer(t) ==
    /\ TimerDue(t) \/ timer_service(t) \/ blockq_thread_timeout(t)
    /\ UNCHANGED <<calls, objVars, pc, sigVars>>

Next ==
    \E t \in Threads :
        \/ \E o \in Ops : Call(t, o)
        \/ Apply(t) \/ Enqueue(t) \/ Rewake(t) \/ Woken(t) \/ Resume(t)
        \/ Notify(t) \/ Return(t)
        \/ \E q \in Queues :
              \/ pipe_dealloc_end(t, q)
              \/ \E n \in 1..2 : futex_wake_many(t, q, n)
        \/ futex_cmp_requeue(t, Q1)
        \/ \E c \in BOOLEAN : futex_wake_op(t, Q1, c)
        \/ wake_robust_list(t)
        \/ \E n \in 1..MaxSize : pipe_set_capacity(t, n)
        \/ Signal(t) \/ thread_attempt_interrupt(t) \/ Timer(t)

Spec == Init /\ [][Next]_vars

-----------------------------------------------------------------------------
(* A thread asleep is in exactly one list, the one it is blocked on, once, *)
(* or its action is on its way, never both and never neither: no           *)
(* interleaving of wakes, flushes, requeues, interrupts and timeouts       *)
(* strands a sleeper or applies its action twice.                          *)
NobodyStranded ==
    \A t \in Threads :
        LET places == {<<q, i>> \in Queues \X (1..Cardinality(Threads)) : i <= Len(waiters[q]) /\ waiters[q][i] = t}
        IN  /\ pc[t] = "sleep" => IF act[t] = "none" THEN Cardinality(places) = 1 ELSE places = {}
            /\ \A p \in places : p[1] = blocked_on[t] /\ pc[t] \in {"queued", "sleep"}
            /\ bq_timer[t] # "none" => places # {}

WokenOn(q) == \E u \in Threads : blocked_on[u] = q /\ act[u] = "wake"
WakerOf(q) == \E u \in Threads :
                 \/ pc[u] = "queued" /\ op[u].q = q
                 \/ \E i \in DOMAIN todo[u] : todo[u][i].q = q

(* A thread asleep while its object is ready for it (or after a FUTEX_WAKE     *)
(* that came as it was about to queue itself) will be woken: a wake is         *)
(* underway.  blockq.c means its flag to ensure this (the comments in          *)
(* blockq_wake_one and blockq_check_timeout); since the thread was last woken, *)
(* these alone have lost the wake, and nothing else does:                      *)
(*   cleared   the flag was set for it, and another caller cleared it          *)
(*   resume    a wake that found no waiter while it was re-queueing itself,    *)
(*             which does not look at the flag                                 *)
(*   timedout  a wake went to a waiter ahead of it whose timeout had fired     *)
(*   spent     a wake went to a waiter that could not use it, or that left     *)
(*             enough for this one                                             *)
(*   flush     the other end was closed as it was about to queue itself: a     *)
(*             flush leaves no flag                                            *)
(*   grown     F_SETPIPE_SZ made room, which wakes nobody                      *)
(*   requeued  FUTEX_CMP_REQUEUE moved it before it acted on the flag          *)
WakeupIsNotLost ==
    \A q \in Queues : \A t \in Range(waiters[q]) :
        (IF kind = "futex" THEN t \in owed ELSE ~MustBlock(t))
            => WokenOn(q) \/ WakerOf(q) \/ excuse[t] \cap Losses # {}

(* A waiter with a timeout has its timer, unless it was woken or requeued      *)
(* after the expiry and before the timer was serviced: bq_remain_at_wake is 0  *)
(* then, which blockq_resume_blocking takes for no timeout.                    *)
TimeoutIsKept ==
    \A t \in Threads :
        Inserted(t) /\ op[t].timeout /\ bq_timer[t] = "none" => "expired" \in excuse[t]

(* A thread that sleeps with a signal pending is being interrupted or timing   *)
(* out, unless the signal came before it had queued itself ("running"), while  *)
(* it was off the queue after a wake that it could not use ("beaten"), or as   *)
(* it was being requeued ("moved").                                            *)
InterruptIsKept ==
    \A t \in sig :
        Inserted(t) /\ intr[t] = NoQueue =>
            bq_timer[t] = "fired" \/ excuse[t] \cap {"running", "beaten", "moved"} # {}
=============================================================================
