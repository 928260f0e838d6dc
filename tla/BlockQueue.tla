----------------------------- MODULE BlockQueue -----------------------------
(***************************************************************************)
(* The kernel's wait queues (kernel/src/unix/blockq.c) with the one-shot   *)
(* timer of each waiter (kernel/src/runtime/timer.c).  An operator per     *)
(* critical section of a queue's lock; where the caller then goes is left  *)
(* to the module that extends this one.  A thread stands for its           *)
(* unix_context.  Time is the position of a timer against its expiry.      *)
(***************************************************************************)
EXTENDS Naturals, Sequences, SequencesExt

CONSTANTS
    Threads,  \* unix contexts
    Queues,   \* blockqs
    NoQueue   \* the null blockq

VARIABLES
    waiters,    \* bq->waiters_head, oldest first
    wake,       \* bq->wake
    blocked_on, \* t->blocked_on
    act,        \* flags of t->bq_action while it is on async_queue_1, or "none"
    bq_timer,   \* t->bq_timer: "none", "armed", "due" (expired, queued) or "fired" (taken off the queue, handler to run)
    bq_remain,  \* t->bq_remain_at_wake is not zero
    excuse      \* how the wakeup, interrupt or timeout owed to a thread was dropped (history)

bqVars == <<waiters, wake, blocked_on, act, bq_timer, bq_remain>>

BlockQueueInit ==
    /\ waiters = [q \in Queues |-> <<>>]
    /\ wake = [q \in Queues |-> FALSE]
    /\ blocked_on = [t \in Threads |-> NoQueue]
    /\ act = [t \in Threads |-> "none"]
    /\ bq_timer = [t \in Threads |-> "none"]
    /\ bq_remain = [t \in Threads |-> FALSE]
    /\ excuse = [t \in Threads |-> {}]

(* t is inserted in a list of waiters. *)
Inserted(t) == \E q \in Queues : t \in Range(waiters[q])

Excuse(ts, why) == [t \in Threads |-> IF t \in ts THEN excuse[t] \cup {why} ELSE excuse[t]]

-----------------------------------------------------------------------------
(* Removing the timer fails when timer_service has taken it. *)
remove_timer_fails(t) == bq_timer[t] = "fired"

(* t is taken off q and its action handed to the async queue. *)
blockq_apply(q, t, flags) ==
    /\ waiters' = [waiters EXCEPT ![q] = Remove(@, t)]
    /\ act' = [act EXCEPT ![t] = flags]
    /\ bq_timer' = [bq_timer EXCEPT ![t] = "none"]

(* Wake t, which may be on q; a waiter whose timeout has fired is left to it,  *)
(* and the wake is spent.                                                      *)
blockq_wake_internal_locked(q, t, flags) ==
    \/ /\ remove_timer_fails(t)
       /\ excuse' = IF flags = "wake" THEN Excuse(Range(waiters[q]) \ {t}, "timedout") ELSE excuse
       /\ UNCHANGED <<waiters, act, bq_timer, bq_remain>>
    \/ /\ ~remove_timer_fails(t)
       /\ bq_remain' = [bq_remain EXCEPT ![t] = bq_timer[t] = "armed"]
       /\ IF t \in Range(waiters[q])
          THEN /\ blockq_apply(q, t, flags)
               /\ excuse' = IF bq_timer[t] = "due" THEN Excuse({t}, "expired") ELSE excuse
          ELSE /\ excuse' = Excuse({t}, "beaten")
               /\ UNCHANGED <<waiters, act, bq_timer>>

(* (mutant) nothing is left for a thread between its action and the queue *)
blockq_wake_oneQuiet(q, resuming) ==
    \/ /\ waiters[q] # <<>>
       /\ blockq_wake_internal_locked(q, Head(waiters[q]), "wake")
       /\ UNCHANGED wake
    \/ /\ waiters[q] = <<>>
       /\ excuse' = Excuse(resuming, "resume")
       /\ UNCHANGED <<wake, waiters, act, bq_timer, bq_remain>>

(* Wake the oldest waiter, or leave the flag; threads in `resuming` are    *)
(* about to queue themselves again and do not look at it.                  *)
blockq_wake_one(q, resuming) ==
    \/ /\ waiters[q] # <<>>
       /\ blockq_wake_internal_locked(q, Head(waiters[q]), "wake")
       /\ UNCHANGED wake
    \/ /\ waiters[q] = <<>>
       /\ wake' = [wake EXCEPT ![q] = TRUE]
       /\ excuse' = Excuse(resuming, "resume")
       /\ UNCHANGED <<waiters, act, bq_timer, bq_remain>>

blockq_wake_one_for_thread(q, t) ==
    /\ UNCHANGED wake
    /\ \/ /\ blocked_on[t] # q
          /\ excuse' = Excuse({t}, "moved")
          /\ UNCHANGED <<waiters, act, bq_timer, bq_remain>>
       \/ blocked_on[t] = q /\ blockq_wake_internal_locked(q, t, "nullify")

(* One turn of the loop, which ends on an empty list and leaves no flag to *)
(* the threads that are about to queue themselves.                         *)
blockq_flush(q, coming) ==
    /\ UNCHANGED wake
    /\ \/ /\ waiters[q] # <<>>
          /\ blockq_wake_internal_locked(q, Head(waiters[q]), "nullify")
       \/ /\ waiters[q] = <<>>
          /\ excuse' = Excuse(coming, "flush")
          /\ UNCHANGED <<waiters, act, bq_timer, bq_remain>>

-----------------------------------------------------------------------------
(* blockq_check_timeout, its three sections: the flag is cleared, the      *)
(* action runs (elsewhere), and the thread queues itself.                  *)
blockq_check(q, t, entering) ==
    /\ wake' = [wake EXCEPT ![q] = FALSE]
    /\ excuse' = [IF wake[q] THEN Excuse(entering, "cleared") ELSE excuse EXCEPT ![t] = {}]
    /\ UNCHANGED <<waiters, blocked_on, act, bq_timer, bq_remain>>

blockq_enqueue(q, t, timeout) ==
    /\ blocked_on' = [blocked_on EXCEPT ![t] = q]
    /\ bq_timer' = [bq_timer EXCEPT ![t] = IF timeout THEN "armed" ELSE "none"]
    /\ bq_remain' = [bq_remain EXCEPT ![t] = FALSE]
    /\ waiters' = [waiters EXCEPT ![q] = Append(@, t)]
    /\ UNCHANGED <<wake, act, excuse>>

(* The action of a woken thread found that it must block again. *)
blockq_resume_blocking(t) ==
    /\ waiters' = [waiters EXCEPT ![blocked_on[t]] = Append(@, t)]
    /\ bq_timer' = [bq_timer EXCEPT ![t] = IF bq_remain[t] THEN "armed" ELSE "none"]
    /\ bq_remain' = [bq_remain EXCEPT ![t] = FALSE]
    /\ UNCHANGED <<wake, blocked_on, act, excuse>>

(* Up to n waiters of src, oldest first, move to dest with what remains of *)
(* their timeouts; a waiter whose timeout has fired stays.  Threads in     *)
(* `rewaking` have seen the flag of src and are about to wake its oldest.  *)
blockq_transfer_waiters(dest, src, n, rewaking) ==
    LET movable == SelectSeq(waiters[src], LAMBDA t : bq_timer[t] # "fired")
        moved   == SubSeq(movable, 1, IF n < Len(movable) THEN n ELSE Len(movable))
        ms      == Range(moved)
    IN  /\ waiters' = [waiters EXCEPT ![src] = SelectSeq(@, LAMBDA t : t \notin ms), ![dest] = @ \o moved]
        /\ blocked_on' = [t \in Threads |-> IF t \in ms THEN dest ELSE blocked_on[t]]
        /\ bq_timer' = [t \in Threads |-> IF t \in ms /\ bq_timer[t] = "due" THEN "none" ELSE bq_timer[t]]
        /\ excuse' = [t \in Threads |-> excuse[t]
                           \cup (IF t \in ms /\ bq_timer[t] = "due" THEN {"expired"} ELSE {})
                           \cup (IF t \in ms \cap rewaking THEN {"requeued"} ELSE {})]
        /\ UNCHANGED <<wake, act, bq_remain>>

-----------------------------------------------------------------------------
(* Time passes, timer_service takes the timer, and its handler runs. *)
TimerDue(t) ==
    /\ bq_timer[t] = "armed"
    /\ bq_timer' = [bq_timer EXCEPT ![t] = "due"]
    /\ UNCHANGED <<waiters, wake, blocked_on, act, bq_remain, excuse>>

timer_service(t) ==
    /\ bq_timer[t] = "due"
    /\ bq_timer' = [bq_timer EXCEPT ![t] = "fired"]
    /\ UNCHANGED <<waiters, wake, blocked_on, act, bq_remain, excuse>>

blockq_thread_timeout(t) ==
    /\ bq_timer[t] = "fired"
    /\ blockq_apply(blocked_on[t], t, "timedout")
    /\ bq_remain' = [bq_remain EXCEPT ![t] = FALSE]
    /\ UNCHANGED <<wake, blocked_on, excuse>>
=============================================================================
