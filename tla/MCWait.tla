------------------------------- MODULE MCWait -------------------------------
(***************************************************************************)
(* Model checking of the parts of the kernel in which threads wait: one    *)
(* behaviour is about one part, scen; the variables of the others are 0.   *)
(***************************************************************************)
EXTENDS Naturals, Sequences, FiniteSets, TLC

CONSTANTS t1, t2, t3, p1, p2, f1, e1, e2, Q1, Q2, NoQueue

VARIABLES scen,
    waiters, wake, blocked_on, act, bq_timer, bq_remain, excuse, kind, obj,
    pc, op, todo, intr, sig, owed, calls, th, ppend, sfd, disp, halted,
    slip, events, ev, io_event, nfy, efd, ns, blocked, w, edge, shots,
    use, changes, type, t, ut, svc, fired, told

vars == <<scen, waiters, wake, blocked_on, act, bq_timer, bq_remain, excuse, kind,
        obj, pc, op, todo, intr, sig, owed, calls, th, ppend, sfd,
        disp, halted, slip, events, ev, io_event, nfy, efd, ns,
        blocked, w, edge, shots, use, changes, type, t, ut, svc,
        fired, told>>

E(m, z, c, n) == [modes |-> {m}, polls |-> {}, selects |-> {}, eventfd |-> z,
                  states |-> {{}, {"IN"}}, calls |-> c, changes |-> n]
P(polls, selects, states) ==
    [modes |-> {}, eventfd |-> FALSE, states |-> states, polls |-> polls, selects |-> selects,
     calls |-> 2, changes |-> 2]
EpollUses ==
    {E({}, FALSE, 3, 2), E({"ET"}, FALSE, 3, 2), E({"ET"}, TRUE, 3, 2),
     E({"ONESHOT"}, FALSE, 3, 2), E({"EXCLUSIVE"}, FALSE, 4, 1),
     P({<<<<f1, {"OUT"}>>, <<f1, {"IN"}>>>>}, {<<{}, {f1}>>}, {{}, {"IN"}, {"HUP"}}),
     P({<<<<f1, {"IN"}>>>>}, {<<{f1}, {f1}>>}, {{}, {"IN"}})}
Symmetry == Permutations({t1, t2, t3}) \cup Permutations({p1, p2}) \cup Permutations({e1, e2})

Wait == INSTANCE UnixWait WITH Threads <- {t1, t2, t3}, Queues <- {Q1, Q2},
    Kinds <- {"pipe", "eventfd", "semaphore", "futex"}, MaxSize <- 2, MaxCalls <- 3
Sig == INSTANCE Signals WITH Threads <- {t1, t2}, Sigs <- {1, 2}, RT_SIG_START <- 2,
    SaMask <- [s \in {1, 2} |-> {}], Masks <- {{}, {1}}, MaxEvents <- 3
Poll == INSTANCE Epoll WITH Threads <- {t1, t2}, Notifiers <- {p1, p2}, Files <- {f1},
    Shared <- {e1, e2}, Uses <- EpollUses
Timers == INSTANCE UnixTimers WITH Threads <- {t1, t2}, Types <- {"timerfd", "posix", "itimer"},
    MaxCalls <- 3, MaxOverruns <- 2, MaxFires <- 3

IdleWait == <<th, ppend, sfd, disp, halted, slip, events, ev, io_event, nfy, efd,
        ns, blocked, w, edge, shots, use, changes, type, t, ut, svc,
        fired, told>>
IdleSig == <<waiters, wake, blocked_on, act, bq_timer, bq_remain, excuse, kind,
        obj, pc, op, todo, sig, owed, calls, ev, io_event, nfy, efd,
        ns, blocked, w, edge, shots, use, changes, type, t, ut, svc,
        fired, told>>
IdlePoll == <<waiters, wake, blocked_on, act, bq_timer, bq_remain, excuse, kind,
        obj, pc, op, todo, intr, sig, owed, th, ppend, sfd, disp,
        halted, events, type, t, ut, svc, fired, told>>
IdleTimers == <<waiters, wake, blocked_on, act, bq_timer, bq_remain, excuse, kind,
        obj, pc, op, todo, intr, sig, owed, ppend, sfd, disp, halted,
        events, ev, io_event, nfy, efd, ns, blocked, w, edge, shots,
        use, changes>>

Init ==
    \/ /\ scen = "wait" /\ Wait!Init
       /\ th = 0 /\ ppend = 0 /\ sfd = 0 /\ disp = 0 /\ halted = 0
       /\ slip = 0 /\ events = 0 /\ ev = 0 /\ io_event = 0 /\ nfy = 0
       /\ efd = 0 /\ ns = 0 /\ blocked = 0 /\ w = 0 /\ edge = 0
       /\ shots = 0 /\ use = 0 /\ changes = 0 /\ type = 0 /\ t = 0
       /\ ut = 0 /\ svc = 0 /\ fired = 0 /\ told = 0
    \/ /\ scen = "signals" /\ Sig!SignalsInit
       /\ waiters = 0 /\ wake = 0 /\ blocked_on = 0 /\ act = 0
       /\ bq_timer = 0 /\ bq_remain = 0 /\ excuse = 0 /\ kind = 0
       /\ obj = 0 /\ pc = 0 /\ op = 0 /\ todo = 0 /\ sig = 0 /\ owed = 0
       /\ calls = 0 /\ ev = 0 /\ io_event = 0 /\ nfy = 0 /\ efd = 0
       /\ ns = 0 /\ blocked = 0 /\ w = 0 /\ edge = 0 /\ shots = 0
       /\ use = 0 /\ changes = 0 /\ type = 0 /\ t = 0 /\ ut = 0 /\ svc = 0
       /\ fired = 0 /\ told = 0
    \/ /\ scen = "epoll" /\ Poll!EpollInit
       /\ waiters = 0 /\ wake = 0 /\ blocked_on = 0 /\ act = 0
       /\ bq_timer = 0 /\ bq_remain = 0 /\ excuse = 0 /\ kind = 0
       /\ obj = 0 /\ pc = 0 /\ op = 0 /\ todo = 0 /\ intr = 0 /\ sig = 0
       /\ owed = 0 /\ th = 0 /\ ppend = 0 /\ sfd = 0 /\ disp = 0
       /\ halted = 0 /\ events = 0 /\ type = 0 /\ t = 0 /\ ut = 0
       /\ svc = 0 /\ fired = 0 /\ told = 0
    \/ /\ scen = "timers" /\ Timers!UnixTimersInit
       /\ waiters = 0 /\ wake = 0 /\ blocked_on = 0 /\ act = 0
       /\ bq_timer = 0 /\ bq_remain = 0 /\ excuse = 0 /\ kind = 0
       /\ obj = 0 /\ pc = 0 /\ op = 0 /\ todo = 0 /\ intr = 0 /\ sig = 0
       /\ owed = 0 /\ ppend = 0 /\ sfd = 0 /\ disp = 0 /\ halted = 0
       /\ events = 0 /\ ev = 0 /\ io_event = 0 /\ nfy = 0 /\ efd = 0
       /\ ns = 0 /\ blocked = 0 /\ w = 0 /\ edge = 0 /\ shots = 0
       /\ use = 0 /\ changes = 0

Next ==
    \/ scen = "wait" /\ Wait!Next /\ UNCHANGED <<scen, IdleWait>>
    \/ scen = "signals" /\ Sig!SignalsNext /\ UNCHANGED <<scen, IdleSig>>
    \/ scen = "epoll" /\ Poll!EpollNext /\ UNCHANGED <<scen, IdlePoll>>
    \/ scen = "timers" /\ Timers!UnixTimersNext /\ UNCHANGED <<scen, IdleTimers>>

Spec == Init /\ [][Next]_vars

(* Pipes, eventfds and futexes (pipe.c, eventfd.c, futex.c on blockq.c): nobody sleeps *)
(* on a condition that holds, and a wake-up, a timeout or a signal meant for a sleeper *)
(* reaches it, but for the races that the histories name.                              *)
SleepersAreWoken == scen = "wait" =>
    Wait!NobodyStranded /\ Wait!WakeupIsNotLost /\ Wait!TimeoutIsKept /\ Wait!InterruptIsKept

(* Signals (signal.c): the mask in force is the one the program asked for, but for the *)
(* temporary one of sigsuspend; nobody sleeps with a signal pending that it would      *)
(* take; and a call is not seen to be interrupted when no handler ran.                 *)
SignalsReachTheirThread == scen = "signals" =>
    Sig!MaskIsTheProgrammed /\ Sig!NobodySleepsThrough /\ Sig!RestartIsHidden

(* epoll, poll and select (poll.c on notify.c): a waiter is woken by an event of a file *)
(* that it asked for, is told only of events that were, a oneshot registration reports  *)
(* once, and an entry in a notify set belongs to a registration.                        *)
EventsReachTheirWaiter == scen = "epoll" =>
    /\ Poll!NobodyMissesAnEvent /\ Poll!ReportIsTrue
    /\ Poll!OneshotFiresOnce /\ Poll!RegistrationsMatch

(* Timers (runtime/timer.c, unix/timer.c): a timer is in the queue once, is freed with  *)
(* its last user, and every expiry is counted once.                                     *)
TimersAreExact == scen = "timers" =>
    /\ Timers!TimerIsQueuedOnce /\ Timers!RefsAreExact
    /\ Timers!ExpiriesAreCounted /\ Timers!SectionsExclude
=============================================================================
