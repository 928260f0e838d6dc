----------------------------- MODULE UnixTimers -----------------------------
(***************************************************************************)
(* One timer of a program (kernel/src/unix/timer.c: timerfd, timer_create, *)
(* setitimer) on a timer queue (kernel/src/runtime/timer.c).  Threads set, *)
(* read and close it while timer_service takes it off the queue, applies   *)
(* its handler without the queue's lock, and puts an interval timer back.  *)
(* Time is left out: a queued timer is due when timer_service takes it.    *)
(***************************************************************************)
EXTENDS Naturals, FiniteSets

CONSTANTS
    Threads,
    Types,       \* of "timerfd", "posix", "itimer"
    MaxCalls,    \* bound on calls
    MaxOverruns, \* most periods an interval timer has missed when it is taken
    MaxFires     \* bound on expiries

VARIABLES
    type,
    t,        \* struct timer: active, queued, interval, entries in the queue, generation set
    ut,       \* overruns, interval, cancel_on_set, canceled, refcount, open, lock
    svc,      \* timer_service: idle, taken (handler to apply), inside, again (to put back)
    th,       \* where each thread is in its call
    fired, told,  \* expiries of this setting taken by the service; read or signalled (history)
    slip,         \* (history) what has happened that excuses the properties
    calls

utVars == <<type, t, ut, svc, th, fired, told, slip, calls>>

NoService == [st |-> "idle", n |-> 0, interval |-> FALSE, gen |-> 0]

UnixTimersInit ==
    /\ type \in Types
    /\ t = [active |-> FALSE, queued |-> FALSE, interval |-> FALSE, entries |-> 0, gen |-> 0]
    /\ ut = [overruns |-> 0, interval |-> FALSE, cancel |-> FALSE, canceled |-> FALSE,
             refs |-> 1, open |-> TRUE, lock |-> FALSE]
    /\ svc = NoService
    /\ th = [x \in Threads |-> [st |-> "user", kind |-> "none"]]
    /\ fired = 0 /\ told = 0 /\ slip = {} /\ calls = 0

Goto(x, st) == th' = [th EXCEPT ![x].st = st]
Begin(x) == th[x].st = "user" /\ ut.open /\ calls < MaxCalls /\ calls' = calls + 1

(* blockq_wake_one on the timerfd's queue, when there is a sleeper *)
Sleepers == {x \in Threads : th[x].st = "sleep"}
WakeOne == IF Sleepers = {} THEN th' = th ELSE \E x \in Sleepers : Goto(x, "woken")

-----------------------------------------------------------------------------
(* The timer queue *)

(* remove_timer: a queued timer's handler is told; one being serviced is   *)
(* left to timer_service.                                                  *)
remove_timer ==
    /\ t' = [t EXCEPT !.active = FALSE, !.queued = FALSE,
                      !.entries = IF t.active /\ t.queued THEN @ - 1 ELSE @]
    /\ slip' = IF svc.st = "idle" THEN slip
               ELSE slip \cup {"taken"} \cup (IF t.active /\ ~t.queued THEN {"serviced"} ELSE {})
Told == IF t.active /\ t.queued THEN 1 ELSE 0   \* release_unix_timer by the handler

(* register_timer *)
register_timer(interval) ==
    t' = [active |-> TRUE, queued |-> TRUE, interval |-> interval,
          entries |-> t.entries + 1, gen |-> t.gen + 1]

(* timer_service takes a timer that is due. *)
timer_service(n) ==
    /\ svc.st = "idle" /\ t.entries > 0 /\ fired + n <= MaxFires
    /\ svc' = [st |-> "taken", n |-> n, interval |-> t.interval, gen |-> t.gen]
    /\ t' = [t EXCEPT !.entries = @ - 1, !.queued = FALSE, !.active = @ /\ t.interval]
    /\ fired' = fired + n
    /\ slip' = IF t.active /\ t.queued THEN slip ELSE slip \cup {"assert"}
    /\ UNCHANGED <<type, ut, th, told, calls>>

(* The handler has applied; an interval timer is queued again, or, if it   *)
(* was removed meanwhile, its handler is told.                             *)
Again ==
    /\ svc.st = "again"
    /\ svc' = NoService
    /\ \/ ~svc.interval /\ UNCHANGED <<t, ut>>
       \/ /\ svc.interval /\ t.active
          /\ t' = [t EXCEPT !.queued = TRUE, !.entries = @ + 1] /\ UNCHANGED ut
       \/ /\ svc.interval /\ ~t.active
          /\ ut' = [ut EXCEPT !.refs = @ - 1] /\ UNCHANGED t
    /\ UNCHANGED <<type, th, fired, told, slip, calls>>

-----------------------------------------------------------------------------
(* The handlers: timerfd_timer_expire, posix_timer_expire, itimer_expire *)

ExpireLock ==
    /\ svc.st = "taken" /\ ~ut.lock
    /\ ut' = [ut EXCEPT !.lock = TRUE]
    /\ svc' = [svc EXCEPT !.st = "inside"]
    /\ UNCHANGED <<type, t, th, fired, told, slip, calls>>

(* Each counts, tells the program, and gives up the reference unless the   *)
(* timer is one of an interval.                                            *)
Late == IF svc.gen # t.gen \/ ~ut.open THEN {"late"} ELSE {}
Sticky == IF ut.interval /\ ~svc.interval THEN {"sticky"} ELSE {}
FinishAlways(over) ==   \* (mutant) an interval timer's reference is given up at each expiry
    /\ ut' = [ut EXCEPT !.lock = FALSE, !.overruns = over, !.refs = @ - 1]
    /\ svc' = [svc EXCEPT !.st = "again"]
    /\ slip' = slip \cup Late \cup Sticky
    /\ UNCHANGED <<type, t, fired, calls>>
Finish(over) ==
    /\ ut' = [ut EXCEPT !.lock = FALSE, !.overruns = over,
                        !.refs = IF ut.interval THEN @ ELSE @ - 1]
    /\ svc' = [svc EXCEPT !.st = "again"]
    /\ slip' = slip \cup Late \cup Sticky
    /\ UNCHANGED <<type, t, fired, calls>>

timerfd_timer_expire ==
    /\ type = "timerfd" /\ svc.st = "inside"
    /\ WakeOne
    /\ Finish(ut.overruns + svc.n) /\ UNCHANGED told

(* sigev_deliver: the signal carries the overruns counted so far. *)
posix_timer_expire ==
    /\ type = "posix" /\ svc.st = "inside"
    /\ told' = told + ut.overruns + svc.n
    /\ Finish(0) /\ UNCHANGED th

(* Only one signal of an itimer is queued, overruns are ignored. *)
itimer_expire ==
    /\ type = "itimer" /\ svc.st = "inside"
    /\ told' = told + svc.n
    /\ Finish(0) /\ UNCHANGED th

-----------------------------------------------------------------------------
(* timerfd_settime, timer_settime, setitimer: the lock, the timer removed, *)
(* the timer registered.                                                   *)

SetLock(x, kind) ==
    /\ Begin(x) /\ ~ut.lock
    /\ ut' = [ut EXCEPT !.lock = TRUE]
    /\ th' = [th EXCEPT ![x] = [st |-> "set", kind |-> kind]]
    /\ UNCHANGED <<type, t, svc, fired, told, slip>>

SetRemove(x, cancel) ==
    /\ th[x].st = "set" /\ (cancel => type = "timerfd")
    /\ remove_timer
    /\ ut' = [ut EXCEPT !.overruns = 0, !.refs = @ - Told, !.canceled = FALSE, !.cancel = cancel]
    /\ fired' = 0 /\ told' = 0
    /\ Goto(x, "removed")
    /\ UNCHANGED <<type, svc, calls>>

(* interval is set here and never reset. *)
SetRegister(x) ==
    /\ th[x].st = "removed"
    /\ IF th[x].kind = "disarm" THEN UNCHANGED t ELSE register_timer(th[x].kind = "interval")
    /\ ut' = [ut EXCEPT !.lock = FALSE, !.interval = @ \/ th[x].kind = "interval",
                        !.refs = IF th[x].kind = "disarm" THEN @ ELSE @ + 1]
    /\ Goto(x, "user")
    /\ UNCHANGED <<type, svc, fired, told, slip, calls>>

-----------------------------------------------------------------------------
(* timerfd_read: canceled, expired, or asleep until a handler wakes it *)

timerfd_read(x) ==
    /\ type = "timerfd" /\ ~ut.lock
    /\ \/ Begin(x)
       \/ th[x].st = "woken" /\ UNCHANGED calls
    /\ \/ /\ ut.canceled
          /\ ut' = [ut EXCEPT !.canceled = FALSE] /\ Goto(x, "user") /\ UNCHANGED told
       \/ /\ ~ut.canceled /\ ut.overruns > 0
          /\ ut' = [ut EXCEPT !.overruns = 0] /\ told' = told + ut.overruns /\ Goto(x, "user")
       \/ /\ ~ut.canceled /\ ut.overruns = 0
          /\ Goto(x, "sleep") /\ UNCHANGED <<ut, told>>
    /\ UNCHANGED <<type, t, svc, fired, slip>>

(* Interrupted, the read unlocks the timer's lock without having taken it. *)
ReadNullified(x) ==
    /\ th[x].st = "sleep"
    /\ ut' = [ut EXCEPT !.lock = FALSE]
    /\ slip' = slip \cup (IF ut.lock THEN {"nullify"} ELSE {})
    /\ Goto(x, "user")
    /\ UNCHANGED <<type, t, svc, fired, told, calls>>

(* A change of the realtime clock cancels the timers that asked for it. *)
notify_unix_timers_of_rtc_change ==
    /\ type = "timerfd" /\ ut.cancel /\ ~ut.canceled /\ ~ut.lock
    /\ ut' = [ut EXCEPT !.canceled = TRUE]
    /\ slip' = IF ut.open THEN slip ELSE slip \cup {"listed"}
    /\ WakeOne
    /\ UNCHANGED <<type, t, svc, fired, told, calls>>

timer_getoverrun(x) ==
    /\ type = "posix" /\ Begin(x) /\ ~ut.lock
    /\ ut' = [ut EXCEPT !.overruns = 0]
    /\ told' = told + ut.overruns
    /\ UNCHANGED <<type, t, svc, th, fired, slip>>

(* timerfd_close, when no thread has the descriptor; timer_delete *)
Close(x) ==
    /\ ~ut.lock /\ Begin(x)
    /\ remove_timer
    /\ ut' = [ut EXCEPT !.open = FALSE, !.refs = @ - Told - 1]
    /\ UNCHANGED <<type, svc, th, fired, told>>
timerfd_close(x) == type = "timerfd" /\ (\A y \in Threads : th[y].st = "user") /\ Close(x)
timer_delete(x) == type = "posix" /\ Close(x)

UnixTimersNext ==
    \/ \E n \in 1..MaxOverruns : (n > 1 => t.interval) /\ timer_service(n)
    \/ Again \/ ExpireLock \/ timerfd_timer_expire \/ posix_timer_expire \/ itimer_expire
    \/ notify_unix_timers_of_rtc_change
    \/ \E x \in Threads :
          \/ \E k \in {"disarm", "once", "interval"} : SetLock(x, k)
          \/ \E c \in BOOLEAN : SetRemove(x, c)
          \/ SetRegister(x) \/ timerfd_read(x) \/ ReadNullified(x) \/ timer_getoverrun(x)
          \/ timerfd_close(x) \/ timer_delete(x)

UnixTimersSpec == UnixTimersInit /\ [][UnixTimersNext]_utVars

-----------------------------------------------------------------------------
(* Properties *)

(* A timer is in the queue at most once, exactly when it is marked queued, *)
(* and taken only when active, unless it was set again while its interval  *)
(* handler was being applied (remove_timer leaves it to timer_service,     *)
(* which finds it active and queues it a second time), or an interrupted   *)
(* timerfd_read unlocked the timer under another thread.                   *)
TimerIsQueuedOnce ==
    slip \cap {"serviced", "nullify"} # {}
    \/ (t.entries = (IF t.queued THEN 1 ELSE 0) /\ "assert" \notin slip)

(* The references are the owner's and one for each registration whose      *)
(* handler has still to give it up.  A reference stays for ever when a     *)
(* timer once set with an interval expires as a one-shot (interval is      *)
(* never reset), and counts are off after the case above.                  *)
Outstanding ==
    (IF t.active THEN 1 ELSE 0)
    + (IF svc.st \in {"taken", "inside"} /\ (~svc.interval \/ ~t.active) THEN 1 ELSE 0)
    + (IF svc.st = "again" /\ svc.interval /\ ~t.active THEN 1 ELSE 0)
RefsAreExact ==
    slip \cap {"serviced", "sticky", "nullify"} # {} \/ ut.refs = (IF ut.open THEN 1 ELSE 0) + Outstanding

(* Every expiry of the present setting is told to the program once: it is  *)
(* in overruns, or was read or signalled, or its handler is about to run;  *)
(* unless the timer was set or closed between timer_service taking it and  *)
(* the handler, which then counts an expiry of the setting before.         *)
ExpiriesAreCounted ==
    /\ slip \cap {"taken", "nullify"} = {} =>
          fired = ut.overruns + told + (IF svc.st \in {"taken", "inside"} THEN svc.n ELSE 0)
    /\ "late" \in slip => slip \cap {"taken", "nullify"} # {}

(* Sections of the timer's lock exclude each other, unless an interrupted  *)
(* read unlocked it for someone else; and a reader is not left asleep      *)
(* beside an expiry.                                                       *)
Holders == {x \in Threads : th[x].st \in {"set", "removed"}}
              \cup (IF svc.st = "inside" THEN {"svc"} ELSE {})
SectionsExclude ==
    "nullify" \notin slip =>
    /\ Cardinality(Holders) <= 1
    /\ Sleepers # {} /\ ut.overruns > 0 => \E x \in Threads : th[x].st = "woken"
=============================================================================
