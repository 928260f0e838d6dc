-------------------------------- MODULE Epoll --------------------------------
(***************************************************************************)
(* epoll, poll and select (kernel/src/unix/poll.c) over the notify sets of *)
(* files (notify.c).  A step per critical section: a change of a file, the *)
(* events its notifier computes, the dispatch of them to the notify set,   *)
(* one file of a waiter's scan, the two halves of blockq_check_timeout.    *)
(* An epollfd keeps what decides a report; the lists keep their order.     *)
(* poll and select use an epoll of their thread, named by the thread.      *)
(***************************************************************************)
EXTENDS Naturals, Sequences, FiniteSets, SequencesExt

CONSTANTS
    Threads, Files, Shared,  \* Shared: the epoll file descriptors
    Notifiers,               \* contexts that change files
    Uses   \* what a behaviour is about: modes (subsets of ET, ONESHOT, EXCLUSIVE) given to
           \* epoll_ctl, arrays of <<file, mask>> given to poll, <<readfds, writefds>> given
           \* to select, states (subsets of IN, OUT, HUP) of files, whether these have an
           \* edge_trigger_handler (eventfd), and bounds on calls and on changes of files

VARIABLES
    ev, io_event,  \* the events of each file; an eventfd's read or write not seen
    nfy,           \* each notifier: idle, or its file and the events computed
    efd,           \* efd[e][f]: the epollfd
    ns,            \* ns[f]: the epolls with an entry in the file's notify set
    blocked,       \* blocked[e]: threads with an epoll_blocked, newest first
    w,             \* each thread's epoll_blocked and progress; seen and stale are history
    edge, slip,    \* edges not reported, and why (history)
    shots,         \* reports of a oneshot registration (history)
    use, calls, changes

epVars == <<ev, io_event, nfy, efd, ns, blocked, w, edge, slip, shots, use, calls, changes>>
bounds == <<use, calls, changes>>

Epolls == Shared \cup Threads
POLL_EXCEPTIONS == {"HUP"}
NoEfd == [in |-> FALSE, mask |-> {}, mode |-> {}, data |-> 0, last |-> {},
          zombie |-> FALSE, registered |-> FALSE]
Idle == [st |-> "user", type |-> "none", e |-> 0, todo |-> {}, max |-> 0, asked |-> <<>>,
         got |-> [x \in {} |-> {}], wake |-> FALSE,
         seen |-> [f \in Files |-> {}], stale |-> FALSE]
NoNote == [st |-> "idle", f |-> 0, ev |-> {}]

EpollInit ==
    /\ ev = [f \in Files |-> {}] /\ io_event = [f \in Files |-> FALSE]
    /\ nfy = [p \in Notifiers |-> NoNote]
    /\ efd = [e \in Epolls |-> [f \in Files |-> NoEfd]]
    /\ ns = [f \in Files |-> <<>>]
    /\ blocked = [e \in Epolls |-> <<>>]
    /\ w = [t \in Threads |-> Idle]
    /\ edge = [e \in Epolls |-> {}] /\ slip = [e \in Epolls |-> {}]
    /\ shots = [e \in Epolls |-> [f \in Files |-> 0]]
    /\ use \in Uses /\ calls = 0 /\ changes = 0

EdgeFiles == IF use.eventfd THEN Files ELSE {}
Begin == calls < use.calls /\ calls' = calls + 1 /\ UNCHANGED <<use, changes>>

-----------------------------------------------------------------------------
(* Reporting an event to a waiter.  s carries the state a dispatch changes.*)

State == [efd |-> efd, w |-> w, io |-> io_event, edge |-> edge, slip |-> slip, shots |-> shots, consumed |-> FALSE]
Commit(s) ==
    /\ efd' = s.efd /\ w' = s.w /\ io_event' = s.io /\ edge' = s.edge /\ slip' = s.slip
    /\ shots' = s.shots

(* blockq_wake_one on the thread's own queue *)
Woken(x) == IF x.st = "sleep" THEN [x EXCEPT !.st = "woken"] ELSE [x EXCEPT !.wake = TRUE]

GotAt(x, i) == IF i \in DOMAIN x.got THEN x.got[i] ELSE {}
Got(x, i, rep) ==
    [x EXCEPT !.got = [j \in DOMAIN @ \cup {i} |-> IF j = i THEN rep ELSE @[j]]]

(* report_from_notify_events: what is new for an edge trigger; lastevents  *)
(* loses what fell, or what the file's own handler says.                   *)
LastEvents(s, e, f, evs) ==
    LET d == s.efd[e][f] IN
    IF "ET" \notin d.mode THEN d.last
    ELSE IF f \in EdgeFiles THEN (IF s.io[f] THEN d.last \ {"IN", "OUT"} ELSE d.last)
    ELSE d.last \cap evs
report_from_notify_events(s, e, f, evs) ==
    [s EXCEPT !.efd[e][f].last = LastEvents(s, e, f, evs),
              !.io[f] = @ /\ "ET" \notin s.efd[e][f].mode,
              !.slip = IF f \in EdgeFiles /\ s.io[f] /\ "ET" \in s.efd[e][f].mode
                       THEN [x \in Epolls |-> IF x # e /\ s.efd[x][f].registered
                                             THEN @[x] \cup {<<f, "shared">>} ELSE @[x]] ELSE @]
Report(s, e, f, evs) ==
    IF "ET" \in s.efd[e][f].mode THEN evs \ s.efd[e][f].last ELSE evs

(* epoll_wait_notify *)
Takes(s, t) == s.w[t].st # "user" /\ Cardinality(DOMAIN s.w[t].got) < s.w[t].max
epoll_wait_notifyAgain(s, e, f, t, report) ==   \* (mutant) oneshot is not disarmed
    IF report = {} \/ ~Takes(s, t) THEN s
    ELSE [s EXCEPT !.w[t] = Woken(Got(@, f, GotAt(@, f) \cup report)),
                   !.efd[e][f].last = @ \cup report,
                   !.edge[e] = @ \ {f},
                   !.slip[e] = {x \in @ : x[1] # f \/ x[2] = "exclusive"},
                   !.shots[e][f] = @ + (IF s.consumed THEN 0 ELSE 1),
                   !.consumed = TRUE]
epoll_wait_notify(s, e, f, t, report) ==
    IF report = {} \/ ~Takes(s, t) THEN s
    ELSE [s EXCEPT !.w[t] = Woken(Got(@, f, GotAt(@, f) \cup report)),
                   !.efd[e][f].zombie = @ \/ "ONESHOT" \in s.efd[e][f].mode,
                   !.efd[e][f].last = @ \cup report,
                   !.edge[e] = @ \ {f},
                   !.slip[e] = {x \in @ : x[1] # f \/ x[2] = "exclusive"},
                   !.shots[e][f] = @ + (IF s.consumed THEN 0 ELSE 1),
                   !.consumed = TRUE]

(* poll_notify: the entry whose index the epollfd has *)
poll_notify(s, e, f, t, evs) ==
    IF evs = {} \/ s.w[t].st = "user" THEN s
    ELSE [s EXCEPT !.w[t] = Woken(Got(@, s.efd[e][f].data, evs))]

(* select_notify: POLLFDMASK_READ and POLLFDMASK_WRITE both have the exceptions *)
SelectBits(x, evs) ==
    {b \in {"r", "w"} : /\ x.asked[IF b = "r" THEN 1 ELSE 2] # {}
                        /\ evs \cap ({IF b = "r" THEN "IN" ELSE "OUT"} \cup POLL_EXCEPTIONS) # {}}
select_notify(s, e, f, t, evs) ==
    LET bits == SelectBits(s.w[t], evs) \cup GotAt(s.w[t], f) IN
    IF s.w[t].st = "user" THEN s
    ELSE IF bits # {} THEN [s EXCEPT !.w[t] = Woken(Got(@, f, bits))]
    ELSE IF DOMAIN s.w[t].got # {} THEN [s EXCEPT !.w[t] = Woken(@)] ELSE s

(* check_fdesc: the file's events now, past the notify set *)
check_fdesc(s, e, f, t) ==
    LET evs == ev[f] \cap (s.efd[e][f].mask \cup POLL_EXCEPTIONS)
        r == [report_from_notify_events(s, e, f, evs) EXCEPT !.consumed = FALSE] IN
    IF s.efd[e][f].zombie THEN s
    ELSE CASE s.w[t].type = "poll" -> poll_notify(s, e, f, t, evs)
           [] s.w[t].type = "select" -> select_notify(s, e, f, t, evs)
           [] s.w[t].type = "epoll" -> epoll_wait_notify(r, e, f, t, Report(r, e, f, evs))

(* wait_notify: the entry of e in the notify set of f is given events *)
Exclusive(s, e, f) == "EXCLUSIVE" \in s.efd[e][f].mode
EpollWaiters(s, e, f, report) ==
    FoldLeft(LAMBDA a, t : IF a.consumed /\ Exclusive(s, e, f)
                           THEN [a EXCEPT !.slip[e] = @ \cup {<<f, "exclusive">>}]
                           ELSE epoll_wait_notify(a, e, f, t, report),
             [s EXCEPT !.consumed = FALSE], blocked[e])
wait_notify(s, e, f, evs) ==
    LET d == s.efd[e][f]
        r == report_from_notify_events(s, e, f, evs)
        t == Head(blocked[e])
        n == EpollWaiters(r, e, f, Report(r, e, f, evs)) IN
    IF d.zombie \/ ~d.registered THEN s
    ELSE IF e \in Shared THEN [n EXCEPT !.consumed = @ \/ s.consumed]
    ELSE IF blocked[e] = <<>> THEN s
    ELSE IF s.w[t].type = "poll" THEN poll_notify(s, e, f, t, evs)
    ELSE select_notify(s, e, f, t, evs)

(* notify_dispatch_with_arg: an exclusive entry is passed over once an     *)
(* earlier one has consumed the event.                                     *)
notify_dispatch(f, evs) ==
    FoldLeft(LAMBDA s, e :
                 LET mine == evs \cap (s.efd[e][f].mask \cup POLL_EXCEPTIONS) IN
                 IF s.consumed /\ Exclusive(s, e, f)
                 THEN [s EXCEPT !.slip[e] = @ \cup {<<f, "exclusive">>}]
                 ELSE wait_notify(s, e, f, mine),
             State, ns[f])

-----------------------------------------------------------------------------
(* Files: a change, then fdesc_notify_events in two steps. *)

Relevant(e, f, evs) == evs \cap (efd[e][f].mask \cup POLL_EXCEPTIONS) # {}

(* Every change, or for an eventfd every read and write, is an edge. *)
Change(p, f, new) ==
    /\ nfy[p].st = "idle"
    /\ changes < use.changes /\ changes' = changes + 1 /\ UNCHANGED <<use, calls>>
    /\ new # ev[f] \/ f \in EdgeFiles
    /\ ev' = [ev EXCEPT ![f] = new]
    /\ io_event' = [io_event EXCEPT ![f] = f \in EdgeFiles]
    /\ nfy' = [nfy EXCEPT ![p] = [st |-> "changed", f |-> f, ev |-> new]]
    /\ edge' = [e \in Epolls |->
                  IF efd[e][f].registered /\ Relevant(e, f, IF f \in EdgeFiles THEN new ELSE new \ ev[f])
                  THEN edge[e] \cup {f} ELSE edge[e]]
    /\ w' = [t \in Threads |-> IF w[t].st = "user" THEN w[t]
                               ELSE [w[t] EXCEPT !.seen[f] = @ \cup new]]
    /\ UNCHANGED <<efd, ns, blocked, slip, shots>>

Slipped(sl, f, why) ==
    [e \in Epolls |-> IF efd[e][f].registered THEN sl[e] \cup {<<f, why>>} ELSE sl[e]]

fdesc_notify_events(p) ==
    /\ nfy[p].st = "changed"
    /\ nfy' = [nfy EXCEPT ![p].st = "dispatch", ![p].ev = ev[nfy[p].f]]
    /\ slip' = IF nfy[p].ev = ev[nfy[p].f] THEN slip ELSE Slipped(slip, nfy[p].f, "merged")
    /\ UNCHANGED <<ev, io_event, efd, ns, blocked, w, edge, shots, bounds>>

(* The events may be out of date by now. *)
Dispatch(p) ==
    LET f == nfy[p].f
        s == notify_dispatch(f, nfy[p].ev) IN
    /\ nfy[p].st = "dispatch"
    /\ Commit(IF nfy[p].ev = ev[f] THEN s
              ELSE [s EXCEPT !.slip = Slipped(@, f, "stale"),
                             !.w = [t \in Threads |-> [@[t] EXCEPT !.stale = @ \/ s.w[t].st # "user"]]])
    /\ nfy' = [nfy EXCEPT ![p] = NoNote]
    /\ UNCHANGED <<ev, ns, blocked, bounds>>

(* release_fdesc of a file: notify_release unregisters every epollfd. The  *)
(* number is given to a new file at once.  Closing a file while a thread   *)
(* is inside epoll_ctl, poll or select is left out.                        *)
close_file(f) ==
    /\ Begin /\ \A p \in Notifiers : nfy[p].st # "idle" => nfy[p].f # f
    /\ \A t \in Threads : w[t].st # "scan"
    /\ efd' = [e \in Epolls |-> [efd[e] EXCEPT ![f].registered = FALSE]]
    /\ ns' = [ns EXCEPT ![f] = <<>>]
    /\ ev' = [ev EXCEPT ![f] = {}] /\ io_event' = [io_event EXCEPT ![f] = FALSE]
    /\ edge' = [e \in Epolls |-> edge[e] \ {f}]
    /\ UNCHANGED <<nfy, blocked, w, slip, shots>>

-----------------------------------------------------------------------------
(* Registrations *)

Fresh(mask, mode, data) ==
    [NoEfd EXCEPT !.in = TRUE, !.mask = mask, !.mode = mode, !.data = data, !.registered = TRUE]

(* The epoll's fds_lock is not held for reading by a scan. *)
Unlocked(e) == \A t \in Threads : w[t].st = "scan" => w[t].e # e

release_epollfd(e, f) ==
    /\ efd' = [efd EXCEPT ![e][f] = NoEfd]
    /\ ns' = [ns EXCEPT ![f] = Remove(@, e)]
    /\ edge' = [edge EXCEPT ![e] = @ \ {f}]
    /\ slip' = [slip EXCEPT ![e] = {x \in @ : x[1] # f}]
    /\ UNCHANGED <<w, io_event, shots>>

(* epoll_add_fd: allocated or reset, registered, every waiter checked *)
epoll_add_fd(e, f, mask, mode) ==
    LET s == [State EXCEPT !.efd[e][f] = Fresh(mask, mode, 0), !.shots[e][f] = 0,
                           !.edge[e] = IF ev[f] \cap mask = {} THEN @ \ {f} ELSE @ \cup {f},
                           !.slip[e] = {x \in @ : x[1] # f}] IN
    /\ Commit(FoldLeft(LAMBDA a, t : check_fdesc(a, e, f, t), s, blocked[e]))
    /\ ns' = [ns EXCEPT ![f] = Append(Remove(@, e), e)]

epoll_ctl(e, f, op, mask, mode) ==
    /\ e \in Shared /\ Unlocked(e) /\ Begin
    /\ \/ op = "ADD" /\ ~efd[e][f].registered /\ epoll_add_fd(e, f, mask, mode)
       \/ op = "DEL" /\ efd[e][f].in /\ release_epollfd(e, f)
       \/ op = "MOD" /\ efd[e][f].in /\ epoll_add_fd(e, f, mask, mode)
    /\ UNCHANGED <<ev, nfy, blocked>>

(* epoll_finish releases every epollfd; waiters hold the descriptor. *)
epoll_close(e) ==
    /\ e \in Shared /\ blocked[e] = <<>> /\ Begin
    /\ \E f \in Files : efd[e][f].in
    /\ efd' = [efd EXCEPT ![e] = [f \in Files |-> NoEfd]]
    /\ ns' = [f \in Files |-> Remove(ns[f], e)]
    /\ edge' = [edge EXCEPT ![e] = {}] /\ slip' = [slip EXCEPT ![e] = {}]
    /\ UNCHANGED <<ev, io_event, nfy, blocked, w, shots>>

(* poll and select bring the thread's epoll in line with the call: what    *)
(* keeps its mask and index keeps its registration.                        *)
Realign(t, want) ==
    /\ efd' = [efd EXCEPT ![t] = [f \in Files |->
                  IF f \notin DOMAIN want THEN NoEfd
                  ELSE IF @[f].registered /\ @[f].mask = want[f].mask /\ @[f].data = want[f].data
                  THEN @[f] ELSE Fresh(want[f].mask, {}, want[f].data)]]
    /\ ns' = [f \in Files |->
                IF f \notin DOMAIN want THEN Remove(ns[f], t)
                ELSE IF efd'[t][f] = efd[t][f] THEN ns[f] ELSE Append(Remove(ns[f], t), t)]

-----------------------------------------------------------------------------
(* The calls.  alloc_epoll_blocked pushes the waiter, which is then open   *)
(* to notifications while it scans the files itself.                       *)

Enter(t, e, type, max, asked) ==
    /\ w[t].st = "user" /\ Begin
    /\ blocked' = [blocked EXCEPT ![e] = <<t>> \o @]
    /\ w' = [w EXCEPT ![t] = [st |-> "scan", type |-> type, e |-> e, max |-> max,
                              todo |-> {f \in Files : efd'[e][f].in}, asked |-> asked,
                              got |-> [x \in {} |-> {}], wake |-> FALSE,
                              seen |-> ev, stale |-> FALSE]]
    /\ UNCHANGED <<ev, io_event, nfy, edge, slip, shots>>

epoll_wait(t, e, max) ==
    /\ e \in Shared /\ UNCHANGED <<efd, ns>> /\ Enter(t, e, "epoll", max, <<>>)

(* A later entry for a file replaces an earlier one. *)
poll_internal(t, fds) ==
    /\ Realign(t, [f \in {fds[i][1] : i \in DOMAIN fds} |->
                     LET i == SelectLastInSeq(fds, LAMBDA x : x[1] = f)
                     IN  [mask |-> fds[i][2], data |-> i]])
    /\ Enter(t, t, "poll", 0, fds)

SelectMask(asked, f) ==
    (IF f \in asked[1] THEN {"IN"} \cup POLL_EXCEPTIONS ELSE {})
    \cup (IF f \in asked[2] THEN {"OUT"} \cup POLL_EXCEPTIONS ELSE {})
select_internal(t, asked) ==
    /\ Realign(t, [f \in asked[1] \cup asked[2] |-> [mask |-> SelectMask(asked, f), data |-> 0]])
    /\ Enter(t, t, "select", 0, asked)

(* epoll_check_epollfds, one file *)
Scan(t) ==
    /\ w[t].st = "scan"
    /\ \E f \in w[t].todo :
          LET s == [State EXCEPT !.w[t].todo = @ \ {f}]
          IN  Commit(IF efd[w[t].e][f].registered THEN check_fdesc(s, w[t].e, f, t) ELSE s)
    /\ UNCHANGED <<ev, nfy, ns, blocked, bounds>>

(* epoll_wait_bh, poll_bh, select_bh: finished when something was reported *)
(* or the wait is over; else queued, unless the flag was set meanwhile.    *)
Leave(t) ==
    /\ blocked' = [blocked EXCEPT ![w[t].e] = Remove(@, t)]
    /\ w' = [w EXCEPT ![t] = Idle]
Action(t, over) ==
    IF over \/ DOMAIN w[t].got # {} THEN Leave(t)
    ELSE w' = [w EXCEPT ![t].st = "enter", ![t].wake = FALSE] /\ UNCHANGED blocked
epoll_wait_bh(t, over) == w[t].type = "epoll" /\ Action(t, over)
poll_bh(t, over) == w[t].type = "poll" /\ Action(t, over)
select_bh(t, over) == w[t].type = "select" /\ Action(t, over)
AnyBh(t, over) == epoll_wait_bh(t, over) \/ poll_bh(t, over) \/ select_bh(t, over)

(* blockq_check_timeout clears the flag and applies the action. *)
Check(t) ==
    /\ \/ w[t].st = "scan" /\ w[t].todo = {} /\ \E zero \in BOOLEAN : AnyBh(t, zero)
       \/ w[t].st = "woken" /\ AnyBh(t, FALSE)
       \/ w[t].st = "enter" /\ blocked' = blocked
          /\ w' = [w EXCEPT ![t].st = IF w[t].wake THEN "woken" ELSE "sleep", ![t].wake = FALSE]
    /\ UNCHANGED <<ev, io_event, nfy, efd, ns, edge, slip, shots, bounds>>

(* A timeout, or a signal, applies the action with its flag. *)
TimeoutOrSignal(t) ==
    /\ w[t].st = "sleep" /\ AnyBh(t, TRUE)
    /\ UNCHANGED <<ev, io_event, nfy, efd, ns, edge, slip, shots, bounds>>

EpollNext ==
    \/ \E p \in Notifiers : fdesc_notify_events(p) \/ Dispatch(p)
                            \/ \E f \in Files, new \in use.states : Change(p, f, new)
    \/ \E f \in Files : close_file(f)
    \/ \E e \in Shared, f \in Files, op \in {"ADD", "DEL", "MOD"}, mode \in use.modes :
           epoll_ctl(e, f, op, {"IN"}, mode)
    \/ \E e \in Shared : epoll_close(e)
    \/ \E t \in Threads :
          \/ Scan(t) \/ Check(t) \/ TimeoutOrSignal(t)
          \/ \E e \in Shared, m \in 1..Cardinality(Files) : use.modes # {} /\ epoll_wait(t, e, m)
          \/ \E fds \in use.polls : poll_internal(t, fds)
          \/ \E asked \in use.selects : select_internal(t, asked)

EpollSpec == EpollInit /\ [][EpollNext]_epVars

-----------------------------------------------------------------------------
(* Properties *)

Slip(e, f) == {x[2] : x \in {y \in slip[e] : y[1] = f}}

(* No thread sleeps in epoll_wait, poll or select while a file it watches  *)
(* has what it waits for and no notification is on its way.  With EPOLLET  *)
(* this is said of an edge not reported.  What makes it fail: the event    *)
(* went to an exclusive waiter; for an edge also a notifier that           *)
(* dispatched events computed before a later change, or computed them      *)
(* after one, so that no dispatch showed the fall; or another epoll that   *)
(* took the one io_event of an eventfd (wait_notify, check_fdesc).         *)
NobodyMissesAnEvent ==
    \A t \in Threads, f \in Files :
        LET e == w[t].e
            d == efd[e][f] IN
        /\ w[t].st = "sleep" /\ d.registered /\ ~d.zombie /\ Relevant(e, f, ev[f])
        /\ "ET" \in d.mode => f \in edge[e]
        /\ \A p \in Notifiers : nfy[p].st = "idle" \/ nfy[p].f # f
        => IF "ET" \in d.mode THEN Slip(e, f) \cap {"exclusive", "stale", "merged", "shared"} # {}
           ELSE "exclusive" \in Slip(e, f)

(* What a call reports of a file was true of it at some time during the    *)
(* call and was asked for, unless a notifier dispatched outdated events    *)
(* meanwhile; select alone also reports an exception in the set that did   *)
(* not name the file (select_notify).                                      *)
Truth(x, i) ==
    CASE x.type = "epoll" -> x.got[i] \subseteq x.seen[i]
      [] x.type = "poll" -> x.got[i] \subseteq x.seen[x.asked[i][1]] \cap (x.asked[i][2] \cup POLL_EXCEPTIONS)
      [] x.type = "select" ->
           \A b \in x.got[i] :
              \/ x.seen[i] \cap POLL_EXCEPTIONS # {}
              \/ b = "r" /\ i \in x.asked[1] /\ "IN" \in x.seen[i]
              \/ b = "w" /\ i \in x.asked[2] /\ "OUT" \in x.seen[i]
ReportIsTrue ==
    \A t \in Threads : \A i \in DOMAIN w[t].got : Truth(w[t], i) \/ w[t].stale

(* A oneshot registration reports one event until it is set again, though  *)
(* that event goes to every thread waiting on the epoll (wait_notify).     *)
OneshotFiresOnce ==
    \A e \in Shared, f \in Files : "ONESHOT" \in efd[e][f].mode => shots[e][f] <= 1

(* An epollfd is registered exactly when its entry is in the notify set of *)
(* the file, once, and only while it is in the epoll.                      *)
RegistrationsMatch ==
    \A e \in Epolls, f \in Files :
        /\ efd[e][f].registered <=> e \in Range(ns[f])
        /\ efd[e][f].registered => efd[e][f].in
        /\ IsInjective(ns[f])
==============================================================================
