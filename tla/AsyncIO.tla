------------------------------ MODULE AsyncIO ------------------------------
(***************************************************************************)
(* Asynchronous input and output: rings of requests (unix/io_uring.c) and  *)
(* contexts of events (unix/aio.c).  The code runs in sections between     *)
(* which the ring's lock is free: todo[a] is what actor a still has to do, *)
(* one section a step.  The actors are the threads, the devices that       *)
(* complete requests, the timer service and the notifications of files.    *)
(* One behaviour is about one ring or one context; left is the use made of *)
(* it.  Counters are of W values.                                          *)
(***************************************************************************)
EXTENDS SockWait

CONSTANTS W,          \* the counters of a ring are modulo W (2^32)
          SqEntries,  \* sq_entries and
          CqEntries,  \* cq_entries, powers of two that divide W
          Uses

VARIABLES s, left

ioVars == <<s, left>>

Dev == 90     \* the devices,
Tmr == 91     \* the timer service and
Ntf == 92     \* the notifications of files
Actors == Threads \cup {Dev, Tmr, Ntf}
Files == 1 .. 2
Reqs == DOMAIN left.req
Req(r) == left.req[r]

NoReg == [op |-> "", off |-> 0, fds |-> <<>>]
IdleThread == [pc |-> "idle", q |-> 1, bl |-> FALSE, why |-> "", call |-> "", min |-> 0, tmos |-> 0, sig |-> FALSE, reg |-> NoReg]
AioIdle == [pc |-> "idle", q |-> 1, bl |-> FALSE, why |-> "", call |-> "", min |-> 0, nr |-> 0, tmo |-> FALSE]

Sec(name, r, v) == [s |-> name, r |-> r, v |-> v]
Then(x, a, secs) == [x EXCEPT !.todo[a] = secs \o @]

(* The use of memory that is gone: what follows is not modelled *)
Gone(x, what) == [x EXCEPT !.panic = @ \cup {what}]
Running == s.panic = {}

(* fdesc_put of a file *)
fdesc_put(x, f) == [x EXCEPT !.refs[f] = @ - 1]

--------------------------------------------------------------------------
(* Completions                                                            *)

(* iour_complete_locked: into the ring, or counted when there is no room.  *)
(* The comparison does not allow for the counters' wrapping                *)
Room(x) == x.cqt < (x.cqh + CqEntries) % W
iour_complete_lockedLate(x, r) ==
  IF (x.cqt - x.cqh) % W <= CqEntries
  THEN [x EXCEPT !.ans[r] = @ + 1, !.cqe[x.cqt % CqEntries] = r, !.cqt = (@ + 1) % W] ELSE [x EXCEPT !.ans[r] = @ + 1, !.ovf = (@ + 1) % W, !.lost = Append(@, r)]
iour_complete_locked(x, r) ==
  LET y == [Slip(x, Room(x) # ((x.cqt - x.cqh) % W < CqEntries), "wrapped") EXCEPT !.ans[r] = @ + 1]
  IN  IF Room(x) THEN [y EXCEPT !.cqe[x.cqt % CqEntries] = r, !.cqt = (@ + 1) % W] ELSE [y EXCEPT !.ovf = (@ + 1) % W, !.lost = Append(@, r)]

Listed(x) == {r \in Reqs : x.tm[r].st = "listed"}
Oldest(x, S) == CHOOSE r \in S : \A q \in S : x.tm[r].at <= x.tm[q].at
Due(x) == {r \in Listed(x) : x.tm[r].target = (x.cqt + x.ovf) % W}

(* What is counted for a timeout: the completions of other requests *)
Counted(x) == [x EXCEPT !.tm = [r \in Reqs |-> IF @[r].st = "listed" THEN [@[r] EXCEPT !.seen = @ + 1] ELSE @[r]]]

(* check_timers: the timeouts that waited for this completion, one after   *)
(* the other; the targets of the others move on with each                  *)
FireDue(x) ==
  FoldLeft(LAMBDA y, i : IF Due(y[1]) = {} THEN y
             ELSE LET r == Oldest(y[1], Due(y[1]))
                      z == iour_complete_locked([Slip(y[1], y[1].tm[r].seen # Req(r).n, "early") EXCEPT !.tm[r].st = "off", !.tmos = (@ + 1) % W], r)
                  IN  <<[z EXCEPT !.tm = [q \in Reqs |-> IF @[q].st = "listed" THEN [@[q] EXCEPT !.target = (@ + 1) % W] ELSE @[q]]],
                        Append(y[2], Sec("tremove", r, 0))>>,
           <<x, <<>>>>, [i \in Reqs |-> i])

Count(q, f) == Cardinality({i \in DOMAIN q : q[i] = f})
(* the waiting thread that was seen under the lock is woken without it *)
Wake(x) == IF x.bq_ = 0 THEN <<>> ELSE <<Sec("wake", x.bq_, 0)>>
(* iour_release: the files and the ring itself *)
iour_release(x) ==
  [x EXCEPT !.live = FALSE, !.files = <<>>, !.refs = [f \in Files |-> @[f] - Count(x.files, f)]]

(* iour_complete; nc: of an operation that cannot be cancelled.  A timer    *)
(* that was freed in the list is met when the list is walked               *)
iour_complete(x, a, r, nc) ==
  IF ~x.live THEN Gone(x, "ring")
  ELSE LET y == [iour_complete_locked(x, r) EXCEPT !.ops = @ - nc]
       IN  IF nc = 1 /\ y.ops = 0 /\ y.shutdown THEN iour_release(y)
           ELSE IF \E q \in Listed(y) : ~y.tm[q].alive THEN Gone(y, "list")
           ELSE LET z == FireDue(Counted(y)) IN Then(z[1], a, z[2] \o Wake(x))

(* iour_timer_remove, of a timer that is no longer listed, or in iour_close *)
iour_timer_remove(x, r) ==
  IF ~x.tm[r].alive THEN Gone(x, "timer")
  ELSE IF x.tm[r].k = "queued"
       THEN [Slip(x, x.ops = 1 /\ (x.shutdown \/ x.bq_ # 0), "quiet") EXCEPT !.tm[r] = [@ EXCEPT !.k = "gone", !.alive = FALSE], !.ops = @ - 1]
       ELSE x

--------------------------------------------------------------------------
(* Requests                                                               *)

(* The file of a request, from the process or from the ring's table: the    *)
(* latter takes its reference with a plain increment                        *)
FileOf(x, r) ==
  LET q == Req(r)
  IN  IF q.fix THEN IF q.f \in DOMAIN x.files THEN x.files[q.f] ELSE 0
      ELSE IF q.f \in Files /\ x.fd[q.f] THEN q.f ELSE 0

(* iour_rw, iour_iov, iour_txrx and ACCEPT once they have the file *)
iour_rw(x, a, r, f, bad) ==
  IF bad THEN Then(x, a, <<Sec("put", f, 0), Sec("complete", r, 0)>>)
  ELSE [x EXCEPT !.fly = @ \cup {<<r, f>>}, !.ops = @ + 1]

(* iour_poll_add, first part; no memory: the file's reference stays *)
iour_poll_add(x, a, r, f, bad) ==
  IF bad THEN Then(Slip(x, TRUE, "pollleak"), a, <<Sec("complete", r, 0)>>)
  ELSE Then([x EXCEPT !.pl[r] = [st |-> "new", f |-> f, ev |-> FALSE, ne |-> TRUE]], a, <<Sec("plist", r, f)>>)
(* and the rest: events may have come before it is listed *)
PollList(x, a, r, f) ==
  IF ~x.live THEN Gone(x, "ring")
  ELSE IF x.pl[r].ev THEN Then(x, a, <<Sec("complete", r, 0), Sec("nremove", r, 0), Sec("pfree", r, 0)>>)
  ELSE Then([x EXCEPT !.pl[r].st = "listed"], a, <<Sec("dispatch", r, f)>>)
iour_poll_remove(x, a, r, p) ==
  IF p \in Reqs /\ x.pl[p].st = "listed"
  THEN Then([x EXCEPT !.pl[p].st = "off"], a, <<Sec("complete", p, 0), Sec("nremove", p, 0), Sec("pfree", p, 0), Sec("complete", r, 0)>>)
  ELSE Then(x, a, <<Sec("complete", r, 0)>>)

iour_timeout_add(x, a, r, off, bad) ==
  IF bad THEN Then(x, a, <<Sec("complete", r, 0)>>)
  ELSE [Slip(x, x.ovf # 0, "overflow") EXCEPT !.ops = @ + 1,
          !.tm[r] = [st |-> "listed", k |-> "queued", alive |-> TRUE, target |-> (x.cqt + off) % W, at |-> r, seen |-> 0]]
iour_timeout_remove(x, a, r, p) ==
  IF p \in Listed(x) THEN Then([x EXCEPT !.tm[p].st = "off"], a, <<Sec("tremove", p, 0), Sec("complete", p, 0), Sec("complete", r, 0)>>)
  ELSE Then(x, a, <<Sec("complete", r, 0)>>)

(* IORING_OP_CLOSE: the descriptor goes, and the file when nobody else has it *)
CloseFile(x, a, r, f, bad) ==
  IF f \notin Files \/ ~x.fd[f] THEN Then(x, a, <<Sec("complete", r, 0)>>)
  ELSE LET y == [x EXCEPT !.fd[f] = FALSE, !.refs[f] = @ - 1]
       IN  IF y.refs[f] > 0 \/ bad THEN Then(y, a, <<Sec("complete", r, 0)>>) ELSE [y EXCEPT !.fly = @ \cup {<<r, 0>>}, !.ops = @ + 1]

(* iour_register_files_update: up to the first descriptor that is not open *)
iour_register_files_update(x, off, fds) ==
  IF Len(fds) + off > Len(x.files) THEN x
  ELSE LET n == Cardinality({i \in DOMAIN fds : \A j \in 1 .. i : fds[j] = 0 \/ x.fd[fds[j]]})
           new == [i \in DOMAIN x.files |-> IF i > off /\ i <= off + n THEN fds[i - off] ELSE x.files[i]]
       IN  [x EXCEPT !.files = new, !.refs = [f \in Files |-> @[f] + Count(new, f) - Count(x.files, f)]]

(* iour_submit *)
iour_submit(x, a, r, bad) ==
  LET q == Req(r)
      f == FileOf(x, r)
  IN  CASE q.op \in {"rw", "poll"} /\ f = 0 -> Then(x, a, <<Sec("complete", r, 0)>>)
        [] q.op \in {"rw", "poll"} /\ q.fix -> Then(x, a, <<Sec("fixref", r, x.refs[f])>>)
        [] q.op = "rw" -> iour_rw([x EXCEPT !.refs[f] = @ + 1], a, r, f, bad)
        [] q.op = "poll" -> iour_poll_add([x EXCEPT !.refs[f] = @ + 1], a, r, f, bad)
        [] q.op = "pollrm" -> iour_poll_remove(x, a, r, q.n)
        [] q.op = "timeout" -> iour_timeout_add(x, a, r, q.n, bad)
        [] q.op = "timeoutrm" -> iour_timeout_remove(x, a, r, q.n)
        [] q.op = "close" -> CloseFile(x, a, r, q.f, bad)
        [] q.op = "files" -> Then(iour_register_files_update(x, 0, <<q.f>>), a, <<Sec("complete", r, 0)>>)
        [] q.op = "unknown" -> Then([x EXCEPT !.todo[a] = SelectSeq(@, LAMBDA c : c.s # "take")], a, <<Sec("complete", r, 0)>>)
        [] OTHER -> Then(x, a, <<Sec("complete", r, 0)>>)
(* f->refcnt++ under the ring's lock, which no other holder of the file takes *)
FixRef(x, a, r, v) ==
  LET f == FileOf(x, r)
      y == [Slip(x, x.refs[f] # v, "racy") EXCEPT !.refs[f] = v + 1]
  IN  IF Req(r).op = "rw" THEN iour_rw(y, a, r, f, FALSE) ELSE iour_poll_add(y, a, r, f, FALSE)

(* The loop of io_uring_enter: the next entry, if there is one *)
TakeEntry(x, a, n, bad) ==
  IF n = 0 \/ x.sqh >= x.sqt THEN Slip(x, n # 0 /\ x.sqh # x.sqt, "wrapped")
  ELSE LET r == x.sqe[x.sqh % SqEntries]
           y == [x EXCEPT !.sqh = (@ + 1) % W, !.taken = @ \cup {r}]
       IN  IF Req(r).op = "dropped" THEN y ELSE iour_submit(IF n = 1 THEN y ELSE Then(y, a, <<Sec("take", 0, n - 1)>>), a, r, bad)

--------------------------------------------------------------------------
(* Waiting for completions                                                *)

(* iour_getevents_bh; the mask is put back once the lock is free *)
Enough(x, t) == ~((x.cqt - x.cqh) % W < x.th[t].min /\ x.tmos = x.th[t].tmos)
iour_getevents_bh(x, t) ==
  IF x.th[t].why # "null" /\ ~Enough(x, t) THEN Block(x, t)
  ELSE Then([x EXCEPT !.bq_ = 0, !.th[t].pc = "work"], t, <<Sec("restore", 0, 0), Sec("ringput", 0, 0)>>)

(* the end of io_uring_enter: one thread at a time may wait *)
GetEvents(x, t) ==
  IF x.bq_ # 0 THEN Then(x, t, <<Sec("ringput", 0, 0)>>)
  ELSE LET y == IF x.th[t].sig THEN [x EXCEPT !.saved = x.mask[t], !.mask[t] = 0] ELSE x
       IN  iour_getevents_bh([ClearWake(y, t, t) EXCEPT !.bq_ = t, !.th[t].tmos = x.tmos], t)

(* iour_close: timers are removed where they can be, and stay in the list;  *)
(* pollers are taken off the list and unregistered                          *)
iour_close(x, a) ==
  LET y == FoldLeft(LAMBDA z, r : IF r \in Listed(z) THEN iour_timer_remove(z, r) ELSE z, x, [i \in Reqs |-> i])
      ps == SelectSeq([i \in Reqs |-> i], LAMBDA r : y.pl[r].st = "listed")
  IN  Then([y EXCEPT !.pl = [r \in Reqs |-> IF @[r].st = "listed" THEN [@[r] EXCEPT !.st = "off"] ELSE @[r]]], a,
           FlattenSeq([i \in DOMAIN ps |-> <<Sec("nremove", ps[i], 0), Sec("pfree", ps[i], 0)>>]))
(* its second part; v = 1: called by close(2), which waits for what cannot  *)
(* be cancelled.  bad: no memory to wait                                    *)
CloseRing(x, a, v, bad) ==
  LET y == [(IF x.efd = 0 THEN x ELSE fdesc_put(x, x.efd)) EXCEPT !.efd = 0]
  IN  IF x.ops = 0 THEN iour_release(y)
      ELSE IF v = 0 \/ bad THEN [y EXCEPT !.shutdown = TRUE]
      ELSE Block([ClearWake(y, a, a) EXCEPT !.bq_ = a], a)
iour_close_bh(x, t) ==
  IF x.th[t].why = "null" THEN [Slip(x, TRUE, "interrupted") EXCEPT !.bq_ = 0, !.th[t].pc = "work"]
  ELSE IF x.ops # 0 THEN Block(x, t) ELSE [iour_release(x) EXCEPT !.th[t].pc = "work"]

--------------------------------------------------------------------------
(* Timers and notifications                                               *)

(* iour_timeout: found or not, the timer is freed and the operation is over *)
iour_timeout(x, r) ==
  IF ~x.live THEN Gone(x, "ring")
  ELSE IF \E q \in Listed(x) : ~x.tm[q].alive THEN Gone(x, "list")
  ELSE IF x.tm[r].st = "listed"
       THEN Then([x EXCEPT !.tm[r].st = "off"], Tmr, <<Sec("expired", r, 0), Sec("tfree", r, 0)>>)
       ELSE Then(x, Tmr, <<Sec("tfree", r, 0)>>)
(* iour_complete_timeout: no other timeout is looked at *)
iour_complete_timeout(x, r) ==
  LET y == iour_complete_locked([x EXCEPT !.tmos = (@ + 1) % W], r)
  IN  Then(Slip(y, Listed(x) # {}, "expired"), Tmr, Wake(x))
(* a waiting close is woken before the operation is over, and not after     *)
TimerFree(x, r) ==
  LET y == [Slip(x, x.ops = 1 /\ x.bq_ # 0, "quiet") EXCEPT !.tm[r].alive = FALSE, !.ops = @ - 1]
  IN  IF x.ops = 1 THEN Then(y, Tmr, <<Sec("tcheck", 0, 0)>>) ELSE y
TimerCheck(x) == IF ~x.live THEN Gone(x, "ring") ELSE IF x.shutdown THEN iour_release(Slip(x, x.ops # 0, "stale")) ELSE x

(* iour_poll_notify, with the notification lock of the file held *)
iour_poll_notify(x, a, r) ==
  IF ~x.live THEN Gone(x, "ring")
  ELSE IF x.pl[r].st = "listed"
       THEN Then([x EXCEPT !.pl[r].st = "off"], a, <<Sec("complete", r, 0), Sec("nfree", r, 0)>>)
       ELSE [x EXCEPT !.pl[r].ev = TRUE]
PollFree(x, r) == fdesc_put([x EXCEPT !.pl[r] = [@ EXCEPT !.st = "free", !.ne = FALSE]], x.pl[r].f)
(* in the handler: the last reference to the file would release the set of   *)
(* notifications that is being dispatched                                    *)
NotifyFree(x, r) == IF x.refs[x.pl[r].f] = 1 THEN Gone(x, "handler") ELSE PollFree(x, r)
(* a dispatch for file f calls the handler of each of its pollers *)
Dispatch(x, a, f) ==
  LET ps == SelectSeq([i \in Reqs |-> i], LAMBDA r : x.pl[r].ne /\ x.pl[r].f = f)
  IN  Then([x EXCEPT !.ns = TRUE], a, [i \in DOMAIN ps |-> Sec("notify", ps[i], 0)] \o <<Sec("nsfree", 0, 0)>>)

--------------------------------------------------------------------------
(* io_uring_register                                                      *)

iour_register_files(x, fds) ==
  IF x.files # <<>> \/ \E i \in DOMAIN fds : fds[i] # 0 /\ ~x.fd[fds[i]] THEN x
  ELSE [x EXCEPT !.files = fds, !.refs = [f \in Files |-> @[f] + Count(fds, f)]]
iour_unregister_files(x) == [x EXCEPT !.files = <<>>, !.refs = [f \in Files |-> @[f] - Count(x.files, f)]]
iour_register_eventfd(x, f) ==
  IF x.efd # 0 \/ ~x.fd[f] THEN x ELSE [x EXCEPT !.efd = f, !.refs[f] = @ + 1]
iour_unregister_eventfd(x) == IF x.efd = 0 THEN x ELSE [fdesc_put(x, x.efd) EXCEPT !.efd = 0]
io_uring_register(x, t, c) ==
  CASE c.op = "files" -> iour_register_files(x, c.fds)
    [] c.op = "unfiles" -> iour_unregister_files(x)
    [] c.op = "update" -> iour_register_files_update(x, c.off, c.fds)
    [] c.op = "eventfd" -> iour_register_eventfd(x, c.fds[1])
    [] c.op = "uneventfd" -> iour_unregister_eventfd(x)

--------------------------------------------------------------------------
(* One section of actor a; bad: an allocation fails in it                  *)

Do(x, a, c, bad) ==
  CASE c.s = "take" -> TakeEntry(x, a, c.v, bad)
    [] c.s = "fixref" -> FixRef(x, a, c.r, c.v)
    [] c.s = "complete" -> iour_complete(x, a, c.r, c.v)
    [] c.s = "plist" -> PollList(x, a, c.r, c.v)
    [] c.s = "dispatch" -> IF x.refs[c.v] = 0 THEN Gone(x, "file") ELSE IF x.ready[c.v] THEN Dispatch(x, a, c.v) ELSE x
    [] c.s = "notify" -> iour_poll_notify(x, a, c.r)
    [] c.s = "nsfree" -> [x EXCEPT !.ns = FALSE]
    [] c.s = "nremove" -> [x EXCEPT !.pl[c.r].ne = FALSE]
    [] c.s = "pfree" -> PollFree(x, c.r)
    [] c.s = "nfree" -> NotifyFree(x, c.r)
    [] c.s = "register" -> io_uring_register(x, a, x.th[a].reg)
    [] c.s = "tremove" -> iour_timer_remove(x, c.r)
    [] c.s = "put" -> fdesc_put(x, c.r)
    [] c.s = "wake" -> blockq_wake_one(x, c.r)
    [] c.s = "getevents" -> GetEvents(x, a)
    [] c.s = "restore" -> IF x.th[a].sig THEN [Slip(x, x.saved # a, "mask") EXCEPT !.mask[a] = x.saved] ELSE x
    [] c.s = "ringput" -> IF x.rrefs > 1 THEN [x EXCEPT !.rrefs = @ - 1] ELSE Then([x EXCEPT !.rrefs = 0], a, <<Sec("close", 0, 0), Sec("closing", 0, 0)>>)
    [] c.s = "close" -> iour_close(x, a)
    [] c.s = "closing" -> CloseRing(x, a, c.v, bad)
    [] c.s = "timeout" -> iour_timeout(x, c.r)
    [] c.s = "expired" -> iour_complete_timeout(x, c.r)
    [] c.s = "tfree" -> TimerFree(x, c.r)
    [] c.s = "tcheck" -> TimerCheck(x)

(* A section that takes the notification lock waits for it, and most take   *)
(* the ring's lock, which FixRef has held since it read the count           *)
LockFree(x, a, c) ==
  /\ c.s \in {"nremove", "dispatch"} => ~x.ns
  /\ c.s \notin {"put", "pfree", "nfree", "nremove", "nsfree", "wake", "restore", "ringput", "tremove", "tfree"} =>
       \A b \in Threads \ {a} : x.todo[b] # <<>> => x.todo[b][1].s # "fixref"

(* a call with nothing left to do returns *)
Return(x, a) == IF a \in Threads /\ x.todo[a] = <<>> /\ x.th[a].pc = "work" THEN [x EXCEPT !.th[a] = IF left.kind = "aio" THEN AioIdle ELSE IdleThread] ELSE x

MayFail(c) == c.s \in {"take", "closing"}
Work(a) ==
  /\ s.todo[a] # <<>> /\ LockFree(s, a, s.todo[a][1])
  /\ a \in Threads => s.th[a].pc = "work"
  /\ \E bad \in IF MayFail(s.todo[a][1]) /\ left.mem > 0 THEN BOOLEAN ELSE {FALSE} :
       /\ s' = Return(Do([s EXCEPT !.todo[a] = Tail(@)], a, s.todo[a][1], bad), a)
       /\ left' = [left EXCEPT !.mem = IF bad THEN @ - 1 ELSE @]

(* A woken or first call of the action of a waiting thread *)
Run(t) ==
  /\ s.th[t].pc = "run"
  /\ s' = Return(IF s.th[t].call = "close" THEN iour_close_bh(s, t) ELSE iour_getevents_bh(s, t), t)
  /\ UNCHANGED left
Join(t) == s.th[t].pc \in {"join", "rejoin"} /\ s' = JoinQueue(s, t) /\ UNCHANGED left
Interrupt(t) ==
  /\ s.th[t].pc = "queued" /\ left.sig > 0
  /\ s' = Leave(s, t, "null") /\ left' = [left EXCEPT !.sig = @ - 1]

--------------------------------------------------------------------------
(* The calls, the program and the world                                   *)

io_uring_enter(t) ==
  \E c \in left.enter :
    /\ s.ropen /\ left.calls > 0 /\ s.th[t].pc = "idle"
    /\ s' = [s EXCEPT !.rrefs = @ + 1,
                      !.th[t] = [IdleThread EXCEPT !.pc = "work", !.call = "enter", !.min = c.min, !.sig = c.sig],
                      !.todo[t] = <<Sec("take", 0, c.n), Sec(IF c.get THEN "getevents" ELSE "ringput", 0, 0)>>]
    /\ left' = [left EXCEPT !.calls = @ - 1]
Register(t) ==
  \E c \in left.reg :
    /\ s.ropen /\ left.calls > 0 /\ s.th[t].pc = "idle"
    /\ s' = [s EXCEPT !.rrefs = @ + 1, !.th[t] = [IdleThread EXCEPT !.pc = "work", !.call = "register", !.reg = c],
                      !.todo[t] = <<Sec("register", 0, 0), Sec("ringput", 0, 0)>>]
    /\ left' = [left EXCEPT !.calls = @ - 1]
(* close(2) of the ring and of a file *)
CloseCall(t) ==
  \/ /\ s.ropen /\ left.close /\ s.th[t].pc = "idle"
     /\ s' = IF s.rrefs > 1 THEN [s EXCEPT !.ropen = FALSE, !.rrefs = @ - 1]
             ELSE [s EXCEPT !.ropen = FALSE, !.rrefs = 0, !.th[t] = [IdleThread EXCEPT !.pc = "work", !.call = "close"],
                            !.todo[t] = <<Sec("close", 0, 0), Sec("closing", 0, 1)>>]
     /\ UNCHANGED left
  \/ \E f \in left.fclose :
       /\ s.fd[f] /\ s.th[t].pc = "idle"
       /\ s' = [s EXCEPT !.fd[f] = FALSE, !.refs[f] = @ - 1] /\ UNCHANGED left

(* The program fills the queue of requests and empties that of completions *)
AppSubmit ==
  /\ s.put < Len(left.req) /\ (s.sqt - s.sqh) % W < SqEntries /\ s.live
  /\ s' = [s EXCEPT !.put = @ + 1, !.sqe[s.sqt % SqEntries] = s.put + 1, !.sqt = (@ + 1) % W] /\ UNCHANGED left
AppReap ==
  /\ s.cqh # s.cqt /\ s.live /\ left.reap > 0
  /\ s' = [s EXCEPT !.got = Append(@, s.cqe[s.cqh % CqEntries]), !.cqh = (@ + 1) % W]
  /\ left' = [left EXCEPT !.reap = @ - 1]

DeviceCompletes ==
  \E o \in s.fly :
    /\ s.todo[Dev] = <<>>
    /\ s' = [s EXCEPT !.fly = @ \ {o},
                      !.todo[Dev] = (IF o[2] = 0 THEN <<>> ELSE <<Sec("put", o[2], 0)>>) \o <<Sec("complete", o[1], 1)>>]
    /\ UNCHANGED left
TimerExpires ==
  \E r \in Reqs :
    /\ s.todo[Tmr] = <<>> /\ s.tm[r].k = "queued"
    /\ s' = [s EXCEPT !.tm[r].k = "fired", !.todo[Tmr] = <<Sec("timeout", r, 0)>>] /\ UNCHANGED left
FileReady ==
  \E f \in Files :
    /\ s.todo[Ntf] = <<>> /\ ~s.ns /\ left.ready > 0 /\ s.refs[f] > 0
    /\ s' = Dispatch([s EXCEPT !.ready[f] = TRUE], Ntf, f)
    /\ left' = [left EXCEPT !.ready = @ - 1]

UringInit ==
  /\ left \in Uses
  /\ s = [sqh |-> left.start, sqt |-> left.start, sqe |-> [i \in 0 .. SqEntries - 1 |-> 0], put |-> 0, taken |-> {},
          cqh |-> left.start, cqt |-> left.start, cqe |-> [i \in 0 .. CqEntries - 1 |-> 0], ovf |-> 0, lost |-> <<>>, got |-> <<>>,
          ans |-> [r \in Reqs |-> 0], fly |-> {}, ops |-> 0, tmos |-> 0, bq_ |-> 0, saved |-> 0, shutdown |-> FALSE, live |-> TRUE,
          tm |-> [r \in Reqs |-> [st |-> "none", k |-> "none", alive |-> FALSE, target |-> 0, at |-> 0, seen |-> 0]],
          pl |-> [r \in Reqs |-> [st |-> "none", f |-> 0, ev |-> FALSE, ne |-> FALSE]],
          files |-> <<>>, efd |-> 0, fd |-> [f \in Files |-> TRUE], refs |-> [f \in Files |-> 1], ready |-> [f \in Files |-> FALSE],
          ropen |-> TRUE, rrefs |-> 1, ns |-> FALSE, mask |-> [t \in Threads |-> t],
          todo |-> [a \in Actors |-> <<>>], th |-> [t \in Threads |-> IdleThread],
          bq |-> [t \in Threads |-> <<>>], wake |-> [t \in Threads |-> FALSE], slip |-> {}, panic |-> {}]

UringNext ==
  /\ Running
  /\ \/ \E t \in Threads : io_uring_enter(t) \/ Register(t) \/ CloseCall(t) \/ Run(t) \/ Join(t) \/ Interrupt(t)
     \/ \E a \in Actors : Work(a)
     \/ AppSubmit \/ AppReap \/ DeviceCompletes \/ TimerExpires \/ FileReady

--------------------------------------------------------------------------
(* Properties of a ring                                                   *)

Pending(names, r) == MapThenSumSet(LAMBDA a : Len(SelectSeq(s.todo[a], LAMBDA c : c.s \in names /\ c.r = r)), Actors)

(* A request taken from the queue is answered exactly once, while the ring is *)
(* open: it is in flight, waits as a poller or a timer, is at work in some     *)
(* section, or has been answered                                              *)
AnsweredOnce ==
  s.rrefs > 0 =>
    \A r \in Reqs : Req(r).op # "dropped" =>
      s.ans[r] + Cardinality({o \in s.fly : o[1] = r}) + (IF r \in Listed(s) THEN 1 ELSE 0) + (IF s.pl[r].st = "listed" THEN 1 ELSE 0)
        + Pending({"fixref", "complete", "plist", "expired"}, r) = IF r \in s.taken THEN 1 ELSE 0

(* Every answer is in the ring, was read by the program, or is counted as    *)
(* lost; nothing unread is overwritten                                       *)
AnswersArrive ==
  LET n == (s.cqt - s.cqh) % W
      InRing(r) == Cardinality({i \in 0 .. CqEntries - 1 : i < n /\ s.cqe[(s.cqh + i) % CqEntries] = r})
  IN  /\ n <= CqEntries
      /\ \A r \in Reqs : s.ans[r] = Count(s.got, r) + InRing(r) + Count(s.lost, r)
      /\ s.lost # <<>> => Len(s.got) + n >= CqEntries \/ "wrapped" \in s.slip

(* A timeout that counts completions ends with the last of them, neither     *)
(* before nor after, but for another that expires, or a ring that overflowed *)
TimeoutsCount ==
  s.slip \cap {"expired", "overflow"} = {} =>
    /\ "early" \notin s.slip
    /\ \A r \in Listed(s) : Req(r).n > 0 /\ s.rrefs > 0 => s.tm[r].seen < Req(r).n

(* Nobody sleeps on enough completions, or in close on a ring with nothing   *)
(* to wait for, unless they are about to be woken                             *)
NobodyStranded ==
  \A t \in Threads : s.th[t].pc = "queued" =>
    \/ Lost(s) \/ Pending({"wake"}, t) > 0
    \/ IF s.th[t].call = "close" THEN s.ops > 0 \/ "quiet" \in s.slip ELSE ~Enough(s, t)

(* A file's references are those of the process, of the ring's table, of the *)
(* eventfd, and of the requests at work                                       *)
FileRefsAreExact ==
  s.slip \cap {"pollleak", "racy"} = {} =>
    \A f \in Files :
      s.refs[f] = (IF s.fd[f] THEN 1 ELSE 0) + Count(s.files, f) + (IF s.efd = f THEN 1 ELSE 0) + Cardinality({o \in s.fly : o[2] = f})
                  + Cardinality({r \in Reqs : s.pl[r].f = f /\ s.pl[r].st # "free"}) + Pending({"put"}, f)

(* A ring that nobody has is released with its last operation, and not before *)
RingIsReleased ==
  /\ ~s.live => s.rrefs = 0 /\ (s.ops = 0 \/ "stale" \in s.slip)
  /\ s.live /\ s.rrefs = 0 /\ s.ops = 0 /\ (\A a \in Actors : s.todo[a] = <<>>) /\ (\A t \in Threads : s.th[t].pc = "idle") =>
       s.slip \cap {"interrupted", "quiet"} # {}

(* A thread gets its own signal mask back *)
MaskIsRestored == \A t \in Threads : s.th[t].pc = "idle" /\ "mask" \notin s.slip => s.mask[t] = t

(* Memory that is gone is used only in these races: a timer that fires after *)
(* it was taken off the list and before it is removed; a list of timers left *)
(* behind by close; a closed file whose last reference is the poller's; and   *)
(* a ring released between the last operation's end and its timer's look     *)
MemoryIsLive ==
  /\ s.panic \subseteq {"timer", "list", "handler", "file", "ring"}
  /\ "timer" \in s.panic => \E r \in Reqs : s.tm[r].k = "fired" /\ ~s.tm[r].alive
  /\ s.panic \cap {"list", "ring"} # {} => s.rrefs = 0
  /\ s.panic \cap {"handler", "file"} # {} => \E f \in Files : ~s.fd[f]

RingIsSound ==
  AnsweredOnce /\ AnswersArrive /\ TimeoutsCount /\ NobodyStranded /\ FileRefsAreExact /\ RingIsReleased /\ MaskIsRestored /\ MemoryIsLive

--------------------------------------------------------------------------
(* Contexts of events (aio.c): left.req are the operations, of which each  *)
(* io_submit starts the next; left.nr is the number of events              *)

Nr == left.nr + 1
Used(x) == (x.tail - x.head) % Nr
aio_avail_events(x) == IF x.head - x.tail <= 0 THEN x.head - x.tail + Nr ELSE x.head - x.tail

(* refcount_release; the last one frees the context *)
aio_release(x) == [x EXCEPT !.arefs = @ - 1, !.live = x.arefs > 1]

(* aio_from_ring_id takes its reference before the caller has looked        *)
aio_from_ring_id(x) == IF ~x.id THEN Gone(x, "null") ELSE [x EXCEPT !.arefs = @ + 1]

(* iocb_enqueue: room for one more event, *)
iocb_enqueueLate(x, t, r) ==
  IF x.ongoing >= aio_avail_events(x) THEN x
  ELSE Then([x EXCEPT !.ongoing = @ + 1, !.arefs = @ + 1], t, <<Sec("start", r, 0)>>)
iocb_enqueue(x, t, r) ==
  IF x.ongoing >= aio_avail_events(x) - 1 THEN x
  ELSE Then([x EXCEPT !.ongoing = @ + 1, !.arefs = @ + 1], t, <<Sec("start", r, 0)>>)
(* then the operation, or one of the errors that undo it *)
iocb_start(x, r, bad) ==
  IF bad THEN aio_release([x EXCEPT !.ongoing = @ - 1]) ELSE [x EXCEPT !.fly = @ \cup {<<r, 0>>}]
aio_complete(x, r) ==
  IF ~x.live THEN Gone(x, "context")
  ELSE Then([x EXCEPT !.ongoing = @ - 1, !.ev[x.tail] = r, !.tail = (@ + 1) % Nr, !.ans[r] = @ + 1], Dev, Append(Wake(x), Sec("release", 0, 0)))

(* io_getevents_bh: the events that are there are copied; enough of them,   *)
(* the timeout or a signal end the call, the latter with nothing to say of  *)
(* what was copied.  A destroyer throws them away                           *)
Copied(x, t) == LET room == x.th[t].nr - x.copied IN IF room <= 0 THEN Used(x) ELSE Least(Used(x), room)
Copy(x, t, n) ==
  [x EXCEPT !.head = (@ + n) % Nr, !.copied = @ + n,
            !.buf[t] = @ \o [i \in 1 .. n |-> x.ev[(x.head + i - 1) % Nr]]]
GotEvents(x, t) ==
  LET y == [x EXCEPT !.bq_ = 0, !.buf[t] = <<>>, !.th[t].pc = "work",
                     !.out = @ \cup {x.buf[t][i] : i \in DOMAIN x.buf[t]}]
  IN  IF x.th[t].call = "destroy" THEN Then(y, t, <<Sec("destroyed", 0, IF x.th[t].bl THEN 1 ELSE 0), Sec("release", 0, 0)>>)
      ELSE Then(Slip(y, x.copied # Len(x.buf[t]), "miscounted"), t, <<Sec("release", 0, 0)>>)
Interrupted(x, t) ==
  LET y == [Slip(x, x.buf[t] # <<>> /\ x.th[t].call # "destroy", "dropped") EXCEPT !.bq_ = 0, !.buf[t] = <<>>, !.th[t].pc = "work",
                 !.out = @ \cup {x.buf[t][i] : i \in DOMAIN x.buf[t]}]
  IN  IF x.th[t].call = "destroy" THEN Then(y, t, <<Sec("destroyed", 0, 1), Sec("release", 0, 0)>>)
      ELSE Then(y, t, <<Sec("release", 0, 0)>>)
io_getevents_bh(x, t) ==
  IF x.th[t].why = "null" THEN Interrupted(x, t)
  ELSE LET y == Copy(x, t, Copied(x, t))
       IN  IF y.copied < x.th[t].min /\ x.th[t].why # "time" THEN Block(y, t) ELSE GotEvents(y, t)

(* io_getevents: the count and the waiting thread are the context's *)
io_getevents(x, t) ==
  io_getevents_bh([ClearWake(Slip(x, x.bq_ # 0, "shared"), t, t) EXCEPT !.copied = 0, !.bq_ = t], t)

(* io_destroy_internal: as many events as there are operations are waited   *)
(* for; v = 1: in the action of a thread that is blocked already, and else  *)
(* in one that returns to the program while it is queued                    *)
io_destroy_internal(x, t, v) ==
  IF x.ongoing = 0 THEN aio_release(x)
  ELSE IF v = 2 THEN Gone(x, "running")
  ELSE io_getevents_bh([ClearWake(Slip(x, x.bq_ # 0, "shared"), t, t) EXCEPT !.copied = 0, !.bq_ = t, !.arefs = @ + 1,
                          !.th[t].min = x.ongoing, !.th[t].nr = x.ongoing], t)
io_destroy_complete(x, t, v) == io_destroy_internal(x, t, IF v = 1 THEN 1 ELSE 2)
io_destroy(x, t) == IF ~x.id THEN x ELSE Then([x EXCEPT !.id = FALSE], t, <<Sec("destroy", 0, 1)>>)

AioDo(x, a, c, bad) ==
  CASE c.s = "submit" -> IF ~x.id THEN Gone(x, "null") ELSE iocb_enqueue(Then(aio_from_ring_id(x), a, <<Sec("release", 0, 0)>>), a, c.r)
    [] c.s = "getevents" -> IF ~x.id THEN Gone(x, "null") ELSE io_getevents(aio_from_ring_id(x), a)
    [] c.s = "start" -> iocb_start(x, c.r, bad)
    [] c.s = "aiodone" -> aio_complete(x, c.r)
    [] c.s = "wake" -> blockq_wake_one(x, c.r)
    [] c.s = "release" -> aio_release(x)
    [] c.s = "iodestroy" -> io_destroy(x, a)
    [] c.s = "destroy" -> io_destroy_internal(x, a, c.v)
    [] c.s = "destroyed" -> io_destroy_complete(x, a, c.v)

AioWork(a) ==
  /\ s.todo[a] # <<>> /\ (a \in Threads => s.th[a].pc = "work")
  /\ \E bad \in IF s.todo[a][1].s = "start" /\ left.mem > 0 THEN BOOLEAN ELSE {FALSE} :
       /\ s' = Return(AioDo([s EXCEPT !.todo[a] = Tail(@)], a, s.todo[a][1], bad), a)
       /\ left' = [left EXCEPT !.mem = IF bad THEN @ - 1 ELSE @]
AioRun(t) == s.th[t].pc = "run" /\ s' = Return(io_getevents_bh(s, t), t) /\ UNCHANGED left
AioTimeout(t) == s.th[t].pc = "queued" /\ s.th[t].tmo /\ s' = Leave(s, t, "time") /\ UNCHANGED left
AioCall(t) ==
  \E c \in left.enter :
    /\ s.th[t].pc = "idle" /\ left.calls > 0 /\ s.live
    /\ c.op = "submit" => s.put < Len(left.req)
    /\ s' = [s EXCEPT !.th[t] = [AioIdle EXCEPT !.pc = "work", !.call = c.op, !.min = c.min, !.nr = c.nr, !.tmo = c.tmo],
                      !.put = IF c.op = "submit" THEN @ + 1 ELSE @,
                      !.todo[t] = <<Sec(IF c.op = "destroy" THEN "iodestroy" ELSE c.op, IF c.op = "submit" THEN s.put + 1 ELSE 0, 0)>>]
    /\ left' = [left EXCEPT !.calls = @ - 1]
AioCompletes ==
  \E o \in s.fly :
    /\ s.todo[Dev] = <<>>
    /\ s' = [s EXCEPT !.fly = @ \ {o}, !.todo[Dev] = <<Sec("aiodone", o[1], 0)>>] /\ UNCHANGED left

(* io_setup *)
AioInit ==
  /\ left \in Uses
  /\ s = [head |-> 0, tail |-> 0, ev |-> [i \in 0 .. Nr - 1 |-> 0], ongoing |-> 0, copied |-> 0, bq_ |-> 0, arefs |-> 1, live |-> TRUE,
          id |-> TRUE, put |-> 0, fly |-> {}, ans |-> [r \in Reqs |-> 0], out |-> {}, buf |-> [t \in Threads |-> <<>>],
          todo |-> [a \in Actors |-> <<>>], th |-> [t \in Threads |-> AioIdle],
          bq |-> [t \in Threads |-> <<>>], wake |-> [t \in Threads |-> FALSE], slip |-> {}, panic |-> {}]
AioNext ==
  /\ Running
  /\ \/ \E t \in Threads : AioCall(t) \/ AioRun(t) \/ Join(t) \/ Interrupt(t) \/ AioTimeout(t)
     \/ \E a \in Actors : AioWork(a)
     \/ AioCompletes

(* The events of operations that are under way always have room *)
EventsHaveRoom == Used(s) + s.ongoing <= Nr - 1

(* The event of a completed operation is in the ring, was handed to a call   *)
(* that returned, or is with one that waits; what a call returns is what it  *)
(* was given unless two waited at once, and an interrupted call drops what   *)
(* it had                                                                    *)
EventsArrive ==
  /\ \A r \in Reqs : s.ans[r] = (IF r \in s.out THEN 1 ELSE 0) + MapThenSumSet(LAMBDA t : Count(s.buf[t], r), Threads)
                              + Cardinality({i \in 0 .. Nr - 1 : i < Used(s) /\ s.ev[(s.head + i) % Nr] = r})
  /\ "miscounted" \in s.slip => "shared" \in s.slip

(* Nobody sleeps on enough events, unless two waited at once *)
WaitersAreWoken ==
  \A t \in Threads : s.th[t].pc = "queued" =>
    \/ Lost(s) \/ Pending({"wake"}, t) > 0 \/ "shared" \in s.slip
    \/ s.copied + Used(s) < s.th[t].min

(* The context is there while somebody has it, and its references are those  *)
(* of the table or of its destroyer, of the operations and of the calls      *)
ContextIsHeld == s.panic = {} =>
  /\ s.live <=> s.arefs > 0
  /\ s.arefs = (IF s.id \/ Pending({"destroy", "destroyed"}, 0) > 0 \/ (\E t \in Threads : s.th[t].call = "destroy" /\ s.th[t].pc # "work") THEN 1 ELSE 0)
               + Cardinality(s.fly) + MapThenSumSet(LAMBDA r : Pending({"start", "aiodone"}, r), Reqs) + Pending({"release"}, 0)
               + Cardinality({t \in Threads : s.th[t].pc \in {"join", "rejoin", "queued", "run"}})

(* What goes wrong: a context looked up while it is destroyed, and a thread  *)
(* that destroys one with unread events and operations under way             *)
ContextIsLive ==
  /\ s.panic \subseteq {"null", "running"}
  /\ "null" \in s.panic => ~s.id
  /\ "running" \in s.panic => s.ongoing > 0 /\ ~s.id

ContextIsSound == EventsHaveRoom /\ EventsArrive /\ WaitersAreWoken /\ ContextIsHeld /\ ContextIsLive
=============================================================================
