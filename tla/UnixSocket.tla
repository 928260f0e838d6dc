----------------------------- MODULE UnixSocket -----------------------------
(***************************************************************************)
(* Unix domain sockets (unix/socket.c).  s.sk[k] is a socket: its queue of *)
(* messages (lengths), whether the queue exists (live: s->data), the bytes *)
(* counted (rx) and really put and taken (in, out), the connection queue   *)
(* cq of cap places (0 when it does not listen), the peer, the references, *)
(* whether it is bound to a path, and what it is notified by (nh).  A      *)
(* socket's lock makes an action's body one step, but for connect_bh, which*)
(* looks at the listener's queue and appends to it under another lock.     *)
(***************************************************************************)
EXTENDS SockWait

CONSTANTS
  Socks,                    \* 1 .. n: sockets that may exist
  UNIXSOCK_BUF_MAX_SIZE,    \* bytes of a message
  UNIXSOCK_QUEUE_MAX_LEN,   \* messages of a queue
  so_rcvbuf,
  Uses                      \* what a behaviour may do

VARIABLES s, left

usVars == <<s, left>>

Stream == left.type = "stream"
unixsock_is_conn_oriented == left.type # "dgram"
Idle == [op |-> "", k |-> 0, n |-> 0, v |-> <<>>, to |-> 0, pc |-> "idle", q |-> <<"", 0>>, bl |-> FALSE, why |-> ""]

(* allocate_queue: a power of two *)
Places(n) == IF n <= 1 THEN 1 ELSE IF n = 2 THEN 2 ELSE 4

--------------------------------------------------------------------------
(* Peers and references                                                    *)

Connected(x, k) == x.sk[k].peer # 0 /\ x.sk[x.sk[k].peer].live
Release(x, k) == [x EXCEPT !.sk[k].refs = @ - 1]
Reserve(x, k) == [x EXCEPT !.sk[k].refs = @ + 1]
(* unixsock_conn_internal: a peer it has, one that is closed, is forgotten *)
unixsock_conn_internal(x, k, p) ==
  [Reserve(Slip(x, x.sk[k].peer # 0, "repeer"), p) EXCEPT !.sk[k].peer = p]
unixsock_disconnect(x, k) ==
  IF x.sk[k].peer = 0 THEN x ELSE [Release(x, x.sk[k].peer) EXCEPT !.sk[k].peer = 0]

(* deallocate_notify_set tells those who are notified by k *)
unixsock_event_handler(x, k) ==
  [x EXCEPT !.sk = [j \in Socks |-> IF @[j].nh = k THEN [@[j] EXCEPT !.nh = 0] ELSE @[j]]]

(* A variant for testing: the peer's readers are not woken *)
unixsock_deallocQuiet(x, k) ==
  LET gone == [x EXCEPT !.sk[k] = [@ EXCEPT !.live = FALSE, !.st = "closed", !.nh = 0]]
  IN  Release(unixsock_event_handler(unixsock_disconnect(blockq_flush(gone, <<"tx", k>>), k), k), k)
(* unixsock_dealloc; the messages of the queue are not freed *)
unixsock_dealloc(x, k) ==
  LET p == IF unixsock_is_conn_oriented THEN x.sk[k].peer ELSE 0
      gone == [x EXCEPT !.sk[k] = [@ EXCEPT !.live = FALSE, !.st = "closed", !.nh = 0]]
      flushed == IF p # 0 /\ gone.sk[p].live THEN blockq_flush(gone, <<"rx", p>>) ELSE gone
  IN  Release(unixsock_event_handler(unixsock_disconnect(blockq_flush(flushed, <<"tx", k>>), k), k), k)

(* unixsock_close, of a listening socket with the sockets of its queue *)
unixsock_close(x, k) ==
  unixsock_dealloc([FoldLeft(unixsock_dealloc, x, x.sk[k].cq) EXCEPT !.sk[k] = [@ EXCEPT !.cq = <<>>, !.cap = 0, !.path = FALSE]], k)

--------------------------------------------------------------------------
(* The end of a call                                                       *)

(* the call returns rv; those that refer to another socket drop it, but    *)
(* for connect_bh                                                          *)
Return(x, t, rv) ==
  LET th == x.th[t]
      y == IF th.to # 0 /\ ~(th.op = "connect" /\ unixsock_is_conn_oriented) THEN Release(x, th.to) ELSE x
  IN  [Slip(y, th.op = "connect" /\ unixsock_is_conn_oriented /\ th.to # 0, "listener")
         EXCEPT !.th[t] = Idle]
(* it fails; a wakeup that it had is spent *)
Fail(x, t, e) ==
  Return(Slip(x, x.th[t].bl /\ x.th[t].why = "" /\ Waiting(x, t, x.th[t].q), "spent"), t, e)

--------------------------------------------------------------------------
(* Reading (unixsock_read_bh)                                              *)

(* what n bytes of buffer take from the queue: whole messages but for the  *)
(* last of a stream                                                        *)
RECURSIVE Consume(_, _)
Consume(q, n) ==
  IF q = <<>> \/ n = 0 THEN q
  ELSE IF q[1] > n THEN [q EXCEPT ![1] = @ - n]
  ELSE Consume(Tail(q), n - q[1])

ReadData(x, t) ==
  LET k == x.th[t].k
      q == x.sk[k].data
      n == IF Stream THEN Least(Sum(q), x.th[t].n) ELSE Least(q[1], x.th[t].n)
      gone == IF Stream THEN n ELSE q[1]
      y == [x EXCEPT !.sk[k] = [@ EXCEPT !.data = IF Stream THEN Consume(@, n) ELSE Tail(@), !.rx = @ - gone, !.out = @ + gone]]
  IN  Return(blockq_wake_one(
        Slip(y, (y.sk[k].data # <<>> /\ Waiting(y, t, <<"rx", k>>)) \/ Waiters(y, t, <<"tx", k>>) > 1, "leftover"),
        <<"tx", k>>), t, n)

unixsock_read_bh(x, t) ==
  LET k == x.th[t].k
      disconnected == unixsock_is_conn_oriented /\ ~Connected(x, k)
  IN  IF x.th[t].why = "null" /\ ~disconnected THEN Fail(x, t, "ERESTARTSYS")
      ELSE IF x.sk[k].data # <<>> THEN ReadData(x, t)
      ELSE IF disconnected THEN Return([x EXCEPT !.eof[k] = TRUE], t, 0)
      ELSE IF left.nb THEN Fail(x, t, "EAGAIN")
      ELSE Block(x, t)

--------------------------------------------------------------------------
(* Writing (unixsock_write_to, unixsock_write_bh)                          *)

Full(x, d) == x.sk[d].rx >= so_rcvbuf \/ Len(x.sk[d].data) = UNIXSOCK_QUEUE_MAX_LEN

(* what is left of an iov after p bytes of it *)
RECURSIVE Advance(_, _)
Advance(v, p) ==
  IF p > v[1] THEN Advance(Tail(v), p - v[1])
  ELSE IF p = v[1] THEN [v |-> Tail(v), off |-> 0] ELSE [v |-> v, off |-> p]

(* the loop of unixsock_write_to, from offset off of the iov v (one buffer  *)
(* if src); y: the queue, its count, the bytes put and the result (-1: error). *)
(* The length of an iov is counted from its start whatever the offset, and *)
(* then a message counts longer than it is and the loop runs past the iov   *)
(* (y.past).  fail: the message that cannot be allocated                    *)
RECURSIVE WriteChunks(_, _, _, _, _)
WriteChunks(y, v, off, src, fail) ==
  LET total == IF src THEN v[1] - off ELSE Sum(v)
      xfer == Least(UNIXSOCK_BUF_MAX_SIZE, IF Stream THEN Least(total, so_rcvbuf - y.rx) ELSE total)
      put == Least(xfer, Sum(v) - off)
      z == [y EXCEPT !.data = Append(@, put), !.rx = @ + xfer, !.in = @ + put, !.rv = @ + xfer,
                     !.past = ~src /\ (put < xfer \/ xfer = 0)]
      more == IF z.past THEN [v |-> <<>>, off |-> 0] ELSE Advance(v, off + put)
  IN  IF Stream /\ total = 0 THEN y
      ELSE IF ~Stream /\ total > UNIXSOCK_BUF_MAX_SIZE THEN [y EXCEPT !.rv = IF @ = 0 THEN -1 ELSE @]
      ELSE IF fail = 1 THEN [y EXCEPT !.rv = IF @ = 0 THEN -1 ELSE @]
      ELSE IF more.v = <<>> \/ z.rx >= so_rcvbuf \/ Len(z.data) = UNIXSOCK_QUEUE_MAX_LEN THEN z
      ELSE WriteChunks(z, more.v, more.off, src, fail - 1)

unixsock_write_to(x, t, fail) ==
  LET d == x.sk[x.th[t].to]
  IN  WriteChunks([data |-> d.data, rx |-> d.rx, in |-> d.in, rv |-> 0, past |-> FALSE],
                  x.th[t].v, 0, x.th[t].op # "writev", fail)

(* the messages are queued: a reader is woken *)
Written(x, t, y) ==
  LET d == x.th[t].to
      z == [Slip(x, y.past, "past") EXCEPT !.sk[d] = [@ EXCEPT !.data = y.data, !.rx = y.rx, !.in = y.in]]
  IN  IF y.rv < 0 THEN Fail(z, t, y.rv)
      ELSE Return(IF y.rv > 0 \/ ~Stream
                  THEN blockq_wake_one(Slip(z, ~Full(z, d) /\ Waiting(z, t, <<"tx", d>>), "leftover"), <<"rx", d>>)
                  ELSE z, t, y.rv)

unixsock_write_bh(x, t, fail) ==
  LET d == x.th[t].to
  IN  IF ~x.sk[d].live THEN Fail(x, t, IF unixsock_is_conn_oriented THEN -32 ELSE -111)
      ELSE IF x.th[t].why = "null" THEN Fail(x, t, "ERESTARTSYS")
      ELSE IF Full(x, d) THEN IF left.nb THEN Fail(x, t, "EAGAIN") ELSE Block(x, t)
      ELSE Written(x, t, unixsock_write_to(x, t, fail))

--------------------------------------------------------------------------
(* Connecting and accepting                                                *)

(* connect_bh up to the look at the listener's queue *)
connect_bh(x, t) ==
  LET l == x.sk[x.th[t].to]
  IN  IF Connected(x, x.th[t].k) THEN Fail(x, t, "EISCONN")
      ELSE IF l.cap = 0 THEN Fail(x, t, "ECONNREFUSED")
      ELSE IF x.th[t].why = "null" THEN Fail(x, t, "ERESTARTSYS")
      ELSE IF Len(l.cq) = l.cap THEN IF left.nb THEN Fail(x, t, "EAGAIN") ELSE Block(x, t)
      ELSE [x EXCEPT !.th[t].pc = "enqueue"]

NewSock == [data |-> <<>>, live |-> TRUE, rx |-> 0, in |-> 0, out |-> 0, cq |-> <<>>, cap |-> 0, peer |-> 0, refs |-> 1,
            path |-> FALSE, nh |-> 0, st |-> "fd"]

(* and from there: child c is made and queued *)
connect_enqueue(x, t, c) ==
  LET k == x.th[t].k
      l == x.th[t].to
      y == unixsock_conn_internal(
             unixsock_conn_internal([x EXCEPT !.sk[c] = [NewSock EXCEPT !.st = "queue"], !.eof[k] = FALSE], k, c), c, k)
  IN  IF x.sk[l].cap = 0 THEN [x EXCEPT !.panic = @ \cup {"closed"}]
      ELSE IF Len(x.sk[l].cq) = x.sk[l].cap THEN [x EXCEPT !.panic = @ \cup {"full"}]
      ELSE Return(blockq_wake_one([y EXCEPT !.sk[l].cq = Append(@, c)], <<"rx", l>>), t, 0)

(* unixsock_connect of a datagram socket; fail: notify_add has no memory *)
connect_dgram(x, t, fail) ==
  LET k == x.th[t].k
      y == unixsock_disconnect([x EXCEPT !.sk[k].nh = 0], k)
  IN  IF fail THEN Return(y, t, "ENOMEM")
      ELSE Return([unixsock_conn_internal(y, k, x.th[t].to) EXCEPT !.sk[k].nh = IF x.sk[x.th[t].to].live THEN x.th[t].to ELSE 0], t, 0)

(* accept_bh; fail: there is no file descriptor, or the address cannot be  *)
(* written; neither tells those who wait for a place in the queue          *)
accept_bh(x, t, fail) ==
  LET l == x.th[t].k
      y == [x EXCEPT !.sk[l].cq = Tail(@)]
      c == x.sk[l].cq[1]
      stuck == Waiting(x, t, <<"tx", l>>)
  IN  IF x.th[t].why = "null" THEN Fail(x, t, "ERESTARTSYS")
      ELSE IF x.sk[l].cq = <<>> THEN IF left.nb THEN Fail(x, t, "EAGAIN") ELSE Block(x, t)
      ELSE IF fail = "nofd" THEN Return(Slip(unixsock_dealloc(y, c), stuck, "nofd"), t, "ENFILE")
      ELSE IF fail = "fault" THEN Return(Slip([y EXCEPT !.sk[c].st = "fd"], stuck, "fault"), t, "EFAULT")
      ELSE Return(blockq_wake_one([y EXCEPT !.sk[c].st = "fd"], <<"tx", l>>), t, 0)

unixsock_listen(x, k, backlog) == IF x.sk[k].cap # 0 THEN x ELSE [x EXCEPT !.sk[k].cap = Places(backlog)]

(* unixsock_events *)
unixsock_events(x, k) ==
  LET p == x.sk[k].peer
      in == IF x.sk[k].data # <<>> THEN {"IN"} ELSE {}
  IN  IF x.sk[k].cap # 0 THEN IF x.sk[k].cq # <<>> THEN {"IN"} ELSE {}
      ELSE IF p = 0 THEN in \cup {"OUT"} \cup IF unixsock_is_conn_oriented THEN {"HUP"} ELSE {}
      ELSE IF ~x.sk[p].live THEN in \cup IF unixsock_is_conn_oriented THEN {"IN", "OUT", "HUP"} ELSE {"OUT"}
      ELSE IF Full(x, p) THEN in ELSE in \cup {"OUT"}

--------------------------------------------------------------------------
(* Actions                                                                 *)

Running == s.panic = {}
Held(k) == \E t \in Threads : s.th[t].k = k /\ s.th[t].op # ""        \* the descriptor is in use
LockHeld(k) == \E t \in Threads : s.th[t].pc = "enqueue" /\ s.th[t].k = k

(* the syscall, up to blockq_check: it finds the socket that it is about   *)
Begin(x, t, o, to) == [x EXCEPT !.th[t] = [Idle EXCEPT !.op = o.op, !.k = o.k, !.n = o.n, !.v = o.v, !.to = to, !.pc = "go"]]
lookup_socket(x, t, o) ==
  IF ~x.sk[o.to].path THEN Return(x, t, "ECONNREFUSED") ELSE Reserve(Begin(x, t, o, o.to), o.to)
unixsock_write(x, t, o) ==
  LET d == x.sk[o.k].peer IN IF d = 0 THEN Return(x, t, "ENOTCONN") ELSE Reserve(Begin(x, t, o, d), d)
unixsock_accept4(x, t, o) ==
  IF ~unixsock_is_conn_oriented \/ x.sk[o.k].cap = 0 THEN Return(x, t, "EINVAL") ELSE Begin(x, t, o, 0)

Call(t) ==
  /\ s.th[t].pc = "idle" /\ left.calls > 0
  /\ \E o \in left.ops :
       /\ s.sk[o.k].st = "fd" /\ ~LockHeld(o.k)
       /\ s' = CASE o.op \in {"connect", "sendto"} -> lookup_socket(s, t, o)
                 [] o.op \in {"write", "writev"} -> unixsock_write(s, t, o)
                 [] o.op = "accept" -> unixsock_accept4(s, t, o)
                 [] o.op = "listen" -> unixsock_listen(s, o.k, o.n)
                 [] o.op = "read" -> Begin(s, t, o, 0)
  /\ left' = [left EXCEPT !.calls = @ - 1]

(* blockq_check, and unixsock_connect of a datagram socket *)
Queue(th) == IF th.op \in {"read", "accept"} THEN <<"rx", th.k>> ELSE <<"tx", th.to>>
Check(t) ==
  /\ s.th[t].pc = "go"
  /\ \/ /\ s.th[t].op # "connect" \/ unixsock_is_conn_oriented
        /\ s' = ClearWake(s, t, Queue(s.th[t])) /\ UNCHANGED left
     \/ /\ s.th[t].op = "connect" /\ ~unixsock_is_conn_oriented
        /\ \/ s' = connect_dgram(s, t, FALSE) /\ UNCHANGED left
           \/ left.mem > 0 /\ s' = connect_dgram(s, t, TRUE) /\ left' = [left EXCEPT !.mem = @ - 1]

Run(t) ==
  /\ s.th[t].pc = "run" /\ ~LockHeld(s.th[t].k)
  /\ \/ s.th[t].op = "read" /\ s' = unixsock_read_bh(s, t) /\ UNCHANGED left
     \/ /\ s.th[t].op \in {"write", "writev", "sendto"} /\ ~LockHeld(s.th[t].to)
        /\ \/ s' = unixsock_write_bh(s, t, 0) /\ UNCHANGED left
           \/ /\ left.mem > 0 /\ \E i \in {1, 2} : s' = unixsock_write_bh(s, t, i)
              /\ left' = [left EXCEPT !.mem = @ - 1]
     \/ s.th[t].op = "connect" /\ s' = connect_bh(s, t) /\ UNCHANGED left
     \/ /\ s.th[t].op = "accept"
        /\ \/ s' = accept_bh(s, t, "") /\ UNCHANGED left
           \/ /\ left.mem > 0 /\ \E f \in {"nofd", "fault"} : s' = accept_bh(s, t, f)
              /\ left' = [left EXCEPT !.mem = @ - 1]

Enqueue(t) ==
  /\ s.th[t].pc = "enqueue"
  /\ \/ /\ \E c \in Socks : /\ s.sk[c].st = "none" /\ \A d \in Socks : s.sk[d].st = "none" => c <= d
                            /\ s' = connect_enqueue(s, t, c)
        /\ UNCHANGED left
     \/ left.mem > 0 /\ s' = Fail(s, t, "ENOMEM") /\ left' = [left EXCEPT !.mem = @ - 1]

Join(t) == s.th[t].pc \in {"join", "rejoin"} /\ s' = JoinQueue(s, t) /\ UNCHANGED left

(* a signal *)
Interrupt(t) ==
  /\ s.th[t].pc = "queued" /\ left.sig > 0
  /\ s' = Leave(s, t, "null") /\ left' = [left EXCEPT !.sig = @ - 1]

(* the last reference to the descriptor is dropped *)
Close(k) ==
  /\ s.sk[k].st = "fd" /\ k \in left.close /\ ~Held(k)
  /\ s' = unixsock_close(s, k) /\ left' = [left EXCEPT !.close = @ \ {k}]

(* the first left.socks sockets exist (a socketpair if left.pair), and the *)
(* first is bound unless they are a pair                                   *)
UnixSocketInit ==
  /\ left \in Uses
  /\ s = [sk |-> [k \in Socks |->
                    IF k > left.socks THEN [NewSock EXCEPT !.st = "none", !.live = FALSE, !.refs = 0]
                    ELSE IF left.pair THEN [NewSock EXCEPT !.peer = 3 - k, !.refs = 2]
                    ELSE [NewSock EXCEPT !.path = k = 1]],
          bq |-> [q \in {"rx", "tx"} \X Socks |-> <<>>], wake |-> [q \in {"rx", "tx"} \X Socks |-> FALSE],
          th |-> [t \in Threads |-> Idle], eof |-> [k \in Socks |-> FALSE],
          slip |-> {}, panic |-> {}]

UnixSocketNext ==
  /\ Running
  /\ \/ \E t \in Threads : Call(t) \/ Check(t) \/ Run(t) \/ Enqueue(t) \/ Join(t) \/ Interrupt(t)
     \/ \E k \in Socks : Close(k)

UnixSocketSpec == UnixSocketInit /\ [][UnixSocketNext]_usVars

--------------------------------------------------------------------------
(* Properties                                                             *)

Ready(x, t) ==
  LET th == x.th[t]
  IN  CASE th.op = "read" -> x.sk[th.k].data # <<>> \/ (unixsock_is_conn_oriented /\ ~Connected(x, th.k))
        [] th.op = "accept" -> x.sk[th.k].cq # <<>>
        [] th.op = "connect" -> x.sk[th.to].cap = 0 \/ Len(x.sk[th.to].cq) < x.sk[th.to].cap
        [] OTHER -> ~x.sk[th.to].live \/ ~Full(x, th.to)

(* Nobody sleeps on a socket that is ready for them, unless another thread  *)
(* is on the way to take what there is, or the wakeup was lost: the flush   *)
(* of a close before the thread had joined the queue, a flag cleared or not *)
(* looked at, one wakeup for what several could share, a wakeup spent on a  *)
(* call that failed, or an accept that failed after it took a connection    *)
NobodyStranded ==
  \A t \in Threads :
    s.th[t].pc = "queued" /\ Ready(s, t) =>
      \/ Lost(s) \/ s.slip \cap {"spent", "nofd", "fault"} # {}
      \/ \E u \in Threads \ {t} : s.th[u].pc \in {"run", "join", "enqueue"} /\ s.th[u].q = s.th[t].q

(* A socket's count is that of the bytes in its queue, which are those put  *)
(* and not taken, and stays within its limit; but for a writev longer than  *)
(* a message, or with nothing in it                                         *)
CountIsExact ==
  "past" \in s.slip \/
  \A k \in Socks :
    /\ s.sk[k].rx = Sum(s.sk[k].data) /\ s.sk[k].in = s.sk[k].out + s.sk[k].rx
    /\ s.sk[k].rx < so_rcvbuf + IF Stream THEN 1 ELSE UNIXSOCK_BUF_MAX_SIZE

(* The end of a connection is told after all that was sent on it was read   *)
EndIsTheEnd == \A k \in Socks : s.eof[k] => s.sk[k].data = <<>>

(* The references to a socket are its descriptor or its place in a queue,   *)
(* its peers, and the calls that are about it: none is dropped too early,   *)
(* and none is kept but for those to a listener that was connected to and   *)
(* to a closed peer that was replaced                                       *)
Holders(k) ==
  (IF s.sk[k].st \in {"fd", "queue"} THEN 1 ELSE 0)
  + Cardinality({j \in Socks : s.sk[j].peer = k}) + Cardinality({t \in Threads : s.th[t].to = k})
ReferencesAreHeld ==
  \A k \in Socks :
    /\ s.sk[k].refs >= Holders(k)
    /\ s.sk[k].refs > Holders(k) => IF k <= left.socks THEN s.slip \cap {"listener"} # {} ELSE s.slip \cap {"repeer"} # {}

(* Connections in a queue are open at their other end's side, in one queue, *)
(* and a socket is notified by its peer while that is open                  *)
PeersAgree ==
  \A k \in Socks :
    /\ s.sk[k].st = "queue" <=> \E l \in Socks : \E i \in DOMAIN s.sk[l].cq : s.sk[l].cq[i] = k
    /\ Len(s.sk[k].cq) <= s.sk[k].cap
    /\ s.sk[k].nh # 0 => s.sk[k].peer = s.sk[k].nh /\ s.sk[s.sk[k].nh].live
    /\ unixsock_is_conn_oriented /\ Connected(s, k) /\ s.sk[k].live => s.sk[s.sk[k].peer].peer = k

(* What poll says of an open socket is what calls that do not wait would do;*)
(* but a socket that was never connected is at its end without being said   *)
(* to be readable                                                           *)
PollAgrees ==
  \A k \in Socks : s.sk[k].st = "fd" =>
    LET ev == unixsock_events(s, k)
        p == s.sk[k].peer
    IN  IF s.sk[k].cap # 0 THEN "IN" \in ev <=> s.sk[k].cq # <<>>
        ELSE /\ p # 0 => ("IN" \in ev <=> s.sk[k].data # <<>> \/ (unixsock_is_conn_oriented /\ ~Connected(s, k)))
             /\ "OUT" \in ev <=> p = 0 \/ ~s.sk[p].live \/ ~Full(s, p)

UnixSocketsAreSound ==
  NobodyStranded /\ CountIsExact /\ EndIsTheEnd /\ ReferencesAreHeld /\ PeersAgree /\ PollAgrees

=============================================================================
