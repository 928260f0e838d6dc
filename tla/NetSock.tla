------------------------------- MODULE NetSock -------------------------------
(***************************************************************************)
(* Internet sockets (net/netsyscall.c): one TCP or UDP socket, the threads *)
(* that call it, and the callbacks of lwIP, which is external.  A behaviour*)
(* is about a socket that connects ("client"), is connected ("stream"),    *)
(* listens ("listen") or carries datagrams ("udp").  What is done under    *)
(* the lock of the socket or of the protocol control block (pcb) is one    *)
(* action; what happens between two such sections is interleaved.  Of      *)
(* blockq.c, the queueing after the check, the wake flag and the flush are *)
(* in SockWait; its races with timers are in BlockQueue.                   *)
(***************************************************************************)
EXTENDS SockWait

CONSTANTS
  TCP_SND_BUF,      \* lwIP's send budget; also the default of the socket's
  SOCK_QUEUE_LEN,   \* capacity of the socket's queue
  Uses              \* what a behaviour may do

VARIABLES s, left

nsVars == <<s, left>>

Idle == [op |-> "none", pc |-> "idle", len |-> 0, fl |-> {}, tmo |-> FALSE, bl |-> FALSE, why |-> "",
         n |-> 0, idx |-> 0, rv |-> 0, q |-> "rx"]
Tcp == left.kind # "udp"

--------------------------------------------------------------------------
(* Waiting; the rest is in SockWait                                        *)

WakeupExcept(x) == blockq_flush(blockq_flush(x, "rx"), "tx")
(* the call is complete, with a count or an error *)
Done(x, t, n) ==
  [x EXCEPT !.th[t] = IF @.op = "recvmmsg" THEN [@ EXCEPT !.pc = "done", !.rv = n] ELSE Idle]
Fail(x, t, er) == Done(x, t, -1)
Nonblock(x, t) ==
  x.nb \/ "dontwait" \in x.th[t].fl \/ x.th[t].why = "time"

--------------------------------------------------------------------------
(* lwIP's view of the socket                                              *)

netsock_snd_available(x) == IF x.sndbuf > x.queued THEN x.sndbuf - x.queued ELSE 0

(* netsock_events_locked *)
netsock_events(x) ==
  LET in == IF x.q # <<>> THEN {"IN"} ELSE {}
  IN  CASE ~Tcp -> in \cup {"OUT"}
        [] Tcp /\ x.st = "LISTENING" -> in
        [] Tcp /\ x.st = "OPEN" ->
             in \cup IF x.pst = "ESTABLISHED" THEN IF netsock_snd_available(x) > 0 THEN {"OUT"} ELSE {}
                     ELSE {"IN", "OUT"}
        [] Tcp /\ x.st = "UNDEFINED" -> {"IN", "OUT"}
        [] Tcp /\ x.st = "CREATED" -> {"HUP", "OUT"}
        [] OTHER -> {}

(* for mutation: a pbuf larger than the budget is refused for ever *)
tcp_input_lowerStrict(x, n) ==
  IF ~x.arg \/ n = 0 THEN x
  ELSE IF x.rx + n > x.rcvbuf \/ Len(x.q) = SOCK_QUEUE_LEN THEN [x EXCEPT !.refused = n]
  ELSE blockq_wake_one([x EXCEPT !.q = Append(@, n), !.rx = @ + n, !.in = @ + n], "rx")

(* tcp_input_lower: n bytes, or the end of the stream (n = 0) *)
tcp_input_lower(x, n) ==
  IF ~x.arg THEN x
  ELSE IF n = 0 THEN blockq_wake_one(Slip(x, Len(x.bq["rx"]) + Cardinality(Joining(x, "rx", {"join", "rejoin"})) > 1, "fin"), "rx")
  ELSE IF (x.rx > 0 /\ x.rx + n > x.rcvbuf) \/ Len(x.q) = SOCK_QUEUE_LEN THEN [x EXCEPT !.refused = n]
  ELSE blockq_wake_one([x EXCEPT !.q = Append(@, n), !.rx = @ + n, !.in = @ + n], "rx")

(* udp_input_lower: a datagram that does not fit is dropped *)
udp_input_lower(x, n) ==
  IF x.rx + n > x.rcvbuf \/ Len(x.q) = SOCK_QUEUE_LEN THEN x
  ELSE blockq_wake_one([x EXCEPT !.q = Append(@, n), !.rx = @ + n, !.in = @ + n], "rx")

(* lwip_tcp_conn_err *)
lwip_tcp_conn_err(x, err) ==
  IF ~x.arg THEN x
  ELSE WakeupExcept([Slip(x, \E t \in Threads : x.th[t].op = "connect" /\ x.th[t].pc = "run", "raced")
                       EXCEPT !.st = "UNDEFINED", !.err = err])

lwip_tcp_sent(x) == IF ~x.arg THEN x ELSE blockq_wake_one(x, "tx")

(* connect_tcp_complete *)
connect_tcp_complete(x) ==
  IF ~x.arg THEN x
  ELSE IF x.st = "ABORTING" THEN [x EXCEPT !.st = "CREATED"]
  ELSE IF x.st # "IN_CONNECTION" THEN [x EXCEPT !.panic = @ \cup {"complete"}]
  ELSE blockq_wake_one([x EXCEPT !.st = "OPEN", !.err = "OK"], "tx")

--------------------------------------------------------------------------
(* Reading (sock_read_bh_internal)                                        *)

(* bytes of the first pbufs of q that n bytes of buffer take *)
RECURSIVE Consume(_, _)
Consume(q, n) ==
  IF q = <<>> \/ n = 0 THEN q
  ELSE IF q[1] > n THEN [q EXCEPT ![1] = @ - n]
  ELSE Consume(Tail(q), n - q[1])

(* why a reader returns at once, or "": the first reason that applies *)
ReadEnd(x, t) ==
  IF (Tcp /\ x.st # "OPEN") \/ (~Tcp /\ x.st = "SHUTDOWN") THEN "0"
  ELSE IF x.err # "OK" THEN x.err
  ELSE IF x.th[t].why = "null" THEN "ERESTARTSYS"
  ELSE IF x.q # <<>> THEN ""
  ELSE IF Tcp /\ (~x.lw \/ x.pst # "ESTABLISHED") THEN "0"
  ELSE IF Nonblock(x, t) THEN "EAGAIN" ELSE ""

ReadData(x, t) ==
  LET th == x.th[t]
      n == IF Tcp THEN Least(Sum(x.q), th.len) ELSE Least(x.q[1], th.len)
      gone == IF Tcp THEN n ELSE x.q[1]
  IN  IF "peek" \in th.fl THEN Done(x, t, n)
      ELSE LET y == [x EXCEPT !.q = IF Tcp THEN Consume(@, n) ELSE Tail(@), !.rx = @ - gone, !.read = @ + gone]
           IN  IF Tcp THEN [Slip(y, y.q # <<>> /\ Waiting(x, t, "rx"), "leftover") EXCEPT !.refs = @ + 1, !.th[t] = [@ EXCEPT !.pc = "credit", !.n = n]]
               ELSE Done(y, t, IF "trunc" \in th.fl THEN gone ELSE n)

sock_read_bh(x, t) ==
  LET end == ReadEnd(x, t)
  IN  IF end = "0" THEN Done(Slip(x, x.st = "OPEN" /\ ~x.fin, IF x.pst = "FIN_WAIT" THEN "half" ELSE "early"), t, 0)
      ELSE IF end # "" THEN Fail(x, t, end)
      ELSE IF x.q = <<>> THEN Block(x, t)
      ELSE ReadData(x, t)

(* tcp_recved, and the pbuf that was refused; then the reference is dropped *)
Retry(x) == IF x.refused = 0 THEN x ELSE tcp_input_lower([x EXCEPT !.refused = 0], x.refused)
Credit(x, t) ==
  LET n == x.th[t].n
  IN  Done(Retry([x EXCEPT !.credit = @ + n, !.refs = @ - 1, !.th[t].n = 0]), t, n)

--------------------------------------------------------------------------
(* Writing (socket_write_tcp_bh, socket_write_udp)                        *)

WriteCheck(x, t) ==
  IF x.err # "OK" THEN Fail(x, t, x.err)
  ELSE IF x.st # "OPEN" THEN Fail(x, t, "ENOTCONN")
  ELSE IF x.th[t].why = "null" THEN Fail(x, t, "ERESTARTSYS")
  ELSE [x EXCEPT !.refs = @ + 1, !.th[t].pc = "write"]

(* under the pcb's lock; mem: tcp_write has no memory *)
socket_write_tcp_bh(x, t, mem) ==
  LET avail == netsock_snd_available(x)
      n == Least(avail, x.th[t].len)
      y == [x EXCEPT !.refs = @ - 1]
  IN  IF avail > 0 /\ x.pst \notin {"ESTABLISHED", "CLOSE_WAIT"} THEN Fail(y, t, "ENOTCONN")
      ELSE IF avail = 0 \/ mem THEN
        IF Nonblock(x, t) THEN Fail(y, t, "EAGAIN") ELSE Block(Slip(y, avail > 0, "memory"), t)
      ELSE Done([Slip(y, n < avail /\ Waiting(x, t, "tx"), "leftover") EXCEPT !.queued = @ + n], t, n)

socket_write_udp(x, t) ==
  IF ~x.conn THEN Fail(x, t, "EDESTADDRREQ")
  ELSE IF x.th[t].len > x.sndbuf THEN Fail(x, t, "EMSGSIZE")
  ELSE Done(x, t, x.th[t].len)

--------------------------------------------------------------------------
(* Connecting                                                             *)

(* connect_tcp_bh *)
connect_tcp_bh(x, t) ==
  LET null == x.th[t].why = "null"
      abort == [x EXCEPT !.st = "ABORTING"]
      close == [x EXCEPT !.arg = FALSE, !.lw = FALSE, !.st = "CREATED", !.pst = "CLOSED",
                         !.slip = @ \cup {"aborted"}]
  IN  IF null THEN
        IF x.err # "OK" THEN Fail(x, t, x.err)
        ELSE IF x.st = "OPEN" THEN Done(close, t, 0)
        ELSE IF x.st # "IN_CONNECTION" THEN [x EXCEPT !.panic = @ \cup {"connect"}]
        ELSE Fail(abort, t, "ERESTARTSYS")
      ELSE IF x.st = "IN_CONNECTION" THEN
        IF Nonblock(x, t) THEN Fail(x, t, "EINPROGRESS") ELSE Block(x, t)
      ELSE IF x.st # "OPEN" THEN [x EXCEPT !.panic = @ \cup {"connect"}]
      ELSE IF x.err = "OK" THEN Done(x, t, 0) ELSE Fail(x, t, x.err)

(* connect_tcp, with the first try of connect_tcp_bh under the same lock.  *)
(* bad: tcp_connect fails, e.g. for want of a route                        *)
connect_tcp(x, t, bad) ==
  CASE x.st \in {"IN_CONNECTION", "ABORTING"} -> Fail(x, t, "EALREADY")
    [] x.st = "OPEN" -> Fail(x, t, "EISCONN")
    [] x.st \in {"UNDEFINED", "LISTENING"} -> Fail(x, t, "EINVAL")
    [] x.st = "CREATED" /\ ~x.lw -> [x EXCEPT !.panic = @ \cup {"null pcb"}]
    [] OTHER ->
         LET y == [x EXCEPT !.arg = TRUE, !.st = "IN_CONNECTION", !.err = "OK"]
         IN  IF bad THEN Fail(Slip(y, TRUE, "unroutable"), t, "EHOSTUNREACH")
             ELSE IF x.pst # "CLOSED" THEN Fail(Slip(y, TRUE, "reused"), t, "EISCONN")
             ELSE connect_tcp_bh(ClearWake([y EXCEPT !.pst = "SYN_SENT"], t, "tx"), t)

--------------------------------------------------------------------------
(* Listening.  A connection c is 1 .. left.conns; its socket is in x.kid[c].*)
(* The pcb of a connection that is "pend" takes a place in the backlog.    *)

netsock_listen(x, t, backlog) ==
  IF x.st = "LISTENING" THEN Done([x EXCEPT !.backlog = backlog], t, 0)
  ELSE IF x.st # "CREATED" THEN Fail(x, t, "EINVAL")
  ELSE Done([x EXCEPT !.st = "LISTENING", !.err = "OK", !.arg = TRUE, !.backlog = backlog, !.pst = "LISTEN"], t, 0)

Pending(x) == Cardinality({c \in DOMAIN x.kid : x.kid[c].pend})

accept_tcp_from_lwip(x, c) ==
  IF ~x.arg THEN x
  ELSE LET y == [x EXCEPT !.err = "OK", !.kid[c] = [st |-> "OPEN", at |-> "queue", lw |-> TRUE, pend |-> TRUE]]
       IN  IF Len(x.q) = SOCK_QUEUE_LEN
           THEN [y EXCEPT !.kid[c] = [@ EXCEPT !.at = "lost", !.pend = FALSE, !.st = "UNDEFINED"],
                          !.slip = @ \cup {"overrun"}]
           ELSE blockq_wake_one([y EXCEPT !.q = Append(@, c)], "rx")
(* lwIP had no memory for a connection *)
accept_no_memory(x) == IF ~x.arg THEN x ELSE WakeupExcept([x EXCEPT !.err = "ENOMEM"])

(* accept_bh; bad: the address cannot be stored or no descriptor is free *)
accept_bh(x, t, bad) ==
  IF x.err # "OK" THEN Fail(x, t, x.err)
  ELSE IF x.th[t].why = "null" THEN Fail(x, t, "ERESTARTSYS")
  ELSE IF x.q = <<>> THEN IF Nonblock(x, t) THEN Fail(x, t, "EAGAIN") ELSE Block(x, t)
  ELSE LET c == x.q[1]
       IN  IF bad THEN Fail([x EXCEPT !.q = Tail(@),
                                      !.kid[c] = [@ EXCEPT !.at = "closed", !.pend = FALSE, !.lw = FALSE]], t, "ENFILE")
           ELSE Done([x EXCEPT !.q = Tail(@), !.kid[c] = [@ EXCEPT !.at = "fd", !.pend = FALSE]], t, c)

--------------------------------------------------------------------------
(* Shutdown, options and close                                            *)

(* netsock_tcp_close *)
netsock_tcp_close(x) ==
  IF x.st = "UNDEFINED" THEN x ELSE [x EXCEPT !.arg = FALSE, !.st = "UNDEFINED", !.pst = "CLOSED", !.refused = 0]

ShutPcb(x, rd, wr) ==
  LET rx == rd \/ x.rxc
      tx == wr \/ x.pst \notin {"ESTABLISHED", "CLOSE_WAIT"}
  IN  IF rx /\ tx THEN netsock_tcp_close(x)
      ELSE [x EXCEPT !.rxc = @ \/ rx,
                     !.pst = IF ~tx THEN @ ELSE IF @ = "ESTABLISHED" THEN "FIN_WAIT"
                             ELSE IF @ = "CLOSE_WAIT" THEN "LAST_ACK" ELSE @]
FlushShut(x, rd, wr) ==
  LET y == IF rd THEN blockq_flush(x, "rx") ELSE x IN IF wr THEN blockq_flush(y, "tx") ELSE y
netsock_shutdown(x, t, rd, wr) ==
  IF ~Tcp THEN Fail(FlushShut(IF rd THEN [x EXCEPT !.st = "SHUTDOWN"] ELSE x, rd, wr), t, "ENOTCONN")
  ELSE IF x.st # "OPEN" THEN Fail(FlushShut(x, rd, wr), t, "ENOTCONN")
  ELSE Done(FlushShut(ShutPcb(x, rd, wr), rd \/ x.rxc, wr \/ x.pst \notin {"ESTABLISHED", "CLOSE_WAIT"}), t, 0)

(* SO_SNDBUF and SO_RCVBUF: doubled, within limits *)
SockBuf(v, most) == Most(1, Least(2 * v, most))
netsock_setsockopt(x, t, opt, v) ==
  CASE opt = "SO_SNDBUF" -> Done(blockq_wake_one([x EXCEPT !.sndbuf = SockBuf(v, TCP_SND_BUF)], "tx"), t, 0)
    [] opt = "SO_RCVBUF" -> Done([x EXCEPT !.rcvbuf = SockBuf(v, 2 * TCP_SND_BUF)], t, 0)

(* SO_ERROR reads and clears the error *)
netsock_getsockopt(x, t) ==
  Done([Slip(x, \E u \in Threads : x.th[u].op = "connect" /\ x.th[u].pc # "idle" /\ x.err # "OK", "erased")
          EXCEPT !.err = "OK"], t, 0)

(* socket_close, once nobody uses the descriptor: a pcb is closed and       *)
(* released; the queue is emptied.  The state of a listening socket is      *)
(* UNDEFINED by then, and its connections are taken for buffers             *)
socket_close(x) ==
  LET y == IF Tcp /\ x.lw THEN [netsock_tcp_close(x) EXCEPT !.refs = @ - 1, !.lw = FALSE] ELSE [x EXCEPT !.arg = FALSE]
      kids == IF left.kind = "listen" THEN {x.q[i] : i \in DOMAIN x.q} ELSE {}
      fate == IF y.st = "LISTENING" THEN "closed" ELSE "lost"
  IN  [y EXCEPT !.q = <<>>, !.rx = 0, !.freed = TRUE,
         !.slip = IF kids # {} /\ fate = "lost" THEN @ \cup {"confused"} ELSE @,
         !.kid = [c \in DOMAIN @ |-> IF c \in kids THEN [@[c] EXCEPT !.at = fate] ELSE @[c]]]

--------------------------------------------------------------------------
(* The threads                                                            *)

Running == ~s.freed /\ s.panic = {}

(* One section of the call of thread t; hit: the failure it may meet *)
Step(x, t, hit) ==
  LET th == x.th[t]
  IN  CASE th.op \in {"read", "recvmmsg"} -> sock_read_bh(x, t)
        [] th.op = "write" -> IF Tcp THEN WriteCheck(x, t) ELSE socket_write_udp(x, t)
        [] th.op = "connect" -> connect_tcp_bh(x, t)
        [] th.op = "accept" -> accept_bh(x, t, hit)

(* What a call checks before it takes a lock *)
Entry(x, t) ==
  LET th == x.th[t]
  IN  CASE th.op \in {"read", "recvmmsg"} ->
             IF Tcp /\ x.st # "OPEN" THEN IF x.st = "UNDEFINED" THEN Done(x, t, 0) ELSE Fail(x, t, "ENOTCONN")
             ELSE ClearWake(x, t, "rx")
        [] th.op = "write" ->
             IF ~Tcp THEN [x EXCEPT !.th[t].pc = "run"]
             ELSE IF x.st # "OPEN" THEN Fail(x, t, "EPIPE")
             ELSE ClearWake(x, t, "tx")
        [] th.op = "accept" ->
             IF x.st # "LISTENING" THEN Fail(x, t, "EINVAL") ELSE ClearWake(x, t, "rx")
        [] th.op = "listen" -> netsock_listen(x, t, th.len)
        [] th.op = "shutdown" -> netsock_shutdown(x, t, "rd" \in th.fl, "wr" \in th.fl)
        [] th.op = "error" -> netsock_getsockopt(x, t)
        [] th.op = "connect" -> Done([x EXCEPT !.conn = TRUE], t, 0)
        [] OTHER -> netsock_setsockopt(x, t, th.op, th.len)

Call(t) ==
  \E c \in left.ops :
    /\ s.open /\ s.th[t].pc = "idle" /\ left.calls > 0
    /\ \E bad \in IF c.op = "connect" /\ left.mem > 0 THEN BOOLEAN ELSE {FALSE} :
         LET x == [s EXCEPT !.th[t] = c @@ [Idle EXCEPT !.pc = "enter"]]
         IN  /\ s' = IF c.op = "connect" /\ Tcp THEN connect_tcp(x, t, bad) ELSE Entry(x, t)
             /\ left' = [left EXCEPT !.calls = @ - 1, !.mem = IF bad THEN @ - 1 ELSE @]

Run(t) ==
  /\ s.th[t].pc = "run"
  /\ \E hit \in IF s.th[t].op = "accept" /\ left.mem > 0 /\ s.q # <<>> THEN BOOLEAN ELSE {FALSE} :
       /\ s' = Step(s, t, hit)
       /\ left' = [left EXCEPT !.mem = IF hit THEN @ - 1 ELSE @]
WritePcb(t) ==
  /\ s.th[t].pc = "write"
  /\ \E mem \in IF left.mem > 0 THEN BOOLEAN ELSE {FALSE} :
       /\ s' = socket_write_tcp_bh(s, t, mem)
       /\ left' = [left EXCEPT !.mem = IF mem THEN @ - 1 ELSE @]
ReadPcb(t) == s.th[t].pc = "credit" /\ s' = Credit(s, t) /\ UNCHANGED left

Join(t) == s.th[t].pc \in {"join", "rejoin"} /\ s' = JoinQueue(s, t) /\ UNCHANGED left
Timeout(t) ==
  /\ s.th[t].pc = "queued" /\ s.th[t].tmo
  /\ s' = Leave(s, t, "time") /\ UNCHANGED left
Interrupt(t) ==
  /\ s.th[t].pc = "queued" /\ left.sig > 0
  /\ s' = Leave(s, t, "null") /\ left' = [left EXCEPT !.sig = @ - 1]

(* recvmmsg_complete: on with the next of two messages, which with         *)
(* MSG_WAITFORONE does not wait; the count is returned, or the first error  *)
recvmmsg_complete(t) ==
  LET th == s.th[t]
      idx == th.idx + IF th.rv >= 0 THEN 1 ELSE 0
  IN  /\ th.pc = "done"
      /\ s' = IF th.rv >= 0 /\ idx < 2
              THEN Entry([s EXCEPT !.th[t] = [@ EXCEPT !.idx = idx, !.bl = FALSE, !.why = "",
                            !.fl = IF "waitforone" \in @ THEN {"dontwait"} ELSE @]], t)
              ELSE [s EXCEPT !.th[t] = Idle]
      /\ UNCHANGED left

Close ==
  /\ left.close /\ s.open
  /\ s' = [s EXCEPT !.open = FALSE] /\ UNCHANGED left
Release ==
  /\ ~s.open /\ \A t \in Threads : s.th[t].pc = "idle"
  /\ s' = socket_close(s) /\ UNCHANGED left

--------------------------------------------------------------------------
(* lwIP                                                                   *)

LwipReceive ==
  \/ \E n \in left.sizes :
       /\ left.data > 0 /\ s.refused = 0
       /\ Tcp => s.pst \in {"ESTABLISHED", "FIN_WAIT"}
       /\ s' = IF ~Tcp THEN udp_input_lower(s, n)
               ELSE IF s.rxc THEN lwip_tcp_conn_err([s EXCEPT !.pst = "CLOSED", !.refused = 0], "ECONNABORTED")
               ELSE tcp_input_lower(s, n)
       /\ left' = [left EXCEPT !.data = @ - 1]
  \/ /\ s.refused # 0 /\ s.arg /\ s' = Retry(s) /\ s' # s /\ UNCHANGED left
LwipFin ==
  /\ left.fin > 0 /\ Tcp /\ s.refused = 0 /\ s.pst \in {"ESTABLISHED", "FIN_WAIT"}
  /\ s' = tcp_input_lower([s EXCEPT !.pst = IF @ = "ESTABLISHED" THEN "CLOSE_WAIT" ELSE "TIME_WAIT", !.fin = TRUE], 0)
  /\ left' = [left EXCEPT !.fin = @ - 1]
LwipReset ==
  /\ left.rst > 0 /\ s.pst \in {"SYN_SENT", "ESTABLISHED", "FIN_WAIT", "CLOSE_WAIT", "LAST_ACK"}
  /\ s' = lwip_tcp_conn_err([s EXCEPT !.pst = "CLOSED", !.refused = 0], "ECONNRESET")
  /\ left' = [left EXCEPT !.rst = @ - 1]
LwipAck ==
  /\ s.queued > 0 /\ s.pst \in {"ESTABLISHED", "CLOSE_WAIT", "FIN_WAIT"} /\ left.acks > 0
  /\ s' = lwip_tcp_sent([s EXCEPT !.queued = @ - 1])
  /\ left' = [left EXCEPT !.acks = @ - 1]
LwipConnected ==
  /\ s.pst = "SYN_SENT"
  /\ s' = connect_tcp_complete([s EXCEPT !.pst = "ESTABLISHED"]) /\ UNCHANGED left
LwipAccept ==
  /\ s.pst = "LISTEN" /\ left.conns > 0 /\ Pending(s) < s.backlog
  /\ \E mem \in IF left.mem > 0 THEN BOOLEAN ELSE {FALSE} :
       /\ s' = IF mem THEN accept_no_memory(s) ELSE accept_tcp_from_lwip(s, left.conns)
       /\ left' = [left EXCEPT !.conns = @ - 1, !.mem = IF mem THEN @ - 1 ELSE @]
LwipResetKid(c) ==
  /\ left.rst > 0 /\ s.kid[c].lw /\ s.kid[c].st = "OPEN"
  /\ s' = [s EXCEPT !.kid[c] = [@ EXCEPT !.st = "UNDEFINED", !.pend = FALSE]]
  /\ left' = [left EXCEPT !.rst = @ - 1]

--------------------------------------------------------------------------
(* allocate_sock, and for "stream" a connection that has been made *)
NetSockInit ==
  /\ left \in Uses
  /\ s = [st |-> IF left.kind = "stream" THEN "OPEN" ELSE "CREATED", lw |-> left.kind # "udp", err |-> "OK",
          q |-> <<>>, rx |-> 0, rcvbuf |-> left.rcvbuf, sndbuf |-> TCP_SND_BUF, nb |-> left.nb,
          conn |-> FALSE,
          pst |-> IF left.kind = "stream" THEN "ESTABLISHED" ELSE "CLOSED", arg |-> left.kind = "stream",
          refs |-> IF left.kind = "udp" THEN 0 ELSE 1, queued |-> 0, rxc |-> FALSE, refused |-> 0, fin |-> FALSE,
          backlog |-> 0, kid |-> [c \in 1 .. left.conns |-> [st |-> "none", at |-> "none", lw |-> FALSE, pend |-> FALSE]],
          bq |-> [q \in {"rx", "tx"} |-> <<>>], wake |-> [q \in {"rx", "tx"} |-> FALSE],
          th |-> [t \in Threads |-> Idle], open |-> TRUE, freed |-> FALSE,
          in |-> 0, read |-> 0, credit |-> 0, slip |-> {}, panic |-> {}]

NetSockNext ==
  /\ Running
  /\ \/ \E t \in Threads : \/ Call(t) \/ Run(t) \/ WritePcb(t) \/ ReadPcb(t) \/ Join(t)
                           \/ Timeout(t) \/ Interrupt(t) \/ recvmmsg_complete(t)
     \/ Close \/ Release \/ LwipReceive \/ LwipFin \/ LwipReset \/ LwipAck \/ LwipConnected \/ LwipAccept
     \/ \E c \in DOMAIN s.kid : LwipResetKid(c)

NetSockSpec == NetSockInit /\ [][NetSockNext]_nsVars

--------------------------------------------------------------------------
(* Properties                                                             *)

(* A call that could go on: what its action would find if it ran now *)
Ready(x, t) ==
  CASE x.th[t].op \in {"read", "recvmmsg"} -> x.q # <<>> \/ x.err # "OK" \/ x.st # (IF Tcp THEN "OPEN" ELSE "CREATED") \/ x.fin
    [] x.th[t].op = "write" -> x.err # "OK" \/ x.st # "OPEN" \/ netsock_snd_available(x) > 0
    [] x.th[t].op = "connect" -> x.st # "IN_CONNECTION"
    [] x.th[t].op = "accept" -> x.q # <<>> \/ x.err # "OK"
    [] OTHER -> TRUE

(* Nobody sleeps on a socket that is ready for them, unless somebody else   *)
(* is on the way to take what there is, or the wakeup was one of those that *)
(* are lost: a flush or a cleared flag before the thread had joined the     *)
(* queue, a wakeup while it rejoined, the one wakeup of a FIN or of an      *)
(* arrival when several wait, and memory that lwIP lacked.                  *)
NobodyStranded ==
  \A t \in Threads :
    s.th[t].pc = "queued" /\ Ready(s, t) =>
      \/ Lost(s) \/ s.slip \cap {"fin", "memory"} # {}
      \/ \E u \in Threads \ {t} : s.th[u].pc \in {"run", "write", "join"} /\ s.th[u].q = s.th[t].q

(* A reader is told of the end of the stream when the peer has closed or    *)
(* the connection is gone, or else when this side has shut down writing     *)
EndIsReal == "early" \notin s.slip

(* What arrived is either queued or was read, and every byte read from a    *)
(* stream is given back to the window; a reference to the pcb is held by    *)
(* the socket and by each thread that works on it, and by nobody in the end *)
(* but for a connect interrupted after it succeeded.                        *)
Conservation ==
  /\ left.kind # "listen" => /\ s.freed \/ (s.rx = Sum(s.q) /\ s.in = s.read + s.rx)
                             /\ Tcp => s.read = s.credit + Sum([t \in 1 .. Cardinality(Threads) |-> s.th[t].n])
  /\ Tcp => s.refs = Cardinality({t \in Threads : s.th[t].pc \in {"write", "credit"}})
                     + IF s.lw \/ "aborted" \in s.slip THEN 1 ELSE 0

(* A pbuf is refused only while data is queued whose reading retries it     *)
(* (the comment in tcp_input_lower)                                         *)
RefusedMeansFull == s.refused # 0 /\ s.arg => s.q # <<>> \/ \E t \in Threads : s.th[t].pc = "credit"

(* What poll says of an open socket is what a call that does not wait would *)
(* do, but for a half-closed one whose send budget is used up               *)
PollAgrees ==
  Tcp /\ s.st = "OPEN" =>
    LET ev == netsock_events(s)
    IN  /\ s.err = "OK" /\ s.lw
        /\ "IN" \in ev <=> s.q # <<>> \/ s.pst # "ESTABLISHED"
        /\ "OUT" \in ev <=> netsock_snd_available(s) > 0 \/ s.pst # "ESTABLISHED"

(* A socket that says it is connecting is, unless lwIP refused to start; and *)
(* the assertions on the state hold, unless the connection is reset while    *)
(* the connecting thread is woken for something else, another thread takes   *)
(* the error, a flush is missed, or an interrupted connect left no pcb       *)
ConnectIsSound ==
  /\ s.st = "IN_CONNECTION" => s.pst = "SYN_SENT" \/ s.slip \cap {"unroutable", "reused"} # {}
  /\ s.panic # {} => s.slip \cap {"raced", "erased", "flush", "aborted"} # {}

(* A connection is in the queue or has been handed out or closed; it is lost *)
(* when the queue overruns or when a listening socket is closed              *)
ConnectionsAreOwned ==
  \A c \in DOMAIN s.kid :
    /\ s.kid[c].at = "queue" <=> c \in {s.q[i] : i \in DOMAIN s.q}
    /\ s.kid[c].at = "lost" => s.slip \cap {"overrun", "confused"} # {}

SocketsAreSound ==
  NobodyStranded /\ EndIsReal /\ Conservation /\ RefusedMeansFull /\ PollAgrees /\ ConnectIsSound /\ ConnectionsAreOwned
=============================================================================
