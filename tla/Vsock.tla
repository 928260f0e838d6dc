------------------------------- MODULE Vsock -------------------------------
(***************************************************************************)
(* Sockets between the guest and its host (unix/vsock.c) and their virtio  *)
(* transport (virtio/virtio_socket.c).  s.sk[k] is a socket, s.cn[c] a     *)
(* connection with its references and its flow control counters (u32, here *)
(* modulo W), s.bnd[p] the socket bound to a port (0: none) with whether   *)
(* the table has the port.  h, hin, hread, hsent and hfwd are the host's   *)
(* side of a connection: the host follows the protocol.  What the device   *)
(* receives is handled in order (rx_seqno) by s.rx, which first finds the  *)
(* connection and then locks it.                                           *)
(***************************************************************************)
EXTENDS SockWait

CONSTANTS
  Socks, Conns, Ports,      \* 1 .. n each
  W,                        \* counters are modulo W
  so_rcvbuf,                \* our receive buffer
  HostBuf,                  \* the host's
  Uses

VARIABLES s, left

vsVars == <<s, left>>

Idle == [op |-> "", k |-> 0, n |-> 0, pc |-> "idle", q |-> <<"", 0>>, bl |-> FALSE, why |-> "", space |-> 0]
Both == {"TX", "RX"}
NoRx == [op |-> "", c |-> 0, n |-> 0, fl |-> {}]

Panic(x, what) == [x EXCEPT !.panic = @ \cup {what}]

--------------------------------------------------------------------------
(* Connections and ports                                                   *)

NewConn(id, k, junk) ==
  [id |-> id, port |-> 0, sock |-> k, bnd |-> FALSE, refs |-> 1, tab |-> FALSE, fwd |-> 0, tx |-> 0, palloc |-> junk, pfwd |-> 0,
   h |-> "none", hin |-> 0, hread |-> 0, hsent |-> 0, hfwd |-> 0, got |-> 0]

Reserve(x, c) == [x EXCEPT !.cn[c].refs = @ + 1]
Release(x, c) == IF x.cn[c].refs = 0 THEN Panic(x, "connection") ELSE [x EXCEPT !.cn[c].refs = @ - 1]

vsock_add_connection(x, c) == [Reserve(x, c) EXCEPT !.cn[c].tab = TRUE]

(* vsock_remove_connection, also of one that has been removed *)
vsock_remove_connection(x, c) ==
  Release([Slip(x, ~x.cn[c].tab, "twice") EXCEPT !.cn[c] = [@ EXCEPT !.tab = FALSE, !.bnd = FALSE],
             !.bnd = IF x.cn[c].bnd THEN [@ EXCEPT ![x.cn[c].port] = [tab |-> FALSE, sk |-> 0]] ELSE @], c)

(* vsock_bind_internal; port 0: any *)
Taken(x, p) == x.bnd[p].tab
vsock_bind_internal(x, k, port) ==
  LET free == {p \in Ports : ~Taken(x, p) /\ (port = 0 \/ p = port)}
      p == CHOOSE p \in free : \A q \in free : p <= q
  IN  IF free = {} THEN x
      ELSE [x EXCEPT !.bnd[p] = [tab |-> TRUE, sk |-> k], !.sk[k] = [@ EXCEPT !.st = "BOUND", !.port = p, !.bound = TRUE]]

virtio_sock_get_buf_space(x, c) == LET d == x.cn[c] IN (d.palloc - ((d.tx - d.pfwd) % W)) % W

--------------------------------------------------------------------------
(* Sending: what the host learns (virtio_sock_tx_hdr, virtio_sock_tx).     *)
(* Every packet carries fwd_cnt.                                           *)

virtio_sock_tx_hdr(x, c, op) ==
  [x EXCEPT !.cn[c] = [@ EXCEPT !.hfwd = x.cn[c].fwd,
     !.h = CASE op = "REQUEST" -> "syn" [] op = "RESPONSE" -> "est" [] op = "RST" -> "dead"
             [] op = "SHUTDOWN" -> IF @ = "est" THEN "fin" ELSE @ [] OTHER -> @]]
virtio_sock_tx(x, c, n) ==
  [virtio_sock_tx_hdr(x, c, "RW") EXCEPT !.cn[c] = [@ EXCEPT !.tx = (@ + n) % W, !.hin = @ + n]]
virtio_sock_recved(x, c, n) ==
  virtio_sock_tx_hdr([x EXCEPT !.cn[c].fwd = (@ + n) % W], c, "CREDIT_UPDATE")

(* virtio_socket_conn_update with what the host's packet says *)
virtio_socket_conn_update(x, c) ==
  LET y == [x EXCEPT !.cn[c] = [@ EXCEPT !.palloc = HostBuf, !.pfwd = x.cn[c].hread % W]]
      k == x.cn[c].sock
      grown == virtio_sock_get_buf_space(y, c) > virtio_sock_get_buf_space(x, c)
  IN  IF grown /\ k # 0
      THEN blockq_wake_one(Slip(y, Waiters(y, 0, <<"tx", k>>) > 1, "leftover"), <<"tx", k>>)
      ELSE y

--------------------------------------------------------------------------
(* Closing                                                                 *)

(* the call returns, or fails *)
Return(x, t, rv) == [x EXCEPT !.th[t] = Idle]
Fail(x, t, e) == Return(x, t, e)

(* a connected socket.  nomem: the packet cannot be sent *)
CloseConnected(x, k, nomem) ==
  LET c == x.sk[k].conn
      both == Both \subseteq x.sk[k].flags
      y == [Slip(x, both /\ x.sk[k].bound, "both")
              EXCEPT !.cn[c] = [@ EXCEPT !.sock = 0, !.bnd = x.sk[k].bound, !.port = IF x.sk[k].bound THEN x.sk[k].port ELSE @]]
      z == IF both THEN y ELSE IF nomem THEN vsock_remove_connection(y, c) ELSE virtio_sock_tx_hdr(y, c, "SHUTDOWN")
  IN  IF x.cn[c].refs = 0 THEN Panic(x, "connection") ELSE Release(z, c)

CloseOne(x, k, nomem) ==
  LET y == IF x.sk[k].bound THEN [x EXCEPT !.bnd[x.sk[k].port].sk = 0] ELSE x
      z == CASE x.sk[k].st = "CONNECTED" -> CloseConnected(y, k, nomem)
             [] x.sk[k].st = "LISTEN" -> [y EXCEPT !.bnd[x.sk[k].port] = [tab |-> FALSE, sk |-> 0]]
             [] x.sk[k].st \in {"BOUND", "CONNECTING"} -> Slip(Slip(y, TRUE, "bound"), x.sk[k].conn # 0, "dangling")
             [] OTHER -> y
  IN  [z EXCEPT !.sk[k].at = "gone"]

(* vsock_close, of a listening socket with the sockets of its queue *)
vsock_close(x, k, nomem) ==
  IF x.sk[k].st = "LISTEN" THEN FoldLeft(LAMBDA y, j : CloseOne(y, j, nomem), CloseOne(x, k, nomem), x.sk[k].inq)
  ELSE CloseOne(x, k, nomem)

--------------------------------------------------------------------------
(* Reading and writing                                                     *)

RECURSIVE Consume(_, _)
Consume(q, n) ==
  IF q = <<>> \/ n = 0 THEN q
  ELSE IF q[1] > n THEN [q EXCEPT ![1] = @ - n]
  ELSE Consume(Tail(q), n - q[1])

(* vsock_read_bh; the credit is given back after the call is complete *)
vsock_read_bh(x, t) ==
  LET k == x.th[t].k
      n == Least(Sum(x.sk[k].inq), x.th[t].n)
      y == [x EXCEPT !.sk[k] = [@ EXCEPT !.inq = Consume(@, n)], !.th[t] = [@ EXCEPT !.pc = "credit", !.n = n]]
  IN  IF x.sk[k].st # "CONNECTED" THEN Fail(x, t, "ENOTCONN")
      ELSE IF x.th[t].why = "null" THEN Fail(x, t, "ERESTARTSYS")
      ELSE IF x.sk[k].inq # <<>> THEN Slip(y, y.sk[k].inq # <<>> /\ Waiting(y, t, <<"rx", k>>), "leftover")
      ELSE IF "RX" \in x.sk[k].flags THEN Return([x EXCEPT !.sk[k].eof = TRUE], t, 0)
      ELSE IF left.nb THEN Fail(x, t, "EAGAIN")
      ELSE Block(x, t)

Credit(x, t) ==
  LET k == x.th[t].k
  IN  IF x.sk[k].at = "gone" THEN Panic(Slip(x, TRUE, "completed"), "socket")
      ELSE IF x.cn[x.sk[k].conn].refs = 0 THEN Panic(x, "connection")
      ELSE Return(virtio_sock_recved(x, x.sk[k].conn, x.th[t].n), t, x.th[t].n)

(* vsock_write_bh: the space is read under the lock of the connection *)
WriteSpace(x, t) ==
  LET c == x.sk[x.th[t].k].conn
  IN  IF c # 0 /\ x.cn[c].refs = 0 THEN Panic(x, "connection")
      ELSE LET n == IF c = 0 THEN 0 ELSE virtio_sock_get_buf_space(x, c)
           IN  [x EXCEPT !.th[t] = [@ EXCEPT !.pc = IF n = 0 THEN "dry" ELSE "write", !.space = n]]
(* and used under that of the socket; nomem: no buffer, or no room in txq  *)
vsock_write_bh(x, t, nomem) ==
  LET k == x.th[t].k
      c == x.sk[k].conn
      n == Least(x.th[t].space, x.th[t].n)
      y == Slip(x, n > virtio_sock_get_buf_space(x, c), "stale")
  IN  IF x.sk[k].st # "CONNECTED" THEN Fail(x, t, "ENOTCONN")
      ELSE IF "TX" \in x.sk[k].flags THEN Fail(x, t, "EPIPE")
      ELSE IF x.th[t].why = "null" THEN Fail(x, t, "ERESTARTSYS")
      ELSE IF x.th[t].space = 0 THEN IF left.nb THEN Fail(x, t, "EAGAIN") ELSE Block(x, t)
      ELSE IF nomem THEN Fail(x, t, "ENOMEM")
      ELSE Return(Slip(virtio_sock_tx(y, c, n), n < x.th[t].space /\ Waiting(x, t, <<"tx", k>>), "leftover"), t, n)

--------------------------------------------------------------------------
(* Connecting, listening and accepting                                     *)

(* vsock_connect to a port of the host, with the first call of             *)
(* vsock_connect_bh; c: a new connection.  nomem: the request is not sent  *)
Start(x, t, k, peer, c, nomem) ==
  LET old == x.sk[k].conn
      d == IF old # 0 THEN old ELSE c
      w == Slip(x, \E u \in Threads \ {t} : x.th[u].op = "connect" /\ x.th[u].k = k, "overlap")
      y == IF old # 0 THEN Slip(w, x.cn[old].id # peer, "reused")
           ELSE [w EXCEPT !.cn[c] = [NewConn(peer, k, left.junk) EXCEPT !.port = x.sk[k].port], !.sk[k].conn = c]
  IN  IF x.cn[d].refs = 0 /\ old # 0 THEN Panic(x, "connection")
      ELSE IF nomem THEN Return(y, t, "ENOMEM")
      ELSE LET z == [vsock_add_connection(virtio_sock_tx_hdr(y, d, "REQUEST"), d) EXCEPT !.sk[k] = [@ EXCEPT !.st = "CONNECTING", !.want = peer]]
           IN  IF left.nb THEN Return(z, t, "EINPROGRESS") ELSE Block(z, t)

vsock_connect(x, t, k, peer, c, nomem) ==
  LET y == IF x.sk[k].st = "INIT" THEN vsock_bind_internal(x, k, 0) ELSE x
  IN  CASE x.sk[k].st = "CONNECTING" -> Return(x, t, "EALREADY")
        [] x.sk[k].st = "CONNECTED" -> Return(x, t, "EISCONN")
        [] x.sk[k].st = "LISTEN" -> Return(x, t, "EINVAL")
        [] OTHER -> IF y.sk[k].st # "BOUND" THEN Return(x, t, "EADDRNOTAVAIL") ELSE Start(ClearWake(y, t, <<"tx", k>>), t, k, peer, c, nomem)

(* vsock_connect_bh of a thread that was blocked *)
vsock_connect_bh(x, t) ==
  LET k == x.th[t].k
      c == x.sk[k].conn
  IN  IF x.th[t].why = "null"
      THEN IF x.cn[c].refs = 0 THEN Panic(x, "connection")
           ELSE [vsock_remove_connection(virtio_sock_tx_hdr(x, c, "RST"), c) EXCEPT !.th[t].pc = "aborted"]
      ELSE IF x.sk[k].st = "CONNECTING" THEN Block(x, t)
      ELSE Return([Slip(x, (x.sk[k].st = "CONNECTED") # (x.sk[k].err = 0), "untrue") EXCEPT !.sk[k].err = 0], t, -x.sk[k].err)
connect_aborted(x, t) == Fail([x EXCEPT !.sk[x.th[t].k].st = "BOUND"], t, "ERESTARTSYS")

vsock_listen(x, t, k, backlog) ==
  IF x.sk[k].st \notin {"BOUND", "LISTEN"} THEN Return(x, t, "EINVAL")
  ELSE Return([x EXCEPT !.sk[k] = [@ EXCEPT !.st = "LISTEN", !.backlog = Most(backlog, 1)]], t, 0)

vsock_accept_bh(x, t, fail) ==
  LET k == x.th[t].k
      y == [x EXCEPT !.sk[k].inq = Tail(@)]
      j == x.sk[k].inq[1]
  IN  IF x.th[t].why = "null" THEN Fail(x, t, "ERESTARTSYS")
      ELSE IF x.sk[k].inq = <<>> THEN IF left.nb THEN Fail(x, t, "EAGAIN") ELSE Block(x, t)
      ELSE IF fail = "nofd" THEN Return(vsock_close(y, j, FALSE), t, "ENFILE")
      ELSE IF fail = "fault" THEN Return(Slip([vsock_close(y, j, FALSE) EXCEPT !.fds = @ \cup {j}], TRUE, "fault"), t, "EFAULT")
      ELSE Return([y EXCEPT !.sk[j].at = "fd", !.fds = @ \cup {j}], t, 0)

vsock_events_internal(x, k) ==
  LET sk == x.sk[k]
  IN  (CASE sk.st \in {"INIT", "BOUND"} -> {"IN", "OUT"}
         [] sk.st = "LISTEN" -> IF sk.inq # <<>> THEN {"IN"} ELSE {}
         [] sk.st = "CONNECTED" ->
              (IF sk.inq # <<>> \/ "RX" \in sk.flags THEN {"IN"} ELSE {})
              \cup (IF virtio_sock_get_buf_space(x, sk.conn) > 0 \/ "TX" \in sk.flags THEN {"OUT"} ELSE {})
         [] OTHER -> {})
      \cup IF sk.err # 0 THEN {"ERR"} ELSE {}

--------------------------------------------------------------------------
(* Receiving (virtio_sock_rx_complete).  A handler that finds the memory   *)
(* of a closed socket stops the model.                                     *)

NewSock == [st |-> "INIT", port |-> 0, bound |-> FALSE, conn |-> 0, err |-> 0, flags |-> {}, inq |-> <<>>, backlog |-> 0, want |-> 0,
            eof |-> FALSE, at |-> "none"]

(* vsock_connect_request on port p for connection c, with child j;         *)
(* nomem: the response is not sent                                         *)
vsock_connect_request(x, p, c, j, nomem) ==
  LET k == x.bnd[p].sk
      listening == x.bnd[p].tab /\ k # 0 /\ x.sk[k].st = "LISTEN"
      room == Len(x.sk[k].inq) < x.sk[k].backlog
      y == [x EXCEPT !.sk[j] = [NewSock EXCEPT !.st = "CONNECTED", !.port = p, !.conn = c, !.at = "queue", !.err = left.err],
                     !.cn[c] = [NewConn(100 + c, j, 0) EXCEPT !.port = p, !.palloc = HostBuf],
                     !.sk[k].inq = Append(@, j)]
      z == blockq_wake_one(vsock_add_connection(y, c), <<"rx", k>>)
  IN  IF ~listening THEN x
      ELSE IF ~room THEN blockq_wake_one(x, <<"rx", k>>)
      ELSE IF ~nomem THEN virtio_sock_tx_hdr(z, c, "RESPONSE")
      ELSE LET w == Release([Slip(z, TRUE, "unanswered") EXCEPT !.cn[c].h = "dead"], c)      \* then vsock_conn_reset
           IN  vsock_remove_connection([w EXCEPT !.sk[j].flags = Both], c)

vsock_connect_complete(x, c) ==
  LET k == x.cn[c].sock
  IN  IF k = 0 THEN x ELSE blockq_wake_one([x EXCEPT !.sk[k].st = "CONNECTED"], <<"tx", k>>)

(* nomem: the queue cannot grow *)
vsock_rx(x, c, n, nomem) ==
  LET k == x.cn[c].sock
      len == IF "RX" \in x.sk[k].flags THEN 0 ELSE n
  IN  IF k = 0 THEN x
      ELSE blockq_wake_one(IF len = 0 THEN x
                           ELSE IF nomem THEN virtio_sock_tx_hdr([Slip(x, Waiters(x, 0, <<"rx", k>>) > 1, "leftover") EXCEPT !.sk[k].flags = @ \cup {"RX"}], c, "")
                           ELSE [x EXCEPT !.sk[k].inq = Append(@, len), !.cn[c].got = @ + len],
                           <<"rx", k>>)

(* A variant for testing: only a writer is told *)
ToldWriter(x, k) ==
  blockq_wake_one(Slip(x, \E d \in {"rx", "tx"} : Waiters(x, 0, <<d, k>>) > 1, "leftover"), <<"tx", k>>)
(* one reader and one writer are told *)
Told(x, k) ==
  blockq_wake_one(blockq_wake_one(Slip(x, \E d \in {"rx", "tx"} : Waiters(x, 0, <<d, k>>) > 1, "leftover"), <<"tx", k>>), <<"rx", k>>)

vsock_shutdown_request(x, c, fl) ==
  LET k == x.cn[c].sock
      y == IF k = 0 THEN x ELSE Told([x EXCEPT !.sk[k].flags = @ \cup fl], k)
  IN  IF k = 0 \/ Both \subseteq y.sk[k].flags THEN virtio_sock_tx_hdr(vsock_remove_connection(y, c), c, "RST") ELSE y

vsock_conn_reset(x, c) ==
  LET k == x.cn[c].sock
  IN  vsock_remove_connection(
        IF k = 0 THEN x
        ELSE IF x.sk[k].st = "CONNECTING" THEN blockq_wake_one([x EXCEPT !.sk[k] = [@ EXCEPT !.err = 104, !.st = "BOUND"]], <<"tx", k>>)
        ELSE Told([x EXCEPT !.sk[k].flags = Both], k), c)

Handle(x, nomem) ==
  LET c == x.rx.c
      y == CASE x.rx.op = "RESPONSE" -> vsock_connect_complete(x, c)
             [] x.rx.op = "RST" -> vsock_conn_reset(x, c)
             [] x.rx.op = "SHUTDOWN" -> vsock_shutdown_request(x, c, x.rx.fl)
             [] x.rx.op = "RW" -> vsock_rx(x, c, x.rx.n, nomem)
             [] x.rx.op = "CREDIT_REQUEST" -> virtio_sock_tx_hdr(x, c, "CREDIT_UPDATE")
             [] OTHER -> x
      z == IF x.rx.op = "RST" THEN y ELSE virtio_socket_conn_update(y, c)
  IN  IF x.cn[c].sock # 0 /\ x.sk[x.cn[c].sock].at = "gone" THEN Panic(x, "socket")
      ELSE [Slip(Release(z, c), ~x.cn[c].tab, "late") EXCEPT !.rx = NoRx]

--------------------------------------------------------------------------
(* Actions                                                                 *)

Running == s.panic = {}
Held(k) == \E t \in Threads : s.th[t].k = k /\ s.th[t].op # "" /\ s.th[t].pc # "credit"
Fresh(c) == s.cn[c].h = "none" /\ s.cn[c].id = 0 /\ \A d \in Conns : s.cn[d].id = 0 => c <= d

Begin(x, t, o, pc) == [x EXCEPT !.th[t] = [Idle EXCEPT !.op = o.op, !.k = o.k, !.n = o.n, !.pc = pc]]
(* vsock_bind, vsock_listen, vsock_connect, SO_ERROR, and the others up to *)
(* blockq_check                                                            *)
Call(t) ==
  /\ s.th[t].pc = "idle" /\ left.calls > 0
  /\ \E o \in left.ops :
       /\ s.sk[o.k].at = "fd"
       /\ \/ /\ o.op = "connect"
             /\ \E c \in Conns : (Fresh(c) \/ s.sk[o.k].conn = c)
                  /\ \/ s' = vsock_connect(Begin(s, t, o, "run"), t, o.k, o.n, c, FALSE)
                        /\ left' = [left EXCEPT !.calls = @ - 1]
                     \/ left.mem > 0 /\ s' = vsock_connect(Begin(s, t, o, "run"), t, o.k, o.n, c, TRUE)
                        /\ left' = [left EXCEPT !.calls = @ - 1, !.mem = @ - 1]
          \/ /\ o.op # "connect" /\ left' = [left EXCEPT !.calls = @ - 1]
             /\ s' = CASE o.op = "bind" -> IF s.sk[o.k].st = "INIT" THEN vsock_bind_internal(s, o.k, o.n) ELSE s
                       [] o.op = "listen" -> vsock_listen(s, t, o.k, o.n)
                       [] o.op = "error" -> [Slip(s, \E u \in Threads : s.th[u].op = "connect" /\ s.th[u].k = o.k, "erased") EXCEPT !.sk[o.k].err = 0]
                       [] o.op = "accept" /\ s.sk[o.k].st # "LISTEN" -> Return(s, t, "EINVAL")
                       [] o.op \in {"accept", "read"} -> ClearWake(Begin(s, t, o, "run"), t, <<"rx", o.k>>)
                       [] OTHER -> ClearWake(Begin(s, t, o, "run"), t, <<"tx", o.k>>)

Run(t) ==
  /\ s.th[t].pc = "run"
  /\ \/ s.th[t].op = "read" /\ s' = vsock_read_bh(s, t) /\ UNCHANGED left
     \/ s.th[t].op = "write" /\ s' = WriteSpace(s, t) /\ UNCHANGED left
     \/ s.th[t].op = "connect" /\ s' = vsock_connect_bh(s, t) /\ UNCHANGED left
     \/ /\ s.th[t].op = "accept"
        /\ \/ s' = vsock_accept_bh(s, t, "") /\ UNCHANGED left
           \/ left.mem > 0 /\ \E f \in {"nofd", "fault"} : s' = vsock_accept_bh(s, t, f) /\ left' = [left EXCEPT !.mem = @ - 1]
RunOn(t) ==
  \/ s.th[t].pc = "credit" /\ s' = Credit(s, t) /\ UNCHANGED left
  \/ s.th[t].pc = "aborted" /\ s' = connect_aborted(s, t) /\ UNCHANGED left
  \/ /\ s.th[t].pc \in {"write", "dry"}
     /\ \/ s' = vsock_write_bh(s, t, FALSE) /\ UNCHANGED left
        \/ left.mem > 0 /\ s' = vsock_write_bh(s, t, TRUE) /\ left' = [left EXCEPT !.mem = @ - 1]
Join(t) == s.th[t].pc \in {"join", "rejoin"} /\ s' = JoinQueue(s, t) /\ UNCHANGED left
Interrupt(t) ==
  /\ s.th[t].pc = "queued" /\ left.sig > 0
  /\ s' = Leave(s, t, "null") /\ left' = [left EXCEPT !.sig = @ - 1]
Close(k) ==
  /\ s.sk[k].at = "fd" /\ k \in left.close /\ ~Held(k)
  /\ \E nomem \in IF left.mem > 0 THEN BOOLEAN ELSE {FALSE} :
       /\ s' = [vsock_close(s, k, nomem) EXCEPT !.fds = @ \ {k}]
       /\ left' = [left EXCEPT !.close = @ \ {k}, !.mem = IF nomem THEN @ - 1 ELSE @]

(* The host sends a packet on a connection it knows; vsock_get_connection  *)
Sends(c, op) ==
  LET d == s.cn[c]
  IN  CASE op = "RESPONSE" -> d.h = "syn"
        [] op = "RST" -> d.h \in {"syn", "est", "fin"}
        [] op = "SHUTDOWN" -> d.h = "est"
        [] op = "RW" -> d.h = "est" /\ (d.hsent - d.hfwd) % W < so_rcvbuf
        [] op = "CREDIT_UPDATE" -> d.h \in {"est", "fin"} /\ d.hread < d.hin
        [] op = "CREDIT_REQUEST" -> d.h = "est" /\ d.hfwd # d.fwd
HostSends(c, op) ==
  /\ s.rx.op = "" /\ left.host[op] > 0 /\ Sends(c, op)
  /\ \E fl \in IF op = "SHUTDOWN" THEN {{"TX"}, {"RX"}, Both} ELSE {{}} :
       LET d == s.cn[c]
           e == [d EXCEPT !.h = CASE op = "RESPONSE" -> "est" [] op = "RST" -> "dead" [] OTHER -> @,
                          !.hsent = IF op = "RW" THEN (@ + 1) % W ELSE @,
                          !.hread = IF op = "CREDIT_UPDATE" THEN @ + 1 ELSE @,
                          !.refs = IF d.tab THEN @ + 1 ELSE @]
       IN  s' = [s EXCEPT !.cn[c] = e, !.rx = IF d.tab THEN [op |-> op, c |-> c, n |-> 1, fl |-> fl] ELSE NoRx]
  /\ left' = [left EXCEPT !.host[op] = @ - 1]
Receive ==
  /\ s.rx.op # ""
  /\ \E nomem \in IF left.mem > 0 /\ s.rx.op = "RW" THEN BOOLEAN ELSE {FALSE} :
       s' = Handle(s, nomem) /\ left' = [left EXCEPT !.mem = IF nomem THEN @ - 1 ELSE @]
HostConnects ==
  /\ s.rx.op = "" /\ left.host["REQUEST"] > 0
  /\ \E p \in Ports, c \in Conns, j \in Socks, nomem \in IF left.mem > 0 THEN BOOLEAN ELSE {FALSE} :
       /\ Fresh(c) /\ s.sk[j].at = "none" /\ \A i \in Socks : s.sk[i].at = "none" => j <= i
       /\ s' = vsock_connect_request(s, p, c, j, nomem)
       /\ left' = [left EXCEPT !.host["REQUEST"] = @ - 1, !.mem = IF nomem THEN @ - 1 ELSE @]

(* so_error is not initialised by vsock_alloc: left.err *)
VsockInit ==
  /\ left \in Uses
  /\ s = [sk |-> [k \in Socks |-> IF k <= left.socks THEN [NewSock EXCEPT !.at = "fd", !.err = left.err] ELSE NewSock],
          cn |-> [c \in Conns |-> [NewConn(0, 0, 0) EXCEPT !.refs = 0]],
          bnd |-> [p \in Ports |-> [tab |-> FALSE, sk |-> 0]], fds |-> 1 .. left.socks, rx |-> NoRx,
          bq |-> [q \in {"rx", "tx"} \X Socks |-> <<>>], wake |-> [q \in {"rx", "tx"} \X Socks |-> FALSE],
          th |-> [t \in Threads |-> Idle], slip |-> {}, panic |-> {}]

VsockNext ==
  /\ Running
  /\ \/ \E t \in Threads : Call(t) \/ Run(t) \/ RunOn(t) \/ Join(t) \/ Interrupt(t)
     \/ \E k \in Socks : Close(k)
     \/ \E c \in Conns, op \in DOMAIN left.host \ {"REQUEST"} : HostSends(c, op)
     \/ Receive \/ HostConnects

VsockSpec == VsockInit /\ [][VsockNext]_vsVars

--------------------------------------------------------------------------
(* Properties                                                             *)

Ready(x, t) ==
  LET k == x.th[t].k
  IN  CASE x.th[t].op = "read" -> x.sk[k].inq # <<>> \/ "RX" \in x.sk[k].flags
        [] x.th[t].op = "accept" -> x.sk[k].inq # <<>>
        [] x.th[t].op = "connect" -> x.sk[k].st # "CONNECTING"
        [] OTHER -> "TX" \in x.sk[k].flags \/ virtio_sock_get_buf_space(x, x.sk[k].conn) > 0

(* Nobody sleeps on a socket that is ready for them, unless another thread  *)
(* is on the way to take what there is, or the wakeup was lost: a shutdown, *)
(* a reset or a grown window tells one reader and one writer; one of two    *)
(* connects is told; and two writes that overran the window make it look    *)
(* open                                                                     *)
NobodyStranded ==
  \A t \in Threads :
    s.th[t].pc = "queued" /\ Ready(s, t) =>
      \/ Lost(s) \/ s.slip \cap {"overlap", "stale"} # {}
      \/ \E u \in Threads \ {t} : s.th[u].pc \in {"run", "write", "join"} /\ s.th[u].q = s.th[t].q

(* The host is not sent more than its buffer has room for, unless two       *)
(* writers used the same space; ours never holds more than we announced,    *)
(* and every byte read is credited                                          *)
CreditIsRespected ==
  \A c \in Conns :
    /\ s.cn[c].hin - s.cn[c].hread <= HostBuf \/ s.slip \cap {"stale"} # {}
    /\ s.cn[c].sock # 0 => Sum(s.sk[s.cn[c].sock].inq) <= so_rcvbuf
    /\ \A k \in Socks : s.sk[k].conn = c /\ s.sk[k].at # "gone" =>
         s.cn[c].got % W = (Sum(s.sk[k].inq) + s.cn[c].fwd
                            + Sum([t \in 1 .. Cardinality(Threads) |-> IF s.th[t].pc = "credit" /\ s.th[t].k = k THEN s.th[t].n ELSE 0])) % W

(* The end is told to a reader after all that was received *)
EndIsTheEnd == \A k \in Socks : s.sk[k].eof => s.sk[k].inq = <<>>

(* No socket or connection is used after it was freed, but for: a socket    *)
(* closed before its connection was made or after that failed, a read that  *)
(* credits after it has completed, a connection that is removed twice or    *)
(* whose response could not be sent                                         *)
MemoryIsLive ==
  /\ "socket" \in s.panic => s.slip \cap {"dangling", "completed"} # {}
  /\ "connection" \in s.panic => s.slip \cap {"twice", "unanswered"} # {}

(* A connection in the table, or that a socket refers to, has a reference,  *)
(* and an open descriptor a socket                                          *)
ReferencesAreHeld ==
  /\ \A c \in Conns :
       s.cn[c].refs < (IF s.cn[c].tab THEN 1 ELSE 0) + Cardinality({k \in Socks : s.sk[k].conn = c /\ s.sk[k].at \in {"fd", "queue"}})
                      + (IF s.rx.op # "" /\ s.rx.c = c THEN 1 ELSE 0)
         => s.slip \cap {"twice", "unanswered"} # {}
  /\ \A k \in s.fds : s.sk[k].at = "gone" => s.slip \cap {"fault"} # {}

(* A port is taken while a socket or a connection needs it, and no longer:  *)
(* but the port of a socket closed before it was connected, or after both   *)
(* directions were shut down, stays taken, and so does that of a connection *)
(* aborted while its response was handled                                   *)
PortsAreReleased ==
  \A p \in Ports :
    s.bnd[p].tab =>
      \/ \E k \in Socks : s.sk[k].at = "fd" /\ s.sk[k].bound /\ s.sk[k].port = p
      \/ \E c \in Conns : s.cn[c].bnd /\ s.cn[c].tab /\ s.cn[c].port = p
      \/ s.slip \cap {"bound", "both", "late"} # {}

(* A connect fails if and only if the socket is not connected, unless       *)
(* so_error was never set, or another thread took it or connected too; and  *)
(* a socket is connected to what was asked for, unless the connection of an *)
(* earlier attempt was used again                                           *)
ConnectTellsTheTruth ==
  /\ "untrue" \in s.slip => left.err # 0 \/ s.slip \cap {"erased", "overlap"} # {}
  /\ \A k \in Socks : s.sk[k].st = "CONNECTED" /\ s.sk[k].bound /\ s.cn[s.sk[k].conn].id # s.sk[k].want => s.slip \cap {"reused"} # {}

(* What poll says of a connected or listening socket is what calls that do  *)
(* not wait would do                                                        *)
PollAgrees ==
  \A k \in Socks :
    LET ev == vsock_events_internal(s, k)
        c == s.sk[k].conn
    IN  s.sk[k].at = "fd" /\ s.sk[k].st = "CONNECTED" =>
          /\ "IN" \in ev <=> s.sk[k].inq # <<>> \/ "RX" \in s.sk[k].flags
          /\ "OUT" \in ev <=> "TX" \in s.sk[k].flags \/ virtio_sock_get_buf_space(s, c) > 0

VsocksAreSound ==
  /\ NobodyStranded /\ CreditIsRespected /\ EndIsTheEnd /\ MemoryIsLive /\ ReferencesAreHeld
  /\ PortsAreReleased /\ ConnectTellsTheTruth /\ PollAgrees
=============================================================================
