-------------------------------- MODULE MCIO --------------------------------
(***************************************************************************)
(* Model checking of the kernel's sockets - TCP and UDP over lwIP, local   *)
(* sockets, sockets to the host - and of asynchronous input and output.    *)
(* One behaviour is about one of them, scen; the variables of the others   *)
(* are 0.                                                                  *)
(***************************************************************************)
EXTENDS Naturals, Sequences, FiniteSets

VARIABLES scen,
    s, left

vars == <<scen, s, left>>

NetCall(op, n, fl, tmo) == [op |-> op, len |-> n, fl |-> fl, tmo |-> tmo]
NetUse(kind, ops, n, data, fin, rst, acks, conns, mem, sig, nb) ==
    [kind |-> kind, ops |-> ops, calls |-> n, data |-> data, sizes |-> {1, 3}, rcvbuf |-> 2, fin |-> fin, rst |-> rst, acks |-> acks,
     conns |-> conns, mem |-> mem, sig |-> sig, nb |-> nb, close |-> TRUE]
Recv == NetCall("read", 2, {}, FALSE)
Send == NetCall("write", 2, {}, FALSE)
Connect(tmo) == NetCall("connect", 0, {}, tmo)
Shut(h) == NetCall("shutdown", 0, {h}, FALSE)
SoError == NetCall("error", 0, {}, FALSE)
SndBuf == NetCall("SO_SNDBUF", 1, {}, FALSE)
NetUses ==
    {NetUse("stream", {Recv}, 2, 2, 1, 1, 0, 0, 0, 1, FALSE), NetUse("stream", {Recv, Send, Shut("rd"), Shut("wr")}, 3, 1, 1, 1, 1, 0, 0, 0, FALSE),
     NetUse("stream", {Send, SndBuf, SoError}, 3, 1, 0, 1, 2, 0, 1, 0, FALSE), NetUse("client", {Connect(FALSE), Connect(TRUE), SoError, SndBuf}, 3, 0, 1, 1, 0, 0, 1, 1, FALSE),
     NetUse("client", {Connect(FALSE), Send, NetCall("read", 1, {"peek"}, FALSE)}, 3, 1, 0, 1, 1, 0, 0, 0, TRUE),
     NetUse("listen", {NetCall("listen", 2, {}, FALSE), NetCall("accept", 0, {}, FALSE)}, 4, 0, 0, 1, 0, 3, 1, 0, FALSE),
     NetUse("udp", {NetCall("connect", 0, {}, FALSE), NetCall("recvmmsg", 2, {"waitforone"}, FALSE), Send, NetCall("read", 1, {"trunc"}, TRUE), NetCall("SO_RCVBUF", 1, {}, FALSE)},
            2, 3, 0, 0, 0, 0, 0, 1, FALSE)}

SockCall(op, k, n) == [op |-> op, k |-> k, n |-> n, v |-> <<n>>, to |-> 1]
Writev(k, v) == [op |-> "writev", k |-> k, n |-> 0, v |-> v, to |-> 1]
LocalUse(type, pair, socks, ops, n, mem, sig, nb, close) ==
    [type |-> type, pair |-> pair, socks |-> socks, ops |-> ops, calls |-> n, mem |-> mem, sig |-> sig, nb |-> nb, close |-> close]
LocalUses ==
    {LocalUse("stream", TRUE, 2, {SockCall("read", 1, 1), Writev(2, <<3>>), Writev(2, <<1, 1>>)}, 4, 1, 0, FALSE, {1, 2}),
     LocalUse("seqpacket", TRUE, 2, {SockCall("read", 1, 1), SockCall("write", 2, 2), Writev(2, <<1, 0>>)}, 4, 0, 1, FALSE, {1, 2}),
     LocalUse("stream", FALSE, 3, {SockCall("listen", 1, 1), SockCall("accept", 1, 0), SockCall("connect", 2, 0), SockCall("connect", 3, 0)}, 4, 1, 1, FALSE, {1, 4}),
     LocalUse("dgram", FALSE, 3, {SockCall("sendto", 2, 1), SockCall("write", 3, 1), SockCall("connect", 3, 0), SockCall("read", 1, 1)}, 4, 1, 0, FALSE, {1, 3})}

HostCall(op, k, n) == [op |-> op, k |-> k, n |-> n]
Host(req, resp, rst, shut, rw, up, crq) ==
    [REQUEST |-> req, RESPONSE |-> resp, RST |-> rst, SHUTDOWN |-> shut, RW |-> rw, CREDIT_UPDATE |-> up, CREDIT_REQUEST |-> crq]
HostUse(ops, n, host, mem, sig, err, close) ==
    [socks |-> 1, ops |-> ops, calls |-> n, host |-> host, mem |-> mem, sig |-> sig, nb |-> FALSE, err |-> err, junk |-> 0, close |-> close]
Dial == HostCall("connect", 1, 9)
HostUses ==
    {HostUse({Dial, HostCall("connect", 1, 8)}, 2, Host(0, 2, 1, 1, 0, 0, 0), 0, 1, 0, {1}), HostUse({Dial, HostCall("write", 1, 2)}, 4, Host(0, 1, 1, 0, 0, 2, 0), 0, 0, 7, {1}),
     HostUse({Dial, HostCall("read", 1, 1)}, 3, Host(0, 1, 0, 1, 2, 0, 1), 1, 0, 0, {1}), HostUse({Dial, HostCall("error", 1, 1), HostCall("bind", 1, 1)}, 3, Host(0, 1, 1, 1, 0, 0, 0), 1, 0, 0, {1}),
     HostUse({HostCall("bind", 1, 1), HostCall("listen", 1, 1), HostCall("accept", 1, 0), HostCall("read", 2, 1)}, 4, Host(2, 0, 0, 1, 1, 0, 0), 1, 0, 0, {1, 2})}

Entry(op, f, n, fix) == [op |-> op, f |-> f, n |-> n, fix |-> fix]
Enter(n, min, get, sig) == [n |-> n, min |-> min, get |-> get, sig |-> sig]
Reg(op, off, fds) == [op |-> op, off |-> off, fds |-> fds]
RingUse(req, enter, reg, n, close, fclose, ready, reap, mem, sig, start) ==
    [kind |-> "ring", req |-> req, enter |-> enter, reg |-> reg, calls |-> n, close |-> close, fclose |-> fclose, ready |-> ready,
     reap |-> reap, mem |-> mem, sig |-> sig, start |-> start]
RingUses ==
    {RingUse(<<Entry("rw", 1, 0, FALSE), Entry("rw", 1, 0, FALSE)>>, {Enter(2, 2, TRUE, FALSE)}, {}, 2, TRUE, {}, 0, 0, 1, 1, 0),
     RingUse(<<Entry("timeout", 1, 1, FALSE), Entry("rw", 1, 0, FALSE), Entry("timeoutrm", 1, 1, FALSE)>>, {Enter(3, 2, TRUE, FALSE)}, {}, 1, TRUE, {}, 0, 1, 0, 0, 0),
     RingUse(<<Entry("poll", 1, 0, FALSE), Entry("pollrm", 1, 1, FALSE)>>, {Enter(2, 1, TRUE, FALSE)}, {}, 1, TRUE, {1}, 1, 0, 1, 0, 0),
     RingUse(<<Entry("poll", 1, 0, TRUE), Entry("rw", 2, 0, TRUE)>>, {Enter(2, 1, FALSE, FALSE)},
             {Reg("files", 0, <<1, 2>>), Reg("unfiles", 0, <<>>), Reg("update", 1, <<1>>)}, 2, TRUE, {1}, 1, 0, 1, 0, 0),
     RingUse(<<Entry("timeout", 1, 1, FALSE), Entry("timeout", 1, 2, FALSE), Entry("nop", 1, 0, FALSE), Entry("nop", 1, 0, FALSE)>>,
             {Enter(4, 1, FALSE, FALSE)}, {}, 1, FALSE, {}, 0, 2, 0, 0, 0),
     RingUse(<<Entry("timeout", 1, 1, FALSE), Entry("unknown", 1, 0, FALSE), Entry("dropped", 1, 0, FALSE), Entry("nop", 1, 0, FALSE)>>,
             {Enter(4, 1, TRUE, TRUE)}, {}, 3, FALSE, {}, 0, 3, 0, 0, 6),
     RingUse(<<Entry("nop", 1, 0, FALSE), Entry("nop", 1, 0, FALSE), Entry("nop", 1, 0, FALSE), Entry("timeout", 1, 2, FALSE), Entry("nop", 1, 0, FALSE)>>,
             {Enter(5, 1, FALSE, FALSE)}, {}, 1, FALSE, {}, 0, 0, 0, 0, 0),
     RingUse(<<Entry("close", 1, 1, FALSE), Entry("files", 1, 1, FALSE)>>, {Enter(2, 1, TRUE, TRUE)},
             {Reg("eventfd", 0, <<1>>), Reg("uneventfd", 0, <<>>)}, 2, TRUE, {1}, 0, 1, 1, 1, 0)}
AioDo(op, min, nr, tmo) == [op |-> op, min |-> min, nr |-> nr, tmo |-> tmo]
EventUse(n, nr, enter, c, mem, sig) == [kind |-> "aio", req |-> [i \in 1 .. n |-> 0], nr |-> nr, enter |-> enter, calls |-> c, mem |-> mem, sig |-> sig]
EventUses ==
    {EventUse(2, 1, {AioDo("submit", 0, 0, FALSE), AioDo("getevents", 1, 1, FALSE)}, 4, 1, 1),
     EventUse(2, 2, {AioDo("submit", 0, 0, FALSE), AioDo("getevents", 2, 2, TRUE), AioDo("destroy", 0, 0, FALSE)}, 4, 0, 1)}

Net == INSTANCE NetSock WITH Threads <- {1, 2}, TCP_SND_BUF <- 2, SOCK_QUEUE_LEN <- 2, Uses <- NetUses
Local == INSTANCE UnixSocket WITH Threads <- {1, 2}, Socks <- 1 .. 5, UNIXSOCK_BUF_MAX_SIZE <- 2, UNIXSOCK_QUEUE_MAX_LEN <- 2, so_rcvbuf <- 3,
    Uses <- LocalUses
Vs == INSTANCE Vsock WITH Threads <- {1, 2}, Socks <- 1 .. 3, Conns <- {1, 2}, Ports <- {1, 2}, W <- 8, so_rcvbuf <- 2, HostBuf <- 2, Uses <- HostUses
Ring == INSTANCE AsyncIO WITH Threads <- {1, 2}, W <- 8, SqEntries <- 2, CqEntries <- 2, Uses <- RingUses
Event == INSTANCE AsyncIO WITH Threads <- {1, 2}, W <- 8, SqEntries <- 2, CqEntries <- 2, Uses <- EventUses


Init ==
    \/ /\ scen = "net" /\ Net!NetSockInit
    \/ /\ scen = "local" /\ Local!UnixSocketInit
    \/ /\ scen = "host" /\ Vs!VsockInit
    \/ /\ scen = "ring" /\ Ring!UringInit
    \/ /\ scen = "aio" /\ Event!AioInit

Next ==
    \/ scen = "net" /\ Net!NetSockNext /\ UNCHANGED scen
    \/ scen = "local" /\ Local!UnixSocketNext /\ UNCHANGED scen
    \/ scen = "host" /\ Vs!VsockNext /\ UNCHANGED scen
    \/ scen = "ring" /\ Ring!UringNext /\ UNCHANGED scen
    \/ scen = "aio" /\ Event!AioNext /\ UNCHANGED scen

Spec == Init /\ [][Next]_vars

(* TCP and UDP sockets (netsyscall.c): an end of file is a real one, a thread sleeps only  *)
(* while what it waits for has not happened, bytes and datagrams are neither lost nor made, *)
(* poll agrees with what the calls do, and a connection queued has an owner - but for the  *)
(* cases the history names.                                                               *)
SocketsAreSound == scen = "net" => Net!SocketsAreSound

(* Local sockets (unix/socket.c): nobody sleeps on a condition that holds, what a socket    *)
(* counts is what its queue holds, an end of file means the peer is gone and nothing is    *)
(* left, and a socket's references are those of its users.                                *)
UnixSocketsAreSound == scen = "local" => Local!UnixSocketsAreSound

(* Sockets to the host (vsock.c, virtio_socket.c): the guest never sends more than the host *)
(* gave credit for, a freed connection is not used, ports come back, connect tells the     *)
(* truth, and nobody sleeps on a condition that holds.                                    *)
VsocksAreSound == scen = "host" => Vs!VsocksAreSound

(* io_uring (unix/io_uring.c): every request taken is completed once or still in hand, a  *)
(* completion that does not fit is counted, a waiter is woken by the events it waits for,  *)
(* and the ring lives as long as a request of it.                                         *)
RingsAreSound == scen = "ring" => Ring!RingIsSound

(* Linux aio (unix/aio.c): the context counts its requests, no completion is lost, and     *)
(* io_destroy waits for all of them.                                                       *)
ContextsAreSound == scen = "aio" => Event!ContextIsSound
=============================================================================
