------------------------------ MODULE SockWait ------------------------------
(***************************************************************************)
(* How the socket modules wait (unix/blockq.c): operators from a state x   *)
(* to the next, where x.bq has the waiters of each queue, x.wake its flag, *)
(* x.th[t] what thread t does (pc, the queue q it waits on, whether it was *)
(* blocked (bl), and why it runs again), and x.slip the ways in which a    *)
(* wakeup was lost so far.  A woken thread's action runs later ("run"); one*)
(* that has found that it must wait is "dry", then at "join" or "rejoin".  *)
(***************************************************************************)
EXTENDS Integers, Sequences, FiniteSets, SequencesExt

CONSTANT Threads

Least(a, b) == IF a < b THEN a ELSE b
Most(a, b) == IF a > b THEN a ELSE b
Sum(q) == FoldLeft(LAMBDA a, b : a + b, 0, q)

Joining(x, q, pcs) == {t \in Threads : x.th[t].pc \in pcs /\ x.th[t].q = q}
Slip(x, cond, what) == [x EXCEPT !.slip = IF cond THEN @ \cup {what} ELSE @]
(* how many others wait, or are about to *)
Waiters(x, t, q) == Len(x.bq[q]) + Cardinality(Joining(x, q, {"join", "rejoin", "dry"}) \ {t})
Waiting(x, t, q) == Waiters(x, t, q) > 0

(* blockq_wake_internal_locked: the thread leaves its queue and its action  *)
(* is scheduled                                                             *)
Leave(x, t, why) ==
  [x EXCEPT !.bq = [q \in DOMAIN @ |-> IF q = x.th[t].q THEN SelectSeq(@[q], LAMBDA u : u # t) ELSE @[q]],
            !.th[t] = [@ EXCEPT !.pc = "run", !.bl = TRUE, !.why = why]]

(* blockq_wake_one: a thread that rejoins the queue does not look at the flag *)
blockq_wake_one(x, q) ==
  IF x.bq[q] # <<>> THEN Leave(x, x.bq[q][1], "")
  ELSE [Slip(x, \E t \in Joining(x, q, {"rejoin", "dry"}) : x.th[t].bl, "rejoin") EXCEPT !.wake[q] = TRUE]

(* blockq_flush does not set the flag: it is missed by those who have found *)
(* that they must wait and have not joined the queue yet                    *)
blockq_flush(x, q) ==
  FoldLeft(LAMBDA y, t : Leave(y, t, "null"),
           Slip(x, Joining(x, q, {"join", "rejoin", "write"}) # {}, "flush"), x.bq[q])

(* blockq_check clears the flag before the first try: a thread that is      *)
(* about to join may lose a wakeup                                          *)
ClearWake(x, t, q) ==
  [Slip(x, x.wake[q] /\ Joining(x, q, {"join", "dry"}) # {}, "cleared")
     EXCEPT !.wake[q] = FALSE, !.th[t] = [@ EXCEPT !.pc = "run", !.q = q, !.bl = FALSE, !.why = ""]]

(* blockq_block_required: what is left is to join the queue, or to rejoin it *)
Block(x, t) == [x EXCEPT !.th[t].pc = IF x.th[t].bl THEN "rejoin" ELSE "join"]

(* the end of blockq_check_timeout, and blockq_resume_blocking *)
JoinQueue(x, t) ==
  LET q == x.th[t].q
      y == [x EXCEPT !.bq[q] = Append(@, t), !.th[t].pc = "queued"]
  IN  IF x.th[t].pc = "join" /\ x.wake[q] THEN blockq_wake_one(y, q) ELSE y

(* The ways in which a wakeup may be lost, whatever the kind of socket *)
Lost(x) == x.slip \cap {"flush", "cleared", "rejoin", "leftover"} # {}
=============================================================================
