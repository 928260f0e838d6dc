------------------------------ MODULE Signals -------------------------------
(***************************************************************************)
(* Signals of a process and its threads (kernel/src/unix/signal.c and the  *)
(* return to user mode in thread.c): queueing and picking a thread to      *)
(* wake, the calls that wait for signals, a signalfd, dispatch to a        *)
(* handler and back.  A queue is its length; a signal is its number.  The  *)
(* wait queue is reduced to its window: a caller has decided to block and  *)
(* is not queued yet (UnixWait has the queue itself).                      *)
(***************************************************************************)
EXTENDS Naturals, Sequences, FiniteSets, SequencesExt

CONSTANTS
    Threads,      \* threads of the process
    Sigs,         \* signal numbers
    RT_SIG_START, \* first real-time signal
    SaMask,       \* sa_mask of each installed handler
    Masks,        \* masks that programs use
    MaxEvents     \* signals sent and calls made (bound)

VARIABLES
    th,     \* threads, see Thread0
    ppend,  \* signals queued in the process's sigstate, per number
    sfd,    \* mask of the signalfd, {} when there is none
    disp,   \* disposition: "terminate", "ignore", "handler", "restart"
    intr,   \* threads somebody is about to interrupt
    halted,
    slip,   \* how a pending signal was overlooked (history)
    events

sgVars == <<th, ppend, sfd, disp, intr, halted, slip, events>>

Empty == [s \in Sigs |-> 0]

Thread0 ==
    [pend |-> Empty,        \* queued in t->signals
     mask |-> {},           \* t->signal_mask
     saved |-> <<>>,        \* t->saved_signal_mask: <<>> or <<mask>>
     interest |-> {},       \* t->signals.interest
     pc |-> "user",         \* "user", "window", "sleep", "ret" (runnable, on its way to user mode)
     call |-> "none", rv |-> "none",
     act |-> "none",        \* flags its action is to be applied with
     interrupting |-> FALSE, \* t->interrupting_syscall
     frames |-> <<>>,       \* masks in the signal frames on the user stack
     program |-> <<{}>>,    \* the mask the program asked for, per frame (history)
     why |-> {}]            \* why its call was interrupted for nothing (history)

SignalsInit ==
    /\ th = [t \in Threads |-> Thread0]
    /\ ppend = Empty /\ sfd = {}
    /\ \E d \in {"terminate", "handler"} : disp = [s \in Sigs |-> d]
    /\ intr = {} /\ halted = FALSE
    /\ slip = [s \in Sigs |-> {}]
    /\ events = 0

-----------------------------------------------------------------------------
sigstate_get_pending(q) == {s \in Sigs : q[s] > 0}
get_all_pending_signals(t) == sigstate_get_pending(th[t].pend) \cup sigstate_get_pending(ppend)
get_effective_sigmask(t) == th[t].mask \ (th[t].interest \cup sfd)
get_effective_signals(t) == get_all_pending_signals(t) \ get_effective_sigmask(t)

thread_is_runnable(t) == th[t].pc # "sleep"
Asleep(t) == th[t].pc = "sleep" /\ th[t].act = "none"

(* The lowest number first. *)
select_signal_from_masked(ss) == CHOOSE s \in ss : \A r \in ss : s <= r

(* Queue a signal: one that is pending already is queued again only if it  *)
(* is a real-time signal.                                                  *)
deliver_signal(q, s) == IF q[s] > 0 /\ s < RT_SIG_START THEN q ELSE [q EXCEPT ![s] = @ + 1]

(* A process signal left to this thread stays pending when it masks it. *)
Hidden(m, s) == IF ppend[s] > 0 /\ s \in m THEN {"masked"} ELSE {}
MaskSlips(m) == slip' = [s \in Sigs |-> slip[s] \cup Hidden(m, s)]

LastOne(t, s) == th[t].pend[s] + ppend[s] = 1 /\ \A u \in Threads \ {t} : th[u].pend[s] = 0

(* Thread t, its state otherwise `to`, dequeues s: its own first. *)
dequeue_signal(t, s, to) ==
    /\ slip' = [r \in Sigs |-> IF r = s /\ LastOne(t, s) THEN {} ELSE slip[r] \cup Hidden(to.mask, r)]
    /\ IF th[t].pend[s] > 0
       THEN th' = [th EXCEPT ![t] = [to EXCEPT !.pend[s] = @ - 1]] /\ UNCHANGED ppend
       ELSE /\ th' = [u \in Threads |-> IF u # t /\ th[u].interrupting THEN [th[u] EXCEPT !.why = @ \cup {"stolen"}]
                                     ELSE IF u = t THEN to ELSE th[u]]
            /\ ppend' = [ppend EXCEPT ![s] = @ - 1]

(* What a sleeper can take: signals it does not mask, or waits for. *)
Wanted(t) == (Sigs \ th[t].mask) \cup (IF th[t].call = "timedwait" THEN th[t].interest ELSE {})
                                 \cup (IF th[t].call = "signalfd" THEN sfd ELSE {})

Slip(ss, how) == slip' = [s \in Sigs |-> IF s \in ss THEN slip[s] \cup {how} ELSE slip[s]]
InWindow(ts) == \E t \in ts : th[t].pc = "window"

-----------------------------------------------------------------------------
(* Sending *)

Event == events < MaxEvents /\ events' = events + 1

(* A thread's timer, a fault, tgkill. *)
deliver_signal_to_thread(t, s) ==
    /\ th' = [th EXCEPT ![t].pend = deliver_signal(@, s)]
    /\ intr' = intr \cup {t}
    /\ UNCHANGED <<ppend, sfd, disp, halted, slip>>

(* No wakeup when a thread that can take the signal is running, else a     *)
(* sleeper that wants it.                                                  *)
deliver_signal_to_process(s) ==
    /\ ppend' = deliver_signal(ppend, s)
    /\ LET running  == {t \in Threads : thread_is_runnable(t) /\ s \notin th[t].mask}
           can_wake == {t \in Threads : ~thread_is_runnable(t) /\ s \notin get_effective_sigmask(t)}
       IN  /\ \/ (running # {} \/ can_wake = {}) /\ UNCHANGED intr
              \/ running = {} /\ \E t \in can_wake : intr' = intr \cup {t}
           /\ IF InWindow(Threads) THEN Slip({s}, "window")
              ELSE IF \E t \in can_wake : s \notin Wanted(t) THEN Slip({s}, "stale")
              ELSE UNCHANGED slip
    /\ UNCHANGED <<th, sfd, disp, halted>>

tgkill(t, s) == Event /\ deliver_signal_to_thread(t, s)
kill(s) == Event /\ deliver_signal_to_process(s)

(* Wake a signalfd reader, else interrupt the call; only if it sleeps. *)
deliver_pending_to_thread(t) ==
    /\ t \in intr
    /\ intr' = intr \ {t}
    /\ LET eff   == get_effective_signals(t)
           wakes == th[t].call = "signalfd" /\ eff \cap sfd # {}
       IN  /\ IF eff # {} /\ Asleep(t)
              THEN th' = [th EXCEPT ![t].act = IF wakes THEN "wake" ELSE "nullify",
                                    ![t].interrupting = @ \/ ~wakes,
                                    ![t].why = @ \cup (IF eff \subseteq th[t].mask THEN {"interest"} ELSE {})]
              ELSE UNCHANGED th
           /\ IF InWindow({t}) THEN Slip(eff, "window") ELSE UNCHANGED slip
    /\ UNCHANGED <<ppend, sfd, disp, halted, events>>

-----------------------------------------------------------------------------
(* System calls.  "read" stands for any interruptible call.                *)

Begin(t) == th[t].pc = "user" /\ Event

(* The first application of the action: return r, or decide to block. *)
Entered(t, c, r) ==
    [th[t] EXCEPT !.call = c, !.rv = r, !.pc = IF r = "none" THEN "window" ELSE "ret", !.why = {}]

(* A call that does not look at pending signals before it blocks.  One     *)
(* that does not block changes nothing and is not modelled.                *)
BlindCall(t, c, i) ==
    /\ th' = [th EXCEPT ![t] = [Entered(t, c, "none") EXCEPT !.interest = i]]
    /\ Slip(get_all_pending_signals(t) \ th[t].mask, "late")
    /\ UNCHANGED ppend

blocking_read(t) ==
    /\ Begin(t)
    /\ BlindCall(t, "read", th[t].interest)
    /\ UNCHANGED <<sfd, disp, intr, halted>>

rt_sigsuspendUnsaved(t, m) ==   \* (mutant)
    /\ Begin(t)
    /\ LET eff == get_all_pending_signals(t) \ (m \ (th[t].interest \cup sfd))
       IN  th' = [th EXCEPT ![t] = [Entered(t, "suspend", IF eff # {} THEN "EINTR" ELSE "none")
                                      EXCEPT !.mask = m]]
    /\ MaskSlips(m)
    /\ UNCHANGED <<ppend, sfd, disp, intr, halted>>
rt_sigsuspend(t, m) ==
    /\ Begin(t)
    /\ LET eff == get_all_pending_signals(t) \ (m \ (th[t].interest \cup sfd))
       IN  th' = [th EXCEPT ![t] = [Entered(t, "suspend", IF eff # {} THEN "EINTR" ELSE "none")
                                      EXCEPT !.saved = <<th[t].mask>>, !.mask = m]]
    /\ MaskSlips(m)
    /\ UNCHANGED <<ppend, sfd, disp, intr, halted>>

pause(t) ==
    /\ Begin(t)
    /\ th' = [th EXCEPT ![t] = Entered(t, "suspend", IF get_effective_signals(t) # {} THEN "EINTR" ELSE "none")]
    /\ UNCHANGED <<ppend, sfd, disp, intr, halted, slip>>

(* The interest stays set after the call. *)
rt_sigtimedwait(t, set) ==
    /\ Begin(t)
    /\ LET got == get_all_pending_signals(t) \cap set
       IN  \/ /\ got # {}
              /\ dequeue_signal(t, select_signal_from_masked(got), Entered(t, "timedwait", "ok"))
           \/ got = {} /\ BlindCall(t, "timedwait", set)
    /\ UNCHANGED <<sfd, disp, intr, halted>>

signalfd_read(t) ==
    /\ Begin(t) /\ sfd # {}
    /\ LET got == get_all_pending_signals(t) \cap sfd
       IN  \/ /\ got # {}
              /\ dequeue_signal(t, select_signal_from_masked(got), Entered(t, "signalfd", "ok"))
           \/ got = {} /\ BlindCall(t, "signalfd", th[t].interest)
    /\ UNCHANGED <<sfd, disp, intr, halted>>

(* signalfd4, and the close of the descriptor (no reader is in it then);   *)
(* a reader is not told of a larger mask.                                  *)
signalfd4(t, m) ==
    /\ Begin(t) /\ m # sfd
    /\ m = {} => \A u \in Threads : th[u].call # "signalfd"
    /\ sfd' = m
    /\ th' = [th EXCEPT ![t] = Entered(t, "other", "ok")]
    /\ Slip(m \ sfd, "widened")
    /\ UNCHANGED <<ppend, disp, intr, halted>>

rt_sigprocmask(t, m) ==
    /\ Begin(t)
    /\ th' = [th EXCEPT ![t] = [Entered(t, "other", "ok") EXCEPT !.mask = m, !.program[Len(th[t].program)] = m]]
    /\ MaskSlips(m)
    /\ UNCHANGED <<ppend, sfd, disp, intr, halted>>

rt_sigaction(t, s, d) ==
    /\ Begin(t) /\ disp[s] # d
    /\ disp' = [disp EXCEPT ![s] = d]
    /\ th' = [th EXCEPT ![t] = Entered(t, "other", "ok")]
    /\ UNCHANGED <<ppend, sfd, intr, halted, slip>>

(* The caller queues itself and sleeps. *)
Sleep(t) ==
    /\ th[t].pc = "window"
    /\ th' = [th EXCEPT ![t].pc = "sleep"]
    /\ UNCHANGED <<ppend, sfd, disp, intr, halted, slip, events>>

(* What a read waits for arrives; rt_sigtimedwait times out. *)
Wake(t) ==
    /\ Asleep(t)
    /\ \/ th[t].call = "read" /\ th' = [th EXCEPT ![t].act = "wake"]
       \/ th[t].call = "timedwait" /\ th' = [th EXCEPT ![t].act = "timedout"]
    /\ UNCHANGED <<ppend, sfd, disp, intr, halted, slip, events>>

(* The action is applied to the sleeper; its call returns.  A signalfd     *)
(* reader that finds its signal gone blocks again.                         *)
Woken(t) ==
    /\ th[t].act # "none"
    /\ LET me      == [th[t] EXCEPT !.act = "none"]
           Done(r) == /\ th' = [th EXCEPT ![t] = [me EXCEPT !.rv = r, !.pc = "ret"]]
                      /\ UNCHANGED <<ppend, slip>>
           got     == get_all_pending_signals(t) \cap (IF me.call = "signalfd" THEN sfd ELSE me.interest)
           Take    == dequeue_signal(t, select_signal_from_masked(got), [me EXCEPT !.rv = "ok", !.pc = "ret"])
       IN  \/ me.call = "read" /\ Done(IF th[t].act = "nullify" THEN "ERESTARTSYS" ELSE "ok")
           \/ me.call = "suspend" /\ Done(IF get_effective_signals(t) # {} THEN "EINTR" ELSE "ERESTARTNOHAND")
           \/ me.call = "timedwait" /\ th[t].act = "timedout" /\ Done("EAGAIN")
           \/ me.call = "timedwait" /\ th[t].act # "timedout" /\ IF got # {} THEN Take ELSE Done("EINTR")
           \/ me.call = "signalfd" /\ th[t].act = "nullify" /\ Done("ERESTARTSYS")
           \/ /\ me.call = "signalfd" /\ th[t].act = "wake"
              /\ IF got # {} THEN Take
                 ELSE /\ th' = [th EXCEPT ![t] = [me EXCEPT !.pc = "window"]]
                      /\ Slip(get_all_pending_signals(t) \ me.mask, "late")
                      /\ UNCHANGED ppend
    /\ UNCHANGED <<sfd, disp, intr, halted, events>>

-----------------------------------------------------------------------------
(* thread_return *)

(* With a handler and no SA_RESTART, or after rt_sigsuspend and any        *)
(* handler, an interrupted call is over; otherwise it is made again.       *)
check_syscall_restart(t, d) ==
    IF ~th[t].interrupting THEN th[t].rv
    ELSE CASE th[t].rv = "ERESTARTSYS" -> IF d = "handler" THEN "EINTR" ELSE "restarted"
           [] th[t].rv = "ERESTARTNOHAND" -> IF d \in {"handler", "restart"} THEN "EINTR" ELSE "restarted"
           [] OTHER -> th[t].rv

(* One signal that the mask (that of rt_sigsuspend included) lets through, *)
(* then the mask that rt_sigsuspend replaced is put back.                  *)
dispatch_signals(t) ==
    LET masked == get_all_pending_signals(t) \ th[t].mask
        s      == select_signal_from_masked(masked)
        back   == IF th[t].saved # <<>> THEN th[t].saved[1] ELSE th[t].mask
        to     == [th[t] EXCEPT !.saved = <<>>, !.mask = back, !.pc = "user", !.call = "none"]
        acted  == [to EXCEPT !.interrupting = FALSE, !.rv = check_syscall_restart(t, disp[s])]
        called == [acted EXCEPT !.frames = Append(@, back), !.mask = back \cup {s} \cup SaMask[s],
                                !.program = Append(@, Last(@) \cup {s} \cup SaMask[s])]
    IN  /\ th[t].pc = "ret" \/ (th[t].pc = "user" /\ masked # {})
        /\ \/ masked = {} /\ th' = [th EXCEPT ![t] = to] /\ MaskSlips(back) /\ UNCHANGED <<ppend, halted>>
           \/ /\ masked # {}
              /\ dequeue_signal(t, s, IF disp[s] \in {"handler", "restart"} THEN called ELSE acted)
              /\ halted' = (disp[s] = "terminate")
        /\ UNCHANGED <<sfd, disp, intr, events>>

rt_sigreturn(t) ==
    /\ th[t].pc = "user" /\ th[t].frames # <<>>
    /\ th' = [th EXCEPT ![t].mask = Last(th[t].frames), ![t].frames = Front(@), ![t].program = Front(@),
                        ![t].rv = "none", ![t].pc = "ret"]
    /\ MaskSlips(Last(th[t].frames))
    /\ UNCHANGED <<ppend, sfd, disp, intr, halted, events>>

SignalsNext ==
    /\ ~halted
    /\ \/ \E s \in Sigs : kill(s) \/ \E t \in Threads : tgkill(t, s)
       \/ \E t \in Threads :
            \/ deliver_pending_to_thread(t)
            \/ blocking_read(t) \/ pause(t) \/ signalfd_read(t)
            \/ \E m \in Masks :
                 rt_sigsuspend(t, m) \/ signalfd4(t, m) \/ rt_sigprocmask(t, m) \/ rt_sigtimedwait(t, m)
            \/ \E s \in Sigs, d \in {"ignore", "handler", "restart"} : rt_sigaction(t, s, d)
            \/ Sleep(t) \/ Wake(t) \/ Woken(t)
            \/ dispatch_signals(t) \/ rt_sigreturn(t)

SignalsSpec == SignalsInit /\ [][SignalsNext]_sgVars

-----------------------------------------------------------------------------
(* In user mode a thread runs with the mask its program asked for, in and  *)
(* out of handlers: rt_sigsuspend's temporary mask, handlers nested in one *)
(* another and interrupted calls never leave a wrong one.                  *)
MaskIsTheProgrammed ==
    \A t \in Threads : th[t].pc = "user" => th[t].mask = Last(th[t].program) /\ th[t].saved = <<>>

(* Nobody sleeps through a signal: a sleeper that could take a pending     *)
(* signal is being woken, or a thread that can take it is awake.  The      *)
(* exceptions: a thread had decided to block and was not queued yet; it    *)
(* began to block with the signal pending, since one return to user mode   *)
(* dispatches one signal; the thread it was left to masked it; a signalfd  *)
(* was given a larger mask.                                                *)
NobodySleepsThrough ==
    \A t \in Threads : Asleep(t) /\ t \notin intr =>
        \A s \in get_all_pending_signals(t) \cap Wanted(t) :
            \/ slip[s] # {}
            \/ th[t].pend[s] = 0 /\ \E u \in Threads : u \in intr \/ (~Asleep(u) /\ s \in Wanted(u))

(* A program sees an internal restart code only when the signal that       *)
(* interrupted its call was taken by another thread, or was blocked and    *)
(* only waited for through a signalfd or rt_sigtimedwait.                  *)
RestartIsHidden ==
    \A t \in Threads :
        th[t].pc = "user" /\ th[t].rv \in {"ERESTARTSYS", "ERESTARTNOHAND"} => th[t].why # {}
=============================================================================
