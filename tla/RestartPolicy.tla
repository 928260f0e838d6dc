--------------------------- MODULE RestartPolicy ---------------------------
(***************************************************************************)
(* How a QEMU VM's end becomes a restart: the guest's exit status travels  *)
(* through the kernel's vm_exit, QEMU's isa-debug-exit device and the      *)
(* process status to the monitor (internal/vm/exit.go, qemu.go), which     *)
(* decides by policy and retry count and waits out a backoff.              *)
(***************************************************************************)
EXTENDS Integers

CONSTANTS
    Codes,      \* what guests pass to exit_group
    Policies,   \* restart policies to consider
    Limits,     \* values of MaxRetries to consider
    MaxCount    \* bound: restarts followed

ASSUME CodesAssumption == Codes \subseteq Nat /\ MaxCount \in Nat /\ Limits \subseteq Nat

VARIABLES
    policy, maxRetries,  \* Cfg.Restart
    acpi,    \* the machine's ACPI tables offer power-off: the kernel sets vm_halt
    stage,   \* "running", "backoff", "ended", "failed" (the restart itself)
    count,   \* RestartCount
    cause,   \* how the VM ended last (history)
    wait     \* seconds the current backoff sleeps

config == <<policy, maxRetries, acpi>>
restartVars == <<policy, maxRetries, acpi, stage, count, cause, wait>>

(* How a hypervisor ends: the guest exits (QEMU's stderr is empty or holds      *)
(* warnings), QEMU fails and says so, QEMU is killed, the guest is powered off,  *)
(* or a client asked for it.                                                     *)
Cause(h, g, e) == [how |-> h, code |-> g, stderr |-> e]
Causes == {Cause("guest", g, "") : g \in Codes}
          \cup {Cause("guest", g, "warning") : g \in Codes}
          \cup {Cause("qemu", 0, "error")}
          \cup {Cause(h, 0, "") : h \in {"signal", "poweroff", "explicit"}}

(* vm_exit: a u8 code; vm_halt goes first because no image's manifest sets       *)
(* debug_exit, and loses the code; otherwise QEMU_HALT writes it to the port and *)
(* QEMU exits with (code << 1) | 1, of which the process status keeps 8 bits.    *)
vm_exit(code) == IF acpi THEN 0 ELSE (2 * (code % 256) + 1) % 256

(* The hypervisor's process status; -1 is a signal. *)
ExitCode(c) ==
    CASE c.how = "guest"  -> vm_exit(c.code)
      [] c.how = "qemu"   -> 1
      [] c.how = "signal" -> -1
      [] OTHER            -> 0

(* guestExitCode, -1 for "not ok". *)
guestExitCode(st) == IF st <= 0 \/ st % 2 = 0 THEN -1 ELSE st \div 2

(* Mutant: QEMU's own exit(1) is taken for a guest's exit(0). *)
isFailureExitByCode(c) ==
    LET code == guestExitCode(ExitCode(c)) IN
    IF code = -1 THEN ExitCode(c) # 0 ELSE code # 0

(* Only a non-warning diagnostic counts. *)
qemuErrored(c) == c.stderr = "error"

(* isFailureExit: code 0 is QEMU's own failure if it left a diagnostic. *)
isFailureExit(c) ==
    LET code == guestExitCode(ExitCode(c)) IN
    CASE code = -1 -> ExitCode(c) # 0
      [] code > 0  -> TRUE
      [] OTHER     -> qemuErrored(c)

(* (1 << n) * time.Second in 64 bits.  A second is 2^9 * 5^9 ns, so the        *)
(* product is 2^(n+9) times 5^9 modulo 2^(55-n): exact below n = 34, negative  *)
(* when bit 54-n of 5^9 is set, zero from n = 55 on.                           *)
Residue(n) == IF n < 34 THEN 5 ^ 9 ELSE IF n < 55 THEN (5 ^ 9) % (2 ^ (55 - n)) ELSE 0
Negative(n) == n \in 34..54 /\ Residue(n) >= 2 ^ (54 - n)

(* What restartVM sleeps, in seconds; a negative or zero duration is no wait. *)
backoff(n) ==
    CASE n <= 4                           -> 2 ^ n
      [] Negative(n) \/ Residue(n) = 0    -> 0
      [] OTHER                            -> 30

shouldRestart(c) ==
    /\ c.how # "explicit"
    /\ policy = "always" \/ (policy = "on-failure" /\ isFailureExit(c))
    /\ maxRetries > 0 => count < maxRetries

NoCause == Cause("none", 0, "")

RestartInit ==
    /\ policy \in Policies /\ maxRetries \in Limits /\ acpi \in BOOLEAN
    /\ stage = "running" /\ count = 0 /\ cause = NoCause /\ wait = 0

(* The tail of monitor. *)
monitor(c) ==
    /\ stage = "running"
    /\ cause' = c
    /\ IF shouldRestart(c)
       THEN stage' = "backoff" /\ wait' = backoff(count)
       ELSE stage' = "ended" /\ UNCHANGED wait
    /\ UNCHANGED <<config, count>>

(* restartVM after the sleep: the replacement carries the count on. *)
restartVM ==
    /\ stage = "backoff" /\ count < MaxCount
    /\ stage' = "running"
    /\ count' = count + 1
    /\ UNCHANGED <<config, cause, wait>>

(* Creating or starting the replacement fails: nobody tries again. *)
restartVMError ==
    /\ stage = "backoff"
    /\ stage' = "failed"
    /\ UNCHANGED <<config, count, cause, wait>>

RestartNext == restartVM \/ restartVMError \/ \E c \in Causes : monitor(c)

RestartSpec == RestartInit /\ [][RestartNext]_restartVars

-----------------------------------------------------------------------------
(* What on-failure should restart: a guest that exits nonzero, a QEMU that     *)
(* fails on its own and one that is killed (the comment of isFailureExit).     *)
Failed(c) == (c.how = "guest" /\ c.code % 256 # 0) \/ c.how \in {"qemu", "signal"}

(* A failure that does not reach the host: ACPI power-off loses the code, and  *)
(* the process status drops the bit that tells 128 from 0.                     *)
Masked(c) == c.how = "guest" /\ (acpi \/ c.code % 128 = 0)

(* on-failure tells crashes from clean ends, end to end: as long as retries    *)
(* remain, a VM waits for its restart exactly when it failed, and the only     *)
(* failures missed are those of a guest behind ACPI power-off and the one code *)
(* whose low seven bits are zero.                                              *)
OnFailureIsExact ==
    /\ policy = "on-failure" /\ stage \in {"backoff", "ended"}
    /\ maxRetries = 0 \/ count < maxRetries
    => (stage = "backoff" <=> Failed(cause) /\ ~Masked(cause))

(* A VM with a limit is restarted that many times and not once more, whatever  *)
(* the sequence of its ends.                                                   *)
RetriesAreBounded ==
    maxRetries > 0 => /\ count <= maxRetries
                      /\ stage = "backoff" => count < maxRetries

(* restartVM's backoff is exponential and capped at 30 s up to the 33rd        *)
(* restart.  From then on the 64-bit duration wraps: the wait is 30 s or none, *)
(* and none at all from the 55th on.                                           *)
BackoffIsExponential ==
    stage = "backoff" =>
        /\ count < 34 => wait = (IF count < 5 THEN 2 ^ count ELSE 30)
        /\ count \in 34 .. 54 => wait \in {0, 30}
        /\ count > 54 => wait = 0

(* Which ends of a VM lead to a restart, how often and after what wait. *)
RestartIsExact == OnFailureIsExact /\ RetriesAreBounded /\ BackoffIsExponential
=============================================================================
