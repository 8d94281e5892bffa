---------------------------- MODULE RemoteCallAbs ----------------------------
(***************************************************************************)
(* What a remote system call promises (spec 4.6): the caller asks for a   *)
(* syscall, the tracee executes it exactly once, the caller gets its      *)
(* result, and the tracee's registers are the same before and after.  The *)
(* tracee may be killed at any time, which abandons the call.             *)
(***************************************************************************)
EXTENDS Integers, Sequences

CONSTANTS
  Calls,      \* the syscalls a caller may ask for
  Number,     \* Calls -> syscall number
  Outcomes,   \* syscall number -> the results the kernel may give
  Regs0       \* the tracee's own registers

VARIABLES
  regs,       \* the tracee's registers
  busy,       \* the call in progress, or "none"
  done,       \* the call in progress has been executed
  effects,    \* syscalls the tracee executed: <<number, result>>
  ret,        \* the result the last call returned
  alive       \* the tracee has not exited

vars == <<regs, busy, done, effects, ret, alive>>

Init ==
  /\ regs = Regs0
  /\ busy = "none"
  /\ done = FALSE
  /\ effects = <<>>
  /\ ret = 0
  /\ alive = TRUE

Call(s) ==
  /\ alive /\ busy = "none"
  /\ busy' = s
  /\ UNCHANGED <<regs, done, effects, ret, alive>>

Execute ==
  /\ alive /\ busy # "none" /\ ~done
  /\ \E r \in Outcomes[Number[busy]] :
       effects' = Append(effects, <<Number[busy], r>>)
  /\ done' = TRUE
  /\ UNCHANGED <<regs, busy, ret, alive>>

Return ==
  /\ alive /\ busy # "none" /\ done
  /\ ret' = effects[Len(effects)][2]
  /\ busy' = "none"
  /\ done' = FALSE
  /\ UNCHANGED <<regs, effects, alive>>

Exit ==
  /\ alive
  /\ alive' = FALSE
  /\ busy' = "none"
  /\ done' = FALSE
  /\ UNCHANGED <<regs, effects, ret>>

Next == (\E s \in Calls : Call(s)) \/ Execute \/ Return \/ Exit

Spec == Init /\ [][Next]_vars
=============================================================================
