----------------------------- MODULE RemoteCall -----------------------------
(***************************************************************************)
(* Remote system calls of src/hpc/linux/ptrace.c: ptrace_page_alloc (mmap) *)
(* and ptrace_page_protect (mprotect).  Each is a sequence of ptrace       *)
(* requests -- GETREGS, SETREGS of a syscall frame, SINGLESTEP, waitpid,   *)
(* GETREGS, SETREGS of the saved registers -- and every request is a step  *)
(* of its own, so a signal for the tracee or a SIGKILL may come between    *)
(* any two of them.  A request that fails goes through CHECK_ERR to die(). *)
(*                                                                         *)
(* The register file is abstracted to the fields the calls touch: rax     *)
(* (syscall number in, result out), the argument registers as one value   *)
(* naming whose arguments they hold, and the instruction pointer.          *)
(***************************************************************************)
EXTENDS Integers, Sequences

CONSTANTS
  Insns,          \* what the instruction at the tracee's IP may be
  MmapResults,    \* what mmap(0, 4096, R|X, PRIVATE|ANON, -1, 0) may return
  MprotectResults,\* what mprotect(addr, 4096, prot) may return
  MaxSignals,     \* signals that may be sent to the tracee
  MaxCalls        \* bound on the remote calls the caller makes

ASSUME Insns \subseteq {"syscall", "other"} /\ Insns # {}

NR_mmap == 9        \* __NR_mmap on x86-64
NR_mprotect == 10   \* __NR_mprotect on x86-64
SYSCALL_LEN == 2    \* 0f 05
UserRegs == [rax |-> 1000, args |-> "user", ip |-> 0]

VARIABLES
  treg,       \* the tracee's registers
  tstate,     \* "stopped" | "stepping" | "exited"
  insn,       \* the instruction at the tracee's IP
  pending,    \* a signal is pending for the tracee
  signals,    \* signals sent so far
  effects,    \* system calls the tracee executed: <<number, result>>
  pc,         \* where the tracer is in the remote call, or "dead"
  sys,        \* the call in progress: "mmap" | "mprotect"
  regs,       \* the tracer's local struct user_regs_struct regs
  original,   \* the tracer's original_regs
  ret,        \* what the last call returned
  calls       \* remote calls started so far

vars == <<treg, tstate, insn, pending, signals, effects, pc, sys, regs,
          original, ret, calls>>

Nr(s) == IF s = "mmap" THEN NR_mmap ELSE NR_mprotect

ENOSYS == -38

(* What the kernel's syscall of number n with these arguments may return. *)
Results(n) ==
  CASE n = NR_mmap     -> MmapResults
    [] n = NR_mprotect -> MprotectResults
    [] OTHER           -> {ENOSYS}

(* Fault variants of SyscallFrame and Restore: the number register left   *)
(* unset, mmap's number used for every call, the working copy restored.   *)
SyscallFrameNoRax(r, s) == [r EXCEPT !.args = s]
SyscallFrameMmapOnly(r, s) == [r EXCEPT !.rax = NR_mmap, !.args = s]

(* The frame page_alloc / page_protect build in the copy of the registers: *)
(* rax, rdi, rsi, rdx (and r10, r8, r9); the IP is left where it is.       *)
SyscallFrame(r, s) == [r EXCEPT !.rax = Nr(s), !.args = s]

Stopped == tstate = "stopped"

Init ==
  /\ treg = UserRegs
  /\ tstate = "stopped"
  /\ insn \in Insns
  /\ pending = FALSE
  /\ signals = 0
  /\ effects = <<>>
  /\ pc = "idle"
  /\ sys = "mmap"
  /\ regs = UserRegs
  /\ original = UserRegs
  /\ ret = 0
  /\ calls = 0

(***************************************************************************)
(* The tracer.                                                             *)
(***************************************************************************)

(* GETREGS into regs; original_regs = regs. *)
Begin(s) ==
  /\ pc = "idle"
  /\ calls < MaxCalls
  /\ calls' = calls + 1
  /\ sys' = s
  /\ IF Stopped
       THEN /\ regs' = treg /\ original' = treg /\ pc' = "setregs"
       ELSE /\ pc' = "dead" /\ UNCHANGED <<regs, original>>
  /\ UNCHANGED <<treg, tstate, insn, pending, signals, effects, ret>>

ptrace_page_alloc == Begin("mmap")
ptrace_page_protect == Begin("mprotect")

(* Fill in the syscall frame, then PTRACE_SETREGS. *)
SetRegs ==
  /\ pc = "setregs"
  /\ regs' = SyscallFrame(regs, sys)
  /\ IF Stopped
       THEN treg' = regs' /\ pc' = "step"
       ELSE pc' = "dead" /\ UNCHANGED treg
  /\ UNCHANGED <<tstate, insn, pending, signals, effects, sys, original, ret, calls>>

(* PTRACE_SINGLESTEP: the tracee runs one instruction. *)
SingleStep ==
  /\ pc = "step"
  /\ IF Stopped
       THEN tstate' = "stepping" /\ pc' = "wait"
       ELSE pc' = "dead" /\ UNCHANGED tstate
  /\ UNCHANGED <<treg, insn, pending, signals, effects, sys, regs, original, ret, calls>>

(* Fault variant: a wait that returns only for a stopped tracee, as a    *)
(* loop until WIFSTOPPED(status) would.                                   *)
WaitPidStopOnly ==
  /\ pc = "wait"
  /\ tstate = "stopped"
  /\ pc' = "getregs"
  /\ UNCHANGED <<treg, tstate, insn, pending, signals, effects, sys, regs, original, ret, calls>>

(* waitpid(pid, &status, 0) blocks until the tracee stops or exits; its   *)
(* result and the status are only logged (proc_status).                   *)
WaitPid ==
  /\ pc = "wait"
  /\ tstate # "stepping"
  /\ pc' = "getregs"
  /\ UNCHANGED <<treg, tstate, insn, pending, signals, effects, sys, regs, original, ret, calls>>

(* PTRACE_GETREGS: the result is whatever rax now holds. *)
GetRegs ==
  /\ pc = "getregs"
  /\ IF Stopped
       THEN regs' = treg /\ pc' = "restore"
       ELSE pc' = "dead" /\ UNCHANGED regs
  /\ UNCHANGED <<treg, tstate, insn, pending, signals, effects, sys, original, ret, calls>>

RestoreWorkingCopy ==
  /\ pc = "restore"
  /\ IF Stopped
       THEN /\ treg' = regs /\ ret' = regs.rax /\ pc' = "idle"
       ELSE /\ pc' = "dead" /\ UNCHANGED <<treg, ret>>
  /\ UNCHANGED <<tstate, insn, pending, signals, effects, sys, regs, original, calls>>

(* PTRACE_SETREGS of original_regs, then return rax as the result, cast   *)
(* to a pointer for mmap and to int for mprotect (both results fit).      *)
Restore ==
  /\ pc = "restore"
  /\ IF Stopped
       THEN /\ treg' = original /\ ret' = regs.rax /\ pc' = "idle"
       ELSE /\ pc' = "dead" /\ UNCHANGED <<treg, ret>>
  /\ UNCHANGED <<tstate, insn, pending, signals, effects, sys, regs, original, calls>>

(***************************************************************************)
(* The tracee and the kernel.                                              *)
(***************************************************************************)

(* A signal is sent to the tracee. *)
SignalSent ==
  /\ tstate # "exited"
  /\ signals < MaxSignals
  /\ pending' = TRUE
  /\ signals' = signals + 1
  /\ UNCHANGED <<treg, tstate, insn, effects, pc, sys, regs, original, ret, calls>>

(* The single step ends.  A pending signal is reported first, as a        *)
(* signal-delivery-stop, before the instruction runs; otherwise the        *)
(* instruction runs, and if it is a syscall the kernel executes the call   *)
(* numbered by rax.                                                        *)
StepDone ==
  /\ tstate = "stepping"
  /\ tstate' = "stopped"
  /\ IF pending
       THEN /\ pending' = FALSE
            /\ UNCHANGED <<treg, effects>>
       ELSE /\ UNCHANGED pending
            /\ IF insn = "syscall"
                 THEN \E r \in Results(treg.rax) :
                        /\ treg' = [treg EXCEPT !.rax = r, !.ip = @ + SYSCALL_LEN]
                        /\ effects' = Append(effects, <<treg.rax, r>>)
                 ELSE /\ treg' = [treg EXCEPT !.ip = @ + 1]
                      /\ UNCHANGED effects
  /\ UNCHANGED <<insn, signals, pc, sys, regs, original, ret, calls>>

(* SIGKILL, from anyone, at any time. *)
Killed ==
  /\ tstate # "exited"
  /\ tstate' = "exited"
  /\ UNCHANGED <<treg, insn, pending, signals, effects, pc, sys, regs, original, ret, calls>>

Next ==
  \/ ptrace_page_alloc \/ ptrace_page_protect
  \/ SetRegs \/ SingleStep \/ WaitPid \/ GetRegs \/ Restore
  \/ SignalSent \/ StepDone \/ Killed

Spec == Init /\ [][Next]_vars

(* The tracer's steps inside a call, and the kernel's completion of a     *)
(* single step.  The tracer is a plain sequential program: once a step of *)
(* it is enabled it is taken.  The kernel ends a PTRACE_SINGLESTEP it has *)
(* started.  The caller starting a call, signals and SIGKILL are the      *)
(* environment's choice and get no fairness.                              *)
TracerStep == SetRegs \/ SingleStep \/ WaitPid \/ GetRegs \/ Restore

FairSpec == Spec /\ WF_vars(TracerStep) /\ WF_vars(StepDone)

(***************************************************************************)
(* Properties.                                                             *)
(***************************************************************************)
TypeOK ==
  /\ treg \in [rax : Int, args : {"user", "mmap", "mprotect"}, ip : Nat]
  /\ tstate \in {"stopped", "stepping", "exited"}
  /\ pc \in {"idle", "setregs", "step", "wait", "getregs", "restore", "dead"}
  /\ sys \in {"mmap", "mprotect"}
  /\ effects \in Seq({NR_mmap, NR_mprotect} \X (MmapResults \cup MprotectResults))
  /\ calls \in 0 .. MaxCalls

(* Whenever the tracer is outside a remote call -- returned, or dead by    *)
(* CHECK_ERR -- a live tracee holds exactly its own registers: the syscall *)
(* frame never survives a call, and die() never strands a live tracee in   *)
(* the middle of one.                                                      *)
RegsOwnedByTracee ==
  (pc \in {"idle", "dead"} /\ tstate # "exited") => treg = UserRegs

(* Every remote call that has started ends: the tracer returns to its    *)
(* caller, or dies in CHECK_ERR.  The one blocking call, waitpid, returns *)
(* whatever ends the single step: the step itself, a signal-delivery-stop *)
(* or the tracee's death by SIGKILL in the middle of the call.            *)
CallEnds == pc \notin {"idle", "dead"} ~> pc \in {"idle", "dead"}

(* What a remote call returns is the result of the system call it asked   *)
(* for, executed once in the tracee (spec 4.6: the syscall's own result   *)
(* is reported, not masked).                                               *)
ResultIsSyscallResult ==
  (pc = "idle" /\ calls > 0) =>
    /\ Len(effects) = calls
    /\ effects[calls] = <<Nr(sys), ret>>

(***************************************************************************)
(* Refinement: with the tracee stopped on a syscall instruction and no     *)
(* signal sent to it, the call sequence implements RemoteCallAbs.  Inside *)
(* a call the tracee's visible registers are the snapshot in original_regs *)
(* (the tracee does not run, bar the one step, until they are restored).  *)
(***************************************************************************)
InCall == pc \notin {"idle", "dead"} /\ tstate # "exited"

Abs == INSTANCE RemoteCallAbs WITH
  Calls <- {"mmap", "mprotect"},
  Number <- [s \in {"mmap", "mprotect"} |-> Nr(s)],
  Outcomes <- [n \in {NR_mmap, NR_mprotect} |-> Results(n)],
  Regs0 <- UserRegs,
  regs <- IF \/ pc \in {"idle", "setregs"}
             \/ pc = "dead" /\ tstate # "exited"
          THEN treg ELSE original,
  busy <- IF InCall THEN sys ELSE "none",
  done <- InCall /\ Len(effects) = calls,
  effects <- effects,
  ret <- ret,
  alive <- tstate # "exited"

(* The remote call implements its abstract specification. *)
ImplementsRemoteCallAbs == Abs!Spec

=============================================================================
