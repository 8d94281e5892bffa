----------------------------- MODULE Breakpoint -----------------------------
(***************************************************************************)
(* Software breakpoints of src/hpc/linux/bp.c (breakpoint_enable,          *)
(* breakpoint_disable) and ptrace_attach, ptrace_detach, ptrace_cont and   *)
(* ptrace_getip of ptrace.c, over                                          *)
(* the word-granular PTRACE_PEEKDATA / PTRACE_POKEDATA interface, with the *)
(* tracee running concurrently between the tracer's requests.              *)
(*                                                                         *)
(* A word is W bytes, least significant byte at the lowest address (x86),  *)
(* so "(data & ~0xff) | b" replaces the byte at the word's own address.   *)
(* Every ptrace request is a step of its own: the tracee may stop, trap or *)
(* exit between the PEEKDATA and the POKEDATA of one breakpoint call.      *)
(***************************************************************************)
EXTENDS Integers, FiniteSets

CONSTANTS
  W,                   \* sizeof(long): bytes moved by one PEEK/POKE request
  Addr,                \* addresses of the tracee's mapped text, an interval
  Text,                \* the original bytes of that text, Addr -> byte
  Bps,                 \* the struct breakpoint objects the caller owns
  BpAddr,              \* bp->addr of each of them
  Junk,                \* values bp->saved may hold before the first enable
  WaitsForStop,        \* caller issues requests only to a non-running tracee
  DisablesOnlyEnabled, \* caller disables only an enabled breakpoint
  DisablesBeforeDetach,\* caller detaches only with every breakpoint disabled
  MaxRuns              \* bound on the number of ptrace_cont calls

ASSUME W \in Nat \ {0}
ASSUME BpAddr \in [Bps -> Addr]
ASSUME {WaitsForStop, DisablesOnlyEnabled, DisablesBeforeDetach} \subseteq BOOLEAN

(* Fault variants of the definitions below, each a plausible slip in the *)
(* code; a property that none of them breaks would say nothing.           *)
PEEK_ERR_AS_LONG == -1       \* the failed PEEKDATA's -1 kept as a value
TRAP_LEN_NONE == 0           \* the IP taken as the trap's own address

TRAP == 204            \* 0xcc, the int3 instruction (TRAP_INST)
TRAP_LEN == 1          \* the trap leaves the IP one byte past it
PEEK_ERR == 255        \* every byte of the -1 a failed PEEKDATA returns

VARIABLES
  mem,     \* the tracee's text, Addr -> byte
  bp,      \* Bps -> [saved, enabled]: the caller's struct breakpoint
  tracee,  \* "stopped" | "running" | "exited" | "killed" (by SIGTRAP)
  traced,  \* the tracee is attached to the tracer
  stop,    \* why the tracee last stopped: "none" | "attach" | "trap" | "signal"
  ip,      \* the tracee's instruction pointer after its last stop
  tracer,  \* "alive" | "dead" (CHECK_ERR called die())
  op,      \* the breakpoint call in progress between its PEEK and POKE
  runs     \* ptrace_cont calls made so far

vars == <<mem, bp, tracee, traced, stop, ip, tracer, op, runs>>

Offsets == 0 .. W - 1
AnyBp == CHOOSE b \in Bps : TRUE
Idle == [kind |-> "idle", b |-> AnyBp, data |-> [i \in Offsets |-> 0]]

(* PEEKDATA/POKEDATA succeed in a ptrace-stop, on a word inside the map.  *)
WordOk(a) == tracee = "stopped" /\ tracer = "alive" /\ Offsets \subseteq {x - a : x \in Addr}

PeekData(a) ==
  IF WordOk(a) THEN [i \in Offsets |-> mem[a + i]]
               ELSE [i \in Offsets |-> PEEK_ERR]

PokeData(a, w) ==
  IF WordOk(a) THEN [x \in Addr |-> IF x - a \in Offsets THEN w[x - a] ELSE mem[x]]
               ELSE mem

(* data_with_int3 = int3: the rest of the word not masked back in *)
WithLowByteUnmasked(w, b) == [i \in Offsets |-> IF i = 0 THEN b ELSE 0]

(* (data & ~0xff) | b *)
WithLowByte(w, b) == [w EXCEPT ![0] = b]

(* ptrace_getip: PEEKUSER of the IP, minus TRAP_LEN. *)
ptrace_getip == ip - TRAP_LEN

CallerMayIssue == tracer = "alive" /\ (WaitsForStop => tracee # "running")

Init ==
  /\ mem = Text
  /\ bp \in [Bps -> [saved : Junk, enabled : {FALSE}]]
  /\ tracee = "running"
  /\ traced = FALSE
  /\ stop = "none"
  /\ ip \in Addr
  /\ tracer = "alive"
  /\ op = Idle
  /\ runs = 0

(***************************************************************************)
(* Caller operations.                                                      *)
(***************************************************************************)

(* Fault variant: breakpoint_enable without its "if (bp->enabled)        *)
(* return;", so a second enable saves the int3 it wrote the first time.  *)
BreakpointEnablePeekUnchecked(b) ==
  /\ op.kind = "idle"
  /\ CallerMayIssue
  /\ LET data == PeekData(BpAddr[b]) IN
       /\ bp' = [bp EXCEPT ![b].saved = data[0]]
       /\ op' = [kind |-> "enable", b |-> b, data |-> data]
  /\ UNCHANGED <<mem, tracee, traced, stop, ip, tracer, runs>>

(* breakpoint_enable up to its PEEKDATA: the low byte is saved at once.   *)
BreakpointEnablePeek(b) ==
  /\ op.kind = "idle"
  /\ CallerMayIssue
  /\ ~bp[b].enabled
  /\ LET data == PeekData(BpAddr[b]) IN
       /\ bp' = [bp EXCEPT ![b].saved = data[0]]
       /\ op' = [kind |-> "enable", b |-> b, data |-> data]
  /\ UNCHANGED <<mem, tracee, traced, stop, ip, tracer, runs>>

(* its POKEDATA, whose result is ignored; enabled is set regardless.      *)
BreakpointEnablePoke ==
  /\ op.kind = "enable"
  /\ mem' = PokeData(BpAddr[op.b], WithLowByte(op.data, TRAP))
  /\ bp' = [bp EXCEPT ![op.b].enabled = TRUE]
  /\ op' = Idle
  /\ UNCHANGED <<tracee, traced, stop, ip, tracer, runs>>

(* breakpoint_disable: no check of bp->enabled before the PEEKDATA.       *)
BreakpointDisablePeek(b) ==
  /\ op.kind = "idle"
  /\ CallerMayIssue
  /\ DisablesOnlyEnabled => bp[b].enabled
  /\ op' = [kind |-> "disable", b |-> b, data |-> PeekData(BpAddr[b])]
  /\ UNCHANGED <<mem, bp, tracee, traced, stop, ip, tracer, runs>>

BreakpointDisablePoke ==
  /\ op.kind = "disable"
  /\ mem' = PokeData(BpAddr[op.b], WithLowByte(op.data, bp[op.b].saved))
  /\ bp' = [bp EXCEPT ![op.b].enabled = FALSE]
  /\ op' = Idle
  /\ UNCHANGED <<tracee, traced, stop, ip, tracer, runs>>

(* ptrace_cont: PTRACE_CONT, CHECK_ERR, then a 5 ms nanosleep and no wait. *)
(* A failing PTRACE_CONT (tracee not in a ptrace-stop) ends in die().     *)
ptrace_cont ==
  /\ op.kind = "idle"
  /\ CallerMayIssue
  /\ WaitsForStop => tracee = "stopped"
  /\ runs < MaxRuns
  /\ runs' = runs + 1
  /\ IF tracee = "stopped"
       THEN tracee' = "running" /\ UNCHANGED tracer
       ELSE tracer' = "dead" /\ UNCHANGED tracee
  /\ UNCHANGED <<mem, bp, traced, stop, ip, op>>

(* ptrace_attach: PTRACE_ATTACH, CHECK_ERR, then waitpid(WUNTRACED).  It *)
(* returns with the tracee in the stop the attach's SIGSTOP causes, or,   *)
(* if the tracee exits first, with its exit status: waitpid still returns *)
(* pid, so the check passes.  Attaching to a process that is gone fails,  *)
(* and CHECK_ERR calls die().                                              *)
ptrace_attach ==
  /\ op.kind = "idle"
  /\ tracer = "alive"
  /\ ~traced
  /\ IF tracee = "running"
       THEN /\ traced' = TRUE /\ UNCHANGED tracer
            /\ \/ tracee' = "stopped" /\ stop' = "attach" /\ ip' \in Addr
               \/ tracee' = "exited" /\ UNCHANGED <<stop, ip>>
       ELSE /\ tracer' = "dead" /\ UNCHANGED <<tracee, traced, stop, ip>>
  /\ UNCHANGED <<mem, bp, op, runs>>

(* ptrace_detach: PTRACE_DETACH, CHECK_ERR.  The request needs a tracee in *)
(* a ptrace-stop; on a running or vanished one it fails and die() runs.   *)
(* The tracee resumes with its text as it is.                              *)
ptrace_detach ==
  /\ op.kind = "idle"
  /\ CallerMayIssue
  /\ WaitsForStop => tracee = "stopped"
  /\ traced
  /\ DisablesBeforeDetach => \A b \in Bps : ~bp[b].enabled
  /\ IF tracee = "stopped"
       THEN tracee' = "running" /\ traced' = FALSE /\ UNCHANGED tracer
       ELSE tracer' = "dead" /\ UNCHANGED <<tracee, traced>>
  /\ UNCHANGED <<mem, bp, stop, ip, op, runs>>

(***************************************************************************)
(* The tracee.  It may execute any byte of its text; an int3 stops it     *)
(* under a live tracer that traces it, with the IP one byte past it, and   *)
(* kills it (SIGTRAP) once it is detached or its tracer is gone.          *)
(***************************************************************************)
TraceeTrap(a) ==
  /\ tracee = "running"
  /\ mem[a] = TRAP
  /\ IF tracer = "alive" /\ traced
       THEN /\ tracee' = "stopped" /\ stop' = "trap" /\ ip' = a + 1
       ELSE /\ tracee' = "killed" /\ UNCHANGED <<stop, ip>>
  /\ UNCHANGED <<mem, bp, traced, tracer, op, runs>>

TraceeSignalStop ==
  /\ tracee = "running"
  /\ tracer = "alive"
  /\ traced
  /\ tracee' = "stopped"
  /\ stop' = "signal"
  /\ ip' \in Addr
  /\ UNCHANGED <<mem, bp, traced, tracer, op, runs>>

TraceeExit ==
  /\ tracee = "running"
  /\ tracee' = "exited"
  /\ UNCHANGED <<mem, bp, traced, stop, ip, tracer, op, runs>>

Next ==
  \/ \E b \in Bps : BreakpointEnablePeek(b) \/ BreakpointDisablePeek(b)
  \/ BreakpointEnablePoke
  \/ BreakpointDisablePoke
  \/ ptrace_cont
  \/ ptrace_attach
  \/ ptrace_detach
  \/ \E a \in Addr : TraceeTrap(a)
  \/ TraceeSignalStop
  \/ TraceeExit

Spec == Init /\ [][Next]_vars

(***************************************************************************)
(* Properties.                                                             *)
(***************************************************************************)
Byte == 0 .. 255

TypeOK ==
  /\ mem \in [Addr -> Byte]
  /\ bp \in [Bps -> [saved : Byte, enabled : BOOLEAN]]
  /\ tracee \in {"stopped", "running", "exited", "killed"}
  /\ traced \in BOOLEAN
  /\ stop \in {"none", "attach", "trap", "signal"}
  /\ ip \in Int
  /\ tracer \in {"alive", "dead"}
  /\ op.kind \in {"idle", "enable", "disable"} /\ op.b \in Bps
  /\ op.data \in [Offsets -> Byte]
  /\ runs \in 0 .. MaxRuns

(* The text the tracee executes is its original text with an int3 exactly *)
(* at the address of each enabled breakpoint: breakpoint_enable and        *)
(* breakpoint_disable, by their read-modify-write of whole words, never    *)
(* change another byte, and disable puts back exactly the byte enable      *)
(* took away, whatever the tracee did in between (once it has exited      *)
(* there is no text left to speak of).                                    *)
TextIntact ==
  tracee \in {"stopped", "running"} =>
  \A a \in Addr :
    mem[a] = IF \E b \in Bps : bp[b].enabled /\ BpAddr[b] = a
               THEN TRAP ELSE Text[a]

(* No byte other than a breakpoint's own ever changes: a breakpoint call  *)
(* writes back the rest of the word exactly as it read it.                *)
OtherBytesIntact ==
  \A a \in Addr \ {BpAddr[b] : b \in Bps} : mem[a] = Text[a]

(* When the tracee is stopped by a trap, ptrace_getip names the address of *)
(* one of the caller's breakpoints, so the caller can tell which one hit.  *)
TrapStopNamesBreakpoint ==
  (tracee = "stopped" /\ stop = "trap") =>
    \E b \in Bps : BpAddr[b] = ptrace_getip

(* A tracee that follows its tracer's whole session -- attach, breakpoints *)
(* enabled and hit, disabled, detach, and attach again -- never dies of    *)
(* SIGTRAP: every int3 that breakpoint_enable wrote is gone, word by word, *)
(* once breakpoint_disable has run, so the detached tracee executes none. *)
NoTrapKill == tracee # "killed"

=============================================================================
