------------------------------- MODULE MCPure -------------------------------
(* The pure parts of src/hpc checked in one run: the widening of          *)
(* read_elf_ehdr (ElfHeader), find_strtab_offset (StrtabSearch),          *)
(* get_libc_info (LibcResolver), the maps queries and calc_jmp            *)
(* (MapsLookup), the index clamps of index.h (IndexClamp), the slab      *)
(* free list of slab.h (Slab) and the word-granular memory access of     *)
(* ptrace.c and proc.c (WordIO), and the streamlined arrays of array.h   *)
(* (StreamlinedArray), the logger of log/write.c (LogWriter) and the     *)
(* breakpoints of bp.c (Breakpoint), and the remote calls of ptrace.c    *)
(* (RemoteCall) against their abstract specification.  All but Slab,    *)
(* WordIO, LogWriter, Breakpoint and RemoteCall are functions of their   *)
(* inputs, so their initial states are those of one module or another,   *)
(* told apart by part; the five others take steps when part names them.  *)
(* The variables of the other parts stay at a fixed value nothing reads. *)
EXTENDS Integers, LibcData, MapsData

VARIABLES
  part,
  magicOk, cls, values,                                   \* ElfHeader
  blob, size, name,                                       \* StrtabSearch
  rmaps, onDisk, hdr, sections, strings, entries, info,   \* LibcResolver
  mmaps, opens, query, res,                               \* MapsLookup
  index, mask, junk, ires,                                \* IndexClamp
  slist, savail, snext, sheld, sinuse,                    \* Slab
  wmem, wbuf, wotext, walive, wlast, wpre, wlastWrite, wcalls, \* WordIO
  aargs, abase, abits, aarr,                              \* StreamlinedArray
  lfd, lhandler, lclock, lstarted, lstart, lpc, lnow, lsecs,
  lop, lcalls, lout,                                      \* LogWriter
  bmem, bbp, btracee, btraced, bstop, bip, btracer, bop, bruns, \* Breakpoint
  ctreg, ctstate, cinsn, cpending, csignals, ceffects, cpc, csys, cregs,
  coriginal, cret, ccalls                                 \* RemoteCall

vars == <<part, magicOk, cls, values, blob, size, name, rmaps, onDisk, hdr,
          sections, strings, entries, info, mmaps, opens, query, res,
          index, mask, junk, ires, slist, savail, snext, sheld, sinuse,
          wmem, wbuf, wotext, walive, wlast, wpre, wlastWrite, wcalls,
          aargs, abase, abits, aarr, lfd, lhandler, lclock, lstarted, lstart,
          lpc, lnow, lsecs, lop, lcalls, lout, bmem, bbp, btracee, btraced, bstop,
          bip, btracer, bop, bruns, ctreg, ctstate, cinsn, cpending, csignals,
          ceffects, cpc, csys, cregs, coriginal, cret, ccalls>>

slabVars == <<slist, savail, snext, sheld, sinuse>>
rcVars == <<ctreg, ctstate, cinsn, cpending, csignals, ceffects, cpc, csys, cregs,
            coriginal, cret, ccalls>>
bpVars == <<bmem, bbp, btracee, btraced, bstop, bip, btracer, bop, bruns>>
logVars == <<lfd, lhandler, lclock, lstarted, lstart, lpc, lnow, lsecs, lop, lcalls, lout>>
wioVars == <<wmem, wbuf, wotext, walive, wlast, wpre, wlastWrite, wcalls>>
pureVars == <<magicOk, cls, values, blob, size, name, rmaps, onDisk, hdr,
              sections, strings, entries, info, mmaps, opens, query, res,
              index, mask, junk, ires, aargs, abase, abits, aarr>>

(* Every machine the dispatch names and one it does not, ARM with and      *)
(* without an EABI version, an even and an odd (Thumb) entry point.        *)
MCMachines == {3, 40, 62, 183, 8}
MCFlags == {0, 5 * 2^24}
MCEntries == {4096, 4097}

Hdr == INSTANCE ElfHeader WITH Machines <- MCMachines, Flags <- MCFlags,
                               Entries <- MCEntries, LibcAddr <- 65536
Str == INSTANCE StrtabSearch WITH Chars <- {1, 2}, MaxBlob <- 6, MaxName <- 3
Res == INSTANCE LibcResolver
         WITH maps <- rmaps, Wanted <- MCWanted, StrPos <- MCStrPos,
              SymValue <- MCSymValue, JunkVals <- MCJunkVals, MapsChoices <- MCMapsAll,
              SecChoices <- MCSecGood, MaxSections <- 3, StringChoices <- MCStrings,
              EntryChoices <- MCEntriesAll
Map == INSTANCE MapsLookup
         WITH maps <- mmaps, MapsChoices <- MCMapsChoices, PathParts <- MCPathParts,
              Addrs <- {4096, 12288, 70000}, JunkVals <- {0, 7777}, IntBits <- 8,
              JmpEnds <- {0, 10, 132, 133, 134}
(* Five-bit words with two-bit byte registers: every mask from 0 to all   *)
(* ones, and a byte write that leaves upper bits to clear.                *)
Idx == INSTANCE IndexClamp WITH res <- ires, W <- 5, ByteBits <- 2

(* Four-bit u32 fields over four slabs: ~0U is 15, and a caller may     *)
(* hold every slab at once.                                               *)
Slb == INSTANCE Slab WITH list <- slist, avail <- savail, next <- snext,
                          held <- sheld, inuse <- sinuse, W <- 4, Total <- 4,
                          MaxHeld <- 4, FromSlabInit <- FALSE

(* Two-byte words over a six-byte mapping that holds a string "ab" at 0, *)
(* and two bytes without a NUL at its end.                                *)
WioText == [a \in 0 .. 5 |-> CASE a = 0 -> 97 [] a = 1 -> 98 [] a = 2 -> 0
                             [] a = 3 -> 0 [] OTHER -> 120]
Wio == INSTANCE WordIO WITH mem <- wmem, buf <- wbuf, otext <- wotext,
                            alive <- walive, last <- wlast, pre <- wpre,
                            lastWrite <- wlastWrite, calls <- wcalls,
                            W <- 2, N <- 6, Text <- WioText, Bytes <- {0, 7},
                            Lens <- {2, 4}, BufCap <- 6, AlignedCalls <- TRUE,
                            MaxCalls <- 2

(* Four-bit words; designators up to 3 and two items, so that a literal  *)
(* of every length from 0 to 5 and both readings of BUILD_TIME_NUM_BITS  *)
(* occur, with DEFINE_ARRAY_STREAMLINED(1)'s [2] = anchor among them.     *)
Arr == INSTANCE StreamlinedArray WITH args <- aargs, base <- abase, bits <- abits,
                                      arr <- aarr, W <- 4, ByteBits <- 2,
                                      Anchor <- "anchor", Vals <- {"a", "b"},
                                      MaxIdx <- 3, MaxArgs <- 2

(* Two threads, every cap on, a 48-byte msg[] (512 in the code) and a     *)
(* 4-byte identification: the header is 28 bytes, 30 with a wrapped       *)
(* timestamp.  Dumps with a clamped negative indent (width 16): one full *)
(* row, and a full and a partial row; indent 7 (width 15): nothing, and a *)
(* full and a partial row; indent 66 (width 1): a row per byte.           *)
LogDumps == {[req |-> 1, prefix |-> 3, ind |-> i, len |-> l] :
               <<i, l>> \in {<<-1, 16>>, <<-1, 17>>, <<7, 0>>, <<7, 17>>, <<66, 3>>}}
Log == INSTANCE LogWriter
         WITH log_fd <- lfd, handler <- lhandler, clock <- lclock, started <- lstarted,
              start <- lstart, pc <- lpc, now <- lnow, secs <- lsecs, op <- lop,
              calls <- lcalls, out <- lout, Threads <- {"t1", "t2"}, PIPE_BUF <- 48,
              Caps <- {"LEVEL", "TIMESTAMP", "IDENT"}, IdentLen <- 4, MsgLens <- {0, 15},
              Files <- {"stdout", "none"}, MaxCalls <- 1, MaxTime <- 2,
              Requires <- {0, 2}, LogVerbose <- 1, LogSilent <- FALSE,
              Dumps <- LogDumps, B16BUF <- 289

(* Two-byte words over a six-byte text whose bytes are all distinct, so  *)
(* a clobbered neighbour is always visible; two breakpoints in one word, *)
(* one of them straddling two words; a zero-initialised struct           *)
(* breakpoint; a caller that waits for stops, disables only enabled      *)
(* breakpoints and disables all before it detaches.                      *)
Bp == INSTANCE Breakpoint
        WITH mem <- bmem, bp <- bbp, tracee <- btracee, traced <- btraced, stop <- bstop,
             ip <- bip, tracer <- btracer, op <- bop, runs <- bruns, W <- 2,
             Addr <- 0 .. 5, Text <- [a \in 0 .. 5 |-> a + 1], Bps <- {"b1", "b2"},
             BpAddr <- [b \in {"b1", "b2"} |-> IF b = "b1" THEN 1 ELSE 2],
             Junk <- {0}, WaitsForStop <- TRUE, DisablesOnlyEnabled <- TRUE,
             DisablesBeforeDetach <- TRUE, MaxRuns <- 3

(* Remote calls from a tracee stopped on a syscall instruction, with no   *)
(* signal sent to it; one page address or ENOMEM from mmap, 0 or          *)
(* EACCES from mprotect, three calls.                                     *)
Rc == INSTANCE RemoteCall
        WITH treg <- ctreg, tstate <- ctstate, insn <- cinsn, pending <- cpending,
             signals <- csignals, effects <- ceffects, pc <- cpc, sys <- csys,
             regs <- cregs, original <- coriginal, ret <- cret, calls <- ccalls,
             Insns <- {"syscall"}, MmapResults <- {4096, -12},
             MprotectResults <- {0, -13}, MaxSignals <- 0, MaxCalls <- 3

HdrIdle == magicOk = FALSE /\ cls = 0 /\ values = <<>>
StrIdle == blob = <<>> /\ size = 0 /\ name = <<>>
ResIdle == rmaps = <<>> /\ onDisk = FALSE /\ hdr = "" /\ sections = <<>>
           /\ strings = {} /\ entries = <<>> /\ info = <<>>
MapIdle == mmaps = <<>> /\ opens = FALSE /\ query = <<>> /\ res = <<>>
IdxIdle == index = 0 /\ mask = 0 /\ junk = 0 /\ ires = <<>>
SlbIdle == slist = 0 /\ savail = 0 /\ snext = <<>> /\ sheld = <<>> /\ sinuse = FALSE
WioIdle == wmem = <<>> /\ wbuf = <<>> /\ wotext = <<>> /\ walive = FALSE
           /\ wlast = <<>> /\ wpre = <<>> /\ wlastWrite = <<>> /\ wcalls = 0
ArrIdle == aargs = <<>> /\ abase = "" /\ abits = 0 /\ aarr = <<>>
LogIdle == lfd = 0 /\ lhandler = FALSE /\ lclock = 0 /\ lstarted = FALSE /\ lstart = 0
           /\ lpc = <<>> /\ lnow = <<>> /\ lsecs = <<>> /\ lop = <<>> /\ lcalls = <<>>
           /\ lout = <<>>
RcIdle == ctreg = <<>> /\ ctstate = "" /\ cinsn = "" /\ cpending = FALSE /\ csignals = 0
          /\ ceffects = <<>> /\ cpc = "" /\ csys = "" /\ cregs = <<>> /\ coriginal = <<>>
          /\ cret = 0 /\ ccalls = 0
BpIdle == bmem = <<>> /\ bbp = <<>> /\ btracee = "" /\ btraced = FALSE /\ bstop = ""
          /\ bip = 0 /\ btracer = "" /\ bop = "" /\ bruns = 0

Parts == {"ehdr", "strtab", "resolver", "maps", "index", "slab", "wordio", "array", "log",
          "breakpoint", "rcall"}

PartInit(p) ==
  CASE p = "ehdr" -> Hdr!Init [] p = "strtab" -> Str!Init [] p = "resolver" -> Res!Init
    [] p = "maps" -> Map!Init [] p = "index" -> Idx!Init [] p = "slab" -> Slb!Init
    [] p = "wordio" -> Wio!Init [] p = "array" -> Arr!Init [] p = "log" -> Log!Init
    [] p = "breakpoint" -> Bp!Init [] p = "rcall" -> Rc!Init

Idle(p) ==
  CASE p = "ehdr" -> HdrIdle [] p = "strtab" -> StrIdle [] p = "resolver" -> ResIdle
    [] p = "maps" -> MapIdle [] p = "index" -> IdxIdle [] p = "slab" -> SlbIdle
    [] p = "wordio" -> WioIdle [] p = "array" -> ArrIdle [] p = "log" -> LogIdle
    [] p = "breakpoint" -> BpIdle [] p = "rcall" -> RcIdle

(* One part starts from its own initial states, every other one idle. *)
Init ==
  \E p \in Parts : /\ part = p
                  /\ PartInit(p)
                  /\ \A q \in Parts \ {p} : Idle(q)

(* The slab, word I/O, logger, breakpoint and remote call steps, and the stutter that *)
(* ends every other part.                                                 *)
Next ==
  \/ part = "slab" /\ Slb!Next /\ UNCHANGED <<part, pureVars, wioVars, logVars, bpVars, rcVars>>
  \/ part = "wordio" /\ Wio!Next /\ UNCHANGED <<part, pureVars, slabVars, logVars, bpVars, rcVars>>
  \/ part = "log" /\ Log!Next /\ UNCHANGED <<part, pureVars, slabVars, wioVars, bpVars, rcVars>>
  \/ part = "breakpoint" /\ Bp!Next /\ UNCHANGED <<part, pureVars, slabVars, wioVars, logVars, rcVars>>
  \/ part = "rcall" /\ Rc!Next /\ UNCHANGED <<part, pureVars, slabVars, wioVars, logVars, bpVars>>
  \/ UNCHANGED vars

Spec == Init /\ [][Next]_vars

(* read_elf_ehdr: a 32-bit header widened in place reads as the same    *)
(* fields and architecture as its 64-bit encoding.                       *)
ClassAgnostic == part = "ehdr" => Hdr!ClassAgnostic

(* find_strtab_offset: a non-zero result is where the name, NUL and all, *)
(* occurs inside .dynstr.                                                 *)
FoundIsOccurrence == part = "strtab" => Str!FoundIsOccurrence

(* get_libc_info: the base a success reports is libc's load bias, start *)
(* minus offset, also when the r-xp mapping is not the file's first.     *)
BaseIsLoadBias == part = "resolver" => Res!BaseIsLoadBias

(* get_libc_info: a well-formed libc is never rejected.                   *)
GoodLibcAccepted == part = "resolver" => Res!GoodLibcAccepted

(* libc_lookup_base of the path libc_lookup_path found is libc's bias.   *)
LibcBaseIsBias == part = "maps" => Map!LibcBaseIsBias

(* calc_jmp lands on its target, and fails exactly outside int32_t.      *)
JumpEncodes == part = "maps" => Map!JumpEncodes

(* index_pow2_0b, in C, x86, x86-modern, AArch64 and branch form, reads  *)
(* arr[index] when index < mask + 1 and arr[mask] otherwise.              *)
ZeroBasedClamped == part = "index" => Idx!ZeroBasedClamped

(* index_pow2_1b with msb = ~mask, in every form, reads index when it is  *)
(* within the mask and the anchor 0 otherwise.                            *)
OneBasedClamped == part = "index" => Idx!OneBasedClamped

(* slab_alloc and slab_free from the list pages_reset threads: the free  *)
(* list is exactly the unheld slabs, avail long, and none is handed out  *)
(* twice.                                                                 *)
FreeListExact == part = "slab" => Slb!FreeListExact

(* ptrace_write, process_write and ptrace_poke of word-multiple lengths,  *)
(* runs past the mapping's end and failed partial pokes included, change *)
(* no tracee byte outside [addr, addr + len).                             *)
WriteConfined == part = "wordio" => Wio!WriteConfined

(* ptrace_read, process_read and ptrace_peek_str fill no byte of the     *)
(* caller's buffer past len.                                              *)
BufferConfined == part = "wordio" => Wio!BufferConfined

(* A read of the range the last successful write wrote returns its bytes. *)
RoundTrip == part = "wordio" => Wio!RoundTrip

(* ptrace_poke's otext holds the old value of every byte it changed.      *)
PokeUndoable == part = "wordio" => Wio!PokeUndoable

(* A string ptrace_peek_str reports complete is the tracee's string.     *)
PeekStrSound == part = "wordio" => Wio!PeekStrSound

(* name##_at of any u32 index reads inside the array, and the anchor for *)
(* an index past the mask, 0-based and 1-based.                          *)
AnchorClamps == part = "array" => Arr!AnchorClamps

(* log_open leaves a descriptor the logger can write to, and the log     *)
(* calls' state keeps its types.                                         *)
LogTypeOK == part = "log" => Log!TypeOK

(* Every line __log_atomic_printf and __log_atomic_write_b16 emit for a *)
(* message that fits is NUL-free and ends in exactly one newline.        *)
LineWellFormed == part = "log" => Log!LineWellFormed

(* A hex dump's rows show each byte of the buffer once, in order.        *)
B16Complete == part = "log" => Log!B16Complete

(* PEEK/POKE of breakpoint_enable and breakpoint_disable keep the bytes *)
(* and the breakpoint records of the types the text and struct hold.     *)
BreakpointTypeOK == part = "breakpoint" => Bp!TypeOK

(* Through attach, enables, disables, continues and detach, the text is *)
(* the original but for int3 at the enabled breakpoints.                 *)
TextIntact == part = "breakpoint" => Bp!TextIntact

(* At a trap stop ptrace_getip names the address of one of the caller's *)
(* breakpoints.                                                           *)
TrapStopNamesBreakpoint == part = "breakpoint" => Bp!TrapStopNamesBreakpoint

(* Through attach, breakpoints hit, disable, detach and attach again,    *)
(* breakpoint_disable removes every int3, so the tracee never dies of    *)
(* SIGTRAP.                                                               *)
NoTrapKill == part = "breakpoint" => Bp!NoTrapKill
(* ptrace_page_alloc and ptrace_page_protect, request by request, are an  *)
(* atomic remote system call (RemoteCallAbs): every step of the remote    *)
(* call part is a step of the abstract call or leaves its state alone.    *)
ImplementsRemoteCallAbs ==
  /\ part = "rcall" => Rc!Abs!Init
  /\ [][part = "rcall" => [Rc!Abs!Next]_(Rc!Abs!vars)]_vars
=============================================================================
