# TLA+ models of the hpc ptrace instrumentation core

This directory holds TLA+ models of n13l/hpc: the ptrace-based
instrumentation engine (`src/hpc/linux/`), the logger it reports through
(`src/hpc/log/`, `log.h`), and the constant-time index clamps of `index.h`.
TLC checks them. Every module is written from the C source. `spec.md` is used
only to state what the code is meant to do.

## 1. The system

### Components

The core is four C files. The spec (section 2) names seven components in them.

| Component | Source | State it keeps | Operations that change state |
|---|---|---|---|
| MapReader | `proc.c` 54-221 | none: it reads `/proc/<pid>/maps` on every call | `proc_lookup_base`, `libc_lookup_path`, `libc_lookup_base`, `proc_is_mem_mapped`, `proc_lookup_mem_cave` (queries) |
| ElfParser | `libc/elf.c` 313-425 | the `FILE *` position and the caller's `Elf_Ehdr` | `read_elf_ehdr` (widens a 32-bit header in place), `read_elf_shdr`, `read_elf_sym`, `find_strtab_offset` |
| LibcResolver | `libc/elf.c` 36-311 | `struct libc_info` | `get_libc_info`: it opens libc, scans the sections, looks up four symbols and dispatches on the architecture |
| PtraceIO | `ptrace.c`, `proc.c` 258-283 | the tracee: its registers, its memory and its stop state | attach, detach, getregs, setregs, cont, PEEK/POKE, `ptrace_read`, `ptrace_write`, `ptrace_poke`, `ptrace_peek_str`, `process_read`, `process_write` |
| BreakpointManager | `bp.c`, `proc.h` 13-18 | `struct breakpoint {pid, addr, saved, enabled}` | `breakpoint_enable`, `breakpoint_disable` |
| RemoteCall | `ptrace.c` 140-197 | the tracee's registers, plus a local `regs` and `original_regs` | `ptrace_page_alloc` (mmap), `ptrace_page_protect` (mprotect) |
| PatchUtility | `proc.c` 198-221, 318-325 | none | `calc_jmp`, and the cave search |

Beside the core, four more parts have behaviour worth checking. The spec
calls them external collaborators.

| Component | Source | State it keeps | Operations that change state |
|---|---|---|---|
| Logging | `log.h` 88-330, `log/atomic.h` 94-125, `log/write.c` | `log_fd`, `log_msg_handler`, and the timestamp statics `started` and `start`; each call's line is built in `msg[PIPE_BUF]` on its own stack | `log_open`, `log_set_handler`, and each log macro, which reaches `__log_asynch_safe_atomic_vprintf` or `b16_indent` |
| Index clamps | `index.h` 117-310 | none | `index_pow2_0b_*` and `index_pow2_1b_*`, in C and in x86 and AArch64 inline assembly |
| Streamlined arrays | `array.h` 91-276 | none: each is a constant array `name[1 << BITS]` with `name##_size` and `name##_mask` | the `DEFINE_`/`STATIC_` macros lay it out, and `name##_at` reads it through an index clamp |
| Slab allocator | `mem/slab.h`, `mem/page.c` 41-50 | `struct slab_vm {list, avail, ...}` and each free slab's `avail` link | `slab_init`, `slab_alloc`, `slab_free`, `slab_fini`; `pages_reset` threads the same kind of list |

Every core component logs through the macros of `log.h`, from any thread.
The streamlined arrays of `array.h` read their slots through the index
clamps. The rest of `src/` is the rest of the host allocator, bit macros, a module
registration macro, an ASLR toggle and tests (see section 5).

### How the components interact

Data flows upward through the table.
- LibcResolver reads the maps, parses libc's ELF file and produces the
  addresses and syscall numbers.
- BreakpointManager and RemoteCall issue ptrace requests to a tracee. The
  tracee runs concurrently with the tracer.
- Each request is a separate system call. Between any two of them, the tracee
  may run, stop on a trap or signal, or be killed.
- A failing request goes through `CHECK_ERR`, which calls `die()`. The tracer
  exits and the kernel detaches the tracee.

### What is hard

- **The tracer and the running tracee interleave.**
  - `ptrace_cont` sleeps 5 ms instead of waiting, so the next request can find
    the tracee still running.
  - A breakpoint's PEEK and POKE are two separate requests.
- **Signals preempt a single step.** A signal-delivery-stop is reported before
  the stepped instruction runs.
- **`die()` between two SETREGS** leaves the tracee with the syscall frame
  still loaded.
- **Word granularity.**
  - A word may cross the end of a mapping.
  - A failed PEEK returns -1, which is indistinguishable from real data.
  - A partial last word is padded or overrun.
- **In-place widening.** The 32-bit ELF header is widened inside the 64-bit
  struct that holds it, so the order of the copies matters.
- **Substring search.** The string-table search restarts naively after a
  partial match.
- **Boundaries.** Symbol-table sizes, the 32-bit displacement range, and the
  cave heuristic.
- **Threads that log at once.** The logger's timestamp statics are read and
  written by every thread, with no lock.
- **Would-be lengths.** The logger advances its pointer by what `vsnprintf`
  would have written, not by what it stored.
- **Dump widths.** The width of a hex dump shrinks with the indent and
  reaches 0, then goes negative.
- **Flags and byte registers in inline assembly.** The clamps depend on the
  operand order of `cmp` and on clearing a register before a byte write.

PROJECT.json lists every hazard at its source line.

### What makes each component correct

- **BreakpointManager.** The text the tracee executes is its original text,
  with int3 exactly at the enabled breakpoints. Disable puts back what enable
  took away. A trap stop names a breakpoint.
- **RemoteCall.**
  - Outside a call, the tracee holds its own registers.
  - The result is the syscall's result.
  - The whole call behaves as one atomic syscall in the tracee
    (`RemoteCallAbs`).
- **ElfParser.** Decoding is class-agnostic. The string search returns an
  occurrence (and should return the first one; it does not).
- **LibcResolver.** `rv == 0` implies that the base is the load bias, and
  that every address is the base plus the symbol's value (it does not when a
  name has no `.dynsym` entry).
- **PtraceIO.** A write followed by a read gives back the same bytes, and no
  byte beyond `len` changes.
- **MapReader.** `libc_lookup_base` of libc's path is its load bias. The
  cave search returns an anonymous executable mapping, or not-found. It
  does not do that.
- **PatchUtility.** `calc_jmp` returns `to - from - 5` or fails. It never
  truncates.
- **Logging.** Every line handed to `write(2)` or to the handler is built
  inside `msg[]`. It holds no NUL and ends with one newline. A timestamp
  counts the seconds since the first stamped line. A hex dump shows every
  byte once, in order.
- **Index clamps.** Every variant reads `arr[index]` for a valid index. For
  any other index, the 0-based variants read the last slot and the 1-based
  ones read the anchor at 0.

## 2. Modules

Most modules below have an MC module (`MC<Name>.tla`) that gives their
constants values for TLC. `MCPure.tla` instantiates every component that
needs no fairness. `Slab` and `StreamlinedArray` take their constants from
their own `.cfg` files for their violation runs.

### `Breakpoint.tla` (bp.c, and ptrace_attach, ptrace_detach, ptrace_cont and ptrace_getip of ptrace.c)

**State:**
- `mem`: the tracee's text, byte by byte.
- `bp`: the caller's breakpoints.
- `tracee`: stopped, running, exited, or killed by SIGTRAP, together with
  `stop` and `ip`.
- `traced`: whether the tracee is attached. The tracee starts running and
  untraced.
- `tracer`: alive, or dead after `die()`.
- `op`: the breakpoint call that sits between its PEEK and its POKE.

**Actions:**
- `breakpoint_enable` is split at its two ptrace requests:
  - `BreakpointEnablePeek`: the enabled guard, the PEEK, and `saved` being set.
  - `BreakpointEnablePoke`: the POKE, with its result ignored, then
    `enabled = 1`.
- `breakpoint_disable` is split the same way, into `BreakpointDisablePeek` and
  `BreakpointDisablePoke`.
- `ptrace_cont`.
- `ptrace_attach`: PTRACE_ATTACH and its `waitpid(WUNTRACED)` as one step.
  The wait returns the attach stop, or the exit of a tracee that dies first;
  both pass the `!= pid` check. Attaching to a gone process calls `die()`.
- `ptrace_detach`: it needs a ptrace-stop, or `die()` runs. It leaves the
  text as it is.
- The tracee's own steps: a trap, a signal stop (traced only), and exit. An
  int3 stops a traced tracee with a live tracer. Otherwise it kills the
  tracee.

**Memory access:**
- PEEK and POKE act on whole words of `W` bytes, little-endian.
- They succeed only in a ptrace-stop, and only on a word that lies inside the
  mapping.
- A failed PEEK returns all-0xFF bytes.

**Caller discipline.** Two constants state the discipline the callers are
meant to follow:
- `WaitsForStop`: the caller waits for the tracee to stop before the next
  request.
- `DisablesOnlyEnabled`: the caller disables only enabled breakpoints.
- `DisablesBeforeDetach`: the caller detaches only when every breakpoint is
  disabled. Spec 4.4 says detach "does not roll back already-applied memory
  mutations".

The violation runs turn them off.

### `RemoteCall.tla` and `RemoteCallAbs.tla` (ptrace.c 140-197)

**State:**
- the tracee's registers, abstracted to `rax`, the arguments and the IP;
- the tracee's state;
- the instruction at its IP;
- a pending signal;
- the syscalls the tracee executed;
- the tracer's program counter inside the call, with `regs`, `original_regs`
  and the result.

**Actions.** Every ptrace request is a step of its own:
1. `Begin`: GETREGS.
2. `SetRegs`: the frame.
3. `SingleStep`.
4. `WaitPid`.
5. `GetRegs`.
6. `Restore`.

`SignalSent`, `StepDone` and `Killed` are the kernel's steps.

`FairSpec` adds weak fairness on the tracer's steps inside a call
(`TracerStep`) and on `StepDone`. Starting a call, signals and kills get no
fairness.

**Refinement.** `RemoteCallAbs` is the promise: `Call`, one atomic `Execute`,
then `Return` with the original registers. The refinement mapping presents
`original_regs` as the tracee's registers while a call is in progress.
`MCPure` checks it as the `rcall` part: its `ImplementsRemoteCallAbs` is the
initial condition of `RemoteCallAbs` and the action property that every step
of the part is a `RemoteCallAbs` step or leaves the mapped state alone.

### `StrtabSearch.tla` (elf.c 313-334)

`find_strtab_offset` is written as a `RECURSIVE` operator over byte sequences.

### `ElfHeader.tla` (elf.c 336-381, 199-253)

`read_elf_ehdr` is modelled byte by byte over the 64-byte buffer:
- Each field is decoded and encoded little-endian at its `Elf32` or `Elf64`
  offset.
- The in-place widening is a `FoldLeft` over the code's copy order.

The architecture switch of `get_libc_info` is `get_libc_arch`. Init picks
a class, a machine, flags and entry point; `ClassAgnostic` compares the
widened 32-bit header and the architecture it yields with the 64-bit one.

### `LibcResolver.tla` (elf.c 36-311, 383-425)

`get_libc_info` and `open_libc` are sequential, so the module is a pure
operator: Init picks a maps file, whether the libc file opens, the header
outcome, a section table (up to `MaxSections`), the wanted names present in
`.dynstr` and the `.dynsym` entries, and then one of the outcomes
`get_libc_info` can produce for them.
- `open_libc`: the first line naming libc, whatever its permissions. The
  `" r-xp"` after the two conversions of `sscanf` is not counted in its
  result, so it filters nothing. A deleted or unopenable file fails;
  otherwise the libc address is the line's *start*. That first line is the
  file's offset-0 mapping, so the start is the load bias (`BaseIsLoadBias`),
  also on a glibc whose code mapping comes second (`MapsSplit`).
- `ScanSections` (RECURSIVE): the section loop, with its early exit once both
  sections are found, the `fgets` failure that leaves through `cleanup` with
  `rv = 0`, and the division by `sh_entsize`.
- `LookupSym`: the first `.dynsym` entry with the name offset; when none has
  it the offset local is never assigned and is a choice among `JunkVals`.

### `WordIO.tla` (ptrace.c 90-245, proc.c 258-283)

The word-level memory primitives over a tracee memory of `N` bytes and a
caller buffer of `BufCap` bytes. Each call is one action, run to the end
(the tracee is stopped for the whole call): `ProcessWrite`, `PtraceWrite`,
`PtracePoke`, `ProcessRead`, `PtraceRead`, `PeekStr`. Each loop is a
RECURSIVE operator over words; a word that leaves the mapping fails as the
kernel fails it (POKE does nothing, PEEK gives all 0xFF), and `CHECK_ERR`
sets `alive` to FALSE. `AlignedCalls` states the caller discipline of word
multiples.

### `MapsLookup.tla` (proc.c 54-221, 318-325)

Each maps query is one sequential pass over the lines of
`/proc/<pid>/maps`, so each query is an operator over a sequence of line
records `[start, end, perms, offset, dev, path]`.

**How the code's string handling is modelled:**
- `strstr(line, s)` is `Has`: `s` is the perms, or one of the strings found
  in the path (`PathParts`). The empty string is found in every line.
- `proc_lookup_mem_cave`'s `sscanf` is `CaveScan`. It leaves the offset text
  in `str` and the device in `name`, as the format does.
- A local that is read but never assigned is a choice among `JunkVals`.

**State:** Init picks a maps file (`MapsData.tla`), whether `fopen`
succeeds, the query inputs (`addr`, `from`, `to`), and every outcome the
code produces.

**What a failed `fopen` does:**
- `proc_lookup_base` and the two libc lookups call `exit(1)`.
- `proc_is_mem_mapped` and the cave search return 0.

**`calc_jmp`** works on `IntBits`-bit integers. The code's width is 32; the
range check does not depend on it.

### `LogWriter.tla` (log/write.c, log/atomic.h, log.h)

**State:**
- `log_fd`, set by `log_open`, and whether a handler is installed.
- The wall clock.
- The statics `started` and `start`.
- For each thread: its `pc` inside the call, its local `now`, its `c->secs`,
  the call it is making (`op`) and how many calls it has made.
- `out`: every call emitted, with the lines it handed to `write(2)` or to
  the handler.

**Actions:**
- `Call` is a macro of `log.h`. It is gated by
  `!log_silent && log_verbose >= require`.
- `do_log_cap_timestamp` is one step per access to a shared static:
  `GetNow`, `CheckStarted`, `SetStart`, `CopyStart`, `ClearStarted`,
  `StampSecs`.
- `Emit` is the rest of the call, which runs on the thread's own stack.
- `Tick` advances the clock.

**How the buffers are modelled:**
- `msg[]` is a function from the offsets written to the bytes stored. `Sent`
  reports any offset outside `msg[PIPE_BUF]`.
- `snprintf` and `vsnprintf` store at most `size - 1` bytes and a NUL, and
  return the full length.
- `strlcpy` and `strlcat` are in closed form. The successive `strlcat`s of a
  dump row equal one `strlcat` of the pieces joined.
- Bytes are abstracted to their roles (header, message, newline, NUL, hex
  digit, ...). A field is as long as its format makes it.

**Simplification:** `b16_indent` re-stamps the header for each row. The
model gives every row the first row's stamp.

### `IndexClamp.tla` (index.h 117-310)

Every variant is an operator over `W`-bit unsigned words. The header's
algorithms use no constant tied to 32 bits.

**How the assembly is modelled:**
- Each inline-assembly variant is its instruction sequence.
- `cmpl`, `testl`, `cmp` and `tst` produce flag records.
- `seta`, `sete`, `cmovbe` and `csel hi`/`csel eq` read those flags.
- A `setcc` replaces only the low `ByteBits` bits of its register.
- An early-clobber output register starts with arbitrary contents (`junk`).

The 1-based variants get `msb = ~mask`, as the arrays of `array.h` pass it.

### `Slab.tla` (mem/slab.h 18-111, mem/page.c 41-50)

**State:**
- `list` and `avail`: the fields of `struct slab_vm`, as u32 of `W` bits.
- `next`: each slab's `avail` header, the link to the next free slab.
  `~0U` (`NIL`) ends the list.
- `held`: how often each index has been handed out and not yet freed.
- `inuse`: whether the caller has not yet called `slab_fini`.

**Actions:**
- `slab_alloc`: it pops the head through `get_slab_safe`. It returns NULL
  when the head is `~0U`. A head outside the mapping reads an arbitrary link.
- `slab_free`: it pushes a slab back.
- `slab_fini`: the caller gives up the vm. Because of the inverted
  `MAP_FAILED` test, a good mapping is never unmapped.

**Initial state.** `slab_init` maps the slabs but sets no list. The
constant `FromSlabInit` chooses between two starts:
- `slab_init`: every header reads 0 (fresh anonymous pages), and `list` and
  `avail` hold whatever the caller's `struct slab_vm` held.
- Otherwise, the list that `pages_reset` threads through the same layout:
  every slab is linked to the next, and the last to `~0U`. This is the list
  `slab_alloc` and `slab_free` take for granted.

### `StreamlinedArray.tla` (array.h 91-276)

It models the arrays that `DEFINE_CONST_ARRAY`, `STATIC_CONST_ARRAY`, their
1-based forms and the `(bits)` wrappers define. The model has no steps:
Init picks an array definition, and the properties are about its layout and
its reads.

**State:**
- `args`: the items of `__VA_ARGS__`. Each item has an optional designator
  (`at`, 1..3, or `Pos`) and a value (`anchor`, `a` or `b`). The
  `[1<<bits] = anchor` that the `(bits)` wrappers pass is one such item.
- `base`: whether the array is 0-based or 1-based.
- `bits`: what `BUILD_TIME_NUM_BITS` gives for the size.
- `arr`: the array that `{ [0 ... MASK] = anchor, __VA_ARGS__ }` leaves.

**How the layout is computed.**
- `Targets` places the items as C does. A designated item sets its own slot.
  Any other item sets the slot after the previous one, and after the range
  `[0 ... MASK]` that slot is `MASK + 1`.
- `LiteralLen` is the length of `(type[]){__VA_ARGS__}`.
- `ARRAY_SIZE_0B_ARGS` adds the anchor's slot to it; `ARRAY_SIZE_1B_ARGS`
  does not.
- `Layout` lets later items override earlier ones, and drops items past the
  `1 << BITS` slots.

**Undefined names.** No file defines `BUILD_TIME_NUM_BITS`,
`verify_0bi32pow2` or `verify_1bi32pow2`.
- `bits` is either reading of "the bits of SIZE": the least `k` with
  `SIZE <= 2^k`, or with `SIZE < 2^k`.
- `name##_at` reads `name[verify(index)]`. For `verify`, `AtSlots` takes
  every `index_pow2_0b` or `index_pow2_1b` variant of IndexClamp, through an
  `INSTANCE` whose variables are fixed. The 1-based arrays get
  `msb = ~mask`.

### `MCPure.tla`

This module checks every component without fairness in one run, as ten
parts.
- The functions of their inputs: ElfHeader, StrtabSearch, LibcResolver
  (well-formed files), MapsLookup, IndexClamp and StreamlinedArray.
- The parts that take steps: Slab, WordIO, LogWriter, Breakpoint and
  RemoteCall (`rcall`, stopped on a syscall, no signals, 3 calls, checked
  against `RemoteCallAbs`).

How it is put together:
- Each part is `INSTANCE`d with its own variables and constants.
- Init picks one part (`part`). The variables of the other parts stay at a
  value nothing reads (`Idle`).
- A part that takes steps takes them only when `part` names it. Every other
  part only stutters.
- Each property is guarded by its part.

The parts never interact, so the run checks each of them exactly as a run
of its own would.

`LibcData.tla` and `MapsData.tla` hold the maps files, section tables and
strings that the MC modules share.

## 3. Runs

PROJECT.json lists each run with its properties. For every property of a
passing run it also lists a mutant: a plausible slip in the mapped code that
TLC must then catch.

| Run | Expect | What it shows |
|---|---|---|
| breakpoint_no_wait | violation | `ptrace_cont` sleeps instead of waiting, so the PEEK sees a running tracee and the POKE writes `0xFF` over the neighbouring byte (`OtherBytesIntact`). |
| remote_call | pass | `RegsOwnedByTracee` holds across 2 calls, with a signal, and with kills between any two requests. Under `FairSpec`, every call that starts ends (`CallEnds`), including when the tracee is killed mid-step. |
| remote_call_signal | violation | A signal during `SINGLESTEP` makes `page_alloc` return 9, the syscall number (`ResultIsSyscallResult`). |
| libc_missing_entry | violation | A name in `.dynstr` with no `.dynsym` entry leaves its offset local unassigned, and `get_libc_info` returns 0 with an address nobody computed (`SymbolsResolved`, spec 4.2). |
| word_io_unaligned_write | violation | `process_write` of 1 byte zero-pads the word and pokes all of it, overwriting the tracee byte after the range (`WriteConfined`; spec 4.4 says such a length is rejected). |
| pure | pass | Ten parts, each over all of its bounded inputs or behaviours (see `MCPure.tla`).<br>- The widened ELF header equals the 64-bit one (`ClassAgnostic`). A string-table hit is a real occurrence. The reported libc base is the load bias, also when its code is its second mapping (`BaseIsLoadBias`), and well-formed libc files are accepted. `libc_lookup_base` of libc's path is its load bias. `calc_jmp` lands on its target, or exits exactly outside int32.<br>- Every index clamp variant reads the right slot (`ZeroBasedClamped`, `OneBasedClamped`). `name##_at` of any streamlined array, for any index, reads inside it, and reads the anchor past the mask (`AnchorClamps`).<br>- Over any sequence of `slab_alloc`/`slab_free` on 4 slabs, the free list is exactly the unheld slabs, `avail` long, and no slab is handed out twice (`FreeListExact`).<br>- Word I/O (W = 2, N = 6, 2 word-multiple calls): writes stay in range and reads stay in the buffer. A write then a read round-trips. A failed `ptrace_poke` can be undone from `otext`. `ptrace_peek_str` returns only NUL-terminated strings.<br>- Two threads log messages and hex dumps of every indent class. Every line holds no NUL and ends in one newline (`LineWellFormed`). Every dump shows each byte once, in order (`B16Complete`).<br>- A disciplined caller attaches, works with 2 breakpoints, continues up to 3 times, detaches and attaches again, under every interleaving with the tracee's traps, signals and exit. The text stays original but for int3 (`TextIntact`), every trap stop names a breakpoint, and the tracee never dies of SIGTRAP (`NoTrapKill`).<br>- `page_alloc`/`page_protect`, 3 calls from a tracee stopped on a syscall with no signal, refine `RemoteCallAbs` (`ImplementsRemoteCallAbs`). |
| maps_cave | violation | `proc_lookup_mem_cave` compares the offset, not the device, with `00:00`. It returns the last `r-xp` mapping, and an unassigned local when there is none (`CaveIsAnonymous`). |
| log_long_message | violation | A message longer than the room left moves `p` past `msg[]` by `vsnprintf`'s would-be length. The newline and the `write(2)` range fall outside the buffer (`MsgConfined`). |
| libc_no_entsize | violation | A `.dynsym` with `sh_entsize` 0 makes `get_libc_info` divide by zero. The tracer dies of SIGFPE instead of reporting a malformed file (`NoCrash`, spec 7). |
| array_layout | violation | `DEFINE_CONST_ARRAY_STREAMLINED` with positional elements: they go to `MASK + 1` and beyond, past the array's end, so none of them is in the array, against the header's "elements to be initialized after the anchor" (`ElementsAfterAnchor`). This holds under either reading of `BUILD_TIME_NUM_BITS`. |
| slab_init_state | violation | From the state `slab_init` leaves (zeroed headers, any `list` and `avail`), the free list is not the free slabs. `slab_alloc` hands out slab 0 again and again (`FreeListExact`). |
| log_timestamp_race | violation | Two first log calls at once: one thread reads `now`, the other then stores a later `start` and clears `started`, and the first, finding it cleared, stores `now - start < 0` in the unsigned `secs`, a count near 2^32 (`TimestampSinceStart`). |

Other defects found while modelling are listed as hazards in PROJECT.json,
each with the constants that expose it:
- disable of a never-enabled breakpoint;
- a breakpoint at the end of a mapping;
- the IP not moved to `code_addr`;
- the naive restart of `find_strtab_offset`;
- a section name that cannot be read;
- the word overruns of `ptrace_read` and `process_read`;
- a dump indent of 67 to 70, where the width is 0 (negative above 70).

**Why the bounds are enough:**
- **Breakpoint.** Two breakpoints on adjacent bytes with `W = 2` put both in
  one word, which is the interesting overlap. Three continues let a trap, a
  signal stop and an exit each happen.
- **RemoteCall.** Two remote calls show a second call after a first one that
  was disturbed.
- **StrtabSearch.** Strings of length 6 contain every overlap pattern of a
  name of 2 or 3 bytes.
- **WordIO.** `N = 6` with `W = 2` has three words, so a range can start, end
  or cross the end of the mapping. Two calls give a write then a read.
- **LibcResolver.** Up to 3 sections put `.dynstr` and `.dynsym` in either
  order, with another section before, between or after them. The maps
  files are an old glibc (one `r-xp` mapping), a split one (`r--p` at offset
  0, then `r-xp`), a deleted libc and none.
- **MapsLookup.** The maps files are:
  - libc split over two segments, with an offset;
  - an anonymous `r-xp` region before libc;
  - libc at offset 0;
  - a file with no `r-xp` line.

  The addresses probe inside, between and outside the mappings. `IntBits = 8`
  with `from`/`to` in {0, 10, 132, 133, 134} puts deltas at `INT_MAX`,
  `INT_MAX + 1`, and below `INT_MIN`.
- **LogWriter.**
  - `PIPE_BUF = 48` with a 28-byte header leaves room for 17 message bytes and the NUL.
    A 15-byte message fits with room to spare; 20 bytes overruns.
  - Two threads and `MaxTime = 2` let the first two stamps interleave.
  - The dump cases cover:
    - a clamped negative indent (width 16), with one full row, then with a
      full and a partial row;
    - indent 7 (width 15), with nothing, then with a full and a partial row;
    - indent 66 (width 1).
  - Requires 0 and 2 against verbosity 1 gate one call through and one out.
- **Slab.** Four slabs with 4-bit fields (`~0U` = 15), and a caller that may
  hold all of them. This allocates from an empty list, frees in any order,
  and reaches every shape of the list.
- **StreamlinedArray.** Designators up to 3 and up to two items give
  literals of every length from 0 to 5, under both readings of
  `BUILD_TIME_NUM_BITS`. Among them are a literal whose length is a power of
  two (where a missing anchor slot would show), and the `[2] = anchor` of a
  `(bits)` wrapper with `bits = 1`. Four-bit words let every index, up to
  all ones, be read.
- **IndexClamp.** `W = 5` gives every mask from 0 to all ones, and every
  index. `ByteBits = 2 < W` leaves upper bits for a missing `xorl` to
  expose.

**Deadlock.** `pure` has the stutter step of its pure parts, so it never
deadlocks. The log runs, the remote-call runs and `breakpoint_no_wait` set
`CHECK_DEADLOCK FALSE`. The callers make a bounded number of calls, and
after `die()` the tracer really stops. In the Breakpoint part, `die()`
follows an attach to a tracee that has exited.

**Fairness.** Only `remote_call` uses fairness (`FairSpec`), because the
remote call is the only place the code blocks: its `waitpid`.
- The tracer is one sequential thread, so each of its steps inside a call is
  weakly fair.
- The kernel completes a `PTRACE_SINGLESTEP` it has started, so `StepDone`
  is weakly fair.
- Starting a call, signals and SIGKILL are the environment's choice, so they
  get no fairness.

`CallEnds` needs `waitpid` to return on every way a single step can end. The
mutant `WaitPidStopOnly` returns only on a stop, and it hangs after a
SIGKILL. The other components have no blocking step: a log call finishes in
a bounded number of its own steps, and `ptrace_cont` does not wait at all.

## 4. Plan

The project keeps at most 12 runs. Every pass run without fairness is a part
of `pure`, so each violation run is one finding.

**Composition.** A session module could compose Breakpoint and WordIO's
patch writes into the same words.

**Allocator.** `slab_fini`'s inverted `MAP_FAILED` test would need a
`mapped` variable and a violation run.

## 5. Not modelled

| Part | Why it is not modelled |
|---|---|
| Host allocator, the rest (`mem/`) | Slab models `slab.h`'s free list and `slab_init`'s state. These parts are not modelled:<br>- The release of the mapping in `slab_fini`: no state the model keeps would tell it apart. Its inverted test is a hazard.<br>- The `index << shift` addressing.<br>- `pages_alloc`'s mmap and size arithmetic.<br>- `cache.h`, which only declares functions. |
| The rest of `array.h` | `ARRAY_BITS` is a floating-point `log2` that nothing uses. Each `FIELD_*_AT` macro is one memory access at an offset. `VISIT_ARRAY_BITS_NUM` is a loop macro that nothing calls. |
| `ptrace_cont`'s `timespec` | It is malloc'ed on every call and never freed. The model keeps no heap, so the leak is out of its reach. |
| `libc_lookup_path`'s `strcpy` and `libc_lookup_base` with an empty path | Paths are model values. No caller under `src/` passes a too-small buffer or the empty path on. The `strcpy` is a hazard. |
| `bits.h` | It is included nowhere and does not compile: `ones()` is undefined, it has the type `int unsigned int`, it uses `C` for `c`, and it contains U+2212 minus signs. |
| `bitset.h` | It holds no code under test. |
| The logger's configuration setters (`log_name`, `log_setcaps`, `log_getcaps`, `log_close`) | The caps, the verbosity and the silence are constants of each run. |
| The module macro | A registration macro, with no state machine. |
| `aslr.c` | A single `personality()` call. |
| `yama.c` | A comment. |
| The syscall name table and the register structs | Static data for printing. |
| The Catch2 tests | Tests, not part of the system. |

Everything is modelled for an x86-64 LP64 host; `ptrace.c` supports only
x86. The i386 host build of `read_elf_ehdr` is not modelled.
