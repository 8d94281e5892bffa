------------------------------- MODULE WordIO -------------------------------
(***************************************************************************)
(* The word-granular memory access of the tracer: ptrace_read,             *)
(* ptrace_write, ptrace_poke and ptrace_peek_str (src/hpc/linux/ptrace.c)  *)
(* and process_read, process_write (src/hpc/linux/proc.c), each one call   *)
(* of the caller on a stopped tracee, its loop of PEEKTEXT/POKETEXT        *)
(* requests taken whole.                                                   *)
(*                                                                         *)
(* A word is W bytes, little-endian.  PEEK/POKE succeed on a word inside   *)
(* the mapping Addr; a failed PEEK returns -1, all of whose bytes are      *)
(* 0xFF.  The caller passes a fresh buffer of BufCap bytes, each JUNK, to  *)
(* every read; a write's source is len bytes, and ptrace_write copies a    *)
(* whole word from it, so it reads up to W - 1 bytes past the source,     *)
(* whatever the caller's memory holds there.                               *)
(***************************************************************************)
EXTENDS Integers, Sequences, SequencesExt

CONSTANTS
  W,            \* sizeof(long) = sizeof(size_t)
  N,            \* the mapping is the addresses 0 .. N-1
  Text,         \* its contents when the calls begin
  Bytes,        \* byte values of the caller's source buffers
  Lens,         \* lengths (and peek_str sizes) the caller passes
  BufCap,       \* bytes of the caller's buffer (room for any overrun)
  AlignedCalls, \* the caller passes word multiples inside the mapping
  MaxCalls      \* bound on the number of calls

Addr == 0 .. N - 1
Offsets == 0 .. W - 1
BufIdx == 0 .. BufCap - 1
PEEK_ERR_AS_LONG == -1   \* fault variant: the -1 kept whole
PEEK_ERR == 255
JUNK == 99
FreshBuf == [p \in BufIdx |-> JUNK]

ASSUME Text \in [Addr -> 0 .. 255] /\ \A l \in Lens : l + W <= BufCap

VARIABLES
  mem,        \* the tracee's memory
  buf,        \* the caller's buffer of the last read (str of peek_str)
  otext,      \* the otext buffer of the last ptrace_poke
  alive,      \* FALSE once CHECK_ERR called die()
  last,       \* the last call: [op, addr, len, rv, save]
  pre,        \* the tracee's memory before the last call
  lastWrite,  \* the last write: [addr, len, src, rv]
  calls

vars == <<mem, buf, otext, alive, last, pre, lastWrite, calls>>

WordOk(a) == \A k \in Offsets : a + k \in Addr

Peek(m, a) == IF WordOk(a) THEN [k \in Offsets |-> m[a + k]] ELSE [k \in Offsets |-> PEEK_ERR]

Poke(m, a, w) ==
  IF WordOk(a) THEN [x \in Addr |-> IF x - a \in Offsets THEN w[x - a] ELSE m[x]] ELSE m

(* Fault variant: the buffer indexed by words, as ptr[i++] is, at p. *)
PutWordAtWordIndex(b, p, w) ==
  [q \in BufIdx |-> IF q - p * W \in Offsets THEN w[q - p * W] ELSE b[q]]

(* memcpy of a word into the caller's buffer at byte p *)
PutWord(b, p, w) == [q \in BufIdx |-> IF q - p \in Offsets THEN w[q - p] ELSE b[q]]

(* Fault variant: i <= len. *)
StartsThrough(len) == [k \in 1 .. len \div W + 1 |-> (k - 1) * W]

(* for (i = 0; i < len; i += W): the word offsets a loop visits *)
Starts(len) == [k \in 1 .. (len + W - 1) \div W |-> (k - 1) * W]

(***************************************************************************)
(* The writes                                                              *)
(***************************************************************************)

(* process_write: the source copied into a zeroed array of               *)
(* alen = blen + W - blen % W bytes, then every word starting below blen   *)
(* poked, failures ignored; returns 0.                                     *)
process_write(m, addr, len, src) ==
  LET alen == len + W - (len % W)
      ptr == [j \in 0 .. alen - 1 |-> IF j < len THEN src[j + 1] ELSE 0]
  IN FoldLeft(LAMBDA mm, i : Poke(mm, addr + i, [k \in Offsets |-> ptr[i + k]]),
              m, Starts(len))

(* ptrace_write: memcpy of a whole word from vptr + bytes (over the end of *)
(* the source into the bytes `over`), POKETEXT, CHECK_ERR.                 *)
RECURSIVE PtraceWriteFrom(_, _, _, _, _, _)
PtraceWriteFrom(m, addr, len, src, over, bytes) ==
  IF bytes >= len THEN [mem |-> m, dead |-> FALSE]
  ELSE IF ~WordOk(addr + bytes) THEN [mem |-> m, dead |-> TRUE]
  ELSE LET w == [k \in Offsets |-> IF bytes + k < len THEN src[bytes + k + 1]
                                                       ELSE over[bytes + k - len]]
       IN PtraceWriteFrom(Poke(m, addr + bytes, w), addr, len, src, over, bytes + W)

ptrace_write(m, addr, len, src, over) == PtraceWriteFrom(m, addr, len, src, over, 0)

(* Fault variant: the word poked before the old one is saved. *)
RECURSIVE PokeFromPokeFirst(_, _, _, _, _, _, _)
PokeFromPokeFirst(m, ot, addr, len, src, save, copied) ==
  IF copied >= len THEN [rv |-> 0, mem |-> m, otext |-> ot]
  ELSE IF ~WordOk(addr + copied) THEN [rv |-> -1, mem |-> m, otext |-> ot]
  ELSE LET m2 == Poke(m, addr + copied, [k \in Offsets |-> src[copied + k + 1]])
           ot2 == IF save THEN PutWord(ot, copied, Peek(m2, addr + copied)) ELSE ot
       IN PokeFromPokeFirst(m2, ot2, addr, len, src, save, copied + W)

(* ptrace_poke's loop: with otext, PEEKTEXT the old word (a failure with   *)
(* errno set returns -1) and save it; then POKETEXT the new one (a failure *)
(* returns -1).  Words already written stay written.                       *)
RECURSIVE PokeFrom(_, _, _, _, _, _, _)
PokeFrom(m, ot, addr, len, src, save, copied) ==
  IF copied >= len THEN [rv |-> 0, mem |-> m, otext |-> ot]
  ELSE IF ~WordOk(addr + copied) THEN [rv |-> -1, mem |-> m, otext |-> ot]
  ELSE LET ot2 == IF save THEN PutWord(ot, copied, Peek(m, addr + copied)) ELSE ot
           m2 == Poke(m, addr + copied, [k \in Offsets |-> src[copied + k + 1]])
       IN PokeFrom(m2, ot2, addr, len, src, save, copied + W)

(* ptrace_poke: a length that is not a multiple of the word is rejected. *)
ptrace_poke(m, addr, len, src, save) ==
  IF len % W # 0 THEN [rv |-> -1, mem |-> m, otext |-> FreshBuf]
  ELSE PokeFrom(m, FreshBuf, addr, len, src, save, 0)

(***************************************************************************)
(* The reads                                                               *)
(***************************************************************************)

(* process_read: every word starting below blen memcpy'd whole into buf, *)
(* a failed PEEKTEXT included; returns 0.                                  *)
process_read(m, addr, len) ==
  FoldLeft(LAMBDA b, i : PutWord(b, i, Peek(m, addr + i)), FreshBuf, Starts(len))

(* ptrace_read: PEEKTEXT, CHECK_ERR(word == -1), ptr[i++] = word. *)
RECURSIVE PtraceReadFrom(_, _, _, _, _)
PtraceReadFrom(m, addr, len, b, bytes) ==
  IF bytes >= len THEN [buf |-> b, dead |-> FALSE]
  ELSE LET w == Peek(m, addr + bytes) IN
       IF \A k \in Offsets : w[k] = PEEK_ERR THEN [buf |-> b, dead |-> TRUE]
       ELSE PtraceReadFrom(m, addr, len, PutWord(b, bytes, w), bytes + W)

ptrace_read(m, addr, len) == PtraceReadFrom(m, addr, len, FreshBuf, 0)

(* Fault variant: the bound tested before the word is counted. *)
PeekStrOutOfRoom(read, size) == read > size

(* if (read + sizeof(tmp) > size) return -1; *)
PeekStrNoRoom(read, size) == read + W > size

(* Fault variant: memchr over the zeroed str instead of the word read. *)
NulInStr(b, tmp, size) == \E p \in 0 .. size - 1 : b[p] = 0

(* memchr(&tmp, 0, sizeof(tmp)) != NULL *)
NulInWord(b, tmp, size) == \E k \in Offsets : tmp[k] = 0

(* ptrace_peek_str's loop: bound check, PEEKDATA, memcpy, memchr for 0. *)
RECURSIVE PeekStrFrom(_, _, _, _, _)
PeekStrFrom(m, addr, size, b, read) ==
  IF PeekStrNoRoom(read, size) THEN [rv |-> -1, buf |-> b]
  ELSE LET tmp == Peek(m, addr + read)
           b2 == PutWord(b, read, tmp)
       IN IF NulInWord(b2, tmp, size) THEN [rv |-> 0, buf |-> b2]
          ELSE PeekStrFrom(m, addr, size, b2, read + W)

(* memset(str, 0, size), then the loop. *)
ptrace_peek_str(m, addr, size) ==
  PeekStrFrom(m, addr, size, [p \in BufIdx |-> IF p < size THEN 0 ELSE JUNK], 0)

(***************************************************************************)
(* The caller                                                              *)
(***************************************************************************)

(* A call the caller may make: an aligned address and a word multiple    *)
(* when it keeps to AlignedCalls; the range may run past the mapping.     *)
Disciplined(addr, len) ==
  AlignedCalls => addr % W = 0 /\ len % W = 0

Sources(len) == [1 .. len -> Bytes]

Init ==
  /\ mem = Text
  /\ buf = FreshBuf
  /\ otext = FreshBuf
  /\ alive = TRUE
  /\ last = [op |-> "none", addr |-> 0, len |-> 0, rv |-> 0, save |-> FALSE]
  /\ pre = Text
  /\ lastWrite = [addr |-> 0, len |-> 0, src |-> <<>>, rv |-> -1]
  /\ calls = 0

Call(addr, len) ==
  /\ alive
  /\ calls < MaxCalls
  /\ Disciplined(addr, len)
  /\ calls' = calls + 1
  /\ pre' = mem

ProcessWrite(addr, len, src) ==
  /\ Call(addr, len)
  /\ mem' = process_write(mem, addr, len, src)
  /\ last' = [op |-> "process_write", addr |-> addr, len |-> len, rv |-> 0, save |-> FALSE]
  /\ lastWrite' = [addr |-> addr, len |-> len, src |-> src, rv |-> 0]
  /\ UNCHANGED <<buf, otext, alive>>

PtraceWrite(addr, len, src) ==
  /\ Call(addr, len)
  /\ \E over \in [0 .. W - 2 -> Bytes] :
       LET r == ptrace_write(mem, addr, len, src, over) IN
       /\ mem' = r.mem
       /\ alive' = ~r.dead
  /\ last' = [op |-> "ptrace_write", addr |-> addr, len |-> len, rv |-> 0, save |-> FALSE]
  /\ lastWrite' = [addr |-> addr, len |-> len, src |-> src, rv |-> 0]
  /\ UNCHANGED <<buf, otext>>

PtracePoke(addr, len, src, save) ==
  /\ Call(addr, len)
  /\ LET r == ptrace_poke(mem, addr, len, src, save) IN
       /\ mem' = r.mem
       /\ otext' = r.otext
       /\ last' = [op |-> "ptrace_poke", addr |-> addr, len |-> len, rv |-> r.rv, save |-> save]
       /\ lastWrite' = [addr |-> addr, len |-> len, src |-> src, rv |-> r.rv]
  /\ UNCHANGED <<buf, alive>>

ProcessRead(addr, len) ==
  /\ Call(addr, len)
  /\ buf' = process_read(mem, addr, len)
  /\ last' = [op |-> "process_read", addr |-> addr, len |-> len, rv |-> 0, save |-> FALSE]
  /\ UNCHANGED <<mem, otext, alive, lastWrite>>

PtraceRead(addr, len) ==
  /\ Call(addr, len)
  /\ LET r == ptrace_read(mem, addr, len) IN
       /\ buf' = r.buf
       /\ alive' = ~r.dead
  /\ last' = [op |-> "ptrace_read", addr |-> addr, len |-> len, rv |-> 0, save |-> FALSE]
  /\ UNCHANGED <<mem, otext, lastWrite>>

PeekStr(addr, size) ==
  /\ Call(addr, size)
  /\ LET r == ptrace_peek_str(mem, addr, size) IN
       /\ buf' = r.buf
       /\ last' = [op |-> "ptrace_peek_str", addr |-> addr, len |-> size, rv |-> r.rv,
                  save |-> FALSE]
  /\ UNCHANGED <<mem, otext, alive, lastWrite>>

Next ==
  \E addr \in Addr, len \in Lens :
    \/ \E src \in Sources(len) :
         \/ ProcessWrite(addr, len, src)
         \/ PtraceWrite(addr, len, src)
         \/ \E save \in BOOLEAN : PtracePoke(addr, len, src, save)
    \/ ProcessRead(addr, len)
    \/ PtraceRead(addr, len)
    \/ PeekStr(addr, len)

Spec == Init /\ [][Next]_vars

(***************************************************************************)
(* Properties                                                              *)
(***************************************************************************)
Reads == {"process_read", "ptrace_read"}
Writes == {"process_write", "ptrace_write", "ptrace_poke"}
Span(a, l) == {x \in Addr : a <= x /\ x < a + l}

TypeOK ==
  /\ mem \in [Addr -> 0 .. 255]
  /\ buf \in [BufIdx -> 0 .. 255] /\ otext \in [BufIdx -> 0 .. 255]
  /\ alive \in BOOLEAN
  /\ calls \in 0 .. MaxCalls

(* A write of len bytes at addr changes no tracee byte outside            *)
(* [addr, addr + len) (spec 4.4: a length that is not a word multiple is   *)
(* rejected, not rounded): process_write's padding and ptrace_write's      *)
(* over-read never reach the tracee.                                       *)
WriteConfined ==
  last.op \in Writes => \A x \in Addr \ Span(last.addr, last.len) : mem[x] = pre[x]

(* A read of len bytes fills no byte of the caller's buffer past len, and  *)
(* peek_str none past size.                                                *)
BufferConfined ==
  last.op \in Reads \cup {"ptrace_peek_str"} =>
    \A p \in BufIdx : p >= last.len => buf[p] = JUNK

(* Spec 8, round trip: a read of the range inside the mapping the last    *)
(* successful write wrote returns exactly the bytes written, and the read *)
(* completes.                                                              *)
RoundTrip ==
  (/\ last.op \in Reads
   /\ lastWrite.rv = 0 /\ lastWrite.len > 0
   /\ lastWrite.addr + lastWrite.len <= N
   /\ last.addr = lastWrite.addr /\ last.len = lastWrite.len)
    => /\ alive
       /\ \A j \in 1 .. lastWrite.len : buf[j - 1] = lastWrite.src[j]

(* After ptrace_poke with otext, whatever it returned, every byte of the  *)
(* range it changed has its old value in otext, so the caller can undo a  *)
(* partial write.                                                          *)
PokeUndoable ==
  (last.op = "ptrace_poke" /\ last.save) =>
    \A x \in Span(last.addr, last.len) :
       mem[x] # pre[x] => otext[x - last.addr] = pre[x]

(* A string of peek_str reported complete is the tracee's string: the     *)
(* bytes up to the first NUL of str are the tracee's, up to its NUL.       *)
PeekStrSound ==
  (last.op = "ptrace_peek_str" /\ last.rv = 0) =>
    \E k \in 0 .. last.len - 1 :
       /\ buf[k] = 0 /\ last.addr + k \in Addr /\ mem[last.addr + k] = 0
       /\ \A j \in 0 .. k - 1 : buf[j] # 0 /\ buf[j] = mem[last.addr + j]

=============================================================================
