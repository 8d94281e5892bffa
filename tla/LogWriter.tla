------------------------------ MODULE LogWriter ------------------------------
(***************************************************************************)
(* The "lock-free and asynch-safe" logger of src/hpc/log/write.c: threads *)
(* that log a message at the same time, each composing its line on its    *)
(* own stack (a header of snprintf'd fields, then vsnprintf of the        *)
(* message, then '\n') and emitting it with one write(2) of at most       *)
(* PIPE_BUF bytes, which POSIX makes atomic.  The only shared state is    *)
(* the configuration and the launch time behind the timestamp, which      *)
(* do_log_cap_timestamp reads and writes without synchronisation, so      *)
(* each of its accesses is a step of its own.                             *)
(*                                                                         *)
(* Data is abstracted to what the properties tell apart: a header byte is *)
(* "h", a message byte "m"; a field is a sequence of them whose length is *)
(* the length its format produces.  The pid, tid, name, module and        *)
(* function fields are one field of IdentLen bytes.  PIPE_BUF is 512 in   *)
(* the code and a smaller constant here; the arithmetic is the same.      *)
(***************************************************************************)
EXTENDS Integers, Sequences, SequencesExt, FiniteSets

CONSTANTS
  Threads,    \* the threads that log
  PIPE_BUF,   \* size of the stack buffer msg[], and the atomic write bound
  Caps,       \* log_caps: a subset of {"LEVEL", "TIMESTAMP", "IDENT"}
  IdentLen,   \* bytes of the pid/tid/name/module/fn fields together
  MsgLens,    \* lengths of the formatted messages the threads log
  Requires,   \* the verbosity levels log calls require
  LogVerbose, \* log_verbose
  LogSilent,  \* log_silent
  Files,      \* what log_open was given: "stdout", "stderr", "path", "none"
  MaxCalls,   \* bound on the log calls of each thread
  MaxTime,    \* bound on the wall clock, in seconds
  Dumps,      \* hex dumps the threads log: [req, prefix, ind, len] of a
              \* debugN_buf(prefix, ind, buf, len) or traceN_buf
  B16BUF      \* sizeof(buf) of b16_indent: 289

H == "h"
M == "m"
NL == "nl"
NUL == "nul"
JUNK == "junk"            \* a byte of msg[] nothing wrote
SP == "sp"                \* the hex dump's bytes: ' ', '-', an offset digit,
DASH == "dash"            \* a hex digit, a character of the character column,
OFS == "ofs"              \* a byte of the prefix
HX == "hx"
CH == "ch"
PX == "px"

Chars(c, n) == [i \in 1 .. n |-> c]
Min2(a, b) == IF a < b THEN a ELSE b
Max2(a, b) == IF a > b THEN a ELSE b

RECURSIVE Digits(_)
Digits(n) == IF n < 10 THEN 1 ELSE 1 + Digits(n \div 10)

RECURSIVE HexDigits(_)
HexDigits(n) == IF n < 16 THEN 1 ELSE 1 + HexDigits(n \div 16)

(* c->secs is an unsigned int: a negative difference is printed as       *)
(* 2^32 + d, a number of 10 digits (kept as d, beyond TLC's integers).   *)
SecsDigits(secs) == IF secs < 0 THEN 10 ELSE Digits(secs)

(* The header fields do_log_hdr_parse prints for these caps:             *)
(* "%6s: " of a level name of at most 6 chars, "%08u.%06u ", and the     *)
(* identification fields.                                                 *)
HdrFields(secs) ==
     (IF "LEVEL" \in Caps THEN <<Chars(H, 8)>> ELSE <<>>)
  \o (IF "TIMESTAMP" \in Caps THEN <<Chars(H, Max2(8, SecsDigits(secs)) + 8)>> ELSE <<>>)
  \o (IF "IDENT" \in Caps THEN <<Chars(H, IdentLen)>> ELSE <<>>)

(***************************************************************************)
(* msg[] as a function from the offsets written to the bytes stored, and *)
(* snprintf into it.                                                      *)
(***************************************************************************)
Put(buf, at, s) ==
  [i \in DOMAIN buf \cup (at .. at + Len(s) - 1) |->
     IF i - at \in 0 .. Len(s) - 1 THEN s[i - at + 1] ELSE buf[i]]

(* snprintf(p + at, size, ...) of the string s.  The int size becomes a   *)
(* size_t: a negative one is huge and bounds nothing.  At most size - 1   *)
(* bytes and a NUL are stored; the result is Len(s) all the same.         *)
Snprintf(buf, at, size, s) ==
  IF size = 0 THEN buf
  ELSE LET n == IF size < 0 THEN Len(s) ELSE Min2(Len(s), size - 1)
       IN Put(buf, at, SubSeq(s, 1, n) \o <<NUL>>)

(* sz += snprintf(p + sz, av - sz, ...) for each field. *)
do_log_hdr_parse(fields, av) ==
  FoldLeft(LAMBDA acc, f : [buf |-> Snprintf(acc.buf, acc.sz, av - acc.sz, f),
                            sz |-> acc.sz + Len(f)],
           [buf |-> [i \in {} |-> JUNK], sz |-> 0], fields)

(* Fault variant: the room for "\n\0" counted once too often. *)
MsgRoomShort(sz) == PIPE_BUF - sz - 3

(* vsnprintf(p, PIPE_BUF - sz - 2, fmt, args) *)
MsgRoom(sz) == PIPE_BUF - sz - 2

(* What write(2) or the handler is handed: msg[0 .. sz - 1], and the     *)
(* offsets outside msg[] that were stored or read.                        *)
Sent(buf, sz) ==
  [line |-> [i \in 1 .. sz |-> IF i - 1 \in DOMAIN buf THEN buf[i - 1] ELSE JUNK],
   oob |-> (DOMAIN buf \cup 0 .. sz - 1) \ (0 .. PIPE_BUF - 1)]

(* __log_asynch_safe_atomic_vprintf, up to its write(2). *)
vprintf(fields, len) ==
  LET h == do_log_hdr_parse(fields, PIPE_BUF - 4)
      b1 == Snprintf(h.buf, h.sz, MsgRoom(h.sz), Chars(M, len))
      at == h.sz + len                          \* p = msg + sz
      b2 == Put(b1, at, <<NL, NUL>>)            \* *p++ = '\n'; *p++ = 0; sz += 1
  IN Sent(b2, at + 1)

(* Fault variant: fileno(stdin) where fileno(stdout) was meant. *)
LogOpenStdin(file, opened) == IF file = "stdout" THEN 0 ELSE IF file = "stderr" THEN 2
                              ELSE IF file = "none" THEN -1 ELSE IF opened THEN 3 ELSE -2

(* log_open: stdout and stderr by name, else open(2) of the path, and     *)
(* exit(EXIT_FAILURE) when that fails.  "none": log_open never called.   *)
log_open(file, opened) ==
  CASE file = "stdout" -> 1
    [] file = "stderr" -> 2
    [] file = "none"   -> -1
    [] opened          -> 3
    [] OTHER           -> -2       \* the process exits

(***************************************************************************)
(* strlcpy, strlcat and b16_indent: the hex dump of                       *)
(* __log_asynch_safe_atomic_write_b16.  A string is a sequence of non-NUL *)
(* bytes; the buffer written is a sequence whose end is the NUL stored.   *)
(***************************************************************************)

(* strlcpy(dst, src, siz): what dst holds, and the result.  The loop     *)
(* while (--n != 0) copies a byte and stops after the NUL, so at most     *)
(* siz - 1 bytes of src are copied; when n reaches 0 the NUL is stored     *)
(* at d.                                                                   *)
strlcpy(src, siz) ==
  [dst |-> IF siz = 0 THEN <<>> ELSE SubSeq(src, 1, Min2(Len(src), siz - 1)) \o <<NUL>>,
   ret |-> Len(src)]

(* Fault variant: the room for the NUL not kept. *)
CatRoomAll(n) == n

(* The second loop of strlcat: if (n != 1) { *d++ = *s; n--; } for each   *)
(* byte of s, so n - 1 of them are copied.                                *)
CatRoom(n) == n - 1

(* strlcat(dst, src, siz) with dst holding the string dst0 in siz bytes. *)
strlcat(dst0, src, siz) ==
  LET dlen == Min2(Len(dst0), siz)          \* while (n-- != 0 && *d != '\0') d++;
      n == siz - dlen
  IN IF n = 0 THEN [dst |-> SubSeq(dst0, 1, siz), ret |-> dlen + Len(src)]
     ELSE [dst |-> SubSeq(dst0, 1, dlen) \o SubSeq(src, 1, Min2(Len(src), CatRoom(n))) \o <<NUL>>,
           ret |-> dlen + Len(src)]

(* Division as C does it on ints: the quotient truncated toward zero. *)
CDiv(a, b) ==
  LET q == (IF a < 0 THEN -a ELSE a) \div (IF b < 0 THEN -b ELSE b)
  IN IF (a < 0) = (b < 0) THEN q ELSE -q

(* DUMP_WIDTH_LESS_INDENT(i) *)
DumpWidth(i) == 16 - ((i - (IF i > 6 THEN 6 ELSE i) + 3) \div 4)

(* Fault variant: the last, partial row dropped. *)
RowsTruncated(rows, dw, len) == rows

(* rows = (len / dump_width); if ((rows * dump_width) < len) rows++; *)
RowsFor(rows, dw, len) == IF rows * dw < len THEN rows + 1 ELSE rows

(* strlen(buf): the bytes before the first NUL. *)
StrOf(d) == LET k == SelectInSeq(d, LAMBDA c : c = NUL)
            IN IF k = 0 THEN d ELSE SubSeq(d, 1, k - 1)

(* strlcat(buf, s, sizeof(buf)) on the string buf holds. *)
Cat(buf, s) == StrOf(strlcat(buf, s, B16BUF).dst)

(* snprintf(tmp, sizeof(tmp), "%04x - ", off) *)
Offset(off) == Chars(OFS, Max2(4, HexDigits(off))) \o <<SP, DASH, SP>>

(* snprintf(tmp, sizeof(tmp), "%02x%c", ch, j == 7 ? '-' : ' ') *)
HexCell(j) == <<HX, HX, IF j = 7 THEN DASH ELSE SP>>

(* Row i of the dump: the string buf holds after the strlcpy of the       *)
(* indent and the strlcat of the offset, of a cell or "   " for each of   *)
(* the dump_width columns, of "  ", and of a character for each byte      *)
(* until len.  Each strlcat into buf appends what fits of its piece, so   *)
(* the calls in order leave what one strlcat of the pieces joined does.   *)
RowText(ind, dw, i, len) ==
  LET cells == [j \in 1 .. dw |-> IF i * dw + j - 1 >= len THEN Chars(SP, 3)
                                  ELSE HexCell(j - 1)]
      chars == [j \in 1 .. Min2(dw, len - i * dw) |-> <<CH>>]
      pieces == <<Offset(i * dw)>> \o cells \o <<<<SP, SP>>>> \o chars
  IN Cat(StrOf(strlcpy(Chars(SP, ind), B16BUF).dst), FlattenSeq(pieces))

(* b16_indent(c, prefix, ind, s, len): the rows it logs, each the offsets *)
(* of the bytes in its hex column (-1 for the "   " padding) and in its   *)
(* character column, and the text of buf; rows / dump_width traps when    *)
(* the width is 0.                                                        *)
b16_indent(ind0, len) ==
  LET ind == IF ind0 < 0 THEN 0 ELSE IF ind0 > 128 THEN 128 ELSE ind0
      dw == DumpWidth(ind)
      rows == RowsFor(CDiv(len, dw), dw, len)
      Row(i) == [hex   |-> [j \in 1 .. dw |-> IF i * dw + j - 1 >= len THEN -1 ELSE i * dw + j - 1],
                 ascii |-> [j \in 1 .. Min2(dw, len - i * dw) |-> i * dw + j - 1],
                 text  |-> RowText(ind, dw, i, len)]
  IN IF dw = 0 THEN [crash |-> TRUE, rows |-> <<>>]
     ELSE [crash |-> FALSE, rows |-> [k \in 1 .. Max2(rows, 0) |-> Row(k - 1)]]

(* The end of each row of b16_indent: the header, then memcpy of the      *)
(* prefix and of buf to p with no bound, then "\n\0".                     *)
b16_line(fields, prefixLen, text) ==
  LET h == do_log_hdr_parse(fields, PIPE_BUF - 4)
      b1 == Put(h.buf, h.sz, Chars(PX, prefixLen))
      b2 == Put(b1, h.sz + prefixLen, text)
      at == h.sz + prefixLen + Len(text)
      b3 == Put(b2, at, <<NL, NUL>>)
  IN Sent(b3, at + 1)

VARIABLES
  log_fd,     \* the descriptor log_open left
  handler,    \* log_set_handler installed a log_msg_handler
  clock,      \* the wall clock, in whole seconds
  started,    \* static int started = 1: no log line has been stamped yet
  start,      \* static struct timeval start: the launch time
  pc,         \* where each thread is in its log call
  now,        \* each thread's local struct timeval now
  secs,       \* each thread's c->secs
  op,         \* the log call each thread is making
  calls,      \* log calls each thread has made
  out         \* every call emitted: [t, op, secs, rows, crash, lines, sink]

vars == <<log_fd, handler, clock, started, start, pc, now, secs, op, calls, out>>

(* The calls a thread makes through the macros of log.h: info, error and *)
(* warning (require 0), debug1..4 and trace1..4 (require 1..4) reach      *)
(* __log_atomic_printf; debug1_buf..trace4_buf reach                      *)
(* __log_atomic_write_b16 with the dump's require.                        *)
PrintfOps == [kind : {"printf"}, len : MsgLens, prefix : {0}, ind : {0}, req : Requires]
DumpOps == {[kind |-> "b16"] @@ d : d \in Dumps}
Ops == PrintfOps \cup DumpOps

NoOp == [kind |-> "printf", len |-> 0, prefix |-> 0, ind |-> 0, req |-> 0]

Init ==
  /\ \E f \in Files, opened \in BOOLEAN :
       /\ log_fd = log_open(f, opened)
       /\ log_fd # -2                 \* after exit() there is nothing to log
  /\ handler \in BOOLEAN
  /\ clock = 0
  /\ started = TRUE
  /\ start = 0
  /\ pc = [t \in Threads |-> "idle"]
  /\ now = [t \in Threads |-> 0]
  /\ secs = [t \in Threads |-> 0]
  /\ op = [t \in Threads |-> NoOp]
  /\ calls = [t \in Threads |-> 0]
  /\ out = <<>>

Shared == <<log_fd, handler, clock, out>>

(* __log_atomic_printf and __log_atomic_write_b16 log only when          *)
(* !log_silent && log_verbose >= require; they build a log_ctx with       *)
(* secs = 0, and do_log_cap_timestamp returns at once when                *)
(* LOG_CAP_TIMESTAMP is off.                                              *)
Call(t) ==
  /\ pc[t] = "idle"
  /\ calls[t] < MaxCalls
  /\ calls' = [calls EXCEPT ![t] = @ + 1]
  /\ \E o \in Ops :
       /\ op' = [op EXCEPT ![t] = o]
       /\ pc' = [pc EXCEPT ![t] =
              IF LogSilent \/ LogVerbose < o.req THEN "idle"
              ELSE IF "TIMESTAMP" \in Caps THEN "now" ELSE "emit"]
  /\ secs' = [secs EXCEPT ![t] = 0]
  /\ UNCHANGED <<log_fd, handler, clock, started, start, now, out>>

(* gettimeofday(&now, NULL) *)
GetNow(t) ==
  /\ pc[t] = "now"
  /\ now' = [now EXCEPT ![t] = clock]
  /\ pc' = [pc EXCEPT ![t] = "check"]
  /\ UNCHANGED <<Shared, started, start, secs, op, calls>>

(* if (started) *)
CheckStarted(t) ==
  /\ pc[t] = "check"
  /\ pc' = [pc EXCEPT ![t] = IF started THEN "setstart" ELSE "secs"]
  /\ UNCHANGED <<Shared, started, start, now, secs, op, calls>>

(* gettimeofday(&start, NULL) *)
SetStart(t) ==
  /\ pc[t] = "setstart"
  /\ start' = clock
  /\ pc' = [pc EXCEPT ![t] = "copy"]
  /\ UNCHANGED <<Shared, started, now, secs, op, calls>>

(* now = start *)
CopyStart(t) ==
  /\ pc[t] = "copy"
  /\ now' = [now EXCEPT ![t] = start]
  /\ pc' = [pc EXCEPT ![t] = "clear"]
  /\ UNCHANGED <<Shared, started, start, secs, op, calls>>

(* started = 0 *)
ClearStarted(t) ==
  /\ pc[t] = "clear"
  /\ started' = FALSE
  /\ pc' = [pc EXCEPT ![t] = "secs"]
  /\ UNCHANGED <<Shared, start, now, secs, op, calls>>

(* c->secs = now.tv_sec - start.tv_sec *)
StampSecs(t) ==
  /\ pc[t] = "secs"
  /\ secs' = [secs EXCEPT ![t] = now[t] - start]
  /\ pc' = [pc EXCEPT ![t] = "emit"]
  /\ UNCHANGED <<Shared, started, start, now, op, calls>>

(* The rest of the call on the thread's own stack: vprintf's one line,   *)
(* or a line for each row of the dump, each handed to one write(2) or to  *)
(* the handler; with no handler and log_fd = -1 they are dropped.  The    *)
(* rows of a dump are stamped as its first one is.                         *)
Emit(t) ==
  /\ pc[t] = "emit"
  /\ LET o == op[t]
         f == HdrFields(secs[t])
         d == b16_indent(o.ind, o.len)
         lines == IF o.kind = "printf" THEN <<vprintf(f, o.len)>>
                  ELSE [k \in DOMAIN d.rows |-> b16_line(f, o.prefix, d.rows[k].text)]
         sink == IF handler THEN "handler" ELSE IF log_fd # -1 THEN "fd" ELSE "dropped"
     IN out' = Append(out, [t |-> t, op |-> o, secs |-> secs[t],
                            rows |-> IF o.kind = "b16" THEN d.rows ELSE <<>>,
                            crash |-> o.kind = "b16" /\ d.crash,
                            lines |-> lines, sink |-> sink])
  /\ pc' = [pc EXCEPT ![t] = "idle"]
  /\ UNCHANGED <<log_fd, handler, clock, started, start, now, secs, op, calls>>

(* A second passes. *)
Tick ==
  /\ clock < MaxTime
  /\ clock' = clock + 1
  /\ UNCHANGED <<log_fd, handler, started, start, pc, now, secs, op, calls, out>>

Next ==
  \/ \E t \in Threads :
       \/ Call(t) \/ GetNow(t) \/ CheckStarted(t) \/ SetStart(t)
       \/ CopyStart(t) \/ ClearStarted(t) \/ StampSecs(t) \/ Emit(t)
  \/ Tick

Spec == Init /\ [][Next]_vars

(***************************************************************************)
(* Properties                                                              *)
(***************************************************************************)
TypeOK ==
  /\ log_fd \in {-1, 1, 2, 3} /\ handler \in BOOLEAN
  /\ clock \in 0 .. MaxTime /\ started \in BOOLEAN /\ start \in 0 .. MaxTime
  /\ pc \in [Threads -> {"idle", "now", "check", "setstart", "copy", "clear", "secs", "emit"}]
  /\ now \in [Threads -> 0 .. MaxTime]
  /\ secs \in [Threads -> -MaxTime .. MaxTime]
  /\ op \in [Threads -> Ops \cup {NoOp}]
  /\ calls \in [Threads -> 0 .. MaxCalls]

Clamp(ind) == IF ind < 0 THEN 0 ELSE IF ind > 128 THEN 128 ELSE ind

(* What row k of a dump means to show: the indent, the offset of its      *)
(* first byte, a hex cell for each of its bytes and blanks for the        *)
(* columns past len, two blanks, and a character for each of its bytes.   *)
IntendedRow(o, row, k) ==
  LET dw == DumpWidth(Clamp(o.ind))
  IN Chars(SP, Clamp(o.ind)) \o Offset((k - 1) * dw)
     \o FlattenSeq([j \in 1 .. dw |-> IF row.hex[j] = -1 THEN Chars(SP, 3) ELSE HexCell(j - 1)])
     \o <<SP, SP>> \o Chars(CH, Len(row.ascii))

(* Line k of a call means: its header and its message (cut to what fits  *)
(* before the "\n\0" at the end of msg[]) or its prefix and row k, then   *)
(* "\n".                                                                  *)
Intended(r, k) ==
  LET hdr == FlattenSeq(HdrFields(r.secs))
      text == IF r.op.kind = "printf" THEN hdr \o Chars(M, r.op.len)
              ELSE hdr \o Chars(PX, r.op.prefix) \o IntendedRow(r.op, r.rows[k], k)
  IN IF r.op.kind = "printf" THEN SubSeq(text, 1, Min2(Len(text), PIPE_BUF - 3)) \o <<NL>>
     ELSE text \o <<NL>>

(* Every line handed to write(2) or to the handler is exactly what its   *)
(* call means followed by one newline: no byte of it is a NUL left by a   *)
(* truncating snprintf or strlcat, or a byte of msg[] nobody wrote,       *)
(* whichever header the thread's timestamp produced.                      *)
LineWellFormed ==
  \A i \in 1 .. Len(out) : \A k \in DOMAIN out[i].lines :
    out[i].lines[k].line = Intended(out[i], k)

(* No log call stores a byte outside its msg[PIPE_BUF] or hands write(2)  *)
(* more than PIPE_BUF bytes: the line stays on the thread's own stack and *)
(* its write stays atomic.                                                 *)
MsgConfined ==
  \A i \in 1 .. Len(out) : \A k \in DOMAIN out[i].lines : out[i].lines[k].oob = {}

(* The comment of do_log_cap_timestamp: a line's timestamp is the number *)
(* of seconds elapsed since the program was launched (its first stamped   *)
(* log call).  now - start is stored in the unsigned c->secs, so it must  *)
(* never be negative: a thread whose now was read before another thread   *)
(* stored a later start would print a count near 2^32.                    *)
TimestampSinceStart ==
  \A i \in 1 .. Len(out) : out[i].secs >= 0

(* A logged hex dump shows every byte of the buffer exactly once, in      *)
(* order, in both columns, in rows of the width DUMP_WIDTH_LESS_INDENT    *)
(* gives: nothing is lost, repeated or read past len, and b16_indent      *)
(* does not trap, for every indent a caller passes.                       *)
B16Complete ==
  \A i \in 1 .. Len(out) : out[i].op.kind = "b16" =>
    LET r == out[i]
        ids == [n \in 1 .. r.op.len |-> n - 1]
    IN /\ ~r.crash
       /\ SelectSeq(FlattenSeq([k \in DOMAIN r.rows |-> r.rows[k].hex]), LAMBDA x : x # -1) = ids
       /\ FlattenSeq([k \in DOMAIN r.rows |-> r.rows[k].ascii]) = ids
       /\ \A k \in DOMAIN r.rows : Len(r.rows[k].hex) = DumpWidth(Clamp(r.op.ind))

=============================================================================
