----------------------------- MODULE MapsLookup -----------------------------
(***************************************************************************)
(* The /proc/<pid>/maps queries of src/hpc/linux/proc.c (MapReader) and    *)
(* calc_jmp (PatchUtility).  Each query is one sequential pass over the    *)
(* lines of the maps file, so it is an operator here, and Init picks a     *)
(* maps file, the query inputs and every outcome the code produces.  A     *)
(* read of a local never assigned is a choice among JunkVals.               *)
(*                                                                         *)
(* A line is a record [start, end, perms, offset, dev, path]; a path is a  *)
(* model value and strstr(line, s) is "s is one of PathParts[path], or the *)
(* perms".  Lines fit the fgets buffers (850 and 85 bytes).  Integers are   *)
(* IntBits wide for calc_jmp, 32 in the code.                               *)
(***************************************************************************)
EXTENDS Integers, Sequences, SequencesExt

CONSTANTS
  MapsChoices,  \* the maps files considered
  PathParts,    \* for each path, the strings strstr finds in it
  Addrs,        \* addresses proc_is_mem_mapped is asked about
  JunkVals,     \* values an unassigned local may hold
  IntBits,      \* width of int32_t
  JmpEnds       \* the from and to addresses calc_jmp is given

ANON == "00:00"    \* the device of a mapping with no backing file

VARIABLES
  maps,     \* the lines of /proc/<pid>/maps
  opens,    \* fopen of /proc/<pid>/maps succeeds: the process exists
  query,    \* the inputs: [addr, from, to]
  res       \* what each query returns

vars == <<maps, opens, query, res>>

(* strstr(line, s) != NULL; the empty string is found in every line. *)
Has(l, s) == s = "" \/ s \in PathParts[l.path] \/ s = l.perms

(* proc_lookup_base: the start of the first line naming r--p, 0 if none. *)
proc_lookup_base(m) ==
  LET i == SelectInSeq(m, LAMBDA l : Has(l, "r--p")) IN IF i = 0 THEN 0 ELSE m[i].start

(* libc_lookup_path: the path of the first r-xp line that names         *)
(* "/libc.so"; path[0] = 0 when there is none.                           *)
libc_lookup_path(m) ==
  LET i == SelectInSeq(m, LAMBDA l : Has(l, "r-xp") /\ Has(l, "/libc.so"))
  IN IF i = 0 THEN "" ELSE m[i].path

(* Fault variant: the mapping's start taken for the load bias. *)
BiasNoOffset(l) == l.start

(* base = start - pgoff *)
LoadBiasOf(l) == l.start - l.offset

(* libc_lookup_base(pid, file): start - pgoff of the first r-xp line      *)
(* naming file, 0 if none.                                                *)
libc_lookup_base(m, file) ==
  LET i == SelectInSeq(m, LAMBDA l : Has(l, "r-xp") /\ Has(l, file))
  IN IF i = 0 THEN 0 ELSE LoadBiasOf(m[i])

(* proc_is_mem_mapped: fscanf "%lx-%lx" of each line, 1 at the first     *)
(* range holding the address, 0 at EOF.                                   *)
proc_is_mem_mapped(m, a) ==
  IF SelectInSeq(m, LAMBDA l : a >= l.start /\ a < l.end) # 0 THEN 1 ELSE 0

(* The text of a field: a hex number or a device "maj:min". *)
HexText(n) == <<"hex", n>>
DevText(d) == <<"dev", d>>

(* sscanf(line, "%lx-%s %s %s %s", &addr, str, str, str, name): addr gets *)
(* the start, str the end, the perms and then the offset, name the device. *)
CaveScan(l) == [addr |-> l.start, str |-> HexText(l.offset), name |-> DevText(l.dev)]

(* proc_lookup_mem_cave: scan each r-xp line, break when                  *)
(* strcmp(str, "00:00") == 0; the result is addr as the last scan left   *)
(* it, and unassigned when no line was scanned.                           *)
proc_lookup_mem_cave(m) ==
  LET rx == SelectSeq(m, LAMBDA l : Has(l, "r-xp"))
      brk == SelectInSeq(rx, LAMBDA l : CaveScan(l).str = DevText(ANON))
  IN CASE brk # 0   -> {CaveScan(rx[brk]).addr}
       [] rx # <<>> -> {CaveScan(Last(rx)).addr}
       [] OTHER     -> JunkVals

INT_MIN == -(2^(IntBits - 1))
INT_MAX == 2^(IntBits - 1) - 1

(* Fault variant: no range check. *)
JmpFitsUnchecked(d) == TRUE

(* Fault variant: the bounds themselves rejected. *)
JmpFitsStrict(d) == d > INT_MIN /\ d < INT_MAX

(* !(delta < INT_MIN || delta > INT_MAX) *)
JmpFits(d) == ~(d < INT_MIN \/ d > INT_MAX)

(* calc_jmp(from, to): to - from - 5 in 64 bits, exit(1) when it is not an *)
(* int32_t.                                                               *)
calc_jmp(from, to) ==
  LET delta == to - from - 5
  IN IF JmpFits(delta) THEN [exit |-> FALSE, rel |-> delta] ELSE [exit |-> TRUE, rel |-> 0]

(* What each query returns for the process and inputs.  When fopen fails, *)
(* proc_lookup_base and the two libc lookups exit(1) (exited), and the     *)
(* other two return 0.                                                     *)
Outcomes(m, ok, q) ==
  LET path == libc_lookup_path(m)
  IN [exited : {~ok},
      base : {IF ok THEN proc_lookup_base(m) ELSE 0},
      path : {IF ok THEN path ELSE ""},
      libbase : {IF ok THEN libc_lookup_base(m, path) ELSE 0},
      mapped : {IF ok THEN proc_is_mem_mapped(m, q.addr) ELSE 0},
      cave : IF ok THEN proc_lookup_mem_cave(m) ELSE {0},
      jmp : {calc_jmp(q.from, q.to)}]

Init ==
  /\ maps \in MapsChoices
  /\ opens \in BOOLEAN
  /\ query \in [addr : Addrs, from : JmpEnds, to : JmpEnds]
  /\ res \in Outcomes(maps, opens, query)

Next == UNCHANGED vars

Spec == Init /\ [][Next]_vars

(***************************************************************************)
(* Properties                                                              *)
(***************************************************************************)
TypeOK ==
  /\ opens \in BOOLEAN
  /\ res.exited = ~opens
  /\ res.mapped \in {0, 1}
  /\ res.jmp.rel \in INT_MIN .. INT_MAX

(* The load bias of the file at path p: the start of its mapping at file  *)
(* offset 0, which every segment's start - offset equals.                 *)
FileBias(m, p) ==
  LET i == SelectInSeq(m, LAMBDA l : l.path = p /\ l.offset = 0) IN m[i].start

(* Spec 4.1: libc_lookup_path and then libc_lookup_base of the path it    *)
(* found give the true load bias of the runtime library, start minus the  *)
(* segment's file offset, whichever of its segments is executable.         *)
LibcBaseIsBias ==
  opens /\ res.path # "" => res.libbase = FileBias(maps, res.path)

(* Spec 5: calc_jmp's displacement, added to the address after the 5-byte *)
(* instruction, lands on the target, and it fails exactly when that       *)
(* displacement is not a signed 32-bit number, at both ends of the range.  *)
JumpEncodes ==
  IF query.to - query.from - 5 \in INT_MIN .. INT_MAX
  THEN ~res.jmp.exit /\ query.from + 5 + res.jmp.rel = query.to
  ELSE res.jmp.exit

(* Spec 4.1, 5: the cave search returns the start of a readable and       *)
(* executable mapping with no backing file, or not-found (0) when the     *)
(* process has none.                                                      *)
CaveIsAnonymous ==
  LET anon == {i \in DOMAIN maps : maps[i].perms = "r-xp" /\ maps[i].dev = ANON}
  IN opens =>
       IF anon = {} THEN res.cave = 0 ELSE \E i \in anon : res.cave = maps[i].start

=============================================================================
