---------------------------- MODULE LibcResolver ----------------------------
(***************************************************************************)
(* get_libc_info of src/hpc/linux/libc/elf.c, and open_libc, which it      *)
(* calls first: find the libc mapping in /proc/<pid>/maps, open the file,  *)
(* scan its section headers for .dynstr and .dynsym, then resolve four     *)
(* symbols, each by finding its name in .dynstr (find_strtab_offset,       *)
(* modelled on its own in StrtabSearch) and then the first .dynsym entry   *)
(* carrying that name offset, and add the libc address to each value.      *)
(* The architecture switch that ends get_libc_info is in ElfHeader.        *)
(*                                                                         *)
(* The function is sequential, so it is a pure operator here: Init picks   *)
(* a maps file, a libc file and the outcome the code produces for them.    *)
(* A read of a local the code never assigned is a nondeterministic choice  *)
(* among JunkVals.  Data is abstracted: a maps line is a record, a section *)
(* is its type, its name (fgets(buf, 8) reads the first 7 characters;      *)
(* the names used are at most 7 long or differ in them) and whether that   *)
(* name can be read, and the strings of .dynstr are the offsets StrPos of  *)
(* the wanted names in it.                                                 *)
(***************************************************************************)
EXTENDS Integers, Sequences, SequencesExt

CONSTANTS
  Wanted,        \* the four names get_libc_info looks up
  StrPos,        \* offset of each wanted name in .dynstr, when present
  SymValue,      \* st_value of the .dynsym entry of each wanted name
  JunkVals,      \* values an unassigned local or info field may hold
  MapsChoices,   \* the /proc/<pid>/maps contents considered
  SecChoices,    \* the section kinds a file may contain
  MaxSections,   \* bound on e_shnum
  StringChoices, \* sets of wanted names present in .dynstr
  EntryChoices   \* sets of wanted names that have a .dynsym entry

ASSUME StrPos \in [Wanted -> Nat \ {0}]

OTHER_NAME == 999    \* st_name of an entry for some other symbol

VARIABLES
  maps,      \* the lines of /proc/<pid>/maps
  onDisk,    \* the path in the mapping can be opened by the tracer
  hdr,       \* "ok" | "bad_ehdr" | "bad_shstrtab": the first two reads
  sections,  \* the section header table
  strings,   \* wanted names present in .dynstr
  entries,   \* the .dynsym entries: <<[st_name, st_value]>>
  info       \* what get_libc_info returns and fills in

vars == <<maps, onDisk, hdr, sections, strings, entries, info>>

(***************************************************************************)
(* open_libc                                                               *)
(***************************************************************************)
(* Fault variant: a filter that keeps only the r-xp lines. *)
IsLibcLineRx(l) == l.perms = "r-xp" /\ l.path \in {"libc-2.N.so", "libc-2.N.so (deleted)"}

(* sscanf(buf, "%lx-%lx r-xp", ...) == 2 holds for any perms (the literal *)
(* after the two conversions is not counted), so the test is the path.   *)
IsLibcLine(l) == l.path \in {"libc-2.N.so", "libc-2.N.so (deleted)"}

(* The first line naming /libc-2.<n>.so, whatever its perms: its file is  *)
(* opened (directly or under a /rootfs/ prefix) and its start is the libc *)
(* address.                                                                *)
open_libc(m, disk) ==
  LET i == SelectInSeq(m, IsLibcLine) IN
  IF i = 0 THEN [rv |-> -1, addr |-> 0]
  ELSE IF m[i].path = "libc-2.N.so (deleted)" \/ ~disk THEN [rv |-> -1, addr |-> 0]
  ELSE [rv |-> 0, addr |-> m[i].start]

(***************************************************************************)
(* The section scan                                                        *)
(***************************************************************************)

(* Fault variant: the scan stopped at the first of the two sections. *)
EitherFound(acc) == acc.str \/ acc.sym

(* if (sym_offset != 0 && str_offset != 0) break; *)
BothFound(acc) == acc.str /\ acc.sym

(* Fault variant: the loop bound one short. *)
ScanDoneEarly(secs, idx) == idx >= Len(secs)

(* for (idx = 0; idx < ehdr.e_shnum; idx++), with idx from 1 here *)
ScanDone(secs, idx) == idx > Len(secs)

(* One section header per call: a STRTAB or DYNSYM section's name is read *)
(* with fgets, whose failure jumps to cleanup with rv still 0; .dynsym     *)
(* computes sym_num = sh_size / sh_entsize.                                *)
RECURSIVE ScanSections(_, _, _)
ScanSections(secs, idx, acc) ==
  IF ScanDone(secs, idx) THEN [acc EXCEPT !.status = "missing"]
  ELSE
    LET s == secs[idx]
        named == s.type \in {"STRTAB", "DYNSYM"}
        acc2 == CASE s.type = "STRTAB" /\ s.name = ".dynstr" -> [acc EXCEPT !.str = TRUE]
                  [] s.type = "DYNSYM" /\ s.name = ".dynsym" -> [acc EXCEPT !.sym = TRUE]
                  [] OTHER -> acc
    IN CASE named /\ ~s.readable -> [acc EXCEPT !.status = "name_unreadable"]
         [] s.type = "DYNSYM" /\ s.name = ".dynsym" /\ s.entsize = 0 -> [acc EXCEPT !.status = "SIGFPE"]
         [] BothFound(acc2) -> [acc2 EXCEPT !.status = "found"]
         [] OTHER -> ScanSections(secs, idx + 1, acc2)

(***************************************************************************)
(* The symbol lookups                                                      *)
(***************************************************************************)

(* find_strtab_offset's result for a wanted name: 0 when it is absent,   *)
(* or when .dynstr was not found (str_size is still 0).                   *)
NameOffset(sc, f) == IF sc.str /\ f \in strings THEN StrPos[f] ELSE 0

(* The entries the lookup loops read: none when .dynsym was not found     *)
(* (sym_num is still 0).                                                   *)
SymTable(sc) == IF sc.sym THEN entries ELSE <<>>

(* The loop over .dynsym: the value of the first entry whose st_name is   *)
(* off; when none is, the offset variable keeps its unassigned value.     *)
LookupSym(ents, off) ==
  LET i == SelectInSeq(ents, LAMBDA e : e.st_name = off) IN
  IF i = 0 THEN JunkVals ELSE {ents[i].st_value}

(* Fault variant: the libc address left out of the sum. *)
ResolveAddrOffsetOnly(base, value) == value

(* info->xxx_addr = libc_addr + xxx_offset *)
ResolveAddr(base, value) == base + value

(* The tracer dies of SIGFPE: get_libc_info never returns. *)
Crashed == [rv |-> -1, crashed |-> TRUE, base |-> 0, addr |-> [f \in Wanted |-> 0]]
Failed(base) == [rv |-> -1, crashed |-> FALSE, base |-> base, addr |-> [f \in Wanted |-> 0]]

(* Every outcome the code can produce. *)
get_libc_info ==
  LET o == open_libc(maps, onDisk)
      sc == ScanSections(sections, 1, [status |-> "scanning", str |-> FALSE, sym |-> FALSE])
  IN
  CASE o.rv # 0 -> {Failed(0)}
    [] hdr # "ok" -> {Failed(o.addr)}
    [] sc.status = "name_unreadable" ->
         {[rv |-> 0, crashed |-> FALSE, base |-> b, addr |-> a] : b \in JunkVals, a \in [Wanted -> JunkVals]}
    [] sc.status = "SIGFPE" -> {Crashed}
    [] sc.status = "missing" -> {Failed(o.addr)}
    [] \E f \in Wanted : NameOffset(sc, f) = 0 -> {Failed(o.addr)}
    [] OTHER ->
         LET choices(f) == {ResolveAddr(o.addr, v) : v \in LookupSym(SymTable(sc), NameOffset(sc, f))}
             all == UNION {choices(f) : f \in Wanted}
         IN {[rv |-> 0, crashed |-> FALSE, base |-> o.addr, addr |-> a] :
               a \in {a \in [Wanted -> all] : \A f \in Wanted : a[f] \in choices(f)}}

(* The .dynsym table: an entry for each name of the set, in a fixed       *)
(* order, after an entry for some other symbol.                            *)
EntriesFor(S) ==
  <<[st_name |-> OTHER_NAME, st_value |-> 0]>> \o
    [i \in 1 .. Cardinality(S) |-> LET f == SetToSeq(S)[i] IN
                                     [st_name |-> StrPos[f], st_value |-> SymValue[f]]]

Init ==
  /\ maps \in MapsChoices
  /\ onDisk \in BOOLEAN
  /\ hdr \in {"ok", "bad_ehdr", "bad_shstrtab"}
  /\ sections \in BoundedSeq(SecChoices, MaxSections)
  /\ strings \in StringChoices
  /\ \E S \in EntryChoices : entries = EntriesFor(S)
  /\ info \in get_libc_info

Next == UNCHANGED vars

Spec == Init /\ [][Next]_vars

(***************************************************************************)
(* Properties                                                              *)
(***************************************************************************)

(* The libc load bias: start - offset of any of the libc file's mappings  *)
(* (spec 4.1, 4.3), here the first.                                        *)
LoadBias(m) ==
  LET i == SelectInSeq(m, LAMBDA l : l.path = "libc-2.N.so") IN m[i].start - m[i].offset

(* Spec 4.3(d), 7: when get_libc_info reports success, each of the four   *)
(* addresses is the libc address plus the st_value of a .dynsym entry     *)
(* that carries that name; a missing section, name or entry is a reported *)
(* failure, never a success with an address nobody computed.               *)
SymbolsResolved ==
  info.rv = 0 =>
    \A f \in Wanted : \E k \in 1 .. Len(entries) :
       /\ entries[k].st_name = StrPos[f]
       /\ info.addr[f] = info.base + entries[k].st_value

(* Spec 4.3(c): the base get_libc_info reports is the load bias of the    *)
(* libc mapping, start - offset, the value libc_lookup_base computes,     *)
(* also on a glibc whose code mapping (r-xp) is not its first.           *)
BaseIsLoadBias ==
  info.rv = 0 => info.base = LoadBias(maps)

(* A libc the tracer can open, with a readable header, a .dynstr and a     *)
(* .dynsym among sections whose names all read, and all four names in      *)
(* .dynstr, is accepted: the section scan and the name search never give  *)
(* up on a file that has what they look for.                              *)
WellFormed ==
  /\ SelectInSeq(maps, IsLibcLine) # 0
  /\ maps[SelectInSeq(maps, IsLibcLine)].path = "libc-2.N.so"
  /\ onDisk /\ hdr = "ok"
  /\ \A i \in 1 .. Len(sections) : sections[i].readable /\ (sections[i].type = "DYNSYM" => sections[i].entsize # 0)
  /\ \E i, j \in 1 .. Len(sections) :
       /\ sections[i].type = "STRTAB" /\ sections[i].name = ".dynstr"
       /\ sections[j].type = "DYNSYM" /\ sections[j].name = ".dynsym"
  /\ strings = Wanted

GoodLibcAccepted == WellFormed => info.rv = 0

(* Spec 4.2 and 7: ElfParser failures are typed results returned to the  *)
(* caller, never a process abort; get_libc_info returns for every libc   *)
(* section table, malformed or not.                                       *)
NoCrash == ~info.crashed

=============================================================================
