------------------------------ MODULE LibcData ------------------------------
(* The libc the LibcResolver runs are checked on: the four names, their   *)
(* offsets in .dynstr and their values; the maps of an old glibc (one     *)
(* r-xp mapping at offset 0), of a glibc built with separate code (r--p   *)
(* at offset 0, then r-xp), of a libc deleted since the start, and of a   *)
(* process without one; the section kinds of a libc and the malformed     *)
(* ones.                                                                  *)
EXTENDS Integers, FiniteSets

MCWanted == {"__libc_dlopen_mode", "__libc_dlclose", "__libc_dlsym", "__libc_start_main"}
MCStrPos == [f \in MCWanted |->
               CASE f = "__libc_dlopen_mode" -> 10 [] f = "__libc_dlclose" -> 30
                 [] f = "__libc_dlsym" -> 50 [] OTHER -> 70]
MCSymValue == [f \in MCWanted |->
                 CASE f = "__libc_dlopen_mode" -> 1000 [] f = "__libc_dlclose" -> 2000
                   [] f = "__libc_dlsym" -> 3000 [] OTHER -> 4000]
MCJunkVals == {0, 5000}

Line(p, path, st, off) == [perms |-> p, path |-> path, start |-> st, offset |-> off]
MapsOld == <<Line("r-xp", "libc-2.N.so", 65536, 0), Line("rw-p", "libc-2.N.so", 98304, 32768)>>
MapsSplit == <<Line("r--p", "libc-2.N.so", 65536, 0), Line("r-xp", "libc-2.N.so", 69632, 4096)>>
MapsDeleted == <<Line("r-xp", "libc-2.N.so (deleted)", 65536, 0)>>
MapsNone == <<Line("r-xp", "a.out", 4096, 0)>>

Sec(t, n, r, e) == [type |-> t, name |-> n, readable |-> r, entsize |-> e]
DynStr == Sec("STRTAB", ".dynstr", TRUE, 0)
DynSym == Sec("DYNSYM", ".dynsym", TRUE, 24)
ShStrTab == Sec("STRTAB", ".shstrtab", TRUE, 0)
Text == Sec("PROGBITS", ".text", TRUE, 0)
NameBeyondEof == Sec("STRTAB", ".strtab", FALSE, 0)
DynSymNoEntsize == Sec("DYNSYM", ".dynsym", TRUE, 0)

AllButOne == {MCWanted \ {f} : f \in MCWanted}

MCMapsGood == {MapsOld, MapsDeleted, MapsNone}
MCMapsAll == {MapsOld, MapsSplit, MapsDeleted, MapsNone}
MCSecGood == {DynStr, DynSym, ShStrTab, Text}
MCSecBadName == {DynStr, DynSym, NameBeyondEof}
MCSecNoEntsize == {DynStr, DynSymNoEntsize}
MCStrings == {MCWanted} \cup AllButOne
MCEntriesAll == {MCWanted}
MCEntriesMissing == {MCWanted} \cup AllButOne
=============================================================================
