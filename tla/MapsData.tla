------------------------------ MODULE MapsData ------------------------------
(* An executable mapped as r--p and r-xp; a libc.so.6 mapped the same way  *)
(* (its code at a non-zero file offset); an old libc-2.31.so with one r-xp *)
(* mapping; an anonymous r-xp mapping and the vdso.  int32_t is 8 bits    *)
(* wide and calc_jmp is given the pairs whose displacement is 127, 128,    *)
(* -128 and -129.                                                          *)
EXTENDS Integers, Sequences

Ln(st, en, p, off, dev, path) ==
  [start |-> st, end |-> en, perms |-> p, offset |-> off, dev |-> dev, path |-> path]

Exe == <<Ln(4096, 8192, "r--p", 0, "08:01", "/bin/app"),
         Ln(8192, 12288, "r-xp", 4096, "08:01", "/bin/app")>>
Libc6 == <<Ln(65536, 69632, "r--p", 0, "08:01", "/usr/lib/libc.so.6"),
           Ln(69632, 73728, "r-xp", 4096, "08:01", "/usr/lib/libc.so.6")>>
Libc231 == <<Ln(65536, 69632, "r-xp", 0, "08:01", "/lib/libc-2.31.so")>>
Anon == <<Ln(20480, 24576, "r-xp", 0, "00:00", "")>>
Vdso == <<Ln(90112, 94208, "r-xp", 0, "00:00", "[vdso]")>>

MCMapsChoices == {Exe \o Libc6 \o Vdso, Exe \o Anon \o Libc6, Exe \o Libc231, <<Exe[1]>>}
MCPathParts == [p \in {"/bin/app", "/usr/lib/libc.so.6", "/lib/libc-2.31.so", "", "[vdso]"} |->
                  CASE p = "/usr/lib/libc.so.6" -> {p, "/libc.so"}
                    [] p = ""                  -> {}
                    [] OTHER                   -> {p}]
=============================================================================
