------------------------------ MODULE ElfHeader ------------------------------
(***************************************************************************)
(* read_elf_ehdr of src/hpc/linux/libc/elf.c on an LP64 tracer, and the    *)
(* architecture dispatch at the end of get_libc_info that consumes it.     *)
(*                                                                         *)
(* The tracer freads sizeof(Elf64_Ehdr) = 64 bytes.  For an ELFCLASS32     *)
(* file it then widens the Elf32_Ehdr in place, field by field "from       *)
(* last", reading each field through an Elf32_Ehdr view of the same bytes  *)
(* and writing it through the Elf64_Ehdr view: the overlapping copies are  *)
(* correct only if no field is overwritten before it is read.  Bytes are   *)
(* modelled one by one, little-endian.                                     *)
(***************************************************************************)
EXTENDS Integers, Sequences, SequencesExt

CONSTANTS
  Machines,   \* e_machine values of the files considered
  Flags,      \* e_flags values
  Entries,    \* e_entry values
  LibcAddr    \* the libc load address open_libc reports

ELFCLASS32 == 1
ELFCLASS64 == 2
EM_386 == 3
EM_ARM == 40
EM_X86_64 == 62
EM_AARCH64 == 183
JUNK == 238           \* bytes past a 32-bit header (program headers)

(* <<offset, size>> of each field in the two layouts (<elf.h>). *)
Layout32 == [e_type |-> <<16, 2>>, e_machine |-> <<18, 2>>, e_version |-> <<20, 4>>,
             e_entry |-> <<24, 4>>, e_phoff |-> <<28, 4>>, e_shoff |-> <<32, 4>>,
             e_flags |-> <<36, 4>>, e_ehsize |-> <<40, 2>>, e_phentsize |-> <<42, 2>>,
             e_phnum |-> <<44, 2>>, e_shentsize |-> <<46, 2>>, e_shnum |-> <<48, 2>>,
             e_shstrndx |-> <<50, 2>>]
Layout64 == [e_type |-> <<16, 2>>, e_machine |-> <<18, 2>>, e_version |-> <<20, 4>>,
             e_entry |-> <<24, 8>>, e_phoff |-> <<32, 8>>, e_shoff |-> <<40, 8>>,
             e_flags |-> <<48, 4>>, e_ehsize |-> <<52, 2>>, e_phentsize |-> <<54, 2>>,
             e_phnum |-> <<56, 2>>, e_shentsize |-> <<58, 2>>, e_shnum |-> <<60, 2>>,
             e_shstrndx |-> <<62, 2>>]
Fields == DOMAIN Layout64

(* Fault variant: the same copies made first field first. *)
CopyOrderFromFirst ==
  <<"e_type", "e_machine", "e_version", "e_entry", "e_phoff", "e_shoff",
    "e_flags", "e_ehsize", "e_phentsize", "e_phnum", "e_shentsize",
    "e_shnum", "e_shstrndx">>

(* The order of the assignments in read_elf_ehdr. *)
CopyOrder ==
  <<"e_shstrndx", "e_shnum", "e_shentsize", "e_phnum", "e_phentsize",
    "e_ehsize", "e_flags", "e_shoff", "e_phoff", "e_entry", "e_version",
    "e_machine", "e_type">>

RECURSIVE DecodeLE(_, _, _)
DecodeLE(buf, off, n) ==
  IF n = 0 THEN 0 ELSE buf[off] + 256 * DecodeLE(buf, off + 1, n - 1)

(* The n bytes of v, least significant first. *)
RECURSIVE BytesLE(_, _)
BytesLE(v, n) == IF n = 0 THEN <<>> ELSE <<v % 256>> \o BytesLE(v \div 256, n - 1)

EncodeLE(buf, off, n, v) ==
  LET bytes == BytesLE(v, n) IN
  [p \in DOMAIN buf |-> IF p - off \in 0 .. n - 1 THEN bytes[p - off + 1] ELSE buf[p]]

Field(buf, at) == DecodeLE(buf, at[1], at[2])

(* ehdr->f = ehdr32->f *)
Widen(buf, f) == EncodeLE(buf, Layout64[f][1], Layout64[f][2], Field(buf, Layout32[f]))

(* read_elf_ehdr: fread, magic check, class switch. *)
read_elf_ehdr(buf, magicOk, cls) ==
  IF ~magicOk THEN [rv |-> -1, ehdr |-> buf]
  ELSE CASE cls = ELFCLASS32 -> [rv |-> 0, ehdr |-> FoldLeft(Widen, buf, CopyOrder)]
         [] cls = ELFCLASS64 -> [rv |-> 0, ehdr |-> buf]
         [] OTHER            -> [rv |-> -1, ehdr |-> buf]

(* The switch on e_machine at the end of get_libc_info, with              *)
(* code_addr = libc_addr + e_entry.                                        *)
Fail == [rv |-> -1, arch |-> "none", nr |-> <<0, 0, 0>>, code_addr |-> 0]
Arch(arch, nr, ca) == [rv |-> 0, arch |-> arch, nr |-> nr, code_addr |-> ca]

get_libc_arch(machine, cls, flags, entry) ==
  LET ca == LibcAddr + entry IN
  CASE machine = EM_X86_64 /\ cls = ELFCLASS64 -> Arch("x86_64", <<9, 10, 11>>, ca)
    [] machine = EM_X86_64 ->
         Arch("x86_64_x32", <<2^30 + 9, 2^30 + 10, 2^30 + 11>>, ca)
    [] machine = EM_386 -> Arch("i386", <<192, 125, 91>>, ca)
    [] machine = EM_AARCH64 -> Arch("arm64", <<222, 226, 215>>, ca)
    [] machine = EM_ARM /\ (flags \div 2^24) = 0 -> Fail
    [] machine = EM_ARM /\ ca % 2 = 1 -> Arch("arm_eabi_thumb", <<192, 125, 91>>, ca - 1)
    [] machine = EM_ARM -> Arch("arm_eabi", <<192, 125, 91>>, ca)
    [] OTHER -> Fail

VARIABLES
  magicOk,    \* the first four bytes are \177ELF
  cls,        \* e_ident[EI_CLASS]
  values      \* the header's logical field values

vars == <<magicOk, cls, values>>

(* The 64 bytes fread takes from a file of class c holding values v. *)
FileBytes(c, v) ==
  LET L == IF c = ELFCLASS32 THEN Layout32 ELSE Layout64
      blank == [p \in 0 .. 63 |-> IF p < 16 THEN 0 ELSE JUNK]
  IN FoldLeft(LAMBDA b, f : EncodeLE(b, L[f][1], L[f][2], v[f]), blank, CopyOrder)

Read == read_elf_ehdr(FileBytes(cls, values), magicOk, cls)
Canonical(f) == Field(Read.ehdr, Layout64[f])

Init ==
  /\ magicOk \in BOOLEAN
  /\ cls \in {ELFCLASS32, ELFCLASS64, 3}
  /\ \E m \in Machines, fl \in Flags, e \in Entries :
       LET wide == cls = ELFCLASS64 IN
       values = [e_type |-> 3, e_machine |-> m, e_version |-> 1, e_entry |-> e,
                 e_phoff |-> IF wide THEN 64 ELSE 52, e_shoff |-> 1912383,
                 e_flags |-> fl, e_ehsize |-> IF wide THEN 64 ELSE 52,
                 e_phentsize |-> IF wide THEN 56 ELSE 32, e_phnum |-> 10,
                 e_shentsize |-> IF wide THEN 64 ELSE 40, e_shnum |-> 70,
                 e_shstrndx |-> 69]

Next == UNCHANGED vars

Spec == Init /\ [][Next]_vars

(* Spec 8: ELF parsing is class-agnostic.  Whatever the class, a header   *)
(* read_elf_ehdr accepts holds, through the Elf64_Ehdr view, exactly the   *)
(* field values the file encodes, so the architecture get_libc_info        *)
(* selects from it is the one those values select.                         *)
ClassAgnostic ==
  Read.rv = 0 =>
    /\ \A f \in Fields : Canonical(f) = values[f]
    /\ get_libc_arch(Canonical("e_machine"), cls, Canonical("e_flags"), Canonical("e_entry"))
         = get_libc_arch(values.e_machine, cls, values.e_flags, values.e_entry)
=============================================================================
