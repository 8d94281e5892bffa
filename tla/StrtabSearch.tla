---------------------------- MODULE StrtabSearch ----------------------------
(***************************************************************************)
(* find_strtab_offset of src/hpc/linux/libc/elf.c: the offset of a symbol  *)
(* name inside the .dynstr blob, found by reading the blob byte by byte    *)
(* with fgetc and matching it against the name, NUL included.  0 means not *)
(* found.  Bytes are small integers; 0 is NUL.                             *)
(***************************************************************************)
EXTENDS Integers, Sequences

CONSTANTS
  Chars,      \* the non-NUL bytes names and blobs are made of
  MaxBlob,    \* longest blob (bytes before end of file)
  MaxName     \* longest name, NUL excluded

NUL == 0

VARIABLES
  blob,       \* the bytes from sh_offset of .dynstr to the end of the file
  size,       \* sh_size of .dynstr
  name        \* the name looked for, NUL-terminated

vars == <<blob, size, name>>

(* The loop of find_strtab_offset from off with idx bytes of name matched. *)
(* A mismatch resets idx to 0 and moves on: the byte that broke the match  *)
(* is not tried again as the first byte of the name.                       *)
RECURSIVE Scan(_, _, _, _, _)
Scan(b, sz, nm, off, idx) ==
  IF off >= sz \/ off >= Len(b) THEN 0          \* loop end, or fgetc == EOF
  ELSE IF b[off + 1] = nm[idx + 1]
         THEN IF b[off + 1] = NUL THEN off - idx
              ELSE Scan(b, sz, nm, off + 1, idx + 1)
         ELSE Scan(b, sz, nm, off + 1, 0)

(* Fault variant: the offset of the terminating NUL returned. *)
ScanEndOffset(b, sz, nm) ==
  LET RECURSIVE S(_, _)
      S(off, idx) ==
        IF off >= sz \/ off >= Len(b) THEN 0
        ELSE IF b[off + 1] = nm[idx + 1]
               THEN IF b[off + 1] = NUL THEN off ELSE S(off + 1, idx + 1)
               ELSE S(off + 1, 0)
  IN S(0, 0)

find_strtab_offset(b, sz, nm) == Scan(b, sz, nm, 0, 0)

Found == find_strtab_offset(blob, size, name)

Min2(x, y) == IF x < y THEN x ELSE y

(* The name occurs, NUL included, at offset o of the first size bytes. *)
OccursAt(o) ==
  /\ o + Len(name) <= Min2(size, Len(blob))
  /\ SubSeq(blob, o + 1, o + Len(name)) = name


(* An ELF string table begins with a NUL byte; names are NUL-free. *)
Init ==
  /\ \E n \in 1 .. MaxBlob :
       \E rest \in [1 .. n - 1 -> Chars \cup {NUL}] :
         blob = <<NUL>> \o [i \in 1 .. n - 1 |-> rest[i]]
  /\ size \in 0 .. Len(blob)
  /\ \E k \in 1 .. MaxName : \E s \in [1 .. k -> Chars] :
       name = [i \in 1 .. k |-> s[i]] \o <<NUL>>

Next == UNCHANGED vars

Spec == Init /\ [][Next]_vars

(* A nonzero offset find_strtab_offset returns is the start of the name,  *)
(* NUL included, inside the section: a symbol whose st_name equals it has *)
(* that name.                                                              *)
FoundIsOccurrence == Found # 0 => OccursAt(Found)

=============================================================================
