----------------------------- MODULE IndexClamp -----------------------------
(***************************************************************************)
(* The constant-time index checks of src/hpc/index.h, used by the          *)
(* streamlined arrays of array.h: a 0-based array of mask + 1 slots is      *)
(* read at index_pow2_0b(index, mask), a 1-based one at                     *)
(* index_pow2_1b(index, mask, ~mask).  Each C and inline-assembly variant  *)
(* is an operator over W-bit unsigned words (u32 in the code; no variant   *)
(* uses a constant tied to 32 bits).  An assembly variant is its            *)
(* instruction sequence, each instruction a step on registers and flags;    *)
(* a byte-register write (seta, sete) replaces the low ByteBits bits only.  *)
(* An early-clobber output register starts with whatever it held, a choice  *)
(* among Word.                                                              *)
(***************************************************************************)
EXTENDS Integers, Bitwise

CONSTANTS
  W,          \* width of u32
  ByteBits    \* width of the byte register %b1 / %b0

VARIABLES
  index,      \* the index asked for
  mask,       \* the array's mask, (1 << bits) - 1
  junk,       \* what the output registers hold before the asm runs
  res         \* what each variant returns

vars == <<index, mask, junk, res>>

Word == 0 .. 2^W - 1
Masks == {2^k - 1 : k \in 0 .. W}

Neg(x) == (2^W - x) % 2^W              \* negl / unary minus on u32
Compl(x) == 2^W - 1 - x                \* ~x
Lea(x, d) == (x + d + 2^W) % 2^W       \* leal d(x)
SetLow(r, b) == r - (r % 2^ByteBits) + b  \* setcc into the low byte of r

(* The flags of cmpl src, dst (dst - src) and testl a, b on x86, and of  *)
(* cmp a, b and tst a, b on AArch64 (C is "no borrow" there).            *)
X86Cmp(dst, src) == [cf |-> dst < src, zf |-> dst = src]
X86Test(a, b) == [cf |-> FALSE, zf |-> (a & b) = 0]
ArmCmp(a, b) == [c |-> a >= b, z |-> a = b]
ArmTst(a, b) == [c |-> FALSE, z |-> (a & b) = 0]

(* The condition codes the variants use. *)
Above(f) == ~f.cf /\ ~f.zf            \* seta
BelowOrEqual(f) == f.cf \/ f.zf       \* cmovbe
Equal(f) == f.zf                      \* sete
Hi(f) == f.c /\ ~f.z                  \* csel ... hi
Eq(f) == f.z                          \* csel ... eq

B(c) == IF c THEN 1 ELSE 0

(* index_pow2_0b_bw: cond = -(index > mask); (index & ~cond) | (mask & cond) *)
index_pow2_0b_bw(i, m) ==
  LET cond == Neg(B(i > m)) IN (i & Compl(cond)) | (m & cond)

(* Fault variant: seta written as the setb of the listing above          *)
(* index_pow2_0b_bw, without swapping the cmpl operands with it.          *)
SetaAsSetb(f) == f.cf

(* The condition seta tests. *)
SetaCond(f) == Above(f)

(* index_pow2_0b_x86: xorl %1,%1; cmpl %3,%2; seta %b1; leal -1(%1),%0;   *)
(* negl %1; andl %2,%0; andl %3,%1; orl %1,%0 with %2 = index, %3 = mask. *)
index_pow2_0b_x86(i, m) ==
  LET t0 == 0
      fl == X86Cmp(i, m)
      t1 == SetLow(t0, B(SetaCond(fl)))
      r1 == Lea(t1, -1)
      t2 == Neg(t1)
      r2 == r1 & i
      t3 == t2 & m
  IN r2 | t3

(* index_pow2_0b_x86_modern: __res = mask; cmpl %0,%1; cmovbel %1,%0 *)
index_pow2_0b_x86_modern(i, m) ==
  LET r0 == m
      fl == X86Cmp(i, r0)
  IN IF BelowOrEqual(fl) THEN i ELSE r0

(* index_pow2_0b_arm64: cmp w1,w2; csel w0,w2,w1,hi *)
index_pow2_0b_arm64(i, m) ==
  IF Hi(ArmCmp(i, m)) THEN m ELSE i

(* index_pow2_0b_branch: index if index <= mask, else mask *)
index_pow2_0b_branch(i, m) == IF i <= m THEN i ELSE m

(* index_pow2_1b_bw: index & -(!(index & msb)) *)
index_pow2_1b_bw(i, m, msb) == i & Neg(B((i & msb) = 0))

(* Fault variant: the xorl %0,%0 before sete left out. *)
ClearedReg(j) == j

(* xorl %0, %0 *)
XorSelf(j) == 0

(* index_pow2_1b_x86: xorl %0,%0; testl %2,%1; sete %b0; negl %0;        *)
(* andl %1,%0 with %1 = index, %2 = msb.                                 *)
index_pow2_1b_x86(i, m, msb, j) ==
  LET r0 == XorSelf(j)
      fl == X86Test(msb, i)
      r1 == SetLow(r0, B(Equal(fl)))
      r2 == Neg(r1)
  IN r2 & i

(* index_pow2_1b_arm64: tst w1,w2; csel w0,w1,wzr,eq *)
index_pow2_1b_arm64(i, m, msb) ==
  IF Eq(ArmTst(i, msb)) THEN i ELSE 0

(* index_pow2_1b_branch: index unless index & msb, else 0 *)
index_pow2_1b_branch(i, m, msb) == IF (i & msb) = 0 THEN i ELSE 0

(* What each variant returns; the 1-based ones get msb = ~mask as the     *)
(* arrays' name##_msb is.                                                 *)
Results(i, m, j) ==
  LET msb == Compl(m) IN
  [b0 |-> [bw |-> index_pow2_0b_bw(i, m), x86 |-> index_pow2_0b_x86(i, m),
           x86_modern |-> index_pow2_0b_x86_modern(i, m),
           arm64 |-> index_pow2_0b_arm64(i, m), branch |-> index_pow2_0b_branch(i, m)],
   b1 |-> [bw |-> index_pow2_1b_bw(i, m, msb), x86 |-> index_pow2_1b_x86(i, m, msb, j),
           arm64 |-> index_pow2_1b_arm64(i, m, msb),
           branch |-> index_pow2_1b_branch(i, m, msb)]]

Init ==
  /\ index \in Word
  /\ mask \in Masks
  /\ junk \in Word
  /\ res = Results(index, mask, junk)

Next == UNCHANGED vars

Spec == Init /\ [][Next]_vars

TypeOK ==
  /\ index \in Word /\ mask \in Masks
  /\ \A v \in DOMAIN res.b0 : res.b0[v] \in Word
  /\ \A v \in DOMAIN res.b1 : res.b1[v] \in Word

(* The access the header's comment stands for: arr[index] when index < size *)
(* (size = mask + 1), else arr[size - 1].  Every 0-based variant, the C,    *)
(* the two x86 sequences, the AArch64 one and the branch, reads exactly     *)
(* that slot, whatever index and whatever the registers held before.        *)
ZeroBasedClamped ==
  \A v \in DOMAIN res.b0 : res.b0[v] = IF index < mask + 1 THEN index ELSE mask

(* A 1-based array of mask + 1 slots keeps its anchor at 0: every 1-based *)
(* variant returns index when it lies in the array and the anchor 0 when  *)
(* any bit above the mask is set.                                          *)
OneBasedClamped ==
  \A v \in DOMAIN res.b1 : res.b1[v] = IF index <= mask THEN index ELSE 0

=============================================================================
