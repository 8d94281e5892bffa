--------------------------- MODULE StreamlinedArray ---------------------------
(***************************************************************************)
(* The streamlined arrays of src/hpc/array.h: DEFINE_CONST_ARRAY,          *)
(* STATIC_CONST_ARRAY and their 1-based forms, and the wrappers that pass  *)
(* [1<<bits] = anchor as __VA_ARGS__.  Each defines                        *)
(*   type name[1 << BITS] = { [0 ... MASK] = anchor, __VA_ARGS__ };        *)
(* with SIZE the length of the compound literal (type[]){__VA_ARGS__}     *)
(* (plus one for the 0-based anchor), BITS = BUILD_TIME_NUM_BITS(SIZE)    *)
(* and MASK = (1 << BITS) - 1, and reads name##_at(index) as               *)
(* name[verify(index)].                                                     *)
(*                                                                         *)
(* An initializer list is taken as C places it: each item sets the slot   *)
(* its designator names, or the slot after the one set before it; after    *)
(* [0 ... MASK] that is MASK + 1; later items override earlier ones and   *)
(* items past the end are dropped (excess elements, a warning).           *)
(* BUILD_TIME_NUM_BITS and verify_0bi32pow2 / verify_1bi32pow2 are not     *)
(* defined in the repository: BITS is either reading of "the bits of      *)
(* SIZE" (the least k with SIZE <= 2^k, or with SIZE < 2^k), and verify   *)
(* is any index_pow2_0b / index_pow2_1b variant of index.h, the checks    *)
(* the header pairs with these arrays.                                     *)
(***************************************************************************)
EXTENDS Integers, Sequences, FiniteSets

CONSTANTS
  W,          \* width of u32
  ByteBits,   \* width of a byte register, for the assembly clamps
  Anchor,     \* the anchor element
  Vals,       \* the other element values
  MaxIdx,     \* bound on designator indices
  MaxArgs     \* bound on the items of __VA_ARGS__

Clamp == INSTANCE IndexClamp WITH index <- 0, mask <- 0, junk <- 0, res <- <<>>

Word == 0 .. 2^W - 1
Pos == -1                               \* an item with no designator
Items == [at : {Pos} \cup 1 .. MaxIdx, v : Vals \cup {Anchor}]
Bases == {"0b", "1b"}

VARIABLES
  args,       \* __VA_ARGS__, a sequence of Items
  base,       \* 0-based (DEFINE_CONST_ARRAY...) or 1-based
  bits,       \* what BUILD_TIME_NUM_BITS gives for the size
  arr         \* name[], as the initializer leaves it

vars == <<args, base, bits, arr>>

(* The slot each item of a list initializes, the first at cur. *)
RECURSIVE Targets(_, _)
Targets(cur, items) ==
  IF items = <<>> THEN <<>>
  ELSE LET at == IF Head(items).at = Pos THEN cur ELSE Head(items).at
       IN <<at>> \o Targets(at + 1, Tail(items))

(* sizeof((type[]){__VA_ARGS__}) / sizeof(type): one past the last slot. *)
LiteralLen(items) ==
  LET t == Targets(0, items)
  IN IF t = <<>> THEN 0
     ELSE 1 + CHOOSE m \in {t[k] : k \in 1 .. Len(t)} : \A k \in 1 .. Len(t) : t[k] <= m

(* Fault variant: the 0-based size without the anchor's slot. *)
SizeNoAnchor(items) == LiteralLen(items)

ARRAY_SIZE_0B_ARGS(items) == LiteralLen(items) + 1

ARRAY_SIZE_1B_ARGS(items) == LiteralLen(items)

ArraySize(b, items) ==
  IF b = "0b" THEN ARRAY_SIZE_0B_ARGS(items) ELSE ARRAY_SIZE_1B_ARGS(items)

(* BUILD_TIME_NUM_BITS(n), either reading. *)
BUILD_TIME_NUM_BITS(n) ==
  { CHOOSE k \in 0 .. W : n <= 2^k /\ \A l \in 0 .. k - 1 : n > 2^l,
    CHOOSE k \in 0 .. W : n < 2^k /\ \A l \in 0 .. k - 1 : n >= 2^l }

MaskOf(b) == 2^b - 1                    \* ARRAY_MASK_0B_ARGS, ARRAY_MASK_1B_ARGS

(* { [0 ... MASK] = anchor, __VA_ARGS__ } over 1 << b slots. *)
Layout(b, items) ==
  LET t == Targets(MaskOf(b) + 1, items)
      setBy(x) == {k \in 1 .. Len(t) : t[k] = x}
  IN [x \in 0 .. MaskOf(b) |->
        IF setBy(x) = {} THEN Anchor
        ELSE items[CHOOSE k \in setBy(x) : \A l \in setBy(x) : l <= k].v]

Init ==
  /\ args \in UNION {[1 .. n -> Items] : n \in 0 .. MaxArgs}
  /\ base \in Bases
  /\ bits \in BUILD_TIME_NUM_BITS(ArraySize(base, args))
  /\ arr = Layout(bits, args)

Next == UNCHANGED vars

Spec == Init /\ [][Next]_vars

(* The slots name##_at(index) reads, one per clamp variant, with the     *)
(* early-clobber register holding j: msb = ~mask for the 1-based arrays. *)
AtSlots(i, j) ==
  LET r == Clamp!Results(i, MaskOf(bits), j)
  IN IF base = "0b" THEN {r.b0[v] : v \in DOMAIN r.b0}
     ELSE {r.b1[v] : v \in DOMAIN r.b1}

TypeOK ==
  /\ args \in Seq(Items) /\ base \in Bases /\ bits \in 0 .. W
  /\ arr \in [0 .. MaskOf(bits) -> Vals \cup {Anchor}]

(* Every name##_at read of any u32 index stays inside the 1 << BITS     *)
(* slots, and an index past the mask reads the anchor: the +1 of        *)
(* ARRAY_SIZE_0B_ARGS keeps slot MASK of a 0-based array free of every   *)
(* element, and slot 0 of a 1-based one holds the anchor, whatever the   *)
(* designators and whichever reading of BUILD_TIME_NUM_BITS.             *)
AnchorClamps ==
  \A i \in Word, j \in Word :
    \A s \in AtSlots(i, j) :
      /\ s \in DOMAIN arr
      /\ i > MaskOf(bits) => arr[s] = Anchor

(* The comment of DEFINE_CONST_ARRAY_STREAMLINED: __VA_ARGS__ is "a list *)
(* of array elements to be initialized after the anchor", so every       *)
(* element of a list without designators is somewhere in the array.      *)
ElementsAfterAnchor ==
  (base = "0b" /\ \A k \in 1 .. Len(args) : args[k].at = Pos) =>
    \A k \in 1 .. Len(args) :
      args[k].v # Anchor => \E x \in DOMAIN arr : arr[x] = args[k].v

=============================================================================
