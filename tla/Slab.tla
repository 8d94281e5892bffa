-------------------------------- MODULE Slab --------------------------------
(***************************************************************************)
(* The slab free list of src/hpc/mem/slab.h.  A region of Total slabs of   *)
(* 1 << shift bytes each is mapped once; every free slab's header field   *)
(* avail holds the index of the next free slab, vm->list the first, and    *)
(* (u32)~0U ends the list.  slab_alloc pops the head, slab_free pushes a   *)
(* slab back, vm->avail counts the free slabs.                             *)
(*                                                                         *)
(* slab_init maps the region but sets neither vm->list, vm->avail nor any  *)
(* header: with FromSlabInit the slabs start as the anonymous mapping     *)
(* leaves them, every header 0, and list and avail hold whatever the      *)
(* caller's struct slab_vm held.  Otherwise the initial state is the list *)
(* pages_reset of src/hpc/mem/page.c threads through the same layout      *)
(* (every slab linked to the next, the last to ~0U, list 0, avail total), *)
(* which is what slab_alloc and slab_free take for granted.  Slabs are    *)
(* their indices; the address index << shift is left out.                 *)
(***************************************************************************)
EXTENDS Integers, Sequences, FiniteSets

CONSTANTS
  W,          \* width of the u32 fields
  Total,      \* vm->total, the number of slabs mapped
  MaxHeld,    \* bound on the slabs a caller holds at once
  FromSlabInit \* the vm is as slab_init leaves it

NIL == 2^W - 1          \* (u32)~0U
Word == 0 .. 2^W - 1
Slots == 0 .. Total - 1

ASSUME Total \in 1 .. NIL - 1

VARIABLES
  list,       \* vm->list
  avail,      \* vm->avail
  next,       \* the avail header of each slab, Slots -> Word
  held,       \* how many times each index has been handed out, unfreed
  inuse       \* the caller has not yet called slab_fini

vars == <<list, avail, next, held, inuse>>

(* The indices slab_alloc can hand out: any u32 but ~0U.  Those past     *)
(* Total lie outside the mapping.                                         *)
Handed == 0 .. NIL - 1

(* Fault variant: the last slab linked when index + 1 > total. *)
LastLinkPastEnd(index) == IF index + 1 > Total THEN NIL ELSE index + 1

(* pages_reset: page->avail = index + 1 >= total ? ~0U : index + 1. *)
PagesResetLink(index) == IF index + 1 >= Total THEN NIL ELSE index + 1

pages_reset == [index \in Slots |-> PagesResetLink(index)]

(* slab_init: mmap'ed anonymous pages read 0; vm->list and vm->avail are *)
(* left as they were.                                                     *)
slab_init ==
  /\ list \in Word
  /\ avail \in Word
  /\ next = [s \in Slots |-> 0]

Init ==
  /\ IF FromSlabInit THEN slab_init
     ELSE /\ list = 0 /\ avail = Total /\ next = pages_reset
  /\ held = [s \in Handed |-> 0]
  /\ inuse = TRUE

NULL == -1              \* no slab

(* get_slab_safe: NULL for ~0U, else the slab at index << shift. *)
get_slab_safe(index) == IF index = NIL THEN NULL ELSE index

Held == {s \in Handed : held[s] > 0}

(* slab_alloc: take the head, vm->list = slab->avail, vm->avail--.  A     *)
(* head outside the mapping reads its link from whatever lies there.      *)
slab_alloc ==
  /\ inuse
  /\ get_slab_safe(list) # NULL
  /\ Cardinality(Held) < MaxHeld
  /\ \E link \in IF list \in Slots THEN {next[list]} ELSE Word :
       list' = link
  /\ avail' = (avail + 2^W - 1) % 2^W
  /\ held' = [held EXCEPT ![list] = @ + 1]
  /\ UNCHANGED <<next, inuse>>

(* slab_free: slab->avail = vm->list; vm->list = slab_index(slab);        *)
(* vm->avail++, for a slab the caller holds.                               *)
slab_free(s) ==
  /\ inuse
  /\ held[s] > 0
  /\ s \in Slots
  /\ next' = [next EXCEPT ![s] = list]
  /\ list' = s
  /\ avail' = (avail + 1) % 2^W
  /\ held' = [held EXCEPT ![s] = @ - 1]
  /\ UNCHANGED inuse

(* slab_fini unmaps only when vm->page == MAP_FAILED, so a good mapping  *)
(* stays mapped; the caller gives up the vm, holding no slab.             *)
slab_fini ==
  /\ inuse
  /\ held = [s \in Handed |-> 0]
  /\ inuse' = FALSE
  /\ UNCHANGED <<list, avail, next, held>>

Next ==
  \/ slab_alloc
  \/ \E s \in Slots : slab_free(s)
  \/ slab_fini

Spec == Init /\ [][Next]_vars

TypeOK ==
  /\ list \in Word /\ avail \in Word
  /\ next \in [Slots -> Word]
  /\ held \in [Handed -> Nat]
  /\ inuse \in BOOLEAN

(* The free list followed from vm->list for at most Total + 1 links.      *)
RECURSIVE Walk(_, _)
Walk(i, n) ==
  IF i = NIL \/ n = 0 THEN <<>>
  ELSE IF i \in Slots THEN <<i>> \o Walk(next[i], n - 1)
  ELSE <<i>>

(* Whatever sequence of slab_alloc and slab_free a caller makes, freeing  *)
(* only what it holds, the free list is exact: it ends in ~0U after      *)
(* exactly vm->avail distinct slabs of the mapping, those are precisely  *)
(* the slabs no caller holds, and no slab is handed out twice.           *)
FreeListExact ==
  LET c == Walk(list, Total + 1)
      free == {c[k] : k \in 1 .. Len(c)}
  IN /\ Len(c) = avail
     /\ Cardinality(free) = Len(c)
     /\ free = Slots \ Held
     /\ \A s \in Handed : held[s] <= 1

=============================================================================
