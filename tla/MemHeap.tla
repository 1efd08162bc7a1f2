------------------------------ MODULE MemHeap ------------------------------
(***************************************************************************)
(* The blocks of the lwIP heap and what mem_malloc, mem_free and           *)
(* mem_realloc do to them (lwIP/src/core/mem.c, with the build's           *)
(* MEM_ALIGNMENT of 4 and LWIP_ALLOW_MEM_FREE_FROM_OTHER_CONTEXT off).     *)
(*                                                                         *)
(* A heap h is a record: h.ram gives the struct mem at every offset at     *)
(* which there is one, ram_end being the one at MEM_SIZE, and h.lfree is   *)
(* the offset of lfree. The list is in the order of the offsets (Chained), *)
(* so the first block a walk along `next' meets is the lowest.             *)
(*                                                                         *)
(* The operations are cut where the semaphore is all that keeps others     *)
(* out: the search of mem_malloc from its taking of a block, the marking   *)
(* of mem_free from its plug_holes. HeapUse puts them between OSSemPend    *)
(* and OSSemPost.                                                          *)
(***************************************************************************)
EXTENDS Integers

CONSTANT MEM_SIZE      \* MEM_SIZE_ALIGNED, 8192 in the build

SIZEOF_STRUCT_MEM == 8
MIN_SIZE == 12
MEM_ALIGNMENT == 4

ASSUME MemHeapAssumption ==
    /\ MEM_SIZE \in Nat
    /\ MEM_SIZE % MEM_ALIGNMENT = 0
    /\ MEM_SIZE > SIZEOF_STRUCT_MEM + MIN_SIZE

\* LWIP_MEM_ALIGN_SIZE, and no less than MIN_SIZE_ALIGNED
AlignSize(n) ==
    LET a == ((n + MEM_ALIGNMENT - 1) \div MEM_ALIGNMENT) * MEM_ALIGNMENT
    IN  IF a < MIN_SIZE THEN MIN_SIZE ELSE a

\* struct mem, the header of a block
StructMem(next, prev, used) == [next |-> next, prev |-> prev, used |-> used]

mem_init ==
    [ram |-> [o \in {0, MEM_SIZE} |-> IF o = 0 THEN StructMem(MEM_SIZE, 0, 0)
                                      ELSE StructMem(MEM_SIZE, MEM_SIZE, 1)],
     lfree |-> 0]

Lowest(S) == CHOOSE x \in S : \A y \in S : x <= y

Blocks(h) == DOMAIN h.ram \ {MEM_SIZE}

Unused(h) == {p \in DOMAIN h.ram : h.ram[p].used = 0}

\* The user data size of the block at p
Room(h, p) == h.ram[p].next - (p + SIZEOF_STRUCT_MEM)

\* Is what is left of `room' behind `size' bytes enough for another block?
Splits(room, size) == room >= size + SIZEOF_STRUCT_MEM + MIN_SIZE

-----------------------------------------------------------------------------
(* The list                                                                *)

\* An unused struct mem at q between p and the block at `after': the old one
\* between them, if there is one, is gone. ram_end's prev is left alone.
Link(ram, p, q, after, used) ==
    [o \in (DOMAIN ram \ {x \in DOMAIN ram : p < x /\ x < after}) \cup {q} |->
        IF o = q THEN StructMem(after, p, 0)
        ELSE IF o = p THEN StructMem(q, ram[p].prev, used)
        ELSE IF o = after /\ after # MEM_SIZE THEN StructMem(ram[o].next, q, ram[o].used)
        ELSE ram[o]]

\* The block at q becomes part of the one at p before it.
Merge(h, p, q) ==
    LET after == h.ram[q].next
    IN  [ram |-> [o \in DOMAIN h.ram \ {q} |->
                    IF o = p THEN StructMem(after, h.ram[p].prev, h.ram[p].used)
                    ELSE IF o = after THEN StructMem(h.ram[o].next, p, h.ram[o].used)
                    ELSE h.ram[o]],
         lfree |-> IF h.lfree = q THEN p ELSE h.lfree]

PlugForward(h, m) ==
    LET n == h.ram[m].next
    IN  IF m # n /\ h.ram[n].used = 0 /\ n # MEM_SIZE THEN Merge(h, m, n) ELSE h

PlugBackward(h, m) ==
    LET p == h.ram[m].prev
    IN  IF p # m /\ h.ram[p].used = 0 THEN Merge(h, p, m) ELSE h

\* Mutant: holes are plugged forward only.
plug_holesForward(h, m) == PlugForward(h, m)

plug_holes(h, m) == PlugBackward(PlugForward(h, m), m)

-----------------------------------------------------------------------------
(* The operations                                                          *)

\* Mutant: the search does not look whether a block is in use.
FitsAny(h, size) ==
    {p \in Blocks(h) : h.lfree <= p /\ p < MEM_SIZE - size /\ Room(h, p) >= size}

\* mem_malloc's search: the blocks that will do, and the first of them
Fits(h, size) ==
    {p \in Unused(h) : h.lfree <= p /\ p < MEM_SIZE - size /\ Room(h, p) >= size}

\* mem_malloc takes the block at p: it is split if another block fits behind,
\* and lfree goes to the next unused block if it was this one.
MallocTake(h, p, size) ==
    LET ram == IF Splits(Room(h, p), size)
               THEN Link(h.ram, p, p + SIZEOF_STRUCT_MEM + size, h.ram[p].next, 1)
               ELSE [h.ram EXCEPT ![p].used = 1]
        free == {o \in DOMAIN ram : ram[o].used = 0}
    IN  [ram |-> ram,
         lfree |-> IF p = h.lfree
                   THEN Lowest({o \in free : o > p} \cup {MEM_SIZE})
                   ELSE h.lfree]

\* mem_free in front of plug_holes
FreeMark(h, m) ==
    [ram |-> [h.ram EXCEPT ![m].used = 0],
     lfree |-> IF m < h.lfree THEN m ELSE h.lfree]

\* Mutant: a block that moves takes lfree along only by accident.
mem_reallocKeeps(h, m, size, old) ==
    LET n == h.ram[m].next
        q == m + SIZEOF_STRUCT_MEM + size
    IN  IF h.ram[n].used = 0
        THEN [h EXCEPT !.ram = Link(h.ram, m, q, h.ram[n].next, h.ram[m].used)]
        ELSE IF Splits(old, size)
        THEN [ram |-> Link(h.ram, m, q, n, h.ram[m].used),
              lfree |-> IF q < h.lfree THEN q ELSE h.lfree]
        ELSE h

\* mem_realloc behind LWIP_MEM_FREE_PROTECT, which has read `old', the size
\* of the block, in front of it: the unused block behind begins earlier, or
\* the end becomes a block if one fits, or nothing happens.
mem_realloc(h, m, size, old) ==
    LET n == h.ram[m].next
        q == m + SIZEOF_STRUCT_MEM + size
    IN  IF h.ram[n].used = 0
        THEN [ram |-> Link(h.ram, m, q, h.ram[n].next, h.ram[m].used),
              lfree |-> IF h.lfree = n THEN q ELSE h.lfree]
        ELSE IF Splits(old, size)
        THEN [ram |-> Link(h.ram, m, q, n, h.ram[m].used),
              lfree |-> IF q < h.lfree THEN q ELSE h.lfree]
        ELSE h

-----------------------------------------------------------------------------
(* What a heap in good order is                                            *)

\* The blocks tile the heap: each one ends where the next one begins and is
\* large enough for its header and MIN_SIZE bytes, and `prev' leads back.
Chained(h) ==
    /\ {0, MEM_SIZE} \subseteq DOMAIN h.ram
    /\ h.ram[0].prev = 0
    /\ \A p \in Blocks(h) :
        LET n == h.ram[p].next
        IN  /\ n \in DOMAIN h.ram
            /\ n - p >= SIZEOF_STRUCT_MEM + MIN_SIZE
            /\ \A o \in DOMAIN h.ram : o <= p \/ o >= n
            /\ n # MEM_SIZE => h.ram[n].prev = p

\* "there should not exist one empty struct mem pointing to another empty
\* struct mem" (the comment of plug_holes)
NoHoles(h) == \A p \in Unused(h) : h.ram[p].next \notin Unused(h)

\* "pointer to the lowest free block" (the comment of lfree)
LowestFree(h) ==
    h.lfree = Lowest(Unused(h) \cup {MEM_SIZE})

=============================================================================
