------------------------------ MODULE HostPool ------------------------------
(***************************************************************************)
(* libtinycudart/hostpool.c: pinned host memory.  The driver's mappings    *)
(* are few and never come back, so the pool takes large slabs, carves each *)
(* first fit, merges what is freed, and keeps every slab.  Sizes are in    *)
(* pages.  A call holds the pool's own lock from end to end.               *)
(***************************************************************************)
EXTENDS Integers, Sequences, FiniteSets

CONSTANTS
    SlabPages, MinSlabPages,    \* SLAB_BYTES and MIN_SLAB
    MaxSlabs,                   \* MAX_SLABS
    PoolRequests,               \* what callers ask for
    SegmentCaps                 \* the largest mapping the driver may be able to describe

ASSUME HostPoolAssumption ==
    /\ SlabPages \in Nat \ {0} /\ MinSlabPages \in Nat /\ MaxSlabs \in Nat
    /\ PoolRequests \subseteq Nat \ {0}
    /\ SegmentCaps \subseteq Nat

VARIABLE pool

NoPool == [slabs |-> <<>>, in_use |-> 0, mapped |-> 0]

Block(off, size, used) == [off |-> off, size |-> size, used |-> used]

\* The sizes new_slab asks the driver for, one after the other
SlabSizes(want) ==
    IF want > SlabPages THEN {want}
    ELSE {s \in 1 .. SlabPages : /\ \E k \in 0 .. SlabPages : s = SlabPages \div (2 ^ k)
                                 /\ s >= want
                                 /\ 2 * s > MinSlabPages}

\* new_slab: the largest of them the driver can map, if any
NewSlab(want, cap) ==
    LET mappable == {s \in SlabSizes(want) : s <= cap}
    IN  IF Len(pool.slabs) = MaxSlabs \/ mappable = {} THEN 0
        ELSE CHOOSE s \in mappable : \A t \in mappable : t <= s

\* carve: the first free block that is big enough
FirstFit(blocks, size) ==
    {i \in DOMAIN blocks :
        /\ ~blocks[i].used /\ blocks[i].size >= size
        /\ \A j \in 1 .. i - 1 : blocks[j].used \/ blocks[j].size < size}

Carved(blocks, i, size) ==
    LET b == blocks[i]
        rest == IF b.size > size THEN <<Block(b.off + size, b.size - size, FALSE)>> ELSE <<>>
    IN  SubSeq(blocks, 1, i - 1) \o <<Block(b.off, size, TRUE)>> \o rest
            \o SubSeq(blocks, i + 1, Len(blocks))

SlabsFitting(slabs, size) == {s \in DOMAIN slabs : FirstFit(slabs[s].blocks, size) # {}}

CarvedFrom(slabs, s, size) ==
    LET i == CHOOSE i \in FirstFit(slabs[s].blocks, size) : TRUE
    IN  [slabs EXCEPT ![s].blocks = Carved(@, i, size)]

\* tinycudart_host_alloc
HostAlloc(size, cap) ==
    LET fitting == SlabsFitting(pool.slabs, size)
        slab == NewSlab(size, cap)
        more == Append(pool.slabs, [size |-> slab, blocks |-> <<Block(0, slab, FALSE)>>])
    IN  \/ /\ fitting # {}
           /\ LET s == CHOOSE s \in fitting : \A t \in fitting : s <= t
              IN  pool' = [pool EXCEPT !.slabs = CarvedFrom(@, s, size), !.in_use = @ + size]
        \/ /\ fitting = {} /\ slab # 0
           /\ pool' = [slabs |-> CarvedFrom(more, Len(more), size),
                       in_use |-> pool.in_use + size, mapped |-> pool.mapped + slab]
        \/ /\ fitting = {} /\ slab = 0        \* the caller falls back to pageable memory
           /\ UNCHANGED pool

\* Mutant: the merged block keeps the size it had
AbsorbMutant(blocks, i) == SubSeq(blocks, 1, i) \o SubSeq(blocks, i + 2, Len(blocks))

\* Two blocks of a slab's list become one
Absorb(blocks, i) ==
    SubSeq(blocks, 1, i - 1)
        \o <<Block(blocks[i].off, blocks[i].size + blocks[i + 1].size, blocks[i].used)>>
        \o SubSeq(blocks, i + 2, Len(blocks))

\* tinycudart_host_free: the block after is merged first, then the one before
HostFree(s, off) ==
    \E i \in DOMAIN pool.slabs[s].blocks :
        LET blocks == pool.slabs[s].blocks
            freed == [blocks EXCEPT ![i].used = FALSE]
            after == IF i < Len(freed) /\ ~freed[i + 1].used THEN Absorb(freed, i) ELSE freed
            before == IF i > 1 /\ ~after[i - 1].used THEN Absorb(after, i - 1) ELSE after
        IN  /\ blocks[i].off = off /\ blocks[i].used
            /\ pool' = [pool EXCEPT !.slabs[s].blocks = before, !.in_use = @ - blocks[i].size]

PoolNext ==
    \/ \E n \in PoolRequests, cap \in SegmentCaps : HostAlloc(n, cap)
    \/ \E s \in DOMAIN pool.slabs : \E off \in 0 .. pool.slabs[s].size - 1 : HostFree(s, off)

PoolSpec == pool = NoPool /\ [][PoolNext]_pool

-----------------------------------------------------------------------------
\* The pages of a block, of those of a slab's blocks that are out, of those out
\* of every slab, and of every mapping
Pages(b) == b.off .. (b.off + b.size) - 1

UsedPages(blocks) == UNION {Pages(blocks[i]) : i \in {j \in DOMAIN blocks : blocks[j].used}}

PagesOut(slabs) == UNION {{s} \X UsedPages(slabs[s].blocks) : s \in DOMAIN slabs}

PagesMapped(slabs) == UNION {{s} \X (0 .. slabs[s].size - 1) : s \in DOMAIN slabs}

\* Each slab is tiled by its blocks, its free neighbours are merged, and the pool's
\* counts are those of what is out and of what the driver mapped: nothing is handed
\* out twice and no page of a mapping that can never be replaced is lost.
PoolSound ==
    /\ \A s \in DOMAIN pool.slabs :
           LET blocks == pool.slabs[s].blocks
           IN  /\ blocks[1].off = 0
               /\ \A i \in DOMAIN blocks :
                      /\ blocks[i].size > 0
                      /\ IF i < Len(blocks)
                         THEN /\ blocks[i].off + blocks[i].size = blocks[i + 1].off
                              /\ blocks[i].used \/ blocks[i + 1].used
                         ELSE blocks[i].off + blocks[i].size = pool.slabs[s].size
    /\ pool.in_use = Cardinality(PagesOut(pool.slabs))
    /\ pool.mapped = Cardinality(PagesMapped(pool.slabs))
    /\ Len(pool.slabs) <= MaxSlabs
=============================================================================
