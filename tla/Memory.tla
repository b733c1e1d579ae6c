------------------------------- MODULE Memory -------------------------------
(***************************************************************************)
(* libtinynv/src/mmu.c and pt.c: buffers taken, mapped, used and given     *)
(* back.  The processor's entries are posted writes, which reach video     *)
(* memory in order and in their own time; the card walks what has arrived  *)
(* and may keep any translation it finds, so here it keeps them all.       *)
(***************************************************************************)
EXTENDS PageTable

CONSTANTS
    DataFrames, PoolFrames, HostFrames,   \* video memory, the reserve, the host's
    TablePages,                           \* room for page tables
    Sizes,                                \* pages callers ask for
    MaxHeld                               \* bound: buffers out, leaked or forgotten

ASSUME MemoryAssumption ==
    /\ DataFrames \cup PoolFrames \cup HostFrames \subseteq Nat
    /\ DataFrames \cap PoolFrames = {} /\ DataFrames \cap HostFrames = {}
    /\ PoolFrames \cap HostFrames = {}
    /\ TablePages \in Nat /\ Sizes \subseteq 1 .. VaPages /\ MaxHeld \in Nat

VARIABLES
    tree,        \* the entries as the processor wrote them
    arrived,     \* the entries as video memory holds them
    kept,        \* the translations the card has kept
    mm,          \* struct tinynv_mm: buffers, tables made, wedged
    freeing      \* the buffer tinynv_vmap_free is at, if any

vars == <<tree, arrived, kept, mm, freeing>>

-----------------------------------------------------------------------------
\* A buffer: tinynv_vmap_t
PagesOf(m) == {<<m.va + i - 1, m.pages[i]>> : i \in 1 .. m.size \cap DOMAIN m.pages}
FramesOf(m) == {m.pages[i] : i \in DOMAIN m.pages}
VaOf(m) == m.va .. m.va + m.size - 1

\* Buffers whose addresses and memory are not for anyone else: those out, those
\* leaked because a translation may be left, and those a failure forgot
Held == mm.live \cup mm.leaked \cup mm.forgotten

Taken == UNION {FramesOf(m) : m \in Held}
FreeVa == (0 .. VaPages - 1) \ UNION {VaOf(m) : m \in Held}

round_up_u(v, a) == ((v + a - 1) \div a) * a

\* What the region's allocator (Tlsf) gives for a request: the aligned start of
\* a gap with room for the request and its alignment
Gives(free, n, align) ==
    {round_up_u(lo, align) : lo \in {l \in free : l - 1 \notin free /\ l .. l + n + align - 1 \subseteq free}}

\* tinynv_mm_alloc_va aligns to the largest power of two inside the size
Pow2In(n) == CHOOSE a \in {2 ^ i : i \in 0 .. n} : a <= n /\ n < 2 * a
AddressesFor(n) == Gives(FreeVa, n, Pow2In(n))

\* tinynv_mm_palloc out of the video memory region
PhysicalFor(free, n, align) == Gives(free, n, align)

Run(paddr, size) == [i \in 1 .. size |-> paddr + i - 1]

\* The chunks a buffer is built from, largest first, each size kept to until
\* it is refused or too big for what is left.  PALLOC_RANGES are the spans of
\* the levels that may hold pages.
Chunks == {Covers[lv] : lv \in Levels - HugeLevels + 1 .. Levels}

\* Every way the loop of tinynv_mm_valloc may end: the pieces it took, which
\* fall short when the smallest chunk is refused
Pieces(size) ==
    LET start == DataFrames \ Taken
        biggest == CHOOSE c \in Chunks : \A d \in Chunks : d <= c
        from[r \in (0 .. size) \X Chunks \X SUBSET start] ==
            LET left == r[1]
                chunk == r[2]
                free == r[3]
                smaller == {c \in Chunks : c < chunk}
                next == CHOOSE c \in smaller : \A d \in smaller : d <= c
                at == PhysicalFor(free, chunk, chunk)
            IN  IF left = 0 THEN {<<>>}
                ELSE IF chunk > left \/ at = {}
                THEN IF smaller = {} THEN {<<>>} ELSE from[<<left, next, free>>]
                ELSE UNION {{<<[paddr |-> p, size |-> chunk]>> \o rest :
                                rest \in from[<<left - chunk, chunk,
                                                free \ (p .. p + chunk - 1)>>]} :
                            p \in at}
    IN  from[<<size, biggest, start>>]

PagesIn(ranges) ==
    LET upto[i \in 0 .. Len(ranges)] ==
            IF i = 0 THEN <<>> ELSE upto[i - 1] \o Run(ranges[i].paddr, ranges[i].size)
    IN  upto[Len(ranges)]

\* What each kind of buffer is made of, as ranges: host memory page by page,
\* the reserve by a pointer that only moves up, video memory in one run when
\* it must be contiguous or in chunks
InOne(frames, size) == {<<[paddr |-> p, size |-> size]>> : p \in frames}

Choices(kind, size) ==
    CASE kind = "host" ->
           {[i \in 1 .. size |-> [paddr |-> f[i], size |-> 1]] :
               f \in {g \in [1 .. size -> HostFrames \ Taken] :
                         \A i, j \in 1 .. size : i < j => g[i] < g[j]}}
      [] kind = "reserve" ->
           LET above == {p \in PoolFrames : \A q \in mm.reserved : p > q}
           IN  InOne({p \in above : /\ p .. p + size - 1 \subseteq above
                                    /\ \A q \in above : p <= q}, size)
      [] kind = "contiguous" ->
           InOne(PhysicalFor(DataFrames \ Taken, size, 1), size)
      [] kind = "chunks" -> Pieces(size)

Kinds == {"host", "reserve", "contiguous", "chunks"}

Buffer(va, size, ranges) ==
    [va |-> va, size |-> size, pages |-> PagesIn(ranges)]

-----------------------------------------------------------------------------
Init ==
    /\ tree = EmptyTree /\ arrived = EmptyTree
    /\ kept = {} /\ freeing = {}
    /\ mm = [live |-> {}, leaked |-> {}, forgotten |-> {}, reserved |-> {},
             tables_made |-> 0, wedged |-> FALSE]

ReservedAfter(kind, ranges) ==
    IF kind = "reserve" THEN mm.reserved \cup {PagesIn(ranges)[i] : i \in DOMAIN PagesIn(ranges)}
    ELSE mm.reserved

\* A contiguous run is had or not; chunks may fall short
Offers(kind, size) ==
    IF kind = "contiguous" /\ Choices(kind, size) = {} THEN {<<>>} ELSE Choices(kind, size)

\* tinynv_mm_alloc_buffer.  Reading the entries first brings every posted one
\* in.  What a failed mapping took by then goes back nowhere.
AllocBuffer(kind, size) ==
    /\ ~mm.wedged /\ freeing = {} /\ Cardinality(Held) < MaxHeld
    /\ \E va \in AddressesFor(size), ranges \in Choices(kind, size) :
        LET m == Buffer(va, size, ranges)
            leaves == LeavesOf(va, ranges)
            room == TablePages - mm.tables_made
            busy == range_is_mapped(tree, va, size)
            mapped == ~busy /\ Reached(tree, leaves, room) = Len(leaves)
        IN  /\ Len(m.pages) = size
            /\ arrived' = tree
            /\ kept' = kept \cup Translations(tree)
            /\ tree' = IF busy THEN tree ELSE Built(tree, leaves, room)
            /\ mm' = [mm EXCEPT
                 !.tables_made = IF busy THEN @ ELSE @ + Cardinality(Made(tree, leaves, room)),
                 !.live = IF mapped THEN @ \cup {m} ELSE @,
                 !.forgotten = IF mapped THEN @ ELSE @ \cup {m},
                 !.reserved = ReservedAfter(kind, ranges)]
    /\ UNCHANGED freeing

\* Memory runs short after the addresses were taken, and with it the pieces so far
MemoryShort(kind, size) ==
    /\ kind \in {"contiguous", "chunks"}
    /\ ~mm.wedged /\ freeing = {}
    /\ \E va \in AddressesFor(size), ranges \in Offers(kind, size) :
        /\ Len(PagesIn(ranges)) < size
        /\ mm' = [mm EXCEPT !.forgotten = @ \cup {Buffer(va, size, ranges)}]
    /\ UNCHANGED <<tree, arrived, kept, freeing>>

\* Host memory and the reserve are taken before the addresses are refused
AddressesShort(kind, size) ==
    /\ kind \in {"host", "reserve"}
    /\ mm.wedged \/ AddressesFor(size) = {}
    /\ freeing = {}
    /\ \E ranges \in Choices(kind, size) :
        mm' = [mm EXCEPT !.forgotten = @ \cup {Buffer(VaPages, 0, ranges)},
                         !.reserved = ReservedAfter(kind, ranges)]
    /\ UNCHANGED <<tree, arrived, kept, freeing>>

\* tinynv_vmap_free begins: the entries are cleared, the fencing read brings
\* that in, and the card is told to forget
VmapFree(m) ==
    /\ m \in mm.live /\ freeing = {}
    /\ tree' = Unmapped(tree, m.va, m.size)
    /\ arrived' = tree'
    /\ freeing' = {m}
    /\ UNCHANGED <<kept, mm>>

\* The card says it has forgotten: addresses and memory go back
Acknowledged ==
    /\ freeing # {}
    /\ mm' = [mm EXCEPT !.live = @ \ freeing]
    /\ kept' = Translations(arrived)
    /\ freeing' = {}
    /\ UNCHANGED <<tree, arrived>>

\* Mutant: the memory goes back although nobody confirmed
TimedOutMutant ==
    /\ freeing # {}
    /\ mm' = [mm EXCEPT !.live = @ \ freeing]
    /\ freeing' = {}
    /\ UNCHANGED <<tree, arrived, kept>>

\* It does not say so in a second: nothing goes back, now or later
TimedOut ==
    /\ freeing # {}
    /\ mm' = [mm EXCEPT !.wedged = TRUE, !.live = @ \ freeing, !.leaked = @ \cup freeing]
    /\ freeing' = {}
    /\ UNCHANGED <<tree, arrived, kept>>

-----------------------------------------------------------------------------
\* Posted entries reach video memory
Arrive ==
    /\ arrived # tree
    /\ arrived' = tree
    /\ kept' = kept \cup Translations(tree)
    /\ UNCHANGED <<tree, mm, freeing>>

AllocMemory == \E kind \in Kinds, size \in Sizes :
            AllocBuffer(kind, size) \/ MemoryShort(kind, size) \/ AddressesShort(kind, size)

Next ==
    \/ AllocMemory
    \/ \E m \in mm.live : VmapFree(m)
    \/ Acknowledged \/ TimedOut
    \/ Arrive

Spec == Init /\ [][Next]_vars
-----------------------------------------------------------------------------
\* The card can reach no memory, by the entries or by a translation it kept,
\* but through the mapping that memory was last given to: what is free, or
\* was handed on, is out of its reach (pt.c:355-362, 451-468).
ReachesOnlyItsOwn ==
    LET own == UNION {PagesOf(m) : m \in Held}
    IN  kept \cup Translations(tree) \cup Translations(arrived) \subseteq own

\* Whatever was built and torn down before, through tables left behind and
\* pages of every size, a buffer's addresses lead to its own memory in order.
MapsWhatItSays ==
    \A m \in mm.live \ freeing : \A i \in 1 .. m.size :
        Translate(tree, m.va + i - 1) = {m.pages[i]}

\* Tables an earlier mapping left behind never make a free range look taken
\* (pt.c:304-318).
FreshRangesLookFree ==
    \A size \in Sizes : \A va \in AddressesFor(size) : ~range_is_mapped(tree, va, size)
=============================================================================
