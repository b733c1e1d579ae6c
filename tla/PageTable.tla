----------------------------- MODULE PageTable -----------------------------
(***************************************************************************)
(* libtinynv/src/pt.c: the tree the card walks to turn a virtual address   *)
(* into a physical one.  Addresses count pages.  An entry is named by its  *)
(* level and the first address it covers, and a table by the entry that    *)
(* points at it, since nothing else ever does.                             *)
(***************************************************************************)
EXTENDS Integers, Sequences, FiniteSets

CONSTANTS
    Covers,          \* pages one entry covers, level by level from the root
    HugeLevels,      \* how many of the last levels may hold pages
    VaPages          \* the address space

ASSUME PageTableAssumption ==
    /\ Covers \in Seq(Nat \ {0}) /\ Len(Covers) > 1
    /\ Covers[Len(Covers)] = 1
    /\ \A lv \in 1 .. Len(Covers) - 1 : Covers[lv] % Covers[lv + 1] = 0
    /\ HugeLevels \in 1 .. Len(Covers)
    /\ VaPages \in Nat \ {0} /\ VaPages % Covers[1] = 0

Levels == Len(Covers)

Entry(lv, va) == <<lv, (va \div Covers[lv]) * Covers[lv]>>
Entries == {Entry(lv, va) : lv \in 1 .. Levels, va \in 0 .. VaPages - 1}

Invalid == [kind |-> "invalid"]
Table == [kind |-> "table"]
Page(frame) == [kind |-> "page", frame |-> frame]

EmptyTree == [e \in Entries |-> Invalid]

Below(e) == {b \in Entries : b[1] > e[1] /\ Entry(e[1], b[2]) = e}

\* tinynv_pt_set_entry: what an entry pointed at goes out of reach with it
set_entry(tree, to) ==
    [e \in Entries |->
        CASE e \in DOMAIN to -> to[e]
          [] e \notin DOMAIN to /\ \E b \in DOMAIN to : e \in Below(b) /\ to[b] # Table -> Invalid
          [] OTHER -> tree[e]]

-----------------------------------------------------------------------------
\* Where a walk that only looks stops: at the first entry that is no table
Stop(tree, va) ==
    CHOOSE lv \in 1 .. Levels :
        /\ \A up \in 1 .. lv - 1 : tree[Entry(up, va)] = Table
        /\ tree[Entry(lv, va)] # Table

\* The entries left in the table an address is in
Room(lv, va) ==
    LET end == IF lv = 1 THEN VaPages ELSE Entry(lv - 1, va)[2] + Covers[lv - 1]
    IN  (end - Entry(lv, va)[2]) \div Covers[lv]

\* Mutant: rounds up what is left to whole entries
RunLengthMutant(lv, va, left) ==
    LET want == (left + Covers[lv] - 1) \div Covers[lv]
    IN  IF want < Room(lv, va) THEN want ELSE Room(lv, va)

\* tinynv_pt_walk_next, looking: a run of neighbours at the level where the
\* first of them stopped, at least one whatever is left
RunLength(lv, va, left) ==
    LET want == left \div Covers[lv]
        run == IF want < Room(lv, va) THEN want ELSE Room(lv, va)
    IN  IF run = 0 THEN 1 ELSE run

\* All the runs of a walk over a range, as the level and address of each entry
Looked(tree, va, size) ==
    LET from[left \in 0 .. size] ==
            IF left = 0 THEN {} ELSE
            LET v == va + size - left
                lv == Stop(tree, v)
                n == RunLength(lv, v, left)
                step == n * Covers[lv]
            IN  {[lv |-> lv, at |-> v + i * Covers[lv]] : i \in 0 .. n - 1}
                    \cup from[IF step >= left THEN 0 ELSE left - step]
    IN  from[size]

\* Mutant: a table left behind counts as a mapping
range_is_mappedMutant(tree, va, size) ==
    \E l \in Looked(tree, va, size) : tree[Entry(l.lv, l.at)].kind # "invalid"

\* A table among a run's later entries may be one left behind: look under it
range_is_mapped(tree, va, size) ==
    LET mapped[r \in {s \in (0 .. VaPages) \X (0 .. VaPages) : s[1] + s[2] <= VaPages}] ==
            \E l \in Looked(tree, r[1], r[2]) :
                LET e == tree[Entry(l.lv, l.at)]
                    n == IF Covers[l.lv] < r[2] THEN Covers[l.lv] ELSE r[2]
                IN  \/ e.kind = "page"
                    \/ e = Table /\ mapped[<<l.at, n>>]
    IN  mapped[<<va, size>>]

\* tinynv_mm_unmap_range, but for the invalidate: every entry of every run
Unmapped(tree, va, size) ==
    set_entry(tree, [e \in {Entry(l.lv, l.at) : l \in Looked(tree, va, size)} |-> Invalid])

-----------------------------------------------------------------------------
supports_huge_page(lv, frame) == lv > Levels - HugeLevels /\ frame % Covers[lv] = 0

\* tinynv_pt_walk_next, building: the highest level whose entry covers no more
\* than what is left, may be a page, and lines up with the address
PageLevel(va, frame, left) ==
    CHOOSE lv \in 1 .. Levels :
        LET Fits(l) == /\ Covers[l] <= left
                       /\ supports_huge_page(l, frame)
                       /\ va % Covers[l] = 0
        IN  Fits(lv) /\ \A up \in 1 .. lv - 1 : ~Fits(up)

\* The pages a range of memory becomes, lowest first
Leaves(va, range) ==
    LET from[off \in 0 .. range.size] ==
            IF off = range.size THEN <<>> ELSE
            LET lv == PageLevel(va + off, range.paddr + off, range.size - off)
            IN  <<[at |-> Entry(lv, va + off), frame |-> range.paddr + off]>>
                    \o from[off + Covers[lv]]
    IN  from[0]

\* The pages of a mapping's ranges, one range after the other
LeavesOf(va, ranges) ==
    LET upto[i \in 0 .. Len(ranges)] ==
            IF i = 0 THEN [leaves |-> <<>>, next |-> va]
            ELSE LET before == upto[i - 1]
                 IN  [leaves |-> before.leaves \o Leaves(before.next, ranges[i]),
                      next |-> before.next + ranges[i].size]
    IN  upto[Len(ranges)].leaves

\* level_down: the tables on the way to a leaf
PathTo(leaf) == {Entry(lv, leaf.at[2]) : lv \in 1 .. leaf.at[1] - 1}

Missing(tree, leaves, n) ==
    {e \in UNION {PathTo(leaves[i]) : i \in 1 .. n} : tree[e] # Table}

\* The leaves there are tables for, with room for so many more
Reached(tree, leaves, room) ==
    CHOOSE n \in 0 .. Len(leaves) :
        /\ Cardinality(Missing(tree, leaves, n)) <= room
        /\ n < Len(leaves) => Cardinality(Missing(tree, leaves, n + 1)) > room

\* The tables a build makes: all it needs, or those on the way to the leaf it
\* fails at, from the root down, until there is no room
Made(tree, leaves, room) ==
    LET n == Reached(tree, leaves, room)
        done == Missing(tree, leaves, n)
        next == IF n = Len(leaves) THEN {} ELSE Missing(tree, leaves, n + 1) \ done
    IN  done \cup {e \in next :
                      Cardinality({f \in next : f[1] <= e[1]}) <= room - Cardinality(done)}

\* The building pass of tinynv_mm_map_range
Built(tree, leaves, room) ==
    LET n == Reached(tree, leaves, room)
        made == Made(tree, leaves, room)
    IN  set_entry(set_entry(tree, [e \in made |-> Table]),
                  [e \in {leaves[i].at : i \in 1 .. n} |->
                      Page(leaves[CHOOSE i \in 1 .. n : leaves[i].at = e].frame)])

-----------------------------------------------------------------------------
\* What the card makes of an address: an entry of several pages holds the
\* address of the first, on a boundary of its own size
Translate(tree, va) ==
    LET e == Entry(Stop(tree, va), va)
        size == Covers[e[1]]
    IN  IF tree[e].kind = "page"
        THEN {(tree[e].frame \div size) * size + (va % size)}
        ELSE {}

Translations(tree) ==
    UNION {{<<va, f>> : f \in Translate(tree, va)} : va \in 0 .. VaPages - 1}
=============================================================================
