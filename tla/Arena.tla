------------------------------- MODULE Arena -------------------------------
(***************************************************************************)
(* The decisions of libtinynv/src/arena.c: where an allocation lands in a  *)
(* scratch region, which submitted work has to finish before its bytes may *)
(* be handed out, and who owns them afterwards.  As in the C file these    *)
(* are functions of one region record and touch nothing else; Scratch.tla  *)
(* is the caller.                                                          *)
(*                                                                         *)
(* A span is a half-open interval of offsets, empty when hi <= lo.         *)
(***************************************************************************)
EXTENDS Integers

CONSTANT SEGMENTS          \* TINYNV_EXEC_SEGMENTS: the pieces a region is recycled in

ASSUME SegmentsAssumption == SEGMENTS \in Nat \ {0}

Pieces == 0 .. SEGMENTS - 1
Span == [lo : Nat, hi : Nat]
NoSpan == [lo |-> 0, hi |-> 0]

\* tinynv_exec_region_t, the fields arena.c reads and writes
Region == [size : Nat \ {0},              \* bytes in the region
           next : Nat,                    \* where the bump allocation stands
           seg_value : [Pieces -> Nat],   \* newest batch to have used each piece
           seg_entered : Nat,             \* pieces below this were entered this lap
           dirty : Span,                  \* built and not yet pushed
           used : Span]                   \* handed out and not yet submitted

EmptyRegion(size) ==
    [size |-> size, next |-> 0, seg_value |-> [i \in Pieces |-> 0],
     seg_entered |-> 0, dirty |-> NoSpan, used |-> NoSpan]

Disjoint(s, t) == s.hi <= t.lo \/ t.hi <= s.lo

-----------------------------------------------------------------------------
\* The piece an offset falls in: multiply before dividing, so that no tail is
\* left out of every piece.
seg_of(rg, off) == (off * SEGMENTS) \div rg.size

\* The pieces a non-empty span touches
Touched(rg, lo, hi) == {i \in Pieces : seg_of(rg, lo) <= i /\ i <= seg_of(rg, hi - 1)}

\* Where the next allocation lands, and whether it has to come round first
wrapsMutant(rg, bytes, align) == rg.next + bytes > rg.size   \* Mutated form: before aligning

place(rg, align) == ((rg.next + align - 1) \div align) * align
wraps(rg, bytes, align) == place(rg, align) + bytes > rg.size

\* The pieces an allocation enters: those it touches that this lap has not
\* entered.  Pieces between seg_entered and the allocation are stepped over.
Entered(rg, off, bytes) ==
    {i \in Touched(rg, off, off + bytes) : i >= rg.seg_entered}

\* Mutated form: only the piece the allocation starts in is asked
IsWantMutant(rg, off, bytes, want) ==
    want = IF seg_of(rg, off) >= rg.seg_entered THEN rg.seg_value[seg_of(rg, off)] ELSE 0

\* What tinynv_arena_enter returns: the highest record of the pieces entered,
\* 0 when there is none.
IsWant(rg, off, bytes, want) ==
    /\ want = 0 \/ \E i \in Entered(rg, off, bytes) : rg.seg_value[i] = want
    /\ \A i \in Entered(rg, off, bytes) : rg.seg_value[i] <= want

\* ... and what it leaves behind: their records cleared, the lap moved on.
enter(rg, off, bytes) ==
    LET last == seg_of(rg, off + bytes - 1) IN
    [rg EXCEPT !.seg_value = [i \in Pieces |-> IF i \in Entered(rg, off, bytes)
                                               THEN 0 ELSE rg.seg_value[i]],
               !.seg_entered = IF last + 1 > @ THEN last + 1 ELSE @]

widen(s, a, b) ==
    IF s.hi = s.lo THEN [lo |-> a, hi |-> b]
    ELSE [lo |-> IF a < s.lo THEN a ELSE s.lo, hi |-> IF b > s.hi THEN b ELSE s.hi]

take(rg, off, bytes) ==
    [rg EXCEPT !.next = off + bytes,
               !.dirty = widen(@, off, off + bytes),
               !.used = widen(@, off, off + bytes)]

\* A batch's value recorded against every piece of a span; records only rise.
mark(rg, s, value) ==
    IF s.hi <= s.lo \/ s.hi > rg.size THEN rg
    ELSE [rg EXCEPT !.seg_value = [i \in Pieces |->
            IF i \in Touched(rg, s.lo, s.hi) /\ value > rg.seg_value[i]
            THEN value ELSE rg.seg_value[i]]]

\* Mutated forms: the span is forgotten unrecorded, or recorded and kept
submittedForgetsMutant(rg, value) == [rg EXCEPT !.used = NoSpan]
submittedKeepsMutant(rg, value) == mark(rg, rg.used, value)

submitted(rg, value) == [mark(rg, rg.used, value) EXCEPT !.used = NoSpan]

\* Starting again from the bottom.  Held says that a span is outstanding, for
\* which rewind returns -1; the region is reset whatever it returns.
Held(rg) == rg.dirty.hi # rg.dirty.lo \/ rg.used.hi # rg.used.lo

rewind(rg) == [rg EXCEPT !.next = 0, !.seg_entered = 0,
                         !.dirty = NoSpan, !.used = NoSpan]
=============================================================================
