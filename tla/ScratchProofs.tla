--------------------------- MODULE ScratchProofs ---------------------------
(***************************************************************************)
(* The scratch regions never hand out bytes an engine still uses, for      *)
(* every region size, number of pieces, alignment, request and chain       *)
(* length.                                                                 *)
(*                                                                         *)
(* The argument is about one span of one batch in flight.  Its pieces are  *)
(* on record above the value its queue had before the batch (Covered), so  *)
(* a wait for any of the records outlasts the batch; and it lies below the *)
(* allocation point or in pieces this lap has yet to enter (Behind), so an *)
(* allocation that reaches it has to enter one of those pieces first.      *)
(* Neither is inductive without the other: entering a piece clears its     *)
(* record, which is harmless only because the wait then has to pass it.    *)
(***************************************************************************)
EXTENDS Scratch, TLAPS

-----------------------------------------------------------------------------
(* What the operators of Arena.tla preserve, for every region size, number *)
(* of pieces and allocation.  The subject of each lemma is one span s of   *)
(* the region that some batch in flight still uses; a is the value its     *)
(* queue was at before that batch, so a wait for anything above a does not *)
(* end before the batch does.                                              *)

RegionOK(rg) == rg \in Region /\ rg.next <= rg.size

Within(rg, s) == s \in Span /\ s.lo < s.hi /\ s.hi <= rg.size

\* Every piece the span touches carries a record above a.
Covered(rg, s, a) == \A i \in Touched(rg, s.lo, s.hi) : rg.seg_value[i] > a

\* The span lies below top, or in pieces this lap has not entered.
Behind(rg, s, top) == s.hi <= top \/ seg_of(rg, s.lo) >= rg.seg_entered

\* The span is safe in a region nothing is being allocated in ...
Safe(rg, s, a) == Within(rg, s) /\ Covered(rg, s, a) /\ Behind(rg, s, rg.next)

\* ... and while an allocation of [off, off + bytes) waits for want.
SafeAt(rg, s, a, off, bytes, want) ==
    /\ Within(rg, s)
    /\ \/ a < want
       \/ /\ Covered(rg, s, a)
          /\ Behind(rg, s, off + bytes)
          /\ Disjoint(s, [lo |-> off, hi |-> off + bytes])

-----------------------------------------------------------------------------
\* An offset inside the region falls in one of its pieces.
LEMMA SegOfType ==
  ASSUME NEW rg \in Region, NEW x \in Nat, x < rg.size
  PROVE  seg_of(rg, x) \in Pieces
<1>. DEFINE n == rg.size
<1>1. n \in Nat \ {0} /\ x < n
  BY DEF Region
<1>2. SEGMENTS \in Nat \ {0}
  BY SegmentsAssumption
<1>. HIDE DEF n
<1>3. x * SEGMENTS < n * SEGMENTS /\ x * SEGMENTS \in Nat
  BY <1>1, <1>2
<1>4. (x * SEGMENTS) \div n \in 0 .. SEGMENTS - 1
  BY <1>1, <1>2, <1>3
<1>. QED  BY <1>4 DEF seg_of, Pieces, n

\* A later offset never falls in an earlier piece.
LEMMA SegOfMonotone ==
  ASSUME NEW rg \in Region, NEW x \in Nat, NEW y \in Nat, x <= y
  PROVE  seg_of(rg, x) <= seg_of(rg, y)
<1>. DEFINE n == rg.size
<1>1. n \in Nat \ {0}
  BY DEF Region
<1>2. SEGMENTS \in Nat \ {0}
  BY SegmentsAssumption
<1>. HIDE DEF n
<1>3. x * SEGMENTS <= y * SEGMENTS /\ x * SEGMENTS \in Nat /\ y * SEGMENTS \in Nat
  BY <1>2
<1>4. (x * SEGMENTS) \div n <= (y * SEGMENTS) \div n
  BY <1>1, <1>3
<1>. QED  BY <1>4 DEF seg_of, n

\* seg_of is a number, whatever the offset.
LEMMA SegOfNat ==
  ASSUME NEW rg \in Region, NEW x \in Nat
  PROVE  seg_of(rg, x) \in Nat
<1>1. rg.size \in Nat \ {0} /\ SEGMENTS \in Nat \ {0}
  BY SegmentsAssumption DEF Region
<1>2. x * SEGMENTS \in Nat
  BY <1>1
<1>. QED  BY <1>1, <1>2 DEF seg_of

\* A byte of a span lies in a piece the span touches.
LEMMA ByteTouched ==
  ASSUME NEW rg \in Region, NEW s \in Span, s.hi <= rg.size,
         NEW x \in Nat, s.lo <= x, x < s.hi
  PROVE  seg_of(rg, x) \in Touched(rg, s.lo, s.hi)
<1>1. s.lo \in Nat /\ s.hi \in Nat /\ rg.size \in Nat
  BY DEF Span, Region
<1>2. seg_of(rg, x) \in Pieces
  BY <1>1, SegOfType
<1>3. seg_of(rg, s.lo) <= seg_of(rg, x)
  BY <1>1, SegOfMonotone
<1>4. seg_of(rg, x) <= seg_of(rg, s.hi - 1)
  BY <1>1, SegOfMonotone
<1>. QED  BY <1>2, <1>3, <1>4 DEF Touched

\* Aligning never goes back below the bump allocation.
LEMMA PlaceAbove ==
  ASSUME NEW rg \in Region, NEW align \in Nat \ {0}
  PROVE  place(rg, align) \in Nat /\ place(rg, align) >= rg.next
<1>. DEFINE n == rg.next
<1>1. n \in Nat
  BY DEF Region
<1>. HIDE DEF n
<1>2. ((n + align - 1) \div align) * align >= n /\ ((n + align - 1) \div align) * align \in Nat
  BY <1>1
<1>. QED  BY <1>2 DEF place, n

-----------------------------------------------------------------------------
\* Only the fields seg_of and Touched read decide them.
LEMMA TouchedSame ==
  ASSUME NEW rg \in Region, NEW rh \in Region, rg.size = rh.size
  PROVE  /\ \A x : seg_of(rg, x) = seg_of(rh, x)
         /\ \A lo, hi : Touched(rg, lo, hi) = Touched(rh, lo, hi)
BY DEF seg_of, Touched

\* Entering clears the records of the pieces entered, moves the lap past them
\* and leaves the rest of the region alone.
LEMMA EnterOK ==
  ASSUME NEW rg, RegionOK(rg), NEW off \in Nat, NEW bytes \in Nat \ {0},
         off + bytes <= rg.size
  PROVE  /\ RegionOK(enter(rg, off, bytes))
         /\ enter(rg, off, bytes).size = rg.size
         /\ enter(rg, off, bytes).next = rg.next
         /\ enter(rg, off, bytes).dirty = rg.dirty
         /\ enter(rg, off, bytes).used = rg.used
         /\ \A i \in Pieces : enter(rg, off, bytes).seg_value[i] =
                                IF i \in Entered(rg, off, bytes) THEN 0 ELSE rg.seg_value[i]
         /\ enter(rg, off, bytes).seg_entered \in {rg.seg_entered, seg_of(rg, off + bytes - 1) + 1}
         /\ enter(rg, off, bytes).seg_entered >= rg.seg_entered
         /\ enter(rg, off, bytes).seg_entered > seg_of(rg, off + bytes - 1)
<1>1. rg \in Region /\ rg.next <= rg.size
  BY DEF RegionOK
<1>2. rg.seg_entered \in Nat /\ seg_of(rg, off + bytes - 1) \in Nat
  BY <1>1, SegOfNat DEF Region
<1>. DEFINE sv == [i \in Pieces |-> IF i \in Entered(rg, off, bytes) THEN 0 ELSE rg.seg_value[i]]
            last == seg_of(rg, off + bytes - 1)
            se == IF last + 1 > rg.seg_entered THEN last + 1 ELSE rg.seg_entered
            rh == enter(rg, off, bytes)
<1>3. sv \in [Pieces -> Nat]
  BY <1>1 DEF Region
<1>4. se \in Nat /\ se \in {rg.seg_entered, last + 1} /\ se >= rg.seg_entered /\ se > last
  BY <1>2
<1>5. rh = [rg EXCEPT !.seg_value = sv, !.seg_entered = se]
  BY DEF enter
<1>6. \A i \in Pieces : sv[i] = IF i \in Entered(rg, off, bytes) THEN 0 ELSE rg.seg_value[i]
  OBVIOUS
<1>. HIDE DEF sv, last, se, rh
<1>7. /\ rh \in Region /\ rh.size = rg.size /\ rh.next = rg.next
      /\ rh.dirty = rg.dirty /\ rh.used = rg.used
      /\ rh.seg_value = sv /\ rh.seg_entered = se
  BY <1>1, <1>3, <1>4, <1>5 DEF Region
<1>8. RegionOK(rh)
  BY <1>1, <1>7 DEF RegionOK
<1>. QED  BY <1>4, <1>6, <1>7, <1>8 DEF rh, last

\* Entering: a span in flight either stays on record and clear of the
\* allocation, or is waited for.
LEMMA EnterSafe ==
  ASSUME NEW rg, RegionOK(rg), NEW off \in Nat, NEW bytes \in Nat \ {0},
         off >= rg.next, off + bytes <= rg.size,
         NEW want \in Nat, IsWant(rg, off, bytes, want),
         NEW s, NEW a \in Nat, Safe(rg, s, a)
  PROVE  SafeAt(enter(rg, off, bytes), s, a, off, bytes, want)
<1>. DEFINE rh == enter(rg, off, bytes)
            t == [lo |-> off, hi |-> off + bytes]
<1>0. /\ rg \in Region /\ rh \in Region /\ rh.size = rg.size /\ t \in Span
      /\ s \in Span /\ s.lo \in Nat /\ s.hi \in Nat /\ s.lo < s.hi /\ s.hi <= rg.size
      /\ rg.size \in Nat /\ rg.next \in Nat /\ rg.seg_entered \in Nat
  BY EnterOK DEF RegionOK, Region, Safe, Within, Span
<1>1. Within(rh, s)
  BY <1>0 DEF Within
<1>2. SUFFICES ASSUME ~ (a < want)
               PROVE  Covered(rh, s, a) /\ Behind(rh, s, off + bytes) /\ Disjoint(s, t)
  BY <1>1 DEF SafeAt
<1>3. ASSUME NEW i \in Touched(rg, s.lo, s.hi)
      PROVE  i \notin Entered(rg, off, bytes)
  <2>1. rg.seg_value[i] > a /\ rg.seg_value[i] \in Nat
    BY <1>0, <1>3 DEF Safe, Covered, Touched, Region
  <2>. QED  BY <2>1, <1>2 DEF IsWant
<1>4. Covered(rh, s, a)
  <2>1. ASSUME NEW i \in Touched(rh, s.lo, s.hi)
        PROVE  rh.seg_value[i] > a
    <3>1. i \in Touched(rg, s.lo, s.hi) /\ i \in Pieces
      BY <1>0, <2>1, TouchedSame DEF Touched
    <3>2. rh.seg_value[i] = rg.seg_value[i]
      BY <3>1, <1>3, EnterOK
    <3>. QED  BY <3>1, <3>2 DEF Safe, Covered
  <2>. QED  BY <2>1 DEF Covered
<1>5. ASSUME s.hi > rg.next
      PROVE  seg_of(rg, s.lo) >= rg.seg_entered
  BY <1>0, <1>5 DEF Safe, Behind
<1>6. Disjoint(s, t)
  <2>1. SUFFICES ASSUME s.lo < off + bytes, off < s.hi
                 PROVE  FALSE
    BY <1>0 DEF Disjoint
  <2>. DEFINE x == IF s.lo < off THEN off ELSE s.lo
  <2>2. x \in Nat /\ s.lo <= x /\ x < s.hi /\ off <= x /\ x < off + bytes
    BY <1>0, <2>1
  <2>. HIDE DEF x
  <2>3. seg_of(rg, x) \in Touched(rg, s.lo, s.hi)
    BY <1>0, <2>2, ByteTouched
  <2>4. seg_of(rg, x) \in Touched(rg, off, off + bytes)
    BY <1>0, <2>2, ByteTouched, t.lo = off, t.hi = off + bytes
  <2>5. seg_of(rg, x) >= rg.seg_entered
    <3>1. seg_of(rg, s.lo) >= rg.seg_entered
      BY <1>0, <1>5, <2>1
    <3>2. seg_of(rg, s.lo) <= seg_of(rg, x)
      BY <1>0, <2>2, SegOfMonotone
    <3>3. seg_of(rg, s.lo) \in Nat /\ seg_of(rg, x) \in Nat
      BY <1>0, <2>2, SegOfNat
    <3>. QED  BY <3>1, <3>2, <3>3, <1>0
  <2>6. seg_of(rg, x) \in Entered(rg, off, bytes)
    BY <2>4, <2>5 DEF Entered
  <2>. QED  BY <2>3, <2>6, <1>3
<1>7. Behind(rh, s, off + bytes)
  <2>1. SUFFICES ASSUME s.hi > off + bytes
                 PROVE  seg_of(rg, s.lo) >= rh.seg_entered
    BY <1>0, TouchedSame DEF Behind
  <2>2. s.lo >= off + bytes
    BY <1>0, <1>6, <2>1 DEF Disjoint
  <2>. DEFINE last == seg_of(rg, off + bytes - 1)
  <2>3. off + bytes - 1 \in Nat /\ off <= off + bytes - 1 /\ off + bytes - 1 < off + bytes
    OBVIOUS
  <2>4. last \in Nat /\ seg_of(rg, s.lo) \in Nat /\ last <= seg_of(rg, s.lo)
    BY <1>0, <2>2, <2>3, SegOfMonotone, SegOfNat
  <2>5. seg_of(rg, s.lo) >= rg.seg_entered
    BY <1>0, <1>5, <2>1
  <2>6. last # seg_of(rg, s.lo)
    <3>1. last \in Touched(rg, off, off + bytes)
      BY <1>0, <2>3, ByteTouched, t.lo = off, t.hi = off + bytes
    <3>2. seg_of(rg, s.lo) \in Touched(rg, s.lo, s.hi)
      BY <1>0, ByteTouched
    <3>. QED  BY <3>1, <3>2, <2>5, <1>3 DEF Entered
  <2>7. rh.seg_entered \in {rg.seg_entered, last + 1}
    BY EnterOK
  <2>. HIDE DEF last
  <2>. QED  BY <1>0, <2>4, <2>5, <2>6, <2>7
<1>. QED  BY <1>4, <1>6, <1>7

-----------------------------------------------------------------------------
\* Taking moves the bump allocation and covers the bytes taken in both spans.
LEMMA TakeOK ==
  ASSUME NEW rg, RegionOK(rg), NEW off \in Nat, NEW bytes \in Nat \ {0},
         off + bytes <= rg.size
  PROVE  /\ RegionOK(take(rg, off, bytes))
         /\ take(rg, off, bytes).size = rg.size
         /\ take(rg, off, bytes).next = off + bytes
         /\ take(rg, off, bytes).seg_value = rg.seg_value
         /\ take(rg, off, bytes).seg_entered = rg.seg_entered
         /\ take(rg, off, bytes).dirty = widen(rg.dirty, off, off + bytes)
         /\ take(rg, off, bytes).used = widen(rg.used, off, off + bytes)
<1>. DEFINE d == widen(rg.dirty, off, off + bytes)
            u == widen(rg.used, off, off + bytes)
<1>1. rg \in Region /\ rg.dirty \in Span /\ rg.used \in Span
  BY DEF RegionOK, Region
<1>2. d \in Span /\ u \in Span
  BY <1>1 DEF widen, Span
<1>3. take(rg, off, bytes) = [rg EXCEPT !.next = off + bytes, !.dirty = d, !.used = u]
  BY DEF take
<1>. DEFINE n == off + bytes
<1>. HIDE DEF d, u
<1>5. n \in Nat /\ take(rg, off, bytes) = [rg EXCEPT !.next = n, !.dirty = d, !.used = u]
  BY <1>3
<1>. HIDE DEF n
<1>6. take(rg, off, bytes) = [size |-> rg.size, next |-> n, seg_value |-> rg.seg_value,
                               seg_entered |-> rg.seg_entered, dirty |-> d, used |-> u]
  BY <1>1, <1>5 DEF Region
<1>7. /\ rg.size \in Nat \ {0} /\ rg.seg_value \in [Pieces -> Nat] /\ rg.seg_entered \in Nat
  BY <1>1 DEF Region
<1>4. /\ take(rg, off, bytes) \in Region
      /\ take(rg, off, bytes).size = rg.size
      /\ take(rg, off, bytes).next = n
      /\ take(rg, off, bytes).seg_value = rg.seg_value
      /\ take(rg, off, bytes).seg_entered = rg.seg_entered
      /\ take(rg, off, bytes).dirty = d
      /\ take(rg, off, bytes).used = u
  BY <1>2, <1>5, <1>6, <1>7 DEF Region
<1>. QED  BY <1>4 DEF RegionOK, d, u, n

\* The wait over, what is left in flight is safe from the bytes taken.
LEMMA TakeSafe ==
  ASSUME NEW rg, RegionOK(rg), NEW off \in Nat, NEW bytes \in Nat \ {0},
         off + bytes <= rg.size,
         NEW want \in Nat, NEW s, NEW a \in Nat, a >= want,
         SafeAt(rg, s, a, off, bytes, want)
  PROVE  /\ Safe(take(rg, off, bytes), s, a)
         /\ Disjoint(s, [lo |-> off, hi |-> off + bytes])
<1>1. rg \in Region /\ take(rg, off, bytes) \in Region
  BY TakeOK DEF RegionOK
<1>2. Within(rg, s) /\ Covered(rg, s, a) /\ Behind(rg, s, off + bytes)
      /\ Disjoint(s, [lo |-> off, hi |-> off + bytes])
  BY DEF SafeAt
<1>. QED  BY <1>1, <1>2, TakeOK, TouchedSame DEF Safe, Within, Covered, Behind

-----------------------------------------------------------------------------
\* Marking only raises records, and no higher than the value marked.
LEMMA MarkOK ==
  ASSUME NEW rg, RegionOK(rg), NEW s \in Span, NEW value \in Nat
  PROVE  /\ RegionOK(mark(rg, s, value))
         /\ mark(rg, s, value).size = rg.size
         /\ mark(rg, s, value).next = rg.next
         /\ mark(rg, s, value).seg_entered = rg.seg_entered
         /\ mark(rg, s, value).dirty = rg.dirty
         /\ mark(rg, s, value).used = rg.used
         /\ \A i \in Pieces : /\ mark(rg, s, value).seg_value[i] >= rg.seg_value[i]
                              /\ mark(rg, s, value).seg_value[i] \in {rg.seg_value[i], value}
<1>1. \A i \in Pieces : rg.seg_value[i] \in Nat
  BY DEF RegionOK, Region
<1>. QED  BY <1>1 DEF RegionOK, mark, Region

\* Records only rise, so marking keeps what was safe safe ...
LEMMA MarkSafe ==
  ASSUME NEW rg, RegionOK(rg), NEW t \in Span, NEW value \in Nat,
         NEW s, NEW a \in Nat, Safe(rg, s, a)
  PROVE  Safe(mark(rg, t, value), s, a)
<1>1. rg \in Region /\ mark(rg, t, value) \in Region
  BY MarkOK DEF RegionOK
<1>2. \A i \in Touched(rg, s.lo, s.hi) :
        i \in Pieces /\ rg.seg_value[i] > a /\ rg.seg_value[i] \in Nat
        /\ mark(rg, t, value).seg_value[i] >= rg.seg_value[i]
        /\ mark(rg, t, value).seg_value[i] \in Nat
  BY <1>1, MarkOK DEF Safe, Covered, Touched, Region
<1>3. Covered(mark(rg, t, value), s, a)
  BY <1>1, <1>2, MarkOK, TouchedSame, SMTT(60) DEF Covered
<1>. QED  BY <1>1, <1>3, MarkOK, TouchedSame DEF Safe, Within, Behind

\* ... and the same while an allocation waits ...
LEMMA MarkSafeAt ==
  ASSUME NEW rg, RegionOK(rg), NEW t \in Span, NEW value \in Nat,
         NEW s, NEW a \in Nat, NEW off, NEW bytes, NEW want,
         SafeAt(rg, s, a, off, bytes, want)
  PROVE  SafeAt(mark(rg, t, value), s, a, off, bytes, want)
<1>1. rg \in Region /\ mark(rg, t, value) \in Region
  BY MarkOK DEF RegionOK
<1>2. CASE a < want
  BY <1>1, <1>2, MarkOK DEF SafeAt, Within
<1>3. CASE ~ (a < want)
  <2>1. \A i \in Touched(rg, s.lo, s.hi) :
          i \in Pieces /\ rg.seg_value[i] > a /\ rg.seg_value[i] \in Nat
          /\ mark(rg, t, value).seg_value[i] >= rg.seg_value[i]
          /\ mark(rg, t, value).seg_value[i] \in Nat
    BY <1>1, <1>3, MarkOK DEF SafeAt, Covered, Touched, Region
  <2>2. Covered(mark(rg, t, value), s, a)
    BY <1>1, <2>1, MarkOK, TouchedSame, SMTT(60) DEF Covered
  <2>. QED  BY <1>1, <1>3, <2>2, MarkOK, TouchedSame DEF SafeAt, Within, Behind
<1>. QED  BY <1>2, <1>3

\* ... and every part of the span marked is covered up to the value.
LEMMA MarkCovers ==
  ASSUME NEW rg, RegionOK(rg), NEW t \in Span, t.lo < t.hi, t.hi <= rg.size,
         NEW value \in Nat, NEW s \in Span, s.lo < s.hi, t.lo <= s.lo, s.hi <= t.hi,
         NEW a \in Nat, a < value
  PROVE  Covered(mark(rg, t, value), s, a)
<1>0. /\ rg \in Region /\ mark(rg, t, value) \in Region
      /\ s.lo \in Nat /\ s.hi \in Nat /\ t.lo \in Nat /\ t.hi \in Nat
  BY MarkOK DEF RegionOK, Span
<1>1. ASSUME NEW i \in Touched(mark(rg, t, value), s.lo, s.hi)
      PROVE  mark(rg, t, value).seg_value[i] > a
  <2>1. i \in Touched(rg, s.lo, s.hi)
    BY <1>0, MarkOK, TouchedSame
  <2>2. seg_of(rg, t.lo) <= seg_of(rg, s.lo) /\ seg_of(rg, s.hi - 1) <= seg_of(rg, t.hi - 1)
    BY <1>0, SegOfMonotone
  <2>3. /\ seg_of(rg, t.lo) \in Nat /\ seg_of(rg, s.lo) \in Nat
        /\ seg_of(rg, s.hi - 1) \in Nat /\ seg_of(rg, t.hi - 1) \in Nat
    BY <1>0, SegOfNat
  <2>4. i \in Touched(rg, t.lo, t.hi) /\ i \in Pieces
    BY <2>1, <2>2, <2>3 DEF Touched, Pieces
  <2>5. rg.seg_value[i] \in Nat
    BY <1>0, <2>4 DEF Region
  <2>6. mark(rg, t, value).seg_value[i] =
          IF value > rg.seg_value[i] THEN value ELSE rg.seg_value[i]
    BY <1>0, <2>4 DEF mark, Region
  <2>. QED  BY <2>5, <2>6
<1>. QED  BY <1>1 DEF Covered

\* The two spans play no part in safety.
LEMMA ClearDirty ==
  ASSUME NEW rg, RegionOK(rg)
  PROVE  LET rh == [rg EXCEPT !.dirty = NoSpan] IN
         /\ RegionOK(rh) /\ rh.size = rg.size /\ rh.next = rg.next
         /\ rh.seg_value = rg.seg_value /\ rh.dirty = NoSpan /\ rh.used = rg.used
         /\ \A s : \A a \in Nat : Safe(rg, s, a) => Safe(rh, s, a)
<1>. DEFINE rh == [rg EXCEPT !.dirty = NoSpan]
<1>1. rg \in Region /\ NoSpan \in Span
  BY DEF RegionOK, NoSpan, Span
<1>2. /\ rh \in Region /\ rh.size = rg.size /\ rh.next = rg.next /\ rh.dirty = NoSpan
      /\ rh.used = rg.used /\ rh.seg_value = rg.seg_value /\ rh.seg_entered = rg.seg_entered
  BY <1>1 DEF Region
<1>. HIDE DEF rh
<1>3. \A s : \A a \in Nat : Safe(rg, s, a) => Safe(rh, s, a)
  BY <1>1, <1>2, TouchedSame DEF Safe, Within, Covered, Behind
<1>. QED  BY <1>1, <1>2, <1>3 DEF RegionOK, rh

\* Dropping the span not yet submitted disturbs nothing on record.
LEMMA ClearUsed ==
  ASSUME NEW rg, RegionOK(rg)
  PROVE  LET rh == [rg EXCEPT !.used = NoSpan] IN
         /\ RegionOK(rh) /\ rh.size = rg.size /\ rh.next = rg.next
         /\ rh.seg_value = rg.seg_value /\ rh.dirty = rg.dirty /\ rh.used = NoSpan
         /\ \A s : \A a \in Nat : Safe(rg, s, a) => Safe(rh, s, a)
<1>. DEFINE rh == [rg EXCEPT !.used = NoSpan]
<1>1. rg \in Region /\ NoSpan \in Span
  BY DEF RegionOK, NoSpan, Span
<1>2. /\ rh \in Region /\ rh.size = rg.size /\ rh.next = rg.next /\ rh.dirty = rg.dirty
      /\ rh.used = NoSpan /\ rh.seg_value = rg.seg_value /\ rh.seg_entered = rg.seg_entered
  BY <1>1 DEF Region
<1>. HIDE DEF rh
<1>3. \A s : \A a \in Nat : Safe(rg, s, a) => Safe(rh, s, a)
  BY <1>1, <1>2, TouchedSame DEF Safe, Within, Covered, Behind
<1>. QED  BY <1>1, <1>2, <1>3 DEF RegionOK, rh

\* A batch submitted: its value is on record for all it was handed.
LEMMA SubmittedOK ==
  ASSUME NEW rg, RegionOK(rg), NEW value \in Nat
  PROVE  LET rh == submitted(rg, value) IN
         /\ RegionOK(rh) /\ rh.size = rg.size /\ rh.next = rg.next
         /\ rh.dirty = rg.dirty /\ rh.used = NoSpan
         /\ \A i \in Pieces : rh.seg_value[i] \in {rg.seg_value[i], value}
         /\ \A s : \A a \in Nat : Safe(rg, s, a) => Safe(rh, s, a)
         /\ \A s \in Span : \A a \in Nat : Covered(rg, s, a) => Covered(rh, s, a)
         /\ rg.used.lo < rg.used.hi /\ rg.used.hi <= rg.size =>
              \A a \in Nat : a < value => Covered(rh, rg.used, a)
<1>. DEFINE mk == mark(rg, rg.used, value)
            rh == [mk EXCEPT !.used = NoSpan]
<1>1. rg \in Region /\ rg.used \in Span
  BY DEF RegionOK, Region
<1>2. /\ RegionOK(mk) /\ mk.size = rg.size /\ mk.next = rg.next /\ mk.dirty = rg.dirty
      /\ \A i \in Pieces : /\ mk.seg_value[i] >= rg.seg_value[i]
                           /\ mk.seg_value[i] \in {rg.seg_value[i], value}
  BY <1>1, MarkOK
<1>3. \A s : \A a \in Nat : Safe(rg, s, a) => Safe(mk, s, a)
  BY <1>1, MarkSafe
<1>4. rg.used.lo < rg.used.hi /\ rg.used.hi <= rg.size =>
        \A a \in Nat : a < value => Covered(mk, rg.used, a)
  <2>1. rg.used.lo \in Nat /\ rg.used.hi \in Nat
    BY <1>1 DEF Span
  <2>. QED  BY <1>1, <2>1, MarkCovers
<1>5. rh = submitted(rg, value)
  BY DEF submitted
<1>. HIDE DEF mk
<1>6. /\ RegionOK(rh) /\ rh.size = mk.size /\ rh.next = mk.next
      /\ rh.seg_value = mk.seg_value /\ rh.dirty = mk.dirty /\ rh.used = NoSpan
      /\ \A s : \A a \in Nat : Safe(mk, s, a) => Safe(rh, s, a)
  BY <1>2, ClearUsed
<1>. HIDE DEF rh
<1>7. mk \in Region /\ rh \in Region
  BY <1>2, <1>6 DEF RegionOK
<1>8. \A s : \A a : Covered(mk, s, a) => Covered(rh, s, a)
  BY <1>6, <1>7, TouchedSame DEF Covered
<1>9. ASSUME NEW s \in Span, NEW a \in Nat, Covered(rg, s, a)
      PROVE  Covered(mk, s, a)
  <2>1. ASSUME NEW i \in Touched(mk, s.lo, s.hi)
        PROVE  mk.seg_value[i] > a
    <3>1. i \in Touched(rg, s.lo, s.hi) /\ i \in Pieces
      BY <1>1, <1>2, <1>7, TouchedSame DEF Touched
    <3>2. rg.seg_value[i] > a /\ rg.seg_value[i] \in Nat /\ mk.seg_value[i] \in Nat
      BY <1>1, <1>7, <1>9, <3>1 DEF Covered, Region
    <3>. QED  BY <1>2, <3>1, <3>2
  <2>. QED  BY <2>1 DEF Covered
<1>. QED  BY <1>2, <1>3, <1>4, <1>5, <1>6, <1>8, <1>9

\* Rewinding steps over nothing that is still on record.
LEMMA RewindSafe ==
  ASSUME NEW rg, RegionOK(rg)
  PROVE  /\ RegionOK(rewind(rg)) /\ rewind(rg).size = rg.size /\ rewind(rg).next = 0
         /\ rewind(rg).seg_value = rg.seg_value
         /\ rewind(rg).dirty = NoSpan /\ rewind(rg).used = NoSpan
         /\ \A s : \A a \in Nat : Safe(rg, s, a) => Safe(rewind(rg), s, a)
<1>1. rg \in Region /\ rewind(rg) \in Region /\ rewind(rg).size = rg.size
      /\ rewind(rg).seg_value = rg.seg_value /\ rewind(rg).next = 0
      /\ rewind(rg).seg_entered = 0 /\ rewind(rg).dirty = NoSpan /\ rewind(rg).used = NoSpan
  BY DEF RegionOK, rewind, Region, NoSpan, Span
<1>2. RegionOK(rewind(rg))
  BY <1>1 DEF RegionOK, Region
<1>3. ASSUME NEW s, NEW a \in Nat, Safe(rg, s, a)
      PROVE  Safe(rewind(rg), s, a)
  <2>1. s.lo \in Nat
    BY <1>3 DEF Safe, Within, Span
  <2>2. seg_of(rewind(rg), s.lo) \in Nat
    BY <1>1, <2>1, SegOfNat
  <2>. QED  BY <1>1, <1>3, <2>2, TouchedSame DEF Safe, Within, Covered, Behind
<1>. QED  BY <1>1, <1>2, <1>3

-----------------------------------------------------------------------------
(* The invariant of Scratch.tla                                            *)

InFlush == host.job \in {"deliver", "chain"}
Allocating == host.job \in {"launch", "batch", "deliver", "chain"}
HostRegion == IF host.job = "launch" THEN "desc" ELSE "cmd"

\* The regions: nothing is left unpushed or unsubmitted but descriptors.
RegionsOK ==
    /\ \A r \in Regions : RegionOK(region[r])
    /\ region["cmd"].dirty = NoSpan /\ region["cmd"].used = NoSpan
    /\ region["desc"].dirty.hi <= region["desc"].next
    /\ InFlush => region["desc"].dirty = NoSpan
    /\ chain = {} /\ ~abandoned => ~Held(region["desc"])

\* The host: it stands at an allocation above the region's next free byte.
HostOK ==
    /\ ~Allocating => host.want = 0
    /\ Allocating => /\ host.bytes > 0
                     /\ host.off >= region[HostRegion].next
                     /\ host.off + host.bytes <= Size[HostRegion]
    /\ host.job \in {"rebase", "batch"} => chain = {}
    /\ host.job = "rebase" => host.bytes \in Requests["desc"]
    /\ host.job = "deliver" => host.queue = "copy"
    /\ host.job = "chain" => host.queue = "compute"

\* The timeline: a batch in flight is later than all its queue has retired,
\* and the batches of a queue are in order.
ValuesOK ==
    /\ \A b \in live : /\ slot[b.queue] <= b.after
                       /\ b.after < b.upto
                       /\ b.upto <= q_last[b.queue]
    /\ \A b, c \in live : b # c /\ b.queue = c.queue => b.upto <= c.after \/ c.upto <= b.after

\* The chain in hand: disjoint spans of the descriptor region, still to be
\* delivered or, inside the flush, on record with the value of the chain.
ChainOK ==
    /\ \A c \in chain : /\ Within(region["desc"], c)
                        /\ c.hi <= region["desc"].next
                        /\ IF InFlush THEN Covered(region["desc"], c, host.chain_upto - 1)
                           ELSE /\ region["desc"].dirty.lo <= c.lo
                                /\ c.hi <= region["desc"].dirty.hi
    /\ chain # {} /\ ~InFlush => \A q \in Queues : q_last[q] < reserved
    /\ host.job = "deliver" =>
         /\ \A q \in Queues : q_last[q] < host.chain_upto
         /\ Within(region["desc"], host.src)
         /\ host.src.hi <= region["desc"].next
         /\ Covered(region["desc"], host.src, host.chain_upto - 1)
    /\ InFlush => q_last["compute"] < host.chain_upto /\ host.chain_upto <= reserved

\* Every span in flight is safe from the next allocation.
LiveSafe ==
    \A r \in Regions : \A b \in live : \A s \in SpansOf(b, r) :
        IF Allocating /\ r = HostRegion
        THEN SafeAt(region[r], s, b.after, host.off, host.bytes, host.want)
        ELSE Safe(region[r], s, b.after)

IInv == TypeOK /\ RegionsOK /\ HostOK /\ ValuesOK /\ RecordsBehindTimeline /\ ChainOK /\ LiveSafe

-----------------------------------------------------------------------------
\* A wait that has passed v has outlasted every batch later than nothing
\* above v: sem_reached asks each queue for its own number, and is right to.
LEMMA ReachedSound ==
  ASSUME TypeOK, ValuesOK, NEW v \in Nat, sem_reached(v), NEW b \in live
  PROVE  b.after >= v
<1>1. /\ b.queue \in Queues /\ b.after \in Nat /\ b.upto \in Nat
      /\ slot[b.queue] \in Nat /\ q_last[b.queue] \in Nat
  BY DEF TypeOK, Batch
<1>2. slot[b.queue] >= v \/ slot[b.queue] >= q_last[b.queue]
  BY <1>1 DEF sem_reached
<1>3. slot[b.queue] <= b.after /\ b.after < b.upto /\ b.upto <= q_last[b.queue]
  BY DEF ValuesOK
<1>. QED  BY <1>1, <1>2, <1>3

\* What an allocation leaves, wherever it lands
Allocated(rgs, r, h) ==
    /\ region' = [rgs EXCEPT ![r] = region'[r]]
    /\ RegionOK(region'[r])
    /\ region'[r].size = Size[r] /\ region'[r].next = rgs[r].next
    /\ region'[r].dirty = rgs[r].dirty /\ region'[r].used = rgs[r].used
    /\ host' \in HostState
    /\ host'.job = h.job /\ host'.queue = h.queue /\ host'.bytes = h.bytes
    /\ host'.src = h.src /\ host'.chain_upto = h.chain_upto
    /\ host'.off >= region'[r].next /\ host'.off + host'.bytes <= Size[r]
    /\ \A i \in Pieces : region'[r].seg_value[i] \in {0, rgs[r].seg_value[i]}
    /\ host'.want = 0 \/ \E i \in Pieces : rgs[r].seg_value[i] = host'.want
    /\ \A s : \A a \in Nat : Safe(rgs[r], s, a) =>
            SafeAt(region'[r], s, a, host'.off, host'.bytes, host'.want)

\* Entering an allocation that fits keeps everything in flight safe from it.
LEMMA EnterAtAllocates ==
  ASSUME NEW rgs \in [Regions -> Region], NEW r \in Regions, NEW h \in HostState,
         RegionOK(rgs[r]), rgs[r].size = Size[r], h.bytes > 0,
         ~ wraps(rgs[r], h.bytes, Align[r]), EnterAt(rgs, r, h)
  PROVE  Allocated(rgs, r, h)
<1>. DEFINE off == place(rgs[r], Align[r])
            rg == rgs[r]
            rh == enter(rg, off, h.bytes)
<1>1. /\ Align[r] \in Nat \ {0} /\ Ceiling \in Nat /\ h.bytes \in Nat \ {0}
      /\ rg \in Region /\ rg.size \in Nat /\ rg.next \in Nat
  BY ScratchAssumption DEF HostState, Region
<1>2. off \in Nat /\ off >= rg.next
  BY <1>1, PlaceAbove
<1>3. off + h.bytes <= rg.size
  BY <1>1, <1>2 DEF wraps
<1>4. PICK want \in 0 .. Ceiling : /\ IsWant(rg, off, h.bytes, want)
                                   /\ region' = [rgs EXCEPT ![r] = rh]
                                   /\ host' = [h EXCEPT !.off = off, !.want = want]
  BY DEF EnterAt
<1>5. want \in Nat
  BY <1>1, <1>4
<1>. HIDE DEF off
<1>6. /\ region'[r] = rh /\ region' = [rgs EXCEPT ![r] = region'[r]]
  BY <1>4
<1>7. /\ host' \in HostState /\ host'.off = off /\ host'.want = want
      /\ host'.job = h.job /\ host'.queue = h.queue /\ host'.bytes = h.bytes
      /\ host'.src = h.src /\ host'.chain_upto = h.chain_upto
  BY <1>2, <1>4, <1>5 DEF HostState
<1>8. /\ RegionOK(rh) /\ rh.size = rg.size /\ rh.next = rg.next
      /\ rh.dirty = rg.dirty /\ rh.used = rg.used
      /\ \A i \in Pieces : rh.seg_value[i] \in {0, rg.seg_value[i]}
  BY <1>1, <1>2, <1>3, EnterOK
<1>9. want = 0 \/ \E i \in Pieces : rg.seg_value[i] = want
  BY <1>4 DEF IsWant, Entered, Touched
<1>10. ASSUME NEW s, NEW a \in Nat, Safe(rg, s, a)
       PROVE  SafeAt(rh, s, a, off, h.bytes, want)
  BY <1>1, <1>2, <1>3, <1>4, <1>5, <1>10, EnterSafe
<1>. QED  BY <1>2, <1>3, <1>6, <1>7, <1>8, <1>9, <1>10 DEF Allocated

\* After a rewind an allocation lands at the bottom, and fits.
LEMMA BottomFits ==
  ASSUME NEW rg \in Region, rg.next = 0, NEW r \in Regions, rg.size = Size[r],
         NEW n \in Requests[r]
  PROVE  ~ wraps(rg, n, Align[r])
<1>1. Align[r] \in Nat \ {0} /\ n \in Nat /\ n <= rg.size /\ rg.size \in Nat
  BY ScratchAssumption DEF Region
<1>. DEFINE al == Align[r]
<1>. HIDE DEF al
<1>2. al \in Nat \ {0}
  BY <1>1 DEF al
<1>3. (0 + al - 1) \div al = 0
  BY <1>2
<1>4. ((0 + al - 1) \div al) * al = 0
  BY <1>2, <1>3
<1>5. place(rg, Align[r]) = 0
  BY <1>4 DEF place, al
<1>. QED  BY <1>1, <1>5 DEF wraps

\* A command buffer is an allocation, come round for or not.
LEMMA CmdSpaceAllocates ==
  ASSUME NEW rgs \in [Regions -> Region], NEW h \in HostState, CmdSpace(rgs, h),
         RegionOK(rgs["cmd"]), rgs["cmd"].size = Size["cmd"],
         rgs["cmd"].dirty = NoSpan, rgs["cmd"].used = NoSpan
  PROVE  \E mid \in [Regions -> Region] :
           /\ mid["desc"] = rgs["desc"]
           /\ mid["cmd"].seg_value = rgs["cmd"].seg_value
           /\ mid["cmd"].dirty = NoSpan /\ mid["cmd"].used = NoSpan
           /\ \A s : \A a \in Nat : Safe(rgs["cmd"], s, a) => Safe(mid["cmd"], s, a)
           /\ Allocated(mid, "cmd", h)
<1>1. "cmd" \in Regions /\ h.bytes \in Requests["cmd"] /\ h.bytes \in Nat /\ h.bytes > 0
  BY ScratchAssumption DEF Regions, CmdSpace
<1>2. CASE ~ wraps(rgs["cmd"], h.bytes, Align["cmd"])
  <2>1. Allocated(rgs, "cmd", h)
    BY <1>1, <1>2, EnterAtAllocates DEF CmdSpace
  <2>. QED  BY <2>1
<1>3. CASE wraps(rgs["cmd"], h.bytes, Align["cmd"])
  <2>. DEFINE mid == [rgs EXCEPT !["cmd"] = rewind(rgs["cmd"])]
  <2>1. /\ RegionOK(rewind(rgs["cmd"])) /\ rewind(rgs["cmd"]).size = Size["cmd"]
        /\ rewind(rgs["cmd"]).next = 0 /\ rewind(rgs["cmd"]) \in Region
    BY RewindSafe DEF RegionOK
  <2>2. mid \in [Regions -> Region] /\ mid["cmd"] = rewind(rgs["cmd"]) /\ mid["desc"] = rgs["desc"]
    BY <1>1, <2>1 DEF Regions
  <2>3. ~ wraps(mid["cmd"], h.bytes, Align["cmd"])
    BY <1>1, <2>1, <2>2, BottomFits
  <2>4. Allocated(mid, "cmd", h)
    BY <1>1, <1>3, <2>1, <2>2, <2>3, EnterAtAllocates DEF CmdSpace
  <2>. HIDE DEF mid
  <2>. QED  BY <2>2, <2>4, RewindSafe
<1>. QED  BY <1>2, <1>3

-----------------------------------------------------------------------------
\* The regions as an allocation finds them, with the rest of the next state:
\* the invariant without what it says of the host ...
Sound(rgs) ==
    /\ wrapped' \in BOOLEAN /\ after_stall' \in BOOLEAN /\ abandoned' \in BOOLEAN
    /\ chain' \in SUBSET Span /\ reserved' \in Nat /\ live' \in SUBSET Batch
    /\ q_last' \in [Queues -> Nat] /\ slot' \in [Queues -> Nat]
    /\ rgs \in [Regions -> Region]
    /\ \A r \in Regions : RegionOK(rgs[r]) /\ rgs[r].size = Size[r]
    /\ rgs["cmd"].dirty = NoSpan /\ rgs["cmd"].used = NoSpan
    /\ rgs["desc"].dirty.hi <= rgs["desc"].next
    /\ ValuesOK'
    /\ \A r \in Regions : \A i \in Pieces : rgs[r].seg_value[i] <= reserved'
    /\ \A q \in Queues : slot'[q] <= q_last'[q] /\ q_last'[q] <= reserved'
    /\ \A c \in chain' : Within(rgs["desc"], c) /\ c.hi <= rgs["desc"].next
    /\ \A r \in Regions : \A b \in live' : \A s \in SpansOf(b, r) : Safe(rgs[r], s, b.after)

\* ... and with no span held but by an abandoned launch.
Ready(rgs) == Sound(rgs) /\ (chain' = {} /\ ~abandoned' => ~Held(rgs["desc"]))

\* The descriptors in hand are inside what is still to be delivered.
ToDeliver(rgs) ==
    /\ \A c \in chain' : rgs["desc"].dirty.lo <= c.lo /\ c.hi <= rgs["desc"].dirty.hi
    /\ chain' # {} => \A q \in Queues : q_last'[q] < reserved'

\* What a command-buffer request has to bring with it
CmdRequestOK(rgs, h) ==
    /\ h \in HostState /\ h.want = 0
    /\ h.job \in {"batch", "deliver", "chain"}
    /\ h.job = "batch" => chain' = {}
    /\ h.job = "deliver" =>
         /\ h.queue = "copy"
         /\ \A q \in Queues : q_last'[q] < h.chain_upto
         /\ Within(rgs["desc"], h.src)
         /\ h.src.hi <= rgs["desc"].next
         /\ Covered(rgs["desc"], h.src, h.chain_upto - 1)
    /\ h.job = "chain" => h.queue = "compute"
    /\ h.job # "batch" =>
         /\ q_last'["compute"] < h.chain_upto /\ h.chain_upto <= reserved'
         /\ rgs["desc"].dirty = NoSpan
         /\ \A c \in chain' : Covered(rgs["desc"], c, h.chain_upto - 1)

\* A launch standing at its allocation
LEMMA LaunchStands ==
  ASSUME NEW rgs, NEW n \in Nat \ {0}, Ready(rgs), ToDeliver(rgs),
         Allocated(rgs, "desc", [NoHost EXCEPT !.job = "launch", !.bytes = n])
  PROVE  IInv'
<1>. DEFINE h == [NoHost EXCEPT !.job = "launch", !.bytes = n]
<1>1. /\ h.job = "launch" /\ h.bytes = n
  BY DEF NoHost
<1>. HIDE DEF h
<1>2. Allocated(rgs, "desc", h)
  BY DEF h
<1>3. "desc" \in Regions /\ "cmd" \in Regions /\ "desc" # "cmd" /\ \A r \in Regions : r = "desc" \/ r = "cmd"
  BY DEF Regions
<1>4. /\ region'["cmd"] = rgs["cmd"]
      /\ region'["desc"].size = rgs["desc"].size /\ region'["desc"].next = rgs["desc"].next
      /\ region'["desc"].dirty = rgs["desc"].dirty /\ region'["desc"].used = rgs["desc"].used
      /\ region'["desc"] \in Region /\ region'["cmd"] \in Region
      /\ \A r \in Regions : RegionOK(region'[r]) /\ region'[r].size = Size[r]
      /\ region' \in [Regions -> Region]
      /\ rgs["desc"] \in Region
      /\ reserved' \in Nat
  BY <1>2, <1>3 DEF Allocated, Ready, Sound, RegionOK
<1>5. /\ host' \in HostState /\ host'.job = "launch" /\ host'.bytes = n
      /\ host'.off >= region'["desc"].next /\ host'.off + host'.bytes <= Size["desc"]
  BY <1>1, <1>2 DEF Allocated
<1>6. TypeOK'
  BY <1>4, <1>5 DEF TypeOK, Ready, Sound, RegionOK
<1>7. RegionsOK'
  BY <1>4, <1>5 DEF RegionsOK, Ready, Sound, InFlush, Held
<1>8. HostOK'
  BY <1>5 DEF HostOK, Allocating, HostRegion
<1>9. ValuesOK'
  BY DEF Ready, Sound
<1>10. RecordsBehindTimeline'
  <2>1. \A r \in Regions : \A i \in Pieces : region'[r].seg_value[i] <= reserved'
    BY <1>2, <1>3, <1>4 DEF Ready, Sound, Allocated
  <2>2. host'.want <= reserved'
    BY <1>2, <1>3, <1>4 DEF Ready, Sound, Allocated
  <2>. QED  BY <2>1, <2>2 DEF RecordsBehindTimeline, Ready, Sound
<1>11. ChainOK'
  BY <1>4, <1>5 DEF ChainOK, Ready, Sound, ToDeliver, InFlush, Within
<1>12. LiveSafe'
  <2>. SUFFICES ASSUME NEW r \in Regions, NEW b \in live', NEW s \in SpansOf(b, r)
                PROVE  IF r = "desc"
                       THEN SafeAt(region'[r], s, b.after, host'.off, host'.bytes, host'.want)
                       ELSE Safe(region'[r], s, b.after)
    BY <1>5 DEF LiveSafe, Allocating, HostRegion
  <2>1. Safe(rgs[r], s, b.after) /\ b.after \in Nat
    BY DEF Ready, Sound, Batch
  <2>. QED  BY <1>2, <1>3, <1>4, <2>1 DEF Allocated
<1>. QED  BY <1>6, <1>7, <1>8, <1>9, <1>10, <1>11, <1>12 DEF IInv

\* A batch standing at its command buffer
LEMMA CmdStands ==
  ASSUME NEW rgs, NEW h, Ready(rgs), CmdRequestOK(rgs, h), CmdSpace(rgs, h)
  PROVE  IInv'
<1>1. /\ h \in HostState /\ h.want = 0 /\ h.job \in {"batch", "deliver", "chain"}
  BY DEF CmdRequestOK
<1>2. "desc" \in Regions /\ "cmd" \in Regions /\ "desc" # "cmd" /\ \A r \in Regions : r = "desc" \/ r = "cmd"
  BY DEF Regions
<1>3. PICK mid \in [Regions -> Region] :
           /\ mid["desc"] = rgs["desc"]
           /\ mid["cmd"].seg_value = rgs["cmd"].seg_value
           /\ mid["cmd"].dirty = NoSpan /\ mid["cmd"].used = NoSpan
           /\ \A s : \A a \in Nat : Safe(rgs["cmd"], s, a) => Safe(mid["cmd"], s, a)
           /\ Allocated(mid, "cmd", h)
  BY <1>1, <1>2, CmdSpaceAllocates DEF Ready, Sound
<1>4. /\ region'["desc"] = rgs["desc"]
      /\ region'["cmd"].dirty = NoSpan /\ region'["cmd"].used = NoSpan
      /\ \A r \in Regions : RegionOK(region'[r]) /\ region'[r].size = Size[r] /\ region'[r] \in Region
      /\ region' \in [Regions -> Region]
      /\ reserved' \in Nat
  BY <1>2, <1>3 DEF Allocated, Ready, Sound, RegionOK
<1>5. /\ host' \in HostState /\ host'.job = h.job /\ host'.bytes = h.bytes
      /\ host'.queue = h.queue /\ host'.src = h.src /\ host'.chain_upto = h.chain_upto
      /\ host'.off >= region'["cmd"].next /\ host'.off + host'.bytes <= Size["cmd"]
  BY <1>2, <1>3 DEF Allocated
<1>13. h.bytes > 0
  BY <1>2, ScratchAssumption DEF CmdSpace
<1>6. TypeOK'
  BY <1>4, <1>5 DEF TypeOK, Ready, Sound, RegionOK
<1>7. RegionsOK'
  BY <1>1, <1>4, <1>5 DEF RegionsOK, Ready, Sound, InFlush, Held, CmdRequestOK
<1>8. HostOK'
  BY <1>1, <1>5, <1>13 DEF HostOK, Allocating, HostRegion, CmdRequestOK
<1>9. ValuesOK'
  BY DEF Ready, Sound
<1>10. RecordsBehindTimeline'
  <2>1. \A r \in Regions : \A i \in Pieces : region'[r].seg_value[i] <= reserved'
    BY <1>2, <1>3, <1>4 DEF Ready, Sound, Allocated
  <2>2. host'.want <= reserved'
    BY <1>2, <1>3, <1>4 DEF Ready, Sound, Allocated
  <2>. QED  BY <2>1, <2>2 DEF RecordsBehindTimeline, Ready, Sound
<1>11. ChainOK'
  BY <1>1, <1>4, <1>5 DEF ChainOK, Ready, Sound, CmdRequestOK, InFlush
<1>12. LiveSafe'
  <2>. SUFFICES ASSUME NEW r \in Regions, NEW b \in live', NEW s \in SpansOf(b, r)
                PROVE  IF r = "cmd"
                       THEN SafeAt(region'[r], s, b.after, host'.off, host'.bytes, host'.want)
                       ELSE Safe(region'[r], s, b.after)
    BY <1>1, <1>5 DEF LiveSafe, Allocating, HostRegion
  <2>1. Safe(rgs[r], s, b.after) /\ b.after \in Nat
    BY DEF Ready, Sound, Batch
  <2>. QED  BY <1>2, <1>3, <1>4, <2>1 DEF Allocated
<1>. QED  BY <1>6, <1>7, <1>8, <1>9, <1>10, <1>11, <1>12 DEF IInv

-----------------------------------------------------------------------------
\* Declaring the region full only moves the allocation point up.
LEMMA AskedOK ==
  ASSUME TypeOK, RegionsOK
  PROVE  /\ AskedRegion \in [Regions -> Region]
         /\ AskedRegion["cmd"] = region["cmd"]
         /\ RegionOK(AskedRegion["desc"])
         /\ AskedRegion["desc"].size = Size["desc"]
         /\ AskedRegion["desc"].seg_value = region["desc"].seg_value
         /\ AskedRegion["desc"].dirty = region["desc"].dirty
         /\ AskedRegion["desc"].used = region["desc"].used
         /\ AskedRegion["desc"].next >= region["desc"].next
         /\ \A s : \A a \in Nat : Safe(region["desc"], s, a) => Safe(AskedRegion["desc"], s, a)
<1>1. /\ "desc" \in Regions /\ region \in [Regions -> Region] /\ region["desc"] \in Region
      /\ region["desc"].size = Size["desc"] /\ RegionOK(region["desc"])
      /\ Size["desc"] \in Nat /\ region["desc"].next \in Nat
      /\ region["desc"].next <= Size["desc"]
  BY ScratchAssumption DEF TypeOK, RegionsOK, RegionOK, Regions, Region
<1>2. CASE ~ DeclaresFull
  BY <1>1, <1>2 DEF AskedRegion
<1>3. CASE DeclaresFull
  <2>. DEFINE rh == [region["desc"] EXCEPT !.next = Size["desc"]]
  <2>1. AskedRegion = [region EXCEPT !["desc"] = rh]
    BY <1>3 DEF AskedRegion
  <2>2. /\ rh \in Region /\ rh.size = Size["desc"] /\ rh.next = Size["desc"]
        /\ rh.seg_value = region["desc"].seg_value /\ rh.seg_entered = region["desc"].seg_entered
        /\ rh.dirty = region["desc"].dirty /\ rh.used = region["desc"].used
    BY <1>1 DEF Region
  <2>. HIDE DEF rh
  <2>3. ASSUME NEW s, NEW a \in Nat, Safe(region["desc"], s, a)
        PROVE  Safe(rh, s, a)
    BY <1>1, <2>2, <2>3, TouchedSame DEF Safe, Within, Covered, Behind
  <2>4. /\ AskedRegion["desc"] = rh /\ AskedRegion["cmd"] = region["cmd"]
        /\ AskedRegion \in [Regions -> Region]
    BY <1>1, <2>1, <2>2 DEF Regions
  <2>. QED  BY <1>1, <2>2, <2>3, <2>4 DEF RegionOK
<1>. QED  BY <1>2, <1>3

\* Between allocations the invariant is what the next one needs.
LEMMA QuietReady ==
  ASSUME IInv, host.job = "none", UNCHANGED <<slot, live, chain, reserved, q_last>>,
         wrapped' \in BOOLEAN, after_stall' \in BOOLEAN, abandoned' \in BOOLEAN
  PROVE  /\ Sound(region) /\ ToDeliver(region)
         /\ UNCHANGED abandoned => Ready(region)
BY DEF IInv, TypeOK, RegionsOK, RecordsBehindTimeline, ChainOK, LiveSafe, ValuesOK,
       Allocating, InFlush, Ready, Sound, ToDeliver

\* What a launch asks for is a host state.
LEMMA LaunchRequest ==
  ASSUME NEW n \in Nat \ {0}
  PROVE  [NoHost EXCEPT !.job = "launch", !.bytes = n] \in HostState
<1>1. NoHost \in HostState
  BY DEF NoHost, HostState, Jobs, Queues, Span, NoSpan
<1>. QED  BY <1>1 DEF HostState, Jobs

\* The same for the region a launch finds.
LEMMA AskedReady ==
  ASSUME IInv, host.job = "none", UNCHANGED <<slot, live, chain, reserved, q_last>>,
         wrapped' \in BOOLEAN, after_stall' \in BOOLEAN, abandoned' \in BOOLEAN
  PROVE  /\ Sound(AskedRegion) /\ ToDeliver(AskedRegion)
         /\ UNCHANGED abandoned => Ready(AskedRegion)
<1>. DEFINE ar == AskedRegion
<1>1. "desc" \in Regions /\ "cmd" \in Regions /\ \A r \in Regions : r = "desc" \/ r = "cmd"
  BY DEF Regions
<1>2. /\ Sound(region) /\ ToDeliver(region)
      /\ UNCHANGED abandoned => Ready(region)
  BY QuietReady
<1>3. /\ ar \in [Regions -> Region] /\ ar["cmd"] = region["cmd"]
      /\ RegionOK(ar["desc"]) /\ ar["desc"].size = Size["desc"]
      /\ ar["desc"].seg_value = region["desc"].seg_value
      /\ ar["desc"].dirty = region["desc"].dirty /\ ar["desc"].used = region["desc"].used
      /\ ar["desc"].next >= region["desc"].next
      /\ \A s : \A a \in Nat : Safe(region["desc"], s, a) => Safe(ar["desc"], s, a)
  BY AskedOK DEF IInv
<1>4. /\ region["desc"] \in Region /\ ar["desc"] \in Region
      /\ region["desc"].size = Size["desc"]
  BY <1>1, <1>2, <1>3 DEF Ready, Sound
<1>. HIDE DEF ar
<1>5. /\ ar["desc"].next \in Nat /\ region["desc"].next \in Nat
      /\ region["desc"].dirty.hi \in Nat
      /\ \A c \in chain' : c.hi \in Nat
  BY <1>2, <1>4 DEF Ready, Sound, Region, Span
<1>6. \A r \in Regions : RegionOK(ar[r]) /\ ar[r].size = Size[r]
  BY <1>1, <1>2, <1>3 DEF Ready, Sound
<1>7. \A c \in chain' : Within(ar["desc"], c) /\ c.hi <= ar["desc"].next
  BY <1>2, <1>3, <1>4, <1>5 DEF Ready, Sound, Within
<1>8. \A r \in Regions : \A b \in live' : \A s \in SpansOf(b, r) : Safe(ar[r], s, b.after)
  <2>. SUFFICES ASSUME NEW r \in Regions, NEW b \in live', NEW s \in SpansOf(b, r)
                PROVE  Safe(ar[r], s, b.after)
    OBVIOUS
  <2>1. Safe(region[r], s, b.after) /\ b.after \in Nat
    BY <1>2 DEF Ready, Sound, Batch
  <2>. QED  BY <1>1, <1>3, <2>1
<1>9. \A r \in Regions : \A i \in Pieces : ar[r].seg_value[i] <= reserved'
  BY <1>1, <1>2, <1>3 DEF Ready, Sound
<1>10. ar["desc"].dirty.hi <= ar["desc"].next
  BY <1>2, <1>3, <1>5 DEF Ready, Sound
<1>11. Sound(ar) /\ (UNCHANGED abandoned => Ready(ar))
  BY <1>2, <1>3, <1>6, <1>7, <1>8, <1>9, <1>10 DEF Ready, Sound, Held
<1>. QED  BY <1>2, <1>3, <1>11 DEF ToDeliver, ar

\* One lemma for each action of the host, up to where it next waits.
LEMMA LaunchFitsStep ==
  ASSUME IInv, NEW n \in Requests["desc"], LaunchFits(n)
  PROVE  IInv'
<1>. DEFINE h == [NoHost EXCEPT !.job = "launch", !.bytes = n]
<1>1. n \in Nat \ {0} /\ "desc" \in Regions /\ \A r \in Regions : r = "desc" \/ r = "cmd"
  BY ScratchAssumption DEF Regions
<1>2. h \in HostState /\ h.bytes = n
  BY <1>1, LaunchRequest DEF NoHost
<1>4. Ready(AskedRegion) /\ ToDeliver(AskedRegion)
  BY AskedReady DEF LaunchFits, Asks, hostVars, IInv, TypeOK
<1>3. ~ wraps(AskedRegion["desc"], h.bytes, Align["desc"]) /\ EnterAt(AskedRegion, "desc", h)
  BY <1>2 DEF LaunchFits
<1>. HIDE DEF h
<1>5. Allocated(AskedRegion, "desc", h)
  BY <1>1, <1>2, <1>3, <1>4, EnterAtAllocates DEF Ready, Sound
<1>. QED  BY <1>1, <1>4, <1>5, LaunchStands DEF h

\* Coming round, refused or not.  The regions come round empty of held spans.
LEMMA ComeRoundStep ==
  ASSUME NEW rgs \in [Regions -> Region], NEW n \in Requests["desc"], ComeRound(rgs, n),
         chain' = {}, abandoned \in BOOLEAN, Ready([rgs EXCEPT !["desc"] = rewind(rgs["desc"])])
  PROVE  IInv'
<1>. DEFINE mid == [rgs EXCEPT !["desc"] = rewind(rgs["desc"])]
            h == [NoHost EXCEPT !.job = "launch", !.bytes = n]
<1>1. /\ n \in Nat \ {0} /\ "desc" \in Regions /\ "cmd" \in Regions
      /\ \A r \in Regions : r = "desc" \/ r = "cmd"
  BY ScratchAssumption DEF Regions
<1>2. mid["desc"] = rewind(rgs["desc"]) /\ Ready(mid) /\ ToDeliver(mid)
  BY <1>1 DEF ToDeliver
<1>3. mid["desc"].next = 0 /\ mid["desc"].dirty = NoSpan /\ mid["desc"] \in Region
      /\ mid["desc"].size = Size["desc"] /\ mid["desc"].used = NoSpan
  BY <1>1, <1>2 DEF rewind, Region, Ready, Sound
<1>4. CASE Held(rgs["desc"])
  <2>1. region' = mid /\ host' = NoHost /\ NoHost \in HostState
    BY <1>4 DEF ComeRound, NoHost, HostState, Jobs, Queues, Span, NoSpan
  <2>2. host'.job = "none" /\ host'.want = 0
    BY <2>1 DEF NoHost
  <2>. HIDE DEF mid
  <2>3. TypeOK'
    BY <1>2, <2>1 DEF TypeOK, Ready, Sound, RegionOK
  <2>4. RegionsOK'
    BY <1>2, <2>1, <2>2 DEF RegionsOK, Ready, Sound, InFlush
  <2>5. HostOK'
    BY <2>2 DEF HostOK, Allocating
  <2>6. ValuesOK' /\ RecordsBehindTimeline'
    BY <1>2, <2>1, <2>2 DEF Ready, Sound, RecordsBehindTimeline
  <2>7. ChainOK'
    BY <1>2, <2>1, <2>2 DEF Ready, Sound, ChainOK, InFlush
  <2>8. LiveSafe'
    BY <1>2, <2>1, <2>2 DEF Ready, Sound, LiveSafe, Allocating
  <2>. QED  BY <2>3, <2>4, <2>5, <2>6, <2>7, <2>8 DEF IInv
<1>5. CASE ~ Held(rgs["desc"])
  <2>1. h \in HostState /\ h.bytes = n
    BY <1>1, LaunchRequest DEF NoHost
  <2>2. EnterAt(mid, "desc", h)
    BY <1>5 DEF ComeRound
  <2>. HIDE DEF mid, h
  <2>3. ~ wraps(mid["desc"], n, Align["desc"])
    BY <1>1, <1>3, BottomFits
  <2>4. Allocated(mid, "desc", h)
    BY <1>1, <1>2, <2>1, <2>2, <2>3, EnterAtAllocates DEF Ready, Sound
  <2>. QED  BY <1>1, <1>2, <2>4, LaunchStands DEF h
<1>. QED  BY <1>4, <1>5

\* A rewind leaves regions ready, whatever the descriptor region held.
LEMMA RewindReady ==
  ASSUME NEW rgs \in [Regions -> Region], Sound(rgs), chain' = {}
  PROVE  Ready([rgs EXCEPT !["desc"] = rewind(rgs["desc"])])
<1>. DEFINE mid == [rgs EXCEPT !["desc"] = rewind(rgs["desc"])]
            rw == rewind(rgs["desc"])
<1>1. /\ "desc" \in Regions /\ "cmd" \in Regions /\ "desc" # "cmd"
      /\ \A r \in Regions : r = "desc" \/ r = "cmd"
      /\ RegionOK(rgs["desc"]) /\ rgs["desc"].size = Size["desc"]
  BY DEF Regions, Ready, Sound
<1>2. /\ RegionOK(rw) /\ rw \in Region /\ rw.size = Size["desc"] /\ rw.next = 0
      /\ rw.seg_value = rgs["desc"].seg_value /\ rw.dirty = NoSpan /\ rw.used = NoSpan
      /\ \A s : \A a \in Nat : Safe(rgs["desc"], s, a) => Safe(rw, s, a)
  BY <1>1, RewindSafe DEF RegionOK
<1>3. mid \in [Regions -> Region] /\ mid["desc"] = rw /\ mid["cmd"] = rgs["cmd"]
  BY <1>1, <1>2
<1>. HIDE DEF mid, rw
<1>4. \A r \in Regions : RegionOK(mid[r]) /\ mid[r].size = Size[r]
  BY <1>1, <1>2, <1>3 DEF Ready, Sound
<1>5. \A r \in Regions : \A i \in Pieces : mid[r].seg_value[i] <= reserved'
  BY <1>1, <1>2, <1>3 DEF Ready, Sound
<1>6. ASSUME NEW r \in Regions, NEW b \in live', NEW s \in SpansOf(b, r)
      PROVE  Safe(mid[r], s, b.after)
  <2>1. Safe(rgs[r], s, b.after) /\ b.after \in Nat
    BY DEF Ready, Sound, Batch
  <2>. QED  BY <1>1, <1>2, <1>3, <2>1
<1>7. ~ Held(mid["desc"]) /\ mid["desc"].dirty.hi <= mid["desc"].next
  BY <1>2, <1>3 DEF Held, NoSpan
<1>. QED  BY <1>3, <1>4, <1>5, <1>6, <1>7 DEF Ready, Sound, mid

\* With nothing left unpushed, the push before a wrap changes nothing.
LEMMA PushNothing ==
  ASSUME NEW rgs \in [Regions -> Region], rgs["cmd"].dirty = NoSpan
  PROVE  push_shadow(rgs) = rgs
<1>1. "cmd" \in Regions /\ rgs["cmd"] \in Region
  BY DEF Regions
<1>2. [rgs["cmd"] EXCEPT !.dirty = NoSpan] = rgs["cmd"]
  BY <1>1 DEF Region
<1>. QED  BY <1>1, <1>2 DEF push_shadow

\* A launch that comes round below the ceiling
LEMMA LaunchWrapsStep ==
  ASSUME IInv, NEW n \in Requests["desc"], LaunchWraps(n)
  PROVE  IInv'
<1>1. wrapped' \in BOOLEAN /\ after_stall' \in BOOLEAN /\ abandoned' \in BOOLEAN
      /\ abandoned \in BOOLEAN
  BY DEF LaunchWraps, ComeRound, IInv, TypeOK
<1>2. Sound(AskedRegion) /\ chain' = {}
  BY <1>1, AskedReady DEF LaunchWraps, Asks
<1>3. AskedRegion \in [Regions -> Region] /\ push_shadow(AskedRegion) = AskedRegion
  BY <1>2, PushNothing DEF Sound
<1>4. ComeRound(AskedRegion, n)
  BY <1>3 DEF LaunchWraps
<1>. QED  BY <1>1, <1>2, <1>3, <1>4, RewindReady, ComeRoundStep

\* A launch that has to stand still first
LEMMA LaunchRebasesStep ==
  ASSUME IInv, NEW n \in Requests["desc"], LaunchRebases(n)
  PROVE  IInv'
<1>1. /\ UNCHANGED <<slot, live, wrapped, chain, reserved, q_last, after_stall, abandoned>>
      /\ host' = [NoHost EXCEPT !.job = "rebase", !.bytes = n]
      /\ chain = {} /\ host.job = "none"
  BY DEF LaunchRebases, hostVars, Asks
<1>2. Ready(AskedRegion)
  BY <1>1, AskedReady DEF IInv, TypeOK
<1>3. region' = AskedRegion
  BY <1>2, PushNothing DEF LaunchRebases, Ready, Sound
<1>4. NoHost \in HostState /\ n \in Nat \ {0}
  BY ScratchAssumption DEF NoHost, HostState, Jobs, Queues, Span, NoSpan, Regions
<1>5. host' \in HostState /\ host'.job = "rebase" /\ host'.bytes = n /\ host'.want = 0
  <2>1. host'.job = "rebase" /\ host'.bytes = n /\ host'.want = 0
    BY <1>1 DEF NoHost
  <2>2. host' \in HostState
    BY <1>1, <1>4 DEF HostState, Jobs
  <2>. QED  BY <2>1, <2>2
<1>6. TypeOK'
  BY <1>2, <1>3, <1>5 DEF TypeOK, Ready, Sound, RegionOK
<1>7. RegionsOK'
  BY <1>2, <1>3, <1>5 DEF RegionsOK, Ready, Sound, InFlush
<1>8. HostOK'
  BY <1>1, <1>5 DEF HostOK, Allocating
<1>9. ValuesOK' /\ RecordsBehindTimeline'
  BY <1>2, <1>3, <1>5 DEF Ready, Sound, RecordsBehindTimeline
<1>10. ChainOK'
  BY <1>1, <1>2, <1>3, <1>5 DEF Ready, Sound, ChainOK, InFlush
<1>11. LiveSafe'
  BY <1>2, <1>3, <1>5 DEF Ready, Sound, LiveSafe, Allocating
<1>. QED  BY <1>6, <1>7, <1>8, <1>9, <1>10, <1>11 DEF IInv

\* The restart: the wait for the whole timeline leaves nothing in flight.
LEMMA RebaseStep ==
  ASSUME IInv, Rebase
  PROVE  IInv' /\ live = {}
<1>. DEFINE zero == [i \in Pieces |-> 0]
            rgs == [region EXCEPT !["desc"].seg_value = zero, !["cmd"].seg_value = zero]
            n == host.bytes
<1>1. live = {}
  <2>1. SUFFICES ASSUME NEW b \in live PROVE FALSE
    OBVIOUS
  <2>2. timeline \in Nat /\ q_last[b.queue] <= timeline /\ b.after \in Nat /\ b.upto \in Nat
        /\ q_last[b.queue] \in Nat
    BY DEF IInv, TypeOK, Batch, timeline, Queues
  <2>3. b.after >= timeline
    BY <2>2, ReachedSound DEF Rebase, IInv
  <2>. QED  BY <2>2, <2>3 DEF IInv, ValuesOK
<1>2. /\ "desc" \in Regions /\ "cmd" \in Regions /\ "desc" # "cmd"
      /\ \A r \in Regions : r = "desc" \/ r = "cmd"
      /\ n \in Requests["desc"] /\ chain' = {} /\ live' = {} /\ abandoned \in BOOLEAN
      /\ reserved' = 0 /\ q_last' = [q \in Queues |-> 0] /\ slot' = [q \in Queues |-> 0]
      /\ after_stall' \in BOOLEAN /\ wrapped' \in BOOLEAN /\ abandoned' \in BOOLEAN
  BY <1>1 DEF Rebase, ComeRound, IInv, HostOK, TypeOK, Regions
<1>3. zero \in [Pieces -> Nat] /\ \A i \in Pieces : zero[i] = 0
  OBVIOUS
<1>4. ComeRound(rgs, n)
  BY DEF Rebase
<1>. HIDE DEF zero
<1>5. /\ region \in [Regions -> Region] /\ region["desc"] \in Region /\ region["cmd"] \in Region
      /\ RegionOK(region["desc"]) /\ RegionOK(region["cmd"])
      /\ region["desc"].size = Size["desc"] /\ region["cmd"].size = Size["cmd"]
      /\ region["cmd"].dirty = NoSpan /\ region["cmd"].used = NoSpan
      /\ region["desc"].dirty.hi <= region["desc"].next
  BY <1>2 DEF IInv, TypeOK, RegionsOK
<1>. DEFINE zd == [region["desc"] EXCEPT !.seg_value = zero]
            zc == [region["cmd"] EXCEPT !.seg_value = zero]
<1>11. zd \in Region /\ zc \in Region
  BY <1>3, <1>5 DEF Region
<1>12. rgs = [[region EXCEPT !["desc"] = zd] EXCEPT !["cmd"] = zc]
  BY <1>2, <1>5
<1>6. /\ rgs["desc"] = [region["desc"] EXCEPT !.seg_value = zero]
      /\ rgs["cmd"] = [region["cmd"] EXCEPT !.seg_value = zero]
      /\ rgs \in [Regions -> Region]
  <2>. HIDE DEF rgs
  <2>1. rgs["desc"] = zd /\ rgs["cmd"] = zc /\ rgs \in [Regions -> Region]
    <3>. HIDE DEF zd, zc
    <3>. QED  BY <1>2, <1>5, <1>11, <1>12
  <2>. QED  BY <2>1
<1>. HIDE DEF rgs
<1>7. /\ rgs["desc"] \in Region /\ rgs["cmd"] \in Region
      /\ rgs["desc"].size = Size["desc"] /\ rgs["cmd"].size = Size["cmd"]
      /\ rgs["desc"].next = region["desc"].next /\ rgs["cmd"].next = region["cmd"].next
      /\ rgs["cmd"].dirty = NoSpan /\ rgs["cmd"].used = NoSpan
      /\ rgs["desc"].dirty = region["desc"].dirty
      /\ rgs["desc"].seg_value = zero /\ rgs["cmd"].seg_value = zero
  BY <1>3, <1>5, <1>6 DEF Region
<1>8. rgs \in [Regions -> Region]
  BY <1>6
<1>9. Sound(rgs)
  <2>1. \A r \in Regions : RegionOK(rgs[r]) /\ rgs[r].size = Size[r]
    BY <1>2, <1>5, <1>7 DEF RegionOK
  <2>2. ValuesOK'
    BY <1>2 DEF ValuesOK
  <2>3. \A r \in Regions : \A i \in Pieces : rgs[r].seg_value[i] <= reserved'
    BY <1>2, <1>3, <1>7
  <2>4. \A q \in Queues : slot'[q] <= q_last'[q] /\ q_last'[q] <= reserved'
    BY <1>2
  <2>5. reserved' \in Nat /\ q_last' \in [Queues -> Nat] /\ slot' \in [Queues -> Nat]
    BY <1>2
  <2>. QED  BY <1>2, <1>5, <1>7, <1>8, <2>1, <2>2, <2>3, <2>4, <2>5 DEF Sound
<1>10. Ready([rgs EXCEPT !["desc"] = rewind(rgs["desc"])])
  BY <1>2, <1>8, <1>9, RewindReady
<1>. QED  BY <1>1, <1>2, <1>4, <1>8, <1>10, ComeRoundStep

-----------------------------------------------------------------------------
\* The wait over, the bytes it stood at are clear of everything in flight.
LEMMA TakenSafe ==
  ASSUME IInv, Allocating, sem_reached(host.want)
  PROVE  LET r == HostRegion
             rg == take(region[r], host.off, host.bytes) IN
         /\ r \in Regions /\ RegionOK(rg) /\ rg.size = Size[r]
         /\ rg.next = host.off + host.bytes
         /\ rg.seg_value = region[r].seg_value
         /\ rg.dirty = widen(region[r].dirty, host.off, host.off + host.bytes)
         /\ rg.used = widen(region[r].used, host.off, host.off + host.bytes)
         /\ host.off \in Nat /\ host.bytes \in Nat \ {0}
         /\ host.off >= region[r].next /\ host.off + host.bytes <= Size[r]
         /\ \A b \in live : \A s \in SpansOf(b, r) :
              /\ Safe(rg, s, b.after)
              /\ Disjoint(s, SpanAt(host.off, host.bytes))
<1>. DEFINE r == HostRegion
            rg == take(region[r], host.off, host.bytes)
<1>1. /\ r \in Regions /\ RegionOK(region[r]) /\ region[r].size = Size[r]
      /\ host.off \in Nat /\ host.bytes \in Nat \ {0} /\ host.want \in Nat
      /\ host.off >= region[r].next /\ host.off + host.bytes <= region[r].size
  BY DEF HostRegion, Regions, IInv, TypeOK, RegionsOK, HostOK, HostState
<1>2. ASSUME NEW b \in live, NEW s \in SpansOf(b, r)
      PROVE  Safe(rg, s, b.after) /\ Disjoint(s, SpanAt(host.off, host.bytes))
  <2>1. SafeAt(region[r], s, b.after, host.off, host.bytes, host.want)
    BY <1>1 DEF IInv, LiveSafe
  <2>2. b.after \in Nat /\ b.after >= host.want
    BY <1>1, ReachedSound DEF IInv, TypeOK, Batch
  <2>. QED  BY <1>1, <2>1, <2>2, TakeSafe DEF SpanAt
<1>3. /\ RegionOK(rg) /\ rg.size = region[r].size
      /\ rg.next = host.off + host.bytes /\ rg.seg_value = region[r].seg_value
      /\ rg.dirty = widen(region[r].dirty, host.off, host.off + host.bytes)
      /\ rg.used = widen(region[r].used, host.off, host.off + host.bytes)
  BY <1>1, TakeOK
<1>. HIDE DEF r, rg
<1>. QED  BY <1>1, <1>2, <1>3 DEF r, rg

\* A launch that has its bytes, whatever becomes of it
LEMMA LaunchTakes ==
  ASSUME IInv, host.job = "launch", sem_reached(host.want),
         region' = [region EXCEPT !["desc"] = take(region["desc"], host.off, host.bytes)],
         host' = NoHost, UNCHANGED <<slot, live, wrapped, q_last>>,
         after_stall' \in BOOLEAN, abandoned' \in BOOLEAN,
         \/ /\ chain' = chain \union {SpanAt(host.off, host.bytes)}
            /\ reserved' = reserved + 1
         \/ abandoned' /\ UNCHANGED <<chain, reserved>>
  PROVE  IInv'
<1>. DEFINE rg == take(region["desc"], host.off, host.bytes)
            new == SpanAt(host.off, host.bytes)
            old == region["desc"].dirty
<1>1. Allocating /\ ~InFlush /\ HostRegion = "desc"
  BY DEF Allocating, InFlush, HostRegion
<1>2. /\ "desc" \in Regions /\ "cmd" \in Regions /\ "desc" # "cmd"
      /\ \A r \in Regions : r = "desc" \/ r = "cmd"
  BY DEF Regions
<1>3. /\ RegionOK(rg) /\ rg.size = Size["desc"] /\ rg.next = host.off + host.bytes
      /\ rg.seg_value = region["desc"].seg_value
      /\ rg.dirty = widen(old, host.off, host.off + host.bytes)
      /\ host.off \in Nat /\ host.bytes \in Nat \ {0}
      /\ host.off >= region["desc"].next /\ host.off + host.bytes <= Size["desc"]
      /\ \A b \in live : \A s \in SpansOf(b, "desc") : Safe(rg, s, b.after)
  BY <1>1, TakenSafe
<1>4. /\ region["desc"] \in Region /\ region["desc"].next \in Nat /\ Size["desc"] \in Nat
      /\ region["desc"].size = Size["desc"]
      /\ old \in Span /\ old.lo \in Nat /\ old.hi \in Nat /\ old.hi <= region["desc"].next
      /\ region \in [Regions -> Region]
  BY <1>2 DEF IInv, TypeOK, RegionsOK, Region, Span
<1>5. region'["desc"] = rg /\ region'["cmd"] = region["cmd"] /\ region' \in [Regions -> Region]
  BY <1>2, <1>3, <1>4 DEF RegionOK
<1>6. host'.job = "none" /\ host'.want = 0 /\ host' \in HostState
  BY DEF NoHost, HostState, Jobs, Queues, Span, NoSpan
<1>7. new \in Span /\ new.lo = host.off /\ new.hi = host.off + host.bytes
  BY <1>3 DEF SpanAt, Span
<1>8. /\ rg.dirty.hi = host.off + host.bytes /\ rg.dirty.lo <= host.off
      /\ old.hi # old.lo => rg.dirty.lo <= old.lo
  BY <1>3, <1>4 DEF widen
<1>9. reserved \in Nat /\ reserved' \in Nat /\ reserved' >= reserved
  BY DEF IInv, TypeOK
<1>. HIDE DEF rg, new, old
<1>10. chain' \subseteq chain \union {new} /\ chain' \in SUBSET Span
  BY <1>7 DEF IInv, TypeOK, new
<1>11. TypeOK'
  <2>1. \A r \in Regions : region'[r].size = Size[r] /\ region'[r].next <= Size[r]
    BY <1>2, <1>3, <1>5 DEF IInv, TypeOK, RegionOK
  <2>. QED  BY <1>5, <1>6, <1>9, <1>10, <2>1 DEF IInv, TypeOK
<1>12. RegionsOK'
  <2>1. \A r \in Regions : RegionOK(region'[r])
    BY <1>2, <1>3, <1>5 DEF IInv, RegionsOK
  <2>2. chain' # {} \/ abandoned'
    OBVIOUS
  <2>. QED  BY <1>3, <1>5, <1>6, <1>8, <2>1, <2>2 DEF IInv, RegionsOK, InFlush
<1>13. HostOK'
  BY <1>6 DEF HostOK, Allocating
<1>14. ValuesOK'
  BY DEF IInv, ValuesOK
<1>15. RecordsBehindTimeline'
  <2>1. \A r \in Regions : \A i \in Pieces : region'[r].seg_value[i] \in Nat /\ region'[r].seg_value[i] <= reserved
    BY <1>2, <1>3, <1>4, <1>5 DEF IInv, TypeOK, RecordsBehindTimeline, Region
  <2>2. \A q \in Queues : slot[q] <= q_last[q] /\ q_last[q] <= reserved /\ q_last[q] \in Nat
    BY DEF IInv, TypeOK, RecordsBehindTimeline
  <2>. QED  BY <1>6, <1>9, <2>1, <2>2 DEF RecordsBehindTimeline
<1>16. ChainOK'
  <2>1. ASSUME NEW c \in chain'
        PROVE  /\ Within(rg, c) /\ c.hi <= rg.next
               /\ rg.dirty.lo <= c.lo /\ c.hi <= rg.dirty.hi
    <3>1. CASE c = new
      BY <3>1, <1>3, <1>4, <1>7, <1>8 DEF Within
    <3>2. CASE c \in chain
      <4>1. /\ Within(region["desc"], c) /\ c.hi <= region["desc"].next
            /\ old.lo <= c.lo /\ c.hi <= old.hi
        BY <1>1, <3>2 DEF IInv, ChainOK, old
      <4>2. c.lo \in Nat /\ c.hi \in Nat /\ c.lo < c.hi /\ c \in Span
        BY <4>1 DEF Within, Span
      <4>3. rg.dirty.lo \in Nat
        BY <1>3 DEF RegionOK, Region, Span
      <4>. QED  BY <1>3, <1>4, <1>8, <4>1, <4>2, <4>3 DEF Within
    <3>. QED  BY <1>10, <2>1, <3>1, <3>2
  <2>2. chain' # {} => \A q \in Queues : q_last'[q] < reserved'
    <3>1. \A q \in Queues : q_last[q] \in Nat /\ q_last[q] <= reserved
      BY DEF IInv, TypeOK, RecordsBehindTimeline
    <3>. QED  BY <1>1, <1>9, <3>1 DEF IInv, ChainOK
  <2>. QED  BY <1>5, <1>6, <2>1, <2>2 DEF ChainOK, InFlush
<1>17. LiveSafe'
  <2>. SUFFICES ASSUME NEW r \in Regions, NEW b \in live, NEW s \in SpansOf(b, r)
                PROVE  Safe(region'[r], s, b.after)
    BY <1>6 DEF LiveSafe, Allocating
  <2>1. CASE r = "desc"
    BY <2>1, <1>3, <1>5
  <2>2. CASE r = "cmd"
    BY <2>2, <1>1, <1>2, <1>5 DEF IInv, LiveSafe
  <2>. QED  BY <1>2, <2>1, <2>2
<1>. QED  BY <1>11, <1>12, <1>13, <1>14, <1>15, <1>16, <1>17 DEF IInv

\* The launch takes its bytes, to be built or to be lost.
LEMMA TakeLaunchStep ==
  ASSUME IInv, TakeLaunch \/ AbandonLaunch
  PROVE  IInv'
<1>1. after_stall' \in BOOLEAN
  BY DEF TakeLaunch, AbandonLaunch, MayHaveStalled, IInv, TypeOK
<1>2. CASE TakeLaunch
  BY <1>1, <1>2, LaunchTakes DEF TakeLaunch, IInv, TypeOK
<1>3. CASE AbandonLaunch
  BY <1>1, <1>3, LaunchTakes DEF AbandonLaunch
<1>. QED  BY <1>2, <1>3

-----------------------------------------------------------------------------
\* What a batch asks for is a host state.
LEMMA CmdRequestState ==
  ASSUME NEW h \in HostState, NEW n \in Requests["cmd"]
  PROVE  [h EXCEPT !.bytes = n] \in HostState
<1>1. n \in Nat
  BY ScratchAssumption DEF Regions
<1>. QED  BY <1>1 DEF HostState

\* A batch that is not a chain asks for its command buffer.
LEMMA BatchBeginStep ==
  ASSUME IInv, NEW q \in Queues, NEW n \in Requests["cmd"], BatchBegin(q, n)
  PROVE  IInv'
<1>. DEFINE h == [NoHost EXCEPT !.job = "batch", !.queue = q, !.bytes = n]
<1>1. /\ UNCHANGED <<slot, live, wrapped, chain, reserved, q_last, after_stall, abandoned>>
      /\ chain = {} /\ host.job = "none" /\ CmdSpace(region, h)
  BY DEF BatchBegin, hostVars
<1>2. Ready(region)
  BY <1>1, QuietReady DEF IInv, TypeOK
<1>3. n \in Nat /\ NoHost \in HostState
  BY ScratchAssumption DEF Regions, NoHost, HostState, Jobs, Queues, Span, NoSpan
<1>4. h \in HostState
  BY <1>3 DEF HostState, Jobs
<1>5. h.job = "batch" /\ h.want = 0
  BY DEF NoHost
<1>. HIDE DEF h
<1>6. CmdRequestOK(region, h)
  BY <1>1, <1>4, <1>5 DEF CmdRequestOK
<1>. QED  BY <1>1, <1>2, <1>6, CmdStands

-----------------------------------------------------------------------------
\* A chain about to be delivered: its span leaves the books, on record with
\* the value the chain will release.
LEMMA DeliveredReady ==
  ASSUME IInv, host.job = "none", chain # {},
         UNCHANGED <<slot, live, wrapped, chain, reserved, q_last, after_stall, abandoned>>
  PROVE  LET rd == Delivered["desc"]
             src == region["desc"].dirty IN
         /\ Ready(Delivered) /\ rd.dirty = NoSpan
         /\ Within(rd, src) /\ src.hi <= rd.next /\ Covered(rd, src, reserved - 1)
         /\ \A c \in chain : Covered(rd, c, reserved - 1)
         /\ \A q \in Queues : q_last[q] < reserved
<1>. DEFINE desc == region["desc"]
            src == desc.dirty
            mk == mark(desc, src, reserved)
            rd == [mk EXCEPT !.dirty = NoSpan]
<1>1. /\ "desc" \in Regions /\ "cmd" \in Regions /\ "desc" # "cmd"
      /\ \A r \in Regions : r = "desc" \/ r = "cmd"
  BY DEF Regions
<1>2. /\ region \in [Regions -> Region] /\ RegionOK(desc) /\ desc \in Region
      /\ desc.size = Size["desc"] /\ src \in Span /\ src.lo \in Nat /\ src.hi \in Nat
      /\ src.hi <= desc.next /\ desc.next <= desc.size /\ desc.next \in Nat
      /\ desc.size \in Nat /\ reserved \in Nat
  BY <1>1 DEF IInv, TypeOK, RegionsOK, RegionOK, Region, Span
<1>3. ~ InFlush
  BY DEF InFlush
<1>4. \A c \in chain : /\ c \in Span /\ c.lo \in Nat /\ c.hi \in Nat /\ c.lo < c.hi
                       /\ src.lo <= c.lo /\ c.hi <= src.hi
  BY <1>3 DEF IInv, ChainOK, Within, Span
<1>5. src.lo < src.hi /\ src.hi <= desc.size
  BY <1>2, <1>4
<1>6. \A q \in Queues : q_last[q] < reserved /\ q_last[q] \in Nat
  BY <1>3 DEF IInv, ChainOK, TypeOK
<1>7. reserved - 1 \in Nat /\ reserved - 1 < reserved
  BY <1>2, <1>6 DEF Queues
<1>8. /\ RegionOK(mk) /\ mk.size = desc.size /\ mk.next = desc.next /\ mk.used = desc.used
      /\ \A i \in Pieces : mk.seg_value[i] \in {desc.seg_value[i], reserved}
  BY <1>2, MarkOK
<1>9. \A s : \A a \in Nat : Safe(desc, s, a) => Safe(mk, s, a)
  BY <1>2, MarkSafe
<1>10. \A s \in Span : s.lo < s.hi /\ src.lo <= s.lo /\ s.hi <= src.hi => Covered(mk, s, reserved - 1)
  BY <1>2, <1>5, <1>7, MarkCovers
<1>11. Delivered = [region EXCEPT !["desc"] = rd]
  BY DEF Delivered
<1>. HIDE DEF mk
<1>12. /\ RegionOK(rd) /\ rd.size = mk.size /\ rd.next = mk.next /\ rd.seg_value = mk.seg_value
       /\ rd.dirty = NoSpan /\ rd.used = mk.used
       /\ \A s : \A a \in Nat : Safe(mk, s, a) => Safe(rd, s, a)
  BY <1>8, ClearDirty
<1>. HIDE DEF rd
<1>13. \A s : Covered(mk, s, reserved - 1) => Covered(rd, s, reserved - 1)
  BY <1>8, <1>12, TouchedSame DEF Covered, RegionOK
<1>14. /\ Delivered["desc"] = rd /\ Delivered["cmd"] = region["cmd"]
       /\ Delivered \in [Regions -> Region] /\ rd \in Region
  BY <1>1, <1>2, <1>11, <1>12 DEF RegionOK
<1>15. Sound(region)
  BY QuietReady DEF IInv, TypeOK
<1>16. Sound(Delivered)
  <2>1. \A r \in Regions : RegionOK(Delivered[r]) /\ Delivered[r].size = Size[r]
    BY <1>1, <1>2, <1>8, <1>12, <1>14, <1>15 DEF Sound
  <2>2. \A r \in Regions : \A i \in Pieces : Delivered[r].seg_value[i] <= reserved'
    <3>1. \A i \in Pieces : desc.seg_value[i] <= reserved /\ desc.seg_value[i] \in Nat
      BY <1>1, <1>2, <1>15 DEF Sound, Region
    <3>2. \A i \in Pieces : rd.seg_value[i] <= reserved
      BY <1>2, <1>8, <1>12, <3>1
    <3>. QED  BY <1>1, <1>14, <1>15, <3>2 DEF Sound
  <2>3. \A c \in chain' : Within(rd, c) /\ c.hi <= rd.next
    BY <1>2, <1>8, <1>12, <1>15 DEF Sound, Within
  <2>4. ASSUME NEW r \in Regions, NEW b \in live', NEW s \in SpansOf(b, r)
        PROVE  Safe(Delivered[r], s, b.after)
    <3>1. Safe(region[r], s, b.after) /\ b.after \in Nat
      BY <1>15 DEF Sound, Batch
    <3>. QED  BY <1>1, <1>9, <1>12, <1>14, <3>1
  <2>5. Delivered["desc"].dirty.hi <= Delivered["desc"].next
    BY <1>2, <1>8, <1>12, <1>14 DEF NoSpan
  <2>. QED  BY <1>14, <1>15, <2>1, <2>2, <2>3, <2>4, <2>5 DEF Sound
<1>17. Ready(Delivered)
  BY <1>16 DEF Ready
<1>18. Within(rd, src) /\ src.hi <= rd.next
  BY <1>2, <1>5, <1>8, <1>12 DEF Within
<1>. QED  BY <1>2, <1>4, <1>5, <1>6, <1>10, <1>12, <1>13, <1>14, <1>17, <1>18

\* A flush asks for its first command buffer, the delivery's or the chain's.
LEMMA FlushStep ==
  ASSUME IInv, NEW n \in Requests["cmd"], FlushByCopy(n) \/ FlushByPatches(n)
  PROVE  IInv'
<1>. DEFINE src == region["desc"].dirty
            hd == [NoHost EXCEPT !.job = "deliver", !.queue = "copy", !.bytes = n,
                                 !.src = src, !.chain_upto = reserved]
            hc == [NoHost EXCEPT !.job = "chain", !.bytes = n, !.chain_upto = reserved]
            rd == Delivered["desc"]
<1>1. /\ UNCHANGED <<slot, live, wrapped, chain, reserved, q_last, after_stall, abandoned>>
      /\ chain # {} /\ host.job = "none"
      /\ CmdSpace(Delivered, hd) \/ CmdSpace(Delivered, hc)
  BY DEF FlushByCopy, FlushByPatches, hostVars
<1>2. /\ Ready(Delivered) /\ rd.dirty = NoSpan
      /\ Within(rd, src) /\ src.hi <= rd.next /\ Covered(rd, src, reserved - 1)
      /\ \A c \in chain : Covered(rd, c, reserved - 1)
      /\ \A q \in Queues : q_last[q] < reserved
  BY <1>1, DeliveredReady
<1>3. n \in Nat /\ NoHost \in HostState /\ src \in Span /\ reserved \in Nat
  BY <1>2, ScratchAssumption DEF Regions, NoHost, HostState, Jobs, Queues, Span, NoSpan,
     Within, IInv, TypeOK
<1>. HIDE DEF src
<1>4. hd \in HostState /\ hc \in HostState
  BY <1>3 DEF HostState, Jobs, Queues
<1>5. /\ hd.job = "deliver" /\ hd.queue = "copy" /\ hd.want = 0 /\ hd.src = src
      /\ hd.chain_upto = reserved
      /\ hc.job = "chain" /\ hc.queue = "compute" /\ hc.want = 0 /\ hc.chain_upto = reserved
  BY DEF NoHost
<1>. HIDE DEF hd, hc
<1>6. CmdRequestOK(Delivered, hd) /\ CmdRequestOK(Delivered, hc)
  BY <1>1, <1>2, <1>3, <1>4, <1>5 DEF CmdRequestOK, Queues
<1>. QED  BY <1>1, <1>2, <1>6, CmdStands

-----------------------------------------------------------------------------
\* The host between two entry points
LEMMA QuietStands ==
  ASSUME Ready(region'), ToDeliver(region'), host' = NoHost
  PROVE  IInv'
<1>1. host'.job = "none" /\ host'.want = 0 /\ host' \in HostState
  BY DEF NoHost, HostState, Jobs, Queues, Span, NoSpan
<1>2. TypeOK'
  BY <1>1 DEF TypeOK, Ready, Sound, RegionOK
<1>3. RegionsOK' /\ HostOK' /\ ValuesOK'
  BY <1>1 DEF RegionsOK, HostOK, Ready, Sound, InFlush, Allocating
<1>4. RecordsBehindTimeline'
  BY <1>1 DEF RecordsBehindTimeline, Ready, Sound
<1>5. ChainOK' /\ LiveSafe'
  BY <1>1 DEF ChainOK, LiveSafe, ToDeliver, Ready, Sound, InFlush, Allocating
<1>. QED  BY <1>2, <1>3, <1>4, <1>5 DEF IInv

\* The command region of a batch that has its bytes: they are on record with
\* its value, and nothing else in flight has become less safe.
LEMMA CmdSubmitted ==
  ASSUME IInv, host.job \in {"batch", "deliver", "chain"}, sem_reached(host.want),
         NEW value \in Nat
  PROVE  LET rc == [submitted(take(region["cmd"], host.off, host.bytes), value)
                      EXCEPT !.dirty = NoSpan]
             new == SpanAt(host.off, host.bytes) IN
         /\ RegionOK(rc) /\ rc.size = Size["cmd"] /\ rc.dirty = NoSpan /\ rc.used = NoSpan
         /\ \A i \in Pieces : rc.seg_value[i] \in {region["cmd"].seg_value[i], value}
         /\ \A b \in live : Safe(rc, b.cmd, b.after)
         /\ new \in Span
         /\ \A a \in Nat : a < value => Safe(rc, new, a)
<1>. DEFINE rg == take(region["cmd"], host.off, host.bytes)
            rs == submitted(rg, value)
            rc == [rs EXCEPT !.dirty = NoSpan]
            new == SpanAt(host.off, host.bytes)
<1>1. Allocating /\ HostRegion = "cmd"
  BY DEF Allocating, HostRegion
<1>2. /\ RegionOK(rg) /\ rg.size = Size["cmd"] /\ rg.next = host.off + host.bytes
      /\ rg.seg_value = region["cmd"].seg_value
      /\ rg.used = widen(region["cmd"].used, host.off, host.off + host.bytes)
      /\ host.off \in Nat /\ host.bytes \in Nat \ {0}
      /\ host.off + host.bytes <= Size["cmd"]
      /\ \A b \in live : \A s \in SpansOf(b, "cmd") : Safe(rg, s, b.after)
  BY <1>1, TakenSafe
<1>3. region["cmd"].used = NoSpan /\ \A b \in live : b.after \in Nat
  BY DEF IInv, RegionsOK, TypeOK, Batch
<1>4. rg.used = new /\ new \in Span /\ new.lo = host.off /\ new.hi = host.off + host.bytes
  BY <1>2, <1>3 DEF widen, NoSpan, SpanAt, Span
<1>. HIDE DEF rg, new
<1>5. /\ RegionOK(rs) /\ rs.size = rg.size /\ rs.next = rg.next /\ rs.used = NoSpan
      /\ \A i \in Pieces : rs.seg_value[i] \in {rg.seg_value[i], value}
      /\ \A s : \A a \in Nat : Safe(rg, s, a) => Safe(rs, s, a)
      /\ \A a \in Nat : a < value => Covered(rs, new, a)
  <2>1. new.lo < new.hi /\ new.hi <= rg.size
    BY <1>2, <1>4
  <2>2. /\ RegionOK(rs) /\ rs.size = rg.size /\ rs.next = rg.next /\ rs.used = NoSpan
        /\ \A i \in Pieces : rs.seg_value[i] \in {rg.seg_value[i], value}
        /\ \A s : \A a \in Nat : Safe(rg, s, a) => Safe(rs, s, a)
        /\ rg.used.lo < rg.used.hi /\ rg.used.hi <= rg.size =>
             \A a \in Nat : a < value => Covered(rs, rg.used, a)
    BY <1>2, SubmittedOK
  <2>. QED  BY <1>4, <2>1, <2>2
<1>. HIDE DEF rs
<1>6. /\ RegionOK(rc) /\ rc.size = rs.size /\ rc.next = rs.next
      /\ rc.seg_value = rs.seg_value /\ rc.dirty = NoSpan /\ rc.used = rs.used
      /\ \A s : \A a \in Nat : Safe(rs, s, a) => Safe(rc, s, a)
  BY <1>5, ClearDirty
<1>7. Within(rs, new) /\ Behind(rs, new, rs.next)
  BY <1>2, <1>4, <1>5 DEF Within, Behind
<1>8. \A a \in Nat : a < value => Safe(rc, new, a)
  BY <1>5, <1>6, <1>7 DEF Safe
<1>9. \A b \in live : Safe(rc, b.cmd, b.after)
  BY <1>2, <1>3, <1>5, <1>6 DEF SpansOf
<1>. HIDE DEF rc
<1>. QED  BY <1>2, <1>4, <1>5, <1>6, <1>8, <1>9 DEF rc, rs, rg, new

\* A batch submitted with its value: the regions are sound with it in flight.
LEMMA SubmittedReady ==
  ASSUME IInv, host.job \in {"batch", "deliver", "chain"}, sem_reached(host.want),
         NEW value \in Nat, NEW ds \in SUBSET Span, SubmitBatch(value, ds),
         q_last[host.queue] < value, value <= reserved',
         reserved' \in Nat, reserved' >= reserved, chain' \subseteq chain,
         UNCHANGED slot, wrapped' \in BOOLEAN, after_stall' \in BOOLEAN, abandoned' \in BOOLEAN,
         \A s \in ds : /\ Within(region["desc"], s) /\ s.hi <= region["desc"].next
                       /\ Covered(region["desc"], s, q_last[host.queue])
  PROVE  LET rgs == Submit(Taken, value) IN
         /\ Sound(rgs) /\ rgs["desc"].used = NoSpan
         /\ rgs["desc"].dirty = region["desc"].dirty
         /\ rgs["desc"].next = region["desc"].next /\ rgs["desc"].size = region["desc"].size
         /\ \A s \in Span : \A a \in Nat :
              Covered(region["desc"], s, a) => Covered(rgs["desc"], s, a)
<1>. DEFINE desc == region["desc"]
            rd == submitted(desc, value)
            rc == [submitted(take(region["cmd"], host.off, host.bytes), value)
                     EXCEPT !.dirty = NoSpan]
            rgs == Submit(Taken, value)
            queue == host.queue
            new == SpanAt(host.off, host.bytes)
            nb == [queue |-> queue, upto |-> value, after |-> q_last[queue],
                   cmd |-> new, desc |-> ds]
<1>1. /\ "desc" \in Regions /\ "cmd" \in Regions /\ "desc" # "cmd"
      /\ \A r \in Regions : r = "desc" \/ r = "cmd"
  BY DEF Regions
<1>2. /\ region \in [Regions -> Region] /\ RegionOK(desc) /\ desc.size = Size["desc"]
      /\ desc \in Region /\ queue \in Queues /\ q_last[queue] \in Nat /\ reserved \in Nat
      /\ q_last \in [Queues -> Nat] /\ slot \in [Queues -> Nat]
  BY <1>1 DEF IInv, TypeOK, RegionsOK, HostState
<1>3. /\ RegionOK(rd) /\ rd.size = desc.size /\ rd.next = desc.next
      /\ rd.dirty = desc.dirty /\ rd.used = NoSpan
      /\ \A i \in Pieces : rd.seg_value[i] \in {desc.seg_value[i], value}
      /\ \A s : \A a \in Nat : Safe(desc, s, a) => Safe(rd, s, a)
      /\ \A s \in Span : \A a \in Nat : Covered(desc, s, a) => Covered(rd, s, a)
  BY <1>2, SubmittedOK
<1>4. /\ RegionOK(rc) /\ rc.size = Size["cmd"] /\ rc.dirty = NoSpan /\ rc.used = NoSpan
      /\ \A i \in Pieces : rc.seg_value[i] \in {region["cmd"].seg_value[i], value}
      /\ \A b \in live : Safe(rc, b.cmd, b.after)
      /\ new \in Span /\ \A a \in Nat : a < value => Safe(rc, new, a)
  BY CmdSubmitted
<1>5. /\ rgs["desc"] = rd /\ rgs["cmd"] = rc /\ rgs \in [Regions -> Region]
  <2>. DEFINE tk == take(region["cmd"], host.off, host.bytes)
              sb == submitted(tk, value)
  <2>1. Taken = [region EXCEPT !["cmd"] = tk]
    BY DEF Taken
  <2>2. rgs = [[Taken EXCEPT !["cmd"] = submitted(Taken["cmd"], value),
                             !["desc"] = submitted(Taken["desc"], value)] EXCEPT !["cmd"].dirty = NoSpan]
    BY DEF Submit, push_shadow
  <2>3. Taken["cmd"] = tk /\ Taken["desc"] = desc /\ DOMAIN Taken = Regions
    <3>. HIDE DEF tk
    <3>. QED  BY <1>1, <1>2, <2>1
  <2>4. rgs = [[Taken EXCEPT !["cmd"] = sb, !["desc"] = rd] EXCEPT !["cmd"].dirty = NoSpan]
    BY <2>2, <2>3
  <2>5. rc = [sb EXCEPT !.dirty = NoSpan] /\ rc \in Region /\ rd \in Region
    BY <1>3, <1>4 DEF RegionOK
  <2>. HIDE DEF sb, tk, rc, rd, rgs
  <2>6. rgs = [r \in Regions |-> IF r = "cmd" THEN rc ELSE rd]
    BY <1>1, <2>3, <2>4, <2>5
  <2>. QED  BY <1>1, <2>5, <2>6
<1>6. q_last' = [q_last EXCEPT ![queue] = value] /\ live' = live \union {nb}
  BY DEF SubmitBatch
<1>7. /\ nb.queue = queue /\ nb.upto = value /\ nb.after = q_last[queue]
      /\ nb.cmd = new /\ nb.desc = ds /\ nb \in Batch
  BY <1>2, <1>4 DEF Batch
<1>. HIDE DEF rd, rc, rgs, new, nb
<1>8. live' \in SUBSET Batch /\ \A b \in live : b \in Batch
  BY <1>6, <1>7 DEF IInv, TypeOK
<1>9. q_last' \in [Queues -> Nat] /\ q_last'[queue] = value
      /\ \A q \in Queues : q # queue => q_last'[q] = q_last[q]
  BY <1>2, <1>6
<1>10. \A q \in Queues : slot[q] <= q_last[q] /\ q_last[q] <= reserved
                        /\ q_last[q] \in Nat /\ slot[q] \in Nat
  BY <1>2 DEF IInv, RecordsBehindTimeline
<1>11. ValuesOK'
  <2>1. ASSUME NEW b \in live'
        PROVE  slot[b.queue] <= b.after /\ b.after < b.upto /\ b.upto <= q_last'[b.queue]
    <3>1. CASE b = nb
      BY <3>1, <1>2, <1>7, <1>9, <1>10
    <3>2. CASE b \in live
      <4>1. slot[b.queue] <= b.after /\ b.after < b.upto /\ b.upto <= q_last[b.queue]
        BY <3>2 DEF IInv, ValuesOK
      <4>2. b.queue \in Queues /\ b.upto \in Nat
        BY <3>2, <1>8 DEF Batch
      <4>. QED  BY <4>1, <4>2, <1>2, <1>9
    <3>. QED  BY <1>6, <3>1, <3>2
  <2>2. ASSUME NEW b \in live', NEW c \in live', b # c, b.queue = c.queue
        PROVE  b.upto <= c.after \/ c.upto <= b.after
    <3>1. CASE b \in live /\ c \in live
      BY <2>2, <3>1 DEF IInv, ValuesOK
    <3>2. CASE b = nb /\ c \in live
      BY <2>2, <3>2, <1>7 DEF IInv, ValuesOK
    <3>3. CASE c = nb /\ b \in live
      BY <2>2, <3>3, <1>7 DEF IInv, ValuesOK
    <3>. QED  BY <2>2, <1>6, <3>1, <3>2, <3>3
  <2>. QED  BY <2>1, <2>2 DEF ValuesOK
<1>12. \A r \in Regions : \A i \in Pieces : rgs[r].seg_value[i] <= reserved'
  <2>1. \A r \in Regions : \A i \in Pieces : /\ region[r].seg_value[i] <= reserved
                                            /\ region[r].seg_value[i] \in Nat
    BY <1>2 DEF IInv, RecordsBehindTimeline, Region
  <2>2. \A i \in Pieces : rgs["desc"].seg_value[i] <= reserved'
    BY <1>1, <1>2, <1>3, <1>5, <2>1
  <2>3. \A i \in Pieces : rgs["cmd"].seg_value[i] <= reserved'
    BY <1>1, <1>2, <1>4, <1>5, <2>1
  <2>. QED  BY <1>1, <2>2, <2>3
<1>13. \A q \in Queues : slot'[q] <= q_last'[q] /\ q_last'[q] <= reserved'
  BY <1>2, <1>9, <1>10
<1>14. \A c \in chain' : Within(rd, c) /\ c.hi <= rd.next
  BY <1>3 DEF IInv, ChainOK, Within
<1>15. ASSUME NEW r \in Regions, NEW b \in live', NEW s \in SpansOf(b, r)
       PROVE  Safe(rgs[r], s, b.after)
  <2>1. CASE r = "cmd"
    <3>1. s = b.cmd
      BY <2>1 DEF SpansOf
    <3>. QED  BY <2>1, <3>1, <1>2, <1>4, <1>5, <1>6, <1>7
  <2>2. CASE r = "desc" /\ b \in live
    <3>1. s \in SpansOf(b, "desc") /\ "desc" # "cmd" /\ b.after \in Nat
      BY <2>2, <1>8 DEF Batch
    <3>2. Safe(desc, s, b.after)
      BY <1>1, <2>2, <3>1 DEF IInv, LiveSafe, HostRegion
    <3>. QED  BY <2>2, <3>1, <3>2, <1>3, <1>5
  <2>3. CASE r = "desc" /\ b = nb
    <3>1. s \in ds
      BY <2>3, <1>7 DEF SpansOf
    <3>2. Safe(desc, s, b.after)
      BY <2>3, <3>1, <1>7 DEF Safe, Behind
    <3>. QED  BY <2>3, <3>2, <1>2, <1>3, <1>5, <1>7
  <2>. QED  BY <1>1, <1>6, <2>1, <2>2, <2>3
<1>16. \A r \in Regions : RegionOK(rgs[r]) /\ rgs[r].size = Size[r]
  BY <1>1, <1>2, <1>3, <1>4, <1>5
<1>17. rd.dirty.hi <= rd.next
  BY <1>3 DEF IInv, RegionsOK
<1>18. chain' \in SUBSET Span /\ slot' \in [Queues -> Nat]
  BY <1>2 DEF IInv, TypeOK
<1>19. Sound(rgs)
  BY <1>4, <1>5, <1>8, <1>9, <1>11, <1>12, <1>13, <1>14, <1>15, <1>16, <1>17, <1>18 DEF Sound
<1>. QED  BY <1>3, <1>5, <1>19 DEF rgs

\* A batch that is not a chain goes out.
LEMMA BatchSubmitStep ==
  ASSUME IInv, BatchSubmit
  PROVE  IInv'
<1>. DEFINE rgs == Submit(Taken, reserved + 1)
<1>1. /\ host.job = "batch" /\ host.queue \in Queues /\ chain = {} /\ reserved \in Nat
      /\ abandoned \in BOOLEAN /\ wrapped \in BOOLEAN
  BY DEF BatchSubmit, IInv, HostOK, TypeOK, HostState
<1>2. /\ sem_reached(host.want) /\ after_stall' \in BOOLEAN
  BY DEF BatchSubmit, BeginsOn, MayHaveStalled, IInv, TypeOK
<1>3. q_last[host.queue] < reserved + 1
  BY <1>1 DEF IInv, TypeOK, RecordsBehindTimeline
<1>4. /\ SubmitBatch(reserved + 1, {}) /\ region' = rgs /\ reserved' = reserved + 1
      /\ host' = NoHost /\ UNCHANGED <<slot, wrapped, chain, abandoned>>
  BY DEF BatchSubmit
<1>5. Sound(rgs) /\ rgs["desc"].used = NoSpan /\ rgs["desc"].dirty = region["desc"].dirty
  BY <1>1, <1>2, <1>3, <1>4, SubmittedReady
<1>. HIDE DEF rgs
<1>6. ~ abandoned => ~ Held(rgs["desc"])
  BY <1>1, <1>5 DEF IInv, RegionsOK, Held, NoSpan
<1>7. Ready(rgs) /\ ToDeliver(rgs)
  BY <1>1, <1>4, <1>5, <1>6 DEF Ready, ToDeliver
<1>. QED  BY <1>4, <1>7, QuietStands

\* The delivery goes out, and its chain asks for a command buffer.
LEMMA DeliverSubmitStep ==
  ASSUME IInv, NEW n \in Requests["cmd"], DeliverSubmit(n)
  PROVE  IInv'
<1>. DEFINE rgs == Submit(Taken, reserved + 1)
            upto == host.chain_upto
            h == [NoHost EXCEPT !.job = "chain", !.bytes = n, !.chain_upto = upto]
<1>1. /\ host.job = "deliver" /\ host.queue = "copy" /\ InFlush
      /\ reserved \in Nat /\ upto \in Nat
      /\ abandoned \in BOOLEAN /\ wrapped \in BOOLEAN /\ chain \in SUBSET Span
      /\ "copy" \in Queues /\ "compute" \in Queues
      /\ q_last["copy"] \in Nat /\ q_last["compute"] \in Nat
  BY DEF DeliverSubmit, IInv, HostOK, TypeOK, HostState, InFlush, Queues
<1>2. /\ sem_reached(host.want) /\ after_stall' \in BOOLEAN
  BY DEF DeliverSubmit, BeginsOn, MayHaveStalled, IInv, TypeOK
<1>3. /\ q_last["copy"] < upto /\ q_last["compute"] < upto /\ upto <= reserved
      /\ Within(region["desc"], host.src) /\ host.src.hi <= region["desc"].next
      /\ Covered(region["desc"], host.src, upto - 1)
      /\ \A c \in chain : Covered(region["desc"], c, upto - 1)
      /\ region["desc"].dirty = NoSpan
  BY <1>1 DEF IInv, ChainOK, RegionsOK
<1>4. /\ SubmitBatch(reserved + 1, {host.src}) /\ reserved' = reserved + 1
      /\ UNCHANGED <<slot, wrapped, chain, abandoned>> /\ CmdSpace(rgs, h)
  BY DEF DeliverSubmit
<1>5. host.src \in Span /\ upto - 1 \in Nat /\ Covered(region["desc"], host.src, q_last["copy"])
  <2>1. \A i \in Pieces : region["desc"].seg_value[i] \in Nat
    BY DEF IInv, TypeOK, Regions, Region
  <2>. QED  BY <1>1, <1>3, <2>1 DEF Within, Covered, Touched
<1>. HIDE DEF upto
<1>6. /\ Sound(rgs) /\ rgs["desc"].used = NoSpan /\ rgs["desc"].dirty = region["desc"].dirty
      /\ rgs["desc"].next = region["desc"].next /\ rgs["desc"].size = region["desc"].size
      /\ \A s \in Span : \A a \in Nat :
           Covered(region["desc"], s, a) => Covered(rgs["desc"], s, a)
  BY <1>1, <1>2, <1>3, <1>4, <1>5, SubmittedReady
<1>. HIDE DEF rgs
<1>7. Ready(rgs)
  BY <1>3, <1>6 DEF Ready, Held, NoSpan
<1>8. h \in HostState
  <2>1. n \in Nat /\ NoHost \in HostState
    BY ScratchAssumption DEF Regions, NoHost, HostState, Jobs, Queues, Span, NoSpan
  <2>. QED  BY <1>1, <2>1 DEF HostState, Jobs
<1>9. /\ h.job = "chain" /\ h.queue = "compute" /\ h.want = 0 /\ h.chain_upto = upto
  BY DEF NoHost
<1>. HIDE DEF h
<1>10. q_last'["compute"] = q_last["compute"]
  BY <1>1, <1>4 DEF SubmitBatch, IInv, TypeOK
<1>11. \A c \in chain' : Covered(rgs["desc"], c, upto - 1)
  BY <1>1, <1>3, <1>4, <1>5, <1>6
<1>12. CmdRequestOK(rgs, h)
  BY <1>1, <1>3, <1>4, <1>6, <1>8, <1>9, <1>10, <1>11 DEF CmdRequestOK
<1>. QED  BY <1>4, <1>7, <1>12, CmdStands

\* The chain goes out.
LEMMA ChainSubmitStep ==
  ASSUME IInv, ChainSubmit
  PROVE  IInv'
<1>. DEFINE upto == host.chain_upto
            rgs == Submit(Taken, upto)
<1>1. /\ host.job = "chain" /\ host.queue = "compute" /\ InFlush
      /\ reserved \in Nat /\ upto \in Nat /\ wrapped \in BOOLEAN /\ chain \in SUBSET Span
      /\ "compute" \in Queues /\ q_last["compute"] \in Nat
  BY DEF ChainSubmit, IInv, HostOK, TypeOK, HostState, InFlush, Queues
<1>2. /\ sem_reached(host.want) /\ after_stall' \in BOOLEAN
  BY DEF ChainSubmit, BeginsOn, MayHaveStalled, IInv, TypeOK
<1>3. /\ q_last["compute"] < upto /\ upto <= reserved
      /\ \A c \in chain : /\ Within(region["desc"], c) /\ c.hi <= region["desc"].next
                          /\ Covered(region["desc"], c, upto - 1)
      /\ region["desc"].dirty = NoSpan
  BY <1>1 DEF IInv, ChainOK, RegionsOK
<1>4. /\ SubmitBatch(upto, chain) /\ region' = rgs /\ chain' = {} /\ abandoned' = FALSE
      /\ host' = NoHost /\ UNCHANGED <<slot, wrapped, reserved>>
  BY DEF ChainSubmit
<1>5. \A c \in chain : Covered(region["desc"], c, q_last["compute"])
  <2>1. \A i \in Pieces : region["desc"].seg_value[i] \in Nat
    BY DEF IInv, TypeOK, Regions, Region
  <2>. QED  BY <1>1, <1>3, <2>1 DEF Covered, Touched
<1>. HIDE DEF upto
<1>6. Sound(rgs) /\ rgs["desc"].used = NoSpan /\ rgs["desc"].dirty = NoSpan
  <2>1. /\ host.job \in {"batch", "deliver", "chain"} /\ q_last[host.queue] < upto
        /\ upto <= reserved' /\ reserved' \in Nat /\ reserved' >= reserved
        /\ chain' \subseteq chain
    BY <1>1, <1>3, <1>4
  <2>2. UNCHANGED slot /\ wrapped' \in BOOLEAN /\ abandoned' \in BOOLEAN
    BY <1>1, <1>4
  <2>3. \A s \in chain : /\ Within(region["desc"], s) /\ s.hi <= region["desc"].next
                         /\ Covered(region["desc"], s, q_last[host.queue])
    BY <1>1, <1>3, <1>5
  <2>4. Sound(rgs) /\ rgs["desc"].used = NoSpan /\ rgs["desc"].dirty = region["desc"].dirty
    BY <1>1, <1>2, <1>4, <2>1, <2>2, <2>3, SubmittedReady
  <2>. QED  BY <1>3, <2>4
<1>. HIDE DEF rgs
<1>7. Ready(rgs) /\ ToDeliver(rgs)
  BY <1>4, <1>6 DEF Ready, ToDeliver, Held, NoSpan
<1>. QED  BY <1>4, <1>7, QuietStands

-----------------------------------------------------------------------------
\* A wait for everything changes nothing but what is known of the engines.
LEMMA IdleStep ==
  ASSUME IInv, Idle
  PROVE  IInv'
BY DEF Idle, IInv, TypeOK, RegionsOK, HostOK, ValuesOK, RecordsBehindTimeline, ChainOK,
       LiveSafe, InFlush, Allocating, HostRegion

\* A queue retires its oldest batch: those behind it were submitted when it
\* had already been asked for.
LEMMA RetireStep ==
  ASSUME IInv, NEW b \in live, Retire(b)
  PROVE  /\ IInv'
         /\ \A q \in Queues : slot'[q] >= slot[q]
<1>1. /\ b \in Batch /\ b.queue \in Queues /\ b.upto \in Nat /\ b.after \in Nat
      /\ slot' = [slot EXCEPT ![b.queue] = b.upto] /\ live' = live \ {b}
      /\ slot \in [Queues -> Nat] /\ q_last \in [Queues -> Nat]
      /\ UNCHANGED <<region, host, wrapped, chain, reserved, q_last, after_stall, abandoned>>
  BY DEF Retire, hostVars, IInv, TypeOK, Batch
<1>2. /\ slot[b.queue] <= b.after /\ b.after < b.upto /\ b.upto <= q_last[b.queue]
  BY DEF IInv, ValuesOK
<1>3. TypeOK'
  BY <1>1 DEF IInv, TypeOK
<1>4. RegionsOK' /\ HostOK' /\ ChainOK'
  BY <1>1 DEF IInv, RegionsOK, HostOK, ChainOK, InFlush, Allocating, HostRegion
<1>5. \A q \in Queues : slot'[q] >= slot[q] /\ slot'[q] <= q_last[q]
  <2>1. \A q \in Queues : slot[q] <= q_last[q]
    BY DEF IInv, RecordsBehindTimeline
  <2>. QED  BY <1>1, <1>2, <2>1
<1>6. ValuesOK'
  <2>1. ASSUME NEW c \in live'
        PROVE  slot'[c.queue] <= c.after /\ c.after < c.upto /\ c.upto <= q_last'[c.queue]
    <3>1. c \in live /\ c # b /\ c \in Batch
      BY <1>1, <2>1 DEF IInv, TypeOK
    <3>2. slot[c.queue] <= c.after /\ c.after < c.upto /\ c.upto <= q_last[c.queue]
      BY <3>1 DEF IInv, ValuesOK
    <3>3. CASE c.queue # b.queue
      BY <1>1, <3>1, <3>2, <3>3 DEF Batch
    <3>4. CASE c.queue = b.queue
      <4>1. b.after <= c.after
        BY <3>1, <3>4 DEF Retire
      <4>2. b.upto <= c.after \/ c.upto <= b.after
        BY <3>1, <3>4 DEF IInv, ValuesOK
      <4>3. c.after \in Nat /\ c.upto \in Nat
        BY <3>1 DEF Batch
      <4>4. b.upto <= c.after
        BY <1>1, <3>2, <4>1, <4>2, <4>3
      <4>. QED  BY <1>1, <3>2, <3>4, <4>4
    <3>. QED  BY <3>3, <3>4
  <2>2. \A c, d \in live' : c # d /\ c.queue = d.queue => c.upto <= d.after \/ d.upto <= c.after
    BY <1>1 DEF IInv, ValuesOK
  <2>. QED  BY <2>1, <2>2 DEF ValuesOK
<1>7. RecordsBehindTimeline'
  BY <1>1, <1>5 DEF IInv, RecordsBehindTimeline
<1>8. LiveSafe'
  BY <1>1 DEF IInv, LiveSafe, Allocating, HostRegion
<1>. QED  BY <1>3, <1>4, <1>5, <1>6, <1>7, <1>8 DEF IInv

-----------------------------------------------------------------------------
\* The invariant holds before the first call.
LEMMA InitInv ==
  ASSUME Init
  PROVE  IInv
<1>1. /\ "desc" \in Regions /\ "cmd" \in Regions
      /\ \A r \in Regions : Size[r] \in Nat \ {0}
  BY ScratchAssumption DEF Regions
<1>2. ASSUME NEW r \in Regions
      PROVE  /\ RegionOK(region[r]) /\ region[r].size = Size[r] /\ region[r].next = 0
             /\ region[r].dirty = NoSpan /\ region[r].used = NoSpan
             /\ \A i \in Pieces : region[r].seg_value[i] = 0
  <2>1. region[r] = EmptyRegion(Size[r])
    BY DEF Init
  <2>2. [i \in Pieces |-> 0] \in [Pieces -> Nat]
    OBVIOUS
  <2>3. EmptyRegion(Size[r]) \in Region
    BY <1>1, <2>2 DEF EmptyRegion, Region, Span, NoSpan
  <2>. QED  BY <1>1, <2>1, <2>3 DEF EmptyRegion, RegionOK
<1>3. region \in [Regions -> Region]
  BY <1>2 DEF Init, RegionOK
<1>4. /\ host.job = "none" /\ host.want = 0 /\ host \in HostState
      /\ chain = {} /\ live = {} /\ reserved = 0
      /\ q_last = [q \in Queues |-> 0] /\ slot = [q \in Queues |-> 0]
  BY DEF Init, NoHost, HostState, Jobs, Queues, Span, NoSpan
<1>5. TypeOK
  <2>1. wrapped \in BOOLEAN /\ after_stall \in BOOLEAN /\ abandoned \in BOOLEAN
    BY DEF Init
  <2>2. \A r \in Regions : region[r].size = Size[r] /\ region[r].next <= Size[r]
    BY <1>1, <1>2
  <2>3. q_last \in [Queues -> Nat] /\ slot \in [Queues -> Nat] /\ reserved \in Nat
    BY <1>4
  <2>. QED  BY <1>3, <1>4, <2>1, <2>2, <2>3 DEF TypeOK
<1>6. RegionsOK
  BY <1>1, <1>2, <1>4 DEF RegionsOK, InFlush, Held, NoSpan
<1>7. HostOK /\ ValuesOK /\ ChainOK /\ LiveSafe
  BY <1>4 DEF HostOK, ValuesOK, ChainOK, LiveSafe, Allocating, InFlush
<1>8. RecordsBehindTimeline
  BY <1>2, <1>4 DEF RecordsBehindTimeline
<1>. QED  BY <1>5, <1>6, <1>7, <1>8 DEF IInv

\* It survives a step that changes nothing.
LEMMA StutterStep ==
  ASSUME IInv, UNCHANGED vars
  PROVE  IInv'
BY DEF vars, hostVars, IInv, TypeOK, RegionsOK, HostOK, ValuesOK, RecordsBehindTimeline,
       ChainOK, LiveSafe, InFlush, Allocating, HostRegion

\* Every step preserves the invariant.
LEMMA StepInv ==
  ASSUME IInv, [Next]_vars
  PROVE  IInv'
<1>1. CASE Launch
  BY <1>1, LaunchFitsStep, LaunchWrapsStep, LaunchRebasesStep, RebaseStep, TakeLaunchStep DEF Launch
<1>2. CASE Flush
  BY <1>2, FlushStep, DeliverSubmitStep, ChainSubmitStep DEF Flush
<1>3. CASE Other
  BY <1>3, BatchBeginStep, BatchSubmitStep, IdleStep DEF Other
<1>4. CASE \E b \in live : Retire(b)
  BY <1>4, RetireStep
<1>5. CASE UNCHANGED vars
  BY <1>5, StutterStep
<1>. QED  BY <1>1, <1>2, <1>3, <1>4, <1>5 DEF Next

\* The invariant the safety of the scratch rests on
THEOREM ScratchInvariant == Spec => []IInv
<1>1. Init => IInv
  BY InitInv
<1>2. IInv /\ [Next]_vars => IInv'
  BY StepInv
<1>. QED  BY <1>1, <1>2, PTL DEF Spec

\* Every variable keeps its type, and no region is ever filled past its end.
THEOREM ScratchTyped == Spec => []TypeOK
<1>1. IInv => TypeOK
  BY DEF IInv
<1>. QED  BY <1>1, ScratchInvariant, PTL

\* No wait and no event's query ends before the work it is about.
THEOREM ScratchReached == Spec => []ReachedMeansDone
<1>1. ASSUME IInv, NEW b \in live PROVE ~ sem_reached(b.after + 1)
  <2>. DEFINE v == b.after + 1
  <2>1. b.after \in Nat
    BY <1>1 DEF IInv, TypeOK, Batch
  <2>2. TypeOK /\ ValuesOK /\ v \in Nat /\ ~ (b.after >= v)
    BY <1>1, <2>1 DEF IInv
  <2>. HIDE DEF v
  <2>3. ~ sem_reached(v)
    BY <2>2, ReachedSound
  <2>. QED  BY <2>3 DEF v
<1>2. IInv => ReachedMeansDone
  BY <1>1 DEF ReachedMeansDone
<1>. QED  BY <1>2, ScratchInvariant, PTL

\* Every byte an engine may still read is on record, or being waited for.
THEOREM ScratchRecorded == Spec => []RecordsCoverLive
<1>1. ASSUME IInv PROVE RecordsCoverLive
  <2>. SUFFICES ASSUME NEW r \in Regions, NEW b \in live, NEW s \in SpansOf(b, r),
                       NEW i \in Touched(region[r], s.lo, s.hi)
                PROVE  region[r].seg_value[i] > b.after \/ b.after < host.want
    BY DEF RecordsCoverLive
  <2>. QED  BY <1>1 DEF IInv, LiveSafe, Safe, SafeAt, Covered
<1>. QED  BY <1>1, ScratchInvariant, PTL

\* No record and no wait is ever ahead of the counter, through any number of
\* restarts of it.
THEOREM ScratchBehindTimeline == Spec => []RecordsBehindTimeline
<1>1. IInv => RecordsBehindTimeline
  BY DEF IInv
<1>. QED  BY <1>1, ScratchInvariant, PTL

\* Coming round is refused only after a launch failed with its bytes taken.
THEOREM ScratchRefusals == Spec => []RefusedOnlyAfterAbandon
<1>1. IInv => RefusedOnlyAfterAbandon
  BY DEF IInv, RegionsOK, RefusedOnlyAfterAbandon
<1>. QED  BY <1>1, ScratchInvariant, PTL

\* What a step of the host hands out, no engine is using and no launch holds.
THEOREM ScratchHandsOutFreeBytes == Spec => HandsOutFreeBytes
<1>. DEFINE Free == /\ \A new \in chain' \ chain :
                         /\ \A old \in chain : Disjoint(new, old)
                         /\ \A b \in live : \A s \in b.desc : Disjoint(new, s)
                    /\ \A n \in live' \ live : \A b \in live : Disjoint(n.cmd, b.cmd)
<1>1. ASSUME IInv, [Next]_vars
      PROVE  [Free]_vars
  <2>1. CASE chain' \subseteq chain /\ live' \subseteq live
    BY <2>1
  <2>2. CASE TakeLaunch
    <3>1. /\ chain' = chain \union {SpanAt(host.off, host.bytes)} /\ live' = live
          /\ Allocating /\ HostRegion = "desc" /\ sem_reached(host.want) /\ ~ InFlush
      BY <2>2 DEF TakeLaunch, Allocating, HostRegion, InFlush
    <3>2. /\ host.off \in Nat /\ host.off >= region["desc"].next
          /\ \A b \in live : \A s \in b.desc : Disjoint(s, SpanAt(host.off, host.bytes))
      BY <1>1, <3>1, TakenSafe DEF SpansOf
    <3>3. \A old \in chain : Disjoint(SpanAt(host.off, host.bytes), old)
      <4>1. \A old \in chain : old \in Span /\ old.hi <= region["desc"].next
        BY <1>1 DEF IInv, ChainOK, TypeOK
      <4>2. region["desc"].next \in Nat
        BY <1>1 DEF IInv, TypeOK, Regions, Region
      <4>. QED  BY <3>2, <4>1, <4>2 DEF Disjoint, SpanAt, Span
    <3>4. \A b \in live : \A s \in b.desc : Disjoint(SpanAt(host.off, host.bytes), s)
      BY <3>2 DEF Disjoint
    <3>. QED  BY <3>1, <3>3, <3>4
  <2>3. ASSUME host.job \in {"batch", "deliver", "chain"}, sem_reached(host.want),
               chain' \subseteq chain, NEW value, NEW ds, SubmitBatch(value, ds)
        PROVE  Free
    <3>1. \A b \in live : Disjoint(b.cmd, SpanAt(host.off, host.bytes))
      BY <1>1, <2>3, TakenSafe DEF Allocating, HostRegion, SpansOf
    <3>2. \A n \in live' \ live : n.cmd = SpanAt(host.off, host.bytes)
      BY <2>3 DEF SubmitBatch
    <3>. QED  BY <2>3, <3>1, <3>2 DEF Disjoint
  <2>4. CASE BatchSubmit
    BY <2>3, <2>4 DEF BatchSubmit, BeginsOn
  <2>5. CASE \E n \in Requests["cmd"] : DeliverSubmit(n)
    BY <2>3, <2>5 DEF DeliverSubmit, BeginsOn
  <2>6. CASE ChainSubmit
    BY <2>3, <2>6 DEF ChainSubmit, BeginsOn
  <2>. HIDE DEF Free
  <2>7. CASE \E n \in Requests["desc"] : LaunchFits(n) \/ LaunchWraps(n) \/ LaunchRebases(n)
    BY <2>1, <2>7 DEF LaunchFits, LaunchWraps, LaunchRebases, hostVars
  <2>8. CASE Rebase \/ AbandonLaunch \/ Idle \/ UNCHANGED vars
    BY <2>1, <2>8 DEF Rebase, AbandonLaunch, Idle, vars, hostVars
  <2>9. CASE \E n \in Requests["cmd"] : FlushByCopy(n) \/ FlushByPatches(n)
    BY <2>1, <2>9 DEF FlushByCopy, FlushByPatches, hostVars
  <2>10. CASE \E n \in Requests["cmd"], q \in Queues : BatchBegin(q, n)
    BY <2>1, <2>10 DEF BatchBegin, hostVars
  <2>11. CASE \E b \in live : Retire(b)
    BY <2>1, <2>11 DEF Retire, hostVars
  <2>. QED  BY <1>1, <2>2, <2>4, <2>5, <2>6, <2>7, <2>8, <2>9, <2>10, <2>11
            DEF Next, Launch, Flush, Other
<1>. QED  BY <1>1, ScratchInvariant, PTL DEF Spec, HandsOutFreeBytes

\* A semaphore slot only goes backwards at the restart of the timeline, and
\* then nothing is in flight that waits for it.
THEOREM ScratchSlots == Spec => SlotsNeverGoBack
<1>. DEFINE Kept == \A q \in Queues : slot'[q] >= slot[q] \/ (reserved' = 0 /\ live' = {})
<1>1. ASSUME IInv, [Next]_vars
      PROVE  [Kept]_vars
  <2>1. slot \in [Queues -> Nat]
    BY <1>1 DEF IInv, TypeOK
  <2>2. CASE UNCHANGED slot
    BY <2>1, <2>2
  <2>3. CASE Rebase
    BY <1>1, <2>3, RebaseStep DEF Rebase
  <2>4. CASE \E b \in live : Retire(b)
    BY <1>1, <2>4, RetireStep
  <2>. HIDE DEF Kept
  <2>5. CASE Launch /\ ~ Rebase
    BY <2>2, <2>5 DEF Launch, LaunchFits, LaunchWraps, LaunchRebases, TakeLaunch, AbandonLaunch
  <2>6. CASE Flush \/ Other
    BY <2>2, <2>6 DEF Flush, FlushByCopy, FlushByPatches, DeliverSubmit, ChainSubmit,
                      Other, BatchBegin, BatchSubmit, Idle
  <2>7. CASE UNCHANGED vars
    BY <2>2, <2>7 DEF vars
  <2>. QED  BY <1>1, <2>3, <2>4, <2>5, <2>6, <2>7 DEF Next
<1>. QED  BY <1>1, ScratchInvariant, PTL DEF Spec, SlotsNeverGoBack

-----------------------------------------------------------------------------
(***************************************************************************)
(* Spans in flight are apart.  A delivery reads the whole dirty span, gaps  *)
(* of alignment and lost launches included, so that span too must be clear *)
(* of everything in flight: an allocation widens it by the gap below, and  *)
(* no span lies in the gap, since spans start at aligned offsets and none  *)
(* straddles the allocation point.                                         *)
(***************************************************************************)
Desc == region["desc"]
Aligned(x) == \E k \in 0 .. x : x = k * Align["desc"]
InFlightDesc == UNION {b.desc : b \in live}

\* The delivery of the chain in hand, already submitted
DeliversHand(b) == host.job = "chain" /\ b.queue = "copy" /\ b.upto = host.chain_upto + 1

\* The chain in hand is apart from all in flight but its own delivery.
HandApart ==
    /\ \A t \in chain : Aligned(t.lo)
    /\ \A t \in chain, b \in live : \A s \in b.desc : Disjoint(s, t) \/ DeliversHand(b)

\* What is still to be delivered, and what a delivery is about to read
DirtyApart ==
    /\ host.job # "rebase" /\ Desc.dirty.hi # Desc.dirty.lo =>
         /\ Desc.dirty.hi = Desc.next /\ Desc.dirty.lo < Desc.dirty.hi /\ Aligned(Desc.dirty.lo)
         /\ \A s \in InFlightDesc : Disjoint(s, Desc.dirty)
    /\ host.job = "deliver" =>
         /\ reserved = host.chain_upto /\ Aligned(host.src.lo)
         /\ \A s \in InFlightDesc : Disjoint(s, host.src)

\* No span in flight straddles the allocation point or starts in a gap.
NoneStraddles ==
    /\ \A s \in InFlightDesc : Aligned(s.lo) /\ (s.hi <= Desc.next \/ s.lo >= Desc.next)
    /\ host.job = "launch" => host.off = place(Desc, Align["desc"])

SpansApart == LiveSpansDisjoint /\ HandApart /\ DirtyApart /\ NoneStraddles

\* An allocation lands below every aligned offset above the allocation point.
LEMMA PlaceLeast ==
  ASSUME NEW rg \in Region, NEW align \in Nat \ {0}, NEW k \in Nat, k * align >= rg.next
  PROVE  k * align >= place(rg, align) /\ \E j \in 0 .. place(rg, align) : place(rg, align) = j * align
<1>. DEFINE n == rg.next
            q == (n + align - 1) \div align
<1>1. n \in Nat /\ k * align >= n
  BY DEF Region
<1>. HIDE DEF n
<1>2. q \in Nat /\ q * align \in Nat /\ q * align <= n + align - 1
  BY <1>1
<1>3. place(rg, align) = q * align
  BY DEF place, n
<1>. HIDE DEF q
<1>4. q * align < k * align + align
  BY <1>1, <1>2
<1>5. q < k + 1
  <2>1. k * align + align = (k + 1) * align
    OBVIOUS
  <2>. QED  BY <1>2, <1>4, <2>1
<1>6. q * align <= k * align
  BY <1>2, <1>5
<1>7. q <= q * align
  BY <1>2
<1>. QED  BY <1>2, <1>3, <1>6, <1>7

\* What is in flight lies inside the region.
LEMMA InFlightInside ==
  ASSUME IInv, NEW s \in InFlightDesc
  PROVE  s \in Span /\ s.lo \in Nat /\ s.hi \in Nat /\ s.lo < s.hi /\ s.hi <= Size["desc"]
<1>1. PICK b \in live : s \in b.desc
  BY DEF InFlightDesc
<1>2. Within(Desc, s)
  BY <1>1 DEF IInv, LiveSafe, Safe, SafeAt, SpansOf, Regions, Desc
<1>. QED  BY <1>2 DEF Within, Span, IInv, TypeOK, Regions, Desc

\* A step that puts nothing in flight keeps everything apart, wherever it
\* leaves the allocation point and whatever it leaves to be delivered.
LEMMA ApartKept ==
  ASSUME IInv, SpansApart, live' \subseteq live, chain' \subseteq chain,
         host.job # "chain" \/ UNCHANGED host,
         \A s \in InFlightDesc : s.hi <= Desc'.next \/ s.lo >= Desc'.next,
         \/ Desc'.dirty.hi = Desc'.dirty.lo \/ host'.job = "rebase"
         \/ host.job # "rebase" /\ Desc'.dirty = Desc.dirty /\ Desc'.next = Desc.next,
         host'.job = "deliver" =>
           /\ reserved' = host'.chain_upto /\ Aligned(host'.src.lo)
           /\ \A s \in InFlightDesc : Disjoint(s, host'.src),
         host'.job = "launch" => host'.off = place(Desc', Align["desc"])
  PROVE  SpansApart'
<1>1. InFlightDesc' \subseteq InFlightDesc
  BY DEF InFlightDesc
<1>2. LiveSpansDisjoint'
  BY DEF SpansApart, LiveSpansDisjoint, Delivers, Disjoint
<1>3. HandApart'
  BY DEF SpansApart, HandApart, Aligned, Disjoint, DeliversHand
<1>4. DirtyApart'
  BY <1>1 DEF SpansApart, DirtyApart, Aligned, Disjoint
<1>5. NoneStraddles'
  BY <1>1 DEF SpansApart, NoneStraddles, Aligned
<1>. QED  BY <1>2, <1>3, <1>4, <1>5 DEF SpansApart

\* A step of a batch past its wait: its command buffer is clear of all others,
\* and what it reads of the descriptors is apart from what is in flight.
LEMMA ApartSubmitted ==
  ASSUME IInv, SpansApart, NEW value \in Nat, NEW ds \in SUBSET Span,
         host.job \in {"batch", "deliver", "chain"}, sem_reached(host.want),
         SubmitBatch(value, ds), chain' \subseteq chain,
         Desc'.next = Desc.next, Desc'.dirty = Desc.dirty,
         \A t \in ds : Aligned(t.lo) /\ t.hi <= Desc.next,
         \A t \in ds, b \in live : \A s \in b.desc :
            Disjoint(s, t) \/ (b.queue = "copy" /\ b.upto = value + 1),
         Desc.dirty.hi = Desc.dirty.lo \/ ds = {},
         host'.job \notin {"deliver", "launch"},
         chain' # {} => /\ host'.job = "chain" /\ host.job = "deliver" /\ host.queue = "copy"
                        /\ value = host'.chain_upto + 1
  PROVE  SpansApart'
<1>. DEFINE new == [queue |-> host.queue, upto |-> value, after |-> q_last[host.queue],
                    cmd |-> SpanAt(host.off, host.bytes), desc |-> ds]
<1>1. live' = live \union {new}
  BY DEF SubmitBatch
<1>2. /\ new.queue = host.queue /\ new.upto = value /\ new.desc = ds
      /\ new.cmd = SpanAt(host.off, host.bytes)
  OBVIOUS
<1>. HIDE DEF new
<1>3. \A b \in live : Disjoint(b.cmd, new.cmd)
  BY <1>2, TakenSafe DEF Allocating, HostRegion, SpansOf
<1>4. InFlightDesc' = InFlightDesc \cup ds
  BY <1>1, <1>2 DEF InFlightDesc
<1>5. LiveSpansDisjoint'
  <2>. SUFFICES ASSUME NEW b \in live', NEW c \in live', b # c
                PROVE  /\ Disjoint(b.cmd, c.cmd)
                       /\ \A s \in b.desc, t \in c.desc :
                            Disjoint(s, t) \/ Delivers(b, c) \/ Delivers(c, b)
    BY DEF LiveSpansDisjoint, Disjoint, Delivers
  <2>1. CASE b \in live /\ c \in live
    BY <2>1 DEF SpansApart, LiveSpansDisjoint
  <2>2. CASE b \in live /\ c = new
    BY <1>2, <1>3, <2>2 DEF Delivers, Disjoint
  <2>3. CASE b = new /\ c \in live
    BY <1>2, <1>3, <2>3 DEF Delivers, Disjoint
  <2>. QED  BY <1>1, <2>1, <2>2, <2>3
<1>6. HandApart'
  <2>1. ASSUME NEW t \in chain', NEW b \in live', NEW s \in b.desc
        PROVE  Disjoint(s, t) \/ DeliversHand(b)'
    <3>1. CASE b \in live
      BY <3>1, <2>1 DEF SpansApart, HandApart, DeliversHand
    <3>2. CASE b = new
      BY <1>2, <2>1, <3>2 DEF DeliversHand
    <3>. QED  BY <1>1, <3>1, <3>2
  <2>. QED  BY <2>1 DEF SpansApart, HandApart, Aligned, Disjoint
<1>7. DirtyApart'
  BY <1>4 DEF SpansApart, DirtyApart, Aligned, Disjoint
<1>8. NoneStraddles'
  BY <1>4 DEF SpansApart, NoneStraddles, Aligned
<1>. QED  BY <1>5, <1>6, <1>7, <1>8 DEF SpansApart

\* What an allocation of one region leaves of the descriptor region
LEMMA EnterLeaves ==
  ASSUME NEW rgs \in [Regions -> Region], NEW r \in Regions, NEW h \in HostState,
         EnterAt(rgs, r, h)
  PROVE  /\ Desc'.next = rgs["desc"].next /\ Desc'.dirty = rgs["desc"].dirty
         /\ host'.job = h.job /\ host'.src = h.src /\ host'.chain_upto = h.chain_upto
         /\ r = "desc" => host'.off = place(Desc', Align["desc"])
<1>. DEFINE off == place(rgs[r], Align[r])
            rh == enter(rgs[r], off, h.bytes)
<1>1. region' = [rgs EXCEPT ![r] = rh] /\ \E want : host' = [h EXCEPT !.off = off, !.want = want]
  BY DEF EnterAt
<1>2. rgs[r] \in Region
  OBVIOUS
<1>3. rh.next = rgs[r].next /\ rh.dirty = rgs[r].dirty /\ rh.size = rgs[r].size
  BY <1>2 DEF enter, Region
<1>4. host'.job = h.job /\ host'.src = h.src /\ host'.chain_upto = h.chain_upto /\ host'.off = off
  BY <1>1 DEF HostState
<1>. HIDE DEF rh
<1>5. /\ "desc" \in Regions /\ region'["desc"] = IF r = "desc" THEN rh ELSE rgs["desc"]
  BY <1>1 DEF Regions
<1>6. r = "desc" => place(Desc', Align["desc"]) = off
  BY <1>3, <1>5 DEF place, Desc
<1>. QED  BY <1>3, <1>4, <1>5, <1>6 DEF Desc

\* A command buffer leaves the descriptor region as it was.
LEMMA CmdLeaves ==
  ASSUME NEW rgs \in [Regions -> Region], NEW h \in HostState, CmdSpace(rgs, h)
  PROVE  /\ Desc'.next = rgs["desc"].next /\ Desc'.dirty = rgs["desc"].dirty
         /\ host'.job = h.job /\ host'.src = h.src /\ host'.chain_upto = h.chain_upto
<1>. DEFINE mid == [rgs EXCEPT !["cmd"] = rewind(rgs["cmd"])]
<1>1. "cmd" \in Regions /\ "desc" \in Regions /\ rgs["cmd"] \in Region
  BY DEF Regions
<1>2. rewind(rgs["cmd"]) \in Region
  BY <1>1 DEF rewind, Region, NoSpan, Span
<1>3. mid \in [Regions -> Region] /\ mid["desc"] = rgs["desc"]
  BY <1>1, <1>2
<1>4. EnterAt(rgs, "cmd", h) \/ EnterAt(mid, "cmd", h)
  BY DEF CmdSpace
<1>. HIDE DEF mid
<1>. QED  BY <1>1, <1>3, <1>4, EnterLeaves

\* A launch that comes round starts again from the bottom, with nothing in hand.
LEMMA ComeRoundApart ==
  ASSUME IInv, SpansApart, NEW rgs \in [Regions -> Region], NEW n \in Requests["desc"],
         ComeRound(rgs, n), live' \subseteq live, chain' = {}, host.job # "chain"
  PROVE  SpansApart'
<1>. DEFINE mid == [rgs EXCEPT !["desc"] = rewind(rgs["desc"])]
            h == [NoHost EXCEPT !.job = "launch", !.bytes = n]
<1>1. "desc" \in Regions /\ rgs["desc"] \in Region /\ n \in Nat \ {0}
  BY ScratchAssumption DEF Regions
<1>2. rewind(rgs["desc"]) \in Region /\ rewind(rgs["desc"]).next = 0 /\ rewind(rgs["desc"]).dirty = NoSpan
  BY <1>1 DEF rewind, Region, NoSpan, Span
<1>3. mid \in [Regions -> Region] /\ mid["desc"] = rewind(rgs["desc"])
  BY <1>1, <1>2
<1>4. \/ region' = mid /\ host' = NoHost
      \/ EnterAt(mid, "desc", h)
  BY DEF ComeRound
<1>5. h \in HostState /\ h.job = "launch" /\ NoHost.job = "none"
  BY <1>1, LaunchRequest DEF NoHost
<1>. HIDE DEF mid, h
<1>6. /\ Desc'.next = 0 /\ Desc'.dirty = NoSpan /\ host'.job \in {"none", "launch"}
      /\ host'.job = "launch" => host'.off = place(Desc', Align["desc"])
  <2>1. CASE region' = mid /\ host' = NoHost
    BY <1>2, <1>3, <1>5, <2>1 DEF Desc
  <2>2. CASE EnterAt(mid, "desc", h)
    BY <1>1, <1>2, <1>3, <1>5, <2>2, EnterLeaves
  <2>. QED  BY <1>4, <2>1, <2>2
<1>7. \A s \in InFlightDesc : s.lo >= Desc'.next
  BY <1>6, InFlightInside
<1>8. Desc'.dirty.hi = Desc'.dirty.lo
  BY <1>6 DEF NoSpan
<1>. QED  BY <1>6, <1>7, <1>8, ApartKept

\* Launches, up to where they wait
LEMMA AsksApart ==
  ASSUME IInv, SpansApart, NEW n \in Requests["desc"],
         LaunchFits(n) \/ LaunchWraps(n) \/ LaunchRebases(n)
  PROVE  SpansApart'
<1>0. n \in Nat \ {0} /\ "desc" \in Regions /\ "cmd" \in Regions
  BY ScratchAssumption DEF Regions
<1>1. /\ AskedRegion \in [Regions -> Region] /\ AskedRegion["cmd"] = region["cmd"]
      /\ RegionOK(AskedRegion["desc"])
      /\ AskedRegion["desc"].size = Size["desc"] /\ AskedRegion["desc"].dirty = Desc.dirty
  BY AskedOK DEF IInv, Desc
<1>2. host.job = "none" /\ live' = live /\ chain' = chain
  BY DEF LaunchFits, LaunchWraps, LaunchRebases, Asks, hostVars
<1>3. push_shadow(AskedRegion) = AskedRegion
  BY <1>1, PushNothing DEF IInv, RegionsOK
<1>4. Size["desc"] \in Nat \ {0} /\ \A s \in InFlightDesc : s.hi <= Size["desc"]
  BY <1>0, ScratchAssumption, InFlightInside
<1>5. CASE LaunchFits(n)
  <2>. DEFINE h == [NoHost EXCEPT !.job = "launch", !.bytes = n]
  <2>1. h \in HostState /\ h.job = "launch"
    BY <1>0, LaunchRequest DEF NoHost
  <2>2. EnterAt(AskedRegion, "desc", h) /\ ~ wraps(AskedRegion["desc"], n, Align["desc"])
    BY <1>5 DEF LaunchFits
  <2>. HIDE DEF h
  \* A region declared full never has room
  <2>3. ~ DeclaresFull
    <3>1. SUFFICES ASSUME DeclaresFull PROVE FALSE
      OBVIOUS
    <3>2. AskedRegion["desc"].next = Size["desc"] /\ AskedRegion["desc"] \in Region
      BY <1>0, <1>1, <3>1 DEF AskedRegion, IInv, TypeOK, Region
    <3>3. /\ place(AskedRegion["desc"], Align["desc"]) \in Nat
          /\ place(AskedRegion["desc"], Align["desc"]) >= Size["desc"]
      BY <1>0, <3>2, PlaceAbove, ScratchAssumption
    <3>. QED  BY <1>0, <1>1, <1>4, <2>2, <3>3 DEF wraps
  <2>4. AskedRegion = region
    BY <2>3 DEF AskedRegion
  <2>5. /\ Desc'.next = Desc.next /\ Desc'.dirty = Desc.dirty
        /\ host'.job = "launch" /\ host'.off = place(Desc', Align["desc"])
    BY <1>0, <1>1, <2>1, <2>2, <2>4, EnterLeaves DEF Desc
  <2>6. \A s \in InFlightDesc : s.hi <= Desc'.next \/ s.lo >= Desc'.next
    BY <2>5 DEF SpansApart, NoneStraddles
  <2>. QED  BY <1>2, <2>5, <2>6, ApartKept
<1>6. CASE LaunchWraps(n)
  BY <1>1, <1>2, <1>3, <1>6, ComeRoundApart DEF LaunchWraps
<1>7. CASE LaunchRebases(n)
  <2>1. region' = AskedRegion /\ host'.job = "rebase"
    BY <1>3, <1>7 DEF LaunchRebases, NoHost
  <2>2. \A s \in InFlightDesc : s.hi <= Desc'.next \/ s.lo >= Desc'.next
    <3>1. CASE DeclaresFull
      <4>1. Desc'.next = Size["desc"]
        BY <1>0, <2>1, <3>1 DEF AskedRegion, IInv, TypeOK, Region, Desc
      <4>. QED  BY <1>4, <4>1
    <3>2. CASE ~ DeclaresFull
      BY <2>1, <3>2 DEF AskedRegion, SpansApart, NoneStraddles, Desc
    <3>. QED  BY <3>1, <3>2
  <2>. QED  BY <1>2, <2>1, <2>2, ApartKept
<1>. QED  BY <1>5, <1>6, <1>7

\* A launch that has its bytes: the span still to be delivered grows over the
\* gap below them, where nothing in flight can start.
LEMMA TakesApart ==
  ASSUME IInv, SpansApart, TakeLaunch \/ AbandonLaunch
  PROVE  SpansApart'
<1>. DEFINE new == SpanAt(host.off, host.bytes)
            top == host.off + host.bytes
            old == Desc.dirty
<1>1. /\ host.job = "launch" /\ sem_reached(host.want) /\ host' = NoHost /\ NoHost.job = "none"
      /\ region' = [region EXCEPT !["desc"] = take(region["desc"], host.off, host.bytes)]
      /\ live' = live /\ chain' \subseteq chain \cup {new}
  BY DEF TakeLaunch, AbandonLaunch, NoHost
<1>2. /\ "desc" \in Regions /\ region \in [Regions -> Region] /\ Desc \in Region /\ Desc.next \in Nat
      /\ old \in Span /\ old.lo \in Nat /\ old.hi \in Nat /\ Align["desc"] \in Nat \ {0}
  BY ScratchAssumption DEF IInv, TypeOK, Regions, Region, Span, Desc
<1>3. /\ Desc'.next = top /\ Desc'.dirty = widen(old, host.off, top)
      /\ host.off \in Nat /\ host.bytes \in Nat \ {0} /\ host.off >= Desc.next
      /\ \A s \in InFlightDesc : Disjoint(s, new)
  <2>1. Allocating /\ HostRegion = "desc"
    BY <1>1 DEF Allocating, HostRegion
  <2>2. Desc' = take(region["desc"], host.off, host.bytes)
    BY <1>1, <1>2 DEF Desc
  <2>. QED  BY <1>1, <2>1, <2>2, TakenSafe DEF SpansOf, InFlightDesc, Desc
<1>4. new.lo = host.off /\ new.hi = top
  BY DEF SpanAt
<1>. HIDE DEF new, top
<1>5. top \in Nat /\ top > host.off
  BY <1>3 DEF top
<1>6. Aligned(host.off)
  <2>1. host.off = place(Desc, Align["desc"])
    BY <1>1 DEF SpansApart, NoneStraddles
  <2>2. Desc.next * Align["desc"] >= Desc.next
    BY <1>2
  <2>. QED  BY <1>2, <2>1, <2>2, PlaceLeast DEF Aligned
\* Nothing in flight starts between the allocation point and the bytes taken
<1>7. \A s \in InFlightDesc : s.hi <= Desc.next \/ s.lo >= top
  <2>. SUFFICES ASSUME NEW s \in InFlightDesc, ~ (s.hi <= Desc.next)
                PROVE  s.lo >= top
    OBVIOUS
  <2>1. s.lo \in Nat /\ s.hi \in Nat /\ s.lo < s.hi
    BY InFlightInside
  <2>2. Aligned(s.lo) /\ s.lo >= Desc.next /\ host.off = place(Desc, Align["desc"])
    BY <1>1 DEF SpansApart, NoneStraddles
  <2>3. s.lo >= host.off
    BY <1>2, <2>1, <2>2, PlaceLeast DEF Aligned
  <2>. QED  BY <1>3, <1>4, <1>5, <2>1, <2>3 DEF Disjoint
<1>8. InFlightDesc' = InFlightDesc
  BY <1>1 DEF InFlightDesc
<1>9. LiveSpansDisjoint'
  BY <1>1 DEF SpansApart, LiveSpansDisjoint, Delivers, Disjoint
<1>10. HandApart'
  <2>1. ASSUME NEW t \in chain' PROVE Aligned(t.lo)
    BY <1>1, <1>4, <1>6, <2>1 DEF SpansApart, HandApart
  <2>2. ASSUME NEW t \in chain', NEW b \in live, NEW s \in b.desc PROVE Disjoint(s, t)
    <3>1. CASE t = new
      BY <1>3, <3>1 DEF InFlightDesc
    <3>2. CASE t \in chain
      BY <1>1, <3>2 DEF SpansApart, HandApart, DeliversHand
    <3>. QED  BY <1>1, <3>1, <3>2
  <2>. QED  BY <1>1, <2>1, <2>2 DEF HandApart, Aligned, Disjoint
<1>11. DirtyApart'
  <2>1. CASE old.hi = old.lo
    <3>1. Desc'.dirty = [lo |-> host.off, hi |-> top]
      BY <1>3, <2>1 DEF widen
    <3>. QED  BY <1>1, <1>3, <1>4, <1>5, <1>6, <1>8, <3>1 DEF DirtyApart, Aligned, Disjoint
  <2>2. CASE old.hi # old.lo
    <3>1. /\ old.hi = Desc.next /\ old.lo < old.hi /\ Aligned(old.lo)
          /\ \A s \in InFlightDesc : Disjoint(s, old)
      BY <1>1, <2>2 DEF SpansApart, DirtyApart
    <3>2. Desc'.dirty = [lo |-> old.lo, hi |-> top]
      BY <1>2, <1>3, <1>5, <2>2, <3>1 DEF widen
    <3>3. \A s \in InFlightDesc : Disjoint(s, Desc'.dirty)
      <4>. SUFFICES ASSUME NEW s \in InFlightDesc PROVE s.hi <= old.lo \/ top <= s.lo
        BY <3>2 DEF Disjoint
      <4>1. s.lo \in Nat /\ s.hi \in Nat /\ s.lo < s.hi
        BY InFlightInside
      <4>2. s.hi <= Desc.next \/ s.lo >= top
        BY <1>7
      <4>. QED  BY <1>2, <1>5, <3>1, <4>1, <4>2 DEF Disjoint
    <3>4. Desc'.dirty.lo = old.lo /\ Desc'.dirty.hi = top /\ old.lo < top
      BY <1>2, <1>3, <1>5, <3>1, <3>2
    <3>. QED  BY <1>1, <1>3, <1>8, <3>1, <3>3, <3>4 DEF DirtyApart, Aligned, Disjoint
  <2>. QED  BY <2>1, <2>2
<1>12. NoneStraddles'
  <2>1. ASSUME NEW s \in InFlightDesc PROVE s.hi <= top \/ s.lo >= top
    <3>1. s.hi \in Nat
      BY InFlightInside
    <3>. QED  BY <1>2, <1>3, <1>5, <1>7, <3>1
  <2>. QED  BY <1>1, <1>3, <1>8, <2>1 DEF SpansApart, NoneStraddles, Aligned
<1>. QED  BY <1>9, <1>10, <1>11, <1>12 DEF SpansApart

\* A batch or a flush that asks for its first command buffer
LEMMA BeginsApart ==
  ASSUME IInv, SpansApart, NEW n \in Requests["cmd"],
         (\E q \in Queues : BatchBegin(q, n)) \/ FlushByCopy(n) \/ FlushByPatches(n)
  PROVE  SpansApart'
<1>1. /\ host.job = "none" /\ live' = live /\ chain' = chain /\ reserved' = reserved
      /\ host.job # "rebase"
  BY DEF BatchBegin, FlushByCopy, FlushByPatches, hostVars
<1>2. /\ n \in Nat /\ NoHost \in HostState /\ region \in [Regions -> Region]
      /\ reserved \in Nat /\ Desc.dirty \in Span /\ "desc" \in Regions
  BY ScratchAssumption DEF Regions, NoHost, HostState, Jobs, Queues, Span, NoSpan, IInv, TypeOK,
     Region, Desc
<1>3. \A s \in InFlightDesc : s.hi <= Desc.next \/ s.lo >= Desc.next
  BY DEF SpansApart, NoneStraddles
<1>4. ASSUME NEW q \in Queues, BatchBegin(q, n) PROVE SpansApart'
  <2>. DEFINE h == [NoHost EXCEPT !.job = "batch", !.queue = q, !.bytes = n]
  <2>1. h \in HostState /\ h.job = "batch" /\ CmdSpace(region, h)
    BY <1>2, <1>4 DEF BatchBegin, HostState, Jobs
  <2>. HIDE DEF h
  <2>2. Desc'.next = Desc.next /\ Desc'.dirty = Desc.dirty /\ host'.job = "batch"
    BY <1>2, <2>1, CmdLeaves DEF Desc
  <2>. QED  BY <1>1, <1>3, <2>2, ApartKept
<1>5. CASE chain # {} /\ (FlushByCopy(n) \/ FlushByPatches(n))
  <2>. DEFINE hd == [NoHost EXCEPT !.job = "deliver", !.queue = "copy", !.bytes = n,
                                   !.src = Desc.dirty, !.chain_upto = reserved]
              hc == [NoHost EXCEPT !.job = "chain", !.bytes = n, !.chain_upto = reserved]
              src == Desc.dirty
  <2>1. CmdSpace(Delivered, hd) \/ CmdSpace(Delivered, hc)
    BY <1>5 DEF FlushByCopy, FlushByPatches, Desc
  <2>2. hd \in HostState /\ hc \in HostState /\ hd.job = "deliver" /\ hd.src = src
        /\ hd.chain_upto = reserved /\ hc.job = "chain"
    <3>1. hd \in HostState /\ hc \in HostState
      <4>. HIDE DEF Desc
      <4>. QED  BY <1>2 DEF HostState, Jobs, Queues
    <3>. QED  BY <3>1 DEF NoHost
  <2>. HIDE DEF hd, hc
  <2>3. /\ Delivered \in [Regions -> Region] /\ Delivered["desc"].dirty = NoSpan
        /\ Within(Delivered["desc"], src)
    <3>1. UNCHANGED <<slot, live, wrapped, chain, reserved, q_last, after_stall, abandoned>>
      BY <1>5 DEF FlushByCopy, FlushByPatches, hostVars
    <3>. QED  BY <1>1, <1>5, <3>1, DeliveredReady DEF Ready, Sound, Desc
  <2>4. Delivered["desc"].next = Desc.next
    <3>1. Desc \in Region
      BY <1>2 DEF Desc
    <3>. QED  BY <1>2, <3>1 DEF Delivered, mark, Desc, Region
  <2>. HIDE DEF src
  <2>5. /\ Desc'.next = Desc.next /\ Desc'.dirty = NoSpan
        /\ \/ host'.job = "chain"
           \/ host'.job = "deliver" /\ host'.src = src /\ host'.chain_upto = reserved
    BY <2>1, <2>2, <2>3, <2>4, CmdLeaves
  <2>6. src.lo \in Nat /\ src.hi \in Nat /\ src.lo < src.hi
    BY <2>3 DEF Within, Span
  <2>7. Aligned(src.lo) /\ \A s \in InFlightDesc : Disjoint(s, src)
    BY <1>1, <2>6 DEF SpansApart, DirtyApart, src
  <2>8. Desc'.dirty.hi = Desc'.dirty.lo
    BY <2>5 DEF NoSpan
  <2>. QED  BY <1>1, <1>3, <2>5, <2>7, <2>8, ApartKept
<1>. QED  BY <1>4, <1>5 DEF FlushByCopy, FlushByPatches

\* A submission leaves the descriptor region's books but for the record.
LEMMA SubmitLeaves ==
  ASSUME IInv, NEW value \in Nat
  PROVE  LET rd == Submit(Taken, value)["desc"] IN
         rd.next = Desc.next /\ rd.dirty = Desc.dirty
<1>1. /\ region \in [Regions -> Region] /\ "desc" \in Regions /\ "cmd" \in Regions
      /\ "desc" # "cmd" /\ Desc \in Region /\ Desc = region["desc"]
  BY DEF IInv, TypeOK, Regions, Desc
<1>2. Submit(Taken, value)["desc"] = submitted(Desc, value)
  BY <1>1 DEF Submit, Taken, push_shadow
<1>3. /\ submitted(Desc, value).next = Desc.next
      /\ submitted(Desc, value).dirty = Desc.dirty
  BY <1>1 DEF submitted, mark, Region
<1>. QED  BY <1>2, <1>3

\* Batches past their wait
LEMMA SubmitsApart ==
  ASSUME IInv, SpansApart,
         BatchSubmit \/ ChainSubmit \/ \E n \in Requests["cmd"] : DeliverSubmit(n)
  PROVE  SpansApart'
<1>1. /\ sem_reached(host.want) /\ reserved \in Nat /\ host \in HostState /\ chain \in SUBSET Span
  BY DEF BatchSubmit, ChainSubmit, DeliverSubmit, BeginsOn, IInv, TypeOK
<1>2. NoHost.job = "none"
  BY DEF NoHost
<1>3. CASE BatchSubmit
  <2>1. /\ SubmitBatch(reserved + 1, {}) /\ region' = Submit(Taken, reserved + 1)
        /\ host' = NoHost /\ chain' = chain /\ host.job = "batch" /\ chain = {}
    BY <1>3 DEF BatchSubmit, IInv, HostOK
  <2>2. Desc'.next = Desc.next /\ Desc'.dirty = Desc.dirty
    BY <1>1, <2>1, SubmitLeaves DEF Desc
  <2>3. PICK value \in Nat : SubmitBatch(value, {})
    BY <1>1, <2>1
  <2>4. chain' = {} /\ host'.job = "none" /\ {} \in SUBSET Span
    BY <1>2, <2>1
  <2>. QED  BY <1>1, <2>1, <2>2, <2>3, <2>4, ApartSubmitted
<1>4. CASE ChainSubmit
  <2>1. /\ SubmitBatch(host.chain_upto, chain) /\ region' = Submit(Taken, host.chain_upto)
        /\ host' = NoHost /\ chain' = {} /\ host.job = "chain" /\ InFlush
        /\ host.chain_upto \in Nat
    BY <1>1, <1>4 DEF ChainSubmit, InFlush, HostState
  <2>2. Desc'.next = Desc.next /\ Desc'.dirty = Desc.dirty
    BY <2>1, SubmitLeaves DEF Desc
  <2>3. /\ Desc.dirty = NoSpan
        /\ \A t \in chain : Aligned(t.lo) /\ t.hi <= Desc.next
        /\ \A t \in chain, b \in live : \A s \in b.desc :
             Disjoint(s, t) \/ (b.queue = "copy" /\ b.upto = host.chain_upto + 1)
    BY <2>1 DEF IInv, RegionsOK, ChainOK, SpansApart, HandApart, DeliversHand, Desc
  <2>. QED  BY <1>1, <1>2, <2>1, <2>2, <2>3, ApartSubmitted DEF NoSpan
<1>5. ASSUME NEW n \in Requests["cmd"], DeliverSubmit(n) PROVE SpansApart'
  <2>. DEFINE rgs == Submit(Taken, reserved + 1)
              upto == host.chain_upto
              h == [NoHost EXCEPT !.job = "chain", !.bytes = n, !.chain_upto = upto]
              src == host.src
  <2>1. /\ SubmitBatch(reserved + 1, {src}) /\ chain' = chain /\ CmdSpace(rgs, h)
        /\ host.job = "deliver" /\ host.queue = "copy" /\ InFlush
        /\ upto \in Nat /\ src \in Span
    BY <1>1, <1>5 DEF DeliverSubmit, InFlush, IInv, HostOK, HostState
  <2>2. h \in HostState /\ h.job = "chain" /\ h.chain_upto = upto
    <3>1. n \in Nat /\ NoHost \in HostState
      BY ScratchAssumption DEF Regions, NoHost, HostState, Jobs, Queues, Span, NoSpan
    <3>. QED  BY <2>1, <3>1 DEF HostState, Jobs
  <2>3. rgs \in [Regions -> Region]
    <3>1. /\ region \in [Regions -> Region] /\ "desc" \in Regions /\ "cmd" \in Regions
          /\ RegionOK(take(region["cmd"], host.off, host.bytes))
      BY <1>1, <2>1, TakenSafe DEF IInv, TypeOK, Regions, Allocating, HostRegion
    <3>2. /\ submitted(take(region["cmd"], host.off, host.bytes), reserved + 1) \in Region
          /\ submitted(region["desc"], reserved + 1) \in Region
      BY <1>1, <3>1, SubmittedOK DEF RegionOK, IInv, RegionsOK
    <3>3. \A rg \in Region : [rg EXCEPT !.dirty = NoSpan] \in Region
      BY DEF Region, NoSpan, Span
    <3>. QED  BY <3>1, <3>2, <3>3 DEF Submit, Taken, push_shadow
  <2>. HIDE DEF h
  <2>4. /\ Desc'.next = Desc.next /\ Desc'.dirty = Desc.dirty
        /\ host'.job = "chain" /\ host'.chain_upto = upto
    <3>1. rgs["desc"].next = Desc.next /\ rgs["desc"].dirty = Desc.dirty
      BY <1>1, SubmitLeaves
    <3>. HIDE DEF rgs
    <3>. QED  BY <2>1, <2>2, <2>3, <3>1, CmdLeaves
  <2>5. /\ Desc.dirty = NoSpan /\ src.hi <= Desc.next /\ reserved = upto /\ Aligned(src.lo)
        /\ \A s \in InFlightDesc : Disjoint(s, src)
    BY <2>1 DEF IInv, RegionsOK, ChainOK, SpansApart, DirtyApart, Desc
  <2>6. \A b \in live : \A s \in b.desc : Disjoint(s, src)
    BY <2>5 DEF InFlightDesc
  <2>. HIDE DEF rgs, upto, src
  <2>. QED  BY <1>1, <2>1, <2>4, <2>5, <2>6, ApartSubmitted DEF NoSpan
<1>. QED  BY <1>3, <1>4, <1>5

\* No two batches in flight share scratch, but a delivery and the chain it
\* delivers: no delivery overwrites descriptors another chain may be reading,
\* however its span was padded (tinynv_exec_flush).
THEOREM ScratchSpansDisjoint == Spec => []LiveSpansDisjoint
<1>1. Init => SpansApart
  <2>. SUFFICES ASSUME Init PROVE SpansApart
    OBVIOUS
  <2>1. live = {} /\ chain = {} /\ host.job = "none" /\ Desc.dirty.hi = Desc.dirty.lo
    BY DEF Init, NoHost, Desc, EmptyRegion, NoSpan, Regions
  <2>. QED  BY <2>1 DEF SpansApart, LiveSpansDisjoint, HandApart, DirtyApart, NoneStraddles, InFlightDesc
<1>2. ASSUME IInv, SpansApart, [Next]_vars PROVE SpansApart'
  <2>1. CASE Launch
    <3>1. ASSUME Rebase PROVE SpansApart'
      <4>. DEFINE rgs == [region EXCEPT !["desc"].seg_value = [i \in Pieces |-> 0],
                                        !["cmd"].seg_value = [i \in Pieces |-> 0]]
      <4>1. /\ ComeRound(rgs, host.bytes) /\ host.job = "rebase" /\ chain' = chain /\ live' = live
            /\ chain = {} /\ host.bytes \in Requests["desc"] /\ region \in [Regions -> Region]
        BY <1>2, <3>1 DEF Rebase, IInv, HostOK, TypeOK
      <4>2. rgs \in [Regions -> Region]
        <5>1. \A rg \in Region : [rg EXCEPT !.seg_value = [i \in Pieces |-> 0]] \in Region
          BY DEF Region
        <5>. QED  BY <4>1, <5>1
      <4>. HIDE DEF rgs
      <4>. QED  BY <1>2, <4>1, <4>2, ComeRoundApart
    <3>. QED  BY <1>2, <2>1, <3>1, AsksApart, TakesApart DEF Launch
  <2>2. CASE Flush
    BY <1>2, <2>2, BeginsApart, SubmitsApart DEF Flush
  <2>3. CASE Other
    <3>1. ASSUME Idle PROVE SpansApart'
      BY <1>2, <3>1 DEF Idle, SpansApart, LiveSpansDisjoint, HandApart, DirtyApart, NoneStraddles,
         InFlightDesc, DeliversHand, Delivers, Aligned, Disjoint, Desc
    <3>. QED  BY <1>2, <2>3, <3>1, BeginsApart, SubmitsApart DEF Other
  <2>4. CASE \E b \in live : Retire(b)
    <3>1. live' \subseteq live /\ UNCHANGED <<region, host, chain, reserved>>
      BY <2>4 DEF Retire, hostVars
    <3>. QED  BY <1>2, <3>1 DEF SpansApart, LiveSpansDisjoint, HandApart, DirtyApart, NoneStraddles,
         InFlightDesc, DeliversHand, Delivers, Aligned, Disjoint, Desc
  <2>5. CASE UNCHANGED vars
    BY <1>2, <2>5 DEF vars, hostVars, SpansApart, LiveSpansDisjoint, HandApart, DirtyApart,
       NoneStraddles, InFlightDesc, DeliversHand, Delivers, Aligned, Disjoint, Desc
  <2>. QED  BY <1>2, <2>1, <2>2, <2>3, <2>4, <2>5 DEF Next
<1>3. SpansApart => LiveSpansDisjoint
  BY DEF SpansApart
<1>. QED  BY <1>1, <1>2, <1>3, ScratchInvariant, PTL DEF Spec
=============================================================================
