--------------------------- MODULE DeliveryProofs ---------------------------
(***************************************************************************)
(* The record of what was delivered is what video memory will hold, and a  *)
(* chain reads what was built, for any region, any launches, any mix of    *)
(* patches and copies in flight, except in cells nothing was ever sent to. *)
(*                                                                         *)
(* The argument: what is built and not delivered is one run of cells that  *)
(* ends where the next launch goes (DirtyRun), no batch in flight has to   *)
(* do with it (Apart), and every other cell of the shadow is as recorded   *)
(* (BuiltDiffers).  So a flush changes the mirror and the record only      *)
(* where no copy in flight reads, and what it does not patch is right.     *)
(***************************************************************************)
EXTENDS Delivery, SequenceTheorems, TLAPS

\* The patches of a chain, and what its launches built: contents of some cells
Parts == {<<>>} \union UNION {[cells -> Values] : cells \in SUBSET Cells}

BatchOK(b) ==
    /\ b.kind \in {"copy", "chain"} /\ b.span \subseteq Cells
    /\ DOMAIN b.patch \subseteq b.span /\ DOMAIN b.built \subseteq b.span
    /\ b.kind = "copy" => DOMAIN b.built = {}
    /\ \A c \in DOMAIN b.patch : b.patch[c] \in Values

Batches == [kind : {"copy", "chain"}, span : SUBSET Cells, patch : Parts, built : Parts]

WorkOK == work \in Seq(Batches) /\ \A i \in 1 .. Len(work) : BatchOK(work[i])

DirtyRun == dirty = {} \/ \E a \in Nat : dirty = a .. next - 1
Apart == \A i \in 1 .. Len(work) : work[i].span \cap dirty = {}
BuiltDiffers ==
    /\ UNION chain \subseteq dirty
    /\ \A c \in Cells : c \notin UNION chain => shadow[c] = last_delivered[c]

\* What a cell holds once the first n batches of w have run over a video memory,
\* the copies among them out of a mirror
BringsFrom(m, b, c) == IF b.kind = "copy" THEN m[c] ELSE b.patch[c]
SettlesIn(w, m, vid, n, c, v) ==
    \/ Records(v, vid[c]) /\ \A j \in 1 .. n : ~ Writes(w[j], c)
    \/ \E i \in 1 .. n :
          /\ Writes(w[i], c) /\ BringsFrom(m, w[i], c) = v
          /\ \A j \in i + 1 .. n : ~ Writes(w[j], c)
Settles(n, c, v) == SettlesIn(work, mirror, video, n, c, v)

\* It ends as recorded, and a chain finds what was built
RecordHolds == \A c \in Cells : Settles(Len(work), c, last_delivered[c])
ChainsFind ==
    \A i \in 1 .. Len(work) : \A c \in DOMAIN work[i].built : Settles(i, c, work[i].built[c])

LInv ==
    /\ DeliveryTypeOK /\ WorkOK /\ DirtyRun /\ Apart /\ BuiltDiffers
    /\ RecordHolds /\ ChainsFind

-----------------------------------------------------------------------------
\* What settles stays when batches of the same kind stay, ...
LEMMA SettlesSame ==
    ASSUME NEW w, NEW m, NEW vid, NEW n \in Nat, NEW c, NEW v, SettlesIn(w, m, vid, n, c, v),
           NEW w2, NEW m2, \A i \in 1 .. n : w2[i] = w[i],
           \A i \in 1 .. n : Writes(w[i], c) /\ w[i].kind = "copy" => m2[c] = m[c]
    PROVE  SettlesIn(w2, m2, vid, n, c, v)
<1>1. CASE Records(v, vid[c]) /\ \A j \in 1 .. n : ~ Writes(w[j], c)
    BY <1>1 DEF SettlesIn
<1>2. ASSUME NEW i \in 1 .. n, Writes(w[i], c), BringsFrom(m, w[i], c) = v,
             \A j \in i + 1 .. n : ~ Writes(w[j], c)
      PROVE  SettlesIn(w2, m2, vid, n, c, v)
  <2>1. Writes(w2[i], c) /\ BringsFrom(m2, w2[i], c) = v
      BY <1>2 DEF BringsFrom
  <2>2. \A j \in i + 1 .. n : j \in 1 .. n
      OBVIOUS
  <2>3. \A j \in i + 1 .. n : ~ Writes(w2[j], c)
      BY <1>2, <2>2
  <2> QED BY <2>1, <2>3 DEF SettlesIn
<1> QED BY <1>1, <1>2 DEF SettlesIn

\* ... past a batch that does not write the cell, ...
LEMMA SettlesPast ==
    ASSUME NEW w, NEW m, NEW vid, NEW n \in Nat, NEW c, NEW v, SettlesIn(w, m, vid, n, c, v),
           ~ Writes(w[n + 1], c)
    PROVE  SettlesIn(w, m, vid, n + 1, c, v)
<1>1. \A j : j \in 1 .. n + 1 <=> (j \in 1 .. n \/ j = n + 1)
    OBVIOUS
<1>2. \A i \in 1 .. n : \A j : j \in i + 1 .. n + 1 => (j \in i + 1 .. n \/ j = n + 1)
    OBVIOUS
<1>3. CASE Records(v, vid[c]) /\ \A j \in 1 .. n : ~ Writes(w[j], c)
    BY <1>1, <1>3 DEF SettlesIn
<1>4. ASSUME NEW i \in 1 .. n, Writes(w[i], c), BringsFrom(m, w[i], c) = v,
             \A j \in i + 1 .. n : ~ Writes(w[j], c)
      PROVE  SettlesIn(w, m, vid, n + 1, c, v)
    BY <1>1, <1>2, <1>4 DEF SettlesIn
<1> QED BY <1>3, <1>4 DEF SettlesIn

\* ... and is what the last batch leaves where it does.
LEMMA SettlesLast ==
    ASSUME NEW w, NEW m, NEW vid, NEW n \in Nat, NEW c, Writes(w[n + 1], c)
    PROVE  SettlesIn(w, m, vid, n + 1, c, BringsFrom(m, w[n + 1], c))
<1>1. n + 1 \in 1 .. n + 1 /\ \A j : j \notin (n + 1) + 1 .. n + 1
    OBVIOUS
<1> QED BY <1>1 DEF SettlesIn

\* After the oldest batch has run, there is one batch fewer to wait for.
LEMMA SettlesRun ==
    ASSUME NEW w, NEW m, NEW vid, NEW n \in Nat, NEW c, NEW v, SettlesIn(w, m, vid, n + 1, c, v),
           NEW w2, \A i \in 1 .. n : w2[i] = w[i + 1],
           NEW vid2, vid2[c] = IF Writes(w[1], c) THEN BringsFrom(m, w[1], c) ELSE vid[c]
    PROVE  SettlesIn(w2, m, vid2, n, c, v)
<1>1. 1 \in 1 .. n + 1 /\ \A j \in 1 .. n : j + 1 \in 1 .. n + 1 /\ j + 1 \in 1 + 1 .. n + 1
    OBVIOUS
<1>2. CASE Records(v, vid[c]) /\ \A j \in 1 .. n + 1 : ~ Writes(w[j], c)
  <2>1. vid2[c] = vid[c]
      BY <1>1, <1>2
  <2> QED BY <1>1, <1>2, <2>1 DEF SettlesIn
<1>3. ASSUME NEW i \in 1 .. n + 1, Writes(w[i], c), BringsFrom(m, w[i], c) = v,
             \A j \in i + 1 .. n + 1 : ~ Writes(w[j], c)
      PROVE  SettlesIn(w2, m, vid2, n, c, v)
  <2>1. CASE i = 1
    <3>1. \A j \in 1 .. n : ~ Writes(w2[j], c)
        BY <1>1, <1>3, <2>1
    <3>2. Records(v, vid2[c])
        BY <1>3, <2>1 DEF Records
    <3> QED BY <3>1, <3>2 DEF SettlesIn
  <2>2. CASE i # 1
    <3>1. i - 1 \in 1 .. n /\ (i - 1) + 1 = i
        BY <2>2
    <3>2. \A j \in (i - 1) + 1 .. n : j \in 1 .. n /\ j + 1 \in i + 1 .. n + 1
        BY <3>1
    <3>3. Writes(w2[i - 1], c) /\ BringsFrom(m, w2[i - 1], c) = v
        BY <1>3, <3>1
    <3>4. \A j \in (i - 1) + 1 .. n : ~ Writes(w2[j], c)
        BY <1>3, <3>2
    <3> QED BY <3>1, <3>3, <3>4 DEF SettlesIn
  <2> QED BY <2>1, <2>2
<1> QED BY <1>2, <1>3 DEF SettlesIn

\* What settles at the end is what the model calls After.
LEMMA SettlesIsAfter ==
    ASSUME WorkOK, NEW c, NEW v, Settles(Len(work), c, v)
    PROVE  Records(v, After(c))
<1>1. DOMAIN work = 1 .. Len(work) /\ Len(work) \in Nat
    BY DEF WorkOK
<1> DEFINE ws == {i \in DOMAIN work : Writes(work[i], c)}
<1>2. CASE Records(v, video[c]) /\ \A j \in 1 .. Len(work) : ~ Writes(work[j], c)
  <2>1. ws = {}
      BY <1>1, <1>2
  <2> QED BY <1>2, <2>1 DEF After
<1>3. ASSUME NEW i \in 1 .. Len(work), Writes(work[i], c), BringsFrom(mirror, work[i], c) = v,
             \A j \in i + 1 .. Len(work) : ~ Writes(work[j], c)
      PROVE  Records(v, After(c))
  <2>1. i \in ws /\ ws # {}
      BY <1>1, <1>3
  <2>2. \A j \in ws : i >= j
    <3>1. ASSUME NEW j \in ws, j > i PROVE FALSE
      <4>1. j \in i + 1 .. Len(work) /\ Writes(work[j], c)
          BY <1>1, <3>1
      <4> QED BY <1>3, <4>1
    <3> QED BY <1>1, <3>1
  <2>3. \A k \in ws : (\A j \in ws : k >= j) => k = i
      BY <1>1, <2>1, <2>2
  <2> HIDE DEF ws
  <2>4. Max(ws) = i
      BY <2>1, <2>2, <2>3 DEF Max
  <2> QED BY <1>3, <2>1, <2>4 DEF After, Brings, BringsFrom, Records, ws
<1> QED BY <1>2, <1>3 DEF Settles, SettlesIn

-----------------------------------------------------------------------------
\* The steps of the host before a flush.
LEMMA Typed ==
    ASSUME LInv
    PROVE  /\ next \in 0 .. Size /\ dirty \subseteq Cells /\ wrapped \in BOOLEAN /\ after_stall \in BOOLEAN
           /\ shadow \in [Cells -> Values] /\ last_delivered \in [Cells -> Values]
           /\ mirror \in [Cells -> Values] /\ video \in [Cells -> Values \union {Unwritten}]
           /\ \A l \in chain : l \subseteq Cells
           /\ work \in Seq(Batches) /\ Len(work) \in Nat /\ DOMAIN work = 1 .. Len(work)
           /\ \A i \in 1 .. Len(work) : BatchOK(work[i])
           /\ Size \in Nat /\ Size > 0
BY DeliveryAssumption DEF LInv, DeliveryTypeOK, WorkOK, Contents

\* What batches settle stays while they, the copies and video memory do.
LEMMA SameWork ==
    ASSUME LInv, UNCHANGED <<last_delivered, mirror, video, work>>
    PROVE  WorkOK' /\ RecordHolds' /\ ChainsFind'
BY DEF LInv, WorkOK, RecordHolds, ChainsFind, Settles

LEMMA TakeExtends ==
    ASSUME LInv, NEW n \in Launches, NEW off \in Cells, Place(n, off), TakeCells(off, n)
    PROVE  /\ dirty' = dirty \union At(off, n) /\ At(off, n) \subseteq Cells /\ dirty' \subseteq Cells
           /\ next' \in 0 .. Size /\ wrapped' \in BOOLEAN /\ after_stall' \in BOOLEAN
           /\ DirtyRun'
           /\ \A i \in 1 .. Len(work) : work[i].span \cap dirty' = {}
<1>1. /\ n \in 1 .. Size /\ off \in 0 .. Size - 1 /\ off \in Nat /\ Size \in Nat
      /\ dirty \subseteq Cells /\ next \in 0 .. Size /\ DOMAIN work = 1 .. Len(work)
    BY Typed, DeliveryAssumption DEF Cells
<1>2. /\ off + n <= Size /\ (dirty = {} \/ off = next) /\ wrapped' \in BOOLEAN
  <2>1. CASE fits(n) /\ off = next /\ UNCHANGED wrapped
      BY <2>1, Typed DEF fits
  <2>2. CASE ~ fits(n) /\ chain = {} /\ dirty = {} /\ off = 0 /\ wrapped' = TRUE
      BY <1>1, <2>2
  <2> QED BY <2>1, <2>2 DEF Place
<1>3. At(off, n) \subseteq Cells
    BY <1>1, <1>2 DEF At, Cells
<1>4. PICK a \in Nat : dirty \union At(off, n) = a .. (off + n) - 1
  <2>1. CASE dirty = {}
      BY <1>1, <2>1 DEF At
  <2>2. CASE dirty # {}
    <3>1. PICK a \in Nat : dirty = a .. next - 1
        BY <2>2 DEF LInv, DirtyRun
    <3>2. off = next /\ a <= next
        BY <1>1, <1>2, <2>2, <3>1
    <3>3. dirty \union At(off, n) = a .. (off + n) - 1
        BY <1>1, <3>1, <3>2 DEF At
    <3> QED BY <3>3
  <2> QED BY <2>1, <2>2
<1>5. Hull(dirty \union At(off, n)) = dirty \union At(off, n)
  <2> DEFINE D == dirty \union At(off, n)
  <2>1. D \subseteq Cells /\ D = a .. (off + n) - 1 /\ \A c \in Cells : c \in Int
      BY <1>1, <1>3, <1>4 DEF Cells
  <2> HIDE DEF D
  <2>2. ASSUME NEW c \in Cells, NEW x \in D, NEW y \in D, x <= c, c <= y PROVE c \in D
    <3>1. c \in Int /\ x \in Int /\ y \in Int /\ a <= x /\ y <= (off + n) - 1
        BY <2>1
    <3> QED BY <1>1, <2>1, <2>2, <3>1
  <2>3. D \subseteq Hull(D)
      BY <2>1 DEF Hull
  <2> QED BY <2>2, <2>3 DEF D, Hull
<1>6. dirty' = dirty \union At(off, n) /\ next' = off + n /\ after_stall' \in BOOLEAN
    BY <1>5, Typed DEF TakeCells
<1>7. \A i \in 1 .. Len(work) : work[i].span \cap dirty' = {}
  <2>1. \A i \in 1 .. Len(work) : work[i].span \subseteq InUse
      BY <1>1 DEF InUse
  <2>2. At(off, n) \cap InUse = {}
      BY DEF TakeCells
  <2> QED BY <1>6, <2>1, <2>2 DEF LInv, Apart
<1>8. DirtyRun' /\ next' \in 0 .. Size
    BY <1>1, <1>2, <1>4, <1>6 DEF DirtyRun
<1> QED BY <1>1, <1>2, <1>3, <1>6, <1>7, <1>8

LEMMA LaunchKeeps ==
    ASSUME LInv, NEW n \in Launches, Launch(n)
    PROVE  LInv'
<1>1. PICK off \in Cells :
          /\ Place(n, off) /\ TakeCells(off, n)
          /\ \E content \in [At(off, n) -> Values] :
               shadow' = [c \in Cells |-> IF c \in At(off, n) THEN content[c] ELSE shadow[c]]
          /\ chain' = chain \union {At(off, n)}
          /\ UNCHANGED <<last_delivered, mirror, video, work>>
    BY DEF Launch
<1>1b. PICK content \in [At(off, n) -> Values] :
          shadow' = [c \in Cells |-> IF c \in At(off, n) THEN content[c] ELSE shadow[c]]
    BY <1>1
<1>2. /\ dirty' = dirty \union At(off, n) /\ At(off, n) \subseteq Cells /\ dirty' \subseteq Cells
      /\ next' \in 0 .. Size /\ wrapped' \in BOOLEAN /\ after_stall' \in BOOLEAN /\ DirtyRun'
      /\ \A i \in 1 .. Len(work) : work[i].span \cap dirty' = {}
    BY <1>1, TakeExtends
<1>3. shadow' \in [Cells -> Values] /\ \A c \in Cells : c \notin At(off, n) => shadow'[c] = shadow[c]
    BY <1>1b, Typed
<1>4. DeliveryTypeOK'
    BY <1>1, <1>2, <1>3 DEF LInv, DeliveryTypeOK, Contents
<1>5. BuiltDiffers'
    BY <1>1, <1>2, <1>3 DEF LInv, BuiltDiffers
<1>6. Apart'
    BY <1>1, <1>2 DEF Apart
<1> QED BY <1>1, <1>2, <1>4, <1>5, <1>6, SameWork DEF LInv

LEMMA AbandonKeeps ==
    ASSUME LInv, NEW n \in Launches, Abandon(n)
    PROVE  LInv'
<1>1. PICK off \in Cells : Place(n, off) /\ TakeCells(off, n) /\ UNCHANGED <<copies, chain, work>>
    BY DEF Abandon
<1>2. UNCHANGED <<shadow, last_delivered, mirror, video, chain, work>>
    BY <1>1 DEF copies
<1>3. /\ dirty' = dirty \union At(off, n) /\ dirty' \subseteq Cells
      /\ next' \in 0 .. Size /\ wrapped' \in BOOLEAN /\ after_stall' \in BOOLEAN /\ DirtyRun'
      /\ \A i \in 1 .. Len(work) : work[i].span \cap dirty' = {}
    BY <1>1, TakeExtends
<1>4. DeliveryTypeOK' /\ Apart' /\ BuiltDiffers'
    BY <1>2, <1>3 DEF LInv, DeliveryTypeOK, Contents, Apart, BuiltDiffers
<1> QED BY <1>2, <1>3, <1>4, SameWork DEF LInv

LEMMA RewindRefusedKeeps ==
    ASSUME LInv, NEW n \in Launches, RewindRefused(n)
    PROVE  LInv'
<1>1. /\ chain = {} /\ next' = 0 /\ dirty' = {}
      /\ UNCHANGED <<wrapped, shadow, last_delivered, mirror, video, chain, after_stall, work>>
    BY DEF RewindRefused, copies
<1>2. DeliveryTypeOK' /\ Apart' /\ BuiltDiffers' /\ DirtyRun'
    BY <1>1, Typed DEF LInv, DeliveryTypeOK, Contents, Apart, BuiltDiffers, DirtyRun
<1> QED BY <1>1, <1>2, SameWork DEF LInv

LEMMA IdleKeeps ==
    ASSUME LInv, Idle \/ UNCHANGED deliveryVars
    PROVE  LInv'
<1>1. /\ UNCHANGED <<next, dirty, wrapped, shadow, last_delivered, mirror, video, chain, work>>
      /\ after_stall' \in BOOLEAN
    BY Typed DEF Idle, deliveryVars, copies
<1>2. DeliveryTypeOK' /\ Apart' /\ BuiltDiffers' /\ DirtyRun'
    BY <1>1 DEF LInv, DeliveryTypeOK, Contents, Apart, BuiltDiffers, DirtyRun
<1> QED BY <1>1, <1>2, SameWork DEF LInv

-----------------------------------------------------------------------------
\* The engines' step, and what it does to a cell.
LEMMA RunFinds ==
    ASSUME LInv, work # <<>>, Run
    PROVE  /\ LInv'
           /\ \A c \in DOMAIN work[1].built : Records(work[1].built[c], video'[c])
<1>1. /\ work' = Tail(work)
      /\ video' = [c \in Cells |-> IF Writes(work[1], c) THEN BringsFrom(mirror, work[1], c) ELSE video[c]]
      /\ UNCHANGED <<next, dirty, wrapped, shadow, last_delivered, mirror, chain, after_stall>>
    BY Typed DEF Run, Brings, BringsFrom
<1>2. PICK n \in Nat : Len(work) = n + 1
  <2>1. Len(work) # 0
      BY Typed
  <2>2. Len(work) - 1 \in Nat /\ Len(work) = (Len(work) - 1) + 1
      BY <2>1, Typed
  <2> QED BY <2>2
<1>3. work' \in Seq(Batches) /\ Len(work') = n /\ \A i \in 1 .. n : work'[i] = work[i + 1] /\ i + 1 \in 1 .. n + 1
    BY <1>1, <1>2, Typed
<1>4. WorkOK' /\ Apart'
    BY <1>1, <1>2, <1>3 DEF LInv, WorkOK, Apart
<1>5. \A c \in Cells : video'[c] \in Values \union {Unwritten}
  <2>1. 1 \in 1 .. n + 1
      OBVIOUS
  <2>2. BatchOK(work[1])
      BY <1>2, <2>1, Typed
  <2> QED BY <1>1, <2>2, Typed DEF BatchOK, Writes, BringsFrom
<1>6. video' \in [Cells -> Values \union {Unwritten}]
    BY <1>1, <1>5
<1>7. DeliveryTypeOK' /\ BuiltDiffers' /\ DirtyRun'
  <2>1. \A i \in DOMAIN work' : work'[i].span \subseteq Cells
    <3>1. DOMAIN work' = 1 .. n
        BY <1>3
    <3> QED BY <1>2, <1>3, <3>1, Typed DEF BatchOK
  <2> QED BY <1>1, <1>6, <2>1 DEF LInv, DeliveryTypeOK, Contents, BuiltDiffers, DirtyRun
<1>8. ASSUME NEW k \in Nat, k <= n, NEW c \in Cells, NEW v, Settles(k + 1, c, v)
      PROVE  SettlesIn(work', mirror, video', k, c, v)
  <2>1. \A i \in 1 .. k : work'[i] = work[i + 1]
      BY <1>3, <1>8
  <2>2. video'[c] = IF Writes(work[1], c) THEN BringsFrom(mirror, work[1], c) ELSE video[c]
      BY <1>1
  <2> QED BY <1>8, <2>1, <2>2, SettlesRun DEF Settles
<1>9. RecordHolds'
  <2>1. \A c \in Cells : SettlesIn(work', mirror, video', n, c, last_delivered[c])
      BY <1>2, <1>8 DEF LInv, RecordHolds
  <2> QED BY <1>1, <1>3, <2>1 DEF RecordHolds, Settles
<1>10. ASSUME NEW i \in 1 .. n + 1, NEW c \in DOMAIN work[i].built
       PROVE  c \in Cells /\ Settles(i, c, work[i].built[c])
    BY <1>2, <1>10, Typed DEF LInv, ChainsFind, BatchOK
<1>11. ChainsFind'
  <2>1. ASSUME NEW i \in 1 .. n, NEW c \in DOMAIN work'[i].built
        PROVE  SettlesIn(work', mirror, video', i, c, work'[i].built[c])
    <3>1. work'[i] = work[i + 1] /\ i + 1 \in 1 .. n + 1 /\ i \in Nat /\ i <= n
        BY <1>3
    <3>2. c \in Cells /\ Settles(i + 1, c, work[i + 1].built[c])
        BY <1>10, <2>1, <3>1
    <3> QED BY <1>8, <3>1, <3>2
  <2> QED BY <1>1, <1>3, <2>1 DEF ChainsFind, Settles
<1>12. ASSUME NEW c \in DOMAIN work[1].built PROVE Records(work[1].built[c], video'[c])
  <2>1. 1 \in 1 .. n + 1 /\ 0 \in Nat /\ 0 <= n /\ 0 + 1 = 1
      OBVIOUS
  <2>2. c \in Cells /\ Settles(0 + 1, c, work[1].built[c])
      BY <1>10, <2>1
  <2>3. SettlesIn(work', mirror, video', 0, c, work[1].built[c])
      BY <1>8, <2>1, <2>2
  <2> QED BY <2>3 DEF SettlesIn
<1> QED BY <1>4, <1>7, <1>9, <1>11, <1>12 DEF LInv

-----------------------------------------------------------------------------
\* A flush.  What both kinds do: the record takes the shadow's cells over what
\* was dirty, and nothing is built.
LEMMA FlushSoft ==
    ASSUME LInv, Recorded, Flushed, UNCHANGED <<next, wrapped, shadow, video>>
    PROVE  /\ last_delivered' \in [Cells -> Values] /\ DirtyRun' /\ BuiltDiffers'
           /\ dirty' = {} /\ chain' = {} /\ after_stall' = FALSE
           /\ \A c \in Cells : last_delivered'[c] = IF c \in dirty THEN shadow[c] ELSE last_delivered[c]
<1>1. /\ last_delivered' = [c \in Cells |-> IF c \in dirty THEN shadow[c] ELSE last_delivered[c]]
      /\ dirty' = {} /\ chain' = {} /\ after_stall' = FALSE
    BY DEF Recorded, Flushed
<1>2. /\ last_delivered' \in [Cells -> Values]
      /\ \A c \in Cells : last_delivered'[c] = IF c \in dirty THEN shadow[c] ELSE last_delivered[c]
    BY <1>1, Typed
<1>3. \A c \in Cells : shadow'[c] = last_delivered'[c]
    BY <1>2 DEF LInv, BuiltDiffers
<1> QED BY <1>1, <1>2, <1>3 DEF DirtyRun, BuiltDiffers

LEMMA BuiltIs ==
    ASSUME LInv
    PROVE  /\ DOMAIN Built = UNION chain /\ UNION chain \subseteq Cells /\ Built \in Parts
           /\ \A c \in UNION chain : Built[c] = shadow[c] /\ c \in dirty
<1>1. UNION chain \subseteq Cells
    BY Typed
<1>2. Built \in [UNION chain -> Values] /\ UNION chain \in SUBSET Cells
    BY <1>1, Typed DEF Built
<1> QED BY <1>1, <1>2 DEF Built, Parts, LInv, BuiltDiffers

\* The batches there are stay; one or two go behind them that have only to do
\* with what was dirty.
LEMMA OldBatches ==
    ASSUME LInv, NEW w, NEW m, \A i \in 1 .. Len(work) : w[i] = work[i],
           \A c \in Cells : c \notin dirty => m[c] = mirror[c]
    PROVE  /\ \A n \in 0 .. Len(work) : \A c \in Cells : \A v :
                 Settles(n, c, v) /\ c \notin dirty => SettlesIn(w, m, video, n, c, v)
           /\ \A i \in 1 .. Len(work) : \A c \in DOMAIN w[i].built :
                 SettlesIn(w, m, video, i, c, w[i].built[c])
<1>1. ASSUME NEW n \in 0 .. Len(work), NEW c \in Cells, NEW v, Settles(n, c, v), c \notin dirty
      PROVE  SettlesIn(w, m, video, n, c, v)
  <2>1. n \in Nat /\ \A i \in 1 .. n : i \in 1 .. Len(work)
      BY Typed
  <2>2. m[c] = mirror[c] /\ \A i \in 1 .. n : w[i] = work[i]
      BY <1>1, <2>1
  <2> QED BY <1>1, <2>1, <2>2, SettlesSame DEF Settles
<1>2. ASSUME NEW i \in 1 .. Len(work), NEW c \in DOMAIN w[i].built
      PROVE  SettlesIn(w, m, video, i, c, w[i].built[c])
  <2>1. w[i] = work[i] /\ BatchOK(work[i]) /\ work[i].span \cap dirty = {} /\ i \in 0 .. Len(work)
      BY Typed DEF LInv, Apart
  <2>2. c \in Cells /\ c \notin dirty
      BY <1>2, <2>1 DEF BatchOK
  <2>3. Settles(i, c, w[i].built[c])
      BY <1>2, <2>1 DEF LInv, ChainsFind
  <2> QED BY <1>1, <2>1, <2>2, <2>3
<1> QED BY <1>1, <1>2

LEMMA PatchesKeep ==
    ASSUME LInv, FlushByPatches
    PROVE  LInv'
<1>1. PICK p \in Patches :
          /\ work' = Append(work, Chain(dirty, [c \in p |-> shadow[c]], Built))
          /\ Recorded /\ Flushed /\ UNCHANGED <<next, wrapped, shadow, mirror, video>>
    BY DEF FlushByPatches
<1>2. p \subseteq UNION chain /\ \A c \in UNION chain : c \notin p => shadow[c] = last_delivered[c]
  <2>1. p \subseteq UNION chain /\ \A l \in chain : Differs(l) \subseteq p
      BY DEF Patches, PatchesOf
  <2> QED BY <2>1 DEF Differs
<1> DEFINE b == Chain(dirty, [c \in p |-> shadow[c]], Built)
           n == Len(work)
<1>3. /\ b.kind = "chain" /\ b.span = dirty /\ b.patch = [c \in p |-> shadow[c]] /\ b.built = Built
      /\ b \in Batches /\ BatchOK(b)
  <2>1. b.kind = "chain" /\ b.span = dirty /\ b.patch = [c \in p |-> shadow[c]] /\ b.built = Built
      BY DEF Chain
  <2>2. p \subseteq dirty /\ p \subseteq Cells /\ dirty \subseteq Cells
      BY <1>2, BuiltIs, Typed
  <2>3. [c \in p |-> shadow[c]] \in Parts
    <3>1. [c \in p |-> shadow[c]] \in [p -> Values] /\ p \in SUBSET Cells
        BY <2>2, Typed
    <3> QED BY <3>1 DEF Parts
  <2>4. b \in Batches
      BY <2>2, <2>3, BuiltIs DEF Batches, Chain
  <2> HIDE DEF b
  <2>5. BatchOK(b)
      BY <2>1, <2>2, BuiltIs, Typed DEF BatchOK
  <2> QED BY <2>1, <2>4, <2>5
<1> HIDE DEF b, n
<1>4. /\ work' \in Seq(Batches) /\ Len(work') = n + 1 /\ n \in Nat /\ n = Len(work)
      /\ work'[n + 1] = b /\ \A i \in 1 .. n : work'[i] = work[i]
    BY <1>1, <1>3, Typed, AppendProperties DEF b, n
<1>5. /\ last_delivered' \in [Cells -> Values] /\ DirtyRun' /\ BuiltDiffers'
      /\ dirty' = {} /\ chain' = {} /\ after_stall' = FALSE
      /\ \A c \in Cells : last_delivered'[c] = IF c \in dirty THEN shadow[c] ELSE last_delivered[c]
    BY <1>1, FlushSoft
<1>6. \A i \in 1 .. n + 1 : i \in 1 .. n \/ i = n + 1
    BY <1>4
<1>7. WorkOK' /\ Apart'
    BY <1>3, <1>4, <1>5, <1>6, Typed DEF WorkOK, Apart
<1>8. DeliveryTypeOK'
  <2>1. DOMAIN work' = 1 .. n + 1
      BY <1>4
  <2>2. \A i \in DOMAIN work' : work'[i].span \subseteq Cells
      BY <1>3, <1>4, <1>6, <2>1, Typed DEF BatchOK
  <2>3. dirty' \subseteq Cells /\ chain' \in SUBSET SUBSET Cells /\ after_stall' \in BOOLEAN
      BY <1>5
  <2> QED BY <1>1, <1>5, <2>2, <2>3 DEF LInv, DeliveryTypeOK, Contents
<1>9. ASSUME NEW c \in Cells PROVE SettlesIn(work', mirror, video, n + 1, c, last_delivered'[c])
  <2>1. Settles(n, c, last_delivered[c])
      BY <1>4 DEF LInv, RecordHolds
  <2>2. SettlesIn(work', mirror, video, n, c, last_delivered[c])
      BY <1>4, <2>1, SettlesSame DEF Settles
  <2>3. CASE c \in p
    <3>1. Writes(work'[n + 1], c) /\ BringsFrom(mirror, work'[n + 1], c) = shadow[c]
        BY <1>3, <1>4, <2>3 DEF Writes, BringsFrom
    <3>2. last_delivered'[c] = shadow[c]
        BY <1>2, <1>5, <2>3, BuiltIs
    <3> QED BY <1>4, <3>1, <3>2, SettlesLast
  <2>4. CASE c \notin p
    <3>1. ~ Writes(work'[n + 1], c)
        BY <1>3, <1>4, <2>4 DEF Writes
    <3>2. last_delivered'[c] = last_delivered[c]
        BY <1>2, <1>5, <2>4 DEF LInv, BuiltDiffers
    <3> QED BY <1>4, <2>2, <3>1, <3>2, SettlesPast
  <2> QED BY <2>3, <2>4
<1>10. RecordHolds'
    BY <1>1, <1>4, <1>9 DEF RecordHolds, Settles
<1>11. ChainsFind'
  <2>1. \A i \in 1 .. n : \A c \in DOMAIN work'[i].built : SettlesIn(work', mirror, video, i, c, work'[i].built[c])
      BY <1>4, OldBatches
  <2>2. ASSUME NEW c \in DOMAIN work'[n + 1].built
        PROVE  SettlesIn(work', mirror, video, n + 1, c, work'[n + 1].built[c])
    <3>1. c \in UNION chain /\ c \in Cells /\ Built[c] = shadow[c] /\ c \in dirty
        BY <1>3, <1>4, <2>2, BuiltIs
    <3>2. last_delivered'[c] = work'[n + 1].built[c]
        BY <1>3, <1>4, <1>5, <3>1
    <3> QED BY <1>9, <3>1, <3>2
  <2>3. \A i \in 1 .. n + 1 : \A c \in DOMAIN work'[i].built : SettlesIn(work', mirror, video, i, c, work'[i].built[c])
      BY <1>6, <2>1, <2>2
  <2> QED BY <1>1, <1>4, <2>3 DEF ChainsFind, Settles
<1> QED BY <1>5, <1>7, <1>8, <1>10, <1>11 DEF LInv

LEMMA CopyKeeps ==
    ASSUME LInv, FlushByCopy
    PROVE  LInv'
<1>1. /\ mirror' = [c \in Cells |-> IF c \in dirty THEN shadow[c] ELSE mirror[c]]
      /\ work' = work \o <<Copying(dirty), Chain(dirty, <<>>, Built)>>
      /\ Recorded /\ Flushed /\ UNCHANGED <<next, wrapped, shadow, video>>
    BY DEF FlushByCopy
<1> DEFINE d == Copying(dirty)
           b == Chain(dirty, <<>>, Built)
           n == Len(work)
<1>2. /\ d.kind = "copy" /\ d.span = dirty /\ DOMAIN d.patch = {} /\ DOMAIN d.built = {}
      /\ b.kind = "chain" /\ b.span = dirty /\ DOMAIN b.patch = {} /\ b.built = Built
      /\ d \in Batches /\ BatchOK(d) /\ b \in Batches /\ BatchOK(b)
  <2>1. /\ d.kind = "copy" /\ d.span = dirty /\ d.patch = <<>> /\ d.built = <<>>
        /\ b.kind = "chain" /\ b.span = dirty /\ b.patch = <<>> /\ b.built = Built
      BY DEF Chain, Copying
  <2>2. <<>> \in Parts /\ Built \in Parts /\ dirty \in SUBSET Cells
      BY BuiltIs, Typed DEF Parts
  <2>3. d \in Batches /\ b \in Batches
      BY <2>2 DEF Batches, Chain, Copying
  <2>4. LET e == <<>> IN DOMAIN e = {}
      OBVIOUS
  <2> HIDE DEF d, b
  <2>5. BatchOK(d) /\ BatchOK(b)
      BY <2>1, <2>2, <2>4, BuiltIs DEF BatchOK
  <2> QED BY <2>1, <2>3, <2>4, <2>5
<1>3. /\ work' \in Seq(Batches) /\ Len(work') = n + 2 /\ n \in Nat /\ n = Len(work)
      /\ \A i \in 1 .. n : work'[i] = work[i]
      /\ work'[n + 1] = d /\ work'[n + 2] = b /\ (n + 1) + 1 = n + 2
  <2>1. work' = work \o <<d, b>>
      BY <1>1
  <2>2. work \in Seq(Batches) /\ n \in Nat /\ n = Len(work)
      BY Typed
  <2>3. d \in Batches /\ b \in Batches
      BY <1>2
  <2> HIDE DEF d, b, n
  <2>4. LET t == <<d, b>> IN t \in Seq(Batches) /\ Len(t) = 2 /\ t[1] = d /\ t[2] = b
      BY <2>3
  <2>5. /\ work \o <<d, b>> \in Seq(Batches) /\ Len(work \o <<d, b>>) = n + 2
        /\ \A i \in 1 .. n : (work \o <<d, b>>)[i] = work[i]
        /\ (work \o <<d, b>>)[n + 1] = d /\ (work \o <<d, b>>)[n + 2] = b
      BY <2>2, <2>4, ConcatProperties
  <2> QED BY <2>1, <2>2, <2>5
<1> HIDE DEF d, b, n
<1>4. /\ last_delivered' \in [Cells -> Values] /\ DirtyRun' /\ BuiltDiffers'
      /\ dirty' = {} /\ chain' = {} /\ after_stall' = FALSE
      /\ \A c \in Cells : last_delivered'[c] = IF c \in dirty THEN shadow[c] ELSE last_delivered[c]
    BY <1>1, FlushSoft
<1>5. mirror' \in [Cells -> Values] /\ \A c \in Cells : mirror'[c] = IF c \in dirty THEN shadow[c] ELSE mirror[c]
    BY <1>1, Typed
<1>6. \A i \in 1 .. n + 2 : i \in 1 .. n \/ i = n + 1 \/ i = n + 2
    BY <1>3
<1>7. WorkOK' /\ Apart'
    BY <1>2, <1>3, <1>4, <1>6, Typed DEF WorkOK, Apart
<1>8. DeliveryTypeOK'
  <2>1. DOMAIN work' = 1 .. n + 2
      BY <1>3
  <2>2. \A i \in DOMAIN work' : work'[i].span \subseteq Cells
      BY <1>2, <1>3, <1>6, <2>1, Typed DEF BatchOK
  <2>3. dirty' \subseteq Cells /\ chain' \in SUBSET SUBSET Cells /\ after_stall' \in BOOLEAN
      BY <1>4
  <2> QED BY <1>1, <1>4, <1>5, <2>2, <2>3 DEF LInv, DeliveryTypeOK, Contents
<1>9. ASSUME NEW c \in Cells PROVE SettlesIn(work', mirror', video, n + 2, c, last_delivered'[c])
  <2>1. ~ Writes(work'[(n + 1) + 1], c)
      BY <1>2, <1>3 DEF Writes
  <2>2. SettlesIn(work', mirror', video, n + 1, c, last_delivered'[c])
    <3>1. CASE c \in dirty
      <4>1. Writes(work'[n + 1], c) /\ BringsFrom(mirror', work'[n + 1], c) = last_delivered'[c]
          BY <1>2, <1>3, <1>4, <1>5, <3>1 DEF Writes, BringsFrom
      <4>2. SettlesIn(work', mirror', video, n + 1, c, BringsFrom(mirror', work'[n + 1], c))
          BY <1>3, <4>1, SettlesLast
      <4> QED BY <4>1, <4>2
    <3>2. CASE c \notin dirty
      <4>1. Settles(n, c, last_delivered[c]) /\ n \in 0 .. Len(work)
          BY <1>3 DEF LInv, RecordHolds
      <4>2. SettlesIn(work', mirror', video, n, c, last_delivered[c])
          BY <1>3, <1>5, <3>2, <4>1, OldBatches
      <4>3. ~ Writes(work'[n + 1], c) /\ last_delivered'[c] = last_delivered[c]
          BY <1>2, <1>3, <1>4, <3>2 DEF Writes
      <4> QED BY <1>3, <4>2, <4>3, SettlesPast
    <3> QED BY <3>1, <3>2
  <2>3. n + 1 \in Nat
      BY <1>3
  <2>4. SettlesIn(work', mirror', video, (n + 1) + 1, c, last_delivered'[c])
      BY <2>1, <2>2, <2>3, SettlesPast
  <2> QED BY <1>3, <2>4
<1>10. RecordHolds'
    BY <1>1, <1>3, <1>9 DEF RecordHolds, Settles
<1>11. ChainsFind'
  <2>1. \A i \in 1 .. n : \A c \in DOMAIN work'[i].built : SettlesIn(work', mirror', video, i, c, work'[i].built[c])
      BY <1>3, <1>5, OldBatches
  <2>2. ASSUME NEW c \in DOMAIN work'[n + 2].built
        PROVE  SettlesIn(work', mirror', video, n + 2, c, work'[n + 2].built[c])
    <3>1. c \in UNION chain /\ c \in Cells /\ Built[c] = shadow[c] /\ c \in dirty
        BY <1>2, <1>3, <2>2, BuiltIs
    <3>2. last_delivered'[c] = work'[n + 2].built[c]
        BY <1>2, <1>3, <1>4, <3>1
    <3> QED BY <1>9, <3>1, <3>2
  <2>3. DOMAIN work'[n + 1].built = {}
      BY <1>2, <1>3
  <2>4. \A i \in 1 .. n + 2 : \A c \in DOMAIN work'[i].built : SettlesIn(work', mirror', video, i, c, work'[i].built[c])
      BY <1>6, <2>1, <2>2, <2>3
  <2> QED BY <1>1, <1>3, <2>4 DEF ChainsFind, Settles
<1> QED BY <1>4, <1>7, <1>8, <1>10, <1>11 DEF LInv

-----------------------------------------------------------------------------
LEMMA InitLInv ==
    ASSUME DeliveryInit
    PROVE  LInv
<1>1. /\ next = 0 /\ dirty = {} /\ wrapped = FALSE /\ chain = {} /\ after_stall = FALSE /\ work = <<>>
      /\ shadow = [c \in Cells |-> 0] /\ last_delivered = [c \in Cells |-> 0] /\ mirror = [c \in Cells |-> 0]
      /\ video = [c \in Cells |-> Unwritten]
    BY DEF DeliveryInit
<1>2. Len(work) = 0 /\ work \in Seq(Batches) /\ DOMAIN work = {}
    BY <1>1
<1>3. DeliveryTypeOK
  <2>1. shadow \in Contents /\ last_delivered \in Contents /\ mirror \in Contents
      BY <1>1, DeliveryAssumption DEF Contents
  <2>2. 0 \in 0 .. Size
      BY DeliveryAssumption
  <2> QED BY <1>1, <1>2, <2>1, <2>2 DEF DeliveryTypeOK
<1>4. WorkOK /\ DirtyRun /\ Apart /\ BuiltDiffers /\ ChainsFind
    BY <1>1, <1>2 DEF WorkOK, DirtyRun, Apart, BuiltDiffers, ChainsFind
<1>5. RecordHolds
    BY <1>1, <1>2 DEF Records, RecordHolds, Settles, SettlesIn
<1> QED BY <1>3, <1>4, <1>5 DEF LInv

LEMMA NextLInv ==
    ASSUME LInv, [DeliveryNext]_deliveryVars
    PROVE  /\ LInv'
           /\ work # <<>> /\ work' = Tail(work) =>
                \A c \in DOMAIN work[1].built : Records(work[1].built[c], video'[c])
<1>1. ASSUME UNCHANGED work, work # <<>>, work' = Tail(work) PROVE FALSE
  <2>1. Len(work) # 0 /\ Len(Tail(work)) = Len(work) - 1
      BY <1>1, Typed
  <2> QED BY <1>1, <2>1, Typed
<1>2. CASE UNCHANGED deliveryVars
    BY <1>1, <1>2, IdleKeeps DEF deliveryVars
<1>3. ASSUME NEW n \in Launches, Launch(n) PROVE LInv' /\ UNCHANGED work
    BY <1>3, LaunchKeeps DEF Launch
<1>4. ASSUME NEW n \in Launches, Abandon(n) PROVE LInv' /\ UNCHANGED work
    BY <1>4, AbandonKeeps DEF Abandon
<1>5. ASSUME NEW n \in Launches, RewindRefused(n) PROVE LInv' /\ UNCHANGED work
    BY <1>5, RewindRefusedKeeps DEF RewindRefused
<1>6. CASE Idle
    BY <1>1, <1>6, IdleKeeps DEF Idle
<1>7. CASE Run
    BY <1>7, RunFinds DEF Run
<1>8. CASE FlushByPatches
  <2>1. Len(work') = Len(work) + 1
    <3>1. PICK e : work' = Append(work, e)
        BY <1>8 DEF FlushByPatches
    <3> QED BY <3>1, Typed
  <2>2. ~ (work # <<>> /\ work' = Tail(work))
    <3>1. SUFFICES ASSUME work # <<>>, work' = Tail(work) PROVE FALSE
        OBVIOUS
    <3>2. Len(Tail(work)) = Len(work) - 1 /\ Len(work) \in Nat
        BY <3>1, Typed
    <3> QED BY <2>1, <3>1, <3>2
  <2> QED BY <1>8, <2>2, PatchesKeep
<1>9. CASE FlushByCopy
  <2>1. Len(work') = Len(work) + 2
    <3>1. PICK e, f : work' = work \o <<e, f>>
        BY <1>9 DEF FlushByCopy
    <3> QED BY <3>1, Typed
  <2>2. ~ (work # <<>> /\ work' = Tail(work))
    <3>1. SUFFICES ASSUME work # <<>>, work' = Tail(work) PROVE FALSE
        OBVIOUS
    <3>2. Len(Tail(work)) = Len(work) - 1 /\ Len(work) \in Nat
        BY <3>1, Typed
    <3> QED BY <2>1, <3>1, <3>2
  <2> QED BY <1>9, <2>2, CopyKeeps
<1> QED BY <1>1, <1>2, <1>3, <1>4, <1>5, <1>6, <1>7, <1>8, <1>9 DEF DeliveryNext

\* The invariant of the four copies of a descriptor (tinynv_exec_flush).
THEOREM DeliveryInvariant == DeliverySpec => []LInv
<1>1. DeliveryInit => LInv
    BY InitLInv
<1>2. LInv /\ [DeliveryNext]_deliveryVars => LInv'
    BY NextLInv
<1> QED BY <1>1, <1>2, PTL DEF DeliverySpec

\* last_delivered is at all times what video memory will hold once the work in
\* flight has run, or zero in a cell no batch will have written (the skip of
\* tinynv_exec_flush).
THEOREM DeliveryRecordHonest == DeliverySpec => []LastDeliveredHonest
<1>1. LInv => LastDeliveredHonest
    BY SettlesIsAfter DEF LInv, RecordHolds, LastDeliveredHonest
<1> QED BY <1>1, DeliveryInvariant, PTL

\* A chain that runs finds in every cell of its launches what they built,
\* patched, copied or left as it was; but a zero built where no batch has ever
\* written may be missing.
THEOREM DeliveryReadsBuilt == DeliverySpec => EngineReadsWhatWasBuilt
<1>1. LInv /\ [DeliveryNext]_deliveryVars =>
        [work # <<>> /\ work' = Tail(work) =>
            LET built == Head(work).built IN
            \A c \in DOMAIN built : Records(built[c], video'[c])]_deliveryVars
  <2>1. SUFFICES ASSUME LInv, [DeliveryNext]_deliveryVars, work # <<>>, work' = Tail(work)
                 PROVE  \A c \in DOMAIN Head(work).built : Records(Head(work).built[c], video'[c])
      OBVIOUS
  <2>2. Head(work) = work[1]
      BY Typed
  <2> QED BY <2>1, <2>2, NextLInv
<1> QED BY <1>1, DeliveryInvariant, PTL DEF DeliverySpec, EngineReadsWhatWasBuilt
=============================================================================
