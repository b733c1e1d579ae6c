---------------------------- MODULE MemoryProofs ----------------------------
(***************************************************************************)
(* Proofs about PageTable, Memory and GuestMaps.  The walks of the tables  *)
(* are functions defined from their values at smaller arguments, so each   *)
(* is first shown to be what its equation says.  A walk that builds lays   *)
(* leaves side by side over the range it is asked for, each led to the     *)
(* frame that is due there, and takes nothing away from beside it.  From   *)
(* this, every page there is belongs to one buffer, or one mapping of a    *)
(* guest's, and leads where that says.                                     *)
(***************************************************************************)
EXTENDS Memory, GuestMaps, FiniteSetTheorems, SequenceTheorems, WellFoundedInduction, TLAPS

-----------------------------------------------------------------------------
(***************************************************************************)
(* Numbers, and functions defined from their values at smaller arguments.  *)
(***************************************************************************)

LEMMA LeastNumber ==
    ASSUME NEW s \in SUBSET Nat, s # {}
    PROVE  \E x \in s : \A y \in s : x <= y
<1> DEFINE R == {ss \in Nat \X Nat : ss[1] < ss[2]}
<1>1. IsWellFoundedOn(R, Nat)
    BY NatLessThanWellFounded DEF OpToRel
<1> HIDE DEF R
<1>2. PICK x \in s : \A y \in s : ~ (<<y, x>> \in R)
    BY <1>1, WFMin
<1>3. ASSUME NEW y \in s PROVE x <= y
  <2>1. y < x => <<y, x>> \in R
      BY DEF R
  <2> QED BY <1>2, <2>1
<1> QED BY <1>3

LEMMA Times ==
    ASSUME NEW a \in Nat, NEW b \in Nat, NEW c \in Nat
    PROVE  /\ a * b \in Nat /\ a * b = b * a
           /\ (a + b) * c = a * c + b * c
           /\ a <= b => a * c <= b * c
           /\ a < b => a * c + c <= b * c
           /\ c * 1 = c /\ 1 * c = c
    OBVIOUS

LEMMA Divided ==
    ASSUME NEW a \in Nat, NEW g \in Nat \ {0}
    PROVE  /\ a \div g \in Nat /\ (a \div g) * g \in Nat
           /\ (a \div g) * g <= a /\ a < (a \div g) * g + g
    OBVIOUS

\* A function whose value at each argument follows from those at arguments that
\* measure less: there is one.
Settled(D, f, measure, step, k) == \A x \in D : measure[x] < k => f[x] = step[x][f]

\* A step that needs a function's values only where the measure is less
Recurs(D, S, measure, most, step) ==
    /\ S # {} /\ measure \in [D -> Nat] /\ most \in Nat /\ \A x \in D : measure[x] < most
    /\ step \in [D -> [[D -> S] -> S]]
    /\ \A x \in D : \A f, g \in [D -> S] :
           (\A y \in D : measure[y] < measure[x] => f[y] = g[y]) => step[x][f] = step[x][g]

LEMMA Recursive ==
    ASSUME NEW D, NEW S, NEW measure, NEW most, NEW step, Recurs(D, S, measure, most, step)
    PROVE  \E f \in [D -> S] : \A x \in D : f[x] = step[x][f]
<1>1. PICK s0 \in S : TRUE
    BY DEF Recurs
<1>2. /\ measure \in [D -> Nat] /\ most \in Nat /\ \A x \in D : measure[x] < most
      /\ step \in [D -> [[D -> S] -> S]]
    BY DEF Recurs
<1>3. \A x \in D : \A f, g \in [D -> S] :
          (\A y \in D : measure[y] < measure[x] => f[y] = g[y]) => step[x][f] = step[x][g]
    BY DEF Recurs
<1> USE <1>1, <1>2, <1>3
<1> DEFINE Partly(k) == \E f \in [D -> S] : Settled(D, f, measure, step, k)
<1>4. Partly(0)
  <2>1. PICK f : f = [x \in D |-> s0]
      OBVIOUS
  <2>2. f \in [D -> S]
      BY <2>1
  <2>3. \A x \in D : ~ (measure[x] < 0)
      OBVIOUS
  <2> QED BY <2>2, <2>3 DEF Settled
<1>5. ASSUME NEW k \in Nat, Partly(k) PROVE Partly(k + 1)
  <2>1. PICK f \in [D -> S] : Settled(D, f, measure, step, k)
      BY <1>5
  <2>2. PICK g : g = [x \in D |-> IF measure[x] < k THEN f[x] ELSE step[x][f]]
      OBVIOUS
  <2>3. g \in [D -> S]
      BY <2>2
  <2>4. \A x \in D : measure[x] < k => g[x] = f[x]
      BY <2>2
  <2>5. ASSUME NEW x \in D, measure[x] < k + 1 PROVE g[x] = step[x][g]
    <3>1. \A y \in D : measure[y] < measure[x] => f[y] = g[y]
      <4>1. ASSUME NEW y \in D, measure[y] < measure[x] PROVE measure[y] < k
        <5>1. measure[x] \in Nat /\ measure[y] \in Nat
            OBVIOUS
        <5> QED BY <2>5, <4>1, <5>1
      <4> QED BY <2>4, <4>1
    <3>2. step[x][f] = step[x][g]
        BY <2>3, <3>1
    <3>3. g[x] = step[x][f]
        BY <2>1, <2>2 DEF Settled
    <3> QED BY <3>2, <3>3
  <2> QED BY <2>3, <2>5 DEF Settled
<1>6. ASSUME ~ Partly(most) PROVE FALSE
  <2> DEFINE bad == {k \in Nat : ~ Partly(k)}
  <2> HIDE DEF Partly
  <2>1. PICK k \in bad : \A j \in bad : k <= j
      BY <1>6, LeastNumber
  <2>2. k # 0
      BY <1>4
  <2>3. PICK j \in Nat : k = j + 1
    <3>1. k - 1 \in Nat /\ k = (k - 1) + 1
        BY <2>2
    <3> QED BY <3>1
  <2>4. Partly(j)
      BY <2>1, <2>3
  <2> QED BY <1>5, <2>3, <2>4
<1>7. PICK f \in [D -> S] : Settled(D, f, measure, step, most)
    BY <1>6
<1> QED BY <1>7 DEF Settled

-----------------------------------------------------------------------------
(***************************************************************************)
(* Entries: what they span, one inside another or apart.                   *)
(***************************************************************************)

LEMMA CoversOK ==
    /\ Levels \in Nat /\ Levels > 1 /\ VaPages \in Nat /\ VaPages > 0
    /\ \A lv \in 1 .. Levels : Covers[lv] \in Nat /\ Covers[lv] > 0
    /\ Covers[Levels] = 1 /\ 1 \in 1 .. Levels /\ Levels \in 1 .. Levels
    BY PageTableAssumption DEF Levels

LEMMA Divides ==
    ASSUME NEW a \in Nat, NEW c \in Nat \ {0}, a % c = 0
    PROVE  \E k \in Nat : a = k * c
<1>1. a \div c \in Nat /\ a = (a \div c) * c
    OBVIOUS
<1> QED BY <1>1

LEMMA CoversDivide ==
    ASSUME NEW up \in 1 .. Levels, NEW lv \in 1 .. Levels, up <= lv
    PROVE  \E k \in Nat \ {0} : Covers[up] = k * Covers[lv]
<1> DEFINE Div(l) == \E k \in Nat \ {0} : Covers[up] = k * Covers[l]
           bad == {l \in up .. Levels : ~ Div(l)}
<1>1. up \in Nat /\ lv \in Nat
    BY CoversOK
<1>2. SUFFICES ASSUME bad # {} PROVE FALSE
    BY <1>1
<1>3. bad \in SUBSET Nat
    BY <1>1, CoversOK
<1>4. PICK l \in bad : \A j \in bad : l <= j
    BY <1>2, <1>3, LeastNumber
<1>5. Div(up)
  <2>1. Covers[up] = 1 * Covers[up]
      BY CoversOK
  <2> QED BY <2>1
<1>6. PICK j \in Nat : l = j + 1 /\ j \in up .. Levels - 1 /\ j \in 1 .. Levels - 1
  <2>1. l # up
      BY <1>5
  <2>2. l - 1 \in Nat /\ l = (l - 1) + 1 /\ l - 1 \in up .. Levels - 1 /\ l - 1 \in 1 .. Levels - 1
      BY <1>1, <2>1, CoversOK
  <2> QED BY <2>2
<1>7. Div(j)
  <2>1. j \notin bad
      BY <1>4, <1>6
  <2>2. j \in up .. Levels
      BY <1>6, CoversOK
  <2> QED BY <2>1, <2>2
<1>8. PICK k \in Nat \ {0} : Covers[up] = k * Covers[j]
    BY <1>7
<1>9. l \in 1 .. Levels /\ j \in 1 .. Levels
    BY <1>1, <1>6, CoversOK
<1>10. PICK m \in Nat : Covers[j] = m * Covers[l]
  <2>1. Covers[j] % Covers[j + 1] = 0
      BY <1>6, PageTableAssumption DEF Levels
  <2>2. PICK a \in Nat, c \in Nat \ {0} : a = Covers[j] /\ c = Covers[l]
      BY <1>9, CoversOK
  <2>3. a % c = 0
      BY <1>6, <2>1, <2>2
  <2>4. \E m \in Nat : a = m * c
      BY <2>3, Divides
  <2> QED BY <2>2, <2>4
<1>11. m # 0
    BY <1>9, <1>10, CoversOK
<1>12. Covers[up] = (k * m) * Covers[l] /\ k * m \in Nat \ {0}
  <2>1. PICK c \in Nat : c = Covers[l]
      BY <1>9, CoversOK
  <2>2. k * (m * c) = (k * m) * c /\ k * m \in Nat \ {0}
      BY <1>11
  <2> QED BY <1>8, <1>10, <2>1, <2>2
<1> QED BY <1>12

LEMMA CoversAll ==
    ASSUME NEW lv \in 1 .. Levels
    PROVE  \E k \in Nat \ {0} : VaPages = k * Covers[lv]
<1>1. PICK m \in Nat : VaPages = m * Covers[1]
  <2>1. PICK a \in Nat, c \in Nat \ {0} : a = VaPages /\ c = Covers[1]
      BY CoversOK
  <2>2. a % c = 0
      BY <2>1, PageTableAssumption
  <2>3. \E m \in Nat : a = m * c
      BY <2>2, Divides
  <2> QED BY <2>1, <2>3
<1>2. PICK k \in Nat \ {0} : Covers[1] = k * Covers[lv]
    BY CoversOK, CoversDivide
<1>3. PICK c \in Nat : c = Covers[lv] /\ c > 0
    BY CoversOK
<1>4. VaPages = (m * k) * c /\ m * k \in Nat
  <2>1. m * (k * c) = (m * k) * c /\ m * k \in Nat
      OBVIOUS
  <2> QED BY <1>1, <1>2, <1>3, <2>1
<1>5. m * k # 0
    BY <1>3, <1>4, CoversOK
<1> QED BY <1>3, <1>4, <1>5

\* The pages an entry covers
Spans(e, w) == e[2] <= w /\ w < e[2] + Covers[e[1]]

LEMMA EntryAt ==
    ASSUME NEW lv \in 1 .. Levels, NEW va \in 0 .. VaPages - 1
    PROVE  /\ Entry(lv, va) \in Entries /\ Entry(lv, va)[1] = lv /\ Entry(lv, va)[2] \in Nat
           /\ Spans(Entry(lv, va), va) /\ Entry(lv, va)[2] + Covers[lv] <= VaPages
           /\ \E k \in Nat : Entry(lv, va)[2] = k * Covers[lv]
<1>1. PICK c \in Nat \ {0}, n \in Nat : c = Covers[lv] /\ n = VaPages
    BY CoversOK
<1>2. PICK m \in Nat : n = m * c
    BY <1>1, CoversAll
<1>3. PICK v \in Nat : v = va /\ v < n
    BY <1>1
<1>4. PICK k \in Nat : k = v \div c /\ k * c \in Nat /\ k * c <= v /\ v < k * c + c
    BY Divided
<1>5. Entry(lv, va) = <<lv, k * c>>
    BY <1>1, <1>3, <1>4 DEF Entry
<1>6. k * c + c <= n
  <2>1. k < m
    <3>1. m <= k => m * c <= k * c
        BY Times
    <3> QED BY <1>2, <1>3, <1>4, <3>1
  <2> QED BY <1>2, <2>1, Times
<1>7. Entry(lv, va) \in Entries
    BY DEF Entries
<1> QED BY <1>1, <1>3, <1>4, <1>5, <1>6, <1>7 DEF Spans

LEMMA EntryShape ==
    ASSUME NEW e \in Entries
    PROVE  /\ e = <<e[1], e[2]>> /\ e[1] \in 1 .. Levels /\ e[1] \in Nat /\ e[2] \in Nat
           /\ Covers[e[1]] \in Nat /\ Covers[e[1]] > 0
           /\ e[2] + Covers[e[1]] <= VaPages /\ e[2] < VaPages
           /\ \E k \in Nat : e[2] = k * Covers[e[1]]
<1>1. PICK lv \in 1 .. Levels, va \in 0 .. VaPages - 1 : e = Entry(lv, va)
    BY DEF Entries
<1>2. e = <<e[1], e[2]>>
    BY <1>1 DEF Entry
<1>3. /\ e[1] = lv /\ e[2] \in Nat /\ e[2] + Covers[lv] <= VaPages
      /\ \E k \in Nat : e[2] = k * Covers[lv]
    BY <1>1, EntryAt
<1>4. Covers[lv] \in Nat /\ Covers[lv] > 0 /\ VaPages \in Nat /\ lv \in Nat
    BY CoversOK
<1>5. e[2] < VaPages
    BY <1>3, <1>4
<1> QED BY <1>2, <1>3, <1>4, <1>5

\* Of the multiples of a number one is the last not above another number.
LEMMA OneMultiple ==
    ASSUME NEW c \in Nat \ {0}, NEW j \in Nat, NEW k \in Nat, NEW w \in Nat,
           j * c <= w, w < j * c + c, k * c <= w, w < k * c + c
    PROVE  j = k
<1>1. j * c \in Nat /\ k * c \in Nat
    BY Times
<1>2. ASSUME j < k PROVE FALSE
  <2>1. j * c + c <= k * c
      BY <1>2, Times
  <2> QED BY <1>1, <2>1
<1>3. ASSUME k < j PROVE FALSE
  <2>1. k * c + c <= j * c
      BY <1>3, Times
  <2> QED BY <1>1, <2>1
<1> QED BY <1>2, <1>3

LEMMA EntryIs ==
    ASSUME NEW e \in Entries, NEW w \in Nat, Spans(e, w)
    PROVE  w \in 0 .. VaPages - 1 /\ Entry(e[1], w) = e
<1>1. PICK lv \in 1 .. Levels, b \in Nat, c \in Nat \ {0} :
          lv = e[1] /\ b = e[2] /\ c = Covers[lv] /\ e = <<lv, b>> /\ b + c <= VaPages
    BY EntryShape
<1>2. PICK k \in Nat : b = k * c
    BY <1>1, EntryShape
<1>3. b <= w /\ w < b + c
    BY <1>1 DEF Spans
<1>4. w \in 0 .. VaPages - 1
    BY <1>1, <1>3, CoversOK
<1>5. PICK j \in Nat : j = w \div c /\ j * c <= w /\ w < j * c + c
    BY Divided
<1>6. j = k
    BY <1>2, <1>3, <1>5, OneMultiple
<1>7. Entry(lv, w) = <<lv, j * c>>
    BY <1>1, <1>5 DEF Entry
<1> QED BY <1>1, <1>2, <1>4, <1>6, <1>7

\* An entry that shares a page with one further up lies inside it.
LEMMA Nested ==
    ASSUME NEW e \in Entries, NEW f \in Entries, e[1] <= f[1], NEW w \in Nat,
           Spans(e, w), Spans(f, w)
    PROVE  /\ e[2] <= f[2] /\ f[2] + Covers[f[1]] <= e[2] + Covers[e[1]]
           /\ Covers[f[1]] <= Covers[e[1]]
<1>1. PICK b \in Nat, c \in Nat \ {0} : b = e[2] /\ c = Covers[e[1]]
    BY EntryShape
<1>2. PICK g \in Nat, d \in Nat \ {0} : g = f[2] /\ d = Covers[f[1]]
    BY EntryShape
<1>3. PICK i \in Nat : b = i * c
    BY <1>1, EntryShape
<1>4. PICK j \in Nat : g = j * d
    BY <1>2, EntryShape
<1>5. PICK k \in Nat \ {0} : c = k * d
  <2>1. e[1] \in 1 .. Levels /\ f[1] \in 1 .. Levels
      BY EntryShape
  <2> QED BY <1>1, <1>2, <2>1, CoversDivide
<1>6. b <= w /\ w < b + c /\ g <= w /\ w < g + d
    BY <1>1, <1>2 DEF Spans
<1>7. PICK m \in Nat : m = i * k /\ b = m * d /\ b + c = (m + k) * d
  <2>1. i * k \in Nat /\ i * (k * d) = (i * k) * d
      BY Times
  <2>2. (i * k) * d + k * d = (i * k + k) * d
      BY <2>1, Times
  <2> QED BY <1>3, <1>5, <2>1, <2>2
<1>8. m <= j
  <2>1. SUFFICES ASSUME j < m PROVE FALSE
      OBVIOUS
  <2>2. j * d + d <= m * d
      BY <2>1, Times
  <2> QED BY <1>4, <1>6, <1>7, <2>2
<1>9. j < m + k
  <2>1. SUFFICES ASSUME m + k <= j PROVE FALSE
      OBVIOUS
  <2>2. (m + k) * d <= j * d
      BY <2>1, Times
  <2> QED BY <1>4, <1>6, <1>7, <2>2
<1>10. m * d <= j * d
    BY <1>8, Times
<1>11. j * d + d <= (m + k) * d
    BY <1>9, Times
<1>12. d <= k * d
  <2>1. 1 <= k
      OBVIOUS
  <2>2. 1 * d <= k * d
      BY <2>1, Times
  <2> QED BY <2>2
<1> QED BY <1>1, <1>2, <1>4, <1>5, <1>7, <1>10, <1>11, <1>12

LEMMA SameEntry ==
    ASSUME NEW e \in Entries, NEW f \in Entries, e[1] = f[1], NEW w \in Nat,
           Spans(e, w), Spans(f, w)
    PROVE  e = f
    BY EntryIs

LEMMA SpansFirst ==
    ASSUME NEW e \in Entries
    PROVE  Spans(e, e[2])
    BY EntryShape DEF Spans

LEMMA BelowIs ==
    ASSUME NEW e \in Entries
    PROVE  \A b : b \in Below(e) <=> b \in Entries /\ b[1] > e[1] /\ Spans(e, b[2])
<1>1. ASSUME NEW b \in Entries PROVE Entry(e[1], b[2]) = e <=> Spans(e, b[2])
  <2>1. b[2] \in Nat /\ b[2] \in 0 .. VaPages - 1
      BY EntryShape, CoversOK
  <2>2. e[1] \in 1 .. Levels
      BY EntryShape
  <2>3. Spans(Entry(e[1], b[2]), b[2])
      BY <2>1, <2>2, EntryAt
  <2> QED BY <2>1, <2>3, EntryIs
<1> QED BY <1>1 DEF Below

\* What an entry is below spans all it spans.
LEMMA BelowSpans ==
    ASSUME NEW e \in Entries, NEW b \in Below(e), NEW w \in Nat, Spans(b, w)
    PROVE  Spans(e, w) /\ b \in Entries
<1>1. b \in Entries /\ b[1] > e[1] /\ Spans(e, b[2])
    BY BelowIs
<1>2. Spans(b, b[2]) /\ b[2] \in Nat /\ e[1] \in Nat /\ b[1] \in Nat
    BY <1>1, SpansFirst, EntryShape
<1>3. e[2] <= b[2] /\ b[2] + Covers[b[1]] <= e[2] + Covers[e[1]]
    BY <1>1, <1>2, Nested
<1>4. /\ e[2] \in Nat /\ Covers[e[1]] \in Nat
      /\ b[2] \in Nat /\ Covers[b[1]] \in Nat
    BY <1>1, EntryShape
<1> QED BY <1>1, <1>3, <1>4 DEF Spans

LEMMA BelowOnWay ==
    ASSUME NEW va \in 0 .. VaPages - 1, NEW up \in 1 .. Levels, NEW lv \in 1 .. Levels, up < lv
    PROVE  Entry(lv, va) \in Below(Entry(up, va))
<1>1. /\ Entry(lv, va) \in Entries /\ Entry(up, va) \in Entries
      /\ Entry(lv, va)[1] = lv /\ Entry(up, va)[1] = up /\ Entry(lv, va)[2] \in Nat
      /\ Spans(Entry(lv, va), va) /\ Spans(Entry(up, va), va)
    BY EntryAt
<1>2. PICK e \in Entries, f \in Entries : e = Entry(up, va) /\ f = Entry(lv, va)
    BY <1>1
<1>3. va \in Nat /\ up \in Nat /\ lv \in Nat
    BY CoversOK
<1>4. e[2] <= f[2] /\ f[2] + Covers[f[1]] <= e[2] + Covers[e[1]]
    BY <1>1, <1>2, <1>3, Nested
<1>5. /\ f[2] \in Nat /\ e[2] \in Nat
      /\ Covers[f[1]] \in Nat /\ Covers[f[1]] > 0 /\ Covers[e[1]] \in Nat
    BY EntryShape
<1>6. Spans(e, f[2])
    BY <1>4, <1>5 DEF Spans
<1> QED BY <1>1, <1>2, <1>3, <1>6, BelowIs

\* The entries further up on the way to a page are those for any page an entry spans.
LEMMA SameWay ==
    ASSUME NEW e \in Entries, NEW w \in Nat, Spans(e, w), NEW up \in 1 .. Levels, up <= e[1]
    PROVE  Entry(up, w) = Entry(up, e[2])
<1>1. w \in 0 .. VaPages - 1 /\ Entry(e[1], w) = e /\ e[1] \in 1 .. Levels /\ e[1] \in Nat
    BY EntryIs, EntryShape
<1>2. PICK f \in Entries : f = Entry(up, w) /\ f[1] = up /\ Spans(f, w)
    BY <1>1, EntryAt
<1>3. f[2] <= e[2] /\ e[2] + Covers[e[1]] <= f[2] + Covers[f[1]]
    BY <1>2, Nested
<1>4. /\ e[2] \in Nat /\ f[2] \in Nat /\ Covers[e[1]] \in Nat /\ Covers[e[1]] > 0
      /\ Covers[f[1]] \in Nat
    BY EntryShape
<1>5. Spans(f, e[2])
    BY <1>3, <1>4 DEF Spans
<1> QED BY <1>2, <1>4, <1>5, EntryIs

LEMMA EntriesFinite == IsFiniteSet(Entries)
<1>1. IsFiniteSet(1 .. Levels) /\ IsFiniteSet(0 .. VaPages)
  <2>1. Levels \in Int /\ VaPages \in Int /\ 1 \in Int /\ 0 \in Int
      BY CoversOK
  <2> QED BY <2>1, FS_Interval
<1>2. IsFiniteSet((1 .. Levels) \X (0 .. VaPages))
    BY <1>1, FS_Product
<1>3. Entries \subseteq (1 .. Levels) \X (0 .. VaPages)
  <2>1. ASSUME NEW e \in Entries PROVE e \in (1 .. Levels) \X (0 .. VaPages)
    <3>1. e = <<e[1], e[2]>> /\ e[1] \in 1 .. Levels /\ e[2] \in Nat /\ e[2] < VaPages
        BY EntryShape
    <3>2. e[2] \in 0 .. VaPages
        BY <3>1, CoversOK
    <3> QED BY <3>1, <3>2
  <2> QED BY <2>1
<1> QED BY <1>2, <1>3, FS_Subset

-----------------------------------------------------------------------------
(***************************************************************************)
(* Trees: where a walk stops, and what the card makes of an address.       *)
(***************************************************************************)

IsPage(t, e) == t[e].kind = "page"

\* Under what is no table there is nothing, and the last level has no tables.
TreeOK(t) ==
    /\ t = [e \in Entries |-> t[e]]
    /\ \A e \in Entries :
           /\ t[e] = Invalid \/ t[e] = Table \/ IsPage(t, e)
           /\ e[1] = Levels => t[e] # Table
           /\ t[e] # Table => \A b \in Below(e) : t[b] = Invalid

LEMMA KindsDiffer ==
    /\ Invalid.kind = "invalid" /\ Table.kind = "table" /\ Invalid # Table
    /\ \A f : Page(f).kind = "page" /\ Page(f).frame = f /\ Page(f) # Table /\ Page(f) # Invalid
    /\ \A t, e : IsPage(t, e) => t[e] # Invalid /\ t[e] # Table
<1>1. Invalid.kind = "invalid" /\ Table.kind = "table"
    BY DEF Invalid, Table
<1>2. "invalid" # "table" /\ "page" # "table" /\ "page" # "invalid"
    OBVIOUS
<1>3. \A f : Page(f).kind = "page" /\ Page(f).frame = f
    BY DEF Page
<1> QED BY <1>1, <1>2, <1>3 DEF IsPage

LEMMA OnTheWay ==
    ASSUME NEW t, TreeOK(t), NEW va \in 0 .. VaPages - 1, NEW up \in 1 .. Levels,
           NEW lv \in 1 .. Levels, up < lv, t[Entry(lv, va)] # Invalid
    PROVE  t[Entry(up, va)] = Table
<1>1. Entry(lv, va) \in Below(Entry(up, va)) /\ Entry(up, va) \in Entries
    BY BelowOnWay, EntryAt
<1> QED BY <1>1 DEF TreeOK

LEMMA StopAt ==
    ASSUME NEW t, TreeOK(t), NEW va \in 0 .. VaPages - 1
    PROVE  /\ Stop(t, va) \in 1 .. Levels /\ t[Entry(Stop(t, va), va)] # Table
           /\ \A up \in 1 .. Stop(t, va) - 1 : t[Entry(up, va)] = Table
<1> DEFINE ends == {lv \in 1 .. Levels : t[Entry(lv, va)] # Table}
           Is(lv) == /\ \A up \in 1 .. lv - 1 : t[Entry(up, va)] = Table
                     /\ t[Entry(lv, va)] # Table
<1>1. Levels \in ends
  <2>1. Entry(Levels, va) \in Entries /\ Entry(Levels, va)[1] = Levels /\ Levels \in 1 .. Levels
      BY CoversOK, EntryAt
  <2> QED BY <2>1 DEF TreeOK
<1>2. ends \in SUBSET Nat
    BY CoversOK
<1>3. PICK lv \in ends : \A l \in ends : lv <= l
    BY <1>1, <1>2, LeastNumber
<1>4. Is(lv)
  <2>1. ASSUME NEW up \in 1 .. lv - 1 PROVE t[Entry(up, va)] = Table
    <3>1. up \in 1 .. Levels /\ ~ (lv <= up)
        BY <1>2, CoversOK
    <3> QED BY <1>3, <3>1
  <2> QED BY <2>1
<1>5. Stop(t, va) = CHOOSE l \in 1 .. Levels : Is(l)
    BY DEF Stop
<1>6. \E l \in 1 .. Levels : Is(l)
    BY <1>4
<1> HIDE DEF Is
<1>7. Stop(t, va) \in 1 .. Levels /\ Is(Stop(t, va))
    BY <1>5, <1>6
<1> QED BY <1>7 DEF Is

LEMMA StopIs ==
    ASSUME NEW t, TreeOK(t), NEW va \in 0 .. VaPages - 1, NEW lv \in 1 .. Levels,
           t[Entry(lv, va)] # Table, \A up \in 1 .. lv - 1 : t[Entry(up, va)] = Table
    PROVE  Stop(t, va) = lv
<1>1. PICK s \in 1 .. Levels : s = Stop(t, va)
    BY StopAt
<1>2. t[Entry(s, va)] # Table /\ \A up \in 1 .. s - 1 : t[Entry(up, va)] = Table
    BY <1>1, StopAt
<1>3. s \in Nat /\ lv \in Nat
    BY CoversOK
<1>4. ~ (s < lv)
  <2>1. s < lv => s \in 1 .. lv - 1
      BY <1>3
  <2> QED BY <1>2, <2>1
<1>5. ~ (lv < s)
  <2>1. lv < s => lv \in 1 .. s - 1
      BY <1>3
  <2> QED BY <1>2, <2>1
<1> QED BY <1>1, <1>3, <1>4, <1>5

\* A walk stops at the page that spans where it goes.
LEMMA PageStops ==
    ASSUME NEW t, TreeOK(t), NEW e \in Entries, IsPage(t, e), NEW w \in Nat, Spans(e, w)
    PROVE  /\ w \in 0 .. VaPages - 1 /\ Stop(t, w) = e[1] /\ Entry(e[1], w) = e
           /\ \A up \in 1 .. e[1] - 1 : t[Entry(up, w)] = Table
<1>1. w \in 0 .. VaPages - 1 /\ Entry(e[1], w) = e
    BY EntryIs
<1>2. e[1] \in 1 .. Levels /\ e[1] \in Nat /\ Levels \in Nat
    BY EntryShape, CoversOK
<1>3. t[e] # Table /\ t[e] # Invalid
    BY KindsDiffer
<1>4. ASSUME NEW up \in 1 .. e[1] - 1 PROVE t[Entry(up, w)] = Table
  <2>1. up \in 1 .. Levels /\ up < e[1]
      BY <1>2
  <2> QED BY <1>1, <1>2, <1>3, <2>1, OnTheWay
<1> QED BY <1>1, <1>2, <1>3, <1>4, StopIs

LEMMA Remainder ==
    ASSUME NEW w \in Nat, NEW c \in Nat \ {0}
    PROVE  w % c = w - (w \div c) * c
    OBVIOUS

LEMMA Whole ==
    ASSUME NEW k \in Nat, NEW c \in Nat \ {0}
    PROVE  ((k * c) \div c) * c = k * c
    OBVIOUS

\* Pages hold frames that line up with what they cover.
Aligned(t) ==
    \A e \in Entries : IsPage(t, e) =>
        t[e].frame \in Nat /\ \E k \in Nat : t[e].frame = k * Covers[e[1]]

LEMMA TranslatesPage ==
    ASSUME NEW t, TreeOK(t), Aligned(t), NEW e \in Entries, IsPage(t, e), NEW w \in Nat, Spans(e, w)
    PROVE  Translate(t, w) = {t[e].frame + (w - e[2])}
<1>1. Stop(t, w) = e[1] /\ Entry(e[1], w) = e
    BY PageStops
<1>2. PICK c \in Nat \ {0} : c = Covers[e[1]]
    BY EntryShape
<1>3. PICK k \in Nat : t[e].frame = k * c
    BY <1>2 DEF Aligned
<1>4. e[2] = (w \div c) * c
  <2>1. Entry(e[1], w)[2] = (w \div c) * c
      BY <1>2 DEF Entry
  <2> QED BY <1>1, <2>1
<1>5. w % c = w - e[2]
    BY <1>4, Remainder
<1>6. (t[e].frame \div c) * c = t[e].frame
    BY <1>3, Whole
<1>7. Translate(t, w) = {(t[e].frame \div c) * c + (w % c)}
    BY <1>1, <1>2 DEF Translate, IsPage
<1> QED BY <1>5, <1>6, <1>7

LEMMA TranslatesNothing ==
    ASSUME NEW t, TreeOK(t), NEW w \in 0 .. VaPages - 1,
           \A e \in Entries : IsPage(t, e) => ~ Spans(e, w)
    PROVE  Translate(t, w) = {}
<1>1. Stop(t, w) \in 1 .. Levels
    BY StopAt
<1>2. PICK e \in Entries : e = Entry(Stop(t, w), w) /\ Spans(e, w)
    BY <1>1, EntryAt
<1>3. ~ IsPage(t, e)
    BY <1>2
<1> QED BY <1>2, <1>3 DEF Translate, IsPage

\* What the card can reach, page by page.
LEMMA TranslationOf ==
    ASSUME NEW t, TreeOK(t), Aligned(t), NEW x \in Translations(t)
    PROVE  \E e \in Entries, w \in 0 .. VaPages - 1 :
               IsPage(t, e) /\ Spans(e, w) /\ x = <<w, t[e].frame + (w - e[2])>>
<1>1. PICK w \in 0 .. VaPages - 1 : x \in {<<w, f>> : f \in Translate(t, w)}
    BY DEF Translations
<1>2. PICK f \in Translate(t, w) : x = <<w, f>>
    BY <1>1
<1>3. PICK e \in Entries : IsPage(t, e) /\ Spans(e, w)
    BY <1>2, TranslatesNothing
<1>4. w \in Nat
    BY CoversOK
<1>5. Translate(t, w) = {t[e].frame + (w - e[2])}
    BY <1>3, <1>4, TranslatesPage
<1> QED BY <1>2, <1>3, <1>5

-----------------------------------------------------------------------------
(***************************************************************************)
(* Walks that only look: runs of neighbours, and all the runs of a range.  *)
(***************************************************************************)

LEMMA Induct ==
    ASSUME NEW s, NEW n \in Nat,
           \A k \in 0 .. n : (\A j \in 0 .. k - 1 : j \in s) => k \in s
    PROVE  \A k \in 0 .. n : k \in s
<1> DEFINE bad == {k \in 0 .. n : k \notin s}
<1>1. SUFFICES ASSUME bad # {} PROVE FALSE
    OBVIOUS
<1>2. bad \in SUBSET Nat
    OBVIOUS
<1>3. PICK k \in bad : \A j \in bad : k <= j
    BY <1>1, <1>2, LeastNumber
<1>4. \A j \in 0 .. k - 1 : j \in s
    BY <1>3
<1> QED BY <1>3, <1>4

\* Where the table an address is in ends, at a level
End(lv, va) == IF lv = 1 THEN VaPages ELSE Entry(lv - 1, va)[2] + Covers[lv - 1]

LEMMA EndIs ==
    ASSUME NEW lv \in 1 .. Levels, NEW va \in 0 .. VaPages - 1
    PROVE  /\ End(lv, va) \in Nat /\ End(lv, va) <= VaPages
           /\ Entry(lv, va)[2] + Covers[lv] <= End(lv, va)
           /\ \E m \in Nat : End(lv, va) = m * Covers[lv]
           /\ \A w \in Nat : Entry(lv, va)[2] <= w /\ w < End(lv, va) =>
                  w \in 0 .. VaPages - 1 /\ \A up \in 1 .. lv - 1 : Entry(up, w) = Entry(up, va)
<1>1. PICK e \in Entries, b \in Nat, c \in Nat \ {0} :
          e = Entry(lv, va) /\ b = e[2] /\ c = Covers[lv] /\ e[1] = lv /\ Spans(e, va)
              /\ b + c <= VaPages
  <2>1. /\ Entry(lv, va) \in Entries /\ Entry(lv, va)[1] = lv /\ Entry(lv, va)[2] \in Nat
        /\ Spans(Entry(lv, va), va) /\ Entry(lv, va)[2] + Covers[lv] <= VaPages
      BY EntryAt
  <2>2. Covers[lv] \in Nat \ {0}
      BY CoversOK
  <2> QED BY <2>1, <2>2
<1>2. lv \in Nat /\ va \in Nat /\ VaPages \in Nat
    BY CoversOK
<1>3. CASE lv = 1
  <2>1. End(lv, va) = VaPages
      BY <1>3 DEF End
  <2>2. \E m \in Nat : VaPages = m * c
      BY <1>1, CoversAll
  <2>3. \A w \in Nat : w < VaPages => w \in 0 .. VaPages - 1
      BY <1>2
  <2> QED BY <1>1, <1>2, <1>3, <2>1, <2>2, <2>3
<1>4. CASE lv # 1
  <2>1. PICK p \in 1 .. Levels : p = lv - 1 /\ p \in Nat
      BY <1>2, <1>4, CoversOK
  <2>2. PICK f \in Entries : f = Entry(p, va) /\ f[1] = p /\ Spans(f, va)
      BY EntryAt
  <2>3. PICK d \in Nat \ {0}, g \in Nat, j \in Nat :
            d = Covers[p] /\ g = f[2] /\ g = j * d /\ g + d <= VaPages
      BY <2>2, EntryShape, CoversOK
  <2>4. End(lv, va) = g + d
      BY <1>4, <2>1, <2>2, <2>3 DEF End
  <2>5. g <= b /\ b + c <= g + d
      BY <1>1, <1>2, <2>1, <2>2, <2>3, Nested
  <2>6. PICK k \in Nat \ {0} : d = k * c
    <3>1. p <= lv
        BY <2>1
    <3> QED BY <1>1, <2>3, <3>1, CoversDivide
  <2>7. g + d = (j * k + k) * c /\ j * k + k \in Nat
    <3>1. j * (k * c) = (j * k) * c /\ j * k \in Nat
        OBVIOUS
    <3>2. (j * k + k) * c = (j * k) * c + k * c
        BY <3>1, Times
    <3> QED BY <2>3, <2>6, <3>1, <3>2
  <2>8. ASSUME NEW w \in Nat, b <= w, w < g + d
        PROVE  w \in 0 .. VaPages - 1 /\ \A up \in 1 .. lv - 1 : Entry(up, w) = Entry(up, va)
    <3>1. w \in 0 .. VaPages - 1
        BY <1>2, <2>3, <2>8
    <3>2. Spans(f, w)
        BY <2>2, <2>3, <2>5, <2>8 DEF Spans
    <3>3. ASSUME NEW up \in 1 .. lv - 1 PROVE Entry(up, w) = Entry(up, va)
      <4>1. up \in 1 .. Levels /\ up <= f[1]
          BY <1>2, <2>1, <2>2, CoversOK
      <4>2. Entry(up, w) = Entry(up, f[2]) /\ Entry(up, va) = Entry(up, f[2])
          BY <1>2, <2>2, <3>2, <4>1, SameWay
      <4> QED BY <4>2
    <3> QED BY <3>1, <3>3
  <2>9. g + d \in Nat
      OBVIOUS
  <2> QED BY <1>1, <2>3, <2>4, <2>5, <2>7, <2>8, <2>9
<1> QED BY <1>3, <1>4

LEMMA RoomIs ==
    ASSUME NEW lv \in 1 .. Levels, NEW va \in 0 .. VaPages - 1
    PROVE  \E r \in Nat \ {0} :
               Room(lv, va) = r /\ Entry(lv, va)[2] + r * Covers[lv] = End(lv, va)
<1>1. PICK b \in Nat, c \in Nat \ {0}, k \in Nat, z \in Nat, m \in Nat :
          /\ b = Entry(lv, va)[2] /\ c = Covers[lv] /\ b = k * c
          /\ z = End(lv, va) /\ z = m * c /\ b + c <= z
  <2>1. Entry(lv, va)[2] \in Nat /\ \E k \in Nat : Entry(lv, va)[2] = k * Covers[lv]
      BY EntryAt
  <2>2. /\ End(lv, va) \in Nat /\ \E m \in Nat : End(lv, va) = m * Covers[lv]
        /\ Entry(lv, va)[2] + Covers[lv] <= End(lv, va)
      BY EndIs
  <2>3. Covers[lv] \in Nat \ {0}
      BY CoversOK
  <2> QED BY <2>1, <2>2, <2>3
<1>2. k < m
  <2>1. m <= k => m * c <= k * c
      BY Times
  <2> QED BY <1>1, <2>1
<1>3. PICK r \in Nat \ {0} : r = m - k /\ m = k + r
  <2>1. m - k \in Nat \ {0} /\ m = k + (m - k)
      BY <1>2
  <2> QED BY <2>1
<1>4. z = b + r * c /\ r * c \in Nat
    BY <1>1, <1>3, Times
<1>5. z - b = r * c
    BY <1>1, <1>4
<1>6. (r * c) \div c = r
    OBVIOUS
<1>7. Room(lv, va) = (z - b) \div c
    BY <1>1 DEF Room, End
<1> QED BY <1>1, <1>4, <1>5, <1>6, <1>7

LEMMA RunIs ==
    ASSUME NEW lv \in 1 .. Levels, NEW va \in 0 .. VaPages - 1, NEW left \in Nat \ {0}
    PROVE  \E n \in Nat \ {0} :
               /\ RunLength(lv, va, left) = n /\ (n = 1 \/ n * Covers[lv] <= left)
               /\ Entry(lv, va)[2] + n * Covers[lv] <= End(lv, va)
<1>1. PICK c \in Nat \ {0} : c = Covers[lv]
    BY CoversOK
<1>2. PICK r \in Nat \ {0} : Room(lv, va) = r /\ Entry(lv, va)[2] + r * c = End(lv, va)
    BY <1>1, RoomIs
<1>3. PICK q \in Nat : q = left \div c /\ q * c <= left
    BY Divided
<1>4. PICK b \in Nat : b = Entry(lv, va)[2]
    BY EntryAt
<1>5. PICK n : n = RunLength(lv, va, left)
    OBVIOUS
<1>6. n = IF q = 0 THEN 1 ELSE IF q < r THEN q ELSE r
    BY <1>1, <1>2, <1>3, <1>5 DEF RunLength
<1>7. n \in Nat \ {0} /\ n <= r /\ (n = 1 \/ n <= q)
    BY <1>6
<1>8. n * c \in Nat /\ r * c \in Nat /\ q * c \in Nat /\ n * c <= r * c
    BY <1>7, Times
<1>9. n = 1 \/ n * c <= left
  <2>1. n <= q => n * c <= q * c
      BY <1>7, Times
  <2> QED BY <1>3, <1>7, <1>8, <2>1
<1>10. b + n * c <= End(lv, va)
    BY <1>2, <1>4, <1>8
<1> QED BY <1>1, <1>4, <1>5, <1>7, <1>9, <1>10

\* What a walk over the addresses from va to end has of an entry it looks at
Look(t, l, va, end) ==
    /\ l.lv \in 1 .. Levels /\ l.at \in 0 .. VaPages - 1 /\ va <= l.at /\ l.at < end
    /\ \A up \in 1 .. l.lv - 1 : t[Entry(up, l.at)] = Table
    /\ t[Entry(l.lv, l.at)] = Table =>
           /\ va <= Entry(l.lv, l.at)[2] /\ Entry(l.lv, l.at)[2] + Covers[l.lv] <= end
           /\ l.at + Covers[l.lv] <= end /\ Covers[l.lv] < end - va

\* The entries of the run at an address, and what is left after it
RunOf(t, v, left) ==
    {[lv |-> Stop(t, v), at |-> v + i * Covers[Stop(t, v)]] :
        i \in 0 .. RunLength(Stop(t, v), v, left) - 1}

After(t, v, left) ==
    LET step == RunLength(Stop(t, v), v, left) * Covers[Stop(t, v)]
    IN  IF step >= left THEN 0 ELSE left - step

LEMMA RunEntry ==
    ASSUME NEW t, TreeOK(t), NEW v \in 0 .. VaPages - 1, NEW left \in Nat \ {0},
           v + left <= VaPages, NEW lv, lv = Stop(t, v), NEW n \in Nat,
           n = RunLength(lv, v, left), NEW i \in 0 .. n - 1,
           NEW at, at = v + i * Covers[lv]
    PROVE  /\ lv \in 1 .. Levels /\ at \in 0 .. VaPages - 1 /\ v <= at /\ at < v + left
           /\ Entry(lv, at) = <<lv, Entry(lv, v)[2] + i * Covers[lv]>>
           /\ \A up \in 1 .. lv - 1 : t[Entry(up, at)] = Table
           /\ i = 0 => t[Entry(lv, at)] # Table
           /\ i # 0 => /\ v <= Entry(lv, at)[2]
                       /\ Entry(lv, at)[2] + Covers[lv] <= v + left
                       /\ at + Covers[lv] <= v + left /\ Covers[lv] < left
<1>1. lv \in 1 .. Levels /\ t[Entry(lv, v)] # Table /\ \A up \in 1 .. lv - 1 : t[Entry(up,
        v)] = Table
    BY StopAt
<1>2. PICK c \in Nat \ {0}, b \in Nat, k \in Nat :
          /\ c = Covers[lv] /\ b = Entry(lv, v)[2] /\ Spans(Entry(lv, v), v)
          /\ b = k * c /\ Entry(lv, v)[1] = lv
  <2>1. /\ Entry(lv, v)[2] \in Nat /\ \E k \in Nat : Entry(lv, v)[2] = k * Covers[lv]
        /\ Spans(Entry(lv, v), v) /\ Entry(lv, v)[1] = lv
      BY <1>1, EntryAt
  <2> QED BY <1>1, <2>1, CoversOK
<1>3. n \in Nat \ {0} /\ (n = 1 \/ n * c <= left) /\ b + n * c <= End(lv, v)
    BY <1>1, <1>2, RunIs, ZenonT(60)
<1>4. PICK z \in Nat : z = End(lv, v) /\ z <= VaPages
    BY <1>1, EndIs
<1>5. b <= v /\ v < b + c /\ v \in Nat
    BY <1>2 DEF Spans
<1>6. PICK p \in Nat, q \in Nat : p = i * c /\ q = n * c /\ p + c <= q /\ i \in Nat
  <2>1. i \in Nat /\ i < n /\ i * c \in Nat /\ n * c \in Nat
      BY Times
  <2>2. i * c + c <= n * c
      BY <2>1, Times
  <2> QED BY <2>1, <2>2
<1>7. i = 0 => p = 0
    BY <1>6
<1>8. i # 0 => c <= p
  <2>1. i # 0 => 1 <= i
      BY <1>6
  <2>2. 1 <= i => 1 * c <= i * c
      BY <1>6, Times
  <2> QED BY <1>6, <2>1, <2>2
<1>9. n = 1 => i = 0
    BY <1>6
<1>10. at = v + p /\ at \in Nat /\ v <= at /\ at < v + left
  <2>1. at = v + p
      BY <1>2, <1>6
  <2>2. p < left
      BY <1>3, <1>6, <1>7, <1>9
  <2> QED BY <1>5, <2>1, <2>2
<1>11. at \in 0 .. VaPages - 1
    BY <1>10, CoversOK
<1>12. Entry(lv, at) = <<lv, b + p>>
  <2>1. PICK j \in Nat : j = at \div c /\ j * c <= at /\ at < j * c + c
      BY <1>10, Divided
  <2>2. PICK h \in Nat : h = k + i
      BY <1>6
  <2>3. h * c = b + p
      BY <1>2, <1>6, <2>2, Times
  <2>4. h * c <= at /\ at < h * c + c
      BY <1>5, <1>10, <2>3
  <2>5. j = h
      BY <1>10, <2>1, <2>4, OneMultiple
  <2>6. Entry(lv, at) = <<lv, j * c>>
      BY <1>2, <2>1 DEF Entry
  <2> QED BY <2>3, <2>5, <2>6
<1>13. \A up \in 1 .. lv - 1 : t[Entry(up, at)] = Table
  <2>1. b + p < z
      BY <1>3, <1>4, <1>6
  <2>2. b <= b + p /\ b + p \in Nat
      OBVIOUS
  <2>3. \A up \in 1 .. lv - 1 : Entry(up, b + p) = Entry(up, v)
    <3>1. PICK w \in Nat : w = b + p
        BY <2>2
    <3>2. Entry(lv, v)[2] <= w /\ w < End(lv, v)
        BY <1>2, <1>4, <2>1, <2>2, <3>1
    <3>3. \A up \in 1 .. lv - 1 : Entry(up, w) = Entry(up, v)
        BY <1>1, <3>2, EndIs
    <3> QED BY <3>1, <3>3
  <2>4. ASSUME NEW up \in 1 .. lv - 1 PROVE Entry(up, at) = Entry(up, b + p)
    <3>1. Entry(lv, at) \in Entries /\ Spans(Entry(lv, at), at) /\ Entry(lv, at)[1] = lv
        BY <1>1, <1>11, EntryAt
    <3>2. Entry(lv, at)[2] = b + p
        BY <1>12
    <3>3. up \in 1 .. Levels /\ up <= lv
        BY <1>1, CoversOK
    <3> QED BY <1>10, <3>1, <3>2, <3>3, SameWay
  <2> QED BY <1>1, <2>3, <2>4
<1>14. i = 0 => t[Entry(lv, at)] # Table
  <2>1. i = 0 => at = v
      BY <1>5, <1>7, <1>10
  <2> QED BY <1>1, <2>1
<1>15. Entry(lv, at)[2] = b + p
    BY <1>12
<1>16. i # 0 => /\ v <= b + p /\ b + p + c <= v + left
                /\ at + c <= v + left /\ c < left
  <2>1. i # 0 => q <= left
      BY <1>3, <1>6, <1>9
  <2> QED BY <1>5, <1>6, <1>8, <1>10, <2>1
<1> QED BY <1>1, <1>2, <1>6, <1>10, <1>11, <1>12, <1>13, <1>14, <1>15, <1>16

LEMMA AfterIs ==
    ASSUME NEW t, TreeOK(t), NEW v \in 0 .. VaPages - 1, NEW left \in Nat \ {0}
    PROVE  After(t, v, left) \in 0 .. left - 1
<1>1. Stop(t, v) \in 1 .. Levels
    BY StopAt
<1>2. PICK n \in Nat \ {0}, c \in Nat \ {0} :
          n = RunLength(Stop(t, v), v, left) /\ c = Covers[Stop(t, v)]
  <2>1. Covers[Stop(t, v)] \in Nat \ {0}
      BY <1>1, CoversOK
  <2>2. RunLength(Stop(t, v), v, left) \in Nat \ {0}
      BY <1>1, RunIs
  <2> QED BY <2>1, <2>2
<1>3. n * c \in Nat \ {0}
    BY <1>2
<1>4. After(t, v, left) = IF n * c >= left THEN 0 ELSE left - n * c
    BY <1>2 DEF After
<1> QED BY <1>3, <1>4

\* A walk's runs, from the last one back
LookedBy(t, va, size, f) ==
    /\ f[size] = Looked(t, va, size) /\ f[0] = {}
    /\ \A left \in 1 .. size :
           f[left] = RunOf(t, va + size - left, left) \cup f[After(t, va + size - left, left)]

LEMMA LookedIs ==
    ASSUME NEW t, TreeOK(t), NEW va \in Nat, NEW size \in Nat, va + size <= VaPages
    PROVE  \E f : LookedBy(t, va, size, f)
<1> DEFINE D == 0 .. size
           all == UNION {RunOf(t, va + size - left, left) : left \in 1 .. size}
           S == SUBSET all
           next(x) == After(t, va + size - x, x)
           one(x, g) == IF x = 0 THEN {} ELSE RunOf(t, va + size - x, x) \cup g[next(x)]
           step == [x \in D |-> [g \in [D -> S] |-> one(x, g)]]
           measure == [x \in D |-> x]
<1>1. \A x \in 1 .. size : x \in Nat \ {0} /\ va + size - x \in 0 .. VaPages - 1
    BY CoversOK
<1>2. \A x \in 1 .. size : next(x) \in 0 .. x - 1
    BY <1>1, AfterIs
<1>3. \A x \in D : \A g \in [D -> S] : one(x, g) \in S
  <2>1. ASSUME NEW x \in D, NEW g \in [D -> S], x # 0 PROVE one(x, g) \in S
    <3>1. x \in 1 .. size
        BY <2>1
    <3>2. next(x) \in D
        BY <1>2, <3>1
    <3>3. g[next(x)] \in S
        BY <3>2
    <3>4. RunOf(t, va + size - x, x) \subseteq all
        BY <3>1
    <3> QED BY <3>3, <3>4
  <2> QED BY <2>1
<1>4. \A x \in D : \A f, g \in [D -> S] :
          (\A y \in D : y < x => f[y] = g[y]) => one(x, f) = one(x, g)
  <2>1. ASSUME NEW x \in D, x # 0 PROVE next(x) \in D /\ next(x) < x
    <3>1. x \in 1 .. size
        BY <2>1
    <3>2. next(x) \in 0 .. x - 1
        BY <1>2, <3>1
    <3> HIDE DEF next
    <3> QED BY <3>1, <3>2
  <2> HIDE DEF next
  <2> QED BY <2>1
<1> HIDE DEF next, all
<1>5. \E f \in [D -> S] : \A x \in D : f[x] = step[x][f]
  <2>1. {} \in S
      OBVIOUS
  <2>2. PICK most \in Nat : most = size + 1
      OBVIOUS
  <2>3. measure \in [D -> Nat] /\ \A x \in D : measure[x] < most
      BY <2>2
  <2>4. step \in [D -> [[D -> S] -> S]]
      BY <1>3
  <2>5. \A x \in D : \A f, g \in [D -> S] :
            (\A y \in D : measure[y] < measure[x] => f[y] = g[y]) => step[x][f] = step[x][g]
    <3>1. ASSUME NEW x \in D, NEW f \in [D -> S], NEW g \in [D -> S],
                 \A y \in D : measure[y] < measure[x] => f[y] = g[y]
          PROVE  step[x][f] = step[x][g]
      <4>1. \A y \in D : y < x => f[y] = g[y]
          BY <3>1
      <4>2. one(x, f) = one(x, g)
          BY <1>4, <4>1
      <4> QED BY <4>2
    <3> QED BY <3>1
  <2> HIDE DEF D, S, step, measure
  <2>6. Recurs(D, S, measure, most, step)
      BY <2>1, <2>2, <2>3, <2>4, <2>5 DEF Recurs
  <2> QED BY <2>6, Recursive
<1>6. PICK f \in [D -> S] : \A x \in D : f[x] = one(x, f)
    BY <1>5
<1> DEFINE body(g) == [left \in 0 .. size |->
                IF left = 0 THEN {} ELSE
                LET v == va + size - left
                    lv == Stop(t, v)
                    n == RunLength(lv, v, left)
                    st == n * Covers[lv]
                IN  {[lv |-> lv, at |-> v + i * Covers[lv]] : i \in 0 .. n - 1}
                        \cup g[IF st >= left THEN 0 ELSE left - st]]
<1>7. \A g : body(g) = [left \in 0 .. size |-> one(left, g)]
    BY Zenon DEF RunOf, After, next
<1>8. Looked(t, va, size) = (CHOOSE g : g = body(g))[size]
    BY Zenon DEF Looked
<1> HIDE DEF body
<1>9. f = body(f)
    BY <1>6, <1>7
<1>10. PICK g : g = (CHOOSE h : h = body(h))
    OBVIOUS
<1>11. g = body(g)
    BY <1>9, <1>10
<1>12. \A x \in 0 .. size : g[x] = one(x, g)
    BY <1>7, <1>11
<1>13. g[0] = {} /\ g[size] = Looked(t, va, size)
  <2>1. 0 \in 0 .. size /\ size \in 0 .. size
      OBVIOUS
  <2>2. g[0] = one(0, g)
      BY <1>12, <2>1
  <2> QED BY <1>8, <1>10, <2>2
<1>14. \A left \in 1 .. size :
           g[left] = RunOf(t, va + size - left, left) \cup g[After(t, va + size - left, left)]
  <2>1. ASSUME NEW x \in 1 .. size
        PROVE  g[x] = RunOf(t, va + size - x, x) \cup g[After(t, va + size - x, x)]
    <3>1. x \in 0 .. size /\ x # 0
        OBVIOUS
    <3>2. g[x] = one(x, g)
        BY <1>12, <3>1
    <3> QED BY <3>1, <3>2 DEF next
  <2> QED BY <2>1
<1> QED BY <1>13, <1>14 DEF LookedBy

\* Whatever a walk looks at is in the range, or a table whose pages all are.
LEMMA LookedEach ==
    ASSUME NEW t, TreeOK(t), NEW va \in Nat, NEW size \in Nat, va + size <= VaPages,
           NEW l \in Looked(t, va, size)
    PROVE  Look(t, l, va, va + size)
<1>1. PICK f : LookedBy(t, va, size, f)
    BY LookedIs
<1> DEFINE good == {k \in 0 .. size : \A m \in f[k] : Look(t, m, va, va + size)}
<1>2. ASSUME NEW k \in 0 .. size, \A j \in 0 .. k - 1 : j \in good PROVE k \in good
  <2>1. CASE k = 0
      BY <1>1, <2>1 DEF LookedBy
  <2>2. CASE k # 0
    <3>1. k \in 1 .. size /\ k \in Nat \ {0}
        BY <2>2
    <3>2. PICK v \in 0 .. VaPages - 1 : v = va + size - k /\ va <= v /\ v + k = va + size
      <4>1. va + size - k \in 0 .. VaPages - 1
          BY <3>1, CoversOK
      <4> QED BY <3>1, <4>1
    <3>3. f[k] = RunOf(t, v, k) \cup f[After(t, v, k)]
        BY <1>1, <3>1, <3>2 DEF LookedBy
    <3>4. \A m \in f[After(t, v, k)] : Look(t, m, va, va + size)
        BY <1>2, <3>1, AfterIs
    <3>5. ASSUME NEW m \in RunOf(t, v, k) PROVE Look(t, m, va, va + size)
      <4>1. PICK lv, n : lv = Stop(t, v) /\ n = RunLength(lv, v, k)
          OBVIOUS
      <4>2. lv \in 1 .. Levels /\ n \in Nat
        <5>1. lv \in 1 .. Levels
            BY <4>1, StopAt
        <5> QED BY <3>1, <4>1, <5>1, RunIs
      <4>3. PICK i \in 0 .. n - 1 : m = [lv |-> lv, at |-> v + i * Covers[lv]]
          BY <4>1 DEF RunOf
      <4>4. PICK at : at = v + i * Covers[lv] /\ m.lv = lv /\ m.at = at
          BY <4>3
      <4>5. /\ at \in 0 .. VaPages - 1 /\ v <= at /\ at < v + k
            /\ \A up \in 1 .. lv - 1 : t[Entry(up, at)] = Table
            /\ i = 0 => t[Entry(lv, at)] # Table
            /\ i # 0 => /\ v <= Entry(lv, at)[2]
                        /\ Entry(lv, at)[2] + Covers[lv] <= v + k
                        /\ at + Covers[lv] <= v + k /\ Covers[lv] < k
          BY <3>1, <3>2, <4>1, <4>2, <4>4, RunEntry
      <4>6. Entry(lv, at)[2] \in Nat /\ Covers[lv] \in Nat
          BY <4>2, <4>5, EntryAt, CoversOK
      <4>7. t[Entry(lv, at)] = Table =>
                /\ va <= Entry(lv, at)[2] /\ Entry(lv, at)[2] + Covers[lv] <= va + size
                /\ at + Covers[lv] <= va + size /\ Covers[lv] < va + size - va
        <5>1. SUFFICES ASSUME t[Entry(lv, at)] = Table
                       PROVE  /\ va <= Entry(lv, at)[2]
                              /\ Entry(lv, at)[2] + Covers[lv] <= va + size
                              /\ at + Covers[lv] <= va + size /\ Covers[lv] < va + size - va
            OBVIOUS
        <5>2. /\ v <= Entry(lv, at)[2]
              /\ Entry(lv, at)[2] + Covers[lv] <= v + k
              /\ at + Covers[lv] <= v + k /\ Covers[lv] < k
            BY <4>5, <5>1
        <5> QED BY <3>1, <3>2, <4>6, <5>2
      <4>8. va <= at /\ at < va + size
          BY <3>1, <3>2, <4>5
      <4> QED BY <4>2, <4>4, <4>5, <4>7, <4>8 DEF Look
    <3> QED BY <3>3, <3>4, <3>5
  <2> QED BY <2>1, <2>2
<1>3. size \in good
  <2> HIDE DEF good
  <2>1. \A k \in 0 .. size : k \in good
      BY <1>2, Induct
  <2> QED BY <2>1
<1> QED BY <1>1, <1>3 DEF LookedBy

\* An entry under tables on the way to another is that entry or below it, if
\* they share a page.
LEMMA UnderTables ==
    ASSUME NEW t, TreeOK(t), NEW lv \in 1 .. Levels, NEW at \in 0 .. VaPages - 1,
           \A up \in 1 .. lv - 1 : t[Entry(up, at)] = Table,
           NEW e \in Entries, IsPage(t, e), NEW w \in Nat, Spans(e, w), Spans(Entry(lv, at), w)
    PROVE  e = Entry(lv, at) \/ e \in Below(Entry(lv, at))
<1>1. PICK f \in Entries : f = Entry(lv, at) /\ f[1] = lv /\ Spans(f, at) /\ Spans(f, w)
    BY EntryAt
<1>2. e[1] \in 1 .. Levels /\ e[1] \in Nat /\ lv \in Nat /\ at \in Nat
    BY EntryShape, CoversOK
<1>3. ~ (e[1] < lv)
  <2>1. SUFFICES ASSUME e[1] < lv PROVE FALSE
      OBVIOUS
  <2>2. e[1] \in 1 .. lv - 1
      BY <1>2, <2>1
  <2>3. Entry(e[1], w) = Entry(e[1], f[2]) /\ Entry(e[1], at) = Entry(e[1], f[2])
      BY <1>1, <1>2, <2>1, SameWay
  <2>4. Entry(e[1], w) = e
      BY EntryIs
  <2>5. t[e] = Table
      BY <2>2, <2>3, <2>4
  <2> QED BY <2>5, KindsDiffer
<1>4. e[1] = lv => e = f
    BY <1>1, SameEntry
<1>5. e[1] > lv => e \in Below(f)
  <2>1. SUFFICES ASSUME e[1] > lv PROVE e \in Below(f)
      OBVIOUS
  <2>2. Spans(e, e[2]) /\ e[2] \in Nat
      BY SpansFirst, EntryShape
  <2>3. f[2] <= e[2] /\ e[2] + Covers[e[1]] <= f[2] + Covers[f[1]]
      BY <1>1, <1>2, <2>1, Nested
  <2>4. /\ Covers[e[1]] \in Nat /\ Covers[e[1]] > 0
        /\ Covers[f[1]] \in Nat /\ f[2] \in Nat
      BY EntryShape
  <2>5. Spans(f, e[2])
      BY <2>2, <2>3, <2>4 DEF Spans
  <2> QED BY <1>1, <2>1, <2>5, BelowIs
<1> QED BY <1>1, <1>2, <1>3, <1>4, <1>5

LEMMA BelowBelow ==
    ASSUME NEW b \in Entries, NEW e \in Below(b), NEW c \in Below(e)
    PROVE  c \in Below(b)
<1>1. e \in Entries /\ e[1] > b[1] /\ e[1] \in Nat /\ b[1] \in Nat
    BY BelowIs, EntryShape
<1>2. c \in Entries /\ c[1] > e[1] /\ Spans(e, c[2]) /\ c[1] \in Nat /\ c[2] \in Nat
    BY <1>1, BelowIs, EntryShape
<1>3. Spans(b, c[2])
    BY <1>2, BelowSpans
<1> QED BY <1>1, <1>2, <1>3, BelowIs

\* Clearing entries clears what is below them and nothing else.
LEMMA SetInvalid ==
    ASSUME NEW t, TreeOK(t), NEW s \in SUBSET Entries,
           NEW new, new = set_entry(t, [e \in s |-> Invalid])
    PROVE  /\ TreeOK(new)
           /\ \A e \in Entries :
                  /\ e \in s \/ (\E b \in s : e \in Below(b)) => new[e] = Invalid
                  /\ ~ (e \in s \/ \E b \in s : e \in Below(b)) => new[e] = t[e]
<1>1. PICK to : to = [e \in s |-> Invalid]
    OBVIOUS
<1>2. DOMAIN to = s /\ \A b \in s : to[b] = Invalid /\ to[b] # Table
    BY <1>1, KindsDiffer
<1>3. new = [e \in Entries |->
                CASE e \in s -> to[e]
                  [] e \notin s /\ \E b \in s : e \in Below(b) /\ to[b] # Table -> Invalid
                  [] OTHER -> t[e]]
    BY <1>1, <1>2 DEF set_entry
<1>4. ASSUME NEW e \in Entries
      PROVE  /\ e \in s \/ (\E b \in s : e \in Below(b)) => new[e] = Invalid
             /\ ~ (e \in s \/ \E b \in s : e \in Below(b)) => new[e] = t[e]
    BY <1>2, <1>3
<1>5. new = [e \in Entries |-> new[e]]
    BY <1>3
<1>6. ASSUME NEW e \in Entries
      PROVE  /\ new[e] = Invalid \/ new[e] = Table \/ IsPage(new, e)
             /\ e[1] = Levels => new[e] # Table
             /\ new[e] # Table => \A b \in Below(e) : new[b] = Invalid
  <2>1. new[e] = Invalid \/ new[e] = t[e]
      BY <1>4
  <2>2. /\ t[e] = Invalid \/ t[e] = Table \/ IsPage(t, e)
        /\ e[1] = Levels => t[e] # Table
        /\ t[e] # Table => \A b \in Below(e) : t[b] = Invalid
      BY DEF TreeOK
  <2>3. \A b \in Below(e) : b \in Entries
      BY BelowIs
  <2>4. CASE e \in s \/ \E b \in s : e \in Below(b)
    <3>1. ASSUME NEW b \in Below(e) PROVE \E c \in s : b \in Below(c)
        BY <2>4, BelowBelow
    <3> QED BY <1>4, <2>3, <2>4, <3>1, KindsDiffer
  <2>5. CASE ~ (e \in s \/ \E b \in s : e \in Below(b))
    <3>1. new[e] = t[e]
        BY <1>4, <2>5
    <3>2. new[e] # Table => \A b \in Below(e) : new[b] = Invalid
        BY <1>4, <2>2, <2>3, <3>1
    <3> QED BY <2>2, <3>1, <3>2 DEF IsPage
  <2> QED BY <2>4, <2>5
<1> QED BY <1>4, <1>5, <1>6 DEF TreeOK

\* An entry covers some of a range
Meets(e, va, end) == e[2] < end /\ va < e[2] + Covers[e[1]]

\* The pages there are in a range fill it, up to x
Filled(t, va, x, end) ==
    /\ x \in va .. end
    /\ \A e \in Entries : IsPage(t, e) /\ Meets(e, va, end) =>
           va <= e[2] /\ e[2] + Covers[e[1]] <= x
    /\ \A w \in va .. x - 1 : \E e \in Entries : IsPage(t, e) /\ Spans(e, w)

\* An entry a walk looked at, or one below it
Covered(e, looked) ==
    \E l \in looked : e = Entry(l.lv, l.at) \/ e \in Below(Entry(l.lv, l.at))

\* A walk over a range passes no page of it.
LEMMA LookedAll ==
    ASSUME NEW t, TreeOK(t), NEW va \in Nat, NEW size \in Nat, va + size <= VaPages,
           NEW x, Filled(t, va, x, va + size),
           NEW page \in Entries, IsPage(t, page), Meets(page, va, va + size)
    PROVE  Covered(page, Looked(t, va, size))
<1>1. PICK f : LookedBy(t, va, size, f)
    BY LookedIs
<1> DEFINE Border(v) == \A e \in Entries : IsPage(t, e) /\ Spans(e, v) => e[2] = v
           All(v, looked) == \A e \in Entries :
               IsPage(t, e) /\ v <= e[2] /\ e[2] < va + size => Covered(e, looked)
           good == {k \in 0 .. size : Border(va + size - k) => All(va + size - k, f[k])}
<1>2. x \in Nat /\ x <= va + size
    BY DEF Filled
<1>3. ASSUME NEW e \in Entries, IsPage(t, e), va <= e[2], e[2] < va + size
      PROVE  e[2] + Covers[e[1]] <= x /\ e[2] < x
  <2>1. e[2] \in Nat /\ Covers[e[1]] \in Nat /\ Covers[e[1]] > 0
      BY EntryShape
  <2>2. Meets(e, va, va + size)
      BY <1>3, <2>1 DEF Meets
  <2>3. e[2] + Covers[e[1]] <= x
      BY <1>3, <2>2 DEF Filled
  <2> QED BY <1>2, <2>1, <2>3
<1>4. ASSUME NEW k \in 0 .. size, \A j \in 0 .. k - 1 : j \in good PROVE k \in good
  <2>1. CASE k = 0
    <3>1. ASSUME NEW e \in Entries PROVE ~ (va + size - 0 <= e[2] /\ e[2] < va + size)
        BY EntryShape
    <3> QED BY <2>1, <3>1
  <2>2. CASE k # 0
    <3>1. PICK v \in 0 .. VaPages - 1 : v = va + size - k /\ va <= v /\ v + k = va + size
      <4>1. va + size - k \in 0 .. VaPages - 1
          BY <2>2, CoversOK
      <4> QED BY <4>1
    <3>2. k \in 1 .. size /\ k \in Nat \ {0} /\ v \in Nat
        BY <2>2
    <3>3. SUFFICES ASSUME Border(v), NEW e \in Entries, IsPage(t, e), v <= e[2], e[2] < va + size
                   PROVE  Covered(e, f[k])
        BY <3>1
    <3>4. f[k] = RunOf(t, v, k) \cup f[After(t, v, k)]
        BY <1>1, <3>1, <3>2 DEF LookedBy
    <3>5. e[2] \in Nat /\ Covers[e[1]] \in Nat /\ Covers[e[1]] > 0 /\ Spans(e, e[2])
        BY EntryShape, SpansFirst
    <3>6. e[2] < x
        BY <1>3, <3>1, <3>2, <3>3, <3>5
    <3>7. PICK p \in Entries : IsPage(t, p) /\ Spans(p, v) /\ p[2] = v
      <4>1. v \in va .. x - 1
          BY <1>2, <3>1, <3>2, <3>3, <3>5, <3>6
      <4> QED BY <3>3, <4>1 DEF Filled
    <3>8. PICK lv \in 1 .. Levels : lv = p[1] /\ lv = Stop(t, v) /\ Entry(lv, v) = p
        BY <3>2, <3>7, PageStops, EntryShape
    <3>9. PICK n \in Nat \ {0} : n = RunLength(lv, v, k)
        BY <3>2, <3>8, RunIs
    <3>10. PICK c \in Nat \ {0}, q \in Nat : c = Covers[lv] /\ q = n * c
      <4>1. Covers[lv] \in Nat \ {0}
          BY CoversOK
      <4> QED BY <4>1, Times
    <3>11. ASSUME NEW i \in 0 .. n - 1, NEW at, at = v + i * c
           PROVE  /\ at \in 0 .. VaPages - 1 /\ Entry(lv, at) = <<lv, at>>
                  /\ \A up \in 1 .. lv - 1 : t[Entry(up, at)] = Table
                  /\ [lv |-> lv, at |-> at] \in f[k]
      <4>1. /\ at \in 0 .. VaPages - 1
            /\ Entry(lv, at) = <<lv, Entry(lv, v)[2] + i * Covers[lv]>>
            /\ \A up \in 1 .. lv - 1 : t[Entry(up, at)] = Table
          BY <3>1, <3>2, <3>8, <3>9, <3>10, <3>11, RunEntry
      <4>2. Entry(lv, at) = <<lv, at>>
          BY <3>7, <3>8, <3>10, <3>11, <4>1
      <4>3. [lv |-> lv, at |-> at] \in RunOf(t, v, k)
          BY <3>8, <3>9, <3>10, <3>11 DEF RunOf
      <4> QED BY <3>4, <4>1, <4>2, <4>3
    \* A page over one of the run's entries is that one, or below it.
    <3>12. ASSUME NEW i \in 0 .. n - 1, NEW at, at = v + i * c, NEW w \in Nat,
                  at <= w, w < at + c, NEW b \in Entries, IsPage(t, b), Spans(b, w)
           PROVE  b = Entry(lv, at) \/ b \in Below(Entry(lv, at))
      <4>1. /\ at \in 0 .. VaPages - 1 /\ Entry(lv, at) = <<lv, at>>
            /\ \A up \in 1 .. lv - 1 : t[Entry(up, at)] = Table
          BY <3>11, <3>12
      <4>2. Spans(Entry(lv, at), w)
          BY <3>10, <3>12, <4>1 DEF Spans
      <4> QED BY <3>12, <4>1, <4>2, UnderTables
    <3>13. CASE e[2] < v + q
      <4>1. PICK d \in Nat : d = e[2] - v /\ e[2] = v + d
        <5>1. e[2] - v \in Nat /\ e[2] = v + (e[2] - v)
            BY <3>2, <3>3, <3>5
        <5> QED BY <5>1
      <4>2. PICK i \in Nat : i * c \in Nat /\ i * c <= d /\ d < i * c + c
          BY Divided
      <4>3. i \in 0 .. n - 1
        <5>1. d < q
            BY <3>13, <4>1
        <5>2. n <= i => n * c <= i * c
            BY Times
        <5>3. ~ (n <= i)
            BY <3>10, <4>2, <5>1, <5>2
        <5> QED BY <5>3
      <4>4. PICK at \in Nat : at = v + i * c
          BY <3>2, <4>2
      <4>5. at <= e[2] /\ e[2] < at + c
          BY <4>1, <4>2, <4>4
      <4>6. e = Entry(lv, at) \/ e \in Below(Entry(lv, at))
          BY <3>3, <3>5, <3>12, <4>3, <4>4, <4>5
      <4>7. [lv |-> lv, at |-> at] \in f[k]
          BY <3>11, <4>3, <4>4
      <4> QED BY <4>6, <4>7 DEF Covered
    <3>14. CASE ~ (e[2] < v + q)
      <4>1. q < k
          BY <3>1, <3>2, <3>3, <3>5, <3>14
      <4>2. PICK j \in 0 .. k - 1 : j = k - q /\ v + q = va + size - j
        <5>1. q # 0
            BY <3>10
        <5> QED BY <3>1, <4>1, <5>1
      <4>3. After(t, v, k) = j
          BY <3>8, <3>9, <3>10, <4>1, <4>2 DEF After
      <4>4. ASSUME NEW b \in Entries, IsPage(t, b), Spans(b, v + q) PROVE b[2] = v + q
        <5>1. SUFFICES ASSUME b[2] < v + q PROVE FALSE
          <6>1. b[2] \in Nat /\ b[2] <= v + q /\ v + q \in Nat
              BY <3>2, <4>4, EntryShape DEF Spans
          <6> QED BY <6>1
        <5>2. PICK i \in Nat : i = n - 1 /\ n = i + 1
          <6>1. n - 1 \in Nat /\ n = (n - 1) + 1
              OBVIOUS
          <6> QED BY <6>1
        <5>3. PICK at \in Nat : at = v + i * c /\ at + c = v + q
          <6>1. i * c \in Nat /\ (i + 1) * c = i * c + 1 * c /\ 1 * c = c
              BY Times
          <6> QED BY <3>2, <3>10, <5>2, <6>1
        <5>4. PICK w \in Nat : w = v + q - 1 /\ at <= w /\ w < at + c /\ w + 1 = v + q
            BY <3>2, <3>10, <5>3
        <5>5. Spans(b, w)
          <6>1. b[2] \in Nat /\ Covers[b[1]] \in Nat
              BY EntryShape
          <6> QED BY <4>4, <5>1, <5>4, <6>1 DEF Spans
        <5>6. b = Entry(lv, at) \/ b \in Below(Entry(lv, at))
          <6>1. i \in 0 .. n - 1
              BY <5>2
          <6> QED BY <3>12, <4>4, <5>3, <5>4, <5>5, <6>1
        <5>7. Entry(lv, at) = <<lv, at>> /\ at \in 0 .. VaPages - 1
          <6>1. i \in 0 .. n - 1
              BY <5>2
          <6> QED BY <3>11, <5>3, <6>1
        <5>8. Entry(lv, at) \in Entries
            BY <5>7, EntryAt
        <5>9. v + q \in Nat
            BY <3>2
        <5>10. Spans(Entry(lv, at), v + q)
            BY <4>4, <5>6, <5>8, <5>9, BelowSpans
        <5> QED BY <3>10, <5>3, <5>7, <5>10 DEF Spans
      <4>5. Border(va + size - j)
          BY <4>2, <4>4
      <4>6. All(va + size - j, f[j])
          BY <1>4, <4>2, <4>5
      <4>7. Covered(e, f[j])
          BY <3>2, <3>3, <3>5, <3>14, <4>2, <4>6
      <4> QED BY <3>4, <4>3, <4>7 DEF Covered
    <3> QED BY <3>13, <3>14
  <2> QED BY <2>1, <2>2
<1>5. size \in good
  <2> HIDE DEF good
  <2>1. \A k \in 0 .. size : k \in good
      BY <1>4, Induct
  <2> QED BY <2>1
<1>6. Border(va)
  <2>1. ASSUME NEW e \in Entries, IsPage(t, e), Spans(e, va) PROVE e[2] = va
    <3>1. e[2] \in Nat /\ Covers[e[1]] \in Nat /\ page[2] \in Nat /\ Covers[page[1]] \in Nat
        BY EntryShape
    <3>2. va <= page[2] /\ page[2] < va + size
        BY DEF Filled, Meets
    <3>3. Meets(e, va, va + size)
        BY <2>1, <3>1, <3>2 DEF Meets, Spans
    <3> QED BY <2>1, <3>1, <3>3 DEF Filled, Spans
  <2> QED BY <2>1
<1>7. va <= page[2] /\ page[2] < va + size
    BY DEF Filled, Meets
<1>8. All(va, f[size])
  <2>1. va + size - size = va
      OBVIOUS
  <2> QED BY <1>5, <1>6, <2>1
<1> QED BY <1>1, <1>7, <1>8 DEF LookedBy

\* What clearing a range does: the pages in it are gone, the others as they were.
LEMMA Cleared ==
    ASSUME NEW t, TreeOK(t), NEW va \in Nat, NEW size \in Nat, va + size <= VaPages,
           NEW x, Filled(t, va, x, va + size), NEW new, new = Unmapped(t, va, size)
    PROVE  /\ TreeOK(new)
           /\ \A e \in Entries : IsPage(new, e) => /\ IsPage(t, e) /\ new[e] = t[e]
                                                   /\ ~ Meets(e, va, va + size)
           /\ \A e \in Entries : IsPage(t, e) /\ ~ Meets(e, va, va + size) => new[e] = t[e]
<1>1. PICK s : s = {Entry(l.lv, l.at) : l \in Looked(t, va, size)}
    OBVIOUS
<1>2. ASSUME NEW l \in Looked(t, va, size)
      PROVE  Look(t, l, va, va + size) /\ Entry(l.lv, l.at) \in Entries
    BY LookedEach, EntryAt DEF Look
<1>3. s \in SUBSET Entries
    BY <1>1, <1>2
<1>4. new = set_entry(t, [e \in s |-> Invalid])
    BY <1>1 DEF Unmapped
<1>5. /\ TreeOK(new)
      /\ \A e \in Entries :
             /\ e \in s \/ (\E b \in s : e \in Below(b)) => new[e] = Invalid
             /\ ~ (e \in s \/ \E b \in s : e \in Below(b)) => new[e] = t[e]
    BY <1>3, <1>4, SetInvalid
<1>6. ASSUME NEW e \in Entries, IsPage(t, e), Meets(e, va, va + size)
      PROVE  new[e] = Invalid
  <2>1. Covered(e, Looked(t, va, size))
      BY <1>6, LookedAll
  <2>2. e \in s \/ \E b \in s : e \in Below(b)
      BY <1>1, <2>1 DEF Covered
  <2> QED BY <1>5, <2>2
<1>7. ASSUME NEW e \in Entries, IsPage(t, e), e \in s \/ \E b \in s : e \in Below(b)
      PROVE  Meets(e, va, va + size)
  <2>1. PICK l \in Looked(t, va, size) : e = Entry(l.lv, l.at) \/ e \in Below(Entry(l.lv, l.at))
      BY <1>1, <1>7
  <2>2. PICK b \in Entries : b = Entry(l.lv, l.at) /\ b[1] = l.lv /\ Spans(b, l.at)
      BY <1>2, EntryAt DEF Look
  <2>3. e[2] \in Nat /\ Covers[e[1]] \in Nat /\ Covers[e[1]] > 0 /\ Spans(e, e[2])
      BY EntryShape, SpansFirst
  <2>4. b[2] \in Nat /\ Covers[b[1]] \in Nat
      BY EntryShape
  <2>5. l.at \in Nat /\ va <= l.at /\ l.at < va + size
      BY <1>2, CoversOK DEF Look
  <2>6. CASE e = b
      BY <2>2, <2>3, <2>5, <2>6 DEF Meets, Spans
  <2>7. CASE e \in Below(b)
    <3>1. t[b] = Table
      <4>1. t[e] # Invalid
          BY <1>7, KindsDiffer
      <4> QED BY <2>7, <4>1 DEF TreeOK
    <3>2. va <= b[2] /\ b[2] + Covers[b[1]] <= va + size
        BY <1>2, <2>2, <3>1 DEF Look
    <3>3. Spans(b, e[2])
        BY <2>3, <2>7, BelowSpans
    <3> QED BY <2>3, <2>4, <3>2, <3>3 DEF Meets, Spans
  <2> QED BY <2>1, <2>2, <2>6, <2>7
<1>8. ASSUME NEW e \in Entries, IsPage(new, e)
      PROVE  IsPage(t, e) /\ new[e] = t[e] /\ ~ Meets(e, va, va + size)
  <2>1. new[e] # Invalid
      BY <1>8, KindsDiffer
  <2>2. new[e] = t[e]
      BY <1>5, <2>1
  <2>3. IsPage(t, e)
      BY <1>8, <2>2 DEF IsPage
  <2> QED BY <1>6, <2>1, <2>2, <2>3
<1>9. ASSUME NEW e \in Entries, IsPage(t, e), ~ Meets(e, va, va + size)
       PROVE  new[e] = t[e]
    BY <1>5, <1>7, <1>9
<1> QED BY <1>5, <1>8, <1>9

\* A range that looks taken has a page in it.
LEMMA MappedHasPage ==
    ASSUME NEW t, TreeOK(t), NEW va \in Nat, NEW size \in Nat, va + size <= VaPages,
           range_is_mapped(t, va, size)
    PROVE  \E e \in Entries : IsPage(t, e) /\ Meets(e, va, va + size)
<1> DEFINE D == {s \in (0 .. VaPages) \X (0 .. VaPages) : s[1] + s[2] <= VaPages}
           S == BOOLEAN
           less(l, r) == <<l.at, IF Covers[l.lv] < r[2] THEN Covers[l.lv] ELSE r[2]>>
           one(r, g) == \E l \in Looked(t, r[1], r[2]) :
               \/ t[Entry(l.lv, l.at)].kind = "page"
               \/ t[Entry(l.lv, l.at)] = Table /\ g[less(l, r)]
           step == [r \in D |-> [g \in [D -> S] |-> one(r, g)]]
           measure == [r \in D |-> r[2]]
<1>1. \A r \in D : r[1] \in Nat /\ r[2] \in Nat /\ r[1] + r[2] <= VaPages /\ r = <<r[1], r[2]>>
    BY CoversOK
<1>2. ASSUME NEW r \in D, NEW l \in Looked(t, r[1], r[2])
      PROVE  /\ l.lv \in 1 .. Levels /\ l.at \in 0 .. VaPages - 1
             /\ r[1] <= l.at /\ l.at < r[1] + r[2]
             /\ t[Entry(l.lv, l.at)] = Table =>
                    /\ less(l, r) \in D /\ less(l, r)[2] < r[2]
                    /\ r[1] <= less(l, r)[1]
                    /\ less(l, r)[1] + less(l, r)[2] <= r[1] + r[2]
  <2>1. Look(t, l, r[1], r[1] + r[2])
      BY <1>1, LookedEach
  <2>2. ASSUME t[Entry(l.lv, l.at)] = Table
        PROVE  less(l, r) = <<l.at, Covers[l.lv]>> /\ Covers[l.lv] < r[2]
               /\ l.at + Covers[l.lv] <= r[1] + r[2]
    <3>1. l.at + Covers[l.lv] <= r[1] + r[2] /\ Covers[l.lv] < r[1] + r[2] - r[1]
        BY <2>1, <2>2 DEF Look
    <3>2. Covers[l.lv] \in Nat
        BY <2>1, CoversOK DEF Look
    <3>3. Covers[l.lv] < r[2]
        BY <1>1, <3>1, <3>2
    <3> QED BY <3>1, <3>3
  <2>3. ASSUME t[Entry(l.lv, l.at)] = Table PROVE <<l.at, Covers[l.lv]>> \in D
    <3>1. Covers[l.lv] \in Nat /\ l.at \in 0 .. VaPages - 1
        BY <2>1, CoversOK DEF Look
    <3>2. l.at + Covers[l.lv] <= VaPages
        BY <1>1, <2>2, <2>3, <3>1, CoversOK
    <3> QED BY <3>1, <3>2, CoversOK
  <2> QED BY <2>1, <2>2, <2>3 DEF Look
<1> HIDE DEF less
<1>3. \A r \in D : \A g \in [D -> S] : one(r, g) \in BOOLEAN
    OBVIOUS
<1>4. ASSUME NEW r \in D, NEW f \in [D -> S], NEW g \in [D -> S],
             \A y \in D : y[2] < r[2] => f[y] = g[y]
      PROVE  one(r, f) = one(r, g)
  <2>1. \A l \in Looked(t, r[1], r[2]) :
            t[Entry(l.lv, l.at)] = Table => f[less(l, r)] = g[less(l, r)]
      BY <1>2, <1>4
  <2> QED BY <2>1
<1>5. \E f \in [D -> S] : \A r \in D : f[r] = step[r][f]
  <2>1. PICK most \in Nat : most = VaPages + 1
      BY CoversOK
  <2>2. measure \in [D -> Nat] /\ (\A r \in D : measure[r] < most) /\ S # {}
    <3>1. \A r \in D : r[2] \in Nat /\ r[2] < most
        BY <1>1, <2>1, CoversOK
    <3>2. TRUE \in S
        OBVIOUS
    <3> HIDE DEF D, S
    <3> QED BY <3>1, <3>2
  <2>3. step \in [D -> [[D -> S] -> S]]
      BY <1>3
  <2>4. \A x \in D : \A f, g \in [D -> S] :
            (\A y \in D : measure[y] < measure[x] => f[y] = g[y]) => step[x][f] = step[x][g]
    <3>1. ASSUME NEW x \in D, NEW f \in [D -> S], NEW g \in [D -> S],
                 \A y \in D : measure[y] < measure[x] => f[y] = g[y]
          PROVE  step[x][f] = step[x][g]
      <4>1. \A y \in D : y[2] < x[2] => f[y] = g[y]
          BY <3>1
      <4>2. one(x, f) = one(x, g)
          BY <1>4, <4>1
      <4> QED BY <4>2
    <3> QED BY <3>1
  <2> HIDE DEF D, S, step, measure
  <2>5. Recurs(D, S, measure, most, step)
      BY <2>1, <2>2, <2>3, <2>4 DEF Recurs
  <2> QED BY <2>5, Recursive
<1>6. PICK f \in [D -> S] : \A r \in D : f[r] = one(r, f)
    BY <1>5
<1> DEFINE body(g) ==
        [r \in {s \in (0 .. VaPages) \X (0 .. VaPages) : s[1] + s[2] <= VaPages} |->
            \E l \in Looked(t, r[1], r[2]) :
                LET e == t[Entry(l.lv, l.at)]
                    n == IF Covers[l.lv] < r[2] THEN Covers[l.lv] ELSE r[2]
                IN  \/ e.kind = "page"
                    \/ e = Table /\ g[<<l.at, n>>]]
<1>7. \A g : body(g) = [r \in D |-> one(r, g)]
    BY Zenon DEF less
<1>8. range_is_mapped(t, va, size) = (CHOOSE g : g = body(g))[<<va, size>>]
    BY Zenon DEF range_is_mapped
<1> HIDE DEF body
<1>9. f = body(f)
    BY <1>6, <1>7
<1>10. PICK g : g = (CHOOSE h : h = body(h))
    OBVIOUS
<1>11. g = body(g)
    BY <1>9, <1>10
<1>12. \A r \in D : g[r] = one(r, g)
    BY <1>7, <1>11
<1> DEFINE Has(r) == \E e \in Entries : IsPage(t, e) /\ Meets(e, r[1], r[1] + r[2])
           good == {k \in 0 .. VaPages : \A r \in D : r[2] = k /\ g[r] => Has(r)}
<1>13. ASSUME NEW k \in 0 .. VaPages, \A j \in 0 .. k - 1 : j \in good PROVE k \in good
  <2>1. SUFFICES ASSUME NEW r \in D, r[2] = k, g[r] PROVE Has(r)
      OBVIOUS
  <2>2. PICK l \in Looked(t, r[1], r[2]) :
            \/ t[Entry(l.lv, l.at)].kind = "page"
            \/ t[Entry(l.lv, l.at)] = Table /\ g[less(l, r)]
      BY <1>12, <2>1
  <2>3. PICK e \in Entries : e = Entry(l.lv, l.at) /\ Spans(e, l.at)
      BY <1>2, EntryAt
  <2>4. CASE t[e].kind = "page"
    <3>1. e[2] \in Nat /\ Covers[e[1]] \in Nat /\ l.at \in Nat
        BY <1>2, EntryShape
    <3>2. Meets(e, r[1], r[1] + r[2])
        BY <1>1, <1>2, <2>3, <3>1 DEF Meets, Spans
    <3> QED BY <2>4, <3>2 DEF IsPage
  <2>5. CASE t[e] = Table /\ g[less(l, r)]
    <3>1. PICK q \in D : q = less(l, r) /\ q[2] < r[2] /\ r[1] <= q[1] /\ q[1] + q[2] <= r[1] + r[2]
        BY <1>2, <2>3, <2>5
    <3>2. q[2] \in 0 .. k - 1
        BY <1>1, <2>1, <3>1
    <3>3. Has(q)
        BY <1>13, <2>5, <3>1, <3>2
    <3>4. PICK b \in Entries : IsPage(t, b) /\ Meets(b, q[1], q[1] + q[2])
        BY <3>3
    <3>5. b[2] \in Nat /\ Covers[b[1]] \in Nat
        BY EntryShape
    <3>6. Meets(b, r[1], r[1] + r[2])
        BY <1>1, <3>1, <3>4, <3>5 DEF Meets
    <3> QED BY <3>4, <3>6
  <2> QED BY <2>2, <2>3, <2>4, <2>5
<1>14. PICK r \in D : r = <<va, size>> /\ r[1] = va /\ r[2] = size
  <2>1. va \in 0 .. VaPages /\ size \in 0 .. VaPages
      BY CoversOK
  <2>2. <<va, size>> \in D
      BY <2>1
  <2> QED BY <2>2
<1>15. g[r]
    BY <1>8, <1>10, <1>14
<1>16. r[2] \in good
  <2> HIDE DEF good
  <2>1. \A k \in 0 .. VaPages : k \in good
      BY <1>13, Induct, CoversOK
  <2> QED BY <1>1, <2>1, CoversOK
<1>17. Has(r)
    BY <1>15, <1>16
<1> QED BY <1>14, <1>17

-----------------------------------------------------------------------------
(***************************************************************************)
(* Building: the leaves of a mapping, side by side over its range.         *)
(***************************************************************************)

\* What tinynv_pt_map writes: a page at an entry, leading to a frame
LeafSet == [at : Entries, frame : Nat]

\* Leaves one after the other, s[i] being where the first i end
Tiled(leaves, s, lo, hi) ==
    /\ leaves \in Seq(LeafSet) /\ s \in [0 .. Len(leaves) -> Nat]
    /\ s[0] = lo /\ s[Len(leaves)] = hi
    /\ \A i \in 1 .. Len(leaves) :
           leaves[i].at[2] = s[i - 1] /\ s[i] = s[i - 1] + Covers[leaves[i].at[1]]

LEMMA TiledSteps ==
    ASSUME NEW leaves, NEW s, NEW lo, NEW hi, Tiled(leaves, s, lo, hi)
    PROVE  /\ Len(leaves) \in Nat
           /\ \A i \in 1 .. Len(leaves) :
                  /\ leaves[i].at \in Entries /\ leaves[i].frame \in Nat
                  /\ i \in Nat /\ i - 1 \in 0 .. Len(leaves) /\ i \in 0 .. Len(leaves)
                  /\ s[i - 1] \in Nat /\ s[i] \in Nat /\ s[i - 1] < s[i]
                  /\ leaves[i].at[2] = s[i - 1]
                  /\ leaves[i].at[2] + Covers[leaves[i].at[1]] = s[i]
<1>1. Len(leaves) \in Nat /\ \A i \in 1 .. Len(leaves) : leaves[i] \in LeafSet
    BY DEF Tiled
<1>2. ASSUME NEW i \in 1 .. Len(leaves)
      PROVE  /\ leaves[i].at \in Entries /\ leaves[i].frame \in Nat
             /\ i \in Nat /\ i - 1 \in 0 .. Len(leaves) /\ i \in 0 .. Len(leaves)
             /\ s[i - 1] \in Nat /\ s[i] \in Nat /\ s[i - 1] < s[i]
             /\ leaves[i].at[2] = s[i - 1]
             /\ leaves[i].at[2] + Covers[leaves[i].at[1]] = s[i]
  <2>1. leaves[i].at \in Entries /\ leaves[i].frame \in Nat
      BY <1>1 DEF LeafSet
  <2>2. i \in Nat /\ i - 1 \in 0 .. Len(leaves) /\ i \in 0 .. Len(leaves)
      BY <1>1
  <2>3. s[i - 1] \in Nat /\ s[i] \in Nat
      BY <2>2 DEF Tiled
  <2>4. leaves[i].at[2] = s[i - 1] /\ s[i] = s[i - 1] + Covers[leaves[i].at[1]]
      BY DEF Tiled
  <2>5. Covers[leaves[i].at[1]] \in Nat /\ Covers[leaves[i].at[1]] > 0
      BY <2>1, EntryShape
  <2> QED BY <2>1, <2>2, <2>3, <2>4, <2>5
<1> QED BY <1>1, <1>2

LEMMA TiledOrder ==
    ASSUME NEW leaves, NEW s, NEW lo, NEW hi, Tiled(leaves, s, lo, hi)
    PROVE  \A j \in 0 .. Len(leaves) : \A i \in 0 .. j : s[i] <= s[j]
<1> DEFINE good == {j \in 0 .. Len(leaves) : \A i \in 0 .. j : s[i] <= s[j]}
<1>1. Len(leaves) \in Nat /\ \A i \in 0 .. Len(leaves) : s[i] \in Nat
    BY DEF Tiled
<1>2. ASSUME NEW k \in 0 .. Len(leaves), \A j \in 0 .. k - 1 : j \in good PROVE k \in good
  <2>1. CASE k = 0
      BY <1>1, <2>1
  <2>2. CASE k # 0
    <3>1. k \in 1 .. Len(leaves) /\ k - 1 \in 0 .. k - 1
        BY <1>1, <2>2
    <3>2. s[k - 1] < s[k] /\ s[k - 1] \in Nat /\ s[k] \in Nat
        BY <3>1, TiledSteps
    <3>3. \A i \in 0 .. k - 1 : s[i] <= s[k - 1]
        BY <1>2, <3>1
    <3>4. ASSUME NEW i \in 0 .. k PROVE s[i] <= s[k]
      <4>1. i = k \/ i \in 0 .. k - 1
          BY <1>1
      <4>2. s[i] \in Nat
          BY <1>1
      <4> QED BY <3>2, <3>3, <4>1, <4>2
    <3> QED BY <3>4
  <2> QED BY <2>1, <2>2
<1>3. \A k \in 0 .. Len(leaves) : k \in good
  <2> HIDE DEF good
  <2> QED BY <1>1, <1>2, Induct
<1> QED BY <1>3

\* The first leaves lie in the range up to where they end, and fill it.
LEMMA TiledFirst ==
    ASSUME NEW leaves, NEW s, NEW lo, NEW hi, Tiled(leaves, s, lo, hi),
           NEW n \in 0 .. Len(leaves)
    PROVE  /\ lo \in Nat /\ hi \in Nat /\ s[n] \in Nat /\ lo <= s[n] /\ s[n] <= hi
           /\ \A i \in 1 .. n : /\ lo <= leaves[i].at[2]
                                /\ leaves[i].at[2] + Covers[leaves[i].at[1]] <= s[n]
           /\ \A w \in lo .. s[n] - 1 : \E i \in 1 .. n : Spans(leaves[i].at, w)
<1>1. /\ Len(leaves) \in Nat /\ \A i \in 0 .. Len(leaves) : s[i] \in Nat
      /\ s[0] = lo /\ s[Len(leaves)] = hi
    BY SMTT(60) DEF Tiled
<1>2. \A j \in 0 .. Len(leaves) : \A i \in 0 .. j : s[i] <= s[j]
    BY TiledOrder
<1>3. lo \in Nat /\ hi \in Nat /\ s[n] \in Nat /\ lo <= s[n] /\ s[n] <= hi
  <2>1. 0 \in 0 .. n /\ n \in 0 .. Len(leaves) /\ Len(leaves) \in 0 .. Len(leaves)
      BY <1>1
  <2> QED BY <1>1, <1>2, <2>1
<1>4. ASSUME NEW i \in 1 .. n
      PROVE  /\ lo <= leaves[i].at[2]
             /\ leaves[i].at[2] + Covers[leaves[i].at[1]] <= s[n]
  <2>1. i \in 1 .. Len(leaves) /\ i \in 0 .. n /\ 0 \in 0 .. i - 1 /\ i - 1 \in 0 .. Len(leaves)
      BY <1>1
  <2>2. s[0] <= s[i - 1] /\ s[i] <= s[n]
      BY <1>2, <2>1
  <2> QED BY <1>1, <2>1, <2>2, TiledSteps
<1>5. ASSUME NEW w \in lo .. s[n] - 1 PROVE \E i \in 1 .. n : Spans(leaves[i].at, w)
  <2> DEFINE past == {j \in 0 .. n : w < s[j]}
  <2>1. w \in Nat /\ lo <= w /\ w < s[n]
      BY <1>3
  <2>2. past \in SUBSET Nat /\ n \in past
      BY <1>1, <2>1
  <2>3. PICK i \in past : \A j \in past : i <= j
      BY <2>2, LeastNumber
  <2>4. i # 0
      BY <1>1, <1>3, <2>1, <2>3
  <2>5. i \in 1 .. n /\ i \in 1 .. Len(leaves) /\ i - 1 \in 0 .. n
      BY <1>1, <2>3, <2>4
  <2>6. i - 1 \notin past
      BY <2>3, <2>5
  <2>7. s[i - 1] <= w /\ w < s[i]
      BY <1>1, <2>1, <2>3, <2>5, <2>6, TiledSteps
  <2>8. leaves[i].at[2] = s[i - 1] /\ leaves[i].at[2] + Covers[leaves[i].at[1]] = s[i]
      BY <2>5, TiledSteps
  <2>9. Spans(leaves[i].at, w)
      BY <2>7, <2>8 DEF Spans
  <2> QED BY <2>5, <2>9
<1> QED BY <1>3, <1>4, <1>5

\* No two leaves share a page.
LEMMA TiledApart ==
    ASSUME NEW leaves, NEW s, NEW lo, NEW hi, Tiled(leaves, s, lo, hi),
           NEW i \in 1 .. Len(leaves), NEW j \in 1 .. Len(leaves), NEW w \in Nat,
           Spans(leaves[i].at, w), Spans(leaves[j].at, w)
    PROVE  i = j
<1>1. /\ i \in Nat /\ j \in Nat /\ Len(leaves) \in Nat
      /\ s[i - 1] <= w /\ w < s[i] /\ s[j - 1] <= w /\ w < s[j]
      /\ s[i - 1] \in Nat /\ s[i] \in Nat /\ s[j - 1] \in Nat /\ s[j] \in Nat
      /\ i - 1 \in 0 .. Len(leaves) /\ j - 1 \in 0 .. Len(leaves)
    BY TiledSteps, SMTT(60) DEF Spans
<1>2. ASSUME i < j PROVE FALSE
  <2>1. i \in 0 .. j - 1
      BY <1>1, <1>2
  <2>2. s[i] <= s[j - 1]
      BY <1>1, <2>1, TiledOrder
  <2> QED BY <1>1, <2>2
<1>3. ASSUME j < i PROVE FALSE
  <2>1. j \in 0 .. i - 1
      BY <1>1, <1>3
  <2>2. s[j] <= s[i - 1]
      BY <1>1, <2>1, TiledOrder
  <2> QED BY <1>1, <2>2
<1> QED BY <1>1, <1>2, <1>3

\* The leaves of a range, in place of memory: what each address leads to
ShowsOne(leaf, shown) ==
    /\ \E k \in Nat : leaf.frame = k * Covers[leaf.at[1]]
    /\ \A w \in Nat : Spans(leaf.at, w) => shown[w] = leaf.frame + (w - leaf.at[2])

Shows(leaves, shown) == \A i \in 1 .. Len(leaves) : ShowsOne(leaves[i], shown)

Tiling(leaves, lo, hi, shown) ==
    (\E s : Tiled(leaves, s, lo, hi)) /\ Shows(leaves, shown)

LEMMA TilingNone ==
    ASSUME NEW lo \in Nat, NEW shown
    PROVE  Tiling(<<>>, lo, lo, shown)
<1>1. PICK s : s = [i \in 0 .. 0 |-> lo]
    OBVIOUS
<1>2. Len(<<>>) = 0 /\ <<>> \in Seq(LeafSet) /\ 1 .. 0 = {}
    OBVIOUS
<1>3. Tiled(<<>>, s, lo, lo)
    BY <1>1, <1>2 DEF Tiled
<1>4. Shows(<<>>, shown)
    BY <1>2 DEF Shows
<1> QED BY <1>3, <1>4 DEF Tiling

LEMMA TilingOne ==
    ASSUME NEW leaf \in LeafSet, NEW shown, NEW hi, hi = leaf.at[2] + Covers[leaf.at[1]],
           \E k \in Nat : leaf.frame = k * Covers[leaf.at[1]],
           \A w \in Nat : Spans(leaf.at, w) => shown[w] = leaf.frame + (w - leaf.at[2])
    PROVE  Tiling(<<leaf>>, leaf.at[2], hi, shown)
<1>1. leaf.at[2] \in Nat /\ hi \in Nat
    BY EntryShape DEF LeafSet
<1>2. PICK s : s = [i \in 0 .. 1 |-> IF i = 0 THEN leaf.at[2] ELSE hi]
    OBVIOUS
<1>3. Len(<<leaf>>) = 1 /\ <<leaf>> \in Seq(LeafSet) /\ <<leaf>>[1] = leaf
    OBVIOUS
<1>4. s \in [0 .. 1 -> Nat] /\ s[0] = leaf.at[2] /\ s[1] = hi
    BY <1>1, <1>2
<1>5. \A i \in 1 .. 1 : i = 1 /\ i - 1 = 0
    OBVIOUS
<1>6. Tiled(<<leaf>>, s, leaf.at[2], hi)
    BY <1>3, <1>4, <1>5 DEF Tiled
<1>7. Shows(<<leaf>>, shown)
    BY <1>3, <1>5 DEF Shows, ShowsOne
<1> QED BY <1>6, <1>7 DEF Tiling

LEMMA TilingBoth ==
    ASSUME NEW a, NEW b, NEW lo, NEW mid, NEW hi, NEW shown,
           Tiling(a, lo, mid, shown), Tiling(b, mid, hi, shown)
    PROVE  Tiling(a \o b, lo, hi, shown)
<1>1. PICK sa, sb : Tiled(a, sa, lo, mid) /\ Tiled(b, sb, mid, hi)
    BY DEF Tiling
<1>2. PICK m \in Nat, n \in Nat : m = Len(a) /\ n = Len(b)
    BY <1>1 DEF Tiled
<1>3. /\ a \in Seq(LeafSet) /\ b \in Seq(LeafSet)
      /\ sa \in [0 .. m -> Nat] /\ sb \in [0 .. n -> Nat]
      /\ sa[0] = lo /\ sa[m] = mid /\ sb[0] = mid /\ sb[n] = hi
    BY <1>1, <1>2 DEF Tiled
<1>4. PICK c, z : c = a \o b /\ z = m + n
    OBVIOUS
<1>5. /\ c \in Seq(LeafSet) /\ Len(c) = z /\ z \in Nat
      /\ \A i \in 1 .. z : c[i] = IF i <= m THEN a[i] ELSE b[i - m]
    BY <1>2, <1>3, <1>4
<1>6. PICK s : s = [i \in 0 .. z |-> IF i <= m THEN sa[i] ELSE sb[i - m]]
    OBVIOUS
<1>7. s \in [0 .. z -> Nat] /\ s[0] = lo /\ s[z] = hi
  <2>1. \A i \in 0 .. z : (i <= m => i \in 0 .. m) /\ (~ (i <= m) => i - m \in 0 .. n)
      BY <1>4
  <2>2. s \in [0 .. z -> Nat]
      BY <1>3, <1>6, <2>1
  <2>3. 0 \in 0 .. z /\ z \in 0 .. z
      BY <1>5
  <2>4. s[0] = lo
      BY <1>3, <1>6, <2>3
  <2>5. s[z] = hi
    <3>1. CASE n = 0
        BY <1>3, <1>4, <1>6, <2>3, <3>1
    <3>2. CASE n # 0
      <4>1. ~ (z <= m) /\ z - m = n
          BY <1>4, <3>2
      <4> QED BY <1>3, <1>6, <2>3, <4>1
    <3> QED BY <3>1, <3>2
  <2> QED BY <2>2, <2>4, <2>5
<1>8. ASSUME NEW i \in 1 .. z
      PROVE  c[i].at[2] = s[i - 1] /\ s[i] = s[i - 1] + Covers[c[i].at[1]]
  <2>1. i \in Nat /\ i \in 0 .. z /\ i - 1 \in 0 .. z
      BY <1>5
  <2>2. CASE i <= m
    <3>1. i \in 1 .. m /\ c[i] = a[i] /\ s[i] = sa[i] /\ s[i - 1] = sa[i - 1]
        BY <1>5, <1>6, <2>1, <2>2
    <3> QED BY <1>1, <1>2, <3>1 DEF Tiled
  <2>3. CASE ~ (i <= m)
    <3>1. PICK j \in 1 .. n : j = i - m /\ i = j + m
      <4>1. i - m \in 1 .. n
          BY <1>4, <2>1, <2>3
      <4> QED BY <2>1, <4>1
    <3>2. c[i] = b[j] /\ s[i] = sb[j]
        BY <1>5, <1>6, <2>1, <2>3, <3>1
    <3>3. s[i - 1] = sb[j - 1]
      <4>1. CASE j = 1
        <5>1. i - 1 = m /\ j - 1 = 0
            BY <3>1, <4>1
        <5> QED BY <1>3, <1>6, <2>1, <5>1
      <4>2. CASE j # 1
        <5>1. ~ (i - 1 <= m) /\ i - 1 - m = j - 1
            BY <3>1, <4>2
        <5> QED BY <1>6, <2>1, <5>1
      <4> QED BY <4>1, <4>2
    <3>4. b[j].at[2] = sb[j - 1] /\ sb[j] = sb[j - 1] + Covers[b[j].at[1]]
        BY <1>1, <1>2 DEF Tiled
    <3> QED BY <3>2, <3>3, <3>4
  <2> QED BY <2>2, <2>3
<1>9. Tiled(c, s, lo, hi)
    BY <1>5, <1>7, <1>8 DEF Tiled
<1>10. Shows(c, shown)
  <2>1. ASSUME NEW i \in 1 .. z
        PROVE (\E j \in 1 .. m : c[i] = a[j]) \/ (\E j \in 1 .. n : c[i] = b[j])
    <3>1. i <= m => i \in 1 .. m /\ c[i] = a[i]
        BY <1>5
    <3>2. ~ (i <= m) => i - m \in 1 .. n /\ c[i] = b[i - m]
        BY <1>4, <1>5
    <3> QED BY <3>1, <3>2
  <2>2. Shows(a, shown) /\ Shows(b, shown)
      BY DEF Tiling
  <2> QED BY <1>2, <1>5, <2>1, <2>2 DEF Shows
<1> QED BY <1>4, <1>9, <1>10 DEF Tiling

\* What the leaves show is told by the addresses in their range.
LEMMA TilingAlso ==
    ASSUME NEW leaves, NEW lo, NEW hi, NEW shown, NEW other, Tiling(leaves, lo, hi, shown),
           \A w \in lo .. hi - 1 : other[w] = shown[w]
    PROVE  Tiling(leaves, lo, hi, other)
<1>1. PICK s : Tiled(leaves, s, lo, hi)
    BY DEF Tiling
<1>2. PICK n \in Nat : n = Len(leaves) /\ n \in 0 .. Len(leaves) /\ s[n] = hi
    BY <1>1 DEF Tiled
<1>3. lo \in Nat /\ hi \in Nat
    BY <1>1, <1>2, TiledFirst
<1>4. ASSUME NEW i \in 1 .. n, NEW w \in Nat, Spans(leaves[i].at, w) PROVE w \in lo .. hi - 1
  <2>1. lo <= leaves[i].at[2] /\ leaves[i].at[2] + Covers[leaves[i].at[1]] <= hi
      BY <1>1, <1>2, TiledFirst
  <2>2. leaves[i].at \in Entries
      BY <1>1, <1>2, TiledSteps
  <2>3. leaves[i].at[2] \in Nat /\ Covers[leaves[i].at[1]] \in Nat
      BY <2>2, EntryShape
  <2> QED BY <1>3, <1>4, <2>1, <2>3 DEF Spans
<1>5. Shows(leaves, shown)
    BY DEF Tiling
<1>6. Shows(leaves, other)
    BY <1>2, <1>4, <1>5 DEF Shows, ShowsOne
<1> QED BY <1>1, <1>6 DEF Tiling

\* A number that lines up with a page size
Multiple(x, c) == \E k \in Nat : x = k * c

LEMMA PageLevelIs ==
    ASSUME NEW va \in Nat, NEW frame \in Nat, NEW left \in Nat \ {0},
           NEW lv, lv = PageLevel(va, frame, left)
    PROVE  /\ lv \in 1 .. Levels /\ Covers[lv] \in Nat \ {0}
           /\ Covers[lv] <= left
           /\ Multiple(frame, Covers[lv]) /\ Multiple(va, Covers[lv])
<1> DEFINE Fits(l) == /\ Covers[l] <= left
                      /\ supports_huge_page(l, frame)
                      /\ va % Covers[l] = 0
           fits == {l \in 1 .. Levels : Fits(l)}
           Is(l) == Fits(l) /\ \A up \in 1 .. l - 1 : ~ Fits(up)
<1>1. Levels \in fits
  <2>1. Covers[Levels] = 1 /\ Levels \in 1 .. Levels /\ Levels \in Nat
      BY CoversOK
  <2>2. HugeLevels \in Nat /\ HugeLevels > 0
      BY PageTableAssumption
  <2>3. Levels > Levels - HugeLevels
      BY <2>1, <2>2
  <2>4. frame % 1 = 0 /\ va % 1 = 0 /\ 1 <= left
      OBVIOUS
  <2> QED BY <2>1, <2>3, <2>4 DEF supports_huge_page
<1> HIDE DEF Fits
<1>2. fits \in SUBSET Nat
    BY CoversOK
<1>3. PICK l \in fits : \A j \in fits : l <= j
    BY <1>1, <1>2, LeastNumber
<1>4. Is(l) /\ l \in 1 .. Levels
  <2>1. ASSUME NEW up \in 1 .. l - 1 PROVE ~ Fits(up)
    <3>1. up \in 1 .. Levels /\ ~ (l <= up)
        BY <1>2, CoversOK
    <3> QED BY <1>3, <3>1
  <2> QED BY <2>1
<1>5. lv = CHOOSE z \in 1 .. Levels : Is(z)
    BY DEF PageLevel, Fits
<1> HIDE DEF Is
<1>6. lv \in 1 .. Levels /\ Is(lv)
    BY <1>4, <1>5
<1>7. Fits(lv)
    BY <1>6 DEF Is
<1>8. Covers[lv] \in Nat \ {0}
    BY <1>6, CoversOK
<1>9. PICK c \in Nat \ {0} : c = Covers[lv]
    BY <1>8
<1>10. c <= left /\ frame % c = 0 /\ va % c = 0
    BY <1>7, <1>9 DEF Fits, supports_huge_page
<1>11. Multiple(frame, c) /\ Multiple(va, c)
    BY <1>10, Divides DEF Multiple
<1> QED BY <1>6, <1>8, <1>9, <1>10, <1>11

\* What memory comes in: a frame, and how many from there
RangeSet == [paddr : Nat, size : Nat]

LEMMA LeafAt ==
    ASSUME NEW va \in Nat, NEW paddr \in Nat, NEW size \in Nat, NEW off \in 0 .. size, off # size,
           NEW lv, lv = PageLevel(va + off, paddr + off, size - off)
    PROVE  /\ lv \in 1 .. Levels /\ Covers[lv] \in Nat \ {0} /\ Covers[lv] <= size - off
           /\ Multiple(paddr + off, Covers[lv]) /\ Multiple(va + off, Covers[lv])
<1>1. PICK a \in Nat, q \in Nat, l \in Nat \ {0} : a = va + off /\ q = paddr + off /\ l = size - off
  <2>1. va + off \in Nat /\ paddr + off \in Nat /\ size - off \in Nat \ {0}
      OBVIOUS
  <2> QED BY <2>1
<1>2. lv = PageLevel(a, q, l)
    BY <1>1
<1>3. /\ lv \in 1 .. Levels /\ Covers[lv] \in Nat \ {0} /\ Covers[lv] <= l
      /\ Multiple(q, Covers[lv]) /\ Multiple(a, Covers[lv])
    BY <1>2, PageLevelIs
<1> QED BY <1>1, <1>3

LEMMA LeavesTile ==
    ASSUME NEW va \in Nat, NEW range \in RangeSet, va + range.size <= VaPages, NEW shown,
           \A j \in 0 .. range.size - 1 : shown[va + j] = range.paddr + j
    PROVE  Tiling(Leaves(va, range), va, va + range.size, shown)
<1>1. PICK size \in Nat, paddr \in Nat : size = range.size /\ paddr = range.paddr
    BY DEF RangeSet
<1> DEFINE D == 0 .. size
           S == Seq(LeafSet)
           lvl(off) == PageLevel(va + off, paddr + off, size - off)
           leaf(off) == [at |-> Entry(lvl(off), va + off), frame |-> paddr + off]
           one(off, g) == IF off = size THEN <<>>
                          ELSE <<leaf(off)>> \o g[off + Covers[lvl(off)]]
           step == [x \in D |-> [g \in [D -> S] |-> one(x, g)]]
           measure == [x \in D |-> size - x]
<1>2. ASSUME NEW off \in D, off # size
      PROVE  \E lv \in 1 .. Levels, c \in Nat \ {0} :
                 /\ lv = lvl(off) /\ c = Covers[lv] /\ c <= size - off
                 /\ (\E k \in Nat : paddr + off = k * c) /\ (\E k \in Nat : va + off = k * c)
  <2>1. PICK h : h = lvl(off)
      OBVIOUS
  <2>2. /\ h \in 1 .. Levels /\ Covers[h] \in Nat \ {0} /\ Covers[h] <= size - off
        /\ Multiple(paddr + off, Covers[h]) /\ Multiple(va + off, Covers[h])
      BY <1>2, <2>1, LeafAt
  <2> HIDE DEF lvl
  <2> QED BY <2>1, <2>2 DEF Multiple
<1>3. ASSUME NEW off \in D, off # size
      PROVE  /\ leaf(off) \in LeafSet /\ leaf(off).at = <<lvl(off), va + off>>
             /\ off + Covers[lvl(off)] \in D /\ off < off + Covers[lvl(off)]
             /\ \E k \in Nat : paddr + off = k * Covers[lvl(off)]
  <2>1. PICK lv \in 1 .. Levels, c \in Nat \ {0} :
            /\ lv = lvl(off) /\ c = Covers[lv] /\ c <= size - off
            /\ (\E k \in Nat : paddr + off = k * c) /\ (\E k \in Nat : va + off = k * c)
      BY <1>2, <1>3
  <2>2. va + off \in 0 .. VaPages - 1 /\ off \in Nat /\ va + off \in Nat /\ paddr + off \in Nat
      BY <1>1, <1>3, CoversOK
  <2>3. Entry(lv, va + off) \in Entries
      BY <2>2, EntryAt
  <2>4. PICK k \in Nat : va + off = k * c
      BY <2>1
  <2>5. ((va + off) \div c) * c = va + off
      BY <2>4, Whole
  <2>6. Entry(lv, va + off) = <<lv, va + off>>
      BY <2>1, <2>5 DEF Entry
  <2>7. \E j \in Nat : paddr + off = j * c
      BY <2>1
  <2>8. off + c \in D /\ off < off + c
      BY <2>1
  <2>9. leaf(off) \in LeafSet /\ leaf(off).at = <<lvl(off), va + off>>
      BY <2>1, <2>2, <2>3, <2>6 DEF LeafSet
  <2> QED BY <2>1, <2>7, <2>8, <2>9
<1>4. \A off \in D : off # size => leaf(off).frame = paddr + off
    OBVIOUS
<1> HIDE DEF leaf, lvl
<1>5. \A x \in D : \A g \in [D -> S] : one(x, g) \in S
  <2>1. ASSUME NEW x \in D, NEW g \in [D -> S], x # size PROVE one(x, g) \in S
    <3>1. leaf(x) \in LeafSet /\ g[x + Covers[lvl(x)]] \in Seq(LeafSet)
        BY <1>3, <2>1
    <3>2. <<leaf(x)>> \in Seq(LeafSet)
        BY <3>1
    <3> QED BY <2>1, <3>1, <3>2
  <2>2. <<>> \in S
      OBVIOUS
  <2> QED BY <2>1, <2>2
<1>6. \E f \in [D -> S] : \A x \in D : f[x] = step[x][f]
  <2>1. PICK most \in Nat : most = size + 1
      OBVIOUS
  <2>2. measure \in [D -> Nat] /\ (\A x \in D : measure[x] < most)
      BY <2>1
  <2>3. <<>> \in S
      OBVIOUS
  <2>4. step \in [D -> [[D -> S] -> S]]
      BY <1>5
  <2>5. \A x \in D : \A f, g \in [D -> S] :
            (\A y \in D : measure[y] < measure[x] => f[y] = g[y]) => step[x][f] = step[x][g]
    <3>1. ASSUME NEW x \in D, NEW f \in [D -> S], NEW g \in [D -> S],
                 \A y \in D : measure[y] < measure[x] => f[y] = g[y]
          PROVE  step[x][f] = step[x][g]
      <4>1. x # size => f[x + Covers[lvl(x)]] = g[x + Covers[lvl(x)]]
        <5>1. SUFFICES ASSUME x # size PROVE f[x + Covers[lvl(x)]] = g[x + Covers[lvl(x)]]
            OBVIOUS
        <5>2. PICK y \in D : y = x + Covers[lvl(x)] /\ x < y
            BY <1>3, <5>1
        <5>3. measure[y] < measure[x]
            BY <5>2
        <5> QED BY <3>1, <5>2, <5>3
      <4>2. one(x, f) = one(x, g)
          BY <4>1
      <4> QED BY <4>2
    <3> QED BY <3>1
  <2> HIDE DEF D, S, step, measure
  <2>6. Recurs(D, S, measure, most, step)
      BY <2>1, <2>2, <2>3, <2>4, <2>5 DEF Recurs
  <2> QED BY <2>6, Recursive
<1>7. PICK f \in [D -> S] : \A x \in D : f[x] = one(x, f)
    BY <1>6
<1> DEFINE body(g) == [off \in 0 .. range.size |->
                IF off = range.size THEN <<>> ELSE
                LET lv == PageLevel(va + off, range.paddr + off, range.size - off)
                IN  <<[at |-> Entry(lv, va + off), frame |-> range.paddr + off]>>
                        \o g[off + Covers[lv]]]
<1>8. \A g : body(g) = [x \in D |-> one(x, g)]
    BY <1>1, Zenon DEF leaf, lvl
<1>9. Leaves(va, range) = (CHOOSE g : g = body(g))[0]
    BY Zenon DEF Leaves
<1> HIDE DEF body
<1>10. f = body(f)
    BY <1>7, <1>8
<1>11. PICK g : g = (CHOOSE h : h = body(h))
    OBVIOUS
<1>12. g = body(g)
    BY <1>10, <1>11
<1>13. \A x \in D : g[x] = one(x, g)
    BY <1>8, <1>12
<1> DEFINE good == {k \in 0 .. size : Tiling(g[size - k], va + (size - k), va + size, shown)}
<1>14. ASSUME NEW k \in 0 .. size, \A j \in 0 .. k - 1 : j \in good PROVE k \in good
  <2>1. PICK off \in D : off = size - k /\ size - off = k
    <3>1. size - k \in D /\ size - (size - k) = k
        OBVIOUS
    <3> QED BY <3>1
  <2>2. SUFFICES Tiling(g[off], va + off, va + size, shown)
      BY <2>1
  <2>3. CASE off = size
    <3>1. g[off] = <<>> /\ va + off = va + size /\ va + size \in Nat
      <4>1. g[off] = one(off, g)
          BY <1>13
      <4> QED BY <2>3, <4>1
    <3> QED BY <3>1, TilingNone
  <2>4. CASE off # size
    <3>1. PICK c \in Nat \ {0}, next \in D :
              c = Covers[lvl(off)] /\ next = off + c /\ off < next /\ lvl(off) \in 1 .. Levels
      <4>1. lvl(off) \in 1 .. Levels /\ Covers[lvl(off)] \in Nat \ {0}
          BY <1>2, <2>4
      <4>2. off + Covers[lvl(off)] \in D /\ off < off + Covers[lvl(off)]
          BY <1>3, <2>4
      <4> QED BY <4>1, <4>2
    <3>2. g[off] = <<leaf(off)>> \o g[next]
        BY <1>13, <2>4, <3>1
    <3>3. Tiling(g[next], va + next, va + size, shown)
      <4>1. PICK j \in 0 .. k - 1 : j = size - next /\ size - j = next
        <5>1. size - next \in 0 .. k - 1 /\ size - (size - next) = next
            BY <2>1, <3>1, SMTT(60)
        <5> QED BY <5>1
      <4>2. j \in good
          BY <1>14
      <4> QED BY <4>1, <4>2
    <3>4. PICK one1 : one1 = leaf(off)
        OBVIOUS
    <3>5. /\ one1 \in LeafSet /\ one1.at = <<lvl(off), va + off>> /\ one1.frame = paddr + off
          /\ \E k1 \in Nat : one1.frame = k1 * c
        BY <1>3, <1>4, <2>4, <3>1, <3>4
    <3>6. one1.at[1] = lvl(off) /\ one1.at[2] = va + off
        BY <3>5
    <3>7. ASSUME NEW w \in Nat, Spans(one1.at, w)
          PROVE  shown[w] = one1.frame + (w - one1.at[2])
      <4>1. va + off <= w /\ w < va + off + c
          BY <3>1, <3>6, <3>7 DEF Spans
      <4>2. PICK j \in 0 .. size - 1 : j = w - va /\ w = va + j
        <5>1. w - va \in 0 .. size - 1 /\ w = va + (w - va)
            BY <3>1, <4>1, SMTT(60)
        <5> QED BY <5>1
      <4>3. shown[w] = paddr + j
          BY <1>1, <4>2
      <4>4. paddr + off + (w - (va + off)) = paddr + j
          BY <4>1, <4>2
      <4> QED BY <3>5, <3>6, <4>3, <4>4
    <3>8. va + next = one1.at[2] + Covers[one1.at[1]]
        BY <3>1, <3>6
    <3>9. Tiling(<<one1>>, va + off, va + next, shown)
      <4>1. \E k1 \in Nat : one1.frame = k1 * Covers[one1.at[1]]
          BY <3>1, <3>5, <3>6
      <4>2. Tiling(<<one1>>, one1.at[2], va + next, shown)
          BY <3>5, <3>7, <3>8, <4>1, TilingOne
      <4> QED BY <3>6, <4>2
    <3>10. Tiling(<<one1>> \o g[next], va + off, va + size, shown)
        BY <3>3, <3>9, TilingBoth
    <3> QED BY <3>2, <3>4, <3>10
  <2> QED BY <2>3, <2>4
<1>15. size \in good
  <2> HIDE DEF good
  <2>1. \A k \in 0 .. size : k \in good
      BY <1>14, Induct
  <2> QED BY <2>1
<1>16. Tiling(g[0], va, va + size, shown)
  <2>1. size - size = 0 /\ va + 0 = va
      OBVIOUS
  <2> QED BY <1>15, <2>1
<1> QED BY <1>1, <1>9, <1>11, <1>16

LEMMA Joined ==
    ASSUME NEW S, NEW a \in Seq(S), NEW b \in Seq(S), NEW c, c = a \o b
    PROVE  /\ c \in Seq(S) /\ Len(c) = Len(a) + Len(b) /\ Len(a) \in Nat /\ Len(b) \in Nat
           /\ \A j \in 1 .. Len(c) : c[j] = IF j <= Len(a) THEN a[j] ELSE b[j - Len(a)]
    OBVIOUS

LEMMA RunIsSeq ==
    ASSUME NEW paddr \in Nat, NEW size \in Nat
    PROVE  /\ Run(paddr, size) \in Seq(Nat) /\ Len(Run(paddr, size)) = size
           /\ \A i \in 1 .. size : Run(paddr, size)[i] = paddr + i - 1
<1>1. \A i \in 1 .. size : paddr + i - 1 \in Nat
    OBVIOUS
<1> QED BY <1>1 DEF Run

\* The pages of the ranges before each
PagesBy(ranges, p) ==
    /\ p \in [0 .. Len(ranges) -> Seq(Nat)]
    /\ p[0] = <<>> /\ p[Len(ranges)] = PagesIn(ranges)
    /\ \A i \in 1 .. Len(ranges) : p[i] = p[i - 1] \o Run(ranges[i].paddr, ranges[i].size)

LEMMA PagesInIs ==
    ASSUME NEW ranges \in Seq(RangeSet)
    PROVE  (\E p : PagesBy(ranges, p)) /\ PagesIn(ranges) \in Seq(Nat)
<1>1. PICK m \in Nat : m = Len(ranges)
    OBVIOUS
<1> DEFINE D == 0 .. m
           S == Seq(Nat)
           one(i, g) == IF i = 0 THEN <<>>
                        ELSE g[i - 1] \o Run(ranges[i].paddr, ranges[i].size)
           step == [x \in D |-> [g \in [D -> S] |-> one(x, g)]]
           measure == [x \in D |-> x]
<1>2. \A i \in 1 .. m : i - 1 \in D /\ i - 1 < i /\ Run(ranges[i].paddr,
        ranges[i].size) \in Seq(Nat)
  <2>1. ASSUME NEW i \in 1 .. m PROVE Run(ranges[i].paddr, ranges[i].size) \in Seq(Nat)
    <3>1. ranges[i] \in RangeSet
        BY <1>1
    <3>2. ranges[i].paddr \in Nat /\ ranges[i].size \in Nat
        BY <3>1 DEF RangeSet
    <3> QED BY <3>2, RunIsSeq
  <2>2. \A i \in 1 .. m : i - 1 \in D /\ i - 1 < i
      OBVIOUS
  <2> QED BY <2>1, <2>2
<1>3. \A x \in D : \A g \in [D -> S] : one(x, g) \in S
  <2>1. ASSUME NEW x \in D, NEW g \in [D -> S], x # 0 PROVE one(x, g) \in S
    <3>1. x \in 1 .. m
        BY <2>1
    <3>2. g[x - 1] \in Seq(Nat) /\ Run(ranges[x].paddr, ranges[x].size) \in Seq(Nat)
        BY <1>2, <3>1
    <3> QED BY <2>1, <3>2
  <2>2. <<>> \in S
      OBVIOUS
  <2> QED BY <2>1, <2>2
<1>4. \E f \in [D -> S] : \A x \in D : f[x] = step[x][f]
  <2>1. PICK most \in Nat : most = m + 1
      OBVIOUS
  <2>2. measure \in [D -> Nat] /\ (\A x \in D : measure[x] < most)
      BY <2>1
  <2>3. <<>> \in S
      OBVIOUS
  <2>4. step \in [D -> [[D -> S] -> S]]
      BY <1>3
  <2>5. \A x \in D : \A f, g \in [D -> S] :
            (\A y \in D : measure[y] < measure[x] => f[y] = g[y]) => step[x][f] = step[x][g]
    <3>1. ASSUME NEW x \in D, NEW f \in [D -> S], NEW g \in [D -> S],
                 \A y \in D : measure[y] < measure[x] => f[y] = g[y]
          PROVE  step[x][f] = step[x][g]
      <4>1. x # 0 => f[x - 1] = g[x - 1]
        <5>1. SUFFICES ASSUME x # 0 PROVE f[x - 1] = g[x - 1]
            OBVIOUS
        <5>2. x - 1 \in D /\ measure[x - 1] < measure[x]
            BY <5>1
        <5> QED BY <3>1, <5>2
      <4>2. one(x, f) = one(x, g)
          BY <4>1
      <4> QED BY <4>2
    <3> QED BY <3>1
  <2> HIDE DEF D, S, step, measure
  <2>6. Recurs(D, S, measure, most, step)
      BY <2>1, <2>2, <2>3, <2>4, <2>5 DEF Recurs
  <2> QED BY <2>6, Recursive
<1>5. PICK f \in [D -> S] : \A x \in D : f[x] = one(x, f)
    BY <1>4
<1> DEFINE body(g) == [i \in 0 .. Len(ranges) |->
                IF i = 0 THEN <<>> ELSE g[i - 1] \o Run(ranges[i].paddr, ranges[i].size)]
<1>6. \A g : body(g) = [x \in D |-> one(x, g)]
    BY <1>1, Zenon
<1>7. PagesIn(ranges) = (CHOOSE g : g = body(g))[Len(ranges)]
    BY Zenon DEF PagesIn
<1> HIDE DEF body
<1>8. f = body(f)
    BY <1>5, <1>6
<1>9. PICK g : g = (CHOOSE h : h = body(h))
    OBVIOUS
<1>10. g = body(g)
    BY <1>8, <1>9
<1>11. g = [x \in D |-> one(x, g)]
    BY <1>6, <1>10
<1>12. \A x \in D : g[x] = one(x, g)
    BY <1>11, Zenon
<1> DEFINE good == {k \in D : g[k] \in Seq(Nat)}
<1>13. ASSUME NEW k \in 0 .. m, \A j \in 0 .. k - 1 : j \in good PROVE k \in good
  <2>1. CASE k = 0
    <3>1. g[k] = <<>>
        BY <1>12, <2>1
    <3>2. g[k] \in Seq(Nat)
        BY <3>1
    <3> QED BY <3>2
  <2>2. CASE k # 0
    <3>1. k \in 1 .. m /\ k - 1 \in 0 .. k - 1
        BY <2>2
    <3>2. g[k - 1] \in Seq(Nat) /\ Run(ranges[k].paddr, ranges[k].size) \in Seq(Nat)
        BY <1>2, <1>13, <3>1
    <3>3. g[k] = g[k - 1] \o Run(ranges[k].paddr, ranges[k].size)
        BY <1>12, <2>2
    <3>4. g[k] \in Seq(Nat)
        BY <3>2, <3>3, Joined
    <3> QED BY <3>4
  <2> QED BY <2>1, <2>2
<1>14. \A k \in 0 .. m : g[k] \in Seq(Nat)
  <2>1. \A k \in 0 .. m : k \in good
    <3> HIDE DEF good
    <3> QED BY <1>13, Induct
  <2> QED BY <2>1
<1>15. g \in [0 .. m -> Seq(Nat)]
  <2>1. g = [x \in D |-> g[x]]
      BY <1>11
  <2> QED BY <1>14, <2>1
<1>16. \A i \in 1 .. m : g[i] = g[i - 1] \o Run(ranges[i].paddr, ranges[i].size)
  <2>1. ASSUME NEW i \in 1 .. m PROVE g[i] = g[i - 1] \o Run(ranges[i].paddr, ranges[i].size)
    <3>1. i \in D /\ i # 0
        OBVIOUS
    <3>2. g[i] = one(i, g)
        BY <1>12, <3>1
    <3> QED BY <3>1, <3>2
  <2> QED BY <2>1
<1>17. g[0] = <<>>
  <2>1. 0 \in D
      OBVIOUS
  <2>2. g[0] = one(0, g)
      BY <1>12, <2>1
  <2> QED BY <2>2
<1>18. g[m] = PagesIn(ranges)
    BY <1>1, <1>7, <1>9
<1>19. PagesBy(ranges, g)
    BY <1>1, <1>15, <1>16, <1>17, <1>18 DEF PagesBy
<1>20. g[m] \in Seq(Nat)
  <2>1. m \in 0 .. m
      OBVIOUS
  <2> QED BY <1>14, <2>1
<1> QED BY <1>18, <1>19, <1>20

LEMMA PagesByLens ==
    ASSUME NEW ranges \in Seq(RangeSet), NEW p, PagesBy(ranges, p)
    PROVE  /\ Len(ranges) \in Nat
           /\ \A i \in 1 .. Len(ranges) :
                  /\ ranges[i] \in RangeSet /\ p[i - 1] \in Seq(Nat) /\ p[i] \in Seq(Nat)
                  /\ Len(p[i]) = Len(p[i - 1]) + ranges[i].size
                  /\ \A j \in 1 .. Len(p[i - 1]) : p[i][j] = p[i - 1][j]
                  /\ \A j \in 0 .. ranges[i].size - 1 :
                         p[i][Len(p[i - 1]) + j + 1] = ranges[i].paddr + j
           /\ \A i \in 0 .. Len(ranges) : Len(p[i]) \in Nat /\ Len(p[i]) <= Len(PagesIn(ranges))
<1>1. PICK m \in Nat : m = Len(ranges) /\ p[m] = PagesIn(ranges) /\ p \in [0 .. m -> Seq(Nat)]
    BY DEF PagesBy
<1>2. ASSUME NEW i \in 1 .. m
      PROVE  /\ ranges[i] \in RangeSet /\ p[i - 1] \in Seq(Nat) /\ p[i] \in Seq(Nat)
             /\ Len(p[i]) = Len(p[i - 1]) + ranges[i].size
             /\ \A j \in 1 .. Len(p[i - 1]) : p[i][j] = p[i - 1][j]
             /\ \A j \in 0 .. ranges[i].size - 1 :
                    p[i][Len(p[i - 1]) + j + 1] = ranges[i].paddr + j
  <2>1. ranges[i] \in RangeSet
      BY <1>1
  <2>2. PICK a \in Nat, z \in Nat : a = ranges[i].paddr /\ z = ranges[i].size
      BY <2>1 DEF RangeSet
  <2>3. p[i - 1] \in Seq(Nat) /\ p[i] \in Seq(Nat)
    <3>1. i \in 0 .. m /\ i - 1 \in 0 .. m
        OBVIOUS
    <3> QED BY <1>1, <3>1
  <2>4. PICK r \in Seq(Nat) : r = Run(a, z) /\ Len(r) = z /\ \A j \in 1 .. z : r[j] = a + j - 1
      BY RunIsSeq
  <2>5. PICK q \in Seq(Nat), n \in Nat : q = p[i - 1] /\ n = Len(q)
      BY <2>3
  <2>6. p[i] = q \o r
      BY <1>1, <2>2, <2>4, <2>5 DEF PagesBy
  <2>7. Len(q \o r) = n + z /\ \A j \in 1 .. n + z : (q \o r)[j] = IF j <= n THEN q[j] ELSE r[j - n]
    <3>1. PICK c : c = q \o r
        OBVIOUS
    <3>2. /\ Len(c) = Len(q) + Len(r)
          /\ \A j \in 1 .. Len(c) : c[j] = IF j <= Len(q) THEN q[j] ELSE r[j - Len(q)]
        BY <3>1, Joined
    <3> QED BY <2>4, <2>5, <3>1, <3>2
  <2>8. \A j \in 1 .. n : p[i][j] = q[j]
      BY <2>6, <2>7
  <2>9. ASSUME NEW j \in 0 .. z - 1 PROVE p[i][n + j + 1] = a + j
    <3>1. PICK x \in 1 .. n + z : x = n + j + 1 /\ ~ (x <= n) /\ x - n = j + 1
      <4>1. n + j + 1 \in 1 .. n + z /\ ~ (n + j + 1 <= n) /\ n + j + 1 - n = j + 1
          OBVIOUS
      <4> QED BY <4>1
    <3>2. p[i][x] = r[j + 1]
        BY <2>6, <2>7, <3>1
    <3>3. j + 1 \in 1 .. z /\ a + (j + 1) - 1 = a + j
        OBVIOUS
    <3> QED BY <2>4, <3>1, <3>2, <3>3
  <2> QED BY <2>1, <2>2, <2>3, <2>5, <2>6, <2>7, <2>8, <2>9
<1>3. \A i \in 0 .. m : Len(p[i]) \in Nat
    BY <1>1
<1> DEFINE good == {k \in 0 .. m : Len(p[m - k]) <= Len(p[m])}
<1>4. ASSUME NEW k \in 0 .. m, \A j \in 0 .. k - 1 : j \in good PROVE k \in good
  <2>1. CASE k = 0
    <3>1. m - k = m /\ Len(p[m]) \in Nat
        BY <1>3, <2>1
    <3> QED BY <3>1
  <2>2. CASE k # 0
    <3>1. PICK i \in 1 .. m : i = m - k + 1 /\ i - 1 = m - k /\ m - (k - 1) = i
                          /\ k - 1 \in 0 .. k - 1
      <4>1. /\ m - k + 1 \in 1 .. m /\ m - k + 1 - 1 = m - k /\ m - (k - 1) = m - k + 1
            /\ k - 1 \in 0 .. k - 1
          BY <2>2
      <4> QED BY <4>1
    <3>2. Len(p[i]) <= Len(p[m])
        BY <1>4, <3>1
    <3>3. Len(p[i]) = Len(p[i - 1]) + ranges[i].size /\ ranges[i].size \in Nat
        BY <1>2 DEF RangeSet
    <3>4. Len(p[i - 1]) \in Nat /\ Len(p[m]) \in Nat
      <4>1. i - 1 \in 0 .. m /\ m \in 0 .. m
          OBVIOUS
      <4> QED BY <1>3, <4>1
    <3>5. Len(p[i - 1]) <= Len(p[m])
        BY <3>2, <3>3, <3>4
    <3> QED BY <3>1, <3>5
  <2> QED BY <2>1, <2>2
<1>5. \A k \in 0 .. m : k \in good
  <2> HIDE DEF good
  <2> QED BY <1>4, Induct
<1>6. ASSUME NEW i \in 0 .. m PROVE Len(p[i]) <= Len(p[m])
  <2>1. m - i \in 0 .. m /\ m - (m - i) = i
      OBVIOUS
  <2>2. m - i \in good
      BY <1>5, <2>1
  <2> QED BY <2>1, <2>2
<1> QED BY <1>1, <1>2, <1>3, <1>6

\* The leaves of a buffer lie side by side over its addresses, and lead each
\* to its page of memory.
LEMMA LeavesOfTile ==
    ASSUME NEW va \in Nat, NEW ranges \in Seq(RangeSet), NEW pages, pages = PagesIn(ranges),
           va + Len(pages) <= VaPages,
           NEW shown, \A j \in 1 .. Len(pages) : shown[va + j - 1] = pages[j]
    PROVE  Tiling(LeavesOf(va, ranges), va, va + Len(pages), shown)
<1>1. PICK p : PagesBy(ranges, p)
    BY PagesInIs
<1>2. PICK m \in Nat, n \in Nat : /\ m = Len(ranges) /\ n = Len(pages) /\ p[m] = pages
                                  /\ p[0] = <<>> /\ pages \in Seq(Nat)
  <2>1. pages \in Seq(Nat) /\ Len(ranges) \in Nat
      BY PagesInIs, PagesByLens, <1>1
  <2> QED BY <1>1, <2>1 DEF PagesBy
<1> DEFINE D == 0 .. m
           S == [leaves : Seq(LeafSet), next : Nat]
           s0 == [leaves |-> <<>>, next |-> va]
           more(i, b) == [leaves |-> b.leaves \o Leaves(b.next, ranges[i]),
                          next |-> b.next + ranges[i].size]
           one(i, g) == IF i = 0 THEN s0 ELSE more(i, g[i - 1])
           kept1(v) == IF v \in S THEN v ELSE s0
           step == [x \in D |-> [g \in [D -> S] |-> kept1(one(x, g))]]
           measure == [x \in D |-> x]
           at(i) == [w \in Nat |-> p[i][w - va + 1]]
           Good(i, b) == /\ b \in S /\ b.next = va + Len(p[i])
                         /\ Tiling(b.leaves, va, va + Len(p[i]), at(i))
<1>3. s0 \in S
  <2>1. <<>> \in Seq(LeafSet)
      OBVIOUS
  <2> QED BY <2>1
<1>4. \A v : kept1(v) \in S
    BY <1>3
<1>5. \E f \in [D -> S] : \A x \in D : f[x] = step[x][f]
  <2>1. PICK most \in Nat : most = m + 1
      OBVIOUS
  <2>2. measure \in [D -> Nat] /\ (\A x \in D : measure[x] < most)
      BY <2>1
  <2>3. S # {}
    <3> HIDE DEF S, s0
    <3> QED BY <1>3
  <2>4. step \in [D -> [[D -> S] -> S]]
    <3> HIDE DEF kept1, S, D
    <3> QED BY <1>4
  <2>5. \A x \in D : \A f, g \in [D -> S] :
            (\A y \in D : measure[y] < measure[x] => f[y] = g[y]) => step[x][f] = step[x][g]
    <3>1. ASSUME NEW x \in D, NEW f \in [D -> S], NEW g \in [D -> S],
                 \A y \in D : measure[y] < measure[x] => f[y] = g[y]
          PROVE  step[x][f] = step[x][g]
      <4>1. x # 0 => f[x - 1] = g[x - 1]
        <5>1. SUFFICES ASSUME x # 0 PROVE f[x - 1] = g[x - 1]
            OBVIOUS
        <5>2. x - 1 \in D /\ measure[x - 1] < measure[x]
            BY <5>1
        <5> QED BY <3>1, <5>2
      <4> HIDE DEF S, D, more, s0
      <4>2. one(x, f) = one(x, g)
          BY <4>1
      <4> HIDE DEF one, kept1
      <4> QED BY <4>2
    <3> QED BY <3>1
  <2> HIDE DEF D, S, step, measure
  <2>6. Recurs(D, S, measure, most, step)
      BY <2>1, <2>2, <2>3, <2>4, <2>5 DEF Recurs
  <2> QED BY <2>6, Recursive
<1>6. PICK f \in [D -> S] : \A x \in D : f[x] = kept1(one(x, f))
  <2> HIDE DEF kept1, one, S, D
  <2> QED BY <1>5
<1>7. ASSUME NEW i \in 1 .. m, NEW b, Good(i - 1, b)
      PROVE  Good(i, more(i, b))
  <2>1. /\ ranges[i] \in RangeSet /\ p[i - 1] \in Seq(Nat) /\ p[i] \in Seq(Nat)
        /\ Len(p[i]) = Len(p[i - 1]) + ranges[i].size
        /\ \A j \in 1 .. Len(p[i - 1]) : p[i][j] = p[i - 1][j]
        /\ \A j \in 0 .. ranges[i].size - 1 :
               p[i][Len(p[i - 1]) + j + 1] = ranges[i].paddr + j
      BY <1>1, <1>2, PagesByLens
  <2>2. Len(p[i]) <= n
    <3>1. i \in 0 .. Len(ranges)
        BY <1>2
    <3> QED BY <1>1, <1>2, <3>1, PagesByLens
  <2>3. PICK q \in Nat, z \in Nat, paddr \in Nat :
            q = Len(p[i - 1]) /\ z = ranges[i].size /\ paddr = ranges[i].paddr
    <3>1. ranges[i].size \in Nat /\ ranges[i].paddr \in Nat
        BY <2>1 DEF RangeSet
    <3>2. Len(p[i - 1]) \in Nat
        BY <2>1
    <3> QED BY <3>1, <3>2
  <2>4. Len(p[i]) = q + z /\ va + q + z <= VaPages /\ va + (q + z) = va + q + z
      BY <1>2, <2>1, <2>2, <2>3, CoversOK, SMTT(60)
  <2>5. b \in S /\ b.next = va + q /\ Tiling(b.leaves, va, va + q, at(i - 1))
      BY <1>7, <2>3
  <2>6. ASSUME NEW w \in va .. va + q - 1 PROVE at(i)[w] = at(i - 1)[w]
    <3>1. PICK j \in 1 .. q : j = w - va + 1 /\ w \in Nat
      <4>1. w - va + 1 \in 1 .. q /\ w \in Nat
          OBVIOUS
      <4> QED BY <4>1
    <3>2. p[i][j] = p[i - 1][j]
        BY <2>1, <2>3
    <3> QED BY <3>1, <3>2
  <2>7. Tiling(b.leaves, va, va + q, at(i))
    <3> HIDE DEF at
    <3> QED BY <2>5, <2>6, TilingAlso, SMTT(60)
  <2>8. ASSUME NEW j \in 0 .. z - 1 PROVE at(i)[va + q + j] = paddr + j
    <3>1. PICK w \in Nat, x \in Nat : w = va + q + j /\ x = q + j + 1 /\ w - va + 1 = x
      <4>1. va + q + j \in Nat /\ q + j + 1 \in Nat /\ va + q + j - va + 1 = q + j + 1
          OBVIOUS
      <4> QED BY <4>1
    <3>2. p[i][x] = paddr + j
        BY <2>1, <2>3, <3>1
    <3>3. at(i)[w] = p[i][x]
        BY <3>1
    <3> HIDE DEF at
    <3> QED BY <3>1, <3>2, <3>3
  <2>9. PICK lo \in Nat : lo = va + q
      OBVIOUS
  <2>10. PICK more1 : more1 = Leaves(lo, ranges[i])
      OBVIOUS
  <2>11. Tiling(more1, lo, lo + z, at(i))
    <3>1. lo + ranges[i].size <= VaPages
        BY <2>3, <2>4, <2>9
    <3>2. \A j \in 0 .. ranges[i].size - 1 : at(i)[lo + j] = ranges[i].paddr + j
        BY <2>3, <2>8, <2>9
    <3> HIDE DEF at
    <3> QED BY <2>1, <2>3, <2>9, <2>10, <3>1, <3>2, LeavesTile
  <2>12. Tiling(b.leaves \o more1, va, lo + z, at(i))
    <3> HIDE DEF at
    <3> QED BY <2>7, <2>9, <2>11, TilingBoth
  <2>13. b.leaves \o more1 \in Seq(LeafSet)
      BY <2>12 DEF Tiling, Tiled
  <2>14. more(i, b) = [leaves |-> b.leaves \o more1, next |-> lo + z]
      BY <2>10, <2>3, <2>5, <2>9
  <2>15. lo + z = va + Len(p[i]) /\ lo + z \in Nat
    <3>1. va + q + z = va + (q + z) /\ lo + z \in Nat
        OBVIOUS
    <3> QED BY <2>4, <2>9, <3>1
  <2> HIDE DEF at, more
  <2> QED BY <2>12, <2>13, <2>14, <2>15
<1>8. Good(0, s0)
  <2>1. p[0] = <<>> /\ Len(<<>>) = 0 /\ va + 0 = va
      BY <1>2
  <2>2. Tiling(<<>>, va, va, at(0))
      BY TilingNone
  <2> HIDE DEF at
  <2> QED BY <1>3, <2>1, <2>2
<1> DEFINE good == {k \in D : Good(k, f[k]) /\ f[k] = one(k, f)}
<1>9. ASSUME NEW k \in 0 .. m, \A j \in 0 .. k - 1 : j \in good PROVE k \in good
  <2>1. f[k] = kept1(one(k, f))
    <3> HIDE DEF kept1, one
    <3> QED BY <1>6
  <2>2. CASE k = 0
    <3>1. one(k, f) = s0
        BY <2>2
    <3> HIDE DEF one, s0, S, Good
    <3>2. f[k] = s0
        BY <1>3, <2>1, <3>1
    <3> QED BY <1>8, <2>2, <3>1, <3>2
  <2>3. CASE k # 0
    <3>1. k \in 1 .. m /\ k - 1 \in 0 .. k - 1
        BY <2>3
    <3>2. Good(k - 1, f[k - 1])
      <4> HIDE DEF Good, one
      <4> QED BY <1>9, <3>1
    <3>3. one(k, f) = more(k, f[k - 1])
      <4> HIDE DEF more, s0
      <4> QED BY <2>3
    <3>4. Good(k, one(k, f))
      <4> HIDE DEF Good, one, more
      <4> QED BY <1>7, <3>1, <3>2, <3>3
    <3>5. one(k, f) \in S
      <4> HIDE DEF S, one, at
      <4> QED BY <3>4
    <3> HIDE DEF Good, one, S
    <3>6. f[k] = one(k, f)
        BY <2>1, <3>5
    <3> QED BY <3>4, <3>6
  <2> QED BY <2>2, <2>3
<1>10. \A k \in 0 .. m : Good(k, f[k]) /\ f[k] = one(k, f)
  <2>1. \A k \in 0 .. m : k \in good
    <3> HIDE DEF good
    <3> QED BY <1>9, Induct
  <2> HIDE DEF Good, one
  <2> QED BY <2>1
<1> DEFINE body(g) == [i \in 0 .. Len(ranges) |->
                IF i = 0 THEN [leaves |-> <<>>, next |-> va]
                ELSE LET before == g[i - 1]
                     IN  [leaves |-> before.leaves \o Leaves(before.next, ranges[i]),
                          next |-> before.next + ranges[i].size]]
<1>11. \A g : body(g) = [x \in D |-> one(x, g)]
    BY <1>2, Zenon
<1>12. LeavesOf(va, ranges) = (CHOOSE g : g = body(g))[Len(ranges)].leaves
    BY Zenon DEF LeavesOf
<1> HIDE DEF body
<1>13. f = body(f)
  <2> HIDE DEF Good, one, S
  <2>1. f = [x \in D |-> f[x]]
      OBVIOUS
  <2> QED BY <1>10, <1>11, <2>1
<1>14. PICK g : g = (CHOOSE h : h = body(h))
    OBVIOUS
<1>15. g = body(g)
    BY <1>13, <1>14
<1>16. \A x \in D : g[x] = one(x, g)
  <2>1. g = [x \in D |-> one(x, g)]
      BY <1>11, <1>15
  <2> HIDE DEF one
  <2> QED BY <2>1, Zenon
<1> DEFINE good2 == {k \in D : Good(k, g[k])}
<1>17. ASSUME NEW k \in 0 .. m, \A j \in 0 .. k - 1 : j \in good2 PROVE k \in good2
  <2>1. g[k] = one(k, g)
    <3> HIDE DEF one
    <3> QED BY <1>16
  <2>2. CASE k = 0
    <3>1. one(k, g) = s0
        BY <2>2
    <3> HIDE DEF one, s0, S, Good
    <3> QED BY <1>8, <2>1, <2>2, <3>1
  <2>3. CASE k # 0
    <3>1. k \in 1 .. m /\ k - 1 \in 0 .. k - 1
        BY <2>3
    <3>2. Good(k - 1, g[k - 1])
      <4> HIDE DEF Good
      <4> QED BY <1>17, <3>1
    <3>3. one(k, g) = more(k, g[k - 1])
      <4> HIDE DEF more, s0
      <4> QED BY <2>3
    <3> HIDE DEF Good, one, more
    <3> QED BY <1>7, <2>1, <3>1, <3>2, <3>3
  <2> QED BY <2>2, <2>3
<1>18. Good(m, g[m])
  <2>1. \A k \in 0 .. m : k \in good2
    <3> HIDE DEF good2
    <3> QED BY <1>17, Induct
  <2> HIDE DEF Good
  <2> QED BY <2>1
<1>19. Tiling(g[m].leaves, va, va + n, at(m))
  <2> HIDE DEF at
  <2> QED BY <1>2, <1>18
<1>20. ASSUME NEW w \in va .. va + n - 1 PROVE shown[w] = at(m)[w]
  <2>1. PICK j \in 1 .. n : j = w - va + 1 /\ w = va + j - 1 /\ w \in Nat
    <3>1. w - va + 1 \in 1 .. n /\ w = va + (w - va + 1) - 1 /\ w \in Nat
        OBVIOUS
    <3> QED BY <3>1
  <2>2. at(m)[w] = pages[j]
      BY <1>2, <2>1
  <2> QED BY <1>2, <2>1, <2>2
<1>21. Tiling(g[m].leaves, va, va + n, shown)
  <2> HIDE DEF at
  <2> QED BY <1>19, <1>20, TilingAlso
<1> QED BY <1>2, <1>12, <1>14, <1>21

-----------------------------------------------------------------------------
(***************************************************************************)
(* Building: the tables on the way to the leaves, and the leaves.          *)
(***************************************************************************)

LEMMA PathIs ==
    ASSUME NEW leaf, leaf.at \in Entries, NEW e \in PathTo(leaf)
    PROVE  /\ e \in Entries /\ e[1] \in 1 .. leaf.at[1] - 1 /\ e[1] < Levels
           /\ Spans(e, leaf.at[2])
           /\ \A up \in 1 .. e[1] - 1 : Entry(up, e[2]) \in PathTo(leaf)
<1>1. PICK a \in 1 .. Levels, v \in 0 .. VaPages - 1 : a = leaf.at[1] /\ v = leaf.at[2]
  <2>1. leaf.at[1] \in 1 .. Levels /\ leaf.at[2] \in 0 .. VaPages - 1
      BY EntryShape, CoversOK
  <2> QED BY <2>1
<1>2. PICK lv \in 1 .. a - 1 : e = Entry(lv, v)
    BY <1>1 DEF PathTo
<1>3. lv \in 1 .. Levels /\ lv < Levels /\ a \in Nat /\ lv \in Nat /\ v \in Nat
    BY CoversOK
<1>4. e \in Entries /\ e[1] = lv /\ Spans(e, v)
    BY <1>2, <1>3, EntryAt
<1>5. ASSUME NEW up \in 1 .. lv - 1 PROVE Entry(up, e[2]) \in PathTo(leaf)
  <2>1. up \in 1 .. Levels /\ up <= e[1] /\ up \in 1 .. a - 1
      BY <1>3, <1>4, CoversOK
  <2>2. Entry(up, v) = Entry(up, e[2])
      BY <1>3, <1>4, <2>1, SameWay
  <2> QED BY <1>1, <2>1, <2>2 DEF PathTo
<1> QED BY <1>1, <1>3, <1>4, <1>5

\* Entries are the places of tables for what is further down.
Upward(t, made) ==
    \A e \in made : \A up \in 1 .. e[1] - 1 :
        Entry(up, e[2]) \in made \/ t[Entry(up, e[2])] = Table

LEMMA MissingIs ==
    ASSUME NEW t, NEW leaves, \A i \in 1 .. Len(leaves) : leaves[i].at \in Entries,
           Len(leaves) \in Nat, NEW n \in 0 .. Len(leaves)
    PROVE  /\ Missing(t, leaves, n) \in SUBSET Entries /\ IsFiniteSet(Missing(t, leaves, n))
           /\ Cardinality(Missing(t, leaves, n)) \in Nat
           /\ \A e \in Missing(t, leaves, n) : \E i \in 1 .. n : e \in PathTo(leaves[i])
           /\ Upward(t, Missing(t, leaves, n))
           /\ \A i \in 1 .. n : \A e \in PathTo(leaves[i]) :
                  t[e] = Table \/ e \in Missing(t, leaves, n)
<1>1. PICK s : s = Missing(t, leaves, n)
    OBVIOUS
<1>2. \A e : e \in s <=> t[e] # Table /\ \E i \in 1 .. n : e \in PathTo(leaves[i])
    BY <1>1 DEF Missing
<1>3. \A i \in 1 .. n : leaves[i].at \in Entries
    OBVIOUS
<1>4. s \in SUBSET Entries
    BY <1>2, <1>3, PathIs
<1>5. IsFiniteSet(s) /\ Cardinality(s) \in Nat
    BY <1>4, EntriesFinite, FS_Subset, FS_CardinalityType
<1>6. ASSUME NEW e \in s, NEW up \in 1 .. e[1] - 1
      PROVE  Entry(up, e[2]) \in s \/ t[Entry(up, e[2])] = Table
  <2>1. PICK i \in 1 .. n : e \in PathTo(leaves[i])
      BY <1>2
  <2>2. Entry(up, e[2]) \in PathTo(leaves[i])
      BY <1>3, <2>1, PathIs
  <2> QED BY <1>2, <2>2
<1> QED BY <1>1, <1>2, <1>4, <1>5, <1>6 DEF Upward

LEMMA ReachedIs ==
    ASSUME NEW t, NEW leaves, \A i \in 1 .. Len(leaves) : leaves[i].at \in Entries,
           Len(leaves) \in Nat, NEW room \in Nat, NEW n, n = Reached(t, leaves, room)
    PROVE  n \in 0 .. Len(leaves) /\ Cardinality(Missing(t, leaves, n)) <= room
<1> DEFINE card(k) == Cardinality(Missing(t, leaves, k))
           Is(k) == card(k) <= room /\ (k < Len(leaves) => card(k + 1) > room)
           stop == {k \in 0 .. Len(leaves) : k < Len(leaves) => card(k + 1) > room}
<1>1. PICK m \in Nat : m = Len(leaves)
    OBVIOUS
<1>2. m \in stop /\ stop \in SUBSET Nat
    BY <1>1
<1>3. PICK k \in stop : \A j \in stop : k <= j
    BY <1>2, LeastNumber
<1>4. card(k) <= room
  <2>1. CASE k = 0
    <3>1. Missing(t, leaves, 0) = {}
        BY DEF Missing
    <3>2. card(k) = 0
        BY <2>1, <3>1, FS_EmptySet
    <3> QED BY <3>2
  <2>2. CASE k # 0
    <3>1. PICK j \in 0 .. m : k = j + 1 /\ j < m
      <4>1. k - 1 \in 0 .. m /\ k = (k - 1) + 1 /\ k - 1 < m
          BY <1>1, <2>2
      <4> QED BY <4>1
    <3>2. j \notin stop
        BY <1>3, <3>1
    <3>3. ~ (card(j + 1) > room)
        BY <1>1, <3>1, <3>2
    <3>4. card(k) \in Nat
        BY MissingIs
    <3> HIDE DEF card
    <3> QED BY <3>1, <3>3, <3>4
  <2> QED BY <2>1, <2>2
<1>5. Is(k) /\ k \in 0 .. Len(leaves)
    BY <1>4
<1>6. n = CHOOSE z \in 0 .. Len(leaves) : Is(z)
    BY DEF Reached
<1> HIDE DEF Is
<1>7. n \in 0 .. Len(leaves) /\ Is(n)
    BY <1>5, <1>6
<1> QED BY <1>7 DEF Is

\* Tables made are on the way to some leaf
OnPaths(leaves, made) == \A e \in made : \E i \in 1 .. Len(leaves) : e \in PathTo(leaves[i])

LEMMA MadeIs ==
    ASSUME NEW t, NEW leaves, \A i \in 1 .. Len(leaves) : leaves[i].at \in Entries,
           Len(leaves) \in Nat, NEW room \in Nat, NEW n, n = Reached(t, leaves, room),
           NEW made, made = Made(t, leaves, room)
    PROVE  /\ made \in SUBSET Entries /\ IsFiniteSet(made)
           /\ Cardinality(made) \in Nat /\ Cardinality(made) <= room
           /\ OnPaths(leaves, made) /\ Upward(t, made)
           /\ \A i \in 1 .. n : \A e \in PathTo(leaves[i]) : t[e] = Table \/ e \in made
<1>1. n \in 0 .. Len(leaves) /\ Cardinality(Missing(t, leaves, n)) <= room
    BY ReachedIs
<1>2. PICK done : done = Missing(t, leaves, n)
    OBVIOUS
<1>3. /\ done \in SUBSET Entries /\ IsFiniteSet(done) /\ Cardinality(done) \in Nat
      /\ Cardinality(done) <= room
      /\ \A e \in done : \E i \in 1 .. n : e \in PathTo(leaves[i])
      /\ Upward(t, done)
      /\ \A i \in 1 .. n : \A e \in PathTo(leaves[i]) : t[e] = Table \/ e \in done
    BY <1>1, <1>2, MissingIs
<1>4. PICK next : next = IF n = Len(leaves) THEN {} ELSE Missing(t, leaves, n + 1) \ done
    OBVIOUS
<1> DEFINE upto(e) == {f \in next : f[1] <= e[1]}
           part == {e \in next : Cardinality(upto(e)) <= room - Cardinality(done)}
<1>5. made = done \cup part
    BY <1>2, <1>4 DEF Made
<1>6. /\ next \in SUBSET Entries /\ next \cap done = {}
      /\ \A e \in next : \E i \in 1 .. Len(leaves) : e \in PathTo(leaves[i])
      /\ Upward(t, next \cup done)
  <2>1. CASE n = Len(leaves)
    <3>1. next = {} /\ next \cup done = done
        BY <1>4, <2>1
    <3> QED BY <1>3, <3>1
  <2>2. CASE n # Len(leaves)
    <3>1. PICK m \in 0 .. Len(leaves) : m = n + 1 /\ m \in Nat
        BY <1>1, <2>2
    <3>2. /\ Missing(t, leaves, m) \in SUBSET Entries
          /\ \A e \in Missing(t, leaves, m) : \E i \in 1 .. m : e \in PathTo(leaves[i])
          /\ Upward(t, Missing(t, leaves, m))
        BY MissingIs
    <3>3. next = Missing(t, leaves, m) \ done
        BY <1>4, <2>2, <3>1
    <3>4. \A i \in 1 .. m : i \in 1 .. Len(leaves)
        BY <3>1
    <3>5. next \cup done = Missing(t, leaves, m) \cup done
        BY <3>3
    <3>6. Upward(t, next \cup done)
        BY <1>3, <3>2, <3>5 DEF Upward
    <3> QED BY <3>2, <3>3, <3>4, <3>6
  <2> QED BY <2>1, <2>2
<1>7. /\ IsFiniteSet(next) /\ part \in SUBSET Entries /\ part \in SUBSET next
      /\ IsFiniteSet(part) /\ Cardinality(part) \in Nat
  <2>1. IsFiniteSet(next)
      BY <1>6, EntriesFinite, FS_Subset
  <2>2. part \in SUBSET next
      OBVIOUS
  <2> HIDE DEF part
  <2> QED BY <1>6, <2>1, <2>2, FS_Subset, FS_CardinalityType
<1>8. ASSUME NEW e \in next
      PROVE  IsFiniteSet(upto(e)) /\ Cardinality(upto(e)) \in Nat
  <2>1. upto(e) \in SUBSET next
      OBVIOUS
  <2> HIDE DEF upto
  <2> QED BY <1>7, <2>1, FS_Subset, FS_CardinalityType
<1>9. Cardinality(part) <= room - Cardinality(done)
  <2>1. CASE part = {}
    <3>1. Cardinality(part) = 0
        BY <2>1, FS_EmptySet
    <3> HIDE DEF part
    <3> QED BY <1>3, <3>1
  <2>2. CASE part # {}
    <3> DEFINE depths == {Levels - e[1] : e \in part}
    <3>1. \A e \in part : e[1] \in Nat /\ e[1] <= Levels /\ Levels - e[1] \in Nat
      <4>1. \A e \in Entries : e[1] \in 1 .. Levels
          BY EntryShape
      <4> HIDE DEF part
      <4> QED BY <1>7, <4>1, CoversOK
    <3>2. depths \in SUBSET Nat /\ depths # {}
      <4> HIDE DEF part
      <4> QED BY <2>2, <3>1
    <3>3. PICK d \in depths : \A x \in depths : d <= x
        BY <3>2, LeastNumber
    <3>4. PICK e \in part : \A f \in part : f[1] <= e[1]
      <4> HIDE DEF part
      <4>1. PICK e \in part : d = Levels - e[1]
          BY <3>3
      <4>2. ASSUME NEW f \in part PROVE f[1] <= e[1]
        <5>1. d <= Levels - f[1]
            BY <3>3
        <5> QED BY <3>1, <4>1, <5>1, CoversOK
      <4> QED BY <4>2
    <3>5. part \subseteq upto(e)
        BY <1>7, <3>4
    <3>6. e \in next /\ Cardinality(upto(e)) <= room - Cardinality(done)
        BY <3>4
    <3>7. IsFiniteSet(upto(e)) /\ Cardinality(upto(e)) \in Nat
        BY <1>8, <3>6
    <3>8. Cardinality(part) <= Cardinality(upto(e))
      <4> HIDE DEF upto, part
      <4> QED BY <3>5, <3>7, FS_Subset
    <3> HIDE DEF upto, part
    <3> QED BY <1>3, <1>7, <3>6, <3>7, <3>8
  <2> QED BY <2>1, <2>2
<1>10. IsFiniteSet(made) /\ Cardinality(made) = Cardinality(done) + Cardinality(part)
  <2>1. done \cap part = {}
      BY <1>6, <1>7
  <2>2. Cardinality(done \cap part) = 0
      BY <2>1, FS_EmptySet
  <2> HIDE DEF part
  <2>3. /\ IsFiniteSet(done \cup part)
        /\ Cardinality(done \cup part)
               = Cardinality(done) + Cardinality(part) - Cardinality(done \cap part)
      BY <1>3, <1>7, FS_Union
  <2> QED BY <1>3, <1>5, <1>7, <2>2, <2>3
<1>11. ASSUME NEW e \in made, NEW up \in 1 .. e[1] - 1
       PROVE  Entry(up, e[2]) \in made \/ t[Entry(up, e[2])] = Table
  <2>1. CASE e \in done
      BY <1>3, <1>5, <2>1 DEF Upward
  <2>2. CASE e \in part
    <3>1. PICK u : u = Entry(up, e[2])
        OBVIOUS
    <3>2. u \in next \/ u \in done \/ t[u] = Table
        BY <1>6, <1>7, <2>2, <3>1 DEF Upward
    <3>3. u[1] = up /\ e[1] \in Nat
      <4>1. e[2] \in 0 .. VaPages - 1 /\ up \in 1 .. Levels /\ e[1] \in Nat
          BY <1>7, <2>2, EntryShape, CoversOK
      <4> QED BY <3>1, <4>1, EntryAt
    <3>4. ASSUME u \in next PROVE u \in part
      <4>1. \A f \in next : f[1] \in Nat
          BY <1>6, EntryShape
      <4>2. upto(u) \subseteq upto(e)
          BY <3>3, <4>1
      <4>3. e \in next /\ Cardinality(upto(e)) <= room - Cardinality(done)
          BY <2>2
      <4>4. /\ IsFiniteSet(upto(e)) /\ Cardinality(upto(e)) \in Nat
            /\ Cardinality(upto(u)) \in Nat
          BY <1>8, <3>4, <4>3
      <4>5. Cardinality(upto(u)) <= Cardinality(upto(e))
        <5> HIDE DEF upto
        <5> QED BY <4>2, <4>4, FS_Subset
      <4>6. Cardinality(upto(u)) <= room - Cardinality(done)
        <5> HIDE DEF upto
        <5> QED BY <1>3, <4>3, <4>4, <4>5
      <4> QED BY <3>4, <4>6
    <3> HIDE DEF part
    <3> QED BY <1>5, <3>1, <3>2, <3>4
  <2> HIDE DEF part
  <2> QED BY <1>5, <2>1, <2>2
<1>12. made \in SUBSET Entries /\ OnPaths(leaves, made)
  <2>1. \A i \in 1 .. n : i \in 1 .. Len(leaves)
      BY <1>1
  <2> HIDE DEF part
  <2> QED BY <1>3, <1>5, <1>6, <1>7, <2>1 DEF OnPaths
<1>13. Cardinality(made) \in Nat /\ Cardinality(made) <= room
  <2> HIDE DEF part
  <2> QED BY <1>3, <1>7, <1>9, <1>10
<1>14. Upward(t, made)
    BY <1>11 DEF Upward
<1> HIDE DEF part
<1> QED BY <1>3, <1>5, <1>10, <1>12, <1>13, <1>14

LEMMA SetTables ==
    ASSUME NEW t, TreeOK(t), NEW made \in SUBSET Entries, Upward(t, made),
           \A e \in made : e[1] < Levels, NEW new, new = set_entry(t, [e \in made |-> Table])
    PROVE  /\ TreeOK(new)
           /\ \A e \in Entries : (e \in made => new[e] = Table) /\ (e \notin made => new[e] = t[e])
<1>1. PICK to : to = [e \in made |-> Table]
    OBVIOUS
<1>2. DOMAIN to = made /\ \A b \in made : to[b] = Table
    BY <1>1
<1>3. new = [e \in Entries |->
                CASE e \in made -> to[e]
                  [] e \notin made /\ \E b \in made : e \in Below(b) /\ to[b] # Table -> Invalid
                  [] OTHER -> t[e]]
    BY <1>1, <1>2 DEF set_entry
<1>4. ASSUME NEW e \in Entries
      PROVE  (e \in made => new[e] = Table) /\ (e \notin made => new[e] = t[e])
    BY <1>2, <1>3
<1>5. new = [e \in Entries |-> new[e]]
    BY <1>3
<1>6. ASSUME NEW e \in Entries
      PROVE  /\ new[e] = Invalid \/ new[e] = Table \/ IsPage(new, e)
             /\ e[1] = Levels => new[e] # Table
             /\ new[e] # Table => \A b \in Below(e) : new[b] = Invalid
  <2>1. /\ t[e] = Invalid \/ t[e] = Table \/ IsPage(t, e)
        /\ e[1] = Levels => t[e] # Table
        /\ t[e] # Table => \A b \in Below(e) : t[b] = Invalid
      BY DEF TreeOK
  <2>2. CASE e \in made
    <3>1. new[e] = Table /\ e[1] # Levels
        BY <1>4, <2>2, EntryShape, CoversOK
    <3> QED BY <3>1
  <2>3. CASE e \notin made
    <3>1. new[e] = t[e]
        BY <1>4, <2>3
    <3>2. ASSUME new[e] # Table, NEW b \in Below(e) PROVE new[b] = Invalid
      <4>1. b \in Entries /\ b[1] > e[1] /\ Spans(e, b[2])
          BY BelowIs
      <4>2. Entry(e[1], b[2]) = e /\ e[1] \in 1 .. b[1] - 1
        <5>1. b[2] \in Nat /\ b[1] \in Nat /\ e[1] \in 1 .. Levels /\ e[1] \in Nat
            BY <4>1, EntryShape
        <5> QED BY <4>1, <5>1, EntryIs, CoversOK
      <4>3. b \notin made
          BY <2>3, <3>1, <3>2, <4>2 DEF Upward
      <4> QED BY <1>4, <2>1, <3>1, <3>2, <4>1, <4>3
    <3> QED BY <2>1, <3>1, <3>2 DEF IsPage
  <2> QED BY <2>2, <2>3
<1> QED BY <1>4, <1>5, <1>6 DEF TreeOK

\* The first leaves, written where their tables are
LeafAtEntry(leaves, n, e) == leaves[CHOOSE i \in 1 .. n : leaves[i].at = e]

LeafPages(leaves, n) ==
    [e \in {leaves[i].at : i \in 1 .. n} |-> Page(LeafAtEntry(leaves, n, e).frame)]

\* The tables on the way to the first leaves are there
TablesTo(t, leaves, n) == \A i \in 1 .. n : \A e \in PathTo(leaves[i]) : t[e] = Table

LEMMA SetPages ==
    ASSUME NEW t, TreeOK(t), NEW leaves, NEW s, NEW lo, NEW hi, Tiled(leaves, s, lo, hi),
           NEW n \in 0 .. Len(leaves),
           TablesTo(t, leaves, n),
           NEW new, new = set_entry(t, LeafPages(leaves, n))
    PROVE  /\ TreeOK(new)
           /\ \A i \in 1 .. n : new[leaves[i].at] = Page(leaves[i].frame)
           /\ \A e \in Entries :
                  (\A i \in 1 .. n : e # leaves[i].at /\ e \notin Below(leaves[i].at)) =>
                      new[e] = t[e]
           /\ \A e \in Entries : \A i \in 1 .. n : e \in Below(leaves[i].at) => new[e] = Invalid
<1>1. PICK at, to : /\ at = {leaves[i].at : i \in 1 .. n}
                    /\ to = [e \in at |-> Page(LeafAtEntry(leaves, n, e).frame)]
                    /\ to = LeafPages(leaves, n)
    BY DEF LeafPages
<1>2. /\ DOMAIN to = at /\ \A e \in at : to[e] = Page(LeafAtEntry(leaves, n, e).frame)
      /\ \A e \in at : to[e] # Table
    BY <1>1, KindsDiffer
<1>3. new = [e \in Entries |->
                CASE e \in at -> to[e]
                  [] e \notin at /\ \E b \in at : e \in Below(b) /\ to[b] # Table -> Invalid
                  [] OTHER -> t[e]]
    BY <1>1, <1>2 DEF set_entry
<1>4. Len(leaves) \in Nat /\ \A i \in 1 .. n : i \in 1 .. Len(leaves) /\ leaves[i].at \in Entries
  <2>1. Len(leaves) \in Nat
      BY TiledSteps
  <2>2. \A i \in 1 .. n : i \in 1 .. Len(leaves)
      BY <2>1
  <2> QED BY <2>1, <2>2, TiledSteps
<1>5. ASSUME NEW i \in 1 .. n PROVE to[leaves[i].at] = Page(leaves[i].frame)
  <2>1. PICK j \in 1 .. n : leaves[j].at = leaves[i].at
                            /\ LeafAtEntry(leaves, n, leaves[i].at) = leaves[j]
      BY DEF LeafAtEntry
  <2>2. PICK w \in Nat : w = leaves[i].at[2] /\ Spans(leaves[i].at, w)
      BY <1>4, EntryShape, SpansFirst
  <2>3. i = j
      BY <1>4, <2>1, <2>2, TiledApart
  <2> QED BY <1>1, <1>2, <2>1, <2>3
<1>6. \A e \in at : e \in Entries /\ \E i \in 1 .. n : e = leaves[i].at
    BY <1>1, <1>4
\* No leaf is below another.
<1>7. ASSUME NEW i \in 1 .. n, NEW j \in 1 .. n PROVE leaves[j].at \notin Below(leaves[i].at)
  <2>1. SUFFICES ASSUME leaves[j].at \in Below(leaves[i].at) PROVE FALSE
      OBVIOUS
  <2>2. PICK w \in Nat : w = leaves[j].at[2] /\ Spans(leaves[j].at, w)
      BY <1>4, EntryShape, SpansFirst
  <2>3. Spans(leaves[i].at, w)
      BY <1>4, <2>1, <2>2, BelowSpans
  <2>4. i = j
      BY <1>4, <2>2, <2>3, TiledApart
  <2>5. leaves[i].at[1] > leaves[i].at[1] /\ leaves[i].at[1] \in Nat
      BY <1>4, <2>1, <2>4, BelowIs, EntryShape
  <2> QED BY <2>5
<1>8. ASSUME NEW i \in 1 .. n PROVE new[leaves[i].at] = Page(leaves[i].frame)
  <2>1. leaves[i].at \in at
      BY <1>1
  <2> QED BY <1>3, <1>4, <1>5, <2>1
<1>9. ASSUME NEW e \in Entries, \A i \in 1 .. n : e # leaves[i].at /\ e \notin Below(leaves[i].at)
      PROVE  new[e] = t[e]
    BY <1>3, <1>6, <1>9
<1>10. ASSUME NEW e \in Entries, NEW i \in 1 .. n, e \in Below(leaves[i].at)
       PROVE  new[e] = Invalid
  <2>1. e \notin at
      BY <1>6, <1>7, <1>10
  <2>2. leaves[i].at \in at
      BY <1>1
  <2> QED BY <1>2, <1>3, <1>10, <2>1, <2>2
<1>11. new = [e \in Entries |-> new[e]]
    BY <1>3
<1>12. ASSUME NEW e \in Entries
       PROVE  /\ new[e] = Invalid \/ new[e] = Table \/ IsPage(new, e)
              /\ e[1] = Levels => new[e] # Table
              /\ new[e] # Table => \A b \in Below(e) : new[b] = Invalid
  <2>1. /\ t[e] = Invalid \/ t[e] = Table \/ IsPage(t, e)
        /\ e[1] = Levels => t[e] # Table
        /\ t[e] # Table => \A b \in Below(e) : t[b] = Invalid
      BY DEF TreeOK
  <2>2. \A b \in Below(e) : b \in Entries
      BY BelowIs
  <2>3. CASE \E i \in 1 .. n : e = leaves[i].at
    <3>1. PICK i \in 1 .. n : e = leaves[i].at
        BY <2>3
    <3>2. new[e] = Page(leaves[i].frame)
        BY <1>8, <3>1
    <3>3. \A b \in Below(e) : new[b] = Invalid
        BY <1>10, <2>2, <3>1
    <3> QED BY <3>2, <3>3, KindsDiffer DEF IsPage
  <2>4. CASE \E i \in 1 .. n : e \in Below(leaves[i].at)
    <3>1. PICK i \in 1 .. n : e \in Below(leaves[i].at)
        BY <2>4
    <3>2. new[e] = Invalid
        BY <1>10, <3>1
    <3>3. \A b \in Below(e) : new[b] = Invalid
        BY <1>4, <1>10, <2>2, <3>1, BelowBelow
    <3> QED BY <3>2, <3>3, KindsDiffer
  <2>5. CASE \A i \in 1 .. n : e # leaves[i].at /\ e \notin Below(leaves[i].at)
    <3>1. new[e] = t[e]
        BY <1>9, <2>5
    <3>2. ASSUME new[e] # Table, NEW b \in Below(e) PROVE new[b] = Invalid
      <4>1. t[b] = Invalid
          BY <2>1, <3>1, <3>2
      <4>2. ASSUME NEW i \in 1 .. n, b = leaves[i].at PROVE FALSE
        <5>1. PICK d \in Nat, v \in Nat, c \in Nat : d = e[1] /\ d \in 1 .. b[1] - 1 /\ v = b[2]
          <6>1. b[1] > e[1] /\ e[1] \in 1 .. Levels /\ b[1] \in Nat /\ b[2] \in Nat /\ e[1] \in Nat
              BY <2>2, BelowIs, EntryShape
          <6>2. e[1] \in 1 .. b[1] - 1
              BY <6>1
          <6> QED BY <6>1, <6>2
        <5>2. Entry(d, v) = e
            BY <2>2, <5>1, BelowIs, EntryIs
        <5>3. e \in PathTo(leaves[i])
            BY <4>2, <5>1, <5>2 DEF PathTo
        <5> QED BY <3>1, <3>2, <5>3 DEF TablesTo
      <4>3. CASE \E i \in 1 .. n : b \in Below(leaves[i].at)
          BY <1>10, <2>2, <4>3
      <4>4. CASE \A i \in 1 .. n : b \notin Below(leaves[i].at)
          BY <1>9, <2>2, <4>1, <4>2, <4>4
      <4> QED BY <4>3, <4>4
    <3> QED BY <2>1, <3>1, <3>2 DEF IsPage
  <2> QED BY <2>3, <2>4, <2>5
<1> QED BY <1>8, <1>9, <1>10, <1>11, <1>12 DEF TreeOK

\* No page covers any of a range
Unpaged(t, lo, hi) == \A e \in Entries : IsPage(t, e) => ~ Meets(e, lo, hi)

\* A tree with the first leaves in it beside the pages there were
BuiltTo(t, new, leaves, n) ==
    /\ TreeOK(new) /\ n \in 0 .. Len(leaves)
    /\ \A i \in 1 .. n : new[leaves[i].at] = Page(leaves[i].frame)
    /\ \A e \in Entries : IsPage(t, e) => new[e] = t[e]
    /\ \A e \in Entries : IsPage(new, e) =>
           (\E i \in 1 .. n : e = leaves[i].at) \/ (IsPage(t, e) /\ new[e] = t[e])

\* What building a mapping over a free range does: its leaves are there, as far
\* as there was room, and everything else is as it was.
LEMMA BuiltIs ==
    ASSUME NEW t, TreeOK(t), NEW leaves, NEW s, NEW lo, NEW hi, Tiled(leaves, s, lo, hi),
           Unpaged(t, lo, hi),
           NEW room \in Nat, NEW n, n = Reached(t, leaves, room),
           NEW new, new = Built(t, leaves, room)
    PROVE  BuiltTo(t, new, leaves, n)
<1>1. \A e \in Entries : IsPage(t, e) => ~ Meets(e, lo, hi)
    BY DEF Unpaged
<1>2. Len(leaves) \in Nat /\ \A i \in 1 .. Len(leaves) : leaves[i].at \in Entries
    BY TiledSteps
<1>3. PICK made : made = Made(t, leaves, room)
    OBVIOUS
<1>4. /\ n \in 0 .. Len(leaves)
      /\ made \in SUBSET Entries
      /\ \A e \in made : \E i \in 1 .. Len(leaves) : e \in PathTo(leaves[i])
      /\ Upward(t, made)
      /\ \A i \in 1 .. n : \A e \in PathTo(leaves[i]) : t[e] = Table \/ e \in made
  <2>1. n \in 0 .. Len(leaves)
      BY <1>2, ReachedIs
  <2>2. made \in SUBSET Entries
      BY <1>2, <1>3, MadeIs
  <2>3. OnPaths(leaves, made)
      BY <1>2, <1>3, MadeIs
  <2>4. Upward(t, made)
      BY <1>2, <1>3, MadeIs
  <2>5. \A i \in 1 .. n : \A e \in PathTo(leaves[i]) : t[e] = Table \/ e \in made
      BY <1>2, <1>3, MadeIs
  <2> QED BY <2>1, <2>2, <2>3, <2>4, <2>5 DEF OnPaths
<1>5. PICK mid : mid = set_entry(t, [e \in made |-> Table])
    OBVIOUS
<1>6. /\ TreeOK(mid)
      /\ \A e \in Entries : (e \in made => mid[e] = Table) /\ (e \notin made => mid[e] = t[e])
  <2>1. \A e \in made : e[1] < Levels
      BY <1>2, <1>4, PathIs
  <2> QED BY <1>4, <1>5, <2>1, SetTables
<1>7. ASSUME NEW i \in 1 .. Len(leaves), NEW e \in Entries, NEW w \in Nat,
             Spans(leaves[i].at, w), Spans(e, w)
      PROVE  Meets(e, lo, hi)
  <2>1. Len(leaves) \in 0 .. Len(leaves) /\ s[Len(leaves)] = hi
      BY <1>2 DEF Tiled
  <2>2. /\ lo <= leaves[i].at[2] /\ leaves[i].at[2] + Covers[leaves[i].at[1]] <= hi
        /\ lo \in Nat /\ hi \in Nat
      BY <2>1, TiledFirst
  <2>3. /\ leaves[i].at[2] \in Nat /\ Covers[leaves[i].at[1]] \in Nat
        /\ e[2] \in Nat /\ Covers[e[1]] \in Nat
      BY <1>2, EntryShape
  <2> QED BY <1>7, <2>2, <2>3, SMTT(60) DEF Spans, Meets
<1>8. ASSUME NEW e \in made PROVE ~ IsPage(t, e)
  <2>1. PICK i \in 1 .. Len(leaves) : e \in PathTo(leaves[i])
      BY <1>4
  <2>2. e \in Entries /\ Spans(e, leaves[i].at[2])
      BY <1>2, <2>1, PathIs
  <2>3. PICK w \in Nat : w = leaves[i].at[2] /\ Spans(leaves[i].at, w)
      BY <1>2, EntryShape, SpansFirst
  <2> QED BY <1>1, <1>7, <2>2, <2>3
<1>9. TablesTo(mid, leaves, n)
  <2>1. ASSUME NEW i \in 1 .. n, NEW e \in PathTo(leaves[i]) PROVE mid[e] = Table
    <3>1. i \in 1 .. Len(leaves)
        BY <1>2, <1>4
    <3>2. e \in Entries
        BY <1>2, <3>1, PathIs
    <3> QED BY <1>4, <1>6, <3>2
  <2> QED BY <2>1 DEF TablesTo
<1>10. new = set_entry(mid, LeafPages(leaves, n))
    BY <1>3, <1>5 DEF Built, LeafAtEntry, LeafPages
<1>11. /\ TreeOK(new)
       /\ \A i \in 1 .. n : new[leaves[i].at] = Page(leaves[i].frame)
       /\ \A e \in Entries :
              (\A i \in 1 .. n : e # leaves[i].at /\ e \notin Below(leaves[i].at)) =>
                  new[e] = mid[e]
       /\ \A e \in Entries : \A i \in 1 .. n : e \in Below(leaves[i].at) => new[e] = Invalid
    BY <1>4, <1>6, <1>9, <1>10, SetPages
<1>12. ASSUME NEW e \in Entries, IsPage(t, e) PROVE new[e] = t[e]
  <2>1. ASSUME NEW i \in 1 .. n PROVE e # leaves[i].at /\ e \notin Below(leaves[i].at)
    <3>1. i \in 1 .. Len(leaves)
        BY <1>2, <1>4
    <3>2. PICK w \in Nat : w = e[2] /\ Spans(e, w)
        BY EntryShape, SpansFirst
    <3>3. ~ Spans(leaves[i].at, w)
        BY <1>1, <1>7, <1>12, <3>1, <3>2
    <3>4. e \in Below(leaves[i].at) => Spans(leaves[i].at, w)
        BY <1>2, <3>1, <3>2, BelowSpans
    <3> QED BY <3>2, <3>3, <3>4
  <2>2. new[e] = mid[e]
      BY <1>11, <2>1
  <2> QED BY <1>6, <1>8, <1>12, <2>2
<1>13. ASSUME NEW e \in Entries, IsPage(new, e), \A i \in 1 .. n : e # leaves[i].at
       PROVE  IsPage(t, e) /\ new[e] = t[e]
  <2>1. new[e] # Invalid /\ new[e] # Table
      BY <1>13, KindsDiffer
  <2>2. \A i \in 1 .. n : e \notin Below(leaves[i].at)
      BY <1>11, <2>1
  <2>3. new[e] = mid[e]
      BY <1>11, <1>13, <2>2
  <2>4. e \notin made
      BY <1>6, <2>1, <2>3
  <2>5. new[e] = t[e]
      BY <1>6, <2>3, <2>4
  <2> QED BY <1>13, <2>5 DEF IsPage
<1> QED BY <1>4, <1>11, <1>12, <1>13 DEF BuiltTo

-----------------------------------------------------------------------------
(***************************************************************************)
(* Buffers: the addresses they are given, and what they are made of.       *)
(***************************************************************************)

\* The powers of two count the subsets of a set.
LEMMA PowerNext ==
    ASSUME NEW n \in Nat
    PROVE  2 ^ n \in Nat \ {0} /\ 2 ^ (n + 1) = 2 * 2 ^ n
<1> DEFINE S == SUBSET (1 .. n)
           T == {s \cup {n + 1} : s \in S}
           f == [s \in S |-> s \cup {n + 1}]
<1>1. /\ IsFiniteSet(1 .. n) /\ Cardinality(1 .. n) = n /\ IsFiniteSet(1 .. n + 1)
      /\ Cardinality(1 .. n + 1) = n + 1
  <2>1. n \in Int /\ n + 1 \in Int /\ 1 \in Int
      OBVIOUS
  <2> QED BY <2>1, FS_Interval
<1>2. IsFiniteSet(S) /\ Cardinality(S) = 2 ^ n
    BY <1>1, FS_SUBSET
<1>3. Cardinality(SUBSET (1 .. n + 1)) = 2 ^ (n + 1)
    BY <1>1, FS_SUBSET
<1>4. SUBSET (1 .. n + 1) = S \cup T
  <2>1. ASSUME NEW s \in SUBSET (1 .. n + 1) PROVE s \in S \cup T
    <3>1. CASE n + 1 \in s
      <4>1. s \ {n + 1} \in S /\ s = (s \ {n + 1}) \cup {n + 1}
          BY <3>1
      <4> QED BY <4>1
    <3>2. CASE n + 1 \notin s
        BY <3>2
    <3> QED BY <3>1, <3>2
  <2>2. ASSUME NEW s \in S \cup T PROVE s \in SUBSET (1 .. n + 1)
      OBVIOUS
  <2> QED BY <2>1, <2>2
<1>5. S \cap T = {}
  <2>1. ASSUME NEW s \in S PROVE n + 1 \notin s
      OBVIOUS
  <2> QED BY <2>1
<1>6. f \in Bijection(S, T)
  <2>1. f \in [S -> T]
      OBVIOUS
  <2>2. ASSUME NEW a \in S, NEW b \in S, f[a] = f[b] PROVE a = b
    <3>1. a \cup {n + 1} = b \cup {n + 1}
        BY <2>2
    <3>2. n + 1 \notin a /\ n + 1 \notin b
        OBVIOUS
    <3> QED BY <3>1, <3>2
  <2>3. \A t \in T : \E s \in S : f[s] = t
      OBVIOUS
  <2> QED BY <2>1, <2>2, <2>3 DEF Bijection, Injection, Surjection, IsInjective
<1>7. IsFiniteSet(T) /\ Cardinality(T) = Cardinality(S)
    BY <1>2, <1>6, FS_Bijection DEF ExistsBijection
<1>8. Cardinality(S \cup T) = Cardinality(S) + Cardinality(T) - Cardinality(S \cap T)
    BY <1>2, <1>7, FS_Union
<1>9. Cardinality(S \cap T) = 0
    BY <1>5, FS_EmptySet
<1>10. Cardinality(S) \in Nat /\ Cardinality(S) # 0
  <2>1. {} \in S
      OBVIOUS
  <2> QED BY <1>2, <2>1, FS_EmptySet, FS_CardinalityType
<1>11. PICK c \in Nat : c = Cardinality(S) /\ c # 0
    BY <1>10
<1>12. Cardinality(SUBSET (1 .. n + 1)) = c + c - 0
    BY <1>4, <1>7, <1>8, <1>9, <1>11, Zenon
<1>13. c + c - 0 = 2 * c
    OBVIOUS
<1>14. 2 ^ n = c /\ 2 ^ (n + 1) = 2 * c
    BY <1>2, <1>3, <1>11, <1>12, <1>13, Zenon
<1>15. c \in Nat \ {0}
    BY <1>11
<1> QED BY <1>14, <1>15, Zenon

LEMMA PowerZero == 2 ^ 0 = 1
<1>1. IsFiniteSet({}) /\ Cardinality({}) = 0
    BY FS_EmptySet
<1>2. Cardinality(SUBSET {}) = 2 ^ Cardinality({})
    BY <1>1, FS_SUBSET
<1>3. SUBSET {} = {{}}
    OBVIOUS
<1> QED BY <1>1, <1>2, <1>3, FS_Singleton

Pow == [n \in Nat |-> 2 ^ n]

LEMMA Powers ==
    /\ Pow \in [Nat -> Nat \ {0}] /\ Pow[0] = 1
    /\ \A n \in Nat : 2 ^ n = Pow[n] /\ Pow[n + 1] = 2 * Pow[n]
<1>1. \A n \in Nat : 2 ^ n = Pow[n]
    BY Zenon DEF Pow
<1>2. ASSUME NEW n \in Nat PROVE Pow[n] \in Nat \ {0} /\ Pow[n + 1] = 2 * Pow[n]
  <2>1. n + 1 \in Nat
      OBVIOUS
  <2>2. Pow[n] = 2 ^ n /\ Pow[n + 1] = 2 ^ (n + 1)
      BY <1>1, <2>1, Zenon
  <2>3. 2 ^ n \in Nat \ {0} /\ 2 ^ (n + 1) = 2 * 2 ^ n
      BY PowerNext, Zenon
  <2> QED BY <2>2, <2>3, Zenon
<1>3. Pow[0] = 1
  <2>1. 0 \in Nat
      OBVIOUS
  <2> QED BY <1>1, <2>1, PowerZero, Zenon
<1>4. Pow \in [Nat -> Nat \ {0}]
  <2>1. Pow = [n \in Nat |-> Pow[n]]
      BY Zenon DEF Pow
  <2> QED BY <1>2, <2>1
<1> QED BY <1>1, <1>2, <1>3, <1>4
LEMMA RoundedUp ==
    ASSUME NEW v \in Nat, NEW a \in Nat \ {0}
    PROVE  /\ round_up_u(v, a) \in Nat /\ v <= round_up_u(v, a) /\ round_up_u(v, a) < v + a
           /\ round_up_u(v, a) % a = 0
           /\ \E k \in Nat : round_up_u(v, a) = k * a
           /\ \A k \in Nat : v <= k * a => round_up_u(v, a) <= k * a
<1>1. PICK w \in Nat : w = v + a - 1
    OBVIOUS
<1>2. PICK k \in Nat : k = w \div a /\ k * a \in Nat /\ k * a <= w /\ w < k * a + a
    BY Divided
<1>3. round_up_u(v, a) = k * a
    BY <1>1, <1>2 DEF round_up_u
<1>4. (k * a) % a = 0
    OBVIOUS
<1>5. v <= k * a /\ k * a < v + a
    BY <1>1, <1>2
<1>6. ASSUME NEW m \in Nat, v <= m * a PROVE k * a <= m * a
  <2>1. SUFFICES ASSUME m < k PROVE FALSE
    <3>1. k <= m => k * a <= m * a
        BY Times
    <3> QED BY <3>1
  <2>2. m * a + a <= k * a /\ m * a \in Nat
      BY <2>1, Times
  <2> QED BY <1>2, <1>5, <1>6, <2>2
<1> QED BY <1>2, <1>3, <1>4, <1>5, <1>6


\* The largest power of two inside a size there is
LEMMA Pow2InIs ==
    ASSUME NEW n \in Nat \ {0}
    PROVE  Pow2In(n) \in Nat \ {0}
<1> DEFINE over == {i \in Nat : n < Pow[i]}
           Is(a) == a <= n /\ n < 2 * a
<1>1. ASSUME NEW k \in Nat PROVE k < Pow[k]
  <2> DEFINE good == {j \in 0 .. k : j < Pow[j]}
  <2>1. ASSUME NEW j \in 0 .. k, \A i \in 0 .. j - 1 : i \in good PROVE j \in good
    <3>1. CASE j = 0
        BY <3>1, Powers
    <3>2. CASE j # 0
      <4>1. PICK i \in 0 .. j - 1 : j = i + 1 /\ i \in Nat
        <5>1. j - 1 \in 0 .. j - 1 /\ j = (j - 1) + 1 /\ j - 1 \in Nat
            BY <3>2
        <5> QED BY <5>1
      <4>2. i < Pow[i] /\ Pow[i] \in Nat /\ Pow[i + 1] = 2 * Pow[i]
          BY <2>1, <4>1, Powers
      <4> QED BY <4>1, <4>2
    <3> QED BY <3>1, <3>2
  <2>2. \A j \in 0 .. k : j \in good
    <3> HIDE DEF good
    <3> QED BY <2>1, Induct
  <2> QED BY <2>2
<1>2. n \in over /\ over \in SUBSET Nat
    BY <1>1
<1>3. PICK j \in over : \A i \in over : j <= i
    BY <1>2, LeastNumber
<1>4. j # 0
    BY <1>3, Powers
<1>5. PICK i \in Nat : j = i + 1 /\ i \in 0 .. n
  <2>1. j - 1 \in Nat /\ j = (j - 1) + 1 /\ j <= n
      BY <1>2, <1>3, <1>4
  <2> QED BY <2>1
<1>6. PICK a \in Nat \ {0} : a = Pow[i] /\ 2 ^ i = a
    BY Powers
<1>7. Is(a)
  <2>1. ~ (n < a)
      BY <1>3, <1>5, <1>6
  <2>2. n < 2 * a
      BY <1>3, <1>5, <1>6, Powers
  <2> QED BY <2>1, <2>2
<1>8. a \in {2 ^ m : m \in 0 .. n}
    BY <1>5, <1>6, Zenon
<1>9. Pow2In(n) = CHOOSE z \in {2 ^ m : m \in 0 .. n} : Is(z)
    BY Zenon DEF Pow2In
<1> HIDE DEF Is
<1>10. PICK z : z = Pow2In(n)
    OBVIOUS
<1>11. z \in {2 ^ m : m \in 0 .. n}
    BY <1>7, <1>8, <1>9, <1>10, Zenon
<1>12. PICK m \in 0 .. n : z = 2 ^ m
    BY <1>11, Zenon
<1>13. m \in Nat
    OBVIOUS
<1>14. z = Pow[m]
    BY <1>12, <1>13, Powers, Zenon
<1>15. Pow[m] \in Nat \ {0}
    BY <1>13, Powers
<1> QED BY <1>10, <1>14, <1>15

LEMMA GivesIs ==
    ASSUME NEW free \in SUBSET Nat, NEW n \in Nat, NEW align \in Nat \ {0},
           NEW at \in Gives(free, n, align)
    PROVE  at \in Nat /\ (\A w \in at .. at + n - 1 : w \in free)
<1>1. PICK lo \in free : lo .. lo + n + align - 1 \subseteq free /\ at = round_up_u(lo, align)
    BY DEF Gives
<1>2. at \in Nat /\ lo <= at /\ at < lo + align /\ lo \in Nat
    BY <1>1, RoundedUp
<1>3. ASSUME NEW w \in at .. at + n - 1 PROVE w \in free
  <2>1. w \in lo .. lo + n + align - 1
      BY <1>2
  <2> QED BY <1>1, <2>1
<1> QED BY <1>2, <1>3

LEMMA AddressesForIs ==
    ASSUME NEW n \in Nat \ {0}, NEW va \in AddressesFor(n)
    PROVE  /\ va \in Nat /\ va + n <= VaPages
           /\ \A w \in va .. va + n - 1 : w \in FreeVa
<1>1. PICK align \in Nat \ {0} : align = Pow2In(n)
    BY Pow2InIs
<1>2. FreeVa \in SUBSET Nat /\ \A w \in FreeVa : w < VaPages
    BY CoversOK DEF FreeVa
<1>3. va \in Gives(FreeVa, n, align)
    BY <1>1 DEF AddressesFor
<1>4. va \in Nat /\ \A w \in va .. va + n - 1 : w \in FreeVa
    BY <1>2, <1>3, GivesIs
<1>5. va + n - 1 < VaPages
  <2>1. va + n - 1 \in va .. va + n - 1
      BY <1>4
  <2> QED BY <1>2, <1>4, <2>1
<1> QED BY <1>4, <1>5, CoversOK

\* The largest of some chunks
LEMMA LargestIs ==
    ASSUME NEW s \in SUBSET Chunks, s # {}, NEW x, x = CHOOSE c \in s : \A d \in s : d <= c
    PROVE  x \in s
<1>1. PICK top \in Nat : top = VaPages
    BY CoversOK
<1>2. ASSUME NEW c \in Chunks PROVE c \in Nat /\ c <= top
  <2>1. PICK lv \in Levels - HugeLevels + 1 .. Levels : c = Covers[lv]
      BY DEF Chunks
  <2>2. lv \in 1 .. Levels
      BY PageTableAssumption, CoversOK DEF Levels
  <2>3. PICK k \in Nat \ {0} : VaPages = k * c
      BY <2>1, <2>2, CoversAll
  <2>4. c \in Nat
      BY <2>1, <2>2, CoversOK
  <2>5. 1 * c <= k * c /\ 1 * c = c
    <3>1. 1 <= k
        OBVIOUS
    <3> QED BY <2>4, <3>1, Times
  <2> QED BY <1>1, <2>3, <2>4, <2>5
<1> DEFINE gaps == {top - c : c \in s}
<1>3. gaps \in SUBSET Nat /\ gaps # {}
    BY <1>2
<1>4. PICK g \in gaps : \A h \in gaps : g <= h
    BY <1>3, LeastNumber
<1>5. PICK c \in s : g = top - c
    BY <1>4
<1>6. ASSUME NEW d \in s PROVE d <= c
  <2>1. g <= top - d
      BY <1>4
  <2>2. c \in Nat /\ d \in Nat
      BY <1>2
  <2> QED BY <1>5, <2>1, <2>2
<1> QED BY <1>6

LEMMA ChunksAre ==
    /\ Chunks # {}
    /\ \A c \in Chunks : c \in Nat \ {0} /\ c <= VaPages
<1>1. ASSUME NEW c \in Chunks PROVE c \in Nat \ {0} /\ c <= VaPages
  <2>1. PICK lv \in Levels - HugeLevels + 1 .. Levels : c = Covers[lv]
      BY DEF Chunks
  <2>2. lv \in 1 .. Levels
      BY PageTableAssumption, CoversOK DEF Levels
  <2>3. PICK k \in Nat \ {0} : VaPages = k * c
      BY <2>1, <2>2, CoversAll
  <2>4. c \in Nat \ {0}
      BY <2>1, <2>2, CoversOK
  <2>5. 1 * c <= k * c /\ 1 * c = c
    <3>1. 1 <= k
        OBVIOUS
    <3> QED BY <2>4, <3>1, Times
  <2> QED BY <2>3, <2>4, <2>5
<1>2. Levels \in Levels - HugeLevels + 1 .. Levels
    BY PageTableAssumption, CoversOK DEF Levels
<1> QED BY <1>1, <1>2 DEF Chunks

LEMMA PiecesAre ==
    ASSUME NEW size \in Nat
    PROVE  \A ranges \in Pieces(size) : ranges \in Seq(RangeSet)
<1>1. PICK start \in SUBSET Nat : start = DataFrames \ Taken
    BY MemoryAssumption
<1> DEFINE D == (0 .. size) \X Chunks \X SUBSET start
           S == SUBSET Seq(RangeSet)
           smaller(c) == {d \in Chunks : d < c}
           next(c) == CHOOSE d \in smaller(c) : \A e \in smaller(c) : e <= d
           at(x) == PhysicalFor(x[3], x[2], x[2])
           less(x) == <<x[1], next(x[2]), x[3]>>
           rest(x, p) == <<x[1] - x[2], x[2], x[3] \ (p .. p + x[2] - 1)>>
           first(x, p) == <<[paddr |-> p, size |-> x[2]]>>
           one(x, g) ==
               IF x[1] = 0 THEN {<<>>}
               ELSE IF x[2] > x[1] \/ at(x) = {}
               THEN IF smaller(x[2]) = {} THEN {<<>>} ELSE g[less(x)]
               ELSE UNION {{first(x, p) \o r : r \in g[rest(x, p)]} : p \in at(x)}
           step == [x \in D |-> [g \in [D -> S] |-> one(x, g)]]
           measure == [x \in D |-> x[1] + x[2]]
<1>2. \A x \in D : /\ x[1] \in 0 .. size /\ x[2] \in Chunks /\ x[3] \in SUBSET start
                   /\ x[2] \in Nat \ {0} /\ x[2] <= VaPages /\ x[1] \in Nat
    BY ChunksAre
<1>3. ASSUME NEW x \in D, smaller(x[2]) # {}
      PROVE  less(x) \in D /\ measure[less(x)] < measure[x]
  <2>1. next(x[2]) \in smaller(x[2])
    <3>1. smaller(x[2]) \in SUBSET Chunks
        OBVIOUS
    <3> HIDE DEF smaller
    <3> QED BY <1>3, <3>1, LargestIs
  <2>2. PICK d \in Chunks : d = next(x[2]) /\ d < x[2]
      BY <2>1
  <2> HIDE DEF next
  <2>3. less(x) = <<x[1], d, x[3]>> /\ <<x[1], d, x[3]>> \in D
      BY <1>2, <2>2
  <2>4. measure[<<x[1], d, x[3]>>] = x[1] + d
      BY <2>3
  <2>5. d \in Nat
      BY ChunksAre
  <2> QED BY <1>2, <2>2, <2>3, <2>4, <2>5
<1>4. ASSUME NEW x \in D, ~ (x[2] > x[1]), NEW p
      PROVE  rest(x, p) \in D /\ measure[rest(x, p)] < measure[x]
  <2>1. PICK a \in Nat, c \in Nat \ {0} : a = x[1] /\ c = x[2] /\ a <= size
      BY <1>2
  <2>2. PICK b \in Nat : b = a - c /\ b <= size /\ b + c < a + c
    <3>1. a - c \in Nat /\ a - c <= size /\ (a - c) + c < a + c
        BY <1>4, <2>1
    <3> QED BY <3>1
  <2>3. PICK y : y = rest(x, p)
      OBVIOUS
  <2>4. y = <<b, c, x[3] \ (p .. p + c - 1)>> /\ c \in Chunks
      BY <1>2, <2>1, <2>2, <2>3
  <2>5. x[3] \ (p .. p + c - 1) \in SUBSET start
      BY <1>2
  <2>6. y \in D
      BY <2>2, <2>4, <2>5
  <2>7. y[1] = b /\ y[2] = c
      BY <2>4
  <2>8. measure[y] = b + c /\ measure[x] = a + c
      BY <2>1, <2>6, <2>7
  <2> QED BY <2>2, <2>3, <2>6, <2>8
<1>5. ASSUME NEW x \in D, NEW p \in at(x) PROVE p \in Nat
    BY <1>1, <1>2, GivesIs DEF PhysicalFor
<1> HIDE DEF at, less, rest, smaller
<1>6. \A x \in D : \A g \in [D -> S] : one(x, g) \in S
  <2>1. ASSUME NEW x \in D, NEW g \in [D -> S] PROVE one(x, g) \in S
    <3>1. {<<>>} \in S
        OBVIOUS
    <3>2. smaller(x[2]) # {} => g[less(x)] \in S
        BY <1>3
    <3>3. ASSUME NEW p \in at(x), ~ (x[2] > x[1]), NEW r \in g[rest(x, p)]
          PROVE  first(x, p) \o r \in Seq(RangeSet)
      <4>1. r \in Seq(RangeSet)
        <5>1. g[rest(x, p)] \in S
            BY <1>4, <3>3
        <5> QED BY <3>3, <5>1
      <4>2. [paddr |-> p, size |-> x[2]] \in RangeSet
          BY <1>2, <1>5, <3>3 DEF RangeSet
      <4>3. first(x, p) \in Seq(RangeSet)
          BY <4>2
      <4> QED BY <4>1, <4>3
    <3> HIDE DEF D, first
    <3>4. ASSUME ~ (x[2] > x[1])
          PROVE  UNION {{first(x, p) \o r : r \in g[rest(x, p)]} : p \in at(x)} \in S
      <4>1. \A p \in at(x) : \A r \in g[rest(x, p)] : first(x, p) \o r \in Seq(RangeSet)
          BY <3>3, <3>4
      <4> DEFINE of(p) == {first(x, p) \o r : r \in g[rest(x, p)]}
      <4>2. \A p \in at(x) : of(p) \in SUBSET Seq(RangeSet)
          BY <4>1
      <4> HIDE DEF of
      <4>3. UNION {of(p) : p \in at(x)} \in SUBSET Seq(RangeSet)
          BY <4>2
      <4> USE DEF of
      <4> QED BY <4>3, Zenon
    <3> HIDE DEF S
    <3> QED BY <3>1, <3>2, <3>4
  <2> QED BY <2>1
<1> HIDE DEF first
<1>7. ASSUME NEW x \in D, NEW f, NEW g,
              \A y \in D : measure[y] < measure[x] => f[y] = g[y]
       PROVE  one(x, f) = one(x, g)
  <2> HIDE DEF D, S, measure
  <2>1. smaller(x[2]) # {} => f[less(x)] = g[less(x)]
      BY <1>3, <1>7
  <2>2. \A p : ~ (x[2] > x[1]) => f[rest(x, p)] = g[rest(x, p)]
      BY <1>4, <1>7
  <2>3. CASE x[2] > x[1]
      BY <2>1, <2>3
  <2>4. CASE ~ (x[2] > x[1])
    <3> DEFINE of(h, p) == {first(x, p) \o r : r \in h[rest(x, p)]}
    <3>1. \A p : of(f, p) = of(g, p)
      <4>1. ASSUME NEW p PROVE of(f, p) = of(g, p)
        <5>1. f[rest(x, p)] = g[rest(x, p)]
            BY <2>2, <2>4
        <5> QED BY <5>1, Zenon
      <4> QED BY <4>1
    <3> DEFINE all(h) == UNION {of(h, p) : p \in at(x)}
    <3> HIDE DEF of
    <3>2. all(f) = all(g)
        BY <3>1
    <3> USE DEF of
    <3> HIDE DEF all
    <3>3. \A h : one(x, h) = IF x[1] = 0 THEN {<<>>}
                             ELSE IF x[2] > x[1] \/ at(x) = {}
                             THEN IF smaller(x[2]) = {} THEN {<<>>} ELSE h[less(x)]
                             ELSE all(h)
        BY Zenon DEF all
    <3> HIDE DEF one, of
    <3>4. one(x, f) = one(x, g)
        BY <2>1, <3>2, <3>3
    <3> QED BY <3>4
  <2> QED BY <2>3, <2>4
<1>8. \E f \in [D -> S] : \A x \in D : f[x] = step[x][f]
  <2>1. PICK most \in Nat : most = size + VaPages + 1
      BY CoversOK
  <2>2. measure \in [D -> Nat] /\ \A x \in D : measure[x] < most
    <3>1. \A x \in D : x[1] + x[2] \in Nat /\ x[1] + x[2] < most
        BY <1>2, <2>1, CoversOK
    <3> HIDE DEF D
    <3> QED BY <3>1
  <2>3. {} \in S
      OBVIOUS
  <2>4. step \in [D -> [[D -> S] -> S]]
    <3> HIDE DEF D, S, one
    <3> QED BY <1>6
  <2>5. \A x \in D : \A f, g \in [D -> S] :
            (\A y \in D : measure[y] < measure[x] => f[y] = g[y]) => step[x][f] = step[x][g]
    <3>1. ASSUME NEW x \in D, NEW f \in [D -> S], NEW g \in [D -> S],
                 \A y \in D : measure[y] < measure[x] => f[y] = g[y]
          PROVE  step[x][f] = step[x][g]
      <4> HIDE DEF D, S, measure, one
      <4>1. one(x, f) = one(x, g)
          BY <1>7, <3>1
      <4> QED BY <4>1
    <3> QED BY <3>1
  <2> HIDE DEF D, S, step, measure
  <2>6. Recurs(D, S, measure, most, step)
      BY <2>1, <2>2, <2>3, <2>4, <2>5 DEF Recurs
  <2> QED BY <2>6, Recursive
<1>9. PICK f \in [D -> S] : \A x \in D : f[x] = one(x, f)
  <2> HIDE DEF D, S, one
  <2> QED BY <1>8
<1> DEFINE biggest == CHOOSE c \in Chunks : \A d \in Chunks : d <= c
           body(g) == [x \in D |-> one(x, g)]
<1>10. Pieces(size) = (CHOOSE g : g = body(g))[<<size, biggest, start>>]
    BY <1>1, Zenon DEF Pieces, at, less, rest, smaller, first
<1>11. f = body(f)
  <2> HIDE DEF D, S, one
  <2>1. f = [x \in D |-> f[x]]
      OBVIOUS
  <2> QED BY <1>9, <2>1
<1>12. PICK g : g = (CHOOSE h : h = body(h))
    OBVIOUS
<1>13. g = body(g)
  <2> HIDE DEF body
  <2> QED BY <1>11, <1>12
<1>14. \A x \in D : g[x] = one(x, g)
  <2> HIDE DEF D, one
  <2> QED BY <1>13
<1>15. ASSUME NEW x \in D, \A y \in D : measure[y] < measure[x] => g[y] \in S
       PROVE  g[x] \in S
  <2> DEFINE h == [y \in D |-> IF g[y] \in S THEN g[y] ELSE {}]
  <2>1. h \in [D -> S]
    <3> HIDE DEF D
    <3> QED OBVIOUS
  <2>2. \A y \in D : measure[y] < measure[x] => h[y] = g[y]
    <3> HIDE DEF D, S, measure
    <3> QED BY <1>15
  <2>3. one(x, h) \in S
      BY <1>6, <2>1
  <2>4. one(x, h) = one(x, g)
    <3> HIDE DEF D, one, measure, h
    <3> QED BY <1>7, <2>2
  <2> HIDE DEF D, S, one, measure, h
  <2> QED BY <1>14, <2>3, <2>4
<1>16. PICK most \in Nat : most = size + VaPages
    BY CoversOK
<1>17. \A x \in D : measure[x] \in 0 .. most
  <2>1. ASSUME NEW x \in D PROVE measure[x] \in 0 .. most
    <3>1. measure[x] = x[1] + x[2]
        OBVIOUS
    <3>2. x[1] + x[2] \in 0 .. most
        BY <1>2, <1>16, CoversOK
    <3> QED BY <3>1, <3>2
  <2> QED BY <2>1
<1>18. \A k \in 0 .. most : \A x \in D : measure[x] = k => g[x] \in S
  <2> DEFINE good == {k \in 0 .. most : \A x \in D : measure[x] = k => g[x] \in S}
  <2>1. ASSUME NEW k \in 0 .. most, \A j \in 0 .. k - 1 : j \in good PROVE k \in good
    <3> HIDE DEF D, S, measure
    <3>1. ASSUME NEW x \in D, measure[x] = k PROVE g[x] \in S
      <4>1. ASSUME NEW y \in D, measure[y] < measure[x] PROVE g[y] \in S
        <5>1. measure[y] \in 0 .. k - 1
            BY <1>17, <3>1, <4>1
        <5> QED BY <2>1, <5>1
      <4> QED BY <1>15, <4>1
    <3> QED BY <3>1
  <2>2. \A k \in 0 .. most : k \in good
    <3> HIDE DEF good
    <3> QED BY <1>16, <2>1, Induct
  <2> QED BY <2>2
<1>19. biggest \in Chunks
    BY ChunksAre, LargestIs
<1>20. <<size, biggest, start>> \in D
  <2>1. size \in 0 .. size /\ start \in SUBSET start
      OBVIOUS
  <2> HIDE DEF biggest
  <2> QED BY <1>19, <2>1
<1>21. g[<<size, biggest, start>>] \in S
  <2> HIDE DEF D, S, measure, biggest
  <2> QED BY <1>17, <1>18, <1>20
<1> QED BY <1>10, <1>12, <1>21

\* What a buffer is made of is ranges of memory, whatever its kind.
LEMMA ChoicesAre ==
    ASSUME NEW size \in Nat \ {0}, NEW kind \in Kinds, NEW ranges \in Choices(kind, size)
    PROVE  ranges \in Seq(RangeSet)
<1>1. CASE kind = "host"
  <2>1. PICK f \in [1 .. size -> HostFrames \ Taken] :
            ranges = [i \in 1 .. size |-> [paddr |-> f[i], size |-> 1]]
      BY <1>1 DEF Choices
  <2>2. \A i \in 1 .. size : [paddr |-> f[i], size |-> 1] \in RangeSet
      BY MemoryAssumption DEF RangeSet
  <2>3. ranges \in [1 .. size -> RangeSet] /\ size \in Nat
      BY <2>1, <2>2
  <2> QED BY <2>3
<1>2. ASSUME NEW frames \in SUBSET Nat, ranges \in InOne(frames, size)
      PROVE  ranges \in Seq(RangeSet)
  <2>1. PICK p \in frames : ranges = <<[paddr |-> p, size |-> size]>>
      BY <1>2 DEF InOne
  <2>2. [paddr |-> p, size |-> size] \in RangeSet
      BY DEF RangeSet
  <2> QED BY <2>1, <2>2
<1>3. CASE kind = "reserve"
  <2> DEFINE above == {p \in PoolFrames : \A q \in mm.reserved : p > q}
             chosen == {p \in above : p .. p + size - 1 \subseteq above /\ \A q \in above : p <= q}
  <2>1. chosen \in SUBSET Nat
      BY MemoryAssumption
  <2>2. ranges \in InOne(chosen, size)
      BY <1>3, Zenon DEF Choices
  <2> HIDE DEF chosen
  <2> QED BY <1>2, <2>1, <2>2
<1>4. CASE kind = "contiguous"
  <2>1. ranges \in InOne(PhysicalFor(DataFrames \ Taken, size, 1), size)
      BY <1>4 DEF Choices
  <2>2. ASSUME NEW p \in PhysicalFor(DataFrames \ Taken, size, 1) PROVE p \in Nat
    <3>1. PICK free \in SUBSET Nat : free = DataFrames \ Taken
        BY MemoryAssumption
    <3>2. PICK one \in Nat \ {0} : one = 1
        OBVIOUS
    <3>3. p \in Gives(free, size, one)
        BY <3>1, <3>2 DEF PhysicalFor
    <3> QED BY <3>3, GivesIs
  <2>3. PhysicalFor(DataFrames \ Taken, size, 1) \in SUBSET Nat
      BY <2>2
  <2> QED BY <1>2, <2>1, <2>3
<1>5. CASE kind = "chunks"
  <2>1. ranges \in Pieces(size)
      BY <1>5 DEF Choices
  <2> QED BY <2>1, PiecesAre
<1> QED BY <1>1, <1>3, <1>4, <1>5 DEF Kinds

LEMMA OffersAre ==
    ASSUME NEW size \in Nat \ {0}, NEW kind \in Kinds, NEW ranges \in Offers(kind, size)
    PROVE  ranges \in Seq(RangeSet)
<1>1. <<>> \in Seq(RangeSet)
    OBVIOUS
<1> QED BY <1>1, ChoicesAre DEF Offers

-----------------------------------------------------------------------------
(***************************************************************************)
(* Memory: every page in the tables is a buffer's, and shows its memory.   *)
(***************************************************************************)

\* Memory mapped whole: where, how much, and the frames in order
BufferSet == {m \in [va : Nat, size : Nat, pages : Seq(Nat)] : m.va + m.size <= VaPages}

\* An entry leads to pages of a buffer, those at its addresses
ShowsOf(t, e, m) ==
    \A w \in Nat : Spans(e, w) =>
        /\ m.va <= w /\ w < m.va + m.size
        /\ w - m.va + 1 \in 1 .. Len(m.pages)
        /\ m.pages[w - m.va + 1] = t[e].frame + (w - e[2])

\* Every page is some buffer's
BackedBy(t, bufs) == \A e \in Entries : IsPage(t, e) => \E m \in bufs : ShowsOf(t, e, m)

\* Buffers that share an address are one
Apart(bufs) ==
    \A a \in bufs : \A b \in bufs : \A w \in Nat :
        (a.va <= w /\ w < a.va + a.size) /\ (b.va <= w /\ w < b.va + b.size) => a = b

\* Every address of a buffer has a page
Mapped(t, m) ==
    \A w \in m.va .. m.va + m.size - 1 : \E e \in Entries : IsPage(t, e) /\ Spans(e, w)

LEMMA BufferIs ==
    ASSUME NEW m \in BufferSet
    PROVE  /\ m.va \in Nat /\ m.size \in Nat /\ m.pages \in Seq(Nat) /\ Len(m.pages) \in Nat
           /\ m.va + m.size <= VaPages
BY DEF BufferSet

\* All the card can reach through a tree is the buffers'.
LEMMA ReachesBuffers ==
    ASSUME NEW t, TreeOK(t), Aligned(t), NEW bufs \in SUBSET BufferSet, BackedBy(t, bufs)
    PROVE  Translations(t) \subseteq UNION {PagesOf(m) : m \in bufs}
<1>1. ASSUME NEW x \in Translations(t) PROVE \E m \in bufs : x \in PagesOf(m)
  <2>1. PICK e \in Entries, w \in 0 .. VaPages - 1 :
            IsPage(t, e) /\ Spans(e, w) /\ x = <<w, t[e].frame + (w - e[2])>>
      BY TranslationOf
  <2>2. PICK m \in bufs : ShowsOf(t, e, m)
      BY <2>1 DEF BackedBy
  <2>3. w \in Nat
      BY CoversOK
  <2>4. PICK i \in Nat : i = w - m.va + 1 /\ w = m.va + i - 1
    <3>1. m.va \in Nat /\ m.va <= w
        BY <2>1, <2>2, <2>3, BufferIs DEF ShowsOf
    <3>2. w - m.va + 1 \in Nat /\ w = m.va + (w - m.va + 1) - 1
        BY <2>3, <3>1
    <3> QED BY <3>2
  <2>5. /\ w < m.va + m.size /\ i \in 1 .. Len(m.pages)
        /\ m.pages[i] = t[e].frame + (w - e[2])
      BY <2>1, <2>2, <2>3, <2>4 DEF ShowsOf
  <2>6. i \in 1 .. m.size
      BY <2>3, <2>4, <2>5, BufferIs
  <2>7. i \in DOMAIN m.pages
      BY <2>5, BufferIs
  <2>8. x = <<m.va + i - 1, m.pages[i]>>
      BY <2>1, <2>4, <2>5
  <2>9. i \in 1 .. m.size \cap DOMAIN m.pages
      BY <2>6, <2>7
  <2>10. x \in PagesOf(m)
      BY <2>8, <2>9 DEF PagesOf
  <2> QED BY <2>10
<1> QED BY <1>1

\* Where a page meets a range there is an address in both.
LEMMA MeetsAt ==
    ASSUME NEW e \in Entries, NEW va \in Nat, NEW end \in Nat, va < end, Meets(e, va, end)
    PROVE  \E w \in Nat : Spans(e, w) /\ va <= w /\ w < end
<1>1. PICK a \in Nat, c \in Nat \ {0} : a = e[2] /\ c = Covers[e[1]]
  <2>1. e[2] \in Nat /\ Covers[e[1]] \in Nat \ {0}
      BY EntryShape
  <2> QED BY <2>1
<1>2. a < end /\ va < a + c
    BY <1>1 DEF Meets
<1>3. CASE a <= va
  <2>1. Spans(e, va)
      BY <1>1, <1>2, <1>3 DEF Spans
  <2> QED BY <2>1
<1>4. CASE va < a
  <2>1. Spans(e, a)
      BY <1>1 DEF Spans
  <2> QED BY <1>2, <1>4, <2>1
<1> QED BY <1>3, <1>4

\* What no buffer has no page is in.
LEMMA FreeHasNoPage ==
    ASSUME NEW t, NEW bufs \in SUBSET BufferSet, BackedBy(t, bufs),
           NEW va \in Nat, NEW end \in Nat, va < end,
           \A w \in va .. end - 1 : \A m \in bufs : ~ (m.va <= w /\ w < m.va + m.size)
    PROVE  \A e \in Entries : IsPage(t, e) => ~ Meets(e, va, end)
<1> SUFFICES ASSUME NEW e \in Entries, IsPage(t, e), Meets(e, va, end) PROVE FALSE
    OBVIOUS
<1>1. PICK w \in Nat : Spans(e, w) /\ va <= w /\ w < end
    BY MeetsAt
<1>2. PICK m \in bufs : ShowsOf(t, e, m)
    BY DEF BackedBy
<1>3. m.va <= w /\ w < m.va + m.size
    BY <1>1, <1>2 DEF ShowsOf
<1>4. w \in va .. end - 1
    BY <1>1
<1> QED BY <1>3, <1>4

\* A page that meets a buffer's range is in it, and shows it.
LEMMA PageInBuffer ==
    ASSUME NEW t, NEW bufs \in SUBSET BufferSet, BackedBy(t, bufs), Apart(bufs),
           NEW m \in bufs, NEW e \in Entries, IsPage(t, e), NEW w \in Nat, Spans(e, w),
           m.va <= w, w < m.va + m.size
    PROVE  /\ ShowsOf(t, e, m)
           /\ m.va <= e[2] /\ e[2] + Covers[e[1]] <= m.va + m.size
<1>1. PICK b \in bufs : ShowsOf(t, e, b)
    BY DEF BackedBy
<1>2. b.va <= w /\ w < b.va + b.size
    BY <1>1 DEF ShowsOf
<1>3. b = m
    BY <1>2 DEF Apart
<1>4. PICK a \in Nat, c \in Nat \ {0} : a = e[2] /\ c = Covers[e[1]]
  <2>1. e[2] \in Nat /\ Covers[e[1]] \in Nat \ {0}
      BY EntryShape
  <2> QED BY <2>1
<1>5. Spans(e, a) /\ Spans(e, a + c - 1) /\ a + c - 1 \in Nat
    BY <1>4 DEF Spans
<1>6. m.va <= a /\ a + c - 1 < m.va + m.size
    BY <1>1, <1>3, <1>4, <1>5 DEF ShowsOf
<1> QED BY <1>1, <1>3, <1>4, <1>6, BufferIs, SMTT(60)

\* What a build over free addresses leaves: pages of the buffer it was for, that
\* fill its range as far as it came, beside those there were.
Grown(t, new, bufs, m, leaves, room) ==
    /\ TreeOK(new) /\ Aligned(new) /\ BackedBy(new, bufs \cup {m}) /\ m \in BufferSet
    /\ \A e \in Entries : IsPage(t, e) => new[e] = t[e]
    /\ \A e \in Entries : IsPage(new, e) =>
           \/ IsPage(t, e)
           \/ Meets(e, m.va, m.va + m.size) /\ \E i \in DOMAIN leaves : leaves[i].at = e
    /\ \A i \in DOMAIN leaves : ~ IsPage(t, leaves[i].at)
    /\ \E x : /\ Filled(new, m.va, x, m.va + m.size)
              /\ Reached(t, leaves, room) = Len(leaves) => x = m.va + m.size
    /\ Cardinality(Made(t, leaves, room)) \in 0 .. room

LEMMA BuildOver ==
    ASSUME NEW t, TreeOK(t), Aligned(t), NEW bufs \in SUBSET BufferSet, BackedBy(t, bufs),
           NEW va \in Nat, NEW size \in Nat \ {0}, va + size <= VaPages,
           NEW ranges \in Seq(RangeSet), NEW pages, pages = PagesIn(ranges), Len(pages) = size,
           NEW m, m = [va |-> va, size |-> size, pages |-> pages],
           Unpaged(t, va, va + size),
           NEW room \in Nat, NEW leaves, leaves = LeavesOf(va, ranges),
           NEW new, new = Built(t, leaves, room)
    PROVE  Grown(t, new, bufs, m, leaves, room)
<1>1. pages \in Seq(Nat)
    BY PagesInIs
<1>2. m \in BufferSet
    BY <1>1 DEF BufferSet
<1>3. PICK hi \in Nat : hi = va + size
    OBVIOUS
<1> DEFINE shown == [w \in Nat |-> pages[w - va + 1]]
<1>4. \A j \in 1 .. Len(pages) : shown[va + j - 1] = pages[j]
  <2>1. ASSUME NEW j \in 1 .. Len(pages) PROVE shown[va + j - 1] = pages[j]
    <3>1. va + j - 1 \in Nat /\ (va + j - 1) - va + 1 = j
        OBVIOUS
    <3> QED BY <3>1
  <2> QED BY <2>1
<1>5. Tiling(leaves, va, hi, shown)
  <2> HIDE DEF shown
  <2> QED BY <1>3, <1>4, LeavesOfTile
<1>6. PICK s : Tiled(leaves, s, va, hi)
    BY <1>5 DEF Tiling
<1>7. PICK n : n = Reached(t, leaves, room)
    OBVIOUS
<1>8. Unpaged(t, va, hi)
    BY <1>3
<1>9. /\ TreeOK(new) /\ n \in 0 .. Len(leaves)
      /\ \A i \in 1 .. n : new[leaves[i].at] = Page(leaves[i].frame)
      /\ \A e \in Entries : IsPage(t, e) => new[e] = t[e]
      /\ \A e \in Entries : IsPage(new, e) =>
             (\E i \in 1 .. n : e = leaves[i].at) \/ (IsPage(t, e) /\ new[e] = t[e])
  <2>1. BuiltTo(t, new, leaves, n)
      BY <1>6, <1>7, <1>8, BuiltIs
  <2> QED BY <2>1 DEF BuiltTo
<1>10. /\ Len(leaves) \in Nat /\ n \in Nat /\ leaves \in Seq(LeafSet)
       /\ \A i \in 1 .. n : /\ i \in 1 .. Len(leaves) /\ leaves[i].at \in Entries
                            /\ leaves[i].frame \in Nat
  <2>1. Len(leaves) \in Nat /\ leaves \in Seq(LeafSet)
      BY <1>6, TiledSteps DEF Tiled
  <2>2. \A i \in 1 .. n : i \in 1 .. Len(leaves)
      BY <1>9, <2>1
  <2>3. n \in Nat
      BY <1>9, <2>1
  <2> QED BY <1>6, <2>1, <2>2, <2>3, TiledSteps
<1>11. /\ s[n] \in Nat /\ va <= s[n] /\ s[n] <= hi
       /\ \A i \in 1 .. n : /\ va <= leaves[i].at[2]
                            /\ leaves[i].at[2] + Covers[leaves[i].at[1]] <= s[n]
       /\ \A w \in va .. s[n] - 1 : \E i \in 1 .. n : Spans(leaves[i].at, w)
    BY <1>6, <1>9, TiledFirst
<1>12. ASSUME NEW i \in 1 .. n
       PROVE  /\ IsPage(new, leaves[i].at) /\ new[leaves[i].at].frame = leaves[i].frame
              /\ ShowsOne(leaves[i], shown) /\ Meets(leaves[i].at, va, hi)
              /\ leaves[i].at \in Entries
  <2>1. new[leaves[i].at] = Page(leaves[i].frame)
      BY <1>9
  <2>2. ShowsOne(leaves[i], shown)
    <3> HIDE DEF shown
    <3> QED BY <1>5, <1>10 DEF Tiling, Shows
  <2>3. Meets(leaves[i].at, va, hi)
    <3>1. PICK a \in Nat, c \in Nat \ {0} : a = leaves[i].at[2] /\ c = Covers[leaves[i].at[1]]
      <4>1. leaves[i].at \in Entries
          BY <1>10
      <4>2. leaves[i].at[2] \in Nat /\ Covers[leaves[i].at[1]] \in Nat \ {0}
          BY <4>1, EntryShape
      <4> QED BY <4>2
    <3>2. PICK z \in Nat : z = s[n] /\ z <= hi
        BY <1>11
    <3>3. va <= a /\ a + c <= z
        BY <1>11, <3>1, <3>2
    <3>4. a < hi /\ va < a + c
        BY <3>2, <3>3
    <3> QED BY <3>1, <3>4 DEF Meets
  <2> QED BY <1>10, <2>1, <2>2, <2>3, KindsDiffer DEF IsPage
<1>13. Aligned(new)
  <2>1. ASSUME NEW e \in Entries, IsPage(new, e)
        PROVE  new[e].frame \in Nat /\ \E k \in Nat : new[e].frame = k * Covers[e[1]]
    <3>1. CASE \E i \in 1 .. n : e = leaves[i].at
      <4>1. PICK i \in 1 .. n : e = leaves[i].at
          BY <3>1
      <4> HIDE DEF shown
      <4>2. new[e].frame = leaves[i].frame /\ leaves[i].frame \in Nat /\ ShowsOne(leaves[i], shown)
          BY <1>10, <1>12, <4>1
      <4>3. \E k \in Nat : leaves[i].frame = k * Covers[e[1]]
          BY <4>1, <4>2 DEF ShowsOne
      <4> QED BY <4>2, <4>3
    <3>2. CASE IsPage(t, e) /\ new[e] = t[e]
        BY <3>2 DEF Aligned
    <3> QED BY <1>9, <2>1, <3>1, <3>2
  <2> QED BY <2>1 DEF Aligned
<1>14. BackedBy(new, bufs \cup {m})
  <2>1. ASSUME NEW e \in Entries, IsPage(new, e) PROVE \E b \in bufs \cup {m} : ShowsOf(new, e, b)
    <3>1. CASE \E i \in 1 .. n : e = leaves[i].at
      <4>1. PICK i \in 1 .. n : e = leaves[i].at
          BY <3>1
      <4>2. ASSUME NEW w \in Nat, Spans(e, w)
            PROVE  /\ m.va <= w /\ w < m.va + m.size
                   /\ w - m.va + 1 \in 1 .. Len(m.pages)
                   /\ m.pages[w - m.va + 1] = new[e].frame + (w - e[2])
        <5>1. shown[w] = new[e].frame + (w - e[2])
          <6> HIDE DEF shown
          <6> QED BY <1>12, <4>1, <4>2 DEF ShowsOne
        <5>2. PICK a \in Nat, c \in Nat \ {0} : a = e[2] /\ c = Covers[e[1]]
          <6>1. e[2] \in Nat /\ Covers[e[1]] \in Nat \ {0}
              BY EntryShape
          <6> QED BY <6>1
        <5>3. va <= a /\ a + c <= s[n]
            BY <1>11, <4>1, <5>2
        <5>4. va <= w /\ w < va + size
            BY <1>3, <1>11, <4>2, <5>2, <5>3, SMTT(60) DEF Spans
        <5>5. w - va + 1 \in 1 .. Len(pages)
            BY <5>4
        <5> QED BY <5>1, <5>4, <5>5
      <4>3. ShowsOf(new, e, m)
          BY <4>2 DEF ShowsOf
      <4> QED BY <4>3
    <3>2. CASE IsPage(t, e) /\ new[e] = t[e]
      <4>1. PICK b \in bufs : ShowsOf(t, e, b)
          BY <3>2 DEF BackedBy
      <4>2. ShowsOf(new, e, b)
          BY <3>2, <4>1 DEF ShowsOf
      <4> QED BY <4>2
    <3> QED BY <1>9, <2>1, <3>1, <3>2
  <2> QED BY <2>1 DEF BackedBy
<1>15. ASSUME NEW e \in Entries, IsPage(new, e), ~ IsPage(t, e)
       PROVE  \E i \in 1 .. n : e = leaves[i].at
    BY <1>9, <1>15
<1>16. \A e \in Entries : IsPage(new, e) =>
           \/ IsPage(t, e)
           \/ Meets(e, va, va + size) /\ \E i \in DOMAIN leaves : leaves[i].at = e
  <2>1. ASSUME NEW e \in Entries, IsPage(new, e), ~ IsPage(t, e)
        PROVE  Meets(e, va, va + size) /\ \E i \in DOMAIN leaves : leaves[i].at = e
    <3>1. PICK i \in 1 .. n : e = leaves[i].at
        BY <1>15, <2>1
    <3>2. i \in DOMAIN leaves
        BY <1>10
    <3> QED BY <1>3, <1>12, <3>1, <3>2
  <2> QED BY <2>1
<1>17. Filled(new, va, s[n], va + size)
  <2>1. ASSUME NEW e \in Entries, IsPage(new, e), Meets(e, va, va + size)
        PROVE  va <= e[2] /\ e[2] + Covers[e[1]] <= s[n]
    <3>1. ~ IsPage(t, e)
        BY <2>1 DEF Unpaged
    <3>2. PICK i \in 1 .. n : e = leaves[i].at
        BY <1>15, <2>1, <3>1
    <3> QED BY <1>11, <3>2
  <2>2. \A w \in va .. s[n] - 1 : \E e \in Entries : IsPage(new, e) /\ Spans(e, w)
    <3>1. ASSUME NEW w \in va .. s[n] - 1 PROVE \E e \in Entries : IsPage(new, e) /\ Spans(e, w)
      <4>1. PICK i \in 1 .. n : Spans(leaves[i].at, w)
          BY <1>11
      <4> HIDE DEF shown
      <4> QED BY <1>12, <4>1
    <3> QED BY <3>1
  <2>3. s[n] \in va .. va + size
      BY <1>3, <1>11
  <2> QED BY <2>1, <2>2, <2>3 DEF Filled
<1>18. n = Len(leaves) => s[n] = va + size
    BY <1>3, <1>6 DEF Tiled
<1>19. Cardinality(Made(t, leaves, room)) \in 0 .. room
  <2>1. \A i \in 1 .. Len(leaves) : leaves[i].at \in Entries
      BY <1>6, TiledSteps
  <2>2. PICK made : made = Made(t, leaves, room)
      OBVIOUS
  <2>3. Cardinality(made) \in Nat /\ Cardinality(made) <= room
    <3>1. Cardinality(made) \in Nat
        BY <1>7, <1>10, <2>1, <2>2, MadeIs
    <3>2. Cardinality(made) <= room
        BY <1>7, <1>10, <2>1, <2>2, MadeIs
    <3> QED BY <3>1, <3>2
  <2> QED BY <2>2, <2>3
<1>20. /\ m.va = va /\ m.size = size
    OBVIOUS
<1>21. \E x : /\ Filled(new, m.va, x, m.va + m.size)
              /\ Reached(t, leaves, room) = Len(leaves) => x = m.va + m.size
    BY <1>7, <1>17, <1>18, <1>20
<1>22. \A e \in Entries : IsPage(new, e) =>
           \/ IsPage(t, e)
           \/ Meets(e, m.va, m.va + m.size) /\ \E i \in DOMAIN leaves : leaves[i].at = e
    BY <1>16, <1>20
<1>23. ASSUME NEW i \in DOMAIN leaves PROVE ~ IsPage(t, leaves[i].at)
  <2>1. i \in 1 .. Len(leaves) /\ Len(leaves) \in 0 .. Len(leaves)
      BY <1>10
  <2>2. leaves[i].at \in Entries
      BY <1>6, <2>1, TiledSteps
  <2>3. PICK a \in Nat, c \in Nat \ {0} : a = leaves[i].at[2] /\ c = Covers[leaves[i].at[1]]
    <3>1. leaves[i].at[2] \in Nat /\ Covers[leaves[i].at[1]] \in Nat \ {0}
        BY <2>2, EntryShape
    <3> QED BY <3>1
  <2>4. PICK z \in Nat : z = s[Len(leaves)] /\ z <= hi /\ va <= a /\ a + c <= z
      BY <1>6, <2>1, <2>3, TiledFirst
  <2>5. a < hi /\ va < a + c
      BY <2>4
  <2>6. Meets(leaves[i].at, va, hi)
      BY <2>3, <2>5 DEF Meets
  <2> QED BY <1>8, <2>2, <2>6 DEF Unpaged
<1> QED BY <1>2, <1>9, <1>13, <1>14, <1>19, <1>21, <1>22, <1>23 DEF Grown

\* What clearing a range that pages fill does to the rest.
LEMMA ClearedOf ==
    ASSUME NEW t, TreeOK(t), Aligned(t), NEW bufs \in SUBSET BufferSet, BackedBy(t, bufs),
           NEW va \in Nat, NEW size \in Nat, va + size <= VaPages,
           NEW x, Filled(t, va, x, va + size), NEW new, new = Unmapped(t, va, size)
    PROVE  /\ TreeOK(new) /\ Aligned(new) /\ BackedBy(new, bufs)
           /\ \A e \in Entries : IsPage(new, e) => /\ IsPage(t, e) /\ new[e] = t[e]
                                                   /\ ~ Meets(e, va, va + size)
           /\ \A e \in Entries : IsPage(t, e) /\ ~ Meets(e, va, va + size) => new[e] = t[e]
<1>1. /\ TreeOK(new)
      /\ \A e \in Entries : IsPage(new, e) => /\ IsPage(t, e) /\ new[e] = t[e]
                                              /\ ~ Meets(e, va, va + size)
      /\ \A e \in Entries : IsPage(t, e) /\ ~ Meets(e, va, va + size) => new[e] = t[e]
    BY Cleared
<1>2. Aligned(new)
    BY <1>1 DEF Aligned
<1>3. BackedBy(new, bufs)
  <2>1. ASSUME NEW e \in Entries, IsPage(new, e) PROVE \E b \in bufs : ShowsOf(new, e, b)
    <3>1. PICK b \in bufs : ShowsOf(t, e, b)
        BY <1>1, <2>1 DEF BackedBy
    <3>2. new[e] = t[e]
        BY <1>1, <2>1
    <3>3. ShowsOf(new, e, b)
        BY <3>1, <3>2 DEF ShowsOf
    <3> QED BY <3>3
  <2> QED BY <2>1 DEF BackedBy
<1> QED BY <1>1, <1>2, <1>3

\* tinynv_mm_t
MMSet ==
    [live : SUBSET BufferSet, leaked : SUBSET BufferSet, forgotten : SUBSET BufferSet,
     reserved : SUBSET Nat, tables_made : 0 .. TablePages, wedged : BOOLEAN]

\* The tables as written and as they have arrived, and what is made of both
TreesOK == TreeOK(tree) /\ Aligned(tree) /\ TreeOK(arrived) /\ Aligned(arrived)

\* Everything in the tables, as written and as arrived, is a buffer's
BackedOK == BackedBy(tree, Held) /\ BackedBy(arrived, Held) /\ Apart(Held)

\* Buffers out are mapped whole, but for the one being freed, of which nothing
\* is left
LiveOK ==
    /\ \A m \in mm.live : m.size > 0 /\ Len(m.pages) = m.size
    /\ \A m \in mm.live \ freeing : Mapped(tree, m)
    /\ freeing \in SUBSET mm.live
    /\ \A m \in freeing : Unpaged(tree, m.va, m.va + m.size)
    /\ freeing # {} => arrived = tree

\* A translation kept leads to memory some buffer has
KeptOK == kept \subseteq UNION {PagesOf(m) : m \in Held}

\* What every reachable state satisfies, and every step preserves
MemInv == TreesOK /\ mm \in MMSet /\ BackedOK /\ LiveOK /\ KeptOK

LEMMA HeldIs ==
    ASSUME mm \in MMSet
    PROVE  /\ Held \in SUBSET BufferSet /\ mm.live \in SUBSET Held
           /\ mm.live \in SUBSET BufferSet
BY DEF MMSet, Held

\* What is out of reach of every buffer no page is in.
LEMMA FreshHasNoPage ==
    ASSUME MemInv, NEW size \in Sizes, NEW va \in AddressesFor(size)
    PROVE  /\ size \in Nat \ {0} /\ va \in Nat /\ va + size <= VaPages
           /\ Unpaged(tree, va, va + size)
           /\ \A m \in Held : \A w \in Nat : va <= w /\ w < va + size =>
                  ~ (m.va <= w /\ w < m.va + m.size)
<1>1. size \in Nat \ {0}
    BY MemoryAssumption, CoversOK
<1>2. va \in Nat /\ va + size <= VaPages /\ \A w \in va .. va + size - 1 : w \in FreeVa
    BY <1>1, AddressesForIs
<1>3. Held \in SUBSET BufferSet
    BY HeldIs DEF MemInv
<1>4. ASSUME NEW m \in Held, NEW w \in va .. va + size - 1
      PROVE  ~ (m.va <= w /\ w < m.va + m.size)
  <2>1. w \notin VaOf(m)
      BY <1>2 DEF FreeVa
  <2>2. m.va \in Nat /\ m.size \in Nat /\ w \in Nat
      BY <1>2, <1>3, BufferIs
  <2> QED BY <2>1, <2>2 DEF VaOf
<1>5. PICK end \in Nat : end = va + size /\ va < end
    BY <1>1, <1>2
<1>6. \A e \in Entries : IsPage(tree, e) => ~ Meets(e, va, end)
  <2>1. \A w \in va .. end - 1 : \A m \in Held : ~ (m.va <= w /\ w < m.va + m.size)
    <3>1. va .. end - 1 = va .. va + size - 1
        BY <1>1, <1>2, <1>5
    <3> QED BY <1>4, <3>1, Zenon
  <2>2. BackedBy(tree, Held)
      BY DEF MemInv, BackedOK
  <2> QED BY <1>2, <1>3, <1>5, <2>1, <2>2, FreeHasNoPage
<1>7. \A m \in Held : \A w \in Nat : va <= w /\ w < va + size =>
          ~ (m.va <= w /\ w < m.va + m.size)
  <2>1. ASSUME NEW m \in Held, NEW w \in Nat, va <= w, w < va + size
        PROVE  ~ (m.va <= w /\ w < m.va + m.size)
    <3>1. w \in va .. va + size - 1
        BY <1>1, <1>2, <2>1
    <3> QED BY <1>4, <3>1
  <2> QED BY <2>1
<1> QED BY <1>1, <1>2, <1>5, <1>6, <1>7 DEF Unpaged

LEMMA LooksFree ==
    ASSUME NEW t, TreeOK(t), NEW va \in Nat, NEW size \in Nat, va + size <= VaPages,
           Unpaged(t, va, va + size)
    PROVE  ~ range_is_mapped(t, va, size)
BY MappedHasPage DEF Unpaged

\* A buffer more, at addresses of its own
LEMMA ApartAlso ==
    ASSUME NEW bufs, Apart(bufs), NEW m,
           \A b \in bufs : \A w \in Nat : m.va <= w /\ w < m.va + m.size =>
               ~ (b.va <= w /\ w < b.va + b.size)
    PROVE  Apart(bufs \cup {m})
<1>1. ASSUME NEW b \in bufs, NEW w \in Nat, m.va <= w /\ w < m.va + m.size,
             b.va <= w /\ w < b.va + b.size
      PROVE  FALSE
    BY <1>1
<1>2. ASSUME NEW a \in bufs \cup {m}, NEW b \in bufs \cup {m}, NEW w \in Nat,
             a.va <= w /\ w < a.va + a.size, b.va <= w /\ w < b.va + b.size
      PROVE  a = b
  <2>1. CASE a \in bufs /\ b \in bufs
      BY <1>2, <2>1 DEF Apart
  <2>2. CASE a = m /\ b = m
      BY <2>2
  <2>3. CASE a \in bufs /\ b = m
      BY <1>1, <1>2, <2>3
  <2>4. CASE a = m /\ b \in bufs
      BY <1>1, <1>2, <2>4
  <2> QED BY <2>1, <2>2, <2>3, <2>4
<1> QED BY <1>2 DEF Apart

LEMMA BackedMore ==
    ASSUME NEW t, NEW bufs, NEW more, BackedBy(t, bufs), bufs \subseteq more
    PROVE  BackedBy(t, more)
BY DEF BackedBy

LEMMA MemInit ==
    ASSUME Init
    PROVE  MemInv
<1>1. tree = EmptyTree /\ arrived = EmptyTree /\ kept = {} /\ freeing = {}
    BY DEF Init
<1>2. \A e \in Entries : EmptyTree[e] = Invalid
    BY DEF EmptyTree
<1>3. \A e \in Entries : ~ IsPage(EmptyTree, e)
    BY <1>2, KindsDiffer DEF IsPage
<1>4. TreeOK(EmptyTree)
  <2>1. EmptyTree = [e \in Entries |-> EmptyTree[e]]
      BY DEF EmptyTree
  <2>2. Invalid # Table
      BY KindsDiffer
  <2>3. \A e \in Entries : \A b \in Below(e) : EmptyTree[b] = Invalid
      BY <1>2, BelowIs
  <2> HIDE DEF EmptyTree
  <2> QED BY <1>2, <2>1, <2>2, <2>3 DEF TreeOK
<1>5. Aligned(EmptyTree) /\ \A bufs : BackedBy(EmptyTree, bufs)
    BY <1>3 DEF Aligned, BackedBy
<1>6. mm \in MMSet /\ Held = {} /\ mm.live = {}
  <2>1. 0 \in 0 .. TablePages
      BY MemoryAssumption
  <2> QED BY <2>1 DEF Init, MMSet, Held
<1>7. BackedOK
    BY <1>1, <1>5, <1>6 DEF BackedOK, Apart
<1>8. LiveOK
    BY <1>1, <1>6 DEF LiveOK
<1> QED BY <1>1, <1>4, <1>5, <1>6, <1>7, <1>8 DEF MemInv, TreesOK, KeptOK

\* A buffer nobody will use again takes addresses and memory with it.
LEMMA ForgottenStep ==
    ASSUME MemInv, NEW m \in BufferSet, mm' \in MMSet, mm'.live = mm.live,
           Held' = Held \cup {m}, UNCHANGED <<tree, arrived, kept, freeing>>,
           \A b \in Held : \A w \in Nat : m.va <= w /\ w < m.va + m.size =>
               ~ (b.va <= w /\ w < b.va + b.size)
    PROVE  MemInv'
<1> USE DEF MemInv
<1>1. TreesOK'
    BY DEF TreesOK
<1>2. BackedOK'
  <2>1. BackedBy(tree', Held')
      BY BackedMore DEF BackedOK
  <2>2. BackedBy(arrived', Held')
      BY BackedMore DEF BackedOK
  <2>3. Apart(Held')
    <3>1. Apart(Held)
        BY DEF BackedOK
    <3>2. Apart(Held \cup {m})
      <4> HIDE DEF MemInv
      <4> QED BY <3>1, ApartAlso
    <3> QED BY <3>2
  <2> QED BY <2>1, <2>2, <2>3 DEF BackedOK
<1>3. LiveOK'
    BY DEF LiveOK
<1>4. KeptOK'
    BY DEF KeptOK
<1> QED BY <1>1, <1>2, <1>3, <1>4

\* The pages a buffer's ranges come to are numbers, as what it is kept in says.
LEMMA BufferOf ==
    ASSUME NEW va \in Nat, NEW size \in Nat, va + size <= VaPages, NEW ranges \in Seq(RangeSet)
    PROVE  /\ Buffer(va, size, ranges) \in BufferSet
           /\ Buffer(va, size, ranges).va = va /\ Buffer(va, size, ranges).size = size
           /\ Buffer(va, size, ranges).pages = PagesIn(ranges)
<1>1. PagesIn(ranges) \in Seq(Nat)
    BY PagesInIs
<1> QED BY <1>1 DEF Buffer, BufferSet

LEMMA ReservedIs ==
    ASSUME mm \in MMSet, NEW kind, NEW ranges \in Seq(RangeSet)
    PROVE  ReservedAfter(kind, ranges) \in SUBSET Nat
<1>1. PICK pages \in Seq(Nat) : pages = PagesIn(ranges)
    BY PagesInIs
<1>2. {pages[i] : i \in DOMAIN pages} \in SUBSET Nat
    BY <1>1
<1>3. mm.reserved \in SUBSET Nat
    BY DEF MMSet
<1> QED BY <1>1, <1>2, <1>3 DEF ReservedAfter

LEMMA MemoryShortStep ==
    ASSUME MemInv, NEW kind \in Kinds, NEW size \in Sizes, MemoryShort(kind, size)
    PROVE  MemInv'
<1>1. PICK va \in AddressesFor(size), ranges \in Offers(kind, size) :
          mm' = [mm EXCEPT !.forgotten = @ \cup {Buffer(va, size, ranges)}]
    BY DEF MemoryShort
<1>2. /\ size \in Nat \ {0} /\ va \in Nat /\ va + size <= VaPages
      /\ \A m \in Held : \A w \in Nat : va <= w /\ w < va + size =>
             ~ (m.va <= w /\ w < m.va + m.size)
    BY FreshHasNoPage
<1>3. ranges \in Seq(RangeSet)
    BY <1>2, OffersAre
<1>4. PICK m \in BufferSet : m = Buffer(va, size, ranges) /\ m.va = va /\ m.size = size
    BY <1>2, <1>3, BufferOf
<1>5. mm \in MMSet
    BY DEF MemInv
<1>6. mm' = [mm EXCEPT !.forgotten = mm.forgotten \cup {m}]
    BY <1>1, <1>4
<1>7. mm' \in MMSet /\ mm'.live = mm.live /\ mm'.leaked = mm.leaked
      /\ mm'.forgotten = mm.forgotten \cup {m}
    BY <1>5, <1>6 DEF MMSet
<1>8. Held' = Held \cup {m}
    BY <1>7 DEF Held
<1>9. UNCHANGED <<tree, arrived, kept, freeing>>
    BY DEF MemoryShort
<1>10. \A b \in Held : \A w \in Nat : m.va <= w /\ w < m.va + m.size =>
           ~ (b.va <= w /\ w < b.va + b.size)
    BY <1>2, <1>4
<1> QED BY <1>7, <1>8, <1>9, <1>10, ForgottenStep

LEMMA AddressesShortStep ==
    ASSUME MemInv, NEW kind \in Kinds, NEW size \in Sizes, AddressesShort(kind, size)
    PROVE  MemInv'
<1>1. PICK ranges \in Choices(kind, size) :
          mm' = [mm EXCEPT !.forgotten = @ \cup {Buffer(VaPages, 0, ranges)},
                           !.reserved = ReservedAfter(kind, ranges)]
    BY DEF AddressesShort
<1>2. size \in Nat \ {0}
    BY MemoryAssumption, CoversOK
<1>3. ranges \in Seq(RangeSet)
    BY <1>2, ChoicesAre
<1>4. PICK m \in BufferSet : m = Buffer(VaPages, 0, ranges) /\ m.va = VaPages /\ m.size = 0
  <2>1. PICK va \in Nat, none \in Nat : va = VaPages /\ none = 0 /\ va + none <= VaPages
    <3>1. VaPages \in Nat /\ 0 \in Nat /\ VaPages + 0 <= VaPages
        BY CoversOK
    <3> QED BY <3>1
  <2>2. Buffer(va, none, ranges) \in BufferSet /\ Buffer(va, none, ranges).va = va
        /\ Buffer(va, none, ranges).size = none
      BY <1>3, <2>1, BufferOf
  <2> QED BY <2>1, <2>2
<1>5. mm \in MMSet
    BY DEF MemInv
<1>6. PICK taken \in SUBSET Nat : taken = ReservedAfter(kind, ranges)
    BY <1>3, <1>5, ReservedIs
<1>7. mm' = [mm EXCEPT !.forgotten = mm.forgotten \cup {m}, !.reserved = taken]
    BY <1>1, <1>4, <1>6
<1>8. mm' \in MMSet /\ mm'.live = mm.live /\ mm'.leaked = mm.leaked
      /\ mm'.forgotten = mm.forgotten \cup {m}
    BY <1>5, <1>7 DEF MMSet
<1>9. Held' = Held \cup {m}
    BY <1>8 DEF Held
<1>10. UNCHANGED <<tree, arrived, kept, freeing>>
    BY DEF AddressesShort
<1>11. \A b \in Held : \A w \in Nat : m.va <= w /\ w < m.va + m.size =>
           ~ (b.va <= w /\ w < b.va + b.size)
    BY <1>4, CoversOK
<1> QED BY <1>8, <1>9, <1>10, <1>11, ForgottenStep

\* Where pages fill a range to its end they fill it.
LEMMA FilledMapped ==
    ASSUME NEW t, NEW m \in BufferSet, Filled(t, m.va, m.va + m.size, m.va + m.size)
    PROVE  Mapped(t, m)
<1>1. PICK x : x = m.va + m.size
    OBVIOUS
<1>2. \A w \in m.va .. x - 1 : \E e \in Entries : IsPage(t, e) /\ Spans(e, w)
    BY <1>1 DEF Filled
<1>3. m.va .. x - 1 = m.va .. m.va + m.size - 1
    BY <1>1, BufferIs
<1> QED BY <1>2, <1>3, Zenon DEF Mapped

LEMMA AllocBufferStep ==
    ASSUME MemInv, NEW kind \in Kinds, NEW size \in Sizes, AllocBuffer(kind, size)
    PROVE  MemInv'
<1>1. PICK va \in AddressesFor(size), ranges \in Choices(kind, size) :
        LET m == Buffer(va, size, ranges)
            leaves == LeavesOf(va, ranges)
            room == TablePages - mm.tables_made
            busy == range_is_mapped(tree, va, size)
            mapped == ~busy /\ Reached(tree, leaves, room) = Len(leaves)
        IN  /\ Len(m.pages) = size
            /\ arrived' = tree
            /\ kept' = kept \cup Translations(tree)
            /\ tree' = IF busy THEN tree ELSE Built(tree, leaves, room)
            /\ mm' = [mm EXCEPT
                 !.tables_made = IF busy THEN @ ELSE @ + Cardinality(Made(tree, leaves, room)),
                 !.live = IF mapped THEN @ \cup {m} ELSE @,
                 !.forgotten = IF mapped THEN @ ELSE @ \cup {m},
                 !.reserved = ReservedAfter(kind, ranges)]
    BY DEF AllocBuffer
<1>2. /\ size \in Nat \ {0} /\ va \in Nat /\ va + size <= VaPages
      /\ Unpaged(tree, va, va + size)
      /\ \A m \in Held : \A w \in Nat : va <= w /\ w < va + size =>
             ~ (m.va <= w /\ w < m.va + m.size)
    BY FreshHasNoPage
<1>3. ranges \in Seq(RangeSet)
    BY <1>2, ChoicesAre
<1>4. mm \in MMSet
    BY DEF MemInv
<1>5. PICK made \in Nat : made = mm.tables_made /\ made <= TablePages
    BY <1>4, MemoryAssumption DEF MMSet
<1>6. PICK room \in Nat : room = TablePages - mm.tables_made
  <2>1. TablePages - made \in Nat
      BY <1>5, MemoryAssumption
  <2> QED BY <1>5, <2>1
<1>7. TreeOK(tree) /\ Aligned(tree) /\ BackedBy(tree, Held) /\ Held \in SUBSET BufferSet
    BY <1>4, HeldIs DEF MemInv, TreesOK, BackedOK
<1>8. ~ range_is_mapped(tree, va, size)
    BY <1>2, <1>7, LooksFree
<1>9. PICK leaves : leaves = LeavesOf(va, ranges)
    OBVIOUS
<1>10. PICK pages \in Seq(Nat) : pages = PagesIn(ranges)
    BY <1>3, PagesInIs
<1>11. PICK m : m = [va |-> va, size |-> size, pages |-> pages]
    OBVIOUS
<1>12. m = Buffer(va, size, ranges) /\ Len(pages) = size
  <2>1. m = Buffer(va, size, ranges)
      BY <1>10, <1>11 DEF Buffer
  <2>2. Len(m.pages) = size
      BY <1>1, <2>1, Zenon
  <2> QED BY <1>11, <2>1, <2>2
<1>13. PICK whole \in BOOLEAN : whole <=> Reached(tree, leaves, room) = Len(leaves)
    OBVIOUS
<1>14. PICK more : more = Cardinality(Made(tree, leaves, room))
    OBVIOUS
<1>15. PICK taken \in SUBSET Nat : taken = ReservedAfter(kind, ranges)
    BY <1>3, <1>4, ReservedIs
<1>16. /\ arrived' = tree /\ kept' = kept \cup Translations(tree)
       /\ tree' = Built(tree, leaves, room)
    BY <1>1, <1>6, <1>8, <1>9
<1>17. mm' = [mm EXCEPT
                 !.tables_made = made + more,
                 !.live = IF whole THEN mm.live \cup {m} ELSE mm.live,
                 !.forgotten = IF whole THEN mm.forgotten ELSE mm.forgotten \cup {m},
                 !.reserved = taken]
    BY <1>1, <1>5, <1>6, <1>8, <1>9, <1>12, <1>13, <1>14, <1>15
<1>18. /\ TreeOK(tree') /\ Aligned(tree') /\ BackedBy(tree', Held \cup {m}) /\ m \in BufferSet
       /\ \A e \in Entries : IsPage(tree, e) => tree'[e] = tree[e]
       /\ \E x : /\ Filled(tree', m.va, x, m.va + m.size)
                 /\ Reached(tree, leaves, room) = Len(leaves) => x = m.va + m.size
       /\ Cardinality(Made(tree, leaves, room)) \in 0 .. room
  <2>1. PICK new : new = Built(tree, leaves, room)
      OBVIOUS
  <2>2. Grown(tree, new, Held, m, leaves, room)
      BY <1>2, <1>3, <1>7, <1>9, <1>10, <1>11, <1>12, <2>1, BuildOver
  <2> QED BY <1>16, <2>1, <2>2 DEF Grown
<1>19. /\ mm' \in MMSet /\ mm'.leaked = mm.leaked
       /\ mm'.live = (IF whole THEN mm.live \cup {m} ELSE mm.live)
       /\ mm'.forgotten = (IF whole THEN mm.forgotten ELSE mm.forgotten \cup {m})
  <2>1. made + more \in 0 .. TablePages
      BY <1>5, <1>6, <1>14, <1>18, MemoryAssumption
  <2>2. (IF whole THEN mm.live \cup {m} ELSE mm.live) \in SUBSET BufferSet
      BY <1>4, <1>18 DEF MMSet
  <2>3. (IF whole THEN mm.forgotten ELSE mm.forgotten \cup {m}) \in SUBSET BufferSet
      BY <1>4, <1>18 DEF MMSet
  <2> QED BY <1>4, <1>17, <2>1, <2>2, <2>3 DEF MMSet
<1>20. Held' = Held \cup {m}
    BY <1>19 DEF Held
<1>21. TreesOK'
    BY <1>7, <1>16, <1>18 DEF TreesOK
<1>22. BackedOK'
  <2>1. BackedBy(tree', Held')
      BY <1>18, <1>20
  <2>2. BackedBy(arrived', Held')
      BY <1>7, <1>16, <1>20, BackedMore
  <2>3. Apart(Held \cup {m})
    <3>1. Apart(Held)
        BY DEF MemInv, BackedOK
    <3>2. \A b \in Held : \A w \in Nat : m.va <= w /\ w < m.va + m.size =>
              ~ (b.va <= w /\ w < b.va + b.size)
        BY <1>2, <1>11
    <3> QED BY <3>1, <3>2, ApartAlso
  <2> QED BY <1>20, <2>1, <2>2, <2>3 DEF BackedOK
<1>23. freeing = {} /\ freeing' = {}
    BY DEF AllocBuffer
<1>24. LiveOK'
  <2>1. m.size > 0 /\ Len(m.pages) = m.size
      BY <1>2, <1>11, <1>12
  <2>2. whole => Mapped(tree', m)
    <3> SUFFICES ASSUME whole PROVE Mapped(tree', m)
        OBVIOUS
    <3>1. Filled(tree', m.va, m.va + m.size, m.va + m.size)
        BY <1>13, <1>18
    <3> QED BY <1>18, <3>1, FilledMapped
  <2>3. ASSUME NEW b \in mm.live PROVE Mapped(tree', b) /\ b.size > 0 /\ Len(b.pages) = b.size
    <3>1. Mapped(tree, b) /\ b.size > 0 /\ Len(b.pages) = b.size
        BY <1>23 DEF MemInv, LiveOK
    <3>2. \A e \in Entries : IsPage(tree, e) => IsPage(tree', e)
        BY <1>18 DEF IsPage
    <3> QED BY <3>1, <3>2 DEF Mapped
  <2>4. \A b \in mm'.live : Mapped(tree', b) /\ b.size > 0 /\ Len(b.pages) = b.size
      BY <1>19, <2>1, <2>2, <2>3
  <2> QED BY <1>23, <2>4 DEF LiveOK
<1>25. KeptOK'
  <2>1. Translations(tree) \subseteq UNION {PagesOf(b) : b \in Held}
      BY <1>7, ReachesBuffers
  <2>2. kept \subseteq UNION {PagesOf(b) : b \in Held}
      BY DEF MemInv, KeptOK
  <2> QED BY <1>16, <1>20, <2>1, <2>2 DEF KeptOK
<1> QED BY <1>19, <1>21, <1>22, <1>24, <1>25 DEF MemInv

LEMMA VmapFreeStep ==
    ASSUME MemInv, NEW m \in mm.live, VmapFree(m)
    PROVE  MemInv'
<1>1. /\ freeing = {} /\ freeing' = {m} /\ arrived' = tree' /\ kept' = kept /\ mm' = mm
      /\ tree' = Unmapped(tree, m.va, m.size)
    BY DEF VmapFree
<1>2. /\ mm \in MMSet /\ Held \in SUBSET BufferSet /\ m \in Held /\ m \in BufferSet
      /\ mm.live \in SUBSET Held
    BY HeldIs DEF MemInv
<1>3. Held' = Held
    BY <1>1 DEF Held
<1>4. /\ TreeOK(tree) /\ Aligned(tree) /\ BackedBy(tree, Held) /\ Apart(Held)
      /\ m.size > 0 /\ Mapped(tree, m)
    BY <1>1 DEF MemInv, TreesOK, BackedOK, LiveOK
<1>5. PICK va \in Nat, size \in Nat, end \in Nat :
          va = m.va /\ size = m.size /\ end = va + size /\ va < end /\ end <= VaPages
  <2>1. m.va \in Nat /\ m.size \in Nat /\ m.va + m.size \in Nat /\ m.va < m.va + m.size
        /\ m.va + m.size <= VaPages
      BY <1>2, <1>4, BufferIs
  <2> QED BY <2>1
<1>6. ASSUME NEW e \in Entries, IsPage(tree, e), Meets(e, va, end)
      PROVE  va <= e[2] /\ e[2] + Covers[e[1]] <= end
  <2>1. PICK w \in Nat : Spans(e, w) /\ va <= w /\ w < end
      BY <1>5, <1>6, MeetsAt
  <2>2. m.va <= w /\ w < m.va + m.size
      BY <1>5, <2>1
  <2>3. m.va <= e[2] /\ e[2] + Covers[e[1]] <= m.va + m.size
      BY <1>2, <1>4, <1>6, <2>1, <2>2, PageInBuffer
  <2> QED BY <1>5, <2>3
<1>7. Filled(tree, va, end, va + size)
  <2>1. \A w \in va .. end - 1 : \E e \in Entries : IsPage(tree, e) /\ Spans(e, w)
    <3>1. va .. end - 1 = m.va .. m.va + m.size - 1
        BY <1>5
    <3> QED BY <1>4, <3>1, Zenon DEF Mapped
  <2>2. end \in va .. end
      BY <1>5
  <2>3. Filled(tree, va, end, end)
      BY <1>6, <2>1, <2>2 DEF Filled
  <2> QED BY <1>5, <2>3
<1>8. PICK new : new = tree' /\ new = Unmapped(tree, va, size)
    BY <1>1, <1>5
<1>9. va + size <= VaPages
    BY <1>5
<1>10. /\ TreeOK(new) /\ Aligned(new) /\ BackedBy(new, Held)
       /\ \A e \in Entries : IsPage(new, e) => /\ IsPage(tree, e) /\ new[e] = tree[e]
                                               /\ ~ Meets(e, va, va + size)
       /\ \A e \in Entries : IsPage(tree, e) /\ ~ Meets(e, va, va + size) => new[e] = tree[e]
    BY <1>2, <1>4, <1>7, <1>8, <1>9, ClearedOf
<1>11. TreesOK'
    BY <1>1, <1>8, <1>10 DEF TreesOK
<1>12. BackedOK'
    BY <1>1, <1>3, <1>4, <1>8, <1>10 DEF BackedOK
<1>13. ASSUME NEW b \in mm.live, b # m PROVE Mapped(new, b)
  <2>1. Mapped(tree, b) /\ b \in Held
      BY <1>1, <1>2 DEF MemInv, LiveOK
  <2>2. ASSUME NEW w \in b.va .. b.va + b.size - 1
        PROVE  \E e \in Entries : IsPage(new, e) /\ Spans(e, w)
    <3>1. PICK e \in Entries : IsPage(tree, e) /\ Spans(e, w)
        BY <2>1 DEF Mapped
    <3>2. w \in Nat /\ b.va <= w /\ w < b.va + b.size
        BY <1>2, <2>1, BufferIs
    <3>3. ShowsOf(tree, e, b)
        BY <1>2, <1>4, <2>1, <3>1, <3>2, PageInBuffer
    <3>4. ~ Meets(e, va, end)
      <4> SUFFICES ASSUME Meets(e, va, end) PROVE FALSE
          OBVIOUS
      <4>1. PICK v \in Nat : Spans(e, v) /\ va <= v /\ v < end
          BY <1>5, MeetsAt
      <4>2. b.va <= v /\ v < b.va + b.size
          BY <3>3, <4>1 DEF ShowsOf
      <4>3. m.va <= v /\ v < m.va + m.size
          BY <1>5, <4>1
      <4> QED BY <1>2, <1>4, <1>13, <2>1, <4>2, <4>3 DEF Apart
    <3>5. new[e] = tree[e]
        BY <1>5, <1>10, <3>1, <3>4
    <3> QED BY <3>1, <3>5 DEF IsPage
  <2> QED BY <2>2 DEF Mapped
<1>14. LiveOK'
  <2>1. \A b \in mm'.live : b.size > 0 /\ Len(b.pages) = b.size
      BY <1>1 DEF MemInv, LiveOK
  <2>2. \A b \in mm'.live \ freeing' : Mapped(tree', b)
      BY <1>1, <1>8, <1>13
  <2>3. \A b \in freeing' : Unpaged(tree', b.va, b.va + b.size)
      BY <1>1, <1>5, <1>8, <1>10 DEF Unpaged
  <2> QED BY <1>1, <2>1, <2>2, <2>3 DEF LiveOK
<1>15. KeptOK'
    BY <1>1, <1>3 DEF MemInv, KeptOK
<1> QED BY <1>1, <1>2, <1>11, <1>12, <1>14, <1>15 DEF MemInv

\* No page is the buffer's being freed: the others hold all there are.
LEMMA BackedWithout ==
    ASSUME MemInv, NEW t, t = tree, NEW bufs, Held \ freeing \subseteq bufs
    PROVE  BackedBy(t, bufs)
<1>1. ASSUME NEW e \in Entries, IsPage(t, e) PROVE \E b \in bufs : ShowsOf(t, e, b)
  <2>1. PICK b \in Held : ShowsOf(t, e, b)
      BY <1>1 DEF MemInv, BackedOK, BackedBy
  <2>2. b \notin freeing
    <3> SUFFICES ASSUME b \in freeing PROVE FALSE
        OBVIOUS
    <3>1. ~ Meets(e, b.va, b.va + b.size)
        BY <1>1 DEF MemInv, LiveOK, Unpaged
    <3>2. b \in BufferSet
        BY <2>1, HeldIs DEF MemInv
    <3>3. PICK w \in Nat : w = e[2] /\ Spans(e, w)
        BY EntryShape, SpansFirst
    <3>4. b.va <= w /\ w < b.va + b.size
        BY <2>1, <3>3 DEF ShowsOf
    <3>5. b.va \in Nat /\ Covers[e[1]] \in Nat /\ Covers[e[1]] > 0
        BY <3>2, BufferIs, EntryShape
    <3> QED BY <3>1, <3>3, <3>4, <3>5 DEF Meets
  <2> QED BY <2>1, <2>2
<1> QED BY <1>1 DEF BackedBy

LEMMA AcknowledgedStep ==
    ASSUME MemInv, Acknowledged
    PROVE  MemInv'
<1>1. /\ freeing # {} /\ freeing' = {} /\ tree' = tree /\ arrived' = arrived
      /\ kept' = Translations(arrived) /\ mm' = [mm EXCEPT !.live = @ \ freeing]
    BY DEF Acknowledged
<1>2. mm \in MMSet /\ freeing \in SUBSET mm.live /\ arrived = tree
    BY <1>1 DEF MemInv, LiveOK
<1>3. /\ mm' \in MMSet /\ mm'.live = mm.live \ freeing /\ mm'.leaked = mm.leaked
      /\ mm'.forgotten = mm.forgotten
    BY <1>1, <1>2 DEF MMSet
<1>4. Held \ freeing \subseteq Held' /\ Held' \subseteq Held /\ Held \in SUBSET BufferSet
    BY <1>2, <1>3, HeldIs DEF Held
<1>5. BackedBy(tree, Held')
    BY <1>4, BackedWithout
<1>6. TreesOK'
    BY <1>1 DEF MemInv, TreesOK
<1>7. BackedOK'
  <2>1. Apart(Held)
      BY DEF MemInv, BackedOK
  <2>2. Apart(Held')
      BY <1>4, <2>1 DEF Apart
  <2> QED BY <1>1, <1>2, <1>5, <2>2 DEF BackedOK
<1>8. LiveOK'
    BY <1>1, <1>3 DEF MemInv, LiveOK
<1>9. KeptOK'
  <2>1. TreeOK(tree) /\ Aligned(tree)
      BY DEF MemInv, TreesOK
  <2>2. PICK bufs \in SUBSET BufferSet : bufs = Held'
      BY <1>4
  <2>3. Translations(tree) \subseteq UNION {PagesOf(b) : b \in bufs}
      BY <1>5, <2>1, <2>2, ReachesBuffers
  <2> QED BY <1>1, <1>2, <2>2, <2>3 DEF KeptOK
<1> QED BY <1>3, <1>6, <1>7, <1>8, <1>9 DEF MemInv

LEMMA TimedOutStep ==
    ASSUME MemInv, TimedOut
    PROVE  MemInv'
<1>1. /\ freeing # {} /\ freeing' = {} /\ tree' = tree /\ arrived' = arrived /\ kept' = kept
      /\ mm' = [mm EXCEPT !.wedged = TRUE, !.live = @ \ freeing, !.leaked = @ \cup freeing]
    BY DEF TimedOut
<1>2. mm \in MMSet /\ freeing \in SUBSET mm.live
    BY <1>1 DEF MemInv, LiveOK
<1>3. /\ mm' \in MMSet /\ mm'.live = mm.live \ freeing /\ mm'.leaked = mm.leaked \cup freeing
      /\ mm'.forgotten = mm.forgotten
    BY <1>1, <1>2 DEF MMSet
<1>4. Held' = Held
    BY <1>2, <1>3 DEF Held
<1>5. TreesOK'
    BY <1>1 DEF MemInv, TreesOK
<1>6. BackedOK'
    BY <1>1, <1>4 DEF MemInv, BackedOK
<1>7. LiveOK'
    BY <1>1, <1>3 DEF MemInv, LiveOK
<1>8. KeptOK'
    BY <1>1, <1>4 DEF MemInv, KeptOK
<1> QED BY <1>3, <1>5, <1>6, <1>7, <1>8 DEF MemInv

LEMMA ArriveStep ==
    ASSUME MemInv, Arrive
    PROVE  MemInv'
<1>1. /\ arrived # tree /\ arrived' = tree /\ kept' = kept \cup Translations(tree)
      /\ tree' = tree /\ mm' = mm /\ freeing' = freeing
    BY DEF Arrive
<1>2. Held' = Held
    BY <1>1 DEF Held
<1>3. TreesOK'
    BY <1>1 DEF MemInv, TreesOK
<1>4. BackedOK'
    BY <1>1, <1>2 DEF MemInv, BackedOK
<1>5. LiveOK'
    BY <1>1 DEF MemInv, LiveOK
<1>6. KeptOK'
  <2>1. TreeOK(tree) /\ Aligned(tree) /\ BackedBy(tree, Held) /\ Held \in SUBSET BufferSet
      BY HeldIs DEF MemInv, TreesOK, BackedOK
  <2>2. Translations(tree) \subseteq UNION {PagesOf(b) : b \in Held}
      BY <2>1, ReachesBuffers
  <2> QED BY <1>1, <1>2, <2>2 DEF MemInv, KeptOK
<1> QED BY <1>1, <1>3, <1>4, <1>5, <1>6 DEF MemInv

LEMMA MemStep ==
    ASSUME MemInv, [Next]_vars
    PROVE  MemInv'
<1>1. ASSUME NEW kind \in Kinds, NEW size \in Sizes,
             AllocBuffer(kind, size) \/ MemoryShort(kind, size) \/ AddressesShort(kind, size)
      PROVE  MemInv'
    BY <1>1, AllocBufferStep, MemoryShortStep, AddressesShortStep
<1>2. CASE AllocMemory
    BY <1>1, <1>2 DEF AllocMemory
<1>3. CASE \E m \in mm.live : VmapFree(m)
    BY <1>3, VmapFreeStep
<1>4. CASE Acknowledged
    BY <1>4, AcknowledgedStep
<1>5. CASE TimedOut
    BY <1>5, TimedOutStep
<1>6. CASE Arrive
    BY <1>6, ArriveStep
<1>7. CASE UNCHANGED vars
  <2>1. UNCHANGED <<tree, arrived, kept, mm, freeing>>
      BY <1>7 DEF vars
  <2>2. Held' = Held
      BY <2>1 DEF Held
  <2> QED BY <2>1, <2>2 DEF MemInv, TreesOK, BackedOK, LiveOK, KeptOK
<1> QED BY <1>2, <1>3, <1>4, <1>5, <1>6, <1>7 DEF Next

\* What MemInv says of every reachable state (mmu.c, pt.c).
THEOREM MemoryInvariant == Spec => []MemInv
BY MemInit, MemStep, PTL DEF Spec

\* The card reaches no memory but through the mapping that memory was last
\* given to: by no entry, as written or as arrived, and by no translation it
\* kept (pt.c:355-362, 451-468).
THEOREM MemoryReachesOnlyItsOwn == Spec => []ReachesOnlyItsOwn
<1>1. MemInv => ReachesOnlyItsOwn
  <2> SUFFICES ASSUME MemInv PROVE ReachesOnlyItsOwn
      OBVIOUS
  <2>1. /\ TreeOK(tree) /\ Aligned(tree) /\ TreeOK(arrived) /\ Aligned(arrived)
        /\ BackedBy(tree, Held) /\ BackedBy(arrived, Held) /\ Held \in SUBSET BufferSet
      BY HeldIs DEF MemInv, TreesOK, BackedOK
  <2>2. Translations(tree) \subseteq UNION {PagesOf(b) : b \in Held}
      BY <2>1, ReachesBuffers
  <2>3. Translations(arrived) \subseteq UNION {PagesOf(b) : b \in Held}
      BY <2>1, ReachesBuffers
  <2> QED BY <2>2, <2>3 DEF MemInv, KeptOK, ReachesOnlyItsOwn
<1> QED BY <1>1, MemoryInvariant, PTL

\* A buffer's addresses lead to its own memory in order, whatever tables and
\* pages of every size came and went before (pt.c, tinynv_mm_map_range).
THEOREM MemoryMapsWhatItSays == Spec => []MapsWhatItSays
<1>1. MemInv => MapsWhatItSays
  <2> SUFFICES ASSUME MemInv PROVE MapsWhatItSays
      OBVIOUS
  <2>1. /\ TreeOK(tree) /\ Aligned(tree) /\ BackedBy(tree, Held) /\ Apart(Held)
        /\ Held \in SUBSET BufferSet /\ mm.live \in SUBSET Held
      BY HeldIs DEF MemInv, TreesOK, BackedOK
  <2>2. ASSUME NEW m \in mm.live \ freeing, NEW i \in 1 .. m.size
        PROVE  Translate(tree, m.va + i - 1) = {m.pages[i]}
    <3>1. m \in Held /\ m \in BufferSet /\ Mapped(tree, m)
        BY <2>1 DEF MemInv, LiveOK
    <3>2. PICK w \in Nat : /\ w = m.va + i - 1 /\ i = w - m.va + 1
                           /\ m.va <= w /\ w < m.va + m.size
                           /\ w \in m.va .. m.va + m.size - 1
      <4>1. PICK va \in Nat, size \in Nat : va = m.va /\ size = m.size
          BY <3>1, BufferIs
      <4>2. /\ va + i - 1 \in Nat /\ i = (va + i - 1) - va + 1
            /\ va <= va + i - 1 /\ va + i - 1 < va + size
            /\ va + i - 1 \in va .. va + size - 1
          BY <4>1
      <4> QED BY <4>1, <4>2
    <3>3. PICK e \in Entries : IsPage(tree, e) /\ Spans(e, w)
        BY <3>1, <3>2 DEF Mapped
    <3>4. ShowsOf(tree, e, m)
        BY <2>1, <3>1, <3>2, <3>3, PageInBuffer
    <3>5. m.pages[i] = tree[e].frame + (w - e[2])
        BY <3>2, <3>3, <3>4 DEF ShowsOf
    <3>6. Translate(tree, w) = {tree[e].frame + (w - e[2])}
        BY <2>1, <3>3, TranslatesPage
    <3> QED BY <3>2, <3>5, <3>6
  <2> QED BY <2>2 DEF MapsWhatItSays
<1> QED BY <1>1, MemoryInvariant, PTL

\* A range nobody has never looks taken, whatever tables an earlier mapping
\* left behind in it (pt.c:304-318).
THEOREM MemoryFreshRangesLookFree == Spec => []FreshRangesLookFree
<1>1. MemInv => FreshRangesLookFree
  <2> SUFFICES ASSUME MemInv, NEW size \in Sizes, NEW va \in AddressesFor(size)
               PROVE  ~ range_is_mapped(tree, va, size)
      BY DEF FreshRangesLookFree
  <2>1. size \in Nat /\ va \in Nat /\ va + size <= VaPages /\ Unpaged(tree, va, va + size)
      BY FreshHasNoPage
  <2>2. TreeOK(tree)
      BY DEF MemInv, TreesOK
  <2> QED BY <2>1, <2>2, LooksFree
<1> QED BY <1>1, MemoryInvariant, PTL

-----------------------------------------------------------------------------
(***************************************************************************)
(* A guest's memory: the pieces it is asked in, and the mappings of it.    *)
(***************************************************************************)

LEMMA PagesInNone ==
    /\ <<>> \in Seq(RangeSet) /\ PagesIn(<<>>) = <<>>
<1>1. PICK none \in Seq(RangeSet) : none = <<>> /\ Len(none) = 0
  <2>1. <<>> \in Seq(RangeSet) /\ Len(<<>>) = 0
      OBVIOUS
  <2> QED BY <2>1
<1>2. PICK p : PagesBy(none, p)
    BY PagesInIs
<1>3. p[0] = <<>> /\ p[Len(none)] = PagesIn(none)
    BY <1>2 DEF PagesBy
<1>4. PagesIn(none) = <<>>
    BY <1>1, <1>3
<1> QED BY <1>1, <1>4

LEMMA PagesInMore ==
    ASSUME NEW r \in RangeSet, NEW rest \in Seq(RangeSet), NEW ranges, ranges = <<r>> \o rest
    PROVE  /\ ranges \in Seq(RangeSet)
           /\ PagesIn(ranges) = Run(r.paddr, r.size) \o PagesIn(rest)
<1>1. PICK first \in Seq(Nat) : first = Run(r.paddr, r.size)
  <2>1. r.paddr \in Nat /\ r.size \in Nat
      BY DEF RangeSet
  <2> QED BY <2>1, RunIsSeq
<1>2. PICK m \in Nat : m = Len(rest)
    OBVIOUS
<1>3. /\ ranges \in Seq(RangeSet) /\ Len(ranges) = m + 1 /\ ranges[1] = r
      /\ \A k \in 1 .. m : ranges[k + 1] = rest[k]
  <2>1. PICK a \in Seq(RangeSet) : a = <<r>> /\ Len(a) = 1 /\ a[1] = r
    <3>1. <<r>> \in Seq(RangeSet) /\ Len(<<r>>) = 1 /\ <<r>>[1] = r
        OBVIOUS
    <3> QED BY <3>1
  <2>2. /\ ranges \in Seq(RangeSet) /\ Len(ranges) = 1 + m
        /\ \A j \in 1 .. 1 + m : ranges[j] = IF j <= 1 THEN a[j] ELSE rest[j - 1]
    <3>1. /\ ranges \in Seq(RangeSet) /\ Len(ranges) = Len(a) + Len(rest)
          /\ \A j \in 1 .. Len(ranges) : ranges[j] = IF j <= Len(a) THEN a[j] ELSE rest[j - Len(a)]
        BY <2>1, Joined
    <3> QED BY <1>2, <2>1, <3>1
  <2>3. ranges[1] = r
      BY <2>1, <2>2
  <2>4. ASSUME NEW k \in 1 .. m PROVE ranges[k + 1] = rest[k]
    <3>1. k + 1 \in 1 .. 1 + m /\ ~ (k + 1 <= 1) /\ k + 1 - 1 = k
        OBVIOUS
    <3> QED BY <2>2, <3>1
  <2> QED BY <2>2, <2>3, <2>4
<1>4. PICK p : PagesBy(ranges, p)
    BY <1>3, PagesInIs
<1>5. PICK q : PagesBy(rest, q)
    BY PagesInIs
<1>6. /\ p[0] = <<>> /\ p[m + 1] = PagesIn(ranges)
      /\ \A i \in 1 .. m + 1 : p[i] = p[i - 1] \o Run(ranges[i].paddr, ranges[i].size)
    BY <1>3, <1>4 DEF PagesBy
<1>7. /\ q[0] = <<>> /\ q[m] = PagesIn(rest) /\ q \in [0 .. m -> Seq(Nat)]
      /\ \A i \in 1 .. m : q[i] = q[i - 1] \o Run(rest[i].paddr, rest[i].size)
    BY <1>2, <1>5 DEF PagesBy
<1> DEFINE good == {k \in 0 .. m : p[k + 1] = first \o q[k]}
<1>8. ASSUME NEW k \in 0 .. m, \A j \in 0 .. k - 1 : j \in good PROVE k \in good
  <2>1. CASE k = 0
    <3>1. 1 \in 1 .. m + 1 /\ 1 - 1 = 0
        OBVIOUS
    <3>2. p[1] = p[0] \o Run(ranges[1].paddr, ranges[1].size)
        BY <1>6, <3>1
    <3>3. p[1] = <<>> \o first
        BY <1>1, <1>3, <1>6, <3>2, Zenon
    <3>4. <<>> \o first = first /\ first \o <<>> = first
        BY ConcatEmptySeq
    <3> QED BY <1>7, <2>1, <3>3, <3>4, SMTT(60)
  <2>2. CASE k # 0
    <3>1. PICK j \in 0 .. k - 1 : k = j + 1 /\ k \in 1 .. m /\ j \in 0 .. m /\ k - 1 = j
      <4>1. k - 1 \in 0 .. k - 1 /\ k = (k - 1) + 1 /\ k \in 1 .. m /\ k - 1 \in 0 .. m
          BY <2>2
      <4> QED BY <4>1
    <3>2. p[k] = first \o q[j]
        BY <1>8, <3>1
    <3>3. k + 1 \in 1 .. m + 1 /\ k + 1 - 1 = k
        OBVIOUS
    <3>4. PICK run \in Seq(Nat) : run = Run(rest[k].paddr, rest[k].size)
      <4>1. rest[k] \in RangeSet
          BY <1>2, <3>1
      <4>2. rest[k].paddr \in Nat /\ rest[k].size \in Nat
          BY <4>1 DEF RangeSet
      <4> QED BY <4>2, RunIsSeq
    <3>5. p[k + 1] = p[k] \o run
      <4>1. p[k + 1] = p[k] \o Run(ranges[k + 1].paddr, ranges[k + 1].size)
        <5>1. PICK x \in 1 .. m + 1 : x = k + 1 /\ x - 1 = k
            BY <3>3
        <5>2. p[x] = p[x - 1] \o Run(ranges[x].paddr, ranges[x].size)
            BY <1>6
        <5> QED BY <5>1, <5>2, Zenon
      <4>2. ranges[k + 1] = rest[k]
          BY <1>3, <3>1
      <4> QED BY <3>4, <4>1, <4>2, Zenon
    <3>6. q[k] = q[j] \o run /\ q[j] \in Seq(Nat)
        BY <1>7, <3>1, <3>4
    <3>7. (first \o q[j]) \o run = first \o (q[j] \o run)
      <4>1. PICK b \in Seq(Nat) : b = q[j]
          BY <3>6
      <4>2. (first \o b) \o run = first \o (b \o run)
          BY ConcatAssociative, SMTT(60)
      <4> QED BY <4>1, <4>2
    <3> QED BY <3>2, <3>5, <3>6, <3>7
  <2> QED BY <2>1, <2>2
<1>9. \A k \in 0 .. m : k \in good
  <2> HIDE DEF good
  <2> QED BY <1>8, Induct
<1>10. m \in good
  <2> HIDE DEF good
  <2> QED BY <1>9
<1> QED BY <1>1, <1>3, <1>6, <1>7, <1>10

\* Ranges that come to some of an object's pages, in order
Suits(ranges, frames, at, n) ==
    /\ ranges \in Seq(RangeSet) /\ Len(PagesIn(ranges)) = n
    /\ \A i \in 1 .. n : PagesIn(ranges)[i] = frames[at + i]

LEMMA SuitsNone ==
    ASSUME NEW frames, NEW at
    PROVE  Suits(<<>>, frames, at, 0)
BY PagesInNone DEF Suits

LEMMA SuitsMore ==
    ASSUME NEW frames \in Seq(Nat), NEW at \in Nat, NEW n \in Nat \ {0}, NEW left \in Nat,
           at + n + left <= Len(frames), NEW rest, Suits(rest, frames, at + n, left),
           \A i \in 1 .. n - 1 : frames[at + 1 + i] = frames[at + 1] + i,
           NEW ranges, ranges = <<[paddr |-> frames[at + 1], size |-> n]>> \o rest
    PROVE  Suits(ranges, frames, at, n + left)
<1>1. PICK lo \in Nat : lo = frames[at + 1]
  <2>1. at + 1 \in 1 .. Len(frames)
      OBVIOUS
  <2> QED BY <2>1
<1>2. PICK r \in RangeSet : r = [paddr |-> lo, size |-> n] /\ r.paddr = lo /\ r.size = n
  <2>1. [paddr |-> lo, size |-> n] \in RangeSet
      BY DEF RangeSet
  <2> QED BY <2>1
<1>3. rest \in Seq(RangeSet) /\ ranges = <<r>> \o rest
    BY <1>1, <1>2 DEF Suits
<1>4. ranges \in Seq(RangeSet) /\ PagesIn(ranges) = Run(lo, n) \o PagesIn(rest)
    BY <1>2, <1>3, PagesInMore
<1>5. PICK run \in Seq(Nat) : run = Run(lo,
        n) /\ Len(run) = n /\ \A i \in 1 .. n : run[i] = lo + i - 1
    BY RunIsSeq
<1>6. PICK q \in Seq(Nat) : q = PagesIn(rest) /\ Len(q) = left
                            /\ \A i \in 1 .. left : q[i] = frames[at + n + i]
    BY <1>3, PagesInIs DEF Suits
<1>7. PICK c : c = run \o q
    OBVIOUS
<1>8. c = PagesIn(ranges)
    BY <1>4, <1>5, <1>6, <1>7
<1>9. /\ Len(c) = n + left
      /\ \A j \in 1 .. n + left : c[j] = IF j <= n THEN run[j] ELSE q[j - n]
  <2>1. /\ Len(c) = Len(run) + Len(q)
        /\ \A j \in 1 .. Len(c) : c[j] = IF j <= Len(run) THEN run[j] ELSE q[j - Len(run)]
      BY <1>7, Joined
  <2> QED BY <1>5, <1>6, <2>1
<1>10. ASSUME NEW j \in 1 .. n + left PROVE c[j] = frames[at + j]
  <2>1. CASE j = 1
    <3>1. c[j] = run[j] /\ run[j] = lo + j - 1 /\ lo + j - 1 = lo
        BY <1>5, <1>9, <2>1
    <3> QED BY <1>1, <2>1, <3>1
  <2>2. CASE j # 1 /\ j <= n
    <3>1. PICK i \in 1 .. n - 1 : j = i + 1 /\ at + 1 + i = at + j /\ lo + j - 1 = lo + i
      <4>1. /\ j - 1 \in 1 .. n - 1 /\ j = (j - 1) + 1 /\ at + 1 + (j - 1) = at + j
            /\ lo + j - 1 = lo + (j - 1)
          BY <2>2
      <4> QED BY <4>1
    <3>2. c[j] = lo + i
        BY <1>5, <1>9, <2>2, <3>1
    <3> QED BY <1>1, <3>1, <3>2
  <2>3. CASE ~ (j <= n)
    <3>1. PICK i \in 1 .. left : i = j - n /\ at + n + i = at + j
      <4>1. j - n \in 1 .. left /\ at + n + (j - n) = at + j
          BY <2>3
      <4> QED BY <4>1
    <3>2. c[j] = q[i]
        BY <1>9, <2>3, <3>1
    <3> QED BY <1>6, <3>1, <3>2
  <2> QED BY <2>1, <2>2, <2>3
<1> QED BY <1>4, <1>9, <1>10, <1>8 DEF Suits

\* However a guest's memory is asked for, the pieces are all of it, in order.
LEMMA AskedIs ==
    ASSUME NEW frames \in Seq(Nat), NEW offset \in Nat, NEW length \in Nat,
           offset + length <= Len(frames)
    PROVE  \A ranges \in AskedRanges(frames, offset, length) : Suits(ranges, frames, offset, length)
<1> DEFINE D == (0 .. length) \X (0 .. MaxPieces)
           S == SUBSET Seq(RangeSet)
           Contiguous(at, n) == \A i \in 1 .. n - 1 : frames[at + i] = frames[at] + i
           ns(x) == {k \in 1 .. length - x[1] : Contiguous(offset + x[1] + 1, k)}
           rest(x, n) == <<x[1] + n, x[2] - 1>>
           first(x, n) == <<[paddr |-> frames[offset + x[1] + 1], size |-> n]>>
           one(x, g) ==
               IF x[1] = length THEN {<<>>}
               ELSE IF x[2] = 0 THEN {}
               ELSE UNION {{first(x, n) \o r : r \in g[rest(x, n)]} : n \in ns(x)}
           step == [x \in D |-> [g \in [D -> S] |-> one(x, g)]]
           measure == [x \in D |-> x[2]]
           Good(x, v) == \A r \in v : Suits(r, frames, offset + x[1], length - x[1])
<1>1. \A x \in D : /\ x[1] \in 0 .. length /\ x[1] \in Nat
                   /\ x[2] \in 0 .. MaxPieces /\ x[2] \in Nat /\ measure[x] = x[2]
    BY GuestMapsAssumption
<1>2. ASSUME NEW x \in D, x[1] # length, x[2] # 0, NEW n \in ns(x)
      PROVE  /\ rest(x, n) \in D /\ measure[rest(x, n)] < measure[x]
             /\ n \in Nat \ {0} /\ rest(x, n)[1] = x[1] + n
  <2>1. PICK a \in Nat, b \in Nat : a = x[1] /\ b = x[2] /\ b <= MaxPieces
      BY <1>1, GuestMapsAssumption
  <2>2. PICK z \in Nat \ {0} : z = n /\ a + z <= length
    <3>1. n \in 1 .. length - a
        BY <2>1
    <3>2. n \in Nat \ {0} /\ a + n <= length
        BY <3>1
    <3> QED BY <3>2
  <2>3. MaxPieces \in Nat /\ b # 0
    <3>1. MaxPieces \in Nat
        BY GuestMapsAssumption
    <3>2. b # 0
      <4>1. x[2] # 0 /\ b = x[2]
          BY <1>2, <2>1
      <4> HIDE DEF D, S, ns, rest, first, one, step, measure
      <4> QED BY <4>1
    <3> QED BY <3>1, <3>2
  <2>4. a + n \in 0 .. length /\ b - 1 \in 0 .. MaxPieces /\ n \in Nat \ {0}
    <3>1. a + z \in 0 .. length /\ b - 1 \in 0 .. MaxPieces
      <4>1. b <= MaxPieces /\ b # 0 /\ MaxPieces \in Nat /\ a + z <= length
          BY <2>1, <2>2, <2>3
      <4> HIDE DEF D, S, ns, rest, first, one, step, measure
      <4>2. a + z \in 0 .. length
          BY <4>1
      <4>3. b - 1 \in 0 .. MaxPieces
          BY <4>1
      <4> QED BY <4>2, <4>3
    <3> QED BY <2>2, <3>1
  <2>5. PICK y : y = rest(x, n)
      OBVIOUS
  <2>6. y = <<a + n, b - 1>>
      BY <2>1, <2>5
  <2>7. y \in D /\ y[1] = a + n /\ y[2] = b - 1
      BY <2>4, <2>6
  <2>8. measure[y] = b - 1 /\ measure[x] = b
      BY <1>1, <2>1, <2>7
  <2> QED BY <2>1, <2>4, <2>5, <2>7, <2>8
<1>3. ASSUME NEW x \in D, x[1] # length, NEW n \in ns(x), NEW y \in D, y[1] = x[1] + n,
             NEW r, Suits(r, frames, offset + y[1], length - y[1])
      PROVE  Suits(first(x, n) \o r, frames, offset + x[1], length - x[1])
  <2>1. PICK a \in Nat : a = x[1] /\ a <= length
      BY <1>1
  <2>2. n \in Nat \ {0} /\ a + n <= length
    <3>1. n \in 1 .. length - a
        BY <2>1
    <3> QED BY <2>1, <3>1
  <2>3. PICK at \in Nat, left \in Nat : at = offset + a /\ left = length - (a + n)
    <3>1. PICK z \in Nat : z = n /\ a + z <= length
        BY <2>2
    <3>2. offset + a \in Nat /\ length - (a + z) \in Nat
        BY <3>1
    <3> QED BY <3>1, <3>2
  <2>4. at + n + left <= Len(frames) /\ n + left = length - a /\ offset + (a + n) = at + n
        /\ offset + a + 1 = at + 1
    <3>1. PICK z \in Nat : z = n
        BY <2>2
    <3>2. left = length - (a + z) /\ at = offset + a
        BY <2>3, <3>1
    <3>3. at + z + left <= Len(frames) /\ z + left = length - a /\ offset + (a + z) = at + z
          /\ offset + a + 1 = at + 1
        BY <3>2
    <3> QED BY <3>1, <3>3
  <2>5. Suits(r, frames, at + n, left)
      BY <1>3, <2>1, <2>3, <2>4
  <2>6. \A i \in 1 .. n - 1 : frames[at + 1 + i] = frames[at + 1] + i
    <3>1. Contiguous(offset + a + 1, n)
        BY <2>1
    <3> QED BY <2>4, <3>1
  <2>7. PICK all : all = <<[paddr |-> frames[at + 1], size |-> n]>> \o r
      OBVIOUS
  <2>8. Suits(all, frames, at, n + left)
      BY <2>2, <2>4, <2>5, <2>6, <2>7, SuitsMore
  <2>9. all = first(x, n) \o r
      BY <2>1, <2>4, <2>7
  <2> QED BY <2>1, <2>3, <2>4, <2>8, <2>9
<1>4. \A x \in D : x[1] # length => \A n \in ns(x) :
          frames[offset + x[1] + 1] \in Nat /\ n \in Nat
  <2>1. ASSUME NEW x \in D, x[1] # length, NEW n \in ns(x)
        PROVE  frames[offset + x[1] + 1] \in Nat /\ n \in Nat
    <3>1. PICK a \in Nat : a = x[1] /\ a <= length /\ a # length
        BY <1>1, <2>1
    <3>2. offset + a + 1 \in 1 .. Len(frames)
        BY <3>1, SMTT(60)
    <3>3. frames[offset + a + 1] \in Nat
        BY <3>2
    <3> QED BY <3>1, <3>3
  <2> QED BY <2>1
<1> HIDE DEF ns, rest
<1>5. \A x \in D : \A g \in [D -> S] : one(x, g) \in S
  <2>1. ASSUME NEW x \in D, NEW g \in [D -> S], x[1] # length, x[2] # 0 PROVE one(x, g) \in S
    <3>1. ASSUME NEW n \in ns(x), NEW r \in g[rest(x, n)]
          PROVE  first(x, n) \o r \in Seq(RangeSet)
      <4>1. r \in Seq(RangeSet)
        <5>1. g[rest(x, n)] \in S
            BY <1>2, <2>1
        <5> QED BY <3>1, <5>1
      <4>2. [paddr |-> frames[offset + x[1] + 1], size |-> n] \in RangeSet
          BY <1>4, <2>1 DEF RangeSet
      <4>3. first(x, n) \in Seq(RangeSet)
          BY <4>2
      <4> QED BY <4>1, <4>3
    <3> HIDE DEF D, first
    <3> DEFINE of(n) == {first(x, n) \o r : r \in g[rest(x, n)]}
    <3>2. \A n \in ns(x) : of(n) \in SUBSET Seq(RangeSet)
        BY <3>1
    <3> HIDE DEF of
    <3>3. UNION {of(n) : n \in ns(x)} \in SUBSET Seq(RangeSet)
        BY <3>2
    <3> USE DEF of
    <3> QED BY <2>1, <3>3, Zenon
  <2>2. {<<>>} \in S /\ {} \in S
      OBVIOUS
  <2> HIDE DEF D, S
  <2> QED BY <2>1, <2>2
<1> HIDE DEF first
<1>6. ASSUME NEW x \in D, NEW f, NEW g,
             \A y \in D : measure[y] < measure[x] => f[y] = g[y]
      PROVE  one(x, f) = one(x, g)
  <2> HIDE DEF D, S, measure
  <2>1. CASE x[1] = length \/ x[2] = 0
      BY <2>1
  <2>2. CASE x[1] # length /\ x[2] # 0
    <3> DEFINE of(h, n) == {first(x, n) \o r : r \in h[rest(x, n)]}
    <3>1. \A n \in ns(x) : of(f, n) = of(g, n)
      <4>1. ASSUME NEW n \in ns(x) PROVE of(f, n) = of(g, n)
        <5>1. f[rest(x, n)] = g[rest(x, n)]
            BY <1>2, <1>6, <2>2
        <5> QED BY <5>1, Zenon
      <4> QED BY <4>1
    <3> DEFINE all(h) == UNION {of(h, n) : n \in ns(x)}
    <3> HIDE DEF of
    <3>2. all(f) = all(g)
        BY <3>1
    <3> USE DEF of
    <3> HIDE DEF all
    <3>3. \A h : one(x, h) = IF x[1] = length THEN {<<>>}
                             ELSE IF x[2] = 0 THEN {} ELSE all(h)
        BY Zenon DEF all
    <3> HIDE DEF one, of
    <3>4. one(x, f) = one(x, g)
        BY <2>2, <3>2, <3>3
    <3> QED BY <3>4
  <2> QED BY <2>1, <2>2
<1>7. \E f \in [D -> S] : \A x \in D : f[x] = step[x][f]
  <2>1. PICK most \in Nat : most = MaxPieces + 1
      BY GuestMapsAssumption
  <2>2. measure \in [D -> Nat] /\ \A x \in D : measure[x] < most
      BY <1>1, <2>1, GuestMapsAssumption
  <2>3. {} \in S
      OBVIOUS
  <2>4. step \in [D -> [[D -> S] -> S]]
    <3> HIDE DEF D, S, one
    <3> QED BY <1>5
  <2>5. \A x \in D : \A f, g \in [D -> S] :
            (\A y \in D : measure[y] < measure[x] => f[y] = g[y]) => step[x][f] = step[x][g]
    <3>1. ASSUME NEW x \in D, NEW f \in [D -> S], NEW g \in [D -> S],
                 \A y \in D : measure[y] < measure[x] => f[y] = g[y]
          PROVE  step[x][f] = step[x][g]
      <4> HIDE DEF D, S, measure, one
      <4>1. one(x, f) = one(x, g)
          BY <1>6, <3>1
      <4> QED BY <4>1
    <3> QED BY <3>1
  <2> HIDE DEF D, S, step, measure
  <2>6. Recurs(D, S, measure, most, step)
      BY <2>1, <2>2, <2>3, <2>4, <2>5 DEF Recurs
  <2> QED BY <2>6, Recursive
<1>8. PICK f \in [D -> S] : \A x \in D : f[x] = one(x, f)
  <2> HIDE DEF D, S, one
  <2> QED BY <1>7
<1> DEFINE body(g) == [x \in D |-> one(x, g)]
<1>9. AskedRanges(frames, offset, length) = (CHOOSE g : g = body(g))[<<0, MaxPieces>>]
    BY Zenon DEF AskedRanges, ns, rest, first
<1>10. f = body(f)
  <2> HIDE DEF D, S, one
  <2>1. f = [x \in D |-> f[x]]
      OBVIOUS
  <2> QED BY <1>8, <2>1
<1>11. PICK g : g = (CHOOSE h : h = body(h))
    OBVIOUS
<1>12. g = body(g)
  <2> HIDE DEF body
  <2> QED BY <1>10, <1>11
<1>13. \A x \in D : g[x] = one(x, g)
  <2> HIDE DEF D, one
  <2> QED BY <1>12
<1>14. ASSUME NEW x \in D, \A y \in D : measure[y] < measure[x] => Good(y, g[y])
       PROVE  Good(x, g[x])
  <2>1. CASE x[1] = length
    <3>1. g[x] = {<<>>}
      <4> HIDE DEF D
      <4> QED BY <1>13, <2>1
    <3>2. length - x[1] = 0
        BY <2>1
    <3>3. Suits(<<>>, frames, offset + x[1], 0)
        BY SuitsNone
    <3> QED BY <3>1, <3>2, <3>3
  <2>2. CASE x[1] # length /\ x[2] = 0
    <3>1. g[x] = {}
      <4> HIDE DEF D
      <4> QED BY <1>13, <2>2
    <3> QED BY <3>1
  <2>3. CASE x[1] # length /\ x[2] # 0
    <3>1. g[x] = UNION {{first(x, n) \o r : r \in g[rest(x, n)]} : n \in ns(x)}
      <4> HIDE DEF D
      <4> QED BY <1>13, <2>3
    <3>2. ASSUME NEW n \in ns(x), NEW r \in g[rest(x, n)]
          PROVE  Suits(first(x, n) \o r, frames, offset + x[1], length - x[1])
      <4>1. PICK y \in D : y = rest(x, n) /\ measure[y] < measure[x] /\ y[1] = x[1] + n
          BY <1>2, <2>3
      <4>2. Good(y, g[y])
        <5> HIDE DEF D, measure, Good
        <5> QED BY <1>14, <4>1
      <4>3. Suits(r, frames, offset + y[1], length - y[1])
          BY <3>2, <4>1, <4>2
      <4> HIDE DEF D
      <4> QED BY <1>3, <2>3, <4>1, <4>3
    <3> QED BY <3>1, <3>2
  <2> QED BY <2>1, <2>2, <2>3
<1>15. \A k \in 0 .. MaxPieces : \A x \in D : measure[x] = k => Good(x, g[x])
  <2> DEFINE good == {k \in 0 .. MaxPieces : \A x \in D : measure[x] = k => Good(x, g[x])}
  <2>1. ASSUME NEW k \in 0 .. MaxPieces, \A j \in 0 .. k - 1 : j \in good PROVE k \in good
    <3>1. \A x \in D : measure[x] \in Nat
        BY <1>1
    <3> HIDE DEF D, S, measure, Good
    <3>2. ASSUME NEW x \in D, measure[x] = k PROVE Good(x, g[x])
      <4>1. ASSUME NEW y \in D, measure[y] < measure[x] PROVE Good(y, g[y])
        <5>1. measure[y] \in 0 .. k - 1
            BY <3>1, <3>2, <4>1
        <5> QED BY <2>1, <5>1
      <4> QED BY <1>14, <4>1
    <3> QED BY <3>2
  <2>2. MaxPieces \in Nat
      BY GuestMapsAssumption
  <2>3. \A k \in 0 .. MaxPieces : k \in good
    <3> HIDE DEF good
    <3> QED BY <2>1, <2>2, Induct
  <2> QED BY <2>3
<1>16. PICK x : x = <<0, MaxPieces>>
    OBVIOUS
<1>17. x \in D /\ x[1] = 0 /\ measure[x] \in 0 .. MaxPieces
  <2>1. 0 \in 0 .. length /\ MaxPieces \in 0 .. MaxPieces
      BY GuestMapsAssumption
  <2>2. x \in D /\ x[1] = 0
      BY <1>16, <2>1
  <2> QED BY <1>1, <2>2
<1>18. Good(x, g[x])
  <2> HIDE DEF D, measure, Good
  <2> QED BY <1>15, <1>17
<1>19. offset + x[1] = offset /\ length - x[1] = length
    BY <1>17
<1> QED BY <1>9, <1>11, <1>16, <1>18, <1>19

\* What a mapping is of: the object whose handle it names
ObjectOf(m) == CHOOSE g \in GuestObjects : g.client = m.client /\ g.handle = m.handle

\* A mapping, as the buffer it shows
ShownBy(m) ==
    [va |-> m.va, size |-> m.length,
     pages |-> [i \in 1 .. m.length |-> ObjectOf(m).frames[m.offset + i]]]

\* tinynv_gsp_map_t
MapSet ==
    [client : Guests, handle : {o.handle : o \in GuestObjects}, va : Nat, length : Nat \ {0},
     offset : Nat, readonly : BOOLEAN]

\* A mapping there is an object for
MapOK(m) ==
    /\ m \in MapSet /\ m.va + m.length <= VaPages
    /\ ObjectOf(m) \in GuestObjects /\ m.offset + m.length <= Len(ObjectOf(m).frames)

\* The mappings on record, and the buffers they show
Recorded == {gmaps[i] : i \in DOMAIN gmaps}
ShownByAll(maps) == {ShownBy(m) : m \in maps}

\* Mappings that share an address are one
MapsApart(maps) ==
    \A a \in maps : \A b \in maps : \A w \in Nat :
        (a.va <= w /\ w < a.va + a.length) /\ (b.va <= w /\ w < b.va + b.length) => a = b

\* The pages of a mapping allow what it allows
Allows(t, m) ==
    \A e \in Entries : IsPage(t, e) /\ Meets(e, m.va, m.va + m.length) =>
        t[e].readonly = m.readonly

\* The mappings there are, and nothing else, are in the tables
MapsInTables(t, maps) ==
    /\ \A m \in maps : MapOK(m) /\ Mapped(t, ShownBy(m)) /\ Allows(t, m)
    /\ MapsApart(maps) /\ BackedBy(t, ShownByAll(maps))

\* The record names every mapping once
RecordOK ==
    /\ gmaps = [i \in 1 .. Len(gmaps) |-> gmaps[i]] /\ Len(gmaps) \in Nat
    /\ \A i \in 1 .. Len(gmaps) : \A j \in 1 .. Len(gmaps) : gmaps[i] = gmaps[j] => i = j

\* What every reachable state satisfies, and every step preserves
GuestInv ==
    /\ TreeOK(gtree) /\ Aligned(gtree) /\ gmade \in 0 .. GuestTables
    /\ held \in SUBSET GuestObjects
    /\ RecordOK /\ MapsInTables(gtree, Recorded)

LEMMA ShownIs ==
    ASSUME NEW m, MapOK(m)
    PROVE  /\ ShownBy(m) \in BufferSet /\ ShownBy(m).va = m.va /\ ShownBy(m).size = m.length
           /\ Len(ShownBy(m).pages) = m.length
           /\ \A i \in 1 .. m.length : ShownBy(m).pages[i] = ObjectOf(m).frames[m.offset + i]
           /\ m.va \in Nat /\ m.length \in Nat \ {0} /\ m.offset \in Nat
<1>1. m.va \in Nat /\ m.length \in Nat \ {0} /\ m.offset \in Nat /\ m.va + m.length <= VaPages
    BY DEF MapOK, MapSet
<1>2. PICK frames \in Seq(Nat) : frames = ObjectOf(m).frames
    BY GuestMapsAssumption DEF MapOK
<1>3. PICK n \in Nat \ {0}, at \in Nat : n = m.length /\ at = m.offset
    BY <1>1
<1>4. at + n <= Len(frames)
    BY <1>2, <1>3 DEF MapOK
<1>5. \A i \in 1 .. n : frames[at + i] \in Nat
  <2>1. ASSUME NEW i \in 1 .. n PROVE frames[at + i] \in Nat
    <3>1. at + i \in 1 .. Len(frames)
        BY <1>4
    <3> QED BY <3>1
  <2> QED BY <2>1
<1>6. PICK pages : pages = [i \in 1 .. n |-> frames[at + i]]
    OBVIOUS
<1>7. pages \in Seq(Nat) /\ Len(pages) = n /\ \A i \in 1 .. n : pages[i] = frames[at + i]
  <2>1. pages \in [1 .. n -> Nat]
      BY <1>5, <1>6
  <2> QED BY <1>6, <2>1, SMTT(60)
<1>8. PICK b : b = ShownBy(m)
    OBVIOUS
<1>9. b = [va |-> m.va, size |-> m.length, pages |-> pages]
    BY <1>2, <1>3, <1>6, <1>8 DEF ShownBy
<1>10. b \in [va : Nat, size : Nat, pages : Seq(Nat)] /\ b.va = m.va /\ b.size = m.length
       /\ b.pages = pages
    BY <1>1, <1>7, <1>9
<1>11. b \in BufferSet
    BY <1>1, <1>10 DEF BufferSet
<1> QED BY <1>1, <1>2, <1>3, <1>7, <1>8, <1>10, <1>11

LEMMA ShownByBuffers ==
    ASSUME NEW maps, \A m \in maps : MapOK(m)
    PROVE  ShownByAll(maps) \in SUBSET BufferSet
BY ShownIs DEF ShownByAll

\* Mappings apart are so as the buffers they show.
LEMMA ShownApart ==
    ASSUME NEW maps, \A m \in maps : MapOK(m), MapsApart(maps)
    PROVE  Apart(ShownByAll(maps))
<1>1. ASSUME NEW a \in ShownByAll(maps), NEW b \in ShownByAll(maps), NEW w \in Nat,
             a.va <= w /\ w < a.va + a.size, b.va <= w /\ w < b.va + b.size
      PROVE  a = b
  <2>1. PICK m \in maps : a = ShownBy(m)
      BY DEF ShownByAll
  <2>2. PICK n \in maps : b = ShownBy(n)
      BY DEF ShownByAll
  <2>3. a.va = m.va /\ a.size = m.length /\ b.va = n.va /\ b.size = n.length
      BY <2>1, <2>2, ShownIs
  <2>4. m = n
      BY <1>1, <2>3 DEF MapsApart
  <2> QED BY <2>1, <2>2, <2>4
<1> QED BY <1>1 DEF Apart

\* A page that meets a mapping is in it and shows it.
LEMMA PageInMap ==
    ASSUME NEW t, NEW maps, MapsInTables(t, maps), NEW m \in maps,
           NEW e \in Entries, IsPage(t, e), NEW w \in Nat, Spans(e, w),
           m.va <= w, w < m.va + m.length
    PROVE  /\ ShowsOf(t, e, ShownBy(m))
           /\ m.va <= e[2] /\ e[2] + Covers[e[1]] <= m.va + m.length
<1>1. PICK bufs : bufs = ShownByAll(maps)
    OBVIOUS
<1>2. /\ \A n \in maps : MapOK(n)
      /\ MapsApart(maps) /\ BackedBy(t, bufs)
    BY <1>1 DEF MapsInTables
<1>3. bufs \in SUBSET BufferSet /\ Apart(bufs)
    BY <1>1, <1>2, ShownByBuffers, ShownApart
<1>4. PICK b \in bufs : b = ShownBy(m)
    BY <1>1 DEF ShownByAll
<1>5. b.va = m.va /\ b.size = m.length
    BY <1>2, <1>4, ShownIs
<1>6. b.va <= w /\ w < b.va + b.size
    BY <1>5
<1>7. ShowsOf(t, e, b) /\ b.va <= e[2] /\ e[2] + Covers[e[1]] <= b.va + b.size
    BY <1>2, <1>3, <1>6, PageInBuffer
<1> QED BY <1>4, <1>5, <1>7

\* Every page is some mapping's.
LEMMA PageOfMap ==
    ASSUME NEW t, NEW maps, MapsInTables(t, maps), NEW e \in Entries, IsPage(t, e)
    PROVE  \E m \in maps : ShowsOf(t, e, ShownBy(m))
BY DEF MapsInTables, BackedBy, ShownByAll

\* A mapping's range is filled by its pages.
LEMMA MapFills ==
    ASSUME NEW t, NEW maps, MapsInTables(t, maps), NEW m \in maps
    PROVE  Filled(t, m.va, m.va + m.length, m.va + m.length)
<1>1. MapOK(m) /\ Mapped(t, ShownBy(m))
    BY DEF MapsInTables
<1>2. PICK va \in Nat, end \in Nat : va = m.va /\ end = m.va + m.length /\ va < end
  <2>1. m.va \in Nat /\ m.length \in Nat \ {0}
      BY <1>1, ShownIs
  <2>2. m.va + m.length \in Nat /\ m.va < m.va + m.length
      BY <2>1
  <2> QED BY <2>1, <2>2
<1>3. ASSUME NEW e \in Entries, IsPage(t, e), Meets(e, va, end)
      PROVE  va <= e[2] /\ e[2] + Covers[e[1]] <= end
  <2>1. PICK w \in Nat : Spans(e, w) /\ va <= w /\ w < end
      BY <1>2, <1>3, MeetsAt
  <2>2. m.va <= w /\ w < m.va + m.length
      BY <1>2, <2>1
  <2>3. m.va <= e[2] /\ e[2] + Covers[e[1]] <= m.va + m.length
      BY <1>3, <2>1, <2>2, PageInMap
  <2> QED BY <1>2, <2>3
<1>4. \A w \in va .. end - 1 : \E e \in Entries : IsPage(t, e) /\ Spans(e, w)
  <2>1. PICK b : b = ShownBy(m)
      OBVIOUS
  <2>2. b.va = m.va /\ b.size = m.length
      BY <1>1, <2>1, ShownIs
  <2>3. va .. end - 1 = b.va .. b.va + b.size - 1
    <3>1. PICK n \in Nat : n = m.length
        BY <1>1, ShownIs
    <3> QED BY <1>2, <2>2, <3>1
  <2> QED BY <1>1, <2>1, <2>3, Zenon DEF Mapped
<1>5. end \in va .. end
    BY <1>2
<1>6. Filled(t, va, end, end)
    BY <1>3, <1>4, <1>5 DEF Filled
<1> QED BY <1>2, <1>6

\* What marking the pages of a mapping for reading only does: that, and nothing
\* else.
LEMMA Permitted ==
    ASSUME NEW t, TreeOK(t), Aligned(t), NEW leaves, NEW readonly,
           NEW new, new = WithPermission(t, leaves, readonly)
    PROVE  /\ TreeOK(new) /\ Aligned(new)
           /\ \A e \in Entries : (IsPage(new, e) <=> IsPage(t, e))
           /\ \A e \in Entries : IsPage(t, e) /\ (\E i \in DOMAIN leaves : leaves[i].at = e) =>
                  new[e].readonly = readonly
           /\ \A e \in Entries : ~ (IsPage(t, e) /\ \E i \in DOMAIN leaves : leaves[i].at = e) =>
                  new[e] = t[e]
           /\ \A e \in Entries : IsPage(t, e) => new[e].frame = t[e].frame
<1> DEFINE leaf(e) == IsPage(t, e) /\ \E i \in DOMAIN leaves : leaves[i].at = e
           one(e) == IF leaf(e)
                     THEN [kind |-> "page", frame |-> t[e].frame, readonly |-> readonly] ELSE t[e]
<1>1. DOMAIN t = Entries
    BY DEF TreeOK
<1>2. new = [e \in Entries |-> one(e)]
    BY <1>1, Zenon DEF WithPermission, IsPage
<1>3. \A e \in Entries : new[e] = one(e)
  <2> HIDE DEF one
  <2> QED BY <1>2
<1>4. ASSUME NEW e \in Entries, leaf(e)
      PROVE  IsPage(new, e) /\ new[e].frame = t[e].frame /\ new[e].readonly = readonly
  <2> HIDE DEF leaf
  <2>1. new[e] = [kind |-> "page", frame |-> t[e].frame, readonly |-> readonly]
      BY <1>3, <1>4
  <2> QED BY <2>1 DEF IsPage
<1>5. ASSUME NEW e \in Entries, ~ leaf(e) PROVE new[e] = t[e]
  <2> HIDE DEF leaf
  <2> QED BY <1>3, <1>5
<1>6. ASSUME NEW e \in Entries
      PROVE  /\ IsPage(new, e) <=> IsPage(t, e)
             /\ IsPage(t, e) => new[e].frame = t[e].frame
             /\ ~ IsPage(t, e) => new[e] = t[e]
  <2>1. leaf(e) => IsPage(t, e)
      OBVIOUS
  <2> HIDE DEF leaf
  <2> QED BY <1>4, <1>5, <2>1 DEF IsPage
<1>7. TreeOK(new)
  <2>1. new = [e \in Entries |-> new[e]]
      BY <1>2
  <2>2. ASSUME NEW e \in Entries
        PROVE  /\ new[e] = Invalid \/ new[e] = Table \/ IsPage(new, e)
               /\ e[1] = Levels => new[e] # Table
               /\ new[e] # Table => \A b \in Below(e) : new[b] = Invalid
    <3>1. t[e] = Invalid \/ t[e] = Table \/ IsPage(t, e)
        BY DEF TreeOK
    <3>2. (t[e] = Table) <=> (new[e] = Table)
        BY <1>6, KindsDiffer
    <3>3. ASSUME new[e] # Table, NEW b \in Below(e) PROVE new[b] = Invalid
      <4>1. b \in Entries
          BY BelowIs
      <4>2. t[b] = Invalid
          BY <3>2, <3>3 DEF TreeOK
      <4>3. ~ IsPage(t, b)
          BY <4>2, KindsDiffer DEF IsPage
      <4> QED BY <1>6, <4>1, <4>2, <4>3
    <3>4. e[1] = Levels => t[e] # Table
        BY DEF TreeOK
    <3> QED BY <1>6, <3>1, <3>2, <3>3, <3>4
  <2> QED BY <2>1, <2>2 DEF TreeOK
<1>8. Aligned(new)
    BY <1>6 DEF Aligned
<1> QED BY <1>4, <1>5, <1>6, <1>7, <1>8

\* A tree with some mappings' pages gone, and the others' as they were
Cut(t, new, gone) ==
    /\ \A e \in Entries : IsPage(new, e) =>
           /\ IsPage(t, e) /\ new[e] = t[e]
           /\ \A m \in gone : ~ Meets(e, m.va, m.va + m.length)
    /\ \A e \in Entries :
           IsPage(t, e) /\ (\A m \in gone : ~ Meets(e, m.va, m.va + m.length)) => new[e] = t[e]

LEMMA MapsLeft ==
    ASSUME NEW t, NEW maps, MapsInTables(t, maps), NEW gone \in SUBSET maps,
           NEW left, left = maps \ gone, NEW new, Cut(t, new, gone)
    PROVE  MapsInTables(new, left)
<1>1. \A m \in maps : MapOK(m) /\ Mapped(t, ShownBy(m)) /\ Allows(t, m)
    BY DEF MapsInTables
<1>2. MapsApart(maps) /\ MapsApart(left)
    BY DEF MapsInTables, MapsApart
<1>3. ASSUME NEW e \in Entries, IsPage(new, e) PROVE IsPage(t, e) /\ new[e] = t[e]
    BY <1>3 DEF Cut
<1>4. ASSUME NEW m \in left PROVE Mapped(new, ShownBy(m)) /\ Allows(new, m)
  <2>1. m \in maps /\ m \notin gone
      OBVIOUS
  <2>2. PICK b : b = ShownBy(m)
      OBVIOUS
  <2>3. b.va = m.va /\ b.size = m.length /\ m.va \in Nat /\ m.length \in Nat
      BY <1>1, <2>1, <2>2, ShownIs
  <2>4. ASSUME NEW w \in b.va .. b.va + b.size - 1
        PROVE  \E e \in Entries : IsPage(new, e) /\ Spans(e, w)
    <3>1. PICK e \in Entries : IsPage(t, e) /\ Spans(e, w)
        BY <1>1, <2>1, <2>2 DEF Mapped
    <3>2. w \in Nat /\ m.va <= w /\ w < m.va + m.length
        BY <2>3
    <3>3. ShowsOf(t, e, b)
        BY <2>1, <2>2, <3>1, <3>2, PageInMap
    <3>4. ASSUME NEW g \in gone, Meets(e, g.va, g.va + g.length) PROVE FALSE
      <4>1. g \in maps /\ g.va \in Nat /\ g.length \in Nat \ {0}
          BY <1>1, ShownIs
      <4>2. PICK va \in Nat, end \in Nat : va = g.va /\ end = g.va + g.length /\ va < end
        <5>1. g.va + g.length \in Nat /\ g.va < g.va + g.length
            BY <4>1
        <5> QED BY <4>1, <5>1
      <4>3. PICK v \in Nat : Spans(e, v) /\ va <= v /\ v < end
          BY <3>4, <4>2, MeetsAt
      <4>4. m.va <= v /\ v < m.va + m.length
          BY <2>3, <3>3, <4>3 DEF ShowsOf
      <4>5. g.va <= v /\ v < g.va + g.length
          BY <4>2, <4>3
      <4> QED BY <1>2, <2>1, <4>1, <4>4, <4>5 DEF MapsApart
    <3>5. new[e] = t[e]
        BY <3>1, <3>4 DEF Cut
    <3> QED BY <3>1, <3>5 DEF IsPage
  <2>5. Mapped(new, b)
      BY <2>4 DEF Mapped
  <2>6. Allows(new, m)
      BY <1>1, <1>3, <2>1 DEF Allows
  <2> QED BY <2>2, <2>5, <2>6
<1>5. BackedBy(new, ShownByAll(left))
  <2>1. ASSUME NEW e \in Entries, IsPage(new, e)
        PROVE  \E b \in ShownByAll(left) : ShowsOf(new, e, b)
    <3>1. IsPage(t, e) /\ new[e] = t[e]
        BY <1>3, <2>1
    <3>2. PICK m \in maps : ShowsOf(t, e, ShownBy(m))
        BY <3>1, PageOfMap
    <3>3. m \notin gone
      <4> SUFFICES ASSUME m \in gone PROVE FALSE
          OBVIOUS
      <4>1. ~ Meets(e, m.va, m.va + m.length)
          BY <2>1 DEF Cut
      <4>2. PICK w \in Nat : w = e[2] /\ Spans(e, w)
          BY EntryShape, SpansFirst
      <4>3. ShownBy(m).va = m.va /\ ShownBy(m).size = m.length /\ m.va \in Nat
          BY <1>1, ShownIs
      <4>4. m.va <= w /\ w < m.va + m.length
          BY <3>2, <4>2, <4>3 DEF ShowsOf
      <4>5. Covers[e[1]] \in Nat /\ Covers[e[1]] > 0
          BY EntryShape
      <4> QED BY <4>1, <4>2, <4>3, <4>4, <4>5 DEF Meets
    <3>4. ShownBy(m) \in ShownByAll(left)
        BY <3>3 DEF ShownByAll
    <3>5. ShowsOf(new, e, ShownBy(m))
        BY <3>1, <3>2 DEF ShowsOf
    <3> QED BY <3>4, <3>5
  <2> QED BY <2>1 DEF BackedBy
<1> QED BY <1>1, <1>2, <1>4, <1>5 DEF MapsInTables

LEMMA RecordedMore ==
    ASSUME RecordOK, NEW m, m \notin Recorded, gmaps' = Append(gmaps, m)
    PROVE  RecordOK' /\ Recorded' = Recorded \cup {m}
<1>1. PICK n \in Nat : n = Len(gmaps) /\ gmaps = [i \in 1 .. n |-> gmaps[i]]
    BY DEF RecordOK
<1>2. Recorded = {gmaps[i] : i \in 1 .. n}
    BY <1>1 DEF Recorded
<1>3. PICK maps : maps = gmaps'
    OBVIOUS
<1>4. maps = [i \in 1 .. n + 1 |-> IF i = n + 1 THEN m ELSE gmaps[i]]
  <2>1. gmaps \in Seq(Recorded \cup {m})
    <3>1. gmaps \in [1 .. n -> Recorded \cup {m}]
        BY <1>1, <1>2
    <3> QED BY <3>1
  <2> HIDE DEF Recorded
  <2>2. PICK S : S = Recorded \cup {m}
      OBVIOUS
  <2>3. gmaps \in Seq(S) /\ m \in S
      BY <2>1, <2>2
  <2>4. Append(gmaps, m) = [i \in 1 .. n + 1 |-> IF i = n + 1 THEN m ELSE gmaps[i]]
      BY <1>1, <2>3
  <2> QED BY <1>3, <2>4
<1>5. Len(maps) = n + 1
    BY <1>4
<1>6. maps[n + 1] = m /\ \A i \in 1 .. n : maps[i] = gmaps[i]
    BY <1>4
<1>7. {maps[i] : i \in 1 .. n + 1} = Recorded \cup {m}
    BY <1>2, <1>6
<1>8. ASSUME NEW i \in 1 .. n + 1, NEW j \in 1 .. n + 1, maps[i] = maps[j] PROVE i = j
  <2>1. \A k \in 1 .. n : maps[k] # m
      BY <1>2, <1>6
  <2>2. CASE i \in 1 .. n /\ j \in 1 .. n
      BY <1>1, <1>6, <1>8, <2>2 DEF RecordOK
  <2>3. CASE i = n + 1
      BY <1>6, <1>8, <2>1, <2>3
  <2>4. CASE j = n + 1
      BY <1>6, <1>8, <2>1, <2>4
  <2> QED BY <2>2, <2>3, <2>4
<1>9. maps = [i \in 1 .. n + 1 |-> maps[i]] /\ DOMAIN maps = 1 .. n + 1
    BY <1>4
<1>10. Recorded' = Recorded \cup {m}
  <2>1. Recorded' = {maps[i] : i \in DOMAIN maps}
      BY <1>3, Zenon DEF Recorded
  <2> HIDE DEF Recorded
  <2> QED BY <1>7, <1>9, <2>1, Zenon
<1>11. RecordOK'
  <2>1. PICK z \in Nat : z = n + 1
      OBVIOUS
  <2>2. Len(maps) = z /\ maps = [i \in 1 .. z |-> maps[i]]
      BY <1>5, <1>9, <2>1, Zenon
  <2>3. \A i \in 1 .. z : \A j \in 1 .. z : maps[i] = maps[j] => i = j
      BY <1>8, <2>1, Zenon
  <2> QED BY <1>3, <2>1, <2>2, <2>3 DEF RecordOK
<1> QED BY <1>10, <1>11

LEMMA RecordedLess ==
    ASSUME RecordOK, NEW i \in DOMAIN gmaps,
           gmaps' = [j \in 1 .. Len(gmaps) - 1 |-> IF j < i THEN gmaps[j] ELSE gmaps[j + 1]]
    PROVE  RecordOK' /\ Recorded' = Recorded \ {gmaps[i]}
<1>1. PICK n \in Nat : n = Len(gmaps) /\ gmaps = [k \in 1 .. n |-> gmaps[k]]
    BY DEF RecordOK
<1>2. i \in 1 .. n /\ Recorded = {gmaps[k] : k \in 1 .. n}
    BY <1>1 DEF Recorded
<1>3. PICK last \in Nat : last = n - 1 /\ n = last + 1
  <2>1. n - 1 \in Nat /\ n = (n - 1) + 1
      BY <1>2
  <2> QED BY <2>1
<1>4. PICK maps : maps = gmaps'
    OBVIOUS
<1> DEFINE of(j) == IF j < i THEN j ELSE j + 1
<1>5. \A j \in 1 .. last : of(j) \in 1 .. n /\ of(j) # i
    BY <1>2, <1>3
<1>6. maps = [j \in 1 .. last |-> gmaps[of(j)]]
    BY <1>1, <1>3, <1>4
<1>7. \A j \in 1 .. last : \A k \in 1 .. last : of(j) = of(k) => j = k
    BY <1>2, <1>3
<1>8. ASSUME NEW k \in 1 .. n, k # i PROVE \E j \in 1 .. last : of(j) = k
  <2>1. CASE k < i
    <3>1. k \in 1 .. last /\ of(k) = k
        BY <1>2, <1>3, <2>1
    <3> QED BY <3>1
  <2>2. CASE k > i
    <3>1. k - 1 \in 1 .. last /\ of(k - 1) = k
        BY <1>2, <1>3, <2>2
    <3> QED BY <3>1
  <2> QED BY <1>2, <1>8, <2>1, <2>2
<1> HIDE DEF of
<1>9. DOMAIN maps = 1 .. last /\ Len(maps) = last /\ \A j \in 1 .. last : maps[j] = gmaps[of(j)]
    BY <1>6
<1>10. \A j \in 1 .. n : \A k \in 1 .. n : gmaps[j] = gmaps[k] => j = k
    BY <1>1 DEF RecordOK
<1>11. {maps[j] : j \in 1 .. last} = Recorded \ {gmaps[i]}
  <2>1. ASSUME NEW j \in 1 .. last PROVE maps[j] \in Recorded \ {gmaps[i]}
    <3>1. PICK k \in 1 .. n : k = of(j) /\ k # i
        BY <1>5
    <3>2. maps[j] = gmaps[k]
        BY <1>9, <3>1
    <3>3. gmaps[k] # gmaps[i]
        BY <1>2, <1>10, <3>1
    <3> QED BY <1>2, <3>2, <3>3
  <2>2. ASSUME NEW m \in Recorded \ {gmaps[i]} PROVE m \in {maps[j] : j \in 1 .. last}
    <3>1. PICK k \in 1 .. n : m = gmaps[k]
        BY <1>2
    <3>2. k # i
        BY <2>2, <3>1
    <3>3. PICK j \in 1 .. last : of(j) = k
        BY <1>8, <3>2
    <3>4. m = maps[j]
        BY <1>9, <3>1, <3>3
    <3> QED BY <3>4
  <2> QED BY <2>1, <2>2
<1>12. \A j \in 1 .. last : \A k \in 1 .. last : maps[j] = maps[k] => j = k
    BY <1>5, <1>7, <1>9, <1>10
<1>13. maps = [j \in 1 .. last |-> maps[j]]
    BY <1>6
<1>14. Recorded' = Recorded \ {gmaps[i]}
  <2>1. Recorded' = {maps[j] : j \in DOMAIN maps}
      BY <1>4, Zenon DEF Recorded
  <2> HIDE DEF Recorded
  <2> QED BY <1>9, <1>11, <2>1, Zenon
<1>15. RecordOK'
    BY <1>4, <1>9, <1>12, <1>13 DEF RecordOK
<1> QED BY <1>14, <1>15

LEMMA GuestInitInv ==
    ASSUME GuestInit
    PROVE  GuestInv
<1>1. held = GuestObjects /\ gmaps = <<>> /\ gmade = 0 /\ gtree = EmptyTree
    BY DEF GuestInit
<1>2. \A e \in Entries : EmptyTree[e] = Invalid
    BY DEF EmptyTree
<1>3. \A e \in Entries : ~ IsPage(EmptyTree, e)
    BY <1>2, KindsDiffer DEF IsPage
<1>4. TreeOK(EmptyTree)
  <2>1. EmptyTree = [e \in Entries |-> EmptyTree[e]]
      BY DEF EmptyTree
  <2>2. Invalid # Table
      BY KindsDiffer
  <2>3. \A e \in Entries : \A b \in Below(e) : EmptyTree[b] = Invalid
      BY <1>2, BelowIs
  <2> HIDE DEF EmptyTree
  <2> QED BY <1>2, <2>1, <2>2, <2>3 DEF TreeOK
<1>5. Aligned(EmptyTree) /\ \A bufs : BackedBy(EmptyTree, bufs)
    BY <1>3 DEF Aligned, BackedBy
<1>6. Recorded = {}
    BY <1>1 DEF Recorded
<1>7. RecordOK
    BY <1>1 DEF RecordOK
<1>8. MapsInTables(gtree, Recorded)
    BY <1>1, <1>5, <1>6 DEF MapsInTables, MapsApart
<1>9. gmade \in 0 .. GuestTables
    BY <1>1, GuestMapsAssumption
<1> QED BY <1>1, <1>4, <1>5, <1>7, <1>8, <1>9 DEF GuestInv

\* A request that passed the checks, of the object it names.
MapAsked(req, o, ranges) ==
    /\ req \in MapRequests /\ o \in Object(req) /\ req.offset + req.length <= Len(o.frames)
    /\ ranges \in AskedRanges(o.frames, req.offset, req.length)

\* The mapping a request is for
MapOf(req) ==
    [client |-> req.client, handle |-> req.handle, va |-> req.va, length |-> req.length,
     offset |-> req.offset, readonly |-> req.readonly]

LEMMA AskedMap ==
    ASSUME GuestInv, NEW req, NEW o, NEW ranges, MapAsked(req, o, ranges), map_check(req),
           NEW m, m = MapOf(req)
    PROVE  /\ MapOK(m) /\ ranges \in Seq(RangeSet) /\ ShownBy(m).pages = PagesIn(ranges)
           /\ Len(PagesIn(ranges)) = m.length
           /\ m.va = req.va /\ m.length = req.length /\ m.readonly = req.readonly
<1>1. /\ req.client \in Guests /\ req.va \in 0 .. VaPages - 1 /\ req.offset \in 0 .. 1
      /\ req.length \in MapLengths /\ req.readonly \in BOOLEAN
      /\ req.handle \in {g.handle : g \in GuestObjects}
    BY DEF MapAsked, MapRequests
<1>2. req.length > 0 /\ req.va + req.length <= VaPages
    BY DEF map_check
<1>3. PICK va \in Nat, n \in Nat \ {0}, at \in Nat :
          va = req.va /\ n = req.length /\ at = req.offset
  <2>1. req.va \in Nat
      BY <1>1, CoversOK
  <2>2. req.length \in Nat \ {0}
    <3>1. req.length \in Nat
        BY <1>1, GuestMapsAssumption
    <3> QED BY <1>2, <3>1
  <2>3. req.offset \in Nat
      BY <1>1
  <2> QED BY <2>1, <2>2, <2>3
<1>4. /\ m.client = req.client /\ m.handle = req.handle /\ m.va = va /\ m.length = n
      /\ m.offset = at /\ m.readonly = req.readonly
    BY <1>3 DEF MapOf
<1>5. o \in GuestObjects /\ o.client = m.client /\ o.handle = m.handle
    BY <1>4 DEF MapAsked, Object, GuestInv
<1>6. ObjectOf(m) = o
  <2>1. \A g \in GuestObjects : g.client = m.client /\ g.handle = m.handle => g = o
      BY <1>5, GuestMapsAssumption
  <2> QED BY <1>5, <2>1 DEF ObjectOf
<1>7. PICK frames \in Seq(Nat) : frames = o.frames /\ at + n <= Len(frames)
  <2>1. o.frames \in Seq(Nat)
      BY <1>5, GuestMapsAssumption
  <2> QED BY <1>3, <2>1 DEF MapAsked
<1>8. m \in MapSet
    BY <1>1, <1>3 DEF MapSet, MapOf
<1>9. MapOK(m)
    BY <1>2, <1>3, <1>4, <1>5, <1>6, <1>7, <1>8 DEF MapOK
<1>10. Suits(ranges, frames, at, n)
  <2>1. ranges \in AskedRanges(frames, at, n)
      BY <1>3, <1>7 DEF MapAsked
  <2> QED BY <1>7, <2>1, AskedIs
<1>11. PICK pages \in Seq(Nat) : /\ pages = PagesIn(ranges) /\ Len(pages) = n
                                 /\ \A i \in 1 .. n : pages[i] = frames[at + i]
    BY <1>10, PagesInIs DEF Suits
<1>12. pages = [i \in 1 .. n |-> frames[at + i]]
  <2>1. pages = [i \in 1 .. n |-> pages[i]]
      BY <1>11
  <2> QED BY <1>11, <2>1
<1>13. ShownBy(m).pages = pages
  <2>1. ShownBy(m).pages = [i \in 1 .. m.length |-> ObjectOf(m).frames[m.offset + i]]
      BY DEF ShownBy
  <2> QED BY <1>4, <1>6, <1>7, <1>12, <2>1
<1> QED BY <1>3, <1>4, <1>9, <1>10, <1>11, <1>13 DEF Suits

\* No page is where a request that passed the checks would map.
LEMMA AskedFree ==
    ASSUME GuestInv, NEW req, map_check(req), NEW m, MapOK(m),
           m.va = req.va, m.length = req.length
    PROVE  /\ Unpaged(gtree, m.va, m.va + m.length)
           /\ \A a \in Recorded : \A w \in Nat : m.va <= w /\ w < m.va + m.length =>
                  ~ (a.va <= w /\ w < a.va + a.length)
<1>1. /\ \A a \in Recorded : MapOK(a)
      /\ BackedBy(gtree, ShownByAll(Recorded))
    BY DEF GuestInv, MapsInTables
<1>2. PICK va \in Nat, n \in Nat \ {0} : va = m.va /\ n = m.length
    BY ShownIs
<1>3. ASSUME NEW a \in Recorded, NEW w \in Nat, va <= w, w < va + n,
             a.va <= w, w < a.va + a.length
      PROVE  FALSE
  <2>1. PICK i \in DOMAIN gmaps : a = gmaps[i]
      BY DEF Recorded
  <2>2. ~ Overlap(va, n, a)
      BY <1>2, <2>1 DEF map_check
  <2>3. a.va \in Nat /\ a.length \in Nat
      BY <1>1, ShownIs
  <2> QED BY <1>3, <2>2, <2>3 DEF Overlap
<1>4. PICK bufs : bufs = ShownByAll(Recorded)
    OBVIOUS
<1>5. bufs \in SUBSET BufferSet /\ BackedBy(gtree, bufs)
    BY <1>1, <1>4, ShownByBuffers
<1>6. PICK end \in Nat : end = va + n /\ va < end
  <2>1. va + n \in Nat /\ va < va + n
      OBVIOUS
  <2> QED BY <2>1
<1>7. ASSUME NEW w \in va .. end - 1, NEW b \in bufs PROVE ~ (b.va <= w /\ w < b.va + b.size)
  <2>1. PICK a \in Recorded : b = ShownBy(a)
      BY <1>4 DEF ShownByAll
  <2>2. b.va = a.va /\ b.size = a.length
      BY <1>1, <2>1, ShownIs
  <2>3. w \in Nat /\ va <= w /\ w < va + n
      BY <1>6
  <2> QED BY <1>3, <2>2, <2>3
<1>8. \A e \in Entries : IsPage(gtree, e) => ~ Meets(e, va, end)
    BY <1>5, <1>6, <1>7, FreeHasNoPage
<1>9. Unpaged(gtree, m.va, m.va + m.length)
    BY <1>2, <1>6, <1>8 DEF Unpaged
<1> QED BY <1>2, <1>3, <1>9

\* A tree with a mapping's pages beside those there were, some or all of them
Laid(t, new, m, x) ==
    /\ TreeOK(new) /\ Aligned(new) /\ Filled(new, m.va, x, m.va + m.length)
    /\ \A e \in Entries : IsPage(t, e) => new[e] = t[e]
    /\ \A e \in Entries : IsPage(new, e) =>
           \/ IsPage(t, e)
           \/ /\ Meets(e, m.va, m.va + m.length) /\ new[e].readonly = m.readonly
              /\ ShowsOf(new, e, ShownBy(m))

\* What programming a mapping leaves in the tables, done or not.
LEMMA MapLaid ==
    ASSUME GuestInv, NEW req, NEW o, NEW ranges, MapAsked(req, o, ranges), map_check(req),
           NEW m, m = MapOf(req), NEW room \in Nat,
           NEW leaves, leaves = LeavesOf(req.va, ranges),
           NEW new, new = WithPermission(Built(gtree, leaves, room), leaves, req.readonly)
    PROVE  /\ \E x : /\ Laid(gtree, new, m, x)
                     /\ Reached(gtree, leaves, room) = Len(leaves) => x = m.va + m.length
           /\ Cardinality(Made(gtree, leaves, room)) \in 0 .. room
<1>1. /\ MapOK(m) /\ ranges \in Seq(RangeSet) /\ ShownBy(m).pages = PagesIn(ranges)
      /\ Len(PagesIn(ranges)) = m.length
      /\ m.va = req.va /\ m.length = req.length /\ m.readonly = req.readonly
    BY AskedMap
<1>2. Unpaged(gtree, m.va, m.va + m.length)
    BY <1>1, AskedFree
<1>3. PICK va \in Nat, n \in Nat \ {0} : va = m.va /\ n = m.length /\ va + n <= VaPages
    BY <1>1, ShownIs DEF MapOK
<1>4. PICK pages : pages = PagesIn(ranges)
    OBVIOUS
<1>5. PICK b : b = ShownBy(m) /\ b = [va |-> va, size |-> n, pages |-> pages]
  <2>1. ShownBy(m) = [va |-> va, size |-> n, pages |-> ShownBy(m).pages]
      BY <1>3 DEF ShownBy
  <2> QED BY <1>1, <1>4, <2>1
<1>6. PICK bufs \in SUBSET BufferSet : bufs = ShownByAll(Recorded) /\ BackedBy(gtree, bufs)
    BY ShownByBuffers DEF GuestInv, MapsInTables
<1>7. TreeOK(gtree) /\ Aligned(gtree)
    BY DEF GuestInv
<1>8. PICK mid : mid = Built(gtree, leaves, room)
    OBVIOUS
<1>9. Grown(gtree, mid, bufs, b, leaves, room)
  <2>1. leaves = LeavesOf(va, ranges) /\ Len(pages) = n /\ Unpaged(gtree, va, va + n)
      BY <1>1, <1>2, <1>3, <1>4
  <2> QED BY <1>1, <1>3, <1>4, <1>5, <1>6, <1>7, <1>8, <2>1, BuildOver
<1>10. b.va = va /\ b.size = n
    BY <1>5
<1>11. /\ TreeOK(mid) /\ Aligned(mid) /\ BackedBy(mid, bufs \cup {b})
       /\ \A e \in Entries : IsPage(gtree, e) => mid[e] = gtree[e]
       /\ \A e \in Entries : IsPage(mid, e) =>
              \/ IsPage(gtree, e)
              \/ Meets(e, va, va + n) /\ \E i \in DOMAIN leaves : leaves[i].at = e
       /\ \A i \in DOMAIN leaves : ~ IsPage(gtree, leaves[i].at)
       /\ Cardinality(Made(gtree, leaves, room)) \in 0 .. room
    BY <1>9, <1>10 DEF Grown
<1>12. PICK x : /\ Filled(mid, va, x, va + n)
                /\ Reached(gtree, leaves, room) = Len(leaves) => x = va + n
    BY <1>9, <1>10 DEF Grown
<1>13. /\ TreeOK(new) /\ Aligned(new)
       /\ \A e \in Entries : (IsPage(new, e) <=> IsPage(mid, e))
       /\ \A e \in Entries : IsPage(mid, e) /\ (\E i \in DOMAIN leaves : leaves[i].at = e) =>
              new[e].readonly = req.readonly
       /\ \A e \in Entries : ~ (IsPage(mid, e) /\ \E i \in DOMAIN leaves : leaves[i].at = e) =>
              new[e] = mid[e]
       /\ \A e \in Entries : IsPage(mid, e) => new[e].frame = mid[e].frame
    BY <1>8, <1>11, Permitted
<1>14. Filled(new, va, x, va + n)
    BY <1>12, <1>13 DEF Filled
<1>15. ASSUME NEW e \in Entries, IsPage(gtree, e) PROVE new[e] = gtree[e]
    BY <1>11, <1>13, <1>15
<1>16. ASSUME NEW e \in Entries, IsPage(new, e), ~ IsPage(gtree, e)
       PROVE  /\ Meets(e, va, va + n) /\ new[e].readonly = m.readonly
              /\ ShowsOf(new, e, b)
  <2>1. IsPage(mid, e) /\ Meets(e, va, va + n) /\ \E i \in DOMAIN leaves : leaves[i].at = e
      BY <1>11, <1>13, <1>16
  <2>2. new[e].readonly = m.readonly
      BY <1>1, <1>13, <2>1
  <2>3. PICK a \in bufs \cup {b} : ShowsOf(mid, e, a)
      BY <1>11, <2>1 DEF BackedBy
  <2>4. PICK w \in Nat : Spans(e, w) /\ va <= w /\ w < va + n
    <3>1. PICK end \in Nat : end = va + n /\ va < end
      <4>1. va + n \in Nat /\ va < va + n
          OBVIOUS
      <4> QED BY <4>1
    <3>2. Meets(e, va, end)
        BY <2>1, <3>1
    <3> QED BY <3>1, <3>2, MeetsAt
  <2>5. a = b
    <3> SUFFICES ASSUME a \in bufs PROVE FALSE
        OBVIOUS
    <3>1. PICK g \in Recorded : a = ShownBy(g)
        BY <1>6 DEF ShownByAll
    <3>2. a.va = g.va /\ a.size = g.length
      <4>1. MapOK(g)
          BY DEF GuestInv, MapsInTables
      <4> QED BY <3>1, <4>1, ShownIs
    <3>3. g.va <= w /\ w < g.va + g.length
        BY <2>3, <2>4, <3>2 DEF ShowsOf
    <3>4. m.va <= w /\ w < m.va + m.length
        BY <1>3, <2>4
    <3> QED BY <1>1, <3>3, <3>4, AskedFree
  <2>6. new[e].frame = mid[e].frame
      BY <1>13, <2>1
  <2>7. ShowsOf(new, e, b)
      BY <2>3, <2>5, <2>6 DEF ShowsOf
  <2> QED BY <2>1, <2>2, <2>7
<1>17. Laid(gtree, new, m, x)
    BY <1>3, <1>5, <1>13, <1>14, <1>15, <1>16 DEF Laid
<1> QED BY <1>3, <1>11, <1>12, <1>17

\* A mapping more, at addresses of its own.
LEMMA MapsMore ==
    ASSUME NEW t, NEW maps, MapsInTables(t, maps), NEW m, MapOK(m), NEW new,
           Laid(t, new, m, m.va + m.length), Unpaged(t, m.va, m.va + m.length),
           \A a \in maps : \A w \in Nat : m.va <= w /\ w < m.va + m.length =>
               ~ (a.va <= w /\ w < a.va + a.length)
    PROVE  MapsInTables(new, maps \cup {m})
<1>1. \A a \in maps : MapOK(a) /\ Mapped(t, ShownBy(a)) /\ Allows(t, a)
    BY DEF MapsInTables
<1>2. /\ Filled(new, m.va, m.va + m.length, m.va + m.length)
      /\ \A e \in Entries : IsPage(t, e) => new[e] = t[e]
      /\ \A e \in Entries : IsPage(new, e) =>
             \/ IsPage(t, e)
             \/ /\ Meets(e, m.va, m.va + m.length) /\ new[e].readonly = m.readonly
                /\ ShowsOf(new, e, ShownBy(m))
    BY DEF Laid
<1>3. ASSUME NEW a \in maps PROVE Mapped(new, ShownBy(a))
  <2>1. \A e \in Entries : IsPage(t, e) => IsPage(new, e)
      BY <1>2 DEF IsPage
  <2>2. Mapped(t, ShownBy(a))
      BY <1>1
  <2> QED BY <2>1, <2>2 DEF Mapped
<1>4. Mapped(new, ShownBy(m))
  <2>1. PICK b : b = ShownBy(m)
      OBVIOUS
  <2>2. b \in BufferSet /\ b.va = m.va /\ b.size = m.length
      BY <2>1, ShownIs
  <2>3. Filled(new, b.va, b.va + b.size, b.va + b.size)
      BY <1>2, <2>2
  <2> QED BY <2>1, <2>2, <2>3, FilledMapped
<1>5. ASSUME NEW a \in maps PROVE Allows(new, a)
  <2>1. ASSUME NEW e \in Entries, IsPage(new, e), Meets(e, a.va, a.va + a.length)
        PROVE  new[e].readonly = a.readonly
    <3>1. CASE IsPage(t, e)
        BY <1>1, <1>2, <2>1, <3>1 DEF Allows
    <3>2. CASE ~ IsPage(t, e)
      <4>1. ShowsOf(new, e, ShownBy(m))
          BY <1>2, <2>1, <3>2
      <4>2. PICK va \in Nat, end \in Nat : va = a.va /\ end = a.va + a.length /\ va < end
        <5>1. a.va \in Nat /\ a.length \in Nat \ {0}
            BY <1>1, ShownIs
        <5>2. a.va + a.length \in Nat /\ a.va < a.va + a.length
            BY <5>1
        <5> QED BY <5>1, <5>2
      <4>3. PICK w \in Nat : Spans(e, w) /\ va <= w /\ w < end
          BY <2>1, <4>2, MeetsAt
      <4>4. ShownBy(m).va = m.va /\ ShownBy(m).size = m.length
          BY ShownIs
      <4>5. m.va <= w /\ w < m.va + m.length
          BY <4>1, <4>3, <4>4 DEF ShowsOf
      <4>6. a.va <= w /\ w < a.va + a.length
          BY <4>2, <4>3
      <4> QED BY <4>5, <4>6
    <3> QED BY <3>1, <3>2
  <2> QED BY <2>1 DEF Allows
<1>6. Allows(new, m)
  <2>1. ASSUME NEW e \in Entries, IsPage(new, e), Meets(e, m.va, m.va + m.length)
        PROVE  new[e].readonly = m.readonly
    <3>1. ~ IsPage(t, e)
        BY <2>1 DEF Unpaged
    <3> QED BY <1>2, <2>1, <3>1
  <2> QED BY <2>1 DEF Allows
<1>7. MapsApart(maps \cup {m})
  <2>1. ASSUME NEW a \in maps, NEW w \in Nat, m.va <= w /\ w < m.va + m.length,
               a.va <= w /\ w < a.va + a.length
        PROVE  FALSE
      BY <2>1
  <2>2. ASSUME NEW a \in maps \cup {m}, NEW b \in maps \cup {m}, NEW w \in Nat,
               a.va <= w /\ w < a.va + a.length, b.va <= w /\ w < b.va + b.length
        PROVE  a = b
    <3>1. CASE a \in maps /\ b \in maps
        BY <2>2, <3>1 DEF MapsInTables, MapsApart
    <3>2. CASE a = m /\ b = m
        BY <3>2
    <3>3. CASE a \in maps /\ b = m
        BY <2>1, <2>2, <3>3
    <3>4. CASE a = m /\ b \in maps
        BY <2>1, <2>2, <3>4
    <3> QED BY <3>1, <3>2, <3>3, <3>4
  <2> QED BY <2>2 DEF MapsApart
<1>8. BackedBy(new, ShownByAll(maps \cup {m}))
  <2>1. ASSUME NEW e \in Entries, IsPage(new, e)
        PROVE  \E a \in maps \cup {m} : ShowsOf(new, e, ShownBy(a))
    <3>1. CASE IsPage(t, e)
      <4>1. PICK a \in maps : ShowsOf(t, e, ShownBy(a))
          BY <3>1, PageOfMap
      <4>2. new[e] = t[e]
          BY <1>2, <3>1
      <4>3. ShowsOf(new, e, ShownBy(a))
          BY <4>1, <4>2 DEF ShowsOf
      <4> QED BY <4>3
    <3>2. CASE ~ IsPage(t, e)
        BY <1>2, <2>1, <3>2
    <3> QED BY <3>1, <3>2
  <2> QED BY <2>1 DEF BackedBy, ShownByAll
<1> QED BY <1>1, <1>3, <1>4, <1>5, <1>6, <1>7, <1>8 DEF MapsInTables

LEMMA GuestMapStep ==
    ASSUME GuestInv, NEW req, NEW o, NEW ranges, MapAsked(req, o, ranges), GuestMap(req, ranges)
    PROVE  GuestInv'
<1>1. PICK leaves : leaves = LeavesOf(req.va, ranges)
    OBVIOUS
<1>2. PICK room \in Nat : room = GuestTables - gmade /\ gmade \in Nat
  <2>1. gmade \in 0 .. GuestTables /\ GuestTables \in Nat
      BY GuestMapsAssumption DEF GuestInv
  <2>2. GuestTables - gmade \in Nat /\ gmade \in Nat
      BY <2>1
  <2> QED BY <2>2
<1>3. map_check(req)
    BY DEF GuestMap
<1>4. PICK m : m = MapOf(req)
    OBVIOUS
<1>5. /\ MapOK(m) /\ m.va = req.va /\ m.length = req.length
    BY <1>3, <1>4, AskedMap
<1>6. /\ Unpaged(gtree, m.va, m.va + m.length)
      /\ \A a \in Recorded : \A w \in Nat : m.va <= w /\ w < m.va + m.length =>
             ~ (a.va <= w /\ w < a.va + a.length)
    BY <1>3, <1>5, AskedFree
<1>7. m.va \in Nat /\ m.length \in Nat \ {0} /\ m.va + m.length <= VaPages
    BY <1>5, ShownIs DEF MapOK
<1>8. ~ range_is_mapped(gtree, req.va, req.length)
  <2>1. TreeOK(gtree)
      BY DEF GuestInv
  <2>2. ~ range_is_mapped(gtree, m.va, m.length)
      BY <1>6, <1>7, <2>1, LooksFree
  <2> QED BY <1>5, <2>2
<1>9. PICK new : new = WithPermission(Built(gtree, leaves, room), leaves, req.readonly)
    OBVIOUS
<1>10. PICK done \in BOOLEAN : done <=> Reached(gtree, leaves, room) = Len(leaves)
    OBVIOUS
<1>11. /\ gmade' = gmade + Cardinality(Made(gtree, leaves, room))
       /\ gtree' = (IF done THEN new ELSE RolledBack(new, req.va, req.length))
       /\ gmaps' = (IF done THEN Append(gmaps, m) ELSE gmaps)
       /\ held' = held
    BY <1>1, <1>2, <1>4, <1>8, <1>9, <1>10 DEF GuestMap, MapOf
<1>12. PICK x : Laid(gtree, new, m, x) /\ (done => x = m.va + m.length)
    BY <1>1, <1>3, <1>4, <1>9, <1>10, MapLaid
<1>13. Cardinality(Made(gtree, leaves, room)) \in 0 .. room
    BY <1>1, <1>3, <1>4, <1>9, MapLaid
<1>14. gmade' \in 0 .. GuestTables
    BY <1>2, <1>11, <1>13, GuestMapsAssumption
<1>15. TreeOK(new) /\ Aligned(new) /\ MapsInTables(gtree, Recorded) /\ RecordOK
    BY <1>12 DEF Laid, GuestInv
<1>16. CASE done
  <2>1. gtree' = new /\ gmaps' = Append(gmaps, m)
      BY <1>11, <1>16
  <2>2. MapsInTables(new, Recorded \cup {m})
      BY <1>5, <1>6, <1>12, <1>15, <1>16, MapsMore
  <2>3. m \notin Recorded
      BY <1>6, <1>7
  <2>4. RecordOK' /\ Recorded' = Recorded \cup {m}
      BY <1>15, <2>1, <2>3, RecordedMore
  <2> QED BY <1>11, <1>14, <1>15, <2>1, <2>2, <2>4 DEF GuestInv
<1>17. CASE ~ done
  <2>1. gtree' = Unmapped(new, m.va, m.length) /\ gmaps' = gmaps
      BY <1>5, <1>11, <1>17 DEF RolledBack
  <2>2. PICK t : t = gtree' /\ t = Unmapped(new, m.va, m.length)
      BY <2>1
  <2>3. Filled(new, m.va, x, m.va + m.length)
      BY <1>12 DEF Laid
  <2>4. /\ TreeOK(t)
        /\ \A e \in Entries : IsPage(t, e) => /\ IsPage(new, e) /\ t[e] = new[e]
                                              /\ ~ Meets(e, m.va, m.va + m.length)
        /\ \A e \in Entries : IsPage(new, e) /\ ~ Meets(e, m.va, m.va + m.length) =>
               t[e] = new[e]
      BY <1>7, <1>15, <2>2, <2>3, Cleared
  <2>5. Aligned(t)
      BY <1>15, <2>4 DEF Aligned
  <2>6. ASSUME NEW e \in Entries, IsPage(t, e) PROVE IsPage(gtree, e) /\ t[e] = gtree[e]
    <3>1. IsPage(new, e) /\ t[e] = new[e] /\ ~ Meets(e, m.va, m.va + m.length)
        BY <2>4, <2>6
    <3>2. IsPage(gtree, e)
        BY <1>12, <3>1 DEF Laid
    <3>3. new[e] = gtree[e]
        BY <1>12, <3>2 DEF Laid
    <3> QED BY <3>1, <3>2, <3>3
  <2>7. ASSUME NEW e \in Entries, IsPage(gtree, e) PROVE t[e] = gtree[e]
    <3>1. new[e] = gtree[e] /\ ~ Meets(e, m.va, m.va + m.length)
        BY <1>6, <1>12, <2>7 DEF Laid, Unpaged
    <3>2. IsPage(new, e)
        BY <2>7, <3>1 DEF IsPage
    <3> QED BY <2>4, <3>1, <3>2
  <2>8. PICK gone \in SUBSET Recorded : gone = {}
      OBVIOUS
  <2>9. Cut(gtree, t, gone)
      BY <2>6, <2>7, <2>8 DEF Cut
  <2>10. PICK left : left = Recorded \ gone
      OBVIOUS
  <2>11. MapsInTables(t, left)
      BY <1>15, <2>9, <2>10, MapsLeft
  <2>12. left = Recorded
      BY <2>8, <2>10
  <2>13. RecordOK' /\ Recorded' = Recorded
      BY <1>15, <2>1 DEF RecordOK, Recorded
  <2> QED BY <1>11, <1>14, <2>2, <2>4, <2>5, <2>11, <2>12, <2>13 DEF GuestInv
<1> QED BY <1>16, <1>17

LEMMA GuestUnmapStep ==
    ASSUME GuestInv, NEW client, NEW va, NEW length, GuestUnmap(client, va, length)
    PROVE  GuestInv'
<1>1. PICK i \in DOMAIN gmaps :
          /\ unmap_check(gmaps[i], client, va, length)
          /\ gmaps' = [j \in 1 .. Len(gmaps) - 1 |-> IF j < i THEN gmaps[j] ELSE gmaps[j + 1]]
    BY DEF GuestUnmap
<1>2. PICK m \in Recorded : m = gmaps[i]
    BY DEF Recorded
<1>3. m.va = va /\ m.length = length
    BY <1>1, <1>2 DEF unmap_check
<1>4. gtree' = Unmapped(gtree, va, length) /\ held' = held /\ gmade' = gmade
    BY DEF GuestUnmap
<1>5. PICK t : t = gtree' /\ t = Unmapped(gtree, m.va, m.length)
    BY <1>3, <1>4
<1>6. TreeOK(gtree) /\ Aligned(gtree) /\ MapsInTables(gtree, Recorded) /\ RecordOK
    BY DEF GuestInv
<1>7. MapOK(m)
    BY <1>6 DEF MapsInTables
<1>8. m.va \in Nat /\ m.length \in Nat /\ m.va + m.length <= VaPages
    BY <1>7, ShownIs DEF MapOK
<1>9. PICK x : x = m.va + m.length /\ Filled(gtree, m.va, x, m.va + m.length)
    BY <1>6, MapFills
<1>10. /\ TreeOK(t)
       /\ \A e \in Entries : IsPage(t, e) => /\ IsPage(gtree, e) /\ t[e] = gtree[e]
                                             /\ ~ Meets(e, m.va, m.va + m.length)
       /\ \A e \in Entries : IsPage(gtree, e) /\ ~ Meets(e, m.va, m.va + m.length) =>
              t[e] = gtree[e]
    BY <1>5, <1>6, <1>8, <1>9, Cleared
<1>11. Aligned(t)
    BY <1>6, <1>10 DEF Aligned
<1>12. PICK gone \in SUBSET Recorded : gone = {m}
    OBVIOUS
<1>13. Cut(gtree, t, gone)
    BY <1>10, <1>12 DEF Cut
<1>14. PICK left : left = Recorded \ gone
    OBVIOUS
<1>15. MapsInTables(t, left)
    BY <1>6, <1>13, <1>14, MapsLeft
<1>16. RecordOK' /\ Recorded' = Recorded \ {gmaps[i]}
    BY <1>1, <1>6, RecordedLess
<1>17. Recorded' = left
    BY <1>2, <1>12, <1>14, <1>16
<1> QED BY <1>4, <1>5, <1>10, <1>11, <1>15, <1>16, <1>17 DEF GuestInv

LEMMA GuestStep ==
    ASSUME GuestInv, [GuestNext]_guestVars
    PROVE  GuestInv'
<1>1. ASSUME NEW req \in MapRequests, NEW o \in Object(req),
             req.offset + req.length <= Len(o.frames),
             NEW ranges \in AskedRanges(o.frames, req.offset, req.length), GuestMap(req, ranges)
      PROVE  GuestInv'
  <2>1. MapAsked(req, o, ranges)
      BY <1>1 DEF MapAsked
  <2> QED BY <1>1, <2>1, GuestMapStep
<1>2. ASSUME NEW client, NEW va, NEW length, GuestUnmap(client, va, length) PROVE GuestInv'
    BY <1>2, GuestUnmapStep
<1>3. ASSUME NEW o \in held, FreeObject(o) PROVE GuestInv'
  <2>1. gtree' = gtree /\ gmaps' = gmaps /\ gmade' = gmade /\ held' \in SUBSET GuestObjects
      BY <1>3 DEF FreeObject, GuestInv
  <2> QED BY <2>1 DEF GuestInv, RecordOK, Recorded
<1>4. CASE UNCHANGED guestVars
  <2>1. gtree' = gtree /\ gmaps' = gmaps /\ gmade' = gmade /\ held' = held
      BY <1>4 DEF guestVars
  <2> QED BY <2>1 DEF GuestInv, RecordOK, Recorded
<1> QED BY <1>1, <1>2, <1>3, <1>4 DEF GuestNext

\* What GuestInv says of every reachable state (gsp.c, tinynv_c4b_map).
THEOREM GuestInvariant == GuestSpec => []GuestInv
BY GuestInitInv, GuestStep, PTL DEF GuestSpec

\* Where a page of a mapping leads, and how.
LEMMA LeadsTo ==
    ASSUME GuestInv, NEW m \in Recorded, NEW e \in Entries, IsPage(gtree, e),
           NEW w \in Nat, Spans(e, w), m.va <= w, w < m.va + m.length
    PROVE  /\ w \in 0 .. VaPages - 1
           /\ Translate(gtree, w) = {ObjectOf(m).frames[m.offset + (w - m.va) + 1]}
           /\ Leaf(w).readonly = m.readonly
<1>1. TreeOK(gtree) /\ Aligned(gtree) /\ MapsInTables(gtree, Recorded)
    BY DEF GuestInv
<1>2. MapOK(m) /\ Allows(gtree, m)
    BY <1>1 DEF MapsInTables
<1>3. ShowsOf(gtree, e, ShownBy(m)) /\ m.va <= e[2] /\ e[2] + Covers[e[1]] <= m.va + m.length
    BY <1>1, PageInMap
<1>4. w \in 0 .. VaPages - 1 /\ Stop(gtree, w) = e[1] /\ Entry(e[1], w) = e
    BY <1>1, PageStops
<1>5. Translate(gtree, w) = {gtree[e].frame + (w - e[2])}
    BY <1>1, TranslatesPage
<1>6. ShownBy(m).va = m.va
    BY <1>2, ShownIs
<1>7. ShownBy(m).pages[w - m.va + 1] = gtree[e].frame + (w - e[2])
    BY <1>3, <1>6 DEF ShowsOf
<1>8. PICK va \in Nat, n \in Nat, at \in Nat : va = m.va /\ n = m.length /\ at = m.offset
    BY <1>2, ShownIs
<1>9. PICK i \in 1 .. n : i = w - va + 1 /\ at + i = at + (w - va) + 1
  <2>1. w - va + 1 \in 1 .. n /\ at + (w - va + 1) = at + (w - va) + 1
      BY <1>8
  <2> QED BY <2>1
<1>10. ShownBy(m).pages[i] = ObjectOf(m).frames[m.offset + i]
    BY <1>2, <1>8, ShownIs
<1>11. Leaf(w) = gtree[e]
    BY <1>4 DEF Leaf
<1>12. Meets(e, m.va, m.va + m.length)
  <2>1. e[2] \in Nat /\ Covers[e[1]] \in Nat /\ Covers[e[1]] > 0
      BY EntryShape
  <2> QED BY <1>3, <1>8, <2>1 DEF Meets
<1>13. gtree[e].readonly = m.readonly
    BY <1>2, <1>12 DEF Allows
<1> QED BY <1>4, <1>5, <1>7, <1>8, <1>9, <1>10, <1>11, <1>13

LEMMA GrantedIs ==
    ASSUME NEW m, MapOK(m), NEW x
    PROVE  x \in Granted(m) <=>
               \E w \in Nat : /\ m.va <= w /\ w < m.va + m.length
                              /\ x = <<w, ObjectOf(m).frames[m.offset + (w - m.va) + 1],
                                   m.readonly>>
<1>1. PICK va \in Nat, n \in Nat \ {0}, at \in Nat : va = m.va /\ n = m.length /\ at = m.offset
    BY ShownIs
<1>2. PICK frames : frames = ObjectOf(m).frames
    OBVIOUS
<1>3. Granted(m) = {<<va + i, frames[at + i + 1], m.readonly>> : i \in 0 .. n - 1}
    BY <1>1, <1>2, Zenon DEF Granted, ObjectOf
<1>4. ASSUME NEW i \in 0 .. n - 1
      PROVE  \E w \in Nat : va <= w /\ w < va + n /\ w = va + i /\ w - va = i
  <2>1. va + i \in Nat /\ va <= va + i /\ va + i < va + n /\ va + i - va = i
      OBVIOUS
  <2> QED BY <2>1
<1>5. ASSUME NEW w \in Nat, va <= w, w < va + n
      PROVE  \E i \in 0 .. n - 1 : w = va + i /\ w - va = i
  <2>1. w - va \in 0 .. n - 1 /\ w = va + (w - va)
      BY <1>5
  <2> QED BY <2>1
<1>6. ASSUME x \in Granted(m)
      PROVE  \E w \in Nat : va <= w /\ w < va + n /\ x = <<w, frames[at + (w - va) + 1],
             m.readonly>>
  <2>1. PICK i \in 0 .. n - 1 : x = <<va + i, frames[at + i + 1], m.readonly>>
      BY <1>3, <1>6
  <2>2. PICK w \in Nat : va <= w /\ w < va + n /\ w = va + i /\ w - va = i
      BY <1>4
  <2> QED BY <2>1, <2>2
<1>7. ASSUME NEW w \in Nat, va <= w, w < va + n, x = <<w, frames[at + (w - va) + 1], m.readonly>>
      PROVE  x \in Granted(m)
  <2>1. PICK i \in 0 .. n - 1 : w = va + i /\ w - va = i
      BY <1>5, <1>7
  <2>2. x = <<va + i, frames[at + i + 1], m.readonly>>
      BY <1>7, <2>1
  <2> QED BY <1>3, <2>2
<1> QED BY <1>1, <1>2, <1>6, <1>7

\* What a guest can reach, and how, is what is on record, no less and no more
\* (gsp.c:2316-2326, gsp.h:88-90, 170-171).
THEOREM GuestsReachWhatIsRecorded == GuestSpec => []GuestReachesWhatIsRecorded
<1>1. ASSUME GuestInv PROVE GuestReachesWhatIsRecorded
  <2>1. /\ TreeOK(gtree) /\ Aligned(gtree) /\ MapsInTables(gtree, Recorded)
        /\ \A m \in Recorded : MapOK(m) /\ Mapped(gtree, ShownBy(m))
      BY <1>1 DEF GuestInv, MapsInTables
  <2>2. ASSUME NEW x \in Reachable PROVE \E m \in Recorded : x \in Granted(m)
    <3>1. PICK w \in 0 .. VaPages - 1 :
              \E f \in Translate(gtree, w) : x = <<w, f, Leaf(w).readonly>>
        BY <2>2 DEF Reachable
    <3>2. PICK f \in Translate(gtree, w) : x = <<w, f, Leaf(w).readonly>>
        BY <3>1
    <3>3. PICK e \in Entries : IsPage(gtree, e) /\ Spans(e, w)
        BY <2>1, <3>2, TranslatesNothing
    <3>4. PICK m \in Recorded : ShowsOf(gtree, e, ShownBy(m))
        BY <2>1, <3>3, PageOfMap
    <3>5. w \in Nat
        BY CoversOK
    <3>6. ShownBy(m).va = m.va /\ ShownBy(m).size = m.length
        BY <2>1, ShownIs
    <3>7. m.va <= w /\ w < m.va + m.length
        BY <3>3, <3>4, <3>5, <3>6 DEF ShowsOf
    <3>8. /\ Translate(gtree, w) = {ObjectOf(m).frames[m.offset + (w - m.va) + 1]}
          /\ Leaf(w).readonly = m.readonly
        BY <1>1, <3>3, <3>5, <3>7, LeadsTo
    <3>9. x = <<w, ObjectOf(m).frames[m.offset + (w - m.va) + 1], m.readonly>>
        BY <3>2, <3>8
    <3> QED BY <2>1, <3>5, <3>7, <3>9, GrantedIs
  <2>3. ASSUME NEW m \in Recorded, NEW x \in Granted(m) PROVE x \in Reachable
    <3>1. PICK w \in Nat : /\ m.va <= w /\ w < m.va + m.length
                           /\ x = <<w, ObjectOf(m).frames[m.offset + (w - m.va) + 1], m.readonly>>
        BY <2>1, <2>3, GrantedIs
    <3>2. PICK b \in BufferSet : b = ShownBy(m) /\ b.va = m.va /\ b.size = m.length
        BY <2>1, ShownIs
    <3>3. w \in b.va .. b.va + b.size - 1
        BY <3>1, <3>2, BufferIs
    <3>4. PICK e \in Entries : IsPage(gtree, e) /\ Spans(e, w)
        BY <2>1, <3>2, <3>3 DEF Mapped
    <3>5. /\ w \in 0 .. VaPages - 1
          /\ Translate(gtree, w) = {ObjectOf(m).frames[m.offset + (w - m.va) + 1]}
          /\ Leaf(w).readonly = m.readonly
        BY <1>1, <3>1, <3>4, LeadsTo
    <3>6. PICK f \in Translate(gtree, w) : x = <<w, f, Leaf(w).readonly>>
        BY <3>1, <3>5
    <3> QED BY <3>5, <3>6 DEF Reachable
  <2>4. UNION {Granted(gmaps[i]) : i \in DOMAIN gmaps} = UNION {Granted(m) : m \in Recorded}
      BY DEF Recorded
  <2> QED BY <2>2, <2>3, <2>4 DEF GuestReachesWhatIsRecorded
<1> QED BY <1>1, GuestInvariant, PTL
=============================================================================
