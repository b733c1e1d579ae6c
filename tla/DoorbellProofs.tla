--------------------------- MODULE DoorbellProofs ---------------------------
(***************************************************************************)
(* No doorbell is lost, and batches are done one at a time in the order    *)
(* they were submitted, for any ring, any room for what is staged, any     *)
(* length of token, both ways of announcing and any number of batches.     *)
(*                                                                         *)
(* The argument follows three counts through the machine: d, the batches   *)
(* done; c[0], those whose write pointer has reached video memory; Len(log)*)
(* those staged.  c[j] is what c[0] will be once the j oldest writes of    *)
(* the window have arrived.  The fence read stands behind every write of   *)
(* what it announces, so what is announced has arrived (Announced <= c[0]),*)
(* and an engine that finds its pointer where it last read it has done     *)
(* all that arrived: equal modulo the ring is equal, since no more than    *)
(* the command region's room, less than a ring, is not done.               *)
(***************************************************************************)
EXTENDS Doorbell, FiniteSetTheorems, SequenceTheorems, WellFoundedInduction, TLAPS

\* Batches of a queue among the first n of a log
CntIn(lg, q, n) == Cardinality({i \in 1 .. n : lg[i] = q})
Cnt(q, n) == CntIn(log, q, n)

\* What a batch acquires, its entry, and where in the ring it goes
AfterIn(lg, i) == IF i = 1 \/ lg[i - 1] = lg[i] THEN 0 ELSE i - 1
EntryOf(i) == [batch |-> i, after |-> AfterIn(log, i)]
SlotOf(i) == (Cnt(log[i], i) - 1) % Entries
RingHas(i) == ring[log[i]][SlotOf(i)] = EntryOf(i)

\* The host's own records of what it staged
LogOK ==
    /\ last_q = IF log = <<>> THEN "none" ELSE log[Len(log)]
    /\ \A q \in Queues : put[q] = Cnt(q, Len(log))
    /\ Len(staged) + Len(ring_q) <= Len(log)
    /\ \A i \in 1 .. Len(staged) : staged[i] = log[Len(log) - Len(staged) + i]
    /\ \A i \in 1 .. Len(ring_q) : ring_q[i] = log[Announced + i]

\* The writes on the window, oldest first: a batch's entry, then its pointer,
\* and a fence behind all that it announces
EntryAt(c, j) ==
    /\ c[j] = c[j - 1] /\ c[j] < Len(log)
    /\ window[j].queue = log[c[j] + 1]
    /\ window[j].at = SlotOf(c[j] + 1)
    /\ window[j].entry = EntryOf(c[j] + 1)
    /\ j < Len(window) /\ window[j + 1].kind = "put"

PutAt(c, j) ==
    /\ c[j] = c[j - 1] + 1
    /\ window[j].queue = log[c[j]]
    /\ window[j].at = Cnt(log[c[j]], c[j]) % Entries
    /\ j > 1 => window[j - 1].kind = "entry"

ReadAt(c, j) ==
    /\ c[j] = c[j - 1]
    /\ ring_q # <<>> /\ ~ replied
    /\ c[j] = Len(log) - Len(staged)
    /\ \A i \in 1 .. Len(window) : window[i].kind = "read" => i = j

WindowOK(c) ==
    /\ c \in [0 .. Len(window) -> 0 .. Len(log)]
    /\ c[Len(window)] = Len(log)
    /\ \A j \in 1 .. Len(window) :
          /\ window[j].kind = "entry" => EntryAt(c, j)
          /\ window[j].kind = "put" => PutAt(c, j)
          /\ window[j].kind = "read" => ReadAt(c, j)

\* Video memory, once a batches' pointers have reached it and d are done
MemoryOK(a, d) ==
    /\ \A q \in Queues : gp_put[q] = Cnt(q, a) % Entries
    /\ \A i \in d + 1 .. a : RingHas(i)
    /\ (window # <<>> /\ window[1].kind = "put") => RingHas(a + 1)
    /\ Announced <= a
    /\ (ring_q # <<>> /\ replied) => Len(log) - Len(staged) <= a

\* An engine has done its share of the first d, and has in hand its next
EngineOK(q, a, d) ==
    /\ engine[q].done = {i \in 1 .. d : log[i] = q}
    /\ IF engine[q].hand = NoEntry THEN engine[q].get = Cnt(q, d) % Entries
       ELSE \E h \in d + 1 .. a :
               /\ engine[q].hand = EntryOf(h) /\ log[h] = q
               /\ \A i \in d + 1 .. h - 1 : log[i] # q
               /\ engine[q].get = Cnt(q, h) % Entries

Counted(c, d) ==
    /\ WindowOK(c)
    /\ d <= c[0] /\ Len(log) - d <= CmdRoom
    /\ MemoryOK(c[0], d)
    /\ \A q \in Queues : EngineOK(q, c[0], d)

DInv ==
    /\ TypeOK /\ LogOK /\ NoLostDoorbell
    /\ \E c \in [0 .. Len(window) -> 0 .. Len(log)], d \in 0 .. Len(log) : Counted(c, d)

-----------------------------------------------------------------------------
\* Facts about counting.
LEMMA LeastExists ==
    ASSUME NEW s \in SUBSET Nat, s # {}
    PROVE  \E x \in s : \A y \in s : x <= y
<1> DEFINE R == {ss \in Nat \X Nat : ss[1] < ss[2]}
<1>1. IsWellFoundedOn(R, Nat)
    BY NatLessThanWellFounded DEF OpToRel
<1> HIDE DEF R
<1>2. PICK x \in s : \A y \in s : ~ (<<y, x>> \in R)
    BY <1>1, WFMin
<1>3. ASSUME NEW y \in s PROVE x <= y
  <2>1. x \in Nat /\ y \in Nat
      OBVIOUS
  <2>2. y < x => <<y, x>> \in R
      BY <2>1 DEF R
  <2> QED BY <1>2, <2>1, <2>2
<1> QED BY <1>3

\* What a queue counts between two places is what is its own between them.
LEMMA CntBetween ==
    ASSUME NEW lg, NEW q, NEW m \in Nat, NEW n \in Nat, m <= n
    PROVE  /\ CntIn(lg, q, m) \in Nat /\ CntIn(lg, q, n) \in Nat
           /\ CntIn(lg, q, m) <= CntIn(lg, q, n) /\ CntIn(lg, q, n) <= CntIn(lg, q, m) + (n - m)
           /\ (\A i \in m + 1 .. n : lg[i] # q) => CntIn(lg, q, n) = CntIn(lg, q, m)
           /\ (\E i \in m + 1 .. n : lg[i] = q) => CntIn(lg, q, m) < CntIn(lg, q, n)
<1> DEFINE A == {i \in 1 .. m : lg[i] = q}
           B == {i \in m + 1 .. n : lg[i] = q}
<1>1. IsFiniteSet(1 .. m) /\ IsFiniteSet(m + 1 .. n) /\ Cardinality(m + 1 .. n) = n - m
  <2>1. IsFiniteSet(1 .. m)
      BY FS_Interval
  <2>2. IsFiniteSet(m + 1 .. n) /\ Cardinality(m + 1 .. n) = IF m + 1 > n THEN 0 ELSE n - (m + 1) + 1
      BY FS_Interval
  <2> QED BY <2>1, <2>2
<1>2. IsFiniteSet(A) /\ IsFiniteSet(B) /\ Cardinality(B) <= n - m
  <2>1. A \in SUBSET (1 .. m) /\ B \in SUBSET (m + 1 .. n)
      OBVIOUS
  <2> QED BY <1>1, <2>1, FS_Subset
<1>3. A \cap B = {} /\ {i \in 1 .. n : lg[i] = q} = A \cup B
    OBVIOUS
<1>4. Cardinality(A) \in Nat /\ Cardinality(B) \in Nat /\ (Cardinality(B) = 0 <=> B = {})
    BY <1>2, FS_CardinalityType, FS_EmptySet
<1>5. Cardinality(A \cup B) = Cardinality(A) + Cardinality(B)
  <2>1. Cardinality(A \cap B) = 0
      BY <1>3, FS_EmptySet
  <2>2. Cardinality(A \cup B) = Cardinality(A) + Cardinality(B) - Cardinality(A \cap B)
      BY <1>2, FS_Union
  <2> QED BY <1>4, <2>1, <2>2
<1>6. CntIn(lg, q, m) = Cardinality(A) /\ CntIn(lg, q, n) = Cardinality(A) + Cardinality(B)
    BY <1>3, <1>5 DEF CntIn
<1>7. /\ (\A i \in m + 1 .. n : lg[i] # q) => B = {}
      /\ (\E i \in m + 1 .. n : lg[i] = q) => B # {}
    OBVIOUS
<1> HIDE DEF A, B
<1> QED BY <1>2, <1>4, <1>6, <1>7

LEMMA CntNext ==
    ASSUME NEW lg, NEW q, NEW n \in Nat
    PROVE  /\ CntIn(lg, q, n) \in Nat
           /\ CntIn(lg, q, n + 1) = IF lg[n + 1] = q THEN CntIn(lg, q, n) + 1 ELSE CntIn(lg, q, n)
<1>1. /\ CntIn(lg, q, n) \in Nat /\ CntIn(lg, q, n + 1) \in Nat
      /\ CntIn(lg, q, n) <= CntIn(lg, q, n + 1) /\ CntIn(lg, q, n + 1) <= CntIn(lg, q, n) + ((n + 1) - n)
      /\ (\A i \in n + 1 .. n + 1 : lg[i] # q) => CntIn(lg, q, n + 1) = CntIn(lg, q, n)
      /\ (\E i \in n + 1 .. n + 1 : lg[i] = q) => CntIn(lg, q, n) < CntIn(lg, q, n + 1)
  <2>1. n + 1 \in Nat /\ n <= n + 1
      OBVIOUS
  <2> QED BY <2>1, CntBetween
<1>2. n + 1 \in n + 1 .. n + 1 /\ \A i \in n + 1 .. n + 1 : i = n + 1
    OBVIOUS
<1>3. lg[n + 1] = q => CntIn(lg, q, n) < CntIn(lg, q, n + 1)
    BY <1>1, <1>2
<1>4. lg[n + 1] # q => CntIn(lg, q, n + 1) = CntIn(lg, q, n)
    BY <1>1, <1>2
<1> QED BY <1>1, <1>3, <1>4

LEMMA DivMod ==
    ASSUME NEW a \in Nat, NEW E \in Nat \ {0}
    PROVE  /\ a = (a \div E) * E + (a % E)
           /\ a % E \in 0 .. E - 1 /\ a \div E \in Nat
OBVIOUS

LEMMA TimesLess ==
    ASSUME NEW x \in Nat, NEW y \in Nat, NEW E \in Nat \ {0}, x < y
    PROVE  x * E + E <= y * E
<1>1. (y - x) * E >= E /\ (y - x) * E = y * E - x * E /\ x * E \in Nat /\ y * E \in Nat
    OBVIOUS
<1> QED BY <1>1

LEMMA ModOf ==
    ASSUME NEW r \in Nat, NEW x \in Nat, NEW E \in Nat \ {0}, r < E
    PROVE  (x * E + r) % E = r
OBVIOUS

\* Places of the ring less than its length apart are different entries.
LEMMA ModApart ==
    ASSUME NEW a \in Nat, NEW b \in Nat, a <= b, b - a < Entries, a % Entries = b % Entries
    PROVE  a = b
<1> DEFINE x == a \div Entries
           y == b \div Entries
           r == a % Entries
<1>1. Entries \in Nat \ {0}
    BY DoorbellAssumption
<1>2. x \in Nat /\ y \in Nat /\ r \in Nat /\ a = x * Entries + r /\ b = y * Entries + r
  <2>1. x \in Nat /\ r \in 0 .. Entries - 1 /\ a = x * Entries + r
      BY <1>1, DivMod
  <2>2. y \in Nat /\ b = y * Entries + (b % Entries)
      BY <1>1, DivMod
  <2>3. b % Entries = r
      OBVIOUS
  <2> QED BY <2>1, <2>2, <2>3
<1> HIDE DEF x, y, r
<1>3. x * Entries \in Nat /\ y * Entries \in Nat
    BY <1>1, <1>2
<1>4. ~ (x < y)
  <2> SUFFICES ASSUME x < y PROVE FALSE
      OBVIOUS
  <2>1. x * Entries + Entries <= y * Entries
      BY <1>1, <1>2, TimesLess
  <2> QED BY <1>1, <1>2, <1>3, <2>1
<1>5. ~ (y < x)
  <2> SUFFICES ASSUME y < x PROVE FALSE
      OBVIOUS
  <2>1. y * Entries + Entries <= x * Entries
      BY <1>1, <1>2, TimesLess
  <2> QED BY <1>1, <1>2, <1>3, <2>1
<1> QED BY <1>2, <1>4, <1>5

LEMMA ModNext ==
    ASSUME NEW a \in Nat
    PROVE  ((a % Entries) + 1) % Entries = (a + 1) % Entries /\ a % Entries \in 0 .. Entries - 1
<1> DEFINE x == a \div Entries
           r == a % Entries
<1>1. Entries \in Nat \ {0}
    BY DoorbellAssumption
<1>2. x \in Nat /\ r \in 0 .. Entries - 1 /\ a = x * Entries + r
    BY <1>1, DivMod
<1> HIDE DEF x, r
<1>3. CASE r + 1 < Entries
  <2>1. (x * Entries + (r + 1)) % Entries = r + 1 /\ (0 * Entries + (r + 1)) % Entries = r + 1
      BY <1>1, <1>2, <1>3, ModOf
  <2>2. x * Entries \in Nat
      BY <1>1, <1>2
  <2>3. a + 1 = x * Entries + (r + 1) /\ r + 1 = 0 * Entries + (r + 1)
      BY <1>1, <1>2, <2>2
  <2> QED BY <1>2, <2>1, <2>3 DEF r
<1>4. CASE r + 1 = Entries
  <2>1. ((x + 1) * Entries + 0) % Entries = 0 /\ (1 * Entries + 0) % Entries = 0
      BY <1>1, <1>2, ModOf
  <2>2. x * Entries \in Nat /\ (x + 1) * Entries = x * Entries + Entries
      BY <1>1, <1>2
  <2>3. a + 1 = (x + 1) * Entries + 0 /\ r + 1 = 1 * Entries + 0
      BY <1>1, <1>2, <1>4, <2>2
  <2> QED BY <1>2, <2>1, <2>3 DEF r
<1>5. r + 1 < Entries \/ r + 1 = Entries
    BY <1>1, <1>2
<1> QED BY <1>2, <1>3, <1>4, <1>5 DEF r

-----------------------------------------------------------------------------
\* What the invariant says of a log stays when the log does, ...
LEMMA SameLog ==
    ASSUME log' = log
    PROVE  /\ \A q, n : Cnt(q, n)' = Cnt(q, n)
           /\ \A i : EntryOf(i)' = EntryOf(i) /\ SlotOf(i)' = SlotOf(i)
BY DEF Cnt, EntryOf, SlotOf

\* ... and of what was in it, when it grows.
LEMMA GrownLog ==
    ASSUME TypeOK, NEW p \in Queues, log' = Append(log, p)
    PROVE  /\ Len(log') = Len(log) + 1 /\ log'[Len(log) + 1] = p /\ Len(log) \in Nat
           /\ \A i \in 1 .. Len(log) : log'[i] = log[i] /\ log[i] \in Queues
           /\ \A q : \A n \in 0 .. Len(log) : Cnt(q, n)' = Cnt(q, n)
           /\ \A i \in 1 .. Len(log) : EntryOf(i)' = EntryOf(i) /\ SlotOf(i)' = SlotOf(i)
<1>1. /\ Len(log') = Len(log) + 1 /\ log'[Len(log) + 1] = p /\ Len(log) \in Nat
      /\ \A i \in 1 .. Len(log) : log'[i] = log[i] /\ log[i] \in Queues
    BY DEF TypeOK
<1>2. ASSUME NEW q, NEW n \in 0 .. Len(log) PROVE Cnt(q, n)' = Cnt(q, n)
  <2>1. {i \in 1 .. n : log'[i] = q} = {i \in 1 .. n : log[i] = q}
      BY <1>1
  <2> QED BY <2>1 DEF Cnt, CntIn
<1>3. ASSUME NEW i \in 1 .. Len(log) PROVE EntryOf(i)' = EntryOf(i) /\ SlotOf(i)' = SlotOf(i)
  <2>1. i # 1 => i - 1 \in 1 .. Len(log)
      BY <1>1
  <2>2. AfterIn(log', i) = AfterIn(log, i)
      BY <1>1, <2>1 DEF AfterIn
  <2>3. i \in 0 .. Len(log)
      OBVIOUS
  <2>4. SlotOf(i)' = (Cnt(log[i], i)' - 1) % Entries
      BY <1>1 DEF SlotOf, Cnt
  <2> QED BY <1>2, <2>2, <2>3, <2>4 DEF EntryOf, SlotOf
<1> QED BY <1>1, <1>2, <1>3

LEMMA OtherIs ==
    ASSUME NEW q \in Queues
    PROVE  Other(q) \in Queues /\ Other(q) # q /\ Queues = {q, Other(q)}
<1>1. \E p \in Queues : p # q
    BY DEF Queues
<1>2. Other(q) \in Queues /\ Other(q) # q
    BY <1>1 DEF Other
<1> QED BY <1>2 DEF Queues

\* The engines' shares make up the first d batches.
LEMMA DoneIs ==
    ASSUME TypeOK, NEW c, NEW d \in 0 .. Len(log), Counted(c, d)
    PROVE  Done = 1 .. d /\ Cardinality(Done) = d
<1>1. \A q \in Queues : engine[q].done = {i \in 1 .. d : log[i] = q}
    BY DEF Counted, EngineOK
<1>2. \A i \in 1 .. d : log[i] \in Queues
    BY DEF TypeOK
<1>3. Done = 1 .. d
    BY <1>1, <1>2 DEF Done
<1>4. d \in Nat /\ Cardinality(1 .. d) = IF 1 > d THEN 0 ELSE d - 1 + 1
    BY FS_Interval DEF TypeOK
<1> QED BY <1>3, <1>4

-----------------------------------------------------------------------------
\* What a step leaves alone of what the invariant says.
LEMMA SameLogOK ==
    ASSUME LogOK, UNCHANGED <<log, last_q, put, staged, ring_q>>
    PROVE  LogOK'
BY SameLog DEF LogOK, Announced

LEMMA SameWindow ==
    ASSUME NEW c, WindowOK(c), UNCHANGED <<log, window, staged, ring_q, replied>>
    PROVE  WindowOK(c)'
BY SameLog DEF WindowOK, EntryAt, PutAt, ReadAt, Cnt

LEMMA SameMemory ==
    ASSUME NEW a, NEW d \in Int, NEW e \in Int, d <= e, MemoryOK(a, d), 
           UNCHANGED <<log, window, staged, ring_q, replied, ring, gp_put>>
    PROVE  MemoryOK(a, e)'
<1>1. \A i \in e + 1 .. a : i \in d + 1 .. a
    OBVIOUS
<1> QED BY <1>1, SameLog DEF MemoryOK, RingHas, Announced

LEMMA SameEngine ==
    ASSUME NEW q \in Queues, NEW a \in Int, NEW b \in Int, a <= b, NEW d, EngineOK(q, a, d),
           log' = log, engine'[q].done = engine[q].done, engine'[q].hand = engine[q].hand,
           engine'[q].get = engine[q].get
    PROVE  EngineOK(q, b, d)'
<1>1. \A h \in d + 1 .. a : h \in d + 1 .. b
    OBVIOUS
<1> QED BY <1>1, SameLog DEF EngineOK

LEMMA CountsTyped ==
    ASSUME TypeOK, NEW c \in [0 .. Len(window) -> 0 .. Len(log)], NEW d \in 0 .. Len(log)
    PROVE  /\ Len(log) \in Nat /\ Len(window) \in Nat /\ Len(staged) \in Nat /\ Len(ring_q) \in Nat
           /\ d \in Nat /\ c[0] \in 0 .. Len(log) /\ c[0] \in Nat
           /\ \A i \in 1 .. Len(log) : log[i] \in Queues
           /\ \A j \in 1 .. Len(window) : window[j] \in Posted
           /\ \A j \in 0 .. Len(window) : c[j] \in Nat /\ c[j] <= Len(log)
<1>1. Len(log) \in Nat /\ Len(window) \in Nat /\ Len(staged) \in Nat /\ Len(ring_q) \in Nat
    BY DEF TypeOK
<1>2. 0 \in 0 .. Len(window) /\ \A j \in 0 .. Len(window) : c[j] \in 0 .. Len(log)
    BY <1>1
<1>3. /\ \A i \in 1 .. Len(log) : log[i] \in Queues
      /\ \A j \in 1 .. Len(window) : window[j] \in Posted
    BY DEF TypeOK
<1> QED BY <1>1, <1>2, <1>3

\* Steps of the host that only take it somewhere.
LEMMA HostOnly ==
    ASSUME DInv, UNCHANGED allButHost, host' \in HostState
    PROVE  DInv'
<1>1. UNCHANGED <<log, last_q, put, staged, ring_q, window, bells, replied, ring, gp_put, engine>>
    BY DEF allButHost
<1>2. TypeOK' /\ LogOK'
    BY <1>1, SameLogOK DEF DInv, TypeOK
<1>3. NoLostDoorbell'
    BY <1>1 DEF DInv, NoLostDoorbell, Announced, Done
<1>4. PICK c \in [0 .. Len(window) -> 0 .. Len(log)], d \in 0 .. Len(log) : Counted(c, d)
    BY DEF DInv
<1>5. c[0] \in Int /\ d \in Int
    BY <1>4, CountsTyped DEF DInv
<1>6. Counted(c, d)'
    BY <1>1, <1>4, <1>5, SameWindow, SameMemory, SameEngine DEF Counted
<1> QED BY <1>1, <1>2, <1>3, <1>4, <1>6 DEF DInv

-----------------------------------------------------------------------------
\* The engines' steps.  A frame for them: the host's side and the window stay.
LEMMA EngineSide ==
    ASSUME TypeOK, LogOK, UNCHANGED <<hostVars, window, replied, ring, gp_put>>,
           engine' \in [Queues -> Engine], bells' \in Seq(Queues), NoLostDoorbell',
           NEW c \in [0 .. Len(window) -> 0 .. Len(log)], NEW d \in 0 .. Len(log),
           Counted(c, d), NEW e \in 0 .. Len(log), d <= e, e <= c[0],
           \A q \in Queues : EngineOK(q, c[0], e)'
    PROVE  DInv'
<1>1. UNCHANGED <<log, last_q, put, staged, ring_q, host, window, replied, ring, gp_put>>
    BY DEF hostVars
<1>2. TypeOK' /\ LogOK'
    BY <1>1, SameLogOK DEF TypeOK
<1>3. c[0] \in Int /\ d \in Int /\ e \in Int /\ Len(log) - e <= CmdRoom /\ c[0] \in 0 .. Len(log)
    BY CountsTyped, DoorbellAssumption DEF Counted
<1>4. WindowOK(c)' /\ MemoryOK(c[0], e)'
    BY <1>1, <1>3, SameWindow, SameMemory DEF Counted
<1>5. Counted(c, e)'
    BY <1>1, <1>3, <1>4 DEF Counted
<1> QED BY <1>1, <1>2, <1>5 DEF DInv

LEMMA EngineFacts ==
    ASSUME DInv
    PROVE  /\ TypeOK /\ LogOK /\ NoLostDoorbell
           /\ \E c \in [0 .. Len(window) -> 0 .. Len(log)], d \in 0 .. Len(log) :
                 /\ Counted(c, d) /\ c[0] \in 0 .. Len(log) /\ d <= c[0]
                 /\ d \in Nat /\ Len(log) \in Nat /\ Len(log) - d < Entries
                 /\ Done = 1 .. d
<1>1. TypeOK
    BY DEF DInv
<1>2. PICK c \in [0 .. Len(window) -> 0 .. Len(log)], d \in 0 .. Len(log) : Counted(c, d)
    BY DEF DInv
<1>3. d \in Nat /\ Len(log) \in Nat /\ c[0] \in 0 .. Len(log) /\ Len(log) - d <= CmdRoom /\ d <= c[0]
    BY <1>1, <1>2, CountsTyped DEF Counted
<1>4. CmdRoom \in Nat /\ Entries \in Nat /\ CmdRoom < Entries
    BY DoorbellAssumption
<1>5. Done = 1 .. d
    BY <1>1, <1>2, DoneIs
<1> QED BY <1>2, <1>3, <1>4, <1>5 DEF DInv

LEMMA AnnouncedIn ==
    ASSUME TypeOK, NEW c, NEW d, Counted(c, d), c[0] \in 0 .. Len(log)
    PROVE  /\ Announced \in Int /\ Announced <= c[0]
           /\ \A n \in 1 .. Announced : log[n] \in Queues /\ n \in 1 .. c[0]
<1>1. Announced <= c[0]
    BY DEF Counted, MemoryOK
<1>2. Len(log) \in Nat /\ Len(staged) \in Nat /\ Len(ring_q) \in Nat
    BY DEF TypeOK
<1>3. Announced \in Int
    BY <1>2 DEF Announced
<1>4. \A n \in 1 .. Announced : n \in 1 .. Len(log) /\ n \in 1 .. c[0]
    BY <1>1, <1>2, <1>3
<1> QED BY <1>1, <1>3, <1>4 DEF TypeOK

LEMMA WakeKeeps ==
    ASSUME DInv, Wake
    PROVE  DInv'
<1>1. /\ bells # <<>> /\ bells' = Tail(bells)
      /\ engine' = [engine EXCEPT ![Head(bells)].awake = TRUE]
      /\ UNCHANGED <<hostVars, window, replied, ring, gp_put>> /\ log' = log
      /\ UNCHANGED <<staged, ring_q>>
    BY DEF Wake, hostVars
<1>2. TypeOK /\ LogOK /\ NoLostDoorbell /\ bells \in Seq(Queues) /\ engine \in [Queues -> Engine]
    BY DEF DInv, TypeOK
<1>3. PICK c \in [0 .. Len(window) -> 0 .. Len(log)], d \in 0 .. Len(log) :
          Counted(c, d) /\ c[0] \in 0 .. Len(log) /\ d <= c[0] /\ d \in Nat
    BY EngineFacts
<1>4. /\ Head(bells) \in Queues /\ Tail(bells) \in Seq(Queues)
      /\ \A p \in ToSet(bells) : p = Head(bells) \/ p \in ToSet(Tail(bells))
  <2>1. /\ Head(bells) \in Queues /\ Tail(bells) \in Seq(Queues) /\ Head(bells) = bells[1]
        /\ Len(bells) \in Nat /\ Len(bells) >= 1 /\ Len(Tail(bells)) = Len(bells) - 1
        /\ \A i \in 1 .. Len(bells) - 1 : Tail(bells)[i] = bells[i + 1]
      BY <1>1, <1>2
  <2>2. ASSUME NEW i \in DOMAIN bells
        PROVE  bells[i] = Head(bells) \/ bells[i] \in ToSet(Tail(bells))
    <3>1. CASE i = 1
        BY <3>1, <2>1
    <3>2. CASE i # 1
      <4>1. i - 1 \in 1 .. Len(bells) - 1 /\ (i - 1) + 1 = i
          BY <3>2, <2>1, <1>2
      <4>2. i - 1 \in DOMAIN Tail(bells)
          BY <4>1, <2>1
      <4>3. Tail(bells)[i - 1] = bells[i]
          BY <4>1, <2>1
      <4> QED BY <4>2, <4>3 DEF ToSet
    <3> QED BY <3>1, <3>2
  <2> QED BY <2>1, <2>2 DEF ToSet
<1>5. /\ engine' \in [Queues -> Engine] /\ engine'[Head(bells)].awake
      /\ \A q \in Queues : /\ engine'[q].done = engine[q].done /\ engine'[q].hand = engine[q].hand
                           /\ engine'[q].get = engine[q].get
                           /\ engine[q].awake => engine'[q].awake
    BY <1>1, <1>2, <1>4 DEF Engine
<1>6. NoLostDoorbell'
  <2>1. Announced' = Announced
      BY <1>1 DEF Announced
  <2>2. Done' = Done
      BY <1>5 DEF Done
  <2>3. \A n \in 1 .. Announced : log[n] \in Queues
      BY <1>2, <1>3, AnnouncedIn
  <2> QED BY <1>1, <1>2, <1>4, <1>5, <2>1, <2>2, <2>3 DEF NoLostDoorbell
<1>7. \A q \in Queues : EngineOK(q, c[0], d)'
    BY <1>1, <1>3, <1>5, SameEngine DEF Counted
<1>8. d <= d /\ bells' \in Seq(Queues)
    BY <1>1, <1>3, <1>4
<1> QED BY <1>1, <1>2, <1>3, <1>5, <1>6, <1>7, <1>8, EngineSide

\* The engine finds what the host wrote there for its next batch.
LEMMA TakeKeeps ==
    ASSUME DInv, NEW q \in Queues, Take(q)
    PROVE  DInv'
<1>1. /\ engine[q].awake /\ engine[q].hand = NoEntry /\ engine[q].get # gp_put[q]
      /\ engine' = [engine EXCEPT ![q].hand = ring[q][engine[q].get],
                                  ![q].get = (engine[q].get + 1) % Entries]
      /\ UNCHANGED <<hostVars, window, bells, replied, ring, gp_put>> /\ log' = log
      /\ UNCHANGED <<staged, ring_q>>
    BY DEF Take, hostVars
<1>2. TypeOK /\ LogOK /\ NoLostDoorbell /\ bells \in Seq(Queues) /\ engine \in [Queues -> Engine]
    BY DEF DInv, TypeOK
<1>3. PICK c \in [0 .. Len(window) -> 0 .. Len(log)], d \in 0 .. Len(log) :
          /\ Counted(c, d) /\ c[0] \in 0 .. Len(log) /\ d <= c[0]
          /\ d \in Nat /\ Len(log) \in Nat /\ Len(log) - d < Entries
    BY EngineFacts
<1> DEFINE a == c[0]
           S == {i \in d + 1 .. a : log[i] = q}
<1>4. engine[q].get = Cnt(q, d) % Entries /\ gp_put[q] = Cnt(q, a) % Entries /\ a \in Nat
      /\ \A i \in d + 1 .. a : RingHas(i)
    BY <1>1, <1>3 DEF Counted, EngineOK, MemoryOK
<1>5. S # {}
  <2> SUFFICES ASSUME S = {} PROVE FALSE
      OBVIOUS
  <2>1. \A i \in d + 1 .. a : log[i] # q
      OBVIOUS
  <2>2. Cnt(q, a) = Cnt(q, d)
      BY <1>3, <1>4, <2>1, CntBetween DEF Cnt
  <2> QED BY <1>1, <1>4, <2>2
<1>6. PICK h \in S : \A y \in S : h <= y
  <2>1. S \in SUBSET Nat
      BY <1>3, <1>4
  <2> QED BY <1>5, <2>1, LeastExists
<1>7. h \in d + 1 .. a /\ log[h] = q /\ h \in Nat /\ h - 1 \in Nat /\ d <= h - 1
      /\ \A i \in d + 1 .. h - 1 : log[i] # q
    BY <1>3, <1>4, <1>6
<1>8. Cnt(q, h - 1) = Cnt(q, d) /\ Cnt(q, h) = Cnt(q, d) + 1 /\ Cnt(q, d) \in Nat
  <2>1. Cnt(q, h - 1) = Cnt(q, d) /\ Cnt(q, d) \in Nat
      BY <1>3, <1>7, CntBetween DEF Cnt
  <2>2. Cnt(q, (h - 1) + 1) = IF log[(h - 1) + 1] = q THEN Cnt(q, h - 1) + 1 ELSE Cnt(q, h - 1)
      BY <1>7, CntNext, SMTT(60) DEF Cnt
  <2>3. (h - 1) + 1 = h
      BY <1>7
  <2> QED BY <1>7, <2>1, <2>2, <2>3
<1>9. ring[q][engine[q].get] = EntryOf(h)
  <2>1. SlotOf(h) = Cnt(q, d) % Entries
      BY <1>7, <1>8 DEF SlotOf
  <2> QED BY <1>4, <1>7, <2>1 DEF RingHas
<1>10. (engine[q].get + 1) % Entries = Cnt(q, h) % Entries /\ Cnt(q, h) % Entries \in 0 .. Entries - 1
  <2>1. ((Cnt(q, d) % Entries) + 1) % Entries = (Cnt(q, d) + 1) % Entries
      BY <1>8, ModNext
  <2>2. Cnt(q, h) \in Nat
      BY <1>8
  <2>3. Cnt(q, h) % Entries \in 0 .. Entries - 1
      BY <2>2, ModNext
  <2> QED BY <1>4, <1>8, <2>1, <2>3
<1>11. EntryOf(h) \in Entry /\ EntryOf(h) # NoEntry
    BY <1>7 DEF EntryOf, AfterIn, Entry, NoEntry
<1>12. /\ engine' \in [Queues -> Engine]
       /\ engine'[q].hand = EntryOf(h) /\ engine'[q].get = Cnt(q, h) % Entries
       /\ engine'[q].done = engine[q].done
       /\ \A p \in Queues : /\ engine'[p].awake = engine[p].awake /\ engine'[p].done = engine[p].done
                            /\ p # q => engine'[p] = engine[p]
  <2> DEFINE g == Cnt(q, h) % Entries
  <2>1. g \in 0 .. Entries - 1 /\ engine' = [engine EXCEPT ![q].hand = EntryOf(h), ![q].get = g]
      BY <1>1, <1>9, <1>10
  <2> HIDE DEF g
  <2>2. /\ engine' \in [Queues -> Engine]
        /\ engine'[q].hand = EntryOf(h) /\ engine'[q].get = g
        /\ engine'[q].done = engine[q].done
        /\ \A p \in Queues : /\ engine'[p].awake = engine[p].awake /\ engine'[p].done = engine[p].done
                             /\ p # q => engine'[p] = engine[p]
      BY <1>2, <1>11, <2>1 DEF Engine
  <2> QED BY <2>2 DEF g
<1>13. NoLostDoorbell'
  <2>1. Announced' = Announced /\ Done' = Done
      BY <1>1, <1>12 DEF Announced, Done
  <2>2. \A n \in 1 .. Announced : log[n] \in Queues
      BY <1>2, <1>3, AnnouncedIn
  <2> QED BY <1>1, <1>2, <1>12, <2>1, <2>2 DEF NoLostDoorbell
<1>14. ASSUME NEW p \in Queues PROVE EngineOK(p, a, d)'
  <2>1. CASE p = q
    <3>1. engine[q].done = {i \in 1 .. d : log[i] = q}
        BY <1>3 DEF Counted, EngineOK
    <3>2. h \in d + 1 .. a /\ EntryOf(h)' = EntryOf(h) /\ Cnt(q, h)' = Cnt(q, h)
        BY <1>1, <1>7, SameLog
    <3> QED BY <1>1, <1>7, <1>11, <1>12, <2>1, <3>1, <3>2 DEF EngineOK
  <2>2. CASE p # q
      BY <1>1, <1>3, <1>4, <1>12, <2>2, SameEngine DEF Counted
  <2> QED BY <2>1, <2>2
<1>15. \A p \in Queues : EngineOK(p, c[0], d)'
    BY <1>14
<1>16. d <= d /\ bells' \in Seq(Queues)
    BY <1>1, <1>2, <1>3
<1> QED BY <1>1, <1>2, <1>3, <1>12, <1>13, <1>15, <1>16, EngineSide

\* What an engine ends is the next batch of all: what it acquired came before.
LEMMA FinishedIsNext ==
    ASSUME DInv, NEW q \in Queues, Finish(q)
    PROVE  \E c \in [0 .. Len(window) -> 0 .. Len(log)], d \in 0 .. Len(log) :
              /\ Counted(c, d) /\ c[0] \in 0 .. Len(log) /\ d \in Nat /\ d + 1 <= c[0]
              /\ engine[q].hand = EntryOf(d + 1) /\ log[d + 1] = q
              /\ engine[q].get = Cnt(q, d + 1) % Entries
              /\ Done = 1 .. d
<1>1. PICK n \in {0} \union engine[Other(q)].done : engine[q].hand.after <= n
    BY DEF Finish
<1>2. engine[q].hand # NoEntry
    BY DEF Finish
<1>3. PICK c \in [0 .. Len(window) -> 0 .. Len(log)], d \in 0 .. Len(log) :
          /\ Counted(c, d) /\ c[0] \in 0 .. Len(log) /\ d <= c[0]
          /\ d \in Nat /\ Len(log) \in Nat /\ Done = 1 .. d
    BY EngineFacts
<1>4. PICK h \in d + 1 .. c[0] :
          /\ engine[q].hand = EntryOf(h) /\ log[h] = q
          /\ \A i \in d + 1 .. h - 1 : log[i] # q
          /\ engine[q].get = Cnt(q, h) % Entries
    BY <1>2, <1>3 DEF Counted, EngineOK
<1>5. n \in 0 .. d
  <2>1. Other(q) \in Queues
      BY OtherIs
  <2> QED BY <1>3, <2>1 DEF Counted, EngineOK
<1>6. h = d + 1
  <2> SUFFICES ASSUME h # d + 1 PROVE FALSE
      OBVIOUS
  <2>1. h \in Nat /\ h - 1 \in d + 1 .. h - 1 /\ h # 1
      BY <1>3, <1>4
  <2>2. log[h - 1] # log[h]
      BY <1>4, <2>1
  <2>3. engine[q].hand.after = h - 1
      BY <1>4, <2>1, <2>2 DEF EntryOf, AfterIn
  <2> QED BY <1>1, <1>3, <1>5, <2>1, <2>3
<1> QED BY <1>3, <1>4, <1>6

LEMMA FinishKeeps ==
    ASSUME DInv, NEW q \in Queues, Finish(q)
    PROVE  DInv' /\ \E d \in 0 .. Len(log) : Done = 1 .. d /\ d + 1 \in 1 .. Len(log) /\ Done' = 1 .. d + 1
<1>1. /\ engine' = [engine EXCEPT ![q].hand = NoEntry,
                                  ![q].done = engine[q].done \union {engine[q].hand.batch}]
      /\ UNCHANGED <<hostVars, window, bells, replied, ring, gp_put>> /\ log' = log
      /\ UNCHANGED <<staged, ring_q>>
    BY DEF Finish, hostVars
<1>2. TypeOK /\ LogOK /\ NoLostDoorbell /\ bells \in Seq(Queues) /\ engine \in [Queues -> Engine]
    BY DEF DInv, TypeOK
<1>3. PICK c \in [0 .. Len(window) -> 0 .. Len(log)], d \in 0 .. Len(log) :
              /\ Counted(c, d) /\ c[0] \in 0 .. Len(log) /\ d \in Nat /\ d + 1 <= c[0]
              /\ engine[q].hand = EntryOf(d + 1) /\ log[d + 1] = q
              /\ engine[q].get = Cnt(q, d + 1) % Entries
              /\ Done = 1 .. d
    BY FinishedIsNext
<1>4. d + 1 \in 0 .. Len(log) /\ d + 1 \in Nat /\ c[0] \in Nat /\ Len(log) \in Nat
    BY <1>2, <1>3, SMTT(60) DEF TypeOK
<1>5. engine[q].hand.batch = d + 1
    BY <1>3 DEF EntryOf
<1>6. /\ engine' \in [Queues -> Engine]
      /\ engine'[q].hand = NoEntry /\ engine'[q].get = engine[q].get
      /\ engine'[q].done = engine[q].done \union {d + 1}
      /\ \A p \in Queues : /\ engine'[p].awake = engine[p].awake
                           /\ p # q => engine'[p] = engine[p]
  <2> DEFINE e == engine[q].done \union {d + 1}
  <2>1. NoEntry \in Entry
      BY DEF NoEntry, Entry
  <2>2. e \in SUBSET Nat /\ engine' = [engine EXCEPT ![q].hand = NoEntry, ![q].done = e]
      BY <1>1, <1>2, <1>4, <1>5 DEF Engine
  <2> HIDE DEF e
  <2>3. /\ engine' \in [Queues -> Engine]
        /\ engine'[q].hand = NoEntry /\ engine'[q].get = engine[q].get
        /\ engine'[q].done = e
        /\ \A p \in Queues : /\ engine'[p].awake = engine[p].awake
                             /\ p # q => engine'[p] = engine[p]
      BY <1>2, <2>1, <2>2 DEF Engine
  <2> QED BY <2>3 DEF e
<1>7. ASSUME NEW p \in Queues PROVE EngineOK(p, c[0], d + 1)'
  <2>0. EngineOK(p, c[0], d)
      BY <1>3 DEF Counted
  <2>1. CASE p = q
    <3>1. engine'[p].done = {i \in 1 .. d + 1 : log[i] = q}
        BY <1>3, <1>4, <1>6, <2>0, <2>1 DEF EngineOK
    <3>2. Cnt(q, d + 1)' = Cnt(q, d + 1)
        BY <1>1, SameLog
    <3> QED BY <1>1, <1>3, <1>6, <2>1, <3>1, <3>2 DEF EngineOK
  <2>2. CASE p # q
    <3>1. engine'[p] = engine[p] /\ engine[p].done = {i \in 1 .. d + 1 : log[i] = p}
        BY <1>3, <1>4, <1>6, <2>0, <2>2 DEF EngineOK
    <3>2. Cnt(p, d + 1) = Cnt(p, d) /\ Cnt(p, d + 1)' = Cnt(p, d + 1)
        BY <1>1, <1>3, <2>2, CntNext, SameLog DEF Cnt
    <3>3. CASE engine[p].hand = NoEntry
        BY <1>1, <2>0, <3>1, <3>2, <3>3 DEF EngineOK
    <3>4. CASE engine[p].hand # NoEntry
      <4>1. PICK h \in d + 1 .. c[0] :
                /\ engine[p].hand = EntryOf(h) /\ log[h] = p
                /\ \A i \in d + 1 .. h - 1 : log[i] # p
                /\ engine[p].get = Cnt(p, h) % Entries
          BY <2>0, <3>4 DEF EngineOK
      <4>2. h \in (d + 1) + 1 .. c[0]
          BY <1>3, <1>4, <2>2, <4>1
      <4>3. \A i \in (d + 1) + 1 .. h - 1 : log[i] # p
          BY <1>4, <4>1
      <4>4. EntryOf(h)' = EntryOf(h) /\ Cnt(p, h)' = Cnt(p, h)
          BY <1>1, SameLog
      <4> QED BY <1>1, <3>1, <3>4, <4>1, <4>2, <4>3, <4>4 DEF EngineOK
    <3> QED BY <3>3, <3>4
  <2> QED BY <2>1, <2>2
<1>8. Done' = 1 .. d + 1
  <2>1. \A p \in Queues : engine'[p].done = {i \in 1 .. d + 1 : log[i] = p}
      BY <1>1, <1>7 DEF EngineOK
  <2>2. \A i \in 1 .. d + 1 : log[i] \in Queues
    <3>1. \A i \in 1 .. d + 1 : i \in 1 .. Len(log)
        BY <1>3, <1>4
    <3>2. \A i \in 1 .. Len(log) : log[i] \in Queues
        BY <1>2 DEF TypeOK
    <3> QED BY <3>1, <3>2
  <2> QED BY <2>1, <2>2, SMTT(60) DEF Done
<1>9. NoLostDoorbell'
  <2>1. Announced' = Announced
      BY <1>1 DEF Announced
  <2>2. Done \subseteq Done'
      BY <1>3, <1>4, <1>8
  <2>3. \A n \in 1 .. Announced : log[n] \in Queues
      BY <1>2, <1>3, AnnouncedIn
  <2> QED BY <1>1, <1>2, <1>6, <2>1, <2>2, <2>3 DEF NoLostDoorbell
<1>10. DInv'
  <2>1. d <= d + 1 /\ \A p \in Queues : EngineOK(p, c[0], d + 1)'
      BY <1>4, <1>7
  <2> QED BY <1>1, <1>2, <1>3, <1>4, <1>6, <1>9, <2>1, EngineSide
<1>11. d + 1 \in 1 .. Len(log)
    BY <1>3, <1>4
<1> QED BY <1>3, <1>8, <1>10, <1>11

\* An engine goes to sleep only when it has done all that it was told about.
LEMMA SleepKeeps ==
    ASSUME DInv, NEW q \in Queues, Sleep(q)
    PROVE  DInv'
<1>1. /\ engine[q].hand = NoEntry /\ engine[q].get = gp_put[q]
      /\ engine' = [engine EXCEPT ![q].awake = FALSE]
      /\ UNCHANGED <<hostVars, window, bells, replied, ring, gp_put>> /\ log' = log
      /\ UNCHANGED <<staged, ring_q>>
    BY DEF Sleep, hostVars
<1>2. TypeOK /\ LogOK /\ NoLostDoorbell /\ bells \in Seq(Queues) /\ engine \in [Queues -> Engine]
    BY DEF DInv, TypeOK
<1>3. PICK c \in [0 .. Len(window) -> 0 .. Len(log)], d \in 0 .. Len(log) :
          /\ Counted(c, d) /\ c[0] \in 0 .. Len(log) /\ d <= c[0]
          /\ d \in Nat /\ Len(log) \in Nat /\ Len(log) - d < Entries /\ Done = 1 .. d
    BY EngineFacts
<1>4. /\ engine' \in [Queues -> Engine]
      /\ \A p \in Queues : /\ engine'[p].done = engine[p].done /\ engine'[p].hand = engine[p].hand
                           /\ engine'[p].get = engine[p].get
                           /\ p # q => engine'[p].awake = engine[p].awake
    BY <1>1, <1>2 DEF Engine
<1>5. \A i \in d + 1 .. c[0] : log[i] # q
  <2>1. Cnt(q, d) % Entries = Cnt(q, c[0]) % Entries
      BY <1>1, <1>3 DEF Counted, EngineOK, MemoryOK
  <2>2. /\ Cnt(q, d) \in Nat /\ Cnt(q, c[0]) \in Nat /\ Cnt(q, d) <= Cnt(q, c[0])
        /\ Cnt(q, c[0]) <= Cnt(q, d) + (c[0] - d)
        /\ (\E i \in d + 1 .. c[0] : log[i] = q) => Cnt(q, d) < Cnt(q, c[0])
      BY <1>3, CntBetween DEF Cnt
  <2>3. Entries \in Nat
      BY DoorbellAssumption
  <2>4. Cnt(q, c[0]) - Cnt(q, d) < Entries
      BY <1>3, <2>2, <2>3
  <2>5. Cnt(q, d) = Cnt(q, c[0])
      BY <2>1, <2>2, <2>4, ModApart
  <2> QED BY <2>2, <2>5
<1>6. NoLostDoorbell'
  <2>1. Announced' = Announced /\ Done' = Done
      BY <1>1, <1>4 DEF Announced, Done
  <2>2. \A n \in 1 .. Announced : log[n] \in Queues /\ n \in 1 .. c[0]
      BY <1>2, <1>3, AnnouncedIn
  <2>3. \A n \in 1 .. Announced : log[n] = q => n \in Done
      BY <1>3, <1>5, <2>2
  <2> QED BY <1>1, <1>2, <1>4, <2>1, <2>2, <2>3 DEF NoLostDoorbell
<1>7. \A p \in Queues : EngineOK(p, c[0], d)'
    BY <1>1, <1>3, <1>4, SameEngine DEF Counted
<1> QED BY <1>1, <1>2, <1>3, <1>4, <1>6, <1>7, EngineSide, SMTT(60)

-----------------------------------------------------------------------------
\* The host's steps that move work, and the window's.
LEMMA InvFacts ==
    ASSUME DInv
    PROVE  /\ TypeOK /\ LogOK /\ NoLostDoorbell
           /\ \E c \in [0 .. Len(window) -> 0 .. Len(log)], d \in 0 .. Len(log) :
                 /\ Counted(c, d) /\ WindowOK(c) /\ MemoryOK(c[0], d)
                 /\ d <= c[0] /\ Len(log) - d <= CmdRoom
                 /\ \A q \in Queues : EngineOK(q, c[0], d)
BY DEF DInv, Counted

\* The acquire of batch_begin is of the batch before, when the queue changes.
LEMMA AcquireIs ==
    ASSUME TypeOK, LogOK, NEW q \in Queues, log' = Append(log, q)
    PROVE  Acquire(q) = AfterIn(log', Len(log) + 1)
<1>1. /\ Len(log) \in Nat /\ log'[Len(log) + 1] = q
      /\ \A i \in 1 .. Len(log) : log'[i] = log[i]
    BY GrownLog
<1>2. CASE log = <<>>
  <2>1. last_q = "none" /\ Len(log) = 0
      BY <1>2 DEF LogOK
  <2> QED BY <2>1 DEF Acquire, AfterIn
<1>3. CASE log # <<>>
  <2>1. Len(log) \in 1 .. Len(log) /\ last_q = log[Len(log)] /\ last_q \in Queues
      BY <1>1, <1>3 DEF LogOK, TypeOK
  <2>2. last_q # "none"
      BY <2>1 DEF Queues
  <2>3. AfterIn(log', Len(log) + 1) = IF log[Len(log)] = q THEN 0 ELSE Len(log)
      BY <1>1, <2>1 DEF AfterIn
  <2>4. CASE last_q = q
      BY <2>1, <2>3, <2>4 DEF Acquire
  <2>5. CASE last_q # q
    <3>1. last_q = Other(q)
        BY <2>1, <2>5, OtherIs
    <3> DEFINE on == {i \in 1 .. Len(log) : log[i] = Other(q)}
    <3>2. Len(log) \in on /\ \A j \in on : j <= Len(log)
      <4>1. Len(log) \in 1 .. Len(log) /\ log[Len(log)] = Other(q)
          BY <2>1, <3>1
      <4> QED BY <4>1
    <3>3. \A i \in on : (\A j \in on : j <= i) => i = Len(log)
        BY <1>1, <3>2
    <3>4. (CHOOSE i \in on : \A j \in on : j <= i) = Len(log)
        BY <3>2, <3>3
    <3>5. Newest(Other(q)) = Len(log)
        BY <3>2, <3>4 DEF Newest
    <3> QED BY <2>1, <2>2, <2>3, <2>5, <3>5 DEF Acquire
  <2> QED BY <2>4, <2>5
<1> QED BY <1>2, <1>3

LEMMA StageKeeps ==
    ASSUME DInv, NEW q \in Queues, NEW next \in HostState, Stage(q, next)
    PROVE  DInv'
<1>0. PICK N \in Nat, L \in Nat, S \in Nat : N = Len(log) /\ L = Len(window) /\ S = Len(staged)
    BY InvFacts DEF TypeOK
<1> USE <1>0
<1>1. /\ N < BatchMax /\ N - Cardinality(Done) < CmdRoom /\ S < StagedMax
      /\ log' = Append(log, q) /\ last_q' = q /\ window' = stageWrites(q)
      /\ put' = [put EXCEPT ![q] = put[q] + 1] /\ staged' = Append(staged, q)
      /\ host' = next /\ UNCHANGED <<ring_q, bells, replied, ring, gp_put, engine>>
    BY DEF Stage
<1>2. PICK c \in [0 .. L -> 0 .. N], d \in 0 .. N :
          /\ Counted(c, d) /\ WindowOK(c) /\ MemoryOK(c[0], d)
          /\ d <= c[0] /\ N - d <= CmdRoom
          /\ \A p \in Queues : EngineOK(p, c[0], d)
    BY InvFacts
<1>3. TypeOK /\ LogOK /\ NoLostDoorbell
    BY InvFacts
<1>4. /\ N \in Nat /\ L \in Nat /\ S \in Nat /\ Len(ring_q) \in Nat /\ d \in Nat
      /\ c[0] \in Nat /\ c[0] <= N
      /\ \A j \in 0 .. L : c[j] \in Nat /\ c[j] <= N
    BY <1>2, <1>3, CountsTyped
<1>5. /\ Len(log') = N + 1 /\ log'[N + 1] = q
      /\ \A i \in 1 .. N : log'[i] = log[i] /\ log[i] \in Queues
      /\ \A p : \A n \in 0 .. N : Cnt(p, n)' = Cnt(p, n)
      /\ \A i \in 1 .. N : EntryOf(i)' = EntryOf(i) /\ SlotOf(i)' = SlotOf(i)
    BY <1>1, <1>3, GrownLog
<1>6. \A p \in Queues : /\ Cnt(p, N + 1)' = IF p = q THEN Cnt(p, N) + 1 ELSE Cnt(p, N)
                        /\ put[p] = Cnt(p, N) /\ put[p] \in Nat
  <2>1. ASSUME NEW p \in Queues
        PROVE  /\ CntIn(log', p, N) \in Nat
               /\ CntIn(log', p, N + 1) = IF log'[N + 1] = p THEN CntIn(log', p, N) + 1
                                          ELSE CntIn(log', p, N)
    <3>1. PICK lg : lg = log'
        OBVIOUS
    <3>2. CntIn(lg, p, N) \in Nat /\ CntIn(lg, p, N + 1) = IF lg[N + 1] = p THEN CntIn(lg, p, N) + 1
                                                             ELSE CntIn(lg, p, N)
      <4> HIDE <1>0
      <4> QED BY CntNext
    <3> QED BY <3>1, <3>2
  <2>2. ASSUME NEW p \in Queues PROVE put[p] = Cnt(p, N) /\ CntIn(log', p, N) = Cnt(p, N)
      BY <1>3, <1>4, <1>5 DEF LogOK, Cnt
  <2> QED BY <1>5, <2>1, <2>2 DEF Cnt
<1>7. /\ SlotOf(N + 1)' = put[q] % Entries
      /\ EntryOf(N + 1)' = [batch |-> N + 1, after |-> Acquire(q)]
  <2>1. SlotOf(N + 1)' = (Cnt(q, N + 1)' - 1) % Entries
      BY <1>5 DEF SlotOf, Cnt
  <2>2. Cnt(q, N + 1)' - 1 = put[q]
      BY <1>6
  <2> QED BY <1>1, <1>3, <2>1, <2>2, AcquireIs DEF EntryOf
<1>8. EntryWrite(q) \in Posted /\ PutWrite(q) \in Posted
  <2>1. Acquire(q) \in Nat
      BY <1>1, <1>3, <1>4, AcquireIs DEF AfterIn
  <2>2. put[q] % Entries \in 0 .. Entries - 1 /\ (put[q] + 1) % Entries \in 0 .. Entries - 1
    <3>1. put[q] \in Nat /\ put[q] + 1 \in Nat
        BY <1>6
    <3> QED BY <3>1, ModNext
  <2>3. NoEntry \in Entry /\ [batch |-> N + 1, after |-> Acquire(q)] \in Entry
      BY <1>4, <2>1 DEF NoEntry, Entry
  <2> QED BY <2>2, <2>3 DEF EntryWrite, PutWrite, Posted
<1>9. /\ window' \in Seq(Posted) /\ Len(window') = L + 2
      /\ \A j \in 1 .. L : window'[j] = window[j]
      /\ window'[L + 1] = EntryWrite(q) /\ window'[L + 2] = PutWrite(q)
  <2>1. window' = window \o <<EntryWrite(q), PutWrite(q)>>
      BY <1>1 DEF stageWrites
  <2>2. window \in Seq(Posted)
      BY <1>3 DEF TypeOK
  <2> DEFINE e == EntryWrite(q)
             w == PutWrite(q)
  <2>3. e \in Posted /\ w \in Posted
      BY <1>8
  <2> HIDE DEF e, w
  <2>4. LET t == <<e, w>> IN t \in Seq(Posted) /\ Len(t) = 2 /\ t[1] = e /\ t[2] = w
      BY <2>3
  <2>5. /\ window \o <<e, w>> \in Seq(Posted) /\ Len(window \o <<e, w>>) = L + 2
        /\ \A j \in 1 .. L : (window \o <<e, w>>)[j] = window[j]
        /\ (window \o <<e, w>>)[L + 1] = e /\ (window \o <<e, w>>)[L + 2] = w
      BY <1>4, <2>2, <2>4, ConcatProperties
  <2> QED BY <2>1, <2>5 DEF e, w
<1> DEFINE c2 == [j \in 0 .. L + 2 |-> IF j <= L THEN c[j] ELSE IF j = L + 1 THEN N ELSE N + 1]
<1>10. /\ c2 \in [0 .. L + 2 -> 0 .. N + 1]
       /\ \A j \in 0 .. L : c2[j] = c[j]
       /\ c2[L] = N /\ c2[L + 1] = N /\ c2[L + 2] = N + 1 /\ c2[0] = c[0]
  <2>1. c[L] = N
      BY <1>2 DEF WindowOK
  <2> QED BY <1>4, <2>1
<1> HIDE DEF c2
<1>11. staged' \in Seq(Queues) /\ Len(staged') = S + 1
       /\ (\A i \in 1 .. S : staged'[i] = staged[i]) /\ staged'[S + 1] = q
    BY <1>1, <1>3, AppendProperties DEF TypeOK
<1>12. LogOK'
  <2>1. ASSUME NEW i \in 1 .. S + 1 PROVE staged'[i] = log'[(N + 1) - (S + 1) + i]
    <3>1. CASE i = S + 1
        BY <1>4, <1>5, <1>11, <3>1
    <3>2. CASE i # S + 1
      <4>1. i \in 1 .. S /\ N - S + i \in 1 .. N /\ (N + 1) - (S + 1) + i = N - S + i
          BY <1>3, <1>4, <3>2 DEF LogOK
      <4> QED BY <1>3, <1>5, <1>11, <4>1 DEF LogOK
    <3> QED BY <3>1, <3>2
  <2>2. Announced' = Announced
      BY <1>1, <1>4, <1>5, <1>11 DEF Announced
  <2>3. ASSUME NEW i \in 1 .. Len(ring_q) PROVE ring_q[i] = log'[Announced + i]
    <3>1. Announced + i \in 1 .. N
        BY <1>3, <1>4 DEF LogOK, Announced
    <3> QED BY <1>3, <1>5, <3>1 DEF LogOK
  <2>4. \A p \in Queues : put'[p] = Cnt(p, N + 1)'
      BY <1>1, <1>3, <1>6 DEF TypeOK
  <2>5. log' # <<>> /\ last_q' = log'[Len(log')]
    <3>1. Len(log') # 0
        BY <1>4, <1>5
    <3> QED BY <1>1, <1>5, <3>1
  <2>6. Len(staged') + Len(ring_q) <= Len(log')
      BY <1>3, <1>4, <1>5, <1>11 DEF LogOK
  <2> QED BY <1>1, <1>5, <1>11, <2>1, <2>2, <2>3, <2>4, <2>5, <2>6, ZenonT(60) DEF LogOK
<1>13. TypeOK'
  <2>1. log' \in Seq(Queues) /\ N + 1 <= BatchMax
      BY <1>1, <1>3, <1>4, DoorbellAssumption, AppendProperties DEF TypeOK
  <2>2. put' \in [Queues -> 0 .. BatchMax]
    <3>1. Cnt(q, N) <= N
      <4>1. 0 \in Nat /\ 0 <= N
          BY <1>4
      <4>2. CntIn(log, q, N) <= CntIn(log, q, 0) + (N - 0)
          BY <1>4, <4>1, CntBetween
      <4>3. CntIn(log, q, 0) = 0
        <5>1. {i \in 1 .. 0 : log[i] = q} = {}
            OBVIOUS
        <5> QED BY <5>1, FS_EmptySet DEF CntIn
      <4> QED BY <1>4, <4>2, <4>3 DEF Cnt
    <3>2. put[q] + 1 \in 0 .. BatchMax
        BY <1>4, <1>6, <2>1, <3>1, DoorbellAssumption, SMTT(60)
    <3> QED BY <1>1, <1>3, <3>2 DEF TypeOK
  <2>3. S + 1 <= StagedMax
      BY <1>1, <1>4, DoorbellAssumption
  <2> QED BY <1>1, <1>3, <1>5, <1>9, <1>11, <2>1, <2>2, <2>3 DEF TypeOK
<1>14. WindowOK(c2)'
  <2>1. EntryAt(c2, L + 1)'
    <3>1. c2[L + 1] = c2[(L + 1) - 1] /\ c2[L + 1] < N + 1
        BY <1>4, <1>10
    <3> QED BY <1>4, <1>5, <1>7, <1>9, <1>10, <3>1 DEF EntryAt, EntryWrite, PutWrite
  <2>2. PutAt(c2, L + 2)'
    <3>1. c2[L + 2] = c2[(L + 2) - 1] + 1
        BY <1>4, <1>10
    <3>2. CntIn(log', log'[N + 1], N + 1) = put[q] + 1
        BY <1>5, <1>6 DEF Cnt
    <3>3. window'[(L + 2) - 1] = EntryWrite(q)
        BY <1>4, <1>9
    <3>4. (PutAt(c2, L + 2))' <=>
            /\ c2[L + 2] = c2[(L + 2) - 1] + 1
            /\ window'[L + 2].queue = log'[c2[L + 2]]
            /\ window'[L + 2].at = CntIn(log', log'[c2[L + 2]], c2[L + 2]) % Entries
            /\ L + 2 > 1 => window'[(L + 2) - 1].kind = "entry"
        BY DEF PutAt, Cnt
    <3> QED BY <1>5, <1>9, <1>10, <3>1, <3>2, <3>3, <3>4 DEF PutWrite, EntryWrite
  <2>3. ASSUME NEW j \in 1 .. L
        PROVE  /\ window'[j].kind = "entry" => EntryAt(c2, j)'
               /\ window'[j].kind = "put" => PutAt(c2, j)'
               /\ window'[j].kind = "read" => ReadAt(c2, j)'
    <3>1. /\ window'[j] = window[j] /\ c2[j] = c[j] /\ c2[j - 1] = c[j - 1]
          /\ c[j] \in Nat /\ c[j] <= N /\ c[j - 1] \in Nat /\ c[j - 1] <= N
      <4>1. j \in 0 .. L /\ j - 1 \in 0 .. L
          BY <1>4
      <4> QED BY <1>4, <1>9, <1>10, <4>1
    <3>2. CASE window[j].kind = "entry"
      <4>1. EntryAt(c, j)
          BY <1>2, <3>2 DEF WindowOK
      <4>2. c[j] + 1 \in 1 .. N /\ j + 1 \in 1 .. L
          BY <1>4, <3>1, <4>1 DEF EntryAt
      <4>3. window'[j + 1] = window[j + 1] /\ log'[c[j] + 1] = log[c[j] + 1]
            /\ EntryOf(c[j] + 1)' = EntryOf(c[j] + 1) /\ SlotOf(c[j] + 1)' = SlotOf(c[j] + 1)
          BY <1>5, <1>9, <4>2
      <4>4. c[j] < N + 1 /\ j < L + 2
          BY <1>4, <3>1
      <4>5. EntryAt(c2, j)'
          BY <1>5, <1>9, <3>1, <4>1, <4>3, <4>4 DEF EntryAt
      <4> QED BY <3>1, <3>2, <4>5
    <3>3. CASE window[j].kind = "put"
      <4>1. PutAt(c, j)
          BY <1>2, <3>3 DEF WindowOK
      <4>2. c[j] \in 1 .. N /\ (j > 1 => j - 1 \in 1 .. L)
          BY <1>4, <3>1, <4>1, SMTT(60) DEF PutAt
      <4>3. /\ log'[c[j]] = log[c[j]] /\ (j > 1 => window'[j - 1] = window[j - 1])
            /\ CntIn(log', log[c[j]], c[j]) = CntIn(log, log[c[j]], c[j])
        <5>1. c[j] \in 0 .. N
            BY <4>2
        <5> QED BY <1>5, <1>9, <4>2, <5>1 DEF Cnt
      <4>5. (PutAt(c2, j))' <=>
              /\ c2[j] = c2[j - 1] + 1
              /\ window'[j].queue = log'[c2[j]]
              /\ window'[j].at = CntIn(log', log'[c2[j]], c2[j]) % Entries
              /\ j > 1 => window'[j - 1].kind = "entry"
          BY DEF PutAt, Cnt
      <4>6. PutAt(c2, j)'
          BY <3>1, <4>1, <4>3, <4>5 DEF PutAt, Cnt
      <4> QED BY <3>1, <3>3, <4>6
    <3>4. CASE window[j].kind = "read"
      <4>1. ReadAt(c, j)
          BY <1>2, <3>4 DEF WindowOK
      <4>2. \A i \in 1 .. L + 2 : window'[i].kind = "read" => i = j
        <5>1. \A i \in 1 .. L + 2 : i \in 1 .. L \/ i = L + 1 \/ i = L + 2
            BY SMTT(60)
        <5>2. \A i \in 1 .. L : window[i].kind = "read" => i = j
            BY <4>1 DEF ReadAt
        <5>3. window'[L + 1].kind # "read" /\ window'[L + 2].kind # "read"
            BY <1>9 DEF EntryWrite, PutWrite
        <5> QED BY <1>9, <5>1, <5>2, <5>3
      <4>3. (N + 1) - (S + 1) = N - S
          BY <1>4
      <4>4. ReadAt(c2, j)'
          BY <1>1, <1>5, <1>9, <1>11, <3>1, <4>1, <4>2, <4>3 DEF ReadAt
      <4> QED BY <3>1, <3>4, <4>4
    <3> QED BY <3>1, <3>2, <3>3, <3>4
  <2>4. \A j \in 1 .. L + 2 : j \in 1 .. L \/ j = L + 1 \/ j = L + 2
      BY <1>4
  <2>5. window'[L + 1].kind = "entry" /\ window'[L + 2].kind = "put"
      BY <1>9 DEF EntryWrite, PutWrite
  <2> QED BY <1>5, <1>9, <1>10, <2>1, <2>2, <2>3, <2>4, <2>5 DEF WindowOK
<1>15. MemoryOK(c2[0], d)'
  <2>1. \A p \in Queues : Cnt(p, c[0])' = Cnt(p, c[0])
      BY <1>4, <1>5
  <2>2. \A i \in 1 .. N : RingHas(i) => RingHas(i)'
      BY <1>1, <1>5 DEF RingHas
  <2>3. \A i \in d + 1 .. c[0] : i \in 1 .. N
      BY <1>4
  <2>4. (window' # <<>> /\ window'[1].kind = "put") => RingHas(c[0] + 1)'
    <3>1. CASE L = 0
        BY <1>9, <3>1 DEF EntryWrite
    <3>2. CASE L # 0
      <4>1. 1 \in 1 .. L /\ window'[1] = window[1] /\ window # <<>>
          BY <1>3, <1>4, <1>9, <3>2 DEF TypeOK
      <4>2. SUFFICES ASSUME window[1].kind = "put" PROVE RingHas(c[0] + 1)'
          BY <4>1
      <4>3. c[1] = c[1 - 1] + 1
          BY <1>2, <4>1, <4>2 DEF WindowOK, PutAt
      <4>4. c[0] + 1 \in 1 .. N
        <5>1. c[1] = c[0] + 1 /\ c[1] <= N
            BY <1>4, <4>1, <4>3
        <5> QED BY <1>4, <5>1
      <4>5. RingHas(c[0] + 1)
          BY <1>2, <4>1, <4>2 DEF MemoryOK
      <4> QED BY <2>2, <4>4, <4>5
    <3> QED BY <3>1, <3>2
  <2>5. Announced' = Announced /\ Len(log') - Len(staged') = N - S
      BY <1>1, <1>4, <1>5, <1>11 DEF Announced
  <2>6. \A p \in Queues : gp_put[p] = Cnt(p, c[0]) % Entries
      BY <1>2 DEF MemoryOK
  <2>7. (\A i \in d + 1 .. c[0] : RingHas(i)) /\ Announced <= c[0]
        /\ ((ring_q # <<>> /\ replied) => N - S <= c[0])
      BY <1>2 DEF MemoryOK
  <2>8. (\A i \in d + 1 .. c[0] : RingHas(i)')
      BY <2>2, <2>3, <2>7
  <2> QED BY <1>1, <1>10, <2>1, <2>4, <2>5, <2>6, <2>7, <2>8 DEF MemoryOK
<1>16. ASSUME NEW p \in Queues PROVE EngineOK(p, c2[0], d)'
  <2>1. EngineOK(p, c[0], d)
      BY <1>2
  <2>2. {i \in 1 .. d : log'[i] = p} = {i \in 1 .. d : log[i] = p} /\ Cnt(p, d)' = Cnt(p, d)
      BY <1>4, <1>5
  <2>3. ASSUME NEW h \in d + 1 .. c[0],
               engine[p].hand = EntryOf(h), log[h] = p,
               \A i \in d + 1 .. h - 1 : log[i] # p,
               engine[p].get = Cnt(p, h) % Entries
        PROVE  /\ engine[p].hand = EntryOf(h)' /\ log'[h] = p
               /\ \A i \in d + 1 .. h - 1 : log'[i] # p
               /\ engine[p].get = Cnt(p, h)' % Entries
    <3>1. h \in 1 .. N /\ h \in 0 .. N /\ \A i \in d + 1 .. h - 1 : i \in 1 .. N
        BY <1>4
    <3> QED BY <1>5, <2>3, <3>1
  <2> QED BY <1>1, <1>10, <2>1, <2>2, <2>3 DEF EngineOK
<1>17. (N + 1) - d <= CmdRoom /\ d \in 0 .. N + 1
  <2>1. Cardinality(Done) = d
      BY <1>2, <1>3, DoneIs
  <2> QED BY <1>1, <1>4, <2>1, DoorbellAssumption
<1>18. NoLostDoorbell'
  <2>1. Announced' = Announced /\ Done' = Done
      BY <1>1, <1>4, <1>5, <1>11 DEF Announced, Done
  <2>2. \A n \in 1 .. Announced : log'[n] = log[n]
    <3>1. c[0] \in 0 .. Len(log)
        BY <1>4
    <3>2. \A n \in 1 .. Announced : n \in 1 .. N
        BY <1>2, <1>3, <1>4, <3>1, AnnouncedIn
    <3> QED BY <1>5, <3>2
  <2> QED BY <1>1, <1>3, <2>1, <2>2 DEF NoLostDoorbell
<1>19. Counted(c2, d)'
    BY <1>2, <1>5, <1>10, <1>14, <1>15, <1>16, <1>17 DEF Counted
<1> QED BY <1>5, <1>9, <1>10, <1>12, <1>13, <1>17, <1>18, <1>19 DEF DInv

LEMMA SendFenceKeeps ==
    ASSUME DInv, SendFence
    PROVE  DInv'
<1>0. PICK N \in Nat, L \in Nat, S \in Nat : N = Len(log) /\ L = Len(window) /\ S = Len(staged)
    BY InvFacts DEF TypeOK
<1>1. /\ host.step = "send" /\ staged # <<>> /\ ring_q = <<>>
      /\ window' = Append(window, Fence) /\ ~ replied' /\ replied' \in BOOLEAN
      /\ ring_q' = staged /\ staged' = <<>>
      /\ host' = [host EXCEPT !.step = IF host.whole THEN "complete" ELSE host.then]
      /\ UNCHANGED <<log, last_q, put, bells, ring, gp_put, engine>>
    BY DEF SendFence
<1>2. PICK c \in [0 .. L -> 0 .. N], d \in 0 .. N :
          /\ Counted(c, d) /\ WindowOK(c) /\ MemoryOK(c[0], d)
          /\ d <= c[0] /\ N - d <= CmdRoom
          /\ \A p \in Queues : EngineOK(p, c[0], d)
    BY <1>0, InvFacts
<1>3. TypeOK /\ LogOK /\ NoLostDoorbell
    BY InvFacts
<1>4. /\ d \in Nat /\ c[0] \in Nat /\ c[0] <= N
      /\ \A j \in 0 .. L : c[j] \in Nat /\ c[j] <= N
    BY <1>0, <1>2, <1>3, CountsTyped
<1>5. Len(ring_q) = 0 /\ Len(staged') = 0 /\ S # 0 /\ Announced' = Announced /\ Announced = N - S
    BY <1>0, <1>1, <1>3 DEF TypeOK, Announced
<1>6. /\ window' \in Seq(Posted) /\ Len(window') = L + 1
      /\ \A j \in 1 .. L : window'[j] = window[j]
      /\ window'[L + 1] = Fence /\ Fence.kind = "read"
  <2>1. Last(staged) \in Queues
      BY <1>0, <1>3, <1>5 DEF TypeOK, Last
  <2>2. 0 \in 0 .. Entries - 1 /\ NoEntry \in Entry
      BY DoorbellAssumption DEF NoEntry, Entry
  <2>3. Fence \in Posted /\ Fence.kind = "read"
      BY <2>1, <2>2 DEF Fence, Posted
  <2> QED BY <1>0, <1>1, <1>3, <2>3, AppendProperties DEF TypeOK
<1>7. TypeOK'
  <2>1. host' \in HostState
      BY <1>1, <1>3 DEF TypeOK, HostState
  <2>2. <<>> \in Seq(Queues) /\ 0 <= StagedMax
      BY DoorbellAssumption
  <2> QED BY <1>0, <1>1, <1>3, <1>5, <1>6, <2>1, <2>2 DEF TypeOK
<1>8. LogOK'
  <2>1. \A i \in 1 .. S : staged[i] = log[N - S + i]
      BY <1>0, <1>3 DEF LogOK
  <2>2. S <= N
      BY <1>0, <1>3, <1>5 DEF LogOK
  <2>3. last_q = (IF log = <<>> THEN "none" ELSE log[Len(log)]) /\ \A q \in Queues : put[q] = Cnt(q, Len(log))
      BY <1>3 DEF LogOK
  <2>4. \A q \in Queues : put'[q] = Cnt(q, Len(log))'
      BY <1>1, <2>3, SameLog DEF Cnt
  <2> QED BY <1>0, <1>1, <1>5, <2>1, <2>2, <2>3, <2>4 DEF LogOK
<1>9. \A j \in 1 .. L : window[j].kind # "read"
    BY <1>0, <1>1, <1>2 DEF WindowOK, ReadAt
<1> DEFINE c2 == [j \in 0 .. L + 1 |-> IF j <= L THEN c[j] ELSE N]
<1>10. /\ c2 \in [0 .. L + 1 -> 0 .. N]
       /\ \A j \in 0 .. L : c2[j] = c[j]
       /\ c2[L] = N /\ c2[L + 1] = N /\ c2[0] = c[0]
  <2>1. c[L] = N
      BY <1>0, <1>2 DEF WindowOK
  <2> QED BY <1>0, <1>4, <2>1
<1> HIDE DEF c2
<1>11. WindowOK(c2)'
  <2>1. ReadAt(c2, L + 1)'
    <3>1. \A i \in 1 .. L + 1 : window'[i].kind = "read" => i = L + 1
      <4>1. \A i \in 1 .. L + 1 : i \in 1 .. L \/ i = L + 1
          OBVIOUS
      <4> QED BY <1>6, <1>9, <4>1
    <3>2. (L + 1) - 1 = L /\ N - 0 = N
        OBVIOUS
    <3> QED BY <1>0, <1>1, <1>5, <1>6, <1>10, <3>1, <3>2 DEF ReadAt
  <2>2. ASSUME NEW j \in 1 .. L
        PROVE  /\ window'[j].kind = "entry" => EntryAt(c2, j)'
               /\ window'[j].kind = "put" => PutAt(c2, j)'
               /\ window'[j].kind # "read"
    <3>1. window'[j] = window[j] /\ c2[j] = c[j] /\ c2[j - 1] = c[j - 1]
      <4>1. j \in 0 .. L /\ j - 1 \in 0 .. L
          OBVIOUS
      <4> QED BY <1>6, <1>10, <4>1
    <3>2. CASE window[j].kind = "entry"
      <4>1. EntryAt(c, j)
          BY <1>0, <1>2, <3>2 DEF WindowOK
      <4>2. j + 1 \in 1 .. L
          BY <1>0, <4>1 DEF EntryAt
      <4>3. window'[j + 1] = window[j + 1] /\ j < L + 1
          BY <1>6, <4>2
      <4>4. EntryAt(c2, j)'
          BY <1>1, <1>6, <3>1, <4>1, <4>3, SameLog DEF EntryAt
      <4> QED BY <3>1, <3>2, <4>4
    <3>3. CASE window[j].kind = "put"
      <4>1. PutAt(c, j)
          BY <1>0, <1>2, <3>3 DEF WindowOK
      <4>2. j > 1 => window'[j - 1] = window[j - 1]
        <5>1. j > 1 => j - 1 \in 1 .. L
            OBVIOUS
        <5> QED BY <1>6, <5>1
      <4>3. PutAt(c2, j)'
          BY <1>1, <3>1, <4>1, <4>2 DEF PutAt, Cnt
      <4> QED BY <3>1, <3>3, <4>3
    <3> QED BY <1>9, <3>1, <3>2, <3>3
  <2>3. \A j \in 1 .. L + 1 : j \in 1 .. L \/ j = L + 1
      OBVIOUS
  <2> QED BY <1>0, <1>1, <1>6, <1>10, <2>1, <2>2, <2>3 DEF WindowOK
<1>12. MemoryOK(c2[0], d)'
  <2>1. \A i : RingHas(i)' = RingHas(i)
      BY <1>1, SameLog DEF RingHas
  <2>2. window'[1].kind = "put" => (window # <<>> /\ window[1].kind = "put")
    <3>1. CASE L = 0
        BY <1>6, <3>1
    <3>2. CASE L # 0
        BY <1>0, <1>6, <3>2
    <3> QED BY <3>1, <3>2
  <2>3. \A q \in Queues : gp_put'[q] = Cnt(q, c[0])' % Entries
      BY <1>1, <1>2, SameLog DEF MemoryOK
  <2> QED BY <1>1, <1>2, <1>5, <1>10, <2>1, <2>2, <2>3 DEF MemoryOK
<1>13. \A p \in Queues : EngineOK(p, c2[0], d)'
  <2>1. \A p \in Queues : EngineOK(p, c[0], d)'
      BY <1>1, <1>2, <1>4, SameEngine
  <2> QED BY <1>10, <2>1
<1>14. NoLostDoorbell'
    BY <1>1, <1>3, <1>5 DEF NoLostDoorbell, Done
<1>15. Counted(c2, d)'
    BY <1>0, <1>1, <1>2, <1>10, <1>11, <1>12, <1>13 DEF Counted
<1> QED BY <1>0, <1>1, <1>6, <1>7, <1>8, <1>10, <1>14, <1>15 DEF DInv

\* One doorbell is rung for every queue with a batch in what is announced.
LEMMA FirstsIs ==
    ASSUME TypeOK, ring_q # <<>>
    PROVE  /\ Firsts \in Seq(Queues)
           /\ \A i \in 1 .. Len(ring_q) : ring_q[i] \in ToSet(Firsts)
<1>1. /\ Head(ring_q) \in Queues /\ \A i \in 1 .. Len(ring_q) : ring_q[i] \in Queues
      /\ DOMAIN ring_q = 1 .. Len(ring_q)
    BY DEF TypeOK
<1>2. PICK p \in Queues : p = Head(ring_q)
    BY <1>1
<1>3. PICK o \in Queues : o = Other(p) /\ Queues = {p, o}
    BY OtherIs
<1>4. Firsts = IF o \in ToSet(ring_q) THEN <<p, o>> ELSE <<p>>
    BY <1>2, <1>3 DEF Firsts
<1>5. \A i \in 1 .. Len(ring_q) : ring_q[i] = p \/ (ring_q[i] = o /\ o \in ToSet(ring_q))
    BY <1>1, <1>3 DEF ToSet
<1>6. CASE o \in ToSet(ring_q)
  <2>1. Firsts = <<p, o>>
      BY <1>4, <1>6
  <2>2. DOMAIN Firsts = {1, 2} /\ Firsts[1] = p /\ Firsts[2] = o
      BY <2>1
  <2>3. p \in ToSet(Firsts) /\ o \in ToSet(Firsts)
      BY <2>2 DEF ToSet
  <2> QED BY <1>5, <2>1, <2>3
<1>7. CASE o \notin ToSet(ring_q)
  <2>1. Firsts = <<p>>
      BY <1>4, <1>7
  <2>2. DOMAIN Firsts = {1} /\ Firsts[1] = p
      BY <2>1
  <2>3. p \in ToSet(Firsts)
      BY <2>2 DEF ToSet
  <2> QED BY <1>5, <1>7, <2>1, <2>3
<1> QED BY <1>6, <1>7

LEMMA RingKeeps ==
    ASSUME DInv, NEW next \in {"run", "send", "pay", "complete", "wait"}, Ring(next)
    PROVE  DInv'
<1>0. PICK N \in Nat, L \in Nat, S \in Nat, R \in Nat :
          N = Len(log) /\ L = Len(window) /\ S = Len(staged) /\ R = Len(ring_q)
    BY InvFacts DEF TypeOK
<1>1. /\ ring_q # <<>> /\ replied /\ bells' = bells \o Firsts /\ ring_q' = <<>>
      /\ host' = [host EXCEPT !.step = next]
      /\ UNCHANGED <<log, last_q, put, staged, window, replied, ring, gp_put, engine>>
    BY DEF Ring, answered
<1>2. PICK c \in [0 .. L -> 0 .. N], d \in 0 .. N :
          /\ Counted(c, d) /\ WindowOK(c) /\ MemoryOK(c[0], d)
          /\ d <= c[0] /\ N - d <= CmdRoom
          /\ \A p \in Queues : EngineOK(p, c[0], d)
    BY <1>0, InvFacts
<1>3. TypeOK /\ LogOK /\ NoLostDoorbell
    BY InvFacts
<1>4. d \in Nat /\ c[0] \in Nat /\ c[0] <= N
    BY <1>0, <1>2, <1>3, CountsTyped
<1>5. Announced = N - S - R /\ Announced' = N - S /\ S + R <= N
    BY <1>0, <1>1, <1>3 DEF Announced, LogOK
<1>6. Firsts \in Seq(Queues) /\ \A i \in 1 .. R : ring_q[i] \in ToSet(Firsts)
    BY <1>0, <1>1, <1>3, FirstsIs
<1>7. /\ bells' \in Seq(Queues)
      /\ \A q : (q \in ToSet(bells) \/ q \in ToSet(Firsts)) => q \in ToSet(bells')
  <2>1. PICK f \in Seq(Queues), b \in Seq(Queues) : f = Firsts /\ b = bells
      BY <1>3, <1>6 DEF TypeOK
  <2>2. /\ b \o f \in Seq(Queues) /\ Len(b \o f) = Len(b) + Len(f)
        /\ \A i \in 1 .. Len(b) + Len(f) : (b \o f)[i] = IF i <= Len(b) THEN b[i] ELSE f[i - Len(b)]
      BY ConcatProperties
  <2>3. Len(b) \in Nat /\ Len(f) \in Nat /\ DOMAIN b = 1 .. Len(b) /\ DOMAIN f = 1 .. Len(f)
        /\ DOMAIN (b \o f) = 1 .. Len(b) + Len(f)
      BY <2>2
  <2>4. ASSUME NEW i \in 1 .. Len(b) PROVE b[i] \in ToSet(b \o f)
    <3>1. i \in 1 .. Len(b) + Len(f) /\ (b \o f)[i] = b[i]
        BY <2>2, <2>3
    <3> QED BY <2>3, <3>1 DEF ToSet
  <2>5. ASSUME NEW i \in 1 .. Len(f) PROVE f[i] \in ToSet(b \o f)
    <3>1. Len(b) + i \in 1 .. Len(b) + Len(f) /\ ~ (Len(b) + i <= Len(b)) /\ (Len(b) + i) - Len(b) = i
        BY <2>3
    <3>2. (b \o f)[Len(b) + i] = f[i]
        BY <2>2, <3>1
    <3> QED BY <2>3, <3>1, <3>2 DEF ToSet
  <2>6. (\A q \in ToSet(b) : q \in ToSet(b \o f)) /\ (\A q \in ToSet(f) : q \in ToSet(b \o f))
      BY <2>3, <2>4, <2>5 DEF ToSet
  <2> QED BY <1>1, <2>1, <2>2, <2>6
<1>8. TypeOK'
  <2>1. host' \in HostState
      BY <1>1, <1>3 DEF TypeOK, HostState
  <2>2. <<>> \in Seq(Queues) /\ Len(<<>>) = 0 /\ 0 <= StagedMax
      BY DoorbellAssumption
  <2> QED BY <1>1, <1>3, <1>7, <2>1, <2>2 DEF TypeOK
<1>9. LogOK'
  <2>1. last_q = (IF log = <<>> THEN "none" ELSE log[Len(log)]) /\ \A q \in Queues : put[q] = Cnt(q, Len(log))
      BY <1>3 DEF LogOK
  <2>2. \A q \in Queues : put'[q] = Cnt(q, Len(log))'
      BY <1>1, <2>1, SameLog DEF Cnt
  <2>3. \A i \in 1 .. S : staged[i] = log[N - S + i]
      BY <1>0, <1>3 DEF LogOK
  <2>4. Len(ring_q') = 0 /\ S + 0 <= N
      BY <1>1, <1>5
  <2> QED BY <1>0, <1>1, <2>1, <2>2, <2>3, <2>4 DEF LogOK
<1>10. \A j \in 1 .. L : window[j].kind # "read"
    BY <1>0, <1>1, <1>2 DEF WindowOK, ReadAt
<1>11. WindowOK(c)'
    BY <1>0, <1>1, <1>2, <1>10, SameLog DEF WindowOK, EntryAt, PutAt, Cnt
<1>12. MemoryOK(c[0], d)'
  <2>1. \A i : RingHas(i)' = RingHas(i)
      BY <1>1, SameLog DEF RingHas
  <2>2. N - S <= c[0]
      BY <1>0, <1>1, <1>2 DEF MemoryOK
  <2>3. \A q \in Queues : gp_put'[q] = Cnt(q, c[0])' % Entries
      BY <1>1, <1>2, SameLog DEF MemoryOK
  <2> QED BY <1>0, <1>1, <1>2, <1>5, <2>1, <2>2, <2>3 DEF MemoryOK
<1>13. \A p \in Queues : EngineOK(p, c[0], d)'
    BY <1>1, <1>2, <1>4, SameEngine
<1>14. NoLostDoorbell'
  <2>1. ASSUME NEW n \in 1 .. Announced'
        PROVE  n \in Done \/ engine[log[n]].awake \/ log[n] \in ToSet(bells')
    <3>1. CASE n \in 1 .. Announced
        BY <1>3, <1>7, <3>1 DEF NoLostDoorbell
    <3>2. CASE n \notin 1 .. Announced
      <4>1. PICK i \in 1 .. R : n = Announced + i
        <5>1. n - Announced \in 1 .. R /\ n = Announced + (n - Announced)
            BY <1>5, <3>2
        <5> QED BY <5>1
      <4>2. ring_q[i] = log[n]
          BY <1>0, <1>3, <4>1 DEF LogOK
      <4> QED BY <1>6, <1>7, <4>2
    <3> QED BY <3>1, <3>2
  <2>2. Done' = Done
      BY <1>1 DEF Done
  <2> QED BY <1>1, <2>1, <2>2 DEF NoLostDoorbell
<1>15. Counted(c, d)'
    BY <1>0, <1>1, <1>2, <1>11, <1>12, <1>13 DEF Counted
<1> QED BY <1>0, <1>1, <1>8, <1>9, <1>14, <1>15 DEF DInv

\* A write of the window reaches video memory: c[0] becomes c[1].
LEMMA ArriveKeeps ==
    ASSUME DInv, Arrive
    PROVE  DInv'
<1>0. PICK N \in Nat, L \in Nat, S \in Nat : N = Len(log) /\ L = Len(window) /\ S = Len(staged)
    BY InvFacts DEF TypeOK
<1>1. PICK m \in Posted :
        /\ m = window[1] /\ window # <<>> /\ window' = Tail(window)
        /\ ring' = (IF m.kind = "entry" THEN [ring EXCEPT ![m.queue][m.at] = m.entry] ELSE ring)
        /\ gp_put' = (IF m.kind = "put" THEN [gp_put EXCEPT ![m.queue] = m.at] ELSE gp_put)
        /\ replied' = (replied \/ m.kind = "read")
        /\ UNCHANGED <<log, last_q, put, staged, ring_q, host, bells, engine>>
  <2>1. window # <<>> /\ window \in Seq(Posted)
      BY InvFacts DEF Arrive, TypeOK
  <2>2. window[1] \in Posted /\ Head(window) = window[1]
      BY <2>1
  <2> QED BY <2>1, <2>2 DEF Arrive, hostVars
<1>2. PICK c \in [0 .. L -> 0 .. N], d \in 0 .. N :
          /\ Counted(c, d) /\ WindowOK(c) /\ MemoryOK(c[0], d)
          /\ d <= c[0] /\ N - d <= CmdRoom
          /\ \A p \in Queues : EngineOK(p, c[0], d)
    BY <1>0, InvFacts
<1>3. TypeOK /\ LogOK /\ NoLostDoorbell
    BY InvFacts
<1>4. /\ d \in Nat /\ c[0] \in Nat /\ c[0] <= N
      /\ \A j \in 0 .. L : c[j] \in Nat /\ c[j] <= N
      /\ \A i \in 1 .. N : log[i] \in Queues
    BY <1>0, <1>2, <1>3, CountsTyped
<1>5. /\ L # 0 /\ window' \in Seq(Posted) /\ Len(window') = L - 1 /\ L - 1 \in Nat
      /\ \A j \in 1 .. L - 1 : window'[j] = window[j + 1]
  <2>1. window \in Seq(Posted) /\ window # <<>>
      BY <1>1, <1>3 DEF TypeOK
  <2> QED BY <1>0, <1>1, <2>1
<1>6. m.kind \in {"entry", "put", "read"} /\ m.queue \in Queues /\ m.at \in 0 .. Entries - 1 /\ m.entry \in Entry
    BY <1>1 DEF Posted
<1>7. /\ m.kind = "entry" => EntryAt(c, 1)
      /\ m.kind = "put" => PutAt(c, 1)
      /\ m.kind = "read" => ReadAt(c, 1)
  <2>1. 1 \in 1 .. L
      BY <1>5
  <2> QED BY <1>0, <1>1, <1>2, <2>1 DEF WindowOK
<1>8. TypeOK'
  <2>1. ring' \in [Queues -> [0 .. Entries - 1 -> Entry]]
      BY <1>1, <1>3, <1>6 DEF TypeOK
  <2>2. gp_put' \in [Queues -> 0 .. Entries - 1] /\ replied' \in BOOLEAN
    <3>1. gp_put' \in [Queues -> 0 .. Entries - 1]
        BY <1>1, <1>3, <1>6 DEF TypeOK
    <3>2. replied' \in BOOLEAN
        BY <1>1
    <3> QED BY <3>1, <3>2
  <2> QED BY <1>1, <1>3, <1>5, <2>1, <2>2 DEF TypeOK
<1>9. LogOK' /\ NoLostDoorbell'
  <2>1. LogOK'
      BY <1>1, <1>3, SameLogOK
  <2>2. NoLostDoorbell'
      BY <1>1, <1>3 DEF NoLostDoorbell, Announced, Done
  <2> QED BY <2>1, <2>2
<1> DEFINE c2 == [j \in 0 .. L - 1 |-> c[j + 1]]
<1>10. /\ c2 \in [0 .. L - 1 -> 0 .. N]
       /\ \A j \in 0 .. L - 1 : c2[j] = c[j + 1]
       /\ c2[0] = c[1] /\ c2[L - 1] = N /\ c[1] \in Nat /\ c[1] <= N
  <2>1. c[L] = N
      BY <1>0, <1>2 DEF WindowOK
  <2>2. \A j \in 0 .. L - 1 : j + 1 \in 0 .. L
      BY <1>5
  <2>3. 0 \in 0 .. L - 1 /\ L - 1 \in 0 .. L - 1 /\ 0 + 1 = 1 /\ (L - 1) + 1 = L /\ 1 \in 0 .. L
      BY <1>5
  <2>4. c2 \in [0 .. L - 1 -> 0 .. N] /\ \A j \in 0 .. L - 1 : c2[j] = c[j + 1]
      BY <1>2, <2>2
  <2> HIDE DEF c2
  <2> QED BY <1>4, <2>1, <2>3, <2>4
<1> HIDE DEF c2
<1>11. WindowOK(c2)'
  <2>1. ASSUME NEW j \in 1 .. L - 1
        PROVE  /\ window'[j].kind = "entry" => EntryAt(c2, j)'
               /\ window'[j].kind = "put" => PutAt(c2, j)'
               /\ window'[j].kind = "read" => ReadAt(c2, j)'
    <3>1. /\ window'[j] = window[j + 1] /\ c2[j] = c[j + 1] /\ c2[j - 1] = c[j] /\ j + 1 \in 1 .. L
          /\ c[j + 1] \in Nat /\ c[j] \in Nat /\ (j + 1) - 1 = j
      <4>1. j \in 0 .. L - 1 /\ j - 1 \in 0 .. L - 1 /\ (j - 1) + 1 = j /\ j \in 0 .. L /\ j + 1 \in 0 .. L
          BY <1>5
      <4> QED BY <1>4, <1>5, <1>10, <4>1
    <3>2. CASE window[j + 1].kind = "entry"
      <4>1. EntryAt(c, j + 1)
          BY <1>0, <1>2, <3>1, <3>2 DEF WindowOK
      <4>2. j + 1 \in 1 .. L - 1 /\ j < L - 1
          BY <1>0, <1>5, <4>1 DEF EntryAt
      <4>3. window'[j + 1] = window[(j + 1) + 1]
          BY <1>5, <4>2
      <4>4. EntryAt(c2, j)'
          BY <1>0, <1>1, <1>5, <3>1, <4>1, <4>2, <4>3, SameLog DEF EntryAt
      <4> QED BY <3>1, <3>2, <4>4
    <3>3. CASE window[j + 1].kind = "put"
      <4>1. PutAt(c, j + 1)
          BY <1>0, <1>2, <3>1, <3>3 DEF WindowOK
      <4>2. j > 1 => window'[j - 1].kind = "entry"
        <5>1. j > 1 => j - 1 \in 1 .. L - 1 /\ (j - 1) + 1 = j /\ j + 1 > 1
            OBVIOUS
        <5>2. j > 1 => window[j].kind = "entry"
            BY <3>1, <4>1, <5>1 DEF PutAt
        <5> QED BY <1>5, <5>1, <5>2
      <4>3. PutAt(c2, j)'
          BY <1>1, <3>1, <4>1, <4>2 DEF PutAt, Cnt
      <4> QED BY <3>1, <3>3, <4>3
    <3>4. CASE window[j + 1].kind = "read"
      <4>1. ReadAt(c, j + 1)
          BY <1>0, <1>2, <3>1, <3>4 DEF WindowOK
      <4>2. m.kind # "read"
        <5>1. 1 \in 1 .. L /\ 1 # j + 1
            BY <1>5
        <5> QED BY <1>0, <1>1, <4>1, <5>1 DEF ReadAt
      <4>3. \A i \in 1 .. L - 1 : window'[i].kind = "read" => i = j
        <5>1. \A i \in 1 .. L - 1 : i + 1 \in 1 .. L /\ (i + 1 = j + 1 => i = j)
            BY <1>5
        <5> QED BY <1>0, <1>5, <4>1, <5>1 DEF ReadAt
      <4>4. ReadAt(c2, j)'
          BY <1>0, <1>1, <1>5, <3>1, <4>1, <4>2, <4>3 DEF ReadAt
      <4> QED BY <3>1, <3>4, <4>4
    <3> QED BY <3>1, <3>2, <3>3, <3>4
  <2> QED BY <1>0, <1>1, <1>5, <1>10, <2>1 DEF WindowOK
<1>12. /\ c[0] <= c[1]
       /\ window'[1].kind = "put" /\ window' # <<>> => m.kind = "entry"
  <2>1. 1 - 1 = 0
      OBVIOUS
  <2>2. c[1] = c[0] \/ c[1] = c[0] + 1
      BY <1>6, <1>7, <2>1 DEF EntryAt, PutAt, ReadAt
  <2>3. ASSUME window'[1].kind = "put", window' # <<>> PROVE m.kind = "entry"
    <3>1. L - 1 # 0
        BY <1>5, <2>3
    <3>2. 1 \in 1 .. L - 1 /\ 2 \in 1 .. L /\ 2 > 1 /\ 2 - 1 = 1 /\ 1 + 1 = 2
        BY <1>5, <3>1
    <3>3. window[2].kind = "put"
        BY <1>5, <2>3, <3>2
    <3>4. PutAt(c, 2)
        BY <1>0, <1>2, <3>2, <3>3 DEF WindowOK
    <3> QED BY <1>1, <3>2, <3>4 DEF PutAt
  <2> QED BY <1>4, <1>10, <2>2, <2>3
<1>13. MemoryOK(c[1], d)'
  <2>1. /\ \A q \in Queues : gp_put[q] = Cnt(q, c[0]) % Entries
        /\ \A i \in d + 1 .. c[0] : RingHas(i)
        /\ (window[1].kind = "put") => RingHas(c[0] + 1)
        /\ Announced <= c[0]
        /\ (ring_q # <<>> /\ replied) => N - S <= c[0]
      BY <1>0, <1>1, <1>2 DEF MemoryOK
  <2>2. Announced' <= c[1]
    <3>1. Announced \in Int
        BY <1>0, <1>3 DEF Announced, TypeOK
    <3> QED BY <1>1, <1>4, <1>10, <1>12, <2>1, <3>1 DEF Announced
  <2>3. CASE m.kind = "entry"
    <3>1. /\ c[1] = c[0] /\ c[0] + 1 \in 1 .. N /\ m.queue = log[c[0] + 1]
          /\ m.at = SlotOf(c[0] + 1) /\ m.entry = EntryOf(c[0] + 1)
      <4>1. EntryAt(c, 1) /\ 1 - 1 = 0
          BY <1>7, <2>3
      <4> QED BY <1>0, <1>1, <1>4, <4>1 DEF EntryAt
    <3>2. /\ ring' = [ring EXCEPT ![m.queue][m.at] = m.entry] /\ gp_put' = gp_put /\ replied' = replied
          /\ ring \in [Queues -> [0 .. Entries - 1 -> Entry]]
        BY <1>1, <1>3, <2>3 DEF TypeOK
    <3>3. ring'[m.queue][m.at] = m.entry
        BY <1>6, <3>2
    <3>4. RingHas(c[0] + 1)'
        BY <1>1, <3>1, <3>3, SameLog DEF RingHas
    <3>5. ASSUME NEW i \in d + 1 .. c[0] PROVE RingHas(i)'
      <4>1. i \in 1 .. N /\ log[i] \in Queues /\ i <= c[0] + 1
          BY <1>4
      <4>2. CASE log[i] # m.queue
        <5>1. ring'[log[i]] = ring[log[i]]
            BY <3>2, <4>1, <4>2
        <5> QED BY <1>1, <2>1, <5>1, SameLog DEF RingHas
      <4>3. CASE log[i] = m.queue
        <5>1. SlotOf(i) # m.at
          <6>1. SUFFICES ASSUME SlotOf(i) = m.at PROVE FALSE
              OBVIOUS
          <6>2. PICK x \in Nat : x = Cnt(m.queue, i) - 1
            <7>1. 0 \in Nat /\ i \in Nat /\ 0 <= i
                BY <4>1
            <7>2. CntIn(log, m.queue, 0) \in Nat /\ CntIn(log, m.queue, i) \in Nat
                BY <7>1, CntBetween
            <7>3. i \in 0 + 1 .. i /\ log[i] = m.queue
                BY <4>1, <4>3
            <7>4. CntIn(log, m.queue, 0) < CntIn(log, m.queue, i)
                BY <7>1, <7>3, CntBetween
            <7> QED BY <7>2, <7>4 DEF Cnt
          <6>3. PICK y \in Nat : y = Cnt(m.queue, c[0] + 1) - 1 /\ x < y /\ y - x <= (c[0] + 1) - i
            <7>1. i \in Nat /\ c[0] + 1 \in Nat
                BY <1>4, <4>1
            <7>2. CntIn(log, m.queue, i) \in Nat /\ CntIn(log, m.queue, c[0] + 1) \in Nat
                  /\ CntIn(log, m.queue, c[0] + 1) <= CntIn(log, m.queue, i) + ((c[0] + 1) - i)
                BY <4>1, <7>1, CntBetween
            <7>3. c[0] + 1 \in i + 1 .. c[0] + 1 /\ log[c[0] + 1] = m.queue
                BY <1>4, <3>1, <4>1
            <7>4. CntIn(log, m.queue, i) < CntIn(log, m.queue, c[0] + 1)
                BY <4>1, <7>1, <7>3, CntBetween
            <7>5. CntIn(log, m.queue, i) = x + 1
                BY <6>2, <7>2 DEF Cnt
            <7>6. PICK z \in Nat : z = CntIn(log, m.queue, c[0] + 1)
                BY <7>2
            <7>7. z - 1 \in Nat /\ x < z - 1 /\ (z - 1) - x <= (c[0] + 1) - i
                BY <7>1, <7>2, <7>4, <7>5, <7>6
            <7> QED BY <7>6, <7>7 DEF Cnt
          <6>4. x % Entries = y % Entries
              BY <3>1, <4>3, <6>1, <6>2, <6>3 DEF SlotOf
          <6>5. y - x < Entries
            <7>1. PICK a \in Nat : a = c[0]
                BY <1>4
            <7>2. a + 1 <= N /\ i >= d + 1 /\ i \in Nat /\ d \in Nat
                BY <3>1, <7>1
            <7>3. N - d <= CmdRoom
                BY <1>2
            <7>4. y - x <= (a + 1) - i
                BY <6>3, <7>1
            <7>5. CmdRoom \in Nat /\ Entries \in Nat /\ CmdRoom < Entries
                BY DoorbellAssumption
            <7> QED BY <6>2, <6>3, <7>1, <7>2, <7>3, <7>4, <7>5
          <6> QED BY <6>3, <6>4, <6>5, ModApart
        <5>2. ring'[m.queue][SlotOf(i)] = ring[m.queue][SlotOf(i)]
          <6>1. ring'[m.queue] = [ring[m.queue] EXCEPT ![m.at] = m.entry]
              BY <1>6, <3>2
          <6>2. SlotOf(i) \in 0 .. Entries - 1
            <7>1. Cnt(log[i], i) - 1 \in Nat
              <8>1. 0 \in Nat /\ i \in Nat /\ 0 <= i /\ i \in 0 + 1 .. i
                  BY <4>1
              <8>2. CntIn(log, log[i], 0) \in Nat /\ CntIn(log, log[i], i) \in Nat
                    /\ CntIn(log, log[i], 0) < CntIn(log, log[i], i)
                  BY <8>1, CntBetween
              <8> QED BY <8>2 DEF Cnt
            <7> QED BY <7>1, ModNext DEF SlotOf
          <6> QED BY <1>6, <3>2, <5>1, <6>1, <6>2
        <5> QED BY <1>1, <2>1, <4>3, <5>2, SameLog DEF RingHas
      <4> QED BY <4>2, <4>3
    <3>6. \A q \in Queues : gp_put'[q] = Cnt(q, c[1])' % Entries
        BY <1>1, <2>1, <3>1, <3>2, SameLog
    <3> QED BY <1>0, <1>1, <2>1, <2>2, <3>1, <3>2, <3>4, <3>5, <3>6 DEF MemoryOK
  <2>4. CASE m.kind = "put"
    <3>1. /\ c[1] = c[0] + 1 /\ c[1] \in 1 .. N /\ m.queue = log[c[1]]
          /\ m.at = Cnt(log[c[1]], c[1]) % Entries
      <4>1. PutAt(c, 1) /\ 1 - 1 = 0
          BY <1>7, <2>4
      <4> QED BY <1>1, <1>4, <1>10, <4>1 DEF PutAt
    <3>2. /\ ring' = ring /\ gp_put' = [gp_put EXCEPT ![m.queue] = m.at] /\ replied' = replied
          /\ gp_put \in [Queues -> 0 .. Entries - 1]
        BY <1>1, <1>3, <2>4 DEF TypeOK
    <3>3. \A i : RingHas(i)' = RingHas(i)
        BY <1>1, <3>2, SameLog DEF RingHas
    <3>4. \A i \in d + 1 .. c[1] : RingHas(i)
      <4>1. \A i \in d + 1 .. c[1] : i \in d + 1 .. c[0] \/ i = c[0] + 1
          BY <1>4, <3>1
      <4> QED BY <1>1, <2>1, <2>4, <4>1
    <3>5. ASSUME NEW q \in Queues PROVE gp_put'[q] = Cnt(q, c[1]) % Entries
      <4>1. CASE q = m.queue
          BY <3>1, <3>2, <4>1
      <4>2. CASE q # m.queue
        <5>1. CntIn(log, q, c[0] + 1) = CntIn(log, q, c[0])
          <6>1. c[0] \in Nat /\ log[c[0] + 1] # q
              BY <1>4, <3>1, <4>2
          <6>2. CntIn(log, q, c[0] + 1) = IF log[c[0] + 1] = q THEN CntIn(log, q, c[0]) + 1
                                          ELSE CntIn(log, q, c[0])
              BY <6>1, CntNext
          <6> QED BY <6>1, <6>2
        <5> QED BY <1>6, <2>1, <3>1, <3>2, <4>2, <5>1 DEF Cnt
      <4> QED BY <4>1, <4>2
    <3>6. \A q \in Queues : gp_put'[q] = Cnt(q, c[1])' % Entries
        BY <1>1, <3>5, SameLog
    <3>7. ~ (window' # <<>> /\ window'[1].kind = "put")
        BY <1>12, <2>4
    <3>8. (ring_q # <<>> /\ replied) => N - S <= c[1]
        BY <1>0, <1>4, <1>10, <1>12, <2>1
    <3> QED BY <1>0, <1>1, <2>2, <3>2, <3>3, <3>4, <3>6, <3>7, <3>8 DEF MemoryOK
  <2>5. CASE m.kind = "read"
    <3>1. c[1] = c[0] /\ c[1] = N - S
      <4>1. ReadAt(c, 1) /\ 1 - 1 = 0
          BY <1>7, <2>5
      <4> QED BY <1>0, <4>1 DEF ReadAt
    <3>2. ring' = ring /\ gp_put' = gp_put
        BY <1>1, <2>5
    <3>3. \A i : RingHas(i)' = RingHas(i)
        BY <1>1, <3>2, SameLog DEF RingHas
    <3>4. \A q \in Queues : gp_put'[q] = Cnt(q, c[1])' % Entries
        BY <1>1, <2>1, <3>1, <3>2, SameLog
    <3>5. ~ (window' # <<>> /\ window'[1].kind = "put")
        BY <1>12, <2>5
    <3> QED BY <1>0, <1>1, <1>4, <2>1, <2>2, <3>1, <3>3, <3>4, <3>5 DEF MemoryOK
  <2> QED BY <1>6, <2>3, <2>4, <2>5
<1>14. \A p \in Queues : EngineOK(p, c[1], d)'
    BY <1>1, <1>2, <1>4, <1>10, <1>12, SameEngine
<1>15. Counted(c2, d)'
    BY <1>0, <1>1, <1>2, <1>4, <1>10, <1>11, <1>12, <1>13, <1>14 DEF Counted
<1> QED BY <1>0, <1>1, <1>5, <1>8, <1>9, <1>10, <1>15 DEF DInv

-----------------------------------------------------------------------------
LEMMA InitDInv ==
    ASSUME Init
    PROVE  DInv
<1>1. /\ log = <<>> /\ last_q = "none" /\ put = [q \in Queues |-> 0] /\ staged = <<>> /\ ring_q = <<>>
      /\ window = <<>> /\ bells = <<>> /\ replied = FALSE
      /\ ring = [q \in Queues |-> [i \in 0 .. Entries - 1 |-> NoEntry]]
      /\ gp_put = [q \in Queues |-> 0]
      /\ engine = [q \in Queues |-> [awake |-> FALSE, get |-> 0, hand |-> NoEntry, done |-> {}]]
    BY DEF Init
<1>2. Len(log) = 0 /\ Len(staged) = 0 /\ Len(ring_q) = 0 /\ Len(window) = 0 /\ Announced = 0
  <2>1. Len(log) = 0 /\ Len(staged) = 0 /\ Len(ring_q) = 0 /\ Len(window) = 0
      BY <1>1
  <2> QED BY <2>1 DEF Announced
<1>3. Entries \in Nat /\ StagedMax \in Nat /\ TokenMax \in Nat /\ CmdRoom \in Nat /\ BatchMax \in Nat
      /\ Entries > 0 /\ RingModes \subseteq BOOLEAN
    BY DoorbellAssumption
<1>4. NoEntry \in Entry
    BY DEF NoEntry, Entry
<1>5. host \in HostState
  <2>1. PICK mode \in RingModes :
            host = [step |-> "run", then |-> "run", whole |-> TRUE, token |-> 0, async |-> mode]
      BY DEF Init
  <2> QED BY <1>3, <2>1 DEF HostState
<1>6. TypeOK
  <2>1. put \in [Queues -> 0 .. BatchMax] /\ gp_put \in [Queues -> 0 .. Entries - 1]
      BY <1>1, <1>3
  <2>2. ring \in [Queues -> [0 .. Entries - 1 -> Entry]]
      BY <1>1, <1>4
  <2>3. engine \in [Queues -> Engine]
      BY <1>1, <1>3, <1>4 DEF Engine
  <2>4. log \in Seq(Queues) /\ staged \in Seq(Queues) /\ ring_q \in Seq(Queues) /\ bells \in Seq(Queues)
        /\ window \in Seq(Posted)
      BY <1>1
  <2>5. Len(log) <= BatchMax /\ Len(staged) <= StagedMax /\ Len(ring_q) <= StagedMax
      BY <1>2, <1>3
  <2>6. last_q \in Queues \union {"none"} /\ replied \in BOOLEAN
      BY <1>1
  <2> QED BY <1>5, <2>1, <2>2, <2>3, <2>4, <2>5, <2>6 DEF TypeOK
<1>7. \A q : Cnt(q, 0) = 0
  <2>1. \A q : {i \in 1 .. 0 : log[i] = q} = {}
      OBVIOUS
  <2> QED BY <2>1, FS_EmptySet DEF Cnt, CntIn
<1>8. LogOK /\ NoLostDoorbell
  <2>1. LogOK
      BY <1>1, <1>2, <1>7 DEF LogOK
  <2>2. NoLostDoorbell
      BY <1>2 DEF NoLostDoorbell
  <2> QED BY <2>1, <2>2
<1> DEFINE c == [j \in 0 .. 0 |-> 0]
<1>9. c \in [0 .. 0 -> 0 .. 0] /\ c[0] = 0
    OBVIOUS
<1> HIDE DEF c
<1>10. WindowOK(c)
    BY <1>2, <1>9 DEF WindowOK
<1>11. 0 % Entries = 0
    BY <1>3
<1>12. MemoryOK(c[0], 0)
    BY <1>1, <1>2, <1>7, <1>9, <1>11 DEF MemoryOK
<1>13. ASSUME NEW q \in Queues PROVE EngineOK(q, c[0], 0)
  <2>1. engine[q].done = {} /\ engine[q].hand = NoEntry /\ engine[q].get = 0
      BY <1>1
  <2>2. {i \in 1 .. 0 : log[i] = q} = {}
      OBVIOUS
  <2> QED BY <1>7, <1>11, <2>1, <2>2 DEF EngineOK
<1>14. Counted(c, 0)
    BY <1>2, <1>3, <1>9, <1>10, <1>12, <1>13 DEF Counted
<1> QED BY <1>2, <1>6, <1>8, <1>9, <1>14 DEF DInv

\* What each step does for the queue of work: hands a batch over, announces
\* what was staged, does the next batch, or nothing that shows.
Hands == \E q \in Queues : log' = Append(log, q) /\ UNCHANGED <<Announced, Done>>
Announces == Announced' \in Announced .. Len(log) /\ UNCHANGED <<log, Done>>
Does ==
    \E n \in 1 .. Len(log) : Done = 1 .. n - 1 /\ Done' = 1 .. n /\ UNCHANGED <<log, Announced>>
ShowsNothing == UNCHANGED <<log, Announced, Done>>

LEMMA StageShows ==
    ASSUME TypeOK, NEW q \in Queues, NEW next, Stage(q, next)
    PROVE  Hands
<1>1. log' = Append(log, q) /\ staged' = Append(staged, q) /\ UNCHANGED <<ring_q, engine>>
    BY DEF Stage
<1>2. Len(log') = Len(log) + 1 /\ Len(staged') = Len(staged) + 1
      /\ Len(log) \in Nat /\ Len(staged) \in Nat /\ Len(ring_q) \in Nat
    BY <1>1 DEF TypeOK
<1> QED BY <1>1, <1>2 DEF Hands, Announced, Done

LEMMA RingShows ==
    ASSUME DInv, NEW next, Ring(next)
    PROVE  Announces
<1>1. ring_q' = <<>> /\ UNCHANGED <<log, staged, engine>>
    BY DEF Ring
<1>2. Len(log) \in Nat /\ Len(staged) \in Nat /\ Len(ring_q) \in Nat /\ Len(ring_q') = 0
    BY <1>1 DEF DInv, TypeOK
<1> QED BY <1>1, <1>2 DEF Announces, Announced, Done

LEMMA SameShows ==
    ASSUME UNCHANGED allButHost
    PROVE  ShowsNothing
BY DEF allButHost, ShowsNothing, Announced, Done

\* The invariant is inductive, and every step shows at most one thing.
LEMMA NextDInv ==
    ASSUME DInv, [Next]_vars
    PROVE  DInv' /\ (Hands \/ Announces \/ Does \/ ShowsNothing)
<1>1. TypeOK
    BY DEF DInv
<1>2. /\ Announcing \in HostState /\ AnnouncingFor("run") \in HostState /\ AnnouncingFor("wait") \in HostState
      /\ host \in HostState
    BY <1>1 DEF TypeOK, HostState, Announcing, AnnouncingFor
<1>3. ASSUME NEW s \in {"run", "send", "pay", "complete", "wait"}, UNCHANGED allButHost,
             host' = [host EXCEPT !.step = s]
      PROVE  DInv' /\ ShowsNothing
  <2>1. host' \in HostState
      BY <1>2, <1>3 DEF HostState
  <2> QED BY <1>3, <2>1, HostOnly, SameShows
<1>4. host.then \in {"run", "wait"} /\ (IF host.whole THEN "complete" ELSE host.then) \in {"run", "wait", "complete"}
    BY <1>2 DEF HostState
<1>5. CASE UNCHANGED vars
  <2>1. UNCHANGED allButHost /\ host' \in HostState
      BY <1>2, <1>5 DEF vars, hostVars, allButHost
  <2> QED BY <2>1, HostOnly, SameShows
<1>6. ASSUME NEW q \in Queues, Submit(q) PROVE DInv' /\ Hands
    BY <1>1, <1>2, <1>6, StageKeeps, StageShows DEF Submit
<1>7. CASE Deliver
  <2>1. "copy" \in Queues
      BY DEF Queues
  <2> QED BY <1>1, <1>2, <1>7, <2>1, StageKeeps, StageShows DEF Deliver
<1>8. ASSUME NEW n \in 1 .. TokenMax, ReplayBegin(n) PROVE DInv' /\ ShowsNothing
  <2>1. host' \in HostState
      BY <1>2, <1>8, DoorbellAssumption DEF ReplayBegin, HostState
  <2> QED BY <1>8, <2>1, HostOnly, SameShows DEF ReplayBegin
<1>9. CASE ReplayChain
  <2>1. "compute" \in Queues
      BY DEF Queues
  <2>2. CASE host.token > 1 /\ Stage("compute", [host EXCEPT !.token = @ - 1])
    <3>1. [host EXCEPT !.token = @ - 1] \in HostState
        BY <1>2, <2>2, DoorbellAssumption DEF HostState
    <3> QED BY <1>1, <2>1, <2>2, <3>1, StageKeeps, StageShows
  <2>3. CASE host.token = 1 /\ Stage("compute", [Announcing EXCEPT !.token = 0])
    <3>1. [Announcing EXCEPT !.token = 0] \in HostState
        BY <1>2, DoorbellAssumption DEF HostState
    <3> QED BY <1>1, <2>1, <2>3, <3>1, StageKeeps, StageShows
  <2> QED BY <1>9, <2>2, <2>3 DEF ReplayChain
<1>10. CASE CompleteLate
  <2>1. host' \in HostState
      BY <1>2, <1>10 DEF CompleteLate, HostState
  <2> QED BY <1>10, <2>1, HostOnly, SameShows DEF CompleteLate
<1>11. CASE Wait
    BY <1>2, <1>11, HostOnly, SameShows DEF Wait
<1>12. CASE Query
    BY <1>2, <1>12, HostOnly, SameShows DEF Query
<1>13. CASE SendNothing
    BY <1>3, <1>4, <1>13 DEF SendNothing
<1>14. CASE SendOwing
    BY <1>3, <1>14 DEF SendOwing
<1>15. CASE SendFence
  <2>1. /\ staged' = <<>> /\ ring_q' = staged /\ ring_q = <<>> /\ UNCHANGED <<log, engine>>
        /\ Len(staged) \in Nat /\ Len(log) \in Nat
      BY <1>1, <1>15 DEF SendFence, TypeOK
  <2>2. ShowsNothing
      BY <2>1 DEF ShowsNothing, Announced, Done
  <2> QED BY <1>15, <2>2, SendFenceKeeps
<1>16. CASE Pay
    BY <1>16, RingKeeps, RingShows DEF Pay
<1>17. CASE Complete
    BY <1>4, <1>17, RingKeeps, RingShows DEF Complete
<1>18. CASE CompleteNothing
    BY <1>3, <1>4, <1>18 DEF CompleteNothing
<1>19. CASE WaitDone
    BY <1>3, <1>19 DEF WaitDone
<1>20. CASE Arrive
  <2>1. ShowsNothing
      BY <1>20 DEF Arrive, hostVars, ShowsNothing, Announced, Done
  <2> QED BY <1>20, <2>1, ArriveKeeps
<1>21. CASE Wake
  <2>1. UNCHANGED <<log, staged, ring_q>> /\ \A q \in Queues : engine'[q].done = engine[q].done
      BY <1>1, <1>21 DEF Wake, hostVars, TypeOK, Engine
  <2>2. ShowsNothing
      BY <2>1 DEF ShowsNothing, Announced, Done
  <2> QED BY <1>21, <2>2, WakeKeeps
<1>22. ASSUME NEW q \in Queues, Take(q) \/ Sleep(q) PROVE DInv' /\ ShowsNothing
  <2>1. UNCHANGED <<log, staged, ring_q>> /\ \A p \in Queues : engine'[p].done = engine[p].done
    <3>1. engine \in [Queues -> [awake : BOOLEAN, get : 0 .. Entries - 1, hand : Entry, done : SUBSET Nat]]
        BY <1>1 DEF TypeOK, Engine
    <3>2. CASE Take(q)
      <4>1. PICK x, y : engine' = [engine EXCEPT ![q].hand = x, ![q].get = y]
          BY <3>2 DEF Take
      <4> QED BY <3>1, <3>2, <4>1 DEF Take, hostVars
    <3>3. CASE Sleep(q)
        BY <3>1, <3>3 DEF Sleep, hostVars
    <3> QED BY <1>22, <3>2, <3>3
  <2>2. ShowsNothing
      BY <2>1 DEF ShowsNothing, Announced, Done
  <2> QED BY <1>22, <2>2, TakeKeeps, SleepKeeps
<1>23. ASSUME NEW q \in Queues, Finish(q) PROVE DInv' /\ Does
  <2>1. DInv' /\ \E d \in 0 .. Len(log) : Done = 1 .. d /\ d + 1 \in 1 .. Len(log) /\ Done' = 1 .. d + 1
      BY <1>23, FinishKeeps
  <2>2. UNCHANGED <<log, Announced>>
      BY <1>23 DEF Finish, hostVars, Announced
  <2>3. PICK d \in 0 .. Len(log) : Done = 1 .. d /\ d + 1 \in 1 .. Len(log) /\ Done' = 1 .. d + 1
      BY <2>1
  <2>4. (d + 1) - 1 = d
      BY <1>1 DEF TypeOK
  <2> QED BY <2>1, <2>2, <2>3, <2>4 DEF Does
<1> QED BY <1>5, <1>6, <1>7, <1>8, <1>9, <1>10, <1>11, <1>12, <1>13, <1>14, <1>15, <1>16, <1>17,
           <1>18, <1>19, <1>20, <1>21, <1>22, <1>23
        DEF Next, HostCalls, HostGoesOn, EngineStep

\* The invariant of rings, doorbells and engines (submit.c from
\* tinynv_submit_stage down), which the two theorems below rest on.
THEOREM DoorbellInvariant == Spec => []DInv
<1>1. Init => DInv
    BY InitDInv
<1>2. DInv /\ [Next]_vars => DInv'
    BY NextDInv
<1> QED BY <1>1, <1>2, PTL DEF Spec

\* While a batch the engines were told about is not done, its engine is awake
\* or about to be woken, so no doorbell is lost (tinynv_submit_ring_send and
\* tinynv_submit_ring_complete).
THEOREM DoorbellNotLost == Spec => []NoLostDoorbell
<1>1. DInv => NoLostDoorbell
    BY DEF DInv
<1> QED BY <1>1, DoorbellInvariant, PTL

\* The rings, the doorbells and the acquires of batch_begin together do the
\* work one batch at a time, in the order it was submitted, whichever queue
\* each batch went to.
THEOREM DoorbellWorkInOrder == Spec => Work!InOrder
<1>1. Init => Work!Init
  <2>1. SUFFICES ASSUME Init PROVE Work!Init
      OBVIOUS
  <2>2. log = <<>> /\ staged = <<>> /\ ring_q = <<>> /\ \A q \in Queues : engine[q].done = {}
      BY <2>1 DEF Init
  <2>3. Len(log) = 0 /\ Len(staged) = 0 /\ Len(ring_q) = 0
      BY <2>2
  <2>4. Announced = 0
      BY <2>3 DEF Announced
  <2>5. Done = {}
      BY <2>2 DEF Done
  <2> QED BY <2>2, <2>4, <2>5 DEF Work!Init
<1>2. DInv /\ [Next]_vars => [Work!Next]_(Work!vars)
  <2>1. SUFFICES ASSUME DInv, [Next]_vars PROVE [Work!Next]_(Work!vars)
      OBVIOUS
  <2>2. Hands \/ Announces \/ Does \/ ShowsNothing
      BY <2>1, NextDInv
  <2>3. Hands => Work!Next
      BY DEF Hands, Work!Next, Work!Hand
  <2>4. Announces => Work!Next
      BY DEF Announces, Work!Next, Work!Announce
  <2>5. Does => Work!Next
      BY DEF Does, Work!Next, Work!Do
  <2>6. ShowsNothing => UNCHANGED Work!vars
      BY DEF ShowsNothing, Work!vars
  <2> QED BY <2>2, <2>3, <2>4, <2>5, <2>6
<1> QED BY <1>1, <1>2, DoorbellInvariant, PTL DEF Spec, Work!InOrder
=============================================================================
