--------------------------- MODULE CallersProofs ----------------------------
(***************************************************************************)
(* Proofs about Graph and, after them, about Threads.                      *)
(*                                                                         *)
(* Graph: batches are numbered along the queue, one runs at a time, and    *)
(* the tails of a chain that may still run are the values of its own       *)
(* replay.  What is owed is what the batches handed over will do, one      *)
(* after the other, and then what is left of the call: a ledger says at    *)
(* which place of all that was ever asked for each of them stands.         *)
(*                                                                         *)
(* Threads: a job has a number, its place in the order in which everything *)
(* was submitted; a wait that is over leaves nothing of what it was for    *)
(* but the kernel that keeps the engine alive, which holds as long as the  *)
(* number noted for that kernel is its own: until work goes behind it      *)
(* before the number is noted (passed).  What a thread should read is what *)
(* its buffer holds, carried through the jobs not yet done, and the one    *)
(* staging buffer belongs to at most one of them, until a thread uses it   *)
(* while another's download by kernel is in it (shared).                   *)
(***************************************************************************)
EXTENDS Graph, Threads, SequenceTheorems, FiniteSetTheorems, WellFoundedInduction, TLAPS

\* Every program that may be recorded fits: a region holds its launches, and a
\* token its chains.  (Graph_declined shows what becomes of one that does not.)
AllFit ==
    \A p \in Programs :
        Ordered(p) => LET n == Len(LaunchNodes(p)) IN n <= RegionRoom /\ Chains(n) <= ChainsMax

(***************************************************************************)
(* Types.                                                                  *)
(***************************************************************************)

Things == Kernels \cup Copies \cup Loose
Batches == [kind : {"work", "seal", "chain"}, node : Things \cup {None}, region : Regions
   \cup {None},
            chain : Nat, patch : Seq(Nat)]
Handed == [batch : Batches, at : Nat, after : Nat]
Pairs == [keeper : {"none", "pool", "token"}, mirror : Seq(Kernels), mem : Seq(Kernels),
          tails : Seq(Nat)]
Executables == [live : BOOLEAN, nodes : Programs \cup {<<>>}, drv : Regions \cup {None},
                refused : BOOLEAN]
Calls == [pc : {"none", "nodes", "again"}, exec : Execs \cup {None}, i : Nat, recording : BOOLEAN]
Recordings == [region : Regions, failed : BOOLEAN]

TypesOK ==
    /\ graph \in Programs \cup {None} /\ execs \in [Execs -> Executables]
    /\ call \in Calls /\ (call.pc # "none" => call.exec \in Execs /\ call.i > 0)
    /\ rec \in Recordings \cup {None} /\ region \in [Regions -> Pairs]
    /\ timeline \in Nat /\ queue \in Seq(Handed) /\ running \subseteq Handed /\ sem \in Nat
    /\ call.pc = "nodes" /\ call.recording => rec # None
    /\ \A q \in running : q.batch.kind # "work" => q.batch.region \in Regions
    /\ \A i \in 1 .. Len(queue) : queue[i].batch.kind # "work" => queue[i].batch.region \in Regions

(***************************************************************************)
(* The order of the batches, and the values their tails release.           *)
(***************************************************************************)

\* The value of the last batch begun
Begun == timeline - Len(queue)

OrderOK ==
    /\ Begun \in Nat
    /\ \A i \in 1 .. Len(queue) : queue[i].at = Begun + i /\ queue[i].after = Begun + i - 1
    /\ \/ running = {} /\ sem = Begun
       \/ \E q : running = {q} /\ q.at = Begun /\ sem = Begun - 1

Release(patch, k, v) == k \in DOMAIN patch => patch[k] = v

\* A chain that waits finds its tail patched with its own value: by the first
\* chain of its replay, which waits before it, or already
ChainOK(i) ==
    LET b == queue[i].batch
        first == i - b.chain + 1
    IN  /\ b.chain > 0
        /\ \A j \in 1 .. i : j > first => queue[j].batch.patch = <<>>
        /\ IF first > 0
           THEN /\ queue[first].batch.kind = "chain" /\ queue[first].batch.region = b.region
                /\ queue[first].batch.patch # <<>>
                /\ Release(queue[first].batch.patch, b.chain, queue[i].at)
           ELSE Release(region[b.region].tails, b.chain, queue[i].at)

TailsOK ==
    /\ \A i \in 1 .. Len(queue) : queue[i].batch.kind = "chain" => ChainOK(i)
    /\ \A q \in running : q.batch.kind = "chain" =>
           Release(region[q.batch.region].tails, q.batch.chain, q.at)

ReleaseInv == TypesOK /\ OrderOK /\ TailsOK

-----------------------------------------------------------------------------
\* Facts about counting.
LEMMA LeastNumber ==
    ASSUME NEW s \in SUBSET Nat, s # {}
    PROVE  \E x \in s : \A y \in s : x <= y
<1> DEFINE R == {ss \in Nat \X Nat : ss[1] < ss[2]}
<1>1. IsWellFoundedOn(R, Nat)
    BY NatLessThanWellFounded DEF OpToRel
<1> HIDE DEF R
<1>2. PICK x \in s : \A y \in s : ~ (<<y, x>> \in R)
    BY <1>1, WFMin
<1>3. ASSUME NEW y \in s PROVE x <= y
  <2>1. y < x => <<y, x>> \in R
      BY DEF R
  <2> QED BY <1>2, <2>1
<1> QED BY <1>3

\* Two sequences joined: the places of the one, and after them the other's.
LEMMA JoinedSeqs ==
    ASSUME NEW S, NEW s \in Seq(S), NEW t \in Seq(S)
    PROVE  /\ s \o t \in Seq(S) /\ Len(s \o t) = Len(s) + Len(t)
           /\ \A i \in 1 .. Len(s) : (s \o t)[i] = s[i]
           /\ \A m \in 1 .. Len(t) : (s \o t)[Len(s) + m] = t[m]
    OBVIOUS

\* The places of a sequence that hold a kind, and those of them up to one.
Places(s, K) == {i \in DOMAIN s : s[i] \in K}
UpTo(these, i) == {j \in these : j <= i}

\* The k-th of them.
Nth(s, K, k) == CHOOSE i \in Places(s, K) : Cardinality(UpTo(Places(s, K), i)) = k

LEMMA NthPlace ==
    ASSUME NEW S, NEW s \in Seq(S), NEW K
    PROVE  /\ Cardinality(Places(s, K)) \in Nat /\ Cardinality(Places(s, K)) <= Len(s)
           /\ \A k \in 1 .. Cardinality(Places(s, K)) :
                  /\ Nth(s, K, k) \in Places(s, K)
                  /\ Cardinality(UpTo(Places(s, K), Nth(s, K, k))) = k
<1> USE DEF Places, UpTo, Nth
<1> DEFINE these == {i \in DOMAIN s : s[i] \in K}
           upto(i) == {j \in these : j <= i}
           n == Cardinality(these)
           nth(k) == CHOOSE i \in these : Cardinality(upto(i)) = k
<1>1. these \subseteq 1 .. Len(s) /\ Len(s) \in Nat
    OBVIOUS
<1>2. IsFiniteSet(1 .. Len(s)) /\ Cardinality(1 .. Len(s)) = Len(s)
    BY <1>1, FS_Interval, SMTT(60)
<1>3. IsFiniteSet(these) /\ n \in Nat /\ n <= Len(s)
    BY <1>1, <1>2, FS_Subset, FS_CardinalityType
<1>4. ASSUME NEW i \in Nat PROVE IsFiniteSet(upto(i)) /\ Cardinality(upto(i)) \in Nat
    BY <1>3, FS_Subset, FS_CardinalityType
<1>5. ASSUME NEW k \in 1 .. n PROVE nth(k) \in these /\ Cardinality(upto(nth(k))) = k
  <2> DEFINE cnt(i) == Cardinality(upto(i))
             past == {i \in 1 .. Len(s) : cnt(i) >= k}
  <2>1. upto(Len(s)) = these
      BY <1>1
  <2>2. cnt(Len(s)) = n /\ \A i \in Nat : cnt(i) \in Nat
      BY <2>1, <1>4, <1>1
  <2>3. upto(0) = {}
      BY <1>1
  <2>4. cnt(0) = 0
      BY <2>3, FS_EmptySet, Zenon
  <2>5. PICK i \in past : \A j \in past : i <= j
    <3> HIDE DEF cnt, n
    <3>1. Len(s) \in past
        BY <2>2, <1>3, <1>1
    <3>2. past \in SUBSET Nat /\ past # {}
        BY <3>1, <1>1
    <3> QED BY <3>2, LeastNumber
  <2>6. i \in 1 .. Len(s) /\ cnt(i) >= k /\ cnt(i - 1) < k /\ i - 1 \in Nat
    <3> HIDE DEF cnt, n
    <3>1. i \in 1 .. Len(s) /\ cnt(i) >= k
        BY <2>5
    <3>2. i # 1 => i - 1 \notin past
        BY <2>5, <3>1, <1>1
    <3>3. i - 1 \in Nat /\ (i # 1 => i - 1 \in 1 .. Len(s))
        BY <3>1, <1>1
    <3>4. CASE i = 1
        BY <3>4, <3>1, <3>3, <2>4, <1>3
    <3>5. CASE i # 1
        BY <3>5, <3>1, <3>2, <3>3, <2>2, <1>3
    <3> QED BY <3>4, <3>5
  <2>7. i \in these
    <3>1. i \notin these => upto(i) = upto(i - 1)
        BY <2>6, <1>1
    <3>2. i \notin these => cnt(i) = cnt(i - 1)
        BY <3>1
    <3> HIDE DEF cnt, n, these
    <3> QED BY <3>2, <2>2, <2>6, <1>3, <1>1
  <2>8. cnt(i) = cnt(i - 1) + 1
    <3>1. upto(i) = upto(i - 1) \cup {i} /\ i \notin upto(i - 1)
        BY <2>6, <2>7, <1>1
    <3>2. IsFiniteSet(upto(i - 1))
        BY <1>4, <2>6
    <3> HIDE DEF upto
    <3>3. Cardinality(upto(i - 1) \cup {i}) = Cardinality(upto(i - 1)) + 1
        BY <3>1, <3>2, FS_AddElement
    <3> QED BY <3>1, <3>3
  <2>9. cnt(i) = k
    <3> HIDE DEF cnt, n, these
    <3> QED BY <2>2, <2>6, <2>8, <1>3, <1>1
  <2>10. \E j \in these : Cardinality(upto(j)) = k
      BY <2>7, <2>9
  <2> HIDE DEF these, upto
  <2> QED BY <2>10
<1> QED BY <1>3, <1>5

LEMMA OfKindIs ==
    ASSUME NEW s, NEW K
    PROVE  OfKind(s, K) = [k \in 1 .. Cardinality(Places(s, K)) |-> s[Nth(s, K, k)]]
    BY DEF OfKind, Places, UpTo, Nth

\* The members of a sequence that are of a kind, as the model lists them, are
\* as many as there are places for them, and the k-th is one of them.
LEMMA OfKindLists ==
    ASSUME NEW S, NEW s \in Seq(S), NEW K
    PROVE  /\ Cardinality(Places(s, K)) \in Nat /\ Cardinality(Places(s, K)) <= Len(s)
           /\ OfKind(s, K) \in Seq(S \cap K) /\ Len(OfKind(s, K)) = Cardinality(Places(s, K))
<1>1. PICK n : n = Cardinality(Places(s, K))
    OBVIOUS
<1>2. n \in Nat /\ n <= Len(s) /\ \A k \in 1 .. n : Nth(s, K, k) \in Places(s, K)
    BY <1>1, NthPlace
<1>3. \A i \in Places(s, K) : s[i] \in S \cap K
    BY DEF Places
<1>4. OfKind(s, K) = [k \in 1 .. n |-> s[Nth(s, K, k)]]
    BY <1>1, OfKindIs
<1>5. \A k \in 1 .. n : s[Nth(s, K, k)] \in S \cap K
    BY <1>2, <1>3
<1>6. OfKind(s, K) \in Seq(S \cap K) /\ Len(OfKind(s, K)) = n
    BY <1>2, <1>4, <1>5
<1> QED BY <1>1, <1>2, <1>6

LEMMA KindAt ==
    ASSUME NEW S, NEW s \in Seq(S), NEW K, NEW k \in 1 .. Cardinality(Places(s, K))
    PROVE  \E i \in Places(s, K) : /\ Cardinality(UpTo(Places(s, K), i)) = k
                                   /\ OfKind(s, K)[k] = s[i]
<1>1. /\ Nth(s, K, k) \in Places(s, K)
      /\ Cardinality(UpTo(Places(s, K), Nth(s, K, k))) = k
    BY NthPlace
<1>2. OfKind(s, K)[k] = s[Nth(s, K, k)]
    BY OfKindIs
<1> QED BY <1>1, <1>2

\* How many chains launches make, and where they are cut.
LEMMA ChainsCount ==
    ASSUME NEW n \in Nat
    PROVE  /\ Chains(n) \in Nat /\ (n > 0 => Chains(n) > 0) /\ n <= Chains(n) * ChainMax
           /\ (n > 0 => (Chains(n) - 1) * ChainMax < n)
           /\ (n = 0 => Chains(n) = 0)
<1>1. ChainMax \in Nat \ {0}
    BY GraphAssumption
<1> DEFINE a == n + ChainMax - 1
           c == a \div ChainMax
<1>2. a \in Nat /\ ChainMax \in Nat /\ ChainMax > 0
    BY <1>1
<1>3. c \in Int /\ c * ChainMax <= a /\ a < (c + 1) * ChainMax
  <2> HIDE DEF a
  <2>1. c \in Int /\ a = c * ChainMax + (a % ChainMax) /\ (a % ChainMax) \in 0 .. ChainMax - 1
      BY <1>2
  <2> HIDE DEF c
  <2> QED BY <1>2, <2>1
<1>4. (c + 1) * ChainMax = c * ChainMax + ChainMax /\ (c - 1) * ChainMax = c * ChainMax - ChainMax
  <2> HIDE DEF c
  <2> QED BY <1>2, <1>3
<1>5. c >= 0
  <2> HIDE DEF c
  <2>1. c < 0 => (c + 1) * ChainMax <= 0
      BY <1>2, <1>3
  <2> QED BY <1>2, <1>3, <2>1
<1>6. n > 0 => c > 0
  <2> HIDE DEF c
  <2>1. c = 0 => (c + 1) * ChainMax = ChainMax
      BY <1>2
  <2> QED BY <1>2, <1>3, <1>5, <2>1
<1>7. n = 0 => c = 0
  <2> HIDE DEF c
  <2>1. c > 0 => c * ChainMax >= ChainMax
      BY <1>2, <1>3
  <2> QED BY <1>2, <1>3, <1>5, <2>1
<1>8. Chains(n) = c
    BY DEF Chains
<1> HIDE DEF c
<1> QED BY <1>2, <1>3, <1>4, <1>5, <1>6, <1>7, <1>8

-----------------------------------------------------------------------------
\* Batches to hand over: each chain of a replay with the first of them before it.
GoodBatches(bs, at0) ==
    \A m \in 1 .. Len(bs) : bs[m].kind = "chain" =>
        LET first == m - bs[m].chain + 1
        IN  /\ bs[m].chain > 0 /\ first > 0
            /\ \A j \in 1 .. m : j > first => bs[j].patch = <<>>
            /\ bs[first].kind = "chain" /\ bs[first].region = bs[m].region /\ bs[first].patch # <<>>
            /\ Release(bs[first].patch, bs[m].chain, at0 + m)

Proper(bs) ==
    /\ bs \in Seq(Batches)
    /\ \A m \in 1 .. Len(bs) : bs[m].kind # "work" => bs[m].region \in Regions

\* Batches handed over keep the numbering, and the tails of what was there.
LEMMA SubmitKeeps ==
    ASSUME TypesOK, OrderOK, TailsOK, NEW bs, Proper(bs), GoodBatches(bs, timeline), Submit(bs),
           \A r \in Regions : region'[r].tails = region[r].tails
    PROVE  /\ timeline' \in Nat /\ queue' \in Seq(Handed) /\ OrderOK' /\ TailsOK'
           /\ \A i \in 1 .. Len(queue') : queue'[i].batch.kind # "work" =>
                  queue'[i].batch.region \in Regions
<1> DEFINE more == [i \in 1 .. Len(bs) |->
                       [batch |-> bs[i], at |-> timeline + i,
                          after |-> Acquires(bs[i], timeline + i - 1)]]
           n == Len(queue)
<1>1. /\ queue' = queue
           \o more /\ timeline' = timeline + Len(bs) /\ running' = running /\ sem' = sem
    BY DEF Submit
<1>2. bs \in Seq(Batches) /\ Len(bs) \in Nat /\ timeline \in Nat /\ queue \in Seq(Handed) /\ n \in Nat
    BY DEF TypesOK, Proper
<1>3. more \in Seq(Handed) /\ Len(more) = Len(bs)
    BY <1>2 DEF Handed, Acquires
<1>4. PICK add \in Seq(Handed) : add = more
    BY <1>3
<1>5. /\ queue' \in Seq(Handed) /\ Len(queue') = n + Len(bs)
      /\ \A i \in 1 .. n : queue'[i] = queue[i]
      /\ \A m \in 1 .. Len(bs) : queue'[n + m] = add[m]
  <2>1. queue' = queue \o add /\ Len(add) = Len(bs)
      BY <1>1, <1>3, <1>4
  <2> HIDE DEF more
  <2>2. queue \in Seq(Handed) /\ add \in Seq(Handed)
      BY <1>2
  <2>3. /\ queue \o add \in Seq(Handed) /\ Len(queue \o add) = Len(queue) + Len(add)
        /\ \A i \in 1 .. Len(queue) : (queue \o add)[i] = queue[i]
        /\ \A m \in 1 .. Len(add) : (queue \o add)[Len(queue) + m] = add[m]
      BY <2>2, JoinedSeqs
  <2> QED BY <2>1, <2>3
<1>6. \A m \in 1 .. Len(bs) : /\ queue'[n + m].batch = bs[m] /\ queue'[n + m].at = timeline + m
                              /\ queue'[n + m].after = timeline + m - 1
  <2>1. \A m \in 1 .. Len(bs) : add[m] =
            [batch |-> bs[m], at |-> timeline + m, after |-> timeline + m - 1]
      BY <1>4 DEF Acquires
  <2> HIDE DEF more, n
  <2>2. ASSUME NEW m \in 1 .. Len(bs)
        PROVE  /\ queue'[n + m].batch = bs[m] /\ queue'[n + m].at = timeline + m
               /\ queue'[n + m].after = timeline + m - 1
    <3>1. queue'[n + m] = add[m]
        BY <1>5
    <3>2. add[m] = [batch |-> bs[m], at |-> timeline + m, after |-> timeline + m - 1]
        BY <2>1
    <3> QED BY ONLY <3>1, <3>2
  <2> QED BY <2>2
<1> HIDE DEF more
<1>7. \A i \in 1 .. n + Len(bs) : i \in 1 .. n \/ \E m \in 1 .. Len(bs) : i = n + m
  <2>1. ASSUME NEW i \in 1 .. n + Len(bs), i \notin 1 .. n PROVE \E m \in 1 .. Len(bs) : i = n + m
    <3>1. i - n \in 1 .. Len(bs) /\ i = n + (i - n)
        BY <2>1, <1>2
    <3> QED BY <3>1
  <2> QED BY <2>1
<1>8. timeline' \in Nat /\ Begun' = Begun
    BY <1>1, <1>2, <1>5 DEF Begun
<1> HIDE DEF n
<1>9. n = Len(queue) /\ \A i \in 1 .. n :
          /\ queue[i] \in Handed /\ queue[i].batch \in Batches /\ queue[i].batch.chain \in Nat
          /\ queue[i].at \in Nat
  <2>1. n = Len(queue)
      BY DEF n
  <2>2. \A i \in 1 .. n : queue[i] \in Handed
      BY <1>2, <2>1
  <2>3. \A x \in Handed : x.batch \in Batches /\ x.batch.chain \in Nat /\ x.at \in Nat
      BY DEF Handed, Batches
  <2> QED BY <2>1, <2>2, <2>3
<1>10. OrderOK'
  <2>1. Begun = timeline - n /\ Begun \in Nat /\ timeline = Begun + n
      BY <1>9, <1>2 DEF Begun, OrderOK
  <2>2. \A i \in 1 .. n : queue'[i].at = Begun + i /\ queue'[i].after = Begun + i - 1
      BY <1>5, <1>9 DEF OrderOK
  <2>3. \A m \in 1 .. Len(bs) : /\ queue'[n + m].at = Begun + (n + m)
                                /\ queue'[n + m].after = Begun + (n + m) - 1
      BY <1>6, <2>1, <1>2, SMTT(60)
  <2>4. \A i \in 1 .. Len(queue') : queue'[i].at = Begun + i /\ queue'[i].after = Begun + i - 1
    <3>1. ASSUME NEW i \in 1 .. n + Len(bs)
          PROVE  queue'[i].at = Begun + i /\ queue'[i].after = Begun + i - 1
      <4>1. CASE i \in 1 .. n
          BY <4>1, <2>2
      <4>2. ASSUME NEW m \in 1 .. Len(bs), i = n + m
            PROVE  queue'[i].at = Begun + i /\ queue'[i].after = Begun + i - 1
          BY <4>2, <2>3
      <4> QED BY <4>1, <4>2, <1>7
    <3> QED BY <3>1, <1>5
  <2> QED BY <2>1, <2>4, <1>1, <1>8 DEF OrderOK
<1>11. \A i \in 1 .. Len(queue') : queue'[i].batch.kind # "work" => queue'[i].batch.region \in Regions
  <2>1. \A i \in 1 .. n : queue'[i].batch.kind # "work" => queue'[i].batch.region \in Regions
      BY <1>9, <1>5 DEF TypesOK
  <2>2. \A m \in 1 .. Len(bs) : queue'[n + m].batch.kind # "work" =>
            queue'[n + m].batch.region \in Regions
      BY <1>6 DEF Proper
  <2> QED BY <2>1, <2>2, <1>5, <1>7
<1>12. ASSUME NEW i \in 1 .. Len(queue'), queue'[i].batch.kind = "chain" PROVE ChainOK(i)'
  <2>1. queue'[i].batch.region \in Regions
      BY <1>11, <1>12
  <2> DEFINE b == queue'[i].batch
             first == i - b.chain + 1
  <2>2. CASE i \in 1 .. n
    <3>1. ChainOK(i)
        BY <2>2, <1>9, <1>5, <1>12 DEF TailsOK
    <3>2. queue[i].batch.chain \in Nat /\ queue'[i] = queue[i]
        BY <2>2, <1>5, <1>9
    <3>3. \A j \in 1 .. i : queue'[j] = queue[j]
        BY <2>2, <1>5, <1>2
    <3>4. b.chain > 0 /\ \A j \in 1 .. i : j > first => queue'[j].batch.patch = <<>>
        BY <3>1, <3>2, <3>3 DEF ChainOK
    <3>5. first > 0 => first \in 1 .. i
      <4>1. PICK k \in Nat : k = b.chain /\ k > 0
          BY <3>2, <3>4
      <4>2. i \in Nat /\ first = i - k + 1
          BY <4>1, <2>2, <1>2
      <4>3. i - k + 1 > 0 => i - k + 1 \in 1 .. i
          BY <4>1, <4>2
      <4> QED BY <4>2, <4>3
    <3>6. IF first > 0
          THEN /\ queue'[first].batch.kind = "chain" /\ queue'[first].batch.region = b.region
               /\ queue'[first].batch.patch # <<>>
               /\ Release(queue'[first].batch.patch, b.chain, queue'[i].at)
          ELSE Release(region[b.region].tails, b.chain, queue'[i].at)
        BY <3>1, <3>2, <3>3, <3>5 DEF ChainOK
    <3>7. region'[b.region].tails = region[b.region].tails
        BY <2>1
    <3> QED BY <3>4, <3>6, <3>7 DEF ChainOK
  <2>3. ASSUME NEW m \in 1 .. Len(bs), i = n + m PROVE ChainOK(i)'
    <3> DEFINE fst == m - bs[m].chain + 1
    <3>1. queue'[i].batch = bs[m] /\ queue'[i].at = timeline + m /\ bs[m].kind = "chain"
        BY <2>3, <1>6, <1>12
    <3>2. bs[m].chain \in Nat
      <4>1. bs[m] \in Batches
          BY <1>2
      <4> QED BY <4>1 DEF Batches
    <3>3. /\ bs[m].chain > 0 /\ fst > 0
          /\ \A j \in 1 .. m : j > fst => bs[j].patch = <<>>
          /\ bs[fst].kind = "chain" /\ bs[fst].region = bs[m].region /\ bs[fst].patch # <<>>
          /\ Release(bs[fst].patch, bs[m].chain, timeline + m)
        BY <3>1 DEF GoodBatches
    <3>4. fst \in 1 .. m /\ i - bs[m].chain + 1 = n + fst
      <4>1. PICK k \in Nat : k = bs[m].chain /\ k > 0 /\ m - k + 1 > 0
          BY <3>2, <3>3
      <4>2. i = n + m /\ m \in Nat /\ n \in Nat
          BY <2>3, <1>2
      <4>3. m - k + 1 \in 1 .. m /\ (n + m) - k + 1 = n + (m - k + 1)
          BY <4>1, <4>2
      <4> QED BY <4>1, <4>2, <4>3
    <3> HIDE DEF fst
    <3>5. queue'[n + fst].batch = bs[fst]
        BY <3>4, <1>6, <1>2
    <3>6. ASSUME NEW j \in 1 .. i, j > n + fst PROVE queue'[j].batch.patch = <<>>
      <4>1. PICK k \in Nat : k = j - n /\ k \in 1 .. m /\ k > fst /\ j = n + k
        <5>1. j - n \in Nat /\ j - n \in 1 .. m /\ j - n > fst /\ j = n + (j - n)
            BY <3>4, <3>6, <2>3, <1>2
        <5> QED BY <5>1
      <4>2. queue'[n + k].batch = bs[k] /\ bs[k].patch = <<>>
        <5>1. k \in 1 .. Len(bs)
            BY <4>1, <1>2
        <5>2. bs[k].patch = <<>>
            BY <4>1, <3>3
        <5>3. queue'[n + k].batch = bs[k]
            BY <5>1, <1>6
        <5> QED BY <5>2, <5>3
      <4> QED BY <4>1, <4>2
    <3>7. b = bs[m] /\ queue'[i].at = timeline + m /\ first = n + fst /\ first > 0
        BY <3>1, <3>4, <1>2
    <3> QED BY <3>3, <3>5, <3>6, <3>7 DEF ChainOK
  <2> QED BY <2>2, <2>3, <1>5, <1>7
<1>13. TailsOK'
  <2>1. \A q \in running' : q.batch.kind = "chain" =>
            Release(region'[q.batch.region].tails, q.batch.chain, q.at)
      BY <1>1 DEF TailsOK, TypesOK
  <2> QED BY <2>1, <1>12 DEF TailsOK
<1> QED BY <1>5, <1>8, <1>10, <1>11, <1>13

\* A replay is a list of batches to hand over, its tails' values its own.
LEMMA ReplayIsGood ==
    ASSUME NEW r \in Regions, NEW n \in Nat, NEW at0 \in Nat
    PROVE  /\ Proper(Replay(r, n, at0)) /\ GoodBatches(Replay(r, n, at0), at0)
           /\ Len(Replay(r, n, at0)) = Chains(n)
           /\ \A k \in 1 .. Chains(n) : /\ Replay(r, n, at0)[k].kind = "chain"
                                       /\ Replay(r, n, at0)[k].region = r
                                       /\ Replay(r, n, at0)[k].chain = k
<1> DEFINE c == Chains(n)
           R == Replay(r, n, at0)
           all == [j \in 1 .. c |-> at0 + j]
<1>1. c \in Nat
    BY ChainsCount
<1> HIDE DEF c
<1>2. all \in Seq(Nat) /\ (c > 0 => all # <<>>) /\ DOMAIN all = 1 .. c
    BY <1>1
<1>3. R = [k \in 1 .. c |-> Batch("chain", None, r, k, IF k = 1 THEN all ELSE <<>>)]
    BY DEF Replay, c
<1> HIDE DEF all, R
<1>4. ASSUME NEW k \in 1 .. c
      PROVE  /\ R[k] \in Batches /\ R[k].kind = "chain" /\ R[k].region = r /\ R[k].chain = k
             /\ R[k].patch = IF k = 1 THEN all ELSE <<>>
  <2>1. R[k] = Batch("chain", None, r, k, IF k = 1 THEN all ELSE <<>>)
      BY <1>3
  <2>2. (IF k = 1 THEN all ELSE <<>>) \in Seq(Nat) /\ k \in Nat
      BY <1>1, <1>2
  <2> QED BY <2>1, <2>2 DEF Batch, Batches
<1>5. R \in Seq(Batches) /\ Len(R) = c
    BY <1>1, <1>3, <1>4
<1>6. Proper(R)
    BY <1>4, <1>5 DEF Proper
<1>7. ASSUME NEW m \in 1 .. c
      PROVE  LET first == m - R[m].chain + 1
             IN  /\ R[m].chain > 0 /\ first > 0
                 /\ \A j \in 1 .. m : j > first => R[j].patch = <<>>
                 /\ R[first].kind = "chain" /\ R[first].region = R[m].region /\ R[first].patch # <<>>
                 /\ Release(R[first].patch, R[m].chain, at0 + m)
  <2>1. m - R[m].chain + 1 = 1 /\ 1 \in 1 .. c
      BY <1>1, <1>4
  <2>2. \A j \in 1 .. m : j > 1 => R[j].patch = <<>>
      BY <1>1, <1>4
  <2>3. R[1].patch = all /\ all # <<>> /\ all[m] = at0 + m
      BY <1>1, <1>2, <1>4, <2>1 DEF all
  <2> QED BY <2>1, <2>2, <2>3, <1>4, <1>1 DEF Release
<1>8. GoodBatches(R, at0)
    BY <1>5, <1>7 DEF GoodBatches
<1> QED BY <1>4, <1>5, <1>6, <1>8 DEF c, R

\* Work before a list of chains only puts it further on.
LEMMA WorkBefore ==
    ASSUME NEW ws, NEW bs, Proper(ws), Proper(bs), NEW at0 \in Nat,
           \A i \in 1 .. Len(ws) : ws[i].kind # "chain", GoodBatches(bs, at0 + Len(ws))
    PROVE  /\ Proper(ws \o bs) /\ GoodBatches(ws \o bs, at0)
           /\ Len(ws \o bs) = Len(ws) + Len(bs)
           /\ \A i \in 1 .. Len(ws) : (ws \o bs)[i] = ws[i]
           /\ \A m \in 1 .. Len(bs) : (ws \o bs)[Len(ws) + m] = bs[m]
<1>1. PICK w \in Nat : w = Len(ws)
    BY DEF Proper
<1>2. PICK b \in Nat : b = Len(bs)
    BY DEF Proper
<1>3. PICK all \in Seq(Batches) :
          /\ all = ws \o bs /\ Len(all) = w + b
          /\ \A i \in 1 .. w : all[i] = ws[i]
          /\ \A m \in 1 .. b : all[w + m] = bs[m]
  <2>1. ws \in Seq(Batches) /\ bs \in Seq(Batches)
      BY DEF Proper
  <2>2. /\ ws \o bs \in Seq(Batches) /\ Len(ws \o bs) = Len(ws) + Len(bs)
        /\ \A i \in 1 .. Len(ws) : (ws \o bs)[i] = ws[i]
        /\ \A m \in 1 .. Len(bs) : (ws \o bs)[Len(ws) + m] = bs[m]
      BY <2>1, JoinedSeqs
  <2> QED BY <2>2, <1>1, <1>2
<1>4. ASSUME NEW i \in 1 .. w + b, i \notin 1 .. w
      PROVE  \E m \in 1 .. b : i = w + m
  <2>1. i - w \in 1 .. b /\ i = w + (i - w)
      BY <1>4
  <2> QED BY <2>1
<1>5. Proper(all)
  <2>1. ASSUME NEW i \in 1 .. w + b, all[i].kind # "work" PROVE all[i].region \in Regions
    <3>1. CASE i \in 1 .. w
        BY <3>1, <2>1, <1>1, <1>3 DEF Proper
    <3>2. ASSUME NEW m \in 1 .. b, i = w + m PROVE all[i].region \in Regions
        BY <3>2, <2>1, <1>2, <1>3 DEF Proper
    <3> QED BY <3>1, <3>2, <1>4
  <2> QED BY <2>1, <1>3 DEF Proper
<1>6. ASSUME NEW i \in 1 .. w + b, all[i].kind = "chain"
      PROVE  LET first == i - all[i].chain + 1
             IN  /\ all[i].chain > 0 /\ first > 0
                 /\ \A j \in 1 .. i : j > first => all[j].patch = <<>>
                 /\ all[first].kind = "chain" /\ all[first].region = all[i].region
                 /\ all[first].patch # <<>>
                 /\ Release(all[first].patch, all[i].chain, at0 + i)
  <2>1. i \notin 1 .. w
      BY <1>1, <1>3, <1>6
  <2>2. PICK m \in 1 .. b : i = w + m
      BY <2>1, <1>4
  <2>3. all[i] = bs[m] /\ m \in Nat /\ at0 + i = at0 + w + m
      BY <2>2, <1>3
  <2>4. PICK first : first = m - bs[m].chain + 1
      OBVIOUS
  <2>5. /\ bs[m].chain > 0 /\ first > 0
        /\ \A j \in 1 .. m : j > first => bs[j].patch = <<>>
        /\ bs[first].kind = "chain" /\ bs[first].region = bs[m].region /\ bs[first].patch # <<>>
        /\ Release(bs[first].patch, bs[m].chain, at0 + w + m)
      BY <2>3, <2>4, <1>1, <1>2, <1>6 DEF GoodBatches
  <2>6. bs[m].chain \in Nat
    <3>1. bs[m] \in Batches
        BY <1>2 DEF Proper
    <3> QED BY <3>1 DEF Batches
  <2>7. first \in 1 .. m /\ first \in 1 .. b /\ i - all[i].chain + 1 = w + first
    <3>1. PICK c \in Nat : c = bs[m].chain /\ c > 0 /\ first = m - c + 1 /\ first > 0
        BY <2>4, <2>5, <2>6
    <3>2. i = w + m /\ all[i].chain = c
        BY <2>2, <2>3, <3>1
    <3>3. m \in Nat /\ m <= b
        OBVIOUS
    <3>4. first \in 1 .. m /\ first \in 1 .. b
        BY <3>1, <3>3
    <3>5. w + m - c + 1 = w + (m - c + 1)
        BY <3>1, <3>3
    <3>6. i - all[i].chain + 1 = w + m - c + 1
        BY <3>2
    <3>7. i - all[i].chain + 1 = w + first
        BY <3>1, <3>5, <3>6
    <3> QED BY <3>4, <3>7
  <2>8. all[w + first] = bs[first]
      BY <2>7, <1>3
  <2>9. ASSUME NEW j \in 1 .. i, j > w + first PROVE all[j].patch = <<>>
    <3>1. PICK k \in 1 .. m : k > first /\ j = w + k
      <4>1. PICK k \in Int : k = j - w
          OBVIOUS
      <4>2. j = w + k /\ j <= i
          BY <4>1
      <4>3. w + k > w + first /\ w + k <= w + m
          BY <4>2, <2>9, <2>2
      <4>4. k > first /\ k <= m /\ first \in Nat /\ first > 0
          BY <4>3, <2>3, <2>7
      <4> QED BY <4>2, <4>4
    <3>2. k \in 1 .. b
        BY <3>1, <2>3
    <3>3. all[j] = bs[k]
        BY <3>1, <3>2, <1>3
    <3> QED BY <3>1, <3>3, <2>5
  <2>10. w + first > 0
      BY <2>7
  <2> QED BY <2>3, <2>5, <2>7, <2>8, <2>9, <2>10
<1>7. GoodBatches(all, at0)
    BY <1>3, <1>6 DEF GoodBatches
<1> QED BY <1>1, <1>2, <1>3, <1>5, <1>7

\* What does one node each, and a seal, have no chain to patch.
LEMMA PlainIsGood ==
    ASSUME NEW bs, Proper(bs), \A i \in 1 .. Len(bs) : bs[i].kind # "chain", NEW at0
    PROVE  GoodBatches(bs, at0)
    BY DEF GoodBatches

-----------------------------------------------------------------------------
\* What the steps preserve.

\* A step that hands nothing over and leaves the tails alone.
LEMMA EnginesAlone ==
    ASSUME TypesOK, OrderOK, TailsOK, NothingSubmitted,
           \A r \in Regions : region'[r].tails = region[r].tails
    PROVE  /\ OrderOK' /\ TailsOK' /\ timeline' \in Nat /\ queue' \in Seq(Handed)
           /\ running' \subseteq Handed /\ sem' \in Nat
           /\ \A q \in running' : q.batch.kind # "work" => q.batch.region \in Regions
           /\ \A i \in 1 .. Len(queue') : queue'[i].batch.kind # "work" =>
                  queue'[i].batch.region \in Regions
<1>1. /\ timeline' = timeline /\ queue' = queue /\ running' = running /\ sem' = sem
    BY DEF NothingSubmitted, engineVars
<1>2. OrderOK'
    BY <1>1 DEF OrderOK, Begun
<1>3. ASSUME NEW i \in 1 .. Len(queue), queue[i].batch.kind = "chain" PROVE ChainOK(i)'
  <2>1. ChainOK(i) /\ queue[i].batch.region \in Regions
      BY <1>3 DEF TailsOK, TypesOK
  <2> QED BY <2>1, <1>1 DEF ChainOK
<1>4. TailsOK'
    BY <1>1, <1>3 DEF TailsOK, TypesOK
<1> QED BY <1>1, <1>2, <1>4 DEF TypesOK

\* A node: recorded, refused, or handed over.
LEMMA NodeKeeps ==
    ASSUME ReleaseInv, NEW n \in Things, DoNode(n)
    PROVE  /\ OrderOK' /\ TailsOK' /\ timeline' \in Nat /\ queue' \in Seq(Handed)
           /\ running' \subseteq Handed /\ sem' \in Nat
           /\ \A q \in running' : q.batch.kind # "work" => q.batch.region \in Regions
           /\ \A i \in 1 .. Len(queue') : queue'[i].batch.kind # "work" =>
                  queue'[i].batch.region \in Regions
           /\ region' \in [Regions -> Pairs] /\ rec' \in Recordings \cup {None}
           /\ (rec # None => rec' # None)
<1>1. TypesOK /\ OrderOK /\ TailsOK
    BY DEF ReleaseInv
<1>2. CASE n \in Kernels /\ rec # None
  <2>1. RecLaunch(n) /\ NothingSubmitted
      BY <1>2 DEF DoNode, RecLaunch
  <2>2. rec \in Recordings /\ rec.region \in Regions /\ region \in [Regions -> Pairs]
      BY <1>1, <1>2 DEF TypesOK, Recordings
  <2>3. /\ region' \in [Regions -> Pairs] /\ rec' \in Recordings
        /\ \A r \in Regions : region'[r].tails = region[r].tails
    <3>1. CASE /\ region' = [region EXCEPT ![rec.region].mirror = Append(@, n)] /\ UNCHANGED rec
      <4>1. region[rec.region] \in Pairs
          BY <2>2
      <4>2. Append(region[rec.region].mirror, n) \in Seq(Kernels)
          BY <4>1, <1>2 DEF Pairs
      <4>3. [region[rec.region] EXCEPT !.mirror = Append(@, n)] \in Pairs
          BY <4>1, <4>2 DEF Pairs
      <4>4. [region[rec.region] EXCEPT !.mirror = Append(@, n)].tails = region[rec.region].tails
          BY <4>1 DEF Pairs
      <4> QED BY <3>1, <4>3, <4>4, <2>2
    <3>2. CASE rec' = [rec EXCEPT !.failed = TRUE] /\ UNCHANGED region
        BY <3>2, <2>2 DEF Recordings
    <3> QED BY <3>1, <3>2, <2>1 DEF RecLaunch
  <2>4. rec' # None
      BY <2>3, GraphAssumption DEF Recordings
  <2> QED BY <2>1, <2>3, <2>4, <1>1, EnginesAlone
<1>3. CASE ~ (n \in Kernels /\ rec # None)
  <2>1. Submit(Work(n)) /\ UNCHANGED <<rec, region>>
      BY <1>3 DEF DoNode
  <2>2. Work(n)[1].kind = "work" /\ Work(n) \in Seq(Batches) /\ Len(Work(n)) = 1
      BY DEF Work, Batch, Batches
  <2>3. Proper(Work(n)) /\ GoodBatches(Work(n), timeline)
      BY <2>2, PlainIsGood DEF Proper
  <2>4. running' = running /\ sem' = sem
      BY <2>1 DEF Submit
  <2>5. \A r \in Regions : region'[r].tails = region[r].tails
      BY <2>1
  <2>6. /\ OrderOK' /\ TailsOK' /\ timeline' \in Nat /\ queue' \in Seq(Handed)
        /\ \A i \in 1 .. Len(queue') : queue'[i].batch.kind # "work" =>
               queue'[i].batch.region \in Regions
    <3> HIDE DEF DoNode
    <3> QED BY <2>1, <2>3, <2>5, <1>1, SubmitKeeps
  <2> QED BY <2>1, <2>4, <2>6, <1>1 DEF TypesOK
<1> QED BY <1>2, <1>3

\* A region given back: who keeps it, and nothing else.
LEMMA GivenBackKeeps ==
    ASSUME TypesOK, NEW r \in Regions
    PROVE  /\ GivenBack(r) \in [Regions -> Pairs]
           /\ \A s \in Regions : /\ GivenBack(r)[s].tails = region[s].tails
                                 /\ GivenBack(r)[s].mirror = region[s].mirror
                                 /\ GivenBack(r)[s].mem = region[s].mem
                                 /\ s # r => GivenBack(r)[s] = region[s]
<1>1. region \in [Regions -> Pairs] /\ \A s \in Regions : region[s] \in Pairs
    BY DEF TypesOK
<1> DEFINE k == IF Cardinality(Pooled) < PoolMax THEN "pool" ELSE "none"
<1>2. k \in {"none", "pool", "token"}
    OBVIOUS
<1>3. GivenBack(r) = [region EXCEPT ![r].keeper = k]
    BY DEF GivenBack
<1> HIDE DEF k
<1>4. /\ [region[r] EXCEPT !.keeper = k] \in Pairs
      /\ [region[r] EXCEPT !.keeper = k].tails = region[r].tails
      /\ [region[r] EXCEPT !.keeper = k].mirror = region[r].mirror
      /\ [region[r] EXCEPT !.keeper = k].mem = region[r].mem
    BY <1>1, <1>2 DEF Pairs
<1> QED BY <1>1, <1>3, <1>4

LEMMA ReleaseInit == ASSUME Init PROVE ReleaseInv
<1>1. execs \in [Execs -> Executables] /\ call \in Calls
    BY DEF Init, NoExec, NoCall, Executables, Calls
<1>2. region \in [Regions -> Pairs]
    BY DEF Init, Free, Pairs
<1>3. TypesOK
    BY <1>1, <1>2 DEF Init, TypesOK, NoCall
<1>4. timeline = 0 /\ sem = 0 /\ running = {} /\ Len(queue) = 0
    BY DEF Init
<1>5. OrderOK /\ TailsOK
    BY <1>4 DEF OrderOK, TailsOK, Begun
<1> QED BY <1>3, <1>5 DEF ReleaseInv

\* The nodes of an executable graph, and of a call.
LEMMA NodesAreThings ==
    ASSUME TypesOK, NEW e \in Execs
    PROVE  /\ execs[e] \in Executables /\ execs[e].nodes \in Seq(Kernels \cup Copies)
           /\ LaunchNodes(execs[e].nodes) \in Seq(Kernels)
           /\ CopyNodes(execs[e].nodes) \in Seq(Copies)
<1>1. execs[e] \in Executables
    BY DEF TypesOK
<1>2. execs[e].nodes \in Programs \/ execs[e].nodes = <<>>
    BY <1>1 DEF Executables
<1>3. PICK s \in Seq(Kernels \cup Copies) : s = execs[e].nodes
  <2>1. \A p \in Programs : p \in Seq(Kernels \cup Copies)
      BY GraphAssumption
  <2>2. execs[e].nodes \in Seq(Kernels \cup Copies)
    <3>1. CASE execs[e].nodes \in Programs
        BY <3>1, <2>1
    <3>2. CASE execs[e].nodes = <<>>
        BY <3>2
    <3> QED BY <3>1, <3>2, <1>2
  <2> QED BY <2>2
<1>4. OfKind(s, Kernels) \in Seq((Kernels \cup Copies) \cap Kernels)
    BY OfKindLists
<1>5. OfKind(s, Copies) \in Seq((Kernels \cup Copies) \cap Copies)
    BY OfKindLists
<1>6. (Kernels \cup Copies) \cap Kernels = Kernels /\ (Kernels \cup Copies) \cap Copies = Copies
    OBVIOUS
<1> QED BY <1>1, <1>3, <1>4, <1>5, <1>6 DEF LaunchNodes, CopyNodes

\* The driver's engines are left alone by a step of the capture, and by the
\* calls that only change the books.
LEMMA BooksKeep ==
    ASSUME ReleaseInv, UNCHANGED <<rec, region, timeline, engineVars>>,
           graph' \in Programs \cup {None}, execs' \in [Execs -> Executables],
           call' \in Calls, call'.pc # "none" => call'.exec \in Execs /\ call'.i > 0,
           call'.pc = "nodes" /\ call'.recording => rec # None
    PROVE  ReleaseInv'
<1>1. TypesOK /\ OrderOK /\ TailsOK
    BY DEF ReleaseInv
<1>2. NothingSubmitted /\ \A r \in Regions : region'[r].tails = region[r].tails
    BY DEF NothingSubmitted
<1>3. /\ OrderOK' /\ TailsOK' /\ timeline' \in Nat /\ queue' \in Seq(Handed)
      /\ running' \subseteq Handed /\ sem' \in Nat
      /\ \A q \in running' : q.batch.kind # "work" => q.batch.region \in Regions
      /\ \A i \in 1 .. Len(queue') : queue'[i].batch.kind # "work" =>
             queue'[i].batch.region \in Regions
    BY <1>1, <1>2, EnginesAlone
<1>4. TypesOK'
    BY <1>1, <1>3 DEF TypesOK
<1> QED BY <1>3, <1>4 DEF ReleaseInv

LEMMA CaptureKeepsRelease ==
    ASSUME ReleaseInv, BeginCapture \/ CaptureNode \/ CaptureRefuse \/ EndCapture \/ GraphDestroy
    PROVE  ReleaseInv'
<1>1. UNCHANGED <<execs, call, rec, region, timeline, engineVars>>
    BY DEF BeginCapture, CaptureNode, CaptureRefuse, EndCapture, GraphDestroy, OnlyCapture,
       ghostVars
<1>2. graph' \in Programs \cup {None}
  <2>1. graph \in Programs \cup {None}
      BY DEF ReleaseInv, TypesOK
  <2>2. CASE EndCapture
      BY <2>2 DEF EndCapture
  <2>3. CASE ~EndCapture
      BY <2>1, <2>3 DEF BeginCapture, CaptureNode, CaptureRefuse, GraphDestroy
  <2> QED BY <2>2, <2>3
<1>3. TypesOK
    BY DEF ReleaseInv
<1>4. /\ execs' \in [Execs -> Executables] /\ call' \in Calls
      /\ call'.pc # "none" => call'.exec \in Execs /\ call'.i > 0
      /\ call'.pc = "nodes" /\ call'.recording => rec # None
    BY <1>1, <1>3 DEF TypesOK
<1> QED BY <1>1, <1>2, <1>4, BooksKeep

LEMMA InstantiateKeepsRelease ==
    ASSUME ReleaseInv, NEW e \in Execs, Instantiate(e) PROVE ReleaseInv'
<1>1. TypesOK
    BY DEF ReleaseInv
<1>2. execs' \in [Execs -> Executables]
  <2>1. [NoExec EXCEPT !.live = TRUE, !.nodes = graph] \in Executables
      BY <1>1 DEF Instantiate, TypesOK, NoExec, Executables
  <2> QED BY <2>1, <1>1 DEF Instantiate, TypesOK
<1>3. UNCHANGED <<rec, region, timeline, engineVars, call, graph>>
    BY DEF Instantiate, captureVars
<1> QED BY <1>1, <1>2, <1>3, BooksKeep DEF TypesOK

\* The token of an executable graph goes back, or there is none.
LEMMA DropKeepsRelease ==
    ASSUME ReleaseInv, NEW e \in Execs, DropResident(e), execs' \in [Execs -> Executables],
           UNCHANGED <<captureVars, call, rec, timeline, engineVars>>
    PROVE  ReleaseInv'
<1>1. TypesOK /\ OrderOK /\ TailsOK
    BY DEF ReleaseInv
<1>2. execs[e].drv = None \/ execs[e].drv \in Regions
    BY <1>1 DEF TypesOK, Executables
<1>3. region' \in [Regions -> Pairs] /\ \A r \in Regions : region'[r].tails = region[r].tails
  <2>1. CASE execs[e].drv = None
      BY <2>1, <1>1 DEF DropResident, TypesOK
  <2>2. CASE execs[e].drv # None
      BY <2>2, <1>1, <1>2, GivenBackKeeps DEF DropResident
  <2> QED BY <2>1, <2>2
<1>4. NothingSubmitted
    BY DEF NothingSubmitted
<1>5. /\ OrderOK' /\ TailsOK' /\ timeline' \in Nat /\ queue' \in Seq(Handed)
      /\ running' \subseteq Handed /\ sem' \in Nat
      /\ \A q \in running' : q.batch.kind # "work" => q.batch.region \in Regions
      /\ \A i \in 1 .. Len(queue') : queue'[i].batch.kind # "work" =>
             queue'[i].batch.region \in Regions
    BY <1>1, <1>3, <1>4, EnginesAlone
<1>6. TypesOK'
    BY <1>1, <1>3, <1>5 DEF TypesOK, captureVars
<1> QED BY <1>5, <1>6 DEF ReleaseInv

LEMMA UpdateKeepsRelease ==
    ASSUME ReleaseInv, NEW e \in Execs, ExecUpdate(e) \/ ExecDestroy(e) PROVE ReleaseInv'
<1>1. TypesOK
    BY DEF ReleaseInv
<1>2. execs \in [Execs -> Executables] /\ execs[e] \in Executables
    BY <1>1 DEF TypesOK
<1>3. execs' \in [Execs -> Executables]
  <2>1. CASE ExecUpdate(e)
    <3>1. PICK nodes \in {graph, execs[e].nodes} : execs' = [execs EXCEPT ![e] = Updated(e, nodes)]
        BY <2>1 DEF ExecUpdate
    <3>2. nodes \in Programs \cup {<<>>}
        BY <2>1, <1>1, <1>2 DEF ExecUpdate, TypesOK, Executables
    <3>3. Updated(e, nodes) \in Executables
        BY <3>2, <1>2 DEF Updated, Executables
    <3> QED BY <3>1, <3>3, <1>2
  <2>2. CASE ExecDestroy(e)
      BY <2>2, <1>2 DEF ExecDestroy, NoExec, Executables
  <2> QED BY <2>1, <2>2
<1>4. DropResident(e) /\ UNCHANGED <<captureVars, call, rec, timeline, engineVars>>
    BY DEF ExecUpdate, ExecDestroy
<1> QED BY <1>3, <1>4, DropKeepsRelease

\* The rest of the invariant, for a step that keeps the engines' part of it.
LEMMA PartsMake ==
    ASSUME OrderOK', TailsOK', timeline' \in Nat, queue' \in Seq(Handed),
           running' \subseteq Handed, sem' \in Nat,
           \A q \in running' : q.batch.kind # "work" => q.batch.region \in Regions,
           \A i \in 1 .. Len(queue') : queue'[i].batch.kind # "work" =>
               queue'[i].batch.region \in Regions,
           region' \in [Regions -> Pairs], rec' \in Recordings \cup {None},
           graph' \in Programs \cup {None}, execs' \in [Execs -> Executables],
           call' \in Calls, call'.pc # "none" => call'.exec \in Execs /\ call'.i > 0,
           call'.pc = "nodes" /\ call'.recording => rec' # None
    PROVE  ReleaseInv'
    BY DEF ReleaseInv, TypesOK

LEMMA DirectKeepsRelease == ASSUME ReleaseInv, DirectWork PROVE ReleaseInv'
<1>1. TypesOK
    BY DEF ReleaseInv
<1>2. PICK n \in Loose : DoNode(n)
    BY DEF DirectWork
<1>3. n \in Things
    BY DEF Things
<1>4. /\ OrderOK' /\ TailsOK' /\ timeline' \in Nat /\ queue' \in Seq(Handed)
      /\ running' \subseteq Handed /\ sem' \in Nat
      /\ \A q \in running' : q.batch.kind # "work" => q.batch.region \in Regions
      /\ \A i \in 1 .. Len(queue') : queue'[i].batch.kind # "work" =>
             queue'[i].batch.region \in Regions
      /\ region' \in [Regions -> Pairs] /\ rec' \in Recordings \cup {None}
    BY <1>2, <1>3, NodeKeeps
<1>5. UNCHANGED <<graph, execs, call>> /\ call.pc = "none"
    BY DEF DirectWork, captureVars, Idle
<1>6. /\ graph' \in Programs \cup {None} /\ execs' \in [Execs -> Executables]
      /\ call' \in Calls /\ call'.pc = "none"
    BY <1>1, <1>5 DEF TypesOK
<1> QED BY <1>4, <1>6, PartsMake

LEMMA NodeKeepsRelease == ASSUME ReleaseInv, LaunchNode PROVE ReleaseInv'
<1>1. TypesOK
    BY DEF ReleaseInv
<1>2. /\ call \in Calls /\ call.exec \in Execs /\ call.pc \in {"nodes", "again"} /\ call.i \in Nat
      /\ call.i > 0
    BY <1>1 DEF LaunchNode, TypesOK, Calls
<1>3. NodesOf(call) \in Seq(Kernels \cup Copies)
  <2>1. execs[call.exec].nodes \in Seq(Kernels \cup Copies)
        /\ LaunchNodes(execs[call.exec].nodes) \in Seq(Kernels)
      BY <1>1, <1>2, NodesAreThings
  <2>2. LaunchNodes(execs[call.exec].nodes) \in Seq(Kernels \cup Copies)
      BY <2>1
  <2> QED BY <2>1, <2>2 DEF NodesOf
<1>4. PICK n : /\ n = NodesOf(call)[call.i] /\ DoNode(n)
               /\ call' = IF rec' # None /\ rec'.failed /\ n \in Kernels
                          THEN NoCall ELSE [call EXCEPT !.i = @ + 1]
    BY DEF LaunchNode
<1>5. n \in Things
  <2>1. \E i \in 1 .. Len(NodesOf(call)) : n = NodesOf(call)[i]
    <3>1. call.i <= Len(NodesOf(call)) /\ Len(NodesOf(call)) \in Nat
        BY <1>3 DEF LaunchNode
    <3>2. call.i \in 1 .. Len(NodesOf(call))
        BY <3>1, <1>2
    <3> QED BY <3>2, <1>4
  <2> QED BY <2>1, <1>3 DEF Things
<1>6. /\ OrderOK' /\ TailsOK' /\ timeline' \in Nat /\ queue' \in Seq(Handed)
      /\ running' \subseteq Handed /\ sem' \in Nat
      /\ \A q \in running' : q.batch.kind # "work" => q.batch.region \in Regions
      /\ \A i \in 1 .. Len(queue') : queue'[i].batch.kind # "work" =>
             queue'[i].batch.region \in Regions
      /\ region' \in [Regions -> Pairs] /\ rec' \in Recordings \cup {None}
      /\ (rec # None => rec' # None)
    BY <1>4, <1>5, NodeKeeps
<1>7. call' \in Calls /\ (call'.pc # "none" => call'.exec \in Execs /\ call'.i > 0)
      /\ (call'.pc = "nodes" /\ call'.recording => rec' # None)
  <2>1. CASE call' = NoCall
      BY <2>1 DEF NoCall, Calls
  <2>2. CASE call' = [call EXCEPT !.i = @ + 1]
    <3>1. call.i + 1 \in Nat /\ call.i + 1 > 0
        BY <1>2
    <3>2. call'.pc = call.pc /\ call'.recording = call.recording /\ call'.exec = call.exec
          /\ call' \in Calls /\ call'.i > 0
        BY <2>2, <3>1, <1>2 DEF Calls
    <3> QED BY <3>2, <1>1, <1>2, <1>6 DEF TypesOK
  <2> QED BY <2>1, <2>2, <1>4
<1>8. graph' \in Programs \cup {None} /\ execs' \in [Execs -> Executables]
    BY <1>1 DEF LaunchNode, captureVars, TypesOK
<1> QED BY <1>6, <1>7, <1>8, PartsMake

LEMMA ReturnKeepsRelease == ASSUME ReleaseInv, LaunchReturns PROVE ReleaseInv'
<1>1. TypesOK
    BY DEF ReleaseInv
<1>2. call' = NoCall /\ UNCHANGED <<graph, execs, rec, region, timeline, engineVars>>
    BY DEF LaunchReturns, captureVars
<1>3. call' \in Calls /\ call'.pc = "none"
    BY <1>2 DEF NoCall, Calls
<1> QED BY <1>1, <1>2, <1>3, BooksKeep DEF TypesOK

LEMMA LaunchKeepsRelease == ASSUME ReleaseInv, NEW e \in Execs, GraphLaunch(e) PROVE ReleaseInv'
<1>1. TypesOK /\ OrderOK /\ TailsOK
    BY DEF ReleaseInv
<1>2. /\ execs[e] \in Executables /\ execs[e].nodes \in Seq(Kernels \cup Copies)
      /\ CopyNodes(execs[e].nodes) \in Seq(Copies)
    BY <1>1, NodesAreThings
<1>3. UNCHANGED graph /\ call.pc = "none"
    BY DEF GraphLaunch, captureVars, Idle
<1>4. CASE execs[e].drv # None
  <2>1. LaunchResident(e)
      BY <1>4 DEF GraphLaunch
  <2> DEFINE r == execs[e].drv
             n == Len(region[r].mirror)
             copies == CopyNodes(execs[e].nodes)
             ws == [i \in DOMAIN copies |-> Work(copies[i])[1]]
  <2>2. r \in Regions /\ n \in Nat
    <3>1. r \in Regions
        BY <1>2, <1>4 DEF Executables
    <3>2. region[r] \in Pairs
        BY <3>1, <1>1 DEF TypesOK
    <3> QED BY <3>1, <3>2 DEF Pairs
  <2>3. Len(copies) \in Nat /\ DOMAIN copies = 1 .. Len(copies)
      BY <1>2
  <2>4. ASSUME NEW i \in DOMAIN copies
        PROVE  Work(copies[i])[1] \in Batches /\ Work(copies[i])[1].kind = "work"
    <3>1. copies[i] \in Things
        BY <1>2, <2>4 DEF Things
    <3> QED BY <3>1 DEF Work, Batch, Batches
  <2>5. ws \in Seq(Batches) /\ Len(ws) = Len(copies) /\ \A i \in 1 .. Len(ws) : ws[i].kind = "work"
      BY <2>3, <2>4
  <2>6. Proper(ws)
      BY <2>5 DEF Proper
  <2>7. timeline + Len(copies) \in Nat
      BY <2>3, <1>1 DEF TypesOK
  <2>8. PICK bs : bs = Replay(r, n, timeline + Len(copies))
      OBVIOUS
  <2>9. Proper(bs) /\ GoodBatches(bs, timeline + Len(ws))
    <3>1. PICK at0 \in Nat : at0 = timeline + Len(copies)
        BY <2>7
    <3>2. bs = Replay(r, n, at0) /\ at0 = timeline + Len(ws)
        BY <3>1, <2>5, <2>8
    <3> HIDE DEF r, n, ws
    <3>3. Proper(Replay(r, n, at0)) /\ GoodBatches(Replay(r, n, at0), at0)
        BY <2>2, ReplayIsGood
    <3> QED BY <3>2, <3>3
  <2>10. Submit(ws \o bs) /\ UNCHANGED <<execs, call, rec, region>>
      BY <2>1, <2>8 DEF LaunchResident
  <2> HIDE DEF ws, copies, n, r
  <2>11. PICK all : all = ws \o bs
      OBVIOUS
  <2>12. Proper(all) /\ GoodBatches(all, timeline)
    <3>1. timeline \in Nat
        BY <1>1 DEF TypesOK
    <3> QED BY <3>1, <2>5, <2>6, <2>9, <2>11, WorkBefore
  <2>13. running' = running /\ sem' = sem
      BY <2>10 DEF Submit
  <2>14. \A s \in Regions : region'[s].tails = region[s].tails
      BY <2>10
  <2>15. /\ OrderOK' /\ TailsOK' /\ timeline' \in Nat /\ queue' \in Seq(Handed)
         /\ \A i \in 1 .. Len(queue') : queue'[i].batch.kind # "work" =>
                queue'[i].batch.region \in Regions
    <3>1. Submit(all)
        BY <2>10, <2>11
    <3> QED BY <3>1, <2>12, <2>14, <1>1, SubmitKeeps
  <2>16. TypesOK'
      BY <2>10, <2>13, <2>15, <1>1, <1>3 DEF TypesOK
  <2> QED BY <2>15, <2>16 DEF ReleaseInv
<1>5. CASE execs[e].drv = None
  <2>1. GraphBegin(e) /\ NothingSubmitted
      BY <1>5 DEF GraphLaunch
  <2>2. /\ rec' \in Recordings \cup {None} /\ region' \in [Regions -> Pairs]
        /\ \A r \in Regions : region'[r].tails = region[r].tails
        /\ execs' \in [Execs -> Executables] /\ call' \in Calls /\ call'.exec \in Execs
        /\ call'.i > 0 /\ (call'.recording => rec' # None)
    <3>1. ASSUME NEW r \in Regions, RecordInto(r), Enter("nodes", e, TRUE), UNCHANGED execs
          PROVE  <2>2!:
      <4>1. region[r] \in Pairs /\ region \in [Regions -> Pairs] /\ execs \in [Execs -> Executables]
          BY <1>1 DEF TypesOK
      <4>2. PICK p : p = [Free EXCEPT !.keeper = "token", !.mem = region[r].mem,
                                      !.tails = region[r].tails]
          OBVIOUS
      <4>3. p \in Pairs /\ p.tails = region[r].tails
        <5>1. region[r].mem \in Seq(Kernels) /\ region[r].tails \in Seq(Nat) /\ <<>> \in Seq(Kernels)
            BY <4>1 DEF Pairs
        <5>2. p = [keeper |-> "token", mirror |-> <<>>, mem |-> region[r].mem,
                tails |-> region[r].tails]
            BY <4>2 DEF Free
        <5> QED BY <5>1, <5>2 DEF Pairs
      <4>4. region' = [region EXCEPT ![r] = p]
          BY <3>1, <4>2 DEF RecordInto
      <4>5. rec' \in Recordings /\ rec' # None
        <5>1. rec' = [region |-> r, failed |-> FALSE]
            BY <3>1 DEF RecordInto
        <5>2. rec' \in [region : Regions, failed : BOOLEAN]
            BY <5>1
        <5> QED BY <5>2, GraphAssumption DEF Recordings
      <4>6. call' \in Calls /\ call'.exec \in Execs /\ call'.i > 0
          BY <3>1 DEF Enter, Calls
      <4> QED BY <3>1, <4>1, <4>3, <4>4, <4>5, <4>6
    <3>2. ASSUME Enter("nodes", e, FALSE), UNCHANGED <<rec, region>>,
                 execs' = [execs EXCEPT ![e].refused = TRUE]
          PROVE  <2>2!:
      <4>1. [execs[e] EXCEPT !.refused = TRUE] \in Executables
          BY <1>2 DEF Executables
      <4>2. execs' \in [Execs -> Executables]
          BY <3>2, <4>1, <1>1 DEF TypesOK
      <4>3. call' \in Calls /\ call'.exec \in Execs /\ ~call'.recording /\ call'.i > 0
          BY <3>2 DEF Enter, Calls
      <4> QED BY <3>2, <4>2, <4>3, <1>1 DEF TypesOK
    <3> QED BY <2>1, <3>1, <3>2 DEF GraphBegin
  <2>3. /\ OrderOK' /\ TailsOK' /\ timeline' \in Nat /\ queue' \in Seq(Handed)
        /\ running' \subseteq Handed /\ sem' \in Nat
        /\ \A q \in running' : q.batch.kind # "work" => q.batch.region \in Regions
        /\ \A i \in 1 .. Len(queue') : queue'[i].batch.kind # "work" =>
               queue'[i].batch.region \in Regions
      BY <2>1, <2>2, <1>1, EnginesAlone
  <2>4. graph' \in Programs \cup {None}
      BY <1>1, <1>3 DEF TypesOK
  <2> QED BY <2>2, <2>3, <2>4, PartsMake
<1> QED BY <1>4, <1>5

\* A recording that is refused goes back, and the call goes round again.
LEMMA RefusedTypes ==
    ASSUME TypesOK, call.exec \in Execs, rec \in Recordings, EndsRefused
    PROVE  /\ region' \in [Regions -> Pairs] /\ \A s \in Regions : region'[s].tails = region[s].tails
           /\ execs' \in [Execs -> Executables]
           /\ call' \in Calls /\ call'.exec \in Execs /\ call'.i > 0 /\ call'.pc = "again"
<1>1. rec.region \in Regions
    BY DEF Recordings
<1>2. region' \in [Regions -> Pairs] /\ \A s \in Regions : region'[s].tails = region[s].tails
    BY <1>1, GivenBackKeeps DEF EndsRefused
<1>3. [execs[call.exec] EXCEPT !.refused = TRUE] \in Executables /\ execs \in [Execs -> Executables]
    BY DEF TypesOK, Executables
<1>4. execs' \in [Execs -> Executables]
    BY <1>3 DEF EndsRefused
<1>5. call' \in Calls /\ call'.exec \in Execs /\ call'.i > 0 /\ call'.pc = "again"
  <2>1. call \in Calls /\ call' = [call EXCEPT !.pc = "again", !.i = 1]
    <3>1. call \in Calls
        BY DEF TypesOK
    <3> QED BY <3>1 DEF EndsRefused, AfterRefusal
  <2>2. call' = [pc |-> "again", exec |-> call.exec, i |-> 1, recording |-> call.recording]
        /\ call.recording \in BOOLEAN
      BY <2>1 DEF Calls
  <2> QED BY <2>2 DEF Calls
<1> QED BY <1>2, <1>4, <1>5

LEMMA EndKeepsRelease == ASSUME ReleaseInv, GraphEnd PROVE ReleaseInv'
<1>1. TypesOK /\ OrderOK /\ TailsOK
    BY DEF ReleaseInv
<1>2. call \in Calls /\ call.exec \in Execs /\ rec # None
    BY <1>1 DEF GraphEnd, TypesOK
<1>3. rec \in Recordings /\ rec.region \in Regions
    BY <1>1, <1>2 DEF TypesOK, Recordings
<1> DEFINE r == rec.region
           n == Len(region[r].mirror)
           seal == <<Batch("seal", None, r, 0, <<>>)>>
<1>4. n \in Nat /\ timeline \in Nat /\ timeline + 1 \in Nat
  <2>1. region[r] \in Pairs
      BY <1>1, <1>3 DEF TypesOK
  <2>2. timeline \in Nat
      BY <1>1 DEF TypesOK
  <2> QED BY <2>1, <2>2 DEF Pairs
<1>5. Proper(seal) /\ Len(seal) = 1 /\ \A i \in 1 .. Len(seal) : seal[i].kind # "chain"
  <2>1. seal[1] = Batch("seal", None, r, 0, <<>>) /\ Len(seal) = 1
      OBVIOUS
  <2>2. Batch("seal", None, r, 0, <<>>) \in Batches
      BY <1>3 DEF Batch, Batches
  <2>3. seal \in Seq(Batches)
      BY <2>2
  <2>4. seal[1].kind = "seal" /\ seal[1].region \in Regions
      BY <2>1, <1>3 DEF Batch
  <2> QED BY <2>1, <2>3, <2>4 DEF Proper
<1>6. UNCHANGED graph /\ rec' = None
    BY DEF GraphEnd, captureVars
<1>7. graph' \in Programs \cup {None} /\ rec' \in Recordings \cup {None}
    BY <1>1, <1>6 DEF TypesOK
<1>8. CASE /\ Submit(seal \o Replay(r, n, timeline + 1)) /\ UNCHANGED region
           /\ execs' = [execs EXCEPT ![call.exec].drv = r] /\ call' = NoCall
  <2>1. PICK bs : bs = Replay(r, n, timeline + 1)
      OBVIOUS
  <2>2. Proper(bs) /\ GoodBatches(bs, timeline + 1)
      BY <2>1, <1>3, <1>4, ReplayIsGood
  <2>3. PICK s : s = seal
      OBVIOUS
  <2>4. PICK all : all = s \o bs
      OBVIOUS
  <2>5. Submit(all)
      BY <1>8, <2>1, <2>3, <2>4
  <2>6. Proper(all) /\ GoodBatches(all, timeline)
    <3>1. Proper(s) /\ Len(s) = 1 /\ \A i \in 1 .. Len(s) : s[i].kind # "chain"
        BY <1>5, <2>3
    <3> HIDE DEF seal, r, n
    <3> QED BY <3>1, <1>4, <2>2, <2>4, WorkBefore
  <2>7. \A t \in Regions : region'[t].tails = region[t].tails
      BY <1>8
  <2>8. /\ OrderOK' /\ TailsOK' /\ timeline' \in Nat /\ queue' \in Seq(Handed)
        /\ \A i \in 1 .. Len(queue') : queue'[i].batch.kind # "work" =>
               queue'[i].batch.region \in Regions
      BY <2>5, <2>6, <2>7, <1>1, SubmitKeeps
  <2>9. /\ running' \subseteq Handed /\ sem' \in Nat
        /\ \A q \in running' : q.batch.kind # "work" => q.batch.region \in Regions
      BY <2>5, <1>1 DEF Submit, TypesOK
  <2>10. execs' \in [Execs -> Executables]
    <3>1. [execs[call.exec] EXCEPT !.drv = r] \in Executables /\ execs \in [Execs -> Executables]
        BY <1>1, <1>2, <1>3 DEF TypesOK, Executables
    <3> QED BY <3>1, <1>8
  <2>11. call' \in Calls /\ call'.pc = "none" /\ region' \in [Regions -> Pairs]
      BY <1>1, <1>8 DEF NoCall, Calls, TypesOK
  <2> QED BY <1>7, <2>8, <2>9, <2>10, <2>11, PartsMake
<1>9. CASE NothingSubmitted /\ EndsRefused
  <2>1. /\ region' \in [Regions -> Pairs] /\ \A s \in Regions : region'[s].tails = region[s].tails
        /\ execs' \in [Execs -> Executables]
        /\ call' \in Calls /\ call'.exec \in Execs /\ call'.i > 0 /\ call'.pc = "again"
      BY <1>1, <1>2, <1>3, <1>9, RefusedTypes
  <2>2. /\ OrderOK' /\ TailsOK' /\ timeline' \in Nat /\ queue' \in Seq(Handed)
        /\ running' \subseteq Handed /\ sem' \in Nat
        /\ \A q \in running' : q.batch.kind # "work" => q.batch.region \in Regions
        /\ \A i \in 1 .. Len(queue') : queue'[i].batch.kind # "work" =>
               queue'[i].batch.region \in Regions
      BY <1>1, <1>9, <2>1, EnginesAlone
  <2> QED BY <1>7, <2>1, <2>2, PartsMake
<1>10. CASE Submit(seal) /\ EndsRefused
  <2>1. /\ region' \in [Regions -> Pairs] /\ \A s \in Regions : region'[s].tails = region[s].tails
        /\ execs' \in [Execs -> Executables]
        /\ call' \in Calls /\ call'.exec \in Execs /\ call'.i > 0 /\ call'.pc = "again"
      BY <1>1, <1>2, <1>3, <1>10, RefusedTypes
  <2>2. PICK s : s = seal
      OBVIOUS
  <2>3. Submit(s) /\ Proper(s) /\ GoodBatches(s, timeline)
    <3>1. Submit(s) /\ Proper(s) /\ \A i \in 1 .. Len(s) : s[i].kind # "chain"
        BY <1>5, <1>10, <2>2
    <3> HIDE DEF seal, r, n
    <3> QED BY <3>1, PlainIsGood
  <2>4. /\ OrderOK' /\ TailsOK' /\ timeline' \in Nat /\ queue' \in Seq(Handed)
        /\ \A i \in 1 .. Len(queue') : queue'[i].batch.kind # "work" =>
               queue'[i].batch.region \in Regions
      BY <2>1, <2>3, <1>1, SubmitKeeps
  <2>5. /\ running' \subseteq Handed /\ sem' \in Nat
        /\ \A q \in running' : q.batch.kind # "work" => q.batch.region \in Regions
      BY <2>3, <1>1 DEF Submit, TypesOK
  <2> QED BY <1>7, <2>1, <2>4, <2>5, PartsMake
<1> QED BY <1>8, <1>9, <1>10 DEF GraphEnd

\* The engine begins the next batch: only when nothing runs.
LEMMA BeginIsNext ==
    ASSUME TypesOK, OrderOK, EngineBegins
    PROVE  /\ running = {} /\ sem = Begun /\ Len(queue) \in Nat \ {0} /\ Head(queue) = queue[1]
           /\ queue' \in Seq(Handed) /\ Len(queue') = Len(queue) - 1
           /\ \A i \in 1 .. Len(queue') : queue'[i] = queue[i + 1] /\ i + 1 \in 1 .. Len(queue)
           /\ Begun' = Begun + 1 /\ running' = {queue[1]} /\ queue[1].at = Begun + 1
           /\ queue[1] \in Handed /\ timeline' = timeline /\ sem' = sem
<1>1. queue # <<>> /\ sem >= Head(queue).after /\ running' = running \cup {Head(queue)}
      /\ queue' = Tail(queue) /\ timeline' = timeline /\ sem' = sem
    BY DEF EngineBegins
<1>2. PICK q \in Seq(Handed) : q = queue /\ q # <<>>
    BY <1>1 DEF TypesOK
<1>3. /\ Len(q) \in Nat \ {0} /\ Head(q) = q[1] /\ Tail(q) \in Seq(Handed) /\ q[1] \in Handed
      /\ Len(Tail(q)) = Len(q) - 1
      /\ \A i \in 1 .. Len(Tail(q)) : Tail(q)[i] = q[i + 1] /\ i + 1 \in 1 .. Len(q)
    BY <1>2
<1>4. q[1].at = Begun + 1 /\ q[1].after = Begun /\ Begun \in Nat /\ sem \in Nat
    BY <1>2, <1>3 DEF OrderOK, TypesOK
<1>5. running = {} /\ sem = Begun
    BY <1>1, <1>2, <1>3, <1>4 DEF OrderOK
<1>6. timeline \in Nat /\ Begun' = Begun + 1
    BY <1>1, <1>2, <1>3 DEF Begun, TypesOK
<1> QED BY <1>1, <1>2, <1>3, <1>4, <1>5, <1>6

LEMMA BeginKeepsRelease == ASSUME ReleaseInv, EngineBegins PROVE ReleaseInv'
<1>1. TypesOK /\ OrderOK /\ TailsOK
    BY DEF ReleaseInv
<1>2. /\ running = {} /\ sem = Begun /\ Len(queue) \in Nat \ {0} /\ Head(queue) = queue[1]
      /\ queue' \in Seq(Handed) /\ Len(queue') = Len(queue) - 1
      /\ \A i \in 1 .. Len(queue') : queue'[i] = queue[i + 1] /\ i + 1 \in 1 .. Len(queue)
      /\ Begun' = Begun + 1 /\ running' = {queue[1]} /\ queue[1].at = Begun + 1
      /\ queue[1] \in Handed /\ timeline' = timeline /\ sem' = sem
    BY <1>1, BeginIsNext
<1> DEFINE b == queue[1].batch
<1>3. b \in Batches /\ b.patch \in Seq(Nat)
    BY <1>2 DEF Handed, Batches
<1>4. region' = IF b.patch # <<>> THEN [region EXCEPT ![b.region].tails = b.patch] ELSE region
    BY <1>2 DEF EngineBegins
<1>5. Begun \in Nat /\ timeline \in Nat
    BY <1>1 DEF OrderOK, TypesOK
<1>6. region' \in [Regions -> Pairs]
  <2>1. \A r \in Regions : [region[r] EXCEPT !.tails = b.patch] \in Pairs
      BY <1>1, <1>3 DEF TypesOK, Pairs
  <2> QED BY <2>1, <1>1, <1>4 DEF TypesOK
<1>7. OrderOK'
  <2>1. \A i \in 1 .. Len(queue') : /\ queue'[i].at = Begun' + i
                                    /\ queue'[i].after = Begun' + i - 1
    <3>1. ASSUME NEW i \in 1 .. Len(queue')
          PROVE  queue'[i].at = Begun' + i /\ queue'[i].after = Begun' + i - 1
      <4>1. queue[i + 1].at = Begun + (i + 1) /\ queue[i + 1].after = Begun + (i + 1) - 1
          BY <1>1, <1>2 DEF OrderOK
      <4>2. i \in Nat
          OBVIOUS
      <4> QED BY <4>1, <4>2, <1>2, <1>5
    <3> QED BY <3>1
  <2>2. Begun' \in Nat /\ sem' = Begun' - 1
      BY <1>2, <1>5
  <2> QED BY <2>1, <2>2, <1>2 DEF OrderOK
<1>8. \A r \in Regions : r # b.region => region'[r].tails = region[r].tails
    BY <1>1, <1>4 DEF TypesOK
<1>9. b.patch = <<>> => region' = region
    BY <1>4
<1>10. b.patch # <<>> /\ b.region \in Regions => region'[b.region].tails = b.patch
    BY <1>4, <1>1 DEF TypesOK, Pairs
<1>11. ASSUME NEW i \in 1 .. Len(queue'), queue'[i].batch.kind = "chain" PROVE ChainOK(i)'
  <2>1. PICK c \in Batches : c = queue[i + 1].batch /\ queue'[i].batch = c
    <3>1. queue'[i] = queue[i + 1] /\ queue[i + 1] \in Handed
        BY <1>2, <1>1 DEF TypesOK
    <3> QED BY <3>1 DEF Handed
  <2>2. c.region \in Regions /\ c.chain \in Nat /\ i + 1 \in 1 .. Len(queue) /\ i \in Nat
    <3>1. i + 1 \in 1 .. Len(queue) /\ i \in Nat
        BY <1>2
    <3>2. queue[i + 1].batch.kind # "work"
        BY <1>11, <2>1
    <3>3. c.region \in Regions
        BY <3>1, <3>2, <2>1, <1>1 DEF TypesOK
    <3> QED BY <3>1, <3>3, <2>1 DEF Batches
  <2>3. ChainOK(i + 1)
      BY <1>1, <1>11, <2>1, <2>2 DEF TailsOK
  <2>4. PICK f \in Int : f = i - c.chain + 1 /\ (i + 1) - c.chain + 1 = f + 1
    <3>1. PICK k \in Nat : k = c.chain
        BY <2>2
    <3>2. PICK f \in Int : f = i - k + 1
        BY <2>2
    <3>3. (i + 1) - k + 1 = f + 1
        BY <2>2, <3>2
    <3> QED BY <3>1, <3>2, <3>3
  <2>5. /\ c.chain > 0
        /\ \A j \in 1 .. i + 1 : j > f + 1 => queue[j].batch.patch = <<>>
        /\ IF f + 1 > 0
           THEN /\ queue[f + 1].batch.kind = "chain" /\ queue[f + 1].batch.region = c.region
                /\ queue[f + 1].batch.patch # <<>>
                /\ Release(queue[f + 1].batch.patch, c.chain, queue[i + 1].at)
           ELSE Release(region[c.region].tails, c.chain, queue[i + 1].at)
      BY <2>1, <2>3, <2>4 DEF ChainOK
  <2>6. ASSUME NEW j \in 1 .. i, j > f PROVE queue'[j].batch.patch = <<>>
    <3>1. queue'[j] = queue[j + 1] /\ j + 1 \in 1 .. i + 1 /\ j + 1 > f + 1
        BY <2>2, <2>6, <1>2
    <3> QED BY <3>1, <2>5
  <2>7. queue'[i].at = queue[i + 1].at
      BY <1>2
  <2>8. ASSUME IF f > 0
                THEN /\ queue'[f].batch.kind = "chain" /\ queue'[f].batch.region = c.region
                     /\ queue'[f].batch.patch # <<>>
                     /\ Release(queue'[f].batch.patch, c.chain, queue'[i].at)
                ELSE Release(region'[c.region].tails, c.chain, queue'[i].at)
         PROVE  ChainOK(i)'
    <3>1. i - queue'[i].batch.chain + 1 = f /\ queue'[i].batch.chain > 0
        BY <2>1, <2>4, <2>5
    <3>2. /\ queue'[i].batch.chain > 0
          /\ \A j \in 1 .. i : j > f => queue'[j].batch.patch = <<>>
          /\ IF f > 0
             THEN /\ queue'[f].batch.kind = "chain" /\ queue'[f].batch.region = queue'[i].batch.region
                  /\ queue'[f].batch.patch # <<>>
                  /\ Release(queue'[f].batch.patch, queue'[i].batch.chain, queue'[i].at)
             ELSE Release(region'[queue'[i].batch.region].tails, queue'[i].batch.chain,
                queue'[i].at)
        BY <2>1, <2>6, <2>8, <3>1
    <3> HIDE DEF Release
    <3>3. \A j \in 1 .. i : j > i - queue'[i].batch.chain + 1 => queue'[j].batch.patch = <<>>
        BY <3>1, <3>2
    <3>4. LET x == queue'[i].batch
              first == i - x.chain + 1
          IN  IF first > 0
              THEN /\ queue'[first].batch.kind = "chain" /\ queue'[first].batch.region = x.region
                   /\ queue'[first].batch.patch # <<>>
                   /\ Release(queue'[first].batch.patch, x.chain, queue'[i].at)
              ELSE Release(region'[x.region].tails, x.chain, queue'[i].at)
        BY <3>1, <3>2
    <3> QED BY <3>2, <3>3, <3>4, Zenon DEF ChainOK
  <2>9. CASE f > 0
    <3>1. PICK k \in Int : k = c.chain /\ k > 0
        BY <2>2, <2>5
    <3>2. f = i - k + 1
        BY <2>4, <3>1
    <3>3. f <= i /\ i <= Len(queue') /\ Len(queue') \in Nat
        BY <3>1, <3>2, <1>2
    <3>4. f \in 1 .. Len(queue') /\ f + 1 > 0
        BY <2>9, <3>3
    <3>5. queue'[f] = queue[f + 1]
        BY <3>4, <1>2
    <3>6. /\ queue'[f].batch.kind = "chain" /\ queue'[f].batch.region = c.region
          /\ queue'[f].batch.patch # <<>>
          /\ Release(queue'[f].batch.patch, c.chain, queue'[i].at)
        BY <2>5, <2>7, <3>4, <3>5
    <3> QED BY <2>9, <2>8, <3>6
  <2>10. CASE f = 0
    <3>1. /\ queue[1].batch.region = c.region /\ b.patch # <<>>
          /\ Release(b.patch, c.chain, queue[i + 1].at)
        BY <2>5, <2>10
    <3>2. Release(region'[c.region].tails, c.chain, queue'[i].at)
        BY <3>1, <2>2, <2>7, <1>10
    <3>3. ~(f > 0)
        BY <2>10
    <3> QED BY <2>8, <3>2, <3>3
  <2>11. CASE f < 0
    <3>1. b.patch = <<>>
        BY <2>2, <2>5, <2>11
    <3>2. Release(region'[c.region].tails, c.chain, queue'[i].at)
        BY <3>1, <2>5, <2>7, <2>11, <1>9
    <3>3. ~(f > 0)
        BY <2>11
    <3> QED BY <2>8, <3>2, <3>3
  <2> QED BY <2>9, <2>10, <2>11, <2>4
<1>12. ASSUME b.kind = "chain" PROVE Release(region'[b.region].tails, b.chain, queue[1].at)
  <2>1. ChainOK(1) /\ b.region \in Regions /\ b.chain \in Nat
      BY <1>1, <1>2, <1>3, <1>12 DEF TailsOK, TypesOK, Batches
  <2>2. PICK f \in Int : f = 1 - b.chain + 1
      BY <2>1
  <2>3. /\ b.chain > 0 /\ (1 > f => b.patch = <<>>)
        /\ IF f > 0 THEN queue[f].batch.patch # <<>> /\ Release(queue[f].batch.patch, b.chain,
             queue[1].at)
                    ELSE Release(region[b.region].tails, b.chain, queue[1].at)
      BY <2>1, <2>2 DEF ChainOK
  <2>4. CASE f > 0
    <3>1. f = 1
        BY <2>1, <2>2, <2>3, <2>4
    <3> QED BY <3>1, <2>1, <2>3, <2>4, <1>10
  <2>5. CASE ~(f > 0)
      BY <2>2, <2>3, <2>5, <1>9
  <2> QED BY <2>4, <2>5
<1>13. TailsOK'
    BY <1>2, <1>11, <1>12 DEF TailsOK
<1>14. TypesOK'
  <2>1. UNCHANGED <<graph, execs, call, rec>>
      BY DEF EngineBegins, captureVars
  <2>2. \A q \in running' : q.batch.kind # "work" => q.batch.region \in Regions
      BY <1>1, <1>2 DEF TypesOK
  <2>3. \A i \in 1 .. Len(queue') : queue'[i].batch.kind # "work" => queue'[i].batch.region \in Regions
      BY <1>1, <1>2 DEF TypesOK
  <2>4. running' \subseteq Handed
      BY <1>2
  <2> QED BY <2>1, <2>2, <2>3, <2>4, <1>1, <1>2, <1>6 DEF TypesOK
<1> QED BY <1>7, <1>13, <1>14 DEF ReleaseInv

LEMMA FinishKeepsRelease == ASSUME ReleaseInv, EngineFinishes PROVE ReleaseInv' /\ sem' = sem + 1
<1>1. TypesOK /\ OrderOK /\ TailsOK
    BY DEF ReleaseInv
<1>2. PICK q \in running :
          /\ region' = IF q.batch.kind = "seal"
                       THEN [region EXCEPT ![q.batch.region].mem = region[q.batch.region].mirror]
                       ELSE region
          /\ sem' = IF q.batch.kind = "chain" /\ q.batch.chain \in DOMAIN region[q.batch.region].tails
                    THEN region[q.batch.region].tails[q.batch.chain] ELSE q.at
          /\ running' = running \ {q}
          /\ UNCHANGED <<captureVars, execs, call, rec, timeline, queue>>
    BY DEF EngineFinishes
<1>3. running = {q} /\ q.at = Begun /\ sem = Begun - 1 /\ Begun \in Nat
    BY <1>1, <1>2 DEF OrderOK
<1>4. sem' = q.at /\ running' = {}
    BY <1>1, <1>2, <1>3 DEF TailsOK, Release
<1>5. region' \in [Regions -> Pairs] /\ \A r \in Regions : region'[r].tails = region[r].tails
  <2>1. CASE q.batch.kind = "seal"
    <3>1. q.batch.region \in Regions /\ region \in [Regions -> Pairs]
        BY <2>1, <1>1, <1>2 DEF TypesOK
    <3>2. region[q.batch.region] \in Pairs
        BY <3>1
    <3>3. [region[q.batch.region] EXCEPT !.mem = region[q.batch.region].mirror] \in Pairs
        BY <3>2 DEF Pairs
    <3>4. [region[q.batch.region] EXCEPT !.mem = region[q.batch.region].mirror].tails
              = region[q.batch.region].tails
        BY <3>2 DEF Pairs
    <3> QED BY <2>1, <3>1, <3>3, <3>4, <1>2
  <2>2. CASE q.batch.kind # "seal"
      BY <2>2, <1>1, <1>2 DEF TypesOK
  <2> QED BY <2>1, <2>2
<1>6. Begun' = Begun /\ queue' = queue /\ timeline' = timeline
    BY <1>2 DEF Begun
<1>7. OrderOK'
    BY <1>1, <1>3, <1>4, <1>6 DEF OrderOK
<1>8. ASSUME NEW i \in 1 .. Len(queue), queue[i].batch.kind = "chain" PROVE ChainOK(i)'
  <2>1. ChainOK(i) /\ queue[i].batch.region \in Regions
      BY <1>1, <1>8 DEF TailsOK, TypesOK
  <2> QED BY <2>1, <1>5, <1>6 DEF ChainOK
<1>9. TailsOK'
    BY <1>4, <1>6, <1>8 DEF TailsOK
<1>10. TypesOK'
    BY <1>1, <1>2, <1>3, <1>4, <1>5, <1>6 DEF TypesOK, captureVars
<1>11. sem' = sem + 1
    BY <1>3, <1>4
<1> QED BY <1>7, <1>9, <1>10, <1>11 DEF ReleaseInv

LEMMA ReleaseStep == ASSUME ReleaseInv, [Next]_vars PROVE ReleaseInv'
<1>1. CASE UNCHANGED vars
  <2>1. UNCHANGED <<graph, execs, call, rec, region, timeline, engineVars>>
      BY <1>1 DEF vars, captureVars
  <2>2. TypesOK
      BY DEF ReleaseInv
  <2>3. /\ graph' \in Programs \cup {None} /\ execs' \in [Execs -> Executables] /\ call' \in Calls
        /\ call'.pc # "none" => call'.exec \in Execs /\ call'.i > 0
        /\ call'.pc = "nodes" /\ call'.recording => rec # None
      BY <2>1, <2>2 DEF TypesOK
  <2> QED BY <2>1, <2>3, BooksKeep
<1>2. CASE BeginCapture \/ CaptureNode \/ CaptureRefuse \/ EndCapture \/ GraphDestroy
    BY <1>2, CaptureKeepsRelease
<1>3. CASE DirectWork
    BY <1>3, DirectKeepsRelease
<1>4. ASSUME NEW e \in Execs, Instantiate(e) \/ ExecUpdate(e) \/ ExecDestroy(e) \/ GraphLaunch(e)
      PROVE  ReleaseInv'
    BY <1>4, InstantiateKeepsRelease, UpdateKeepsRelease, LaunchKeepsRelease
<1>5. CASE LaunchNode
    BY <1>5, NodeKeepsRelease
<1>6. CASE GraphEnd
    BY <1>6, EndKeepsRelease
<1>7. CASE LaunchReturns
    BY <1>7, ReturnKeepsRelease
<1>8. CASE EngineBegins
    BY <1>8, BeginKeepsRelease
<1>9. CASE EngineFinishes
    BY <1>9, FinishKeepsRelease
<1> QED BY <1>1, <1>2, <1>3, <1>4, <1>5, <1>6, <1>7, <1>8, <1>9 DEF Next

THEOREM ReleaseInvariant == Spec => []ReleaseInv
<1>1. Init => ReleaseInv
    BY ReleaseInit
<1>2. ReleaseInv /\ [Next]_vars => ReleaseInv'
    BY ReleaseStep
<1> QED BY <1>1, <1>2, PTL DEF Spec

\* Whatever is recorded, replayed, freed and recorded again: a value that the
\* engines have released is that of a batch done, and no tail of a chain that
\* waits or runs holds a value other than its own.
THEOREM ReleasedMeansDoneAlways == Spec => []ReleasedMeansDone
<1>1. ReleaseInv => ReleasedMeansDone
  <2>1. SUFFICES ASSUME ReleaseInv PROVE ReleasedMeansDone
      OBVIOUS
  <2>2. OrderOK /\ sem \in Nat /\ queue \in Seq(Handed) /\ Begun \in Nat
      BY <2>1 DEF ReleaseInv, TypesOK, OrderOK
  <2>3. \A q \in running : q.at > sem
      BY <2>2 DEF OrderOK
  <2>4. \A i \in 1 .. Len(queue) : queue[i].at > sem
      BY <2>2 DEF OrderOK
  <2>5. DOMAIN queue = 1 .. Len(queue)
      BY <2>2
  <2> QED BY <2>3, <2>4, <2>5 DEF ReleasedMeansDone
<1> QED BY <1>1, ReleaseInvariant, PTL

-----------------------------------------------------------------------------
\* The ledger.

\* The list l is what A has after its first k.
Lists(A, k, l) == l \in Seq(Things) /\ \A j \in 1 .. Len(l) : l[j] = A[k + j]

Rising(pos, t) == pos \in [Nat -> Nat] /\ \A u, v \in 0 .. t : u <= v => pos[u] <= pos[v]

\* A batch, by its number and what it does, does what A has between two places.
Stands(A, pos, t, x) ==
    /\ x.at \in 1 .. t /\ Lists(A, pos[x.at - 1], x.work)
    /\ pos[x.at] = pos[x.at - 1] + Len(x.work)

\* What is owed (o) is what the batches past the s-th and up to the t-th will
\* do, and then the rest of the call (r).  A is all that was ever asked for, and
\* pos says how much of it each batch leaves done; p are batches.
LedgerOf(A, total, pos, o, s, t, p, r) ==
    /\ total \in Nat /\ s \in Nat /\ t \in Nat /\ s <= t
    /\ Rising(pos, t)
    /\ Lists(A, pos[s], o) /\ pos[s] + Len(o) = total
    /\ Lists(A, pos[t], r) /\ pos[t] + Len(r) = total
    /\ \A x \in p : Stands(A, pos, t, x)

Ledger(o, s, t, p, r) == \E A, total, pos : LedgerOf(A, total, pos, o, s, t, p, r)

Entry(v, w) == [at |-> v, work |-> w]

\* Where a batch stands, in numbers.
LEMMA StandsAt ==
    ASSUME NEW A, NEW pos, NEW t \in Nat, NEW x, Stands(A, pos, t, x), Rising(pos, t)
    PROVE  /\ x.at \in Nat /\ x.at > 0 /\ x.at <= t /\ x.at - 1 \in Nat
           /\ x.work \in Seq(Things) /\ Len(x.work) \in Nat
           /\ pos[x.at] \in Nat /\ pos[x.at - 1] \in Nat /\ pos[t] \in Nat
           /\ pos[x.at] = pos[x.at - 1] + Len(x.work) /\ pos[x.at] <= pos[t]
<1>1. PICK v \in 1 .. t : v = x.at
    BY DEF Stands
<1>2. v \in Nat /\ v > 0 /\ v <= t /\ v - 1 \in Nat /\ v \in 0 .. t /\ t \in 0 .. t
    OBVIOUS
<1>3. pos[v] \in Nat /\ pos[v - 1] \in Nat /\ pos[t] \in Nat /\ pos[v] <= pos[t]
    BY <1>2 DEF Rising
<1>4. x.work \in Seq(Things) /\ pos[v] = pos[v - 1] + Len(x.work)
    BY <1>1 DEF Stands, Lists
<1> QED BY <1>1, <1>2, <1>3, <1>4

\* More is asked for.
LEMMA LedgerAsks ==
    ASSUME NEW o, NEW s, NEW t, NEW p, Ledger(o, s, t, p, <<>>), NEW w \in Seq(Things)
    PROVE  o \o w \in Seq(Things) /\ Ledger(o \o w, s, t, p, w)
<1>1. PICK A, total, pos : LedgerOf(A, total, pos, o, s, t, p, <<>>)
    BY DEF Ledger
<1>2. /\ total \in Nat /\ s \in Nat /\ t \in Nat /\ s <= t /\ Rising(pos, t)
      /\ pos[s] \in Nat /\ pos[t] \in Nat
    BY <1>1 DEF LedgerOf, Rising
<1>3. /\ Lists(A, pos[s], o) /\ pos[s] + Len(o) = total /\ pos[t] + Len(<<>>) = total
      /\ \A x \in p : Stands(A, pos, t, x)
    BY <1>1 DEF LedgerOf
<1>4. pos[t] = total
    BY <1>2, <1>3
<1>5. PICK b \in Seq(Things) : b = o
    BY <1>3 DEF Lists
<1>6. PICK all \in Seq(Things) :
          /\ all = b \o w /\ Len(all) = Len(b) + Len(w)
          /\ \A i \in 1 .. Len(b) : all[i] = b[i]
          /\ \A m \in 1 .. Len(w) : all[Len(b) + m] = w[m]
  <2>1. /\ b \o w \in Seq(Things) /\ Len(b \o w) = Len(b) + Len(w)
        /\ \A i \in 1 .. Len(b) : (b \o w)[i] = b[i]
        /\ \A m \in 1 .. Len(w) : (b \o w)[Len(b) + m] = w[m]
      BY JoinedSeqs
  <2> QED BY <2>1
<1>7. PICK n \in Nat, k \in Nat, z \in Nat : n = Len(b) /\ k = Len(w) /\ z = pos[s]
    BY <1>2
<1>8. z + n = total
    BY <1>3, <1>5, <1>7
<1> DEFINE B == [i \in 1 .. total + k |-> IF i <= total THEN A[i] ELSE w[i - total]]
<1>9. \A i \in 1 .. total : B[i] = A[i]
    BY <1>2
<1>10. \A j \in 1 .. k : B[total + j] = w[j]
  <2>1. ASSUME NEW j \in 1 .. k PROVE B[total + j] = w[j]
    <3>1. total \in Nat /\ j \in Nat /\ k \in Nat /\ j > 0 /\ j <= k
      <4> HIDE DEF B
      <4> QED BY <1>2, <1>7
    <3>2. PICK v \in 1 .. total + k : v = total + j /\ ~(v <= total) /\ v - total = j
      <4> HIDE DEF B
      <4>1. total + j \in 1 .. total + k
          BY <3>1
      <4>2. ~(total + j <= total) /\ (total + j) - total = j
          BY <3>1
      <4> QED BY <4>1, <4>2
    <3>3. B[v] = IF v <= total THEN A[v] ELSE w[v - total]
        OBVIOUS
    <3> QED BY <3>2, <3>3
  <2> QED BY <2>1
<1> HIDE DEF B
<1>11. ASSUME NEW j \in 1 .. n + k PROVE all[j] = B[z + j]
  <2>1. CASE j <= n
    <3>1. j \in 1 .. n /\ z + j \in 1 .. total
        BY <2>1, <1>2, <1>8
    <3>2. b[j] = A[z + j]
        BY <3>1, <1>3, <1>5, <1>7 DEF Lists
    <3> QED BY <3>1, <3>2, <1>6, <1>7, <1>9
  <2>2. CASE j > n
    <3>1. PICK m \in 1 .. k : j = n + m /\ z + j = total + m
      <4>1. j - n \in 1 .. k /\ j = n + (j - n) /\ z + j = total + (j - n)
          BY <2>2, <1>2, <1>8
      <4> QED BY <4>1
    <3> QED BY <3>1, <1>6, <1>7, <1>10
  <2> QED BY <2>1, <2>2
<1>12. Lists(B, pos[s], all) /\ pos[s] + Len(all) = total + k
  <2>1. Len(all) = n + k /\ z + (n + k) = total + k
    <3>1. Len(all) = n + k
        BY <1>6, <1>7
    <3>2. z + (n + k) = total + k
        BY <1>8, <1>2
    <3> QED BY <3>1, <3>2
  <2>2. \A j \in 1 .. Len(all) : all[j] = B[pos[s] + j]
      BY <2>1, <1>7, <1>11
  <2> QED BY <2>1, <2>2, <1>7 DEF Lists
<1>13. Lists(B, pos[t], w) /\ pos[t] + Len(w) = total + k
    BY <1>4, <1>7, <1>10 DEF Lists
<1>14. ASSUME NEW x \in p PROVE Stands(B, pos, t, x)
  <2>1. Stands(A, pos, t, x)
      BY <1>3
  <2>2. /\ x.work \in Seq(Things) /\ Len(x.work) \in Nat /\ pos[x.at - 1] \in Nat
        /\ pos[x.at - 1] + Len(x.work) <= total
      BY <2>1, <1>2, <1>4, StandsAt
  <2>3. ASSUME NEW j \in 1 .. Len(x.work) PROVE x.work[j] = B[pos[x.at - 1] + j]
    <3>1. pos[x.at - 1] + j \in 1 .. total
        BY <2>2, <1>2, SMTT(60)
    <3>2. x.work[j] = A[pos[x.at - 1] + j]
        BY <2>1 DEF Stands, Lists
    <3> QED BY <3>1, <3>2, <1>9
  <2> QED BY <2>1, <2>2, <2>3 DEF Stands, Lists
<1>15. LedgerOf(B, total + k, pos, all, s, t, p, w)
    BY <1>2, <1>12, <1>13, <1>14 DEF LedgerOf
<1> QED BY <1>5, <1>6, <1>15 DEF Ledger

\* Where a list of n is cut.
Cuts(cut, n) ==
    cut \in [0 .. n -> Nat] /\ cut[0] = 0 /\ \A i, j \in 0 .. n : i <= j => cut[i] <= cut[j]

\* What a list handed over leaves of the places before it, and after it.
LEMMA Extended ==
    ASSUME NEW pos, NEW t \in Nat, Rising(pos, t), NEW n \in Nat, NEW cut, Cuts(cut, n)
    PROVE  \E q : /\ Rising(q, t + n)
                  /\ \A v \in 0 .. t : q[v] = pos[v]
                  /\ \A i \in 0 .. n : q[t + i] = pos[t] + cut[i]
<1> DEFINE q == [v \in Nat |-> IF v <= t THEN pos[v]
                               ELSE IF v <= t + n THEN pos[t] + cut[v - t] ELSE 0]
<1>1. \A v \in Nat : pos[v] \in Nat
    BY DEF Rising
<1>2. cut \in [0 .. n -> Nat] /\ cut[0] = 0 /\ \A i, j \in 0 .. n : i <= j => cut[i] <= cut[j]
    BY DEF Cuts
<1>3. ASSUME NEW v \in Nat PROVE q[v] \in Nat
  <2>1. CASE v <= t
      BY <2>1, <1>1
  <2>2. CASE ~(v <= t) /\ v <= t + n
    <3>1. v - t \in 0 .. n
        BY <2>2
    <3>2. cut[v - t] \in Nat /\ pos[t] \in Nat
        BY <3>1, <1>2, <1>1
    <3> QED BY <2>2, <3>2
  <2>3. CASE ~(v <= t) /\ ~(v <= t + n)
      BY <2>3
  <2> QED BY <2>1, <2>2, <2>3
<1>4. \A v \in 0 .. t : q[v] = pos[v]
    OBVIOUS
<1>5. ASSUME NEW i \in 0 .. n PROVE q[t + i] = pos[t] + cut[i]
  <2>1. CASE i = 0
      BY <2>1, <1>2, <1>1
  <2>2. CASE i # 0
    <3>1. t + i \in Nat /\ ~(t + i <= t) /\ t + i <= t + n /\ (t + i) - t = i
        BY <2>2
    <3> QED BY <3>1
  <2> QED BY <2>1, <2>2
<1>6. q \in [Nat -> Nat]
    BY <1>3
<1> HIDE DEF q
<1>7. ASSUME NEW v \in 0 .. t + n, v \notin 0 .. t PROVE \E i \in 0 .. n : v = t + i
  <2>1. v - t \in 0 .. n /\ v = t + (v - t)
      BY <1>7
  <2> QED BY <2>1
<1>8. ASSUME NEW u \in 0 .. t + n, NEW v \in 0 .. t + n, u <= v PROVE q[u] <= q[v]
  <2>1. CASE v \in 0 .. t
    <3>1. u \in 0 .. t
        BY <2>1, <1>8
    <3>2. pos[u] <= pos[v]
        BY <2>1, <3>1, <1>8 DEF Rising
    <3> QED BY <2>1, <3>1, <3>2, <1>4
  <2>2. ASSUME NEW i \in 0 .. n, v = t + i, u \in 0 .. t PROVE q[u] <= q[v]
    <3>1. pos[u] <= pos[t] /\ pos[u] \in Nat /\ pos[t] \in Nat
        BY <2>2, <1>1 DEF Rising
    <3>2. cut[i] \in Nat
        BY <1>2
    <3>3. q[u] = pos[u] /\ q[v] = pos[t] + cut[i]
        BY <2>2, <1>4, <1>5
    <3> QED BY <3>1, <3>2, <3>3
  <2>3. ASSUME NEW i \in 0 .. n, v = t + i, NEW k \in 0 .. n, u = t + k PROVE q[u] <= q[v]
    <3>1. k <= i
        BY <2>3, <1>8
    <3>2. cut[k] <= cut[i] /\ cut[k] \in Nat /\ cut[i] \in Nat /\ pos[t] \in Nat
        BY <3>1, <1>2, <1>1
    <3>3. q[u] = pos[t] + cut[k] /\ q[v] = pos[t] + cut[i]
        BY <2>3, <1>5
    <3> QED BY <3>2, <3>3
  <2> QED BY <2>1, <2>2, <2>3, <1>7
<1>9. Rising(q, t + n)
    BY <1>6, <1>8 DEF Rising
<1> QED BY <1>4, <1>5, <1>9

\* What n batches do (ws), each leaving so much (cut) of the rest of the call (r)
\* done, and what is left then.
Shares(r, n, ws, cut, rest) ==
    /\ Cuts(cut, n)
    /\ \A i \in 1 .. n : Lists(r, cut[i - 1], ws[i]) /\ cut[i] = cut[i - 1] + Len(ws[i])
    /\ Lists(r, cut[n], rest) /\ cut[n] + Len(rest) = Len(r)

Entries(t, n, ws) == {Entry(t + i, ws[i]) : i \in 1 .. n}

\* Batches are handed over.
LEMMA LedgerHands ==
    ASSUME NEW o, NEW s, NEW t, NEW p, NEW r, Ledger(o, s, t, p, r),
           NEW n \in Nat, NEW ws, NEW cut, NEW rest, Shares(r, n, ws, cut, rest)
    PROVE  Ledger(o, s, t + n, p \cup Entries(t, n, ws), rest)
<1>1. /\ Cuts(cut, n)
      /\ \A i \in 1 .. n : Lists(r, cut[i - 1], ws[i]) /\ cut[i] = cut[i - 1] + Len(ws[i])
      /\ Lists(r, cut[n], rest) /\ cut[n] + Len(rest) = Len(r)
    BY DEF Shares
<1>2. PICK A, total, pos : LedgerOf(A, total, pos, o, s, t, p, r)
    BY DEF Ledger
<1>3. /\ total \in Nat /\ s \in Nat /\ t \in Nat /\ s <= t /\ Rising(pos, t)
      /\ pos[s] \in Nat /\ pos[t] \in Nat
    BY <1>2 DEF LedgerOf, Rising
<1>4. /\ Lists(A, pos[s], o) /\ pos[s] + Len(o) = total /\ Lists(A, pos[t],
           r) /\ pos[t] + Len(r) = total
      /\ \A x \in p : Stands(A, pos, t, x)
    BY <1>2 DEF LedgerOf
<1>5. PICK q : /\ Rising(q, t + n)
               /\ \A v \in 0 .. t : q[v] = pos[v]
               /\ \A i \in 0 .. n : q[t + i] = pos[t] + cut[i]
  <2>1. Cuts(cut, n)
      BY <1>1
  <2> QED BY <1>3, <2>1, Extended
<1>6. \A i \in 0 .. n : cut[i] \in Nat /\ cut[i] <= cut[n] /\ n \in 0 .. n
    BY <1>1 DEF Cuts
<1>7. PICK z \in Nat, l \in Nat : z = pos[t] /\ l = Len(r)
    BY <1>3, <1>4 DEF Lists
<1>8. ASSUME NEW w, NEW i \in 0 .. n, Lists(r, cut[i], w), cut[i] + Len(w) <= l
      PROVE  Lists(A, q[t + i], w)
  <2>1. q[t + i] = z + cut[i] /\ cut[i] \in Nat /\ w \in Seq(Things) /\ Len(w) \in Nat
      BY <1>6, <1>5, <1>7, <1>8 DEF Lists
  <2>2. ASSUME NEW j \in 1 .. Len(w) PROVE w[j] = A[q[t + i] + j]
    <3>1. cut[i] + j \in 1 .. l /\ z + (cut[i] + j) = q[t + i] + j
        BY <2>1, <1>8
    <3>2. w[j] = r[cut[i] + j]
        BY <1>8 DEF Lists
    <3> QED BY <3>1, <3>2, <1>4, <1>7 DEF Lists
  <2> QED BY <2>1, <2>2 DEF Lists
<1>9. Lists(A, q[t + n], rest) /\ q[t + n] + Len(rest) = total
  <2>1. n \in 0 .. n /\ cut[n] \in Nat /\ Len(rest) \in Nat
      BY <1>6, <1>1 DEF Lists
  <2>2. cut[n] + Len(rest) <= l /\ q[t + n] = z + cut[n]
      BY <2>1, <1>5, <1>7, <1>1
  <2> QED BY <2>1, <2>2, <1>4, <1>7, <1>8, <1>1
<1>10. ASSUME NEW x \in p PROVE Stands(A, q, t + n, x)
  <2>1. Stands(A, pos, t, x)
      BY <1>4
  <2>2. x.at \in Nat /\ x.at > 0 /\ x.at <= t /\ x.at - 1 \in Nat
      BY <2>1, <1>3, StandsAt
  <2>3. q[x.at] = pos[x.at] /\ q[x.at - 1] = pos[x.at - 1] /\ x.at \in 1 .. t + n
      BY <2>2, <1>3, <1>5
  <2> QED BY <2>1, <2>3 DEF Stands
<1>11. ASSUME NEW i \in 1 .. n PROVE Stands(A, q, t + n, Entry(t + i, ws[i]))
  <2>1. i - 1 \in 0 .. n /\ i \in 0 .. n /\ t + i - 1 = t + (i - 1) /\ t + i \in 1 .. t + n
      BY <1>3
  <2>2. /\ q[t + i] = z + cut[i] /\ q[t + i - 1] = z + cut[i - 1]
        /\ cut[i] \in Nat /\ cut[i - 1] \in Nat /\ cut[i] <= cut[n] /\ cut[n] \in Nat
      BY <2>1, <1>6, <1>5, <1>7
  <2>3. Lists(r, cut[i - 1], ws[i]) /\ cut[i] = cut[i - 1] + Len(ws[i]) /\ Len(ws[i]) \in Nat
    <3>1. Lists(r, cut[i - 1], ws[i]) /\ cut[i] = cut[i - 1] + Len(ws[i])
        BY <1>1
    <3>2. ws[i] \in Seq(Things)
        BY <3>1 DEF Lists
    <3> QED BY <3>1, <3>2
  <2>4. cut[i - 1] + Len(ws[i]) <= l
    <3>1. Len(rest) \in Nat
        BY <1>1 DEF Lists
    <3> QED BY <3>1, <2>2, <2>3, <1>7, <1>1
  <2>5. Lists(A, q[t + i - 1], ws[i])
      BY <2>1, <2>3, <2>4, <1>8
  <2>6. q[t + i] = q[t + i - 1] + Len(ws[i])
      BY <2>2, <2>3
  <2>7. PICK v : v = t + i /\ v - 1 = t + i - 1
      BY <1>3
  <2>8. /\ v \in 1 .. t + n /\ Lists(A, q[v - 1], ws[i])
        /\ q[v] = q[v - 1] + Len(ws[i])
      BY <2>1, <2>5, <2>6, <2>7
  <2>9. Entry(v, ws[i]).at = v /\ Entry(v, ws[i]).work = ws[i]
      BY DEF Entry
  <2>10. Stands(A, q, t + n, Entry(v, ws[i]))
      BY <2>8, <2>9 DEF Stands
  <2> QED BY <2>7, <2>10
<1>12. \A x \in p \cup Entries(t, n, ws) : Stands(A, q, t + n, x)
    BY <1>10, <1>11 DEF Entries
<1>13. q[s] = pos[s] /\ s <= t + n /\ t + n \in Nat
    BY <1>3, <1>5
<1>14. LedgerOf(A, total, q, o, s, t + n, p \cup Entries(t, n, ws), rest)
    BY <1>3, <1>4, <1>5, <1>9, <1>12, <1>13 DEF LedgerOf
<1> QED BY <1>14 DEF Ledger

\* The next batch is done: it does what is owed next.
LEMMA LedgerDoes ==
    ASSUME NEW o, NEW s, NEW t, NEW p, NEW r, Ledger(o, s, t, p, r), NEW x \in p, x.at = s + 1
    PROVE  /\ IsPrefix(x.work, o)
           /\ Ledger(SubSeq(o, Len(x.work) + 1, Len(o)), s + 1, t, p, r)
<1>1. PICK A, total, pos : LedgerOf(A, total, pos, o, s, t, p, r)
    BY DEF Ledger
<1>2. /\ total \in Nat /\ s \in Nat /\ t \in Nat /\ s <= t /\ Rising(pos, t)
      /\ pos[s] \in Nat /\ pos[t] \in Nat
    BY <1>1 DEF LedgerOf, Rising
<1>3. /\ Lists(A, pos[s], o) /\ pos[s] + Len(o) = total /\ Lists(A, pos[t],
           r) /\ pos[t] + Len(r) = total
      /\ \A y \in p : Stands(A, pos, t, y)
    BY <1>1 DEF LedgerOf
<1>4. PICK w \in Seq(Things), a \in Seq(Things) : w = x.work /\ a = o
    BY <1>3 DEF Stands, Lists
<1>5. PICK k \in Nat, n \in Nat, z \in Nat : k = Len(w) /\ n = Len(a) /\ z = pos[s]
    BY <1>2
<1>6. /\ x.at - 1 = s /\ s + 1 <= t /\ pos[s + 1] = z + k /\ pos[s + 1] <= pos[t]
      /\ \A j \in 1 .. k : w[j] = A[z + j]
  <2>1. Stands(A, pos, t, x) /\ x.at - 1 = s
      BY <1>2, <1>3
  <2>2. Lists(A, pos[s], w) /\ pos[x.at] = pos[s] + Len(w)
      BY <2>1, <1>4 DEF Stands
  <2>3. x.at <= t /\ pos[x.at] <= pos[t]
      BY <2>1, <1>2, StandsAt
  <2>4. \A j \in 1 .. k : w[j] = A[z + j]
      BY <2>2, <1>5 DEF Lists
  <2> QED BY <2>1, <2>2, <2>3, <2>4, <1>5
<1>7. pos[t] <= total /\ z + n = total
  <2>1. Len(r) \in Nat
      BY <1>3 DEF Lists
  <2> QED BY <2>1, <1>2, <1>3, <1>4, <1>5
<1>8. k <= n
    BY <1>2, <1>6, <1>7
<1>9. \A j \in 1 .. n : a[j] = A[z + j]
    BY <1>3, <1>4, <1>5 DEF Lists
<1>10. \A j \in 1 .. k : w[j] = a[j]
    BY <1>6, <1>8, <1>9
<1>11. IsPrefix(w, a)
  <2>1. SubSeq(w, 1, k) = SubSeq(a, 1, k)
      BY <1>5, <1>8, <1>10
  <2> QED BY <2>1, <1>5, <1>8 DEF IsPrefix
<1>12. PICK d \in Seq(Things) : /\ d = SubSeq(a, k + 1, n) /\ Len(d) = n - k
                                /\ \A j \in 1 .. n - k : d[j] = a[k + j]
  <2>1. /\ SubSeq(a, k + 1, n) \in Seq(Things) /\ Len(SubSeq(a, k + 1, n)) = n - k
        /\ \A j \in 1 .. n - k : SubSeq(a, k + 1, n)[j] = a[k + j]
    <3>1. \A j \in k + 1 .. n : a[j] \in Things
        BY <1>5
    <3>2. SubSeq(a, k + 1, n) = [j \in 1 .. n - k |-> a[k + j]]
        BY <1>5, <1>8
    <3>3. \A j \in 1 .. n - k : k + j \in k + 1 .. n
        BY <1>8
    <3> QED BY <3>1, <3>2, <3>3, <1>8
  <2> QED BY <2>1
<1>13. ASSUME NEW j \in 1 .. n - k PROVE d[j] = A[pos[s + 1] + j]
  <2>1. k + j \in 1 .. n /\ z + (k + j) = pos[s + 1] + j
      BY <1>6, <1>8
  <2> QED BY <2>1, <1>9, <1>12
<1>14. Lists(A, pos[s + 1], d) /\ pos[s + 1] + Len(d) = total
  <2>1. Len(d) = n - k /\ (z + k) + (n - k) = total
      BY <1>2, <1>7, <1>8, <1>12
  <2>2. \A j \in 1 .. Len(d) : d[j] = A[pos[s + 1] + j]
      BY <2>1, <1>13
  <2> QED BY <2>1, <2>2, <1>6 DEF Lists
<1>15. LedgerOf(A, total, pos, d, s + 1, t, p, r)
    BY <1>2, <1>3, <1>6, <1>14 DEF LedgerOf
<1>16. d = SubSeq(o, Len(x.work) + 1, Len(o))
    BY <1>4, <1>5, <1>12
<1> QED BY <1>4, <1>11, <1>15, <1>16 DEF Ledger

\* Fewer batches are looked at; and when all are done nothing is owed but the
\* rest of the call.
LEMMA LedgerFewer ==
    ASSUME NEW o, NEW s, NEW t, NEW p, NEW r, Ledger(o, s, t, p, r), NEW d, d \subseteq p
    PROVE  Ledger(o, s, t, d, r)
<1>1. PICK A, total, pos : LedgerOf(A, total, pos, o, s, t, p, r)
    BY DEF Ledger
<1>2. LedgerOf(A, total, pos, o, s, t, d, r)
    BY <1>1 DEF LedgerOf
<1> QED BY <1>2 DEF Ledger

LEMMA LedgerEnds ==
    ASSUME NEW o, NEW s, NEW p, Ledger(o, s, s, p, <<>>)
    PROVE  o = <<>>
<1>1. PICK A, total, pos : LedgerOf(A, total, pos, o, s, s, p, <<>>)
    BY DEF Ledger
<1>2. o \in Seq(Things) /\ pos[s] + Len(o) = pos[s] + Len(<<>>) /\ pos[s] \in Nat
    BY <1>1 DEF LedgerOf, Lists, Rising
<1>3. Len(o) = 0
    BY <1>2
<1> QED BY <1>2, <1>3

-----------------------------------------------------------------------------
\* What is handed over, by the shapes the code has for it.

\* The end of a list.
LEMMA EndOf ==
    ASSUME NEW r \in Seq(Things), NEW c \in Nat, c <= Len(r)
    PROVE  /\ Lists(r, c, SubSeq(r, c + 1, Len(r))) /\ c + Len(SubSeq(r, c + 1, Len(r))) = Len(r)
           /\ \A j \in 1 .. Len(r) - c : SubSeq(r, c + 1, Len(r))[j] = r[c + j]
<1>1. PICK n \in Nat : n = Len(r)
    OBVIOUS
<1>2. SubSeq(r, c + 1, n) = [j \in 1 .. n - c |-> r[c + j]]
    BY <1>1
<1>3. \A j \in 1 .. n - c : c + j \in 1 .. n
    BY <1>1
<1>4. SubSeq(r, c + 1, n) \in Seq(Things) /\ Len(SubSeq(r, c + 1, n)) = n - c
  <2>1. n - c \in Nat
      BY <1>1
  <2>2. [j \in 1 .. n - c |-> r[c + j]] \in Seq(Things)
      BY <2>1, <1>1, <1>3
  <2>3. Len([j \in 1 .. n - c |-> r[c + j]]) = n - c
      BY <2>1
  <2> QED BY <2>2, <2>3, <1>2
<1>5. \A j \in 1 .. n - c : SubSeq(r, c + 1, n)[j] = r[c + j]
    BY <1>2
<1>6. PICK e \in Seq(Things) : e = SubSeq(r, c + 1, n) /\ Len(e) = n - c
    BY <1>4
<1>7. Lists(r, c, e)
    BY <1>5, <1>6 DEF Lists
<1>8. c + Len(e) = n
    BY <1>1, <1>6
<1> QED BY <1>1, <1>5, <1>6, <1>7, <1>8

\* A piece of a list.
LEMMA PieceOf ==
    ASSUME NEW r \in Seq(Things), NEW a \in Nat, NEW b \in Nat, a <= b, b <= Len(r)
    PROVE  /\ SubSeq(r, a + 1, b) \in Seq(Things) /\ Len(SubSeq(r, a + 1, b)) = b - a
           /\ \A j \in 1 .. b - a : SubSeq(r, a + 1, b)[j] = r[a + j]
<1>1. PICK n \in Nat : n = Len(r)
    OBVIOUS
<1>2. b - (a + 1) + 1 = b - a /\ b - a \in Nat /\ \A j \in 1 .. b - a : a + j \in 1 .. n
    BY <1>1
<1>3. SubSeq(r, a + 1, b) = [j \in 1 .. b - a |-> r[a + j]]
    BY <1>1, <1>2
<1>4. [j \in 1 .. b - a |-> r[a + j]] \in Seq(Things) /\ Len([j \in 1 .. b - a |-> r[a + j]]) = b - a
    BY <1>1, <1>2
<1> QED BY <1>3, <1>4

LEMMA LedgerIsOf ==
    ASSUME NEW o, NEW s, NEW t, NEW p, NEW r, Ledger(o, s, t, p, r)
    PROVE  o \in Seq(Things) /\ r \in Seq(Things) /\ s \in Nat /\ t \in Nat
    BY DEF Ledger, LedgerOf, Lists

\* The first c of the rest, a batch each.
LEMMA HandsEach ==
    ASSUME NEW o, NEW s, NEW t, NEW p, NEW r, Ledger(o, s, t, p, r),
           NEW c \in Nat, c <= Len(r)
    PROVE  Ledger(o, s, t + c, p \cup {Entry(t + i, <<r[i]>>) : i \in 1 .. c},
                  SubSeq(r, c + 1, Len(r)))
<1>1. r \in Seq(Things) /\ t \in Nat
    BY LedgerIsOf
<1> DEFINE cut == [i \in 0 .. c |-> i]
           ws == [i \in 1 .. c |-> <<r[i]>>]
<1>2. Cuts(cut, c)
    BY DEF Cuts
<1>3. ASSUME NEW i \in 1 .. c
      PROVE  Lists(r, cut[i - 1], ws[i]) /\ cut[i] = cut[i - 1] + Len(ws[i]) /\ ws[i] = <<r[i]>>
  <2>1. i \in Nat /\ i - 1 \in 0 .. c /\ i \in 0 .. c /\ i \in 1 .. Len(r)
      BY <1>1
  <2>2. cut[i - 1] = i - 1 /\ cut[i] = i /\ ws[i] = <<r[i]>> /\ (i - 1) + 1 = i
      BY <2>1
  <2>3. r[i] \in Things
      BY <2>1, <1>1
  <2>4. PICK w \in Seq(Things) : w = ws[i] /\ Len(w) = 1 /\ w[1] = r[i]
    <3>1. PICK d \in Things : d = r[i]
        BY <2>3
    <3>2. <<d>> \in Seq(Things) /\ Len(<<d>>) = 1 /\ <<d>>[1] = d /\ ws[i] = <<d>>
        BY <2>2, <3>1
    <3> QED BY <3>1, <3>2
  <2> HIDE DEF cut, ws
  <2>5. Lists(r, i - 1, w)
      BY <2>2, <2>4 DEF Lists
  <2> QED BY <2>1, <2>2, <2>4, <2>5
<1>4. cut[c] = c
    OBVIOUS
<1> HIDE DEF cut, ws
<1>5. PICK rest : rest = SubSeq(r, c + 1, Len(r)) /\ Lists(r, c, rest) /\ c + Len(rest) = Len(r)
    BY <1>1, EndOf
<1>6. Ledger(o, s, t + c, p \cup Entries(t, c, ws), rest)
  <2>1. Shares(r, c, ws, cut, rest)
      BY <1>2, <1>3, <1>4, <1>5 DEF Shares
  <2> QED BY <2>1, LedgerHands
<1>7. Entries(t, c, ws) = {Entry(t + i, <<r[i]>>) : i \in 1 .. c}
    BY <1>3 DEF Entries
<1> QED BY <1>5, <1>6, <1>7

LEMMA HandsOne ==
    ASSUME NEW o, NEW s, NEW t, NEW p, NEW r, Ledger(o, s, t, p, r), Len(r) > 0
    PROVE  Ledger(o, s, t + 1, p \cup {Entry(t + 1, <<r[1]>>)}, SubSeq(r, 2, Len(r)))
<1>1. r \in Seq(Things) /\ t \in Nat
    BY LedgerIsOf
<1>2. PICK c \in Nat : c = 1 /\ c <= Len(r) /\ c + 1 = 2
    BY <1>1
<1>3. Ledger(o, s, t + c, p \cup {Entry(t + i, <<r[i]>>) : i \in 1 .. c}, SubSeq(r, c + 1, Len(r)))
    BY <1>2, HandsEach
<1>4. {Entry(t + i, <<r[i]>>) : i \in 1 .. c} = {Entry(t + 1, <<r[1]>>)}
    BY <1>2
<1> QED BY <1>2, <1>3, <1>4

\* A batch that does nothing asked for.
LEMMA HandsNothing ==
    ASSUME NEW o, NEW s, NEW t, NEW p, NEW r, Ledger(o, s, t, p, r)
    PROVE  Ledger(o, s, t + 1, p \cup {Entry(t + 1, <<>>)}, r)
<1>1. r \in Seq(Things) /\ t \in Nat /\ Len(r) \in Nat
    BY LedgerIsOf
<1> DEFINE cut == [i \in 0 .. 1 |-> 0]
           ws == [i \in 1 .. 1 |-> <<>>]
<1>2. Cuts(cut, 1)
    BY DEF Cuts
<1>3. \A i \in 1 .. 1 : Lists(r, cut[i - 1], ws[i]) /\ cut[i] = cut[i - 1] + Len(ws[i])
    BY DEF Lists
<1>4. Lists(r, cut[1], r) /\ cut[1] + Len(r) = Len(r)
    BY <1>1 DEF Lists
<1>5. Entries(t, 1, ws) = {Entry(t + 1, <<>>)}
    BY DEF Entries
<1>6. 1 \in Nat
    OBVIOUS
<1> HIDE DEF cut, ws
<1>7. Ledger(o, s, t + 1, p \cup Entries(t, 1, ws), r)
  <2>1. Shares(r, 1, ws, cut, r)
      BY <1>2, <1>3, <1>4 DEF Shares
  <2> QED BY <2>1, <1>6, LedgerHands
<1> QED BY <1>5, <1>7

\* The chains of a list of launches.
LEMMA HandsChains ==
    ASSUME NEW o, NEW s, NEW t, NEW p, NEW r, Ledger(o, s, t, p, r)
    PROVE  Ledger(o, s, t + Chains(Len(r)),
                  p \cup {Entry(t + k, ChainOf(r, k)) : k \in 1 .. Chains(Len(r))}, <<>>)
<1>1. r \in Seq(Things) /\ t \in Nat
    BY LedgerIsOf
<1>2. PICK n \in Nat : n = Len(r)
    BY <1>1
<1>3. PICK m \in Nat : /\ m = Chains(n) /\ n <= m * ChainMax
                       /\ (n > 0 => m > 0 /\ (m - 1) * ChainMax < n) /\ (n = 0 => m = 0)
    BY ChainsCount
<1>4. ChainMax \in Nat /\ ChainMax > 0
    BY GraphAssumption
<1> DEFINE cut == [k \in 0 .. m |-> IF k * ChainMax < n THEN k * ChainMax ELSE n]
           ws == [k \in 1 .. m |-> ChainOf(r, k)]
<1>5. \A k \in 0 .. m : k * ChainMax \in Nat
    BY <1>4
<1>6. \A k \in 0 .. m : cut[k] \in Nat /\ cut[k] <= n /\ cut[k] <= k * ChainMax
    BY <1>5
<1>7. cut[0] = 0 /\ cut[m] = n
  <2>1. 0 \in 0 .. m /\ m \in 0 .. m /\ 0 * ChainMax = 0
      BY <1>4
  <2>2. ~(m * ChainMax < n)
      BY <1>3, <1>4
  <2> QED BY <2>1, <2>2
<1>8. ASSUME NEW i \in 0 .. m, NEW j \in 0 .. m, i <= j PROVE i * ChainMax <= j * ChainMax
    BY <1>4, <1>8
<1>9. Cuts(cut, m)
  <2>1. cut \in [0 .. m -> Nat]
      BY <1>6
  <2>2. ASSUME NEW i \in 0 .. m, NEW j \in 0 .. m, i <= j PROVE cut[i] <= cut[j]
    <3>1. i * ChainMax <= j * ChainMax /\ i * ChainMax \in Nat /\ j * ChainMax \in Nat
        BY <2>2, <1>5, <1>8
    <3> QED BY <3>1
  <2> QED BY <2>1, <2>2, <1>7 DEF Cuts
<1>10. ASSUME NEW k \in 1 .. m
       PROVE  Lists(r, cut[k - 1], ws[k]) /\ cut[k] = cut[k - 1] + Len(ws[k]) /\ ws[k] = ChainOf(r,
              k)
  <2>1. k \in Nat /\ k - 1 \in 0 .. m /\ k \in 0 .. m /\ m - 1 \in 0 .. m /\ k - 1 <= m - 1 /\ m > 0
      OBVIOUS
  <2>2. n > 0 /\ (k - 1) * ChainMax < n
    <3>1. n > 0
        BY <2>1, <1>3
    <3>2. (k - 1) * ChainMax <= (m - 1) * ChainMax /\ (k - 1) * ChainMax \in Nat
          /\ (m - 1) * ChainMax \in Nat
        BY <2>1, <1>5, <1>8
    <3> QED BY <3>1, <3>2, <1>3
  <2>3. cut[k - 1] = (k - 1) * ChainMax /\ cut[k] = IF k * ChainMax < n THEN k * ChainMax ELSE n
      BY <2>1, <2>2
  <2>4. PICK a \in Nat, b \in Nat : /\ a = cut[k - 1] /\ b = cut[k] /\ a <= b /\ b <= n
                                    /\ a = (k - 1) * ChainMax
                                    /\ b = IF k * ChainMax < n THEN k * ChainMax ELSE n
    <3>1. cut[k - 1] <= cut[k]
        BY <2>1, <1>9 DEF Cuts
    <3>2. cut[k - 1] \in Nat /\ cut[k] \in Nat /\ cut[k] <= n
        BY <2>1, <1>6
    <3> QED BY <3>1, <3>2, <2>3
  <2>5. PICK w : w = ws[k] /\ w = ChainOf(r, k) /\ w = SubSeq(r, a + 1, b)
      BY <2>4, <1>2 DEF ChainOf
  <2> HIDE DEF cut, ws
  <2>6. b - a \in Nat /\ a + (b - a) = b
      BY <2>4
  <2>7. /\ SubSeq(r, a + 1, b) \in Seq(Things) /\ Len(SubSeq(r, a + 1, b)) = b - a
        /\ \A j \in 1 .. b - a : SubSeq(r, a + 1, b)[j] = r[a + j]
      BY <2>4, <1>1, <1>2, PieceOf
  <2>8. w \in Seq(Things) /\ Len(w) = b - a /\ \A j \in 1 .. b - a : w[j] = r[a + j]
      BY <2>5, <2>7
  <2>9. Lists(r, a, w)
      BY <2>8 DEF Lists
  <2> QED BY <2>4, <2>5, <2>6, <2>8, <2>9
<1> HIDE DEF cut, ws
<1>11. Lists(r, cut[m], <<>>) /\ cut[m] + Len(<<>>) = Len(r)
    BY <1>2, <1>7 DEF Lists
<1>12. Ledger(o, s, t + m, p \cup Entries(t, m, ws), <<>>)
  <2>1. Shares(r, m, ws, cut, <<>>)
      BY <1>9, <1>10, <1>11 DEF Shares
  <2> QED BY <2>1, LedgerHands
<1>13. Entries(t, m, ws) = {Entry(t + k, ChainOf(r, k)) : k \in 1 .. m}
    BY <1>10 DEF Entries
<1> QED BY <1>2, <1>3, <1>12, <1>13

\* A program whose copies come first: what is copied, and after it what is
\* launched.
LEMMA OrderedParts ==
    ASSUME NEW p \in Seq(Kernels \cup Copies), Ordered(p)
    PROVE  LET c == Len(CopyNodes(p))
               l == Len(LaunchNodes(p))
           IN  /\ c \in Nat /\ l \in Nat /\ c + l = Len(p)
               /\ \A k \in 1 .. c : CopyNodes(p)[k] = p[k] /\ p[k] \notin Kernels
               /\ \A k \in 1 .. l : LaunchNodes(p)[k] = p[c + k] /\ p[c + k] \in Kernels
<1>1. PICK n \in Nat : n = Len(p)
    OBVIOUS
<1>2. PICK copied, launched : copied = Places(p, Copies) /\ launched = Places(p, Kernels)
    OBVIOUS
<1> DEFINE past == {i \in 1 .. n + 1 : i \notin copied}
<1>3. /\ \A i \in 1 .. n : (i \in copied <=> p[i] \in Copies) /\ (i \in launched <=> p[i] \in Kernels)
      /\ copied \subseteq 1 .. n /\ launched \subseteq 1 .. n
    BY <1>1, <1>2 DEF Places
<1>4. DOMAIN p = 1 .. n /\ \A i \in 1 .. n : p[i] \in Kernels \/ p[i] \in Copies
    BY <1>1
<1>5. \A i \in 1 .. n : p[i] \in Copies <=> p[i] \notin Kernels
    BY <1>4, GraphAssumption
<1>6. PICK m \in past : \A j \in past : m <= j
  <2>1. n + 1 \in past /\ past \in SUBSET Nat
      BY <1>3
  <2> QED BY <2>1, LeastNumber
<1>7. PICK c \in Nat : m = c + 1 /\ c <= n
  <2>1. m \in 1 .. n + 1
      BY <1>6
  <2>2. m - 1 \in Nat /\ m = (m - 1) + 1 /\ m - 1 <= n
      BY <2>1
  <2> QED BY <2>2
<1>8. \A i \in 1 .. c : i \in copied
  <2>1. ASSUME NEW i \in 1 .. c PROVE i \in copied
    <3>1. i \in 1 .. n + 1 /\ ~(m <= i)
        BY <1>7
    <3> QED BY <3>1, <1>6
  <2> QED BY <2>1
<1>9. \A i \in c + 1 .. n : i \in launched
  <2>1. ASSUME NEW i \in c + 1 .. n, i \notin launched PROVE FALSE
    <3>1. i \in 1 .. n /\ m \in 1 .. n /\ m <= i
        BY <1>7
    <3>2. p[i] \in Copies /\ p[m] \in Kernels /\ m # i
        BY <3>1, <2>1, <1>3, <1>4, <1>5, <1>6
    <3>3. i < m
        BY <3>1, <3>2, <1>4 DEF Ordered
    <3> QED BY <3>1, <3>3
  <2> QED BY <2>1
<1>10. copied = 1 .. c /\ launched = c + 1 .. n
  <2>1. \A i \in 1 .. n : i \in 1 .. c \/ i \in c + 1 .. n
      BY <1>7
  <2>2. \A i \in copied : i \in 1 .. c
      BY <2>1, <1>3, <1>5, <1>9
  <2>3. \A i \in launched : i \in c + 1 .. n
      BY <2>1, <1>3, <1>5, <1>8
  <2> QED BY <2>2, <2>3, <1>8, <1>9
<1>11. PICK l \in Nat : c + l = n /\ n - (c + 1) + 1 = l
  <2>1. n - c \in Nat /\ c + (n - c) = n /\ n - (c + 1) + 1 = n - c
      BY <1>7
  <2> QED BY <2>1
<1>12. Cardinality(copied) = c /\ Cardinality(launched) = l
  <2>1. Cardinality(1 .. c) = c
    <3>1. Cardinality(1 .. c) = IF 1 > c THEN 0 ELSE c - 1 + 1
        BY FS_Interval
    <3> QED BY <3>1
  <2>2. Cardinality(c + 1 .. n) = l
    <3>1. Cardinality(c + 1 .. n) = IF c + 1 > n THEN 0 ELSE n - (c + 1) + 1
        BY FS_Interval
    <3> QED BY <3>1, <1>7, <1>11
  <2> QED BY <2>1, <2>2, <1>10
<1>13. ASSUME NEW j \in 1 .. c PROVE Cardinality(UpTo(copied, j)) = j
  <2>1. UpTo(copied, j) = 1 .. j /\ j \in Nat /\ j > 0
    BY <1>10 DEF UpTo
  <2>2. Cardinality(1 .. j) = IF 1 > j THEN 0 ELSE j - 1 + 1
      BY <2>1, FS_Interval
  <2>3. Cardinality(1 .. j) = j
      BY <2>1, <2>2
  <2> QED BY ONLY <2>1, <2>3
<1>14. ASSUME NEW k \in 1 .. l PROVE Cardinality(UpTo(launched, c + k)) = k
  <2>1. UpTo(launched, c + k) = c + 1 .. c + k /\ c + k \in Nat /\ k > 0
    BY <1>10, <1>11 DEF UpTo
  <2>2. Cardinality(c + 1 .. c + k) = IF c + 1 > c + k THEN 0 ELSE (c + k) - (c + 1) + 1
      BY <2>1, FS_Interval
  <2>3. Cardinality(c + 1 .. c + k) = k
      BY <2>1, <2>2
  <2> QED BY ONLY <2>1, <2>3
<1>15. ASSUME NEW k \in 1 .. c PROVE CopyNodes(p)[k] = p[k] /\ p[k] \notin Kernels
  <2>1. k \in 1 .. Cardinality(Places(p, Copies))
      BY <1>2, <1>12
  <2>2. PICK i \in copied : Cardinality(UpTo(copied, i)) = k /\ OfKind(p, Copies)[k] = p[i]
      BY <2>1, <1>2, KindAt
  <2>3. i \in 1 .. c /\ i = k
      BY <2>2, <1>10, <1>13
  <2>4. p[k] \in Copies /\ k \in 1 .. n
      BY <2>2, <2>3, <1>3
  <2> QED BY <2>2, <2>3, <2>4, <1>5 DEF CopyNodes
<1>16. ASSUME NEW k \in 1 .. l PROVE LaunchNodes(p)[k] = p[c + k] /\ p[c + k] \in Kernels
  <2>1. k \in 1 .. Cardinality(Places(p, Kernels))
      BY <1>2, <1>12
  <2>2. PICK i \in launched : Cardinality(UpTo(launched, i)) = k /\ OfKind(p, Kernels)[k] = p[i]
      BY <2>1, <1>2, KindAt
  <2>3. PICK j \in 1 .. l : i = c + j
    <3>1. i \in c + 1 .. n
        BY <1>10
    <3>2. i - c \in 1 .. l /\ i = c + (i - c)
        BY <3>1, <1>11
    <3> QED BY <3>2
  <2>4. i = c + k
    <3>1. Cardinality(UpTo(launched, i)) = j
        BY <2>3, <1>14
    <3> QED BY <3>1, <2>2, <2>3
  <2>5. p[i] \in Kernels
      BY <1>3
  <2> QED BY <2>2, <2>4, <2>5 DEF LaunchNodes
<1>17. Len(CopyNodes(p)) = c /\ Len(LaunchNodes(p)) = l
  <2>1. Len(OfKind(p, Copies)) = Cardinality(copied)
      BY <1>2, OfKindLists
  <2>2. Len(OfKind(p, Kernels)) = Cardinality(launched)
      BY <1>2, OfKindLists
  <2> QED BY <2>1, <2>2, <1>12 DEF CopyNodes, LaunchNodes
<1> HIDE DEF past
<1> QED BY <1>1, <1>11, <1>15, <1>16, <1>17

-----------------------------------------------------------------------------
\* The books: who holds the regions, what they hold, and how far a call is.

\* What a batch will do, as its region (reg: the regions) is written.
WorkOf(reg, b) ==
    IF b.kind = "work" THEN <<b.node>>
    ELSE IF b.kind = "chain" THEN ChainOf(reg[b.region].mirror, b.chain) ELSE <<>>

\* The batches handed over and not done
Waiting == running \cup {queue[i] : i \in 1 .. Len(queue)}
Pending == {Entry(q.at, WorkOf(region, q.batch)) : q \in Waiting}

\* Video memory holds what the host wrote, or will before the batch of value v.
SealedFor(r, v) ==
    \/ region[r].mem = region[r].mirror
    \/ \E q \in Waiting : q.batch.kind = "seal" /\ q.batch.region = r /\ q.at < v

ChainsKept ==
    \A q \in Waiting : q.batch.kind = "chain" =>
        /\ region[q.batch.region].keeper = "token" /\ SealedFor(q.batch.region, q.at)
        /\ rec # None => rec.region # q.batch.region

TokenKept(e) ==
    LET r == execs[e].drv
    IN  /\ region[r].keeper = "token" /\ SealedFor(r, timeline + 1)
        /\ Ordered(execs[e].nodes) /\ region[r].mirror = LaunchNodes(execs[e].nodes)
        /\ rec # None => rec.region # r

TokensKept ==
    \A e \in Execs : execs[e].drv # None =>
        TokenKept(e) /\ \A f \in Execs : execs[f].drv = execs[e].drv => f = e

\* The program of the call, and the copies it begins with
Program == execs[call.exec].nodes
Ahead == Len(CopyNodes(Program))

\* How much of the recording is written
Written == IF call.i <= Ahead THEN 0 ELSE call.i - 1 - Ahead

RecordKept ==
    rec # None =>
        /\ call.pc = "nodes" /\ call.recording /\ ~rec.failed /\ Ordered(Program)
        /\ region[rec.region].keeper = "token" /\ Len(region[rec.region].mirror) = Written
        /\ \A j \in 1 .. Written : region[rec.region].mirror[j] = Program[Ahead + j]

\* How much of the program was handed over; a recording hands its copies over.
Served ==
    IF call.pc = "again" THEN Ahead + (call.i - 1)
    ELSE IF rec # None /\ call.i - 1 > Ahead THEN Ahead ELSE call.i - 1

Left == IF call.pc = "none" THEN <<>> ELSE SubSeq(Program, Served + 1, Len(Program))

CallKept ==
    /\ call.pc # "none" => call.i <= Len(NodesOf(call)) + 1
    /\ call.pc = "again" => Ordered(Program)

LedgerKept == ~wrong /\ Ledger(owed, sem, timeline, Pending, Left)

BooksInv == ChainsKept /\ TokensKept /\ RecordKept /\ CallKept
AskedInv == ReleaseInv /\ BooksInv /\ LedgerKept

\* The batches that wait, by number.
LEMMA WaitingOrder ==
    ASSUME ReleaseInv
    PROVE  /\ \A q \in Waiting : /\ q \in Handed /\ q.batch \in Batches /\ q.at \in Nat /\ q.batch.chain \in Nat
                                 /\ q.at > sem /\ q.at <= timeline
                                 /\ q.batch.kind # "work" => q.batch.region \in Regions
           /\ \A x, y \in Waiting : x.at = y.at => x = y
           /\ sem \in Nat /\ timeline \in Nat /\ sem <= timeline
           /\ sem >= timeline => Waiting = {}
<1>1. TypesOK /\ OrderOK
    BY DEF ReleaseInv
<1>2. PICK n \in Nat, b \in Nat : n = Len(queue) /\ b = Begun /\ timeline = b + n
    BY <1>1 DEF TypesOK, OrderOK, Begun
<1>3. /\ \A q \in running : q \in Handed /\ (q.batch.kind # "work" => q.batch.region \in Regions)
      /\ \A i \in 1 .. n : /\ queue[i] \in Handed
                           /\ queue[i].batch.kind # "work" => queue[i].batch.region \in Regions
    BY <1>1, <1>2 DEF TypesOK
<1>4. \A q \in Handed : q.batch \in Batches /\ q.at \in Nat /\ q.batch.chain \in Nat
    BY DEF Handed, Batches
<1>5. sem \in Nat /\ (sem = b \/ sem = b - 1) /\ sem <= timeline
    BY <1>1, <1>2 DEF TypesOK, OrderOK
<1>6. \A q \in running : running = {q} /\ q.at = b /\ sem = b - 1
    BY <1>1, <1>2 DEF OrderOK
<1>7. \A i \in 1 .. n : queue[i].at = b + i
    BY <1>1, <1>2 DEF OrderOK
<1>8. \A q \in running : q.at > sem /\ q.at <= timeline
    BY <1>2, <1>5, <1>6
<1>9. \A i \in 1 .. n : queue[i].at > sem /\ queue[i].at <= timeline
    BY <1>2, <1>5, <1>7
<1>10. Waiting = running \cup {queue[i] : i \in 1 .. n}
    BY <1>2 DEF Waiting
<1>11. ASSUME NEW x \in Waiting, NEW y \in Waiting, x.at = y.at PROVE x = y
  <2>1. CASE x \in running /\ y \in running
      BY <2>1, <1>6
  <2>2. ASSUME NEW u \in running, NEW i \in 1 .. n PROVE u.at # queue[i].at
    <3>1. u.at = b /\ queue[i].at = b + i
        BY <1>6, <1>7
    <3> QED BY <3>1, <1>2
  <2>3. ASSUME NEW i \in 1 .. n, NEW j \in 1 .. n, queue[i].at = queue[j].at PROVE i = j
    <3>1. b + i = b + j
        BY <2>3, <1>7
    <3> QED BY <3>1, <1>2
  <2> QED BY <2>1, <2>2, <2>3, <1>10, <1>11
<1>12. \A q \in Waiting : q.at > sem /\ q.at <= timeline
    BY <1>8, <1>9, <1>10
<1>13. \A q \in Waiting : q \in Handed /\ (q.batch.kind # "work" => q.batch.region \in Regions)
    BY <1>3, <1>10
<1>14. sem >= timeline => Waiting = {}
  <2>1. ASSUME NEW q \in Waiting, sem >= timeline PROVE FALSE
    <3>1. q.at \in Nat /\ q.at > sem /\ q.at <= timeline
        BY <1>4, <1>12, <1>13
    <3> QED BY <3>1, <2>1, <1>2, <1>5
  <2> QED BY <2>1
<1> QED BY <1>2, <1>4, <1>5, <1>11, <1>12, <1>13, <1>14

NewOf(t, b, i) == [batch |-> b, at |-> t + i, after |-> t + i - 1]

\* What is handed over joins what waits.
LEMMA WaitingSubmit ==
    ASSUME ReleaseInv, NEW bs \in Seq(Batches), Submit(bs)
    PROVE  /\ Waiting' = Waiting \cup {NewOf(timeline, bs[i], i) : i \in 1 .. Len(bs)}
           /\ timeline' = timeline + Len(bs) /\ sem' = sem
           /\ \A i \in 1 .. Len(bs) : /\ NewOf(timeline, bs[i], i).batch = bs[i]
                                      /\ NewOf(timeline, bs[i], i).at = timeline + i
<1>1. PICK more : more = [i \in 1 .. Len(bs) |->
                      [batch |-> bs[i], at |-> timeline + i,
                         after |-> Acquires(bs[i], timeline + i - 1)]]
    OBVIOUS
<1>2. queue' = queue \o more /\ timeline' = timeline + Len(bs) /\ running' = running /\ sem' = sem
    BY <1>1 DEF Submit
<1>3. timeline \in Nat /\ queue \in Seq(Handed)
    BY DEF ReleaseInv, TypesOK
<1>4. PICK k \in Nat : k = Len(bs)
    OBVIOUS
<1>5. \A i \in 1 .. k : more[i] = NewOf(timeline, bs[i], i)
    BY <1>1, <1>4 DEF NewOf, Acquires
<1>6. \A i \in 1 .. k : NewOf(timeline, bs[i], i) \in Handed
  <2>1. ASSUME NEW i \in 1 .. k PROVE NewOf(timeline, bs[i], i) \in Handed
    <3>1. bs[i] \in Batches /\ timeline + i \in Nat /\ timeline + i - 1 \in Nat
        BY <1>3, <1>4
    <3> QED BY <3>1 DEF NewOf, Handed
  <2> QED BY <2>1
<1>7. more \in Seq(Handed) /\ Len(more) = k
  <2>1. more = [i \in 1 .. k |-> NewOf(timeline, bs[i], i)]
      BY <1>1, <1>4 DEF NewOf, Acquires
  <2> QED BY <2>1, <1>6
<1>8. PICK n \in Nat : n = Len(queue)
    BY <1>3
<1>9. PICK add \in Seq(Handed), old \in Seq(Handed) : add = more /\ old = queue
    BY <1>3, <1>7
<1>10. PICK all : /\ all = old \o add /\ Len(all) = n + k
                  /\ \A i \in 1 .. n : all[i] = old[i]
                  /\ \A m \in 1 .. k : all[n + m] = add[m]
  <2>1. Len(old) = n /\ Len(add) = k
      BY <1>7, <1>8, <1>9
  <2>2. /\ Len(old \o add) = Len(old) + Len(add)
        /\ \A i \in 1 .. Len(old) : (old \o add)[i] = old[i]
        /\ \A m \in 1 .. Len(add) : (old \o add)[Len(old) + m] = add[m]
      BY JoinedSeqs
  <2> QED BY <2>1, <2>2
<1>11. queue' = all
    BY <1>2, <1>9, <1>10
<1>12. {queue'[i] : i \in 1 .. Len(queue')} =
           {queue[i] : i \in 1 .. n} \cup {NewOf(timeline, bs[i], i) : i \in 1 .. k}
  <2>1. ASSUME NEW i \in 1 .. n + k
        PROVE  \/ i \in 1 .. n /\ all[i] = queue[i]
               \/ \E m \in 1 .. k : all[i] = NewOf(timeline, bs[m], m)
    <3>1. CASE i \in 1 .. n
        BY <3>1, <1>9, <1>10
    <3>2. CASE i \notin 1 .. n
      <4>1. PICK m \in 1 .. k : i = n + m
        <5>1. i - n \in 1 .. k /\ i = n + (i - n)
            BY <3>2
        <5> QED BY <5>1
      <4> QED BY <4>1, <1>5, <1>9, <1>10
    <3> QED BY <3>1, <3>2
  <2>2. ASSUME NEW i \in 1 .. n PROVE i \in 1 .. n + k /\ all[i] = queue[i]
    <3>1. i \in 1 .. n + k
        OBVIOUS
    <3>2. all[i] = old[i]
        BY <1>10
    <3> QED BY <3>1, <3>2, <1>9
  <2>3. ASSUME NEW m \in 1 .. k PROVE n + m \in 1 .. n + k /\ all[n + m] = NewOf(timeline, bs[m], m)
    <3>1. n + m \in 1 .. n + k
        OBVIOUS
    <3>2. all[n + m] = add[m]
        BY <1>10
    <3>3. add[m] = NewOf(timeline, bs[m], m)
        BY <1>5, <1>9
    <3> QED BY <3>1, <3>2, <3>3
  <2>4. {all[i] : i \in 1 .. n + k} =
            {queue[i] : i \in 1 .. n} \cup {NewOf(timeline, bs[i], i) : i \in 1 .. k}
      BY <2>1, <2>2, <2>3
  <2> QED BY <2>4, <1>10, <1>11
<1>13. Waiting' = Waiting \cup {NewOf(timeline, bs[i], i) : i \in 1 .. k}
    BY <1>2, <1>8, <1>12 DEF Waiting
<1> QED BY <1>2, <1>4, <1>13 DEF NewOf

\* The mirrors of the chains that wait are left alone.
Mirrored ==
    \A q \in Waiting : q.batch.kind = "chain" =>
        region'[q.batch.region].mirror = region[q.batch.region].mirror

LEMMA SameWork ==
    ASSUME Mirrored, NEW q \in Waiting
    PROVE  WorkOf(region', q.batch) = WorkOf(region, q.batch)
    BY DEF Mirrored, WorkOf

LEMMA PendingStays ==
    ASSUME Mirrored, Waiting' \subseteq Waiting PROVE Pending' \subseteq Pending
<1>1. \A x \in Waiting' : WorkOf(region', x.batch) = WorkOf(region, x.batch)
    BY SameWork
<1> QED BY <1>1 DEF Pending

LEMMA PendingGrows ==
    ASSUME ReleaseInv, Mirrored, NEW bs \in Seq(Batches), Submit(bs), NEW E,
           \A i \in 1 .. Len(bs) : Entry(timeline + i, WorkOf(region', bs[i])) \in E
    PROVE  Pending' \subseteq Pending \cup E
<1>1. /\ Waiting' = Waiting \cup {NewOf(timeline, bs[i], i) : i \in 1 .. Len(bs)}
      /\ \A i \in 1 .. Len(bs) : /\ NewOf(timeline, bs[i], i).batch = bs[i]
                                 /\ NewOf(timeline, bs[i], i).at = timeline + i
    BY WaitingSubmit
<1>2. ASSUME NEW q \in Waiting PROVE Entry(q.at, WorkOf(region', q.batch)) \in Pending
  <2>1. WorkOf(region', q.batch) = WorkOf(region, q.batch)
      BY SameWork
  <2> QED BY <2>1 DEF Pending
<1>3. ASSUME NEW q \in Waiting' PROVE Entry(q.at, WorkOf(region', q.batch)) \in Pending \cup E
  <2>1. CASE q \in Waiting
      BY <2>1, <1>2
  <2>2. ASSUME NEW i \in 1 .. Len(bs), q = NewOf(timeline, bs[i], i)
        PROVE  Entry(q.at, WorkOf(region', q.batch)) \in E
      BY <2>2, <1>1
  <2> QED BY <2>1, <2>2, <1>1
<1>4. Pending' = {Entry(q.at, WorkOf(region', q.batch)) : q \in Waiting'}
    BY DEF Pending
<1> QED BY <1>3, <1>4

\* What was sealed stays so while what waits does, or grows.
LEMMA SealedStays ==
    ASSUME NEW r \in Regions, NEW v \in Nat, NEW w \in Nat, v <= w, SealedFor(r, v), ReleaseInv,
           Waiting \subseteq Waiting',
           region'[r].mem = region[r].mem, region'[r].mirror = region[r].mirror
    PROVE  SealedFor(r, w)'
<1>1. CASE region[r].mem = region[r].mirror
    BY <1>1 DEF SealedFor
<1>2. ASSUME NEW q \in Waiting, q.batch.kind = "seal" /\ q.batch.region = r /\ q.at < v
      PROVE  SealedFor(r, w)'
  <2>1. q.at \in Nat /\ q.at < w
      BY <1>2, WaitingOrder
  <2> QED BY <1>2, <2>1 DEF SealedFor
<1> QED BY <1>1, <1>2 DEF SealedFor

-----------------------------------------------------------------------------
\* What the steps leave alone of the books.

\* A region whose keeper and contents a step leaves alone
Same(r) ==
    /\ region'[r].keeper = region[r].keeper /\ region'[r].mirror = region[r].mirror
    /\ region'[r].mem = region[r].mem

\* ... and is not recorded into after it
NotRecorded(r) == rec' # None => rec'.region # r

LEMMA ChainsStay ==
    ASSUME ReleaseInv, ChainsKept, Waiting' = Waiting,
           \A q \in Waiting : q.batch.kind = "chain" => Same(q.batch.region) /\ NotRecorded(q.batch.region)
    PROVE  ChainsKept' /\ Mirrored
<1>1. ASSUME NEW q \in Waiting, q.batch.kind = "chain"
      PROVE  /\ region'[q.batch.region].keeper = "token" /\ SealedFor(q.batch.region, q.at)'
             /\ NotRecorded(q.batch.region)
  <2>1. PICK r \in Regions, v \in Nat : r = q.batch.region /\ v = q.at
      BY <1>1, WaitingOrder
  <2>2. region[r].keeper = "token" /\ SealedFor(r, v) /\ Same(r) /\ NotRecorded(r)
      BY <1>1, <2>1 DEF ChainsKept
  <2>3. SealedFor(r, v)'
      BY <2>2, SealedStays DEF Same
  <2> QED BY <2>1, <2>2, <2>3 DEF Same
<1>2. ChainsKept'
    BY <1>1 DEF ChainsKept, NotRecorded
<1>3. Mirrored
    BY DEF Mirrored, Same
<1> QED BY <1>2, <1>3

\* ... and with batches handed over.
LEMMA ChainsGrow ==
    ASSUME ReleaseInv, ChainsKept, NEW bs \in Seq(Batches), Submit(bs), NEW t, t = timeline,
           \A q \in Waiting : q.batch.kind = "chain" => Same(q.batch.region) /\ NotRecorded(q.batch.region),
           \A i \in 1 .. Len(bs) : bs[i].kind = "chain" =>
               /\ region'[bs[i].region].keeper = "token" /\ SealedFor(bs[i].region, t + i)'
               /\ NotRecorded(bs[i].region)
    PROVE  ChainsKept' /\ Mirrored
<1>1. /\ Waiting' = Waiting \cup {NewOf(timeline, bs[i], i) : i \in 1 .. Len(bs)}
      /\ \A i \in 1 .. Len(bs) : /\ NewOf(timeline, bs[i], i).batch = bs[i]
                                 /\ NewOf(timeline, bs[i], i).at = timeline + i
    BY WaitingSubmit
<1>2. ASSUME NEW q \in Waiting, q.batch.kind = "chain"
      PROVE  /\ region'[q.batch.region].keeper = "token" /\ SealedFor(q.batch.region, q.at)'
             /\ NotRecorded(q.batch.region)
  <2>1. PICK r \in Regions, v \in Nat : r = q.batch.region /\ v = q.at
      BY <1>2, WaitingOrder
  <2>2. region[r].keeper = "token" /\ SealedFor(r, v) /\ Same(r) /\ NotRecorded(r)
      BY <1>2, <2>1 DEF ChainsKept
  <2>3. SealedFor(r, v)'
    <3>1. Waiting \subseteq Waiting' /\ v <= v
        BY <1>1
    <3> QED BY <3>1, <2>2, SealedStays DEF Same
  <2> QED BY <2>1, <2>2, <2>3 DEF Same
<1>3. ASSUME NEW i \in 1 .. Len(bs), NEW q, q = NewOf(timeline, bs[i], i), q.batch.kind = "chain"
      PROVE  /\ region'[q.batch.region].keeper = "token" /\ SealedFor(q.batch.region, q.at)'
             /\ NotRecorded(q.batch.region)
  <2>1. q.batch = bs[i] /\ q.at = t + i /\ bs[i].kind = "chain"
      BY <1>1, <1>3
  <2>2. /\ region'[bs[i].region].keeper = "token" /\ SealedFor(bs[i].region, t + i)'
        /\ NotRecorded(bs[i].region)
      BY <2>1
  <2> QED BY <2>1, <2>2 DEF SealedFor
<1>4. ChainsKept'
  <2>1. ASSUME NEW q \in Waiting', q.batch.kind = "chain"
        PROVE  /\ region'[q.batch.region].keeper = "token" /\ SealedFor(q.batch.region, q.at)'
               /\ NotRecorded(q.batch.region)
      BY <2>1, <1>1, <1>2, <1>3
  <2> QED BY <2>1 DEF ChainsKept, NotRecorded
<1>5. Mirrored
    BY DEF Mirrored, Same
<1> QED BY <1>4, <1>5

LEMMA OneMoreEach ==
    ASSUME NEW s \in Nat, NEW u \in Nat, s <= u
    PROVE  s + 1 \in Nat /\ u + 1 \in Nat /\ s + 1 <= u + 1
OBVIOUS

LEMMA TokenStays ==
    ASSUME ReleaseInv, NEW e \in Execs, execs[e].drv # None, TokenKept(e),
           execs'[e].drv = execs[e].drv, execs'[e].nodes = execs[e].nodes,
           Same(execs[e].drv), NotRecorded(execs[e].drv),
           Waiting \subseteq Waiting', timeline' \in Nat, timeline <= timeline'
    PROVE  TokenKept(e)'
<1>1. timeline \in Nat /\ execs[e].drv \in Regions
    BY DEF ReleaseInv, TypesOK, Executables
<1>2. PICK r \in Regions, v \in Nat, w \in Nat :
          r = execs[e].drv /\ v = timeline + 1 /\ w = timeline' + 1 /\ v <= w
  <2>1. PICK s \in Nat, u \in Nat : s = timeline /\ u = timeline' /\ s <= u
      BY <1>1
  <2>2. s + 1 \in Nat /\ u + 1 \in Nat /\ s + 1 <= u + 1
      BY <2>1, OneMoreEach, Zenon
  <2> QED BY <2>1, <2>2, <1>1, Zenon
<1>3. SealedFor(r, v) /\ Same(r)
    BY <1>2 DEF TokenKept
<1>4. SealedFor(r, w)'
    BY <1>2, <1>3, SealedStays DEF Same
<1>5. SealedFor(execs[e].drv, timeline + 1)'
    BY <1>2, <1>4 DEF SealedFor
<1> QED BY <1>5 DEF TokenKept, Same, NotRecorded

\* The tokens of executables that keep what they have, or have none.
LEMMA TokensStay ==
    ASSUME ReleaseInv, TokensKept,
           \A e \in Execs : execs'[e].drv # None =>
               /\ execs'[e].drv = execs[e].drv /\ execs'[e].nodes = execs[e].nodes
               /\ Same(execs[e].drv) /\ NotRecorded(execs[e].drv),
           Waiting \subseteq Waiting', timeline' \in Nat, timeline <= timeline'
    PROVE  TokensKept'
<1>1. ASSUME NEW e \in Execs, execs'[e].drv # None
      PROVE  TokenKept(e)' /\ \A f \in Execs : execs'[f].drv = execs'[e].drv => f = e
  <2>1. /\ execs'[e].drv = execs[e].drv /\ execs'[e].nodes = execs[e].nodes
        /\ Same(execs[e].drv) /\ NotRecorded(execs[e].drv) /\ execs[e].drv # None
      BY <1>1
  <2>2. TokenKept(e) /\ \A f \in Execs : execs[f].drv = execs[e].drv => f = e
      BY <2>1 DEF TokensKept
  <2>3. TokenKept(e)'
      BY <2>1, <2>2, TokenStays
  <2>4. ASSUME NEW f \in Execs, execs'[f].drv = execs'[e].drv PROVE f = e
    <3>1. execs'[f].drv = execs[f].drv
        BY <2>4, <1>1
    <3> QED BY <3>1, <2>1, <2>2, <2>4
  <2> QED BY <2>3, <2>4
<1> QED BY <1>1 DEF TokensKept

\* The ledger, when batches are handed over.
LEMMA LedgerGrows ==
    ASSUME ReleaseInv, Mirrored, NEW bs \in Seq(Batches), Submit(bs), NEW E,
           \A i \in 1 .. Len(bs) : Entry(timeline + i, WorkOf(region', bs[i])) \in E,
           NEW o, NEW r, Ledger(o, sem, timeline + Len(bs), Pending \cup E, r)
    PROVE  Ledger(o, sem', timeline', Pending', r)
<1>1. Pending' \subseteq Pending \cup E
    BY PendingGrows
<1>2. timeline' = timeline + Len(bs) /\ sem' = sem
    BY WaitingSubmit
<1> QED BY <1>1, <1>2, LedgerFewer

LEMMA WorkIs ==
    ASSUME NEW n \in Things
    PROVE  /\ Work(n) \in Seq(Batches) /\ Len(Work(n)) = 1
           /\ Work(n)[1].kind = "work" /\ Work(n)[1].node = n
    BY DEF Work, Batch, Batches

LEMMA OneWork ==
    ASSUME ReleaseInv, Mirrored, NEW n \in Things, Submit(Work(n)), NEW o, NEW r,
           Ledger(o, sem, timeline, Pending, r), Len(r) > 0, r[1] = n
    PROVE  Ledger(o, sem', timeline', Pending', SubSeq(r, 2, Len(r)))
<1>1. PICK bs \in Seq(Batches) : bs = Work(n) /\ Len(bs) = 1 /\ bs[1].kind = "work" /\ bs[1].node = n
    BY WorkIs
<1> DEFINE E == {Entry(timeline + 1, <<n>>)}
<1>2. \A i \in 1 .. Len(bs) : Entry(timeline + i, WorkOf(region', bs[i])) \in E
    BY <1>1 DEF WorkOf
<1>3. PICK rest : rest = SubSeq(r, 2, Len(r))
    OBVIOUS
<1>4. Ledger(o, sem, timeline + 1, Pending \cup {Entry(timeline + 1, <<r[1]>>)}, rest)
    BY <1>3, HandsOne
<1>5. Ledger(o, sem, timeline + Len(bs), Pending \cup E, rest)
    BY <1>1, <1>4
<1>6. Submit(bs)
    BY <1>1
<1> HIDE DEF E
<1> QED BY <1>2, <1>3, <1>5, <1>6, LedgerGrows

\* The program of a call.
LEMMA ProgramIs ==
    ASSUME ReleaseInv, call.pc # "none"
    PROVE  /\ call.exec \in Execs /\ call.i \in Nat /\ call.i > 0 /\ call.pc \in {"nodes", "again"}
           /\ call.recording \in BOOLEAN /\ call \in Calls
           /\ Program \in Seq(Kernels \cup Copies) /\ Program \in Seq(Things)
           /\ LaunchNodes(Program) \in Seq(Kernels) /\ CopyNodes(Program) \in Seq(Copies)
           /\ Ahead \in Nat
<1>1. TypesOK
    BY DEF ReleaseInv
<1>2. /\ call.exec \in Execs /\ call.i \in Nat /\ call.i > 0 /\ call.pc \in {"nodes", "again"}
      /\ call.recording \in BOOLEAN /\ call \in Calls
    BY <1>1 DEF TypesOK, Calls
<1>3. /\ Program \in Seq(Kernels \cup Copies) /\ LaunchNodes(Program) \in Seq(Kernels)
      /\ CopyNodes(Program) \in Seq(Copies)
    BY <1>1, <1>2, NodesAreThings DEF Program
<1>4. Program \in Seq(Things)
  <2>1. Kernels \cup Copies \subseteq Things
      BY DEF Things
  <2> QED BY <2>1, <1>3
<1> QED BY <1>2, <1>3, <1>4 DEF Ahead

\* Between calls nothing is recorded, and nothing is left of a call.
LEMMA BetweenCalls ==
    ASSUME AskedInv, Idle
    PROVE  rec = None /\ Left = <<>> /\ Ledger(owed, sem, timeline, Pending, <<>>) /\ ~wrong
    BY DEF AskedInv, BooksInv, RecordKept, LedgerKept, Left, Idle

-----------------------------------------------------------------------------
\* What each step does to the books and the ledger.

LEMMA QuietKeeps ==
    ASSUME AskedInv, UNCHANGED <<execs, call, rec, region, timeline, engineVars, ghostVars>>
    PROVE  BooksInv' /\ LedgerKept'
<1>1. /\ execs' = execs /\ call' = call /\ rec' = rec /\ region' = region /\ timeline' = timeline
      /\ queue' = queue /\ running' = running /\ sem' = sem /\ owed' = owed /\ wrong' = wrong
    BY DEF engineVars, ghostVars
<1>2. Waiting' = Waiting
    BY <1>1 DEF Waiting
<1>3. ChainsKept'
    BY <1>1, <1>2 DEF AskedInv, BooksInv, ChainsKept, SealedFor
<1>4. TokensKept'
    BY <1>1, <1>2 DEF AskedInv, BooksInv, TokensKept, TokenKept, SealedFor
<1>5. Program' = Program /\ Ahead' = Ahead /\ Written' = Written
    BY <1>1 DEF Program, Ahead, Written
<1>6. RecordKept' /\ CallKept'
    BY <1>1, <1>5 DEF AskedInv, BooksInv, RecordKept, CallKept, NodesOf
<1>7. Left' = Left /\ Pending' = Pending
    BY <1>1, <1>2, <1>5 DEF Left, Served, Pending
<1>8. LedgerKept'
    BY <1>1, <1>7 DEF AskedInv, LedgerKept
<1> QED BY <1>3, <1>4, <1>6, <1>8 DEF BooksInv

\* A step that ends between calls.
LEMMA EndsBetween ==
    ASSUME call'.pc = "none", rec' = None, ~wrong', Ledger(owed', sem', timeline', Pending', <<>>)
    PROVE  RecordKept' /\ CallKept' /\ LedgerKept'
<1>1. Left' = <<>>
    BY DEF Left
<1>2. RecordKept' /\ CallKept'
    BY DEF RecordKept, CallKept
<1> QED BY <1>1, <1>2 DEF LedgerKept

LEMMA InstantiateAsked ==
    ASSUME AskedInv, NEW e \in Execs, Instantiate(e) PROVE BooksInv' /\ LedgerKept'
<1>1. ReleaseInv /\ ChainsKept /\ TokensKept /\ execs \in [Execs -> Executables]
    BY DEF AskedInv, BooksInv, ReleaseInv, TypesOK
<1>2. /\ call' = call /\ rec' = rec /\ region' = region /\ timeline' = timeline
      /\ queue' = queue /\ running' = running /\ sem' = sem /\ owed' = owed /\ wrong' = wrong
      /\ Idle /\ execs' = [execs EXCEPT ![e] = [NoExec EXCEPT !.live = TRUE, !.nodes = graph]]
    BY DEF Instantiate, engineVars, ghostVars
<1>3. rec = None /\ Ledger(owed, sem, timeline, Pending, <<>>) /\ ~wrong
    BY <1>2, BetweenCalls
<1>4. Waiting' = Waiting
    BY <1>2 DEF Waiting
<1>5. \A r : Same(r) /\ NotRecorded(r)
    BY <1>2, <1>3 DEF Same, NotRecorded
<1>6. ChainsKept' /\ Mirrored
    BY <1>1, <1>4, <1>5, ChainsStay
<1>7. \A f \in Execs : execs'[f].drv # None => execs'[f].drv = execs[f].drv /\ execs'[f].nodes = execs[f].nodes
    BY <1>1, <1>2 DEF NoExec
<1>8. TokensKept'
  <2>1. Waiting \subseteq Waiting' /\ timeline' \in Nat /\ timeline <= timeline'
      BY <1>1, <1>2, <1>4 DEF ReleaseInv, TypesOK
  <2> QED BY <2>1, <1>1, <1>5, <1>7, TokensStay
<1>9. Pending' = Pending
    BY <1>2, <1>4 DEF Pending
<1>10. RecordKept' /\ CallKept' /\ LedgerKept'
    BY <1>2, <1>3, <1>9, EndsBetween DEF Idle
<1> QED BY <1>6, <1>8, <1>10 DEF BooksInv

\* A token is given up: nothing waits then, and the others keep their regions.
LEMMA UpdateAsked ==
    ASSUME AskedInv, NEW e \in Execs, ExecUpdate(e) \/ ExecDestroy(e) PROVE BooksInv' /\ LedgerKept'
<1>1. /\ ReleaseInv /\ ChainsKept /\ TokensKept /\ TypesOK
      /\ execs \in [Execs -> Executables] /\ region \in [Regions -> Pairs]
    BY DEF AskedInv, BooksInv, ReleaseInv, TypesOK
<1>2. /\ call' = call /\ rec' = rec /\ timeline' = timeline
      /\ queue' = queue /\ running' = running /\ sem' = sem /\ owed' = owed /\ wrong' = wrong
      /\ Idle /\ DropResident(e)
    BY DEF ExecUpdate, ExecDestroy, engineVars, ghostVars
<1>3. \E new : execs' = [execs EXCEPT ![e] = new] /\ new.drv = None
  <2>1. CASE ExecUpdate(e)
    <3>1. PICK nodes : execs' = [execs EXCEPT ![e] = Updated(e, nodes)]
        BY <2>1 DEF ExecUpdate
    <3>2. Updated(e, nodes).drv = None
        BY <1>1 DEF Updated, Executables
    <3> QED BY <3>1, <3>2
  <2>2. CASE ExecDestroy(e)
    <3>1. execs' = [execs EXCEPT ![e] = NoExec]
        BY <2>2 DEF ExecDestroy
    <3>2. NoExec.drv = None
        BY DEF NoExec
    <3> QED BY <3>1, <3>2
  <2> QED BY <2>1, <2>2
<1>4. rec = None /\ Ledger(owed, sem, timeline, Pending, <<>>) /\ ~wrong
    BY <1>2, BetweenCalls
<1>5. Waiting' = Waiting
    BY <1>2 DEF Waiting
<1>6. \A r : NotRecorded(r)
    BY <1>2, <1>4 DEF NotRecorded
<1>7. /\ \A r \in Regions : r # execs[e].drv => Same(r)
      /\ execs[e].drv = None \/ Waiting = {}
  <2>1. CASE execs[e].drv = None
    <3>1. region' = region
        BY <2>1, <1>2 DEF DropResident
    <3> QED BY <2>1, <3>1 DEF Same
  <2>2. CASE execs[e].drv # None
    <3>1. FreeIdles /\ region' = GivenBack(execs[e].drv) /\ execs[e].drv \in Regions
        BY <2>2, <1>1, <1>2 DEF DropResident, Executables
    <3>2. Waiting = {}
        BY <3>1, <1>1, WaitingOrder DEF FreeIdles
    <3>3. \A r \in Regions : r # execs[e].drv => region'[r] = region[r]
        BY <3>1, <1>1, GivenBackKeeps
    <3> QED BY <3>2, <3>3 DEF Same
  <2> QED BY <2>1, <2>2
<1>8. ChainsKept' /\ Mirrored
  <2>1. CASE Waiting = {}
    <3>1. ChainsKept'
        BY <2>1, <1>5 DEF ChainsKept
    <3>2. Mirrored
        BY <2>1 DEF Mirrored
    <3> QED BY <3>1, <3>2
  <2>2. CASE execs[e].drv = None
    <3>1. \A q \in Waiting : q.batch.kind = "chain" => Same(q.batch.region)
      <4>1. None \notin Regions
          BY GraphAssumption
      <4> QED BY <4>1, <2>2, <1>1, <1>7, WaitingOrder
    <3> QED BY <3>1, <1>1, <1>5, <1>6, ChainsStay
  <2> QED BY <2>1, <2>2, <1>7
<1>9. \A f \in Execs : execs'[f].drv # None =>
          /\ execs'[f].drv = execs[f].drv /\ execs'[f].nodes = execs[f].nodes
          /\ Same(execs[f].drv) /\ NotRecorded(execs[f].drv)
  <2>1. ASSUME NEW f \in Execs, execs'[f].drv # None
        PROVE  /\ execs'[f].drv = execs[f].drv /\ execs'[f].nodes = execs[f].nodes
               /\ Same(execs[f].drv)
    <3>1. f # e /\ execs'[f] = execs[f]
        BY <2>1, <1>1, <1>3
    <3>2. execs[f].drv \in Regions /\ execs[f].drv # execs[e].drv
      <4>1. execs[f].drv \in Regions
          BY <2>1, <3>1, <1>1 DEF Executables
      <4>2. execs[e].drv = execs[f].drv => e = f
          BY <2>1, <3>1, <1>1 DEF TokensKept
      <4> QED BY <4>1, <4>2, <3>1
    <3> QED BY <3>1, <3>2, <1>7
  <2> QED BY <2>1, <1>6
<1>10. TokensKept'
  <2>1. Waiting \subseteq Waiting' /\ timeline' \in Nat /\ timeline <= timeline'
      BY <1>1, <1>2, <1>5 DEF TypesOK
  <2> QED BY <2>1, <1>1, <1>9, TokensStay
<1>11. Pending' \subseteq Pending
    BY <1>5, <1>8, PendingStays
<1>12. Ledger(owed, sem, timeline, Pending', <<>>)
    BY <1>4, <1>11, LedgerFewer
<1>13. RecordKept' /\ CallKept' /\ LedgerKept'
    BY <1>2, <1>4, <1>12, EndsBetween DEF Idle
<1> QED BY <1>8, <1>10, <1>13 DEF BooksInv

\* Work outside a graph is asked for, and handed over.
LEMMA DirectAsked == ASSUME AskedInv, DirectWork PROVE BooksInv' /\ LedgerKept'
<1>1. ReleaseInv /\ ChainsKept /\ TokensKept /\ timeline \in Nat
    BY DEF AskedInv, BooksInv, ReleaseInv, TypesOK
<1>2. PICK n \in Loose : DoNode(n) /\ Asked(<<n>>)
    BY DEF DirectWork
<1>3. Idle /\ execs' = execs /\ call' = call
    BY DEF DirectWork
<1>4. rec = None /\ Ledger(owed, sem, timeline, Pending, <<>>) /\ ~wrong
    BY <1>3, BetweenCalls
<1>5. Submit(Work(n)) /\ rec' = rec /\ region' = region
    BY <1>2, <1>4 DEF DoNode
<1>6. n \in Things /\ <<n>> \in Seq(Things)
    BY DEF Things
<1>7. PICK bs \in Seq(Batches) : bs = Work(n) /\ Len(bs) = 1 /\ bs[1].kind = "work" /\ Submit(bs)
    BY <1>5, <1>6, WorkIs
<1>8. \A r : Same(r) /\ NotRecorded(r)
    BY <1>4, <1>5 DEF Same, NotRecorded
<1>9. \A i \in 1 .. Len(bs) : bs[i].kind # "chain"
    BY <1>7
<1>10. ChainsKept' /\ Mirrored
  <2>1. PICK t : t = timeline
      OBVIOUS
  <2>2. \A i \in 1 .. Len(bs) : bs[i].kind = "chain" =>
               /\ region'[bs[i].region].keeper = "token" /\ SealedFor(bs[i].region, t + i)'
               /\ NotRecorded(bs[i].region)
      BY <1>9
  <2> QED BY <2>1, <2>2, <1>1, <1>7, <1>8, ChainsGrow
<1>11. Waiting \subseteq Waiting' /\ timeline' = timeline + 1
    BY <1>1, <1>7, WaitingSubmit
<1>12. TokensKept'
  <2>1. timeline' \in Nat /\ timeline <= timeline'
      BY <1>1, <1>11
  <2> QED BY <2>1, <1>1, <1>3, <1>8, <1>11, TokensStay
<1>13. PICK o : o = owed \o <<n>> /\ Ledger(o, sem, timeline, Pending, <<n>>)
    BY <1>4, <1>6, LedgerAsks
<1>14. Ledger(o, sem', timeline', Pending', SubSeq(<<n>>, 2, Len(<<n>>)))
  <2>1. PICK r : r = <<n>> /\ Len(r) > 0 /\ r[1] = n
    <3>1. Len(<<n>>) > 0 /\ <<n>>[1] = n
        OBVIOUS
    <3> QED BY <3>1
  <2>2. Ledger(o, sem', timeline', Pending', SubSeq(r, 2, Len(r)))
      BY <2>1, <1>1, <1>5, <1>6, <1>10, <1>13, OneWork
  <2> QED BY <2>1, <2>2
<1>15. SubSeq(<<n>>, 2, Len(<<n>>)) = <<>>
    OBVIOUS
<1>16. owed' = o /\ wrong' = wrong
    BY <1>2, <1>13 DEF Asked
<1>17. RecordKept' /\ CallKept' /\ LedgerKept'
    BY <1>3, <1>4, <1>5, <1>14, <1>15, <1>16, EndsBetween DEF Idle
<1> QED BY <1>10, <1>12, <1>17 DEF BooksInv

LEMMA ReturnAsked == ASSUME AskedInv, LaunchReturns PROVE BooksInv' /\ LedgerKept'
<1>1. ReleaseInv /\ ChainsKept /\ TokensKept /\ RecordKept /\ CallKept /\ TypesOK /\ timeline \in Nat
    BY DEF AskedInv, BooksInv, ReleaseInv, TypesOK
<1>2. /\ execs' = execs /\ rec' = rec /\ region' = region /\ timeline' = timeline
      /\ queue' = queue /\ running' = running /\ sem' = sem /\ owed' = owed /\ wrong' = wrong
      /\ call' = NoCall /\ call.pc \in {"nodes", "again"} /\ call.i > Len(NodesOf(call))
      /\ call.pc = "nodes" => ~call.recording
    BY DEF LaunchReturns, engineVars, ghostVars
<1>3. rec = None
    BY <1>1, <1>2 DEF RecordKept
<1>4. Waiting' = Waiting
    BY <1>2 DEF Waiting
<1>5. \A r : Same(r) /\ NotRecorded(r)
    BY <1>2, <1>3 DEF Same, NotRecorded
<1>6. ChainsKept'
    BY <1>1, <1>4, <1>5, ChainsStay
<1>7. TokensKept'
  <2>1. Waiting \subseteq Waiting' /\ timeline' \in Nat /\ timeline <= timeline'
      BY <1>1, <1>2, <1>4
  <2> QED BY <2>1, <1>1, <1>2, <1>5, TokensStay
<1>8. Left = <<>>
  <2>1. /\ call.i \in Nat /\ call.i > 0 /\ Program \in Seq(Kernels \cup Copies)
        /\ LaunchNodes(Program) \in Seq(Kernels) /\ Ahead \in Nat
      BY <1>1, <1>2, ProgramIs
  <2>2. PICK n \in Nat, i \in Nat, a \in Nat, l \in Nat :
            n = Len(Program) /\ i = call.i /\ a = Ahead /\ l = Len(LaunchNodes(Program))
    <3>1. Len(Program) \in Nat /\ Len(LaunchNodes(Program)) \in Nat
        BY <2>1
    <3> QED BY <2>1, <3>1
  <2>3. Served >= n /\ Served \in Nat
    <3>1. CASE call.pc = "again"
      <4>1. a + l = n
          BY <3>1, <2>1, <2>2, <1>1, OrderedParts DEF CallKept, Ahead
      <4>2. i > l
          BY <3>1, <2>2, <1>2 DEF NodesOf, Program
      <4> QED BY <3>1, <4>1, <4>2, <2>2 DEF Served
    <3>2. CASE call.pc # "again"
      <4>1. i > n
          BY <3>2, <2>2, <1>2 DEF NodesOf, Program
      <4> QED BY <3>2, <4>1, <2>2, <1>3 DEF Served
    <3> QED BY <3>1, <3>2
  <2>4. SubSeq(Program, Served + 1, n) = <<>>
    <3>1. PICK s \in Nat : s = Served /\ s + 1 > n
        BY <2>2, <2>3
    <3>2. SubSeq(Program, s + 1, n) = <<>>
        BY <3>1, <2>2, SubSeqEmpty
    <3> QED BY <3>1, <3>2
  <2> QED BY <2>2, <2>4, <1>2 DEF Left
<1>9. Pending' = Pending
    BY <1>2, <1>4 DEF Pending
<1>10. Ledger(owed, sem, timeline, Pending, <<>>) /\ ~wrong
    BY <1>8 DEF AskedInv, LedgerKept
<1>11. RecordKept' /\ CallKept' /\ LedgerKept'
    BY <1>2, <1>3, <1>9, <1>10, EndsBetween DEF NoCall
<1> QED BY <1>6, <1>7, <1>11 DEF BooksInv

\* One list is another when they agree at every place.
LEMMA SameList ==
    ASSUME NEW S, NEW T, NEW a \in Seq(S), NEW b \in Seq(T), Len(a) = Len(b),
           \A i \in 1 .. Len(a) : a[i] = b[i]
    PROVE  a = b
    OBVIOUS

\* The end of a list, and what its own end is.
LEMMA EndsEnd ==
    ASSUME NEW r \in Seq(Things), NEW s \in Nat, s < Len(r), NEW e, e = SubSeq(r, s + 1, Len(r))
    PROVE  Len(e) > 0 /\ e[1] = r[s + 1] /\ SubSeq(e, 2, Len(e)) = SubSeq(r, s + 2, Len(r))
<1>1. PICK n \in Nat : n = Len(r)
    OBVIOUS
<1>2. e \in Seq(Things) /\ s + Len(e) = n /\ \A j \in 1 .. n - s : e[j] = r[s + j]
    BY <1>1, EndOf DEF Lists
<1>3. PICK k \in Nat : k = Len(e) /\ k > 0 /\ k = n - s
  <2>1. Len(e) \in Nat
      BY <1>2, SMTT(60)
  <2>2. Len(e) = n - s /\ Len(e) > 0
      BY <2>1, <1>1, <1>2
  <2> QED BY <2>1, <2>2
<1>4. e[1] = r[s + 1]
    BY <1>2, <1>3
<1>5. PICK d \in Seq(Things) : /\ d = SubSeq(e, 2, k) /\ Len(d) = k - 1
                               /\ \A j \in 1 .. k - 1 : d[j] = e[1 + j]
  <2>1. PICK one \in Nat : one = 1 /\ one <= k /\ k <= Len(e) /\ one + 1 = 2
      BY <1>3
  <2>2. /\ SubSeq(e, one + 1, k) \in Seq(Things) /\ Len(SubSeq(e, one + 1, k)) = k - one
        /\ \A j \in 1 .. k - one : SubSeq(e, one + 1, k)[j] = e[one + j]
      BY <2>1, <1>2, PieceOf
  <2> QED BY <2>1, <2>2
<1>6. PICK s1 \in Nat : s1 = s + 1 /\ s1 <= n /\ n - s1 = k - 1 /\ s1 + 1 = s + 2
    BY <1>1, <1>3
<1>7. PICK f \in Seq(Things) : /\ f = SubSeq(r, s1 + 1, n) /\ Len(f) = n - s1
                               /\ \A j \in 1 .. n - s1 : f[j] = r[s1 + j]
  <2>1. s1 <= n /\ n <= Len(r)
      BY <1>1, <1>6
  <2>2. /\ SubSeq(r, s1 + 1, n) \in Seq(Things) /\ Len(SubSeq(r, s1 + 1, n)) = n - s1
        /\ \A j \in 1 .. n - s1 : SubSeq(r, s1 + 1, n)[j] = r[s1 + j]
      BY <2>1, PieceOf
  <2> QED BY <2>2
<1>8. ASSUME NEW j \in 1 .. k - 1 PROVE d[j] = f[j]
  <2>1. 1 + j \in 1 .. n - s /\ s + (1 + j) = s1 + j /\ j \in 1 .. n - s1
      BY <1>3, <1>6
  <2> QED BY <2>1, <1>2, <1>5, <1>7, SMTT(60)
<1>9. d = f
  <2>1. Len(d) = Len(f) /\ \A j \in 1 .. Len(d) : d[j] = f[j]
      BY <1>5, <1>6, <1>7, <1>8
  <2> QED BY <2>1, SameList
<1> QED BY <1>1, <1>3, <1>4, <1>5, <1>6, <1>7, <1>9

\* What a program's launches leave: the end of it, after the copies.
LEMMA LaunchesEnd ==
    ASSUME NEW p \in Seq(Kernels \cup Copies), Ordered(p)
    PROVE  SubSeq(p, Len(CopyNodes(p)) + 1, Len(p)) = LaunchNodes(p)
<1>1. PICK c \in Nat, l \in Nat, n \in Nat :
          /\ c = Len(CopyNodes(p)) /\ l = Len(LaunchNodes(p)) /\ n = Len(p) /\ c + l = n
          /\ \A k \in 1 .. l : LaunchNodes(p)[k] = p[c + k]
  <2>1. Len(p) \in Nat
      OBVIOUS
  <2>2. /\ Len(CopyNodes(p)) \in Nat /\ Len(LaunchNodes(p)) \in Nat
        /\ Len(CopyNodes(p)) + Len(LaunchNodes(p)) = Len(p)
        /\ \A k \in 1 .. Len(LaunchNodes(p)) : LaunchNodes(p)[k] = p[Len(CopyNodes(p)) + k]
      BY OrderedParts
  <2> QED BY <2>1, <2>2
<1>2. p \in Seq(Things)
  <2>1. Kernels \cup Copies \subseteq Things
      BY DEF Things
  <2> QED BY <2>1
<1>3. PICK d \in Seq(Things) : /\ d = SubSeq(p, c + 1, n) /\ Len(d) = n - c
                               /\ \A j \in 1 .. n - c : d[j] = p[c + j]
  <2>1. c <= n /\ n <= Len(p)
      BY <1>1
  <2> QED BY <2>1, <1>2, PieceOf
<1>4. LaunchNodes(p) \in Seq((Kernels \cup Copies) \cap Kernels)
    BY OfKindLists DEF LaunchNodes
<1>5. Len(d) = l /\ \A j \in 1 .. l : d[j] = LaunchNodes(p)[j]
    BY <1>1, <1>3
<1>6. d = LaunchNodes(p)
    BY <1>1, <1>4, <1>5, SameList
<1> QED BY <1>1, <1>3, <1>6

\* A program that may be recorded fits, so each of its launches does.
LEMMA LaunchFits ==
    ASSUME AllFit, NEW p \in Programs \cup {<<>>}, Ordered(p), NEW n \in Nat,
           n + 1 <= Len(LaunchNodes(p))
    PROVE  RecFits(n)
<1>1. p \in Programs
  <2>1. ASSUME p = <<>> PROVE FALSE
    <3>1. p \in Seq(Kernels \cup Copies) /\ Len(p) = 0
        BY <2>1
    <3>2. Len(LaunchNodes(p)) \in Nat /\ Len(CopyNodes(p)) \in Nat
          /\ Len(CopyNodes(p)) + Len(LaunchNodes(p)) = Len(p)
        BY <3>1, OrderedParts
    <3> QED BY <3>1, <3>2
  <2> QED BY <2>1
<1>2. p \in Seq(Kernels \cup Copies)
    BY <1>1, GraphAssumption
<1>3. PICK l \in Nat : l = Len(LaunchNodes(p)) /\ n + 1 <= l /\ l <= RegionRoom /\ Chains(l) <= ChainsMax
  <2>1. Len(LaunchNodes(p)) \in Nat
      BY <1>2, OrderedParts
  <2> QED BY <2>1, <1>1 DEF AllFit
<1>4. RegionRoom \in Nat /\ ChainsMax \in Nat /\ ChainMax \in Nat /\ ChainMax > 0
    BY GraphAssumption
<1>5. PICK m \in Nat : m = n + 1
    OBVIOUS
<1>6. PICK a \in Nat, b \in Nat : /\ a = Chains(m) /\ b = Chains(l)
                                  /\ (a - 1) * ChainMax < m /\ l <= b * ChainMax
  <2>1. m \in Nat /\ m > 0
      BY <1>5
  <2> QED BY <2>1, ChainsCount
<1>7. a <= b
  <2>1. ASSUME b <= a - 1 PROVE FALSE
    <3>1. b * ChainMax <= (a - 1) * ChainMax /\ b * ChainMax \in Int /\ (a - 1) * ChainMax \in Int
      <4>1. PICK k \in Int : k = a - 1 /\ b <= k
          BY <2>1
      <4> QED BY <4>1, <1>4
    <3> QED BY <3>1, <1>3, <1>5, <1>6
  <2> QED BY <2>1
<1> QED BY <1>3, <1>4, <1>5, <1>6, <1>7 DEF RecFits

\* The next node of a call is one of its program's.
LEMMA NextNode ==
    ASSUME AskedInv, LaunchNode
    PROVE  /\ NodesOf(call)[call.i] \in Things /\ call.i <= Len(NodesOf(call))
           /\ call.pc \in {"nodes", "again"}
<1>1. ReleaseInv
    BY DEF AskedInv
<1>2. call.pc \in {"nodes", "again"} /\ call.i <= Len(NodesOf(call))
    BY DEF LaunchNode
<1>3. /\ Program \in Seq(Things) /\ LaunchNodes(Program) \in Seq(Kernels)
      /\ call.i \in Nat /\ call.i > 0
    BY <1>1, <1>2, ProgramIs
<1>4. LaunchNodes(Program) \in Seq(Things)
  <2>1. Kernels \subseteq Things
      BY DEF Things
  <2> QED BY <2>1, <1>3
<1>5. PICK s \in Seq(Things) : s = NodesOf(call)
    BY <1>3, <1>4 DEF NodesOf, Program
<1>6. call.i \in 1 .. Len(s)
    BY <1>2, <1>3, <1>5
<1> QED BY <1>2, <1>5, <1>6

\* A call's next node: recorded, or handed over.
LEMMA RecordsNode ==
    ASSUME AllFit, AskedInv, LaunchNode, NEW node, node = NodesOf(call)[call.i], DoNode(node),
           call' = IF rec' # None /\ rec'.failed /\ node \in Kernels
                   THEN NoCall ELSE [call EXCEPT !.i = @ + 1],
           node \in Kernels /\ rec # None
    PROVE  BooksInv' /\ LedgerKept'
<1>1. ReleaseInv /\ ChainsKept /\ TokensKept /\ RecordKept /\ CallKept /\ TypesOK /\ timeline \in Nat
    BY DEF AskedInv, BooksInv, ReleaseInv, TypesOK
<1>2. call.pc = "nodes" /\ call.recording /\ ~rec.failed /\ Ordered(Program)
      /\ region[rec.region].keeper = "token" /\ Len(region[rec.region].mirror) = Written
      /\ \A j \in 1 .. Written : region[rec.region].mirror[j] = Program[Ahead + j]
    BY <1>1 DEF RecordKept
<1>3. /\ call.exec \in Execs /\ call.i \in Nat /\ call.i > 0 /\ call \in Calls
      /\ Program \in Seq(Kernels \cup Copies) /\ LaunchNodes(Program) \in Seq(Kernels)
    BY <1>1, <1>2, ProgramIs
<1>4. NodesOf(call) = Program
    BY <1>2 DEF NodesOf, Program
<1>5. PICK p : p = Program
    OBVIOUS
<1>6. PICK n \in Nat, i \in Nat, c \in Nat, l \in Nat :
          /\ n = Len(p) /\ i = call.i /\ c = Ahead /\ l = Len(LaunchNodes(p)) /\ c + l = n /\ i > 0 /\ i <= n
          /\ \A k \in 1 .. c : p[k] \notin Kernels
  <2>1. /\ Len(CopyNodes(p)) \in Nat /\ Len(LaunchNodes(p)) \in Nat
        /\ Len(CopyNodes(p)) + Len(LaunchNodes(p)) = Len(p)
        /\ \A k \in 1 .. Len(CopyNodes(p)) : p[k] \notin Kernels
      BY <1>2, <1>3, <1>5, OrderedParts
  <2>2. Len(p) \in Nat /\ call.i <= Len(p)
      BY <1>3, <1>4, <1>5 DEF LaunchNode
  <2> QED BY <2>1, <2>2, <1>3, <1>5 DEF Ahead
<1>7. node = p[i] /\ i > c
  <2>1. node = p[i]
      BY <1>4, <1>5, <1>6
  <2>2. i <= c => i \in 1 .. c
      BY <1>6
  <2> QED BY <2>1, <2>2, <1>6
<1>8. rec \in Recordings /\ rec.region \in Regions /\ region \in [Regions -> Pairs]
    BY <1>1 DEF TypesOK, Recordings
<1>9. PICK r \in Regions, m \in Nat :
          /\ r = rec.region /\ m = Written /\ m = i - 1 - c /\ m + 1 <= l /\ region[r] \in Pairs
          /\ Len(region[r].mirror) = m /\ \A j \in 1 .. m : region[r].mirror[j] = p[c + j]
  <2>1. Written = i - 1 - c /\ Written \in Nat /\ Written + 1 <= l
      BY <1>6, <1>7 DEF Written
  <2> QED BY <2>1, <1>2, <1>5, <1>6, <1>8
<1>10. RecFits(m)
  <2>1. p \in Programs \cup {<<>>}
      BY <1>1, <1>3, <1>5 DEF TypesOK, Executables, Program
  <2> QED BY <2>1, <1>2, <1>5, <1>6, <1>9, LaunchFits
<1>11. /\ region' = [region EXCEPT ![r].mirror = Append(@, node)] /\ rec' = rec
       /\ NothingSubmitted
    BY <1>9, <1>10 DEF DoNode, RecLaunch
<1>12. call' = [call EXCEPT !.i = @ + 1]
    BY <1>2, <1>11
<1>13. call'.pc = "nodes" /\ call'.recording /\ call'.exec = call.exec /\ call'.i = i + 1
    BY <1>2, <1>3, <1>6, <1>12 DEF Calls
<1>14. execs' = execs /\ owed' = owed /\ wrong' = wrong
    BY DEF LaunchNode, ghostVars
<1>15. /\ timeline' = timeline /\ queue' = queue /\ running' = running /\ sem' = sem
    BY <1>11 DEF NothingSubmitted, engineVars
<1>16. Waiting' = Waiting
    BY <1>15 DEF Waiting
<1>17. \A s \in Regions : s # r => Same(s) /\ NotRecorded(s)
    BY <1>8, <1>9, <1>11 DEF Same, NotRecorded
<1>18. region'[r] = [region[r] EXCEPT !.mirror = Append(@, node)]
    BY <1>8, <1>11
<1>19. /\ region'[r].keeper = "token" /\ Len(region'[r].mirror) = m + 1
       /\ \A j \in 1 .. m : region'[r].mirror[j] = p[c + j]
       /\ region'[r].mirror[m + 1] = p[i]
  <2>1. PICK s \in Seq(Kernels) : s = region[r].mirror /\ Len(s) = m
      BY <1>9 DEF Pairs
  <2>2. region'[r].mirror = Append(s, node) /\ region'[r].keeper = "token"
      BY <2>1, <1>2, <1>9, <1>18 DEF Pairs
  <2>3. Len(Append(s, node)) = m + 1 /\ (\A j \in 1 .. m : Append(s, node)[j] = s[j])
        /\ Append(s, node)[m + 1] = node
      BY <2>1
  <2> QED BY <2>1, <2>2, <2>3, <1>7, <1>9
<1>20. ChainsKept' /\ Mirrored
  <2>1. \A q \in Waiting : q.batch.kind = "chain" => Same(q.batch.region) /\ NotRecorded(q.batch.region)
    <3>1. ASSUME NEW q \in Waiting, q.batch.kind = "chain"
          PROVE  q.batch.region \in Regions /\ q.batch.region # r
        BY <3>1, <1>1, <1>9, WaitingOrder DEF ChainsKept
    <3> QED BY <3>1, <1>17
  <2> QED BY <2>1, <1>1, <1>16, ChainsStay
<1>21. TokensKept'
  <2>1. ASSUME NEW e \in Execs, execs[e].drv # None
        PROVE  Same(execs[e].drv) /\ NotRecorded(execs[e].drv)
    <3>1. execs[e].drv \in Regions
        BY <2>1, <1>1 DEF TypesOK, Executables
    <3>2. execs[e].drv # r
        BY <2>1, <1>1, <1>9 DEF TokensKept, TokenKept
    <3> QED BY <3>1, <3>2, <1>17
  <2>2. Waiting \subseteq Waiting' /\ timeline' \in Nat /\ timeline <= timeline'
      BY <1>1, <1>15, <1>16
  <2> QED BY <2>1, <2>2, <1>1, <1>14, TokensStay
<1>22. Program' = p /\ Ahead' = c
    BY <1>5, <1>6, <1>13, <1>14 DEF Program, Ahead
<1>23. RecordKept'
  <2>1. Written' = m + 1 /\ c + (m + 1) = i
    <3>1. ~(i + 1 <= c) /\ (i + 1) - 1 - c = m + 1 /\ c + (m + 1) = i
      <4>1. m = i - 1 - c /\ i > c /\ m \in Nat /\ i \in Nat /\ c \in Nat
          BY <1>6, <1>7, <1>9
      <4>2. ~(i + 1 <= c)
          BY <4>1
      <4>3. (i + 1) - 1 - c = m + 1
          BY <4>1
      <4>4. c + (m + 1) = i
          BY <4>1
      <4> QED BY <4>2, <4>3, <4>4
    <3>2. Written' = IF i + 1 <= c THEN 0 ELSE (i + 1) - 1 - c
        BY <1>13, <1>22 DEF Written
    <3> QED BY <3>1, <3>2
  <2>2. \A j \in 1 .. m + 1 : region'[r].mirror[j] = p[c + j]
    <3>1. ASSUME NEW j \in 1 .. m + 1, j \notin 1 .. m PROVE j = m + 1
        BY <3>1
    <3> QED BY <3>1, <2>1, <1>19
  <2>3. Ordered(Program)' /\ rec'.region = r /\ ~rec'.failed
      BY <1>2, <1>5, <1>9, <1>11, <1>22 DEF Ordered
  <2> QED BY <2>1, <2>2, <2>3, <1>13, <1>19, <1>22 DEF RecordKept
<1>24. CallKept'
  <2>1. NodesOf(call)' = p
      BY <1>5, <1>13, <1>14 DEF NodesOf, Program
  <2>2. i + 1 <= n + 1
      BY <1>6
  <2> QED BY <2>1, <2>2, <1>6, <1>13 DEF CallKept
<1>25. Left' = Left
  <2>1. Served = c
    <3>1. i - 1 > c \/ i - 1 = c
        BY <1>6, <1>7
    <3>2. call.pc # "again" /\ rec # None
        BY <1>2
    <3>3. Served = IF i - 1 > c THEN c ELSE i - 1
        BY <3>2, <1>6 DEF Served
    <3> QED BY <3>1, <3>3
  <2>2. Served' = c
      BY <1>6, <1>7, <1>11, <1>13, <1>22 DEF Served
  <2> QED BY <2>1, <2>2, <1>2, <1>5, <1>13, <1>22 DEF Left
<1>26. LedgerKept'
  <2>1. Pending' \subseteq Pending
      BY <1>16, <1>20, PendingStays
  <2>2. Ledger(owed, sem, timeline, Pending', Left)
      BY <2>1, LedgerFewer DEF AskedInv, LedgerKept
  <2> QED BY <2>2, <1>14, <1>15, <1>25 DEF AskedInv, LedgerKept
<1> QED BY <1>20, <1>21, <1>23, <1>24, <1>26 DEF BooksInv

LEMMA HandsNode ==
    ASSUME AskedInv, LaunchNode, NEW node, node = NodesOf(call)[call.i], DoNode(node),
           call' = IF rec' # None /\ rec'.failed /\ node \in Kernels
                   THEN NoCall ELSE [call EXCEPT !.i = @ + 1],
           ~(node \in Kernels /\ rec # None)
    PROVE  BooksInv' /\ LedgerKept'
<1>1. ReleaseInv /\ ChainsKept /\ TokensKept /\ RecordKept /\ CallKept /\ TypesOK /\ timeline \in Nat
    BY DEF AskedInv, BooksInv, ReleaseInv, TypesOK
<1>2. call.pc \in {"nodes", "again"} /\ node \in Things
    BY NextNode
<1>3. /\ call.exec \in Execs /\ call.i \in Nat /\ call.i > 0 /\ call \in Calls
      /\ Program \in Seq(Kernels \cup Copies) /\ Program \in Seq(Things)
      /\ LaunchNodes(Program) \in Seq(Kernels) /\ Ahead \in Nat
    BY <1>1, <1>2, ProgramIs
<1>4. /\ Submit(Work(node)) /\ rec' = rec /\ region' = region
    BY DEF DoNode
<1>5. call' = [call EXCEPT !.i = @ + 1]
    BY <1>4
<1>6. PICK p : p = Program
    OBVIOUS
<1>7. PICK n \in Nat, i \in Nat, c \in Nat : n = Len(p) /\ i = call.i /\ c = Ahead /\ i > 0
  <2>1. Len(p) \in Nat
      BY <1>3, <1>6
  <2> QED BY <2>1, <1>3, <1>6
<1>8. call'.pc = call.pc /\ call'.recording = call.recording /\ call'.exec = call.exec /\ call'.i = i + 1
    BY <1>3, <1>5, <1>7 DEF Calls
<1>9. execs' = execs /\ owed' = owed /\ wrong' = wrong
    BY DEF LaunchNode, ghostVars
<1>10. Program' = p /\ Ahead' = c
    BY <1>6, <1>7, <1>8, <1>9 DEF Program, Ahead
<1>11. rec # None => i <= c /\ call.pc = "nodes" /\ Ordered(p)
  <2>1. ASSUME rec # None, i > c PROVE FALSE
    <3>1. call.pc = "nodes" /\ Ordered(p)
        BY <2>1, <1>1, <1>6 DEF RecordKept
    <3>2. PICK l \in Nat : c + l = n /\ \A k \in 1 .. l : p[c + k] \in Kernels
        BY <3>1, <1>3, <1>6, <1>7, OrderedParts DEF Ahead
    <3>3. i <= n /\ node = p[i]
        BY <3>1, <1>6, <1>7 DEF LaunchNode, NodesOf, Program
    <3>4. PICK k \in 1 .. l : i = c + k
      <4>1. i - c \in 1 .. l /\ i = c + (i - c)
          BY <2>1, <3>2, <3>3, <1>7
      <4> QED BY <4>1
    <3> QED BY <2>1, <3>2, <3>3, <3>4
  <2>2. i <= c \/ i > c
      BY <1>7
  <2> QED BY <2>1, <2>2, <1>1, <1>6 DEF RecordKept
<1>12. PICK s \in Nat : s = Served /\ s < n /\ node = p[s + 1] /\ Served' = s + 1
  <2>1. CASE call.pc = "again"
    <3>1. PICK l \in Nat : /\ c + l = n /\ l = Len(LaunchNodes(p))
                           /\ \A k \in 1 .. l : LaunchNodes(p)[k] = p[c + k]
      <4>1. Ordered(p)
          BY <2>1, <1>1, <1>6 DEF CallKept
      <4>2. /\ Len(LaunchNodes(p)) \in Nat
            /\ Len(CopyNodes(p)) + Len(LaunchNodes(p)) = Len(p)
            /\ \A k \in 1 .. Len(LaunchNodes(p)) :
                   LaunchNodes(p)[k] = p[Len(CopyNodes(p)) + k]
          BY <4>1, <1>3, <1>6, OrderedParts
      <4>3. Len(CopyNodes(p)) = c
          BY <1>6, <1>7 DEF Ahead
      <4> QED BY <4>2, <4>3, <1>7
    <3>2. i <= l /\ node = LaunchNodes(p)[i]
        BY <2>1, <3>1, <1>6, <1>7 DEF LaunchNode, NodesOf, Program
    <3>3. node = p[c + i] /\ i \in 1 .. l
        BY <3>1, <3>2, <1>7
    <3>4. Served = c + (i - 1) /\ Served' = c + (i + 1 - 1)
        BY <2>1, <1>7, <1>8, <1>10 DEF Served
    <3>5. c + (i - 1) \in Nat /\ c + (i - 1) < n /\ (c + (i - 1)) + 1 = c + i /\ c + (i + 1 - 1) = c + i
        BY <3>1, <3>3, <1>7
    <3> QED BY <3>3, <3>4, <3>5
  <2>2. CASE call.pc # "again"
    <3>1. call.pc = "nodes" /\ i <= n /\ node = p[i]
        BY <2>2, <1>2, <1>6, <1>7 DEF LaunchNode, NodesOf, Program
    <3>2. Served = i - 1
        BY <3>1, <1>7, <1>11 DEF Served
    <3>3. Served' = i
        BY <3>1, <1>4, <1>7, <1>8, <1>10, <1>11 DEF Served
    <3>4. i - 1 \in Nat /\ i - 1 < n /\ (i - 1) + 1 = i
        BY <3>1, <1>7
    <3> QED BY <3>1, <3>2, <3>3, <3>4
  <2> QED BY <2>1, <2>2
<1>13. \A r : Same(r) /\ (rec # None => (NotRecorded(r) <=> rec.region # r)) /\ (rec = None => NotRecorded(r))
    BY <1>4 DEF Same, NotRecorded
<1>14. PICK bs \in Seq(Batches) : bs = Work(node) /\ Len(bs) = 1 /\ bs[1].kind = "work" /\ Submit(bs)
    BY <1>2, <1>4, WorkIs
<1>15. ChainsKept' /\ Mirrored
  <2>1. PICK t : t = timeline
      OBVIOUS
  <2>2. \A k \in 1 .. Len(bs) : bs[k].kind # "chain"
      BY <1>14
  <2>3. \A k \in 1 .. Len(bs) : bs[k].kind = "chain" =>
               /\ region'[bs[k].region].keeper = "token" /\ SealedFor(bs[k].region, t + k)'
               /\ NotRecorded(bs[k].region)
      BY <2>2
  <2>4. \A q \in Waiting : q.batch.kind = "chain" => Same(q.batch.region) /\ NotRecorded(q.batch.region)
      BY <1>1, <1>13 DEF ChainsKept
  <2> QED BY <2>1, <2>3, <2>4, <1>1, <1>14, ChainsGrow
<1>16. Waiting \subseteq Waiting' /\ timeline' = timeline + 1
    BY <1>1, <1>14, WaitingSubmit
<1>17. TokensKept'
  <2>1. ASSUME NEW e \in Execs, execs[e].drv # None
        PROVE  Same(execs[e].drv) /\ NotRecorded(execs[e].drv)
      BY <2>1, <1>1, <1>13 DEF TokensKept, TokenKept
  <2>2. timeline' \in Nat /\ timeline <= timeline'
      BY <1>1, <1>16
  <2> QED BY <2>1, <2>2, <1>1, <1>9, <1>16, TokensStay
<1>18. RecordKept'
  <2>1. CASE rec = None
      BY <2>1, <1>4 DEF RecordKept
  <2>2. CASE rec # None
    <3>1. Written = 0 /\ Written' = 0
      <4>1. i <= c /\ (i + 1 <= c \/ i + 1 - 1 - c = 0)
          BY <2>2, <1>7, <1>11
      <4> QED BY <4>1, <1>7, <1>8, <1>10 DEF Written
    <3>2. Ordered(Program)'
        BY <2>2, <1>10, <1>11 DEF Ordered
    <3> QED BY <2>2, <3>1, <3>2, <1>1, <1>4, <1>8 DEF RecordKept
  <2> QED BY <2>1, <2>2
<1>19. CallKept'
  <2>1. NodesOf(call)' = NodesOf(call)
      BY <1>8, <1>9 DEF NodesOf
  <2>2. call'.i <= Len(NodesOf(call)) + 1
    <3>1. Len(NodesOf(call)) \in Nat /\ call.i <= Len(NodesOf(call))
        BY <1>3 DEF NodesOf, Program, LaunchNode
    <3> QED BY <3>1, <1>7, <1>8
  <2>3. call'.pc = "again" => Ordered(Program)'
      BY <1>1, <1>6, <1>8, <1>10 DEF CallKept, Ordered
  <2> QED BY <2>1, <2>2, <2>3 DEF CallKept
<1>20. Left = SubSeq(p, s + 1, n) /\ Left' = SubSeq(p, (s + 1) + 1, n)
  <2>1. Left = SubSeq(p, s + 1, n)
      BY <1>2, <1>6, <1>7, <1>12 DEF Left
  <2>2. Left' = SubSeq(p, (s + 1) + 1, n)
      BY <1>2, <1>7, <1>8, <1>10, <1>12 DEF Left
  <2> QED BY <2>1, <2>2
<1>21. PICK r : r = Left /\ Len(r) > 0 /\ r[1] = node /\ SubSeq(r, 2, Len(r)) = Left'
  <2>1. PICK e : e = SubSeq(p, s + 1, Len(p))
      OBVIOUS
  <2>2. p \in Seq(Things) /\ s < Len(p)
      BY <1>3, <1>6, <1>7, <1>12
  <2>3. Len(e) > 0 /\ e[1] = p[s + 1] /\ SubSeq(e, 2, Len(e)) = SubSeq(p, s + 2, Len(p))
      BY <2>1, <2>2, EndsEnd
  <2>4. (s + 1) + 1 = s + 2
      OBVIOUS
  <2> QED BY <2>1, <2>3, <2>4, <1>7, <1>12, <1>20
<1>22. Ledger(owed, sem', timeline', Pending', Left')
  <2>1. Ledger(owed, sem, timeline, Pending, r)
      BY <1>21 DEF AskedInv, LedgerKept
  <2>2. Ledger(owed, sem', timeline', Pending', SubSeq(r, 2, Len(r)))
      BY <2>1, <1>1, <1>2, <1>4, <1>15, <1>21, OneWork
  <2> QED BY <2>2, <1>21
<1>23. LedgerKept'
    BY <1>9, <1>22 DEF AskedInv, LedgerKept
<1> QED BY <1>15, <1>17, <1>18, <1>19, <1>23 DEF BooksInv

LEMMA NodeAsked == ASSUME AllFit, AskedInv, LaunchNode PROVE BooksInv' /\ LedgerKept'
<1>1. PICK node : /\ node = NodesOf(call)[call.i] /\ DoNode(node)
                  /\ call' = IF rec' # None /\ rec'.failed /\ node \in Kernels
                             THEN NoCall ELSE [call EXCEPT !.i = @ + 1]
    BY DEF LaunchNode
<1>2. CASE node \in Kernels /\ rec # None
    BY <1>1, <1>2, RecordsNode
<1>3. CASE ~(node \in Kernels /\ rec # None)
    BY <1>1, <1>3, HandsNode
<1> QED BY <1>2, <1>3

\* A region's n launches, in chains, after other batches (ws), each at its place.
RunsAfter(bs, ws, r, n) ==
    /\ bs \in Seq(Batches) /\ Len(bs) = Len(ws) + Chains(n) /\ Chains(n) \in Nat
    /\ \A i \in 1 .. Len(ws) : bs[i] = ws[i]
    /\ \A k \in 1 .. Chains(n) : /\ bs[Len(ws) + k].kind = "chain" /\ bs[Len(ws) + k].region = r
                                 /\ bs[Len(ws) + k].chain = k

LEMMA TokenBatches ==
    ASSUME NEW ws \in Seq(Batches), NEW r \in Regions, NEW n \in Nat, NEW at0 \in Nat, NEW R,
           R = Replay(r, n, at0)
    PROVE  RunsAfter(ws \o R, ws, r, n)
<1>1. /\ Proper(R) /\ Len(R) = Chains(n)
      /\ \A k \in 1 .. Chains(n) : R[k].kind = "chain" /\ R[k].region = r /\ R[k].chain = k
  <2>1. /\ Proper(Replay(r, n, at0)) /\ GoodBatches(Replay(r, n, at0), at0)
        /\ Len(Replay(r, n, at0)) = Chains(n)
        /\ \A k \in 1 .. Chains(n) : /\ Replay(r, n, at0)[k].kind = "chain"
                                     /\ Replay(r, n, at0)[k].region = r
                                     /\ Replay(r, n, at0)[k].chain = k
      BY ReplayIsGood, SMTT(60)
  <2> QED BY <2>1
<1>2. R \in Seq(Batches)
    BY <1>1 DEF Proper
<1>3. PICK bs : bs = ws \o R
    OBVIOUS
<1>4. /\ bs \in Seq(Batches) /\ Len(bs) = Len(ws) + Len(R)
      /\ \A i \in 1 .. Len(ws) : bs[i] = ws[i]
      /\ \A k \in 1 .. Len(R) : bs[Len(ws) + k] = R[k]
    BY <1>2, <1>3, JoinedSeqs
<1>5. ASSUME NEW k \in 1 .. Chains(n)
      PROVE  /\ bs[Len(ws) + k].kind = "chain" /\ bs[Len(ws) + k].region = r
             /\ bs[Len(ws) + k].chain = k
  <2>1. bs[Len(ws) + k] = R[k]
      BY <1>1, <1>4
  <2> QED BY <2>1, <1>1
<1> QED BY <1>1, <1>3, <1>4, <1>5, ChainsCount DEF RunsAfter

\* A token runs: its region's chains are handed over, after other batches (ws)
\* that do what E0 says.
LEMMA TokenHands ==
    ASSUME ReleaseInv, ChainsKept, region' = region, rec' = None, NEW r \in Regions,
           NEW ws \in Seq(Batches),
           \A i \in 1 .. Len(ws) : ws[i].kind # "chain", NEW c \in Nat, c = Len(ws),
           NEW rest, rest = region[r].mirror, NEW n \in Nat, n = Len(rest), NEW t \in Nat,
              t = timeline,
           Submit(ws \o Replay(r, n, t + c)), region[r].keeper = "token",
           \A v \in Nat : v > t + c => SealedFor(r, v)',
           NEW E0, \A i \in 1 .. c : Entry(t + i, WorkOf(region, ws[i])) \in E0,
           NEW o, Ledger(o, sem, t + c, Pending \cup E0, rest)
    PROVE  /\ ChainsKept' /\ Ledger(o, sem', timeline', Pending', <<>>)
           /\ Waiting \subseteq Waiting' /\ timeline' \in Nat /\ timeline <= timeline'
<1>1. PICK ac \in Nat : ac = t + c
    OBVIOUS
<1>2. PICK m \in Nat : m = Chains(n)
    BY ChainsCount
<1>3. PICK R : R = Replay(r, n, ac)
    OBVIOUS
<1>4. PICK bs : bs = ws \o R
    OBVIOUS
<1>5. /\ bs \in Seq(Batches) /\ Len(bs) = c + m /\ Submit(bs)
      /\ \A i \in 1 .. c : bs[i] = ws[i]
      /\ \A k \in 1 .. m : bs[c + k].kind = "chain" /\ bs[c + k].region = r /\ bs[c + k].chain = k
  <2>1. Submit(bs)
      BY <1>1, <1>3, <1>4
  <2>2. RunsAfter(ws \o R, ws, r, n)
      BY <1>3, TokenBatches
  <2> QED BY <2>1, <2>2, <1>2, <1>4 DEF RunsAfter
<1>6. ASSUME NEW i \in 1 .. Len(bs) PROVE i \in 1 .. c \/ \E k \in 1 .. m : i = c + k
  <2>1. i \in Nat /\ i > 0 /\ i <= c + m
      BY <1>5
  <2>2. i \notin 1 .. c => i - c \in 1 .. m /\ i = c + (i - c)
      BY <2>1
  <2> QED BY <2>2
<1>7. \A q : Same(q) /\ NotRecorded(q)
    BY DEF Same, NotRecorded
<1>8. \A i \in 1 .. Len(bs) : bs[i].kind = "chain" =>
          /\ region'[bs[i].region].keeper = "token" /\ SealedFor(bs[i].region, t + i)'
          /\ NotRecorded(bs[i].region)
  <2>1. ASSUME NEW i \in 1 .. Len(bs), bs[i].kind = "chain"
        PROVE  bs[i].region = r /\ SealedFor(r, t + i)'
    <3>1. i \notin 1 .. c
        BY <2>1, <1>5
    <3>2. PICK k \in 1 .. m : i = c + k
        BY <3>1, <1>6
    <3>3. bs[i].region = r
        BY <3>2, <1>2, <1>5
    <3>4. PICK v \in Nat : v = t + i /\ v > t + c
        BY <3>2
    <3>5. SealedFor(r, v)'
        BY <3>4
    <3> QED BY <3>3, <3>4, <3>5 DEF SealedFor
  <2>2. ASSUME NEW i \in 1 .. Len(bs), bs[i].kind = "chain"
        PROVE  /\ region'[bs[i].region].keeper = "token" /\ SealedFor(bs[i].region, t + i)'
               /\ NotRecorded(bs[i].region)
    <3>1. bs[i].region = r /\ SealedFor(r, t + i)'
        BY <2>1, <2>2
    <3> QED BY <3>1, <1>7 DEF SealedFor
  <2> QED BY <2>2
<1>9. ChainsKept' /\ Mirrored
    BY <1>5, <1>7, <1>8, ChainsGrow
<1>10. PICK F : F = {Entry(ac + k, ChainOf(rest, k)) : k \in 1 .. Chains(n)}
    OBVIOUS
<1>11. Ledger(o, sem, ac + m, (Pending \cup E0) \cup F, <<>>)
  <2>1. PICK p : p = Pending \cup E0
      OBVIOUS
  <2>2. Ledger(o, sem, ac, p, rest)
      BY <1>1, <2>1
  <2>3. Ledger(o, sem, ac + Chains(n), p \cup F, <<>>)
      BY <2>2, <1>10, HandsChains
  <2> QED BY <2>1, <2>3, <1>2
<1>12. \A i \in 1 .. Len(bs) : Entry(timeline + i, WorkOf(region', bs[i])) \in E0 \cup F
  <2>1. ASSUME NEW i \in 1 .. c PROVE Entry(timeline + i, WorkOf(region', bs[i])) \in E0
      BY <1>5
  <2>2. ASSUME NEW k \in 1 .. m PROVE Entry(timeline + (c + k), WorkOf(region', bs[c + k])) \in F
    <3>1. WorkOf(region', bs[c + k]) = ChainOf(rest, k)
      <4>1. bs[c + k].kind = "chain" /\ bs[c + k].region = r /\ bs[c + k].chain = k
          BY <1>5
      <4> QED BY <4>1 DEF WorkOf
    <3>2. timeline + (c + k) = ac + k
        BY <1>1
    <3> QED BY <3>1, <3>2, <1>2, <1>10
  <2> QED BY <2>1, <2>2, <1>6
<1>13. Ledger(o, sem', timeline', Pending', <<>>)
  <2>1. PICK E : E = E0 \cup F
      OBVIOUS
  <2>2. timeline + Len(bs) = ac + m /\ (Pending \cup E0) \cup F = Pending \cup E
    <3>1. timeline + Len(bs) = ac + m
      <4>1. Len(bs) = c + m /\ ac = t + c /\ timeline = t
          BY <1>1, <1>5
      <4>2. t + (c + m) = (t + c) + m
          OBVIOUS
      <4> QED BY <4>1, <4>2
    <3> QED BY <3>1, <2>1
  <2>3. Ledger(o, sem, timeline + Len(bs), Pending \cup E, <<>>)
      BY <2>2, <1>11
  <2> QED BY <2>1, <2>3, <1>5, <1>9, <1>12, LedgerGrows
<1>14. Waiting \subseteq Waiting' /\ timeline' = timeline + Len(bs)
    BY <1>5, WaitingSubmit
<1> QED BY <1>5, <1>9, <1>13, <1>14

\* A graph that has a token is launched: its copies, and its chains again.
LEMMA ResidentAsked ==
    ASSUME AskedInv, NEW e \in Execs, GraphLaunch(e), execs[e].drv # None
    PROVE  BooksInv' /\ LedgerKept'
<1>1. ReleaseInv /\ ChainsKept /\ TokensKept /\ TypesOK /\ timeline \in Nat
    BY DEF AskedInv, BooksInv, ReleaseInv, TypesOK
<1>2. LaunchResident(e) /\ Idle /\ Asked(execs[e].nodes)
    BY DEF GraphLaunch
<1>3. execs' = execs /\ call' = call /\ rec' = rec /\ region' = region
    BY <1>2 DEF LaunchResident
<1>4. rec = None /\ Ledger(owed, sem, timeline, Pending, <<>>) /\ ~wrong
    BY <1>2, BetweenCalls
<1>5. PICK p \in Seq(Kernels \cup Copies) : p = execs[e].nodes /\ p \in Seq(Things)
  <2>1. execs[e].nodes \in Seq(Kernels \cup Copies)
      BY <1>1, NodesAreThings
  <2>2. Kernels \cup Copies \subseteq Things
      BY DEF Things
  <2> QED BY <2>1, <2>2
<1>6. PICK r \in Regions :
          /\ r = execs[e].drv /\ region[r].keeper = "token" /\ SealedFor(r, timeline + 1)
          /\ Ordered(p) /\ region[r].mirror = LaunchNodes(p)
  <2>1. TokenKept(e)
      BY <1>1 DEF TokensKept
  <2>2. execs[e].drv \in Regions
      BY <1>1 DEF TypesOK, Executables
  <2> QED BY <2>1, <2>2, <1>5 DEF TokenKept
<1>7. PICK o : o = owed \o p /\ Ledger(o, sem, timeline, Pending, p)
    BY <1>4, <1>5, LedgerAsks
<1>8. PICK t \in Nat : t = timeline
    BY <1>1
<1>9. PICK c \in Nat : /\ c = Len(CopyNodes(p)) /\ c <= Len(p)
                       /\ \A k \in 1 .. c : CopyNodes(p)[k] = p[k]
  <2>1. /\ Len(CopyNodes(p)) \in Nat /\ Len(LaunchNodes(p)) \in Nat
        /\ Len(CopyNodes(p)) + Len(LaunchNodes(p)) = Len(p)
        /\ \A k \in 1 .. Len(CopyNodes(p)) : CopyNodes(p)[k] = p[k]
      BY <1>5, <1>6, OrderedParts
  <2> QED BY <2>1
<1>10. PICK rest : rest = LaunchNodes(p)
    OBVIOUS
<1>11. PICK n \in Nat : n = Len(rest)
    BY <1>5, <1>6, <1>10, OrderedParts
<1>12. PICK ws : ws = [i \in DOMAIN CopyNodes(p) |-> Work(CopyNodes(p)[i])[1]]
    OBVIOUS
<1>13. /\ ws \in Seq(Batches) /\ Len(ws) = c
       /\ \A i \in 1 .. c : ws[i].kind = "work" /\ ws[i].node = p[i]
  <2>1. PICK cp : cp = CopyNodes(p)
      OBVIOUS
  <2>2. cp \in Seq(Copies) /\ Len(cp) = c /\ DOMAIN cp = 1 .. c
      BY <2>1, <1>1, <1>5, <1>9, NodesAreThings
  <2>3. ASSUME NEW i \in 1 .. c
        PROVE  Work(cp[i])[1] \in Batches /\ Work(cp[i])[1].kind = "work" /\ Work(cp[i])[1].node = cp[i]
    <3>1. cp[i] \in Things
        BY <2>2 DEF Things
    <3>2. Batch("work", cp[i], None, 0, <<>>) \in Batches
        BY <3>1 DEF Batch, Batches
    <3>3. Work(cp[i])[1] = Batch("work", cp[i], None, 0, <<>>)
        BY DEF Work
    <3> QED BY <3>2, <3>3 DEF Batch
  <2>4. ws = [i \in 1 .. c |-> Work(cp[i])[1]]
      BY <2>1, <2>2, <1>12
  <2> QED BY <2>1, <2>3, <2>4, <1>9
<1>14. PICK E0 : E0 = {Entry(t + i, <<p[i]>>) : i \in 1 .. c}
    OBVIOUS
<1>15. Ledger(o, sem, t + c, Pending \cup E0, rest)
  <2>1. Ledger(o, sem, t, Pending, p)
      BY <1>7, <1>8
  <2>2. Ledger(o, sem, t + c, Pending \cup E0, SubSeq(p, c + 1, Len(p)))
      BY <2>1, <1>9, <1>14, HandsEach
  <2>3. SubSeq(p, Len(CopyNodes(p)) + 1, Len(p)) = LaunchNodes(p)
      BY <1>5, <1>6, LaunchesEnd
  <2> QED BY <2>2, <2>3, <1>9, <1>10
<1>16. \A i \in 1 .. c : Entry(t + i, WorkOf(region, ws[i])) \in E0
    BY <1>13, <1>14 DEF WorkOf
<1>17. Submit(ws \o Replay(r, n, t + c))
    BY <1>2, <1>5, <1>6, <1>8, <1>9, <1>10, <1>11, <1>12 DEF LaunchResident
<1>18. Waiting \subseteq Waiting'
  <2>1. PICK ac \in Nat : ac = t + c
      OBVIOUS
  <2>2. PICK R : R = Replay(r, n, ac)
      OBVIOUS
  <2>3. ws \o R \in Seq(Batches) /\ Submit(ws \o R)
      BY <2>1, <2>2, <1>13, <1>17, TokenBatches DEF RunsAfter
  <2> QED BY <2>3, <1>1, WaitingSubmit
<1>19. \A v \in Nat : v > t + c => SealedFor(r, v)'
  <2>1. ASSUME NEW v \in Nat, v > t + c PROVE SealedFor(r, v)'
    <3>1. PICK u \in Nat : u = timeline + 1 /\ u <= v
        BY <2>1, <1>8
    <3>2. SealedFor(r, u) /\ region'[r].mem = region[r].mem /\ region'[r].mirror = region[r].mirror
        BY <3>1, <1>3, <1>6
    <3> QED BY <3>1, <3>2, <1>1, <1>18, SealedStays
  <2> QED BY <2>1
<1>20. /\ ChainsKept' /\ Ledger(o, sem', timeline', Pending', <<>>)
       /\ timeline' \in Nat /\ timeline <= timeline'
  <2>1. rest = region[r].mirror /\ c = Len(ws) /\ rec' = None
      BY <1>3, <1>4, <1>6, <1>10, <1>13
  <2>2. \A i \in 1 .. Len(ws) : ws[i].kind # "chain"
      BY <1>13
  <2> QED BY <2>1, <2>2, <1>1, <1>3, <1>6, <1>8, <1>11, <1>13, <1>15, <1>16, <1>17, <1>19,
             TokenHands
<1>21. TokensKept'
  <2>1. \A f \in Execs : Same(execs[f].drv) /\ NotRecorded(execs[f].drv)
      BY <1>3, <1>4 DEF Same, NotRecorded
  <2> QED BY <2>1, <1>1, <1>3, <1>18, <1>20, TokensStay
<1>22. owed' = o /\ wrong' = wrong
    BY <1>2, <1>5, <1>7 DEF Asked
<1>23. RecordKept' /\ CallKept' /\ LedgerKept'
    BY <1>2, <1>3, <1>4, <1>20, <1>22, EndsBetween DEF Idle
<1> QED BY <1>20, <1>21, <1>23 DEF BooksInv

\* A call that has handed nothing over has all of its program left.
LEMMA EntersCall ==
    ASSUME NEW e \in Execs, NEW p \in Seq(Kernels \cup Copies), execs'[e].nodes = p,
           \E b \in BOOLEAN : Enter("nodes", e, b)
    PROVE  /\ CallKept' /\ Left' = p /\ Program' = p /\ Written' = 0
           /\ call'.pc = "nodes" /\ call'.i = 1 /\ call'.exec = e
<1>1. call'.pc = "nodes" /\ call'.i = 1 /\ call'.exec = e
    BY DEF Enter
<1>2. Program' = p /\ NodesOf(call)' = p
    BY <1>1 DEF Program, NodesOf
<1>3. PICK c \in Nat : c = Ahead'
  <2>1. CopyNodes(p) \in Seq((Kernels \cup Copies) \cap Copies)
      BY OfKindLists DEF CopyNodes
  <2> QED BY <2>1, <1>2 DEF Ahead
<1>4. Len(p) \in Nat
    OBVIOUS
<1>5. CallKept'
  <2>1. 1 <= Len(p) + 1
      BY <1>4
  <2>2. call'.i <= Len(NodesOf(call)') + 1
      BY <2>1, <1>1, <1>2, Zenon
  <2>3. call'.pc # "again"
      BY <1>1
  <2> QED BY <2>2, <2>3 DEF CallKept
<1>6. Written' = 0
  <2>1. 1 <= Ahead' \/ 1 - 1 - Ahead' = 0
    <3>1. 1 <= c \/ 1 - 1 - c = 0
        OBVIOUS
    <3> QED BY <3>1, <1>3, Zenon
  <2>2. Written' = IF 1 <= Ahead' THEN 0 ELSE 1 - 1 - Ahead'
      BY <1>1, Zenon DEF Written
  <2> QED BY <2>1, <2>2, Zenon
<1>7. Served' = 0
  <2>1. ~(1 - 1 > c) /\ 1 - 1 = 0
      BY <1>3
  <2> QED BY <2>1, <1>1, <1>3 DEF Served
<1>8. Left' = SubSeq(p, 1, Len(p))
  <2>1. 0 + 1 = 1
      OBVIOUS
  <2> QED BY <2>1, <1>1, <1>2, <1>7 DEF Left
<1>9. SubSeq(p, 1, Len(p)) = p
    OBVIOUS
<1> QED BY <1>1, <1>2, <1>5, <1>6, <1>8, <1>9

\* A graph without a token is launched: a recording begins, or is declined.
LEMMA BeginsAsked ==
    ASSUME AskedInv, NEW e \in Execs, GraphLaunch(e), execs[e].drv = None
    PROVE  BooksInv' /\ LedgerKept'
<1>1. ReleaseInv /\ ChainsKept /\ TokensKept /\ TypesOK /\ timeline \in Nat
    BY DEF AskedInv, BooksInv, ReleaseInv, TypesOK
<1>2. GraphBegin(e) /\ NothingSubmitted /\ Idle /\ Asked(execs[e].nodes)
    BY DEF GraphLaunch
<1>3. rec = None /\ Ledger(owed, sem, timeline, Pending, <<>>) /\ ~wrong
    BY <1>2, BetweenCalls
<1>4. /\ execs \in [Execs -> Executables] /\ region \in [Regions -> Pairs]
      /\ timeline' = timeline /\ queue' = queue /\ running' = running /\ sem' = sem
    BY <1>1, <1>2 DEF TypesOK, NothingSubmitted, engineVars
<1>5. PICK p \in Seq(Kernels \cup Copies) : p = execs[e].nodes /\ p \in Seq(Things)
  <2>1. execs[e].nodes \in Seq(Kernels \cup Copies)
      BY <1>1, NodesAreThings
  <2>2. Kernels \cup Copies \subseteq Things
      BY DEF Things
  <2> QED BY <2>1, <2>2
<1>6. PICK o : o = owed \o p /\ Ledger(o, sem, timeline, Pending, p)
    BY <1>3, <1>5, LedgerAsks
<1>7. owed' = o /\ wrong' = wrong
    BY <1>2, <1>5, <1>6 DEF Asked
<1>8. Waiting' = Waiting
    BY <1>4 DEF Waiting
<1>9. Waiting \subseteq Waiting' /\ timeline' \in Nat /\ timeline <= timeline'
    BY <1>1, <1>4, <1>8
<1>10. CASE \E r \in Regions : RecordInto(r) /\ Enter("nodes", e,
         TRUE) /\ UNCHANGED execs /\ Ordered(p)
  <2>1. PICK r \in Regions : RecordInto(r) /\ Enter("nodes", e,
          TRUE) /\ execs' = execs /\ Ordered(p)
      BY <1>10
  <2>2. /\ \E b \in BOOLEAN : Enter("nodes", e, b)
        /\ execs'[e].nodes = p /\ call'.recording
      BY <2>1, <1>5 DEF Enter
  <2>3. /\ CallKept' /\ Left' = p /\ Program' = p /\ Written' = 0
        /\ call'.pc = "nodes" /\ call'.i = 1 /\ call'.exec = e
      BY <2>2, EntersCall
  <2>4. region[r].keeper # "token"
      BY <2>1 DEF RecordInto, Pooled
  <2>5. rec' # None /\ rec'.region = r /\ ~rec'.failed
    <3>1. rec' = [region |-> r, failed |-> FALSE]
        BY <2>1 DEF RecordInto
    <3>2. rec' \in [region : Regions, failed : BOOLEAN]
        BY <3>1
    <3> QED BY <3>1, <3>2, GraphAssumption
  <2>6. /\ region'[r].keeper = "token" /\ region'[r].mirror = <<>>
        /\ \A s \in Regions : s # r => region'[s] = region[s]
    <3>1. PICK pair : /\ pair = [Free EXCEPT !.keeper = "token", !.mem = region[r].mem,
                                             !.tails = region[r].tails]
                      /\ region' = [region EXCEPT ![r] = pair]
        BY <2>1 DEF RecordInto
    <3>2. pair.keeper = "token" /\ pair.mirror = <<>>
        BY <3>1 DEF Free
    <3> QED BY <3>1, <3>2, <1>4
  <2>7. \A s \in Regions : region[s].keeper = "token" => Same(s) /\ NotRecorded(s)
      BY <2>4, <2>5, <2>6 DEF Same, NotRecorded
  <2>8. ChainsKept' /\ Mirrored
    <3>1. \A q \in Waiting : q.batch.kind = "chain" => Same(q.batch.region) /\ NotRecorded(q.batch.region)
      <4>1. ASSUME NEW q \in Waiting, q.batch.kind = "chain"
            PROVE  q.batch.region \in Regions /\ region[q.batch.region].keeper = "token"
          BY <4>1, <1>1, WaitingOrder DEF ChainsKept
      <4> QED BY <4>1, <2>7
    <3> QED BY <3>1, <1>1, <1>8, ChainsStay
  <2>9. TokensKept'
    <3>1. ASSUME NEW f \in Execs, execs[f].drv # None
          PROVE  Same(execs[f].drv) /\ NotRecorded(execs[f].drv)
      <4>1. execs[f].drv \in Regions
          BY <3>1, <1>4 DEF Executables
      <4>2. region[execs[f].drv].keeper = "token"
          BY <3>1, <1>1 DEF TokensKept, TokenKept
      <4> QED BY <4>1, <4>2, <2>7
    <3> QED BY <3>1, <2>1, <1>1, <1>9, TokensStay
  <2>10. RecordKept'
    <3>1. Ordered(Program)' /\ Len(region'[r].mirror) = 0
        BY <2>1, <2>3, <2>6 DEF Ordered
    <3>2. \A j \in 1 .. 0 : FALSE
        OBVIOUS
    <3> QED BY <3>1, <3>2, <2>2, <2>3, <2>5, <2>6 DEF RecordKept
  <2>11. Ledger(o, sem, timeline, Pending', p)
    <3>1. Pending' \subseteq Pending
        BY <2>8, <1>8, PendingStays
    <3> QED BY <3>1, <1>6, LedgerFewer
  <2>12. LedgerKept'
      BY <2>3, <2>11, <1>3, <1>4, <1>7 DEF LedgerKept
  <2> QED BY <2>3, <2>8, <2>9, <2>10, <2>12 DEF BooksInv
<1>11. CASE /\ Enter("nodes", e, FALSE) /\ UNCHANGED <<rec, region>>
            /\ execs' = [execs EXCEPT ![e].refused = TRUE]
  <2>1. \A f \in Execs : execs'[f].drv = execs[f].drv /\ execs'[f].nodes = execs[f].nodes
    <3>1. execs' = [execs EXCEPT ![e] = [execs[e] EXCEPT !.refused = TRUE]]
        BY <1>11
    <3>2. execs[e] \in Executables
        BY <1>4
    <3>3. [execs[e] EXCEPT !.refused = TRUE].drv = execs[e].drv
          /\ [execs[e] EXCEPT !.refused = TRUE].nodes = execs[e].nodes
        BY <3>2 DEF Executables
    <3> QED BY <3>1, <3>3, <1>4
  <2>2. /\ \E b \in BOOLEAN : Enter("nodes", e, b)
        /\ execs'[e].nodes = p
      BY <2>1, <1>5, <1>11
  <2>3. CallKept' /\ Left' = p
      BY <2>2, EntersCall
  <2>4. \A r : Same(r) /\ NotRecorded(r)
      BY <1>3, <1>11 DEF Same, NotRecorded
  <2>5. ChainsKept' /\ Mirrored
      BY <2>4, <1>1, <1>8, ChainsStay
  <2>6. TokensKept'
      BY <2>1, <2>4, <1>1, <1>9, TokensStay
  <2>7. RecordKept'
      BY <1>3, <1>11 DEF RecordKept
  <2>8. Ledger(o, sem, timeline, Pending', p)
    <3>1. Pending' \subseteq Pending
        BY <2>5, <1>8, PendingStays
    <3> QED BY <3>1, <1>6, LedgerFewer
  <2>9. LedgerKept'
      BY <2>3, <2>8, <1>3, <1>4, <1>7 DEF LedgerKept
  <2> QED BY <2>3, <2>5, <2>6, <2>7, <2>9 DEF BooksInv
<1>12. Ordered(execs[e].nodes) <=> Ordered(p)
    BY <1>5
<1> QED BY <1>2, <1>10, <1>11, <1>12 DEF GraphBegin

LEMMA LaunchAsked ==
    ASSUME AskedInv, NEW e \in Execs, GraphLaunch(e) PROVE BooksInv' /\ LedgerKept'
    BY ResidentAsked, BeginsAsked

\* A recording that is complete holds the launches of the program, and they
\* are what is left of the call.
LEMMA RecordComplete ==
    ASSUME AskedInv, GraphEnd
    PROVE  /\ rec # None /\ call.exec \in Execs /\ rec.region \in Regions /\ call.pc = "nodes"
           /\ region[rec.region].keeper = "token" /\ Ordered(Program)
           /\ Program \in Seq(Kernels \cup Copies) /\ Program \in Seq(Things)
           /\ region[rec.region].mirror = LaunchNodes(Program)
           /\ Ledger(owed, sem, timeline, Pending, LaunchNodes(Program)) /\ ~wrong
<1>1. ReleaseInv /\ RecordKept /\ CallKept /\ TypesOK
    BY DEF AskedInv, BooksInv, ReleaseInv
<1>2. call.pc = "nodes" /\ call.recording /\ call.i > Len(NodesOf(call)) /\ rec # None
    BY <1>1 DEF GraphEnd, TypesOK
<1>3. /\ Ordered(Program) /\ region[rec.region].keeper = "token" /\ Len(region[rec.region].mirror) = Written
      /\ \A j \in 1 .. Written : region[rec.region].mirror[j] = Program[Ahead + j]
    BY <1>1, <1>2 DEF RecordKept
<1>4. rec.region \in Regions /\ region[rec.region] \in Pairs
    BY <1>1, <1>2 DEF TypesOK, Recordings
<1>5. /\ call.exec \in Execs /\ call.i \in Nat /\ Program \in Seq(Things)
      /\ Program \in Seq(Kernels \cup Copies)
    BY <1>1, <1>2, ProgramIs
<1>6. PICK p \in Seq(Kernels \cup Copies) : p = Program
    BY <1>5
<1>7. PICK n \in Nat, c \in Nat, l \in Nat :
          /\ n = Len(p) /\ c = Ahead /\ l = Len(LaunchNodes(p)) /\ c + l = n
          /\ \A k \in 1 .. l : LaunchNodes(p)[k] = p[c + k]
  <2>1. /\ Len(CopyNodes(p)) \in Nat /\ Len(LaunchNodes(p)) \in Nat
        /\ Len(CopyNodes(p)) + Len(LaunchNodes(p)) = Len(p)
        /\ \A k \in 1 .. Len(LaunchNodes(p)) : LaunchNodes(p)[k] = p[Len(CopyNodes(p)) + k]
      BY <1>3, <1>6, OrderedParts
  <2>2. Len(CopyNodes(p)) = Ahead
      BY <1>6 DEF Ahead
  <2>3. Len(p) \in Nat
      BY <1>6
  <2> QED BY <2>1, <2>2, <2>3
<1>8. call.i = n + 1
  <2>1. NodesOf(call) = p
      BY <1>2, <1>6 DEF NodesOf, Program
  <2>2. call.i <= n + 1 /\ call.i > n
      BY <2>1, <1>1, <1>2, <1>7 DEF CallKept
  <2> QED BY <2>2, <1>5, <1>7
<1>9. Written = l
  <2>1. ~(n + 1 <= c) /\ n + 1 - 1 - c = l
      BY <1>7
  <2>2. ~(call.i <= c) /\ call.i - 1 - c = l
      BY <2>1, <1>8
  <2>3. ~(call.i <= Ahead) /\ call.i - 1 - Ahead = l
      BY <2>2, <1>7, Zenon
  <2> QED BY <2>3, Zenon DEF Written
<1>10. region[rec.region].mirror = LaunchNodes(p)
  <2>1. PICK m \in Seq(Kernels) : m = region[rec.region].mirror
      BY <1>4 DEF Pairs
  <2>2. Len(m) = Len(LaunchNodes(p)) /\ \A j \in 1 .. Len(m) : m[j] = LaunchNodes(p)[j]
      BY <2>1, <1>3, <1>6, <1>7, <1>9
  <2>3. LaunchNodes(p) \in Seq((Kernels \cup Copies) \cap Kernels)
      BY OfKindLists DEF LaunchNodes
  <2>4. PICK d \in Seq((Kernels \cup Copies) \cap Kernels) : d = LaunchNodes(p)
      BY <2>3
  <2>5. Len(m) = Len(d) /\ \A j \in 1 .. Len(m) : m[j] = d[j]
      BY <2>2, <2>4
  <2>6. m = d
      BY <2>5, SameList
  <2> QED BY <2>1, <2>4, <2>6
<1>11. Left = LaunchNodes(p)
  <2>1. Served = c
    <3>1. n + 1 - 1 > c \/ n + 1 - 1 = c
        BY <1>7
    <3>2. Served = IF n + 1 - 1 > c THEN c ELSE n + 1 - 1
        BY <1>2, <1>7, <1>8 DEF Served
    <3> QED BY <3>1, <3>2
  <2>2. Left = SubSeq(p, c + 1, Len(p))
      BY <2>1, <1>2, <1>6 DEF Left
  <2>3. SubSeq(p, Len(CopyNodes(p)) + 1, Len(p)) = LaunchNodes(p)
      BY <1>3, <1>6, LaunchesEnd
  <2>4. Len(CopyNodes(p)) = c
      BY <1>6, <1>7 DEF Ahead
  <2> QED BY <2>2, <2>3, <2>4
<1>12. Ledger(owed, sem, timeline, Pending, LaunchNodes(p)) /\ ~wrong
    BY <1>11 DEF AskedInv, LedgerKept
<1> QED BY <1>2, <1>3, <1>4, <1>5, <1>6, <1>10, <1>12

Seal(r) == Batch("seal", None, r, 0, <<>>)

LEMMA SealIs ==
    ASSUME NEW r \in Regions
    PROVE  <<Seal(r)>> \in Seq(Batches) /\ Len(<<Seal(r)>>) = 1 /\ <<Seal(r)>>[1] = Seal(r)
           /\ Seal(r).kind = "seal" /\ Seal(r).region = r
<1>1. Seal(r) \in Batches
    BY DEF Seal, Batch, Batches
<1> QED BY <1>1 DEF Seal, Batch

\* The recording is closed: the host's descriptors cross, and the token runs.
LEMMA SealedAsked ==
    ASSUME AskedInv, GraphEnd, NEW r, r = rec.region, UNCHANGED region,
           Submit(<<Seal(r)>> \o Replay(r, Len(region[r].mirror), timeline + 1)),
           execs' = [execs EXCEPT ![call.exec].drv = r], call' = NoCall
    PROVE  BooksInv' /\ LedgerKept'
<1>1. ReleaseInv /\ ChainsKept /\ TokensKept /\ TypesOK /\ timeline \in Nat
    BY DEF AskedInv, BooksInv, ReleaseInv, TypesOK
<1>2. /\ rec # None /\ call.exec \in Execs /\ r \in Regions /\ region[r].keeper = "token"
      /\ Ordered(Program) /\ Program \in Seq(Kernels \cup Copies)
      /\ region[r].mirror = LaunchNodes(Program)
      /\ Ledger(owed, sem, timeline, Pending, LaunchNodes(Program)) /\ ~wrong
    BY RecordComplete
<1>3. rec' = None /\ owed' = owed /\ wrong' = wrong
    BY DEF GraphEnd, ghostVars
<1>4. PICK rest : rest = LaunchNodes(Program)
    OBVIOUS
<1>5. PICK n \in Nat : n = Len(rest)
    BY <1>2, <1>4, OrderedParts
<1>6. PICK t \in Nat, one \in Nat : t = timeline /\ one = 1
    BY <1>1
<1>7. PICK ws \in Seq(Batches) :
          ws = <<Seal(r)>> /\ Len(ws) = one /\ ws[1] = Seal(r) /\ Seal(r).kind = "seal" /\ Seal(r).region = r
    BY <1>2, <1>6, SealIs
<1>8. Submit(ws \o Replay(r, n, t + one))
    BY <1>2, <1>4, <1>5, <1>6, <1>7
<1>9. PICK E0 : E0 = {Entry(t + 1, <<>>)}
    OBVIOUS
<1>10. Ledger(owed, sem, t + one, Pending \cup E0, rest)
    BY <1>2, <1>4, <1>6, <1>9, HandsNothing
<1>11. \A i \in 1 .. one : i = 1
    BY <1>6
<1>12. \A i \in 1 .. one : Entry(t + i, WorkOf(region, ws[i])) \in E0
    BY <1>7, <1>9, <1>11 DEF WorkOf
<1>13. PICK bs \in Seq(Batches) : /\ Submit(bs) /\ Len(bs) >= 1 /\ bs[1] = Seal(r) /\ Len(bs) \in Nat
  <2>1. PICK at0 \in Nat : at0 = t + one
      OBVIOUS
  <2>2. PICK R : R = Replay(r, n, at0)
      OBVIOUS
  <2>3. RunsAfter(ws \o R, ws, r, n) /\ Submit(ws \o R)
      BY <2>1, <2>2, <1>2, <1>7, <1>8, TokenBatches
  <2>4. PICK all : all = ws \o R
      OBVIOUS
  <2>5. /\ all \in Seq(Batches) /\ Len(all) = one + Chains(n) /\ Chains(n) \in Nat
        /\ \A i \in 1 .. one : all[i] = ws[i]
      BY <2>3, <2>4, <1>7 DEF RunsAfter
  <2>6. Len(all) >= 1 /\ Len(all) \in Nat /\ 1 \in 1 .. one
      BY <2>5, <1>6
  <2> QED BY <2>3, <2>4, <2>5, <2>6, <1>7
<1>14. /\ NewOf(timeline, bs[1], 1) \in Waiting' /\ NewOf(timeline, bs[1], 1).batch = Seal(r)
       /\ NewOf(timeline, bs[1], 1).at = t + 1 /\ timeline' = t + Len(bs)
  <2>1. 1 \in 1 .. Len(bs)
      BY <1>13
  <2> QED BY <2>1, <1>1, <1>6, <1>13, WaitingSubmit
<1>15. \A v \in Nat : v > t + 1 => SealedFor(r, v)'
  <2>1. PICK s : /\ s \in Waiting' /\ s.batch.kind = "seal" /\ s.batch.region = r /\ s.at = t + 1
      BY <1>7, <1>14
  <2> QED BY <2>1 DEF SealedFor
<1>16. /\ ChainsKept' /\ Ledger(owed, sem', timeline', Pending', <<>>)
       /\ Waiting \subseteq Waiting' /\ timeline' \in Nat /\ timeline <= timeline'
  <2>1. /\ rest = region[r].mirror /\ one = Len(ws) /\ region' = region
        /\ \A v \in Nat : v > t + one => SealedFor(r, v)'
      BY <1>2, <1>4, <1>6, <1>7, <1>15
  <2>2. \A i \in 1 .. Len(ws) : ws[i].kind # "chain"
      BY <1>7, <1>11
  <2> QED BY <2>1, <2>2, <1>1, <1>2, <1>3, <1>5, <1>6, <1>7, <1>8, <1>10, <1>12, TokenHands
<1>17. /\ \A f \in Execs : f # call.exec => execs'[f] = execs[f]
       /\ execs'[call.exec].drv = r /\ execs'[call.exec].nodes = Program
  <2>1. execs \in [Execs -> Executables]
      BY <1>1 DEF TypesOK
  <2> QED BY <2>1, <1>2 DEF Executables, Program
<1>18. \A s : Same(s) /\ NotRecorded(s)
    BY <1>3 DEF Same, NotRecorded
<1>19. ASSUME NEW f \in Execs, f # call.exec, execs[f].drv # None
       PROVE  TokenKept(f)' /\ execs[f].drv # r /\ \A g \in Execs : execs[g].drv = execs[f].drv => g = f
  <2>1. TokenKept(f) /\ \A g \in Execs : execs[g].drv = execs[f].drv => g = f
      BY <1>1, <1>19 DEF TokensKept
  <2>2. execs[f].drv # r
      BY <2>1, <1>2 DEF TokenKept
  <2>3. execs'[f].drv = execs[f].drv /\ execs'[f].nodes = execs[f].nodes
      BY <1>17, <1>19
  <2>4. TokenKept(f)'
      BY <2>1, <2>3, <1>1, <1>16, <1>18, <1>19, TokenStays
  <2> QED BY <2>1, <2>2, <2>4
<1>20. ASSUME NEW f \in Execs, f = call.exec PROVE TokenKept(f)'
  <2>1. execs'[f].drv = r /\ execs'[f].nodes = Program
      BY <1>17, <1>20
  <2>2. region'[r].keeper = "token" /\ region'[r].mirror = LaunchNodes(Program) /\ rec' = None
      BY <1>2, <1>3
  <2>3. PICK v \in Nat : v = timeline' + 1 /\ v > t + 1
      BY <1>13, <1>14
  <2>4. SealedFor(r, v)'
      BY <2>3, <1>15
  <2>5. SealedFor(execs[f].drv, timeline + 1)'
      BY <2>1, <2>3, <2>4 DEF SealedFor
  <2>6. Ordered(execs[f].nodes)'
      BY <2>1, <1>2 DEF Ordered
  <2> QED BY <2>1, <2>2, <2>5, <2>6 DEF TokenKept
<1>21. TokensKept'
  <2>1. ASSUME NEW f \in Execs, execs'[f].drv # None
        PROVE  TokenKept(f)' /\ \A g \in Execs : execs'[g].drv = execs'[f].drv => g = f
    <3>1. CASE f = call.exec
      <4>1. ASSUME NEW g \in Execs, g # f PROVE execs'[g].drv # execs'[f].drv
        <5>1. execs'[g].drv = execs[g].drv /\ execs'[f].drv = r
            BY <4>1, <3>1, <1>17
        <5>2. r # None
            BY <1>2, GraphAssumption
        <5> QED BY <5>1, <5>2, <4>1, <3>1, <1>19
      <4> QED BY <4>1, <3>1, <1>20
    <3>2. CASE f # call.exec
      <4>1. execs'[f].drv = execs[f].drv
          BY <3>2, <1>17
      <4>2. ASSUME NEW g \in Execs, execs'[g].drv = execs'[f].drv PROVE g = f
        <5>1. g # call.exec
            BY <4>1, <4>2, <3>2, <2>1, <1>17, <1>19
        <5>2. execs[g].drv = execs[f].drv
            BY <4>1, <4>2, <5>1, <1>17
        <5> QED BY <5>2, <4>1, <3>2, <2>1, <1>19
      <4> QED BY <4>1, <4>2, <3>2, <2>1, <1>19
    <3> QED BY <3>1, <3>2
  <2> QED BY <2>1 DEF TokensKept
<1>22. RecordKept' /\ CallKept' /\ LedgerKept'
    BY <1>2, <1>3, <1>16, EndsBetween DEF NoCall
<1> QED BY <1>16, <1>21, <1>22 DEF BooksInv

\* The recording is refused, with its descriptors handed over or not: its
\* launches are gone through again.
LEMMA RefusedAsked ==
    ASSUME AskedInv, GraphEnd, EndsRefused,
           NothingSubmitted \/ Submit(<<Seal(rec.region)>>)
    PROVE  BooksInv' /\ LedgerKept'
<1>1. ReleaseInv /\ ChainsKept /\ TokensKept /\ TypesOK /\ timeline \in Nat
    BY DEF AskedInv, BooksInv, ReleaseInv, TypesOK
<1>2. /\ rec # None /\ call.exec \in Execs /\ rec.region \in Regions /\ call.pc = "nodes"
      /\ Ordered(Program) /\ Program \in Seq(Kernels \cup Copies) /\ Program \in Seq(Things)
      /\ Ledger(owed, sem, timeline, Pending, LaunchNodes(Program)) /\ ~wrong
    BY RecordComplete
<1>3. rec' = None /\ owed' = owed /\ wrong' = wrong
    BY DEF GraphEnd, ghostVars
<1>4. PICK p \in Seq(Kernels \cup Copies) : p = Program
    BY <1>2
<1>5. PICK r \in Regions : r = rec.region /\ region' = GivenBack(r)
    BY <1>2 DEF EndsRefused
<1>6. PICK rest : rest = LaunchNodes(p) /\ Ledger(owed, sem, timeline, Pending, rest)
    BY <1>2, <1>4
<1>7. \A s : NotRecorded(s)
    BY <1>3 DEF NotRecorded
<1>8. \A s \in Regions : s # r => Same(s)
    BY <1>1, <1>5, GivenBackKeeps DEF Same
<1>9. \A q \in Waiting : q.batch.kind = "chain" => Same(q.batch.region) /\ NotRecorded(q.batch.region)
  <2>1. ASSUME NEW q \in Waiting, q.batch.kind = "chain"
        PROVE  q.batch.region \in Regions /\ q.batch.region # r
      BY <2>1, <1>1, <1>2, <1>5, WaitingOrder DEF ChainsKept
  <2> QED BY <2>1, <1>7, <1>8
<1>10. /\ ChainsKept' /\ Ledger(owed, sem', timeline', Pending', rest)
       /\ Waiting \subseteq Waiting' /\ timeline' \in Nat /\ timeline <= timeline'
  <2>1. CASE NothingSubmitted
    <3>1. timeline' = timeline /\ queue' = queue /\ running' = running /\ sem' = sem
        BY <2>1 DEF NothingSubmitted, engineVars
    <3>2. Waiting' = Waiting
        BY <3>1 DEF Waiting
    <3>3. ChainsKept' /\ Mirrored
        BY <3>2, <1>1, <1>9, ChainsStay
    <3>4. Pending' \subseteq Pending
        BY <3>2, <3>3, PendingStays
    <3>5. Ledger(owed, sem, timeline, Pending', rest)
        BY <3>4, <1>6, LedgerFewer
    <3> QED BY <3>1, <3>2, <3>3, <3>5, <1>1
  <2>2. CASE Submit(<<Seal(r)>>)
    <3>1. PICK bs \in Seq(Batches) : Submit(bs) /\ Len(bs) = 1 /\ bs[1].kind = "seal"
        BY <2>2, SealIs
    <3>2. \A i \in 1 .. Len(bs) : i = 1
        BY <3>1
    <3>3. ChainsKept' /\ Mirrored
      <4>1. PICK t : t = timeline
          OBVIOUS
      <4>2. \A i \in 1 .. Len(bs) : bs[i].kind = "chain" =>
                   /\ region'[bs[i].region].keeper = "token" /\ SealedFor(bs[i].region, t + i)'
                   /\ NotRecorded(bs[i].region)
          BY <3>1, <3>2
      <4> QED BY <4>1, <4>2, <3>1, <1>1, <1>9, ChainsGrow
    <3>4. PICK E : E = {Entry(timeline + 1, <<>>)}
        OBVIOUS
    <3>5. \A i \in 1 .. Len(bs) : Entry(timeline + i, WorkOf(region', bs[i])) \in E
        BY <3>1, <3>2, <3>4 DEF WorkOf
    <3>6. Ledger(owed, sem, timeline + 1, Pending \cup E, rest)
        BY <1>6, <3>4, HandsNothing
    <3>7. Ledger(owed, sem, timeline + Len(bs), Pending \cup E, rest)
        BY <3>1, <3>6
    <3>8. Ledger(owed, sem', timeline', Pending', rest)
        BY <3>1, <3>3, <3>5, <3>7, <1>1, LedgerGrows
    <3>9. Waiting \subseteq Waiting' /\ timeline' = timeline + 1
        BY <3>1, <1>1, WaitingSubmit
    <3> QED BY <3>3, <3>8, <3>9, <1>1
  <2> QED BY <2>1, <2>2, <1>5
<1>11. execs' = [execs EXCEPT ![call.exec].refused = TRUE]
    BY DEF EndsRefused
<1>12. \A f \in Execs : execs'[f].drv = execs[f].drv /\ execs'[f].nodes = execs[f].nodes
  <2>1. execs \in [Execs -> Executables]
      BY <1>1 DEF TypesOK
  <2> QED BY <2>1, <1>2, <1>11 DEF Executables
<1>13. TokensKept'
  <2>1. ASSUME NEW f \in Execs, execs[f].drv # None
        PROVE  Same(execs[f].drv) /\ NotRecorded(execs[f].drv)
    <3>1. execs[f].drv \in Regions
        BY <2>1, <1>1 DEF TypesOK, Executables
    <3>2. execs[f].drv # r
        BY <2>1, <1>1, <1>2, <1>5 DEF TokensKept, TokenKept
    <3> QED BY <3>1, <3>2, <1>7, <1>8
  <2> QED BY <2>1, <1>1, <1>10, <1>12, TokensStay
<1>14. call'.pc = "again" /\ call'.i = 1 /\ call'.exec = call.exec
  <2>1. call \in Calls
      BY <1>1 DEF TypesOK
  <2> QED BY <2>1 DEF EndsRefused, AfterRefusal, Calls
<1>15. Program' = p
    BY <1>2, <1>4, <1>12, <1>14 DEF Program
<1>16. PICK c \in Nat, l \in Nat : c = Len(CopyNodes(p)) /\ l = Len(LaunchNodes(p))
    BY <1>2, <1>4, OrderedParts
<1>17. CallKept'
  <2>1. NodesOf(call)' = LaunchNodes(p)
      BY <1>14, <1>15 DEF NodesOf, Program
  <2>2. 1 <= l + 1
      BY <1>16
  <2>3. Ordered(Program)'
      BY <1>2, <1>4, <1>15 DEF Ordered
  <2> QED BY <2>1, <2>2, <2>3, <1>14, <1>16 DEF CallKept
<1>18. Left' = rest
  <2>1. Ahead' = c
      BY <1>15, <1>16 DEF Ahead
  <2>2. Served' = c
    <3>1. c + (1 - 1) = c
        BY <1>16
    <3> QED BY <3>1, <2>1, <1>14 DEF Served
  <2>3. Left' = SubSeq(p, c + 1, Len(p))
      BY <2>2, <1>14, <1>15 DEF Left
  <2>4. SubSeq(p, Len(CopyNodes(p)) + 1, Len(p)) = LaunchNodes(p)
      BY <1>2, <1>4, LaunchesEnd
  <2> QED BY <2>3, <2>4, <1>6, <1>16
<1>19. LedgerKept'
    BY <1>2, <1>3, <1>10, <1>18 DEF LedgerKept
<1>20. RecordKept'
    BY <1>3 DEF RecordKept
<1> QED BY <1>10, <1>13, <1>17, <1>19, <1>20 DEF BooksInv

LEMMA EndAsked == ASSUME AskedInv, GraphEnd PROVE BooksInv' /\ LedgerKept'
<1>1. PICK r : r = rec.region
    OBVIOUS
<1>2. \/ /\ Submit(<<Seal(r)>> \o Replay(r, Len(region[r].mirror), timeline + 1))
         /\ execs' = [execs EXCEPT ![call.exec].drv = r] /\ call' = NoCall /\ UNCHANGED region
      \/ EndsRefused /\ (NothingSubmitted \/ Submit(<<Seal(rec.region)>>))
    BY <1>1 DEF GraphEnd, Seal
<1> QED BY <1>1, <1>2, SealedAsked, RefusedAsked

\* A step of the engines leaves the call alone.
LEMMA CallAlone ==
    ASSUME UNCHANGED <<execs, call, rec>>,
           \A s \in Regions : /\ region'[s].keeper = region[s].keeper
                              /\ region'[s].mirror = region[s].mirror,
           rec # None => rec.region \in Regions, RecordKept, CallKept
    PROVE  Left' = Left /\ RecordKept' /\ CallKept'
<1>1. Program' = Program /\ Ahead' = Ahead /\ Written' = Written /\ NodesOf(call)' = NodesOf(call)
    BY DEF Program, Ahead, Written, NodesOf
<1>2. Left' = Left
    BY <1>1 DEF Left, Served
<1>3. RecordKept' /\ CallKept'
    BY <1>1 DEF RecordKept, CallKept, Ordered
<1> QED BY <1>2, <1>3

LEMMA BeginAsked == ASSUME AskedInv, EngineBegins PROVE BooksInv' /\ LedgerKept'
<1>1. ReleaseInv /\ ChainsKept /\ TokensKept /\ RecordKept /\ CallKept /\ TypesOK /\ OrderOK /\ timeline \in Nat
    BY DEF AskedInv, BooksInv, ReleaseInv, TypesOK
<1>2. /\ running = {} /\ Len(queue) \in Nat \ {0} /\ Head(queue) = queue[1]
      /\ queue' \in Seq(Handed) /\ Len(queue') = Len(queue) - 1
      /\ \A i \in 1 .. Len(queue') : queue'[i] = queue[i + 1] /\ i + 1 \in 1 .. Len(queue)
      /\ running' = {queue[1]} /\ timeline' = timeline /\ sem' = sem
    BY <1>1, BeginIsNext
<1>3. UNCHANGED <<execs, call, rec>> /\ owed' = owed /\ wrong' = wrong
    BY DEF EngineBegins, ghostVars
<1>4. \A s \in Regions : Same(s)
  <2>1. PICK x, new : region' = region \/ region' = [region EXCEPT ![x].tails = new]
    <3>1. CASE Head(queue).batch.patch # <<>>
        BY <3>1 DEF EngineBegins
    <3>2. CASE Head(queue).batch.patch = <<>>
        BY <3>2 DEF EngineBegins
    <3> QED BY <3>1, <3>2
  <2>2. region \in [Regions -> Pairs]
      BY <1>1 DEF TypesOK
  <2>3. ASSUME NEW s \in Regions
        PROVE  region'[s] = region[s] \/ region'[s] = [region[s] EXCEPT !.tails = new]
      BY <2>1, <2>2
  <2>4. ASSUME NEW s \in Regions PROVE Same(s)
    <3>1. region[s] \in Pairs
        BY <2>2
    <3>2. PICK pair : pair = [region[s] EXCEPT !.tails = new]
        OBVIOUS
    <3>3. pair.keeper = region[s].keeper /\ pair.mirror = region[s].mirror /\ pair.mem = region[s].mem
        BY <3>1, <3>2 DEF Pairs
    <3> QED BY <2>3, <3>2, <3>3 DEF Same
  <2> QED BY <2>4
<1>5. \A s : rec # None /\ s # rec.region => NotRecorded(s)
    BY <1>3 DEF NotRecorded
<1>6. Waiting' = Waiting
  <2>1. PICK n \in Nat : n = Len(queue) /\ n > 0 /\ Len(queue') = n - 1
      BY <1>2
  <2>2. {queue'[i] : i \in 1 .. n - 1} \cup {queue[1]} = {queue[i] : i \in 1 .. n}
    <3>1. ASSUME NEW i \in 1 .. n, i # 1 PROVE \E j \in 1 .. n - 1 : queue'[j] = queue[i]
      <4>1. i - 1 \in 1 .. n - 1 /\ (i - 1) + 1 = i
          BY <3>1
      <4> QED BY <4>1, <2>1, <1>2
    <3>2. ASSUME NEW j \in 1 .. n - 1 PROVE \E i \in 1 .. n : queue'[j] = queue[i]
        BY <2>1, <1>2
    <3>3. 1 \in 1 .. n
        BY <2>1
    <3> QED BY <3>1, <3>2, <3>3
  <2> QED BY <2>1, <2>2, <1>2 DEF Waiting
<1>7. ChainsKept' /\ Mirrored
  <2>1. ASSUME NEW q \in Waiting, q.batch.kind = "chain"
        PROVE  Same(q.batch.region) /\ NotRecorded(q.batch.region)
    <3>1. q.batch.region \in Regions
        BY <2>1, <1>1, WaitingOrder
    <3>2. NotRecorded(q.batch.region)
        BY <2>1, <1>1, <1>3 DEF ChainsKept, NotRecorded
    <3> QED BY <3>1, <3>2, <1>4
  <2> QED BY <2>1, <1>1, <1>6, ChainsStay
<1>8. TokensKept'
  <2>1. ASSUME NEW f \in Execs, execs[f].drv # None
        PROVE  Same(execs[f].drv) /\ NotRecorded(execs[f].drv)
    <3>1. execs[f].drv \in Regions
        BY <2>1, <1>1 DEF TypesOK, Executables
    <3>2. NotRecorded(execs[f].drv)
        BY <2>1, <1>1, <1>3 DEF TokensKept, TokenKept, NotRecorded
    <3> QED BY <3>1, <3>2, <1>4
  <2>2. Waiting \subseteq Waiting' /\ timeline' \in Nat /\ timeline <= timeline'
      BY <1>1, <1>2, <1>6
  <2> QED BY <2>1, <2>2, <1>1, <1>3, TokensStay
<1>9. Left' = Left /\ RecordKept' /\ CallKept'
  <2>1. rec # None => rec.region \in Regions
      BY <1>1 DEF TypesOK, Recordings
  <2>2. \A s \in Regions : region'[s].keeper = region[s].keeper /\ region'[s].mirror = region[s].mirror
      BY <1>4 DEF Same
  <2> QED BY <2>1, <2>2, <1>1, <1>3, CallAlone
<1>10. LedgerKept'
  <2>1. Pending' \subseteq Pending
      BY <1>6, <1>7, PendingStays
  <2>2. Ledger(owed, sem, timeline, Pending', Left)
      BY <2>1, LedgerFewer DEF AskedInv, LedgerKept
  <2> QED BY <2>2, <1>2, <1>3, <1>9 DEF AskedInv, LedgerKept
<1> QED BY <1>7, <1>8, <1>9, <1>10 DEF BooksInv

\* The batch that finishes is the next, and does what it was handed over to do.
LEMMA FinishAsked == ASSUME AskedInv, EngineFinishes PROVE BooksInv' /\ LedgerKept'
<1>1. /\ ReleaseInv /\ ChainsKept /\ TokensKept /\ RecordKept /\ CallKept /\ TypesOK /\ OrderOK
      /\ timeline \in Nat /\ sem \in Nat /\ region \in [Regions -> Pairs]
    BY DEF AskedInv, BooksInv, ReleaseInv, TypesOK
<1>2. PICK q \in running :
          /\ Does(CASE q.batch.kind = "work" -> <<q.batch.node>>
                    [] q.batch.kind = "chain" -> ChainOf(region[q.batch.region].mem, q.batch.chain)
                    [] q.batch.kind = "seal" -> <<>>)
          /\ region' = IF q.batch.kind = "seal"
                       THEN [region EXCEPT ![q.batch.region].mem = region[q.batch.region].mirror]
                       ELSE region
          /\ running' = running \ {q}
          /\ UNCHANGED <<captureVars, execs, call, rec, timeline, queue>>
    BY DEF EngineFinishes
<1>3. q.at = sem + 1
    BY <1>1, <1>2 DEF OrderOK
<1>4. sem' = sem + 1
    BY <1>1, FinishKeepsRelease
<1>5. execs' = execs /\ call' = call /\ rec' = rec /\ timeline' = timeline /\ queue' = queue
    BY <1>2
<1>6. q \in Waiting /\ Waiting' \subseteq Waiting /\ \A x \in Waiting : x # q => x \in Waiting'
    BY <1>2, <1>5 DEF Waiting
<1>7. /\ q.batch \in Batches /\ q.batch.kind \in {"work", "seal", "chain"}
      /\ q.batch.kind # "work" => q.batch.region \in Regions
  <2>1. q.batch \in Batches /\ (q.batch.kind # "work" => q.batch.region \in Regions)
      BY <1>1, <1>6, WaitingOrder
  <2> QED BY <2>1 DEF Batches
<1>8. /\ \A s \in Regions : region'[s].keeper = region[s].keeper /\ region'[s].mirror = region[s].mirror
      /\ \A s \in Regions : region[s].mem = region[s].mirror => region'[s].mem = region'[s].mirror
      /\ q.batch.kind = "seal" => region'[q.batch.region].mem = region'[q.batch.region].mirror
  <2>1. CASE q.batch.kind = "seal"
    <3>1. PICK r \in Regions : r = q.batch.region
        BY <2>1, <1>7
    <3>2. region' = [region EXCEPT ![r] = [region[r] EXCEPT !.mem = region[r].mirror]]
        BY <2>1, <3>1, <1>2
    <3>3. PICK pair : pair = [region[r] EXCEPT !.mem = region[r].mirror]
        OBVIOUS
    <3>4. pair.keeper = region[r].keeper /\ pair.mirror = region[r].mirror /\ pair.mem = region[r].mirror
        BY <3>3, <1>1 DEF Pairs
    <3>5. region'[r] = pair /\ \A s \in Regions : s # r => region'[s] = region[s]
        BY <3>2, <3>3, <1>1
    <3> QED BY <3>1, <3>4, <3>5
  <2>2. CASE q.batch.kind # "seal"
      BY <2>2, <1>2
  <2> QED BY <2>1, <2>2
<1>9. ASSUME NEW r \in Regions, NEW v, SealedFor(r, v) PROVE SealedFor(r, v)'
  <2>1. CASE region[r].mem = region[r].mirror
      BY <2>1, <1>8 DEF SealedFor
  <2>2. CASE \E s \in Waiting : s.batch.kind = "seal" /\ s.batch.region = r /\ s.at < v
    <3>1. PICK s \in Waiting : s.batch.kind = "seal" /\ s.batch.region = r /\ s.at < v
        BY <2>2
    <3>2. CASE s = q
        BY <3>1, <3>2, <1>8 DEF SealedFor
    <3>3. CASE s # q
        BY <3>1, <3>3, <1>6 DEF SealedFor
    <3> QED BY <3>2, <3>3
  <2> QED BY <2>1, <2>2, <1>9 DEF SealedFor
<1>10. Mirrored
  <2>1. ASSUME NEW x \in Waiting, x.batch.kind = "chain" PROVE x.batch.region \in Regions
      BY <2>1, <1>1, WaitingOrder
  <2> QED BY <2>1, <1>8 DEF Mirrored
<1>11. ChainsKept'
  <2>1. ASSUME NEW x \in Waiting', x.batch.kind = "chain"
        PROVE  /\ region'[x.batch.region].keeper = "token" /\ SealedFor(x.batch.region, x.at)'
               /\ rec' # None => rec'.region # x.batch.region
    <3>1. PICK r, v : r \in Regions /\ r = x.batch.region /\ v = x.at
        BY <2>1, <1>1, <1>6, WaitingOrder
    <3>2. region[r].keeper = "token" /\ SealedFor(r, v) /\ (rec # None => rec.region # r)
        BY <2>1, <3>1, <1>1, <1>6 DEF ChainsKept
    <3>3. SealedFor(r, v)'
        BY <3>1, <3>2, <1>9
    <3> QED BY <3>1, <3>2, <3>3, <1>5, <1>8
  <2> QED BY <2>1 DEF ChainsKept
<1>12. TokensKept'
  <2>1. ASSUME NEW f \in Execs, execs[f].drv # None
        PROVE  TokenKept(f)' /\ \A g \in Execs : execs[g].drv = execs[f].drv => g = f
    <3>1. PICK r \in Regions, v \in Nat : r = execs[f].drv /\ v = timeline + 1
        BY <2>1, <1>1 DEF TypesOK, Executables
    <3>2. TokenKept(f) /\ \A g \in Execs : execs[g].drv = execs[f].drv => g = f
        BY <2>1, <1>1 DEF TokensKept
    <3>3. SealedFor(r, v)'
        BY <3>1, <3>2, <1>9 DEF TokenKept
    <3>4. SealedFor(execs[f].drv, timeline + 1)'
        BY <3>1, <3>3, <1>5 DEF SealedFor
    <3>5. Ordered(execs[f].nodes)'
        BY <3>2, <1>5 DEF TokenKept, Ordered
    <3>6. TokenKept(f)'
        BY <3>1, <3>2, <3>4, <3>5, <1>5, <1>8 DEF TokenKept
    <3> QED BY <3>2, <3>6
  <2> QED BY <2>1, <1>5 DEF TokensKept
<1>13. Left' = Left /\ RecordKept' /\ CallKept'
  <2>1. rec # None => rec.region \in Regions
      BY <1>1 DEF TypesOK, Recordings
  <2> QED BY <2>1, <1>1, <1>5, <1>8, CallAlone
<1>14. PICK w : w = WorkOf(region, q.batch)
    OBVIOUS
<1>15. Does(w)
  <2>1. CASE q.batch.kind = "work"
      BY <2>1, <1>2, <1>14 DEF WorkOf
  <2>2. CASE q.batch.kind = "seal"
      BY <2>2, <1>2, <1>14 DEF WorkOf
  <2>3. CASE q.batch.kind = "chain"
    <3>1. region[q.batch.region].mem = region[q.batch.region].mirror
      <4>1. SealedFor(q.batch.region, q.at)
          BY <2>3, <1>1, <1>6 DEF ChainsKept
      <4>2. ASSUME NEW s \in Waiting, s.at < q.at PROVE FALSE
        <5>1. s.at \in Nat /\ s.at > sem
            BY <1>1, WaitingOrder
        <5> QED BY <5>1, <4>2, <1>1, <1>3
      <4> QED BY <4>1, <4>2 DEF SealedFor
    <3>2. Does(ChainOf(region[q.batch.region].mem, q.batch.chain))
        BY <2>3, <1>2
    <3> QED BY <2>3, <3>1, <3>2, <1>14 DEF WorkOf
  <2> QED BY <2>1, <2>2, <2>3, <1>7
<1>16. PICK x \in Pending : x.at = sem + 1 /\ x.work = w
  <2>1. Entry(q.at, w) \in Pending
      BY <1>6, <1>14 DEF Pending
  <2>2. Entry(q.at, w).at = q.at /\ Entry(q.at, w).work = w
      BY DEF Entry
  <2> QED BY <2>1, <2>2, <1>3
<1>17. /\ IsPrefix(w, owed)
       /\ Ledger(SubSeq(owed, Len(w) + 1, Len(owed)), sem + 1, timeline, Pending, Left)
  <2>1. Ledger(owed, sem, timeline, Pending, Left)
      BY DEF AskedInv, LedgerKept
  <2> QED BY <2>1, <1>16, LedgerDoes
<1>18. owed' = SubSeq(owed, Len(w) + 1, Len(owed)) /\ ~wrong'
  <2>1. wrong' = (wrong \/ ~IsPrefix(w, owed)) /\ ~wrong
      BY <1>15 DEF Does, AskedInv, LedgerKept
  <2>2. ~wrong'
      BY <2>1, <1>17
  <2> QED BY <2>2, <1>15, <1>17 DEF Does
<1>19. LedgerKept'
  <2>1. Pending' \subseteq Pending
      BY <1>6, <1>10, PendingStays
  <2>2. PICK o : o = SubSeq(owed, Len(w) + 1, Len(owed)) /\ Ledger(o, sem + 1, timeline, Pending,
          Left)
      BY <1>17
  <2>3. Ledger(o, sem + 1, timeline, Pending', Left)
      BY <2>1, <2>2, LedgerFewer
  <2> QED BY <2>2, <2>3, <1>4, <1>5, <1>13, <1>18 DEF LedgerKept
<1> QED BY <1>11, <1>12, <1>13, <1>19 DEF BooksInv

-----------------------------------------------------------------------------
\* Nothing was asked for at first, and nothing waits.
LEMMA AskedInit == ASSUME Init PROVE AskedInv
<1>1. ReleaseInv
    BY ReleaseInit
<1>2. /\ call.pc = "none" /\ rec = None /\ queue = <<>> /\ running = {} /\ sem = 0 /\ timeline = 0
      /\ owed = <<>> /\ wrong = FALSE /\ \A e \in Execs : execs[e].drv = None
    BY DEF Init, NoCall, NoExec
<1>3. Waiting = {}
    BY <1>2 DEF Waiting
<1>4. Pending = {}
    BY <1>3 DEF Pending
<1>5. BooksInv
    BY <1>2, <1>3 DEF BooksInv, ChainsKept, TokensKept, RecordKept, CallKept
<1>6. LedgerOf(<<>>, 0, [v \in Nat |-> 0], <<>>, 0, 0, {}, <<>>)
  <2>1. Rising([v \in Nat |-> 0], 0)
      BY DEF Rising
  <2>2. Lists(<<>>, 0, <<>>) /\ Len(<<>>) = 0
      BY DEF Lists
  <2> QED BY <2>1, <2>2 DEF LedgerOf
<1>7. Ledger(owed, sem, timeline, Pending, Left)
    BY <1>2, <1>4, <1>6 DEF Ledger, Left
<1> QED BY <1>1, <1>2, <1>5, <1>7 DEF AskedInv, LedgerKept

LEMMA AskedStep == ASSUME AllFit, AskedInv, [Next]_vars PROVE AskedInv'
<1>1. ReleaseInv'
    BY ReleaseStep DEF AskedInv
<1>2. BooksInv' /\ LedgerKept'
  <2>1. CASE UNCHANGED vars \/ BeginCapture \/ CaptureNode \/ CaptureRefuse \/ EndCapture \/ GraphDestroy
    <3>1. UNCHANGED <<execs, call, rec, region, timeline, engineVars, ghostVars>>
        BY <2>1 DEF vars, BeginCapture, CaptureNode, CaptureRefuse, EndCapture, GraphDestroy,
           OnlyCapture
    <3> QED BY <3>1, QuietKeeps
  <2>2. CASE DirectWork
      BY <2>2, DirectAsked
  <2>3. ASSUME NEW e \in Execs, Instantiate(e) \/ ExecUpdate(e) \/ ExecDestroy(e) \/ GraphLaunch(e)
        PROVE  BooksInv' /\ LedgerKept'
      BY <2>3, InstantiateAsked, UpdateAsked, LaunchAsked
  <2>4. CASE LaunchNode
      BY <2>4, NodeAsked
  <2>5. CASE GraphEnd
      BY <2>5, EndAsked
  <2>6. CASE LaunchReturns
      BY <2>6, ReturnAsked
  <2>7. CASE EngineBegins
      BY <2>7, BeginAsked
  <2>8. CASE EngineFinishes
      BY <2>8, FinishAsked
  <2> QED BY <2>1, <2>2, <2>3, <2>4, <2>5, <2>6, <2>7, <2>8 DEF Next
<1> QED BY <1>1, <1>2 DEF AskedInv

\* The books and the ledger hold of every state, when every program that may be
\* recorded fits its region.
THEOREM AskedInvariant == AllFit => (Spec => []AskedInv)
<1>1. Init => AskedInv
    BY AskedInit
<1>2. AllFit /\ AskedInv /\ [Next]_vars => AskedInv'
    BY AskedStep
<1>3. SUFFICES ASSUME AllFit PROVE Spec => []AskedInv
    OBVIOUS
<1>4. AskedInv /\ [Next]_vars => AskedInv'
    BY <1>2, <1>3
<1> QED BY <1>1, <1>4, PTL DEF Spec

\* What a program asks for is done once, in the order it was asked for: by its
\* own batch, by the chains of a recording just made or replayed, or launch by
\* launch after a recording was refused, when every program that may be recorded
\* fits its region.  (The run Graph_declined has one that does not.)
THEOREM DoesWhatWasAskedAlways == AllFit => (Spec => []DoesWhatWasAsked)
<1>1. ASSUME AskedInv PROVE DoesWhatWasAsked
  <2>1. ReleaseInv /\ ~wrong /\ Ledger(owed, sem, timeline, Pending, Left)
      BY <1>1 DEF AskedInv, LedgerKept
  <2>2. ASSUME Idle, sem >= timeline PROVE owed = <<>>
    <3>1. Left = <<>>
        BY <1>1, <2>2, BetweenCalls
    <3>2. sem = timeline
        BY <2>1, <2>2, WaitingOrder
    <3>3. Ledger(owed, sem, sem, Pending, <<>>)
        BY <2>1, <3>1, <3>2
    <3> QED BY <3>3, LedgerEnds
  <2> QED BY <2>1, <2>2 DEF DoesWhatWasAsked
<1>2. SUFFICES ASSUME AllFit PROVE Spec => []DoesWhatWasAsked
    OBVIOUS
<1>3. Spec => []AskedInv
    BY <1>2, AskedInvariant
<1> QED BY <1>1, <1>3, PTL

-----------------------------------------------------------------------------
(***************************************************************************)
(* Types.                                                                  *)
(***************************************************************************)

Kinds == {"in", "kernel", "out", "out by kernel", "spin"}
Jobs == [kind : Kinds, by : Threads]
ExecStates == [chain : Seq(Jobs), queue : Seq(Jobs), retired : Nat, last : [0 .. 1 -> Nat],
          slot : [0 .. 1 -> Nat], stage_pend : Nat, internal : BOOLEAN, launches : Nat,
          ka_pending : BOOLEAN, ka_value : Nat]
Values == (Threads \cup {Nobody}) \X {0, 1}

Holding == {"download", "idling out", "syncing"}
KernelPlaces == {"claimed", "launching out", "launched out", "out", "idling out", "reading out"}
SpinPlaces == {"armed", "launching spin", "launched spin", "flushed spin", "noted spin"}
ThreadPlaces == {"nothing", "download", "idled", "syncing", "recording"} \cup KernelPlaces
   \cup SpinPlaces

BytesOK ==
    /\ mem \in [Threads -> Values] /\ expected \in [Threads -> Values] /\ stage \in Values
    /\ misread \in BOOLEAN

ThreadTypesOK ==
    /\ deployed \in Deployments /\ lock \in Threads \cup {Nobody}
    /\ ex \in ExecStates /\ doing \in [Threads -> ThreadPlaces]
    /\ event \in [Threads -> [value : Nat, after : Nat]]
    /\ BytesOK /\ early \in BOOLEAN

(***************************************************************************)
(* What is behind an answer.                                               *)
(***************************************************************************)

\* A queue's slot is behind what is done, and its last value is its own
QueueOK(e) ==
    /\ \A q \in 0 .. 1 : e.slot[q] <= e.retired /\ e.last[q] <= TimelineOf(e)
    /\ \A i \in 1 .. Len(e.queue) : e.retired + i <= e.last[SlotOf(e.queue[i])]

\* The job numbered n, if it is not done, is one of good's
IsNumber(e, n, spin) ==
    n > e.retired => /\ n <= TimelineOf(e)
                     /\ (e.queue[n - e.retired].kind = "spin") = spin

\* The last of what is handed over and built, if it is not done, is a spin
BehindSpin(e) == IF e.chain = <<>> THEN IsNumber(e, TimelineOf(e), TRUE)
                 ELSE e.chain[Len(e.chain)].kind = "spin"

\* Who holds the lock has nothing built, where each thread is tells what its
\* options are, and a spin whose value is to be noted is the last job there is
PlaceOK ==
    /\ lock # Nobody => ex.chain = <<>>
    /\ \A t \in Threads :
           /\ doing[t] \in Holding <=> lock = t
           /\ doing[t] # "nothing" => t \in deployed.callers
           /\ doing[t] \in SpinPlaces => deployed.keepalive
           /\ doing[t] \in KernelPlaces => deployed.download_kernel
           /\ doing[t] = "download" => ~deployed.download_kernel
           /\ doing[t] \in UnnotedSpin => BehindSpin(ex)
           /\ doing[t] = "flushed spin" => ex.chain = <<>>

\* An event that was recorded is for a job that it is numbered behind
EventOK ==
    \A t \in Threads :
        /\ IsNumber(ex, event[t].after, FALSE)
        /\ doing[t] # "recording" => event[t].after <= event[t].value

AnswerInv ==
    /\ ThreadTypesOK /\ QueueOK(ex) /\ IsNumber(ex, ex.ka_value, TRUE)
    /\ PlaceOK /\ EventOK /\ ~early

(***************************************************************************)
(* What is behind a reading.                                               *)
(***************************************************************************)

\* What a job makes of t's buffer, when it finds its bytes in the stage
Effect(job, t, b) ==
    IF job.by # t THEN b
    ELSE CASE job.kind = "in" -> Uploaded(t) [] job.kind = "kernel" -> Changed(b) [] OTHER -> b

\* v is what t's buffer goes through as jobs are done, from b to c
Traces(v, jobs, t, b, c) ==
    /\ v[1] = b /\ v[Len(jobs) + 1] = c
    /\ \A i \in 1 .. Len(jobs) : v[i + 1] = Effect(jobs[i], t, v[i])

\* What a thread should find is what its buffer will hold
Whole(e) == e.queue \o e.chain
Carried == \A t \in Threads : \E v : Traces(v, Whole(ex), t, mem[t], expected[t])

\* Where a thread's kernel download has its job among what is to be done, or
\* had it
Lent == {"launched out", "out", "idling out"}

\* A job that leaves the stage and t's buffer as they are
Quiet(job, t) == job.kind = "spin" \/ (job.kind = "kernel" /\ job.by # t)

\* A job to be done: the stage is an upload's until it is done, and nobody
\* has claimed it by then; what comes behind a download changes neither the
\* stage nor what it was of
JobOK(jobs, i, retired, pend, st, d) ==
    LET job == jobs[i]
    IN  /\ job.kind = "in" => /\ retired + i <= pend /\ st = Uploaded(job.by)
                              /\ \A u \in Threads : d[u] \notin InStage
        /\ job.kind = "out" => i = Len(jobs) /\ d[job.by] = "download"
        /\ job.kind = "out by kernel" => /\ d[job.by] \in Lent
                                         /\ \A j \in i + 1 .. Len(jobs) : Quiet(jobs[j], job.by)

JobsOK(jobs, retired, pend, st, d) ==
    \A i \in 1 .. Len(jobs) : JobOK(jobs, i, retired, pend, st, d)

NoneOfKind(jobs, kinds) == \A i \in 1 .. Len(jobs) : jobs[i].kind \notin kinds

AtMostOne(d) == \A u \in Threads, v \in Threads : d[u] \in InStage /\ d[v] \in InStage => u = v

StageOK ==
    /\ JobsOK(Whole(ex), ex.retired, ex.stage_pend, stage, doing)
    /\ NoneOfKind(ex.chain, {"in", "out"}) /\ AtMostOne(doing)

\* While a thread at a place waits for its bytes they are on the way, or in
\* the stage
Has(jobs, kind, t) == \E i \in 1 .. Len(jobs) : jobs[i] = Job(kind, t)

WaitsFor(jobs, st, want, place, t) ==
    /\ place = "download" => Has(jobs, "out", t) \/ st = want
    /\ place \in Lent => Has(jobs, "out by kernel", t) \/ st = want
    /\ place = "reading out" => st = want

ReadOK == \A t \in Threads : WaitsFor(Whole(ex), stage, expected[t], doing[t], t)

BytesInv == Carried /\ StageOK /\ ReadOK /\ ~misread
ReadInv == AnswerInv /\ BytesInv

-----------------------------------------------------------------------------
\* What is handed over goes behind what was
HandedIn(e, f, jobs) ==
    /\ f \in ExecStates /\ QueueOK(f)
    /\ f.queue = e.queue \o jobs /\ f.retired = e.retired /\ f.slot = e.slot
    /\ f.ka_value = e.ka_value

\* A set of numbers has a least member, and one that is bounded a greatest.
LEMMA LeastExists ==
    ASSUME NEW s \in SUBSET Nat, s # {}
    PROVE  \E x \in s : \A y \in s : x <= y
<1> DEFINE R == {ss \in Nat \X Nat : ss[1] < ss[2]}
<1>1. IsWellFoundedOn(R, Nat)
    BY NatLessThanWellFounded DEF OpToRel
<1> HIDE DEF R
<1>2. PICK x \in s : \A y \in s : ~ (<<y, x>> \in R)
    BY <1>1, WFMin
<1>3. ASSUME NEW y \in s PROVE x <= y
  <2>1. x \in Nat /\ y \in Nat
      OBVIOUS
  <2>2. y < x => <<y, x>> \in R
      BY <2>1 DEF R
  <2> QED BY <1>2, <2>1, <2>2
<1> QED BY <1>3

LEMMA GreatestExists ==
    ASSUME NEW n \in Nat, NEW s \in SUBSET (1 .. n), s # {}
    PROVE  \E x \in s : \A y \in s : y <= x
<1> DEFINE d == {n - x : x \in s}
<1>1. d \in SUBSET Nat /\ d # {}
  <2>1. ASSUME NEW x \in s PROVE n - x \in Nat
      OBVIOUS
  <2> QED BY <2>1
<1>2. PICK k \in d : \A y \in d : k <= y
    BY <1>1, LeastExists
<1>3. PICK x \in s : k = n - x
    BY <1>2
<1>4. ASSUME NEW y \in s PROVE y <= x
  <2>1. n - y \in d
      OBVIOUS
  <2>2. n - x <= n - y
      BY <1>2, <1>3, <2>1
  <2> QED BY <2>2
<1> QED BY <1>4

\* What is submitted is numbered after all before it, and each engine is
\* asked for the last of its own.
LEMMA SubmittedIs ==
    ASSUME NEW e \in ExecStates, QueueOK(e), NEW jobs \in Seq(Jobs), NEW s, s = Submitted(e, jobs)
    PROVE  /\ HandedIn(e, s, jobs)
           /\ s.chain = e.chain /\ s.stage_pend = e.stage_pend
           /\ \A i \in 1 .. Len(jobs) : TimelineOf(e) + i <= s.last[SlotOf(jobs[i])]
<1> DEFINE T == TimelineOf(e)
           own(q) == {j \in DOMAIN jobs : SlotOf(jobs[j]) = q}
           numbers(q) == {T + i : i \in own(q)}
           L == [q \in 0 .. 1 |-> IF numbers(q) = {} THEN e.last[q]
                                  ELSE CHOOSE n \in numbers(q) : \A k \in numbers(q) : k <= n]
<1>1. /\ e.queue \in Seq(Jobs) /\ e.retired \in Nat /\ e.last \in [0 .. 1 -> Nat]
      /\ e.slot \in [0 .. 1 -> Nat] /\ Len(e.queue) \in Nat /\ Len(jobs) \in Nat
      /\ DOMAIN jobs = 1 .. Len(jobs)
    BY DEF ExecStates
<1>2. T \in Nat /\ T = e.retired + Len(e.queue)
    BY <1>1 DEF TimelineOf
<1>3. s = [e EXCEPT !.queue = e.queue \o jobs, !.last = L]
    BY DEF Submitted
<1>4. \A i \in 1 .. Len(jobs) : SlotOf(jobs[i]) \in 0 .. 1
    BY DEF SlotOf
<1>5. ASSUME NEW q \in 0 .. 1
      PROVE  /\ L[q] \in Nat /\ L[q] <= T + Len(jobs) /\ e.last[q] <= L[q]
             /\ \A i \in 1 .. Len(jobs) : SlotOf(jobs[i]) = q => T + i <= L[q]
  <2>1. e.last[q] \in Nat /\ e.last[q] <= T
      BY <1>1 DEF QueueOK
  <2>2. CASE own(q) = {}
    <3>1. L[q] = e.last[q]
        BY <2>2
    <3>2. \A i \in 1 .. Len(jobs) : SlotOf(jobs[i]) # q
        BY <2>2, <1>1
    <3> HIDE DEF L, T
    <3> QED BY <3>1, <3>2, <2>1, <1>1, <1>2
  <2>3. CASE own(q) # {}
    <3>1. own(q) \in SUBSET (1 .. Len(jobs))
        BY <1>1
    <3>2. PICK m \in own(q) : \A j \in own(q) : j <= m
        BY <3>1, <2>3, <1>1, GreatestExists
    <3>3. T + m \in numbers(q) /\ \A k \in numbers(q) : k <= T + m
        BY <3>1, <3>2, <1>2
    <3>4. L[q] = CHOOSE n \in numbers(q) : \A k \in numbers(q) : k <= n
        BY <3>3
    <3>5. L[q] \in numbers(q) /\ \A k \in numbers(q) : k <= L[q]
        BY <3>3, <3>4
    <3>6. PICK i \in own(q) : L[q] = T + i
        BY <3>5
    <3>7. \A j \in 1 .. Len(jobs) : SlotOf(jobs[j]) = q => T + j <= L[q]
        BY <3>5, <1>1
    <3>8. i \in 1 .. Len(jobs)
        BY <3>1, <3>6
    <3> HIDE DEF L, T
    <3>9. L[q] \in Nat /\ L[q] <= T + Len(jobs)
        BY <3>6, <3>8, <1>1, <1>2
    <3>10. T <= L[q]
        BY <3>6, <3>8, <1>1, <1>2
    <3>11. e.last[q] <= L[q]
        BY <3>9, <3>10, <2>1, <1>2
    <3> QED BY <3>7, <3>9, <3>11
  <2> QED BY <2>2, <2>3
<1> HIDE DEF L, T
<1>6. /\ s \in ExecStates /\ s.queue = e.queue \o jobs /\ s.last = L
      /\ s.retired = e.retired /\ s.slot = e.slot /\ s.ka_value = e.ka_value
      /\ s.chain = e.chain /\ s.stage_pend = e.stage_pend
  <2>1. L \in [0 .. 1 -> Nat]
      BY <1>5 DEF L
  <2>2. e.queue \o jobs \in Seq(Jobs)
      BY <1>1
  <2> QED BY <1>3, <2>1, <2>2 DEF ExecStates
<1>7. /\ Len(s.queue) = Len(e.queue) + Len(jobs)
      /\ \A i \in 1 .. Len(s.queue) : s.queue[i] = IF i <= Len(e.queue) THEN e.queue[i]
                                                   ELSE jobs[i - Len(e.queue)]
    BY <1>1, <1>6
<1>8. QueueOK(s)
  <2>1. ASSUME NEW q \in 0 .. 1 PROVE s.slot[q] <= s.retired /\ s.last[q] <= TimelineOf(s)
    <3>1. e.slot[q] <= e.retired
        BY DEF QueueOK
    <3>2. TimelineOf(s) = T + Len(jobs)
        BY <1>1, <1>2, <1>6, <1>7 DEF TimelineOf
    <3> QED BY <3>1, <3>2, <1>5, <1>6
  <2>2. ASSUME NEW i \in 1 .. Len(s.queue) PROVE s.retired + i <= s.last[SlotOf(s.queue[i])]
    <3>1. CASE i <= Len(e.queue)
      <4>1. i \in 1 .. Len(e.queue) /\ s.queue[i] = e.queue[i]
          BY <3>1, <1>1, <1>7
      <4>2. e.retired + i <= e.last[SlotOf(e.queue[i])]
          BY <4>1 DEF QueueOK
      <4>3. SlotOf(e.queue[i]) \in 0 .. 1
          BY DEF SlotOf
      <4> QED BY <4>1, <4>2, <4>3, <1>1, <1>5, <1>6
    <3>2. CASE ~ (i <= Len(e.queue))
      <4>1. i - Len(e.queue) \in 1 .. Len(jobs) /\ s.queue[i] = jobs[i - Len(e.queue)]
          BY <3>2, <1>1, <1>7
      <4>2. SlotOf(s.queue[i]) \in 0 .. 1
          BY DEF SlotOf
      <4>3. T + (i - Len(e.queue)) <= L[SlotOf(s.queue[i])]
          BY <4>1, <4>2, <1>5
      <4> QED BY <4>1, <4>3, <1>1, <1>2, <1>6
    <3> QED BY <3>1, <3>2
  <2> QED BY <2>1, <2>2 DEF QueueOK
<1>9. \A i \in 1 .. Len(jobs) : TimelineOf(e) + i <= s.last[SlotOf(jobs[i])]
    BY <1>4, <1>5, <1>6 DEF T
<1> QED BY <1>6, <1>8, <1>9 DEF HandedIn

\* The chain is handed over; ...
LEMMA FlushedIs ==
    ASSUME NEW e \in ExecStates, QueueOK(e), NEW f, f = Flushed(e)
    PROVE  HandedIn(e, f, e.chain) /\ f.chain = <<>> /\ f.stage_pend = e.stage_pend
<1>1. e.chain \in Seq(Jobs) /\ e.queue \in Seq(Jobs) /\ e.internal \in BOOLEAN
    BY DEF ExecStates
<1>2. CASE e.chain = <<>>
  <2>1. f = e /\ e.queue \o e.chain = e.queue
      BY <1>1, <1>2 DEF Flushed
  <2> QED BY <1>2, <2>1 DEF HandedIn
<1>3. CASE e.chain # <<>>
  <2>1. PICK s : s = Submitted(e, e.chain)
      OBVIOUS
  <2>2. HandedIn(e, s, e.chain) /\ s.chain = e.chain /\ s.stage_pend = e.stage_pend
      BY <1>1, <2>1, SubmittedIs
  <2>3. s \in ExecStates /\ QueueOK(s)
      BY <2>2 DEF HandedIn
  <2>4. f = [s EXCEPT !.chain = <<>>, !.ka_pending = s.ka_pending /\ e.internal]
      BY <1>3, <2>1 DEF Flushed
  <2>5. /\ f \in ExecStates /\ f.queue = s.queue /\ f.retired = s.retired /\ f.slot = s.slot
        /\ f.last = s.last /\ f.ka_value = s.ka_value /\ f.chain = <<>>
        /\ f.stage_pend = s.stage_pend
    <3>1. PICK b \in BOOLEAN : b = (s.ka_pending /\ e.internal)
        OBVIOUS
    <3>2. f = [s EXCEPT !.chain = <<>>, !.ka_pending = b]
        BY <2>4, <3>1
    <3>3. f \in ExecStates
      <4>1. <<>> \in Seq(Jobs)
          OBVIOUS
      <4> QED BY <2>3, <3>2, <4>1 DEF ExecStates
    <3> QED BY <2>3, <3>2, <3>3 DEF ExecStates
  <2>6. QueueOK(f)
      BY <2>3, <2>5 DEF QueueOK, TimelineOf
  <2> QED BY <2>2, <2>5, <2>6 DEF HandedIn
<1> QED BY <1>2, <1>3

\* ... a copy goes behind it, and its engine is asked for it.
LEMMA CopiedIs ==
    ASSUME NEW e \in ExecStates, QueueOK(e), NEW kind \in {"in", "out"}, NEW t \in Threads,
           NEW f, f = Copied(e, kind, t)
    PROVE  /\ HandedIn(e, f, e.chain \o <<Job(kind, t)>>)
           /\ f.chain = <<>> /\ f.stage_pend = e.stage_pend
           /\ f.last[1] = TimelineOf(f)
<1>1. PICK h : h = Flushed(e)
    OBVIOUS
<1>2. HandedIn(e, h, e.chain) /\ h.chain = <<>> /\ h.stage_pend = e.stage_pend
    BY <1>1, FlushedIs
<1>3. h \in ExecStates /\ QueueOK(h) /\ Job(kind, t) \in Jobs
    BY <1>2 DEF HandedIn, Job, Jobs, Kinds
<1> DEFINE one == <<Job(kind, t)>>
<1>4. one \in Seq(Jobs) /\ Len(one) = 1 /\ one[1] = Job(kind, t)
    BY <1>3
<1>5. f = Submitted(h, one)
    BY <1>1 DEF Copied
<1> HIDE DEF one
<1>6. /\ HandedIn(h, f, one) /\ f.chain = h.chain /\ f.stage_pend = h.stage_pend
      /\ \A i \in 1 .. Len(one) : TimelineOf(h) + i <= f.last[SlotOf(one[i])]
    BY <1>3, <1>4, <1>5, SubmittedIs
<1>7. /\ h.retired \in Nat /\ f \in ExecStates /\ QueueOK(f) /\ f.queue = h.queue \o one
      /\ f.retired = h.retired /\ h.queue \in Seq(Jobs) /\ f.last \in [0 .. 1 -> Nat]
    BY <1>3, <1>6 DEF HandedIn, ExecStates
<1>8. f.queue = e.queue \o (e.chain \o one)
  <2>1. e.queue \in Seq(Jobs) /\ e.chain \in Seq(Jobs) /\ h.queue = e.queue \o e.chain
      BY <1>2 DEF HandedIn, ExecStates
  <2>2. (e.queue \o e.chain) \o one = e.queue \o (e.chain \o one)
    <3>1. PICK a \in Seq(Jobs), b \in Seq(Jobs), c \in Seq(Jobs) :
              a = e.queue /\ b = e.chain /\ c = one
        BY <1>4, <2>1
    <3>2. (a \o b) \o c = a \o (b \o c)
        BY ConcatAssociative, SMTT(60)
    <3> QED BY <3>1, <3>2
  <2> QED BY <1>7, <2>1, <2>2
<1>9. f.last[1] = TimelineOf(f)
  <2>1. SlotOf(one[1]) = 1
    <3>1. one[1].kind = kind
        BY <1>4 DEF Job
    <3>2. kind \notin Compute
        BY DEF Compute
    <3> QED BY <3>1, <3>2 DEF SlotOf
  <2>2. TimelineOf(h) + 1 <= f.last[1]
      BY <1>4, <1>6, <2>1
  <2>3. f.last[1] <= TimelineOf(f)
      BY <1>7 DEF QueueOK
  <2>4. TimelineOf(f) = TimelineOf(h) + 1 /\ TimelineOf(h) \in Nat
    <3>1. Len(f.queue) = Len(h.queue) + 1 /\ Len(h.queue) \in Nat
      <4>1. Len(h.queue \o one) = Len(h.queue) + Len(one)
          BY <1>4, <1>7, ConcatProperties
      <4> QED BY <1>4, <1>7, <4>1
    <3> QED BY <3>1, <1>7 DEF TimelineOf
  <2>5. f.last[1] \in Nat
      BY <1>7
  <2> QED BY <2>2, <2>3, <2>4, <2>5
<1> QED BY <1>2, <1>6, <1>7, <1>8, <1>9 DEF HandedIn, one

\* Letting a keep-alive go, and a claim of the stage, hand nothing over.
LEMMA LetGoIs ==
    ASSUME NEW e \in ExecStates, QueueOK(e), NEW f, f = LetGo(e)
    PROVE  /\ HandedIn(e, f, <<>>)
           /\ f.queue = e.queue /\ f.chain = e.chain /\ f.stage_pend = e.stage_pend
           /\ f.last = e.last
<1>1. e.queue \in Seq(Jobs) /\ e.ka_pending \in BOOLEAN
    BY DEF ExecStates
<1>2. f = [e EXCEPT !.ka_pending = e.ka_pending /\ e.last[0] = e.ka_value]
    BY DEF LetGo
<1>3. /\ f \in ExecStates /\ f.queue = e.queue /\ f.retired = e.retired /\ f.slot = e.slot
      /\ f.last = e.last /\ f.ka_value = e.ka_value /\ f.chain = e.chain
      /\ f.stage_pend = e.stage_pend
    BY <1>1, <1>2 DEF ExecStates
<1>4. QueueOK(f) /\ e.queue \o <<>> = e.queue
    BY <1>1, <1>3 DEF QueueOK, TimelineOf
<1> QED BY <1>3, <1>4 DEF HandedIn

LEMMA ClaimedIs ==
    ASSUME NEW e \in ExecStates, QueueOK(e), NEW f, f = Claimed(e)
    PROVE  /\ HandedIn(e, f, <<>>)
           /\ f.queue = e.queue /\ f.chain = e.chain /\ f.stage_pend = 0
<1>1. e.queue \in Seq(Jobs) /\ e.stage_pend \in Nat
    BY DEF ExecStates
<1>2. CASE e.stage_pend = 0
  <2>1. f = e /\ e.queue \o <<>> = e.queue
      BY <1>1, <1>2 DEF Claimed
  <2> QED BY <1>2, <2>1 DEF HandedIn
<1>3. CASE e.stage_pend # 0
  <2>1. PICK g : g = LetGo(e)
      OBVIOUS
  <2>2. HandedIn(e, g, <<>>) /\ g.queue = e.queue /\ g.chain = e.chain
      BY <2>1, LetGoIs
  <2>3. f = [g EXCEPT !.stage_pend = 0]
      BY <1>3, <2>1 DEF Claimed
  <2>4. g \in ExecStates /\ QueueOK(g)
      BY <2>2 DEF HandedIn
  <2>5. /\ f \in ExecStates /\ f.queue = g.queue /\ f.retired = g.retired /\ f.slot = g.slot
        /\ f.last = g.last /\ f.ka_value = g.ka_value /\ f.chain = g.chain
        /\ f.stage_pend = 0
    <3>1. [g EXCEPT !.stage_pend = 0] \in ExecStates
        BY <2>4 DEF ExecStates
    <3> QED BY <2>3, <2>4, <3>1 DEF ExecStates
  <2>6. QueueOK(f)
      BY <2>4, <2>5 DEF QueueOK, TimelineOf
  <2> QED BY <2>2, <2>5, <2>6 DEF HandedIn
<1> QED BY <1>2, <1>3

\* A number stays a job's own when more is handed over.
LEMMA NumberKept ==
    ASSUME NEW e \in ExecStates, NEW f, NEW jobs \in Seq(Jobs), HandedIn(e, f, jobs),
           NEW n \in Nat, NEW spin \in BOOLEAN, IsNumber(e, n, spin)
    PROVE  IsNumber(f, n, spin)
<1>1. /\ e.queue \in Seq(Jobs) /\ e.retired \in Nat /\ Len(e.queue) \in Nat
      /\ Len(jobs) \in Nat /\ f.queue = e.queue \o jobs /\ f.retired = e.retired
    BY SMTT(60) DEF HandedIn, ExecStates
<1>2. /\ Len(f.queue) = Len(e.queue) + Len(jobs)
      /\ \A i \in 1 .. Len(e.queue) : f.queue[i] = e.queue[i]
    BY <1>1
<1>3. SUFFICES ASSUME n > f.retired
               PROVE  n <= TimelineOf(f) /\ (f.queue[n - f.retired].kind = "spin") = spin
    BY DEF IsNumber
<1>4. n <= e.retired + Len(e.queue) /\ (e.queue[n - e.retired].kind = "spin") = spin
    BY <1>1, <1>3 DEF IsNumber, TimelineOf
<1>5. n - e.retired \in 1 .. Len(e.queue)
    BY <1>1, <1>3, <1>4
<1>6. n <= TimelineOf(f)
    BY <1>1, <1>2, <1>4 DEF TimelineOf
<1>7. f.queue[n - f.retired] = e.queue[n - e.retired]
    BY <1>1, <1>2, <1>5
<1> QED BY <1>4, <1>6, <1>7

\* What a wait that is over leaves undone is the keep-alive.
LEMMA Reached ==
    ASSUME NEW e \in ExecStates, QueueOK(e), IsNumber(e, e.ka_value, TRUE), NEW v \in Nat,
           sem_reached(e, v), NEW i \in 1 .. Len(e.queue), e.retired + i <= v
    PROVE  e.queue[i].kind = "spin"
<1> DEFINE q == SlotOf(e.queue[i])
           k == e.last[q]
           asked == IF q = 0 THEN LessTheSpin(e, e.last[0]) ELSE k
<1>1. /\ e.queue \in Seq(Jobs) /\ e.retired \in Nat /\ Len(e.queue) \in Nat
      /\ e.ka_value \in Nat
    BY DEF ExecStates
<1>2. q \in 0 .. 1
    BY DEF SlotOf
<1> HIDE DEF q
<1>3. k \in Nat /\ e.slot[q] \in Nat
    BY <1>2 DEF ExecStates
<1>4. e.retired + i <= k /\ e.slot[q] <= e.retired
    BY <1>2 DEF QueueOK, q
<1>5. e.slot[q] >= (IF asked > v THEN v ELSE asked)
    BY <1>2 DEF sem_reached
<1>6. asked = k \/ (asked = k - 1 /\ k = e.ka_value)
    BY <1>2 DEF LessTheSpin
<1> HIDE DEF k, asked
<1>7. asked # k
    BY <1>1, <1>3, <1>4, <1>5
<1>8. e.retired + i = k /\ k = e.ka_value
    BY <1>1, <1>3, <1>4, <1>5, <1>6, <1>7
<1>9. e.ka_value > e.retired /\ e.ka_value - e.retired = i
    BY <1>1, <1>8
<1> QED BY <1>9 DEF IsNumber

-----------------------------------------------------------------------------
\* What steps have in common.
LEMMA SameQueue ==
    ASSUME NEW e \in ExecStates, QueueOK(e), NEW f \in ExecStates, f.queue = e.queue,
           f.retired = e.retired, f.slot = e.slot, f.last = e.last, f.ka_value = e.ka_value
    PROVE  HandedIn(e, f, <<>>)
<1>1. e.queue \in Seq(Jobs)
    BY DEF ExecStates
<1>2. QueueOK(f) /\ e.queue \o <<>> = e.queue
    BY <1>1 DEF QueueOK, TimelineOf
<1> QED BY <1>2 DEF HandedIn

\* Where a thread may go
MayMove(t, to) ==
    /\ t \in deployed.callers /\ deployed' = deployed /\ doing' = [doing EXCEPT ![t] = to]
    /\ IF to \in Holding THEN lock = Nobody /\ lock' = t
       ELSE lock' = IF doing[t] \in Holding THEN Nobody ELSE lock
    /\ lock' # Nobody => ex'.chain = <<>>
    /\ to \in SpinPlaces => deployed.keepalive
    /\ to \in KernelPlaces => deployed.download_kernel
    /\ to = "download" => ~deployed.download_kernel
    /\ to \in UnnotedSpin => BehindSpin(ex')
    /\ to = "flushed spin" => ex'.chain = <<>>

\* A keep-alive not noted yet stays the last of all there is.
StillSpins == /\ BehindSpin(ex) => BehindSpin(ex')
              /\ ex.chain = <<>> => ex'.chain = <<>>

LEMMA SpinsQuiet ==
    ASSUME ex \in ExecStates, HandedIn(ex, ex', <<>>), ex'.chain = ex.chain
    PROVE  StillSpins
<1>1. ex.queue \in Seq(Jobs)
    BY DEF ExecStates
<1>2. ex'.queue = ex.queue /\ ex'.retired = ex.retired
    BY <1>1 DEF HandedIn
<1> QED BY <1>2 DEF StillSpins, BehindSpin, IsNumber, TimelineOf

LEMMA SpinsFlushed ==
    ASSUME ex \in ExecStates, HandedIn(ex, ex', ex.chain), ex'.chain = <<>>
    PROVE  StillSpins
<1>1. CASE ex.chain = <<>>
    BY <1>1, SpinsQuiet
<1>2. CASE ex.chain # <<>>
  <2>1. SUFFICES ASSUME ex.chain[Len(ex.chain)].kind = "spin"
                 PROVE  IsNumber(ex', TimelineOf(ex'), TRUE)
      BY <1>2 DEF StillSpins, BehindSpin
  <2>2. /\ ex.queue \in Seq(Jobs) /\ ex.chain \in Seq(Jobs) /\ ex'.queue = ex.queue \o ex.chain
        /\ ex'.retired \in Nat
      BY DEF ExecStates, HandedIn
  <2>3. PICK a \in Nat, b \in Nat \ {0} : a = Len(ex.queue) /\ b = Len(ex.chain)
      BY <1>2, <2>2
  <2>4. Len(ex'.queue) = a + b /\ ex'.queue[a + b] = ex.chain[b]
    <3>1. PICK q \in Seq(Jobs), c \in Seq(Jobs) : q = ex.queue /\ c = ex.chain
        BY <2>2
    <3>2. Len(q \o c) = Len(q) + Len(c) /\ (q \o c)[Len(q) + Len(c)] = c[Len(c)]
      <4>1. Len(c) # 0 /\ Len(c) \in Nat /\ Len(q) \in Nat
          BY <2>3, <3>1
      <4> QED BY <4>1
    <3> QED BY <2>2, <2>3, <3>1, <3>2
  <2>5. TimelineOf(ex') = ex'.retired + (a + b) /\ TimelineOf(ex') - ex'.retired = a + b
    <3>1. PICK k \in Nat : k = ex'.retired
        BY <2>2
    <3>2. TimelineOf(ex') = k + (a + b)
        BY <2>4, <3>1 DEF TimelineOf
    <3> QED BY <3>1, <3>2
  <2>6. TimelineOf(ex') <= TimelineOf(ex')
    <3>1. TimelineOf(ex') \in Nat
      <4>1. PICK k \in Nat : k = ex'.retired
          BY <2>2
      <4> QED BY <2>5, <4>1
    <3> QED BY <3>1
  <2> QED BY <2>1, <2>3, <2>4, <2>5, <2>6 DEF IsNumber
<1> QED BY <1>1, <1>2

LEMMA MovePlaces ==
    ASSUME ThreadTypesOK, PlaceOK, NEW t \in Threads, NEW to \in ThreadPlaces, MayMove(t, to),
           Another(t, UnnotedSpin) => StillSpins
    PROVE  PlaceOK' /\ lock' \in Threads \cup {Nobody}
<1>1. Nobody \notin Threads /\ deployed \in Deployments /\ doing \in [Threads -> ThreadPlaces]
    BY ThreadsAssumption DEF ThreadTypesOK
<1>2. doing[t] \in Holding <=> lock = t
    BY DEF PlaceOK
<1>3. ASSUME NEW u \in Threads
      PROVE  /\ doing'[u] \in Holding <=> lock' = u
             /\ doing'[u] # "nothing" => u \in deployed'.callers
             /\ doing'[u] \in SpinPlaces => deployed'.keepalive
             /\ doing'[u] \in KernelPlaces => deployed'.download_kernel
             /\ doing'[u] = "download" => ~deployed'.download_kernel
             /\ doing'[u] \in UnnotedSpin => BehindSpin(ex')
             /\ doing'[u] = "flushed spin" => ex'.chain = <<>>
  <2>1. CASE u = t
    <3>1. doing'[u] = to
        BY <1>1, <2>1 DEF MayMove
    <3>2. doing'[u] \in Holding <=> lock' = u
        BY <1>1, <1>2, <2>1, <3>1 DEF MayMove
    <3> QED BY <2>1, <3>1, <3>2 DEF MayMove
  <2>2. CASE u # t
    <3>1. doing'[u] = doing[u]
        BY <1>1, <2>2 DEF MayMove
    <3>2. doing[u] \in Holding <=> lock = u
        BY DEF PlaceOK
    <3>3. doing'[u] \in Holding <=> lock' = u
      <4>1. u # Nobody /\ t # Nobody
          BY <1>1
      <4>2. CASE to \in Holding
          BY <2>2, <3>1, <3>2, <4>1, <4>2 DEF MayMove
      <4>3. CASE to \notin Holding /\ doing[t] \in Holding
          BY <1>2, <2>2, <3>1, <3>2, <4>1, <4>3 DEF MayMove
      <4>4. CASE to \notin Holding /\ doing[t] \notin Holding
          BY <3>1, <3>2, <4>4 DEF MayMove
      <4> QED BY <4>2, <4>3, <4>4
    <3>4. doing[u] \in UnnotedSpin => StillSpins
        BY <2>2 DEF Another
    <3>5. /\ doing[u] \in UnnotedSpin => BehindSpin(ex')
          /\ doing[u] = "flushed spin" => ex'.chain = <<>>
        BY <3>4 DEF PlaceOK, StillSpins, UnnotedSpin
    <3> QED BY <3>1, <3>3, <3>5 DEF MayMove, PlaceOK
  <2> QED BY <2>1, <2>2
<1>4. lock' # Nobody => ex'.chain = <<>>
    BY DEF MayMove
<1>5. lock' \in Threads \cup {Nobody}
    BY DEF MayMove, ThreadTypesOK
<1> QED BY <1>3, <1>4, <1>5 DEF PlaceOK

\* Events already recorded stay so when more is handed over.
LEMMA EventsKept ==
    ASSUME ThreadTypesOK, EventOK, NEW jobs \in Seq(Jobs), HandedIn(ex, ex', jobs), event' = event,
           \A u \in Threads : doing'[u] # "recording" => doing[u] # "recording"
    PROVE  EventOK'
<1>1. ASSUME NEW u \in Threads
      PROVE  /\ IsNumber(ex', event'[u].after, FALSE)
             /\ doing'[u] # "recording" => event'[u].after <= event'[u].value
  <2>1. IsNumber(ex, event[u].after, FALSE) /\ event[u].after \in Nat /\ ex \in ExecStates
      BY DEF EventOK, ThreadTypesOK
  <2>2. IsNumber(ex', event[u].after, FALSE)
      BY <2>1, NumberKept
  <2> QED BY <2>2 DEF EventOK
<1> QED BY <1>1 DEF EventOK

LEMMA HandedStep ==
    ASSUME AnswerInv, NEW t \in Threads, NEW to \in ThreadPlaces, MayMove(t, to),
           Another(t, UnnotedSpin) => StillSpins,
           NEW jobs \in Seq(Jobs), HandedIn(ex, ex', jobs), BytesOK',
           event' \in [Threads -> [value : Nat, after : Nat]],
           EventOK' \/ (event' = event /\ doing[t] # "recording"), early' = early
    PROVE  AnswerInv'
<1>1. ThreadTypesOK /\ QueueOK(ex) /\ IsNumber(ex, ex.ka_value,
        TRUE) /\ PlaceOK /\ EventOK /\ ~early
    BY DEF AnswerInv
<1>2. PlaceOK' /\ lock' \in Threads \cup {Nobody}
    BY <1>1, MovePlaces
<1>3. doing' = [doing EXCEPT ![t] = to] /\ deployed' = deployed
    BY DEF MayMove
<1>4. ThreadTypesOK'
    BY <1>1, <1>2, <1>3 DEF ThreadTypesOK, HandedIn
<1>5. QueueOK(ex)' /\ ex'.ka_value = ex.ka_value
    BY DEF HandedIn
<1>6. IsNumber(ex', ex'.ka_value, TRUE)
  <2>1. ex \in ExecStates /\ ex.ka_value \in Nat
      BY <1>1 DEF ThreadTypesOK, ExecStates
  <2>2. IsNumber(ex', ex.ka_value, TRUE)
      BY <1>1, <2>1, NumberKept
  <2> QED BY <1>5, <2>2
<1>7. EventOK'
  <2>1. CASE event' = event /\ doing[t] # "recording"
    <3>1. \A u \in Threads : doing'[u] # "recording" => doing[u] # "recording"
        BY <1>1, <1>3, <2>1 DEF ThreadTypesOK
    <3> QED BY <1>1, <2>1, <3>1, EventsKept
  <2> QED BY <2>1
<1> QED BY <1>1, <1>2, <1>4, <1>5, <1>6, <1>7 DEF AnswerInv

\* ... and when it is done.
LEMMA DoneIs ==
    ASSUME NEW e \in ExecStates, QueueOK(e), e.queue # <<>>, NEW f,
           f = [e EXCEPT !.queue = Tail(@), !.retired = @ + 1,
                         !.slot[SlotOf(Head(e.queue))] = e.retired + 1]
    PROVE  /\ f \in ExecStates /\ QueueOK(f) /\ f.queue = Tail(e.queue) /\ f.retired = e.retired + 1
           /\ f.chain = e.chain /\ f.stage_pend = e.stage_pend /\ f.ka_value = e.ka_value
           /\ TimelineOf(f) = TimelineOf(e) /\ Len(e.queue) \in Nat \ {0}
           /\ Len(f.queue) = Len(e.queue) - 1
           /\ \A i \in 1 .. Len(f.queue) : f.queue[i] = e.queue[i + 1]
<1> DEFINE q == SlotOf(Head(e.queue))
<1>1. /\ e.queue \in Seq(Jobs) /\ e.retired \in Nat /\ e.slot \in [0 .. 1 -> Nat]
      /\ e.last \in [0 .. 1 -> Nat] /\ e.retired + 1 \in Nat
    BY DEF ExecStates
<1>2. /\ Len(e.queue) \in Nat \ {0} /\ Tail(e.queue) \in Seq(Jobs)
      /\ Len(Tail(e.queue)) = Len(e.queue) - 1
      /\ \A i \in 1 .. Len(e.queue) - 1 : Tail(e.queue)[i] = e.queue[i + 1]
    BY <1>1
<1>3. q \in 0 .. 1
    BY DEF SlotOf
<1>4. PICK g : g = [e.slot EXCEPT ![q] = e.retired + 1]
    OBVIOUS
<1>5. g \in [0 .. 1 -> Nat] /\ \A p \in 0 .. 1 : g[p] = e.slot[p] \/ g[p] = e.retired + 1
    BY <1>1, <1>3, <1>4
<1>6. f = [e EXCEPT !.queue = Tail(e.queue), !.retired = e.retired + 1, !.slot = g]
    BY <1>4 DEF ExecStates
<1> HIDE DEF q
<1>7. /\ f \in ExecStates /\ f.queue = Tail(e.queue) /\ f.retired = e.retired + 1 /\ f.slot = g
      /\ f.last = e.last /\ f.chain = e.chain /\ f.stage_pend = e.stage_pend
      /\ f.ka_value = e.ka_value
    BY <1>1, <1>2, <1>5, <1>6 DEF ExecStates
<1>8. TimelineOf(f) = TimelineOf(e)
    BY <1>1, <1>2, <1>7, SMTT(60) DEF TimelineOf
<1>9. QueueOK(f)
  <2>1. ASSUME NEW p \in 0 .. 1 PROVE f.slot[p] <= f.retired /\ f.last[p] <= TimelineOf(f)
    <3>1. e.slot[p] <= e.retired /\ e.last[p] <= TimelineOf(e) /\ e.slot[p] \in Nat
        BY <1>1 DEF QueueOK
    <3> QED BY <3>1, <1>1, <1>5, <1>7, <1>8
  <2>2. ASSUME NEW i \in 1 .. Len(f.queue) PROVE f.retired + i <= f.last[SlotOf(f.queue[i])]
    <3>1. i + 1 \in 1 .. Len(e.queue) /\ f.queue[i] = e.queue[i + 1] /\ i \in Nat
        BY <1>2, <1>7
    <3>2. e.retired + (i + 1) <= e.last[SlotOf(e.queue[i + 1])]
        BY <3>1 DEF QueueOK
    <3>3. f.retired + i = e.retired + (i + 1)
        BY <1>1, <1>7, <3>1, SMTT(60)
    <3> QED BY <3>1, <3>2, <3>3, <1>7
  <2> QED BY <2>1, <2>2 DEF QueueOK
<1> QED BY <1>2, <1>7, <1>8, <1>9

LEMMA NumberDone ==
    ASSUME NEW e \in ExecStates, NEW f, f.retired = e.retired + 1, TimelineOf(f) = TimelineOf(e),
           Len(f.queue) = Len(e.queue) - 1, Len(e.queue) \in Nat,
           \A i \in 1 .. Len(f.queue) : f.queue[i] = e.queue[i + 1],
           NEW n \in Nat, NEW spin \in BOOLEAN, IsNumber(e, n, spin)
    PROVE  IsNumber(f, n, spin)
<1>1. e.retired \in Nat
    BY DEF ExecStates
<1>2. SUFFICES ASSUME n > f.retired
               PROVE  n <= TimelineOf(f) /\ (f.queue[n - f.retired].kind = "spin") = spin
    BY DEF IsNumber
<1>3. n <= TimelineOf(e) /\ (e.queue[n - e.retired].kind = "spin") = spin
    BY <1>1, <1>2 DEF IsNumber
<1>4. n - f.retired \in 1 .. Len(f.queue) /\ (n - f.retired) + 1 = n - e.retired
    BY <1>1, <1>2, <1>3 DEF TimelineOf
<1>5. f.queue[n - f.retired] = e.queue[n - e.retired]
    BY <1>4
<1> QED BY <1>3, <1>5

LEMMA ChangedIs ==
    ASSUME NEW b \in Values
    PROVE  Changed(b) \in Values
BY DEF Values, Changed

LEMMA RetireAnswers ==
    ASSUME AnswerInv, Retire
    PROVE  AnswerInv'
<1>1. ThreadTypesOK /\ QueueOK(ex) /\ IsNumber(ex, ex.ka_value,
        TRUE) /\ PlaceOK /\ EventOK /\ ~early
    BY DEF AnswerInv
<1>2. ex \in ExecStates /\ ex.queue # <<>> /\ UNCHANGED <<deployed, lock, doing, event, expected,
        misread, early>>
    BY <1>1 DEF Retire, ThreadTypesOK
<1>3. ex' = [ex EXCEPT !.queue = Tail(@), !.retired = @ + 1,
                       !.slot[SlotOf(Head(ex.queue))] = ex.retired + 1]
    BY DEF Retire
<1>4. /\ ex' \in ExecStates /\ QueueOK(ex') /\ ex'.retired = ex.retired + 1 /\ ex'.chain = ex.chain
      /\ ex'.ka_value = ex.ka_value /\ TimelineOf(ex') = TimelineOf(ex)
      /\ Len(ex.queue) \in Nat /\ Len(ex'.queue) = Len(ex.queue) - 1
      /\ \A i \in 1 .. Len(ex'.queue) : ex'.queue[i] = ex.queue[i + 1]
    BY <1>1, <1>2, <1>3, DoneIs, ZenonT(60)
<1>5. ASSUME NEW n \in Nat, NEW spin \in BOOLEAN, IsNumber(ex, n, spin) PROVE IsNumber(ex', n, spin)
    BY <1>2, <1>4, <1>5, NumberDone
<1>6. BytesOK'
  <2>1. PICK job \in Jobs : job = Head(ex.queue)
    <3>1. ex.queue \in Seq(Jobs)
        BY <1>2 DEF ExecStates
    <3> QED BY <1>2, <3>1
  <2>2. PICK t \in Threads : t = job.by
      BY <2>1 DEF Jobs
  <2>3. mem \in [Threads -> Values] /\ stage \in Values /\ expected \in [Threads -> Values] /\ misread \in BOOLEAN
      BY <1>1 DEF ThreadTypesOK, BytesOK
  <2>4. mem[t] \in Values /\ Changed(mem[t]) \in Values
      BY <2>3, ChangedIs
  <2>5. /\ mem' = CASE job.kind = "in" -> [mem EXCEPT ![t] = stage]
                      [] job.kind = "kernel" -> [mem EXCEPT ![t] = Changed(@)]
                      [] OTHER -> mem
        /\ stage' = IF job.kind \in {"out", "out by kernel"} THEN mem[t] ELSE stage
      BY <2>1, <2>2 DEF Retire
  <2>6. mem' \in [Threads -> Values]
      BY <2>3, <2>4, <2>5
  <2>7. stage' \in Values
      BY <2>3, <2>4, <2>5
  <2> QED BY <1>2, <2>3, <2>6, <2>7 DEF BytesOK
<1>7. ThreadTypesOK'
    BY <1>1, <1>2, <1>4, <1>6 DEF ThreadTypesOK
<1>8. PlaceOK'
  <2>1. TimelineOf(ex) \in Nat
    <3>1. ex.retired \in Nat /\ Len(ex.queue) \in Nat
        BY <1>2 DEF ExecStates
    <3> QED BY <3>1 DEF TimelineOf
  <2>2. IsNumber(ex, TimelineOf(ex), TRUE) => IsNumber(ex', TimelineOf(ex'), TRUE)
      BY <1>4, <1>5, <2>1
  <2>3. BehindSpin(ex) => BehindSpin(ex')
      BY <1>4, <2>2 DEF BehindSpin
  <2> QED BY <1>1, <1>2, <1>4, <2>3 DEF PlaceOK
<1>9. EventOK'
  <2>1. \A u \in Threads : event[u].after \in Nat
      BY <1>1 DEF ThreadTypesOK
  <2> QED BY <1>1, <1>2, <1>5, <2>1 DEF EventOK
<1>10. IsNumber(ex', ex'.ka_value, TRUE)
  <2>1. ex.ka_value \in Nat
      BY <1>2 DEF ExecStates
  <2> QED BY <1>1, <1>4, <1>5, <2>1
<1> QED BY <1>1, <1>2, <1>4, <1>7, <1>8, <1>9, <1>10 DEF AnswerInv

-----------------------------------------------------------------------------
\* Each step of a thread.
LEMMA UploadedIs ==
    ASSUME NEW e \in ExecStates, QueueOK(e), NEW t \in Threads, NEW c,
           c = Copied(Claimed(e), "in", t),
           NEW f, f = [c EXCEPT !.stage_pend = c.last[1]]
    PROVE  /\ HandedIn(e, f, e.chain \o <<Job("in", t)>>) /\ e.chain
                \o <<Job("in", t)>> \in Seq(Jobs)
           /\ f.chain = <<>> /\ f.stage_pend = TimelineOf(f)
<1>1. PICK g : g = Claimed(e)
    OBVIOUS
<1>2. HandedIn(e, g, <<>>) /\ g.queue = e.queue /\ g.chain = e.chain
    BY <1>1, ClaimedIs
<1>3. g \in ExecStates /\ QueueOK(g) /\ c = Copied(g, "in", t) /\ "in" \in {"in", "out"}
    BY <1>1, <1>2 DEF HandedIn
<1> DEFINE jobs == e.chain \o <<Job("in", t)>>
<1>4. jobs \in Seq(Jobs)
  <2>1. Job("in", t) \in Jobs /\ e.chain \in Seq(Jobs)
      BY DEF Job, Jobs, Kinds, ExecStates
  <2> QED BY <2>1
<1>5. /\ HandedIn(g, c, jobs) /\ c.chain = <<>> /\ c.last[1] = TimelineOf(c)
    BY <1>2, <1>3, CopiedIs
<1> HIDE DEF jobs
<1>6. c \in ExecStates /\ QueueOK(c) /\ c.last[1] \in Nat
  <2>1. c \in ExecStates /\ QueueOK(c)
      BY <1>5 DEF HandedIn
  <2>2. c.last \in [0 .. 1 -> Nat]
      BY <2>1 DEF ExecStates
  <2> QED BY <2>1, <2>2
<1>7. /\ f \in ExecStates /\ f.queue = c.queue /\ f.retired = c.retired /\ f.slot = c.slot
      /\ f.last = c.last /\ f.ka_value = c.ka_value /\ f.chain = c.chain
      /\ f.stage_pend = c.last[1]
  <2>1. PICK n \in Nat : n = c.last[1]
      BY <1>6
  <2>2. f = [c EXCEPT !.stage_pend = n]
      BY <2>1
  <2>3. [c EXCEPT !.stage_pend = n] \in ExecStates
      BY <1>6, <2>1 DEF ExecStates
  <2> QED BY <1>6, <2>1, <2>2, <2>3 DEF ExecStates
<1>8. QueueOK(f) /\ f.stage_pend = TimelineOf(f)
    BY <1>5, <1>6, <1>7 DEF QueueOK, TimelineOf
<1>9. HandedIn(e, f, jobs)
    BY <1>2, <1>5, <1>7, <1>8 DEF HandedIn
<1> QED BY <1>4, <1>5, <1>7, <1>8, <1>9 DEF jobs

LEMMA NoJobs == <<>> \in Seq(Jobs)
OBVIOUS

LEMMA AppendEnds ==
    ASSUME NEW c \in Seq(Jobs), NEW job \in Jobs, NEW d, d = Append(c, job)
    PROVE  d \in Seq(Jobs) /\ d # <<>> /\ d[Len(d)] = job
OBVIOUS

\* A wait that is over: what is left before its value is the keep-alive.
LEMMA WaitOver ==
    ASSUME AnswerInv, NEW v \in Nat, sem_reached(ex, v) \/ sem_reached(LetGo(ex), v),
           NEW i \in 1 .. Len(ex.queue), ex.retired + i <= v
    PROVE  ex.queue[i].kind = "spin"
<1>1. ex \in ExecStates /\ QueueOK(ex) /\ IsNumber(ex, ex.ka_value, TRUE) /\ ex.ka_value \in Nat
    BY DEF AnswerInv, ThreadTypesOK, ExecStates
<1>2. CASE sem_reached(ex, v)
    BY <1>1, <1>2, Reached
<1>3. CASE sem_reached(LetGo(ex), v)
  <2>1. PICK g : g = LetGo(ex)
      OBVIOUS
  <2>2. HandedIn(ex, g, <<>>) /\ g.queue = ex.queue
      BY <1>1, <2>1, LetGoIs
  <2>3. g \in ExecStates /\ QueueOK(g) /\ g.ka_value = ex.ka_value /\ g.retired = ex.retired
      BY <2>2 DEF HandedIn
  <2>4. <<>> \in Seq(Jobs) /\ TRUE \in BOOLEAN
      BY NoJobs
  <2>5. IsNumber(g, ex.ka_value, TRUE)
      BY <1>1, <2>2, <2>4, NumberKept
  <2>6. sem_reached(g, v) /\ IsNumber(g, g.ka_value,
          TRUE) /\ i \in 1 .. Len(g.queue) /\ g.retired + i <= v
      BY <1>3, <2>1, <2>2, <2>3, <2>5
  <2>7. g.queue[i].kind = "spin"
      BY <2>3, <2>6, Reached
  <2> QED BY <2>2, <2>7
<1> QED BY <1>2, <1>3

\* A thread that has waited for everything.
LEMMA AllDone ==
    ASSUME AnswerInv, NEW t \in Threads, Waited(t)
    PROVE  ex.chain = <<>> /\ \A i \in 1 .. Len(ex.queue) : ex.queue[i].kind = "spin"
<1>1. ex \in ExecStates /\ ex.retired \in Nat /\ Len(ex.queue) \in Nat
    BY DEF AnswerInv, ThreadTypesOK, ExecStates
<1>2. ex.chain = <<>>
    BY ThreadsAssumption DEF AnswerInv, PlaceOK, Waited
<1>3. PICK v \in Nat : v = TimelineOf(ex) /\ v = ex.retired + Len(ex.queue)
    BY <1>1 DEF TimelineOf
<1>4. sem_reached(LetGo(ex), v)
    BY <1>3 DEF Waited
<1>5. \A i \in 1 .. Len(ex.queue) : ex.retired + i <= v
    BY <1>1, <1>3
<1> QED BY <1>2, <1>4, <1>5, WaitOver

\* The last of a thread's own work is a job of its own, or none.
LEMMA OwnWorkIs ==
    ASSUME NEW e \in ExecStates, NEW t \in Threads, NEW n, n = OwnWork(e, t)
    PROVE  /\ n \in Nat
           /\ n > e.retired => /\ n - e.retired \in 1 .. Len(e.queue \o e.chain)
                              /\ (e.queue \o e.chain)[n - e.retired].kind # "spin"
<1> DEFINE all == e.queue \o e.chain
           own == {i \in DOMAIN all : all[i].by = t /\ all[i].kind # "spin"}
<1>1. e.retired \in Nat /\ all \in Seq(Jobs) /\ Len(all) \in Nat /\ DOMAIN all = 1 .. Len(all)
  <2>1. e.queue \in Seq(Jobs) /\ e.chain \in Seq(Jobs) /\ e.retired \in Nat
      BY DEF ExecStates
  <2>2. all \in Seq(Jobs)
      BY <2>1
  <2> HIDE DEF all
  <2> QED BY <2>1, <2>2
<1>2. CASE own = {}
  <2>1. n = 0
      BY <1>2 DEF OwnWork
  <2>2. n \in Nat /\ ~ (n > e.retired)
      BY <1>1, <2>1
  <2> QED BY <2>2
<1>3. CASE own # {}
  <2>1. own \in SUBSET (1 .. Len(all))
      BY <1>1
  <2>2. PICK m \in own : \A j \in own : j <= m
      BY <1>1, <1>3, <2>1, GreatestExists
  <2>3. PICK k : k = CHOOSE i \in own : \A j \in own : j <= i
      OBVIOUS
  <2>4. k \in own
      BY <2>2, <2>3
  <2>5. n = e.retired + k
      BY <1>3, <2>3 DEF OwnWork
  <2>6. k \in 1 .. Len(all) /\ all[k].kind # "spin"
      BY <1>1, <2>4
  <2> HIDE DEF all
  <2>7. n \in Nat /\ n - e.retired = k
      BY <1>1, <2>5, <2>6
  <2> QED BY <2>6, <2>7 DEF all
<1> QED BY <1>2, <1>3

LEMMA UploadAnswers ==
    ASSUME AnswerInv, ~ passed', NEW t \in Threads, Upload(t)
    PROVE  AnswerInv'
<1>1. /\ ThreadTypesOK /\ QueueOK(ex) /\ IsNumber(ex, ex.ka_value,
           TRUE) /\ PlaceOK /\ EventOK /\ ~early
      /\ ex \in ExecStates /\ BytesOK /\ event \in [Threads -> [value : Nat, after : Nat]]
      /\ doing \in [Threads -> ThreadPlaces] /\ Nobody \notin Threads
    BY ThreadsAssumption DEF AnswerInv, ThreadTypesOK
<1>2. HandedIn(ex, ex', ex.chain \o <<Job("in", t)>>) /\ ex.chain
        \o <<Job("in", t)>> \in Seq(Jobs) /\ ex'.chain = <<>>
    BY <1>1, UploadedIs DEF Upload
<1>3. ex.chain \o <<Job("in", t)>> \in Seq(Jobs) /\ HandedIn(ex, ex', ex.chain \o <<Job("in", t)>>)
    BY <1>1, <1>2 DEF ExecStates
<1>4. BytesOK'
  <2>1. Uploaded(t) \in Values
      BY DEF Uploaded, Values
  <2> QED BY <1>1, <2>1 DEF Upload, BytesOK
<1>5. MayMove(t, "nothing") /\ "nothing" \in ThreadPlaces
    BY <1>1, <1>2 DEF Upload, At, Goes, Unheld, Reads, IdleBegins, Marks, Waited, MayMove, Holding,
       SpinPlaces, KernelPlaces, ThreadPlaces, UnnotedSpin, PlaceOK
<1>6. event' = event /\ doing[t] # "recording"
    BY <1>2 DEF Upload, At, Goes, Unheld, Reads, IdleBegins, Marks
<1>7. event' \in [Threads -> [value : Nat, after : Nat]]
    BY <1>1, <1>6
<1>8. early' = early
    BY DEF Upload, At, Goes, Unheld, Reads, IdleBegins, Marks
<1>9. ~ Another(t, UnnotedSpin)
    BY DEF Upload, AddsWork
<1> QED BY <1>3, <1>4, <1>5, <1>6, <1>7, <1>8, <1>9, HandedStep

LEMMA LaunchHands ==
    ASSUME AnswerInv, NEW t \in Threads, Launch(t)
    PROVE  /\ HandedIn(ex, ex', <<>>) /\ ex'.queue = ex.queue /\ ex'.stage_pend = ex.stage_pend
           /\ ex'.chain = Append(ex.chain, Job("kernel", t)) /\ ex'.chain # <<>>
           /\ ex'.chain[Len(ex'.chain)] = Job("kernel", t) /\ Job("kernel", t).kind = "kernel"
<1>1. ex \in ExecStates /\ QueueOK(ex) /\ PlaceOK
    BY DEF AnswerInv, ThreadTypesOK
<1>2. Job("kernel", t) \in Jobs /\ Job("kernel", t).kind = "kernel"
    BY DEF Job, Jobs, Kinds
<1>3. PICK c : c = Append(ex.chain, Job("kernel", t))
    OBVIOUS
<1>4. c \in Seq(Jobs) /\ c # <<>> /\ c[Len(c)] = Job("kernel", t)
  <2>1. ex.chain \in Seq(Jobs)
      BY <1>1 DEF ExecStates
  <2>2. PICK j \in Jobs : j = Job("kernel", t)
      BY <1>2
  <2>3. c = Append(ex.chain, j)
      BY <1>3, <2>2
  <2>4. c \in Seq(Jobs) /\ c # <<>> /\ c[Len(c)] = j
      BY <2>1, <2>3, AppendEnds
  <2> QED BY <2>2, <2>4
<1>5. PICK n \in Nat : n = IF ex.internal \/ ex.launches = MinLaunches THEN ex.launches
                           ELSE ex.launches + 1
    BY <1>1 DEF ExecStates
<1>6. ex' = [ex EXCEPT !.chain = c, !.launches = n]
    BY <1>1, <1>3, <1>5 DEF Launch, ExecStates
<1>7. [ex EXCEPT !.chain = c, !.launches = n] \in ExecStates
    BY <1>1, <1>4 DEF ExecStates
<1>8. /\ ex' \in ExecStates /\ ex'.queue = ex.queue /\ ex'.retired = ex.retired /\ ex'.slot = ex.slot
      /\ ex'.last = ex.last /\ ex'.ka_value = ex.ka_value /\ ex'.chain = c
      /\ ex'.stage_pend = ex.stage_pend
    BY <1>1, <1>6, <1>7 DEF ExecStates
<1> QED BY <1>1, <1>2, <1>3, <1>4, <1>8, SameQueue

LEMMA LaunchAnswers ==
    ASSUME AnswerInv, ~ passed', NEW t \in Threads, Launch(t)
    PROVE  AnswerInv'
<1>1. /\ ThreadTypesOK /\ QueueOK(ex) /\ IsNumber(ex, ex.ka_value,
           TRUE) /\ PlaceOK /\ EventOK /\ ~early
      /\ ex \in ExecStates /\ BytesOK /\ event \in [Threads -> [value : Nat, after : Nat]]
      /\ doing \in [Threads -> ThreadPlaces] /\ Nobody \notin Threads
    BY ThreadsAssumption DEF AnswerInv, ThreadTypesOK
<1>2. /\ HandedIn(ex, ex', <<>>) /\ ex'.queue = ex.queue /\ ex'.stage_pend = ex.stage_pend
      /\ ex'.chain = Append(ex.chain, Job("kernel", t)) /\ ex'.chain # <<>>
      /\ ex'.chain[Len(ex'.chain)] = Job("kernel", t) /\ Job("kernel", t).kind = "kernel"
    BY LaunchHands
<1>3. <<>> \in Seq(Jobs) /\ HandedIn(ex, ex', <<>>)
  <2>1. <<>> \in Seq(Jobs)
      BY NoJobs
  <2> QED BY <1>2, <2>1
<1>4. BytesOK'
  <2>1. Changed(expected[t]) \in Values
      BY <1>1, ChangedIs DEF BytesOK
  <2> QED BY <1>1, <2>1 DEF Launch, BytesOK
<1>5. MayMove(t, "nothing") /\ "nothing" \in ThreadPlaces
    BY <1>1, <1>2 DEF Launch, At, Goes, Unheld, Reads, IdleBegins, Marks, Waited, MayMove, Holding,
       SpinPlaces, KernelPlaces, ThreadPlaces, UnnotedSpin, PlaceOK
<1>6. event' = event /\ doing[t] # "recording"
    BY <1>2 DEF Launch, At, Goes, Unheld, Reads, IdleBegins, Marks
<1>7. event' \in [Threads -> [value : Nat, after : Nat]]
    BY <1>1, <1>6
<1>8. early' = early
    BY DEF Launch, At, Goes, Unheld, Reads, IdleBegins, Marks
<1>9. ~ Another(t, UnnotedSpin)
    BY DEF Launch, AddsWork
<1> QED BY <1>3, <1>4, <1>5, <1>6, <1>7, <1>8, <1>9, HandedStep

LEMMA DownloadBeginsHands ==
    ASSUME AnswerInv, NEW t \in Threads, DownloadBegins(t)
    PROVE  /\ HandedIn(ex, ex', ex.chain \o <<Job("out", t)>>) /\ ex.chain
                \o <<Job("out", t)>> \in Seq(Jobs)
           /\ ex'.chain = <<>> /\ ex'.stage_pend = ex.stage_pend
<1>1. ex \in ExecStates /\ QueueOK(ex) /\ PlaceOK
    BY DEF AnswerInv, ThreadTypesOK
<1>2. ex' = Copied(ex, "out", t) /\ "out" \in {"in", "out"}
    BY DEF DownloadBegins
<1>3. Job("out", t) \in Jobs /\ ex.chain \in Seq(Jobs)
    BY <1>1 DEF Job, Jobs, Kinds, ExecStates
<1>4. ex.chain \o <<Job("out", t)>> \in Seq(Jobs)
    BY <1>3
<1> QED BY <1>1, <1>2, <1>4, CopiedIs

LEMMA DownloadBeginsAnswers ==
    ASSUME AnswerInv, ~ passed', NEW t \in Threads, DownloadBegins(t)
    PROVE  AnswerInv'
<1>1. /\ ThreadTypesOK /\ QueueOK(ex) /\ IsNumber(ex, ex.ka_value,
           TRUE) /\ PlaceOK /\ EventOK /\ ~early
      /\ ex \in ExecStates /\ BytesOK /\ event \in [Threads -> [value : Nat, after : Nat]]
      /\ doing \in [Threads -> ThreadPlaces] /\ Nobody \notin Threads
    BY ThreadsAssumption DEF AnswerInv, ThreadTypesOK
<1>2. /\ HandedIn(ex, ex', ex.chain \o <<Job("out", t)>>) /\ ex.chain
           \o <<Job("out", t)>> \in Seq(Jobs)
      /\ ex'.chain = <<>> /\ ex'.stage_pend = ex.stage_pend
    BY DownloadBeginsHands
<1>3. ex.chain \o <<Job("out", t)>> \in Seq(Jobs) /\ HandedIn(ex, ex', ex.chain
        \o <<Job("out", t)>>)
    BY <1>1, <1>2 DEF ExecStates
<1>4. BytesOK'
    BY <1>1 DEF DownloadBegins, At, Goes, Unheld, Reads, IdleBegins, Marks, BytesOK
<1>5. MayMove(t, "download") /\ "download" \in ThreadPlaces
    BY <1>1, <1>2 DEF DownloadBegins, At, Goes, Unheld, Reads, IdleBegins, Marks, Waited, MayMove,
       Holding, SpinPlaces, KernelPlaces, ThreadPlaces, UnnotedSpin, PlaceOK
<1>6. event' = event /\ doing[t] # "recording"
    BY <1>2 DEF DownloadBegins, At, Goes, Unheld, Reads, IdleBegins, Marks
<1>7. event' \in [Threads -> [value : Nat, after : Nat]]
    BY <1>1, <1>6
<1>8. early' = early
    BY DEF DownloadBegins, At, Goes, Unheld, Reads, IdleBegins, Marks
<1>9. ~ Another(t, UnnotedSpin)
    BY DEF DownloadBegins, AddsWork
<1> QED BY <1>3, <1>4, <1>5, <1>6, <1>7, <1>8, <1>9, HandedStep

LEMMA DownloadEndsHands ==
    ASSUME AnswerInv, NEW t \in Threads, DownloadEnds(t)
    PROVE  HandedIn(ex, ex', <<>>) /\ ex'.queue = ex.queue /\ ex'.chain = ex.chain
<1>1. ex \in ExecStates /\ QueueOK(ex) /\ PlaceOK
    BY DEF AnswerInv, ThreadTypesOK
<1>2. PICK g : g = LetGo(ex)
    OBVIOUS
<1>3. HandedIn(ex, g, <<>>) /\ g.queue = ex.queue /\ g.chain = ex.chain /\ g.last = ex.last
    BY <1>1, <1>2, LetGoIs
<1>4. g \in ExecStates /\ ex' = [g EXCEPT !.stage_pend = 0]
    BY <1>2, <1>3 DEF DownloadEnds, Reads, HandedIn
<1>5. [g EXCEPT !.stage_pend = 0] \in ExecStates
    BY <1>4 DEF ExecStates
<1>6. ex' \in ExecStates /\ ex'.queue = g.queue /\ ex'.retired = g.retired /\ ex'.slot = g.slot
      /\ ex'.last = g.last /\ ex'.ka_value = g.ka_value /\ ex'.chain = g.chain
    BY <1>4, <1>5 DEF ExecStates
<1> QED BY <1>1, <1>3, <1>6, SameQueue DEF HandedIn

LEMMA DownloadEndsAnswers ==
    ASSUME AnswerInv, ~ passed', NEW t \in Threads, DownloadEnds(t)
    PROVE  AnswerInv'
<1>1. /\ ThreadTypesOK /\ QueueOK(ex) /\ IsNumber(ex, ex.ka_value,
           TRUE) /\ PlaceOK /\ EventOK /\ ~early
      /\ ex \in ExecStates /\ BytesOK /\ event \in [Threads -> [value : Nat, after : Nat]]
      /\ doing \in [Threads -> ThreadPlaces] /\ Nobody \notin Threads
    BY ThreadsAssumption DEF AnswerInv, ThreadTypesOK
<1>2. HandedIn(ex, ex', <<>>) /\ ex'.queue = ex.queue /\ ex'.chain = ex.chain
    BY DownloadEndsHands
<1>3. <<>> \in Seq(Jobs) /\ HandedIn(ex, ex', <<>>)
  <2>1. <<>> \in Seq(Jobs)
      BY NoJobs
  <2> QED BY <1>2, <2>1
<1>4. BytesOK'
    BY <1>1 DEF DownloadEnds, At, Goes, Unheld, Reads, IdleBegins, Marks, BytesOK
<1>5. MayMove(t, "idled") /\ "idled" \in ThreadPlaces
    BY <1>1, <1>2 DEF DownloadEnds, At, Goes, Unheld, Reads, IdleBegins, Marks, Waited, MayMove,
       Holding, SpinPlaces, KernelPlaces, ThreadPlaces, UnnotedSpin, PlaceOK
<1>6. event' = event /\ doing[t] # "recording"
    BY <1>2 DEF DownloadEnds, At, Goes, Unheld, Reads, IdleBegins, Marks
<1>7. event' \in [Threads -> [value : Nat, after : Nat]]
    BY <1>1, <1>6
<1>8. early' = early
    BY DEF DownloadEnds, At, Goes, Unheld, Reads, IdleBegins, Marks
<1>9. StillSpins
    BY <1>1, <1>2, SpinsQuiet
<1> QED BY <1>3, <1>4, <1>5, <1>6, <1>7, <1>8, <1>9, HandedStep

LEMMA ClaimStageHands ==
    ASSUME AnswerInv, NEW t \in Threads, ClaimStage(t)
    PROVE  /\ HandedIn(ex, ex', <<>>) /\ ex'.queue = ex.queue
           /\ ex'.chain = ex.chain /\ ex'.stage_pend = 0
<1>1. ex \in ExecStates /\ QueueOK(ex) /\ PlaceOK
    BY DEF AnswerInv, ThreadTypesOK
<1>2. ex' = Claimed(ex)
    BY DEF ClaimStage, At, Goes, Unheld, Reads, IdleBegins, Marks, HandedOver
<1> QED BY <1>1, <1>2, ClaimedIs

LEMMA ClaimStageAnswers ==
    ASSUME AnswerInv, ~ passed', NEW t \in Threads, ClaimStage(t)
    PROVE  AnswerInv'
<1>1. /\ ThreadTypesOK /\ QueueOK(ex) /\ IsNumber(ex, ex.ka_value,
           TRUE) /\ PlaceOK /\ EventOK /\ ~early
      /\ ex \in ExecStates /\ BytesOK /\ event \in [Threads -> [value : Nat, after : Nat]]
      /\ doing \in [Threads -> ThreadPlaces] /\ Nobody \notin Threads
    BY ThreadsAssumption DEF AnswerInv, ThreadTypesOK
<1>2. /\ HandedIn(ex, ex', <<>>) /\ ex'.queue = ex.queue
      /\ ex'.chain = ex.chain /\ ex'.stage_pend = 0
    BY ClaimStageHands
<1>3. <<>> \in Seq(Jobs) /\ HandedIn(ex, ex', <<>>)
  <2>1. <<>> \in Seq(Jobs)
      BY NoJobs
  <2> QED BY <1>2, <2>1
<1>4. BytesOK'
    BY <1>1 DEF ClaimStage, At, Goes, Unheld, Reads, IdleBegins, Marks, BytesOK
<1>5. MayMove(t, "claimed") /\ "claimed" \in ThreadPlaces
    BY <1>1, <1>2 DEF ClaimStage, At, Goes, Unheld, Reads, IdleBegins, Marks, Waited, MayMove,
       Holding, SpinPlaces, KernelPlaces, ThreadPlaces, UnnotedSpin, PlaceOK
<1>6. event' = event /\ doing[t] # "recording"
    BY <1>2 DEF ClaimStage, At, Goes, Unheld, Reads, IdleBegins, Marks
<1>7. event' \in [Threads -> [value : Nat, after : Nat]]
    BY <1>1, <1>6
<1>8. early' = early
    BY DEF ClaimStage, At, Goes, Unheld, Reads, IdleBegins, Marks
<1>9. StillSpins
    BY <1>1, <1>2, SpinsQuiet
<1> QED BY <1>3, <1>4, <1>5, <1>6, <1>7, <1>8, <1>9, HandedStep

LEMMA LaunchOutHands ==
    ASSUME AnswerInv, NEW t \in Threads, LaunchOut(t)
    PROVE  /\ HandedIn(ex, ex', <<>>) /\ ex'.queue = ex.queue /\ ex'.stage_pend = ex.stage_pend
           /\ ex'.chain = Append(ex.chain, Job("out by kernel", t)) /\ ex'.chain # <<>>
           /\ ex'.chain[Len(ex'.chain)] = Job("out by kernel", t) /\ Job("out by kernel",
                t).kind = "out by kernel"
<1>1. ex \in ExecStates /\ QueueOK(ex) /\ PlaceOK
    BY DEF AnswerInv, ThreadTypesOK
<1>2. Job("out by kernel", t) \in Jobs /\ Job("out by kernel", t).kind = "out by kernel"
    BY DEF Job, Jobs, Kinds
<1>3. PICK c : c = Append(ex.chain, Job("out by kernel", t))
    OBVIOUS
<1>4. c \in Seq(Jobs) /\ c # <<>> /\ c[Len(c)] = Job("out by kernel", t)
  <2>1. ex.chain \in Seq(Jobs)
      BY <1>1 DEF ExecStates
  <2>2. PICK j \in Jobs : j = Job("out by kernel", t)
      BY <1>2
  <2>3. c = Append(ex.chain, j)
      BY <1>3, <2>2
  <2>4. c \in Seq(Jobs) /\ c # <<>> /\ c[Len(c)] = j
      BY <2>1, <2>3, AppendEnds
  <2> QED BY <2>2, <2>4
<1>5. ex' = [ex EXCEPT !.chain = c]
    BY <1>1, <1>3 DEF LaunchOut, ExecStates
<1>6. [ex EXCEPT !.chain = c] \in ExecStates
    BY <1>1, <1>4 DEF ExecStates
<1>7. /\ ex' \in ExecStates /\ ex'.queue = ex.queue /\ ex'.retired = ex.retired /\ ex'.slot = ex.slot
      /\ ex'.last = ex.last /\ ex'.ka_value = ex.ka_value /\ ex'.chain = c
      /\ ex'.stage_pend = ex.stage_pend
    BY <1>1, <1>5, <1>6 DEF ExecStates
<1> QED BY <1>1, <1>2, <1>3, <1>4, <1>7, SameQueue

LEMMA LaunchOutAnswers ==
    ASSUME AnswerInv, ~ passed', NEW t \in Threads, LaunchOut(t)
    PROVE  AnswerInv'
<1>1. /\ ThreadTypesOK /\ QueueOK(ex) /\ IsNumber(ex, ex.ka_value,
           TRUE) /\ PlaceOK /\ EventOK /\ ~early
      /\ ex \in ExecStates /\ BytesOK /\ event \in [Threads -> [value : Nat, after : Nat]]
      /\ doing \in [Threads -> ThreadPlaces] /\ Nobody \notin Threads
    BY ThreadsAssumption DEF AnswerInv, ThreadTypesOK
<1>2. /\ HandedIn(ex, ex', <<>>) /\ ex'.queue = ex.queue /\ ex'.stage_pend = ex.stage_pend
      /\ ex'.chain = Append(ex.chain, Job("out by kernel", t)) /\ ex'.chain # <<>>
      /\ ex'.chain[Len(ex'.chain)] = Job("out by kernel", t) /\ Job("out by kernel",
           t).kind = "out by kernel"
    BY LaunchOutHands
<1>3. <<>> \in Seq(Jobs) /\ HandedIn(ex, ex', <<>>)
  <2>1. <<>> \in Seq(Jobs)
      BY NoJobs
  <2> QED BY <1>2, <2>1
<1>4. BytesOK'
    BY <1>1 DEF LaunchOut, At, Goes, Unheld, Reads, IdleBegins, Marks, BytesOK
<1>5. MayMove(t, "launched out") /\ "launched out" \in ThreadPlaces
    BY <1>1, <1>2 DEF LaunchOut, At, Goes, Unheld, Reads, IdleBegins, Marks, Waited, MayMove,
       Holding, SpinPlaces, KernelPlaces, ThreadPlaces, UnnotedSpin, PlaceOK
<1>6. event' = event /\ doing[t] # "recording"
    BY <1>2 DEF LaunchOut, At, Goes, Unheld, Reads, IdleBegins, Marks
<1>7. event' \in [Threads -> [value : Nat, after : Nat]]
    BY <1>1, <1>6
<1>8. early' = early
    BY DEF LaunchOut, At, Goes, Unheld, Reads, IdleBegins, Marks
<1>9. ~ Another(t, UnnotedSpin)
    BY DEF LaunchOut, AddsWork
<1> QED BY <1>3, <1>4, <1>5, <1>6, <1>7, <1>8, <1>9, HandedStep

LEMMA KernelIdleHands ==
    ASSUME AnswerInv, NEW t \in Threads, KernelIdle(t)
    PROVE  HandedIn(ex, ex', ex.chain) /\ ex'.chain = <<>> /\ ex'.stage_pend = ex.stage_pend
<1>1. ex \in ExecStates /\ QueueOK(ex) /\ PlaceOK
    BY DEF AnswerInv, ThreadTypesOK
<1>2. ex' = Flushed(ex)
    BY DEF KernelIdle, At, Goes, Unheld, Reads, IdleBegins, Marks, HandedOver
<1> QED BY <1>1, <1>2, FlushedIs

LEMMA KernelIdleAnswers ==
    ASSUME AnswerInv, ~ passed', NEW t \in Threads, KernelIdle(t)
    PROVE  AnswerInv'
<1>1. /\ ThreadTypesOK /\ QueueOK(ex) /\ IsNumber(ex, ex.ka_value,
           TRUE) /\ PlaceOK /\ EventOK /\ ~early
      /\ ex \in ExecStates /\ BytesOK /\ event \in [Threads -> [value : Nat, after : Nat]]
      /\ doing \in [Threads -> ThreadPlaces] /\ Nobody \notin Threads
    BY ThreadsAssumption DEF AnswerInv, ThreadTypesOK
<1>2. HandedIn(ex, ex', ex.chain) /\ ex'.chain = <<>> /\ ex'.stage_pend = ex.stage_pend
    BY KernelIdleHands
<1>3. ex.chain \in Seq(Jobs) /\ HandedIn(ex, ex', ex.chain)
    BY <1>1, <1>2 DEF ExecStates
<1>4. BytesOK'
    BY <1>1 DEF KernelIdle, At, Goes, Unheld, Reads, IdleBegins, Marks, BytesOK
<1>5. MayMove(t, "idling out") /\ "idling out" \in ThreadPlaces
    BY <1>1, <1>2 DEF KernelIdle, At, Goes, Unheld, Reads, IdleBegins, Marks, Waited, MayMove,
       Holding, SpinPlaces, KernelPlaces, ThreadPlaces, UnnotedSpin, PlaceOK
<1>6. event' = event /\ doing[t] # "recording"
    BY <1>2 DEF KernelIdle, At, Goes, Unheld, Reads, IdleBegins, Marks
<1>7. event' \in [Threads -> [value : Nat, after : Nat]]
    BY <1>1, <1>6
<1>8. early' = early
    BY DEF KernelIdle, At, Goes, Unheld, Reads, IdleBegins, Marks
<1>9. StillSpins
    BY <1>1, <1>2, SpinsFlushed
<1> QED BY <1>3, <1>4, <1>5, <1>6, <1>7, <1>8, <1>9, HandedStep

LEMMA KernelIdledHands ==
    ASSUME AnswerInv, NEW t \in Threads, KernelIdled(t)
    PROVE  /\ HandedIn(ex, ex', <<>>) /\ ex'.queue = ex.queue
           /\ ex'.chain = ex.chain /\ ex'.stage_pend = ex.stage_pend
<1>1. ex \in ExecStates /\ QueueOK(ex) /\ PlaceOK
    BY DEF AnswerInv, ThreadTypesOK
<1>2. ex' = LetGo(ex)
    BY DEF KernelIdled, At, Goes, Unheld, Reads, IdleBegins, Marks, HandedOver
<1> QED BY <1>1, <1>2, LetGoIs

LEMMA KernelIdledAnswers ==
    ASSUME AnswerInv, ~ passed', NEW t \in Threads, KernelIdled(t)
    PROVE  AnswerInv'
<1>1. /\ ThreadTypesOK /\ QueueOK(ex) /\ IsNumber(ex, ex.ka_value,
           TRUE) /\ PlaceOK /\ EventOK /\ ~early
      /\ ex \in ExecStates /\ BytesOK /\ event \in [Threads -> [value : Nat, after : Nat]]
      /\ doing \in [Threads -> ThreadPlaces] /\ Nobody \notin Threads
    BY ThreadsAssumption DEF AnswerInv, ThreadTypesOK
<1>2. /\ HandedIn(ex, ex', <<>>) /\ ex'.queue = ex.queue
      /\ ex'.chain = ex.chain /\ ex'.stage_pend = ex.stage_pend
    BY KernelIdledHands
<1>3. <<>> \in Seq(Jobs) /\ HandedIn(ex, ex', <<>>)
  <2>1. <<>> \in Seq(Jobs)
      BY NoJobs
  <2> QED BY <1>2, <2>1
<1>4. BytesOK'
    BY <1>1 DEF KernelIdled, At, Goes, Unheld, Reads, IdleBegins, Marks, BytesOK
<1>5. MayMove(t, "reading out") /\ "reading out" \in ThreadPlaces
    BY <1>1, <1>2 DEF KernelIdled, At, Goes, Unheld, Reads, IdleBegins, Marks, Waited, MayMove,
       Holding, SpinPlaces, KernelPlaces, ThreadPlaces, UnnotedSpin, PlaceOK
<1>6. event' = event /\ doing[t] # "recording"
    BY <1>2 DEF KernelIdled, At, Goes, Unheld, Reads, IdleBegins, Marks
<1>7. event' \in [Threads -> [value : Nat, after : Nat]]
    BY <1>1, <1>6
<1>8. early' = early
    BY DEF KernelIdled, At, Goes, Unheld, Reads, IdleBegins, Marks
<1>9. StillSpins
    BY <1>1, <1>2, SpinsQuiet
<1> QED BY <1>3, <1>4, <1>5, <1>6, <1>7, <1>8, <1>9, HandedStep

LEMMA ReadStageAnswers ==
    ASSUME AnswerInv, ~ passed', NEW t \in Threads, ReadStage(t)
    PROVE  AnswerInv'
<1>1. /\ ThreadTypesOK /\ QueueOK(ex) /\ IsNumber(ex, ex.ka_value,
           TRUE) /\ PlaceOK /\ EventOK /\ ~early
      /\ ex \in ExecStates /\ BytesOK /\ event \in [Threads -> [value : Nat, after : Nat]]
      /\ doing \in [Threads -> ThreadPlaces] /\ Nobody \notin Threads
    BY ThreadsAssumption DEF AnswerInv, ThreadTypesOK
<1>2. HandedIn(ex, ex', <<>>) /\ ex'.chain = ex.chain
    BY <1>1, SameQueue DEF ReadStage, At, Goes, Unheld, Reads, IdleBegins, Marks
<1>3. <<>> \in Seq(Jobs) /\ HandedIn(ex, ex', <<>>)
  <2>1. <<>> \in Seq(Jobs)
      BY NoJobs
  <2> QED BY <1>2, <2>1
<1>4. BytesOK'
    BY <1>1 DEF ReadStage, At, Goes, Unheld, Reads, IdleBegins, Marks, BytesOK
<1>5. MayMove(t, "idled") /\ "idled" \in ThreadPlaces
    BY <1>1, <1>2 DEF ReadStage, At, Goes, Unheld, Reads, IdleBegins, Marks, Waited, MayMove,
       Holding, SpinPlaces, KernelPlaces, ThreadPlaces, UnnotedSpin, PlaceOK
<1>6. event' = event /\ doing[t] # "recording"
    BY <1>2 DEF ReadStage, At, Goes, Unheld, Reads, IdleBegins, Marks
<1>7. event' \in [Threads -> [value : Nat, after : Nat]]
    BY <1>1, <1>6
<1>8. early' = early
    BY DEF ReadStage, At, Goes, Unheld, Reads, IdleBegins, Marks
<1>9. StillSpins
    BY <1>1, <1>2, SpinsQuiet
<1> QED BY <1>3, <1>4, <1>5, <1>6, <1>7, <1>8, <1>9, HandedStep

LEMMA SyncBeginsHands ==
    ASSUME AnswerInv, NEW t \in Threads, SyncBegins(t)
    PROVE  HandedIn(ex, ex', ex.chain) /\ ex'.chain = <<>> /\ ex'.stage_pend = ex.stage_pend
<1>1. ex \in ExecStates /\ QueueOK(ex) /\ PlaceOK
    BY DEF AnswerInv, ThreadTypesOK
<1>2. ex' = Flushed(ex)
    BY DEF SyncBegins, At, Goes, Unheld, Reads, IdleBegins, Marks, HandedOver
<1> QED BY <1>1, <1>2, FlushedIs

LEMMA SyncBeginsAnswers ==
    ASSUME AnswerInv, ~ passed', NEW t \in Threads, SyncBegins(t)
    PROVE  AnswerInv'
<1>1. /\ ThreadTypesOK /\ QueueOK(ex) /\ IsNumber(ex, ex.ka_value,
           TRUE) /\ PlaceOK /\ EventOK /\ ~early
      /\ ex \in ExecStates /\ BytesOK /\ event \in [Threads -> [value : Nat, after : Nat]]
      /\ doing \in [Threads -> ThreadPlaces] /\ Nobody \notin Threads
    BY ThreadsAssumption DEF AnswerInv, ThreadTypesOK
<1>2. HandedIn(ex, ex', ex.chain) /\ ex'.chain = <<>> /\ ex'.stage_pend = ex.stage_pend
    BY SyncBeginsHands
<1>3. ex.chain \in Seq(Jobs) /\ HandedIn(ex, ex', ex.chain)
    BY <1>1, <1>2 DEF ExecStates
<1>4. BytesOK'
    BY <1>1 DEF SyncBegins, At, Goes, Unheld, Reads, IdleBegins, Marks, BytesOK
<1>5. MayMove(t, "syncing") /\ "syncing" \in ThreadPlaces
    BY <1>1, <1>2 DEF SyncBegins, At, Goes, Unheld, Reads, IdleBegins, Marks, Waited, MayMove,
       Holding, SpinPlaces, KernelPlaces, ThreadPlaces, UnnotedSpin, PlaceOK
<1>6. event' = event /\ doing[t] # "recording"
    BY <1>2 DEF SyncBegins, At, Goes, Unheld, Reads, IdleBegins, Marks
<1>7. event' \in [Threads -> [value : Nat, after : Nat]]
    BY <1>1, <1>6
<1>8. early' = early
    BY DEF SyncBegins, At, Goes, Unheld, Reads, IdleBegins, Marks
<1>9. StillSpins
    BY <1>1, <1>2, SpinsFlushed
<1> QED BY <1>3, <1>4, <1>5, <1>6, <1>7, <1>8, <1>9, HandedStep

LEMMA SyncEndsHands ==
    ASSUME AnswerInv, NEW t \in Threads, SyncEnds(t)
    PROVE  /\ HandedIn(ex, ex', <<>>) /\ ex'.queue = ex.queue
           /\ ex'.chain = ex.chain /\ ex'.stage_pend = ex.stage_pend
<1>1. ex \in ExecStates /\ QueueOK(ex) /\ PlaceOK
    BY DEF AnswerInv, ThreadTypesOK
<1>2. ex' = LetGo(ex)
    BY DEF SyncEnds, At, Goes, Unheld, Reads, IdleBegins, Marks, HandedOver
<1> QED BY <1>1, <1>2, LetGoIs

LEMMA SyncEndsAnswers ==
    ASSUME AnswerInv, ~ passed', NEW t \in Threads, SyncEnds(t)
    PROVE  AnswerInv'
<1>1. /\ ThreadTypesOK /\ QueueOK(ex) /\ IsNumber(ex, ex.ka_value,
           TRUE) /\ PlaceOK /\ EventOK /\ ~early
      /\ ex \in ExecStates /\ BytesOK /\ event \in [Threads -> [value : Nat, after : Nat]]
      /\ doing \in [Threads -> ThreadPlaces] /\ Nobody \notin Threads
    BY ThreadsAssumption DEF AnswerInv, ThreadTypesOK
<1>2. /\ HandedIn(ex, ex', <<>>) /\ ex'.queue = ex.queue
      /\ ex'.chain = ex.chain /\ ex'.stage_pend = ex.stage_pend
    BY SyncEndsHands
<1>3. <<>> \in Seq(Jobs) /\ HandedIn(ex, ex', <<>>)
  <2>1. <<>> \in Seq(Jobs)
      BY NoJobs
  <2> QED BY <1>2, <2>1
<1>4. BytesOK'
    BY <1>1 DEF SyncEnds, At, Goes, Unheld, Reads, IdleBegins, Marks, BytesOK
<1>5. MayMove(t, "idled") /\ "idled" \in ThreadPlaces
    BY <1>1, <1>2 DEF SyncEnds, At, Goes, Unheld, Reads, IdleBegins, Marks, Waited, MayMove,
       Holding, SpinPlaces, KernelPlaces, ThreadPlaces, UnnotedSpin, PlaceOK
<1>6. event' = event /\ doing[t] # "recording"
    BY <1>2 DEF SyncEnds, At, Goes, Unheld, Reads, IdleBegins, Marks
<1>7. event' \in [Threads -> [value : Nat, after : Nat]]
    BY <1>1, <1>6
<1>8. early' = early
  <2>1. PICK n : n = OwnWork(ex, t)
      OBVIOUS
  <2>2. ex.chain = <<>> /\ \A i \in 1 .. Len(ex.queue) : ex.queue[i].kind = "spin"
      BY AllDone DEF SyncEnds
  <2>3. ex.queue \o ex.chain = ex.queue
      BY <1>1, <2>2 DEF ExecStates
  <2>4. ~ (n > ex.retired)
      BY <1>1, <2>1, <2>2, <2>3, OwnWorkIs
  <2>5. early' = (early \/ n > ex.retired)
      BY <2>1 DEF SyncEnds
  <2>6. early \in BOOLEAN
      BY <1>1 DEF ThreadTypesOK
  <2> QED BY <2>4, <2>5, <2>6, Zenon
<1>9. StillSpins
    BY <1>1, <1>2, SpinsQuiet
<1> QED BY <1>3, <1>4, <1>5, <1>6, <1>7, <1>8, <1>9, HandedStep

LEMMA NoSpinAnswers ==
    ASSUME AnswerInv, ~ passed', NEW t \in Threads, NoSpin(t)
    PROVE  AnswerInv'
<1>1. /\ ThreadTypesOK /\ QueueOK(ex) /\ IsNumber(ex, ex.ka_value,
           TRUE) /\ PlaceOK /\ EventOK /\ ~early
      /\ ex \in ExecStates /\ BytesOK /\ event \in [Threads -> [value : Nat, after : Nat]]
      /\ doing \in [Threads -> ThreadPlaces] /\ Nobody \notin Threads
    BY ThreadsAssumption DEF AnswerInv, ThreadTypesOK
<1>2. HandedIn(ex, ex', <<>>) /\ ex'.chain = ex.chain
    BY <1>1, SameQueue DEF NoSpin, At, Goes, Unheld, Reads, IdleBegins, Marks
<1>3. <<>> \in Seq(Jobs) /\ HandedIn(ex, ex', <<>>)
  <2>1. <<>> \in Seq(Jobs)
      BY NoJobs
  <2> QED BY <1>2, <2>1
<1>4. BytesOK'
    BY <1>1 DEF NoSpin, At, Goes, Unheld, Reads, IdleBegins, Marks, BytesOK
<1>5. MayMove(t, "nothing") /\ "nothing" \in ThreadPlaces
    BY <1>1, <1>2 DEF NoSpin, At, Goes, Unheld, Reads, IdleBegins, Marks, Waited, MayMove, Holding,
       SpinPlaces, KernelPlaces, ThreadPlaces, UnnotedSpin, PlaceOK
<1>6. event' = event /\ doing[t] # "recording"
    BY <1>2 DEF NoSpin, At, Goes, Unheld, Reads, IdleBegins, Marks
<1>7. event' \in [Threads -> [value : Nat, after : Nat]]
    BY <1>1, <1>6
<1>8. early' = early
    BY DEF NoSpin, At, Goes, Unheld, Reads, IdleBegins, Marks
<1>9. StillSpins
    BY <1>1, <1>2, SpinsQuiet
<1> QED BY <1>3, <1>4, <1>5, <1>6, <1>7, <1>8, <1>9, HandedStep

LEMMA ArmSpinHands ==
    ASSUME AnswerInv, NEW t \in Threads, ArmSpin(t)
    PROVE  /\ HandedIn(ex, ex', <<>>) /\ ex'.queue = ex.queue
           /\ ex'.chain = ex.chain /\ ex'.stage_pend = ex.stage_pend
<1>1. ex \in ExecStates /\ QueueOK(ex) /\ PlaceOK
    BY DEF AnswerInv, ThreadTypesOK
<1>2. ex' = [ex EXCEPT !.ka_pending = TRUE, !.launches = 0]
    BY DEF ArmSpin
<1>3. [ex EXCEPT !.ka_pending = TRUE, !.launches = 0] \in ExecStates
    BY <1>1 DEF ExecStates
<1>4. ex' \in ExecStates /\ ex'.queue = ex.queue /\ ex'.retired = ex.retired /\ ex'.slot = ex.slot
      /\ ex'.last = ex.last /\ ex'.ka_value = ex.ka_value /\ ex'.chain = ex.chain
      /\ ex'.stage_pend = ex.stage_pend
    BY <1>1, <1>2, <1>3 DEF ExecStates
<1> QED BY <1>1, <1>4, SameQueue

LEMMA ArmSpinAnswers ==
    ASSUME AnswerInv, ~ passed', NEW t \in Threads, ArmSpin(t)
    PROVE  AnswerInv'
<1>1. /\ ThreadTypesOK /\ QueueOK(ex) /\ IsNumber(ex, ex.ka_value,
           TRUE) /\ PlaceOK /\ EventOK /\ ~early
      /\ ex \in ExecStates /\ BytesOK /\ event \in [Threads -> [value : Nat, after : Nat]]
      /\ doing \in [Threads -> ThreadPlaces] /\ Nobody \notin Threads
    BY ThreadsAssumption DEF AnswerInv, ThreadTypesOK
<1>2. /\ HandedIn(ex, ex', <<>>) /\ ex'.queue = ex.queue
      /\ ex'.chain = ex.chain /\ ex'.stage_pend = ex.stage_pend
    BY ArmSpinHands
<1>3. <<>> \in Seq(Jobs) /\ HandedIn(ex, ex', <<>>)
  <2>1. <<>> \in Seq(Jobs)
      BY NoJobs
  <2> QED BY <1>2, <2>1
<1>4. BytesOK'
    BY <1>1 DEF ArmSpin, At, Goes, Unheld, Reads, IdleBegins, Marks, BytesOK
<1>5. MayMove(t, "armed") /\ "armed" \in ThreadPlaces
    BY <1>1, <1>2 DEF ArmSpin, At, Goes, Unheld, Reads, IdleBegins, Marks, Waited, MayMove, Holding,
       SpinPlaces, KernelPlaces, ThreadPlaces, UnnotedSpin, PlaceOK
<1>6. event' = event /\ doing[t] # "recording"
    BY <1>2 DEF ArmSpin, At, Goes, Unheld, Reads, IdleBegins, Marks
<1>7. event' \in [Threads -> [value : Nat, after : Nat]]
    BY <1>1, <1>6
<1>8. early' = early
    BY DEF ArmSpin, At, Goes, Unheld, Reads, IdleBegins, Marks
<1>9. StillSpins
    BY <1>1, <1>2, SpinsQuiet
<1> QED BY <1>3, <1>4, <1>5, <1>6, <1>7, <1>8, <1>9, HandedStep

LEMMA LaunchSpinHands ==
    ASSUME AnswerInv, NEW t \in Threads, LaunchSpin(t)
    PROVE  /\ HandedIn(ex, ex', <<>>) /\ ex'.queue = ex.queue /\ ex'.stage_pend = ex.stage_pend
           /\ ex'.chain = Append(ex.chain, Job("spin", t)) /\ ex'.chain # <<>>
           /\ ex'.chain[Len(ex'.chain)] = Job("spin", t) /\ Job("spin", t).kind = "spin"
<1>1. ex \in ExecStates /\ QueueOK(ex) /\ PlaceOK
    BY DEF AnswerInv, ThreadTypesOK
<1>2. Job("spin", t) \in Jobs /\ Job("spin", t).kind = "spin"
    BY DEF Job, Jobs, Kinds
<1>3. PICK c : c = Append(ex.chain, Job("spin", t))
    OBVIOUS
<1>4. c \in Seq(Jobs) /\ c # <<>> /\ c[Len(c)] = Job("spin", t)
  <2>1. ex.chain \in Seq(Jobs)
      BY <1>1 DEF ExecStates
  <2>2. PICK j \in Jobs : j = Job("spin", t)
      BY <1>2
  <2>3. c = Append(ex.chain, j)
      BY <1>3, <2>2
  <2>4. c \in Seq(Jobs) /\ c # <<>> /\ c[Len(c)] = j
      BY <2>1, <2>3, AppendEnds
  <2> QED BY <2>2, <2>4
<1>5. ex' = [ex EXCEPT !.chain = c]
    BY <1>1, <1>3 DEF LaunchSpin, ExecStates
<1>6. [ex EXCEPT !.chain = c] \in ExecStates
    BY <1>1, <1>4 DEF ExecStates
<1>7. /\ ex' \in ExecStates /\ ex'.queue = ex.queue /\ ex'.retired = ex.retired /\ ex'.slot = ex.slot
      /\ ex'.last = ex.last /\ ex'.ka_value = ex.ka_value /\ ex'.chain = c
      /\ ex'.stage_pend = ex.stage_pend
    BY <1>1, <1>5, <1>6 DEF ExecStates
<1> QED BY <1>1, <1>2, <1>3, <1>4, <1>7, SameQueue

LEMMA LaunchSpinAnswers ==
    ASSUME AnswerInv, ~ passed', NEW t \in Threads, LaunchSpin(t)
    PROVE  AnswerInv'
<1>1. /\ ThreadTypesOK /\ QueueOK(ex) /\ IsNumber(ex, ex.ka_value,
           TRUE) /\ PlaceOK /\ EventOK /\ ~early
      /\ ex \in ExecStates /\ BytesOK /\ event \in [Threads -> [value : Nat, after : Nat]]
      /\ doing \in [Threads -> ThreadPlaces] /\ Nobody \notin Threads
    BY ThreadsAssumption DEF AnswerInv, ThreadTypesOK
<1>2. /\ HandedIn(ex, ex', <<>>) /\ ex'.queue = ex.queue /\ ex'.stage_pend = ex.stage_pend
      /\ ex'.chain = Append(ex.chain, Job("spin", t)) /\ ex'.chain # <<>>
      /\ ex'.chain[Len(ex'.chain)] = Job("spin", t) /\ Job("spin", t).kind = "spin"
    BY LaunchSpinHands
<1>3. <<>> \in Seq(Jobs) /\ HandedIn(ex, ex', <<>>)
  <2>1. <<>> \in Seq(Jobs)
      BY NoJobs
  <2> QED BY <1>2, <2>1
<1>4. BytesOK'
    BY <1>1 DEF LaunchSpin, At, Goes, Unheld, Reads, IdleBegins, Marks, BytesOK
<1>5. MayMove(t, "launched spin") /\ "launched spin" \in ThreadPlaces
    BY <1>1, <1>2 DEF LaunchSpin, At, Goes, Unheld, Reads, IdleBegins, Marks, Waited, MayMove,
       Holding, SpinPlaces, KernelPlaces, ThreadPlaces, UnnotedSpin, PlaceOK, BehindSpin
<1>6. event' = event /\ doing[t] # "recording"
    BY <1>2 DEF LaunchSpin, At, Goes, Unheld, Reads, IdleBegins, Marks
<1>7. event' \in [Threads -> [value : Nat, after : Nat]]
    BY <1>1, <1>6
<1>8. early' = early
    BY DEF LaunchSpin, At, Goes, Unheld, Reads, IdleBegins, Marks
<1>9. ~ Another(t, UnnotedSpin)
    BY DEF LaunchSpin, AddsWork
<1> QED BY <1>3, <1>4, <1>5, <1>6, <1>7, <1>8, <1>9, HandedStep

LEMMA FlushSpinHands ==
    ASSUME AnswerInv, NEW t \in Threads, FlushSpin(t)
    PROVE  /\ HandedIn(ex, ex', ex.chain) /\ ex'.chain = <<>> /\ ex'.stage_pend = ex.stage_pend
           /\ BehindSpin(ex')
<1>1. ex \in ExecStates /\ QueueOK(ex) /\ PlaceOK
    BY DEF AnswerInv, ThreadTypesOK
<1>2. ex' = Flushed(ex) /\ doing[t] \in UnnotedSpin
    BY DEF FlushSpin, At, UnnotedSpin
<1>3. HandedIn(ex, ex', ex.chain) /\ ex'.chain = <<>> /\ ex'.stage_pend = ex.stage_pend
    BY <1>1, <1>2, FlushedIs
<1>4. StillSpins
    BY <1>1, <1>3, SpinsFlushed
<1> QED BY <1>1, <1>2, <1>3, <1>4 DEF StillSpins, PlaceOK

LEMMA FlushSpinAnswers ==
    ASSUME AnswerInv, ~ passed', NEW t \in Threads, FlushSpin(t)
    PROVE  AnswerInv'
<1>1. /\ ThreadTypesOK /\ QueueOK(ex) /\ IsNumber(ex, ex.ka_value,
           TRUE) /\ PlaceOK /\ EventOK /\ ~early
      /\ ex \in ExecStates /\ BytesOK /\ event \in [Threads -> [value : Nat, after : Nat]]
      /\ doing \in [Threads -> ThreadPlaces] /\ Nobody \notin Threads
    BY ThreadsAssumption DEF AnswerInv, ThreadTypesOK
<1>2. /\ HandedIn(ex, ex', ex.chain) /\ ex'.chain = <<>> /\ ex'.stage_pend = ex.stage_pend
      /\ BehindSpin(ex')
    BY FlushSpinHands
<1>3. ex.chain \in Seq(Jobs) /\ HandedIn(ex, ex', ex.chain)
    BY <1>1, <1>2 DEF ExecStates
<1>4. BytesOK'
    BY <1>1 DEF FlushSpin, At, Goes, Unheld, Reads, IdleBegins, Marks, BytesOK
<1>5. MayMove(t, "flushed spin") /\ "flushed spin" \in ThreadPlaces
    BY <1>1, <1>2 DEF FlushSpin, At, Goes, Unheld, Reads, IdleBegins, Marks, Waited, MayMove,
       Holding, SpinPlaces, KernelPlaces, ThreadPlaces, UnnotedSpin, PlaceOK
<1>6. event' = event /\ doing[t] # "recording"
    BY <1>2 DEF FlushSpin, At, Goes, Unheld, Reads, IdleBegins, Marks
<1>7. event' \in [Threads -> [value : Nat, after : Nat]]
    BY <1>1, <1>6
<1>8. early' = early
    BY DEF FlushSpin, At, Goes, Unheld, Reads, IdleBegins, Marks
<1>9. StillSpins
    BY <1>1, <1>2, SpinsFlushed
<1> QED BY <1>3, <1>4, <1>5, <1>6, <1>7, <1>8, <1>9, HandedStep

LEMMA MarksHands ==
    ASSUME AnswerInv, NEW t \in Threads, NEW from, NEW to, NEW on \in BOOLEAN,
           Marks(t, from, on, to)
    PROVE  /\ HandedIn(ex, ex', <<>>) /\ ex'.queue = ex.queue
           /\ ex'.chain = ex.chain /\ ex'.stage_pend = ex.stage_pend
<1>1. ex \in ExecStates /\ QueueOK(ex) /\ PlaceOK
    BY DEF AnswerInv, ThreadTypesOK
<1>2. ex' = [ex EXCEPT !.internal = on]
    BY DEF Marks
<1>3. [ex EXCEPT !.internal = on] \in ExecStates
    BY <1>1 DEF ExecStates
<1>4. ex' \in ExecStates /\ ex'.queue = ex.queue /\ ex'.retired = ex.retired /\ ex'.slot = ex.slot
      /\ ex'.last = ex.last /\ ex'.ka_value = ex.ka_value /\ ex'.chain = ex.chain
      /\ ex'.stage_pend = ex.stage_pend
    BY <1>1, <1>2, <1>3 DEF ExecStates
<1> QED BY <1>1, <1>4, SameQueue

LEMMA MarksAnswers ==
    ASSUME AnswerInv, ~ passed', NEW t \in Threads, NEW from, NEW to \in ThreadPlaces,
           NEW on \in BOOLEAN, from \notin Holding, to \notin Holding, from # "recording",
              to # "recording",
           from # "nothing", to \notin UnnotedSpin,
           to \in SpinPlaces => from \in SpinPlaces, to \in KernelPlaces => from \in KernelPlaces,
              Marks(t, from, on, to)
    PROVE  AnswerInv'
<1>1. /\ ThreadTypesOK /\ QueueOK(ex) /\ IsNumber(ex, ex.ka_value,
           TRUE) /\ PlaceOK /\ EventOK /\ ~early
      /\ ex \in ExecStates /\ BytesOK /\ event \in [Threads -> [value : Nat, after : Nat]]
      /\ doing \in [Threads -> ThreadPlaces] /\ Nobody \notin Threads
    BY ThreadsAssumption DEF AnswerInv, ThreadTypesOK
<1>2. /\ HandedIn(ex, ex', <<>>) /\ ex'.queue = ex.queue
      /\ ex'.chain = ex.chain /\ ex'.stage_pend = ex.stage_pend
    BY MarksHands
<1>3. <<>> \in Seq(Jobs) /\ HandedIn(ex, ex', <<>>)
  <2>1. <<>> \in Seq(Jobs)
      BY NoJobs
  <2> QED BY <1>2, <2>1
<1>4. BytesOK'
    BY <1>1 DEF Marks, At, Goes, Unheld, Reads, IdleBegins, Marks, BytesOK
<1>5. MayMove(t, to) /\ to \in ThreadPlaces
    BY <1>1, <1>2 DEF Marks, At, Goes, Unheld, Reads, IdleBegins, Marks, Waited, MayMove, PlaceOK,
       Holding, UnnotedSpin
<1>6. event' = event /\ doing[t] # "recording"
    BY <1>2 DEF Marks, At, Goes, Unheld, Reads, IdleBegins, Marks
<1>7. event' \in [Threads -> [value : Nat, after : Nat]]
    BY <1>1, <1>6
<1>8. early' = early
    BY DEF Marks, At, Goes, Unheld, Reads, IdleBegins, Marks
<1>9. StillSpins
    BY <1>1, <1>2, SpinsQuiet
<1> QED BY <1>3, <1>4, <1>5, <1>6, <1>7, <1>8, <1>9, HandedStep

LEMMA SetInternalAnswers ==
    ASSUME AnswerInv, ~ passed', NEW t \in Threads, SetInternal(t)
    PROVE  AnswerInv'
<1>1. CASE Marks(t, "claimed", TRUE, "launching out")
    BY <1>1, MarksAnswers DEF Holding, SpinPlaces, KernelPlaces, ThreadPlaces, UnnotedSpin
<1>2. CASE Marks(t, "launched out", FALSE, "out")
    BY <1>2, MarksAnswers DEF Holding, SpinPlaces, KernelPlaces, ThreadPlaces, UnnotedSpin
<1>3. CASE Marks(t, "armed", TRUE, "launching spin")
    BY <1>3, MarksAnswers DEF Holding, SpinPlaces, KernelPlaces, ThreadPlaces, UnnotedSpin
<1>4. CASE Marks(t, "noted spin", FALSE, "nothing")
    BY <1>4, MarksAnswers DEF Holding, SpinPlaces, KernelPlaces, ThreadPlaces, UnnotedSpin
<1> QED BY <1>1, <1>2, <1>3, <1>4 DEF SetInternal

LEMMA EventRecordHands ==
    ASSUME AnswerInv, NEW t \in Threads, EventRecord(t)
    PROVE  HandedIn(ex, ex', ex.chain) /\ ex'.chain = <<>> /\ ex'.stage_pend = ex.stage_pend
<1>1. ex \in ExecStates /\ QueueOK(ex) /\ PlaceOK
    BY DEF AnswerInv, ThreadTypesOK
<1>2. ex' = Flushed(ex)
    BY DEF EventRecord, At, Goes, Unheld, Reads, IdleBegins, Marks, HandedOver
<1> QED BY <1>1, <1>2, FlushedIs

LEMMA EventRecordAnswers ==
    ASSUME AnswerInv, ~ passed', NEW t \in Threads, EventRecord(t)
    PROVE  AnswerInv'
<1>1. /\ ThreadTypesOK /\ QueueOK(ex) /\ IsNumber(ex, ex.ka_value,
           TRUE) /\ PlaceOK /\ EventOK /\ ~early
      /\ ex \in ExecStates /\ BytesOK /\ event \in [Threads -> [value : Nat, after : Nat]]
      /\ doing \in [Threads -> ThreadPlaces] /\ Nobody \notin Threads
    BY ThreadsAssumption DEF AnswerInv, ThreadTypesOK
<1>2. HandedIn(ex, ex', ex.chain) /\ ex'.chain = <<>> /\ ex'.stage_pend = ex.stage_pend
    BY EventRecordHands
<1>3. ex.chain \in Seq(Jobs) /\ HandedIn(ex, ex', ex.chain)
    BY <1>1, <1>2 DEF ExecStates
<1>4. BytesOK'
    BY <1>1 DEF EventRecord, At, Goes, Unheld, Reads, IdleBegins, Marks, BytesOK
<1>5. MayMove(t, "recording") /\ "recording" \in ThreadPlaces
    BY <1>1, <1>2 DEF EventRecord, At, Goes, Unheld, Reads, IdleBegins, Marks, Waited, MayMove,
       Holding, SpinPlaces, KernelPlaces, ThreadPlaces, UnnotedSpin, PlaceOK
<1>6. PICK n : n = OwnWork(ex, t)
    OBVIOUS
<1>7. /\ n \in Nat
      /\ n > ex.retired => /\ n - ex.retired \in 1 .. Len(ex.queue \o ex.chain)
                           /\ (ex.queue \o ex.chain)[n - ex.retired].kind # "spin"
    BY <1>1, <1>6, OwnWorkIs
<1>8. event' = [event EXCEPT ![t].after = n]
    BY <1>6 DEF EventRecord
<1>9. event' \in [Threads -> [value : Nat, after : Nat]]
    BY <1>1, <1>7, <1>8
<1>10. IsNumber(ex', n, FALSE)
  <2>1. ex'.queue = ex.queue \o ex.chain /\ ex'.retired = ex.retired /\ ex.retired \in Nat
      BY <1>1, <1>2 DEF HandedIn, ExecStates
  <2>2. SUFFICES ASSUME n > ex.retired
                 PROVE  n <= TimelineOf(ex') /\ (ex'.queue[n - ex.retired].kind = "spin") = FALSE
      BY <2>1 DEF IsNumber
  <2>3. PICK k \in Nat : k = Len(ex'.queue)
    <3>1. ex' \in ExecStates
        BY <1>2 DEF HandedIn
    <3>2. ex'.queue \in Seq(Jobs)
        BY <3>1 DEF ExecStates
    <3> QED BY <3>2
  <2>4. n - ex.retired \in 1 .. k
      BY <1>7, <2>1, <2>2, <2>3
  <2>5. n <= TimelineOf(ex')
    <3>1. PICK m \in Nat : m = ex.retired
        BY <2>1
    <3>2. TimelineOf(ex') = m + k
        BY <2>1, <2>3, <3>1 DEF TimelineOf
    <3> QED BY <1>7, <2>4, <3>1, <3>2
  <2> QED BY <1>7, <2>1, <2>2, <2>5
<1>11. EventOK'
  <2>1. ASSUME NEW u \in Threads
        PROVE  /\ IsNumber(ex', event'[u].after, FALSE)
               /\ doing'[u] # "recording" => event'[u].after <= event'[u].value
    <3>1. CASE u = t
      <4>1. event'[u].after = n /\ doing'[u] = "recording"
          BY <1>1, <1>8, <3>1 DEF EventRecord, Goes
      <4> QED BY <1>10, <4>1
    <3>2. CASE u # t
      <4>1. event'[u] = event[u] /\ doing'[u] = doing[u]
          BY <1>1, <1>8, <3>2 DEF EventRecord, Goes
      <4>2. IsNumber(ex, event[u].after, FALSE) /\ event[u].after \in Nat
          BY <1>1 DEF EventOK
      <4>3. IsNumber(ex', event[u].after, FALSE)
          BY <1>1, <1>3, <4>2, NumberKept
      <4> QED BY <1>1, <4>1, <4>3 DEF EventOK
    <3> QED BY <3>1, <3>2
  <2> QED BY <2>1 DEF EventOK
<1>12. early' = early
    BY DEF EventRecord, At, Goes, Unheld, Reads, IdleBegins, Marks
<1>13. StillSpins
    BY <1>1, <1>2, SpinsFlushed
<1> QED BY <1>3, <1>4, <1>5, <1>11, <1>9, <1>12, <1>13, HandedStep

LEMMA EventValueAnswers ==
    ASSUME AnswerInv, ~ passed', NEW t \in Threads, EventValue(t)
    PROVE  AnswerInv'
<1>1. /\ ThreadTypesOK /\ QueueOK(ex) /\ IsNumber(ex, ex.ka_value,
           TRUE) /\ PlaceOK /\ EventOK /\ ~early
      /\ ex \in ExecStates /\ BytesOK /\ event \in [Threads -> [value : Nat, after : Nat]]
      /\ doing \in [Threads -> ThreadPlaces] /\ Nobody \notin Threads
    BY ThreadsAssumption DEF AnswerInv, ThreadTypesOK
<1>2. HandedIn(ex, ex', <<>>) /\ ex'.chain = ex.chain
    BY <1>1, SameQueue DEF EventValue, At, Goes, Unheld, Reads, IdleBegins, Marks
<1>3. <<>> \in Seq(Jobs) /\ HandedIn(ex, ex', <<>>)
  <2>1. <<>> \in Seq(Jobs)
      BY NoJobs
  <2> QED BY <1>2, <2>1
<1>4. BytesOK'
    BY <1>1 DEF EventValue, At, Goes, Unheld, Reads, IdleBegins, Marks, BytesOK
<1>5. MayMove(t, "nothing") /\ "nothing" \in ThreadPlaces
    BY <1>1, <1>2 DEF EventValue, At, Goes, Unheld, Reads, IdleBegins, Marks, Waited, MayMove,
       Holding, SpinPlaces, KernelPlaces, ThreadPlaces, UnnotedSpin, PlaceOK
<1>6. PICK n \in Nat : n = TimelineOf(ex) /\ n = ex.retired + Len(ex.queue) /\ ex.retired <= n
  <2>1. ex.retired \in Nat /\ Len(ex.queue) \in Nat
      BY <1>1 DEF ExecStates
  <2> QED BY <2>1 DEF TimelineOf
<1>7. event' = [event EXCEPT ![t].value = n] /\ ex' = ex
    BY <1>6 DEF EventValue
<1>8. event' \in [Threads -> [value : Nat, after : Nat]]
    BY <1>1, <1>6, <1>7
<1>9. EventOK'
  <2>1. ASSUME NEW u \in Threads
        PROVE  /\ IsNumber(ex', event'[u].after, FALSE)
               /\ doing'[u] # "recording" => event'[u].after <= event'[u].value
    <3>1. IsNumber(ex, event[u].after, FALSE) /\ event[u].after \in Nat /\ ex.retired \in Nat
        BY <1>1 DEF EventOK, ExecStates
    <3>2. event'[u].after = event[u].after
        BY <1>1, <1>7
    <3>3. CASE u = t
      <4>1. event'[u].value = n
          BY <1>1, <1>7, <3>3
      <4>2. event[u].after <= n
          BY <1>6, <3>1 DEF IsNumber
      <4> QED BY <1>7, <3>1, <3>2, <4>1, <4>2
    <3>4. CASE u # t
      <4>1. event'[u] = event[u] /\ doing'[u] = doing[u]
          BY <1>1, <1>7, <3>4 DEF EventValue, Goes
      <4> QED BY <1>1, <1>7, <3>1, <4>1 DEF EventOK
    <3> QED BY <3>3, <3>4
  <2> QED BY <2>1 DEF EventOK
<1>10. early' = early
    BY DEF EventValue, At, Goes, Unheld, Reads, IdleBegins, Marks
<1>11. StillSpins
    BY <1>1, <1>2, SpinsQuiet
<1> QED BY <1>3, <1>4, <1>5, <1>9, <1>8, <1>10, <1>11, HandedStep

LEMMA EventCompleteAnswers ==
    ASSUME AnswerInv, ~ passed', NEW t \in Threads, EventComplete(t)
    PROVE  AnswerInv'
<1>1. /\ ThreadTypesOK /\ QueueOK(ex) /\ IsNumber(ex, ex.ka_value,
           TRUE) /\ PlaceOK /\ EventOK /\ ~early
      /\ ex \in ExecStates /\ BytesOK /\ event \in [Threads -> [value : Nat, after : Nat]]
      /\ doing \in [Threads -> ThreadPlaces] /\ Nobody \notin Threads
    BY ThreadsAssumption DEF AnswerInv, ThreadTypesOK
<1>2. HandedIn(ex, ex', <<>>) /\ ex'.chain = ex.chain
    BY <1>1, SameQueue DEF EventComplete, At, Goes, Unheld, Reads, IdleBegins, Marks
<1>3. <<>> \in Seq(Jobs) /\ HandedIn(ex, ex', <<>>)
  <2>1. <<>> \in Seq(Jobs)
      BY NoJobs
  <2> QED BY <1>2, <2>1
<1>4. BytesOK'
    BY <1>1 DEF EventComplete, At, Goes, Unheld, Reads, IdleBegins, Marks, BytesOK
<1>5. MayMove(t, "nothing") /\ "nothing" \in ThreadPlaces
    BY <1>1, <1>2 DEF EventComplete, At, Goes, Unheld, Reads, IdleBegins, Marks, Waited, MayMove,
       Holding, SpinPlaces, KernelPlaces, ThreadPlaces, UnnotedSpin, PlaceOK
<1>6. event' = event /\ doing[t] # "recording"
    BY <1>2 DEF EventComplete, At, Goes, Unheld, Reads, IdleBegins, Marks
<1>7. event' \in [Threads -> [value : Nat, after : Nat]]
    BY <1>1, <1>6
<1>8. early' = early
  <2>1. PICK v \in Nat, a \in Nat : v = event[t].value /\ a = event[t].after
      BY <1>1
  <2>2. sem_reached(ex, v) \/ sem_reached(LetGo(ex), v)
      BY <2>1 DEF EventComplete
  <2>3. IsNumber(ex, a, FALSE) /\ a <= v /\ ex.retired \in Nat
      BY <1>1, <2>1 DEF EventOK, EventComplete, At, ExecStates
  <2>4. ~ (a > ex.retired)
    <3>1. SUFFICES ASSUME a > ex.retired PROVE FALSE
        OBVIOUS
    <3>2. a <= TimelineOf(ex) /\ (ex.queue[a - ex.retired].kind = "spin") = FALSE
        BY <2>3, <3>1 DEF IsNumber
    <3>3. a - ex.retired \in 1 .. Len(ex.queue) /\ ex.retired + (a - ex.retired) <= v
      <4>1. Len(ex.queue) \in Nat
          BY <1>1 DEF ExecStates
      <4> QED BY <2>3, <3>1, <3>2, <4>1 DEF TimelineOf
    <3>4. ex.queue[a - ex.retired].kind = "spin"
        BY <2>2, <3>3, WaitOver
    <3> QED BY <3>2, <3>4
  <2>5. early' = (early \/ a > ex.retired)
      BY <2>1 DEF EventComplete
  <2>6. early \in BOOLEAN
      BY <1>1 DEF ThreadTypesOK
  <2> QED BY <2>4, <2>5, <2>6, Zenon
<1>9. StillSpins
    BY <1>1, <1>2, SpinsQuiet
<1> QED BY <1>3, <1>4, <1>5, <1>6, <1>7, <1>8, <1>9, HandedStep

LEMMA EventSyncHands ==
    ASSUME AnswerInv, NEW t \in Threads, EventSync(t)
    PROVE  /\ HandedIn(ex, ex', <<>>) /\ ex'.queue = ex.queue
           /\ ex'.chain = ex.chain /\ ex'.stage_pend = ex.stage_pend
<1>1. ex \in ExecStates /\ QueueOK(ex) /\ PlaceOK
    BY DEF AnswerInv, ThreadTypesOK
<1>2. ex' = LetGo(ex)
    BY DEF EventSync, At, Goes, Unheld, Reads, IdleBegins, Marks, HandedOver
<1> QED BY <1>1, <1>2, LetGoIs

LEMMA EventSyncAnswers ==
    ASSUME AnswerInv, ~ passed', NEW t \in Threads, EventSync(t)
    PROVE  AnswerInv'
<1>1. /\ ThreadTypesOK /\ QueueOK(ex) /\ IsNumber(ex, ex.ka_value,
           TRUE) /\ PlaceOK /\ EventOK /\ ~early
      /\ ex \in ExecStates /\ BytesOK /\ event \in [Threads -> [value : Nat, after : Nat]]
      /\ doing \in [Threads -> ThreadPlaces] /\ Nobody \notin Threads
    BY ThreadsAssumption DEF AnswerInv, ThreadTypesOK
<1>2. /\ HandedIn(ex, ex', <<>>) /\ ex'.queue = ex.queue
      /\ ex'.chain = ex.chain /\ ex'.stage_pend = ex.stage_pend
    BY EventSyncHands
<1>3. <<>> \in Seq(Jobs) /\ HandedIn(ex, ex', <<>>)
  <2>1. <<>> \in Seq(Jobs)
      BY NoJobs
  <2> QED BY <1>2, <2>1
<1>4. BytesOK'
    BY <1>1 DEF EventSync, At, Goes, Unheld, Reads, IdleBegins, Marks, BytesOK
<1>5. MayMove(t, "nothing") /\ "nothing" \in ThreadPlaces
    BY <1>1, <1>2 DEF EventSync, At, Goes, Unheld, Reads, IdleBegins, Marks, Waited, MayMove,
       Holding, SpinPlaces, KernelPlaces, ThreadPlaces, UnnotedSpin, PlaceOK
<1>6. event' = event /\ doing[t] # "recording"
    BY <1>2 DEF EventSync, At, Goes, Unheld, Reads, IdleBegins, Marks
<1>7. event' \in [Threads -> [value : Nat, after : Nat]]
    BY <1>1, <1>6
<1>8. early' = early
  <2>1. PICK v \in Nat, a \in Nat : v = event[t].value /\ a = event[t].after
      BY <1>1
  <2>2. sem_reached(ex, v) \/ sem_reached(LetGo(ex), v)
      BY <2>1 DEF EventSync
  <2>3. IsNumber(ex, a, FALSE) /\ a <= v /\ ex.retired \in Nat
      BY <1>1, <2>1 DEF EventOK, EventSync, At, ExecStates
  <2>4. ~ (a > ex.retired)
    <3>1. SUFFICES ASSUME a > ex.retired PROVE FALSE
        OBVIOUS
    <3>2. a <= TimelineOf(ex) /\ (ex.queue[a - ex.retired].kind = "spin") = FALSE
        BY <2>3, <3>1 DEF IsNumber
    <3>3. a - ex.retired \in 1 .. Len(ex.queue) /\ ex.retired + (a - ex.retired) <= v
      <4>1. Len(ex.queue) \in Nat
          BY <1>1 DEF ExecStates
      <4> QED BY <2>3, <3>1, <3>2, <4>1 DEF TimelineOf
    <3>4. ex.queue[a - ex.retired].kind = "spin"
        BY <2>2, <3>3, WaitOver
    <3> QED BY <3>2, <3>4
  <2>5. early' = (early \/ a > ex.retired)
      BY <2>1 DEF EventSync
  <2>6. early \in BOOLEAN
      BY <1>1 DEF ThreadTypesOK
  <2> QED BY <2>4, <2>5, <2>6, Zenon
<1>9. StillSpins
    BY <1>1, <1>2, SpinsQuiet
<1> QED BY <1>3, <1>4, <1>5, <1>6, <1>7, <1>8, <1>9, HandedStep

LEMMA NoteSpinAnswers ==
    ASSUME AnswerInv, ~ passed', NEW t \in Threads, NoteSpin(t)
    PROVE  AnswerInv'
<1>1. /\ ThreadTypesOK /\ QueueOK(ex) /\ IsNumber(ex, ex.ka_value,
           TRUE) /\ PlaceOK /\ EventOK /\ ~early
      /\ ex \in ExecStates /\ BytesOK /\ event \in [Threads -> [value : Nat, after : Nat]]
      /\ doing \in [Threads -> ThreadPlaces] /\ Nobody \notin Threads
    BY ThreadsAssumption DEF AnswerInv, ThreadTypesOK
<1>2. PICK n \in Nat : n = TimelineOf(ex)
  <2>1. ex.retired \in Nat /\ Len(ex.queue) \in Nat
      BY <1>1 DEF ExecStates
  <2> QED BY <2>1 DEF TimelineOf
<1>3. ex' = [ex EXCEPT !.ka_value = n]
    BY <1>2 DEF NoteSpin
<1>4. [ex EXCEPT !.ka_value = n] \in ExecStates
    BY <1>1 DEF ExecStates
<1>5. /\ ex' \in ExecStates /\ ex'.queue = ex.queue /\ ex'.retired = ex.retired /\ ex'.slot = ex.slot
      /\ ex'.last = ex.last /\ ex'.chain = ex.chain /\ ex'.ka_value = n
    BY <1>1, <1>3, <1>4 DEF ExecStates
<1>6. QueueOK(ex') /\ TimelineOf(ex') = TimelineOf(ex)
    BY <1>1, <1>5 DEF QueueOK, TimelineOf
<1>7. ASSUME NEW k, NEW spin, IsNumber(ex, k, spin) PROVE IsNumber(ex', k, spin)
    BY <1>5, <1>6, <1>7 DEF IsNumber
<1>8. doing[t] = "flushed spin" /\ IsNumber(ex, TimelineOf(ex), TRUE)
  <2>1. doing[t] = "flushed spin" /\ doing[t] \in UnnotedSpin
      BY DEF NoteSpin, At, UnnotedSpin
  <2> QED BY <1>1, <2>1 DEF PlaceOK, BehindSpin
<1>9. IsNumber(ex', ex'.ka_value, TRUE)
    BY <1>2, <1>5, <1>7, <1>8
<1>10. MayMove(t, "noted spin") /\ "noted spin" \in ThreadPlaces
    BY <1>1, <1>5 DEF NoteSpin, At, Goes, MayMove, Holding, SpinPlaces, KernelPlaces, ThreadPlaces,
       UnnotedSpin, PlaceOK
<1>15. StillSpins
    BY <1>5, <1>6 DEF StillSpins, BehindSpin, IsNumber
<1>11. PlaceOK' /\ lock' \in Threads \cup {Nobody}
    BY <1>1, <1>10, <1>15, MovePlaces
<1>12. UNCHANGED <<deployed, mem, stage, event, expected, misread, early>> /\ Goes(t, "noted spin")
    BY DEF NoteSpin
<1>13. ThreadTypesOK'
    BY <1>1, <1>5, <1>10, <1>11, <1>12 DEF ThreadTypesOK, BytesOK, Goes
<1>14. EventOK'
  <2>1. ASSUME NEW u \in Threads
        PROVE  /\ IsNumber(ex', event'[u].after, FALSE)
               /\ doing'[u] # "recording" => event'[u].after <= event'[u].value
    <3>1. doing'[u] # "recording" => doing[u] # "recording"
        BY <1>1, <1>8, <1>12 DEF Goes
    <3> QED BY <1>1, <1>7, <1>12, <3>1 DEF EventOK
  <2> QED BY <2>1 DEF EventOK
<1> QED BY <1>1, <1>6, <1>9, <1>11, <1>12, <1>13, <1>14 DEF AnswerInv

LEMMA AnswerInit ==
    ASSUME ThreadsInit
    PROVE  AnswerInv
<1> DEFINE zero == [q \in 0 .. 1 |-> 0]
<1>1. zero \in [0 .. 1 -> Nat] /\ \A q \in 0 .. 1 : zero[q] = 0
    OBVIOUS
<1>2. ex = [chain |-> <<>>, queue |-> <<>>, retired |-> 0, last |-> zero, slot |-> zero,
            stage_pend |-> 0, internal |-> FALSE, launches |-> 0, ka_pending |-> FALSE,
               ka_value |-> 0]
    BY DEF ThreadsInit
<1> HIDE DEF zero
<1>3. /\ ex \in ExecStates /\ ex.queue = <<>> /\ ex.chain = <<>> /\ ex.retired = 0 /\ ex.last = zero
      /\ ex.slot = zero /\ ex.ka_value = 0
    BY <1>1, <1>2, NoJobs DEF ExecStates
<1>4. QueueOK(ex)
    BY <1>1, <1>3 DEF QueueOK, TimelineOf
<1>5. IsNumber(ex, 0, TRUE) /\ IsNumber(ex, 0, FALSE)
    BY <1>3 DEF IsNumber
<1>6. /\ deployed \in Deployments /\ lock = Nobody /\ Nobody \notin Threads
      /\ mem = [t \in Threads |-> Uploaded(t)] /\ expected = mem /\ stage = <<Nobody, 0>>
      /\ doing = [t \in Threads |-> "nothing"]
      /\ event = [t \in Threads |-> [value |-> 0, after |-> 0]]
      /\ misread = FALSE /\ early = FALSE
    BY ThreadsAssumption DEF ThreadsInit
<1>7. BytesOK
    BY <1>6 DEF BytesOK, Values, Uploaded
<1>8. ThreadTypesOK
    BY <1>3, <1>6, <1>7 DEF ThreadTypesOK, ThreadPlaces
<1>9. PlaceOK
    BY <1>3, <1>6 DEF PlaceOK, Holding, SpinPlaces, KernelPlaces, UnnotedSpin
<1>10. EventOK
  <2>1. ASSUME NEW t \in Threads PROVE event[t].after = 0 /\ event[t].value = 0
      BY <1>6
  <2>2. ASSUME NEW t \in Threads
        PROVE  /\ IsNumber(ex, event[t].after, FALSE)
               /\ doing[t] # "recording" => event[t].after <= event[t].value
    <3>1. event[t].after = 0 /\ event[t].value = 0
        BY <2>1
    <3>2. event[t].after <= event[t].value
      <4>1. 0 <= 0
          OBVIOUS
      <4> QED BY <3>1, <4>1
    <3>3. IsNumber(ex, event[t].after, FALSE)
        BY <1>5, <3>1, Zenon
    <3> QED BY <3>2, <3>3
  <2> QED BY <2>2 DEF EventOK
<1> QED BY <1>3, <1>4, <1>5, <1>6, <1>8, <1>9, <1>10 DEF AnswerInv

LEMMA AnswerStutter ==
    ASSUME AnswerInv, UNCHANGED threadVars
    PROVE  AnswerInv'
BY DEF AnswerInv, ThreadTypesOK, BytesOK, QueueOK, TimelineOf, IsNumber, PlaceOK, EventOK,
   BehindSpin, threadVars

LEMMA AnswerNext ==
    ASSUME AnswerInv, ~ passed', [ThreadsNext]_threadVars
    PROVE  AnswerInv'
<1>1. CASE Retire
    BY <1>1, RetireAnswers
<1>2. ASSUME NEW t \in Threads,
             \/ Upload(t) \/ Launch(t) \/ DownloadBegins(t) \/ DownloadEnds(t)
             \/ ClaimStage(t) \/ LaunchOut(t) \/ KernelIdle(t) \/ KernelIdled(t) \/ ReadStage(t)
      PROVE  AnswerInv'
    BY <1>2, UploadAnswers, LaunchAnswers, DownloadBeginsAnswers, DownloadEndsAnswers,
       ClaimStageAnswers, LaunchOutAnswers, KernelIdleAnswers, KernelIdledAnswers, ReadStageAnswers
<1>3. ASSUME NEW t \in Threads,
             \/ SyncBegins(t) \/ SyncEnds(t)
             \/ NoSpin(t) \/ ArmSpin(t) \/ LaunchSpin(t) \/ FlushSpin(t) \/ NoteSpin(t)
             \/ SetInternal(t)
      PROVE  AnswerInv'
    BY <1>3, SyncBeginsAnswers, SyncEndsAnswers, NoSpinAnswers, ArmSpinAnswers,
       LaunchSpinAnswers, FlushSpinAnswers, NoteSpinAnswers, SetInternalAnswers
<1>4. ASSUME NEW t \in Threads,
             EventRecord(t) \/ EventValue(t) \/ EventComplete(t) \/ EventSync(t)
      PROVE  AnswerInv'
    BY <1>4, EventRecordAnswers, EventValueAnswers, EventCompleteAnswers, EventSyncAnswers
<1>5. CASE UNCHANGED threadVars
    BY <1>5, AnswerStutter
<1> QED BY <1>1, <1>2, <1>3, <1>4, <1>5 DEF ThreadsNext

\* Until work goes behind a keep-alive whose value is not noted yet, a
\* synchronisation that returned and an event reported complete leave nothing
\* of the thread's own to be done, for any number of threads that submit,
\* build, wait, keep the engine alive and move bytes meanwhile
\* (tinynv.c:776-797, 1132-1187, 1215-1219, exec.c:128-140).
LEMMA PassedStays ==
    ASSUME passed, [ThreadsNext]_threadVars
    PROVE  passed'
BY DEF ThreadsNext, threadVars, Upload, Launch, DownloadBegins, DownloadEnds, ClaimStage,
   LaunchOut, KernelIdle, KernelIdled, ReadStage, SyncBegins, SyncEnds, NoSpin, ArmSpin,
   LaunchSpin, FlushSpin, NoteSpin, SetInternal, Marks, EventRecord, EventValue, EventComplete,
   EventSync, Retire, IdleBegins, Reads, AddsWork

THEOREM ThreadsInvariant == ThreadsSpec => [](passed \/ AnswerInv)
<1>1. ThreadsInit => passed \/ AnswerInv
    BY AnswerInit
<1>2. (passed \/ AnswerInv) /\ [ThreadsNext]_threadVars => (passed \/ AnswerInv)'
    BY AnswerNext, PassedStays
<1> QED BY <1>1, <1>2, PTL DEF ThreadsSpec

THEOREM ThreadsAnswered == ThreadsSpec => []AnsweredMeansDone
<1>1. passed \/ AnswerInv => AnsweredMeansDone
    BY DEF AnswerInv, AnsweredMeansDone
<1> QED BY <1>1, ThreadsInvariant, PTL

-----------------------------------------------------------------------------
\* Bytes carried through jobs.
LEMMA TraceMore ==
    ASSUME NEW jobs \in Seq(Jobs), NEW v, NEW t, NEW b, NEW c, Traces(v, jobs, t, b, c),
           NEW job \in Jobs
    PROVE  \E w : Traces(w, Append(jobs, job), t, b, Effect(job, t, c))
<1>1. PICK n \in Nat : n = Len(jobs)
    OBVIOUS
<1> DEFINE w == [i \in 1 .. n + 2 |-> IF i = n + 2 THEN Effect(job, t, c) ELSE v[i]]
<1>2. PICK more : more = Append(jobs, job)
    OBVIOUS
<1>3. Len(more) = n + 1 /\ more[n + 1] = job /\ \A i \in 1 .. n : more[i] = jobs[i]
    BY <1>1, <1>2
<1>4. \A i \in 1 .. n + 1 : w[i] = v[i]
    BY <1>1
<1>5. w[n + 2] = Effect(job, t, c) /\ w[1] = b
    BY <1>1 DEF Traces
<1> HIDE DEF w
<1>6. \A i \in 1 .. n : v[i + 1] = Effect(jobs[i], t, v[i])
    BY <1>1 DEF Traces
<1>7. v[n + 1] = c
    BY <1>1 DEF Traces
<1>8. ASSUME NEW i \in 1 .. n + 1 PROVE w[i + 1] = Effect(more[i], t, w[i])
  <2>1. CASE i = n + 1
    <3>1. w[i] = c /\ i + 1 = n + 2 /\ more[i] = job
        BY <1>1, <1>3, <1>4, <1>7, <2>1
    <3> QED BY <1>5, <3>1
  <2>2. CASE i # n + 1
    <3>1. i \in 1 .. n /\ i + 1 \in 1 .. n + 1
        BY <1>1, <2>2
    <3> QED BY <1>3, <1>4, <1>6, <3>1
  <2> QED BY <2>1, <2>2
<1>9. Len(more) + 1 = n + 2
    BY <1>1, <1>3
<1>10. Traces(w, more, t, b, Effect(job, t, c))
    BY <1>3, <1>5, <1>8, <1>9 DEF Traces
<1> QED BY <1>2, <1>10

LEMMA TraceLess ==
    ASSUME NEW jobs \in Seq(Jobs), jobs # <<>>, NEW v, NEW t, NEW b, NEW c, Traces(v, jobs, t, b, c)
    PROVE  \E w : Traces(w, Tail(jobs), t, Effect(jobs[1], t, b), c)
<1>1. PICK n \in Nat : n + 1 = Len(jobs)
  <2>1. Len(jobs) \in Nat /\ Len(jobs) # 0
      OBVIOUS
  <2> QED BY <2>1
<1> DEFINE w == [i \in 1 .. n + 1 |-> v[i + 1]]
<1>2. PICK less : less = Tail(jobs)
    OBVIOUS
<1>3. Len(less) = n /\ \A i \in 1 .. n : less[i] = jobs[i + 1]
    BY <1>1, <1>2
<1>4. \A i \in 1 .. n + 1 : w[i] = v[i + 1]
    OBVIOUS
<1> HIDE DEF w
<1>5. v[1] = b /\ v[(n + 1) + 1] = c /\ \A i \in 1 .. n + 1 : v[i + 1] = Effect(jobs[i], t, v[i])
    BY <1>1 DEF Traces
<1>6. w[1] = Effect(jobs[1], t, b)
  <2>1. 1 \in 1 .. n + 1
      BY <1>1
  <2> QED BY <1>4, <1>5, <2>1
<1>7. w[n + 1] = c
    BY <1>1, <1>4, <1>5
<1>8. ASSUME NEW i \in 1 .. n PROVE w[i + 1] = Effect(less[i], t, w[i])
  <2>1. i \in 1 .. n + 1 /\ i + 1 \in 1 .. n + 1
      BY <1>1
  <2>2. w[i] = v[i + 1] /\ w[i + 1] = v[(i + 1) + 1] /\ less[i] = jobs[i + 1]
      BY <1>3, <1>4, <2>1
  <2> QED BY <1>5, <2>1, <2>2
<1>9. Traces(w, less, t, Effect(jobs[1], t, b), c)
    BY <1>3, <1>6, <1>7, <1>8 DEF Traces
<1> QED BY <1>2, <1>9

\* What there is to do, when it is handed over, grows or is done.
LEMMA WholeFlushed ==
    ASSUME NEW e \in ExecStates, NEW f, HandedIn(e, f, e.chain), f.chain = <<>>
    PROVE  Whole(f) = Whole(e)
<1>1. PICK q \in Seq(Jobs), c \in Seq(Jobs) : q = e.queue /\ c = e.chain
    BY DEF ExecStates
<1>2. f.queue = q \o c
    BY <1>1 DEF HandedIn
<1>3. (q \o c) \o <<>> = q \o c
    OBVIOUS
<1> QED BY <1>1, <1>2, <1>3 DEF Whole

LEMMA WholeMore ==
    ASSUME NEW e \in ExecStates, NEW job \in Jobs, NEW f,
           \/ HandedIn(e, f, e.chain \o <<job>>) /\ f.chain = <<>>
           \/ f.queue = e.queue /\ f.chain = Append(e.chain, job)
    PROVE  Whole(f) = Append(Whole(e), job) /\ Whole(e) \in Seq(Jobs)
<1>1. PICK q \in Seq(Jobs), c \in Seq(Jobs) : q = e.queue /\ c = e.chain
    BY DEF ExecStates
<1>2. PICK one \in Seq(Jobs) : one = <<job>>
  <2>1. <<job>> \in Seq(Jobs)
      OBVIOUS
  <2> QED BY <2>1
<1>3. (q \o c) \o one = q \o (c \o one)
    BY ConcatAssociative, SMTT(60)
<1>4. q \o c \in Seq(Jobs)
    OBVIOUS
<1>5. \A z \in Seq(Jobs) : Append(z, job) = z \o one
  <2>1. ASSUME NEW z \in Seq(Jobs) PROVE Append(z, job) = z \o one
      BY <1>2
  <2> QED BY <2>1
<1>6. CASE HandedIn(e, f, e.chain \o <<job>>) /\ f.chain = <<>>
  <2>1. f.queue = q \o (c \o one)
      BY <1>1, <1>2, <1>6 DEF HandedIn
  <2>2. c \o one \in Seq(Jobs)
      OBVIOUS
  <2>3. q \o (c \o one) \in Seq(Jobs)
      BY <2>2
  <2>4. \A z \in Seq(Jobs) : z \o <<>> = z
      OBVIOUS
  <2>5. Whole(f) = q \o (c \o one)
      BY <1>6, <2>1, <2>3, <2>4 DEF Whole
  <2> QED BY <1>1, <1>3, <1>4, <1>5, <2>5 DEF Whole
<1>7. CASE f.queue = e.queue /\ f.chain = Append(e.chain, job)
  <2>1. Whole(f) = q \o (c \o one)
      BY <1>1, <1>5, <1>7 DEF Whole
  <2> QED BY <1>1, <1>3, <1>4, <1>5, <2>1 DEF Whole
<1> QED BY <1>6, <1>7

LEMMA WholeLess ==
    ASSUME NEW e \in ExecStates, e.queue # <<>>, NEW f, f.queue = Tail(e.queue), f.chain = e.chain
    PROVE  /\ Whole(f) = Tail(Whole(e)) /\ Whole(e) \in Seq(Jobs) /\ Whole(e) # <<>>
           /\ Whole(e)[1] = e.queue[1]
<1>1. PICK q \in Seq(Jobs), c \in Seq(Jobs) : q = e.queue /\ c = e.chain
    BY DEF ExecStates
<1>2. Len(q) \in Nat \ {0} /\ Len(c) \in Nat
    BY <1>1
<1>3. PICK a \in Seq(Jobs), b \in Seq(Jobs) : a = q \o c /\ b = Tail(q)
  <2>1. q \o c \in Seq(Jobs) /\ Tail(q) \in Seq(Jobs)
      BY <1>1
  <2> QED BY <2>1
<1>4. /\ Len(a) = Len(q) + Len(c)
      /\ \A i \in 1 .. Len(a) : a[i] = IF i <= Len(q) THEN q[i] ELSE c[i - Len(q)]
      /\ Len(b) = Len(q) - 1 /\ \A i \in 1 .. Len(b) : b[i] = q[i + 1]
  <2>1. /\ Len(q \o c) = Len(q) + Len(c)
        /\ \A i \in 1 .. Len(q) + Len(c) : (q \o c)[i] = IF i <= Len(q) THEN q[i] ELSE c[i - Len(q)]
      BY ConcatProperties
  <2>2. q # <<>>
      BY <1>2
  <2>3. Len(b) = Len(q) - 1 /\ \A i \in 1 .. Len(b) : b[i] = q[i + 1]
      BY <1>2, <1>3, <2>2
  <2> QED BY <1>3, <2>1, <2>3
<1>5. a # <<>> /\ a[1] = q[1]
  <2>1. 1 \in 1 .. Len(a) /\ 1 <= Len(q)
      BY <1>2, <1>4
  <2>2. a[1] = q[1]
      BY <1>4, <2>1
  <2>3. a # <<>>
      BY <2>1
  <2> QED BY <2>2, <2>3
<1>6. b \o c = Tail(a)
  <2>1. PICK x \in Seq(Jobs), y \in Seq(Jobs) : x = b \o c /\ y = Tail(a)
    <3>1. b \o c \in Seq(Jobs) /\ Tail(a) \in Seq(Jobs)
        BY <1>5
    <3> QED BY <3>1
  <2>2. /\ Len(x) = Len(b) + Len(c)
        /\ \A i \in 1 .. Len(x) : x[i] = IF i <= Len(b) THEN b[i] ELSE c[i - Len(b)]
      BY <2>1
  <2>3. Len(y) = Len(a) - 1 /\ \A i \in 1 .. Len(y) : y[i] = a[i + 1]
      BY <1>5, <2>1
  <2>4. Len(x) = Len(y)
      BY <1>2, <1>4, <2>2, <2>3
  <2>5. ASSUME NEW i \in 1 .. Len(x) PROVE x[i] = y[i]
    <3>1. y[i] = a[i + 1] /\ i \in Nat /\ i + 1 \in 1 .. Len(a)
        BY <1>2, <1>4, <2>2, <2>3, <2>4
    <3>2. CASE i <= Len(b)
      <4>1. x[i] = b[i] /\ b[i] = q[i + 1] /\ i + 1 <= Len(q)
          BY <1>2, <1>4, <2>2, <3>1, <3>2
      <4> QED BY <1>4, <3>1, <4>1
    <3>3. CASE ~ (i <= Len(b))
      <4>1. x[i] = c[i - Len(b)] /\ ~ (i + 1 <= Len(q)) /\ (i + 1) - Len(q) = i - Len(b)
          BY <1>2, <1>4, <2>2, <3>1, <3>3
      <4> QED BY <1>4, <3>1, <4>1
    <3> QED BY <3>2, <3>3
  <2>6. x = y
      BY <2>4, <2>5, SeqEqual
  <2> QED BY <2>1, <2>6
<1> QED BY <1>1, <1>3, <1>5, <1>6 DEF Whole

LEMMA CarriedSame ==
    ASSUME Carried, Whole(ex') = Whole(ex), UNCHANGED <<mem, expected>>
    PROVE  Carried'
BY DEF Carried

LEMMA CarriedMore ==
    ASSUME Carried, NEW job \in Jobs, Whole(ex') = Append(Whole(ex), job), Whole(ex) \in Seq(Jobs),
           mem' = mem, \A u \in Threads : expected'[u] = Effect(job, u, expected[u])
    PROVE  Carried'
<1>1. ASSUME NEW u \in Threads PROVE \E v : Traces(v, Whole(ex'), u, mem'[u], expected'[u])
  <2>1. PICK v : Traces(v, Whole(ex), u, mem[u], expected[u])
      BY DEF Carried
  <2> QED BY <2>1, TraceMore
<1> QED BY <1>1 DEF Carried

-----------------------------------------------------------------------------
\* Who may have the stage.
LEMMA ConcatAt ==
    ASSUME NEW s \in Seq(Jobs), NEW jobs \in Seq(Jobs), NEW i \in 1 .. Len(s \o jobs)
    PROVE  \/ i \in 1 .. Len(s) /\ (s \o jobs)[i] = s[i]
           \/ \E k \in 1 .. Len(jobs) : (s \o jobs)[i] = jobs[k]
<1>1. PICK n \in Nat, m \in Nat : n = Len(s) /\ m = Len(jobs)
    OBVIOUS
<1>2. /\ Len(s \o jobs) = n + m
      /\ \A j \in 1 .. n + m : (s \o jobs)[j] = IF j <= n THEN s[j] ELSE jobs[j - n]
    BY <1>1, ConcatProperties
<1>3. CASE i <= n
    BY <1>1, <1>2, <1>3
<1>4. CASE ~ (i <= n)
  <2>1. i - n \in 1 .. m /\ (s \o jobs)[i] = jobs[i - n]
      BY <1>2, <1>4
  <2> QED BY <1>1, <1>2, <2>1
<1> QED BY <1>3, <1>4

LEMMA AppendAt ==
    ASSUME NEW s \in Seq(Jobs), NEW job \in Jobs, NEW i \in 1 .. Len(Append(s, job))
    PROVE  \/ i \in 1 .. Len(s) /\ Append(s, job)[i] = s[i]
           \/ Append(s, job)[i] = job /\ i = Len(Append(s, job))
OBVIOUS

LEMMA NothingAt ==
    ASSUME NEW s, s = <<>>
    PROVE  \A i \in 1 .. Len(s) : FALSE
OBVIOUS

LEMMA BytesFacts ==
    ASSUME AnswerInv
    PROVE  /\ ex \in ExecStates /\ QueueOK(ex) /\ PlaceOK /\ BytesOK /\ doing \in [Threads -> ThreadPlaces]
           /\ Nobody \notin Threads /\ deployed \in Deployments
           /\ ex.queue \in Seq(Jobs) /\ ex.chain \in Seq(Jobs) /\ ex.retired \in Nat
           /\ ex.stage_pend \in Nat /\ Len(ex.queue) \in Nat /\ Len(ex.chain) \in Nat
BY ThreadsAssumption DEF AnswerInv, ThreadTypesOK, ExecStates

LEMMA WholeIs ==
    ASSUME NEW e \in ExecStates
    PROVE  Whole(e) \in Seq(Jobs)
<1>1. PICK q \in Seq(Jobs), c \in Seq(Jobs) : q = e.queue /\ c = e.chain
    BY DEF ExecStates
<1>2. q \o c \in Seq(Jobs)
    OBVIOUS
<1> QED BY <1>1, <1>2 DEF Whole

LEMMA KindOfJob ==
    ASSUME NEW kind \in Kinds, NEW t \in Threads
    PROVE  Job(kind, t) \in Jobs /\ Job(kind, t).kind = kind /\ Job(kind, t).by = t
BY DEF Job, Jobs

LEMMA TheJob ==
    ASSUME NEW kind, kind \in Kinds, NEW t \in Threads
    PROVE  \E job \in Jobs : job = Job(kind, t) /\ job.kind = kind /\ job.by = t
<1>1. Job(kind, t) \in Jobs /\ Job(kind, t).kind = kind /\ Job(kind, t).by = t
    BY KindOfJob
<1> QED BY <1>1

LEMMA JobAt ==
    ASSUME NEW jobs \in Seq(Jobs), NEW i \in 1 .. Len(jobs)
    PROVE  jobs[i] \in Jobs
OBVIOUS

LEMMA TailIs ==
    ASSUME NEW jobs \in Seq(Jobs), jobs # <<>>
    PROVE  \E n \in Nat : /\ Len(jobs) = n + 1 /\ Len(Tail(jobs)) = n
                          /\ \A i \in 1 .. n : Tail(jobs)[i] = jobs[i + 1] /\ Tail(jobs)[i] \in Jobs
<1>1. Len(jobs) - 1 \in Nat /\ Len(jobs) = (Len(jobs) - 1) + 1
    OBVIOUS
<1>2. Len(Tail(jobs)) = Len(jobs) - 1 /\ Tail(jobs) \in Seq(Jobs)
    OBVIOUS
<1>3. \A i \in 1 .. Len(jobs) - 1 : Tail(jobs)[i] = jobs[i + 1] /\ Tail(jobs)[i] \in Jobs
    BY <1>2
<1> QED BY <1>1, <1>2, <1>3

LEMMA NextPlace ==
    ASSUME NEW n \in Nat, NEW i \in 1 .. n
    PROVE  /\ i + 1 \in 1 .. n + 1 /\ i + 1 \in 1 + 1 .. n + 1 /\ 1 \in 1 .. n + 1 /\ 1 # n + 1
           /\ i + 1 = n + 1 => i = n
           /\ \A j \in i + 1 .. n : j \in 1 .. n /\ j + 1 \in (i + 1) + 1 .. n + 1
           /\ \A r \in Nat : r + (i + 1) = (r + 1) + i
OBVIOUS

LEMMA PlaceBefore ==
    ASSUME NEW n \in Nat, NEW i \in 1 .. n + 1, i # 1
    PROVE  i - 1 \in 1 .. n /\ (i - 1) + 1 = i
OBVIOUS

\* While nobody holds the lock no copy out of the stage's engine is to be done, ...
LEMMA NoneOut ==
    ASSUME AnswerInv, StageOK, lock = Nobody
    PROVE  NoneOfKind(Whole(ex), {"out"})
<1>1. PICK w \in Seq(Jobs) : w = Whole(ex)
    BY BytesFacts, WholeIs
<1>2. ASSUME NEW i \in 1 .. Len(w), w[i].kind = "out" PROVE FALSE
  <2>1. w[i] \in Jobs
      OBVIOUS
  <2>2. w[i].by \in Threads
      BY <2>1 DEF Jobs
  <2>3. doing[w[i].by] = "download"
      BY <1>1, <1>2 DEF StageOK, JobsOK, JobOK
  <2> QED BY <2>2, <2>3, BytesFacts DEF PlaceOK, Holding
<1> QED BY <1>1, <1>2 DEF NoneOfKind

\* ... once the stage may be claimed no upload is, ...
LEMMA NoneIn ==
    ASSUME AnswerInv, StageOK, Claimable(ex)
    PROVE  NoneOfKind(Whole(ex), {"in"})
<1>1. PICK q \in Seq(Jobs), c \in Seq(Jobs) : q = ex.queue /\ c = ex.chain
    BY BytesFacts
<1>2. Whole(ex) = q \o c
    BY <1>1 DEF Whole
<1>3. PICK w \in Seq(Jobs) : w = q \o c
    BY <1>2, BytesFacts, WholeIs
<1>4. SUFFICES ASSUME NEW i \in 1 .. Len(w), w[i].kind = "in" PROVE FALSE
    BY <1>2, <1>3 DEF NoneOfKind
<1>5. JobOK(w, i, ex.retired, ex.stage_pend, stage, doing)
    BY <1>2, <1>3 DEF StageOK, JobsOK
<1>6. \A k \in 1 .. Len(c) : c[k].kind # "in"
    BY <1>1 DEF StageOK, NoneOfKind
<1>7. i \in 1 .. Len(q) /\ w[i] = q[i]
    BY <1>3, <1>4, <1>6, ConcatAt
<1>8. PICK v \in Nat : v = ex.stage_pend
    BY BytesFacts
<1>9. ex.retired + i <= v /\ ex.retired \in Nat
    BY <1>4, <1>5, <1>8, BytesFacts DEF JobOK
<1>10. v > 0
    BY <1>9
<1>11. sem_reached(LetGo(ex), v)
    BY <1>8, <1>10 DEF Claimable
<1>12. ex.queue[i].kind = "spin"
    BY <1>1, <1>7, <1>9, <1>11, WaitOver
<1> QED BY <1>1, <1>4, <1>7, <1>12

\* ... and once a thread has waited for everything, nothing is but spins.
LEMMA WholeDone ==
    ASSUME AnswerInv, NEW t \in Threads, Waited(t), NEW kinds, "spin" \notin kinds
    PROVE  NoneOfKind(Whole(ex), kinds)
<1>1. ex.chain = <<>> /\ \A i \in 1 .. Len(ex.queue) : ex.queue[i].kind = "spin"
    BY AllDone
<1>2. PICK q \in Seq(Jobs) : q = ex.queue
    BY BytesFacts
<1>3. q \o <<>> = q
    OBVIOUS
<1>4. Whole(ex) = q
    BY <1>1, <1>2, <1>3 DEF Whole
<1> QED BY <1>1, <1>2, <1>4 DEF NoneOfKind

LEMMA HasNone ==
    ASSUME NEW jobs, NEW kind \in Kinds, NEW t \in Threads, NoneOfKind(jobs, {kind})
    PROVE  ~ Has(jobs, kind, t)
BY KindOfJob DEF Has, NoneOfKind

LEMMA HasMore ==
    ASSUME NEW jobs \in Seq(Jobs), NEW job \in Jobs, NEW kind, NEW t, Has(jobs, kind, t)
    PROVE  Has(Append(jobs, job), kind, t)
<1>1. PICK i \in 1 .. Len(jobs) : jobs[i] = Job(kind, t)
    BY DEF Has
<1>2. i \in 1 .. Len(Append(jobs, job)) /\ Append(jobs, job)[i] = jobs[i]
    OBVIOUS
<1> QED BY <1>1, <1>2 DEF Has

LEMMA HasLast ==
    ASSUME NEW jobs \in Seq(Jobs), NEW kind \in Kinds, NEW t \in Threads
    PROVE  Has(Append(jobs, Job(kind, t)), kind, t)
<1>1. PICK job \in Jobs : job = Job(kind, t)
    BY KindOfJob
<1>2. /\ Len(jobs) + 1 \in 1 .. Len(Append(jobs, job))
      /\ Append(jobs, job)[Len(jobs) + 1] = job
    OBVIOUS
<1> QED BY <1>1, <1>2 DEF Has

-----------------------------------------------------------------------------
\* The jobs to be done, over the kinds of step there are: a thread moves, ...
LEMMA JobsSame ==
    ASSUME NEW jobs \in Seq(Jobs), NEW retired, NEW pend, NEW more, NEW st,
           NEW d \in [Threads -> ThreadPlaces], JobsOK(jobs, retired, pend, st, d),
           NEW t \in Threads, NEW to, NEW moved, moved = [d EXCEPT ![t] = to],
           more = pend \/ NoneOfKind(jobs, {"in"}),
           to \in InStage => d[t] \in InStage \/ NoneOfKind(jobs, {"in"}),
           d[t] = "download" => NoneOfKind(jobs, {"out"}),
           d[t] \in Lent => to \in Lent \/ NoneOfKind(jobs, {"out by kernel"})
    PROVE  JobsOK(jobs, retired, more, st, moved)
<1>1. \A u \in Threads : moved[u] = IF u = t THEN to ELSE d[u]
    OBVIOUS
<1>2. SUFFICES ASSUME NEW i \in 1 .. Len(jobs)
               PROVE  JobOK(jobs, i, retired, more, st, moved)
    BY DEF JobsOK
<1>3. PICK job \in Jobs : job = jobs[i]
  <2>1. jobs[i] \in Jobs
      BY ONLY jobs \in Seq(Jobs), i \in 1 .. Len(jobs), JobAt
  <2> QED BY <2>1
<1>4. job.by \in Threads
    BY DEF Jobs
<1>5. JobOK(jobs, i, retired, pend, st, d)
    BY DEF JobsOK
<1>6. job.kind = "in" => /\ retired + i <= more /\ st = Uploaded(job.by)
                         /\ \A u \in Threads : moved[u] \notin InStage
    BY <1>1, <1>3, <1>5 DEF JobOK, NoneOfKind
<1>7. job.kind = "out" => i = Len(jobs) /\ moved[job.by] = "download"
    BY <1>1, <1>3, <1>4, <1>5 DEF JobOK, NoneOfKind
<1>8. job.kind = "out by kernel" => /\ moved[job.by] \in Lent
                                    /\ \A j \in i + 1 .. Len(jobs) : Quiet(jobs[j], job.by)
  <2>1. job.kind = "out by kernel" => d[job.by] \in Lent
      BY <1>3, <1>5 DEF JobOK
  <2>2. job.kind = "out by kernel" => moved[job.by] \in Lent
      BY <1>1, <1>3, <1>4, <2>1 DEF NoneOfKind
  <2>3. job.kind = "out by kernel" => \A j \in i + 1 .. Len(jobs) : Quiet(jobs[j], job.by)
      BY <1>3, <1>5 DEF JobOK
  <2> QED BY <2>2, <2>3
<1> QED BY <1>3, <1>6, <1>7, <1>8 DEF JobOK

\* ... or adds one, ...
LEMMA JobsMore ==
    ASSUME NEW jobs \in Seq(Jobs), NEW last \in Jobs, NEW longer, longer = Append(jobs, last),
           NEW retired, NEW pend, NEW more, NEW st, NEW now,
           NEW d \in [Threads -> ThreadPlaces], JobsOK(jobs, retired, pend, st, d),
           NEW t \in Threads, NEW to, NEW moved, moved = [d EXCEPT ![t] = to],
           (more = pend /\ now = st) \/ NoneOfKind(jobs, {"in"}),
           NoneOfKind(jobs, {"out"}),
           to \in InStage => d[t] \in InStage,
           \A u \in Threads : d[u] \in Lent => u # t /\ Quiet(last, u),
           JobOK(longer, Len(longer), retired, more, now, moved)
    PROVE  JobsOK(longer, retired, more, now, moved)
<1>1. \A u \in Threads : moved[u] = IF u = t THEN to ELSE d[u]
    OBVIOUS
<1>2. SUFFICES ASSUME NEW i \in 1 .. Len(longer)
               PROVE  JobOK(longer, i, retired, more, now, moved)
    BY DEF JobsOK
<1>3. CASE longer[i] = last /\ i = Len(longer)
    BY <1>3
<1>4. CASE i \in 1 .. Len(jobs) /\ longer[i] = jobs[i]
  <2>1. PICK job \in Jobs : job = jobs[i] /\ job = longer[i]
      BY <1>4
  <2>2. job.by \in Threads
      BY DEF Jobs
  <2>3. JobOK(jobs, i, retired, pend, st, d)
      BY <1>4 DEF JobsOK
  <2>4. job.kind # "out"
      BY <1>4, <2>1 DEF NoneOfKind
  <2>5. job.kind = "in" => /\ retired + i <= more /\ now = Uploaded(job.by)
                           /\ \A u \in Threads : moved[u] \notin InStage
      BY <1>1, <1>4, <2>1, <2>3 DEF JobOK, NoneOfKind
  <2>6. job.kind = "out by kernel" => /\ moved[job.by] \in Lent
                                      /\ \A j \in i + 1 .. Len(longer) : Quiet(longer[j], job.by)
    <3>1. SUFFICES ASSUME job.kind = "out by kernel"
                   PROVE  /\ moved[job.by] \in Lent
                          /\ \A j \in i + 1 .. Len(longer) : Quiet(longer[j], job.by)
        OBVIOUS
    <3>2. d[job.by] \in Lent /\ \A j \in i + 1 .. Len(jobs) : Quiet(jobs[j], job.by)
        BY <2>1, <2>3, <3>1 DEF JobOK
    <3>3. moved[job.by] \in Lent /\ Quiet(last, job.by)
        BY <1>1, <2>2, <3>2
    <3>4. ASSUME NEW j \in i + 1 .. Len(longer) PROVE Quiet(longer[j], job.by)
      <4>1. j \in 1 .. Len(longer) /\ j > i
          BY <1>4
      <4>2. \/ j \in 1 .. Len(jobs) /\ longer[j] = jobs[j]
            \/ longer[j] = last
          BY <4>1, AppendAt
      <4> QED BY <1>4, <3>2, <3>3, <4>1, <4>2
    <3> QED BY <3>3, <3>4
  <2> QED BY <2>1, <2>4, <2>5, <2>6 DEF JobOK
<1> QED BY <1>3, <1>4, AppendAt

\* ... or the engines end the first.
LEMMA JobsLess ==
    ASSUME NEW jobs \in Seq(Jobs), jobs # <<>>, NEW less, less = Tail(jobs),
           NEW retired \in Nat, NEW after, after = retired + 1, NEW pend \in Nat, NEW st, NEW now,
           NEW d, JobsOK(jobs, retired, pend, st, d),
           jobs[1].kind \notin {"out", "out by kernel"} => now = st
    PROVE  JobsOK(less, after, pend, now, d)
<1>1. PICK n \in Nat : /\ Len(jobs) = n + 1 /\ Len(less) = n
                       /\ \A i \in 1 .. n : less[i] = jobs[i + 1] /\ less[i] \in Jobs
  <2>1. \E n \in Nat : /\ Len(jobs) = n + 1 /\ Len(Tail(jobs)) = n
                       /\ \A i \in 1 .. n : Tail(jobs)[i] = jobs[i + 1] /\ Tail(jobs)[i] \in Jobs
      BY ONLY jobs \in Seq(Jobs), jobs # <<>>, TailIs
  <2> QED BY <2>1
<1>2. SUFFICES ASSUME NEW i \in 1 .. n PROVE JobOK(less, i, after, pend, now, d)
    BY <1>1 DEF JobsOK
<1>3. /\ i + 1 \in 1 .. n + 1 /\ i + 1 \in 1 + 1 .. n + 1 /\ 1 \in 1 .. n + 1 /\ 1 # n + 1
      /\ i + 1 = n + 1 => i = n
      /\ \A j \in i + 1 .. n : j \in 1 .. n /\ j + 1 \in (i + 1) + 1 .. n + 1
      /\ \A r \in Nat : r + (i + 1) = (r + 1) + i
    BY ONLY n \in Nat, i \in 1 .. n, NextPlace
<1>4. PICK job \in Jobs : job = less[i] /\ job = jobs[i + 1]
    BY <1>1
<1>5. JobOK(jobs, i + 1, retired, pend, st, d) /\ JobOK(jobs, 1, retired, pend, st, d)
    BY <1>1, <1>3 DEF JobsOK
<1>6. jobs[1].kind # "out"
    BY <1>1, <1>3, <1>5 DEF JobOK
<1>7. CASE jobs[1].kind = "out by kernel"
  <2>1. Quiet(job, jobs[1].by)
    <3>1. \A j \in 1 + 1 .. n + 1 : Quiet(jobs[j], jobs[1].by)
        BY <1>1, <1>5, <1>7 DEF JobOK
    <3> QED BY <1>3, <1>4, <3>1
  <2>2. job.kind \in {"spin", "kernel"}
      BY <2>1 DEF Quiet
  <2> QED BY <1>4, <2>2 DEF JobOK
<1>8. CASE jobs[1].kind # "out by kernel"
  <2>1. now = st
      BY <1>6, <1>8
  <2>2. retired + (i + 1) = after + i
      BY <1>3
  <2>3. job.kind = "in" => /\ after + i <= pend /\ now = Uploaded(job.by)
                           /\ \A u \in Threads : d[u] \notin InStage
      BY <1>4, <1>5, <2>1, <2>2 DEF JobOK
  <2>4. job.kind = "out" => i = n /\ d[job.by] = "download"
    <3>1. job.kind = "out" => i + 1 = n + 1 /\ d[job.by] = "download"
        BY <1>1, <1>4, <1>5 DEF JobOK
    <3> QED BY <1>3, <3>1
  <2>5. job.kind = "out by kernel" => d[job.by] \in Lent
      BY <1>4, <1>5 DEF JobOK
  <2>6. ASSUME job.kind = "out by kernel", NEW j \in i + 1 .. n
        PROVE  Quiet(less[j], job.by)
    <3>1. j + 1 \in (i + 1) + 1 .. n + 1 /\ j \in 1 .. n
        BY <1>3
    <3>2. less[j] = jobs[j + 1]
        BY <1>1, <3>1
    <3>3. \A k \in (i + 1) + 1 .. n + 1 : Quiet(jobs[k], job.by)
        BY <1>1, <1>4, <1>5, <2>6 DEF JobOK
    <3> QED BY <3>1, <3>2, <3>3
  <2> QED BY <1>1, <1>4, <2>3, <2>4, <2>5, <2>6 DEF JobOK
<1> QED BY <1>7, <1>8

-----------------------------------------------------------------------------
\* The bytes, over the same steps: a thread moves, with what is to be done
\* left as it is or handed over, ...
LEMMA BytesMove ==
    ASSUME AnswerInv, BytesInv, NEW t \in Threads, NEW to, doing' = [doing EXCEPT ![t] = to],
           Whole(ex') = Whole(ex), ex'.retired = ex.retired,
           ex'.chain = ex.chain \/ ex'.chain = <<>>,
           UNCHANGED <<mem, stage, expected>>, misread' = misread,
           ex'.stage_pend = ex.stage_pend \/ NoneOfKind(Whole(ex), {"in"}),
           \/ to \notin InStage
           \/ doing[t] \in InStage
           \/ NoneOfKind(Whole(ex), {"in"}) /\ ~ Another(t, InStage),
           doing[t] = "download" => NoneOfKind(Whole(ex), {"out"}),
           doing[t] \in Lent => to \in Lent \/ NoneOfKind(Whole(ex), {"out by kernel"}),
           WaitsFor(Whole(ex), stage, expected[t], to, t)
    PROVE  BytesInv'
<1>1. Carried /\ StageOK /\ ReadOK /\ ~misread
    BY DEF BytesInv
<1>2. Carried'
    BY <1>1, CarriedSame
<1>3. doing \in [Threads -> ThreadPlaces] /\ Whole(ex) \in Seq(Jobs)
    BY BytesFacts, WholeIs
<1>4. \A u \in Threads : doing'[u] = IF u = t THEN to ELSE doing[u]
    BY <1>3
<1>5. StageOK'
  <2>1. JobsOK(Whole(ex), ex.retired, ex'.stage_pend, stage, doing')
    <3>1. JobsOK(Whole(ex), ex.retired, ex.stage_pend, stage, doing)
        BY <1>1 DEF StageOK
    <3>2. to \in InStage => doing[t] \in InStage \/ NoneOfKind(Whole(ex), {"in"})
        OBVIOUS
    <3> QED BY <1>3, <3>1, <3>2, JobsSame
  <2>2. NoneOfKind(ex'.chain, {"in", "out"})
      BY <1>1, NothingAt DEF StageOK, NoneOfKind
  <2>3. AtMostOne(doing')
      BY <1>1, <1>4 DEF StageOK, AtMostOne, Another
  <2> QED BY <2>1, <2>2, <2>3 DEF StageOK
<1>6. ReadOK'
  <2>1. ASSUME NEW u \in Threads
        PROVE  WaitsFor(Whole(ex'), stage', expected'[u], doing'[u], u)
    <3>1. WaitsFor(Whole(ex), stage, expected[u], doing[u], u)
        BY <1>1 DEF ReadOK
    <3> QED BY <1>4, <3>1
  <2> QED BY <2>1 DEF ReadOK
<1> QED BY <1>1, <1>2, <1>5, <1>6 DEF BytesInv

\* ... or adds a job of its own.
LEMMA BytesMore ==
    ASSUME AnswerInv, BytesInv, NEW t \in Threads, NEW to, doing' = [doing EXCEPT ![t] = to],
           lock = Nobody, NEW job \in Jobs, job.by = t,
           Whole(ex') = Append(Whole(ex), job), ex'.retired = ex.retired,
           NoneOfKind(ex'.chain, {"in", "out"}), mem' = mem, misread' = misread,
           \A u \in Threads : expected'[u] = Effect(job, u, expected[u]),
           \/ stage' = stage /\ ex'.stage_pend = ex.stage_pend
           \/ NoneOfKind(Whole(ex), {"in"}) /\ \A u \in Threads : doing[u] \notin InStage,
           to \in InStage => doing[t] \in InStage,
           \A u \in Threads : doing[u] \in Lent => u # t /\ Quiet(job, u),
           JobOK(Append(Whole(ex), job), Len(Append(Whole(ex), job)), ex.retired,
                 ex'.stage_pend, stage', doing'),
           WaitsFor(Append(Whole(ex), job), stage', expected'[t], to, t)
    PROVE  BytesInv'
<1>1. Carried /\ StageOK /\ ReadOK /\ ~misread
    BY DEF BytesInv
<1>2. doing \in [Threads -> ThreadPlaces] /\ Whole(ex) \in Seq(Jobs)
    BY BytesFacts, WholeIs
<1>3. Carried'
    BY <1>1, <1>2, CarriedMore
<1>4. \A u \in Threads : doing'[u] = IF u = t THEN to ELSE doing[u]
    BY <1>2
<1>5. StageOK'
  <2>1. JobsOK(Append(Whole(ex), job), ex.retired, ex'.stage_pend, stage', doing')
    <3>1. JobsOK(Whole(ex), ex.retired, ex.stage_pend, stage, doing)
        BY <1>1 DEF StageOK
    <3>2. NoneOfKind(Whole(ex), {"out"})
        BY <1>1, NoneOut
    <3>3. \/ ex'.stage_pend = ex.stage_pend /\ stage' = stage
          \/ NoneOfKind(Whole(ex), {"in"})
        OBVIOUS
    <3>4. PICK longer : longer = Append(Whole(ex), job)
        OBVIOUS
    <3>5. JobOK(longer, Len(longer), ex.retired, ex'.stage_pend, stage', doing')
        BY <3>4
    <3>6. JobsOK(longer, ex.retired, ex'.stage_pend, stage', doing')
        BY ONLY <1>2, <3>1, <3>2, <3>3, <3>4, <3>5, JobsMore, t \in Threads, job \in Jobs,
           doing' = [doing EXCEPT ![t] = to], to \in InStage => doing[t] \in InStage,
           \A u \in Threads : doing[u] \in Lent => u # t /\ Quiet(job, u)
    <3> QED BY <3>4, <3>6
  <2>2. AtMostOne(doing')
      BY <1>1, <1>4 DEF StageOK, AtMostOne
  <2> QED BY <2>1, <2>2 DEF StageOK
<1>6. ReadOK'
  <2>1. ASSUME NEW u \in Threads
        PROVE  WaitsFor(Whole(ex'), stage', expected'[u], doing'[u], u)
    <3>1. CASE u = t
        BY <1>4, <3>1
    <3>2. CASE u # t
      <4>1. doing'[u] = doing[u] /\ expected'[u] = expected[u]
          BY <1>4, <3>2 DEF Effect
      <4>2. doing[u] # "download"
          BY BytesFacts DEF PlaceOK, Holding
      <4>3. WaitsFor(Whole(ex), stage, expected[u], doing[u], u)
          BY <1>1 DEF ReadOK
      <4>4. doing[u] \in InStage => stage' = stage
          OBVIOUS
      <4>5. Has(Whole(ex), "out by kernel", u) => Has(Whole(ex'), "out by kernel", u)
          BY <1>2, HasMore
      <4> QED BY <4>1, <4>2, <4>3, <4>4, <4>5 DEF WaitsFor, Lent, InStage
    <3> QED BY <3>1, <3>2
  <2> QED BY <2>1 DEF ReadOK
<1> QED BY <1>1, <1>3, <1>5, <1>6 DEF BytesInv

LEMMA WaitsElsewhere ==
    ASSUME NEW place, place \notin Lent \cup {"download", "reading out"}, NEW jobs, NEW st,
           NEW want, NEW t
    PROVE  WaitsFor(jobs, st, want, place, t)
BY DEF WaitsFor

LEMMA NothingBuilt ==
    ASSUME NEW s, s = <<>>, NEW kinds
    PROVE  NoneOfKind(s, kinds)
BY NothingAt DEF NoneOfKind

LEMMA ChainMore ==
    ASSUME AnswerInv, StageOK, NEW job \in Jobs, job.kind \notin {"in", "out"}, NEW c,
           c = Append(ex.chain, job)
    PROVE  NoneOfKind(c, {"in", "out"})
<1>1. PICK b \in Seq(Jobs) : b = ex.chain
    BY BytesFacts
<1>2. \A i \in 1 .. Len(b) : b[i].kind \notin {"in", "out"}
    BY <1>1 DEF StageOK, NoneOfKind
<1>3. ASSUME NEW i \in 1 .. Len(c) PROVE c[i].kind \notin {"in", "out"}
    BY <1>1, <1>2, AppendAt
<1> QED BY <1>3 DEF NoneOfKind

LEMMA LenMore ==
    ASSUME NEW jobs \in Seq(Jobs), NEW job \in Jobs, NEW longer, longer = Append(jobs, job)
    PROVE  longer[Len(longer)] = job /\ Len(longer) = Len(jobs) + 1 /\ Len(longer) \in Nat
OBVIOUS

LEMMA NothingBehind ==
    ASSUME NEW n \in Nat
    PROVE  \A j \in n + 1 .. n : FALSE
OBVIOUS

-----------------------------------------------------------------------------
\* Each step of a thread, for the bytes.
LEMMA UploadBytes ==
    ASSUME AnswerInv, BytesInv, ~shared', NEW t \in Threads, Upload(t)
    PROVE  BytesInv'
<1>1. /\ ex \in ExecStates /\ QueueOK(ex) /\ ex.chain \in Seq(Jobs) /\ doing \in [Threads -> ThreadPlaces]
      /\ expected \in [Threads -> Values] /\ StageOK /\ Whole(ex) \in Seq(Jobs)
    BY BytesFacts, WholeIs DEF BytesInv, BytesOK
<1>2. /\ HandedIn(ex, ex', ex.chain \o <<Job("in", t)>>) /\ ex.chain
           \o <<Job("in", t)>> \in Seq(Jobs)
      /\ ex'.chain = <<>> /\ ex'.stage_pend = TimelineOf(ex')
    BY <1>1, UploadedIs DEF Upload
<1>3. /\ doing[t] = "nothing" /\ lock = Nobody /\ Claimable(ex) /\ ~ Another(t, InStage)
      /\ stage' = Uploaded(t) /\ expected' = [expected EXCEPT ![t] = Uploaded(t)]
      /\ mem' = mem /\ doing' = doing /\ misread' = misread
    BY DEF Upload, At, Unheld, ClaimForUpload, UsesStage
<1>4. PICK job \in Jobs : job = Job("in", t) /\ job.kind = "in" /\ job.by = t
  <2>1. "in" \in Kinds
      BY DEF Kinds
  <2> QED BY <2>1, TheJob
<1>5. doing' = [doing EXCEPT ![t] = "nothing"]
    BY <1>1, <1>3
<1>6. NoneOfKind(Whole(ex), {"in"}) /\ \A u \in Threads : doing[u] \notin InStage
  <2>1. doing[t] \notin InStage
      BY <1>3 DEF InStage
  <2> QED BY <1>1, <1>3, <2>1, NoneIn DEF Another
<1>7. Whole(ex') = Append(Whole(ex), job) /\ ex'.retired = ex.retired
    BY <1>1, <1>2, <1>4, WholeMore DEF HandedIn
<1>8. \A u \in Threads : expected'[u] = Effect(job, u, expected[u])
    BY <1>1, <1>3, <1>4 DEF Effect
<1>9. JobOK(Append(Whole(ex), job), Len(Append(Whole(ex), job)), ex.retired,
            ex'.stage_pend, stage', doing')
  <2>1. PICK longer : longer = Append(Whole(ex), job)
      OBVIOUS
  <2>2. longer[Len(longer)] = job
      BY <1>1, <2>1, LenMore
  <2>3. ex'.stage_pend = ex.retired + Len(longer)
    <3>1. PICK q \in Seq(Jobs) : q = ex'.queue
        BY <1>2 DEF HandedIn, ExecStates
    <3>2. q \o <<>> = q
        OBVIOUS
    <3>3. longer = q
        BY <1>2, <1>7, <2>1, <3>1, <3>2 DEF Whole
    <3> QED BY <1>2, <1>7, <3>1, <3>3 DEF TimelineOf
  <2>4. ex.retired + Len(longer) <= ex'.stage_pend
    <3>1. PICK n \in Nat, r \in Nat : n = Len(longer) /\ r = ex.retired
        BY <1>1, <2>1, LenMore, BytesFacts
    <3>2. r + n <= r + n
        OBVIOUS
    <3> QED BY <2>3, <3>1, <3>2
  <2> QED BY <1>3, <1>4, <1>6, <2>1, <2>2, <2>4 DEF JobOK
<1>10. WaitsFor(Append(Whole(ex), job), stage', expected'[t], "nothing", t)
    BY DEF WaitsFor, Lent
<1>11. /\ NoneOfKind(ex'.chain, {"in", "out"}) /\ "nothing" \notin InStage
       /\ \A u \in Threads : doing[u] \notin Lent
    BY <1>2, <1>6, NothingBuilt DEF InStage, Lent
<1>12. PICK to : to = "nothing"
    OBVIOUS
<1>13. doing' = [doing EXCEPT ![t] = to] /\ (to \in InStage => doing[t] \in InStage)
    BY <1>5, <1>11, <1>12
<1>14. WaitsFor(Append(Whole(ex), job), stage', expected'[t], to, t)
    BY <1>10, <1>12
<1>15. \A u \in Threads : doing[u] \in Lent => u # t /\ Quiet(job, u)
    BY <1>11
<1>16. \/ stage' = stage /\ ex'.stage_pend = ex.stage_pend
       \/ NoneOfKind(Whole(ex), {"in"}) /\ \A u \in Threads : doing[u] \notin InStage
    BY <1>6
<1> QED BY <1>3, <1>4, <1>7, <1>8, <1>9, <1>11, <1>13, <1>14, <1>15, <1>16, BytesMore

LEMMA DownloadBeginsBytes ==
    ASSUME AnswerInv, BytesInv, ~shared', NEW t \in Threads, DownloadBegins(t)
    PROVE  BytesInv'
<1>1. /\ ex \in ExecStates /\ QueueOK(ex) /\ ex.chain \in Seq(Jobs) /\ doing \in [Threads -> ThreadPlaces]
      /\ StageOK /\ Whole(ex) \in Seq(Jobs)
    BY BytesFacts, WholeIs DEF BytesInv
<1>2. /\ HandedIn(ex, ex', ex.chain \o <<Job("out", t)>>) /\ ex.chain
           \o <<Job("out", t)>> \in Seq(Jobs)
      /\ ex'.chain = <<>> /\ ex'.stage_pend = ex.stage_pend
    BY DownloadBeginsHands
<1>3. /\ doing[t] = "nothing" /\ lock = Nobody /\ ~ Another(t, InStage)
      /\ UNCHANGED <<mem, stage, expected>> /\ misread' = misread
      /\ doing' = [doing EXCEPT ![t] = "download"]
    BY DEF DownloadBegins, At, Unheld, Goes, UsesStage
<1>4. PICK job \in Jobs : job = Job("out", t) /\ job.kind = "out" /\ job.by = t
  <2>1. "out" \in Kinds
      BY DEF Kinds
  <2> QED BY <2>1, TheJob
<1>5. Whole(ex') = Append(Whole(ex), job) /\ ex'.retired = ex.retired
    BY <1>1, <1>2, <1>4, WholeMore DEF HandedIn
<1>6. \A u \in Threads : expected'[u] = Effect(job, u, expected[u])
    BY <1>3, <1>4 DEF Effect
<1>7. \A u \in Threads : doing[u] \notin Lent
    BY <1>3 DEF Another, Lent, InStage
<1>8. JobOK(Append(Whole(ex), job), Len(Append(Whole(ex), job)), ex.retired,
            ex'.stage_pend, stage', doing')
  <2>1. PICK longer : longer = Append(Whole(ex), job)
      OBVIOUS
  <2>2. longer[Len(longer)] = job
      BY <1>1, <2>1, LenMore
  <2>3. doing'[t] = "download"
      BY <1>1, <1>3
  <2> QED BY <1>4, <2>1, <2>2, <2>3 DEF JobOK
<1>9. WaitsFor(Append(Whole(ex), job), stage', expected'[t], "download", t)
  <2>1. Has(Append(Whole(ex), job), "out", t)
      BY <1>1, <1>4, HasLast DEF Kinds
  <2> QED BY <2>1 DEF WaitsFor, Lent
<1>10. NoneOfKind(ex'.chain, {"in", "out"}) /\ "download" \notin InStage
    BY <1>2, NothingBuilt DEF InStage
<1> QED BY <1>2, <1>3, <1>4, <1>5, <1>6, <1>7, <1>8, <1>9, <1>10, BytesMore

\* A kernel is built, and perhaps a download's.
LEMMA BytesBuilt ==
    ASSUME AnswerInv, BytesInv, NEW t \in Threads, NEW to, doing' = [doing EXCEPT ![t] = to],
           lock = Nobody, doing[t] \notin Lent, NEW kind \in {"kernel", "spin", "out by kernel"},
           HandedIn(ex, ex', <<>>), ex'.queue = ex.queue,
           ex'.chain = Append(ex.chain, Job(kind, t)), ex'.stage_pend = ex.stage_pend,
           UNCHANGED <<mem, stage>>, misread' = misread,
           \A u \in Threads : expected'[u] = Effect(Job(kind, t), u, expected[u]),
           \/ kind # "out by kernel" /\ to \in {"nothing", "launched spin"}
           \/ kind = "out by kernel" /\ to = "launched out" /\ doing[t] = "launching out"
    PROVE  BytesInv'
<1>1. /\ StageOK /\ ex \in ExecStates /\ ex.chain \in Seq(Jobs) /\ Whole(ex) \in Seq(Jobs)
      /\ doing \in [Threads -> ThreadPlaces] /\ ex'.retired = ex.retired
    BY BytesFacts, WholeIs DEF BytesInv, HandedIn
<1>2. PICK job \in Jobs : job = Job(kind, t) /\ job.kind = kind /\ job.by = t
  <2>1. kind \in Kinds
      BY DEF Kinds
  <2> QED BY <2>1, TheJob
<1>3. Whole(ex') = Append(Whole(ex), job)
    BY <1>1, <1>2, WholeMore
<1>4. NoneOfKind(ex'.chain, {"in", "out"})
    BY <1>1, <1>2, ChainMore
<1>5. ASSUME NEW u \in Threads, doing[u] \in Lent PROVE u # t /\ Quiet(job, u)
  <2>1. u # t
      BY <1>5
  <2>2. kind # "out by kernel"
    <3>1. SUFFICES ASSUME doing[t] = "launching out" PROVE FALSE
        OBVIOUS
    <3> QED BY <1>1, <1>5, <2>1, <3>1 DEF StageOK, AtMostOne, Lent, InStage
  <2> QED BY <1>2, <2>1, <2>2 DEF Quiet
<1>6. JobOK(Append(Whole(ex), job), Len(Append(Whole(ex), job)), ex.retired,
            ex'.stage_pend, stage', doing')
  <2>1. PICK longer : longer = Append(Whole(ex), job)
      OBVIOUS
  <2>2. longer[Len(longer)] = job /\ Len(longer) \in Nat
      BY <1>1, <2>1, LenMore
  <2>3. \A j \in Len(longer) + 1 .. Len(longer) : FALSE
      BY <2>2, NothingBehind
  <2>4. kind = "out by kernel" => doing'[t] \in Lent
      BY <1>1 DEF Lent
  <2> QED BY <1>2, <2>1, <2>2, <2>3, <2>4 DEF JobOK
<1>7. WaitsFor(Append(Whole(ex), job), stage', expected'[t], to, t)
  <2>1. CASE kind # "out by kernel"
      BY <2>1 DEF WaitsFor, Lent
  <2>2. CASE kind = "out by kernel"
    <3>1. Has(Append(Whole(ex), job), "out by kernel", t)
        BY <1>1, <1>2, <2>2, HasLast DEF Kinds
    <3> QED BY <2>2, <3>1 DEF WaitsFor, Lent
  <2> QED BY <2>1, <2>2
<1>8. to \in InStage => doing[t] \in InStage
    BY DEF InStage
<1> QED BY <1>1, <1>2, <1>3, <1>4, <1>5, <1>6, <1>7, <1>8, BytesMore

LEMMA LaunchBytes ==
    ASSUME AnswerInv, BytesInv, NEW t \in Threads, Launch(t)
    PROVE  BytesInv'
<1>1. doing \in [Threads -> ThreadPlaces] /\ expected \in [Threads -> Values]
    BY BytesFacts DEF BytesOK
<1>2. /\ HandedIn(ex, ex', <<>>) /\ ex'.queue = ex.queue /\ ex'.stage_pend = ex.stage_pend
      /\ ex'.chain = Append(ex.chain, Job("kernel", t))
    BY LaunchHands
<1>3. /\ doing[t] = "nothing" /\ lock = Nobody
      /\ UNCHANGED <<mem, stage>> /\ misread' = misread
      /\ doing' = [doing EXCEPT ![t] = "nothing"]
    BY <1>1 DEF Launch, At, Unheld, Goes
<1>4. Job("kernel", t).kind = "kernel" /\ Job("kernel", t).by = t
    BY KindOfJob DEF Kinds
<1>5. \A u \in Threads : expected'[u] = Effect(Job("kernel", t), u, expected[u])
    BY <1>1, <1>4 DEF Launch, Effect
<1>6. doing[t] \notin Lent
    BY <1>3 DEF Lent
<1> QED BY <1>2, <1>3, <1>5, <1>6, BytesBuilt

LEMMA LaunchOutBytes ==
    ASSUME AnswerInv, BytesInv, NEW t \in Threads, LaunchOut(t)
    PROVE  BytesInv'
<1>1. doing \in [Threads -> ThreadPlaces] /\ expected \in [Threads -> Values]
    BY BytesFacts DEF BytesOK
<1>2. /\ HandedIn(ex, ex', <<>>) /\ ex'.queue = ex.queue /\ ex'.stage_pend = ex.stage_pend
      /\ ex'.chain = Append(ex.chain, Job("out by kernel", t))
    BY LaunchOutHands
<1>3. /\ doing[t] = "launching out" /\ lock = Nobody
      /\ UNCHANGED <<mem, stage>> /\ misread' = misread
      /\ doing' = [doing EXCEPT ![t] = "launched out"]
    BY <1>1 DEF LaunchOut, At, Unheld, Goes
<1>4. Job("out by kernel", t).kind = "out by kernel" /\ Job("out by kernel", t).by = t
    BY KindOfJob DEF Kinds
<1>5. \A u \in Threads : expected'[u] = Effect(Job("out by kernel", t), u, expected[u])
    BY <1>1, <1>4 DEF LaunchOut, Effect
<1>6. doing[t] \notin Lent
    BY <1>3 DEF Lent
<1> QED BY <1>2, <1>3, <1>5, <1>6, BytesBuilt

LEMMA LaunchSpinBytes ==
    ASSUME AnswerInv, BytesInv, NEW t \in Threads, LaunchSpin(t)
    PROVE  BytesInv'
<1>1. doing \in [Threads -> ThreadPlaces] /\ expected \in [Threads -> Values]
    BY BytesFacts DEF BytesOK
<1>2. /\ HandedIn(ex, ex', <<>>) /\ ex'.queue = ex.queue /\ ex'.stage_pend = ex.stage_pend
      /\ ex'.chain = Append(ex.chain, Job("spin", t))
    BY LaunchSpinHands
<1>3. /\ doing[t] = "launching spin" /\ lock = Nobody
      /\ UNCHANGED <<mem, stage>> /\ misread' = misread
      /\ doing' = [doing EXCEPT ![t] = "launched spin"]
    BY <1>1 DEF LaunchSpin, At, Unheld, Goes
<1>4. Job("spin", t).kind = "spin" /\ Job("spin", t).by = t
    BY KindOfJob DEF Kinds
<1>5. \A u \in Threads : expected'[u] = Effect(Job("spin", t), u, expected[u])
    BY <1>1, <1>4 DEF LaunchSpin, Effect
<1>6. doing[t] \notin Lent
    BY <1>3 DEF Lent
<1> QED BY <1>2, <1>3, <1>5, <1>6, BytesBuilt

\* What is built is handed over and nothing else is.
LEMMA BytesFlushed ==
    ASSUME AnswerInv, BytesInv, NEW t \in Threads, NEW to, doing' = [doing EXCEPT ![t] = to],
           doing[t] \in {"nothing", "launched spin"}, to \in {"syncing", "flushed spin", "recording"},
           HandedIn(ex, ex', ex.chain), ex'.chain = <<>>, ex'.stage_pend = ex.stage_pend,
           UNCHANGED <<mem, stage, expected>>, misread' = misread
    PROVE  BytesInv'
<1>1. Whole(ex') = Whole(ex) /\ ex'.retired = ex.retired
    BY BytesFacts, WholeFlushed DEF HandedIn
<1>2. /\ to \notin InStage /\ doing[t] \notin Lent /\ doing[t] # "download"
      /\ WaitsFor(Whole(ex), stage, expected[t], to, t)
    BY DEF WaitsFor, Lent, InStage
<1> QED BY <1>1, <1>2, BytesMove

LEMMA SyncBeginsBytes ==
    ASSUME AnswerInv, BytesInv, NEW t \in Threads, SyncBegins(t)
    PROVE  BytesInv'
<1>1. HandedIn(ex, ex', ex.chain) /\ ex'.chain = <<>> /\ ex'.stage_pend = ex.stage_pend
    BY SyncBeginsHands
<1>2. /\ doing[t] = "nothing"
      /\ UNCHANGED <<mem, stage, expected>> /\ misread' = misread
      /\ doing' = [doing EXCEPT ![t] = "syncing"]
    BY DEF SyncBegins, IdleBegins, At, Goes
<1> QED BY <1>1, <1>2, BytesFlushed

LEMMA FlushSpinBytes ==
    ASSUME AnswerInv, BytesInv, NEW t \in Threads, FlushSpin(t)
    PROVE  BytesInv'
<1>1. HandedIn(ex, ex', ex.chain) /\ ex'.chain = <<>> /\ ex'.stage_pend = ex.stage_pend
    BY FlushSpinHands
<1>2. /\ doing[t] = "launched spin"
      /\ UNCHANGED <<mem, stage, expected>> /\ misread' = misread
      /\ doing' = [doing EXCEPT ![t] = "flushed spin"]
    BY DEF FlushSpin, At, Goes
<1> QED BY <1>1, <1>2, BytesFlushed

LEMMA EventRecordBytes ==
    ASSUME AnswerInv, BytesInv, NEW t \in Threads, EventRecord(t)
    PROVE  BytesInv'
<1>1. HandedIn(ex, ex', ex.chain) /\ ex'.chain = <<>> /\ ex'.stage_pend = ex.stage_pend
    BY EventRecordHands
<1>2. /\ doing[t] = "nothing"
      /\ UNCHANGED <<mem, stage, expected>> /\ misread' = misread
      /\ doing' = [doing EXCEPT ![t] = "recording"]
    BY DEF EventRecord, At, Goes
<1> QED BY <1>1, <1>2, BytesFlushed

LEMMA KernelIdleBytes ==
    ASSUME AnswerInv, BytesInv, NEW t \in Threads, KernelIdle(t)
    PROVE  BytesInv'
<1>1. HandedIn(ex, ex', ex.chain) /\ ex'.chain = <<>> /\ ex'.stage_pend = ex.stage_pend
    BY KernelIdleHands
<1>2. Whole(ex') = Whole(ex) /\ ex'.retired = ex.retired
    BY <1>1, BytesFacts, WholeFlushed DEF HandedIn
<1>3. /\ doing[t] = "out" /\ doing' = [doing EXCEPT ![t] = "idling out"]
      /\ UNCHANGED <<mem, stage, expected>> /\ misread' = misread
    BY DEF KernelIdle, IdleBegins, At, Goes
<1>4. /\ "idling out" \in Lent /\ doing[t] \in InStage /\ doing[t] # "download"
      /\ WaitsFor(Whole(ex), stage, expected[t], "idling out", t)
    BY <1>3 DEF BytesInv, ReadOK, WaitsFor, Lent, InStage
<1> QED BY <1>1, <1>2, <1>3, <1>4, BytesMove

LEMMA SameWhole ==
    ASSUME ex'.queue = ex.queue, ex'.chain = ex.chain
    PROVE  Whole(ex') = Whole(ex)
BY DEF Whole

LEMMA DownloadEndsBytes ==
    ASSUME AnswerInv, BytesInv, NEW t \in Threads, DownloadEnds(t)
    PROVE  BytesInv'
<1>1. HandedIn(ex, ex', <<>>) /\ ex'.queue = ex.queue /\ ex'.chain = ex.chain
    BY DownloadEndsHands
<1>2. /\ doing[t] = "download" /\ Waited(t) /\ doing' = [doing EXCEPT ![t] = "idled"]
      /\ UNCHANGED <<mem, stage, expected>> /\ misread' = (misread \/ stage # expected[t])
    BY DEF DownloadEnds, Reads, At, Goes
<1>3. NoneOfKind(Whole(ex), {"in"}) /\ NoneOfKind(Whole(ex), {"out"})
    BY <1>2, WholeDone
<1>4. ~misread /\ stage = expected[t]
  <2>1. WaitsFor(Whole(ex), stage, expected[t], "download", t) /\ ~misread
      BY <1>2 DEF BytesInv, ReadOK
  <2>2. ~ Has(Whole(ex), "out", t)
      BY <1>3, HasNone DEF Kinds
  <2> QED BY <2>1, <2>2 DEF WaitsFor
<1>5. misread' = misread /\ ex'.retired = ex.retired
  <2>1. misread \in BOOLEAN
      BY BytesFacts DEF BytesOK
  <2>2. misread' = misread
      BY <1>2, <1>4, <2>1
  <2> QED BY <1>1, <2>2 DEF HandedIn
<1>6. /\ WaitsFor(Whole(ex), stage, expected[t], "idled", t) /\ "idled" \notin InStage
      /\ doing[t] \notin Lent
    BY <1>2 DEF WaitsFor, Lent, InStage
<1> QED BY <1>1, <1>2, <1>3, <1>5, <1>6, SameWhole, BytesMove

LEMMA KernelIdledBytes ==
    ASSUME AnswerInv, BytesInv, NEW t \in Threads, KernelIdled(t)
    PROVE  BytesInv'
<1>1. /\ HandedIn(ex, ex', <<>>) /\ ex'.queue = ex.queue
      /\ ex'.chain = ex.chain /\ ex'.stage_pend = ex.stage_pend
    BY KernelIdledHands
<1>2. /\ doing[t] = "idling out" /\ Waited(t) /\ doing' = [doing EXCEPT ![t] = "reading out"]
      /\ UNCHANGED <<mem, stage, expected>> /\ misread' = misread
    BY DEF KernelIdled, At, Goes
<1>3. NoneOfKind(Whole(ex), {"out by kernel"})
  <2>1. "spin" \notin {"out by kernel"}
      OBVIOUS
  <2> QED BY <1>2, <2>1, WholeDone
<1>4. stage = expected[t]
  <2>1. WaitsFor(Whole(ex), stage, expected[t], "idling out", t)
      BY <1>2 DEF BytesInv, ReadOK
  <2>2. ~ Has(Whole(ex), "out by kernel", t)
      BY <1>3, HasNone DEF Kinds
  <2> QED BY <2>1, <2>2 DEF WaitsFor, Lent
<1>5. /\ WaitsFor(Whole(ex), stage, expected[t], "reading out", t) /\ doing[t] \in InStage
      /\ doing[t] # "download" /\ ex'.retired = ex.retired
    BY <1>1, <1>2, <1>4 DEF WaitsFor, Lent, InStage, HandedIn
<1> QED BY <1>1, <1>2, <1>3, <1>5, SameWhole, BytesMove

LEMMA ReadStageBytes ==
    ASSUME AnswerInv, BytesInv, NEW t \in Threads, ReadStage(t)
    PROVE  BytesInv'
<1>1. /\ doing[t] = "reading out" /\ doing' = [doing EXCEPT ![t] = "idled"] /\ ex' = ex
      /\ UNCHANGED <<mem, stage, expected>> /\ misread' = (misread \/ stage # expected[t])
    BY DEF ReadStage, Reads, At, Goes
<1>2. ~misread /\ stage = expected[t]
    BY <1>1 DEF BytesInv, ReadOK, WaitsFor
<1>3. misread' = misread
  <2>1. misread \in BOOLEAN
      BY BytesFacts DEF BytesOK
  <2> QED BY <1>1, <1>2, <2>1
<1>4. /\ WaitsFor(Whole(ex), stage, expected[t], "idled", t) /\ "idled" \notin InStage
      /\ doing[t] \notin Lent /\ doing[t] # "download"
    BY <1>1 DEF WaitsFor, Lent, InStage
<1> QED BY <1>1, <1>3, <1>4, SameWhole, BytesMove

LEMMA ClaimStageBytes ==
    ASSUME AnswerInv, BytesInv, ~shared', NEW t \in Threads, ClaimStage(t)
    PROVE  BytesInv'
<1>1. HandedIn(ex, ex', <<>>) /\ ex'.queue = ex.queue /\ ex'.chain = ex.chain
    BY ClaimStageHands
<1>2. /\ doing[t] = "nothing" /\ Claimable(ex) /\ doing' = [doing EXCEPT ![t] = "claimed"]
      /\ UNCHANGED <<mem, stage, expected>> /\ misread' = misread /\ ~ Another(t, InStage)
    BY DEF ClaimStage, At, Goes, UsesStage
<1>3. NoneOfKind(Whole(ex), {"in"})
    BY <1>2, NoneIn DEF BytesInv
<1>4. /\ WaitsFor(Whole(ex), stage, expected[t], "claimed", t)
      /\ doing[t] \notin Lent /\ doing[t] # "download" /\ ex'.retired = ex.retired
    BY <1>1, <1>2 DEF WaitsFor, Lent, HandedIn
<1> QED BY <1>1, <1>2, <1>3, <1>4, SameWhole, BytesMove

\* A thread moves with nothing to do with the stage.
LEMMA BytesElsewhere ==
    ASSUME AnswerInv, BytesInv, NEW t \in Threads, NEW to, doing' = [doing EXCEPT ![t] = to],
           ex'.queue = ex.queue, ex'.chain = ex.chain, ex'.stage_pend = ex.stage_pend,
           ex'.retired = ex.retired,
           UNCHANGED <<mem, stage, expected>>, misread' = misread,
           doing[t] \notin InStage \cup {"download"}, to \notin InStage \cup {"download"}
    PROVE  BytesInv'
<1>1. /\ WaitsFor(Whole(ex), stage, expected[t], to, t) /\ doing[t] \notin Lent
      /\ doing[t] # "download" /\ to \notin InStage
    BY DEF WaitsFor, Lent, InStage
<1> QED BY <1>1, SameWhole, BytesMove

LEMMA SyncEndsBytes ==
    ASSUME AnswerInv, BytesInv, NEW t \in Threads, SyncEnds(t)
    PROVE  BytesInv'
<1>1. /\ HandedIn(ex, ex', <<>>) /\ ex'.queue = ex.queue
      /\ ex'.chain = ex.chain /\ ex'.stage_pend = ex.stage_pend
    BY SyncEndsHands
<1>2. ex'.retired = ex.retired
    BY <1>1 DEF HandedIn
<1>3. doing[t] = "syncing" /\ doing' = [doing EXCEPT ![t] = "idled"]
    BY BytesFacts DEF SyncEnds, At, Goes
<1>4. UNCHANGED <<mem, stage, expected>> /\ misread' = misread
    BY DEF SyncEnds
<1>5. doing[t] \notin InStage \cup {"download"} /\ "idled" \notin InStage \cup {"download"}
    BY <1>3 DEF InStage
<1> QED BY <1>1, <1>2, <1>3, <1>4, <1>5, BytesElsewhere

LEMMA NoSpinBytes ==
    ASSUME AnswerInv, BytesInv, NEW t \in Threads, NoSpin(t)
    PROVE  BytesInv'
<1>1. /\ ex'.queue = ex.queue
      /\ ex'.chain = ex.chain /\ ex'.stage_pend = ex.stage_pend
    BY BytesFacts DEF NoSpin, ExecStates
<1>2. ex'.retired = ex.retired
    BY BytesFacts DEF NoSpin, ExecStates
<1>3. doing[t] = "idled" /\ doing' = [doing EXCEPT ![t] = "nothing"]
    BY BytesFacts DEF NoSpin, At, Goes
<1>4. UNCHANGED <<mem, stage, expected>> /\ misread' = misread
    BY DEF NoSpin
<1>5. doing[t] \notin InStage \cup {"download"} /\ "nothing" \notin InStage \cup {"download"}
    BY <1>3 DEF InStage
<1> QED BY <1>1, <1>2, <1>3, <1>4, <1>5, BytesElsewhere

LEMMA ArmSpinBytes ==
    ASSUME AnswerInv, BytesInv, NEW t \in Threads, ArmSpin(t)
    PROVE  BytesInv'
<1>1. /\ HandedIn(ex, ex', <<>>) /\ ex'.queue = ex.queue
      /\ ex'.chain = ex.chain /\ ex'.stage_pend = ex.stage_pend
    BY ArmSpinHands
<1>2. ex'.retired = ex.retired
    BY <1>1 DEF HandedIn
<1>3. doing[t] = "idled" /\ doing' = [doing EXCEPT ![t] = "armed"]
    BY BytesFacts DEF ArmSpin, At, Goes
<1>4. UNCHANGED <<mem, stage, expected>> /\ misread' = misread
    BY DEF ArmSpin
<1>5. doing[t] \notin InStage \cup {"download"} /\ "armed" \notin InStage \cup {"download"}
    BY <1>3 DEF InStage
<1> QED BY <1>1, <1>2, <1>3, <1>4, <1>5, BytesElsewhere

LEMMA EventValueBytes ==
    ASSUME AnswerInv, BytesInv, NEW t \in Threads, EventValue(t)
    PROVE  BytesInv'
<1>1. /\ ex'.queue = ex.queue
      /\ ex'.chain = ex.chain /\ ex'.stage_pend = ex.stage_pend
    BY BytesFacts DEF EventValue, ExecStates
<1>2. ex'.retired = ex.retired
    BY BytesFacts DEF EventValue, ExecStates
<1>3. doing[t] = "recording" /\ doing' = [doing EXCEPT ![t] = "nothing"]
    BY BytesFacts DEF EventValue, At, Goes
<1>4. UNCHANGED <<mem, stage, expected>> /\ misread' = misread
    BY DEF EventValue
<1>5. doing[t] \notin InStage \cup {"download"} /\ "nothing" \notin InStage \cup {"download"}
    BY <1>3 DEF InStage
<1> QED BY <1>1, <1>2, <1>3, <1>4, <1>5, BytesElsewhere

LEMMA EventCompleteBytes ==
    ASSUME AnswerInv, BytesInv, NEW t \in Threads, EventComplete(t)
    PROVE  BytesInv'
<1>1. /\ ex'.queue = ex.queue
      /\ ex'.chain = ex.chain /\ ex'.stage_pend = ex.stage_pend
    BY BytesFacts DEF EventComplete, ExecStates
<1>2. ex'.retired = ex.retired
    BY BytesFacts DEF EventComplete, ExecStates
<1>3. doing[t] = "nothing" /\ doing' = [doing EXCEPT ![t] = "nothing"]
    BY BytesFacts DEF EventComplete, At, Goes
<1>4. UNCHANGED <<mem, stage, expected>> /\ misread' = misread
    BY DEF EventComplete
<1>5. doing[t] \notin InStage \cup {"download"} /\ "nothing" \notin InStage \cup {"download"}
    BY <1>3 DEF InStage
<1> QED BY <1>1, <1>2, <1>3, <1>4, <1>5, BytesElsewhere

LEMMA EventSyncBytes ==
    ASSUME AnswerInv, BytesInv, NEW t \in Threads, EventSync(t)
    PROVE  BytesInv'
<1>1. /\ HandedIn(ex, ex', <<>>) /\ ex'.queue = ex.queue
      /\ ex'.chain = ex.chain /\ ex'.stage_pend = ex.stage_pend
    BY EventSyncHands
<1>2. ex'.retired = ex.retired
    BY <1>1 DEF HandedIn
<1>3. doing[t] = "nothing" /\ doing' = [doing EXCEPT ![t] = "nothing"]
    BY BytesFacts DEF EventSync, At, Goes
<1>4. UNCHANGED <<mem, stage, expected>> /\ misread' = misread
    BY DEF EventSync
<1>5. doing[t] \notin InStage \cup {"download"} /\ "nothing" \notin InStage \cup {"download"}
    BY <1>3 DEF InStage
<1> QED BY <1>1, <1>2, <1>3, <1>4, <1>5, BytesElsewhere

LEMMA NoteSpinBytes ==
    ASSUME AnswerInv, BytesInv, NEW t \in Threads, NoteSpin(t)
    PROVE  BytesInv'
<1>1. /\ ex'.queue = ex.queue
      /\ ex'.chain = ex.chain /\ ex'.stage_pend = ex.stage_pend
    BY BytesFacts DEF NoteSpin, ExecStates
<1>2. ex'.retired = ex.retired
    BY BytesFacts DEF NoteSpin, ExecStates
<1>3. doing[t] = "flushed spin" /\ doing' = [doing EXCEPT ![t] = "noted spin"]
    BY BytesFacts DEF NoteSpin, At, Goes
<1>4. UNCHANGED <<mem, stage, expected>> /\ misread' = misread
    BY DEF NoteSpin
<1>5. doing[t] \notin InStage \cup {"download"} /\ "noted spin" \notin InStage \cup {"download"}
    BY <1>3 DEF InStage
<1> QED BY <1>1, <1>2, <1>3, <1>4, <1>5, BytesElsewhere

LEMMA MarksBytes ==
    ASSUME AnswerInv, BytesInv, NEW t \in Threads, NEW from, NEW to, NEW on \in BOOLEAN,
           Marks(t, from, on, to)
    PROVE  /\ ex'.queue = ex.queue /\ ex'.chain = ex.chain /\ ex'.stage_pend = ex.stage_pend
           /\ ex'.retired = ex.retired /\ Whole(ex') = Whole(ex)
           /\ doing[t] = from /\ doing' = [doing EXCEPT ![t] = to]
           /\ UNCHANGED <<mem, stage, expected>> /\ misread' = misread
<1>1. /\ HandedIn(ex, ex', <<>>) /\ ex'.queue = ex.queue
      /\ ex'.chain = ex.chain /\ ex'.stage_pend = ex.stage_pend
    BY MarksHands
<1>2. /\ doing[t] = from /\ doing' = [doing EXCEPT ![t] = to]
      /\ UNCHANGED <<mem, stage, expected>> /\ misread' = misread
    BY DEF Marks, At, Goes
<1> QED BY <1>1, <1>2, SameWhole DEF HandedIn

LEMMA SetInternalBytes ==
    ASSUME AnswerInv, BytesInv, NEW t \in Threads, SetInternal(t)
    PROVE  BytesInv'
<1>1. CASE Marks(t, "claimed", TRUE, "launching out")
  <2>1. /\ ex'.queue = ex.queue /\ ex'.chain = ex.chain /\ ex'.stage_pend = ex.stage_pend
        /\ ex'.retired = ex.retired /\ Whole(ex') = Whole(ex)
        /\ doing[t] = "claimed" /\ doing' = [doing EXCEPT ![t] = "launching out"]
        /\ UNCHANGED <<mem, stage, expected>> /\ misread' = misread
      BY <1>1, MarksBytes
  <2>2. WaitsFor(Whole(ex), stage, expected[t], "claimed", t)
      BY <2>1 DEF BytesInv, ReadOK
  <2>3. /\ WaitsFor(Whole(ex), stage, expected[t], "launching out", t)
        /\ doing[t] \in InStage /\ doing[t] # "download" /\ (doing[t] \in Lent => "launching out" \in Lent)
      BY <2>1, <2>2 DEF WaitsFor, Lent, InStage
  <2> QED BY <2>1, <2>3, BytesMove
<1>2. CASE Marks(t, "launched out", FALSE, "out")
  <2>1. /\ ex'.queue = ex.queue /\ ex'.chain = ex.chain /\ ex'.stage_pend = ex.stage_pend
        /\ ex'.retired = ex.retired /\ Whole(ex') = Whole(ex)
        /\ doing[t] = "launched out" /\ doing' = [doing EXCEPT ![t] = "out"]
        /\ UNCHANGED <<mem, stage, expected>> /\ misread' = misread
      BY <1>2, MarksBytes
  <2>2. WaitsFor(Whole(ex), stage, expected[t], "launched out", t)
      BY <2>1 DEF BytesInv, ReadOK
  <2>3. /\ WaitsFor(Whole(ex), stage, expected[t], "out", t)
        /\ doing[t] \in InStage /\ doing[t] # "download" /\ (doing[t] \in Lent => "out" \in Lent)
      BY <2>1, <2>2 DEF WaitsFor, Lent, InStage
  <2> QED BY <2>1, <2>3, BytesMove
<1>3. CASE Marks(t, "armed", TRUE, "launching spin")
  <2>1. /\ ex'.queue = ex.queue /\ ex'.chain = ex.chain /\ ex'.stage_pend = ex.stage_pend
        /\ ex'.retired = ex.retired /\ Whole(ex') = Whole(ex)
        /\ doing[t] = "armed" /\ doing' = [doing EXCEPT ![t] = "launching spin"]
        /\ UNCHANGED <<mem, stage, expected>> /\ misread' = misread
      BY <1>3, MarksBytes
  <2>2. /\ doing[t] \notin InStage \cup {"download"}
        /\ "launching spin" \notin InStage \cup {"download"}
      BY <2>1 DEF InStage
  <2> QED BY <2>1, <2>2, BytesElsewhere
<1>4. CASE Marks(t, "noted spin", FALSE, "nothing")
  <2>1. /\ ex'.queue = ex.queue /\ ex'.chain = ex.chain /\ ex'.stage_pend = ex.stage_pend
        /\ ex'.retired = ex.retired /\ Whole(ex') = Whole(ex)
        /\ doing[t] = "noted spin" /\ doing' = [doing EXCEPT ![t] = "nothing"]
        /\ UNCHANGED <<mem, stage, expected>> /\ misread' = misread
      BY <1>4, MarksBytes
  <2>2. /\ doing[t] \notin InStage \cup {"download"}
        /\ "nothing" \notin InStage \cup {"download"}
      BY <2>1 DEF InStage
  <2> QED BY <2>1, <2>2, BytesElsewhere
<1> QED BY <1>1, <1>2, <1>3, <1>4 DEF SetInternal

-----------------------------------------------------------------------------
\* The engines end a job, for the bytes.
LEMMA RetireHands ==
    ASSUME AnswerInv, Retire
    PROVE  /\ ex' \in ExecStates /\ ex'.retired = ex.retired + 1 /\ ex'.chain = ex.chain
           /\ ex'.queue = Tail(ex.queue) /\ ex'.stage_pend = ex.stage_pend
           /\ Len(ex.queue) \in Nat \ {0} /\ Len(ex'.queue) = Len(ex.queue) - 1
           /\ \A i \in 1 .. Len(ex'.queue) : ex'.queue[i] = ex.queue[i + 1]
<1>1. ex \in ExecStates /\ QueueOK(ex) /\ ex.queue # <<>>
    BY DEF Retire, AnswerInv, ThreadTypesOK
<1>2. ex' = [ex EXCEPT !.queue = Tail(@), !.retired = @ + 1,
                       !.slot[SlotOf(Head(ex.queue))] = ex.retired + 1]
    BY DEF Retire
<1>3. /\ ex' \in ExecStates /\ ex'.retired = ex.retired + 1 /\ ex'.chain = ex.chain
    BY <1>1, <1>2, DoneIs
<1>4. /\ ex'.queue = Tail(ex.queue) /\ ex'.stage_pend = ex.stage_pend /\ Len(ex.queue) \in Nat \ {0}
    BY <1>1, <1>2, DoneIs
<1>5. Len(ex'.queue) = Len(ex.queue) - 1
    BY <1>1, <1>2, DoneIs
<1>6. \A i \in 1 .. Len(ex'.queue) : ex'.queue[i] = ex.queue[i + 1]
    BY <1>1, <1>2, DoneIs, ZenonT(60)
<1> QED BY <1>3, <1>4, <1>5, <1>6

\* What leaves a buffer alone, however long.
LEMMA QuietTrace ==
    ASSUME NEW jobs \in Seq(Jobs), NEW t, \A i \in 1 .. Len(jobs) : Quiet(jobs[i], t),
           NEW v, NEW b, NEW c, Traces(v, jobs, t, b, c)
    PROVE  b = c
<1>1. PICK n \in Nat : n = Len(jobs)
    OBVIOUS
<1>2. v[1] = b /\ v[n + 1] = c /\ \A i \in 1 .. n : v[i + 1] = Effect(jobs[i], t, v[i])
    BY <1>1 DEF Traces
<1>3. \A i \in 1 .. n : v[i + 1] = v[i]
    BY <1>1, <1>2 DEF Quiet, Effect
<1>4. SUFFICES ASSUME v[n + 1] # v[1] PROVE FALSE
    BY <1>2
<1> DEFINE bad == {k \in Nat : k <= n /\ v[k + 1] # v[1]}
<1>5. n \in bad /\ bad \in SUBSET Nat
    BY <1>4
<1>6. PICK k \in bad : \A j \in bad : k <= j
    BY <1>5, LeastExists
<1>7. k \in Nat /\ k <= n /\ v[k + 1] # v[1]
    BY <1>6
<1>8. k # 0
  <2>1. SUFFICES ASSUME k = 0 PROVE FALSE
      OBVIOUS
  <2>2. k + 1 = 1
      BY <2>1
  <2> QED BY <1>7, <2>2
<1>9. k - 1 \in Nat /\ k - 1 <= n /\ (k - 1) + 1 = k /\ k \in 1 .. n /\ ~ (k <= k - 1)
    BY <1>1, <1>7, <1>8
<1>10. k - 1 \notin bad
    BY <1>6, <1>9
<1>11. v[k] = v[1]
    BY <1>9, <1>10
<1> QED BY <1>3, <1>7, <1>9, <1>11

LEMMA RetireBytes ==
    ASSUME AnswerInv, BytesInv, Retire
    PROVE  BytesInv'
<1>1. /\ ex \in ExecStates /\ QueueOK(ex) /\ ex.queue \in Seq(Jobs) /\ ex.queue # <<>>
      /\ PlaceOK /\ Nobody \notin Threads /\ doing \in [Threads -> ThreadPlaces]
      /\ mem \in [Threads -> Values] /\ UNCHANGED <<lock, doing, expected>> /\ misread' = misread
      /\ Carried /\ StageOK /\ ReadOK /\ ~misread /\ ex.retired \in Nat /\ ex.stage_pend \in Nat
    BY BytesFacts DEF Retire, BytesInv, BytesOK
<1>2. /\ ex' \in ExecStates /\ ex'.retired = ex.retired + 1 /\ ex'.chain = ex.chain
      /\ ex'.queue = Tail(ex.queue) /\ ex'.stage_pend = ex.stage_pend
    BY RetireHands
<1>3. PICK job \in Jobs : job = ex.queue[1] /\ job = Head(ex.queue)
  <2>1. PICK q \in Seq(Jobs) : q = ex.queue /\ q # <<>>
      BY <1>1
  <2>2. q[1] \in Jobs /\ Head(q) = q[1]
      BY <2>1
  <2> QED BY <2>1, <2>2
<1>4. PICK w \in Seq(Jobs) : w = Whole(ex) /\ w # <<>> /\ w[1] = job /\ Whole(ex') = Tail(w)
    BY <1>1, <1>2, <1>3, WholeLess
<1>5. PICK t \in Threads : t = job.by
    BY DEF Jobs
<1>6. /\ mem' = CASE job.kind = "in" -> [mem EXCEPT ![t] = stage]
                  [] job.kind = "kernel" -> [mem EXCEPT ![t] = Changed(@)]
                  [] OTHER -> mem
      /\ stage' = IF job.kind \in {"out", "out by kernel"} THEN mem[t] ELSE stage
    BY <1>3, <1>5 DEF Retire
<1>7. Len(w) \in Nat \ {0} /\ 1 \in 1 .. Len(w)
    BY <1>4
<1>8. JobsOK(w, ex.retired, ex.stage_pend, stage, doing)
    BY <1>1, <1>4 DEF StageOK
<1>9. JobOK(w, 1, ex.retired, ex.stage_pend, stage, doing)
    BY <1>7, <1>8 DEF JobsOK
<1>10. \A u \in Threads : mem'[u] = Effect(job, u, mem[u])
  <2>1. job.kind = "in" => stage = Uploaded(t)
      BY <1>4, <1>5, <1>9 DEF JobOK
  <2>2. CASE job.kind = "in"
      BY <1>1, <1>5, <1>6, <2>1, <2>2 DEF Effect
  <2>3. CASE job.kind = "kernel"
    <3>1. mem' = [mem EXCEPT ![t] = Changed(@)]
        BY <1>6, <2>3
    <3> QED BY <1>1, <1>5, <2>3, <3>1 DEF Effect
  <2>4. CASE job.kind \notin {"in", "kernel"}
      BY <1>5, <1>6, <2>4 DEF Effect
  <2> QED BY <2>2, <2>3, <2>4
<1>11. ASSUME NEW u \in Threads
       PROVE  \E v : Traces(v, Whole(ex'), u, mem'[u], expected'[u])
  <2>1. PICK v : Traces(v, w, u, mem[u], expected[u])
      BY <1>1, <1>4 DEF Carried
  <2>2. \E x : Traces(x, Tail(w), u, Effect(w[1], u, mem[u]), expected[u])
      BY <1>4, <2>1, TraceLess
  <2> QED BY <1>1, <1>4, <1>10, <2>2
\* A download's job leaves what was asked for in the stage
<1>12. ASSUME job.kind \in {"out", "out by kernel"}
       PROVE  stage' = expected'[t]
  <2>1. \A j \in 2 .. Len(w) : Quiet(w[j], t)
    <3>1. CASE job.kind = "out"
      <4>1. Len(w) = 1
          BY <1>4, <1>9, <3>1 DEF JobOK
      <4>2. \A j \in 2 .. 1 : FALSE
          OBVIOUS
      <4> QED BY <4>1, <4>2
    <3>2. CASE job.kind = "out by kernel"
      <4>1. \A j \in 1 + 1 .. Len(w) : Quiet(w[j], t)
          BY <1>4, <1>5, <1>9, <3>2 DEF JobOK
      <4>2. 1 + 1 = 2
          OBVIOUS
      <4> QED BY <4>1, <4>2
    <3> QED BY <1>12, <3>1, <3>2
  <2>2. PICK less \in Seq(Jobs) : less = Tail(w)
      BY <1>4
  <2>3. \A i \in 1 .. Len(less) : Quiet(less[i], t)
    <3>1. \A i \in 1 .. Len(less) : i + 1 \in 2 .. Len(w) /\ less[i] = w[i + 1]
        BY <1>4, <1>7, <2>2
    <3> QED BY <2>1, <3>1
  <2>4. PICK v : Traces(v, less, t, mem'[t], expected'[t])
      BY <1>4, <1>11, <2>2
  <2>5. mem'[t] = expected'[t]
      BY <2>3, <2>4, QuietTrace
  <2>6. mem' = mem /\ stage' = mem[t]
      BY <1>6, <1>12
  <2> QED BY <2>5, <2>6
<1>13. ASSUME job.kind \notin {"out", "out by kernel"}
       PROVE  stage' = stage
    BY <1>6, <1>13
<1>14. StageOK'
  <2>1. job.kind \notin {"out", "out by kernel"} => stage' = stage
      BY <1>13
  <2>2. PICK less : less = Tail(w)
      OBVIOUS
  <2>3. PICK after : after = ex.retired + 1
      OBVIOUS
  <2>4. PICK r \in Nat, p \in Nat : r = ex.retired /\ p = ex.stage_pend
      BY <1>1
  <2>5. PICK now : now = stage'
      OBVIOUS
  <2>6. JobsOK(less, after, ex.stage_pend, stage', doing)
    <3>1. w[1].kind \notin {"out", "out by kernel"} => now = stage
        BY <1>4, <2>1, <2>5
    <3>2. w # <<>> /\ JobsOK(w, r, p, stage, doing) /\ after = r + 1
        BY <1>4, <1>8, <2>3, <2>4
    <3>3. JobsOK(less, after, p, now, doing)
        BY ONLY w \in Seq(Jobs), r \in Nat, p \in Nat, <2>2, <3>1, <3>2, JobsLess
    <3> QED BY <2>4, <2>5, <3>3
  <2> QED BY <1>1, <1>2, <1>4, <2>2, <2>3, <2>6 DEF StageOK
<1>15. ASSUME NEW u \in Threads
       PROVE  WaitsFor(Whole(ex'), stage', expected'[u], doing'[u], u)
  <2>1. WaitsFor(w, stage, expected[u], doing[u], u)
      BY <1>1, <1>4 DEF ReadOK
  <2>2. doing'[u] = doing[u] /\ expected'[u] = expected[u]
      BY <1>1
  <2>3. CASE job.kind \in {"out", "out by kernel"}
    <3>1. job.kind = "out" => doing[t] = "download"
        BY <1>4, <1>5, <1>9 DEF JobOK
    <3>2. job.kind = "out by kernel" => doing[t] \in Lent
        BY <1>4, <1>5, <1>9 DEF JobOK
    <3>3. doing[t] = "download" /\ doing[u] = "download" => u = t
        BY <1>1 DEF PlaceOK, Holding
    <3>4. doing[t] \in InStage /\ doing[u] \in InStage => u = t
        BY <1>1 DEF StageOK, AtMostOne
    <3>5. ~ (doing[t] = "download" /\ doing[u] \in InStage)
        BY <1>1 DEF PlaceOK, KernelPlaces, InStage
    <3>6. ~ (doing[t] \in InStage /\ doing[u] = "download")
        BY <1>1 DEF PlaceOK, KernelPlaces, InStage
    <3>7. CASE u = t
      <4>1. stage' = expected[u]
          BY <1>12, <2>2, <2>3, <3>7
      <4> QED BY <2>2, <4>1 DEF WaitsFor
    <3>8. CASE u # t
      <4>1. doing[u] \notin InStage \cup {"download"}
          BY <2>3, <3>1, <3>2, <3>3, <3>4, <3>5, <3>6, <3>8 DEF Lent, InStage
      <4> QED BY <2>2, <4>1 DEF WaitsFor, Lent, InStage
    <3> QED BY <3>7, <3>8
  <2>4. CASE job.kind \notin {"out", "out by kernel"}
    <3>1. stage' = stage
        BY <1>13, <2>4
    <3>2. ASSUME NEW kind \in {"out", "out by kernel"}, Has(w, kind, u)
          PROVE  Has(Tail(w), kind, u)
      <4>1. PICK i \in 1 .. Len(w) : w[i] = Job(kind, u)
          BY <3>2 DEF Has
      <4>2. Job(kind, u).kind = kind
          BY DEF Job
      <4>3. i # 1
          BY <1>4, <2>4, <4>1, <4>2
      <4>4. i - 1 \in 1 .. Len(Tail(w)) /\ Tail(w)[i - 1] = w[i]
        <5>1. PICK n \in Nat : /\ Len(w) = n + 1 /\ Len(Tail(w)) = n
                               /\ \A k \in 1 .. n : Tail(w)[k] = w[k + 1] /\ Tail(w)[k] \in Jobs
          <6>1. w # <<>>
              BY <1>4
          <6> QED BY <6>1, TailIs
        <5>2. i - 1 \in 1 .. n /\ (i - 1) + 1 = i
            BY <4>3, <5>1, PlaceBefore
        <5> QED BY <5>1, <5>2
      <4> QED BY <4>1, <4>4 DEF Has
    <3> QED BY <1>4, <2>1, <2>2, <3>1, <3>2 DEF WaitsFor
  <2> QED BY <2>3, <2>4
<1>16. Carried'
    BY <1>11 DEF Carried
<1>17. ReadOK'
    BY <1>15 DEF ReadOK
<1> QED BY <1>1, <1>14, <1>16, <1>17 DEF BytesInv

-----------------------------------------------------------------------------
\* All of it.
LEMMA BytesInit ==
    ASSUME ThreadsInit
    PROVE  BytesInv
<1>1. /\ ex.chain = <<>> /\ ex.queue = <<>> /\ expected = mem /\ misread = FALSE
      /\ \A t \in Threads : doing[t] = "nothing"
    BY DEF ThreadsInit
<1>2. ASSUME NEW t \in Threads PROVE \E v : Traces(v, Whole(ex), t, mem[t], expected[t])
  <2>1. PICK b : b = mem[t] /\ b = expected[t]
      BY <1>1
  <2> DEFINE v == [i \in {1} |-> b]
  <2>2. v[1] = b
      OBVIOUS
  <2> HIDE DEF v
  <2>3. PICK jobs : jobs = <<>>
      OBVIOUS
  <2>4. Len(jobs) + 1 = 1 /\ \A i \in 1 .. Len(jobs) : FALSE
      BY <2>3
  <2>5. Traces(v, jobs, t, b, b)
      BY <2>2, <2>4 DEF Traces
  <2>6. Whole(ex) = jobs
    <3>1. <<>> \o <<>> = <<>>
        OBVIOUS
    <3> QED BY <1>1, <2>3, <3>1 DEF Whole
  <2> QED BY <2>1, <2>5, <2>6
<1>3. StageOK
  <2>1. Whole(ex) = <<>>
    <3>1. <<>> \o <<>> = <<>>
        OBVIOUS
    <3> QED BY <1>1, <3>1 DEF Whole
  <2>2. JobsOK(Whole(ex), ex.retired, ex.stage_pend, stage, doing)
      BY <2>1, NothingAt DEF JobsOK
  <2>3. AtMostOne(doing)
      BY <1>1 DEF AtMostOne, InStage
  <2> QED BY <1>1, <2>2, <2>3, NothingBuilt DEF StageOK
<1>4. ReadOK
    BY <1>1 DEF ReadOK, WaitsFor, Lent
<1> QED BY <1>1, <1>2, <1>3, <1>4 DEF BytesInv, Carried

LEMMA BytesNext ==
    ASSUME AnswerInv, BytesInv, ~shared', [ThreadsNext]_threadVars
    PROVE  BytesInv'
<1>1. CASE Retire
    BY <1>1, RetireBytes
<1>2. ASSUME NEW t \in Threads,
             \/ Upload(t) \/ Launch(t) \/ DownloadBegins(t) \/ DownloadEnds(t)
             \/ ClaimStage(t) \/ LaunchOut(t) \/ KernelIdle(t) \/ KernelIdled(t) \/ ReadStage(t)
      PROVE  BytesInv'
    BY <1>2, UploadBytes, LaunchBytes, DownloadBeginsBytes, DownloadEndsBytes,
       ClaimStageBytes, LaunchOutBytes, KernelIdleBytes, KernelIdledBytes, ReadStageBytes
<1>3. ASSUME NEW t \in Threads,
             \/ SyncBegins(t) \/ SyncEnds(t)
             \/ NoSpin(t) \/ ArmSpin(t) \/ LaunchSpin(t) \/ FlushSpin(t) \/ NoteSpin(t)
             \/ SetInternal(t)
      PROVE  BytesInv'
    BY <1>3, SyncBeginsBytes, SyncEndsBytes, NoSpinBytes, ArmSpinBytes,
       LaunchSpinBytes, FlushSpinBytes, NoteSpinBytes, SetInternalBytes
<1>4. ASSUME NEW t \in Threads,
             EventRecord(t) \/ EventValue(t) \/ EventComplete(t) \/ EventSync(t)
      PROVE  BytesInv'
    BY <1>4, EventRecordBytes, EventValueBytes, EventCompleteBytes, EventSyncBytes
<1>5. CASE UNCHANGED threadVars
    BY <1>5 DEF threadVars, BytesInv, Carried, StageOK, ReadOK
<1> QED BY <1>1, <1>2, <1>3, <1>4, <1>5 DEF ThreadsNext

LEMMA SharedStays ==
    ASSUME shared, [ThreadsNext]_threadVars
    PROVE  shared'
BY DEF ThreadsNext, threadVars, Upload, Launch, DownloadBegins, DownloadEnds, ClaimStage,
   LaunchOut, KernelIdle, KernelIdled, ReadStage, SyncBegins, SyncEnds, NoSpin, ArmSpin,
   LaunchSpin, FlushSpin, NoteSpin, SetInternal, Marks, EventRecord, EventValue, EventComplete,
   EventSync, Retire, IdleBegins, Reads, UsesStage

\* A thread reads back what its own uploads and kernels left, whatever others
\* move through the one staging buffer meanwhile, for any number of threads
\* with any options (tinynv.c:676-732, exec.c:1817-1826): what stands in the
\* way is another's claim, upload or download between the claim of the stage
\* and its reading, or another's work behind a keep-alive not yet noted.
THEOREM ThreadsReadTheirOwn == ThreadsSpec => []ReadsItsOwn
<1>1. ThreadsInit => shared \/ passed \/ ReadInv
    BY AnswerInit, BytesInit DEF ReadInv
<1>2. (shared \/ passed \/ ReadInv) /\ [ThreadsNext]_threadVars
         => (shared \/ passed \/ ReadInv)'
  <2>1. SUFFICES ASSUME shared \/ passed \/ ReadInv, [ThreadsNext]_threadVars,
                        ~ shared', ~ passed'
                 PROVE  ReadInv'
      OBVIOUS
  <2>2. ReadInv
      BY <2>1, SharedStays, PassedStays
  <2>3. AnswerInv' /\ BytesInv'
      BY <2>1, <2>2, AnswerNext, BytesNext DEF ReadInv
  <2> QED BY <2>3 DEF ReadInv
<1>3. shared \/ passed \/ ReadInv => ReadsItsOwn
    BY DEF ReadInv, BytesInv, ReadsItsOwn
<1> QED BY <1>1, <1>2, <1>3, PTL DEF ThreadsSpec

=============================================================================
