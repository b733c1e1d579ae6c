----------------------------- MODULE ExecProofs -----------------------------
(***************************************************************************)
(* Proofs about Exec.  Every batch in flight releases a value of the       *)
(* driver's timeline, and no two the same, so they are totally ordered     *)
(* whichever queue they are on.  A batch acquires the other queue's last   *)
(* value only when that queue was the last submitted to, and that is       *)
(* enough: through the batch before it on its own queue it waits for every *)
(* earlier one (Order).  What the buffers hold along the timeline is then  *)
(* a history T, one contents for each value, that begins with what memory  *)
(* holds and ends with what the calls say; T is a witness, so a batch      *)
(* added extends it and a batch done leaves it as it is (MemoryOK).  The   *)
(* staging buffers are not in T: when the host writes one, no copy that    *)
(* reads it is pending, but for tinynv_memset's (StagesOK).  Where one is, *)
(* memory and the calls part; the books and the rings are then still those *)
(* of a memory m and of calls that say x, in which that stage was left     *)
(* alone (ExecInvariant), and what does not speak of memory goes on        *)
(* holding.                                                                *)
(***************************************************************************)
EXTENDS Exec, SequenceTheorems, TLAPS

\* Types: places in memory, and what is built, held, submitted and begun
Places == Buffers \union Stages
Kernels == [dst : Buffers, src : Buffers]
Writes == [dst : Buffers, value : Values]
Copies == [upto : Nat, own : Nat, other : Nat, dst : Places, src : Places]
Computes ==
    [upto : Nat, own : Nat, other : Nat, held : Seq(Writes), kernels : Seq(Kernels)]
Begun == [upto : Nat, kernels : Seq(Kernels)]
Books ==
    [chain : Seq(Kernels), held : Seq(Writes), reserved : Nat, last_q : Queues \union {"none"},
     q_last : [Queues -> Nat], needs_wait : BOOLEAN, in_chain_flush : {FALSE}]

\* A function of the two queues, and the later of its two values
Later(f) == IF f["copy"] > f["compute"] THEN f["copy"] ELSE f["compute"]

\* The slots when queue q has released v
Released(sl, q, v) == [sl EXCEPT ![q] = v]

\* The set now with one less
Less(S, x) == S \ {x}

\* A queue as a set, and in order of value
Elems(q) == {q[i] : i \in DOMAIN q}
Sorted(q) == \A i, j \in DOMAIN q : i < j => q[i].upto < q[j].upto

\* A compute batch stands for the values after Base: one for each kernel of it.
Base(b) == b.upto - (IF b.kernels = <<>> THEN 1 ELSE Len(b.kernels))

Sets(C, K, R) ==
    /\ C \subseteq Copies /\ K \subseteq Computes /\ R \subseteq Begun
    /\ \A b \in K : b.upto \in Nat /\ Base(b) \in Int /\ Base(b) < b.upto

BooksOK(e, r) ==
    /\ e \in Books
    /\ DOMAIN r = Queues
    /\ r["copy"] \in Seq(Copies) /\ r["compute"] \in Seq(Computes)
    /\ Sorted(r["copy"]) /\ Sorted(r["compute"])
    /\ e.reserved = Later(e.q_last) + Len(e.chain)

\* The order of what is in flight: C copies, K compute batches, R begun; sl the
\* slots, ql the last value of each queue, lq the queue of the last batch.
Between(C, K, R, sl, ql) ==
    /\ \A b \in C : Later(sl) < b.upto /\ b.upto <= ql["copy"]
    /\ \A b \in K : Later(sl) < b.upto /\ b.upto <= ql["compute"]
    /\ \A b \in R : Later(sl) < b.upto /\ b.upto <= ql["compute"]
    /\ \A q \in Queues : sl[q] <= ql[q]
Ends(C, K, R, sl, ql) ==
    /\ ql["copy"] = sl["copy"] \/ \E b \in C : b.upto = ql["copy"]
    /\ ql["compute"] = sl["compute"] \/ (\E b \in K : b.upto = ql["compute"])
        \/ (\E b \in R : b.upto = ql["compute"])
LastQueue(ql, lq) ==
    /\ lq = "copy" => ql["copy"] > ql["compute"]
    /\ lq = "compute" => ql["compute"] > ql["copy"]
    /\ lq = "none" => ql["copy"] = 0 /\ ql["compute"] = 0

\* No two stand for the same value, and what is begun comes before the rest.
Apart(C, K, R) ==
    /\ \A b \in C, c \in K : b.upto # c.upto /\ (b.upto < c.upto => b.upto <= Base(c))
    /\ \A b, c \in K : b.upto < c.upto => b.upto <= Base(c)
    /\ \A r \in R : /\ \A b \in C : r.upto < b.upto
                    /\ \A b \in K : r.upto < b.upto /\ r.upto <= Base(b)

\* Batches follow one another with no value between them.
Ending(C, K, R, v) ==
    \/ \E b \in C : b.upto = v
    \/ \E b \in K : b.upto = v
    \/ \E b \in R : b.upto = v
Touching(C, K, R, sl) ==
    /\ \A b \in C : b.upto - 1 = Later(sl) \/ Ending(C, K, R, b.upto - 1)
    /\ \A b \in K : Base(b) = Later(sl) \/ Ending(C, K, R, Base(b))

\* A batch waits for each earlier one of the other queue, itself or through one
\* before it on its own.
Acquired(C, K, R) ==
    /\ \A b \in C, c \in K : c.upto < b.upto =>
         c.upto <= b.other \/ \E a \in C : c.upto < a.upto /\ a.upto < b.upto
    /\ \A b \in C, c \in R : 
         c.upto <= b.other \/ \E a \in C : c.upto < a.upto /\ a.upto < b.upto
    /\ \A b \in K, c \in C : c.upto < b.upto =>
         c.upto <= b.other \/ \E a \in K : c.upto < a.upto /\ a.upto < b.upto
    /\ \A b, c \in K : c.upto < b.upto => c.upto <= b.own
    /\ \A b \in K, c \in R : c.upto <= b.own
Order(C, K, R, sl, ql, lq) ==
    /\ Between(C, K, R, sl, ql)
    /\ Ends(C, K, R, sl, ql)
    /\ LastQueue(ql, lq)
    /\ Apart(C, K, R)
    /\ Touching(C, K, R, sl)
    /\ Acquired(C, K, R)

OrderOK(e, r, run, sl) ==
    Order(Elems(r["copy"]), Elems(r["compute"]), Elems(run), sl, e.q_last, e.last_q)

-----------------------------------------------------------------------------
Contents == [Buffers -> Values]

\* One kernel, and several: T holds what each left, at the values after base.
Kernel(k, m) == [m EXCEPT ![k.dst] = m[k.src]]
Ran(kernels, m, T, base) ==
    \A i \in DOMAIN kernels :
       T[base + i] = Kernel(kernels[i], IF i = 1 THEN m ELSE T[base + i - 1])

InBuffers(mem) == [p \in Buffers |-> mem[p]]

\* T[v] is what the buffers hold once all up to value v is done.
CopyOf(m, mem, b) ==
    [p \in Buffers |->
       IF p # b.dst THEN m[p] ELSE IF b.src \in Stages THEN mem[b.src] ELSE m[b.src]]
CopyDoes(T, mem, b) == T[b.upto] = CopyOf(T[b.upto - 1], mem, b)
ComputeDoes(T, b) ==
    IF b.kernels = <<>> THEN T[b.upto] = Written(T[b.upto - 1], b.held)
    ELSE Ran(b.kernels, Written(T[Base(b)], b.held), T, Base(b))
BegunDoes(T, mem, b) ==
    IF b.kernels = <<>> THEN T[b.upto] = InBuffers(mem)
    ELSE Ran(b.kernels, InBuffers(mem), T, Base(b))
Does(T, mem, C, K, R, sl) ==
    /\ \A b \in C : CopyDoes(T, mem, b)
    /\ \A b \in K : ComputeDoes(T, b)
    /\ \A b \in R : BegunDoes(T, mem, b)
    /\ R = {} => T[Later(sl)] = InBuffers(mem)

\* What is built and held, and not submitted, comes after all that is.
Built(T, exp, e) ==
    /\ Ran(e.chain, Written(T[Later(e.q_last)], e.held), T, Later(e.q_last))
    /\ exp = IF e.chain = <<>> THEN Written(T[e.reserved], e.held) ELSE T[e.reserved]
MemoryOK(mem, exp, e, r, run, sl) ==
    \E T \in [0 .. e.reserved -> Contents] :
       /\ Does(T, mem, Elems(r["copy"]), Elems(r["compute"]), Elems(run), sl)
       /\ Built(T, exp, e)

\* A copy yet to read a stage is one the host waits for before it refills it, or
\* one of tinynv_memset's, whose values are pats.
StagesOK(C, pend, h, pats) ==
    \A b \in C : b.src \in Stages =>
       /\ b.dst \in Buffers
       /\ \/ b.upto <= pend[b.src]
          \/ b.upto \in pats
          \/ b.src = stage0 /\ h.op \in {"spread", "sync"}

\* Only a download copies to a stage, and what it brings is what was asked for.
DownloadOK(C, mem, exp, e, h) ==
    /\ \A b \in C : b.dst \in Stages =>
         h.op = "download" /\ b.dst = stage0 /\ b.src = h.at /\ b.upto = e.reserved
    /\ h.op = "download" =>
         /\ e.chain = <<>> /\ e.held = <<>>
         /\ mem[stage0] = exp[h.at] \/ \E b \in C : b.dst = stage0

\* What needs_wait says nothing of
OnlyUploads(C, K, R) ==
    /\ C = {}
    /\ \A b \in K : b.kernels = <<>>
    /\ \A b \in R : b.kernels = <<>>
Held(e) == IF e.held = <<>> THEN 0 ELSE 1
Hosts ==
    [op : {"none", "upload", "zero", "spread", "set", "pattern", "download", "sync"}, at : Nat,
     to : Nat, chunk : {0, 1}]

\* A call under way has room left for the values it will reserve.
HostOK(e, h) ==
    /\ h \in Hosts
    /\ e.reserved <= ValueMax + N
    /\ h.op \in {"upload", "zero", "spread", "set", "pattern"} =>
         /\ h.at \in Buffers /\ h.to \in Buffers /\ h.at <= h.to
         /\ e.reserved + Held(e) + h.to - h.at < ValueMax + N
    /\ h.op = "download" => h.at \in Buffers
RunOK(run) ==
    /\ run \in Seq(Begun) /\ Len(run) <= 1
    /\ \A b \in Elems(run) : Len(b.kernels) <= b.upto

Good(mem, exp, e, r, run, sl) ==
    /\ BooksOK(e, r)
    /\ OrderOK(e, r, run, sl)
    /\ ~e.needs_wait => OnlyUploads(Elems(r["copy"]), Elems(r["compute"]), Elems(run))
    /\ MemoryOK(mem, exp, e, r, run, sl)
    /\ Len(e.chain) <= ChainMax /\ Len(e.held) <= HeldMax

-----------------------------------------------------------------------------
\* A copy submitted goes to the end of the order: it acquires the other queue's
\* last value, where that queue was the last to be submitted to.
LEMMA CopyAdded ==
    ASSUME NEW C, NEW K, NEW R, NEW sl \in [Queues -> Nat], NEW ql \in [Queues -> Nat], NEW lq,
           C \subseteq Copies, K \subseteq Computes, R \subseteq Begun,
           lq \in Queues \union {"none"}, Order(C, K, R, sl, ql, lq),
           NEW b \in Copies, b.upto = Later(ql) + 1,
           b.other = IF lq = "compute" THEN ql["compute"] ELSE 0
    PROVE  Order(C \union {b}, K, R, sl, [ql EXCEPT !["copy"] = b.upto], "copy")
<1> DEFINE D == C \union {b}
           qm == [ql EXCEPT !["copy"] = b.upto]
<1>1. /\ ql["copy"] \in Nat /\ ql["compute"] \in Nat /\ sl["copy"] \in Nat /\ sl["compute"] \in Nat
      /\ Later(ql) \in Nat /\ Later(sl) \in Nat /\ b.upto \in Nat /\ b.other \in Nat
      /\ qm["copy"] = b.upto /\ qm["compute"] = ql["compute"]
      /\ sl["copy"] <= ql["copy"] /\ sl["compute"] <= ql["compute"]
      /\ Later(ql) < b.upto /\ ql["copy"] <= Later(ql) /\ ql["compute"] <= Later(ql)
      /\ sl["copy"] <= Later(sl) /\ sl["compute"] <= Later(sl) /\ Later(sl) <= Later(ql)
    BY DEF Copies, Later, Queues, Order, Between
<1>2. Between(D, K, R, sl, qm)
    BY <1>1 DEF Order, Between, Copies, Computes, Begun, Queues
<1>3. Ends(D, K, R, sl, qm)
    BY <1>1 DEF Order, Ends
<1>4. LastQueue(qm, "copy")
    BY <1>1 DEF LastQueue
<1>5. Apart(D, K, R)
    BY <1>1, SMTT(30) DEF Order, Apart, Between, Copies, Computes, Begun
<1>6. Touching(D, K, R, sl)
    BY <1>1 DEF Order, Touching, Ending, Ends, Later
<1>7. Acquired(D, K, R)
  <2>1. ASSUME NEW c, c \in K \/ c \in R
        PROVE  c.upto <= b.other \/ \E a \in C : c.upto < a.upto /\ a.upto < b.upto
    <3>1. /\ c.upto \in Nat /\ Later(sl) < c.upto /\ c.upto <= ql["compute"]
        BY <2>1, <1>1 DEF Order, Between, Computes, Begun
    <3> QED BY <3>1, <1>1 DEF Order, Ends, LastQueue, Copies, Queues
  <2>2. \A c \in K : c.upto < b.upto /\ c.upto \in Nat
      BY <1>1 DEF Order, Between, Computes
  <2> QED BY <2>1, <2>2, <1>1 DEF Order, Acquired
<1> QED BY <1>2, <1>3, <1>4, <1>5, <1>6, <1>7 DEF Order

\* So does a compute batch, which stands for as many values as it has kernels.
LEMMA ComputeAdded ==
    ASSUME NEW C, NEW K, NEW R, NEW sl \in [Queues -> Nat], NEW ql \in [Queues -> Nat], NEW lq,
           C \subseteq Copies, K \subseteq Computes, R \subseteq Begun,
           lq \in Queues \union {"none"}, Order(C, K, R, sl, ql, lq),
           \A c \in K : Base(c) \in Int,
           NEW b \in Computes, Base(b) = Later(ql), Base(b) < b.upto,
           b.own = ql["compute"], b.other = IF lq = "copy" THEN ql["copy"] ELSE 0
    PROVE  Order(C, K \union {b}, R, sl, [ql EXCEPT !["compute"] = b.upto], "compute")
<1> DEFINE D == K \union {b}
           qm == [ql EXCEPT !["compute"] = b.upto]
<1>1. /\ ql["copy"] \in Nat /\ ql["compute"] \in Nat /\ sl["copy"] \in Nat /\ sl["compute"] \in Nat
      /\ Later(ql) \in Nat /\ Later(sl) \in Nat
      /\ b.upto \in Nat /\ b.other \in Nat /\ b.own \in Nat
      /\ qm["compute"] = b.upto /\ qm["copy"] = ql["copy"]
      /\ sl["copy"] <= ql["copy"] /\ sl["compute"] <= ql["compute"]
      /\ Later(ql) < b.upto /\ ql["copy"] <= Later(ql) /\ ql["compute"] <= Later(ql)
      /\ sl["copy"] <= Later(sl) /\ sl["compute"] <= Later(sl) /\ Later(sl) <= Later(ql)
    BY DEF Computes, Later, Queues, Order, Between
<1>2. Between(C, D, R, sl, qm)
    BY <1>1 DEF Order, Between, Copies, Computes, Begun, Queues
<1>3. Ends(C, D, R, sl, qm)
    BY <1>1 DEF Order, Ends
<1>4. LastQueue(qm, "compute")
    BY <1>1 DEF LastQueue
<1>5. Apart(C, D, R)
  <2>1. \A c \in C : c.upto \in Nat /\ c.upto <= Base(b) /\ c.upto < b.upto
      BY <1>1 DEF Order, Between, Copies
  <2>2. \A c \in K : c.upto \in Nat /\ c.upto <= Base(b) /\ c.upto < b.upto
      BY <1>1 DEF Order, Between, Computes
  <2>3. \A c \in R : c.upto \in Nat /\ c.upto <= Base(b) /\ c.upto < b.upto
      BY <1>1 DEF Order, Between, Begun
  <2> QED BY <1>1, <2>1, <2>2, <2>3 DEF Order, Apart
<1>6. Touching(C, D, R, sl)
    BY <1>1 DEF Order, Touching, Ending, Ends, Later
<1>7. Acquired(C, D, R)
  <2>1. ASSUME NEW c \in C
        PROVE  c.upto <= b.other \/ \E a \in K : c.upto < a.upto /\ a.upto < b.upto
    <3>1. /\ c.upto \in Nat /\ Later(sl) < c.upto /\ c.upto <= ql["copy"]
          /\ \A r \in R : r.upto \in Nat /\ r.upto < c.upto
        BY <2>1, <1>1 DEF Order, Between, Apart, Copies, Begun
    <3>2. CASE lq = "compute"
      <4>1. c.upto < ql["compute"] /\ ql["compute"] # sl["compute"]
          BY <3>1, <3>2, <1>1 DEF Order, LastQueue
      <4> QED BY <4>1, <3>1, <1>1 DEF Order, Ends
    <3>3. lq # "none"
        BY <3>1, <1>1 DEF Order, LastQueue
    <3>4. CASE lq = "copy"
        BY <3>1, <3>4
    <3> QED BY <3>2, <3>3, <3>4 DEF Queues
  <2>2. \A c \in C : c.upto < b.upto /\ c.upto \in Nat
      BY <1>1 DEF Order, Between, Copies
  <2>3. /\ \A c \in K : c.upto < b.upto /\ c.upto \in Nat /\ c.upto <= b.own
        /\ \A c \in R : c.upto <= b.own
      BY <1>1 DEF Order, Between, Computes, Begun
  <2> QED BY <2>1, <2>2, <2>3, <1>1 DEF Order, Acquired
<1> QED BY <1>2, <1>3, <1>4, <1>5, <1>6, <1>7 DEF Order

\* What the acquires of the batches at the heads of the queues wait for.
LEMMA CopyIsNext ==
    ASSUME NEW C, NEW K, NEW R, NEW sl \in [Queues -> Nat], NEW ql \in [Queues -> Nat], NEW lq,
           C \subseteq Copies, K \subseteq Computes, R \subseteq Begun,
           \A c \in K : Base(c) \in Int, Order(C, K, R, sl, ql, lq),
           NEW b \in C, \A c \in C : c = b \/ b.upto < c.upto, sl["compute"] >= b.other
    PROVE  /\ R = {} /\ b.upto - 1 = Later(sl)
           /\ \A c \in K : b.upto < c.upto
<1>1. /\ sl["copy"] \in Nat /\ sl["compute"] \in Nat /\ Later(sl) \in Nat
      /\ sl["compute"] <= Later(sl) /\ b.upto \in Nat /\ b.other \in Nat
      /\ \A c \in K : c.upto \in Nat /\ Later(sl) < c.upto
      /\ \A c \in R : c.upto \in Nat /\ Later(sl) < c.upto
      /\ \A c \in C : c.upto \in Nat /\ ~ c.upto < b.upto
    BY DEF Order, Between, Queues, Later, Copies, Computes, Begun
<1>2. R = {}
    BY <1>1 DEF Order, Acquired
<1>3. \A c \in K : b.upto < c.upto
    BY <1>1 DEF Order, Acquired, Apart
<1>4. b.upto - 1 = Later(sl)
    BY <1>1, <1>2, <1>3 DEF Order, Touching, Ending
<1> QED BY <1>2, <1>3, <1>4

LEMMA ComputeIsNext ==
    ASSUME NEW C, NEW K, NEW R, NEW sl \in [Queues -> Nat], NEW ql \in [Queues -> Nat], NEW lq,
           C \subseteq Copies, K \subseteq Computes, R \subseteq Begun,
           \A c \in K : Base(c) \in Int /\ Base(c) < c.upto, Order(C, K, R, sl, ql, lq),
           NEW b \in K, \A c \in K : c = b \/ b.upto < c.upto,
           sl["copy"] >= b.other, sl["compute"] >= b.own
    PROVE  /\ R = {} /\ Base(b) = Later(sl)
           /\ \A c \in C : b.upto < c.upto
<1>1. /\ sl["copy"] \in Nat /\ sl["compute"] \in Nat /\ Later(sl) \in Nat
      /\ sl["compute"] <= Later(sl) /\ sl["copy"] <= Later(sl)
      /\ b.upto \in Nat /\ b.other \in Nat /\ b.own \in Nat
    BY DEF Queues, Later, Computes
<1>2. /\ \A c \in C : c.upto \in Nat /\ Later(sl) < c.upto
      /\ \A c \in R : c.upto \in Nat /\ Later(sl) < c.upto
    BY DEF Order, Between, Copies, Begun
<1>3. \A c \in K : c.upto \in Nat /\ ~ c.upto < b.upto
  <2>1. \A c \in K : c.upto \in Nat
      BY DEF Computes
  <2> QED BY <2>1, <1>1
<1>4. R = {}
    BY <1>1, <1>2, <1>3 DEF Order, Acquired
<1>5. \A c \in C : b.upto < c.upto
    BY <1>1, <1>2, <1>3 DEF Order, Acquired, Apart
<1>6. Base(b) = Later(sl)
    BY <1>1, <1>2, <1>3, <1>4, <1>5 DEF Order, Touching, Ending
<1> QED BY <1>4, <1>5, <1>6

\* What is left in order once a batch is done or has begun.
LEMMA CopyDone ==
    ASSUME NEW C, NEW K, NEW R, NEW sl \in [Queues -> Nat], NEW ql \in [Queues -> Nat], NEW lq,
           C \subseteq Copies, K \subseteq Computes, R \subseteq Begun,
           \A c \in K : Base(c) \in Int, Order(C, K, R, sl, ql, lq),
           NEW b \in C, \A c \in C : c = b \/ b.upto < c.upto, sl["compute"] >= b.other
    PROVE  /\ Order(Less(C, b), K, R, Released(sl, "copy", b.upto), ql, lq)
           /\ Later(Released(sl, "copy", b.upto)) = b.upto
<1> DEFINE D == C \ {b}
           sm == Released(sl, "copy", b.upto)
<1> USE DEF Released, Less
<1>1. /\ R = {} /\ b.upto - 1 = Later(sl)
      /\ \A c \in K : b.upto < c.upto
    BY CopyIsNext
<1>2. /\ sl["copy"] \in Nat /\ sl["compute"] \in Nat /\ Later(sl) \in Nat /\ b.upto \in Nat
      /\ ql["copy"] \in Nat /\ ql["compute"] \in Nat
      /\ sl["copy"] < b.upto /\ sl["compute"] < b.upto
      /\ sm["copy"] = b.upto /\ sm["compute"] = sl["compute"] /\ Later(sm) = b.upto
    BY <1>1 DEF Queues, Later, Copies
<1>3. /\ \A c \in D : c.upto \in Nat /\ b.upto < c.upto
      /\ \A c \in K : c.upto \in Nat /\ b.upto < c.upto /\ b.upto <= Base(c) /\ Base(c) \in Int
  <2>1. /\ \A c \in D : c.upto \in Nat
        /\ \A c \in K : c.upto \in Nat /\ Base(c) \in Int
      BY DEF Copies, Computes
  <2> QED BY <2>1, <1>1 DEF Order, Apart
<1>4. Between(D, K, R, sm, ql)
    BY <1>1, <1>2, <1>3 DEF Order, Between, Queues
<1>5. Ends(D, K, R, sm, ql)
    BY <1>1, <1>2, <1>3 DEF Order, Ends, Between
<1>6. LastQueue(ql, lq)
    BY DEF Order
<1>7. Apart(D, K, R)
    BY <1>1 DEF Order, Apart
<1>8. Touching(D, K, R, sm)
  <2>1. ASSUME NEW v \in Int, b.upto <= v, v = Later(sl) \/ Ending(C, K, R, v)
        PROVE  v = Later(sm) \/ Ending(D, K, R, v)
      BY <2>1, <1>1, <1>2 DEF Ending
  <2>2. /\ \A c \in D : c.upto - 1 \in Int /\ b.upto <= c.upto - 1
      BY <1>2, <1>3
  <2> QED BY <2>1, <2>2, <1>3 DEF Order, Touching
<1>9. Acquired(D, K, R)
    BY <1>1, <1>2, <1>3 DEF Order, Acquired
<1> QED BY <1>2, <1>4, <1>5, <1>6, <1>7, <1>8, <1>9 DEF Order

\* The compute batch at its queue's head, begun.
LEMMA ComputeBegun ==
    ASSUME NEW C, NEW K, NEW R, NEW sl \in [Queues -> Nat], NEW ql \in [Queues -> Nat], NEW lq,
           C \subseteq Copies, K \subseteq Computes, R \subseteq Begun,
           \A c \in K : Base(c) \in Int /\ Base(c) < c.upto, Order(C, K, R, sl, ql, lq),
           NEW b \in K, \A c \in K : c = b \/ b.upto < c.upto,
           sl["copy"] >= b.other, sl["compute"] >= b.own,
           NEW r \in Begun, r.upto = b.upto
    PROVE  Order(C, Less(K, b), {r}, sl, ql, lq)
<1> DEFINE D == K \ {b}
<1> USE DEF Less
<1>1. /\ R = {} /\ Base(b) = Later(sl)
      /\ \A c \in C : b.upto < c.upto
    BY ComputeIsNext
<1>2. /\ sl["copy"] \in Nat /\ sl["compute"] \in Nat /\ Later(sl) \in Nat /\ b.upto \in Nat
      /\ ql["copy"] \in Nat /\ ql["compute"] \in Nat
    BY DEF Queues, Later, Computes
<1>3. /\ \A c \in C : c.upto \in Nat /\ b.upto < c.upto
      /\ \A c \in D : c.upto \in Nat /\ b.upto < c.upto /\ b.upto <= Base(c) /\ Base(c) \in Int
  <2>1. /\ \A c \in C : c.upto \in Nat
        /\ \A c \in K : c.upto \in Nat /\ Base(c) \in Int
      BY DEF Copies, Computes
  <2> QED BY <2>1, <1>1 DEF Order, Apart
<1>4. Between(C, D, {r}, sl, ql)
    BY <1>1, <1>2, <1>3 DEF Order, Between
<1>5. Ends(C, D, {r}, sl, ql)
    BY <1>1, <1>2, <1>3 DEF Order, Ends
<1>6. LastQueue(ql, lq)
    BY DEF Order
<1>7. Apart(C, D, {r})
    BY <1>1, <1>3 DEF Order, Apart
<1>8. Touching(C, D, {r}, sl)
    BY <1>1 DEF Order, Touching, Ending
<1>9. Acquired(C, D, {r})
  <2>1. \A c \in D : b.upto <= c.own
      BY <1>3 DEF Order, Acquired
  <2>2. \A c \in C : b.upto <= c.other \/ \E a \in C : b.upto < a.upto /\ a.upto < c.upto
      BY <1>3 DEF Order, Acquired
  <2>3. \A c \in D, a \in C : a.upto < c.upto =>
          a.upto <= c.other \/ \E k \in D : a.upto < k.upto /\ k.upto < c.upto
      BY <1>2, <1>3 DEF Order, Acquired
  <2> QED BY <2>1, <2>2, <2>3 DEF Order, Acquired
<1> QED BY <1>4, <1>5, <1>6, <1>7, <1>8, <1>9 DEF Order

\* The compute batch begun, done.
LEMMA ComputeDone ==
    ASSUME NEW C, NEW K, NEW R, NEW sl \in [Queues -> Nat], NEW ql \in [Queues -> Nat], NEW lq,
           C \subseteq Copies, K \subseteq Computes,
           \A c \in K : Base(c) \in Int,
           NEW r \in Begun, R = {r}, Order(C, K, R, sl, ql, lq)
    PROVE  /\ Order(C, K, {}, Released(sl, "compute", r.upto), ql, lq)
           /\ Later(Released(sl, "compute", r.upto)) = r.upto
<1> DEFINE sm == Released(sl, "compute", r.upto)
<1> USE DEF Released
<1>1. /\ sl["copy"] \in Nat /\ sl["compute"] \in Nat /\ Later(sl) \in Nat /\ r.upto \in Nat
      /\ Later(sl) < r.upto
      /\ ql["copy"] \in Nat /\ ql["compute"] \in Nat
      /\ sl["copy"] < r.upto /\ sl["compute"] < r.upto
      /\ sm["compute"] = r.upto /\ sm["copy"] = sl["copy"] /\ Later(sm) = r.upto
  <2>1. r.upto \in Nat /\ Later(sl) < r.upto
      BY DEF Begun, Order, Between
  <2> QED BY <2>1 DEF Queues, Later
<1>2. /\ \A c \in C : c.upto \in Nat /\ r.upto < c.upto
      /\ \A c \in K : c.upto \in Nat /\ r.upto < c.upto /\ r.upto <= Base(c) /\ Base(c) \in Int
  <2>1. /\ \A c \in C : c.upto \in Nat
        /\ \A c \in K : c.upto \in Nat /\ Base(c) \in Int
      BY DEF Copies, Computes
  <2> QED BY <2>1 DEF Order, Apart
<1>3. Between(C, K, {}, sm, ql)
    BY <1>1, <1>2 DEF Order, Between, Queues
<1>4. Ends(C, K, {}, sm, ql)
    BY <1>1, <1>2 DEF Order, Ends, Between
<1>5. LastQueue(ql, lq)
    BY DEF Order
<1>6. Apart(C, K, {})
    BY DEF Order, Apart
<1>7. Touching(C, K, {}, sm)
  <2>1. ASSUME NEW v \in Int, r.upto <= v, v = Later(sl) \/ Ending(C, K, R, v)
        PROVE  v = Later(sm) \/ Ending(C, K, {}, v)
      BY <2>1, <1>1 DEF Ending
  <2>2. /\ \A c \in C : c.upto - 1 \in Int /\ r.upto <= c.upto - 1
      BY <1>1, <1>2
  <2> QED BY <2>1, <2>2, <1>2 DEF Order, Touching
<1>8. Acquired(C, K, {})
    BY DEF Order, Acquired
<1> QED BY <1>1, <1>3, <1>4, <1>5, <1>6, <1>7, <1>8 DEF Order

-----------------------------------------------------------------------------
(* Queues in order of value, and their sets of batches.                    *)

\* The set of a queue's batches.
LEMMA ElemsIn ==
    ASSUME NEW S, NEW q \in Seq(S)
    PROVE  /\ Elems(q) \subseteq S
           /\ Elems(q) = {} <=> q = <<>>
<1>1. DOMAIN q = 1 .. Len(q) /\ Len(q) \in Nat /\ \A i \in 1 .. Len(q) : q[i] \in S
    OBVIOUS
<1>2. Elems(q) \subseteq S
    BY <1>1 DEF Elems
<1>3. q = <<>> => Elems(q) = {}
    BY <1>1 DEF Elems
<1>4. q # <<>> => q[1] \in Elems(q)
    BY <1>1 DEF Elems
<1> QED BY <1>2, <1>3, <1>4

\* A queue with a batch of a later value added is in order.
LEMMA Joined ==
    ASSUME NEW S, \A x \in S : x.upto \in Nat, NEW q \in Seq(S), NEW x \in S, Sorted(q),
           \A y \in Elems(q) : y.upto < x.upto
    PROVE  /\ Append(q, x) \in Seq(S)
           /\ Elems(Append(q, x)) = Elems(q) \union {x}
           /\ Sorted(Append(q, x))
<1> DEFINE p == Append(q, x)
<1>1. /\ p \in Seq(S) /\ Len(q) \in Nat /\ Len(p) = Len(q) + 1
      /\ DOMAIN q = 1 .. Len(q) /\ DOMAIN p = 1 .. Len(q) + 1
      /\ p[Len(q) + 1] = x /\ \A i \in 1 .. Len(q) : p[i] = q[i] /\ q[i] \in S
    OBVIOUS
<1> HIDE DEF p
<1>2. Elems(p) = Elems(q) \union {x}
  <2>1. ASSUME NEW y \in Elems(q) \union {x} PROVE y \in Elems(p)
      BY <1>1 DEF Elems
  <2>2. ASSUME NEW y \in Elems(p) PROVE y \in Elems(q) \union {x}
      BY <1>1 DEF Elems
  <2> QED BY <2>1, <2>2
<1>3. ASSUME NEW i \in DOMAIN p, NEW j \in DOMAIN p, i < j PROVE p[i].upto < p[j].upto
  <2>1. i \in 1 .. Len(q) /\ (j \in 1 .. Len(q) \/ j = Len(q) + 1)
      BY <1>1, <1>3
  <2>2. CASE j \in 1 .. Len(q)
      BY <1>1, <1>3, <2>1, <2>2 DEF Sorted
  <2>3. CASE j = Len(q) + 1
      BY <1>1, <2>1, <2>3 DEF Elems
  <2> QED BY <2>1, <2>2, <2>3
<1>4. Sorted(p)
    BY <1>3 DEF Sorted
<1> QED BY <1>1, <1>2, <1>4 DEF p

\* The head of a queue in order has the least value, and the rest is in order.
LEMMA HeadTaken ==
    ASSUME NEW S, \A x \in S : x.upto \in Nat, NEW q \in Seq(S), Sorted(q), q # <<>>
    PROVE  /\ Head(q) \in Elems(q) /\ Head(q) \in S
           /\ \A y \in Elems(q) : y = Head(q) \/ Head(q).upto < y.upto
           /\ Tail(q) \in Seq(S)
           /\ Elems(Tail(q)) = Elems(q) \ {Head(q)}
           /\ Sorted(Tail(q))
<1> DEFINE p == Tail(q)
<1>1. /\ p \in Seq(S) /\ Len(q) \in Nat /\ Len(q) > 0 /\ Len(p) = Len(q) - 1
      /\ DOMAIN q = 1 .. Len(q) /\ DOMAIN p = 1 .. Len(q) - 1
      /\ Head(q) = q[1] /\ \A i \in 1 .. Len(q) : q[i] \in S
      /\ \A i \in 1 .. Len(q) - 1 : p[i] = q[i + 1]
    OBVIOUS
<1> HIDE DEF p
<1>2. q[1] \in Elems(q) /\ q[1] \in S
    BY <1>1, SMTT(30) DEF Elems
<1>3. ASSUME NEW i \in 1 .. Len(q) PROVE i = 1 \/ q[1].upto < q[i].upto
    BY <1>1, <1>3, SMTT(60) DEF Sorted
<1>4. \A y \in Elems(q) : y = q[1] \/ q[1].upto < y.upto
    BY <1>1, <1>3 DEF Elems
<1>5. ASSUME NEW i \in 1 .. Len(q) - 1
      PROVE  p[i] \in Elems(q) /\ p[i] # q[1]
  <2>1. i + 1 \in 1 .. Len(q) /\ p[i] = q[i + 1] /\ i + 1 # 1
      BY <1>1
  <2>2. q[1].upto < q[i + 1].upto /\ q[1].upto \in Nat /\ q[1] \in S
      BY <2>1, <1>1, <1>3
  <2>3. q[i + 1] # q[1]
      BY <2>2
  <2> QED BY <2>1, <2>3, <1>1 DEF Elems
<1>6. ASSUME NEW y \in Elems(q), y # q[1] PROVE y \in Elems(p)
  <2>1. PICK i \in 1 .. Len(q) : y = q[i]
      BY <1>1 DEF Elems
  <2>2. i - 1 \in 1 .. Len(q) - 1 /\ (i - 1) + 1 = i
      BY <2>1, <1>1, <1>6
  <2>3. p[i - 1] = y
      BY <2>1, <2>2, <1>1
  <2> QED BY <2>2, <2>3, <1>1 DEF Elems
<1>7. Elems(p) = Elems(q) \ {q[1]}
  <2>1. \A y \in Elems(p) : y \in Elems(q) /\ y # q[1]
      BY <1>1, <1>5 DEF Elems
  <2> QED BY <2>1, <1>6
<1>8. ASSUME NEW i \in DOMAIN p, NEW j \in DOMAIN p, i < j PROVE p[i].upto < p[j].upto
  <2>1. i + 1 \in DOMAIN q /\ j + 1 \in DOMAIN q /\ i + 1 < j + 1
      BY <1>1, <1>8
  <2>2. p[i] = q[i + 1] /\ p[j] = q[j + 1]
      BY <1>1
  <2> QED BY <2>1, <2>2 DEF Sorted
<1>9. Sorted(p)
    BY <1>8 DEF Sorted
<1> QED BY <1>1, <1>2, <1>4, <1>7, <1>9 DEF p

\* The queue of what is begun, which has one batch at most.
LEMMA OneBegun ==
    ASSUME NEW S, NEW r \in S
    PROVE  /\ Append(<<>>, r) \in Seq(S) /\ Len(Append(<<>>, r)) = 1
           /\ Elems(Append(<<>>, r)) = {r}
<1> DEFINE p == Append(<<>>, r)
<1>1. p \in Seq(S) /\ Len(p) = 1 /\ DOMAIN p = {1} /\ p[1] = r
    OBVIOUS
<1> HIDE DEF p
<1>2. Elems(p) = {r}
    BY <1>1 DEF Elems
<1> QED BY <1>1, <1>2 DEF p

\* The one batch of such a queue.
LEMMA TheOne ==
    ASSUME NEW S, NEW q \in Seq(S), Len(q) <= 1, q # <<>>
    PROVE  /\ DOMAIN q = {1} /\ q[1] \in S /\ Head(q) = q[1] /\ Elems(q) = {q[1]}
           /\ Tail(q) = <<>> /\ RemoveAt(q, 1) = <<>>
<1>1. Len(q) = 1 /\ DOMAIN q = {1} /\ q[1] \in S /\ Head(q) = q[1] /\ Tail(q) = <<>>
  <2>1. Len(q) \in Nat /\ Len(q) # 0
      OBVIOUS
  <2>2. Len(q) = 1
      BY <2>1
  <2>3. Tail(q) \in Seq(S) /\ Len(Tail(q)) = 0
      BY <2>2
  <2>4. Tail(q) = <<>>
      BY <2>3
  <2>5. DOMAIN q = {1} /\ q[1] \in S /\ Head(q) = q[1]
      BY <2>2
  <2> QED BY <2>2, <2>4, <2>5
<1>2. Elems(q) = {q[1]}
    BY <1>1 DEF Elems
<1>3. RemoveAt(q, 1) = <<>>
    BY <1>1 DEF RemoveAt
<1> QED BY <1>1, <1>2, <1>3

-----------------------------------------------------------------------------
(* The books and the rings after each of the operators on them.            *)

State(e, r) == [ex |-> e, ring |-> r]

\* t is what the books e and the rings r become when b is submitted to q.
Submits(t, e, r, q, b) ==
    /\ t = State(t.ex, t.ring)
    /\ t.ex \in Books
    /\ t.ex.chain = e.chain /\ t.ex.last_q = q /\ t.ex.reserved = b.upto
    /\ t.ex.q_last = [e.q_last EXCEPT ![q] = b.upto]
    /\ t.ex.held = (IF q = "compute" THEN <<>> ELSE e.held)
    /\ DOMAIN t.ring = Queues
    /\ t.ring[q] = Append(r[q], b)
    /\ t.ring[OtherQueue(q)] = r[OtherQueue(q)]

Waits(t, e, waits) == t.ex.needs_wait = (waits \/ e.needs_wait)

\* The set now with one more
Joins(now, S, b) == now = S \union {b}

\* What submit_batch does to the books and to the rings.
LEMMA Submitted ==
    ASSUME NEW e \in Books, NEW r, DOMAIN r = Queues, NEW q \in Queues, NEW upto \in Nat,
           NEW work, upto >= e.reserved, NEW b, b = Batch(e, q, upto, work), b.upto = upto
    PROVE  /\ Submits(submit_batch(State(e, r), q, upto, work, TRUE), e, r, q, b)
              /\ Waits(submit_batch(State(e, r), q, upto, work, TRUE), e, TRUE)
           /\ Submits(submit_batch(State(e, r), q, upto, work, FALSE), e, r, q, b)
              /\ Waits(submit_batch(State(e, r), q, upto, work, FALSE), e, FALSE)
<1>1. ASSUME NEW waits \in BOOLEAN
      PROVE  Submits(submit_batch(State(e, r), q, upto, work, waits), e, r, q, b)
              /\ Waits(submit_batch(State(e, r), q, upto, work, waits), e, waits)
  <2> DEFINE t == submit_batch(State(e, r), q, upto, work, waits)
             res == IF upto > e.reserved THEN upto ELSE e.reserved
             needs == waits \/ e.needs_wait
             held == IF q = "compute" THEN <<>> ELSE e.held
             ql == [e.q_last EXCEPT ![q] = upto]
             f == [e EXCEPT !.last_q = q, !.q_last = ql, !.reserved = res, !.needs_wait = needs,
                            !.held = held]
             g == [r EXCEPT ![q] = Append(r[q], Batch(e, q, upto, work))]
  <2>1. res = upto /\ needs \in BOOLEAN /\ held \in Seq(Writes) /\ ql \in [Queues -> Nat]
      BY DEF Books
  <2>2. t = State(f, g)
      BY Zenon DEF submit_batch, State
  <2>3. t.ex = f /\ t.ring = g
    <3> HIDE DEF f, g, t
    <3> QED BY <2>2 DEF State
  <2> HIDE DEF ql, held, needs, res
  <2>4. /\ f \in Books /\ f.chain = e.chain /\ f.last_q = q /\ f.reserved = res /\ f.q_last = ql
        /\ f.held = held /\ f.needs_wait = needs
      BY <2>1 DEF Books
  <2>5. DOMAIN g = Queues /\ g[q] = Append(r[q], b)
      OBVIOUS
  <2>6. g[OtherQueue(q)] = r[OtherQueue(q)]
      BY DEF OtherQueue, Queues
  <2> HIDE DEF f, g, t
  <2>7. t.ex.needs_wait = (waits \/ e.needs_wait)
      BY <2>3, <2>4 DEF needs
  <2> QED BY <2>1, <2>2, <2>3, <2>4, <2>5, <2>6, <2>7 DEF ql, held, t, Submits, Waits
<1> QED BY <1>1, Zenon

\* The chain taken out of the books, as a flush takes it.
LEMMA ChainTaken ==
    ASSUME NEW e \in Books, NEW r
    PROVE  /\ [State(e, r) EXCEPT !.ex.chain = <<>>, !.ex.in_chain_flush = FALSE]
                = State([e EXCEPT !.chain = <<>>, !.in_chain_flush = FALSE], r)
           /\ State(e, r).ex = e /\ State(e, r).ring = r
<1> DEFINE s == State(e, r)
<1>1. s.ex = e /\ s.ring = r
    BY DEF State
<1>2. DOMAIN s = {"ex", "ring"} 
    BY DEF State
<1> HIDE DEF s
<1>3. [s EXCEPT !.ex.chain = <<>>, !.ex.in_chain_flush = FALSE]
        = [s EXCEPT !.ex = [s.ex EXCEPT !.chain = <<>>, !.in_chain_flush = FALSE]]
    BY Zenon
<1> QED BY <1>1, <1>2, <1>3 DEF s, State

-----------------------------------------------------------------------------
(* What held uploads, kernels and batches leave in the buffers.            *)

\* The last of the held writes to a place is the last.
LEMMA LastIs ==
    ASSUME NEW held \in Seq(Writes), NEW p, LastWrite(held, p) # {}
    PROVE  LET at == CHOOSE i \in LastWrite(held, p) : TRUE
           IN  /\ at \in DOMAIN held /\ held[at].dst = p
               /\ held[at].dst \in Buffers /\ held[at].value \in Values
<1> DEFINE at == CHOOSE i \in LastWrite(held, p) : TRUE
<1>1. at \in LastWrite(held, p)
    OBVIOUS
<1> HIDE DEF at
<1>2. at \in DOMAIN held /\ held[at].dst = p
    BY <1>1 DEF LastWrite
<1>3. held[at] \in Writes
    BY <1>2
<1>4. held[at].dst \in Buffers /\ held[at].value \in Values
    BY <1>3 DEF Writes
<1> QED BY <1>2, <1>4 DEF at

\* Held writes applied to the buffers give the buffers contents; none change nothing.
LEMMA WrittenIs ==
    ASSUME NEW m \in Contents, NEW held \in Seq(Writes)
    PROVE  Written(m, held) \in Contents /\ Written(m, <<>>) = m
<1>1. \A p \in Buffers : LastWrite(held, p) # {} =>
        held[CHOOSE i \in LastWrite(held, p) : TRUE].value \in Values
    BY LastIs, Zenon
<1>2. \A p \in Buffers : LastWrite(<<>>, p) = {}
    BY DEF LastWrite
<1> QED BY <1>1, <1>2 DEF Contents, Written

\* One more held write is one more applied.
LEMMA WrittenMore ==
    ASSUME NEW m \in Contents, NEW held \in Seq(Writes), NEW w \in Writes
    PROVE  Written(m, Append(held, w)) = [Written(m, held) EXCEPT ![w.dst] = w.value]
<1> DEFINE more == Append(held, w)
           n == Len(held)
<1>1. /\ n \in Nat /\ Len(more) = n + 1 /\ DOMAIN held = 1 .. n /\ DOMAIN more = 1 .. n + 1
      /\ more[n + 1] = w /\ \A i \in 1 .. n : more[i] = held[i]
    OBVIOUS
<1>2. w.dst \in Buffers /\ w.value \in Values
    BY DEF Writes
<1> HIDE DEF more, n
<1>3. LastWrite(more, w.dst) = {n + 1}
  <2>1. ASSUME NEW i \in LastWrite(more, w.dst) PROVE i = n + 1
    <3>1. i \in 1 .. n + 1 /\ \A j \in i + 1 .. n + 1 : more[j].dst # w.dst
        BY <1>1 DEF LastWrite
    <3>2. i < n + 1 => n + 1 \in i + 1 .. n + 1
        BY <3>1, <1>1
    <3> QED BY <3>1, <3>2, <1>1
  <2>2. n + 1 \in LastWrite(more, w.dst)
      BY <1>1 DEF LastWrite
  <2> QED BY <2>1, <2>2
<1>4. ASSUME NEW p \in Buffers, p # w.dst
      PROVE  LastWrite(more, p) = LastWrite(held, p)
  <2>1. ASSUME NEW i \in LastWrite(more, p) PROVE i \in LastWrite(held, p)
    <3>1. i \in 1 .. n + 1 /\ more[i].dst = p /\ \A j \in i + 1 .. n + 1 : more[j].dst # p
        BY <1>1 DEF LastWrite
    <3>2. i # n + 1
        BY <3>1, <1>1, <1>4
    <3>3. i \in 1 .. n /\ \A j \in i + 1 .. n : j \in i + 1 .. n + 1 /\ j \in 1 .. n
        BY <3>1, <3>2, <1>1
    <3> QED BY <3>1, <3>3, <1>1 DEF LastWrite
  <2>2. ASSUME NEW i \in LastWrite(held, p) PROVE i \in LastWrite(more, p)
    <3>1. i \in 1 .. n /\ held[i].dst = p /\ \A j \in i + 1 .. n : held[j].dst # p
        BY <1>1 DEF LastWrite
    <3>2. \A j \in i + 1 .. n + 1 : j = n + 1 \/ (j \in i + 1 .. n /\ j \in 1 .. n)
        BY <3>1, <1>1
    <3>3. \A j \in i + 1 .. n + 1 : more[j].dst # p
        BY <3>1, <3>2, <1>1, <1>4
    <3> QED BY <3>1, <3>3, <1>1 DEF LastWrite
  <2> QED BY <2>1, <2>2
<1>5. ASSUME NEW p \in Buffers, p # w.dst
      PROVE  Written(m, more)[p] = Written(m, held)[p]
  <2> DEFINE at == CHOOSE i \in LastWrite(held, p) : TRUE
  <2>1. LastWrite(held, p) # {} => at \in DOMAIN held
      BY LastIs, Zenon
  <2> HIDE DEF at
  <2>2. LastWrite(held, p) # {} => more[at] = held[at]
      BY <2>1, <1>1
  <2>3. /\ Written(m, more)[p] = IF LastWrite(more, p) = {} THEN m[p]
                                 ELSE more[CHOOSE i \in LastWrite(more, p) : TRUE].value
        /\ Written(m, held)[p] = IF LastWrite(held, p) = {} THEN m[p] ELSE held[at].value
      BY <1>5 DEF Written, Contents, at
  <2>4. LastWrite(more, p) = LastWrite(held, p)
      BY <1>4, <1>5
  <2>5. (CHOOSE i \in LastWrite(more, p) : TRUE) = at
      BY <2>4 DEF at
  <2> HIDE DEF LastWrite
  <2> QED BY <2>2, <2>3, <2>4, <2>5
<1>6. Written(m, more)[w.dst] = w.value
  <2>1. (CHOOSE i \in {n + 1} : TRUE) = n + 1
      OBVIOUS
  <2> QED BY <2>1, <1>1, <1>2, <1>3 DEF Written, Contents
<1>7. DOMAIN Written(m, more) = Buffers /\ DOMAIN Written(m, held) = Buffers
      /\ Written(m, more) = [p \in Buffers |-> Written(m, more)[p]]
      /\ Written(m, held) = [p \in Buffers |-> Written(m, held)[p]]
    BY DEF Written, Contents
<1> HIDE DEF Written
<1>8. Written(m, more) = [Written(m, held) EXCEPT ![w.dst] = w.value]
    BY <1>2, <1>5, <1>6, <1>7
<1> QED BY <1>8 DEF more

\* The staging buffers are no upload's, and no kernel's.
LEMMA StagesApart ==
    /\ \A s \in Stages : s \notin Buffers
    /\ stage0 \in Stages /\ stage1 \in Stages /\ stage0 # stage1
    BY ExecAssumption DEF Stages, stage0, stage1, Buffers

\* Held writes reach the buffers and leave the staging buffers alone.
LEMMA BytesWritten ==
    ASSUME NEW mem \in [Places -> Values], NEW held \in Seq(Writes)
    PROVE  /\ Written(mem, held) \in [Places -> Values]
           /\ InBuffers(Written(mem, held)) = Written(InBuffers(mem), held)
           /\ \A s \in Stages : Written(mem, held)[s] = mem[s]
           /\ InBuffers(mem) \in Contents
<1>1. \A p \in Places : LastWrite(held, p) # {} =>
        held[CHOOSE i \in LastWrite(held, p) : TRUE].value \in Values /\ p \in Buffers
    BY LastIs, Zenon
<1>2. InBuffers(mem) \in Contents /\ DOMAIN InBuffers(mem) = Buffers
    BY DEF InBuffers, Contents, Places
<1>3. Written(mem, held) \in [Places -> Values]
    BY <1>1 DEF Written
<1>4. \A s \in Stages : Written(mem, held)[s] = mem[s]
    BY <1>1, StagesApart DEF Written, Places
<1>5. InBuffers(Written(mem, held)) = Written(InBuffers(mem), held)
    BY <1>2 DEF InBuffers, Written, Places
<1> QED BY <1>2, <1>3, <1>4, <1>5

\* So does a kernel.
LEMMA KernelRun ==
    ASSUME NEW k \in Kernels
    PROVE  /\ \A m \in Contents : Kernel(k, m) \in Contents
           /\ \A mem \in [Places -> Values] :
                LET after == [mem EXCEPT ![k.dst] = mem[k.src]] IN
                /\ after \in [Places -> Values]
                /\ InBuffers(after) = Kernel(k, InBuffers(mem))
                /\ \A s \in Stages : after[s] = mem[s]
<1>1. k.dst \in Buffers /\ k.src \in Buffers
    BY DEF Kernels
<1>2. \A m \in Contents : Kernel(k, m) \in Contents
    BY <1>1 DEF Kernel, Contents
<1>3. ASSUME NEW mem \in [Places -> Values]
      PROVE  LET after == [mem EXCEPT ![k.dst] = mem[k.src]] IN
             /\ after \in [Places -> Values]
             /\ InBuffers(after) = Kernel(k, InBuffers(mem))
             /\ \A s \in Stages : after[s] = mem[s]
    BY <1>1, StagesApart DEF InBuffers, Kernel, Places
<1> QED BY <1>2, <1>3

-----------------------------------------------------------------------------
(* The batches' places in the order, and what they leave there.            *)

\* The values a batch stands for.
LEMMA BaseIs ==
    /\ \A b \in Computes : Base(b) \in Int /\ Base(b) < b.upto /\ b.upto \in Nat
                           /\ Base(b) + Len(b.kernels) <= b.upto
    /\ \A b \in Begun : /\ b.upto \in Nat /\ b.kernels \in Seq(Kernels) /\ Len(b.kernels) \in Nat
                        /\ b.kernels # <<>> => Base(b) = b.upto - Len(b.kernels)
<1>1. ASSUME NEW ks \in Seq(Kernels)
      PROVE  Len(ks) \in Nat /\ (ks = <<>> <=> Len(ks) = 0)
    OBVIOUS
<1>2. ASSUME NEW b \in Computes
      PROVE  Base(b) \in Int /\ Base(b) < b.upto /\ b.upto \in Nat
             /\ Base(b) + Len(b.kernels) <= b.upto
  <2>1. b.upto \in Nat /\ b.kernels \in Seq(Kernels)
      BY DEF Computes
  <2> QED BY <2>1, <1>1 DEF Base
<1>3. ASSUME NEW b \in Begun
      PROVE  /\ b.upto \in Nat /\ b.kernels \in Seq(Kernels) /\ Len(b.kernels) \in Nat
             /\ b.kernels # <<>> => Base(b) = b.upto - Len(b.kernels)
  <2>1. b.upto \in Nat /\ b.kernels \in Seq(Kernels)
      BY DEF Begun
  <2> QED BY <2>1, <1>1 DEF Base
<1> QED BY <1>2, <1>3

\* What a history says of kernels run depends on their values only.
LEMMA RanSame ==
    ASSUME NEW ks \in Seq(Kernels), NEW m, NEW T, NEW U, NEW base \in Nat, NEW n \in Nat,
           base + Len(ks) <= n, \A v \in 0 .. n : U[v] = T[v], Ran(ks, m, T, base)
    PROVE  Ran(ks, m, U, base)
<1>1. ASSUME NEW i \in DOMAIN ks
      PROVE  U[base + i] = Kernel(ks[i], IF i = 1 THEN m ELSE U[base + i - 1])
  <2>1. Len(ks) \in Nat /\ i \in 1 .. Len(ks)
      OBVIOUS
  <2>2. base + i \in 0 .. n /\ base + i - 1 \in 0 .. n
      BY <2>1
  <2>3. U[base + i] = T[base + i] /\ U[base + i - 1] = T[base + i - 1]
      BY <2>2
  <2> QED BY <2>3 DEF Ran
<1> QED BY <1>1 DEF Ran

\* A history extended past every batch's value says the same of them, as long as
\* the buffers and the staging buffers still to be read are as they were.
LEMMA Carried ==
    ASSUME NEW C, NEW K, NEW R, NEW sl \in [Queues -> Nat], NEW ql \in [Queues -> Nat], NEW lq,
           C \subseteq Copies, K \subseteq Computes, R \subseteq Begun,
           \A b \in R : Len(b.kernels) <= b.upto, Order(C, K, R, sl, ql, lq),
           NEW T, NEW U, NEW n \in Nat, Later(ql) <= n, \A v \in 0 .. n : U[v] = T[v],
           NEW mem, NEW now, InBuffers(now) = InBuffers(mem),
           \A b \in C : b.src \in Stages => now[b.src] = mem[b.src],
           Does(T, mem, C, K, R, sl)
    PROVE  Does(U, now, C, K, R, sl)
<1>1. /\ sl["copy"] \in Nat /\ sl["compute"] \in Nat /\ ql["copy"] \in Nat /\ ql["compute"] \in Nat
      /\ Later(sl) \in Nat /\ Later(ql) \in Nat /\ Later(sl) <= Later(ql)
      /\ ql["copy"] <= n /\ ql["compute"] <= n
    BY DEF Order, Between, Queues, Later
<1>2. ASSUME NEW b \in C PROVE CopyDoes(U, now, b)
  <2>1. b.upto \in Nat /\ Later(sl) < b.upto /\ b.upto <= n
      BY <1>1 DEF Order, Between, Copies
  <2>2. U[b.upto] = T[b.upto] /\ U[b.upto - 1] = T[b.upto - 1]
    <3>1. b.upto \in 0 .. n /\ b.upto - 1 \in 0 .. n
        BY <2>1, <1>1
    <3> QED BY <3>1
  <2>3. CopyDoes(T, mem, b)
      BY DEF Does
  <2> QED BY <2>2, <2>3 DEF CopyDoes, CopyOf
<1>3. ASSUME NEW b \in K PROVE ComputeDoes(U, b)
  <2>1. b.upto \in Nat /\ Later(sl) < b.upto /\ b.upto <= n
      BY <1>1 DEF Order, Between, Computes
  <2>2. Base(b) \in Int /\ Base(b) < b.upto /\ Base(b) + Len(b.kernels) <= b.upto
      BY BaseIs
  <2>3. Base(b) \in Nat
    <3>1. \A c \in C : c.upto \in Nat
        BY DEF Copies
    <3>2. \A c \in K : c.upto \in Nat
        BY DEF Computes
    <3>3. \A c \in R : c.upto \in Nat
        BY DEF Begun
    <3> QED BY <1>1, <3>1, <3>2, <3>3 DEF Order, Touching, Ending
  <2>4. U[b.upto] = T[b.upto] /\ U[b.upto - 1] = T[b.upto - 1] /\ U[Base(b)] = T[Base(b)]
    <3>1. b.upto \in 0 .. n /\ b.upto - 1 \in 0 .. n /\ Base(b) \in 0 .. n
        BY <2>1, <2>2, <2>3, <1>1, SMTT(60)
    <3> QED BY <3>1
  <2>5. ComputeDoes(T, b)
      BY DEF Does
  <2>6. CASE b.kernels = <<>>
      BY <2>4, <2>5, <2>6 DEF ComputeDoes
  <2>7. CASE b.kernels # <<>>
    <3>1. Ran(b.kernels, Written(T[Base(b)], b.held), T, Base(b))
        BY <2>5, <2>7 DEF ComputeDoes
    <3>2. b.kernels \in Seq(Kernels) /\ Base(b) + Len(b.kernels) <= n
      <4>1. b.kernels \in Seq(Kernels)
          BY DEF Computes
      <4>2. Len(b.kernels) \in Nat
          BY <4>1
      <4> QED BY <4>1, <4>2, <2>1, <2>2, <2>3
    <3>3. Ran(b.kernels, Written(T[Base(b)], b.held), U, Base(b))
        BY <3>1, <3>2, <2>3, RanSame
    <3> QED BY <3>3, <2>4, <2>7 DEF ComputeDoes
  <2> QED BY <2>6, <2>7
<1>4. ASSUME NEW b \in R PROVE BegunDoes(U, now, b)
  <2>1. /\ b.upto \in Nat /\ b.kernels \in Seq(Kernels) /\ Len(b.kernels) \in Nat
        /\ b.kernels # <<>> => Base(b) = b.upto - Len(b.kernels)
      BY BaseIs
  <2>2. b.upto <= n
      BY <1>1, <2>1 DEF Order, Between
  <2>3. BegunDoes(T, mem, b)
      BY DEF Does
  <2>4. CASE b.kernels = <<>>
    <3>1. b.upto \in 0 .. n
        BY <2>1, <2>2
    <3> QED BY <2>3, <2>4, <3>1 DEF BegunDoes
  <2>5. CASE b.kernels # <<>>
    <3>1. Base(b) \in Nat /\ Base(b) + Len(b.kernels) <= n
        BY <2>1, <2>2, <2>5
    <3>2. Ran(b.kernels, InBuffers(mem), T, Base(b))
        BY <2>3, <2>5 DEF BegunDoes
    <3>3. Ran(b.kernels, InBuffers(mem), U, Base(b))
        BY <3>1, <3>2, <2>1, RanSame
    <3> QED BY <3>3, <2>5 DEF BegunDoes
  <2> QED BY <2>4, <2>5
<1>5. R = {} => U[Later(sl)] = InBuffers(now)
  <2>1. Later(sl) \in 0 .. n
      BY <1>1
  <2> QED BY <2>1 DEF Does
<1> QED BY <1>2, <1>3, <1>4, <1>5 DEF Does

\* A history with one more value.
LEMMA OneMore ==
    ASSUME NEW n \in Nat, NEW T \in [0 .. n -> Contents], NEW x \in Contents
    PROVE  \E U \in [0 .. n + 1 -> Contents] : (\A v \in 0 .. n : U[v] = T[v]) /\ U[n + 1] = x
<1> DEFINE U == [v \in 0 .. n + 1 |-> IF v <= n THEN T[v] ELSE x]
<1>1. \A v \in 0 .. n + 1 : (v <= n => v \in 0 .. n) /\ (~ v <= n => v = n + 1)
    OBVIOUS
<1>2. U \in [0 .. n + 1 -> Contents] /\ (\A v \in 0 .. n : U[v] = T[v]) /\ U[n + 1] = x
    BY <1>1
<1> QED BY <1>2

-----------------------------------------------------------------------------
(* Batches submitted.                                                      *)

\* The batches the two queues are given.
LEMMA BatchIs ==
    ASSUME NEW e \in Books, NEW upto \in Nat
    PROVE  /\ \A held \in Seq(Writes), ks \in Seq(Kernels) :
                LET b == Batch(e, "compute", upto, ComputeWork(held, ks)) IN
                /\ b \in Computes /\ b.upto = upto /\ b.held = held /\ b.kernels = ks
                /\ b.own = e.q_last["compute"]
                /\ b.other = IF e.last_q = "copy" THEN e.q_last["copy"] ELSE 0
           /\ \A dst, src \in Places :
                LET b == Batch(e, "copy", upto, CopyWork(dst, src)) IN
                /\ b \in Copies /\ b.upto = upto /\ b.dst = dst /\ b.src = src
                /\ b.other = IF e.last_q = "compute" THEN e.q_last["compute"] ELSE 0
<1>1. /\ e.q_last["copy"] \in Nat /\ e.q_last["compute"] \in Nat
    BY DEF Books, Queues
<1>2. AcquireOther(e, "compute") = (IF e.last_q = "copy" THEN e.q_last["copy"] ELSE 0)
      /\ AcquireOther(e, "copy") = (IF e.last_q = "compute" THEN e.q_last["compute"] ELSE 0)
      /\ AcquireOwn(e, "compute") = e.q_last["compute"] /\ AcquireOwn(e, "copy") = 0
    BY DEF AcquireOther, AcquireOwn, OtherQueue
<1>3. AcquireOther(e, "compute") \in Nat /\ AcquireOther(e, "copy") \in Nat
    BY <1>1, <1>2
<1> HIDE DEF AcquireOther, AcquireOwn
<1> QED BY <1>1, <1>2, <1>3, ZenonT(60) DEF Batch, ComputeWork, CopyWork, Computes, Copies

\* A compute batch submitted leaves the books and the order good.
LEMMA ComputeSubmitted ==
    ASSUME NEW e \in Books, NEW r, NEW run \in Seq(Begun), NEW sl \in [Queues -> Nat],
           DOMAIN r = Queues, r["copy"] \in Seq(Copies), r["compute"] \in Seq(Computes),
           Sorted(r["copy"]), Sorted(r["compute"]), OrderOK(e, r, run, sl), e.chain = <<>>,
           NEW b \in Computes, Base(b) = Later(e.q_last), b.own = e.q_last["compute"],
           b.other = IF e.last_q = "copy" THEN e.q_last["copy"] ELSE 0,
           NEW t, Submits(t, e, r, "compute", b)
    PROVE  /\ BooksOK(t.ex, t.ring)
           /\ OrderOK(t.ex, t.ring, run, sl)
           /\ t.ex.chain = <<>> /\ t.ex.held = <<>> /\ t.ex.reserved = b.upto
           /\ Later(t.ex.q_last) = b.upto /\ t.ex.q_last["copy"] = e.q_last["copy"]
           /\ t.ring["copy"] = r["copy"]
           /\ Joins(Elems(t.ring["compute"]), Elems(r["compute"]), b)
<1> DEFINE C == Elems(r["copy"])
           K == Elems(r["compute"])
           R == Elems(run)
<1>1. C \subseteq Copies /\ K \subseteq Computes /\ R \subseteq Begun
    BY ElemsIn
<1>2. /\ t.ex \in Books
      /\ t.ex.chain = e.chain /\ t.ex.last_q = "compute" /\ t.ex.reserved = b.upto
      /\ t.ex.q_last = [e.q_last EXCEPT !["compute"] = b.upto]
      /\ t.ex.held = <<>>
      /\ DOMAIN t.ring = Queues
      /\ t.ring["compute"] = Append(r["compute"], b)
      /\ t.ring["copy"] = r["copy"]
    BY DEF Submits, OtherQueue
<1>3. b.upto \in Nat /\ Base(b) < b.upto /\ \A c \in K : Base(c) \in Int
    BY <1>1, BaseIs
<1>4. e.q_last \in [Queues -> Nat] /\ e.last_q \in Queues \union {"none"}
    BY DEF Books
<1>5. Order(C, K \union {b}, R, sl, t.ex.q_last, "compute")
  <2>1. Order(C, K, R, sl, e.q_last, e.last_q)
      BY DEF OrderOK
  <2> HIDE DEF C, K, R
  <2>2. Order(C, K \union {b}, R, sl, [e.q_last EXCEPT !["compute"] = b.upto], "compute")
      BY <1>1, <1>3, <1>4, <2>1, ComputeAdded
  <2> QED BY <1>2, <2>2
<1>6. /\ Elems(t.ring["compute"]) = K \union {b} /\ t.ring["compute"] \in Seq(Computes)
      /\ Sorted(t.ring["compute"])
  <2>1. \A c \in K : c.upto < b.upto
    <3>1. \A c \in K : c.upto <= e.q_last["compute"] /\ c.upto \in Nat
        BY <1>1 DEF OrderOK, Order, Between, Computes
    <3>2. e.q_last["compute"] <= Later(e.q_last) /\ e.q_last["compute"] \in Nat
          /\ Later(e.q_last) \in Nat
        BY <1>4 DEF Later, Queues
    <3> QED BY <3>1, <3>2, <1>3, SMTT(60)
  <2>2. \A c \in Computes : c.upto \in Nat
      BY DEF Computes
  <2>3. r["compute"] \in Seq(Computes) /\ Sorted(r["compute"])
      OBVIOUS
  <2>4. \A c \in Elems(r["compute"]) : c.upto < b.upto
      BY <2>1
  <2> HIDE DEF K
  <2>5. /\ Append(r["compute"], b) \in Seq(Computes)
        /\ Elems(Append(r["compute"], b)) = Elems(r["compute"]) \union {b}
        /\ Sorted(Append(r["compute"], b))
      BY <2>2, <2>3, <2>4, Joined
  <2> QED BY <1>2, <2>5 DEF K
<1>7. Later(t.ex.q_last) = b.upto /\ t.ex.q_last["copy"] = e.q_last["copy"]
    BY <1>2, <1>3, <1>4 DEF Later, Queues
<1>8. BooksOK(t.ex, t.ring)
  <2>1. Len(t.ex.chain) = 0
      BY <1>2
  <2> QED BY <1>2, <1>3, <1>6, <1>7, <2>1 DEF BooksOK
<1>9. OrderOK(t.ex, t.ring, run, sl)
    BY <1>2, <1>5, <1>6 DEF OrderOK
<1> QED BY <1>2, <1>6, <1>7, <1>8, <1>9 DEF Joins

\* So does a copy.
LEMMA CopySubmitted ==
    ASSUME NEW e, NEW r, NEW run \in Seq(Begun), NEW sl \in [Queues -> Nat],
           BooksOK(e, r), OrderOK(e, r, run, sl), e.chain = <<>>,
           NEW b \in Copies, b.upto = e.reserved + 1,
           b.other = IF e.last_q = "compute" THEN e.q_last["compute"] ELSE 0,
           NEW t, Submits(t, e, r, "copy", b)
    PROVE  /\ BooksOK(t.ex, t.ring)
           /\ OrderOK(t.ex, t.ring, run, sl)
           /\ t.ex.chain = <<>> /\ t.ex.held = e.held /\ t.ex.reserved = e.reserved + 1
           /\ Later(t.ex.q_last) = e.reserved + 1 /\ t.ex.q_last["copy"] = e.reserved + 1
           /\ t.ring["compute"] = r["compute"]
           /\ Joins(Elems(t.ring["copy"]), Elems(r["copy"]), b)
           /\ Len(t.ring["copy"]) > Len(r["copy"])
<1> DEFINE C == Elems(r["copy"])
           K == Elems(r["compute"])
           R == Elems(run)
<1>1. /\ e \in Books /\ e.reserved \in Nat /\ e.reserved + 1 \in Nat
      /\ e.q_last \in [Queues -> Nat] /\ e.last_q \in Queues \union {"none"}
      /\ e.reserved = Later(e.q_last)
  <2>1. e \in Books /\ Len(e.chain) = 0 /\ e.reserved = Later(e.q_last) + Len(e.chain)
      BY DEF BooksOK
  <2>2. e.reserved \in Nat /\ e.q_last \in [Queues -> Nat] /\ e.last_q \in Queues \union {"none"}
      BY <2>1 DEF Books
  <2>3. Later(e.q_last) \in Nat
      BY <2>2 DEF Later, Queues
  <2> QED BY <2>1, <2>2, <2>3
<1>2. C \subseteq Copies /\ K \subseteq Computes /\ R \subseteq Begun
    BY ElemsIn DEF BooksOK
<1>3. /\ t.ex \in Books
      /\ t.ex.chain = e.chain /\ t.ex.last_q = "copy" /\ t.ex.reserved = b.upto
      /\ t.ex.q_last = [e.q_last EXCEPT !["copy"] = b.upto]
      /\ t.ex.held = e.held
      /\ DOMAIN t.ring = Queues
      /\ t.ring["copy"] = Append(r["copy"], b)
      /\ t.ring["compute"] = r["compute"]
    BY DEF Submits, OtherQueue
<1>4. Order(C \union {b}, K, R, sl, t.ex.q_last, "copy")
  <2>1. Order(C, K, R, sl, e.q_last, e.last_q) /\ b.upto = Later(e.q_last) + 1
      BY <1>1 DEF OrderOK
  <2>2. e.q_last \in [Queues -> Nat] /\ e.last_q \in Queues \union {"none"}
      BY <1>1
  <2> HIDE DEF C, K, R
  <2>3. Order(C \union {b}, K, R, sl, [e.q_last EXCEPT !["copy"] = b.upto], "copy")
      BY <1>2, <2>1, <2>2, CopyAdded
  <2> QED BY <1>3, <2>3
<1>5. /\ Elems(t.ring["copy"]) = C \union {b} /\ t.ring["copy"] \in Seq(Copies)
      /\ Sorted(t.ring["copy"]) /\ Len(t.ring["copy"]) > Len(r["copy"])
  <2>1. \A c \in C : c.upto < b.upto
    <3>1. \A c \in C : c.upto <= e.q_last["copy"] /\ c.upto \in Nat
        BY <1>2 DEF OrderOK, Order, Between, Copies
    <3>2. e.q_last["copy"] <= Later(e.q_last) /\ e.q_last["copy"] \in Nat
        BY <1>1 DEF Later, Queues
    <3> QED BY <3>1, <3>2, <1>1
  <2>2. \A c \in Copies : c.upto \in Nat
      BY DEF Copies
  <2>3. r["copy"] \in Seq(Copies) /\ Sorted(r["copy"])
      BY DEF BooksOK
  <2>4. Len(Append(r["copy"], b)) > Len(r["copy"])
      BY <2>3
  <2> QED BY <1>3, <2>1, <2>2, <2>3, <2>4, Joined
<1>6. Later(t.ex.q_last) = e.reserved + 1 /\ t.ex.q_last["copy"] = e.reserved + 1
    BY <1>1, <1>3 DEF Later, Queues
<1>7. BooksOK(t.ex, t.ring)
  <2>1. Len(t.ex.chain) = 0
      BY <1>3
  <2> QED BY <1>1, <1>3, <1>5, <1>6, <2>1 DEF BooksOK
<1>8. OrderOK(t.ex, t.ring, run, sl)
    BY <1>3, <1>4, <1>5 DEF OrderOK
<1> QED BY <1>3, <1>5, <1>6, <1>7, <1>8 DEF Joins

-----------------------------------------------------------------------------
(* What the calls do to the driver's books keeps them good.                *)

\* The types of the books' parts.
LEMMA BooksTypes ==
    ASSUME NEW e, NEW r, BooksOK(e, r)
    PROVE  /\ e \in Books /\ e.chain \in Seq(Kernels) /\ e.held \in Seq(Writes)
           /\ e.reserved \in Nat /\ e.q_last \in [Queues -> Nat]
           /\ Later(e.q_last) \in Nat /\ Len(e.chain) \in Nat
           /\ e.reserved = Later(e.q_last) + Len(e.chain)
           /\ e.q_last["copy"] \in Nat /\ e.q_last["copy"] <= Later(e.q_last)
           /\ ~ e.in_chain_flush /\ e.needs_wait \in BOOLEAN
           /\ Elems(r["copy"]) \subseteq Copies /\ Elems(r["compute"]) \subseteq Computes
<1>1. e \in Books /\ e.reserved = Later(e.q_last) + Len(e.chain)
    BY DEF BooksOK
<1>2. /\ e.chain \in Seq(Kernels) /\ e.held \in Seq(Writes) /\ e.reserved \in Nat
      /\ e.q_last \in [Queues -> Nat] /\ ~ e.in_chain_flush /\ e.needs_wait \in BOOLEAN
    BY <1>1 DEF Books
<1>3. Len(e.chain) \in Nat
    BY <1>2
<1>4. /\ Later(e.q_last) \in Nat /\ e.q_last["copy"] \in Nat
      /\ e.q_last["copy"] <= Later(e.q_last)
    BY <1>2 DEF Later, Queues
<1>5. Elems(r["copy"]) \subseteq Copies /\ Elems(r["compute"]) \subseteq Computes
    BY ElemsIn DEF BooksOK
<1> QED BY <1>1, <1>2, <1>3, <1>4, <1>5

\* A flush: the chain and what is held become one batch.
LEMMA FlushGood ==
    ASSUME NEW mem \in [Places -> Values], NEW exp \in Contents, NEW e, NEW r, NEW run,
           NEW sl \in [Queues -> Nat], RunOK(run), Good(mem, exp, e, r, run, sl),
           NEW t, t = flush(State(e, r))
    PROVE  /\ t = State(t.ex, t.ring) /\ Good(mem, exp, t.ex, t.ring, run, sl)
           /\ t.ex.chain = <<>> /\ t.ring["copy"] = r["copy"] /\ t.ex.reserved = e.reserved
           /\ t.ex.q_last["copy"] = e.q_last["copy"]
           /\ e.chain = <<>> => t.ex = e
           /\ e.chain # <<>> => t.ex.held = <<>>
<1> DEFINE C == Elems(r["copy"])
           K == Elems(r["compute"])
           R == Elems(run)
<1>1. BooksOK(e, r) /\ OrderOK(e, r, run, sl) /\ MemoryOK(mem, exp, e, r, run, sl)
    BY DEF Good
<1>2. /\ e \in Books /\ e.chain \in Seq(Kernels) /\ e.held \in Seq(Writes)
      /\ e.reserved \in Nat /\ e.q_last \in [Queues -> Nat]
      /\ Later(e.q_last) \in Nat /\ Len(e.chain) \in Nat
      /\ e.reserved = Later(e.q_last) + Len(e.chain)
    BY <1>1, BooksTypes
<1>3. State(e, r).ex = e /\ State(e, r).ring = r
    BY DEF State
<1>4. CASE e.chain = <<>>
  <2>1. t = State(e, r)
      BY <1>3, <1>4 DEF flush
  <2>2. t.ex = e /\ t.ring = r
      BY <2>1, <1>3
  <2> QED BY <1>4, <2>1, <2>2
<1>5. CASE e.chain # <<>>
  <2>1. PICK f \in Books :
           /\ f = [e EXCEPT !.chain = <<>>, !.in_chain_flush = FALSE]
           /\ f.chain = <<>> /\ f.held = e.held /\ f.reserved = e.reserved
           /\ f.q_last = e.q_last /\ f.last_q = e.last_q /\ f.needs_wait = e.needs_wait
    <3> DEFINE f == [e EXCEPT !.chain = <<>>, !.in_chain_flush = FALSE]
    <3>1. f.chain = <<>> /\ <<>> \in Seq(Kernels) /\ FALSE \in {FALSE}
        BY <1>2 DEF Books
    <3>2. /\ f.held = e.held /\ f.reserved = e.reserved
          /\ f.q_last = e.q_last /\ f.last_q = e.last_q /\ f.needs_wait = e.needs_wait
        BY <1>2 DEF Books
    <3>3. f \in Books
        BY <1>2, <3>1 DEF Books
    <3> HIDE DEF f
    <3>4. f = [e EXCEPT !.chain = <<>>, !.in_chain_flush = FALSE]
        BY DEF f
    <3> QED BY <3>1, <3>2, <3>3, <3>4
  <2>2. t = submit_batch(State(f, r), "compute", e.reserved, ComputeWork(e.held, e.chain), TRUE)
    <3>1. [State(e, r) EXCEPT !.ex.chain = <<>>, !.ex.in_chain_flush = FALSE] = State(f, r)
      <4>1. [State(e, r) EXCEPT !.ex.chain = <<>>, !.ex.in_chain_flush = FALSE]
              = State([e EXCEPT !.chain = <<>>, !.in_chain_flush = FALSE], r)
          BY <1>2, ChainTaken, ZenonT(60)
      <4> QED BY <4>1, <2>1
    <3> QED BY <3>1, <1>3, <1>5, Zenon DEF flush
  <2>3. PICK b \in Computes :
           /\ b = Batch(f, "compute", e.reserved, ComputeWork(e.held, e.chain))
           /\ b.upto = e.reserved /\ b.held = e.held /\ b.kernels = e.chain
           /\ b.own = f.q_last["compute"]
           /\ b.other = IF f.last_q = "copy" THEN f.q_last["copy"] ELSE 0
      BY <1>2, BatchIs
  <2>4. DOMAIN r = Queues /\ "compute" \in Queues /\ e.reserved >= f.reserved /\ e.reserved \in Nat
      BY <1>1, <1>2, <2>1 DEF BooksOK, Queues
  <2>5. Submits(t, f, r, "compute", b) /\ Waits(t, f, TRUE)
      BY <2>2, <2>3, <2>4, Submitted
  <2>6. Base(b) = Later(e.q_last)
      BY <2>3, <1>2, <1>5 DEF Base
  <2>7. /\ BooksOK(t.ex, t.ring)
        /\ OrderOK(t.ex, t.ring, run, sl)
        /\ t.ex.chain = <<>> /\ t.ex.held = <<>> /\ t.ex.reserved = b.upto
        /\ Later(t.ex.q_last) = b.upto /\ t.ex.q_last["copy"] = f.q_last["copy"]
        /\ t.ring["copy"] = r["copy"]
        /\ Joins(Elems(t.ring["compute"]), Elems(r["compute"]), b)
    <3>1. /\ DOMAIN r = Queues /\ r["copy"] \in Seq(Copies) /\ r["compute"] \in Seq(Computes)
          /\ Sorted(r["copy"]) /\ Sorted(r["compute"]) /\ run \in Seq(Begun)
        BY <1>1 DEF BooksOK, RunOK
    <3>2. OrderOK(f, r, run, sl) /\ Base(b) = Later(f.q_last) /\ f.chain = <<>>
        BY <1>1, <2>1, <2>6 DEF OrderOK
    <3>3. /\ b.own = f.q_last["compute"]
          /\ b.other = IF f.last_q = "copy" THEN f.q_last["copy"] ELSE 0
        BY <2>3
    <3> QED BY ONLY <2>5, <3>1, <3>2, <3>3, f \in Books, b \in Computes, sl \in [Queues -> Nat],
               ComputeSubmitted
  <2>8. PICK T \in [0 .. e.reserved -> Contents] : Does(T, mem, C, K, R, sl) /\ Built(T, exp, e)
      BY <1>1 DEF MemoryOK
  <2>9. ComputeDoes(T, b)
      BY <2>3, <2>6, <2>8, <1>5 DEF ComputeDoes, Built
  <2>10. Does(T, mem, C, K \union {b}, R, sl)
      BY <2>8, <2>9 DEF Does
  <2>11. Built(T, exp, t.ex)
    <3>1. T[e.reserved] \in Contents
        BY <1>2, <2>8
    <3>2. Written(T[e.reserved], <<>>) = T[e.reserved]
        BY <3>1, <1>2, WrittenIs
    <3>3. exp = T[e.reserved]
        BY <2>8, <1>5 DEF Built
    <3> QED BY <2>3, <2>7, <3>2, <3>3 DEF Built, Ran
  <2>12. MemoryOK(mem, exp, t.ex, t.ring, run, sl)
      BY <2>3, <2>7, <2>10, <2>11 DEF MemoryOK, Joins
  <2>13. Len(t.ex.chain) <= ChainMax /\ Len(t.ex.held) <= HeldMax
    <3>1. Len(t.ex.chain) = 0 /\ Len(t.ex.held) = 0
        BY <2>7
    <3> QED BY <3>1, ExecAssumption
  <2>14. t = State(t.ex, t.ring) /\ t.ex.needs_wait
      BY <2>5 DEF Submits, Waits
  <2> QED BY <1>5, <2>1, <2>3, <2>5, <2>7, <2>12, <2>13, <2>14 DEF Good
<1> QED BY <1>4, <1>5

\* Held uploads pushed out in a batch of their own.
LEMMA PushGood ==
    ASSUME NEW mem \in [Places -> Values], NEW exp \in Contents, NEW e, NEW r, NEW run,
           NEW sl \in [Queues -> Nat], RunOK(run), Good(mem, exp, e, r, run, sl),
           e.chain = <<>>,
           NEW t, t = push_held(State(e, r))
    PROVE  /\ t = State(t.ex, t.ring) /\ Good(mem, exp, t.ex, t.ring, run, sl)
           /\ t.ex.chain = <<>> /\ t.ex.held = <<>> /\ t.ring["copy"] = r["copy"]
           /\ t.ex.reserved = e.reserved + Held(e)
           /\ t.ex.q_last["copy"] = e.q_last["copy"]
<1> DEFINE C == Elems(r["copy"])
           K == Elems(r["compute"])
           R == Elems(run)
           n == e.reserved
<1>1. BooksOK(e, r) /\ OrderOK(e, r, run, sl) /\ MemoryOK(mem, exp, e, r, run, sl)
    BY DEF Good
<1>2. /\ e \in Books /\ e.held \in Seq(Writes)
      /\ n \in Nat /\ e.q_last \in [Queues -> Nat] /\ n = Later(e.q_last)
      /\ C \subseteq Copies /\ K \subseteq Computes
  <2>1. Len(e.chain) = 0
      OBVIOUS
  <2> QED BY <1>1, <2>1, BooksTypes
<1>3. State(e, r).ex = e /\ State(e, r).ring = r
    BY DEF State
<1>4. n \in Nat
    BY <1>2
<1>5. n \in 0 .. n /\ (n + 1) - 1 = n /\ n + 1 \in Nat
  <2> HIDE DEF n
  <2> QED BY ONLY <1>4
<1>6. CASE e.held = <<>>
  <2>1. t = State(e, r)
      BY <1>3, <1>6 DEF push_held
  <2>2. t.ex = e /\ t.ring = r
      BY <2>1, <1>3
  <2> QED BY <1>2, <1>6, <2>1, <2>2 DEF Held
<1>7. CASE e.held # <<>>
  <2>1. t = submit_batch(State(e, r), "compute", n + 1, ComputeWork(e.held, <<>>), FALSE)
      BY <1>3, <1>7, Zenon DEF push_held
  <2>2. PICK b \in Computes :
           /\ b = Batch(e, "compute", n + 1, ComputeWork(e.held, <<>>))
           /\ b.upto = n + 1 /\ b.held = e.held /\ b.kernels = <<>>
           /\ b.own = e.q_last["compute"]
           /\ b.other = IF e.last_q = "copy" THEN e.q_last["copy"] ELSE 0
    <3>1. <<>> \in Seq(Kernels) /\ n + 1 \in Nat
        BY <1>2
    <3>2. LET b == Batch(e, "compute", n + 1, ComputeWork(e.held, <<>>)) IN
          /\ b \in Computes /\ b.upto = n + 1 /\ b.held = e.held /\ b.kernels = <<>>
          /\ b.own = e.q_last["compute"]
          /\ b.other = IF e.last_q = "copy" THEN e.q_last["copy"] ELSE 0
      <4>1. e \in Books /\ e.held \in Seq(Writes) /\ n + 1 \in Nat
          BY <1>2, <3>1
      <4> HIDE DEF n
      <4>2. PICK ks \in Seq(Kernels) : ks = <<>>
          BY <3>1
      <4>3. LET b == Batch(e, "compute", n + 1, ComputeWork(e.held, ks)) IN
            /\ b \in Computes /\ b.upto = n + 1 /\ b.held = e.held /\ b.kernels = ks
            /\ b.own = e.q_last["compute"]
            /\ b.other = IF e.last_q = "copy" THEN e.q_last["copy"] ELSE 0
          BY ONLY <4>1, ks \in Seq(Kernels), BatchIs
      <4> QED BY <4>2, <4>3
    <3> QED BY <3>2, Zenon
  <2>3. DOMAIN r = Queues /\ "compute" \in Queues /\ n + 1 >= e.reserved /\ n + 1 \in Nat
      BY <1>1, <1>2 DEF BooksOK, Queues
  <2>4. Submits(t, e, r, "compute", b) /\ Waits(t, e, FALSE)
      BY <1>2, <2>1, <2>2, <2>3, Submitted
  <2>5. Base(b) = Later(e.q_last)
    <3>1. b.upto - 1 = n
        BY <2>2, <1>5
    <3> QED BY <3>1, <2>2, <1>2 DEF Base
  <2>6. /\ BooksOK(t.ex, t.ring)
        /\ OrderOK(t.ex, t.ring, run, sl)
        /\ t.ex.chain = <<>> /\ t.ex.held = <<>> /\ t.ex.reserved = b.upto
        /\ Later(t.ex.q_last) = b.upto /\ t.ex.q_last["copy"] = e.q_last["copy"]
        /\ t.ring["copy"] = r["copy"]
        /\ Joins(Elems(t.ring["compute"]), Elems(r["compute"]), b)
    <3>1. /\ DOMAIN r = Queues /\ r["copy"] \in Seq(Copies) /\ r["compute"] \in Seq(Computes)
          /\ Sorted(r["copy"]) /\ Sorted(r["compute"]) /\ run \in Seq(Begun)
        BY <1>1 DEF BooksOK, RunOK
    <3>2. OrderOK(e, r, run, sl) /\ Base(b) = Later(e.q_last) /\ e.chain = <<>> /\ e \in Books
        BY <1>1, <1>2, <2>5
    <3>3. /\ b.own = e.q_last["compute"]
          /\ b.other = IF e.last_q = "copy" THEN e.q_last["copy"] ELSE 0
        BY <2>2
    <3> QED BY ONLY <2>4, <3>1, <3>2, <3>3, b \in Computes, sl \in [Queues -> Nat],
               ComputeSubmitted
  <2>7. PICK T \in [0 .. n -> Contents] : Does(T, mem, C, K, R, sl) /\ Built(T, exp, e)
      BY <1>1 DEF MemoryOK
  <2>8. exp = Written(T[n], e.held) /\ Written(exp, <<>>) = exp
      BY <2>7, <1>2, WrittenIs DEF Built
  <2>9. PICK U \in [0 .. n + 1 -> Contents] : (\A v \in 0 .. n : U[v] = T[v]) /\ U[n + 1] = exp
    <3>1. n \in Nat
        BY <1>2
    <3> HIDE DEF n
    <3> QED BY <3>1, OneMore
  <2>10. Does(U, mem, C, K, R, sl)
    <3>1. /\ R \subseteq Begun /\ \A c \in R : Len(c.kernels) <= c.upto
        BY ElemsIn DEF RunOK
    <3>2. Order(C, K, R, sl, e.q_last, e.last_q) /\ Later(e.q_last) <= n
        BY <1>1, <1>2 DEF OrderOK
    <3> HIDE DEF C, K, R
    <3> QED BY <1>2, <2>7, <2>9, <3>1, <3>2, Carried, ZenonT(60)
  <2>11. ComputeDoes(U, b)
    <3>1. U[n] = T[n] /\ (n + 1) - 1 = n
        BY <1>5, <2>9
    <3> QED BY <2>2, <2>8, <2>9, <3>1 DEF ComputeDoes
  <2>12. Does(U, mem, C, K \union {b}, R, sl)
      BY <2>10, <2>11 DEF Does
  <2>13. Built(U, exp, t.ex)
      BY <2>2, <2>6, <2>8, <2>9 DEF Built, Ran
  <2>14. MemoryOK(mem, exp, t.ex, t.ring, run, sl)
      BY <2>2, <2>6, <2>12, <2>13 DEF MemoryOK, Joins
  <2>15. Len(t.ex.chain) <= ChainMax /\ Len(t.ex.held) <= HeldMax
    <3>1. Len(t.ex.chain) = 0 /\ Len(t.ex.held) = 0
        BY <2>6
    <3> QED BY <3>1, ExecAssumption
  <2>16. t = State(t.ex, t.ring) /\ (~t.ex.needs_wait => ~e.needs_wait)
      BY <2>4 DEF Submits, Waits
  <2>17. ~t.ex.needs_wait =>
           OnlyUploads(Elems(t.ring["copy"]), Elems(t.ring["compute"]), Elems(run))
      BY <2>2, <2>6, <2>16 DEF Good, OnlyUploads, Joins
  <2>18. t.ex.reserved = e.reserved + Held(e)
      BY <1>7, <2>2, <2>6 DEF Held
  <2> QED BY <2>6, <2>14, <2>15, <2>16, <2>17, <2>18 DEF Good
<1> QED BY <1>6, <1>7

\* A copy submitted with nothing built or held before it.
LEMMA CopiedGood ==
    ASSUME NEW mem \in [Places -> Values], NEW exp \in Contents, NEW e, NEW r, NEW run,
           NEW sl \in [Queues -> Nat], RunOK(run), Good(mem, exp, e, r, run, sl),
           e.chain = <<>>, e.held = <<>>, NEW dst \in Places, NEW src \in Places,
           NEW t, t = Copied(State(e, r), dst, src)
    PROVE  \E b \in Copies :
           /\ t = State(t.ex, t.ring) /\ Good(mem, CopyOf(exp, mem, b), t.ex, t.ring, run, sl)
           /\ CopyOf(exp, mem, b) \in Contents
           /\ b.dst = dst /\ b.src = src /\ b.upto = e.reserved + 1
           /\ t.ex.chain = <<>> /\ t.ex.held = <<>>
           /\ t.ex.reserved = b.upto /\ t.ex.q_last["copy"] = b.upto
           /\ t.ex.needs_wait
           /\ Joins(Elems(t.ring["copy"]), Elems(r["copy"]), b)
           /\ Len(t.ring["copy"]) > Len(r["copy"])
<1> DEFINE C == Elems(r["copy"])
           K == Elems(r["compute"])
           R == Elems(run)
           n == e.reserved
<1>1. BooksOK(e, r) /\ OrderOK(e, r, run, sl) /\ MemoryOK(mem, exp, e, r, run, sl)
    BY DEF Good
<1>2. /\ e \in Books
      /\ n \in Nat /\ e.q_last \in [Queues -> Nat] /\ n = Later(e.q_last)
      /\ C \subseteq Copies /\ K \subseteq Computes
  <2>1. Len(e.chain) = 0
      OBVIOUS
  <2> QED BY <1>1, <2>1, BooksTypes
<1>3. t = submit_batch(State(e, r), "copy", n + 1, CopyWork(dst, src), TRUE)
  <2>1. State(e, r).ex = e
      BY DEF State
  <2> QED BY <2>1, Zenon DEF Copied
<1>4. PICK b \in Copies :
         /\ b = Batch(e, "copy", n + 1, CopyWork(dst, src))
         /\ b.upto = n + 1 /\ b.dst = dst /\ b.src = src
         /\ b.other = IF e.last_q = "compute" THEN e.q_last["compute"] ELSE 0
  <2>1. n + 1 \in Nat
      BY <1>2
  <2> QED BY <2>1, <1>2, BatchIs
<1>5. DOMAIN r = Queues /\ "copy" \in Queues /\ n + 1 >= e.reserved /\ n + 1 \in Nat
    BY <1>1, <1>2 DEF BooksOK, Queues
<1>6. Submits(t, e, r, "copy", b) /\ Waits(t, e, TRUE)
    BY <1>2, <1>3, <1>4, <1>5, Submitted
<1>7. /\ BooksOK(t.ex, t.ring)
      /\ OrderOK(t.ex, t.ring, run, sl)
      /\ t.ex.chain = <<>> /\ t.ex.held = e.held /\ t.ex.reserved = e.reserved + 1
      /\ Later(t.ex.q_last) = e.reserved + 1 /\ t.ex.q_last["copy"] = e.reserved + 1
      /\ t.ring["compute"] = r["compute"]
      /\ Joins(Elems(t.ring["copy"]), Elems(r["copy"]), b)
      /\ Len(t.ring["copy"]) > Len(r["copy"])
  <2>1. run \in Seq(Begun) /\ BooksOK(e, r) /\ OrderOK(e, r, run, sl) /\ e.chain = <<>>
      BY <1>1 DEF RunOK
  <2>2. /\ b.upto = e.reserved + 1
        /\ b.other = IF e.last_q = "compute" THEN e.q_last["compute"] ELSE 0
      BY <1>4
  <2> QED BY ONLY <1>6, <2>1, <2>2, b \in Copies, sl \in [Queues -> Nat], CopySubmitted
<1>8. PICK T \in [0 .. n -> Contents] : Does(T, mem, C, K, R, sl) /\ Built(T, exp, e)
    BY <1>1 DEF MemoryOK
<1>9. exp = T[n]
  <2>1. T[n] \in Contents
      BY <1>2
  <2>2. exp = Written(T[n], <<>>)
      BY <1>8 DEF Built
  <2>3. <<>> \in Seq(Writes)
      OBVIOUS
  <2> QED BY <2>1, <2>2, <2>3, WrittenIs
<1>10. CopyOf(exp, mem, b) \in Contents
    BY <1>4 DEF CopyOf, Contents, Places
<1>11. PICK U \in [0 .. n + 1 -> Contents] :
         (\A v \in 0 .. n : U[v] = T[v]) /\ U[n + 1] = CopyOf(exp, mem, b)
  <2>1. n \in Nat
      BY <1>2
  <2> HIDE DEF n
  <2> QED BY <2>1, <1>10, OneMore
<1>12. Does(U, mem, C, K, R, sl)
  <2>1. /\ R \subseteq Begun /\ \A c \in R : Len(c.kernels) <= c.upto
      BY ElemsIn DEF RunOK
  <2>2. Order(C, K, R, sl, e.q_last, e.last_q) /\ Later(e.q_last) <= n
      BY <1>1, <1>2 DEF OrderOK
  <2> HIDE DEF C, K, R
  <2>3. \A c \in C : c.src \in Stages => mem[c.src] = mem[c.src]
      OBVIOUS
  <2> HIDE DEF n
  <2> QED BY ONLY <1>2, <1>8, <1>11, <2>1, <2>2, <2>3, R \subseteq Begun, sl \in [Queues -> Nat],
             Carried, ZenonT(30)
<1>13. CopyDoes(U, mem, b)
  <2>1. U[n] = T[n] /\ (n + 1) - 1 = n
      BY <1>2, <1>11
  <2> QED BY <1>4, <1>9, <1>11, <2>1 DEF CopyDoes
<1>14. Does(U, mem, C \union {b}, K, R, sl)
    BY <1>12, <1>13 DEF Does
<1>15. Built(U, CopyOf(exp, mem, b), t.ex)
  <2>1. Written(CopyOf(exp, mem, b), <<>>) = CopyOf(exp, mem, b)
    <3>1. <<>> \in Seq(Writes)
        OBVIOUS
    <3> QED BY <3>1, <1>10, WrittenIs
  <2> QED BY <1>7, <1>11, <2>1 DEF Built, Ran
<1>16. MemoryOK(mem, CopyOf(exp, mem, b), t.ex, t.ring, run, sl)
    BY <1>7, <1>14, <1>15 DEF MemoryOK, Joins
<1>17. Len(t.ex.chain) <= ChainMax /\ Len(t.ex.held) <= HeldMax
  <2>1. Len(t.ex.chain) = 0 /\ Len(t.ex.held) = 0
      BY <1>7
  <2> QED BY <2>1, ExecAssumption
<1>18. t = State(t.ex, t.ring) /\ t.ex.needs_wait
    BY <1>6 DEF Submits, Waits
<1> QED BY <1>4, <1>7, <1>10, <1>16, <1>17, <1>18 DEF Good

\* What a copy from the books e and the rings r leaves in f and g: b is added, and
\* nothing is built or held.
CopyAdds(b, mem, exp, e, r, run, sl, f, g) ==
    /\ Good(mem, CopyOf(exp, mem, b), f, g, run, sl) /\ CopyOf(exp, mem, b) \in Contents
    /\ e.reserved < b.upto /\ b.upto <= e.reserved + Held(e) + 1
    /\ f.chain = <<>> /\ f.held = <<>>
    /\ f.reserved = b.upto /\ f.q_last["copy"] = b.upto
    /\ f.needs_wait
    /\ Joins(Elems(g["copy"]), Elems(r["copy"]), b)
    /\ Len(g["copy"]) > Len(r["copy"])

\* A copy with what it has to wait for: the chain flushed, the held bytes pushed out.
LEMMA CopyGood ==
    ASSUME NEW mem \in [Places -> Values], NEW exp \in Contents, NEW e, NEW r, NEW run,
           NEW sl \in [Queues -> Nat], RunOK(run), Good(mem, exp, e, r, run, sl),
           NEW dst \in Places, NEW src \in Places,
           NEW t, t = copy(State(e, r), dst, src)
    PROVE  \E b \in Copies : b.dst = dst /\ b.src = src
                             /\ CopyAdds(b, mem, exp, e, r, run, sl, t.ex, t.ring)
<1>1. PICK f : f = flush(State(e, r))
    OBVIOUS
<1>2. /\ f = State(f.ex, f.ring) /\ Good(mem, exp, f.ex, f.ring, run, sl)
      /\ f.ex.chain = <<>> /\ f.ring["copy"] = r["copy"] /\ f.ex.reserved = e.reserved
      /\ e.chain = <<>> => f.ex = e
      /\ e.chain # <<>> => f.ex.held = <<>>
    BY <1>1, FlushGood
<1>3. PICK p : p = push_held(State(f.ex, f.ring))
    OBVIOUS
<1>4. /\ p = State(p.ex, p.ring) /\ Good(mem, exp, p.ex, p.ring, run, sl)
      /\ p.ex.chain = <<>> /\ p.ex.held = <<>> /\ p.ring["copy"] = f.ring["copy"]
      /\ p.ex.reserved = f.ex.reserved + Held(f.ex)
    BY <1>2, <1>3, PushGood
<1>5. ~ f.ex.in_chain_flush
    BY <1>2, BooksTypes DEF Good
<1>6. t = Copied(State(p.ex, p.ring), dst, src)
    BY <1>1, <1>2, <1>3, <1>4, <1>5 DEF copy
<1>7. PICK b \in Copies :
      /\ t = State(t.ex, t.ring) /\ Good(mem, CopyOf(exp, mem, b), t.ex, t.ring, run, sl)
      /\ CopyOf(exp, mem, b) \in Contents
      /\ b.dst = dst /\ b.src = src /\ b.upto = p.ex.reserved + 1
      /\ t.ex.chain = <<>> /\ t.ex.held = <<>>
      /\ t.ex.reserved = b.upto /\ t.ex.q_last["copy"] = b.upto
      /\ t.ex.needs_wait
      /\ Joins(Elems(t.ring["copy"]), Elems(p.ring["copy"]), b)
      /\ Len(t.ring["copy"]) > Len(p.ring["copy"])
  <2>1. PICK pe, pr : pe = p.ex /\ pr = p.ring
      OBVIOUS
  <2>2. /\ Good(mem, exp, pe, pr, run, sl)
        /\ pe.chain = <<>> /\ pe.held = <<>> /\ t = Copied(State(pe, pr), dst, src)
      BY <1>4, <1>6, <2>1
  <2>3. \E b \in Copies :
      /\ t = State(t.ex, t.ring) /\ Good(mem, CopyOf(exp, mem, b), t.ex, t.ring, run, sl)
      /\ CopyOf(exp, mem, b) \in Contents
      /\ b.dst = dst /\ b.src = src /\ b.upto = pe.reserved + 1
      /\ t.ex.chain = <<>> /\ t.ex.held = <<>>
      /\ t.ex.reserved = b.upto /\ t.ex.q_last["copy"] = b.upto
      /\ t.ex.needs_wait
      /\ Joins(Elems(t.ring["copy"]), Elems(pr["copy"]), b)
      /\ Len(t.ring["copy"]) > Len(pr["copy"])
      BY ONLY <2>2, mem \in [Places -> Values], exp \in Contents,
             sl \in [Queues -> Nat], RunOK(run), dst \in Places, src \in Places, CopiedGood,
             SMTT(60)
  <2> QED BY <2>1, <2>3, Zenon
<1>8. p.ring["copy"] = r["copy"]
    BY <1>2, <1>4
<1>9. e.reserved \in Nat
    BY BooksTypes DEF Good
<1>10. Held(f.ex) \in {0, 1} /\ Held(e) \in {0, 1} /\ Held(f.ex) <= Held(e)
    BY <1>2 DEF Held
<1>11. e.reserved < b.upto /\ b.upto <= e.reserved + Held(e) + 1
    BY <1>2, <1>4, <1>7, <1>9, <1>10
<1> QED BY <1>7, <1>8, <1>11 DEF CopyAdds

\* The books with one more upload held, and with one more launch built
Hold(e, w) == [e EXCEPT !.held = Append(e.held, w)]
Landed(m, w) == [m EXCEPT ![w.dst] = w.value]
Build(e, k) == [e EXCEPT !.chain = Append(e.chain, k), !.reserved = e.reserved + 1]

\* An upload held back.
LEMMA HeldGood ==
    ASSUME NEW mem \in [Places -> Values], NEW exp \in Contents, NEW e, NEW r, NEW run,
           NEW sl \in [Queues -> Nat], RunOK(run), Good(mem, exp, e, r, run, sl),
           Len(e.chain) = 0, Len(e.held) < HeldMax, NEW w \in Writes,
           NEW f, f = Hold(e, w)
    PROVE  /\ Good(mem, Landed(exp, w), f, r, run, sl) /\ Landed(exp, w) \in Contents
           /\ f.reserved = e.reserved /\ f.chain = e.chain /\ f.q_last = e.q_last
<1> DEFINE now == [exp EXCEPT ![w.dst] = w.value]
<1> USE DEF Landed, Hold
<1>1. BooksOK(e, r) /\ OrderOK(e, r, run, sl) /\ MemoryOK(mem, exp, e, r, run, sl)
    BY DEF Good
<1>2. e \in Books /\ e.held \in Seq(Writes) /\ e.reserved \in Nat /\ e.chain = <<>>
  <2>1. e \in Books /\ e.held \in Seq(Writes) /\ e.reserved \in Nat /\ e.chain \in Seq(Kernels)
      BY <1>1, BooksTypes
  <2>2. e.chain = <<>>
      BY <2>1
  <2> QED BY <2>1, <2>2
<1>3. /\ Append(e.held, w) \in Seq(Writes) /\ Len(Append(e.held, w)) <= HeldMax
  <2>1. Append(e.held, w) \in Seq(Writes) /\ Len(e.held) \in Nat
        /\ Len(Append(e.held, w)) = Len(e.held) + 1
      BY <1>2
  <2> QED BY <2>1, ExecAssumption
<1>4. /\ f \in Books /\ f.chain = e.chain /\ f.held = Append(e.held, w)
      /\ f.reserved = e.reserved /\ f.q_last = e.q_last /\ f.last_q = e.last_q
      /\ f.needs_wait = e.needs_wait
    BY <1>2, <1>3 DEF Books
<1>5. BooksOK(f, r)
    BY <1>1, <1>4 DEF BooksOK
<1>6. OrderOK(f, r, run, sl)
    BY <1>1, <1>4 DEF OrderOK
<1>7. PICK T \in [0 .. e.reserved -> Contents] :
        Does(T, mem, Elems(r["copy"]), Elems(r["compute"]), Elems(run), sl) /\ Built(T, exp, e)
    BY <1>1 DEF MemoryOK
<1>8. Built(T, now, f)
  <2>1. T[e.reserved] \in Contents
      BY <1>2
  <2>2. Written(T[e.reserved], Append(e.held, w))
           = [Written(T[e.reserved], e.held) EXCEPT ![w.dst] = w.value]
    <3>1. PICK m : m = T[e.reserved]
        OBVIOUS
    <3>2. m \in Contents /\ e.held \in Seq(Writes)
        BY <1>2, <2>1, <3>1
    <3>3. Written(m, Append(e.held, w)) = [Written(m, e.held) EXCEPT ![w.dst] = w.value]
        BY ONLY <3>2, w \in Writes, WrittenMore
    <3> QED BY <3>1, <3>3
  <2>3. exp = Written(T[e.reserved], e.held)
      BY <1>7 DEF Built
  <2> QED BY <1>4, <2>2, <2>3 DEF Built, Ran
<1>9. MemoryOK(mem, now, f, r, run, sl)
    BY <1>4, <1>7, <1>8 DEF MemoryOK
<1>10. now \in Contents
    BY DEF Writes, Contents
<1> HIDE DEF now
<1>11. Good(mem, now, f, r, run, sl)
    BY <1>3, <1>4, <1>5, <1>6, <1>9 DEF Good
<1> QED BY <1>4, <1>10, <1>11 DEF now

\* A launch built into the chain.
LEMMA LaunchGood ==
    ASSUME NEW mem \in [Places -> Values], NEW exp \in Contents, NEW e, NEW r, NEW run,
           NEW sl \in [Queues -> Nat], RunOK(run), Good(mem, exp, e, r, run, sl),
           Len(e.chain) < ChainMax, NEW k \in Kernels,
           NEW f, f = Build(e, k)
    PROVE  /\ Good(mem, Kernel(k, exp), f, r, run, sl)
           /\ Kernel(k, exp) \in Contents
           /\ f.reserved = e.reserved + 1 /\ f.held = e.held /\ f.q_last = e.q_last
<1> DEFINE C == Elems(r["copy"])
           K == Elems(r["compute"])
           R == Elems(run)
           n == e.reserved
           base == Later(e.q_last)
           chain == Append(e.chain, k)
<1>1. BooksOK(e, r) /\ OrderOK(e, r, run, sl) /\ MemoryOK(mem, exp, e, r, run, sl)
    BY DEF Good
<1>2. /\ e \in Books /\ e.chain \in Seq(Kernels) /\ n \in Nat /\ base \in Nat
      /\ Len(e.chain) \in Nat /\ n = base + Len(e.chain) /\ base <= n
      /\ e.q_last \in [Queues -> Nat] /\ C \subseteq Copies /\ K \subseteq Computes
    BY <1>1, BooksTypes
<1>3. /\ chain \in Seq(Kernels) /\ Len(chain) = Len(e.chain) + 1 /\ chain # <<>>
      /\ DOMAIN chain = 1 .. Len(e.chain) + 1 /\ DOMAIN e.chain = 1 .. Len(e.chain)
      /\ chain[Len(e.chain) + 1] = k /\ \A i \in 1 .. Len(e.chain) : chain[i] = e.chain[i]
      /\ e.chain = <<>> <=> Len(e.chain) = 0
  <2> PICK c : c = e.chain
      OBVIOUS
  <2>1. c \in Seq(Kernels)
      BY <1>2
  <2>2. /\ Append(c, k) \in Seq(Kernels) /\ Len(Append(c, k)) = Len(c) + 1
        /\ DOMAIN Append(c, k) = 1 .. Len(c) + 1 /\ DOMAIN c = 1 .. Len(c)
        /\ Append(c, k)[Len(c) + 1] = k /\ \A i \in 1 .. Len(c) : Append(c, k)[i] = c[i]
      BY ONLY <2>1, k \in Kernels
  <2>3. c = <<>> <=> Len(c) = 0
      BY ONLY <2>1
  <2>4. Append(c, k) # <<>>
    <3>1. Len(Append(c, k)) # 0
        BY ONLY <2>1, <2>2
    <3> QED BY ONLY <3>1, SMTT(60)
  <2> QED BY <2>2, <2>3, <2>4
<1> HIDE DEF chain
<1>4. f = [e EXCEPT !.chain = chain, !.reserved = n + 1]
    BY DEF chain, Build
<1>5. /\ f \in Books /\ f.chain = chain /\ f.held = e.held
      /\ f.reserved = n + 1 /\ f.q_last = e.q_last /\ f.last_q = e.last_q
      /\ f.needs_wait = e.needs_wait
  <2>1. n + 1 \in Nat
      BY <1>2
  <2> HIDE DEF n
  <2> QED BY <2>1, <1>2, <1>3, <1>4 DEF Books
<1>6. BooksOK(f, r)
  <2>1. f.reserved = Later(f.q_last) + Len(f.chain)
    <3>1. PICK l \in Nat : l = Len(e.chain)
        BY <1>2
    <3>2. n = base + l /\ base \in Nat /\ Len(f.chain) = l + 1 /\ f.reserved = n + 1
          /\ Later(f.q_last) = base
        BY <1>2, <1>3, <1>5, <3>1
    <3> HIDE DEF n, base
    <3> QED BY ONLY <3>2, l \in Nat
  <2> QED BY <1>1, <1>5, <2>1 DEF BooksOK
<1>7. OrderOK(f, r, run, sl)
    BY <1>1, <1>5 DEF OrderOK
<1>8. PICK T \in [0 .. n -> Contents] : Does(T, mem, C, K, R, sl) /\ Built(T, exp, e)
    BY <1>1 DEF MemoryOK
<1>9. Kernel(k, exp) \in Contents
    BY KernelRun
<1>10. PICK U \in [0 .. n + 1 -> Contents] :
         (\A v \in 0 .. n : U[v] = T[v]) /\ U[n + 1] = Kernel(k, exp)
  <2>1. n \in Nat
      BY <1>2
  <2> HIDE DEF n
  <2> QED BY <2>1, <1>9, OneMore
<1>11. Does(U, mem, C, K, R, sl)
  <2>1. /\ R \subseteq Begun /\ \A c \in R : Len(c.kernels) <= c.upto
      BY ElemsIn DEF RunOK
  <2>2. Order(C, K, R, sl, e.q_last, e.last_q) /\ Later(e.q_last) <= n
      BY <1>1, <1>2 DEF OrderOK
  <2> HIDE DEF C, K, R
  <2> QED BY <1>2, <1>8, <1>10, <2>1, <2>2, Carried
<1>12. Ran(chain, Written(U[base], e.held), U, base)
  <2>1. U[base] = T[base] /\ U[n] = T[n]
    <3>1. base \in 0 .. n /\ n \in 0 .. n
        BY <1>2
    <3> QED BY <3>1, <1>10
  <2>2. Ran(e.chain, Written(T[base], e.held), U, base)
    <3>1. Ran(e.chain, Written(T[base], e.held), T, base) /\ base + Len(e.chain) <= n
        BY <1>2, <1>8 DEF Built
    <3>2. base \in Nat /\ n \in Nat /\ e.chain \in Seq(Kernels)
        BY <1>2
    <3> HIDE DEF n, base
    <3> QED BY <1>10, <3>1, <3>2, RanSame
  <2>3. ASSUME NEW i \in DOMAIN chain
        PROVE  U[base + i] = Kernel(chain[i], IF i = 1 THEN Written(U[base], e.held)
                                              ELSE U[base + i - 1])
    <3>1. CASE i \in DOMAIN e.chain
        BY <1>3, <2>1, <2>2, <3>1 DEF Ran
    <3>2. CASE i = Len(e.chain) + 1
      <4>1. base + i = n + 1 /\ base + i - 1 = n /\ (i = 1 <=> e.chain = <<>>)
            /\ (i = 1 => base = n)
        <5>1. PICK l \in Nat : l = Len(e.chain)
            BY <1>2
        <5>2. i = l + 1 /\ n = base + l /\ base \in Nat
            BY <1>2, <3>2, <5>1
        <5>3. e.chain = <<>> <=> l = 0
            BY <1>3, <5>1
        <5> HIDE DEF n, base
        <5>4. /\ base + i = n + 1 /\ base + i - 1 = n /\ (i = 1 <=> l = 0)
              /\ (i = 1 => base = n)
            BY ONLY <5>2, l \in Nat
        <5> QED BY <5>3, <5>4
      <4>2. exp = IF e.chain = <<>> THEN Written(T[n], e.held) ELSE T[n]
          BY <1>8 DEF Built
      <4>3. U[base + i] = Kernel(k, exp) /\ chain[i] = k
          BY <4>1, <1>3, <1>10, <3>2
      <4>4. exp = IF i = 1 THEN Written(U[base], e.held) ELSE U[base + i - 1]
          BY <4>1, <4>2, <2>1
      <4> QED BY <4>3, <4>4
    <3> QED BY <1>2, <1>3, <3>1, <3>2, SMTT(60)
  <2> QED BY <2>3 DEF Ran
<1>13. Built(U, Kernel(k, exp), f)
    BY <1>3, <1>5, <1>10, <1>12 DEF Built
<1>14. MemoryOK(mem, Kernel(k, exp), f, r, run, sl)
    BY <1>5, <1>11, <1>13 DEF MemoryOK
<1>15. Len(f.chain) <= ChainMax
    BY <1>2, <1>3, <1>5, ExecAssumption
<1> QED BY <1>5, <1>6, <1>7, <1>9, <1>14, <1>15 DEF Good

-----------------------------------------------------------------------------
(* The invariant, and the state at the start                               *)

\* The books, the rings and the slots are those of a memory m and of calls that
\* say x.
InvOf(m, x) ==
    /\ m \in [Places -> Values] /\ x \in Contents /\ slot \in [Queues -> Nat]
    /\ stage_pend \in [Stages -> 0 .. ValueMax + N]
    /\ RunOK(running)
    /\ Good(m, x, ex, ring, running, slot)
    /\ StagesOK(Elems(ring["copy"]), stage_pend, host, patterns)
    /\ DownloadOK(Elems(ring["copy"]), m, x, ex, host)
    /\ HostOK(ex, host)

\* They are the program's own until a stage is refilled that a copy had yet to
\* read; from then on they are those of a program that left that stage alone.
Tells(m, x) == ~spoiled => m = memory /\ x = expected
ExecInvariant ==
    /\ memory \in [Places -> Values] /\ expected \in Contents
    /\ \E m, x : InvOf(m, x) /\ Tells(m, x)

LEMMA AtStart == ASSUME Init PROVE ExecInvariant
<1>1. PICK m \in [Buffers -> Values] :
        /\ memory = [p \in Buffers \union Stages |-> IF p \in Buffers THEN m[p] ELSE 0]
        /\ expected = m
    BY DEF Init
<1>2. memory \in [Places -> Values] /\ expected \in Contents /\ InBuffers(memory) = expected
  <2>1. 0 \in Values
      BY ExecAssumption
  <2>2. InBuffers(memory) = m
      BY <1>1 DEF InBuffers
  <2> QED BY <1>1, <2>1, <2>2 DEF Places, Contents
<1>3. /\ slot \in [Queues -> Nat] /\ slot["copy"] = 0 /\ slot["compute"] = 0
      /\ \A q \in Queues : slot[q] = 0
      /\ Later(slot) = 0
    BY DEF Init, Queues, Later
<1>4. /\ DOMAIN ring = Queues /\ ring["copy"] = <<>> /\ ring["compute"] = <<>>
      /\ running = <<>>
    BY DEF Init, Queues
<1>5. Elems(<<>>) = {}
    BY DEF Elems
<1>6. /\ ex.chain = <<>> /\ ex.held = <<>> /\ ex.reserved = 0 /\ ex.last_q = "none"
      /\ ex.q_last = [q \in Queues |-> 0] /\ ex.needs_wait = FALSE /\ ex.in_chain_flush = FALSE
    BY DEF Init
<1>7. ex \in Books
  <2>1. ex = [chain |-> <<>>, held |-> <<>>, reserved |-> 0, last_q |-> "none",
             q_last |-> [q \in Queues |-> 0], needs_wait |-> FALSE,
             in_chain_flush |-> FALSE]
      BY DEF Init
  <2>2. <<>> \in Seq(Kernels) /\ <<>> \in Seq(Writes) /\ [q \in Queues |-> 0] \in [Queues -> Nat]
      OBVIOUS
  <2> QED BY <2>1, <2>2 DEF Books
<1>8. /\ ex.q_last["copy"] = 0 /\ ex.q_last["compute"] = 0 /\ Later(ex.q_last) = 0
      /\ \A q \in Queues : ex.q_last[q] = 0
    BY <1>6 DEF Queues, Later
<1>9. Len(ex.chain) = 0 /\ Len(ex.held) = 0
    BY <1>6
<1>10. BooksOK(ex, ring)
  <2>1. /\ <<>> \in Seq(Copies) /\ <<>> \in Seq(Computes)
        /\ Sorted(<<>>) /\ ex.reserved = Later(ex.q_last) + Len(ex.chain)
      BY <1>6, <1>8, <1>9 DEF Sorted
  <2> QED BY <1>4, <1>7, <2>1 DEF BooksOK
<1>11. OrderOK(ex, ring, running, slot)
  <2>1. Between({}, {}, {}, slot, ex.q_last) /\ Ends({}, {}, {}, slot, ex.q_last)
      BY <1>3, <1>8 DEF Between, Ends
  <2>2. LastQueue(ex.q_last, ex.last_q)
      BY <1>6, <1>8 DEF LastQueue
  <2>3. Apart({}, {}, {}) /\ Touching({}, {}, {}, slot) /\ Acquired({}, {}, {})
      BY DEF Apart, Touching, Acquired
  <2> QED BY <1>4, <1>5, <2>1, <2>2, <2>3 DEF OrderOK, Order
<1>12. MemoryOK(memory, expected, ex, ring, running, slot)
  <2>1. PICK T \in [0 .. 0 -> Contents] : T[0] = expected
    <3> DEFINE T == [v \in 0 .. 0 |-> expected]
    <3>1. T \in [0 .. 0 -> Contents] /\ T[0] = expected
        BY <1>2
    <3> QED BY <3>1, Zenon
  <2>2. Does(T, memory, {}, {}, {}, slot)
      BY <1>2, <1>3, <2>1 DEF Does
  <2>3. Written(expected, <<>>) = expected
    <3>1. <<>> \in Seq(Writes)
        OBVIOUS
    <3> QED BY <1>2, <3>1, WrittenIs
  <2>4. Built(T, expected, ex)
      BY <1>6, <1>8, <2>1, <2>3 DEF Built, Ran
  <2> QED BY <1>4, <1>5, <1>6, <2>2, <2>4 DEF MemoryOK
<1>13. Good(memory, expected, ex, ring, running, slot)
  <2>1. OnlyUploads({}, {}, {})
      BY DEF OnlyUploads
  <2>2. Len(ex.chain) <= ChainMax /\ Len(ex.held) <= HeldMax
      BY <1>9, ExecAssumption
  <2>3. OnlyUploads(Elems(ring["copy"]), Elems(ring["compute"]), Elems(running))
      BY <1>4, <1>5, <2>1
  <2> QED BY <1>10, <1>11, <1>12, <2>2, <2>3 DEF Good
<1>14. RunOK(running)
    BY <1>4, <1>5 DEF RunOK
<1>15. stage_pend \in [Stages -> 0 .. ValueMax + N]
    BY ExecAssumption DEF Init
<1>16. host.op = "none" /\ HostOK(ex, host)
    BY <1>6, ExecAssumption DEF Init, NoCall, HostOK, Hosts
<1>17. /\ StagesOK(Elems(ring["copy"]), stage_pend, host, patterns)
       /\ DownloadOK(Elems(ring["copy"]), memory, expected, ex, host)
    BY <1>4, <1>5, <1>16 DEF StagesOK, DownloadOK
<1>18. InvOf(memory, expected)
    BY <1>2, <1>3, <1>13, <1>14, <1>15, <1>16, <1>17 DEF InvOf
<1> QED BY <1>2, <1>18 DEF ExecInvariant, Tells

\* Whether something needs a wait: it may always be said, and unsaid once
\* nothing is left but uploads.
LEMMA NeedsSet ==
    ASSUME NEW mem, NEW exp, NEW e, NEW r, NEW run, NEW sl, Good(mem, exp, e, r, run, sl),
           NEW f,
           \/ f = [e EXCEPT !.needs_wait = TRUE]
           \/ /\ f = [e EXCEPT !.needs_wait = FALSE]
              /\ OnlyUploads(Elems(r["copy"]), Elems(r["compute"]), Elems(run))
    PROVE  /\ Good(mem, exp, f, r, run, sl)
           /\ f.chain = e.chain /\ f.held = e.held /\ f.reserved = e.reserved
           /\ f.q_last = e.q_last
<1>1. BooksOK(e, r) /\ OrderOK(e, r, run, sl) /\ MemoryOK(mem, exp, e, r, run, sl)
    BY DEF Good
<1>2. e \in Books
    BY <1>1, BooksTypes
<1>3. /\ f \in Books /\ f.chain = e.chain /\ f.held = e.held /\ f.reserved = e.reserved
      /\ f.q_last = e.q_last /\ f.last_q = e.last_q
      /\ ~f.needs_wait => OnlyUploads(Elems(r["copy"]), Elems(r["compute"]), Elems(run))
    BY <1>2 DEF Books
<1>4. BooksOK(f, r)
    BY <1>1, <1>3 DEF BooksOK
<1>5. OrderOK(f, r, run, sl)
    BY <1>1, <1>3 DEF OrderOK
<1>6. MemoryOK(mem, exp, f, r, run, sl)
    BY <1>1, <1>3 DEF MemoryOK, Built
<1> QED BY <1>3, <1>4, <1>5, <1>6 DEF Good

\* What waiting for a staging buffer shows: nothing pending reads it, but for the
\* copies of tinynv_memset's.
LEMMA Claimed ==
    ASSUME NEW m0, NEW x0, InvOf(m0, x0), NEW s \in Stages, Claims(s),
           host.op \notin {"spread", "sync"}
    PROVE  \A b \in Elems(ring["copy"]) : b.src = s => b.upto \in patterns
<1> SUFFICES ASSUME NEW b \in Elems(ring["copy"]), b.src = s, b.upto \notin patterns
             PROVE  FALSE
    OBVIOUS
<1>1. /\ BooksOK(ex, ring) /\ OrderOK(ex, ring, running, slot)
      /\ StagesOK(Elems(ring["copy"]), stage_pend, host, patterns)
      /\ slot \in [Queues -> Nat] /\ stage_pend \in [Stages -> 0 .. ValueMax + N]
    BY DEF InvOf, Good
<1>2. b \in Copies /\ ex.q_last \in [Queues -> Nat]
    BY <1>1, BooksTypes
<1>3. b.upto <= stage_pend[s]
    BY <1>1 DEF StagesOK
<1>4. Later(slot) < b.upto /\ b.upto <= ex.q_last["copy"]
    BY <1>1 DEF OrderOK, Order, Between
<1>5. /\ b.upto \in Nat /\ stage_pend[s] \in Int /\ slot["copy"] \in Nat
      /\ slot["compute"] \in Nat /\ ex.q_last["copy"] \in Nat
  <2>1. \A v \in 0 .. ValueMax + N : v \in Int
      BY ExecAssumption
  <2> QED BY <1>1, <1>2, <2>1 DEF Copies, Queues
<1>6. slot["copy"] < b.upto /\ 0 < b.upto
    BY <1>4, <1>5 DEF Later
<1>7. sem_reached(stage_pend[s])
    BY <1>3, <1>5, <1>6 DEF Claims
<1>8. slot["copy"] >= stage_pend[s] \/ slot["copy"] >= ex.q_last["copy"]
    BY <1>7 DEF sem_reached, Queues
<1> QED BY <1>3, <1>4, <1>5, <1>6, <1>8

\* A staging buffer nothing pending reads may be written.
LEMMA StageFilled ==
    ASSUME NEW mem \in [Places -> Values], NEW exp, NEW e, NEW r, NEW run,
           NEW sl \in [Queues -> Nat], RunOK(run), Good(mem, exp, e, r, run, sl),
           NEW s \in Stages, NEW v \in Values, \A b \in Elems(r["copy"]) : b.src # s,
           NEW now, now = [mem EXCEPT ![s] = v]
    PROVE  /\ Good(now, exp, e, r, run, sl)
           /\ now \in [Places -> Values] /\ now[s] = v
           /\ \A p \in Places : p # s => now[p] = mem[p]
<1> DEFINE C == Elems(r["copy"])
           K == Elems(r["compute"])
           R == Elems(run)
           n == e.reserved
<1>1. BooksOK(e, r) /\ OrderOK(e, r, run, sl) /\ MemoryOK(mem, exp, e, r, run, sl)
    BY DEF Good
<1>2. /\ n \in Nat /\ e.q_last \in [Queues -> Nat] /\ Later(e.q_last) <= n
      /\ C \subseteq Copies /\ K \subseteq Computes
    BY <1>1, BooksTypes
<1>3. now \in [Places -> Values] /\ now[s] = v /\ \A p \in Places : p # s => now[p] = mem[p]
    BY DEF Places
<1>4. InBuffers(now) = InBuffers(mem)
  <2>1. \A p \in Buffers : p # s /\ p \in Places
      BY StagesApart DEF Places
  <2> QED BY <1>3, <2>1 DEF InBuffers
<1>5. \A b \in C : b.src \in Stages => now[b.src] = mem[b.src]
    BY <1>3 DEF Places
<1>6. PICK T \in [0 .. n -> Contents] : Does(T, mem, C, K, R, sl) /\ Built(T, exp, e)
    BY <1>1 DEF MemoryOK
<1>7. Does(T, now, C, K, R, sl)
  <2>1. /\ R \subseteq Begun /\ \A c \in R : Len(c.kernels) <= c.upto
      BY ElemsIn DEF RunOK
  <2>2. Order(C, K, R, sl, e.q_last, e.last_q)
      BY <1>1 DEF OrderOK
  <2>3. \A v1 \in 0 .. n : T[v1] = T[v1]
      OBVIOUS
  <2> HIDE DEF C, K, R
  <2> QED BY <1>2, <1>4, <1>5, <1>6, <2>1, <2>2, <2>3, Carried
<1>8. MemoryOK(now, exp, e, r, run, sl)
    BY <1>6, <1>7 DEF MemoryOK
<1> QED BY <1>3, <1>8 DEF Good

\* What the host's writing of a staging buffer makes of such a memory: nothing
\* where it has still to be read.
Filled(mem, now, s, v) == now = mem \/ (Pending(s) = {} /\ now = [mem EXCEPT ![s] = v])

LEMMA FilledGood ==
    ASSUME NEW m0, NEW x0, InvOf(m0, x0), NEW s \in Stages, NEW v \in Values, NEW m1,
           Filled(m0, m1, s, v)
    PROVE  Good(m1, x0, ex, ring, running, slot) /\ m1 \in [Places -> Values]
<1>1. /\ m0 \in [Places -> Values] /\ slot \in [Queues -> Nat]
      /\ RunOK(running) /\ Good(m0, x0, ex, ring, running, slot)
    BY DEF InvOf
<1>2. CASE m1 = m0
    BY <1>1, <1>2
<1>3. CASE Pending(s) = {} /\ m1 = [m0 EXCEPT ![s] = v]
  <2>1. \A b \in Elems(ring["copy"]) : b.src # s
      BY <1>3 DEF Pending, Elems
  <2> QED BY <1>1, <1>3, <2>1, StageFilled
<1> QED BY <1>2, <1>3 DEF Filled

-----------------------------------------------------------------------------
(* The calls                                                               *)

\* The state with one more write held, and with one more launch built
LEMMA OneHeld ==
    ASSUME NEW e \in Books, NEW r, NEW w, NEW s, s = State(e, r)
    PROVE  [s EXCEPT !.ex.held = Append(@, w)] = State(Hold(e, w), r)
<1>1. s.ex = e /\ s.ring = r
    BY DEF State
<1>2. DOMAIN s = {"ex", "ring"}
    BY DEF State
<1>3. [s EXCEPT !.ex.held = Append(@, w)]
        = [s EXCEPT !.ex = [s.ex EXCEPT !.held = Append(s.ex.held, w)]]
    BY Zenon
<1> QED BY <1>1, <1>2, <1>3 DEF Hold, State

WithBuilt(s, k) == [s EXCEPT !.ex.chain = Append(@, k), !.ex.reserved = @ + 1]

LEMMA OneBuilt ==
    ASSUME NEW e \in Books, NEW r, NEW k, NEW s, s = State(e, r)
    PROVE  WithBuilt(s, k) = State(Build(e, k), r)
<1>1. s.ex = e /\ s.ring = r
    BY DEF State
<1>2. DOMAIN s = {"ex", "ring"}
    BY DEF State
<1>3. DOMAIN e = {"chain", "held", "reserved", "last_q", "q_last", "needs_wait", "in_chain_flush"}
    BY DEF Books
<1>4. [s EXCEPT !.ex.chain = Append(@, k), !.ex.reserved = @ + 1]
        = [s EXCEPT !.ex = [s.ex EXCEPT !.chain = Append(s.ex.chain, k),
                                        !.reserved = s.ex.reserved + 1]]
    BY <1>1, <1>2, <1>3, Zenon
<1> QED BY <1>1, <1>2, <1>4 DEF Build, State, WithBuilt

\* Between calls there is nothing the host has under way.
LEMMA QuietHost ==
    ASSUME NEW e, NEW f, NEW h, HostOK(e, h), h.op = "none", f.reserved <= ValueMax + N
    PROVE  HostOK(f, h)
BY DEF HostOK

LEMMA SmallUploadKeeps ==
    ASSUME NEW m0, NEW x0, NEW x1, InvOf(m0, x0), NEW b \in Buffers, NEW v \in Values,
           SmallUpload(b, v), x1 = [x0 EXCEPT ![b] = v]
    PROVE  InvOf(m0, x1)'
<1>1. /\ m0 \in [Places -> Values] /\ x0 \in Contents /\ slot \in [Queues -> Nat]
      /\ RunOK(running) /\ Good(m0, x0, ex, ring, running, slot) /\ HostOK(ex, host)
    BY DEF InvOf
<1>2. /\ host.op = "none" /\ ex.reserved < ValueMax /\ ex.reserved \in Nat
      /\ UNCHANGED <<stage_pend, running, slot, host, patterns>>
    BY <1>1, BooksTypes DEF SmallUpload, Calling, Good, history
<1>3. PICK f : f = flush(State(ex, ring))
    OBVIOUS
<1>4. /\ f = State(f.ex, f.ring) /\ Good(m0, x0, f.ex, f.ring, running, slot)
      /\ f.ex.chain = <<>> /\ f.ring["copy"] = ring["copy"] /\ f.ex.reserved = ex.reserved
    BY <1>1, <1>3, FlushGood
<1>5. PICK s : s = IF Full(f) THEN push_held(f) ELSE f
    OBVIOUS
<1>6. /\ s = State(s.ex, s.ring) /\ Good(m0, x0, s.ex, s.ring, running, slot)
      /\ s.ex.chain = <<>> /\ s.ring["copy"] = ring["copy"] /\ s.ex.reserved <= ex.reserved + 1
      /\ Len(s.ex.held) < HeldMax
  <2>1. CASE Full(f)
    <3>1. s = push_held(State(f.ex, f.ring))
        BY <1>4, <1>5, <2>1
    <3>2. /\ s = State(s.ex, s.ring) /\ Good(m0, x0, s.ex, s.ring, running, slot)
          /\ s.ex.chain = <<>> /\ s.ex.held = <<>> /\ s.ring["copy"] = f.ring["copy"]
          /\ s.ex.reserved = f.ex.reserved + Held(f.ex)
        BY <1>1, <1>4, <3>1, PushGood
    <3>3. Held(f.ex) \in {0, 1}
        BY DEF Held
    <3>4. Len(s.ex.held) = 0 /\ 0 < HeldMax
        BY <3>2, ExecAssumption
    <3>5. s.ex.reserved <= ex.reserved + 1
        BY <1>2, <1>4, <3>2, <3>3
    <3> QED BY <1>4, <3>2, <3>4, <3>5
  <2>2. CASE ~Full(f)
    <3>1. s = f
        BY <1>5, <2>2
    <3>2. Len(f.ex.held) \in Nat
        BY <1>4, BooksTypes DEF Good
    <3>3. Len(f.ex.held) # HeldMax /\ Len(f.ex.held) <= HeldMax
        BY <1>4, <2>2 DEF Full, Good
    <3>4. Len(s.ex.held) < HeldMax
        BY <3>1, <3>2, <3>3, ExecAssumption
    <3>5. s.ex.reserved <= ex.reserved + 1
        BY <1>2, <1>4, <3>1
    <3> QED BY <1>4, <3>1, <3>4, <3>5
  <2> QED BY <2>1, <2>2
<1>7. PICK w \in Writes : w = [dst |-> b, value |-> v]
    BY DEF Writes
<1>8. PICK e : e = s.ex
    OBVIOUS
<1>9. PICK g : g = Hold(e, w)
    OBVIOUS
<1>10. ex' = g /\ ring' = s.ring
  <2>1. flush(Now) = f
      BY <1>3 DEF Now, State
  <2>2. Become([s EXCEPT !.ex.held = Append(@, w)])
      BY <1>5, <1>7, <2>1 DEF SmallUpload
  <2>3. e \in Books
      BY <1>6, <1>8, BooksTypes DEF Good
  <2>4. [s EXCEPT !.ex.held = Append(@, w)] = State(g, s.ring)
    <3>1. s = State(e, s.ring)
        BY <1>6, <1>8
    <3>2. [s EXCEPT !.ex.held = Append(@, w)] = State(Hold(e, w), s.ring)
        BY <2>3, <3>1, OneHeld, Zenon
    <3> QED BY <1>9, <3>2
  <2> QED BY <2>2, <2>4 DEF Become, State
<1>11. /\ Good(m0, Landed(x0, w), g, s.ring, running, slot)
       /\ Landed(x0, w) \in Contents
       /\ g.reserved = e.reserved /\ g.chain = e.chain /\ g.q_last = e.q_last
  <2>1. PICK r : r = s.ring
      OBVIOUS
  <2>2. Good(m0, x0, e, r, running, slot) /\ Len(e.chain) = 0 /\ Len(e.held) < HeldMax
      BY <1>6, <1>8, <2>1
  <2>3. /\ Good(m0, Landed(x0, w), g, r, running, slot)
        /\ Landed(x0, w) \in Contents
        /\ g.reserved = e.reserved /\ g.chain = e.chain /\ g.q_last = e.q_last
      BY ONLY <2>2, <1>9, w \in Writes, <1>1, HeldGood
  <2> QED BY <2>1, <2>3
<1>12. x1 = Landed(x0, w)
    BY <1>7 DEF SmallUpload, Landed
<1>13. HostOK(ex', host')
  <2>1. ex'.reserved <= ValueMax + N
    <3>1. ex'.reserved = s.ex.reserved /\ s.ex.reserved \in Nat
        BY <1>6, <1>8, <1>10, <1>11, BooksTypes DEF Good
    <3> QED BY <1>2, <1>6, <3>1, ExecAssumption
  <2> QED BY <1>1, <1>2, <2>1, QuietHost
<1>14. ring'["copy"] = ring["copy"]
    BY <1>6, <1>10
<1>15. StagesOK(Elems(ring'["copy"]), stage_pend', host', patterns')
    BY <1>2, <1>14 DEF InvOf
<1>16. DownloadOK(Elems(ring'["copy"]), m0, x1, ex', host')
    BY <1>2, <1>14 DEF InvOf, DownloadOK
<1> QED BY <1>1, <1>2, <1>10, <1>11, <1>12, <1>13, <1>15, <1>16 DEF InvOf

LEMMA LaunchKeeps ==
    ASSUME NEW m0, NEW x0, NEW x1, InvOf(m0, x0), NEW dst \in Buffers, NEW src \in Buffers,
           Launch(dst, src), x1 = [x0 EXCEPT ![dst] = x0[src]]
    PROVE  InvOf(m0, x1)'
<1>1. /\ m0 \in [Places -> Values] /\ x0 \in Contents /\ slot \in [Queues -> Nat]
      /\ RunOK(running) /\ Good(m0, x0, ex, ring, running, slot) /\ HostOK(ex, host)
    BY DEF InvOf
<1>2. /\ host.op = "none" /\ ex.reserved < ValueMax /\ ex.reserved \in Nat
      /\ UNCHANGED <<stage_pend, running, slot, host, patterns>>
    BY <1>1, BooksTypes DEF Launch, Calling, Good, history
<1>3. PICK s : s = IF Len(ex.chain) >= ChainMax THEN flush(Now) ELSE Now
    OBVIOUS
<1>4. /\ s = State(s.ex, s.ring) /\ Good(m0, x0, s.ex, s.ring, running, slot)
      /\ s.ring["copy"] = ring["copy"] /\ s.ex.reserved = ex.reserved
      /\ Len(s.ex.chain) < ChainMax
  <2>1. Now = State(ex, ring)
      BY DEF Now, State
  <2>2. CASE Len(ex.chain) >= ChainMax
    <3>1. s = flush(State(ex, ring))
        BY <1>3, <2>1, <2>2
    <3>2. /\ s = State(s.ex, s.ring) /\ Good(m0, x0, s.ex, s.ring, running, slot)
          /\ s.ex.chain = <<>> /\ s.ring["copy"] = ring["copy"] /\ s.ex.reserved = ex.reserved
        BY <1>1, <3>1, FlushGood
    <3>3. Len(s.ex.chain) = 0 /\ 0 < ChainMax
        BY <3>2, ExecAssumption
    <3> QED BY <3>2, <3>3
  <2>3. CASE ~(Len(ex.chain) >= ChainMax)
    <3>1. s.ex = ex /\ s.ring = ring /\ s = State(ex, ring)
        BY <1>3, <2>1, <2>3 DEF State
    <3>2. Len(ex.chain) \in Nat
        BY <1>1, BooksTypes DEF Good
    <3>3. Len(ex.chain) < ChainMax
        BY <2>3, <3>2, ExecAssumption
    <3> QED BY <1>1, <3>1, <3>3
  <2> QED BY <2>2, <2>3
<1>5. PICK k \in Kernels : k = [dst |-> dst, src |-> src]
    BY DEF Kernels
<1>6. PICK e, r : e = s.ex /\ r = s.ring
    OBVIOUS
<1>7. PICK g : g = Build(e, k)
    OBVIOUS
<1>8. ex' = g /\ ring' = r
  <2>1. Become(WithBuilt(s, k))
      BY <1>3, <1>5, Zenon DEF Launch, WithBuilt
  <2>2. e \in Books
      BY <1>4, <1>6, BooksTypes DEF Good
  <2>3. WithBuilt(s, k) = State(g, r)
    <3>1. s = State(e, r)
        BY <1>4, <1>6
    <3>2. WithBuilt(s, k) = State(Build(e, k), r)
        BY <2>2, <3>1, OneBuilt
    <3> QED BY <1>7, <3>2
  <2> QED BY <2>1, <2>3 DEF Become, State
<1>9. /\ Good(m0, Kernel(k, x0), g, r, running, slot)
      /\ Kernel(k, x0) \in Contents
      /\ g.reserved = e.reserved + 1 /\ g.held = e.held /\ g.q_last = e.q_last
  <2>1. Good(m0, x0, e, r, running, slot) /\ Len(e.chain) < ChainMax
      BY <1>4, <1>6
  <2> QED BY ONLY <2>1, <1>7, k \in Kernels, <1>1, LaunchGood
<1>10. x1 = Kernel(k, x0)
    BY <1>5 DEF Launch, Kernel
<1>11. HostOK(ex', host')
  <2>1. ex'.reserved <= ValueMax + N
      BY <1>2, <1>4, <1>6, <1>8, <1>9, ExecAssumption
  <2> QED BY <1>1, <1>2, <2>1, QuietHost
<1>12. ring'["copy"] = ring["copy"]
    BY <1>4, <1>6, <1>8
<1>13. StagesOK(Elems(ring'["copy"]), stage_pend', host', patterns')
    BY <1>2, <1>12 DEF InvOf
<1>14. DownloadOK(Elems(ring'["copy"]), m0, x1, ex', host')
    BY <1>2, <1>12 DEF InvOf, DownloadOK
<1> QED BY <1>1, <1>2, <1>8, <1>9, <1>10, <1>11, <1>13, <1>14 DEF InvOf

\* What a flush leaves, at any point of a call that may make one.
LEMMA FlushKeeps ==
    ASSUME NEW m0, NEW x0, InvOf(m0, x0), Become(flush(Now))
    PROVE  /\ Good(m0, x0, ex', ring', running, slot)
           /\ ring'["copy"] = ring["copy"] /\ ex'.reserved = ex.reserved /\ ex'.chain = <<>>
           /\ ex.chain = <<>> => ex' = ex
<1>1. /\ m0 \in [Places -> Values] /\ x0 \in Contents /\ slot \in [Queues -> Nat]
      /\ RunOK(running) /\ Good(m0, x0, ex, ring, running, slot)
    BY DEF InvOf
<1>2. PICK f : f = flush(State(ex, ring))
    OBVIOUS
<1>3. /\ f = State(f.ex, f.ring) /\ Good(m0, x0, f.ex, f.ring, running, slot)
      /\ f.ex.chain = <<>> /\ f.ring["copy"] = ring["copy"] /\ f.ex.reserved = ex.reserved
      /\ ex.chain = <<>> => f.ex = ex
    BY <1>1, <1>2, FlushGood
<1>4. ex' = f.ex /\ ring' = f.ring
    BY <1>2 DEF Become, Now, State
<1> QED BY <1>3, <1>4

LEMMA FlushActionKeeps == ASSUME NEW m0, NEW x0, InvOf(m0, x0), Flush PROVE InvOf(m0, x0)'
<1>1. /\ Become(flush(Now)) /\ host.op = "none"
      /\ UNCHANGED <<stage_pend, running, slot, host, patterns>>
    BY DEF Flush, Calling, history
<1>2. /\ Good(m0, x0, ex', ring', running, slot)
      /\ ring'["copy"] = ring["copy"] /\ ex'.reserved = ex.reserved
    BY <1>1, FlushKeeps
<1>3. HostOK(ex', host')
    BY <1>1, <1>2 DEF InvOf, HostOK
<1>4. DownloadOK(Elems(ring'["copy"]), m0, x0, ex', host')
    BY <1>1, <1>2 DEF InvOf, DownloadOK
<1> QED BY <1>1, <1>2, <1>3, <1>4 DEF InvOf

\* tinynv_exec_idle as far as its wait
LEMMA IdleKeeps ==
    ASSUME NEW m0, NEW x0, InvOf(m0, x0), Idle("sync", 1)
    PROVE  InvOf(m0, x0)'
<1>1. /\ Become(flush(Now)) /\ host.op = "none" /\ host' = Call("sync", 1, 1)
      /\ UNCHANGED <<stage_pend, running, slot, patterns>>
    BY DEF Idle, Calling, history
<1>2. /\ Good(m0, x0, ex', ring', running, slot)
      /\ ring'["copy"] = ring["copy"] /\ ex'.reserved = ex.reserved
    BY <1>1, FlushKeeps
<1>3. HostOK(ex', host') /\ host'.op = "sync"
    BY <1>1, <1>2 DEF InvOf, HostOK, Hosts, Call
<1>4. DownloadOK(Elems(ring'["copy"]), m0, x0, ex', host')
    BY <1>1, <1>2, <1>3 DEF InvOf, DownloadOK
<1>5. StagesOK(Elems(ring'["copy"]), stage_pend', host', patterns')
    BY <1>1, <1>2, <1>3 DEF InvOf, StagesOK
<1> QED BY <1>1, <1>2, <1>3, <1>4, <1>5 DEF InvOf

\* What a copy leaves, as the calls see it
LEMMA CopyOfIs ==
    ASSUME NEW m \in Contents, NEW mem, NEW b \in Copies
    PROVE  /\ b.dst \in Stages => CopyOf(m, mem, b) = m
           /\ b.dst \in Buffers /\ b.src \in Stages
                => CopyOf(m, mem, b) = [m EXCEPT ![b.dst] = mem[b.src]]
           /\ b.dst \in Buffers /\ b.src \in Buffers
                => CopyOf(m, mem, b) = [m EXCEPT ![b.dst] = m[b.src]]
<1>1. b.dst \in Stages => \A p \in Buffers : p # b.dst
    BY StagesApart
<1>2. b.src \in Buffers => b.src \notin Stages
    BY StagesApart
<1>3. m = [p \in Buffers |-> m[p]]
    BY DEF Contents
<1>4. b.dst \in Stages => CopyOf(m, mem, b) = m
    BY <1>1, <1>3 DEF CopyOf
<1>5. ASSUME b.dst \in Buffers, b.src \in Stages
      PROVE  CopyOf(m, mem, b) = [m EXCEPT ![b.dst] = mem[b.src]]
    BY <1>5 DEF CopyOf, Contents
<1>6. ASSUME b.dst \in Buffers, b.src \in Buffers
      PROVE  CopyOf(m, mem, b) = [m EXCEPT ![b.dst] = m[b.src]]
    BY <1>2, <1>6 DEF CopyOf, Contents
<1> QED BY <1>4, <1>5, <1>6

LEMMA CopyCall ==
    ASSUME NEW mem \in [Places -> Values], NEW exp \in Contents, slot \in [Queues -> Nat],
           RunOK(running), Good(mem, exp, ex, ring, running, slot),
           NEW dst \in Places, NEW src \in Places, Become(copy(Now, dst, src))
    PROVE  \E b \in Copies : 
             /\ b.dst = dst /\ b.src = src
             /\ CopyAdds(b, mem, exp, ex, ring, running, slot, ex', ring')
<1>1. PICK e, r, run, sl : e = ex /\ r = ring /\ run = running /\ sl = slot
    OBVIOUS
<1>2. PICK t : t = copy(State(e, r), dst, src)
    OBVIOUS
<1>3. ex' = t.ex /\ ring' = t.ring
    BY <1>1, <1>2 DEF Become, Now, State
<1>4. /\ exp \in Contents /\ sl \in [Queues -> Nat] /\ RunOK(run)
      /\ Good(mem, exp, e, r, run, sl)
    BY <1>1
<1>5. \E b \in Copies : b.dst = dst /\ b.src = src
                          /\ CopyAdds(b, mem, exp, e, r, run, sl, t.ex, t.ring)
    BY ONLY <1>2, <1>4, mem \in [Places -> Values], exp \in Contents, dst \in Places,
            src \in Places, CopyGood
<1> QED BY <1>1, <1>3, <1>5

LEMMA DeviceCopyKeeps ==
    ASSUME NEW m0, NEW x0, NEW x1, InvOf(m0, x0), NEW dst \in Buffers, NEW src \in Buffers,
           DeviceCopy(dst, src), x1 = [x0 EXCEPT ![dst] = x0[src]]
    PROVE  InvOf(m0, x1)'
<1>1. /\ m0 \in [Places -> Values] /\ x0 \in Contents /\ slot \in [Queues -> Nat]
      /\ RunOK(running) /\ Good(m0, x0, ex, ring, running, slot) /\ HostOK(ex, host)
    BY DEF InvOf
<1>2. /\ host.op = "none" /\ ex.reserved < ValueMax /\ ex.reserved \in Nat
      /\ Become(copy(Now, dst, src)) /\ x1 = [x0 EXCEPT ![dst] = x0[src]]
      /\ UNCHANGED <<stage_pend, running, slot, host, patterns>>
    BY <1>1, BooksTypes DEF DeviceCopy, Calling, Good, history
<1>3. dst \in Places /\ src \in Places /\ src \notin Stages /\ dst \notin Stages
    BY StagesApart DEF Places
<1>4. PICK mem : mem = m0
    OBVIOUS
<1>5. PICK b \in Copies :
        /\ b.dst = dst /\ b.src = src
        /\ CopyAdds(b, mem, x0, ex, ring, running, slot, ex', ring')
    BY <1>1, <1>2, <1>3, <1>4, CopyCall
<1>6. CopyOf(x0, mem, b) = x1
    BY <1>1, <1>2, <1>5, CopyOfIs
<1>7. HostOK(ex', host')
  <2>1. Held(ex) \in {0, 1} /\ b.upto \in Nat
      BY DEF Held, Copies
  <2>2. ex'.reserved <= ValueMax + N
      BY <1>2, <1>5, <2>1, ExecAssumption, SMTT(60) DEF CopyAdds
  <2> QED BY <1>1, <1>2, <2>2, QuietHost
<1>8. StagesOK(Elems(ring'["copy"]), stage_pend', host', patterns')
    BY <1>2, <1>3, <1>5 DEF InvOf, StagesOK, CopyAdds, Joins
<1>9. DownloadOK(Elems(ring'["copy"]), m0, x1, ex', host')
    BY <1>2, <1>3, <1>5 DEF InvOf, DownloadOK, CopyAdds, Joins
<1> QED BY <1>1, <1>2, <1>4, <1>5, <1>6, <1>7, <1>8, <1>9 DEF InvOf, CopyAdds

\* A large call begins.
LEMMA LargeBegins ==
    ASSUME NEW e, NEW f, NEW h, HostOK(e, h), e.reserved \in Nat, e.reserved < ValueMax,
           f.reserved = e.reserved, f.held = e.held,
           NEW at \in Buffers, NEW to \in Buffers, at <= to, NEW op \in {"upload", "zero", "set"}
    PROVE  HostOK(f, Call(op, at, to)) /\ Call(op, at, to).op = op
<1>1. Held(f) = Held(e) /\ Held(e) \in {0, 1}
    BY DEF Held
<1>2. PICK g : g = Call(op, at, to)
    OBVIOUS
<1>3. g \in Hosts /\ g.op = op /\ g.at = at /\ g.to = to
    BY <1>2 DEF Call, Hosts, Buffers
<1>4. f.reserved + Held(f) + to - at < ValueMax + N /\ f.reserved <= ValueMax + N
  <2>1. at \in 1 .. N /\ to \in 1 .. N
      BY DEF Buffers
  <2> QED BY ONLY <1>1, <2>1, ExecAssumption, e.reserved \in Nat, e.reserved < ValueMax,
                  f.reserved = e.reserved, at <= to
<1> QED BY <1>2, <1>3, <1>4 DEF HostOK

LEMMA UploadKeeps ==
    ASSUME NEW m0, NEW x0, InvOf(m0, x0), NEW at \in Buffers, NEW to \in Buffers, at <= to,
           Upload(at, to)
    PROVE  InvOf(m0, x0)'
<1>1. /\ Good(m0, x0, ex, ring, running, slot) /\ HostOK(ex, host)
      /\ ex.reserved \in Nat
    BY BooksTypes DEF InvOf, Good
<1>2. /\ host.op = "none" /\ ex.reserved < ValueMax /\ host' = Call("upload", at, to)
      /\ ex' = [ex EXCEPT !.needs_wait = TRUE]
      /\ UNCHANGED <<stage_pend, ring, running, slot, patterns>>
    BY DEF Upload, Calling, history
<1>3. /\ Good(m0, x0, ex', ring, running, slot)
      /\ ex'.reserved = ex.reserved /\ ex'.held = ex.held
    BY <1>1, <1>2, NeedsSet
<1>4. HostOK(ex', host') /\ host'.op = "upload"
    BY <1>1, <1>2, <1>3, LargeBegins
<1>5. StagesOK(Elems(ring'["copy"]), stage_pend', host', patterns')
    BY <1>2, <1>4 DEF InvOf, StagesOK
<1>6. DownloadOK(Elems(ring'["copy"]), m0, x0, ex', host')
    BY <1>2, <1>4 DEF InvOf, DownloadOK
<1> QED BY <1>2, <1>3, <1>4, <1>5, <1>6 DEF InvOf

LEMMA FillKeeps ==
    ASSUME NEW m0, NEW x0, InvOf(m0, x0), NEW at \in Buffers, NEW to \in Buffers, at <= to,
           NEW op \in {"zero", "set"}, Fill(op, at, to)
    PROVE  InvOf(m0, x0)'
<1>1. /\ Good(m0, x0, ex, ring, running, slot) /\ HostOK(ex, host)
      /\ ex.reserved \in Nat
    BY BooksTypes DEF InvOf, Good
<1>2. /\ host.op = "none" /\ ex.reserved < ValueMax /\ host' = Call(op, at, to)
      /\ UNCHANGED <<ex, stage_pend, ring, running, slot, patterns>>
    BY DEF Fill, Calling, history
<1>3. HostOK(ex', host') /\ host'.op = op
    BY <1>1, <1>2, LargeBegins
<1>4. StagesOK(Elems(ring'["copy"]), stage_pend', host', patterns')
    BY <1>2, <1>3 DEF InvOf, StagesOK
<1>5. DownloadOK(Elems(ring'["copy"]), m0, x0, ex', host')
    BY <1>2, <1>3 DEF InvOf, DownloadOK
<1> QED BY <1>2, <1>3, <1>4, <1>5 DEF InvOf

\* A large call after another of its copies
LEMMA ChunkHost ==
    ASSUME NEW e, NEW h, HostOK(e, h), h.op \in {"upload", "spread", "pattern"},
           e.reserved \in Nat,
           NEW f, f.reserved \in Nat, f.reserved <= e.reserved + Held(e) + 1, f.held = <<>>
    PROVE  /\ h.at \in Buffers /\ h.to \in Buffers
           /\ h.at = h.to => HostOK(f, NoCall) /\ HostOK(f, Call("sync", 1, 0))
           /\ h.at # h.to =>
                \A g \in Hosts : g.op = h.op /\ g.at = h.at + 1 /\ g.to = h.to => HostOK(f, g)
<1>1. /\ h.at \in Buffers /\ h.to \in Buffers /\ h.at <= h.to
      /\ e.reserved + Held(e) + h.to - h.at < ValueMax + N
    BY DEF HostOK
<1>2. Held(f) = 0 /\ Held(e) \in {0, 1}
    BY DEF Held
<1>3. N \in Nat /\ ValueMax \in Nat /\ h.at \in 1 .. N /\ h.to \in 1 .. N
    BY <1>1, ExecAssumption DEF Buffers
<1>4. f.reserved <= ValueMax + N
    BY ONLY <1>1, <1>2, <1>3, e.reserved \in Nat, f.reserved \in Nat,
            f.reserved <= e.reserved + Held(e) + 1
<1>5. NoCall \in Hosts /\ NoCall.op = "none"
      /\ Call("sync", 1, 0) \in Hosts /\ Call("sync", 1, 0).op = "sync"
    BY DEF NoCall, Call, Hosts
<1>6. HostOK(f, NoCall) /\ HostOK(f, Call("sync", 1, 0))
    BY <1>4, <1>5 DEF HostOK
<1>7. ASSUME h.at # h.to, NEW g \in Hosts, g.op = h.op, g.at = h.at + 1, g.to = h.to
      PROVE  HostOK(f, g)
  <2>1. g.at \in 1 .. N /\ g.at <= g.to
      BY ONLY <1>1, <1>3, <1>7
  <2>2. f.reserved + Held(f) + g.to - g.at < ValueMax + N
      BY ONLY <1>1, <1>2, <1>3, <1>7, e.reserved \in Nat, f.reserved \in Nat,
              f.reserved <= e.reserved + Held(e) + 1
  <2>3. g.to \in Buffers /\ g.op # "download"
      BY <1>1, <1>7
  <2> QED BY <1>4, <2>1, <2>2, <2>3 DEF HostOK, Buffers
<1> QED BY <1>1, <1>6, <1>7

LEMMA UploadChunkKeeps ==
    ASSUME NEW m0, NEW x0, NEW m1, NEW x1, InvOf(m0, x0), NEW v \in Values, UploadChunk(v),
           NEW s \in Stages, s = IF host.chunk = 0 THEN stage0 ELSE stage1,
           Filled(m0, m1, s, v), x1 = [x0 EXCEPT ![host.at] = m1[s]]
    PROVE  InvOf(m1, x1)'
<1>1. /\ m0 \in [Places -> Values] /\ x0 \in Contents /\ slot \in [Queues -> Nat]
      /\ RunOK(running) /\ Good(m0, x0, ex, ring, running, slot) /\ HostOK(ex, host)
      /\ stage_pend \in [Stages -> 0 .. ValueMax + N]
    BY DEF InvOf
<1>3. /\ host.op = "upload" /\ Claims(s)
      /\ Become(copy(Now, host.at, s))
      /\ stage_pend' = [stage_pend EXCEPT ![s] = ex'.q_last["copy"]]
      /\ host' = IF host.at = host.to THEN NoCall
                 ELSE [host EXCEPT !.at = @ + 1, !.chunk = 1 - @]
      /\ UNCHANGED <<running, slot, patterns>>
    BY DEF UploadChunk, Become
<1>4. \A b \in Elems(ring["copy"]) : b.src = s => b.upto \in patterns
    BY <1>3, Claimed
<1>6. Good(m1, x0, ex, ring, running, slot) /\ m1 \in [Places -> Values]
    BY FilledGood
<1>7. ex.reserved \in Nat /\ host.at \in Buffers /\ host \in Hosts
    BY <1>1, <1>3, BooksTypes DEF Good, HostOK
<1>8. host.at \in Places /\ s \in Places /\ host.at \notin Stages
    BY <1>7, StagesApart DEF Places
<1>9. PICK b \in Copies :
        /\ b.dst = host.at /\ b.src = s
        /\ CopyAdds(b, m1, x0, ex, ring, running, slot, ex', ring')
    BY <1>1, <1>3, <1>6, <1>8, CopyCall
<1>10. CopyOf(x0, m1, b) = x1
  <2>1. CopyOf(x0, m1, b) = [x0 EXCEPT ![b.dst] = m1[b.src]]
      BY <1>1, <1>7, <1>9, CopyOfIs
  <2> QED BY <1>3, <1>6, <1>9, <2>1
<1>11. /\ ex'.reserved = b.upto /\ b.upto \in Nat /\ ex'.held = <<>>
       /\ ex'.reserved <= ex.reserved + Held(ex) + 1
    BY <1>9 DEF CopyAdds, Copies
<1>12. HostOK(ex', host') /\ host'.op \in {"none", "upload"}
  <2>1. /\ host.at = host.to => HostOK(ex', NoCall)
        /\ host.at # host.to =>
             \A g \in Hosts : g.op = host.op /\ g.at = host.at + 1 /\ g.to = host.to
                                => HostOK(ex', g)
      BY <1>1, <1>3, <1>7, <1>11, ChunkHost
  <2>2. CASE host.at = host.to
      BY <1>3, <2>1, <2>2 DEF NoCall
  <2>3. CASE host.at # host.to
    <3>1. host.at \in Nat /\ host.chunk \in {0, 1}
        BY <1>7 DEF Hosts
    <3>2. host.at + 1 \in Nat /\ 1 - host.chunk \in {0, 1}
        BY <3>1
    <3>3. host' = [host EXCEPT !.at = host.at + 1, !.chunk = 1 - host.chunk]
        BY <1>3, <1>7, <2>3 DEF Hosts
    <3>4. host' \in Hosts /\ host'.op = host.op /\ host'.at = host.at + 1 /\ host'.to = host.to
        BY <1>7, <3>2, <3>3 DEF Hosts
    <3> QED BY <1>3, <2>1, <2>3, <3>4
  <2> QED BY <2>2, <2>3
<1>13. stage_pend' \in [Stages -> 0 .. ValueMax + N] /\ stage_pend'[s] = b.upto
  <2>1. b.upto \in 0 .. ValueMax + N
      BY <1>11, <1>12, ExecAssumption DEF HostOK
  <2>2. ex'.q_last["copy"] = b.upto
      BY <1>9 DEF CopyAdds
  <2> QED BY <1>1, <1>3, <2>1, <2>2
<1>14. StagesOK(Elems(ring'["copy"]), stage_pend', host', patterns')
  <2> SUFFICES ASSUME NEW c \in Elems(ring'["copy"]), c.src \in Stages
               PROVE  c.dst \in Buffers /\ (c.upto <= stage_pend'[c.src] \/ c.upto \in patterns')
      BY DEF StagesOK
  <2>1. CASE c = b
      BY <1>7, <1>9, <1>11, <1>13, <2>1
  <2>2. CASE c \in Elems(ring["copy"])
    <3>1. c.dst \in Buffers /\ (c.upto <= stage_pend[c.src] \/ c.upto \in patterns)
        BY <1>3, <2>2 DEF InvOf, StagesOK
    <3>2. c.src = s => c.upto \in patterns
        BY <1>4, <2>2
    <3> QED BY <1>1, <1>3, <3>1, <3>2
  <2> QED BY <1>9, <2>1, <2>2 DEF CopyAdds, Joins
<1>15. DownloadOK(Elems(ring'["copy"]), m1, x1, ex', host')
  <2>1. \A c \in Elems(ring["copy"]) : c.dst \notin Stages
      BY <1>3 DEF InvOf, DownloadOK
  <2> QED BY <1>8, <1>9, <1>12, <2>1 DEF DownloadOK, CopyAdds, Joins
<1>16. Good(m1, x1, ex', ring', running', slot') /\ x1 \in Contents
       /\ m1 \in [Places -> Values]
    BY <1>3, <1>6, <1>9, <1>10 DEF CopyAdds
<1> QED BY <1>1, <1>3, <1>12, <1>13, <1>14, <1>15, <1>16 DEF InvOf

LEMMA FillPatternKeeps ==
    ASSUME NEW m0, NEW x0, NEW m1, InvOf(m0, x0), host.op \in {"zero", "set"},
           NEW v \in Values, NEW then \in {"spread", "pattern"}, FillPattern(v, then),
           Filled(m0, m1, stage0, v)
    PROVE  InvOf(m1, x0)'
<1>1. /\ m0 \in [Places -> Values] /\ x0 \in Contents /\ slot \in [Queues -> Nat]
      /\ RunOK(running) /\ HostOK(ex, host)
      /\ stage_pend \in [Stages -> 0 .. ValueMax + N]
    BY DEF InvOf
<1>2. /\ Claims(stage0) /\ stage_pend' = [stage_pend EXCEPT ![stage0] = 0]
      /\ host' = [host EXCEPT !.op = then]
      /\ UNCHANGED <<ex, ring, running, slot, patterns>>
    BY DEF FillPattern
<1>3. PICK s \in Stages : s = stage0
    BY StagesApart
<1>4. \A b \in Elems(ring["copy"]) : b.src = s => b.upto \in patterns
    BY <1>2, <1>3, Claimed
<1>5. ValueMax + N \in Nat
    BY ExecAssumption
<1>6. Good(m1, x0, ex, ring, running, slot) /\ m1 \in [Places -> Values]
    BY <1>3, FilledGood
<1>7. /\ host' \in Hosts /\ host'.op = then /\ host'.at = host.at /\ host'.to = host.to
    BY <1>1, <1>2 DEF HostOK, Hosts
<1>8. HostOK(ex', host')
    BY <1>1, <1>2, <1>7 DEF HostOK
<1>9. stage_pend' \in [Stages -> 0 .. ValueMax + N]
  <2>1. 0 \in 0 .. ValueMax + N
      BY <1>5
  <2> QED BY <1>1, <1>2, <2>1
<1>10. StagesOK(Elems(ring'["copy"]), stage_pend', host', patterns')
  <2> SUFFICES ASSUME NEW c \in Elems(ring["copy"]), c.src \in Stages
               PROVE  c.dst \in Buffers /\ (c.upto <= stage_pend'[c.src] \/ c.upto \in patterns')
      BY <1>2 DEF StagesOK
  <2>1. c.dst \in Buffers /\ (c.upto <= stage_pend[c.src] \/ c.upto \in patterns)
      BY DEF InvOf, StagesOK
  <2> QED BY <1>1, <1>2, <1>3, <1>4, <2>1
<1>11. DownloadOK(Elems(ring'["copy"]), m1, x0, ex', host')
    BY <1>2, <1>7 DEF InvOf, DownloadOK
<1> QED BY <1>1, <1>2, <1>6, <1>8, <1>9, <1>10, <1>11 DEF InvOf

LEMMA SpreadKeeps ==
    ASSUME NEW m0, NEW x0, NEW x1, InvOf(m0, x0), NEW op, NEW after, Spread(op, after),
           \/ op = "spread" /\ after = Call("sync", 1, 0) /\ patterns' = patterns
           \/ /\ op = "pattern" /\ after = NoCall
              /\ patterns' = patterns \union {ex'.q_last["copy"]},
           x1 = [x0 EXCEPT ![host.at] = m0[stage0]]
    PROVE  InvOf(m0, x1)'
<1>1. /\ m0 \in [Places -> Values] /\ x0 \in Contents /\ slot \in [Queues -> Nat]
      /\ RunOK(running) /\ Good(m0, x0, ex, ring, running, slot) /\ HostOK(ex, host)
    BY DEF InvOf
<1>2. /\ host.op = op /\ op \in {"spread", "pattern"} /\ Become(copy(Now, host.at, stage0))
      /\ host' = IF host.at = host.to THEN after ELSE [host EXCEPT !.at = @ + 1]
      /\ UNCHANGED <<stage_pend, running, slot>>
    BY DEF Spread
<1>3. PICK s, mem : s = stage0 /\ mem = m0
    OBVIOUS
<1>4. ex.reserved \in Nat /\ host.at \in Buffers /\ host \in Hosts
    BY <1>1, <1>2, BooksTypes DEF Good, HostOK
<1>5. host.at \in Places /\ s \in Places /\ s \in Stages /\ host.at \notin Stages
    BY <1>3, <1>4, StagesApart DEF Places
<1>6. PICK b \in Copies :
        /\ b.dst = host.at /\ b.src = s
        /\ CopyAdds(b, mem, x0, ex, ring, running, slot, ex', ring')
    BY <1>1, <1>2, <1>3, <1>5, CopyCall
<1>7. CopyOf(x0, mem, b) = x1
    BY <1>1, <1>2, <1>3, <1>4, <1>5, <1>6, CopyOfIs
<1>8. /\ ex'.reserved = b.upto /\ b.upto \in Nat /\ ex'.held = <<>>
      /\ ex'.reserved <= ex.reserved + Held(ex) + 1
    BY <1>6 DEF CopyAdds, Copies
<1>9. /\ HostOK(ex', host') /\ (op = "spread" => host'.op \in {"spread", "sync"})
      /\ host'.op # "download"
  <2>1. /\ host.at = host.to => HostOK(ex', NoCall) /\ HostOK(ex', Call("sync", 1, 0))
        /\ host.at # host.to =>
             \A g \in Hosts : g.op = host.op /\ g.at = host.at + 1 /\ g.to = host.to
                                => HostOK(ex', g)
      BY <1>1, <1>2, <1>4, <1>8, ChunkHost
  <2>2. CASE host.at = host.to
      BY <1>2, <2>1, <2>2 DEF Call, NoCall
  <2>3. CASE host.at # host.to
    <3>1. host.at + 1 \in Nat
        BY <1>4 DEF Hosts
    <3>2. host' = [host EXCEPT !.at = host.at + 1]
        BY <1>2, <1>4, <2>3 DEF Hosts
    <3>3. host' \in Hosts /\ host'.op = host.op /\ host'.at = host.at + 1 /\ host'.to = host.to
        BY <1>4, <3>1, <3>2 DEF Hosts
    <3> QED BY <1>2, <2>1, <2>3, <3>3
  <2> QED BY <2>2, <2>3
<1>10. StagesOK(Elems(ring'["copy"]), stage_pend', host', patterns')
  <2>1. patterns \subseteq patterns' /\ (op = "pattern" => b.upto \in patterns')
      BY <1>6 DEF CopyAdds
  <2> QED BY <1>2, <1>3, <1>4, <1>6, <1>9, <2>1 DEF InvOf, StagesOK, CopyAdds, Joins
<1>11. DownloadOK(Elems(ring'["copy"]), m0, x1, ex', host')
  <2>1. \A c \in Elems(ring["copy"]) : c.dst \notin Stages
      BY <1>2 DEF InvOf, DownloadOK
  <2> QED BY <1>5, <1>6, <1>9, <2>1 DEF DownloadOK, CopyAdds, Joins
<1>12. Good(m0, x1, ex', ring', running', slot') /\ x1 \in Contents
    BY <1>2, <1>3, <1>6, <1>7 DEF CopyAdds
<1> QED BY <1>1, <1>2, <1>9, <1>10, <1>11, <1>12 DEF InvOf

LEMMA DownloadKeeps ==
    ASSUME NEW m0, NEW x0, InvOf(m0, x0), NEW src \in Buffers, Download(src)
    PROVE  InvOf(m0, x0)'
<1>1. /\ m0 \in [Places -> Values] /\ x0 \in Contents /\ slot \in [Queues -> Nat]
      /\ RunOK(running) /\ Good(m0, x0, ex, ring, running, slot) /\ HostOK(ex, host)
    BY DEF InvOf
<1>2. /\ host.op = "none" /\ ex.reserved < ValueMax /\ ex.reserved \in Nat
      /\ Become(copy(Now, stage0, src)) /\ host' = Call("download", src, src)
      /\ UNCHANGED <<stage_pend, running, slot, patterns>>
    BY <1>1, BooksTypes DEF Download, Calling, Good, history
<1>3. PICK s, mem : s = stage0 /\ mem = m0
    OBVIOUS
<1>4. src \in Places /\ s \in Places /\ s \in Stages /\ src \notin Stages
    BY <1>3, StagesApart DEF Places
<1>5. PICK b \in Copies :
        /\ b.dst = s /\ b.src = src
        /\ CopyAdds(b, mem, x0, ex, ring, running, slot, ex', ring')
    BY <1>1, <1>2, <1>3, <1>4, CopyCall
<1>6. CopyOf(x0, mem, b) = x0
    BY <1>1, <1>2, <1>4, <1>5, CopyOfIs
<1>7. /\ host' \in Hosts /\ host'.op = "download" /\ host'.at = src
    BY <1>2 DEF Call, Hosts, Buffers
<1>8. HostOK(ex', host')
  <2>1. Held(ex) \in {0, 1} /\ b.upto \in Nat
      BY DEF Held, Copies
  <2>2. ex'.reserved <= ValueMax + N
      BY <1>2, <1>5, <2>1, ExecAssumption DEF CopyAdds
  <2> QED BY <1>7, <2>2 DEF HostOK
<1>9. StagesOK(Elems(ring'["copy"]), stage_pend', host', patterns')
    BY <1>2, <1>4, <1>5 DEF InvOf, StagesOK, CopyAdds, Joins
<1>10. DownloadOK(Elems(ring'["copy"]), m0, x0, ex', host')
  <2>1. \A c \in Elems(ring["copy"]) : c.dst \notin Stages
      BY <1>2 DEF InvOf, DownloadOK
  <2>2. b \in Elems(ring'["copy"]) /\ b.dst = stage0
      BY <1>3, <1>5 DEF CopyAdds, Joins
  <2> QED BY <1>3, <1>5, <1>7, <2>1, <2>2 DEF DownloadOK, CopyAdds, Joins
<1>11. Good(m0, x0, ex', ring', running', slot') /\ x0 \in Contents
    BY <1>2, <1>3, <1>5, <1>6 DEF CopyAdds
<1> QED BY <1>1, <1>2, <1>8, <1>9, <1>10, <1>11 DEF InvOf

\* A wait for everything the timeline has reached leaves nothing in flight.
LEMMA AllDone ==
    ASSUME NEW m0, NEW x0, InvOf(m0, x0), sem_reached(timeline)
    PROVE  /\ Elems(ring["copy"]) = {} /\ Elems(ring["compute"]) = {} /\ Elems(running) = {}
           /\ ring["copy"] = <<>> /\ ring["compute"] = <<>> /\ running = <<>>
<1>1. /\ BooksOK(ex, ring) /\ OrderOK(ex, ring, running, slot) /\ RunOK(running)
      /\ slot \in [Queues -> Nat]
    BY DEF InvOf, Good
<1>2. /\ ex.q_last \in [Queues -> Nat] /\ running \in Seq(Begun)
      /\ ring["copy"] \in Seq(Copies) /\ ring["compute"] \in Seq(Computes)
      /\ Elems(ring["copy"]) \subseteq Copies /\ Elems(ring["compute"]) \subseteq Computes
    BY <1>1, BooksTypes DEF BooksOK, RunOK
<1>3. Elems(running) \subseteq Begun
    BY <1>2, ElemsIn
<1>4. PICK a, c, la, lc \in Nat :
        /\ a = slot["copy"] /\ c = slot["compute"]
        /\ la = ex.q_last["copy"] /\ lc = ex.q_last["compute"]
    BY <1>1, <1>2 DEF Queues
<1>5. timeline >= la /\ timeline >= lc /\ timeline \in Nat
    BY <1>4 DEF timeline
<1>6. a >= la /\ c >= lc
    BY <1>4, <1>5 DEF sem_reached, Queues
<1>7. Later(slot) >= a /\ Later(slot) >= c /\ Later(slot) \in Nat
    BY <1>4 DEF Later
<1>8. Between(Elems(ring["copy"]), Elems(ring["compute"]), Elems(running), slot, ex.q_last)
    BY <1>1 DEF OrderOK, Order
<1>9. ASSUME NEW b \in Elems(ring["copy"]) PROVE FALSE
  <2>1. b.upto \in Nat /\ Later(slot) < b.upto /\ b.upto <= la
      BY <1>2, <1>4, <1>8, <1>9 DEF Between, Copies
  <2> QED BY <1>4, <1>6, <1>7, <2>1
<1>10. ASSUME NEW b \in Elems(ring["compute"]) PROVE FALSE
  <2>1. b.upto \in Nat /\ Later(slot) < b.upto /\ b.upto <= lc
      BY <1>2, <1>4, <1>8, <1>10 DEF Between, Computes
  <2> QED BY <1>4, <1>6, <1>7, <2>1
<1>11. ASSUME NEW b \in Elems(running) PROVE FALSE
  <2>1. b.upto \in Nat /\ Later(slot) < b.upto /\ b.upto <= lc
      BY <1>3, <1>4, <1>8, <1>11 DEF Between, Begun
  <2> QED BY <1>4, <1>6, <1>7, <2>1
<1>12. Elems(ring["copy"]) = {} /\ Elems(ring["compute"]) = {} /\ Elems(running) = {}
    BY <1>9, <1>10, <1>11
<1> QED BY <1>2, <1>12, ElemsIn

LEMMA IdleEndKeeps ==
    ASSUME NEW m0, NEW x0, InvOf(m0, x0), IdleEnd, stage_pend' \in [Stages -> 0 .. ValueMax + N]
    PROVE  InvOf(m0, x0)'
<1>1. /\ sem_reached(timeline) /\ ex' = [ex EXCEPT !.needs_wait = FALSE] /\ host' = NoCall
      /\ UNCHANGED <<ring, running, slot, patterns>>
    BY DEF IdleEnd, history
<1>2. /\ Elems(ring["copy"]) = {} /\ Elems(ring["compute"]) = {} /\ Elems(running) = {}
    BY <1>1, AllDone
<1>3. OnlyUploads(Elems(ring["copy"]), Elems(ring["compute"]), Elems(running))
    BY <1>2 DEF OnlyUploads
<1>4. /\ Good(m0, x0, ex', ring, running, slot) /\ ex'.reserved = ex.reserved
  <2>1. Good(m0, x0, ex, ring, running, slot)
      BY DEF InvOf
  <2> QED BY <1>1, <1>3, <2>1, NeedsSet
<1>5. HostOK(ex', host') /\ host'.op = "none"
  <2>1. NoCall \in Hosts /\ NoCall.op = "none"
      BY DEF NoCall, Hosts
  <2> QED BY <1>1, <1>4, <2>1 DEF InvOf, HostOK
<1>6. /\ StagesOK(Elems(ring'["copy"]), stage_pend', host', patterns')
      /\ DownloadOK(Elems(ring'["copy"]), m0, x0, ex', host')
    BY <1>1, <1>2, <1>5 DEF StagesOK, DownloadOK
<1> QED BY <1>1, <1>4, <1>5, <1>6 DEF InvOf

LEMMA DownloadEndKeeps == ASSUME NEW m0, NEW x0, InvOf(m0, x0), DownloadEnd PROVE InvOf(m0, x0)'
<1>1. 0 \in 0 .. ValueMax + N
    BY ExecAssumption
<1>2. IdleEnd /\ stage_pend' \in [Stages -> 0 .. ValueMax + N]
    BY <1>1 DEF DownloadEnd, InvOf
<1> QED BY <1>2, IdleEndKeeps

LEMMA SyncEndKeeps == ASSUME NEW m0, NEW x0, InvOf(m0, x0), SyncEnd PROVE InvOf(m0, x0)'
<1>1. IdleEnd /\ stage_pend' \in [Stages -> 0 .. ValueMax + N]
    BY DEF SyncEnd, InvOf
<1> QED BY <1>1, IdleEndKeeps

LEMMA SynchronizeKeeps == ASSUME NEW m0, NEW x0, InvOf(m0, x0), Synchronize PROVE InvOf(m0, x0)'
BY FlushActionKeeps, IdleKeeps DEF Synchronize

-----------------------------------------------------------------------------
(* The engines                                                             *)

\* A copy, as the engine runs it
Moved(mem, b) == [mem EXCEPT ![b.dst] = mem[b.src]]

LEMMA CopyRun ==
    ASSUME NEW mem \in [Places -> Values], NEW b \in Copies,
           NEW now, now = Moved(mem, b)
    PROVE  /\ now \in [Places -> Values] /\ now[b.dst] = mem[b.src]
           /\ \A p \in Places : p # b.dst => now[p] = mem[p]
           /\ InBuffers(now) = CopyOf(InBuffers(mem), mem, b)
<1>1. b.dst \in Places /\ b.src \in Places
    BY DEF Copies
<1>2. /\ now \in [Places -> Values] /\ now[b.dst] = mem[b.src]
      /\ \A p \in Places : p # b.dst => now[p] = mem[p]
    BY <1>1 DEF Moved
<1>3. ASSUME NEW p \in Buffers
      PROVE  now[p] = IF p # b.dst THEN InBuffers(mem)[p]
                      ELSE IF b.src \in Stages THEN mem[b.src] ELSE InBuffers(mem)[b.src]
    BY <1>1, <1>2 DEF Places, InBuffers
<1>4. InBuffers(now) = CopyOf(InBuffers(mem), mem, b)
    BY <1>3 DEF CopyOf, InBuffers
<1> QED BY <1>2, <1>4

LEMMA RunCopyKeeps ==
    ASSUME NEW m0, NEW x0, NEW m1, InvOf(m0, x0), RunCopy,
           m1 = Moved(m0, Head(ring["copy"]))
    PROVE  InvOf(m1, x0)'
<1> DEFINE C == Elems(ring["copy"])
           K == Elems(ring["compute"])
           R == Elems(running)
           n == ex.reserved
<1>1. /\ m0 \in [Places -> Values] /\ x0 \in Contents /\ slot \in [Queues -> Nat]
      /\ RunOK(running) /\ HostOK(ex, host)
      /\ BooksOK(ex, ring) /\ OrderOK(ex, ring, running, slot)
      /\ MemoryOK(m0, x0, ex, ring, running, slot)
      /\ Len(ex.chain) <= ChainMax /\ Len(ex.held) <= HeldMax
    BY DEF InvOf, Good
<1>2. /\ DOMAIN ring = Queues /\ ring["copy"] \in Seq(Copies) /\ Sorted(ring["copy"])
      /\ \A x \in Copies : x.upto \in Nat
    BY <1>1 DEF BooksOK, Copies
<1>3. PICK b : b = Head(ring["copy"])
    OBVIOUS
<1>4. /\ b \in C /\ b \in Copies /\ \A c \in C : c = b \/ b.upto < c.upto
      /\ Tail(ring["copy"]) \in Seq(Copies) /\ Elems(Tail(ring["copy"])) = C \ {b}
      /\ Sorted(Tail(ring["copy"]))
  <2>1. ring["copy"] # <<>>
      BY DEF RunCopy
  <2> QED BY <1>2, <1>3, <2>1, HeadTaken
<1>5. /\ slot["compute"] >= b.other /\ m1 = Moved(m0, b)
      /\ slot' = [slot EXCEPT !["copy"] = b.upto]
      /\ ring' = [ring EXCEPT !["copy"] = Tail(ring["copy"])]
      /\ UNCHANGED <<ex, stage_pend, running, host, patterns>>
    BY <1>3 DEF RunCopy, Moved, history
<1>6. /\ DOMAIN ring' = Queues /\ ring'["copy"] = Tail(ring["copy"])
      /\ ring'["compute"] = ring["compute"]
    BY <1>2, <1>5 DEF Queues
<1>7. /\ ex.q_last \in [Queues -> Nat] /\ n \in Nat /\ Later(ex.q_last) <= n
      /\ ex.q_last["copy"] <= n /\ ex.q_last["copy"] \in Nat
      /\ C \subseteq Copies /\ K \subseteq Computes
      /\ ex.last_q \in Queues \union {"none"}
  <2>1. ex \in Books
      BY <1>1, BooksTypes
  <2>2. ex.last_q \in Queues \union {"none"}
      BY <2>1 DEF Books
  <2> QED BY <1>1, <2>2, BooksTypes, SMTT(60)
<1>8. R \subseteq Begun
    BY <1>1, ElemsIn DEF RunOK
<1>9. Order(C, K, R, slot, ex.q_last, ex.last_q) /\ \A c \in K : Base(c) \in Int
    BY <1>1, <1>7, BaseIs DEF OrderOK
<1>10. b.upto \in Nat /\ b.upto <= n /\ 0 < b.upto
  <2>1. b.upto \in Nat /\ Later(slot) < b.upto /\ b.upto <= ex.q_last["copy"]
      BY <1>2, <1>4, <1>9 DEF Order, Between
  <2>2. Later(slot) \in Nat
      BY <1>1 DEF Later, Queues
  <2> HIDE DEF n
  <2> QED BY ONLY <1>7, <2>1, <2>2
<1> HIDE DEF C, K, R
<1>11. R = {} /\ b.upto - 1 = Later(slot) /\ \A c \in K : b.upto < c.upto
  <2>1. PICK s0, ql, lq : s0 = slot /\ ql = ex.q_last /\ lq = ex.last_q
      OBVIOUS
  <2>2. /\ C \subseteq Copies /\ K \subseteq Computes /\ R \subseteq Begun
        /\ s0 \in [Queues -> Nat] /\ ql \in [Queues -> Nat]
        /\ \A c \in K : Base(c) \in Int
        /\ Order(C, K, R, s0, ql, lq) /\ b \in C
        /\ \A c \in C : c = b \/ b.upto < c.upto
        /\ s0["compute"] >= b.other
      BY <1>1, <1>4, <1>5, <1>7, <1>8, <1>9, <2>1
  <2>3. R = {} /\ b.upto - 1 = Later(s0) /\ \A c \in K : b.upto < c.upto
      BY ONLY <2>2, CopyIsNext
  <2> QED BY <2>1, <2>3
<1>12. PICK sl : sl = [slot EXCEPT !["copy"] = b.upto]
    OBVIOUS
<1>13. Order(C \ {b}, K, R, sl, ex.q_last, ex.last_q) /\ Later(sl) = b.upto
  <2>1. PICK s0, ql, lq : s0 = slot /\ ql = ex.q_last /\ lq = ex.last_q
      OBVIOUS
  <2>2. /\ C \subseteq Copies /\ K \subseteq Computes /\ R \subseteq Begun
        /\ s0 \in [Queues -> Nat] /\ ql \in [Queues -> Nat]
        /\ \A c \in K : Base(c) \in Int
        /\ Order(C, K, R, s0, ql, lq) /\ b \in C
        /\ \A c \in C : c = b \/ b.upto < c.upto
        /\ s0["compute"] >= b.other
      BY <1>1, <1>4, <1>5, <1>7, <1>8, <1>9, <2>1
  <2>3. /\ Order(Less(C, b), K, R, Released(s0, "copy", b.upto), ql, lq)
        /\ Later(Released(s0, "copy", b.upto)) = b.upto
      BY ONLY <2>2, CopyDone
  <2> QED BY <1>12, <2>1, <2>3 DEF Released, Less
<1>14. sl \in [Queues -> Nat]
    BY <1>1, <1>10, <1>12
<1>15. PICK T \in [0 .. n -> Contents] :
         Does(T, m0, C, K, R, slot) /\ Built(T, x0, ex)
    BY <1>1 DEF MemoryOK, C, K, R
<1>16. PICK now : now = Moved(m0, b)
    OBVIOUS
<1>17. /\ now \in [Places -> Values] /\ now[b.dst] = m0[b.src]
       /\ \A p \in Places : p # b.dst => now[p] = m0[p]
       /\ InBuffers(now) = CopyOf(InBuffers(m0), m0, b)
    BY <1>1, <1>4, <1>16, CopyRun
<1>18. T[b.upto - 1] = InBuffers(m0) /\ T[b.upto] = InBuffers(now)
  <2>1. T[b.upto - 1] = InBuffers(m0)
      BY <1>11, <1>15 DEF Does
  <2>2. T[b.upto] = CopyOf(T[b.upto - 1], m0, b)
      BY <1>4, <1>15 DEF Does, CopyDoes
  <2> QED BY <1>17, <2>1, <2>2
<1>19. b.dst \in Stages =>
         b.dst = stage0 /\ host.op = "download" /\ b.src = host.at /\ b.upto = n /\ C \ {b} = {}
  <2>1. b.dst \in Stages =>
          b.dst = stage0 /\ host.op = "download" /\ b.src = host.at /\ b.upto = n
      BY <1>4 DEF InvOf, DownloadOK, C
  <2>2. ASSUME b.upto = n, NEW c \in C \ {b} PROVE FALSE
    <3>1. b.upto < c.upto /\ c.upto <= ex.q_last["copy"] /\ c.upto \in Nat
        BY <1>2, <1>4, <1>7, <1>9, <2>2 DEF Order, Between
    <3> HIDE DEF n
    <3> QED BY ONLY <1>7, <2>2, <3>1
  <2> QED BY <2>1, <2>2
<1>20. Does(T, now, C \ {b}, K, R, sl)
  <2>1. ASSUME NEW c \in C \ {b}
        PROVE  CopyDoes(T, now, c)
    <3>1. CopyDoes(T, m0, c)
        BY <1>15 DEF Does
    <3>2. c.src \in Stages => now[c.src] = m0[c.src]
        BY <1>17, <1>19, <2>1 DEF Places
    <3> QED BY <3>1, <3>2 DEF CopyDoes, CopyOf
  <2>2. \A c \in K : ComputeDoes(T, c)
      BY <1>15 DEF Does
  <2> QED BY <1>11, <1>13, <1>18, <2>1, <2>2 DEF Does
<1>21. /\ m1 = now /\ slot' = sl /\ Elems(ring'["copy"]) = C \ {b}
       /\ Elems(ring'["compute"]) = K /\ Elems(running') = R
    BY <1>4, <1>5, <1>6, <1>12, <1>16 DEF C, K, R
<1>22. BooksOK(ex', ring')
    BY <1>1, <1>4, <1>5, <1>6 DEF BooksOK
<1>23. OrderOK(ex', ring', running', slot')
    BY <1>5, <1>13, <1>21 DEF OrderOK
<1>24. MemoryOK(m1, x0, ex', ring', running', slot')
    BY <1>5, <1>15, <1>20, <1>21 DEF MemoryOK
<1>25. ex.needs_wait
    BY <1>4 DEF InvOf, Good, OnlyUploads, C
<1>26. Good(m1, x0, ex', ring', running', slot')
    BY <1>1, <1>5, <1>22, <1>23, <1>24, <1>25 DEF Good
<1>27. StagesOK(Elems(ring'["copy"]), stage_pend', host', patterns')
    BY <1>5, <1>21 DEF InvOf, StagesOK, C
<1>28. DownloadOK(Elems(ring'["copy"]), m1, x0, ex', host')
  <2>1. \A c \in C \ {b} : c.dst \in Stages =>
          host.op = "download" /\ c.dst = stage0 /\ c.src = host.at /\ c.upto = ex.reserved
      BY DEF InvOf, DownloadOK, C
  <2>2. ASSUME host.op = "download"
        PROVE  /\ ex.chain = <<>> /\ ex.held = <<>>
               /\ now[stage0] = x0[host.at] \/ \E c \in C \ {b} : c.dst = stage0
    <3>1. /\ ex.chain = <<>> /\ ex.held = <<>>
          /\ m0[stage0] = x0[host.at] \/ \E c \in C : c.dst = stage0
        BY <2>2 DEF InvOf, DownloadOK, C
    <3>2. CASE b.dst = stage0
      <4>1. b.src = host.at /\ b.upto = n /\ b.dst \in Stages /\ host.at \in Buffers
          BY <1>1, <1>19, <2>2, <3>2, StagesApart DEF HostOK
      <4>2. x0 = T[n]
        <5>1. T[n] \in Contents /\ <<>> \in Seq(Writes)
            BY <1>7
        <5>2. x0 = Written(T[n], <<>>)
            BY <1>15, <3>1 DEF Built
        <5> QED BY <5>1, <5>2, WrittenIs
      <4>3. InBuffers(now)[host.at] = InBuffers(m0)[host.at]
          BY <1>17, <4>1, StagesApart DEF Places, InBuffers
      <4>4. x0[host.at] = m0[host.at]
          BY <1>18, <4>1, <4>2, <4>3 DEF InBuffers
      <4> QED BY <1>17, <3>1, <3>2, <4>1, <4>4
    <3>3. CASE b.dst # stage0
      <4>1. now[stage0] = m0[stage0]
          BY <1>17, <3>3, StagesApart DEF Places
      <4> QED BY <3>1, <3>3, <4>1
    <3> QED BY <3>2, <3>3
  <2> QED BY <1>5, <1>21, <2>1, <2>2 DEF DownloadOK
<1> QED BY <1>1, <1>5, <1>14, <1>17, <1>21, <1>26, <1>27, <1>28 DEF InvOf

LEMMA BeginComputeKeeps ==
    ASSUME NEW m0, NEW x0, NEW m1, InvOf(m0, x0), BeginCompute,
           m1 = Written(m0, Head(ring["compute"]).held)
    PROVE  InvOf(m1, x0)'
<1> DEFINE C == Elems(ring["copy"])
           K == Elems(ring["compute"])
           R == Elems(running)
           n == ex.reserved
<1>1. /\ m0 \in [Places -> Values] /\ x0 \in Contents /\ slot \in [Queues -> Nat]
      /\ RunOK(running) /\ HostOK(ex, host)
      /\ BooksOK(ex, ring) /\ OrderOK(ex, ring, running, slot)
      /\ MemoryOK(m0, x0, ex, ring, running, slot)
      /\ Len(ex.chain) <= ChainMax /\ Len(ex.held) <= HeldMax
    BY DEF InvOf, Good
<1>2. /\ DOMAIN ring = Queues /\ ring["compute"] \in Seq(Computes) /\ Sorted(ring["compute"])
      /\ \A x \in Computes : x.upto \in Nat
    BY <1>1 DEF BooksOK, Computes
<1>3. PICK b : b = Head(ring["compute"])
    OBVIOUS
<1>4. /\ b \in K /\ b \in Computes /\ \A c \in K : c = b \/ b.upto < c.upto
      /\ Tail(ring["compute"]) \in Seq(Computes) /\ Elems(Tail(ring["compute"])) = K \ {b}
      /\ Sorted(Tail(ring["compute"]))
  <2>1. ring["compute"] # <<>>
      BY DEF BeginCompute
  <2> QED BY <1>2, <1>3, <2>1, HeadTaken
<1>5. /\ slot["copy"] >= b.other /\ slot["compute"] >= b.own
      /\ m1 = Written(m0, b.held)
      /\ running' = Append(running, [upto |-> b.upto, kernels |-> b.kernels])
      /\ ring' = [ring EXCEPT !["compute"] = Tail(ring["compute"])]
      /\ UNCHANGED <<ex, stage_pend, slot, host, patterns>>
    BY <1>3 DEF BeginCompute, history
<1>6. /\ DOMAIN ring' = Queues /\ ring'["compute"] = Tail(ring["compute"])
      /\ ring'["copy"] = ring["copy"]
    BY <1>2, <1>5 DEF Queues
<1>7. /\ ex.q_last \in [Queues -> Nat] /\ n \in Nat
      /\ C \subseteq Copies /\ K \subseteq Computes
    BY <1>1, BooksTypes
<1>8. R \subseteq Begun /\ (R = {} <=> running = <<>>)
    BY <1>1, ElemsIn DEF RunOK
<1>9. /\ Order(C, K, R, slot, ex.q_last, ex.last_q)
      /\ \A c \in K : Base(c) \in Int /\ Base(c) < c.upto
    BY <1>1, <1>7, BaseIs DEF OrderOK
<1>10. /\ b.upto \in Nat /\ b.kernels \in Seq(Kernels) /\ b.held \in Seq(Writes)
    BY <1>4 DEF Computes
<1>11. PICK r \in Begun : r = [upto |-> b.upto, kernels |-> b.kernels]
    BY <1>10 DEF Begun
<1>12. r.upto = b.upto /\ r.kernels = b.kernels /\ Base(r) = Base(b)
    BY <1>11 DEF Base
<1> HIDE DEF C, K, R
<1>13. PICK s0, ql, lq : s0 = slot /\ ql = ex.q_last /\ lq = ex.last_q
    OBVIOUS
<1>14. /\ C \subseteq Copies /\ K \subseteq Computes /\ R \subseteq Begun
       /\ s0 \in [Queues -> Nat] /\ ql \in [Queues -> Nat]
       /\ \A c \in K : Base(c) \in Int /\ Base(c) < c.upto
       /\ Order(C, K, R, s0, ql, lq) /\ b \in K
       /\ \A c \in K : c = b \/ b.upto < c.upto
       /\ s0["copy"] >= b.other /\ s0["compute"] >= b.own
    BY <1>1, <1>4, <1>5, <1>7, <1>8, <1>9, <1>13
<1>15. R = {} /\ Base(b) = Later(slot)
  <2>1. R = {} /\ Base(b) = Later(s0)
      BY ONLY <1>14, ComputeIsNext
  <2> QED BY <1>13, <2>1
<1>16. Order(C, K \ {b}, {r}, slot, ex.q_last, ex.last_q)
  <2>1. Order(C, Less(K, b), {r}, s0, ql, lq)
      BY ONLY <1>12, <1>14, r \in Begun, ComputeBegun
  <2> QED BY <1>13, <2>1 DEF Less
<1>17. /\ running = <<>> /\ running' \in Seq(Begun) /\ Len(running') = 1
       /\ Elems(running') = {r}
  <2>1. running = <<>>
      BY <1>8, <1>15
  <2>2. running' = Append(<<>>, r)
      BY <1>5, <1>11, <2>1
  <2> QED BY <2>1, <2>2, OneBegun
<1>18. RunOK(running')
  <2>1. Base(b) + Len(b.kernels) <= b.upto
      BY <1>4, BaseIs
  <2>2. Len(b.kernels) \in Nat /\ Later(slot) \in Nat
      BY <1>1, <1>10 DEF Later, Queues
  <2>3. Len(r.kernels) <= r.upto
      BY <1>10, <1>12, <1>15, <2>1, <2>2
  <2> QED BY <1>17, <2>3 DEF RunOK
<1>19. PICK T \in [0 .. n -> Contents] :
         Does(T, m0, C, K, R, slot) /\ Built(T, x0, ex)
    BY <1>1 DEF MemoryOK, C, K, R
<1>20. PICK now : now = Written(m0, b.held)
    OBVIOUS
<1>21. /\ now \in [Places -> Values] /\ InBuffers(now) = Written(InBuffers(m0), b.held)
       /\ \A s \in Stages : now[s] = m0[s]
    BY <1>1, <1>10, <1>20, BytesWritten
<1>22. BegunDoes(T, now, r)
  <2>1. ComputeDoes(T, b) /\ T[Base(b)] = InBuffers(m0)
      BY <1>4, <1>15, <1>19 DEF Does
  <2>2. CASE b.kernels = <<>>
    <3>1. Base(b) = b.upto - 1
        BY <2>2 DEF Base
    <3> QED BY <1>12, <1>21, <2>1, <2>2, <3>1 DEF ComputeDoes, BegunDoes
  <2>3. CASE b.kernels # <<>>
      BY <1>12, <1>21, <2>1, <2>3 DEF ComputeDoes, BegunDoes
  <2> QED BY <2>2, <2>3
<1>23. Does(T, now, C, K \ {b}, {r}, slot)
  <2>1. \A c \in C : CopyDoes(T, now, c)
    <3> SUFFICES ASSUME NEW c \in C PROVE CopyDoes(T, now, c)
        OBVIOUS
    <3>1. CopyDoes(T, m0, c)
        BY <1>19 DEF Does
    <3>2. c.src \in Stages => now[c.src] = m0[c.src]
        BY <1>21
    <3> QED BY <3>1, <3>2 DEF CopyDoes, CopyOf
  <2>2. \A c \in K \ {b} : ComputeDoes(T, c)
      BY <1>19 DEF Does
  <2> QED BY <1>22, <2>1, <2>2 DEF Does
<1>24. /\ m1 = now /\ Elems(ring'["copy"]) = C
       /\ Elems(ring'["compute"]) = K \ {b}
    BY <1>4, <1>5, <1>6, <1>20 DEF C, K
<1>25. BooksOK(ex', ring')
    BY <1>1, <1>4, <1>5, <1>6 DEF BooksOK
<1>26. OrderOK(ex', ring', running', slot')
    BY <1>5, <1>16, <1>17, <1>24 DEF OrderOK
<1>27. MemoryOK(m1, x0, ex', ring', running', slot')
    BY <1>5, <1>17, <1>19, <1>23, <1>24 DEF MemoryOK
<1>28. ~ex.needs_wait => OnlyUploads(C, K \ {b}, {r})
  <2>1. ~ex.needs_wait => OnlyUploads(C, K, R)
      BY DEF InvOf, Good, C, K, R
  <2> QED BY <1>4, <1>12, <2>1 DEF OnlyUploads
<1>29. Good(m1, x0, ex', ring', running', slot')
    BY <1>1, <1>5, <1>17, <1>24, <1>25, <1>26, <1>27, <1>28 DEF Good
<1>30. StagesOK(Elems(ring'["copy"]), stage_pend', host', patterns')
    BY <1>5, <1>6 DEF InvOf, StagesOK
<1>31. DownloadOK(Elems(ring'["copy"]), m1, x0, ex', host')
  <2>1. m1[stage0] = m0[stage0]
      BY <1>21, <1>24, StagesApart
  <2> QED BY <1>5, <1>6, <2>1 DEF InvOf, DownloadOK
<1> QED BY <1>1, <1>5, <1>18, <1>21, <1>24, <1>29, <1>30, <1>31 DEF InvOf

\* The begun batch done: its value is released.
LEMMA BegunDone ==
    ASSUME NEW m0, NEW x0, InvOf(m0, x0), NEW b \in Begun, Elems(running) = {b},
           NEW now \in [Places -> Values], \A s \in Stages : now[s] = m0[s],
           \A T \in [0 .. ex.reserved -> Contents] :
             BegunDoes(T, m0, b) => T[b.upto] = InBuffers(now),
           running' = <<>>, slot' = Released(slot, "compute", b.upto),
           UNCHANGED <<ex, stage_pend, ring, host, patterns>>
    PROVE  InvOf(now, x0)'
<1> DEFINE C == Elems(ring["copy"])
           K == Elems(ring["compute"])
           n == ex.reserved
<1>1. /\ m0 \in [Places -> Values] /\ x0 \in Contents /\ slot \in [Queues -> Nat]
      /\ RunOK(running) /\ HostOK(ex, host)
      /\ BooksOK(ex, ring) /\ OrderOK(ex, ring, running, slot)
      /\ MemoryOK(m0, x0, ex, ring, running, slot)
      /\ Len(ex.chain) <= ChainMax /\ Len(ex.held) <= HeldMax
    BY DEF InvOf, Good
<1>2. /\ ex.q_last \in [Queues -> Nat] /\ n \in Nat
      /\ C \subseteq Copies /\ K \subseteq Computes
    BY <1>1, BooksTypes
<1>3. /\ Order(C, K, {b}, slot, ex.q_last, ex.last_q)
      /\ \A c \in K : Base(c) \in Int
    BY <1>1, <1>2, BaseIs DEF OrderOK
<1> HIDE DEF C, K
<1>4. PICK s0, ql, lq, sl :
        s0 = slot /\ ql = ex.q_last /\ lq = ex.last_q /\ sl = Released(s0, "compute", b.upto)
    OBVIOUS
<1>5. PICK R : R = {b}
    OBVIOUS
<1>6. /\ C \subseteq Copies /\ K \subseteq Computes /\ R = {b}
      /\ s0 \in [Queues -> Nat] /\ ql \in [Queues -> Nat]
      /\ \A c \in K : Base(c) \in Int
      /\ Order(C, K, R, s0, ql, lq)
    BY <1>1, <1>2, <1>3, <1>4, <1>5
<1>7. /\ Order(C, K, {}, Released(s0, "compute", b.upto), ql, lq)
      /\ Later(Released(s0, "compute", b.upto)) = b.upto
    BY ONLY <1>6, b \in Begun, ComputeDone
<1>8. Order(C, K, {}, sl, ex.q_last, ex.last_q) /\ Later(sl) = b.upto
      /\ slot' = sl /\ sl \in [Queues -> Nat]
  <2>1. b.upto \in Nat
      BY DEF Begun
  <2>2. sl \in [Queues -> Nat]
      BY <1>1, <1>4, <2>1 DEF Released
  <2> QED BY <1>4, <1>7, <2>2
<1>9. PICK T \in [0 .. n -> Contents] :
        Does(T, m0, C, K, {b}, slot) /\ Built(T, x0, ex)
    BY <1>1 DEF MemoryOK, C, K
<1>10. T[b.upto] = InBuffers(now)
    BY <1>9 DEF Does
<1>11. Does(T, now, C, K, {}, sl)
  <2>1. \A c \in C : CopyDoes(T, now, c)
    <3> SUFFICES ASSUME NEW c \in C PROVE CopyDoes(T, now, c)
        OBVIOUS
    <3>1. CopyDoes(T, m0, c)
        BY <1>9 DEF Does
    <3> QED BY <3>1 DEF CopyDoes, CopyOf
  <2>2. \A c \in K : ComputeDoes(T, c)
      BY <1>9 DEF Does
  <2> QED BY <1>8, <1>10, <2>1, <2>2 DEF Does
<1>12. Elems(running') = {} /\ RunOK(running')
  <2>1. <<>> \in Seq(Begun) /\ Len(<<>>) = 0 /\ Elems(<<>>) = {}
      BY DEF Elems
  <2> QED BY <2>1 DEF RunOK
<1>13. BooksOK(ex', ring')
    BY <1>1
<1>14. OrderOK(ex', ring', running', slot')
    BY <1>8, <1>12 DEF OrderOK, C, K
<1>15. MemoryOK(now, x0, ex', ring', running', slot')
    BY <1>8, <1>9, <1>11, <1>12 DEF MemoryOK, C, K
<1>16. ~ex.needs_wait => OnlyUploads(C, K, {})
    BY DEF InvOf, Good, OnlyUploads, C, K
<1>17. Good(now, x0, ex', ring', running', slot')
    BY <1>1, <1>12, <1>13, <1>14, <1>15, <1>16 DEF Good, C, K
<1>18. StagesOK(Elems(ring'["copy"]), stage_pend', host', patterns')
    BY DEF InvOf
<1>19. DownloadOK(Elems(ring'["copy"]), now, x0, ex', host')
  <2>1. now[stage0] = m0[stage0]
      BY StagesApart
  <2> QED BY <2>1 DEF InvOf, DownloadOK
<1> QED BY <1>1, <1>8, <1>12, <1>17, <1>18, <1>19 DEF InvOf

LEMMA ReleaseHeldKeeps ==
    ASSUME NEW m0, NEW x0, InvOf(m0, x0), ReleaseHeld
    PROVE  InvOf(m0, x0)'
<1>1. running \in Seq(Begun) /\ Len(running) <= 1 /\ running # <<>>
    BY DEF InvOf, RunOK, ReleaseHeld
<1>2. PICK b : b = Head(running)
    OBVIOUS
<1>3. b \in Begun /\ Elems(running) = {b} /\ Tail(running) = <<>>
    BY <1>1, <1>2, TheOne
<1>4. /\ b.kernels = <<>> /\ slot' = Released(slot, "compute", b.upto) /\ running' = <<>>
      /\ UNCHANGED <<ex, stage_pend, ring, host, patterns>>
    BY <1>2, <1>3 DEF ReleaseHeld, Released, history
<1>5. m0 \in [Places -> Values] /\ \A s \in Stages : m0[s] = m0[s]
    BY DEF InvOf
<1>6. \A T \in [0 .. ex.reserved -> Contents] :
        BegunDoes(T, m0, b) => T[b.upto] = InBuffers(m0)
    BY <1>4 DEF BegunDoes
<1> QED BY <1>3, <1>4, <1>5, <1>6, BegunDone

\* A kernel of the batch begun, of which there is one at the most
LEMMA OneRuns ==
    ASSUME NEW m0, NEW x0, InvOf(m0, x0), NEW i \in DOMAIN running, RunKernel(i)
    PROVE  \E b \in Begun :
             /\ i = 1 /\ b = running[1] /\ Elems(running) = {b} /\ RemoveAt(running, 1) = <<>>
             /\ DOMAIN running = {1} /\ running \in Seq(Begun) /\ Len(running) = 1
             /\ b.kernels # <<>> /\ Head(b.kernels) \in Kernels
             /\ memory' = [memory EXCEPT ![Head(b.kernels).dst] = memory[Head(b.kernels).src]]
             /\ IF Tail(b.kernels) = <<>>
                THEN running' = <<>> /\ slot' = Released(slot, "compute", b.upto)
                ELSE running' = [running EXCEPT ![1].kernels = Tail(b.kernels)] /\ UNCHANGED slot
             /\ UNCHANGED <<ex, stage_pend, ring, host, patterns>>
<1>1. running \in Seq(Begun) /\ Len(running) <= 1
    BY DEF InvOf, RunOK
<1>2. running # <<>>
    BY <1>1
<1>3. /\ DOMAIN running = {1} /\ running[1] \in Begun /\ Elems(running) = {running[1]}
      /\ RemoveAt(running, 1) = <<>>
    BY <1>1, <1>2, TheOne
<1>4. i = 1 /\ Len(running) = 1
    BY <1>1, <1>3
<1>5. PICK b \in Begun : b = running[1]
    BY <1>3
<1>6. b.kernels # <<>> /\ b.kernels \in Seq(Kernels)
    BY <1>4, <1>5 DEF RunKernel, Begun
<1>7. Head(b.kernels) \in Kernels
    BY <1>6
<1>8. /\ memory' = [memory EXCEPT ![Head(b.kernels).dst] = memory[Head(b.kernels).src]]
      /\ UNCHANGED <<ex, stage_pend, ring, host, patterns>>
    BY <1>4, <1>5 DEF RunKernel, history
<1>9. IF Tail(b.kernels) = <<>>
      THEN running' = <<>> /\ slot' = Released(slot, "compute", b.upto)
      ELSE running' = [running EXCEPT ![1].kernels = Tail(b.kernels)] /\ UNCHANGED slot
    BY <1>3, <1>4, <1>5 DEF RunKernel, Released
<1> QED BY <1>1, <1>3, <1>4, <1>5, <1>6, <1>7, <1>8, <1>9

Through(mem, k) == [mem EXCEPT ![k.dst] = mem[k.src]]

LEMMA OneKernel ==
    ASSUME NEW k \in Kernels, NEW mem \in [Places -> Values], NEW now, now = Through(mem, k)
    PROVE  /\ now \in [Places -> Values] /\ InBuffers(now) = Kernel(k, InBuffers(mem))
           /\ \A s \in Stages : now[s] = mem[s]
<1>1. LET after == [mem EXCEPT ![k.dst] = mem[k.src]] IN
      /\ after \in [Places -> Values]
      /\ InBuffers(after) = Kernel(k, InBuffers(mem))
      /\ \A s \in Stages : after[s] = mem[s]
    BY KernelRun, Zenon
<1> QED BY <1>1 DEF Through

LEMMA LastKernelKeeps ==
    ASSUME NEW m0, NEW x0, InvOf(m0, x0), NEW i \in DOMAIN running, RunKernel(i),
           Tail(running[1].kernels) = <<>>,
           NEW now, now = Through(m0, Head(running[1].kernels))
    PROVE  InvOf(now, x0)'
<1>1. PICK b \in Begun :
             /\ i = 1 /\ b = running[1] /\ Elems(running) = {b} /\ RemoveAt(running, 1) = <<>>
             /\ DOMAIN running = {1} /\ running \in Seq(Begun) /\ Len(running) = 1
             /\ b.kernels # <<>> /\ Head(b.kernels) \in Kernels
             /\ memory' = [memory EXCEPT ![Head(b.kernels).dst] = memory[Head(b.kernels).src]]
             /\ IF Tail(b.kernels) = <<>>
                THEN running' = <<>> /\ slot' = Released(slot, "compute", b.upto)
                ELSE running' = [running EXCEPT ![1].kernels = Tail(b.kernels)] /\ UNCHANGED slot
             /\ UNCHANGED <<ex, stage_pend, ring, host, patterns>>
    BY OneRuns
<1>2. PICK k \in Kernels : k = Head(b.kernels)
    BY <1>1
<1>3. now = Through(m0, k)
    BY <1>1, <1>2
<1>4. /\ now \in [Places -> Values] /\ InBuffers(now) = Kernel(k, InBuffers(m0))
      /\ \A s \in Stages : now[s] = m0[s]
  <2>1. m0 \in [Places -> Values]
      BY DEF InvOf
  <2> QED BY <1>3, <2>1, OneKernel
<1>5. b.kernels \in Seq(Kernels) /\ b.upto \in Nat /\ Len(b.kernels) = 1 /\ b.kernels[1] = k
  <2>1. b.kernels \in Seq(Kernels) /\ b.upto \in Nat /\ b.kernels # <<>>
      BY <1>1 DEF Begun
  <2>2. Len(Tail(b.kernels)) = 0
      BY <1>1
  <2>3. Len(Tail(b.kernels)) = Len(b.kernels) - 1 /\ Len(b.kernels) \in Nat
        /\ Head(b.kernels) = b.kernels[1]
      BY ONLY <2>1
  <2> QED BY <1>2, <2>1, <2>2, <2>3
<1>6. \A T \in [0 .. ex.reserved -> Contents] :
        BegunDoes(T, m0, b) => T[b.upto] = InBuffers(now)
  <2> SUFFICES ASSUME NEW T \in [0 .. ex.reserved -> Contents], BegunDoes(T, m0, b)
               PROVE  T[b.upto] = InBuffers(now)
      OBVIOUS
  <2>1. Ran(b.kernels, InBuffers(m0), T, Base(b))
      BY <1>1 DEF BegunDoes
  <2>2. 1 \in DOMAIN b.kernels
      BY <1>5
  <2>3. T[Base(b) + 1] = Kernel(k, InBuffers(m0))
      BY <1>5, <2>1, <2>2 DEF Ran
  <2>4. Base(b) + 1 = b.upto
      BY <1>1, <1>5 DEF Base
  <2> QED BY <1>4, <2>3, <2>4
<1>7. /\ running' = <<>> /\ slot' = Released(slot, "compute", b.upto)
      /\ UNCHANGED <<ex, stage_pend, ring, host, patterns>>
    BY <1>1
<1> QED BY <1>1, <1>4, <1>6, <1>7, BegunDone

\* Only the value of what is begun orders it.
LEMMA SameOrder ==
    ASSUME NEW C, NEW K, NEW sl, NEW ql, NEW lq, NEW b, NEW r, r.upto = b.upto,
           Order(C, K, {b}, sl, ql, lq)
    PROVE  Order(C, K, {r}, sl, ql, lq)
<1>1. Between(C, K, {r}, sl, ql)
    BY DEF Order, Between
<1>2. Ends(C, K, {r}, sl, ql)
    BY DEF Order, Ends
<1>3. LastQueue(ql, lq)
    BY DEF Order
<1>4. Apart(C, K, {r})
    BY DEF Order, Apart
<1>5. Touching(C, K, {r}, sl)
    BY DEF Order, Touching, Ending
<1>6. Acquired(C, K, {r})
    BY DEF Order, Acquired
<1> QED BY <1>1, <1>2, <1>3, <1>4, <1>5, <1>6 DEF Order

LEMMA KernelKeeps ==
    ASSUME NEW m0, NEW x0, InvOf(m0, x0), NEW i \in DOMAIN running, RunKernel(i),
           Tail(running[1].kernels) # <<>>,
           NEW now, now = Through(m0, Head(running[1].kernels))
    PROVE  InvOf(now, x0)'
<1> DEFINE C == Elems(ring["copy"])
           K == Elems(ring["compute"])
           n == ex.reserved
<1>1. PICK b \in Begun :
             /\ i = 1 /\ b = running[1] /\ Elems(running) = {b} /\ RemoveAt(running, 1) = <<>>
             /\ DOMAIN running = {1} /\ running \in Seq(Begun) /\ Len(running) = 1
             /\ b.kernels # <<>> /\ Head(b.kernels) \in Kernels
             /\ memory' = [memory EXCEPT ![Head(b.kernels).dst] = memory[Head(b.kernels).src]]
             /\ IF Tail(b.kernels) = <<>>
                THEN running' = <<>> /\ slot' = Released(slot, "compute", b.upto)
                ELSE running' = [running EXCEPT ![1].kernels = Tail(b.kernels)] /\ UNCHANGED slot
             /\ UNCHANGED <<ex, stage_pend, ring, host, patterns>>
    BY OneRuns
<1>2. /\ m0 \in [Places -> Values] /\ x0 \in Contents /\ slot \in [Queues -> Nat]
      /\ RunOK(running) /\ HostOK(ex, host)
      /\ BooksOK(ex, ring) /\ OrderOK(ex, ring, running, slot)
      /\ MemoryOK(m0, x0, ex, ring, running, slot)
      /\ Len(ex.chain) <= ChainMax /\ Len(ex.held) <= HeldMax
    BY DEF InvOf, Good
<1>3. PICK k \in Kernels : k = Head(b.kernels)
    BY <1>1
<1>4. now = Through(m0, k)
    BY <1>1, <1>3
<1>5. /\ now \in [Places -> Values] /\ InBuffers(now) = Kernel(k, InBuffers(m0))
      /\ \A s \in Stages : now[s] = m0[s]
    BY <1>2, <1>4, OneKernel
<1>6. PICK left, l : left = Tail(b.kernels) /\ l = Len(b.kernels)
    OBVIOUS
<1>7. /\ left \in Seq(Kernels) /\ left # <<>> /\ Len(left) = l - 1 /\ DOMAIN left = 1 .. l - 1
      /\ DOMAIN b.kernels = 1 .. l /\ b.kernels[1] = k /\ l >= 1
      /\ \A j \in 1 .. l - 1 : left[j] = b.kernels[j + 1]
      /\ b.upto \in Nat /\ l <= b.upto /\ l \in Nat
  <2>1. b.kernels \in Seq(Kernels) /\ b.upto \in Nat /\ b.kernels # <<>>
      BY <1>1 DEF Begun
  <2>2. l <= b.upto
      BY <1>1, <1>2, <1>6 DEF RunOK
  <2>3. left # <<>>
      BY <1>1, <1>6
  <2> QED BY <1>3, <1>6, <2>1, <2>2, <2>3, SMTT(60)
<1>8. PICK r \in Begun : r = [b EXCEPT !.kernels = left] /\ r.upto = b.upto /\ r.kernels = left
  <2> DEFINE r == [b EXCEPT !.kernels = left]
  <2>1. r \in Begun /\ r.upto = b.upto /\ r.kernels = left
      BY <1>7 DEF Begun
  <2> QED BY <2>1, Zenon
<1>9. /\ running' \in Seq(Begun) /\ Len(running') = 1 /\ Elems(running') = {r}
      /\ slot' = slot
  <2>1. running' = [running EXCEPT ![1] = r] /\ slot' = slot
    <3>1. Tail(b.kernels) # <<>>
        BY <1>1
    <3>2. running' = [running EXCEPT ![1].kernels = Tail(b.kernels)] /\ UNCHANGED slot
        BY <1>1, <3>1
    <3> QED BY <1>1, <1>6, <1>8, <3>2
  <2>2. running' \in Seq(Begun) /\ Len(running') = 1 /\ DOMAIN running' = {1} /\ running'[1] = r
      BY <1>1, <2>1
  <2> QED BY <2>1, <2>2 DEF Elems
<1>10. RunOK(running')
  <2>1. Len(r.kernels) <= r.upto
      BY <1>7, <1>8
  <2> QED BY <1>9, <2>1 DEF RunOK
<1>11. Base(b) = b.upto - l /\ Base(r) = Base(b) + 1 /\ Base(b) \in Int
  <2>1. Base(b) = b.upto - l /\ Base(r) = b.upto - (l - 1)
      BY <1>1, <1>6, <1>7, <1>8 DEF Base
  <2> QED BY <1>7, <2>1
<1>12. Order(C, K, {r}, slot, ex.q_last, ex.last_q)
  <2>1. PICK c, d, s0, ql, lq : c = C /\ d = K /\ s0 = slot /\ ql = ex.q_last /\ lq = ex.last_q
      OBVIOUS
  <2>2. Order(c, d, {b}, s0, ql, lq)
      BY <1>1, <1>2, <2>1 DEF OrderOK
  <2>3. Order(c, d, {r}, s0, ql, lq)
      BY ONLY <1>8, <2>2, SameOrder
  <2> QED BY <2>1, <2>3
<1> HIDE DEF C, K
<1>13. PICK T \in [0 .. n -> Contents] :
         Does(T, m0, C, K, {b}, slot) /\ Built(T, x0, ex)
    BY <1>1, <1>2 DEF MemoryOK, C, K
<1>14. BegunDoes(T, now, r)
  <2>1. Ran(b.kernels, InBuffers(m0), T, Base(b))
      BY <1>1, <1>13 DEF Does, BegunDoes
  <2>2. T[Base(b) + 1] = InBuffers(now)
    <3>1. 1 \in DOMAIN b.kernels
        BY <1>7
    <3> QED BY <1>5, <1>7, <2>1, <3>1 DEF Ran
  <2>3. ASSUME NEW j \in DOMAIN left
        PROVE  T[Base(r) + j] = Kernel(left[j], IF j = 1 THEN InBuffers(now)
                                                ELSE T[Base(r) + j - 1])
    <3>1. PICK m \in Int : m = Base(b)
        BY <1>11
    <3>2. j \in 1 .. l - 1 /\ Base(r) = m + 1 /\ l \in Nat
        BY <1>7, <1>11, <2>3, <3>1
    <3>3. /\ j + 1 \in 1 .. l /\ j + 1 # 1 /\ m + 1 + j = m + (j + 1)
          /\ m + (j + 1) - 1 = m + 1 + j - 1 /\ (j = 1 => m + (j + 1) - 1 = m + 1)
        BY ONLY <3>2, m \in Int
    <3>4. T[m + (j + 1)] = Kernel(b.kernels[j + 1], T[m + (j + 1) - 1])
        BY <1>7, <2>1, <3>1, <3>3 DEF Ran
    <3>5. T[m + 1] = InBuffers(now)
        BY <2>2, <3>1
    <3>6. T[m + (j + 1) - 1] = IF j = 1 THEN InBuffers(now) ELSE T[m + 1 + j - 1]
        BY <3>3, <3>5
    <3> QED BY <1>7, <3>2, <3>3, <3>4, <3>6
  <2> QED BY <1>7, <1>8, <2>3 DEF BegunDoes, Ran
<1>15. Does(T, now, C, K, {r}, slot)
  <2>1. \A c \in C : CopyDoes(T, now, c)
    <3> SUFFICES ASSUME NEW c \in C PROVE CopyDoes(T, now, c)
        OBVIOUS
    <3>1. CopyDoes(T, m0, c)
        BY <1>13 DEF Does
    <3> QED BY <1>5, <3>1 DEF CopyDoes, CopyOf
  <2>2. \A c \in K : ComputeDoes(T, c)
      BY <1>13 DEF Does
  <2> QED BY <1>14, <2>1, <2>2 DEF Does
<1>16. ring' = ring /\ ex' = ex /\ stage_pend' = stage_pend /\ host' = host
       /\ patterns' = patterns
    BY <1>1
<1>17. OrderOK(ex', ring', running', slot')
    BY <1>9, <1>12, <1>16 DEF OrderOK, C, K
<1>18. MemoryOK(now, x0, ex', ring', running', slot')
    BY <1>9, <1>13, <1>15, <1>16 DEF MemoryOK, C, K
<1>19. ~ex.needs_wait => OnlyUploads(C, K, {r})
    BY <1>1 DEF InvOf, Good, OnlyUploads, C, K
<1>20. Good(now, x0, ex', ring', running', slot')
    BY <1>2, <1>9, <1>16, <1>17, <1>18, <1>19 DEF Good, C, K
<1>21. StagesOK(Elems(ring'["copy"]), stage_pend', host', patterns')
    BY <1>16 DEF InvOf
<1>22. DownloadOK(Elems(ring'["copy"]), now, x0, ex', host')
  <2>1. now[stage0] = m0[stage0]
      BY <1>5, <1>16, StagesApart
  <2> QED BY <1>16, <2>1 DEF InvOf, DownloadOK
<1> QED BY <1>2, <1>5, <1>9, <1>10, <1>16, <1>20, <1>21, <1>22 DEF InvOf

-----------------------------------------------------------------------------
(* Every step keeps the invariant.                                         *)

\* It is kept along with such a memory and such calls.
LEMMA Keeps ==
    ASSUME NEW m1, NEW x1, InvOf(m1, x1)', ~spoiled' => m1 = memory' /\ x1 = expected',
           memory' \in [Places -> Values], expected' \in Contents
    PROVE  ExecInvariant'
BY DEF ExecInvariant, Tells

LEMMA CallsKeep == ASSUME ExecInvariant, Calls(Buffers) PROVE ExecInvariant'
<1>1. PICK m0, x0 : InvOf(m0, x0) /\ Tells(m0, x0)
    BY DEF ExecInvariant
<1>2. memory \in [Places -> Values] /\ expected \in Contents
    BY DEF ExecInvariant
<1>3. CASE \E b \in Buffers, v \in Values : SmallUpload(b, v)
  <2>1. PICK b \in Buffers, v \in Values : SmallUpload(b, v)
      BY <1>3
  <2>2. /\ memory' = memory /\ spoiled' = spoiled /\ expected' = [expected EXCEPT ![b] = v]
      BY <2>1 DEF SmallUpload, history
  <2>3. PICK x1 : x1 = [x0 EXCEPT ![b] = v]
      OBVIOUS
  <2>4. InvOf(m0, x1)'
      BY <1>1, <2>1, <2>3, SmallUploadKeeps
  <2>5. expected' \in Contents /\ (~spoiled' => m0 = memory' /\ x1 = expected')
      BY <1>1, <1>2, <2>2, <2>3 DEF Tells, Contents
  <2> QED BY <1>2, <2>2, <2>4, <2>5, Keeps
<1>4. CASE \E b, c \in Buffers : Launch(b, c) \/ DeviceCopy(b, c)
  <2>1. PICK b \in Buffers, c \in Buffers : Launch(b, c) \/ DeviceCopy(b, c)
      BY <1>4
  <2>2. /\ memory' = memory /\ spoiled' = spoiled
        /\ expected' = [expected EXCEPT ![b] = expected[c]]
      BY <2>1 DEF Launch, DeviceCopy, history
  <2>3. PICK x1 : x1 = [x0 EXCEPT ![b] = x0[c]]
      OBVIOUS
  <2>4. InvOf(m0, x1)'
      BY <1>1, <2>1, <2>3, LaunchKeeps, DeviceCopyKeeps
  <2>5. expected' \in Contents /\ (~spoiled' => m0 = memory' /\ x1 = expected')
      BY <1>1, <1>2, <2>2, <2>3 DEF Tells, Contents
  <2> QED BY <1>2, <2>2, <2>4, <2>5, Keeps
<1>5. CASE /\ InvOf(m0, x0)'
           /\ memory' = memory /\ spoiled' = spoiled /\ expected' = expected
    BY <1>1, <1>2, <1>5, Keeps DEF Tells
<1>6. CASE \E b, c \in Buffers :
             b <= c /\ (Upload(b, c) \/ Fill("zero", b, c) \/ Fill("set", b, c))
  <2>1. InvOf(m0, x0)'
      BY <1>1, <1>6, UploadKeeps, FillKeeps
  <2>2. memory' = memory /\ spoiled' = spoiled /\ expected' = expected
      BY <1>6 DEF Upload, Fill, history
  <2> QED BY <1>5, <2>1, <2>2
<1>7. CASE \E b \in Buffers : Download(b)
  <2>1. InvOf(m0, x0)'
      BY <1>1, <1>7, DownloadKeeps
  <2>2. memory' = memory /\ spoiled' = spoiled /\ expected' = expected
      BY <1>7 DEF Download, history
  <2> QED BY <1>5, <2>1, <2>2
<1>8. CASE Flush
  <2>1. InvOf(m0, x0)'
      BY <1>1, <1>8, FlushActionKeeps
  <2>2. memory' = memory /\ spoiled' = spoiled /\ expected' = expected
      BY <1>8 DEF Flush, history
  <2> QED BY <1>5, <2>1, <2>2
<1>9. CASE Synchronize
  <2>1. InvOf(m0, x0)'
      BY <1>1, <1>9, SynchronizeKeeps
  <2>2. memory' = memory /\ spoiled' = spoiled /\ expected' = expected
      BY <1>9 DEF Synchronize, Idle, Flush, history
  <2> QED BY <1>5, <2>1, <2>2
<1> QED BY <1>3, <1>4, <1>6, <1>7, <1>8, <1>9 DEF Calls

\* The one step that may set memory apart from what its books tell
LEMMA RefillTells ==
    ASSUME NEW m0, NEW s \in Stages, NEW v \in Values, Refills(s, v),
           memory \in [Places -> Values], ~spoiled => m0 = memory
    PROVE  /\ memory' \in [Places -> Values]
           /\ \E m1 : Filled(m0, m1, s, v) /\ (~spoiled' => ~spoiled /\ m1 = memory')
<1>1. memory' = [memory EXCEPT ![s] = v] /\ spoiled' = (spoiled \/ Pending(s) # {})
    BY DEF Refills
<1>2. memory' \in [Places -> Values]
    BY <1>1
<1>3. CASE spoiled'
  <2>1. Filled(m0, m0, s, v)
      BY DEF Filled
  <2> QED BY <1>2, <1>3, <2>1
<1>4. CASE ~spoiled'
  <2>1. ~spoiled /\ Pending(s) = {}
      BY <1>1, <1>4
  <2>2. PICK m1 : m1 = [m0 EXCEPT ![s] = v]
      OBVIOUS
  <2>3. Filled(m0, m1, s, v) /\ m1 = memory'
      BY <1>1, <2>1, <2>2 DEF Filled
  <2> QED BY <1>2, <2>1, <2>3
<1> QED BY <1>3, <1>4

LEMMA SpreadGoesOn ==
    ASSUME ExecInvariant, NEW op, NEW after, Spread(op, after),
           \/ op = "spread" /\ after = Call("sync", 1, 0) /\ patterns' = patterns
           \/ /\ op = "pattern" /\ after = NoCall
              /\ patterns' = patterns \union {ex'.q_last["copy"]}
    PROVE  ExecInvariant'
<1>1. PICK m0, x0 : InvOf(m0, x0) /\ Tells(m0, x0)
    BY DEF ExecInvariant
<1>2. /\ memory \in [Places -> Values] /\ expected \in Contents
      /\ host.at \in Buffers /\ stage0 \in Places
  <2>1. HostOK(ex, host) /\ host.op \in {"spread", "pattern"}
      BY <1>1 DEF InvOf, Spread
  <2> QED BY <2>1, StagesApart DEF ExecInvariant, HostOK, Places
<1>3. /\ memory' = memory /\ spoiled' = spoiled
      /\ expected' = [expected EXCEPT ![host.at] = memory[stage0]]
    BY DEF Spread
<1>4. PICK x1 : x1 = [x0 EXCEPT ![host.at] = m0[stage0]]
    OBVIOUS
<1>5. InvOf(m0, x1)'
    BY <1>1, <1>4, SpreadKeeps
<1>6. expected' \in Contents
    BY <1>2, <1>3 DEF Contents
<1>7. ~spoiled' => m0 = memory' /\ x1 = expected'
    BY <1>1, <1>3, <1>4 DEF Tells
<1> QED BY <1>2, <1>3, <1>5, <1>6, <1>7, Keeps

LEMMA PatternGoesOn ==
    ASSUME ExecInvariant, host.op \in {"zero", "set"}, NEW v \in Values,
           NEW then \in {"spread", "pattern"}, FillPattern(v, then)
    PROVE  ExecInvariant'
<1>1. PICK m0, x0 : InvOf(m0, x0) /\ Tells(m0, x0)
    BY DEF ExecInvariant
<1>2. memory \in [Places -> Values] /\ expected \in Contents
    BY DEF ExecInvariant
<1>3. Refills(stage0, v) /\ expected' = expected /\ stage0 \in Stages
    BY StagesApart DEF FillPattern
<1>4. /\ memory' \in [Places -> Values]
      /\ \E m1 : Filled(m0, m1, stage0, v) /\ (~spoiled' => ~spoiled /\ m1 = memory')
    BY <1>1, <1>2, <1>3, RefillTells DEF Tells
<1>5. PICK m1 : Filled(m0, m1, stage0, v) /\ (~spoiled' => ~spoiled /\ m1 = memory')
    BY <1>4
<1>6. InvOf(m1, x0)'
    BY <1>1, <1>5, FillPatternKeeps
<1>7. ~spoiled' => m1 = memory' /\ x0 = expected'
    BY <1>1, <1>3, <1>5 DEF Tells
<1> QED BY <1>2, <1>3, <1>4, <1>6, <1>7, Keeps

LEMMA UploadGoesOn ==
    ASSUME ExecInvariant, NEW v \in Values, UploadChunk(v)
    PROVE  ExecInvariant'
<1>1. PICK m0, x0 : InvOf(m0, x0) /\ Tells(m0, x0)
    BY DEF ExecInvariant
<1>2. memory \in [Places -> Values] /\ expected \in Contents /\ host.at \in Buffers
  <2>1. HostOK(ex, host) /\ host.op = "upload"
      BY <1>1 DEF InvOf, UploadChunk
  <2> QED BY <2>1 DEF ExecInvariant, HostOK
<1>3. PICK s \in Stages : s = IF host.chunk = 0 THEN stage0 ELSE stage1
    BY StagesApart
<1>4. Refills(s, v) /\ expected' = [expected EXCEPT ![host.at] = v]
    BY <1>3 DEF UploadChunk
<1>5. /\ memory' \in [Places -> Values]
      /\ \E m1 : Filled(m0, m1, s, v) /\ (~spoiled' => ~spoiled /\ m1 = memory')
    BY <1>1, <1>2, <1>4, RefillTells DEF Tells
<1>6. PICK m1 : Filled(m0, m1, s, v) /\ (~spoiled' => ~spoiled /\ m1 = memory')
    BY <1>5
<1>7. PICK x1 : x1 = [x0 EXCEPT ![host.at] = m1[s]]
    OBVIOUS
<1>8. InvOf(m1, x1)'
    BY <1>1, <1>3, <1>6, <1>7, UploadChunkKeeps
<1>9. expected' \in Contents
    BY <1>2, <1>4 DEF Contents
<1>10. ~spoiled' => m1 = memory' /\ x1 = expected'
  <2>1. memory'[s] = v
      BY <1>2, <1>4 DEF Refills, Places
  <2> QED BY <1>1, <1>4, <1>6, <1>7, <2>1 DEF Tells
<1> QED BY <1>5, <1>8, <1>9, <1>10, Keeps

LEMMA GoingOnKeeps == ASSUME ExecInvariant, GoesOn PROVE ExecInvariant'
<1>1. CASE \E v \in Values : UploadChunk(v)
    BY <1>1, UploadGoesOn
<1>2. CASE Zero
  <2>1. CASE host.op = "zero" /\ FillPattern(0, "spread")
      BY <2>1, PatternGoesOn, ExecAssumption
  <2>2. CASE Spread("spread", Call("sync", 1, 0)) /\ UNCHANGED patterns
      BY <2>2, SpreadGoesOn
  <2> QED BY <1>2, <2>1, <2>2 DEF Zero
<1>3. CASE Memset
  <2>1. CASE host.op = "set" /\ \E v \in Values \ {0} : FillPattern(v, "pattern")
      BY <2>1, PatternGoesOn
  <2>2. CASE /\ Spread("pattern", NoCall)
             /\ patterns' = patterns \union {ex'.q_last["copy"]}
      BY <2>2, SpreadGoesOn
  <2> QED BY <1>3, <2>1, <2>2 DEF Memset
<1>4. CASE DownloadEnd \/ SyncEnd
  <2>1. PICK m0, x0 : InvOf(m0, x0) /\ Tells(m0, x0)
      BY DEF ExecInvariant
  <2>2. InvOf(m0, x0)'
      BY <1>4, <2>1, DownloadEndKeeps, SyncEndKeeps
  <2>3. memory' = memory /\ spoiled' = spoiled /\ expected' = expected
      BY <1>4 DEF DownloadEnd, SyncEnd, IdleEnd, history
  <2>4. memory \in [Places -> Values] /\ expected \in Contents
      BY DEF ExecInvariant
  <2> QED BY <2>1, <2>2, <2>3, <2>4, Keeps DEF Tells
<1> QED BY <1>1, <1>2, <1>3, <1>4 DEF GoesOn

\* What an engine makes of memory, and of such a memory, is the same.
LEMMA EnginesKeep == ASSUME ExecInvariant, Engines PROVE ExecInvariant'
<1>1. PICK m0, x0 : InvOf(m0, x0) /\ Tells(m0, x0)
    BY DEF ExecInvariant
<1>2. memory \in [Places -> Values] /\ expected \in Contents
    BY DEF ExecInvariant
<1>3. CASE RunCopy
  <2>1. PICK b : b = Head(ring["copy"])
      OBVIOUS
  <2>2. /\ memory' = Moved(memory, b)
        /\ spoiled' = spoiled /\ expected' = expected
      BY <1>3, <2>1 DEF RunCopy, Moved, history
  <2>3. PICK m1 : m1 = Moved(m0, b)
      OBVIOUS
  <2>4. InvOf(m1, x0)'
      BY <1>1, <1>3, <2>1, <2>3, RunCopyKeeps
  <2>5. memory' \in [Places -> Values]
    <3>1. ring["copy"] \in Seq(Copies) /\ ring["copy"] # <<>>
        BY <1>1, <1>3 DEF InvOf, Good, BooksOK, RunCopy
    <3>2. b \in Copies
        BY <2>1, <3>1
    <3>3. PICK now : now = Moved(memory, b)
        OBVIOUS
    <3>4. now \in [Places -> Values]
        BY <1>2, <3>2, <3>3, CopyRun
    <3> QED BY <2>2, <3>3, <3>4
  <2> QED BY <1>1, <1>2, <2>2, <2>3, <2>4, <2>5, Keeps DEF Tells
<1>4. CASE BeginCompute
  <2>1. PICK held : held = Head(ring["compute"]).held
      OBVIOUS
  <2>2. /\ memory' = Written(memory, held)
        /\ spoiled' = spoiled /\ expected' = expected
      BY <1>4, <2>1 DEF BeginCompute, history
  <2>3. PICK m1 : m1 = Written(m0, held)
      OBVIOUS
  <2>4. InvOf(m1, x0)'
      BY <1>1, <1>4, <2>1, <2>3, BeginComputeKeeps
  <2>5. memory' \in [Places -> Values]
    <3>1. ring["compute"] \in Seq(Computes) /\ ring["compute"] # <<>>
        BY <1>1, <1>4 DEF InvOf, Good, BooksOK, BeginCompute
    <3>2. Head(ring["compute"]) \in Computes
        BY <3>1
    <3>3. held \in Seq(Writes)
        BY <2>1, <3>2 DEF Computes
    <3>4. PICK now : now = Written(memory, held)
        OBVIOUS
    <3>5. now \in [Places -> Values]
        BY <1>2, <3>3, <3>4, BytesWritten
    <3> QED BY <2>2, <3>4, <3>5
  <2> QED BY <1>1, <1>2, <2>2, <2>3, <2>4, <2>5, Keeps DEF Tells
<1>5. CASE ReleaseHeld
  <2>1. InvOf(m0, x0)'
      BY <1>1, <1>5, ReleaseHeldKeeps
  <2>2. memory' = memory /\ spoiled' = spoiled /\ expected' = expected
      BY <1>5 DEF ReleaseHeld, history
  <2> QED BY <1>1, <1>2, <2>1, <2>2, Keeps DEF Tells
<1>6. CASE \E i \in DOMAIN running : RunKernel(i)
  <2>1. PICK i \in DOMAIN running : RunKernel(i)
      BY <1>6
  <2>2. PICK k \in Kernels : k = Head(running[1].kernels) /\ memory' = Through(memory, k)
      BY <1>1, <2>1, OneRuns DEF Through
  <2>3. spoiled' = spoiled /\ expected' = expected
      BY <2>1 DEF RunKernel, history
  <2>4. PICK m1 : m1 = Through(m0, k)
      OBVIOUS
  <2>5. InvOf(m1, x0)'
      BY <1>1, <2>1, <2>2, <2>4, LastKernelKeeps, KernelKeeps
  <2>6. PICK now : now = Through(memory, k)
      OBVIOUS
  <2>7. now \in [Places -> Values]
      BY <1>2, <2>6, OneKernel
  <2>8. memory' \in [Places -> Values] /\ (~spoiled' => m1 = memory' /\ x0 = expected')
      BY <1>1, <2>2, <2>3, <2>4, <2>6, <2>7 DEF Tells
  <2> QED BY <1>2, <2>3, <2>5, <2>8, Keeps
<1> QED BY <1>3, <1>4, <1>5, <1>6 DEF Engines

LEMMA IdleStepKeeps == ASSUME ExecInvariant, UNCHANGED vars PROVE ExecInvariant'
<1>1. /\ UNCHANGED <<memory, expected, ex, stage_pend, ring, running, slot, host>>
      /\ UNCHANGED <<patterns, spoiled>>
    BY DEF vars, history
<1> QED BY <1>1 DEF ExecInvariant, InvOf, Tells

\* The invariant of the driver's books and the rings: what is in flight is
\* totally ordered by the values its batches release, each batch's acquires order
\* it after every earlier one of the other queue, and running it in that order
\* turns what memory holds into what the calls say, until a pattern of
\* tinynv_memset's is overwritten in its stage.
THEOREM ExecInvariantHolds == Spec => []ExecInvariant
<1>1. Init => ExecInvariant
    BY AtStart
<1>2. ExecInvariant /\ [Next]_vars => ExecInvariant'
    BY CallsKeep, GoingOnKeeps, EnginesKeep, IdleStepKeeps DEF Next
<1> QED BY <1>1, <1>2, PTL DEF Spec

-----------------------------------------------------------------------------
(* What follows from it                                                    *)

\* Every value reserved is within the bound, and no queue has released more than
\* it was last given (the timeline's books in exec.c).
THEOREM ExecTypeOK == Spec => []TypeOK
<1>1. ASSUME ExecInvariant PROVE TypeOK
  <2> PICK m0, x0 : InvOf(m0, x0)
      BY <1>1 DEF ExecInvariant
  <2>1. BooksOK(ex, ring) /\ OrderOK(ex, ring, running, slot)
        /\ Len(ex.chain) <= ChainMax /\ Len(ex.held) <= HeldMax
        /\ slot \in [Queues -> Nat] /\ HostOK(ex, host)
        /\ stage_pend \in [Stages -> 0 .. ValueMax + N]
      BY DEF InvOf, Good
  <2>2. ex.reserved \in Nat /\ ex.q_last \in [Queues -> Nat] /\ Later(ex.q_last) \in Nat
        /\ Len(ex.chain) \in Nat /\ ex.reserved = Later(ex.q_last) + Len(ex.chain)
      BY <2>1, BooksTypes
  <2>3. ex.reserved \in 0 .. ValueMax + N /\ host \in Hosts
      BY <2>1, <2>2, ExecAssumption DEF HostOK
  <2>4. \A q \in Queues : slot[q] <= ex.q_last[q]
      BY <2>1 DEF OrderOK, Order, Between
  <2>5. \A q \in Queues : ex.q_last[q] <= ex.reserved
    <3>1. \A q \in Queues : ex.q_last[q] <= Later(ex.q_last) /\ ex.q_last[q] \in Nat
        BY <2>2 DEF Later, Queues
    <3>2. Later(ex.q_last) <= ex.reserved
        BY ONLY <2>2
    <3> QED BY <2>2, <3>1, <3>2
  <2> QED BY <1>1, <2>1, <2>3, <2>4, <2>5 DEF TypeOK, ExecInvariant, Hosts,
              Contents, Places
<1> QED BY <1>1, ExecInvariantHolds, PTL

\* With nothing built, held or in flight, memory is what the calls made so far
\* say, in the order they were made (exec.c, tinynv_exec_upload and batch_begin),
\* unless a pattern of tinynv_memset's was overwritten in its stage.
THEOREM ExecDrainedMemoryIsRight == Spec => []DrainedMemoryIsRight
<1>1. ASSUME ExecInvariant PROVE DrainedMemoryIsRight
  <2> SUFFICES ASSUME ~InFlight, ex.chain = <<>>, ex.held = <<>>, ~spoiled,
                      NEW b \in Buffers
               PROVE  memory[b] = expected[b]
      BY DEF DrainedMemoryIsRight, Drained
  <2>1. /\ BooksOK(ex, ring) /\ OrderOK(ex, ring, running, slot)
        /\ MemoryOK(memory, expected, ex, ring, running, slot)
    <3>1. PICK m0, x0 : InvOf(m0, x0) /\ Tells(m0, x0)
        BY <1>1 DEF ExecInvariant
    <3>2. m0 = memory /\ x0 = expected
        BY <3>1 DEF Tells
    <3>3. /\ BooksOK(ex, ring) /\ OrderOK(ex, ring, running, slot)
          /\ MemoryOK(m0, x0, ex, ring, running, slot)
        BY <3>1 DEF InvOf, Good
    <3> QED BY <3>2, <3>3
  <2>2. Elems(ring["copy"]) = {} /\ Elems(ring["compute"]) = {} /\ Elems(running) = {}
      BY DEF InFlight, Elems
  <2>3. Later(slot) = Later(ex.q_last)
    <3>1. Ends({}, {}, {}, slot, ex.q_last)
        BY <2>1, <2>2 DEF OrderOK, Order
    <3> QED BY <3>1 DEF Ends, Later
  <2>4. ex.reserved \in Nat /\ ex.reserved = Later(ex.q_last)
    <3>1. Len(ex.chain) = 0
        OBVIOUS
    <3> QED BY <2>1, <3>1, BooksTypes
  <2>5. PICK T \in [0 .. ex.reserved -> Contents] :
          Does(T, memory, {}, {}, {}, slot) /\ Built(T, expected, ex)
      BY <2>1, <2>2 DEF MemoryOK
  <2>6. T[ex.reserved] = InBuffers(memory)
      BY <2>3, <2>4, <2>5 DEF Does
  <2>7. expected = T[ex.reserved]
    <3>1. T[ex.reserved] \in Contents /\ <<>> \in Seq(Writes)
        BY <2>4
    <3>2. expected = Written(T[ex.reserved], <<>>)
        BY <2>5 DEF Built
    <3> QED BY <3>1, <3>2, WrittenIs
  <2> QED BY <2>6, <2>7 DEF InBuffers
<1> QED BY <1>1, ExecInvariantHolds, PTL

\* "No need to wait" leaves nothing but uploads in the command stream
\* (tinynv_stream_needs_wait).
THEOREM ExecNeedsWaitHonest == Spec => []NeedsWaitHonest
<1>1. ASSUME ExecInvariant PROVE NeedsWaitHonest
  <2> SUFFICES ASSUME ~ex.needs_wait PROVE OnlyUploadsLeft
      BY DEF NeedsWaitHonest
  <2>0. PICK m0, x0 : InvOf(m0, x0)
      BY <1>1 DEF ExecInvariant
  <2>1. OnlyUploads(Elems(ring["copy"]), Elems(ring["compute"]), Elems(running))
      BY <2>0 DEF InvOf, Good
  <2>2. ring["copy"] = <<>>
    <3>1. ring["copy"] \in Seq(Copies)
        BY <2>0 DEF InvOf, Good, BooksOK
    <3> QED BY <2>1, <3>1, ElemsIn DEF OnlyUploads
  <2> QED BY <2>1, <2>2 DEF OnlyUploads, OnlyUploadsLeft, Elems
<1> QED BY <1>1, ExecInvariantHolds, PTL

\* A download returns what the calls before it left in the buffer, with the same
\* exception.
THEOREM ExecDownloadsAreRight == Spec => DownloadsAreRight
<1>1. ASSUME ExecInvariant, [Next]_vars, host.op = "download", host'.op = "none", ~spoiled
      PROVE  memory[stage0] = expected[host.at]
  <2>1. DownloadEnd
    <3>1. ~Calls(Buffers)
        BY <1>1 DEF Calls, SmallUpload, Launch, DeviceCopy, Upload, Fill, Download, Flush,
                    Synchronize, Idle, Calling
    <3>2. ~Engines
        BY <1>1 DEF Engines, RunCopy, BeginCompute, ReleaseHeld, RunKernel
    <3>3. ~UNCHANGED vars
        BY <1>1 DEF vars
    <3>4. GoesOn
        BY <1>1, <3>1, <3>2, <3>3 DEF Next
    <3> QED BY <1>1, <3>4 DEF GoesOn, UploadChunk, Zero, Memset, Spread, SyncEnd
  <2>2. PICK m0, x0 : InvOf(m0, x0) /\ m0 = memory /\ x0 = expected
      BY <1>1 DEF ExecInvariant, Tells
  <2>3. Elems(ring["copy"]) = {}
      BY <2>1, <2>2, AllDone DEF DownloadEnd, IdleEnd
  <2>4. DownloadOK(Elems(ring["copy"]), m0, x0, ex, host)
      BY <2>2 DEF InvOf
  <2> QED BY <1>1, <2>2, <2>3, <2>4 DEF DownloadOK
<1>2. ExecInvariant /\ [Next]_vars =>
        [host.op = "download" /\ host'.op = "none" /\ ~spoiled
           => memory[stage0] = expected[host.at]]_vars
    BY <1>1
<1> QED BY <1>2, ExecInvariantHolds, PTL DEF Spec, DownloadsAreRight

\* The host never refills a staging buffer that a copy has still to read, but for
\* the copies of tinynv_memset's (stage_claim).
THEOREM ExecStagesLeftAlone == Spec => StagesLeftAlone
<1> DEFINE Left(s) == memory'[s] # memory[s] /\ Len(ring'["copy"]) >= Len(ring["copy"])
                        => \A i \in Pending(s) : ring["copy"][i].upto \in patterns
<1>1. ASSUME ExecInvariant, [Next]_vars, NEW s \in Stages,
             memory'[s] # memory[s], Len(ring'["copy"]) >= Len(ring["copy"])
      PROVE  \A b \in Elems(ring["copy"]) : b.src = s => b.upto \in patterns
  <2>0. PICK m0, x0 : InvOf(m0, x0)
      BY <1>1 DEF ExecInvariant
  <2>1. memory \in [Places -> Values] /\ s \in Places /\ ring["copy"] \in Seq(Copies)
        /\ DOMAIN ring = Queues
      BY <1>1, <2>0 DEF ExecInvariant, InvOf, Good, BooksOK, Places
  <2>2. ~Calls(Buffers) /\ ~UNCHANGED vars
      BY <1>1, ZenonT(60) DEF Calls, SmallUpload, Launch, DeviceCopy, Upload, Fill, Download, Flush,
                  Synchronize, Idle, vars
  <2>3. ~RunCopy
    <3> SUFFICES ASSUME RunCopy PROVE FALSE
        OBVIOUS
    <3>1. ring["copy"] # <<>> /\ ring'["copy"] = Tail(ring["copy"])
        BY <2>1 DEF RunCopy, Queues
    <3>2. Len(Tail(ring["copy"])) < Len(ring["copy"])
        BY <2>1, <3>1
    <3>3. Len(Tail(ring["copy"])) \in Nat /\ Len(ring["copy"]) \in Nat
        BY <2>1, <3>1
    <3> QED BY <1>1, <3>1, <3>2, <3>3
  <2>4. ~BeginCompute
    <3> SUFFICES ASSUME BeginCompute PROVE FALSE
        OBVIOUS
    <3>1. PICK held : memory' = Written(memory, held) /\ held = Head(ring["compute"]).held
        BY DEF BeginCompute
    <3>2. ring["compute"] \in Seq(Computes) /\ ring["compute"] # <<>>
        BY <2>0 DEF InvOf, Good, BooksOK, BeginCompute
    <3>3. Head(ring["compute"]) \in Computes
        BY <3>2
    <3>4. held \in Seq(Writes)
        BY <3>1, <3>3 DEF Computes
    <3> QED BY <1>1, <2>1, <3>1, <3>4, BytesWritten
  <2>5. ~ReleaseHeld
      BY <1>1 DEF ReleaseHeld
  <2>6. ~ \E i \in DOMAIN running : RunKernel(i)
    <3> SUFFICES ASSUME NEW i \in DOMAIN running, RunKernel(i) PROVE FALSE
        OBVIOUS
    <3>1. PICK k \in Kernels : memory' = Through(memory, k)
      <4>1. \E b \in Begun : /\ Head(b.kernels) \in Kernels
              /\ memory' = [memory EXCEPT ![Head(b.kernels).dst] = memory[Head(b.kernels).src]]
          BY <2>0, OneRuns
      <4> QED BY <4>1 DEF Through
    <3> QED BY <1>1, <2>1, <3>1, OneKernel
  <2>7. GoesOn
      BY <1>1, <2>2, <2>3, <2>4, <2>5, <2>6 DEF Next, Engines
  <2>8. CASE \E v \in Values : UploadChunk(v)
    <3>1. PICK v \in Values : UploadChunk(v)
        BY <2>8
    <3>2. PICK t \in Stages : t = IF host.chunk = 0 THEN stage0 ELSE stage1
        BY StagesApart
    <3>3. host.op = "upload" /\ Claims(t) /\ memory' = [memory EXCEPT ![t] = v]
        BY <3>1, <3>2 DEF UploadChunk, Refills
    <3>4. s = t
        BY <1>1, <2>1, <3>3
    <3> QED BY <2>0, <3>3, <3>4, Claimed
  <2>9. CASE Zero \/ Memset
    <3>1. host.op \in {"zero", "set"} /\ \E v \in Values, then \in {"spread", "pattern"} :
                                           FillPattern(v, then)
        BY <1>1, <2>9, ExecAssumption DEF Zero, Memset, Spread
    <3>2. PICK v \in Values : Claims(stage0) /\ memory' = [memory EXCEPT ![stage0] = v]
        BY <3>1 DEF FillPattern, Refills
    <3>3. s = stage0
        BY <1>1, <2>1, <3>2
    <3> QED BY <2>0, <3>1, <3>2, <3>3, Claimed
  <2>10. ~DownloadEnd /\ ~SyncEnd
      BY <1>1 DEF DownloadEnd, SyncEnd, IdleEnd
  <2> QED BY <2>7, <2>8, <2>9, <2>10 DEF GoesOn
<1>2. ASSUME ExecInvariant, [Next]_vars PROVE \A s \in Stages : Left(s)
    BY <1>1, <1>2 DEF Elems, Pending
<1>3. ExecInvariant /\ [Next]_vars => [\A s \in Stages : Left(s)]_vars
    BY <1>2
<1> QED BY <1>3, ExecInvariantHolds, PTL DEF Spec, StagesLeftAlone
=============================================================================
