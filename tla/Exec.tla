------------------------------- MODULE Exec -------------------------------
(***************************************************************************)
(* Device memory as the driver's callers see it (libtinynv/src/exec.c):    *)
(* uploads small and large, launches, device copies, fills, downloads and  *)
(* synchronisations, against memory written in the order of the calls.     *)
(*                                                                         *)
(* A buffer is as large as a staging buffer, so one copy moves one whole   *)
(* buffer and a large call takes several.  The host is one thread; each    *)
(* channel takes its batches in order, and a batch waits for what its      *)
(* acquires name.  The kernels of a chain run one after the other, but the *)
(* compute channel goes on to its next batch while they run.  A delivery   *)
(* of descriptors touches no memory of a caller's and only adds acquires;  *)
(* it is left to Delivery.tla, scratch and the restart to Scratch.tla.     *)
(***************************************************************************)
EXTENDS Integers, Sequences, SequencesExt

CONSTANTS
    N,             \* buffers in device memory, next to each other
    Values,        \* what a buffer may hold
    ChainMax,      \* chain_max
    HeldMax,       \* inline_pend_max
    ValueMax       \* bound: no call begins past this timeline value

ASSUME ExecAssumption ==
    /\ N \in Nat \ {0} /\ ChainMax \in Nat \ {0} /\ HeldMax \in Nat \ {0}
    /\ ValueMax \in Nat /\ 0 \in Values /\ Values \subseteq Nat

Buffers == 1 .. N
stage0 == N + 1
stage1 == N + 2
Stages == {stage0, stage1}
Queues == {"compute", "copy"}

VARIABLES
    memory,        \* what each buffer, and each staging buffer, holds
    expected,      \* what the calls made so far say each buffer holds
    ex,            \* the driver's books
    stage_pend,    \* the value each staging buffer's last copy releases
    ring,          \* what each channel has not begun
    running,       \* the compute batches begun: the kernels they have left
    slot,          \* the semaphore slot of each queue
    host,          \* the call being made
    patterns,      \* for the properties: the values tinynv_memset's copies release
    spoiled        \* ... and whether a stage was refilled that a copy had yet to read

history == <<patterns, spoiled>>
vars == <<memory, expected, ex, stage_pend, ring, running, slot, host, history>>

\* A call's name, the buffers it has left and the index of its next chunk
NoCall == [op |-> "none", at |-> 1, to |-> 0, chunk |-> 0]
Call(op, at, to) == [op |-> op, at |-> at, to |-> to, chunk |-> 0]

Init ==
    /\ \E m \in [Buffers -> Values] :
         /\ memory = [p \in Buffers \union Stages |-> IF p \in Buffers THEN m[p] ELSE 0]
         /\ expected = m
    /\ ex = [chain |-> <<>>, held |-> <<>>, reserved |-> 0, last_q |-> "none",
             q_last |-> [q \in Queues |-> 0], needs_wait |-> FALSE,
             in_chain_flush |-> FALSE]
    /\ stage_pend = [s \in Stages |-> 0]
    /\ ring = [q \in Queues |-> <<>>]
    /\ running = <<>>
    /\ slot = [q \in Queues |-> 0]
    /\ host = NoCall
    /\ patterns = {} /\ spoiled = FALSE

-----------------------------------------------------------------------------
(* What a call does to the driver's books and to the rings: operators from *)
(* a state of both to the next, [ex, ring].                                *)

Now == [ex |-> ex, ring |-> ring]
Become(s) == ex' = s.ex /\ ring' = s.ring

OtherQueue(q) == IF q = "copy" THEN "compute" ELSE "copy"

\* batch_begin's acquires: the other queue's last value when the last batch was
\* its, and for a compute batch the compute work before it.
AcquireOtherMutant(e, q) ==                         \* Mutated form: everything reserved
    IF e.last_q = OtherQueue(q) THEN e.reserved ELSE 0
AcquireOther(e, q) == IF e.last_q = OtherQueue(q) THEN e.q_last[OtherQueue(q)] ELSE 0
AcquireOwnMutant(e, q) == 0                         \* Mutated form: no same-queue acquire
AcquireOwn(e, q) == IF q = "compute" THEN e.q_last[q] ELSE 0

Batch(e, q, upto, work) ==
    [work EXCEPT !.upto = upto, !.own = AcquireOwn(e, q), !.other = AcquireOther(e, q)]
ComputeWork(held, kernels) ==
    [upto |-> 0, own |-> 0, other |-> 0, held |-> held, kernels |-> kernels]
CopyWork(dst, src) == [upto |-> 0, own |-> 0, other |-> 0, dst |-> dst, src |-> src]

\* batch_begin and submit_batch: the batch is on its queue's ring.
submit_batch(s, q, upto, work, waits) ==
    [ring |-> [s.ring EXCEPT ![q] = Append(s.ring[q], Batch(s.ex, q, upto, work))],
     ex |-> [s.ex EXCEPT !.last_q = q, !.q_last[q] = upto,
                         !.reserved = IF upto > s.ex.reserved THEN upto ELSE s.ex.reserved,
                         !.needs_wait = waits \/ s.ex.needs_wait,
                         !.held = IF q = "compute" THEN <<>> ELSE s.ex.held]]

\* tinynv_exec_flush: the chain, with the held uploads at its head
flushMutant(s) ==                                   \* Mutated form: as the driver's own work
    IF s.ex.chain = <<>> THEN s
    ELSE submit_batch([s EXCEPT !.ex.chain = <<>>, !.ex.in_chain_flush = FALSE], "compute",
                      s.ex.reserved, ComputeWork(s.ex.held, s.ex.chain), FALSE)
flush(s) ==
    IF s.ex.chain = <<>> THEN s
    ELSE submit_batch([s EXCEPT !.ex.chain = <<>>, !.ex.in_chain_flush = FALSE], "compute",
                      s.ex.reserved, ComputeWork(s.ex.held, s.ex.chain), TRUE)

\* the held uploads in a batch of their own
push_held(s) ==
    IF s.ex.held = <<>> THEN s
    ELSE submit_batch(s, "compute", s.ex.reserved + 1, ComputeWork(s.ex.held, <<>>), FALSE)

\* tinynv_exec_copy: after the launches built and the uploads held
Copied(s, dst, src) == submit_batch(s, "copy", s.ex.reserved + 1, CopyWork(dst, src), TRUE)
copyMutant(s, dst, src) == Copied(flush(s), dst, src)   \* Mutated form: uploads stay held
copy(s, dst, src) ==
    LET f == flush(s) IN
    Copied(IF f.ex.in_chain_flush THEN f ELSE push_held(f), dst, src)

timeline == IF ex.q_last["copy"] > ex.q_last["compute"] THEN ex.q_last["copy"]
            ELSE ex.q_last["compute"]
sem_reached(v) == \A q \in Queues : slot[q] >= v \/ slot[q] >= ex.q_last[q]

\* Calls are made one at a time, and within the bound.
Calling == host.op = "none" /\ ex.reserved < ValueMax

-----------------------------------------------------------------------------
\* A small upload: behind the launches built, and then held, the ones before it
\* pushed out when there is no room.
Full(s) == Len(s.ex.held) = HeldMax

SmallUpload(b, v) ==
    /\ Calling
    /\ LET f == flush(Now)
           s == IF Full(f) THEN push_held(f) ELSE f
       IN /\ Full(f) => ~f.ex.in_chain_flush
          /\ Become([s EXCEPT !.ex.held = Append(@, [dst |-> b, value |-> v])])
    /\ expected' = [expected EXCEPT ![b] = v]
    /\ UNCHANGED <<memory, stage_pend, running, slot, host, history>>

\* A launch, of a kernel that reads one buffer and writes another
Launch(dst, src) ==
    /\ Calling
    /\ dst # src
    /\ LET s == IF Len(ex.chain) >= ChainMax THEN flush(Now) ELSE Now IN
       Become([s EXCEPT !.ex.chain = Append(@, [dst |-> dst, src |-> src]),
                        !.ex.reserved = @ + 1])
    /\ expected' = [expected EXCEPT ![dst] = expected[src]]
    /\ UNCHANGED <<memory, stage_pend, running, slot, host, history>>

\* tinynv_stream_flush, and what recording an event does
Flush ==
    /\ Calling
    /\ ex.chain # <<>>
    /\ Become(flush(Now))
    /\ UNCHANGED <<memory, expected, stage_pend, running, slot, host, history>>

DeviceCopy(dst, src) ==
    /\ Calling
    /\ dst # src
    /\ Become(copy(Now, dst, src))
    /\ expected' = [expected EXCEPT ![dst] = expected[src]]
    /\ UNCHANGED <<memory, stage_pend, running, slot, host, history>>

\* stage_claim: wait until nothing reads the staging buffer.
ClaimsMutant(s) == TRUE                             \* Mutated form: without waiting
Claims(s) == stage_pend[s] # 0 => sem_reached(stage_pend[s])

\* The processor writes a staging buffer: what a copy had yet to read is lost.
Pending(s) == {i \in DOMAIN ring["copy"] : ring["copy"][i].src = s}
Refills(s, v) ==
    /\ memory' = [memory EXCEPT ![s] = v]
    /\ spoiled' = (spoiled \/ Pending(s) # {})

\* A large upload: chunk by chunk, through the two staging buffers in turn
Upload(at, to) ==
    /\ Calling
    /\ ex' = [ex EXCEPT !.needs_wait = TRUE]
    /\ host' = Call("upload", at, to)
    /\ UNCHANGED <<memory, expected, stage_pend, ring, running, slot, history>>

UploadChunk(v) ==
    LET s == IF host.chunk = 0 THEN stage0 ELSE stage1
        next == copy(Now, host.at, s)
    IN
    /\ host.op = "upload"
    /\ Claims(s)
    /\ Refills(s, v)
    /\ Become(next)
    /\ stage_pend' = [stage_pend EXCEPT ![s] = next.ex.q_last["copy"]]
    /\ expected' = [expected EXCEPT ![host.at] = v]
    /\ host' = IF host.at = host.to THEN NoCall
               ELSE [host EXCEPT !.at = @ + 1, !.chunk = 1 - @]
    /\ UNCHANGED <<running, slot, patterns>>

\* A fill: the pattern goes into the first staging buffer and is copied across
\* the range.  Filling with zeros (tinynv_exec_zero) ends with a wait; with
\* anything else (tinynv_memset) the call returns with its copies under way.
Fill(op, at, to) ==
    /\ Calling
    /\ host' = Call(op, at, to)
    /\ UNCHANGED <<memory, expected, ex, stage_pend, ring, running, slot, history>>

FillPattern(v, then) ==
    /\ Claims(stage0)
    /\ stage_pend' = [stage_pend EXCEPT ![stage0] = 0]
    /\ Refills(stage0, v)
    /\ host' = [host EXCEPT !.op = then]
    /\ UNCHANGED <<expected, ex, ring, running, slot, patterns>>

Spread(op, after) ==
    /\ host.op = op
    /\ Become(copy(Now, host.at, stage0))
    /\ expected' = [expected EXCEPT ![host.at] = memory[stage0]]
    /\ host' = IF host.at = host.to THEN after ELSE [host EXCEPT !.at = @ + 1]
    /\ UNCHANGED <<memory, stage_pend, running, slot, spoiled>>

Zero ==
    \/ host.op = "zero" /\ FillPattern(0, "spread")
    \/ Spread("spread", Call("sync", 1, 0)) /\ UNCHANGED patterns

Memset ==
    \/ host.op = "set" /\ \E v \in Values \ {0} : FillPattern(v, "pattern")
    \/ /\ Spread("pattern", NoCall)
       /\ patterns' = patterns \union {ex'.q_last["copy"]}

\* tinynv_exec_idle: hand over what is built, and wait for everything.
Idle(op, at) ==
    /\ Calling
    /\ Become(flush(Now))
    /\ host' = Call(op, at, at)
    /\ UNCHANGED <<memory, expected, stage_pend, running, slot, history>>

IdleEnd ==
    /\ sem_reached(timeline)
    /\ ex' = [ex EXCEPT !.needs_wait = FALSE]
    /\ host' = NoCall
    /\ UNCHANGED <<memory, expected, ring, running, slot, history>>

\* tinynv_exec_download: one chunk, waited for (a larger one is as many calls)
Download(src) ==
    /\ Calling
    /\ Become(copy(Now, stage0, src))
    /\ host' = Call("download", src, src)
    /\ UNCHANGED <<memory, expected, stage_pend, running, slot, history>>

DownloadEnd ==
    /\ host.op = "download"
    /\ IdleEnd
    /\ stage_pend' = [stage_pend EXCEPT ![stage0] = 0]

SyncEnd == host.op = "sync" /\ IdleEnd /\ UNCHANGED stage_pend

\* cudaStreamSynchronize: waits if the driver says something needs it.
Synchronize == Calling /\ IF ex.needs_wait THEN Idle("sync", 1) ELSE Flush

-----------------------------------------------------------------------------
\* The copy engine runs its next batch once its acquire is satisfied.
RunCopy ==
    /\ ring["copy"] # <<>>
    /\ LET b == Head(ring["copy"]) IN
       /\ slot["compute"] >= b.other
       /\ memory' = [memory EXCEPT ![b.dst] = memory[b.src]]
       /\ slot' = [slot EXCEPT !["copy"] = b.upto]
    /\ ring' = [ring EXCEPT !["copy"] = Tail(@)]
    /\ UNCHANGED <<expected, ex, stage_pend, running, host, history>>

\* The compute channel begins its next batch: the acquires, then the held bytes,
\* and its kernels are under way.
LastWrite(held, p) ==
    {i \in DOMAIN held : held[i].dst = p /\ \A j \in i + 1 .. Len(held) : held[j].dst # p}
Written(m, held) ==
    [p \in DOMAIN m |-> IF LastWrite(held, p) = {} THEN m[p]
                        ELSE held[CHOOSE i \in LastWrite(held, p) : TRUE].value]

BeginCompute ==
    /\ ring["compute"] # <<>>
    /\ LET b == Head(ring["compute"]) IN
       /\ slot["copy"] >= b.other /\ slot["compute"] >= b.own
       /\ memory' = Written(memory, b.held)
       /\ running' = Append(running, [upto |-> b.upto, kernels |-> b.kernels])
    /\ ring' = [ring EXCEPT !["compute"] = Tail(@)]
    /\ UNCHANGED <<expected, ex, stage_pend, slot, host, history>>

\* A kernel of a batch under way; the last one releases the batch's value.
RunKernel(i) ==
    LET b == running[i]
        left == Tail(b.kernels)
    IN
    /\ b.kernels # <<>>
    /\ memory' = [memory EXCEPT ![Head(b.kernels).dst] = memory[Head(b.kernels).src]]
    /\ IF left = <<>>
       THEN running' = RemoveAt(running, i) /\ slot' = [slot EXCEPT !["compute"] = b.upto]
       ELSE running' = [running EXCEPT ![i].kernels = left] /\ UNCHANGED slot
    /\ UNCHANGED <<expected, ex, stage_pend, ring, host, history>>

\* A batch that was uploads only: its release waits for the engine to go idle.
ReleaseHeld ==
    /\ running # <<>> /\ Head(running).kernels = <<>>
    /\ slot' = [slot EXCEPT !["compute"] = Head(running).upto]
    /\ running' = Tail(running)
    /\ UNCHANGED <<memory, expected, ex, stage_pend, ring, host, history>>

Engines == RunCopy \/ BeginCompute \/ ReleaseHeld \/ \E i \in DOMAIN running : RunKernel(i)

\* The calls a program may make on a set of buffers
Calls(buffers) ==
    \/ \E b \in buffers, v \in Values : SmallUpload(b, v)
    \/ \E b, c \in buffers : Launch(b, c) \/ DeviceCopy(b, c)
    \/ \E b, c \in buffers : b .. c \subseteq buffers /\ b <= c
          /\ (Upload(b, c) \/ Fill("zero", b, c) \/ Fill("set", b, c))
    \/ \E b \in buffers : Download(b)
    \/ Flush \/ Synchronize

\* ... and what goes on of one under way
GoesOn == (\E v \in Values : UploadChunk(v)) \/ Zero \/ Memset \/ DownloadEnd \/ SyncEnd

Next == Calls(Buffers) \/ GoesOn \/ Engines

Spec == Init /\ [][Next]_vars

\* The engines run what they may, and a call past its wait goes on.
Fairness ==
    /\ WF_vars(RunCopy) /\ WF_vars(BeginCompute) /\ WF_vars(ReleaseHeld)
    /\ WF_vars(\E i \in DOMAIN running : RunKernel(i))
    /\ WF_vars(GoesOn)

LiveSpec == Spec /\ Fairness

-----------------------------------------------------------------------------
(* Properties *)

\* What each variable holds between two steps of the code
TypeOK ==
    /\ memory \in [Buffers \union Stages -> Values]
    /\ expected \in [Buffers -> Values]
    /\ Len(ex.chain) <= ChainMax /\ Len(ex.held) <= HeldMax
    /\ ex.reserved \in 0 .. ValueMax + N
    /\ \A q \in Queues : slot[q] <= ex.q_last[q] /\ ex.q_last[q] <= ex.reserved
    /\ stage_pend \in [Stages -> 0 .. ValueMax + N]
    /\ host.op \in {"none", "upload", "zero", "spread", "set", "pattern", "download", "sync"}

InFlight == ring["copy"] # <<>> \/ ring["compute"] # <<>> \/ running # <<>>

\* A download returns what the calls before it, in the order they were made,
\* left in the buffer: on whichever engine they ran and whether or not their
\* bytes were held back (batch_begin, "a download that read memory whose bytes
\* were still sitting in our buffer would read stale device memory"). The one
\* exception is a pattern of tinynv_memset's that was overwritten in its stage.
DownloadsAreRight ==
    [][host.op = "download" /\ host'.op = "none" /\ ~spoiled
         => memory[stage0] = expected[host.at]]_vars

\* When nothing is built, held or in flight, memory is what the calls say: no
\* upload landed under a launch that precedes it (tinynv_exec_upload, "AN UPLOAD
\* NEVER LANDS BEFORE A LAUNCH THAT PRECEDES IT"), no copy overtook a kernel. The
\* one exception is a pattern of tinynv_memset's that was overwritten in its stage.
Drained == ~InFlight /\ ex.chain = <<>> /\ ex.held = <<>> /\ host.op = "none"
DrainedMemoryIsRight == Drained /\ ~spoiled => \A b \in Buffers : memory[b] = expected[b]

\* The host never refills a staging buffer that a copy has still to read, unless
\* the copy is one of tinynv_memset's (stage_claim, "keeping a memcpy from landing
\* on top of a transfer that is still in flight").
StagesLeftAlone ==
    [][\A s \in Stages :
         memory'[s] # memory[s] /\ Len(ring'["copy"]) >= Len(ring["copy"])
            => \A i \in Pending(s) : ring["copy"][i].upto \in patterns]_vars

\* With everything handed over, "no need to wait" means that nothing is left but
\* uploads that ride in the command stream (tinynv_stream_needs_wait).
OnlyUploadsLeft ==
    /\ ring["copy"] = <<>>
    /\ \A i \in DOMAIN ring["compute"] : ring["compute"][i].kernels = <<>>
    /\ \A i \in DOMAIN running : running[i].kernels = <<>>
NeedsWaitHonest == ~ex.needs_wait /\ ex.chain = <<>> => OnlyUploadsLeft

\* A synchronise that returns leaves no kernel unfinished ("the failure mode of
\* drift is a synchronise that returns while a kernel is still running").
SynchronizeWaits == [][Synchronize /\ host'.op = "none" => OnlyUploadsLeft']_vars

\* Every call returns: the acquires of the two queues never wait on each other
\* for good (batch_begin, "the acquire then waits for it forever").
EveryCallReturns == host.op # "none" ~> host.op = "none"
=============================================================================
