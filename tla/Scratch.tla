------------------------------ MODULE Scratch ------------------------------
(***************************************************************************)
(* The scratch the engines read from: the two regions of exec.c, one for   *)
(* descriptors and one for command buffers, as arena() hands them out and  *)
(* as launches, chain flushes and copies take, submit and recycle them,    *)
(* while two engine queues retire batches at their own pace.               *)
(*                                                                         *)
(* The host is one thread (every entry point holds the driver's lock).  It *)
(* is interrupted only where it waits: `host' says what it is allocating   *)
(* for while it does, and between any two of its steps a queue may retire  *)
(* its oldest batch.                                                       *)
(*                                                                         *)
(* The configuration is the default one: asynchronous, descriptors         *)
(* delivered by the copy engine or as patches (arena_dma, delta_delivery,  *)
(* delta_rewind), one release per chain.                                   *)
(***************************************************************************)
EXTENDS Arena, FiniteSets

CONSTANTS
    Size,        \* [Regions -> bytes]
    Align,       \* [Regions -> bytes]
    Requests,    \* [Regions -> SUBSET bytes]: the sizes callers ask for
    ChainMax,    \* chain_max
    RebaseAt,    \* TINYNV_EXEC_REBASE_AT
    Ceiling      \* bound: the last value handed out (0xffffffff in the code)

Regions == {"desc", "cmd"}
Queues == {"compute", "copy"}

ASSUME ScratchAssumption ==
    /\ Size \in [Regions -> Nat \ {0}]
    /\ Align \in [Regions -> Nat \ {0}]
    /\ Requests \in [Regions -> SUBSET (Nat \ {0})]
    /\ \A r \in Regions : \A n \in Requests[r] : n <= Size[r]
    /\ ChainMax \in Nat \ {0}
    /\ RebaseAt \in Nat /\ Ceiling \in Nat /\ RebaseAt < Ceiling

VARIABLES
    region,        \* ex->region
    wrapped,       \* whether ex->wraps[AR_DESC] is non-zero
    chain,         \* the spans of the descriptors built and not yet submitted
    reserved,      \* ex->reserved: the last timeline value given out
    q_last,        \* ex->q_last: the last value each queue was asked for
    slot,          \* the semaphore slot of each queue, in device memory
    live,          \* the batches submitted and not yet retired
    after_stall,   \* ex->after_stall: a wait found the engines idle
    host,          \* what the host is allocating for
    abandoned      \* ghost: a descriptor span was taken and its launch failed

hostVars == <<wrapped, chain, reserved, q_last, after_stall, abandoned>>
vars == <<region, slot, live, host, hostVars>>

\* A batch: its queue and value, the value its queue was at before it, and
\* the scratch its execution reads or writes.
Batch == [queue : Queues, upto : Nat, after : Nat, cmd : Span, desc : SUBSET Span]

\* job: what the allocation is for.  For "rebase" only bytes is meaningful.
\* src is the span a delivery copies and chain_upto the value its chain carries.
Jobs == {"none", "rebase", "launch", "batch", "deliver", "chain"}
HostState == [job : Jobs, queue : Queues, off : Nat, bytes : Nat, want : Nat,
              src : Span, chain_upto : Nat]
NoHost == [job |-> "none", queue |-> "compute", off |-> 0, bytes |-> 0,
           want |-> 0, src |-> NoSpan, chain_upto |-> 0]

-----------------------------------------------------------------------------
(* Mutated forms *)

\* without "only as far as the queue was asked"
sem_reached_UncappedMutant(v) == \A q \in Queues : slot[q] >= v

\* either queue will do
sem_reached_EitherMutant(v) == \E q \in Queues : slot[q] >= v \/ slot[q] >= q_last[q]

\* sem_reached: each queue has passed the value asked for, or the last value
\* it was itself asked for, whichever is smaller.
sem_reached(v) ==
    \A q \in Queues : slot[q] >= v \/ slot[q] >= q_last[q]

\* ex->timeline, the highest value submitted
timeline == IF q_last["copy"] > q_last["compute"] THEN q_last["copy"]
            ELSE q_last["compute"]

SpanAt(off, bytes) == [lo |-> off, hi |-> off + bytes]

\* push_shadow in delivery mode: command buffers are written across, and the
\* descriptor span is left for the flush.
push_shadow(rgs) == [rgs EXCEPT !["cmd"].dirty = NoSpan]

Submit(rgs, value) ==
    push_shadow([rgs EXCEPT !["cmd"] = submitted(rgs["cmd"], value),
                            !["desc"] = submitted(rgs["desc"], value)])

Init ==
    /\ region = [r \in Regions |-> EmptyRegion(Size[r])]
    /\ wrapped = FALSE
    /\ chain = {}
    /\ reserved = 0
    /\ q_last = [q \in Queues |-> 0]
    /\ slot = [q \in Queues |-> 0]
    /\ live = {}
    /\ after_stall = FALSE
    /\ host = NoHost
    /\ abandoned = FALSE

-----------------------------------------------------------------------------
\* The tail of arena(): enter the pieces at the place found in rgs[r], and
\* stand at the wait for what they recorded.
EnterAt(rgs, r, h) ==
    LET off == place(rgs[r], Align[r]) IN
    \E want \in 0 .. Ceiling :
        /\ IsWant(rgs[r], off, h.bytes, want)
        /\ region' = [rgs EXCEPT ![r] = enter(rgs[r], off, h.bytes)]
        /\ host' = [h EXCEPT !.off = off, !.want = want]

\* What the region is when a launch asks: TINYNV_DELTA_REWIND declares it full
\* at the first launch after a standstill.
DeclaresFull ==
    after_stall /\ chain = {} /\ region["desc"].next # 0
AskedRegion ==
    IF DeclaresFull THEN [region EXCEPT !["desc"].next = Size["desc"]] ELSE region

\* arena()'s wrap: both spans must have been submitted and pushed, or the
\* rewind is refused (and has been done all the same).
ComeRound(rgs, bytes) ==
    IF Held(rgs["desc"])
    THEN /\ region' = [rgs EXCEPT !["desc"] = rewind(rgs["desc"])]
         /\ host' = NoHost
         /\ abandoned' = FALSE
         /\ UNCHANGED wrapped
    ELSE /\ wrapped' = TRUE
         /\ EnterAt([rgs EXCEPT !["desc"] = rewind(rgs["desc"])], "desc",
                    [NoHost EXCEPT !.job = "launch", !.bytes = bytes])
         /\ UNCHANGED abandoned

Asks(bytes) ==
    /\ host.job = "none"
    /\ Cardinality(chain) < ChainMax
    /\ bytes \in Requests["desc"]

\* A launch whose descriptor fits where the region stands
LaunchFits(bytes) ==
    /\ Asks(bytes)
    /\ ~wraps(AskedRegion["desc"], bytes, Align["desc"])
    /\ EnterAt(AskedRegion, "desc", [NoHost EXCEPT !.job = "launch", !.bytes = bytes])
    /\ UNCHANGED <<slot, live, hostVars>>

\* A launch that comes round.  A chain in hand was flushed first.
LaunchWraps(bytes) ==
    /\ Asks(bytes)
    /\ chain = {}
    /\ wraps(AskedRegion["desc"], bytes, Align["desc"])
    /\ reserved <= RebaseAt
    /\ ComeRound(push_shadow(AskedRegion), bytes)
    /\ UNCHANGED <<slot, live, chain, reserved, q_last, after_stall>>

\* The same near the timeline's ceiling: stand still first ...
LaunchRebases(bytes) ==
    /\ Asks(bytes)
    /\ chain = {}
    /\ wraps(AskedRegion["desc"], bytes, Align["desc"])
    /\ reserved > RebaseAt
    /\ region' = push_shadow(AskedRegion)
    /\ host' = [NoHost EXCEPT !.job = "rebase", !.bytes = bytes]
    /\ UNCHANGED <<slot, live, hostVars>>

\* forgets the command region's records
RebaseMutant ==
    /\ host.job = "rebase"
    /\ sem_reached(timeline)
    /\ reserved' = 0
    /\ q_last' = [q \in Queues |-> 0]
    /\ slot' = [q \in Queues |-> 0]
    /\ ComeRound([region EXCEPT !["desc"].seg_value = [i \in Pieces |-> 0]], host.bytes)
    /\ after_stall' \in {after_stall, TRUE}
    /\ UNCHANGED <<live, chain>>

\* ... and restart the counter once everything submitted has finished.
Rebase ==
    /\ host.job = "rebase"
    /\ sem_reached(timeline)
    /\ reserved' = 0
    /\ q_last' = [q \in Queues |-> 0]
    /\ slot' = [q \in Queues |-> 0]
    /\ ComeRound([region EXCEPT !["desc"].seg_value = [i \in Pieces |-> 0],
                                !["cmd"].seg_value = [i \in Pieces |-> 0]],
                 host.bytes)
    /\ after_stall' \in {after_stall, TRUE}
    /\ UNCHANGED <<live, chain>>

\* A wait that found the work unfinished leaves after_stall set.
MayHaveStalled == after_stall' \in {after_stall, after_stall \/ host.want # 0}

\* The wait is over: the bytes are the launch's.  (The bound leaves room below
\* the ceiling for the value its delivery will take.)
TakeLaunch ==
    /\ host.job = "launch"
    /\ sem_reached(host.want)
    /\ MayHaveStalled
    /\ reserved + 2 <= Ceiling
    /\ region' = [region EXCEPT !["desc"] = take(region["desc"], host.off, host.bytes)]
    /\ chain' = chain \union {SpanAt(host.off, host.bytes)}
    /\ reserved' = reserved + 1
    /\ host' = NoHost
    /\ UNCHANGED <<slot, live, wrapped, q_last, abandoned>>

\* The bytes were taken and then the launch failed (build_qmd refuses it, or
\* the timeline has run out): nothing gives them back.
AbandonLaunch ==
    /\ host.job = "launch"
    /\ sem_reached(host.want)
    /\ MayHaveStalled
    /\ region' = [region EXCEPT !["desc"] = take(region["desc"], host.off, host.bytes)]
    /\ abandoned' = TRUE
    /\ host' = NoHost
    /\ UNCHANGED <<slot, live, wrapped, chain, reserved, q_last>>

-----------------------------------------------------------------------------
\* cmd_space: an allocation in the command-buffer region, coming round when
\* it has to.
CmdSpace(rgs, h) ==
    /\ h.bytes \in Requests["cmd"]
    /\ IF wraps(rgs["cmd"], h.bytes, Align["cmd"])
       THEN /\ ~Held(push_shadow(rgs)["cmd"])
            /\ EnterAt([rgs EXCEPT !["cmd"] = rewind(rgs["cmd"])], "cmd", h)
       ELSE EnterAt(rgs, "cmd", h)

\* A batch that is not a chain: a copy, an upload, a barrier.  batch_begin
\* flushes first, so no chain is in hand.
BatchBegin(q, bytes) ==
    /\ host.job = "none"
    /\ chain = {}
    /\ reserved < Ceiling
    /\ CmdSpace(region, [NoHost EXCEPT !.job = "batch", !.queue = q, !.bytes = bytes])
    /\ UNCHANGED <<slot, live, hostVars>>

\* The descriptor span leaves the region's books for the chain's value.
Delivered ==
    LET desc == region["desc"] IN
    [region EXCEPT !["desc"] = [mark(desc, desc.dirty, reserved) EXCEPT !.dirty = NoSpan]]

\* the delivery pushed out as a compute batch inside the flush
FlushByCopyMutant(bytes) ==
    /\ host.job = "none"
    /\ chain # {}
    /\ CmdSpace(Delivered, [NoHost EXCEPT !.job = "deliver", !.bytes = bytes,
                              !.src = region["desc"].dirty, !.chain_upto = reserved])
    /\ UNCHANGED <<slot, live, hostVars>>

\* tinynv_exec_flush, delivering by copy engine: the copy's batch comes first.
FlushByCopy(bytes) ==
    /\ host.job = "none"
    /\ chain # {}
    /\ CmdSpace(Delivered, [NoHost EXCEPT !.job = "deliver", !.queue = "copy",
                              !.bytes = bytes, !.src = region["desc"].dirty,
                              !.chain_upto = reserved])
    /\ UNCHANGED <<slot, live, hostVars>>

\* ... or as patches inside the chain's own batch, past the first lap.
FlushByPatches(bytes) ==
    /\ host.job = "none"
    /\ chain # {}
    /\ wrapped
    /\ CmdSpace(Delivered, [NoHost EXCEPT !.job = "chain", !.bytes = bytes,
                              !.chain_upto = reserved])
    /\ UNCHANGED <<slot, live, hostVars>>

\* submit_batch: every span handed out and not yet submitted is recorded
\* against this batch, and the queue is asked for its value.
Taken == [region EXCEPT !["cmd"] = take(region["cmd"], host.off, host.bytes)]

SubmitBatch(value, desc) ==
    /\ live' = live \union
         {[queue |-> host.queue, upto |-> value, after |-> q_last[host.queue],
           cmd |-> SpanAt(host.off, host.bytes), desc |-> desc]}
    /\ q_last' = [q_last EXCEPT ![host.queue] = value]

\* batch_begin on the compute queue ends the standstill.
BeginsOn(q) ==
    /\ sem_reached(host.want)
    /\ IF q = "compute" THEN after_stall' = FALSE ELSE MayHaveStalled

BatchSubmit ==
    /\ host.job = "batch"
    /\ BeginsOn(host.queue)
    /\ SubmitBatch(reserved + 1, {})
    /\ region' = Submit(Taken, reserved + 1)
    /\ reserved' = reserved + 1
    /\ host' = NoHost
    /\ UNCHANGED <<slot, wrapped, chain, abandoned>>

\* The delivery takes the value after the chain's, and then the chain's own
\* batch asks for its command buffer.
DeliverSubmit(bytes) ==
    /\ host.job = "deliver"
    /\ BeginsOn("copy")
    /\ SubmitBatch(reserved + 1, {host.src})
    /\ reserved' = reserved + 1
    /\ CmdSpace(Submit(Taken, reserved + 1),
                [NoHost EXCEPT !.job = "chain", !.bytes = bytes,
                               !.chain_upto = host.chain_upto])
    /\ UNCHANGED <<slot, wrapped, chain, abandoned>>

\* The chain's batch carries the value its last descriptor releases.
ChainSubmit ==
    /\ host.job = "chain"
    /\ BeginsOn("compute")
    /\ SubmitBatch(host.chain_upto, chain)
    /\ region' = Submit(Taken, host.chain_upto)
    /\ chain' = {}
    /\ abandoned' = FALSE
    /\ host' = NoHost
    /\ UNCHANGED <<slot, wrapped, reserved>>

-----------------------------------------------------------------------------
\* tinynv_exec_idle, with no chain in hand: a wait for everything submitted,
\* which is noted as a standstill if the wait had to spin.
Idle ==
    /\ host.job = "none"
    /\ chain = {}
    /\ sem_reached(timeline)
    /\ after_stall' \in {after_stall, TRUE}
    /\ UNCHANGED <<region, slot, live, host, wrapped, chain, reserved, q_last, abandoned>>

\* A queue finishes its oldest batch and releases its value.
Retire(b) ==
    /\ \A c \in live : c.queue = b.queue => b.after <= c.after
    /\ live' = live \ {b}
    /\ slot' = [slot EXCEPT ![b.queue] = b.upto]
    /\ UNCHANGED <<region, host, hostVars>>

Launch ==
    \/ \E n \in Requests["desc"] : LaunchFits(n) \/ LaunchWraps(n) \/ LaunchRebases(n)
    \/ Rebase
    \/ TakeLaunch
    \/ AbandonLaunch

Flush ==
    \/ \E n \in Requests["cmd"] : FlushByCopy(n) \/ FlushByPatches(n) \/ DeliverSubmit(n)
    \/ ChainSubmit

Other ==
    \/ \E n \in Requests["cmd"], q \in Queues : BatchBegin(q, n)
    \/ BatchSubmit
    \/ Idle

Next == Launch \/ Flush \/ Other \/ \E b \in live : Retire(b)

Spec == Init /\ [][Next]_vars

\* The engines keep retiring, and a host past its wait goes on.
Fairness ==
    /\ WF_vars(\E b \in live : Retire(b))
    /\ WF_vars(Rebase \/ TakeLaunch \/ AbandonLaunch)
    /\ WF_vars(BatchSubmit \/ ChainSubmit \/ \E n \in Requests["cmd"] : DeliverSubmit(n))

LiveSpec == Spec /\ Fairness

-----------------------------------------------------------------------------
(* Properties *)

TypeOK ==
    /\ region \in [Regions -> Region]
    /\ \A r \in Regions : region[r].size = Size[r] /\ region[r].next <= Size[r]
    /\ wrapped \in BOOLEAN
    /\ chain \in SUBSET Span
    /\ reserved \in Nat
    /\ q_last \in [Queues -> Nat]
    /\ slot \in [Queues -> Nat]
    /\ live \in SUBSET Batch
    /\ after_stall \in BOOLEAN
    /\ host \in HostState
    /\ abandoned \in BOOLEAN

\* The bytes of a region that a batch on its queue may still read or write
SpansOf(b, r) == IF r = "cmd" THEN {b.cmd} ELSE b.desc

\* Scratch an engine reads from is not handed out again before the engine has
\* finished with it, nor while it holds a launch not yet submitted (arena(),
\* exec.c:17-19): whatever a step adds is disjoint from all that is in use.
HandsOutFreeBytes ==
    [][/\ \A new \in chain' \ chain :
             /\ \A old \in chain : Disjoint(new, old)
             /\ \A b \in live : \A s \in b.desc : Disjoint(new, s)
       /\ \A n \in live' \ live : \A b \in live : Disjoint(n.cmd, b.cmd)]_vars

\* No two batches in flight share scratch, except a delivery and the chain it
\* delivers: no delivery overwrites descriptors that another chain may still
\* be reading (tinynv_exec_flush, "what stops it overwriting").
Delivers(b, c) == b.queue = "copy" /\ b.upto = c.upto + 1

LiveSpansDisjoint ==
    \A b, c \in live : b # c =>
        /\ Disjoint(b.cmd, c.cmd)
        /\ \A s \in b.desc, t \in c.desc : Disjoint(s, t) \/ Delivers(b, c) \/ Delivers(c, b)

\* "Reached" is never said of work the engines have not retired, whichever
\* queue it is on and in whatever order the values went out
\* (tinynv_event_query: "a wrong 1 hands out memory a kernel still writes").
ReachedMeansDone == \A b \in live : ~ sem_reached(b.after + 1)

\* Every byte in flight is on record: each piece it touches carries a value
\* that a wait only passes once the batch is done, or is being waited for right
\* now.  This is what lets coming round wait for one batch and not for all.
RecordsCoverLive ==
    \A r \in Regions : \A b \in live : \A s \in SpansOf(b, r) :
        \A i \in Touched(region[r], s.lo, s.hi) :
            region[r].seg_value[i] > b.after \/ b.after < host.want

\* No record and no wait is ahead of the counter: restarting the timeline
\* leaves nothing behind from before (arena(), the restart of the timeline).
RecordsBehindTimeline ==
    /\ \A r \in Regions : \A i \in Pieces : region[r].seg_value[i] <= reserved
    /\ host.want <= reserved
    /\ \A q \in Queues : slot[q] <= q_last[q] /\ q_last[q] <= reserved

\* A rewind is only ever refused after a launch failed with its bytes taken:
\* submitting and pushing leave no span behind (tinynv_arena_rewind).
RefusedOnlyAfterAbandon ==
    (host.job \in {"none", "rebase"} /\ chain = {} /\ Held(region["desc"])) => abandoned

\* A slot is written by one channel, which retires in order, so it never goes
\* backwards (sem_read_slot) but for the restart, which leaves nothing waiting.
SlotsNeverGoBack ==
    [][\A q \in Queues : slot'[q] >= slot[q] \/ (reserved' = 0 /\ live' = {})]_vars

\* A host waiting for scratch gets it (or a refusal): every wait ends.
EveryWaitEnds == host.job # "none" ~> host.job = "none"
=============================================================================
