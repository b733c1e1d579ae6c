------------------------------- MODULE Graph -------------------------------
(***************************************************************************)
(* Captured work and resident tokens (libtinycudart/graph.c over           *)
(* libtinynv/src/exec.c, TINYNV_GRAPH_RESIDENT).  A stream's launches and  *)
(* copies are captured; an executable graph is a copy of the capture; its  *)
(* first launch records the kernels into a region of their own, and every  *)
(* later launch hands the region's chains over again, their last           *)
(* descriptors patched with the timeline values of this replay.            *)
(*                                                                         *)
(* One thread calls.  Every batch begins with a flush, so a launch that is *)
(* built is as good as queued; and the acquires put the batches of both    *)
(* engines in one order (Doorbell.tla), so one queue stands for the two.   *)
(***************************************************************************)
EXTENDS Integers, SequencesExt

CONSTANTS
    Kernels, Copies,    \* what may be asked for; the contents do not matter
    Streams,
    Execs,              \* executable graphs
    Regions,            \* pairs of video and host memory a recording can get
    PoolMax,            \* pairs kept for the next recording (4)
    ChainMax,           \* chain_max: launches in a chain
    ChainsMax,          \* TINYNV_GRAPH_CHAINS
    RegionRoom,         \* launches TINYNV_GRAPH_BYTES has room for
    None,
    Programs,           \* bound: what a capture may hold
    Loose,              \* bound: what is asked for outside a graph
    MaxBatches          \* bound: batches in a run

ASSUME GraphAssumption ==
    /\ Kernels \cap Copies = {} /\ {PoolMax, MaxBatches} \subseteq Nat
    /\ \A p \in Programs : p \in Seq(Kernels \cup Copies)
    /\ {ChainMax, ChainsMax, RegionRoom} \subseteq Nat \ {0}
    /\ None \notin Regions /\ None \notin [region : Regions, failed : BOOLEAN]

VARIABLES
    cap,        \* the capture under way
    graph,      \* the graph the last capture made
    execs,      \* the executable graphs
    call,       \* where cudaGraphLaunch stands
    rec,        \* ex->rec: the recording under way
    region,     \* the pairs: what the host wrote, what video memory holds
    timeline,   \* the last value given to a batch
    queue,      \* batches handed over and not begun
    running,    \* batches begun and not finished
    sem,        \* the value the engines have released
    owed,       \* ghost: the work asked for and not done, in order
    wrong       \* ghost: work was done that was not next in that order

captureVars == <<cap, graph>>
engineVars == <<queue, running, sem>>
ghostVars == <<owed, wrong>>
vars == <<captureVars, execs, call, rec, region, timeline, engineVars, ghostVars>>

NoCapture == [active |-> FALSE, invalid |-> FALSE, on |-> None, nodes |-> <<>>]
NoExec == [live |-> FALSE, nodes |-> <<>>, drv |-> None, refused |-> FALSE]
NoCall == [pc |-> "none", exec |-> None, i |-> 0, recording |-> FALSE]
\* keeper: who holds the pair; mirror: descriptors as the host wrote them;
\* mem: what the engine reads; tails: the values its chains' tails release
Free == [keeper |-> "none", mirror |-> <<>>, mem |-> <<>>, tails |-> <<>>]

Init ==
    /\ cap = NoCapture /\ graph = None
    /\ execs = [e \in Execs |-> NoExec] /\ call = NoCall
    /\ rec = None /\ region = [r \in Regions |-> Free]
    /\ timeline = 0 /\ queue = <<>> /\ running = {} /\ sem = 0
    /\ owed = <<>> /\ wrong = FALSE

(***************************************************************************)
(* Batches.                                                                *)
(***************************************************************************)

\* kind: "work" does one node, "seal" copies a region across, "chain" runs one
\* chain of a region, after patching the tails if it is a replay's first
Batch(kind, node, r, k, patch) ==
    [kind |-> kind, node |-> node, region |-> r, chain |-> k, patch |-> patch]

\* Mutated form: a replay's first batch patches the tails before it acquires
AcquiresMutant(b, last) == IF b.patch # <<>> THEN 0 ELSE last

\* batch_begin: a batch waits for the work before it, on either engine
Acquires(b, last) == last

\* submit_batch, for several batches one after another
Submit(bs) ==
    /\ timeline + Len(bs) <= MaxBatches
    /\ queue' = queue \o [i \in 1 .. Len(bs) |->
                             [batch |-> bs[i], at |-> timeline + i, after |-> Acquires(bs[i], timeline + i - 1)]]
    /\ timeline' = timeline + Len(bs)
    /\ UNCHANGED <<running, sem>>

NothingSubmitted == UNCHANGED <<timeline, engineVars>>
Work(n) == <<Batch("work", n, None, 0, <<>>)>>

\* rec_launch: the chains a token of n launches makes, and the launches of one
Chains(n) == (n + ChainMax - 1) \div ChainMax
ChainOf(s, k) == SubSeq(s, (k - 1) * ChainMax + 1, IF k * ChainMax < Len(s) THEN k * ChainMax ELSE Len(s))

\* tinynv_exec_graph_launch: every chain a batch of its own, the first of them
\* carrying every tail's value
Replay(r, n, at0) ==
    [k \in 1 .. Chains(n) |->
        Batch("chain", None, r, k, IF k = 1 THEN [j \in 1 .. Chains(n) |-> at0 + j] ELSE <<>>)]

(***************************************************************************)
(* The engines, as the driver uses them.                                   *)
(***************************************************************************)

\* the channel reaches a batch, and acquires; what it launches runs on
EngineBegins ==
    /\ queue # <<>> /\ sem >= Head(queue).after
    /\ LET b == Head(queue).batch
       IN  region' = IF b.patch # <<>> THEN [region EXCEPT ![b.region].tails = b.patch] ELSE region
    /\ running' = running \cup {Head(queue)} /\ queue' = Tail(queue)
    /\ UNCHANGED <<captureVars, execs, call, rec, timeline, sem, ghostVars>>

Does(x) ==
    /\ owed' = IF IsPrefix(x, owed) THEN SubSeq(owed, Len(x) + 1, Len(owed)) ELSE owed
    /\ wrong' = (wrong \/ ~IsPrefix(x, owed))

\* a chain does what its descriptors say by now, and its tail releases
EngineFinishes ==
    \E q \in running :
        LET b == q.batch
        IN  /\ Does(CASE b.kind = "work" -> <<b.node>>
                      [] b.kind = "chain" -> ChainOf(region[b.region].mem, b.chain)
                      [] b.kind = "seal" -> <<>>)
            /\ region' = IF b.kind = "seal" THEN [region EXCEPT ![b.region].mem = region[b.region].mirror] ELSE region
            /\ sem' = IF b.kind = "chain" /\ b.chain \in DOMAIN region[b.region].tails
                      THEN region[b.region].tails[b.chain] ELSE q.at
            /\ running' = running \ {q}
            /\ UNCHANGED <<captureVars, execs, call, rec, timeline, queue>>

(***************************************************************************)
(* Capture.                                                                *)
(***************************************************************************)

Idle == call.pc = "none"
OnlyCapture == UNCHANGED <<execs, call, rec, region, timeline, engineVars, ghostVars>>

\* tinycudart_capturing_nv
capturing(s) == cap.active /\ s = cap.on

BeginCapture ==
    /\ Idle /\ ~cap.active /\ graph = None      \* bound: one graph at a time
    /\ \E s \in Streams : cap' = [NoCapture EXCEPT !.active = TRUE, !.on = s]
    /\ UNCHANGED graph /\ OnlyCapture

\* tinycudart_capture_launch, _memcpy, _memcpy2d, _memset; a node the host has no
\* memory for spoils the capture
CaptureNode ==
    /\ Idle /\ cap.active /\ ~cap.invalid
    /\ \/ \E p \in Programs :
              /\ IsStrictPrefix(cap.nodes, p)
              /\ cap' = [cap EXCEPT !.nodes = SubSeq(p, 1, Len(@) + 1)]
       \/ cap' = [cap EXCEPT !.invalid = TRUE, !.nodes = <<>>]
    /\ UNCHANGED graph /\ OnlyCapture

\* tinycudart_capture_refuse: a synchronise cannot be honoured
CaptureRefuse ==
    /\ Idle /\ cap.active /\ cap' = [cap EXCEPT !.invalid = TRUE]
    /\ UNCHANGED graph /\ OnlyCapture

EndCapture ==
    /\ Idle /\ cap.active /\ cap' = NoCapture
    /\ cap.invalid \/ cap.nodes \in Programs
    /\ graph' = IF cap.invalid THEN None ELSE cap.nodes
    /\ OnlyCapture

GraphDestroy == Idle /\ graph # None /\ graph' = None /\ UNCHANGED cap /\ OnlyCapture

\* what is asked for on a stream that is not being captured is done, now: a
\* copy is submitted, a launch too unless the driver is recording
Asked(w) == owed' = owed \o w /\ UNCHANGED wrong

RecFits(n) == n + 1 <= RegionRoom /\ Chains(n + 1) <= ChainsMax

\* tinynv_launch: rec_launch while a token is recorded, and no batch
RecLaunch(k) ==
    /\ NothingSubmitted
    /\ IF RecFits(Len(region[rec.region].mirror))
       THEN /\ region' = [region EXCEPT ![rec.region].mirror = Append(@, k)] /\ UNCHANGED rec
       ELSE rec' = [rec EXCEPT !.failed = TRUE] /\ UNCHANGED region

DoNode(n) ==
    IF n \in Kernels /\ rec # None THEN RecLaunch(n)
    ELSE Submit(Work(n)) /\ UNCHANGED <<rec, region>>

DirectWork ==
    /\ Idle /\ \E s \in Streams : ~capturing(s)
    /\ \E n \in Loose : DoNode(n) /\ Asked(<<n>>)
    /\ UNCHANGED <<captureVars, execs, call>>

(***************************************************************************)
(* Executable graphs.                                                      *)
(***************************************************************************)

Instantiate(e) ==
    /\ Idle /\ graph # None /\ ~execs[e].live
    /\ execs' = [execs EXCEPT ![e] = [NoExec EXCEPT !.live = TRUE, !.nodes = graph]]
    /\ UNCHANGED <<captureVars, call, rec, region, timeline, engineVars, ghostVars>>

Pooled == {r \in Regions : region[r].keeper = "pool"}

\* tinynv_exec_graph_free's end: the pair is kept for the next recording
GivenBack(r) ==
    [region EXCEPT ![r].keeper = IF Cardinality(Pooled) < PoolMax THEN "pool" ELSE "none"]

FreeIdlesMutant == TRUE     \* Mutated form: a token is freed under the engine

\* ... and its beginning: tinynv_exec_idle, when the token was ever replayed
FreeIdles == sem >= timeline

\* drop_resident
DropResident(e) ==
    LET r == execs[e].drv
    IN  IF r = None THEN UNCHANGED region ELSE FreeIdles /\ region' = GivenBack(r)

Updated(e, nodes) == [execs[e] EXCEPT !.nodes = nodes, !.drv = None, !.refused = FALSE]

\* cudaGraphExecUpdate; the token goes first, and the nodes stay when the host
\* has no memory for the new ones
ExecUpdate(e) ==
    /\ Idle /\ graph # None /\ execs[e].live /\ DropResident(e)
    /\ \E nodes \in {graph, execs[e].nodes} : execs' = [execs EXCEPT ![e] = Updated(e, nodes)]
    /\ UNCHANGED <<captureVars, call, rec, timeline, engineVars, ghostVars>>

ExecDestroy(e) ==
    /\ Idle /\ execs[e].live /\ DropResident(e)
    /\ execs' = [execs EXCEPT ![e] = NoExec]
    /\ UNCHANGED <<captureVars, call, rec, timeline, engineVars, ghostVars>>

(***************************************************************************)
(* cudaGraphLaunch.                                                        *)
(***************************************************************************)

\* the nodes of one kind, in their order
OfKind(nodes, K) ==
    LET these == {i \in DOMAIN nodes : nodes[i] \in K}
        nth(k) == CHOOSE i \in these : Cardinality({j \in these : j <= i}) = k
    IN  [k \in 1 .. Cardinality(these) |-> nodes[nth(k)]]

LaunchNodes(nodes) == OfKind(nodes, Kernels)
CopyNodes(nodes) == OfKind(nodes, Copies)
Enter(pc, e, recording) == call' = [pc |-> pc, exec |-> e, i |-> 1, recording |-> recording]

\* copies run ahead of a recording's chains, so they must come before its launches
Ordered(nodes) == \A i, j \in DOMAIN nodes : nodes[i] \in Kernels /\ nodes[j] \in Copies => j < i

\* tinynv_exec_graph_begin: memory of the pool, or new
RecordInto(r) ==
    /\ IF Pooled # {} THEN r \in Pooled ELSE region[r].keeper = "none"
    /\ region' = [region EXCEPT ![r] = [Free EXCEPT !.keeper = "token", !.mem = region[r].mem, !.tails = region[r].tails]]
    /\ rec' = [region |-> r, failed |-> FALSE]

\* ... which may decline, for one because a recording is open already: this
\* graph is not tried again
GraphBegin(e) ==
    \/ /\ ~execs[e].refused /\ Ordered(execs[e].nodes) /\ rec = None
       /\ \E r \in Regions : RecordInto(r)
       /\ Enter("nodes", e, TRUE) /\ UNCHANGED execs
    \/ /\ Enter("nodes", e, FALSE) /\ UNCHANGED <<rec, region>>
       /\ execs' = [execs EXCEPT ![e].refused = TRUE]

\* with a token: the copies again, and its chains (refused outright while
\* another token is being recorded)
LaunchResident(e) ==
    LET r == execs[e].drv
        n == Len(region[r].mirror)
        copies == CopyNodes(execs[e].nodes)
    IN  /\ rec = None
        /\ Submit([i \in DOMAIN copies |-> Work(copies[i])[1]] \o Replay(r, n, timeline + Len(copies)))
        /\ UNCHANGED <<execs, call, rec, region>>

GraphLaunch(e) ==
    /\ Idle /\ execs[e].live /\ \E s \in Streams : ~capturing(s)
    /\ Len(execs[e].nodes) + timeline <= MaxBatches /\ Asked(execs[e].nodes)
    /\ IF execs[e].drv # None THEN LaunchResident(e) ELSE GraphBegin(e) /\ NothingSubmitted
    /\ UNCHANGED captureVars

NodesOf(c) == IF c.pc = "again" THEN LaunchNodes(execs[c.exec].nodes) ELSE execs[c.exec].nodes

\* the next node; a launch that is refused ends the call
LaunchNode ==
    /\ call.pc \in {"nodes", "again"} /\ call.i <= Len(NodesOf(call))
    /\ LET n == NodesOf(call)[call.i]
       IN  /\ DoNode(n)
           /\ call' = IF rec' # None /\ rec'.failed /\ n \in Kernels THEN NoCall ELSE [call EXCEPT !.i = @ + 1]
    /\ UNCHANGED <<captureVars, execs, ghostVars>>

\* the recorded launches did not run: run them now
AfterRefusal == [call EXCEPT !.pc = "again", !.i = 1]

EndsRefused ==
    /\ region' = GivenBack(rec.region)
    /\ execs' = [execs EXCEPT ![call.exec].refused = TRUE]
    /\ call' = AfterRefusal

\* tinynv_exec_graph_end: the descriptors cross, and the token runs once; or one
\* of the two is refused before a chain was handed over
GraphEnd ==
    /\ call.pc = "nodes" /\ call.i > Len(NodesOf(call)) /\ call.recording
    /\ LET r == rec.region
           n == Len(region[r].mirror)
           seal == <<Batch("seal", None, r, 0, <<>>)>>
       IN  \/ /\ ~rec.failed /\ n > 0
              /\ Submit(seal \o Replay(r, n, timeline + 1))
              /\ execs' = [execs EXCEPT ![call.exec].drv = r] /\ call' = NoCall
              /\ UNCHANGED region
           \/ NothingSubmitted /\ EndsRefused
           \/ ~rec.failed /\ n > 0 /\ Submit(seal) /\ EndsRefused
    /\ rec' = None /\ UNCHANGED <<captureVars, ghostVars>>

LaunchReturns ==
    /\ call.pc \in {"nodes", "again"} /\ call.i > Len(NodesOf(call))
    /\ call.pc = "nodes" => ~call.recording
    /\ call' = NoCall
    /\ UNCHANGED <<captureVars, execs, rec, region, timeline, engineVars, ghostVars>>

Next ==
    \/ BeginCapture \/ CaptureNode \/ CaptureRefuse \/ EndCapture \/ GraphDestroy
    \/ DirectWork
    \/ \E e \in Execs : Instantiate(e) \/ ExecUpdate(e) \/ ExecDestroy(e) \/ GraphLaunch(e)
    \/ LaunchNode \/ GraphEnd \/ LaunchReturns
    \/ EngineBegins \/ EngineFinishes

Spec == Init /\ [][Next]_vars

(***************************************************************************)
(* Properties.                                                             *)
(***************************************************************************)

\* A value the engines have released means the work up to it is done, the
\* chains of an earlier replay of the same token included: the tails of a token
\* are patched only when nothing is left to release through them
ReleasedMeansDone ==
    /\ \A q \in running : q.at > sem
    /\ \A i \in DOMAIN queue : queue[i].at > sem

\* What is asked for is done, once, in the order it was asked for, however a
\* graph's launch was served - launch by launch, recorded, sealed and run,
\* replayed, or recorded and declined (graph.c: "a recording where they do not
\* is replayed launch by launch, as is one the driver declines") - and whatever
\* became of the region it was recorded in
DoesWhatWasAsked ==
    /\ ~wrong
    /\ (Idle /\ sem >= timeline) => owed = <<>>

=============================================================================
