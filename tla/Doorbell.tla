----------------------------- MODULE Doorbell -----------------------------
(***************************************************************************)
(* How a batch reaches an engine (libtinynv/src/submit.c, from             *)
(* tinynv_submit_stage down, and its callers in exec.c).  The ring entry   *)
(* and the write pointer are posted through the window onto video memory;  *)
(* the doorbell is a register behind another bar.  Order holds along a     *)
(* path and not between the two, so the host reads a pointer back before   *)
(* it rings.  An engine looks at its pointer when its doorbell rings and   *)
(* goes back to sleep when there is nothing in the ring.                   *)
(*                                                                         *)
(* A batch is named by its place in the order of submission; the values a  *)
(* batch releases are the business of Scratch.tla.  A batch waits on the   *)
(* other queue when the queue changes (batch_begin), so it carries the     *)
(* number of the batch it has to follow there.                             *)
(***************************************************************************)
EXTENDS Integers, FiniteSets, SequencesExt

CONSTANTS
    Entries,      \* entries in a ring (0x10000)
    StagedMax,    \* room in g->staged (64)
    TokenMax,     \* chains in a resident token (TINYNV_GRAPH_CHAINS, 128)
    CmdRoom,      \* batches whose command buffers the command region holds at once
    RingModes,    \* TINYNV_RING_ASYNC, off or on: which of the two are looked at
    BatchMax      \* bound: batches submitted in a run

Queues == {"compute", "copy"}

ASSUME DoorbellAssumption ==
    /\ {Entries, StagedMax, TokenMax, CmdRoom, BatchMax} \subseteq Nat \ {0}
    /\ CmdRoom < Entries     \* 512 KB of command buffers against 65536 entries
    /\ RingModes \subseteq BOOLEAN

VARIABLES
    log,       \* ghost: the queue of every batch staged so far, in order
    last_q,    \* ex->last_q: the queue of the last batch begun
    put,       \* q->put
    staged,    \* g->staged[0 .. nstaged - 1]
    ring_q,    \* g->ring_q: what the announcement in flight is for; <<>> is none pending
    host,      \* where the host stands in tinynv_submit_ring
    window,    \* posted on the video memory window and not there yet, oldest first
    bells,     \* doorbells on their way, oldest first
    replied,   \* the fence read has been answered
    ring,      \* video memory: the ring entries
    gp_put,    \* video memory: the write pointers
    engine     \* the engines

allButHost == <<log, last_q, put, staged, ring_q, window, bells, replied, ring, gp_put, engine>>
hostVars == <<log, last_q, put, staged, ring_q, host>>
vars == <<hostVars, window, bells, replied, ring, gp_put, engine>>

\* A ring entry: the batch, and the one it acquires on the other queue (0: none)
Entry == [batch : Nat, after : Nat]
NoEntry == [batch |-> 0, after |-> 0]

\* step: "send" and "complete" are the halves of tinynv_submit_ring, "pay" the
\* completion of an announcement owed, "wait" the loop of tinynv_exec_wait.
\* then: where it goes afterwards.  whole: whether the second half follows the
\* first at once.  token: chains still to be handed over of a replay.  async:
\* ex->ring_async, as the environment had it at the start.
HostState == [step : {"run", "send", "pay", "complete", "wait"},
              then : {"run", "wait"}, whole : BOOLEAN, token : 0 .. TokenMax,
              async : BOOLEAN]

Engine == [awake : BOOLEAN, get : 0 .. Entries - 1, hand : Entry, done : SUBSET Nat]

Posted == [kind : {"entry", "put", "read"}, queue : Queues,
           at : 0 .. Entries - 1, entry : Entry]

Done == UNION {engine[q].done : q \in Queues}

Init ==
    /\ log = <<>>
    /\ last_q = "none"
    /\ put = [q \in Queues |-> 0]
    /\ staged = <<>>
    /\ ring_q = <<>>
    /\ \E mode \in RingModes :
           host = [step |-> "run", then |-> "run", whole |-> TRUE, token |-> 0, async |-> mode]
    /\ window = <<>>
    /\ bells = <<>>
    /\ replied = FALSE
    /\ ring = [q \in Queues |-> [i \in 0 .. Entries - 1 |-> NoEntry]]
    /\ gp_put = [q \in Queues |-> 0]
    /\ engine = [q \in Queues |-> [awake |-> FALSE, get |-> 0, hand |-> NoEntry, done |-> {}]]

-----------------------------------------------------------------------------
Other(q) == CHOOSE p \in Queues : p # q

\* What batch_begin acquires: the last batch of the queue it is leaving
Newest(q) == LET on == {i \in 1 .. Len(log) : log[i] = q}
             IN IF on = {} THEN 0 ELSE CHOOSE i \in on : \A j \in on : j <= i
Acquire(q) == IF last_q \in {"none", q} THEN 0 ELSE Newest(Other(q))

\* The two writes of tinynv_submit_stage
EntryWrite(q) == [kind |-> "entry", queue |-> q, at |-> put[q] % Entries,
                  entry |-> [batch |-> Len(log) + 1, after |-> Acquire(q)]]
PutWrite(q) == [kind |-> "put", queue |-> q, at |-> (put[q] + 1) % Entries, entry |-> NoEntry]

stageWrites(q) == window \o <<EntryWrite(q), PutWrite(q)>>

\* batch_begin and tinynv_submit_stage, for a batch that finds room in the
\* command region and among the staged.
Stage(q, next) ==
    /\ host.step = "run"
    /\ Len(log) < BatchMax
    /\ Len(log) - Cardinality(Done) < CmdRoom
    /\ Len(staged) < StagedMax
    /\ log' = Append(log, q)
    /\ last_q' = q
    /\ window' = stageWrites(q)
    /\ put' = [put EXCEPT ![q] = @ + 1]
    /\ staged' = Append(staged, q)
    /\ host' = next
    /\ UNCHANGED <<ring_q, bells, replied, ring, gp_put, engine>>

\* The announcement a batch makes, and the one a wait or a query makes
Announcing == [host EXCEPT !.step = "send", !.then = "run", !.whole = ~host.async]
AnnouncingFor(then) == [host EXCEPT !.step = "send", !.then = then, !.whole = TRUE]

\* An ordinary batch: a chain, a copy, an upload.
Submit(q) == host.token = 0 /\ Stage(q, Announcing)

\* The delivery inside tinynv_exec_flush: its chain's batch announces it, if
\* the flush gets that far.
Deliver == host.token = 0 /\ Stage("copy", host)

\* tinynv_exec_graph_launch: every chain but the last is staged only.
ReplayBegin(n) ==
    /\ host.step = "run" /\ host.token = 0
    /\ host' = [host EXCEPT !.token = n]
    /\ UNCHANGED allButHost

ReplayChain ==
    \/ host.token > 1 /\ Stage("compute", [host EXCEPT !.token = @ - 1])
    \/ host.token = 1 /\ Stage("compute", [Announcing EXCEPT !.token = 0])

\* tinynv_submit_ring_send: nothing staged, an announcement owed, or the fence
\* read sent for everything staged.
SendNothing ==
    /\ host.step = "send"
    /\ staged = <<>>
    /\ host' = [host EXCEPT !.step = IF host.whole THEN "complete" ELSE host.then]
    /\ UNCHANGED allButHost

SendOwing ==
    /\ host.step = "send"
    /\ staged # <<>> /\ ring_q # <<>>
    /\ host' = [host EXCEPT !.step = "pay"]
    /\ UNCHANGED allButHost

\* The read names one pointer and fences every write before it.
Fence == [kind |-> "read", queue |-> Last(staged), at |-> 0, entry |-> NoEntry]

SendFenceMutant ==          \* Mutated form: the announcement owed is overwritten
    /\ host.step = "send"
    /\ staged # <<>>
    /\ window' = Append(window, Fence)
    /\ replied' = FALSE
    /\ ring_q' = staged
    /\ staged' = <<>>
    /\ host' = [host EXCEPT !.step = IF host.whole THEN "complete" ELSE host.then]
    /\ UNCHANGED <<log, last_q, put, bells, ring, gp_put, engine>>

SendFence ==
    /\ host.step = "send"
    /\ staged # <<>> /\ ring_q = <<>>
    /\ window' = Append(window, Fence)
    /\ replied' = FALSE
    /\ ring_q' = staged
    /\ staged' = <<>>
    /\ host' = [host EXCEPT !.step = IF host.whole THEN "complete" ELSE host.then]
    /\ UNCHANGED <<log, last_q, put, bells, ring, gp_put, engine>>

\* tinynv_submit_ring_complete: once the fence is answered, one doorbell for
\* each queue with a batch staged.
answered == replied

FirstsMutant == <<Last(ring_q)>>     \* Mutated form: only the queue the fence names
Firsts ==
    LET first == Head(ring_q)
        rest == {Other(first)} \cap ToSet(ring_q)
    IN  IF rest = {} THEN <<first>> ELSE <<first, Other(first)>>

Ring(next) ==
    /\ ring_q # <<>> /\ answered
    /\ bells' = bells \o Firsts
    /\ ring_q' = <<>>
    /\ host' = [host EXCEPT !.step = next]
    /\ UNCHANGED <<log, last_q, put, staged, window, replied, ring, gp_put, engine>>

Pay == host.step = "pay" /\ Ring("send")
Complete == host.step = "complete" /\ Ring(host.then)
CompleteNothing ==
    /\ host.step = "complete" /\ ring_q = <<>>
    /\ host' = [host EXCEPT !.step = host.then]
    /\ UNCHANGED allButHost

\* TINYNV_RING_ASYNC: the sixteenth launch of a chain completes what is pending.
CompleteLate ==
    /\ host.step = "run" /\ host.token = 0
    /\ host.async /\ ring_q # <<>>
    /\ host' = [host EXCEPT !.step = "complete", !.then = "run"]
    /\ UNCHANGED allButHost

\* tinynv_exec_wait and tinynv_exec_reached announce first.
WaitMutant ==               \* Mutated form: a wait that announces nothing
    /\ host.step = "run"
    /\ host' = [host EXCEPT !.step = "wait"]
    /\ UNCHANGED allButHost

Wait ==
    /\ host.step = "run"
    /\ host' = AnnouncingFor("wait")
    /\ UNCHANGED allButHost

Query ==
    /\ host.step = "run" /\ host.token = 0
    /\ host' = AnnouncingFor("run")
    /\ UNCHANGED allButHost

WaitDone ==
    /\ host.step = "wait"
    /\ Done = 1 .. Len(log)
    /\ host' = [host EXCEPT !.step = "run"]
    /\ UNCHANGED allButHost

-----------------------------------------------------------------------------
\* The oldest write on the window reaches video memory; a read is answered
\* only when it gets there, behind every write posted before it.
Arrive ==
    /\ window # <<>>
    /\ window' = Tail(window)
    /\ LET m == Head(window) IN
       /\ ring' = IF m.kind = "entry" THEN [ring EXCEPT ![m.queue][m.at] = m.entry] ELSE ring
       /\ gp_put' = IF m.kind = "put" THEN [gp_put EXCEPT ![m.queue] = m.at] ELSE gp_put
       /\ replied' = (replied \/ m.kind = "read")
    /\ UNCHANGED <<hostVars, bells, engine>>

\* The engines, from how the driver drives them: woken by a doorbell, ...
Wake ==
    /\ bells # <<>>
    /\ bells' = Tail(bells)
    /\ engine' = [engine EXCEPT ![Head(bells)].awake = TRUE]
    /\ UNCHANGED <<hostVars, window, replied, ring, gp_put>>

\* ... taking what the pointer says is there, ...
Take(q) ==
    /\ engine[q].awake /\ engine[q].hand = NoEntry
    /\ engine[q].get # gp_put[q]
    /\ engine' = [engine EXCEPT ![q].hand = ring[q][engine[q].get],
                                ![q].get = (@ + 1) % Entries]
    /\ UNCHANGED <<hostVars, window, bells, replied, ring, gp_put>>

\* ... finishing it once what it acquires has been released, ...
Finish(q) ==
    /\ engine[q].hand # NoEntry
    /\ \E n \in {0} \union engine[Other(q)].done : engine[q].hand.after <= n
    /\ engine' = [engine EXCEPT ![q].hand = NoEntry,
                                ![q].done = @ \union {engine[q].hand.batch}]
    /\ UNCHANGED <<hostVars, window, bells, replied, ring, gp_put>>

\* ... and asleep again when the ring is empty.
Sleep(q) ==
    /\ engine[q].awake /\ engine[q].hand = NoEntry
    /\ engine[q].get = gp_put[q]
    /\ engine' = [engine EXCEPT ![q].awake = FALSE]
    /\ UNCHANGED <<hostVars, window, bells, replied, ring, gp_put>>

HostCalls ==
    \/ \E q \in Queues : Submit(q)
    \/ Deliver
    \/ (\E n \in 1 .. TokenMax : ReplayBegin(n)) \/ ReplayChain
    \/ CompleteLate \/ Wait \/ Query

HostGoesOn ==
    SendNothing \/ SendOwing \/ SendFence \/ Pay \/ Complete \/ CompleteNothing \/ WaitDone

EngineStep(q) == Take(q) \/ Finish(q) \/ Sleep(q)

Next == HostCalls \/ HostGoesOn \/ Arrive \/ Wake \/ \E q \in Queues : EngineStep(q)

Spec == Init /\ [][Next]_vars

\* The host never stops inside a call, writes and doorbells arrive, and the
\* engines run; nothing obliges the host to make a call.
Fairness ==
    /\ WF_vars(HostGoesOn) /\ WF_vars(Arrive) /\ WF_vars(Wake)
    /\ \A q \in Queues : WF_vars(EngineStep(q))

LiveSpec == Spec /\ Fairness

-----------------------------------------------------------------------------
(* Properties *)

\* What each variable holds between two steps of the code
TypeOK ==
    /\ log \in Seq(Queues) /\ Len(log) <= BatchMax
    /\ last_q \in Queues \union {"none"}
    /\ put \in [Queues -> 0 .. BatchMax]
    /\ staged \in Seq(Queues) /\ Len(staged) <= StagedMax
    /\ ring_q \in Seq(Queues) /\ Len(ring_q) <= StagedMax
    /\ host \in HostState
    /\ window \in Seq(Posted)
    /\ bells \in Seq(Queues)
    /\ replied \in BOOLEAN
    /\ ring \in [Queues -> [0 .. Entries - 1 -> Entry]]
    /\ gp_put \in [Queues -> 0 .. Entries - 1]
    /\ engine \in [Queues -> Engine]

\* The batches the engines have been told about: neither staged nor fenced
Announced == Len(log) - Len(staged) - Len(ring_q)

\* No doorbell is lost (tinynv_submit_ring_send, "looks at a write pointer that
\* has not moved yet, finds nothing to do and goes back to sleep"): while an
\* announced batch is not done, its engine is awake or about to be woken.
NoLostDoorbell ==
    \A n \in 1 .. Announced :
        n \in Done \/ engine[log[n]].awake \/ log[n] \in ToSet(bells)

\* A host in a wait gets out of it: what is staged is announced before anything
\* waits, and no batch waits on one the engines were not told about.
EveryCallReturns == host.step # "run" ~> host.step = "run"

\* The rings, the doorbells and the acquires together do the work in the order
\* it was submitted, and all that was announced (WorkQueue.tla).
Work == INSTANCE WorkQueue WITH announced <- Announced, done <- Done
DoesTheWorkInOrder == Work!Spec
=============================================================================
