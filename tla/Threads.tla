------------------------------ MODULE Threads ------------------------------
(***************************************************************************)
(* libtinynv/src/tinynv.c: several threads in the driver's entry points.   *)
(* g_lock is held over each call of exec.c, but three entry points are     *)
(* several such calls with steps between them that hold nothing: a         *)
(* download served by a kernel, an event's recording, and the keep-alive   *)
(* that follows a synchronisation.  Any number of threads may be in those, *)
(* and what two of them can do to each other there is remembered.  Each    *)
(* thread works on a buffer of its own.  The engines are one queue, which  *)
(* is what their acquires make of them (Doorbell.tla), with a timeline     *)
(* slot each.                                                              *)
(***************************************************************************)
EXTENDS Integers, Sequences

CONSTANTS
    Threads,
    Deployments,        \* the callers there are and the options they run with
    MinLaunches,        \* TINYNV_KEEPALIVE_MIN_LAUNCHES
    Nobody,
    MaxWork             \* bound: launches and copies

ASSUME ThreadsAssumption ==
    /\ Deployments \subseteq [callers : SUBSET Threads, download_kernel : BOOLEAN,
                              keepalive : BOOLEAN]
    /\ MinLaunches \in Nat /\ MaxWork \in Nat /\ Nobody \notin Threads

VARIABLES
    deployed,   \* the deployment this is
    lock,       \* who holds g_lock across a wait
    ex,         \* tinynv_exec_t: what is built and submitted, and who waits on what
    mem,        \* each thread's buffer, as the engines have it
    stage,      \* the staging buffer
    doing,      \* where each thread is
    event,      \* an event of each thread's
    expected,   \* ghost: each thread's buffer, as its own calls left it
    misread,    \* ghost: a download returned something else
    early,      \* ghost: a thread was told work is done that is not
    shared,     \* ghost: a thread used the stage another's kernel download was in
    passed      \* ghost: work went behind a keep-alive before its value was noted

threadVars == <<deployed, lock, ex, mem, stage, doing, event, expected, misread, early,
               shared, passed>>

\* A buffer holds its thread's bytes, as uploaded or as a kernel changed them
Uploaded(t) == <<t, 0>>
Changed(bytes) == <<bytes[1], 1 - bytes[2]>>

Job(kind, t) == [kind |-> kind, by |-> t]
Compute == {"kernel", "out by kernel", "spin"}
SlotOf(job) == IF job.kind \in Compute THEN 0 ELSE 1

ThreadsInit ==
    /\ deployed \in Deployments /\ lock = Nobody
    /\ ex = [chain |-> <<>>, queue |-> <<>>, retired |-> 0,
             last |-> [q \in 0 .. 1 |-> 0], slot |-> [q \in 0 .. 1 |-> 0],
             stage_pend |-> 0, internal |-> FALSE, launches |-> 0,
             ka_pending |-> FALSE, ka_value |-> 0]
    /\ mem = [t \in Threads |-> Uploaded(t)] /\ stage = <<Nobody, 0>>
    /\ doing = [t \in Threads |-> "nothing"]
    /\ event = [t \in Threads |-> [value |-> 0, after |-> 0]]
    /\ expected = mem /\ misread = FALSE /\ early = FALSE
    /\ shared = FALSE /\ passed = FALSE

(***************************************************************************)
(* What exec.c does under the lock.                                        *)
(***************************************************************************)
TimelineOf(e) == e.retired + Len(e.queue)

Submitted(e, jobs) ==
    LET numbers(q) == {TimelineOf(e) + i : i \in {j \in DOMAIN jobs : SlotOf(jobs[j]) = q}}
    IN  [e EXCEPT !.queue = @ \o jobs,
                  !.last = [q \in 0 .. 1 |->
                      IF numbers(q) = {} THEN @[q]
                      ELSE CHOOSE n \in numbers(q) : \A k \in numbers(q) : k <= n]]

\* tinynv_exec_flush: the caller's chain lets a keep-alive go
Flushed(e) ==
    IF e.chain = <<>> THEN e
    ELSE [Submitted(e, e.chain) EXCEPT !.chain = <<>>,
                                       !.ka_pending = @ /\ e.internal]

\* a copy is a batch of its own, after the chain
Copied(e, kind, t) == Submitted(Flushed(e), <<Job(kind, t)>>)

\* A wait for nothing but the spin is a wait for what came before it
LessTheSpin(e, want) ==
    IF e.ka_pending /\ want = e.ka_value /\ want > 0 THEN want - 1 ELSE want

sem_reached(e, value) ==
    \A q \in 0 .. 1 :
        LET asked == IF q = 0 THEN LessTheSpin(e, e.last[0]) ELSE e.last[q]
            want == IF asked > value THEN value ELSE asked
        IN  e.slot[q] >= want

\* tinynv_exec_wait begins by letting go a keep-alive it needs to get past
LetGo(e) == [e EXCEPT !.ka_pending = @ /\ e.last[0] = e.ka_value]

\* stage_claim: enabled when its wait is over
Claimable(e) == e.stage_pend > 0 => sem_reached(LetGo(e), e.stage_pend)
Claimed(e) == IF e.stage_pend = 0 THEN e ELSE [LetGo(e) EXCEPT !.stage_pend = 0]

\* The last of a thread's own work so far
OwnWork(e, t) ==
    LET all == e.queue \o e.chain
        own == {i \in DOMAIN all : all[i].by = t /\ all[i].kind # "spin"}
    IN  IF own = {} THEN 0
        ELSE e.retired + CHOOSE i \in own : \A j \in own : j <= i

-----------------------------------------------------------------------------
At(t, place) == t \in deployed.callers /\ doing[t] = place
Goes(t, place) == doing' = [doing EXCEPT ![t] = place]
Unheld == lock = Nobody
Room == TimelineOf(ex) + Len(ex.chain) < MaxWork

\* Where g_lock is not held and another thread's step matters: from the claim
\* of the stage to its reading, and from a keep-alive's launch to the noting
\* of its value
InStage == {"claimed", "launching out", "launched out", "out", "idling out", "reading out"}
UnnotedSpin == {"launched spin", "flushed spin"}
Another(t, places) == \E u \in Threads \ {t} : doing[u] \in places

UsesStage(t) == shared' = (shared \/ Another(t, InStage))
AddsWork(t) == passed' = (passed \/ Another(t, UnnotedSpin))

\* tinynv_memcpy_htod of more than rides in a batch. Mutant: the staging
\* buffer is filled without asking whether a copy still reads it.
ClaimForUploadMutant(e) == TRUE
ClaimForUpload(e) == Claimable(e)

Upload(t) ==
    /\ At(t, "nothing") /\ Unheld /\ Room /\ ClaimForUpload(ex)
    /\ stage' = Uploaded(t)
    /\ LET e == Copied(Claimed(ex), "in", t)
       IN  ex' = [e EXCEPT !.stage_pend = e.last[1]]
    /\ expected' = [expected EXCEPT ![t] = Uploaded(t)]
    /\ UsesStage(t) /\ AddsWork(t)
    /\ UNCHANGED <<deployed, lock, mem, doing, event, misread, early>>

\* tinynv_launch of the caller's kernel, which changes what its buffer holds
Launch(t) ==
    /\ At(t, "nothing") /\ Unheld /\ Room
    /\ ex' = [ex EXCEPT !.chain = Append(@, Job("kernel", t)),
                        !.launches = IF ex.internal \/ @ = MinLaunches THEN @ ELSE @ + 1]
    /\ expected' = [expected EXCEPT ![t] = Changed(@)]
    /\ AddsWork(t)
    /\ UNCHANGED <<deployed, lock, mem, stage, doing, event, misread, early, shared>>

\* tinynv_memcpy_dtoh by the copy engine: the lock is held from the copy to
\* the reading of the stage
DownloadBegins(t) ==
    /\ At(t, "nothing") /\ Unheld /\ Room /\ ~ deployed.download_kernel
    /\ ex' = Copied(ex, "out", t) /\ lock' = t /\ Goes(t, "download")
    /\ UsesStage(t) /\ AddsWork(t)
    /\ UNCHANGED <<deployed, mem, stage, event, expected, misread, early>>

Waited(t) == lock = t /\ sem_reached(LetGo(ex), TimelineOf(ex))

\* What the thread reads is what its own calls should have left
Reads(t, e, place) ==
    /\ misread' = (misread \/ stage # expected[t])
    /\ ex' = e /\ Goes(t, place)
    /\ UNCHANGED <<deployed, mem, stage, event, expected, early, shared, passed>>

DownloadEnds(t) ==
    /\ At(t, "download") /\ Waited(t) /\ lock' = Nobody
    /\ Reads(t, [LetGo(ex) EXCEPT !.stage_pend = 0], "idled")

\* download_by_kernel: claim, launch, idle, and the reading of the stage, with
\* the lock given up after each of them
ClaimStage(t) ==
    /\ At(t, "nothing") /\ Unheld /\ Room /\ deployed.download_kernel /\ Claimable(ex)
    /\ ex' = Claimed(ex) /\ Goes(t, "claimed")
    /\ UsesStage(t)
    /\ UNCHANGED <<deployed, lock, mem, stage, event, expected, misread, early, passed>>

LaunchOut(t) ==
    /\ At(t, "launching out") /\ Unheld
    /\ ex' = [ex EXCEPT !.chain = Append(@, Job("out by kernel", t))] /\ Goes(t, "launched out")
    /\ AddsWork(t)
    /\ UNCHANGED <<deployed, lock, mem, stage, event, expected, misread, early, shared>>

\* tinynv_exec_idle: hand over what is built, wait for all of it
IdleBegins(t, from, to) ==
    /\ At(t, from) /\ Unheld
    /\ ex' = Flushed(ex) /\ lock' = t /\ Goes(t, to)
    /\ UNCHANGED <<deployed, mem, stage, event, expected, misread, early, shared, passed>>

KernelIdle(t) == IdleBegins(t, "out", "idling out")

KernelIdled(t) ==
    /\ At(t, "idling out") /\ Waited(t)
    /\ ex' = LetGo(ex) /\ lock' = Nobody /\ Goes(t, "reading out")
    /\ UNCHANGED <<deployed, mem, stage, event, expected, misread, early, shared, passed>>

ReadStage(t) ==
    /\ At(t, "reading out") /\ UNCHANGED lock
    /\ Reads(t, ex, "idled")

-----------------------------------------------------------------------------
\* tinynv_stream_sync
SyncBegins(t) == IdleBegins(t, "nothing", "syncing")

SyncEnds(t) ==
    /\ At(t, "syncing") /\ Waited(t)
    /\ early' = (early \/ OwnWork(ex, t) > ex.retired)
    /\ ex' = LetGo(ex) /\ lock' = Nobody /\ Goes(t, "idled")
    /\ UNCHANGED <<deployed, mem, stage, event, expected, misread, shared, passed>>

\* keepalive_launch, after a synchronisation or a large download
NoSpin(t) ==
    /\ At(t, "idled") /\ (deployed.keepalive => ex.launches < MinLaunches)
    /\ Goes(t, "nothing")
    /\ UNCHANGED <<deployed, lock, ex, mem, stage, event, expected, misread, early, shared, passed>>

ArmSpin(t) ==
    /\ At(t, "idled") /\ deployed.keepalive /\ ex.launches >= MinLaunches /\ Unheld /\ Room
    /\ ex' = [ex EXCEPT !.ka_pending = TRUE, !.launches = 0] /\ Goes(t, "armed")
    /\ UNCHANGED <<deployed, lock, mem, stage, event, expected, misread, early, shared, passed>>

LaunchSpin(t) ==
    /\ At(t, "launching spin") /\ Unheld
    /\ ex' = [ex EXCEPT !.chain = Append(@, Job("spin", t))] /\ Goes(t, "launched spin")
    /\ AddsWork(t)
    /\ UNCHANGED <<deployed, lock, mem, stage, event, expected, misread, early, shared>>

FlushSpin(t) ==
    /\ At(t, "launched spin") /\ Unheld
    /\ ex' = Flushed(ex) /\ Goes(t, "flushed spin")
    /\ UNCHANGED <<deployed, lock, mem, stage, event, expected, misread, early, shared, passed>>

\* ka_value is the counter as it stands, read without the lock
NoteSpin(t) ==
    /\ At(t, "flushed spin")
    /\ ex' = [ex EXCEPT !.ka_value = TimelineOf(ex)] /\ Goes(t, "noted spin")
    /\ UNCHANGED <<deployed, lock, mem, stage, event, expected, misread, early, shared, passed>>

\* tinynv_exec_set_internal, which no lock guards
Marks(t, from, on, to) ==
    /\ At(t, from)
    /\ ex' = [ex EXCEPT !.internal = on] /\ Goes(t, to)
    /\ UNCHANGED <<deployed, lock, mem, stage, event, expected, misread, early, shared, passed>>

SetInternal(t) ==
    \/ Marks(t, "claimed", TRUE, "launching out")
    \/ Marks(t, "launched out", FALSE, "out")
    \/ Marks(t, "armed", TRUE, "launching spin")
    \/ Marks(t, "noted spin", FALSE, "nothing")

-----------------------------------------------------------------------------
\* tinynv_event_record. Mutant: what is built is not handed over first.
HandedOverMutant(e) == e
HandedOver(e) == Flushed(e)

EventRecord(t) ==
    /\ At(t, "nothing") /\ Unheld
    /\ event' = [event EXCEPT ![t].after = OwnWork(ex, t)]
    /\ ex' = HandedOver(ex) /\ Goes(t, "recording")
    /\ UNCHANGED <<deployed, lock, mem, stage, expected, misread, early, shared, passed>>

EventValue(t) ==
    /\ At(t, "recording")
    /\ event' = [event EXCEPT ![t].value = TimelineOf(ex)] /\ Goes(t, "nothing")
    /\ UNCHANGED <<deployed, lock, ex, mem, stage, expected, misread, early, shared, passed>>

\* tinynv_event_query that says complete
EventComplete(t) ==
    /\ At(t, "nothing") /\ Unheld /\ sem_reached(ex, event[t].value)
    /\ early' = (early \/ event[t].after > ex.retired)
    /\ UNCHANGED <<deployed, lock, ex, mem, stage, doing, event, expected, misread, shared, passed>>

\* tinynv_event_sync and tinynv_stream_wait_event, which wait on the host
EventSync(t) ==
    /\ At(t, "nothing") /\ Unheld /\ sem_reached(LetGo(ex), event[t].value)
    /\ early' = (early \/ event[t].after > ex.retired)
    /\ ex' = LetGo(ex)
    /\ UNCHANGED <<deployed, lock, mem, stage, doing, event, expected, misread, shared, passed>>

\* The engines end the oldest job; a spin ends when it is let go or at its limit
Retire ==
    /\ ex.queue # <<>>
    /\ LET job == Head(ex.queue)  t == job.by
       IN  /\ ex' = [ex EXCEPT !.queue = Tail(@), !.retired = @ + 1,
                               !.slot[SlotOf(job)] = ex.retired + 1]
           /\ mem' = CASE job.kind = "in" -> [mem EXCEPT ![t] = stage]
                       [] job.kind = "kernel" -> [mem EXCEPT ![t] = Changed(@)]
                       [] OTHER -> mem
           /\ stage' = IF job.kind \in {"out", "out by kernel"} THEN mem[t] ELSE stage
    /\ UNCHANGED <<deployed, lock, doing, event, expected, misread, early, shared, passed>>

ThreadsNext ==
    \/ Retire
    \/ \E t \in Threads :
        \/ Upload(t) \/ Launch(t)
        \/ DownloadBegins(t) \/ DownloadEnds(t)
        \/ ClaimStage(t) \/ LaunchOut(t) \/ KernelIdle(t) \/ KernelIdled(t) \/ ReadStage(t)
        \/ SyncBegins(t) \/ SyncEnds(t)
        \/ NoSpin(t) \/ ArmSpin(t) \/ LaunchSpin(t) \/ FlushSpin(t) \/ NoteSpin(t)
        \/ SetInternal(t)
        \/ EventRecord(t) \/ EventValue(t) \/ EventComplete(t) \/ EventSync(t)

ThreadsSpec == ThreadsInit /\ [][ThreadsNext]_threadVars

-----------------------------------------------------------------------------
\* A thread that reads its buffer back gets what its own uploads and kernels
\* left there, whatever other threads move through the one staging buffer
\* meanwhile, unless a thread used the stage while another was in a download
\* by kernel, or a keep-alive's value came to name another thread's work
\* (tinynv.c:676-732, exec.c:1817-1826).
ReadsItsOwn == misread => shared \/ passed

\* A thread whose synchronisation returned, or whose event was reported
\* complete, has no launch or copy from before it still to be done, whoever
\* else submits, builds or keeps the engine alive at the time, unless work of
\* another thread went behind a keep-alive before its value was noted
\* (tinynv.c:776-797, 1132-1187 and 1215-1219, exec.c:128-140).
AnsweredMeansDone == early => passed

\* As tinynv.c:676-682 says, the one lock is enough for the calls that move
\* memory: whatever threads there are, each reads back its own bytes.
LockIsEnough == ~ misread
=============================================================================
