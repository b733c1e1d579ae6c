# macuda: a verification project

macuda runs CUDA programs on an NVIDIA card from user space: a shim of the CUDA
runtime and of a part of cuBLAS over a driver, `libtinynv`, that boots the card,
owns its memory and feeds its engines. This directory holds TLA+ models of that
driver's own logic, what TLC checks of them and what TLAPS proves.

All paths below are under `src/cuda-shim/libtinynv/src/` unless they say otherwise.

## The system

| part | where | state it keeps | operations | what makes it correct |
|---|---|---|---|---|
| scratch regions | `arena.c`, `exec.c` `arena`, `cmd_space` | per region: bump position, the value last recorded for each of 16 pieces, the span taken and not submitted, the span written and not pushed | allocate, submit, push, come round, restart the timeline | bytes an engine may read are not handed out; every wait ends |
| timeline | `exec.c` `sem_reached`, `submit_batch` | values reserved and submitted, the last value each queue was asked for, one semaphore slot per queue | reserve, submit, wait, query | "reached" is never said of work under way |
| submission | `submit.c`, `pci_tinygpu.c` | per ring: position, what is staged and not announced; a fencing read sent and not answered | stage, ring (in one or split), wait | batches run in submission order; no wake-up is lost |
| descriptor delivery | `exec.c` `tinynv_exec_flush` | four copies of the descriptor region | launch, flush whole, flush what differs | the engine reads what the host built |
| copies | `exec.c` `tinynv_exec_copy/upload/download/zero` | two staging buffers, held small uploads | upload, download, device copy, memset, idle | calls behave as if memory were written in call order |
| captured graphs and recorded launches | `libtinycudart/graph.c`, `exec.c` `tinynv_exec_graph_*`, `rec_launch` | the capture under way, executable graphs, a private region per recording, a pool of them | capture, instantiate, update, launch, record, seal, replay, release | each launch asked for is done once, in order |
| entry points, events, keep-alive | `tinynv.c`, `exec.c` | one lock, events, the spin kernel, staging | `tinynv_*` | a thread reads its own bytes; "complete" is true |
| sensors | `gsp.c` `tinynv_gsp_sensors_*`, `tinynv.c` `publish_sensors` | a block the firmware rewrites, a file other processes read | arm, read, publish | a reading is one the firmware finished |
| allocators | `tlsf.c`, `libtinycudart/hostpool.c` | buckets of free blocks; slabs | allocate, release | blocks disjoint, neighbours merged |
| page tables and buffers | `pt.c`, `mmu.c` | tables, the card's kept translations, buffers, what leaked | allocate, map, unmap, invalidate | an address reads its own page, a freed one none |
| guests' mappings | `gsp.c` `tinynv_rm_map_check`, `tinynv_c4b_map`, `tinynv_rm_unmap_check` | the guest's tables and a record of mappings | map, unmap, undo | what is reachable is what is recorded |
| GSP messages | `gsp.c` | two rings in shared memory | send, receive, drain, give up | every call ends; records whole and in order, as long as none overruns another |
| GSP objects | `gsp.c` `tinynv_gsp_rm_*` | a record of the objects on the card | allocate, control, free, sweep | what is off the record is what a call lost, and which |
| boot and teardown | `dev.c`, `gpu.c`, `flcn.c`, `vbios.c`, `gsp.c`, `tinynv.c` | the card's windows and region, the firmware, what was placed and named | look, reset, place, start, wait, retry, put down | memory is not released under a live firmware; a boot starts cold |
| launch descriptors | `qmd.c`, `cubin.c` | none between calls | build, parse | formatting |
| transports | `pci_*.c` | | read and write registers and windows | posted writes, fencing reads |
| runtime front end | `../../libtinycudart/` | streams, handles | `cuda*` | translation to the driver |
| cuBLAS, router, scripts, `sha256.c` | `../../libtinycublas/`, `src/tools/` | | | see "Not modelled" |

The parts meet so. A runtime call takes the driver's lock. A launch takes a span
of the descriptor region and a timeline value and joins the chain in hand. A
flush delivers the chain's descriptors to video memory, in a batch of the copy
engine ahead of it or as patches inside the chain's batch, and submits the chain
with its last launch's value. A batch takes a span of the command region, waits
on the card for the other queue's newest value, and goes into its queue's ring.
The rings' memory, the write pointer and the doorbell are all in the card's
video memory window; an engine asleep looks only when the doorbell is rung. The
host waits by reading the two semaphore slots the engines write. A graph's first
launch writes its chains into a region of its own; later launches hand the same
chains over again with new values patched in. Buffers get physical blocks and an
address from two `tlsf` heaps and are mapped by `pt.c`; the channels, the card's
objects and the mappings themselves are made by calls to the firmware, which a
boot started and a teardown must stop before its memory goes.

What is hard: three parties (the host, two engine queues) and a write path that
posts; scratch recycled under work in flight by records instead of a full wait;
a counter that restarts; deliveries that skip what was delivered before;
announcements deferred or split; a lock that is given up between the steps of
three entry points; a firmware that answers late, writes while it is read and
outlives the process that started it; failures half way through each.
`PROJECT.json` lists each at its line.

## Modules

| module | models | abstracts |
|---|---|---|
| `Arena` | `arena.c`: the pure operators on one region | piece values and spans only |
| `Scratch` (EXTENDS `Arena`) | `arena`, `cmd_space`, launches, flush, `submit_batch`, the restart, two queues retiring | what the bytes hold |
| `WorkQueue` | abstract: batches done one at a time, in submission order | everything else |
| `Doorbell` | `submit.c`, the announcing half of `exec.c`, the posted window, channels that sleep and fetch; implements `WorkQueue` | what a batch does, command bytes |
| `Delivery` | the four copies of the descriptor region through launches and flushes | a dword is a cell; batches in order |
| `Exec` | uploads held and staged, launches, copies, zeros and patterns filled in, downloads, synchronize, on two engines with their acquires | a buffer is one value; scratch and deliveries |
| `ExecFailures` | the same with memory freed, for one finding | |
| `Graph` | `graph.c` over `tinynv_exec_graph_*`: capture, recording, sealing, replay, update, release | one calling thread, one queue for two |
| `Threads` | `tinynv.c`'s entry points by several threads, with the lock each step holds; events; the keep-alive | one queue for two engines; a buffer is one value |
| `Allocator` | abstract: a set of disjoint, aligned blocks | which block is given |
| `Tlsf` | `tlsf.c`; implements `Allocator` | host memory never runs out |
| `HostPool` | `hostpool.c` | sizes in pages |
| `PageTable` | `pt.c`: the tree and the walk | entries' bits |
| `Memory` (EXTENDS `PageTable`) | `mmu.c`: buffers, page sizes, posted entries, translations the card keeps, invalidation and its timeout | data |
| `GuestMaps` (EXTENDS `PageTable`) | `tinynv_c4b_map`, its undo and its record | what the guest does with it |
| `Channel` | abstract: messages taken whole, once, in order | |
| `MessageRing` | both GSP rings and a call across them; each direction implements `Channel` until a record overruns the ring or fills its slots to the last byte | a record is its length |
| `GspRm` | objects and the driver's record of them | rings are channels |
| `Sensors` | the readings and the file they are published in | two words for all fields |
| `BootPlan` | what a boot places and names, step by step; the layout of the firmware's region with its real sizes | values of registers |
| `Boot` (EXTENDS `BootPlan`) | a process finding, booting, using and putting down the card; signals, deaths, a next process | the firmware's own work |
| `MC*` | what a run gives TLC | |
| `ScratchProofs` | theorems about `Arena` and `Scratch` | |
| `DoorbellProofs`, `DeliveryProofs`, `ExecProofs` | theorems about the module each is named after | |
| `CallersProofs` | theorems about `Graph` and `Threads` | |
| `GspProofs` | theorems about `GspRm`, `Sensors` and `Boot` | |
| `AllocatorProofs` | theorems about `Tlsf` and `HostPool` | |
| `MemoryProofs` | theorems about `PageTable`, `Memory` and `GuestMaps` | |

Parts that share no state are checked in one run by a module that composes them
and a variable `driven` that says which of them a behaviour drives
(`MCQueues`, `MCMemory`, `MCGsp`, `MCCallers`): the parts do not interact,
and their product would only multiply states.

`Scratch`: the host is one thread, since every entry point holds the driver's
lock, so one call is interrupted only where it waits. `host` is what a call is
allocating for at that moment: `EnterAt` is `arena` up to its wait (the records
are consumed and the lap moved *before* it, as in the code), and the action that
follows (`TakeLaunch`, `BatchSubmit`, `DeliverSubmit`, `ChainSubmit`) is the rest
of the call. `live` are the batches the engines have not retired. The two queues
retire independently, which allows more than the acquires do.

`Doorbell`: `posted` are the writes on their way to the card, `ring` and `put`
what the card sees. A staged batch is a ring entry and a write pointer; a ring is
a fencing read on the window, its answer, and a doorbell for each queue staged,
in the order the code uses. `Done` values stand for the semaphore slots. The
refinement maps the batches of both rings, put back in the order of their
values, to `WorkQueue`.

`Exec`: `ex` are the driver's books and `ring` the two rings; `flush`,
`push_held` and `copy` are operators from one state of both to the next, since
one call may submit three batches (the chain, the held uploads, the copy) before
it returns. `host` is the call under way: only its waits (`Claims`, `IdleEnd`)
interrupt it. The compute channel begins a batch when its two acquires are
satisfied and writes its held bytes then; the kernels it launches run on
afterwards, so without the same-queue acquire two chains would run together.
`expected` is memory written call by call, the reference the properties compare
with. A kernel copies one buffer to another: it reads what must be there and
overwrites what must not be newer. `Zero` and `Memset` are the two fills, each the
pattern written to the first staging buffer (`FillPattern`) and then spread over
the range (`Spread`): the first ends with a wait, the second returns with its copies
under way and no value kept to wait for. `patterns` are the values those copies
release, and `spoiled` says that a staging buffer was written while a copy had yet
to read it, after which memory may differ from what the calls say. Neither is read by a
step of the code.

`Delivery`: `work` is one queue in submission order, which `Doorbell` shows the
card to be; a launch waits for the cells it takes, which `Scratch` shows is
enough to keep bytes in use apart. Video memory begins as `Unwritten`, which is
none of the `Values`: the code allocates the region without zeroing it. `Records`
is what an entry of `last_delivered` says of a cell: the same, or zero where no
batch ever wrote.

`Graph`: `call` is where `cudaGraphLaunch` stands, since what it does launch by
launch may be declined at any of them; `region` pairs what the host wrote into a
recording's region with what video memory holds, which the seal copies over.
`owed` is what was asked for and not done, in order; a batch that begins and is
not the head of it sets `wrong`. The recording is opt-in in the code
(`TINYNV_GRAPH_RESIDENT`). Not in it: a graph launched on the stream that is
being captured; a replay broken off part of the way (see "Read in the code").

`Threads`: `lock` says who holds `g_lock` across a wait; a step that takes and
gives up the lock within itself only requires that nobody holds it (`Unheld`),
and a step between two calls of `exec.c` does not even that. A deployment is the
set of calling threads and two opt-ins, a download served by a kernel
(`TINYNV_DOWNLOAD_VIA_COMPUTE`) and the keep-alive (`TINYNV_KEEPALIVE`).
`misread` and `early` are ghosts set by the step that gives a thread a wrong
answer. `shared` and `passed` say which of the two interleavings the code does not
guard against has happened: a thread used the staging buffer between another's
claim of it and its reading (`InStage`), or work of another thread went behind a
keep-alive's kernel before its value was noted (`UnnotedSpin`). Any number of
threads may be in those places. Uploads take stage 0; the spin ends when it is let
go or its budget is spent, which is any time.

`Memory`: `tree` is what the processor wrote, `arrived` what video memory holds
(entries are posted), `kept` every translation the card could have cached; a
free clears entries, asks for an invalidation, and either hears it done or marks
the manager wedged. `GuestMaps` builds a mapping piece by piece and undoes it
when a piece is refused. Addresses and frames count pages of the smallest size.

`MessageRing`: a record is an element header and a message, in units; `Found`
reads each ring from the read pointer to the write pointer, which is the
refinement to `Channel`. A record takes as many slots as its length with the
element header needs (`elemCount`), and the driver steps over as many as its length
without it does (`steps`), which is one short where a message fills its slots:
from then on (`astray`) what the driver reads as a header may be any slot. A reply
that goes past the end of the ring is copied straight on ("torn" in
`caller.reply`; `CopiedOut`). Nothing stops a record from being stored over ones the
firmware has not read, which takes calls given up with the firmware behind
(`overrun`); it then finds less than was sent.

`GspRm` takes two channels for the rings; `job` is a free's cascade or a sweep, one
call at a time. The firmware does what it is asked (`Grant`), fails the message
(`Refuse`) or says no in the status of the answer's body (`Deny`), which the code
reports for an allocation and does not read for a free. `rm` has, besides
`rpc_desync`, three ghosts: the objects of allocations whose own answer never came
(`unheard`), of frees that a teardown stepped over or that another request's answer
was taken for (`dropped`), and of frees denied in the body (`denied`).

`Boot`: `gpu` is the card (does it decode, are its base addresses there, may it
master the bus, is the region up, what firmware runs), which outlives the
process; `at.pc` is the process's place in open, boot, use and teardown; a boot
walks `RmSetup` and the rest of `BootPlan`, each step of which makes something
and names others (`made`, `blank`). A step may be refused, a notice may not
come, the card may lose its windows while a firmware is alive, a signal may
come anywhere, and the process may be killed; each spends one of `MaxFaults`.
The environment's knobs are at their defaults, the attempts 2 for 6, the card
one whose window is smaller than its memory. A card on which neither of the two
registers that show the region reads back is left out, as are mappings a process
refused half way and reopened would leak.

## Runs

| run | question | bounds and why they are enough |
|---|---|---|
| `Scratch_recycling` | are bytes in use ever handed out; do records and "reached" mean what they say; does every wait end | a 5-byte descriptor region, aligned to 2, in two pieces that do not divide it evenly, requests of 1 and 2, so spans straddle pieces, are padded and come round at several places; a 2-byte command region; chains of 2; ceiling 5 with a restart past 3, so restarts happen with records in every piece. That more pieces than two make no difference is what the proofs say |
| `Queues` | is any batch lost, run early or out of order; does every wait return; does the engine read what was built, is the record honest | rings of 4 entries that wrap, three staged batches, tokens of two chains, both queues, with the announcement whole and split: five batches fill a ring and come round with another staged; a region of three cells of two values, launches of two sizes that leave a tail, chains of two, three batches in flight, deliveries of each kind among them, laps that end early |
| `Exec_memory` | is memory what the calls say, is a stage ever refilled early, is `needs_wait` honest, does every call return | two buffers, chains of two launches, one held upload (so a second pushes the first out), calls up to the third timeline value: a chain under way, one behind it with held bytes, and a copy behind both; a pattern of two copies with an upload after it |
| `Memory` | does an address read its own frame and a freed one none; can a guest reach only what is on record; are blocks disjoint, neighbours merged, bytes accounted for, refusals justified; does `Tlsf` implement `Allocator` | four levels with pages of 4, 2 and 1, room for four tables, buffers of 1, 3 and 4 in one piece and in several, three held at once while an invalidation is under way or timed out; two objects of a guest, one in pieces, two records, two pieces, four tables, so each limit is met half way; a heap of 17 units, requests of 1 and 9, two alignments: blocks in buckets of several levels, with splits, trims before and after and merges on both sides, until nothing fits; two slabs under caps that force smaller ones and slabs larger than usual |
| `Gsp` | rings, objects, readings, boot: see each property | three slots of two units and messages of one, two and three, so a call of two records goes round the ring, one made after another was given up may overrun what that one left, and a reply may fill its slots or wrap; one call behind; two clients with a parent and a child each, four requests; two publishers, three updates, two tries; two processes, two attempts, two faults, the real sizes of the firmware's region with an image that fits, one at the limit and one past it |
| `Callers` | is each captured or asked-for launch done once, in order; does a thread read its own bytes; is "complete" true | two programs (one that records wholly, one whose copy keeps it from it), two executable graphs, two regions with a pool of one, regions of two chains, seven batches: a token replayed while its last replay runs, updated, freed, its region recycled; two threads at the defaults or with both options, three launches and copies |
| `Exec_synchronize`, `Exec_free`, `Delivery_lap`, `Graph_declined`, `Callers_lock`, `Gsp_late` | what those calls leave | findings; four cells in `Delivery_lap`, so that a lap can end with one never delivered |

Bounds named in the modules: `Ceiling` in `Scratch` (the timeline's last value);
`BatchMax` in `Doorbell`; `WorkMax` in `Delivery` (batches in flight); `ValueMax`
in `Exec` (no call begins past this timeline value); `MaxBatches`, `Programs`
and `Loose` in `Graph`; `MaxWork` in `Threads`; `MaxHeld` in `Memory` (buffers
out, leaked or forgotten); `MaxBehind` in `MessageRing` (calls given up and still
owed an answer: one, so a call finds the ring as the one before it left it; 0 in
`Gsp_late`, which is about `GspRm`); `MaxCalls` and `MaxEvents` in `GspRm`; `MaxUpdates`
in `Sensors`; `MaxProcs` and `MaxFaults` in `Boot`. Where deadlock is not checked, a behaviour ends at such a bound.

Fairness: the engines retire and fetch (weak fairness of each channel's steps; a
card that stops is a fault the code times out on), posted writes arrive, and a
call past its wait goes on. In `MessageRing` only the driver's own steps and the
passing of time are fair: the firmware may never answer and never stop sending
events, and a call ends all the same because it gives up. No fairness is assumed
of the callers.

`Scratch_recycling` assumes the engines of `Scratch`, whose queues retire what was
submitted to them; that submitted batches are seen at all is `Doorbell`'s
`EveryCallReturns`. `Graph` and `Threads` take the two engines as one queue, which
is what `Doorbell` shows their acquires make of them.

## Proofs

Each proof module has an inductive invariant, a lemma for each action that says
the invariant survives it, and theorems that follow from the invariant or, for an
action property, from one step of it. They hold for every value of the constants
that the module's named assumption allows; what a theorem assumes besides is in
its statement.

| module | invariant | theorems | assumes |
|---|---|---|---|
| `ScratchProofs` | `IInv`, `SpansApart` | every safety property of `Scratch_recycling` | nothing |
| `DoorbellProofs` | `DInv` | `NoLostDoorbell`; a refinement: what the rings do is `WorkQueue`'s `InOrder` | nothing |
| `DeliveryProofs` | `LInv` | `LastDeliveredHonest`, `EngineReadsWhatWasBuilt` | nothing |
| `ExecProofs` | `ExecInvariant` | `DrainedMemoryIsRight`, `NeedsWaitHonest`, `DownloadsAreRight`, `StagesLeftAlone`, `TypeOK` | nothing |
| `CallersProofs` | `AnswerInv`, `ReadInv` | `AnsweredMeansDone`, `ReadsItsOwn` | nothing |
| `CallersProofs` | `ReleaseInv`, `AskedInv` | `ReleasedMeansDone`, `DoesWhatWasAsked` | `AllFit` for the second |
| `AllocatorProofs` | `HeapInv`, `PoolInv` | `HeapSound`, `RefusedOnlyWhenFull`, `PoolSound`; a refinement: `Tlsf` is `Allocator` (`KeepsAllocatorsPromises`) | nothing |
| `MemoryProofs` | `MemInv` | `MapsWhatItSays`, `ReachesOnlyItsOwn`, `FreshRangesLookFree` | nothing |
| `MemoryProofs` | `GuestInv` | `GuestReachesWhatIsRecorded` | nothing |
| `GspProofs` | `RInv` | `RecordComplete`, `SweepLeavesNothing` | nothing |
| `GspProofs` | `SInv` | `PublishedIsWhole` | nothing |
| `GspProofs` | `BInv`, `UntroubledInv` | `ColdBeforeBoot`, `ReleasedOutOfReach`, `NamedWhatIsThere`, `OnlyAFaultCostsABoot` | nothing |

**Scratch.** For every size and alignment of the regions, every set of request
sizes, chain length and ceiling, and any number of pieces. Its first part holds
what `place`, `enter`, `take`, `mark`, `submitted` and `rewind` preserve of one
region. The properties are not inductive: that a span handed out is free depends
on every batch in flight being on record with a value above the one its queue was
at before (`RecordsCoverLive`), that in turn on the queues' values being ordered
along each queue and the slots never ahead of the batches in flight, and the
restart on no record being ahead of the counter. The invariant is

    IInv == TypeOK /\ RegionsOK /\ HostOK /\ ValuesOK
            /\ RecordsBehindTimeline /\ ChainOK /\ LiveSafe

with `RegionsOK` (each region's spans lie within what it has handed out),
`HostOK` (the place a waiting call found, and that its pieces are the ones it
entered), `ValuesOK` (batches ordered along their queue, between its slot and its
last value), `ChainOK` (the chain's spans lie in the dirty span, the unsubmitted
span covers them) and `LiveSafe` (records cover batches). That live spans are
disjoint needs more, since a step that hands out bytes must keep clear of spans
that are not yet on record:

    SpansApart == LiveSpansDisjoint /\ HandApart /\ DirtyApart /\ NoneStraddles

`HandApart` and `DirtyApart` keep the span a call has in hand and the spans built
and not delivered away from those in flight; `NoneStraddles` says a span in
flight begins at an aligned offset and lies on one side of the place allocation
has come to, which is what a lap needs of the one before.

**Doorbell.** The batches handed over are counted once for both rings. `DInv`
says there are a count for each stage of the posted window and a count of what is
done, such that the window holds, up to each count, the ring entries, write
pointers and doorbells of the batches before it, and each channel has fetched
what lies before its own `get`. `NoLostDoorbell` is part of it. The refinement
maps the log of handed-over batches, how many the card has been told of and how
many are done, to `WorkQueue`; each step shows at most one of "handed over",
"announced" and "done", the batch that is done being the next (`NextDInv`).
Fairness is left out of the refinement that is proved; the run checks it.

**Delivery.** Whatever video memory held before. What is built and not delivered is
one run of cells that ends where the next launch goes (`DirtyRun`); no batch in
flight has to do with it (`Apart`); every other cell of the shadow is as recorded
(`BuiltDiffers`). So a flush changes the mirror and the record only where no copy in
flight reads, and the batches in flight, done in order, bring each cell to what is
recorded of it (`RecordHolds`) and, when a chain begins, to what was built for it
(`ChainsFind`). A cell that no batch ever wrote is the exception in each of these,
and is recorded as zero: the code compares with that zero once a lap is over, though the
lap need not have reached the cell (`Delivery_lap`).

**Exec.** For any number of buffers, any values, chain length, number of held
uploads and length of run. That memory ends up right is not inductive: it says
nothing until everything has drained. What is in flight is on two rings, on a
compute channel that may have begun a batch, in the chain and among the held
uploads, and `ExecInvariant` says what all of it will come to:

- `Order`: every batch stands for the values of the timeline between its base
  and what it releases, no two for the same one, with no gap from what the slots
  have released to what was last submitted. A batch acquires the other queue only
  when that queue was the last submitted to (`AcquireOther`), and `Acquired` says
  that this is enough: each earlier batch of the other queue is waited for by the
  batch itself or by one before it on its own queue. So a batch whose acquires are
  satisfied at the head of its ring is the next in the order (`CopyIsNext`,
  `ComputeIsNext`), whichever engine it is on.
- `MemoryOK`: there is a history `T`, contents of the buffers for each value of
  the timeline, that has what memory holds at the value the slots have come to,
  steps from value to value by what the batch or kernel of that value does, and
  has what the calls say at the end, once the held uploads are written. As in
  `Threads` the history is a witness: a call extends it and an engine's step
  leaves it alone.
- `StagesOK`, `DownloadOK`: a copy that reads a staging buffer is one that
  `stage_pend` waits for (but for one that spreads a pattern of `tinynv_memset`'s, and
  for a zero's, while nobody claims the stage), and only a download's copy writes
  one.
- `needs_wait` unset means that what is in flight is held uploads pushed out.

Once a stage is refilled over a pattern, memory and the calls part for good. What
does not speak of memory goes on holding, and for the same reasons, so the invariant
is stated of an imagined memory `m` and imagined calls' contents `x`, in which that stage was left
alone, and they are the real ones as long as nothing is spoiled:

    ExecInvariant == ... /\ \E m, x : InvOf(m, x) /\ Tells(m, x)

When nothing is left the history has one value, which is memory and `expected` at
once. `StagesLeftAlone` and `DownloadsAreRight` come from one step taken in a
state of the invariant. That a stream's synchronize waits for its launches is
false (see "Findings"), and no theorem.

**Threads.** For any number of threads, both options on or off. Each job has a
number. `AnswerInv` says that each slot is behind what is done and each queue's last
value is that of its last job, that what a wait leaves out is the lent kernel
itself (`IsNumber(ex, ex.ka_value, TRUE)`), that the last job there is is the spin
of a thread about to note its value (`BehindSpin`), and that an event's value is not
behind the work it was recorded after; so a wait that is over leaves nothing but
that kernel. It holds until `passed`, and the theorem says `passed \/ AnswerInv`.
`ReadInv` adds what every thread's buffer will hold: `Carried` says that there is a
sequence of contents, one step for each job not yet done, from what memory holds to
what the thread's own calls left. The sequence is a witness and no fold, so a job
added extends it and a job done drops its head. `StageOK` and `ReadOK` say whose the
one staging buffer is at each place of each thread, until `shared` or `passed`.

**Graph.** `AllFit` says that the launches of every ordered program that may be
recorded fit a region and its chains a token: where one does not, the recording
is declined half way and `DoesWhatWasAsked` is false, which is the finding of
`Graph_declined` (`RegionRoom` is 1 there and 2 in `Callers`). `ReleaseInv` needs
no such thing. It numbers the batches along the queue, one running at a time
(`OrderOK`), and says of each chain that waits where its tail gets its value from
(`ChainOK`): a chain whose replay has its first chain still ahead of it in the
queue is patched by that one, with that very value, and any other finds its tail
patched already; no chain between the two patches anything. `AskedInv` adds the
driver's books: a recording that can be replayed is held by one executable graph,
and its region is, or before its next batch will be, what the host wrote, which
is the graph's launches in order (`TokensKept`, `ChainsKept`); a recording under
way holds what the call has come to (`RecordKept`). `LedgerKept` says what is
owed: everything the batches that wait will do, one after the other in the order
of their numbers, and then what is left of the call. It is a history as in
`Exec`: a witness names for each batch the stretch of `owed` it stands for, a
step of the call moves the border between handed over and left, and a batch that
begins takes the first stretch.

**Allocators.** `HeapInv` says of `Tlsf` that the blocks tile the memory
(`Tiled`), that each bucket is a sequence without repetition of free blocks of
its sizes (`Filed`), that no two free blocks are neighbours (`Merged`) and that
`used` counts the bytes of the rest. Between the steps of a release the block
handed back may stand unmerged beside its neighbours, so the lemmas for those
steps (`BeforeJoined`, `AfterJoined`) carry `MergedBut` instead. That no bucket
which would do is passed over rests on arithmetic: a size rounded up begins a
bucket (`RoundedBegins`), a longer block is never in an earlier one
(`ShorterIsEarlier`), and every size has one (`SizesHaveBuckets`). Powers of two
have no induction here; that `2 ^ n` doubles and grows is counted off the subsets
of `1 .. n`. The refinement maps the blocks that are out to `Allocator`'s set: a
step gives a block that is apart, aligned and of the size asked for, or takes one
back, or changes nothing. `PoolInv` says that each slab's list is in order
(`Laid`), its free neighbours are merged (`Parted`) and its pages counted
(`Kept`). Splitting a block and absorbing a neighbour are one relation between
two lists read both ways (`Halved`), so a free is proved by the lemmas for a
carving. What is out and what is mapped are counted as finite sets of pairs of a
slab and a page, so a sum over the slabs is a cardinality.

**Memory, GuestMaps.** For any number of levels whose page sizes divide one
another, any pieces a buffer is built from and any room for tables. The walks are
recursive functions; that such a function is what its equation says is proved once
(`Recurs`, by counting steps below a bound), and each walk's own equation is an
instance. From the equations: a walk that looks meets every page of its range
(`Covered`), the leaves of a mapping lie side by side from its first address to
its last, each led to the frame due there (`Tiling`, `Shows`), and building puts
those in and takes nothing away from beside them, as far as there was room for
tables (`BuiltTo`, `Grown`). A large page may replace an empty table, so it is part of
this that no page was below it. `MemInv` then says that both trees, as written
and as arrived, are well formed with pages that line up (`TreesOK`), that every
page in either lies in one buffer and leads to that buffer's memory (`BackedOK`),
leaked and forgotten buffers included, that a live buffer is mapped whole and the
one being freed has no page left (`LiveOK`), and that what the card kept is some
buffer's (`KeptOK`). The three properties follow from it. `GuestInv` is the same of a
guest's tables, with the permission of each page, and with buffers read off the
record: mappings on record are apart, allowed and in the tables whole, and there
is nothing else. An undo leaves the tree without the pages it laid, whatever
tables it leaves (`Cut`). `GuestObjects` are told apart by client and handle: the code
refuses a handle that is on record (`gsp.c:541-546`), and `GuestMaps` gives no
object out again under the handle of one that is gone.

**GspRm, Sensors.** Calls take tickets; `RInv` orders them along the rings. By the
time the answer to the call in hand is there nothing older is left to be done, so
what a free's own answer says is gone or was denied (`AnsweredFreeIsGone`), what an allocation
was refused was not made (`RefusedNotMade`), and the allocations still to be done
are the call's own, on record, or those nobody heard of (`LateAllocs`); a sweep has
passed every object behind it. `SInv` says that the firmware's number only grows, that a
reader that saw the same even number twice saw one reading, and that past the
flag one thread publishes at a time.

**Boot.** Four facts: a firmware has a region; between the look that let a boot
begin and the start nothing puts a region up; each step of a plan names only what
earlier steps made; and where the process is tells what the card must be while
nothing has gone wrong (`Untroubled`). The plans, being sequences put together
from lists, have lemmas of their own (`Good`, `Fed`, `Passes`), and the layout of
the firmware's region is proved to fit for every size of memory and images that
`Fits` admits. `Fits` has a lower bound too: an image of less than 37 MB makes a
region smaller than the carve-out check takes for real.

Only model-checked, and why:

- liveness, since fairness and ENABLED are outside the prover's reach:
  `EveryWaitEnds`, `EveryCallReturns`, `CallsEnd`, `MessagesArrive`;
- `MessageRing`: `Found` reads a ring message by message, each length telling
  where the next begins, so what it finds takes an induction over the records with
  a statement about their bytes; the refinement of each ring to `Channel` rests on
  it, and the run checks it.

`Allocator`, `Channel` and `WorkQueue` are the abstract sides of refinements and
promise what their `Next` says.

The type invariants are written for the proofs and are no property of a run
except where a run lists them.

## Findings

In `PROJECT.json`, each with the run that shows it: a stream's synchronize returns
with launches running when they were built and not yet submitted; a free does not
push out an upload held for the buffer; a first lap of the descriptor region that ends
early leaves cells that were never delivered, and the record of them is trusted; a
recording declined half way leaves the driver recording, and nothing asked for
afterwards runs; with downloads served by a kernel one thread reads another's bytes
from the staging buffer; an answer that comes after the reply queue was emptied is
taken for the next call's.

## Read in the code

Seen while modelling. The first five are in the models, as the exceptions the
properties name; the others are shown by no run.

- A memset of a non-zero value leaves its stage without a value to wait for
  (`tinynv.c:913`), so the next upload, or a second memset, may refill it under the
  copies that spread the pattern (`patterns`, `spoiled`).
- With the keep-alive on, the value taken for the spin is the counter read outside
  the lock (`tinynv.c:796`), so another thread's launch is taken for the spin and
  left out of what a wait waits for (`passed`).
- The slots a reply took are counted from the message's length alone
  (`gsp.c:322-325`), which forgets the element header (`astray`), and a reply that
  wraps is read past the end of the ring (`gsp.c:295-302`; "torn").
- Nothing compares the command ring's write pointer with how far the firmware has
  read (`gsp.c:199-229`; `overrun`).
- The status in the answer to a free is not read (`gsp.c:689-694`; `denied`). One to
  an allocation is printed and the object recorded all the same (`gsp.c:551-556`); an
  allocation that timed out is not recorded, although it may have happened (`unheard`).
- A wait for scratch that times out has consumed its records (`exec.c:801`,
  `804`), so the next allocation waits for nothing; the waits of `Scratch` do not
  time out.
- `tinynv_submit_stage` refuses the 65th staged batch (`submit.c:314`) while a
  recording may hold 128 chains (`exec.c:1645`): such a replay breaks off half way.
- A refused flush leaves `in_chain_flush` set (`exec.c:1481`, `1545`), and copies
  then overtake held uploads. A batch refused after a flush recorded its patches
  (`exec.c:1467` against `1481`) leaves `last_delivered` ahead of video memory.
- "Page tables are never freed" (`pt.c:308-309`): a large page mapped where an
  empty table was replaces the entry that led to it.
- `range_is_mapped` looks below an entry for no more than the entry covers from
  where the range meets it, and may miss a tail.
- An allocation that fails half way forgets the address and the blocks it had
  (`mmu.h:41-43` speaks of leaks as counted).
- The undo of `tinynv_gsp_sensors_init` frees a buffer the firmware was told of
  (`gsp.c:821-835`). A publisher's `last` may go back, which costs an extra
  publication.
- No free asks `tinynv_rm_object_is_mapped`, as `gsp.c:2136-2137` says one does:
  an object goes while a guest's mapping of it is on record.
- `early_init` makes the card a bus master before its second look
  (`dev.c:141`). Where going idle timed out, the teardown frees the channels'
  memory before the card is quiesced. A second signal during a teardown ends the
  process with the card still mastering (`tinynv.c:118`, `251-260` against
  `110`). The teardown handlers take no lock.

## Plan

The model covers what is listed above, and every safety invariant a passing run
checks is proved. What is left to prove is the refinement of the GSP rings: it needs
`Found` as a function with its equation, as the walks of `PageTable` have theirs,
and an invariant that says which elements of a ring belong to one record.

## Not modelled

Launch descriptors, method encodings and the parsing of cubins and images
(formatting, with no state between calls); the values written to registers and
what the firmware does with them (the repository does not define it); the
transports other than the posted window (input and output); the handle and error
translation of the runtime's front end; cuBLAS (shape selection and one launch
per call); `sha256.c` (a function of bytes with published vectors); the router
(`src/tools/disagg-router.py` holds one lock over each request, and what the
servers' slots hold is decided outside the repository); build and test scripts.
