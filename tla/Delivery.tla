----------------------------- MODULE Delivery -----------------------------
(***************************************************************************)
(* What reaches video memory: the descriptor region as four copies of the  *)
(* same cells (tinynv_exec_flush in libtinynv/src/exec.c).  Launches build *)
(* in the shadow; a flush delivers the span built since the last one,      *)
(* either whole (mirror, then the copy engine) or, past the region's first *)
(* lap, as patches carried by the chain's own batch, holding what differs  *)
(* from last_delivered.                                                    *)
(*                                                                         *)
(* A cell stands for a dword.  Two things other modules show are relied    *)
(* on: batches run in the order submitted (Doorbell.tla), and bytes are    *)
(* not handed out while a batch still reads them (Scratch.tla).            *)
(***************************************************************************)
EXTENDS Integers, FiniteSets, SequencesExt

CONSTANTS
    Size,          \* cells in the descriptor region
    Launches,      \* sizes, in cells, a launch's descriptor may have
    Values,        \* what a cell may hold; the shadow starts as zeros (calloc)
    ChainMax,      \* chain_max
    Aggregate,     \* delta_aggregate_max: cells a flush may patch
    Unwritten,     \* what a cell of video memory holds until a batch writes it
    Rewinds,       \* delta_rewind
    WorkMax        \* bound: batches in flight

ASSUME DeliveryAssumption ==
    /\ {Size, ChainMax, WorkMax} \subseteq Nat \ {0} /\ Aggregate \in Nat
    /\ Launches \subseteq 1 .. Size
    /\ 0 \in Values /\ Unwritten \notin Values
    /\ Rewinds \in BOOLEAN

Cells == 0 .. Size - 1

VARIABLES
    next,            \* the region's bump allocation
    dirty,           \* the cells built and not delivered: a span's cells
    wrapped,         \* whether wraps[AR_DESC] is non-zero
    shadow, last_delivered, mirror, video,     \* the copies
    chain,           \* the cells of each launch built and not submitted
    after_stall,     \* ex->after_stall
    work             \* batches submitted and not run, oldest first

copies == <<shadow, last_delivered, mirror, video>>
deliveryVars == <<next, dirty, wrapped, copies, chain, after_stall, work>>

Contents == [Cells -> Values]

\* A delivery copies cells of the mirror; a chain writes its patches, reads its
\* launches' cells, which held built, and owns the whole span until it is done.
Copying(cells) == [kind |-> "copy", span |-> cells, patch |-> <<>>, built |-> <<>>]
Chain(span, patch, built) ==
    [kind |-> "chain", span |-> span, patch |-> patch, built |-> built]

InUse == UNION {work[i].span : i \in DOMAIN work}

DeliveryInit ==
    /\ next = 0
    /\ dirty = {}
    /\ wrapped = FALSE
    /\ shadow = [c \in Cells |-> 0]
    /\ last_delivered = [c \in Cells |-> 0]
    /\ mirror = [c \in Cells |-> 0]
    /\ video = [c \in Cells |-> Unwritten]
    /\ chain = {}
    /\ after_stall = FALSE
    /\ work = <<>>

-----------------------------------------------------------------------------
\* The span that covers a set of cells and the cells at off
Hull(cells) == {c \in Cells : \E a, b \in cells : a <= c /\ c <= b}
At(off, n) == off .. off + n - 1

\* Where a launch asks: the first one after a standstill comes round.
ComesRound == Rewinds /\ after_stall /\ chain = {} /\ next # 0
fits(n) == next + n <= Size /\ ~ComesRound

\* The place arena() finds, coming round when everything built has been
\* delivered (a chain in hand was flushed first), and what it does to the lap.
Place(n, off) ==
    \/ fits(n) /\ off = next /\ UNCHANGED wrapped
    \/ ~fits(n) /\ chain = {} /\ dirty = {} /\ off = 0 /\ wrapped' = TRUE

\* The cells are waited for and taken; a wait may have found the engines idle.
TakeCells(off, n) ==
    /\ Cardinality(chain) < ChainMax
    /\ At(off, n) \intersect InUse = {}
    /\ next' = off + n
    /\ dirty' = Hull(dirty \union At(off, n))
    /\ after_stall' \in {after_stall, TRUE}

\* exec_run_inner: the launch is built in the shadow.
Launch(n) ==
    \E off \in Cells :
        /\ Place(n, off) /\ TakeCells(off, n)
        /\ \E content \in [At(off, n) -> Values] :
             shadow' = [c \in Cells |-> IF c \in At(off, n) THEN content[c] ELSE shadow[c]]
        /\ chain' = chain \union {At(off, n)}
        /\ UNCHANGED <<last_delivered, mirror, video, work>>

\* The cells are taken and the launch fails before it writes any of them.
Abandon(n) ==
    \E off \in Cells :
        /\ Place(n, off) /\ TakeCells(off, n)
        /\ UNCHANGED <<copies, chain, work>>

\* A span such a launch left: the rewind is refused, having reset the region.
RewindRefused(n) ==
    /\ ~fits(n) /\ chain = {} /\ dirty # {}
    /\ next' = 0 /\ dirty' = {}
    /\ UNCHANGED <<wrapped, copies, chain, after_stall, work>>

-----------------------------------------------------------------------------
Built == [c \in UNION chain |-> shadow[c]]

\* The patches of one launch: the runs that differ, near ones merged across the
\* gap between them, or the one span around them all when that is no dearer.
Differs(launch) == {c \in launch : shadow[c] # last_delivered[c]}
PatchesOf(launch) == {p \in SUBSET Hull(Differs(launch)) : Differs(launch) \subseteq p}

Patches == {p \in SUBSET UNION chain :
              \A l \in chain : p \intersect l \in PatchesOf(l)}

\* last_delivered brought up to date over the span, and the span let go
RecordedMutant == UNCHANGED last_delivered                  \* Mutated form: not recorded
RecordedLaunchesMutant ==                                   \* Mutated form: one cell short
    last_delivered' = [c \in Cells |-> IF c \in dirty /\ c + 1 \in dirty THEN shadow[c]
                                       ELSE last_delivered[c]]
Recorded ==
    last_delivered' = [c \in Cells |-> IF c \in dirty THEN shadow[c] ELSE last_delivered[c]]

Flushed == dirty' = {} /\ chain' = {} /\ after_stall' = FALSE

FlushByPatches ==
    /\ chain # {} /\ wrapped
    /\ Len(work) < WorkMax
    /\ \E p \in Patches :
         /\ Cardinality(p) <= Aggregate
         /\ work' = Append(work, Chain(dirty, [c \in p |-> shadow[c]], Built))
    /\ Recorded /\ Flushed
    /\ UNCHANGED <<next, wrapped, shadow, mirror, video>>

\* The whole span, when it may not be trusted or the patches would not fit
FlushByCopy ==
    /\ chain # {}
    /\ wrapped => \E p \in Patches : Cardinality(p) > Aggregate
    /\ Len(work) + 1 < WorkMax
    /\ mirror' = [c \in Cells |-> IF c \in dirty THEN shadow[c] ELSE mirror[c]]
    /\ work' = work \o <<Copying(dirty), Chain(dirty, <<>>, Built)>>
    /\ Recorded /\ Flushed
    /\ UNCHANGED <<next, wrapped, shadow, video>>

\* tinynv_exec_idle; a standstill is noted when the wait had to spin.
Idle ==
    /\ chain = {} /\ work = <<>>
    /\ after_stall' \in {after_stall, TRUE}
    /\ UNCHANGED <<next, dirty, wrapped, copies, chain, work>>

\* What a batch writes, and what it leaves there
Writes(b, c) == (b.kind = "copy" /\ c \in b.span) \/ c \in DOMAIN b.patch
Brings(b, c) == IF b.kind = "copy" THEN mirror[c] ELSE b.patch[c]

\* The engines run the oldest batch.
Run ==
    /\ work # <<>>
    /\ work' = Tail(work)
    /\ LET b == Head(work) IN
       video' = [c \in Cells |-> IF Writes(b, c) THEN Brings(b, c) ELSE video[c]]
    /\ UNCHANGED <<next, dirty, wrapped, shadow, last_delivered, mirror, chain, after_stall>>

DeliveryNext ==
    \/ \E n \in Launches : Launch(n) \/ Abandon(n) \/ RewindRefused(n)
    \/ FlushByPatches \/ FlushByCopy \/ Idle \/ Run

DeliverySpec == DeliveryInit /\ [][DeliveryNext]_deliveryVars

-----------------------------------------------------------------------------
(* Properties *)

\* What each variable holds between two steps of the code
DeliveryTypeOK ==
    /\ next \in 0 .. Size
    /\ dirty \subseteq Cells
    /\ wrapped \in BOOLEAN
    /\ {shadow, last_delivered, mirror} \subseteq Contents
    /\ video \in [Cells -> Values \union {Unwritten}]
    /\ chain \in SUBSET SUBSET Cells
    /\ after_stall \in BOOLEAN
    /\ \A i \in DOMAIN work : work[i].span \subseteq Cells

\* What last_delivered says of a cell: what was last sent there, or the zero it
\* started with where nothing ever was. Nobody zeroes the region it stands for.
Records(record, cell) == cell = record \/ (cell = Unwritten /\ record = 0)

\* The engine launches what the host built: when a chain runs, its patches
\* included, every cell it reads holds what its launches wrote there. A cell
\* nothing was ever sent to may be left as it was, and only where they wrote
\* zero (tinynv_exec_flush, "the delta path patched only what differed because
\* the rest was already correct there").
EngineReadsWhatWasBuilt ==
    [][work # <<>> /\ work' = Tail(work) =>
         LET built == Head(work).built IN \A c \in DOMAIN built : Records(built[c], video'[c])]_deliveryVars

\* last_delivered is what video memory will hold once the work in flight has
\* run ("if the recorded mirror ever drifts from the bytes actually resident, a
\* future skip could omit an update that had to reach video memory"), or zero
\* where no batch will have written.
After(c) ==
    LET writers == {i \in DOMAIN work : Writes(work[i], c)}
    IN  IF writers = {} THEN video[c] ELSE Brings(work[Max(writers)], c)
LastDeliveredHonest == \A c \in Cells : Records(last_delivered[c], After(c))

\* What the code says of the launches it compares ("Trusted only past the
\* region's first lap [...] before that, last_delivered has never been compared
\* against a real prior delivery at this address"): past that lap, there was
\* one. A lap ends before the region does, so this does not hold.
TrustedPastTheFirstLap == wrapped => \A c \in UNION chain : After(c) = last_delivered[c]
=============================================================================
