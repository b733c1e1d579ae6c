-------------------------------- MODULE Tlsf --------------------------------
(***************************************************************************)
(* libtinynv/src/tlsf.c: the two level segregated fit allocator every      *)
(* address comes from, the card's physical memory and its virtual address  *)
(* space alike.  Blocks tile the memory in address order; the free ones    *)
(* are kept in buckets by size, oldest first, and a request takes the      *)
(* first block of the smallest bucket every block of which is big enough.  *)
(* A block is named by where it starts.  calloc is taken to succeed.       *)
(***************************************************************************)
EXTENDS Integers, Sequences, FiniteSets

CONSTANTS
    Size,                  \* bytes managed
    Requests, Aligns,      \* what callers ask for
    LV2_COUNT, LV2_BITS,   \* buckets per power of two, and the bits that takes
    MinBlock               \* the smallest block handed out

ASSUME TlsfAssumption ==
    /\ Size \in Nat \ {0}
    /\ Requests \subseteq Nat \ {0}
    /\ Aligns \subseteq Nat \ {0}
    /\ LV2_BITS \in Nat \ {0}
    /\ LV2_COUNT = 2 ^ (LV2_BITS - 1)
    /\ MinBlock \in Nat \ {0}

VARIABLE heap              \* struct tinynv_tlsf

-----------------------------------------------------------------------------
bit_length(v) == IF v = 0 THEN 0 ELSE CHOOSE n \in 1 .. v : 2 ^ (n - 1) <= v /\ v < 2 ^ n

round_up(v, a) == ((v + a - 1) \div a) * a

\* The step between the sizes two neighbouring buckets begin at
Granule(size) == LET shift == bit_length(size) - LV2_BITS IN IF shift > 0 THEN 2 ^ shift ELSE 1

\* A size's bucket, as its index in the flattened array
bucket_of(size) ==
    LET bl == bit_length(size)
    IN  bl * LV2_COUNT + (size - 2 ^ (bl - 1)) \div Granule(size)

Buckets == 0 .. bucket_of(Size)

Starts(h) == DOMAIN h.blk
FreeSet(h) == UNION {{h.bucket[b][i] : i \in DOMAIN h.bucket[b]} : b \in Buckets}
Live(h) == Starts(h) \ FreeSet(h)
End(h, s) == s + h.blk[s]

\* b->next and b->prev: the blocks of the address list beside a block
After(h, s) == {t \in Starts(h) : t = End(h, s)}
Before(h, s) == {t \in Starts(h) : End(h, t) = s}

\* A block leaves its bucket's list, or goes to the end of it: within a bucket
\* the oldest is taken first
bucket_remove(h, s) ==
    LET b == bucket_of(h.blk[s])
        k == CHOOSE i \in DOMAIN h.bucket[b] : h.bucket[b][i] = s
    IN  [h EXCEPT !.bucket[b] = SubSeq(@, 1, k - 1) \o SubSeq(@, k + 1, Len(@))]

bucket_append(h, s) == [h EXCEPT !.bucket[bucket_of(h.blk[s])] = Append(@, s)]

\* A free block becomes two, both free, the rest behind the first in its bucket
split(h, s, at) ==
    LET cut == [bucket_remove(h, s) EXCEPT
                   !.blk = [t \in Starts(h) \cup {s + at} |->
                                CASE t = s -> at
                                  [] t = s + at -> h.blk[s] - at
                                  [] OTHER -> h.blk[t]]]
    IN  bucket_append(bucket_append(cut, s), s + at)

-----------------------------------------------------------------------------
Needed(size) == IF size < MinBlock THEN MinBlock ELSE size

\* The size to look for: room for the alignment, rounded up to where the next
\* bucket begins, so that any block of it will do
Want(size, align) ==
    LET want == Needed(size) + align - 1 IN round_up(want, Granule(want))

\* Mutant: the search begins one bucket late
FittingMutant(h, want) ==
    {b \in Buckets : /\ b > bucket_of(want)
                     /\ h.bucket[b] # <<>>
                     /\ h.blk[Head(h.bucket[b])] >= want}

\* The buckets at or above the wanted one whose front is big enough
Fitting(h, want) ==
    {b \in Buckets : /\ b >= bucket_of(want)
                     /\ h.bucket[b] # <<>>
                     /\ h.blk[Head(h.bucket[b])] >= want}

Smallest(S) == CHOOSE b \in S : \A c \in S : b <= c

\* Mutant: what lies past the request is not given back
TrimMutant(h, s, size, align) ==
    LET at == round_up(s, align) IN IF at # s THEN split(h, s, at - s) ELSE h

\* The misaligned head goes back, and then what lies past the request
Trim(h, s, size, align) ==
    LET at == round_up(s, align)
        aligned == IF at # s THEN split(h, s, at - s) ELSE h
    IN  IF aligned.blk[at] > size THEN split(aligned, at, size) ELSE aligned

HeapInit ==
    heap = [blk |-> [s \in {0} |-> Size],
            bucket |-> [b \in Buckets |-> IF b = bucket_of(Size) THEN <<0>> ELSE <<>>],
            used |-> 0]

Fits(request, align) == Fitting(heap, Want(request, align)) # {}

\* tinynv_tlsf_alloc
Alloc(request, align) ==
    LET fitting == Fitting(heap, Want(request, align))
        s == Head(heap.bucket[Smallest(fitting)])
        h == Trim(heap, s, Needed(request), align)
        at == round_up(s, align)
    IN  /\ Fits(request, align)
        /\ heap' = [bucket_remove(h, at) EXCEPT !.used = @ + h.blk[at]]

Refuse(request, align) ==
    /\ ~Fits(request, align)
    /\ UNCHANGED heap

\* Two neighbours become one, at the place of the lower
merge(h, lower, upper) ==
    LET out == bucket_remove(bucket_remove(h, lower), upper)
    IN  bucket_append([out EXCEPT !.blk = [t \in Starts(h) \ {upper} |->
                           IF t = lower THEN h.blk[lower] + h.blk[upper] ELSE h.blk[t]]],
                      lower)

\* The loops of the release.  Each goes round once at most, since no two free
\* blocks are neighbours before it (FreeBlocksMerged).
MergeBefore(h, s) ==
    LET p == Before(h, s) \cap FreeSet(h)
    IN  IF p = {} THEN h ELSE merge(h, CHOOSE t \in p : TRUE, s)

\* Mutant: the block after is left as it is
MergeAfterMutant(h, s) == h

MergeAfter(h, s) ==
    LET n == After(h, s) \cap FreeSet(h)
    IN  IF n = {} THEN h ELSE merge(h, s, CHOOSE t \in n : TRUE)

\* The block a released one has become part of
Joined(h, s) == CHOOSE t \in Starts(h) : t <= s /\ s < End(h, t)

\* tinynv_tlsf_release; an address that is not out, or not a block's, is refused
Release(s) ==
    LET back == bucket_append([heap EXCEPT !.used = @ - heap.blk[s]], s)
        below == MergeBefore(back, s)
    IN  /\ s \in Live(heap)
        /\ heap' = MergeAfter(below, Joined(below, s))

ReleaseRefused(s) ==
    /\ s \notin Live(heap)
    /\ UNCHANGED heap

HeapNext ==
    \/ \E n \in Requests, align \in Aligns : Alloc(n, align) \/ Refuse(n, align)
    \/ \E s \in 0 .. Size - 1 : Release(s) \/ ReleaseRefused(s)

HeapSpec == HeapInit /\ [][HeapNext]_heap

-----------------------------------------------------------------------------
\* The shape of the allocator's own state
TypeOK ==
    /\ \A s \in Starts(heap) : s \in 0 .. Size - 1 /\ heap.blk[s] \in 1 .. Size
    /\ \A b \in Buckets : heap.bucket[b] \in Seq(Starts(heap))
    /\ heap.used \in 0 .. Size

\* The blocks tile the memory, and each free one is in its own size's bucket,
\* once: no sequence of splits and merges loses bytes or counts them twice, or
\* leaves a block in the bucket of a size it had.
BlocksTileMemory ==
    /\ 0 \in Starts(heap)
    /\ \A s \in Starts(heap) : End(heap, s) = Size \/ End(heap, s) \in Starts(heap)
    /\ \A s, t \in Starts(heap) : s < t => End(heap, s) <= t
    /\ \A b \in Buckets : \A i, j \in DOMAIN heap.bucket[b] :
           /\ bucket_of(heap.blk[heap.bucket[b][i]]) = b
           /\ heap.bucket[b][i] = heap.bucket[b][j] => i = j

\* The bytes counted as used are those of the blocks that are out.
UsedIsWhatIsOut ==
    heap.used = Cardinality(UNION {s .. End(heap, s) - 1 : s \in Live(heap)})

\* No two free blocks are neighbours, whatever the order of releases: space
\* that came back can be used by a larger request later.
FreeBlocksMerged ==
    \A s \in FreeSet(heap) : After(heap, s) \cap FreeSet(heap) = {}

HeapSound == TypeOK /\ BlocksTileMemory /\ UsedIsWhatIsOut /\ FreeBlocksMerged

\* A request is refused only when no gap between the blocks that are out holds
\* the rounded size it looks for: no bucket that would do is passed over.
RefusedOnlyWhenFull ==
    \A n \in Requests, align \in Aligns :
        ~Fits(n, align) =>
            \A lo \in 0 .. Size - Want(n, align) :
                \E s \in Live(heap) : s < lo + Want(n, align) /\ End(heap, s) > lo

\* The allocator keeps the promises of Allocator: blocks handed out are apart,
\* aligned, of the size asked for, and only they come back.
Promised == INSTANCE Allocator
                WITH out <- {[at |-> s, size |-> heap.blk[s]] : s \in Live(heap)},
                     Requests <- {Needed(n) : n \in Requests}

KeepsAllocatorsPromises == Promised!Spec
=============================================================================
