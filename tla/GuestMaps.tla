----------------------------- MODULE GuestMaps -----------------------------
(***************************************************************************)
(* libtinynv/src/gsp.c: memory a guest had allocated, mapped into the      *)
(* guest's own page tables, and the record of that.  Nothing the guest or  *)
(* the firmware says is believed: a request is decided on, then the tables *)
(* are programmed, then the mapping is recorded.                           *)
(***************************************************************************)
EXTENDS PageTable

CONSTANTS
    Guests,         \* clients of the resource manager
    GuestObjects,   \* their allocations: client, handle, frames in order, writable
    MapLengths,     \* pages a guest asks to have mapped, zero among them
    MaxMaps,        \* room in the record of mappings
    MaxPieces,      \* physical ranges a mapping may be made of
    GuestTables     \* room for page tables

ASSUME GuestMapsAssumption ==
    /\ \A o \in GuestObjects : o.client \in Guests /\ o.frames \in Seq(Nat)
    \* a handle still on record is refused, so it names one allocation of its client
    /\ \A o, p \in GuestObjects : o.client = p.client /\ o.handle = p.handle => o = p
    /\ MapLengths \subseteq Nat /\ {MaxMaps, MaxPieces, GuestTables} \subseteq Nat

VARIABLES
    held,           \* the objects on record (GspRm says how they come and go)
    gtree,          \* the guest's page tables, each page with its permission
    gmaps,          \* tinynv_rm_map_t: the record, oldest first; the offset and the
                    \* writing a mapping allows are kept only for the property
    gmade           \* page tables made

guestVars == <<held, gtree, gmaps, gmade>>

MapRequests == [client : Guests, handle : {o.handle : o \in GuestObjects},
             root : {"driver", "guest"}, va : 0 .. VaPages - 1,
             offset : 0 .. 1, length : MapLengths, readonly : BOOLEAN]

Object(req) == {o \in held : o.client = req.client /\ o.handle = req.handle}

Overlap(va, length, m) == va < m.va + m.length /\ m.va < va + length

\* tinynv_rm_map_check: what the records alone can refuse
map_check(req) ==
    /\ req.root # "driver"
    /\ req.length > 0 /\ req.va + req.length <= VaPages
    /\ \E o \in Object(req) :
          /\ req.offset + req.length <= Len(o.frames)
          /\ req.readonly \/ o.writable
    /\ \A i \in DOMAIN gmaps : ~Overlap(req.va, req.length, gmaps[i])

\* tinynv_c4b_ranges: the firmware says where a page is and for how many pages
\* that goes on, which need not be all; asked again for the rest, and too many
\* pieces are none.  A nil answer or one that is no page fails likewise.
AskedRanges(frames, offset, length) ==
    LET Contiguous(at, n) == \A i \in 1 .. n - 1 : frames[at + i] = frames[at] + i
        from[r \in (0 .. length) \X (0 .. MaxPieces)] ==
            LET done == r[1]
                room == r[2]
            IN  IF done = length THEN {<<>>}
                ELSE IF room = 0 THEN {}
                ELSE UNION {{<<[paddr |-> frames[offset + done + 1], size |-> n]>> \o rest :
                                rest \in from[<<done + n, room - 1>>]} :
                            n \in {k \in 1 .. length - done : Contiguous(offset + done + 1, k)}}
    IN  from[<<0, MaxPieces>>]

WithPermission(tree, leaves, readonly) ==
    [e \in DOMAIN tree |->
        IF tree[e].kind = "page" /\ \E i \in DOMAIN leaves : leaves[i].at = e
        THEN [kind |-> "page", frame |-> tree[e].frame, readonly |-> readonly]
        ELSE tree[e]]

\* Mutant: what was programmed before it failed is left there
RolledBackMutant(tree, va, length) == tree

\* A failed mapping is torn down by its range, which no other mapping may reach
RolledBack(tree, va, length) == Unmapped(tree, va, length)

\* tinynv_c4b_map: decide, look for room to record it, program, record
GuestMap(req, ranges) ==
    LET leaves == LeavesOf(req.va, ranges)
        room == GuestTables - gmade
        busy == range_is_mapped(gtree, req.va, req.length)
        built == IF busy THEN gtree
                 ELSE WithPermission(Built(gtree, leaves, room), leaves, req.readonly)
        done == ~busy /\ Reached(gtree, leaves, room) = Len(leaves)
    IN  /\ map_check(req) /\ Len(gmaps) < MaxMaps
        /\ gmade' = IF busy THEN gmade ELSE gmade + Cardinality(Made(gtree, leaves, room))
        /\ gtree' = IF done THEN built ELSE RolledBack(built, req.va, req.length)
        /\ gmaps' = IF done THEN Append(gmaps, [client |-> req.client, handle |-> req.handle,
                                                va |-> req.va, length |-> req.length,
                                                offset |-> req.offset, readonly |-> req.readonly])
                    ELSE gmaps
        /\ UNCHANGED held

\* tinynv_rm_unmap_check: all of a mapping of one's own, or nothing
unmap_check(m, client, va, length) ==
    m.client = client /\ m.va = va /\ m.length = length

\* An unmap that passed the check: the tables' range is cleared, the record dropped
GuestUnmap(client, va, length) ==
    /\ \E i \in DOMAIN gmaps :
          /\ unmap_check(gmaps[i], client, va, length)
          /\ gmaps' = [j \in 1 .. Len(gmaps) - 1 |-> IF j < i THEN gmaps[j] ELSE gmaps[j + 1]]
    /\ gtree' = Unmapped(gtree, va, length)
    /\ UNCHANGED <<held, gmade>>

\* The object is freed (tinynv_gsp_rm_free), which asks about no mapping
FreeObject(o) ==
    /\ held' = held \ {o}
    /\ UNCHANGED <<gtree, gmaps, gmade>>

GuestInit ==
    /\ held = GuestObjects /\ gmaps = <<>> /\ gmade = 0
    /\ gtree = EmptyTree

GuestNext ==
    \/ \E req \in MapRequests : \E o \in Object(req) :
          /\ req.offset + req.length <= Len(o.frames)
          /\ \E ranges \in AskedRanges(o.frames, req.offset, req.length) : GuestMap(req, ranges)
    \/ \E client \in Guests, va \in 0 .. VaPages - 1, length \in MapLengths :
          GuestUnmap(client, va, length)
    \/ \E o \in held : FreeObject(o)

GuestSpec == GuestInit /\ [][GuestNext]_guestVars
-----------------------------------------------------------------------------
Granted(m) ==
    LET o == CHOOSE g \in GuestObjects : g.client = m.client /\ g.handle = m.handle
    IN  {<<m.va + i, o.frames[m.offset + i + 1], m.readonly>> : i \in 0 .. m.length - 1}

Leaf(va) == gtree[Entry(Stop(gtree, va), va)]

Reachable ==
    UNION {{<<va, f, Leaf(va).readonly>> : f \in Translate(gtree, va)} : va \in 0 .. VaPages - 1}

\* What a guest can reach, and how, is what is on record, no less and no more:
\* a mapping refused at any point leaves nothing, and none is undone but whole
\* (gsp.c:2316-2326, gsp.h:88-90, 170-171).
GuestReachesWhatIsRecorded ==
    Reachable = UNION {Granted(gmaps[i]) : i \in DOMAIN gmaps}
=============================================================================
