------------------------------- MODULE GspRm -------------------------------
(***************************************************************************)
(* libtinynv/src/gsp.c: objects made and freed on the card by calls to its *)
(* firmware, and the record the driver keeps of them.  The two directions  *)
(* are channels (MessageRing shows they are).  A ticket tells one request  *)
(* from another: the messages carry none, so no step of the driver looks   *)
(* at it.                                                                  *)
(***************************************************************************)
EXTENDS Integers, Sequences, FiniteSets

CONSTANTS
    Clients,        \* clients of the firmware's resource manager
    Handles,        \* the names objects go by under their client
    Parent,         \* the handle an object hangs under, or None
    None,
    MaxCalls,       \* bound: requests sent
    MaxEvents       \* bound: events not yet taken

ASSUME GspRmAssumption ==
    /\ Parent \in [Handles -> Handles \cup {None}] /\ None \notin Handles
    /\ MaxCalls \in Nat /\ MaxEvents \in Nat

VARIABLES
    objs,           \* tinynv_gsp_t.objs: the record, oldest first
    card,           \* the objects the firmware holds
    todo, said,     \* requests to it and messages from it, in order
    call,           \* the call being waited for
    job,            \* what the driver is at: a free's cascade or a sweep
    rm              \* rpc_desync and the requests sent; ghosts: what was swept, and
                    \* the objects of allocations unheard of, of frees that failed
                    \* or were taken for done, and of frees the card denied

rmVars == <<objs, card, todo, said, call, job, rm>>

Objects == [client : Clients, handle : Handles]
Recorded == {objs[i] : i \in DOMAIN objs}
Without(o) ==
    LET at == CHOOSE i \in DOMAIN objs : objs[i] = o
    IN  [i \in 1 .. Len(objs) - 1 |-> objs[IF i < at THEN i ELSE i + 1]]

\* tinynv_rm_is_descendant, by a walk up the parents; handles are only told
\* apart within a client
Ancestors(h) ==
    LET up[n \in 0 .. Cardinality(Handles), g \in Handles \cup {None}] ==
            IF n = 0 \/ g = None \/ Parent[g] = None THEN {}
            ELSE {Parent[g]} \cup up[n - 1, Parent[g]]
    IN  up[Cardinality(Handles), h]

is_descendant(o, p) == o.client = p.client /\ p.handle \in Ancestors(o.handle)

Children(o) == {i \in DOMAIN objs : is_descendant(objs[i], o)}

\* tinynv_gsp_rm_free: the newest of an object's descendants goes before it
NextToFree(o) ==
    IF Children(o) = {} THEN o
    ELSE objs[CHOOSE i \in Children(o) : \A j \in Children(o) : j <= i]

NoCall == [fn |-> "none"]
NoJob == [kind |-> "none"]

RmInit ==
    /\ objs = <<>> /\ card = {} /\ todo = <<>> /\ said = <<>>
    /\ call = NoCall /\ job = NoJob
    /\ rm = [desync |-> FALSE, sent |-> 0, swept |-> {},
             unheard |-> {}, dropped |-> {}, denied |-> {}]

-----------------------------------------------------------------------------
\* A drain for nothing in particular: up to a message that is a refusal
Refusals == {i \in DOMAIN said : said[i].refused}
Drained ==
    IF Refusals = {} THEN <<>>
    ELSE SubSeq(said, 1 + CHOOSE i \in Refusals : \A j \in Refusals : i <= j, Len(said))

Free == call = NoCall /\ job = NoJob

\* What the job is to free now, going backwards through the record
Highest(s) == CHOOSE i \in s : \A j \in s : j <= i
InRange == {i \in DOMAIN objs : i <= job.at /\ objs[i].client \in job.clients}
TargetAt ==
    CASE job.kind = "free" -> {i \in DOMAIN objs : objs[i] = job.target}
      [] job.kind = "clients" -> {Highest(s) : s \in {InRange} \ {{}}}
      [] job.kind = "all" -> {Len(objs)} \cap DOMAIN objs
      [] OTHER -> {}

\* Mutant: what was to be freed is forgotten although the card did not agree
FailsMutant(unheard, desync) ==
    /\ job' = NoJob
    /\ objs' = SelectSeq(objs, LAMBDA x : \A c \in {call} \ {NoCall} : c.fn = "free" => c.o # x)
    /\ rm' = [rm EXCEPT !.desync = desync, !.unheard = @ \cup unheard]

\* A call fails.  A free that fails ends a plain free, is stepped over by a
\* sweep of clients, and is forgotten by a sweep of everything.
Fails(unheard, desync) ==
    /\ job' = CASE job.kind = "free" -> NoJob
                [] job.kind = "clients" ->
                     [job EXCEPT !.refused = @ + 1, !.at = Highest(TargetAt) - 1]
                [] OTHER -> job
    /\ objs' = IF job.kind = "all" THEN SubSeq(objs, 1, Len(objs) - 1) ELSE objs
    /\ rm' = [rm EXCEPT !.desync = desync, !.unheard = @ \cup unheard,
                        !.dropped = @ \cup {objs[i] : i \in {j \in TargetAt : job.kind = "all"}}]

\* Of an allocation whose own answer did not come, nobody knows what became
AllocSent == {r.o : r \in {c \in {call} : c.fn = "alloc"}}

\* rpc_call: after a call given up, what has arrived is cleared away first,
\* and a refusal among it fails this call before it is sent
rpc_call(fn, o) ==
    LET request == [fn |-> fn, o |-> o, ticket |-> rm.sent]
    IN  /\ rm.sent < MaxCalls
        /\ said' = IF rm.desync THEN Drained ELSE said
        /\ IF rm.desync /\ Refusals # {}
           THEN Fails({}, TRUE) /\ UNCHANGED <<todo, call>>
           ELSE /\ todo' = Append(todo, request)
                /\ call' = request
                /\ rm' = [rm EXCEPT !.desync = FALSE, !.sent = @ + 1, !.swept = {}]
                /\ UNCHANGED <<objs, job>>
        /\ UNCHANGED card

\* rm_alloc_as: a handle still recorded is refused without asking
Alloc(o) ==
    /\ Free /\ o \notin Recorded
    /\ Parent[o.handle] # None => [o EXCEPT !.handle = Parent[o.handle]] \in Recorded
    /\ rpc_call("alloc", o)

Control(o) == Free /\ o \in Recorded /\ rpc_call("control", o)

\* tinynv_gsp_rm_free, tinynv_gsp_rm_free_clients, tinynv_gsp_rm_free_all
Start(task) ==
    /\ Free
    /\ job' = task
    /\ UNCHANGED <<objs, card, todo, said, call, rm>>

FreeNext ==
    /\ call = NoCall
    /\ \E i \in TargetAt : rpc_call("free", NextToFree(objs[i]))

JobDone ==
    /\ job # NoJob /\ call = NoCall /\ TargetAt = {}
    /\ rm' = [rm EXCEPT !.swept = IF job.kind = "clients" /\ job.refused = 0
                                  THEN job.clients ELSE {}]
    /\ job' = NoJob
    /\ UNCHANGED <<objs, card, todo, said, call>>

-----------------------------------------------------------------------------
\* Mutant: down one for the object gone and one for the loop
SteppedMutant(i) == i - 2

\* Where a sweep goes on once the object there is freed
Stepped(i) == i - 1

\* The answer is taken: what was allocated is recorded, what was freed forgotten,
\* whichever request it answers
Succeeds(m) ==
    /\ call' = NoCall
    /\ objs' = CASE call.fn = "alloc" -> Append(objs, call.o)
                 [] call.fn = "free" -> Without(call.o)
                 [] OTHER -> objs
    /\ job' = IF job.kind = "clients" /\ objs[Highest(TargetAt)] = call.o
              THEN [job EXCEPT !.at = Stepped(Highest(TargetAt))] ELSE job
    /\ rm' = [rm EXCEPT !.dropped = IF m.ticket # call.ticket /\ call.fn = "free"
                                    THEN @ \cup {call.o} ELSE @]

\* rpc_wait takes a message: a refusal of whatever fails the call, the first
\* answer to a call of its function is the answer, the rest is passed over
TakeReply ==
    /\ call # NoCall /\ said # <<>>
    /\ LET m == Head(said)
       IN  IF m.refused
           THEN /\ Fails(IF m.ticket = call.ticket THEN {} ELSE AllocSent, rm.desync)
                /\ call' = NoCall
           ELSE IF m.fn = call.fn THEN Succeeds(m)
           ELSE UNCHANGED <<objs, call, job, rm>>
    /\ said' = Tail(said)
    /\ UNCHANGED <<card, todo>>

GiveUpCall ==
    /\ call # NoCall /\ said = <<>>
    /\ call' = NoCall
    /\ Fails(AllocSent, TRUE)
    /\ UNCHANGED <<card, todo, said>>

\* tinynv_gsp_poll: news is read between calls
PollNews ==
    /\ Free /\ said # <<>>
    /\ said' = Drained
    /\ UNCHANGED <<objs, card, todo, call, job, rm>>

-----------------------------------------------------------------------------
\* The firmware: it handles requests in order, in its own time; it may refuse
\* one by failing the message, or by a status in the answer, which the driver
\* reports of allocations and controls and does not look at of frees
Answered(refused) ==
    said' = Append(said, [fn |-> Head(todo).fn, ticket |-> Head(todo).ticket, refused |-> refused])

Grant(r) ==
    /\ card' = CASE r.fn = "alloc" -> card \cup {r.o}
                 [] r.fn = "free" -> card \ {o \in card : o = r.o \/ is_descendant(o, r.o)}
                 [] OTHER -> card
    /\ Answered(FALSE) /\ UNCHANGED rm

Refuse(r) == Answered(TRUE) /\ UNCHANGED <<card, rm>>

Deny(r) ==
    /\ rm' = IF r.fn = "free" THEN [rm EXCEPT !.denied = @ \cup {r.o}] ELSE rm
    /\ Answered(FALSE) /\ UNCHANGED card

Handle ==
    /\ todo # <<>>
    /\ Grant(Head(todo)) \/ Refuse(Head(todo)) \/ Deny(Head(todo))
    /\ todo' = Tail(todo)
    /\ UNCHANGED <<objs, call, job>>

Event ==
    /\ Len(said) < MaxEvents
    /\ said' = Append(said, [fn |-> "event", ticket |-> 0, refused |-> FALSE])
    /\ UNCHANGED <<objs, card, todo, call, job, rm>>

RmNext ==
    \/ \E o \in Objects : Alloc(o) \/ Control(o)
    \/ \E o \in Recorded : Start([kind |-> "free", target |-> o])
    \/ \E c \in SUBSET Clients \ {{}} :
          Start([kind |-> "clients", clients |-> c, at |-> Len(objs), refused |-> 0])
    \/ Start([kind |-> "all"])
    \/ FreeNext \/ JobDone
    \/ TakeReply \/ GiveUpCall \/ PollNews
    \/ Handle \/ Event

RmSpec == RmInit /\ [][RmNext]_rmVars

-----------------------------------------------------------------------------
\* Whatever the card holds and is not on record is what the call in hand is
\* about, or one of these: the object of an allocation whose own answer never
\* came, which returns before recording (gsp.c:550); of a free that a teardown
\* stepped over (gsp.c:735-738) or another request's answer was taken for; or
\* of a free the card denied in the answer's body, which nothing reads
\* (gsp.c:689-694).  Nothing else is missed (gsp.c:558-561).
Known == Recorded \cup {c.o : c \in {call} \ {NoCall}}
RecordComplete == card \subseteq Known \cup rm.unheard \cup rm.dropped \cup rm.denied

\* A sweep of clients that was refused nothing leaves nothing of theirs on the
\* card once it has done what it was asked, but for what those three leave
\* (gsp.c:705-725).
SweepLeavesNothing ==
    \A o \in card : o.client \in rm.swept => o \in rm.unheard \cup rm.dropped \cup rm.denied

\* What a call takes for its answer is the answer to its own request
\* (gsp.c:486-500).
AnswersAreItsOwn ==
    [][call # NoCall /\ said # <<>> /\ ~Head(said).refused /\ Head(said).fn = call.fn
          /\ said' = Tail(said) /\ call' = NoCall
       => Head(said).ticket = call.ticket]_rmVars
=============================================================================
