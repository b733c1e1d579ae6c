---------------------------- MODULE MessageRing ----------------------------
(***************************************************************************)
(* libtinynv/src/gsp.c: the two rings shared with the card's firmware, and *)
(* a driver's call across them.  A record is an element header, one unit   *)
(* long, and a message of so many units; it takes whole slots, and runs on *)
(* at the start of the ring when it does not fit the end.                  *)
(***************************************************************************)
EXTENDS Integers, Sequences, FiniteSets

CONSTANTS
    Slots,          \* msgCount
    Units,          \* msgSize, in units of an element header
    Calls,          \* what is sent: the lengths of a call's records, one after another
    Replies,        \* the lengths of what the firmware sends
    MaxBehind       \* bound: calls given up the firmware may still have to answer

ASSUME MessageRingAssumption ==
    /\ Slots \in Nat \ {0} /\ Units \in Nat \ {0} /\ MaxBehind \in Nat
    /\ Calls \subseteq Seq(Nat \ {0}) /\ Replies \subseteq Nat \ {0}

VARIABLES
    cmd_q, stat_q,  \* tinynv_rpcq_t: commands to the firmware, messages from it
    caller,         \* where the driver is in a call
    owed,           \* the calls the firmware has read and not answered
    overrun,        \* ghost: a record was stored over one the firmware had not read
    astray          \* ghost: a message was taken whose steps leave out its last slot

ringVars == <<cmd_q, stat_q, caller, owed, overrun, astray>>

round_up_div(a, b) == (a + b - 1) \div b

\* rpc_send_record: the slots a record takes
elemCount(len) == round_up_div(len + 1, Units)

\* Mutant: counts whole slots only
stepsMutant(len) == IF len < Units THEN 1 ELSE len \div Units

\* rpc_drain: the slots the driver steps over, reckoned without the element header
steps(len) == IF len = 0 THEN 1 ELSE round_up_div(len, Units)

\* A message that fills slots to the last byte has an element header over
FillsItsSlots(len) == len % Units = 0

Old == [kind |-> "old", len |-> 0, part |-> 0]
EmptyRing == [slot |-> [i \in 0 .. Slots - 1 |-> Old], writePtr |-> 0, readPtr |-> 0]

At(ptr, n) == {(ptr + i) % Slots : i \in 0 .. n - 1}

\* A record in its slots, from the write pointer round
Stored(q, kind, len) ==
    [q EXCEPT !.slot = [i \in DOMAIN @ |->
        IF i \in At(q.writePtr, elemCount(len))
        THEN [kind |-> kind, len |-> len, part |-> (i - q.writePtr + Slots) % Slots]
        ELSE @[i]]]

Published(q, n) == [q EXCEPT !.writePtr = (@ + n) % Slots]

\* What is read stays in the ring, but nobody has a use for it
Taken(q, n) ==
    [q EXCEPT !.readPtr = (@ + n) % Slots,
              !.slot = [i \in DOMAIN @ |-> IF i \in At(q.readPtr, n) THEN Old ELSE @[i]]]

Unread(q) == (q.writePtr - q.readPtr + Slots) % Slots
First(q) == q.slot[q.readPtr]

\* The record that starts in a slot is all there, in the n slots from it on
WholeAt(q, at, n) ==
    LET r == q.slot[at]
    IN  /\ r.kind # "old" /\ elemCount(r.len) <= n
        /\ \A i \in 0 .. elemCount(r.len) - 1 : q.slot[(at + i) % Slots] = [r EXCEPT !.part = i]

\* The headers a reader may see at the read pointer: what lies in the middle
\* of a message, or was left by an earlier one, is read as one too
Headers(q) ==
    IF First(q).part = 0 /\ First(q).kind # "old"
    THEN {[kind |-> First(q).kind, len |-> First(q).len]}
    ELSE [kind : {"answer", "refusal", "event"}, len : Replies]

\* rpc_drain copies a message from its first slot straight on, past the end of
\* the ring where the message runs on at its start
CopiedOut(q, h) ==
    IF h.kind = "refusal" THEN "none"
    ELSE IF q.readPtr + elemCount(h.len) <= Slots THEN "whole" ELSE "torn"

Unanswered == Cardinality({i \in At(cmd_q.readPtr, Unread(cmd_q)) :
                             cmd_q.slot[i].kind = "last" /\ cmd_q.slot[i].part = 0})

-----------------------------------------------------------------------------
RingInit ==
    /\ cmd_q = EmptyRing /\ stat_q = EmptyRing
    /\ caller = [at |-> "idle", rest |-> <<>>, taken |-> 0, expired |-> FALSE,
                 rpc_desync |-> FALSE, reply |-> "none"]
    /\ owed = 0 /\ overrun = FALSE /\ astray = FALSE

\* rpc_call begins, by emptying the queue when an answer may be late
Call(records) ==
    /\ caller.at = "idle" /\ owed + Unanswered <= MaxBehind
    /\ caller' = [caller EXCEPT !.at = IF caller.rpc_desync THEN "emptying" ELSE "storing",
                                !.rest = records, !.taken = 0, !.expired = FALSE,
                                !.reply = "none"]
    /\ UNCHANGED <<cmd_q, stat_q, owed, overrun, astray>>

\* tinynv_gsp_poll, called while a launch is waited for
Poll ==
    /\ caller.at = "idle"
    /\ caller' = [caller EXCEPT !.at = "polling", !.reply = "none"]
    /\ UNCHANGED <<cmd_q, stat_q, owed, overrun, astray>>

\* rpc_send_record: the record, in two parts when it wraps, and then the
\* pointer that announces it.  Nothing looks how far the firmware has read.
StoreRecord ==
    /\ caller.at = "storing"
    /\ cmd_q' = Stored(cmd_q, IF Len(caller.rest) = 1 THEN "last" ELSE "part", Head(caller.rest))
    /\ overrun' = (overrun \/ Unread(cmd_q) + elemCount(Head(caller.rest)) >= Slots)
    /\ caller' = [caller EXCEPT !.at = "announcing"]
    /\ UNCHANGED <<stat_q, owed, astray>>

Announce ==
    /\ caller.at = "announcing"
    /\ cmd_q' = Published(cmd_q, elemCount(Head(caller.rest)))
    /\ caller' = [caller EXCEPT !.rest = Tail(@),
                                !.at = IF Tail(caller.rest) = <<>> THEN "waiting" ELSE "storing"]
    /\ UNCHANGED <<stat_q, owed, overrun, astray>>

\* Mutant: a drain goes on while anything arrives
GarbageMutant(taken) == FALSE

\* A drain that has taken a ring's worth calls the memory corrupted
Garbage(taken) == taken >= Slots

\* rpc_drain takes a message: the call's answer ends the call, a refusal ends
\* whatever drains, others are done with
TakeMessage ==
    /\ caller.at \in {"waiting", "emptying", "polling"}
    /\ Unread(stat_q) > 0 /\ ~Garbage(caller.taken)
    /\ \E h \in Headers(stat_q) :
        /\ stat_q' = Taken(stat_q, steps(h.len))
        /\ astray' = (astray \/ FillsItsSlots(h.len))
        /\ caller' = IF h.kind = "refusal" \/ (caller.at = "waiting" /\ h.kind = "answer")
                     THEN [caller EXCEPT !.at = "idle", !.taken = 0,
                                         !.reply = CopiedOut(stat_q, h)]
                     ELSE [caller EXCEPT !.taken = IF @ < Slots THEN @ + 1 ELSE @]
    /\ UNCHANGED <<cmd_q, owed, overrun>>

DrainFails ==
    /\ caller.at \in {"waiting", "emptying", "polling"}
    /\ Unread(stat_q) > 0 /\ Garbage(caller.taken)
    /\ caller' = [caller EXCEPT !.at = "idle", !.taken = 0]
    /\ UNCHANGED <<cmd_q, stat_q, owed, overrun, astray>>

\* The drain before a call, or one for news alone, has emptied the queue
Emptied ==
    /\ Unread(stat_q) = 0
    /\ \/ /\ caller.at = "emptying"
          /\ caller' = [caller EXCEPT !.at = "storing", !.taken = 0, !.rpc_desync = FALSE]
       \/ /\ caller.at = "polling"
          /\ caller' = [caller EXCEPT !.at = "idle", !.taken = 0]
    /\ UNCHANGED <<cmd_q, stat_q, owed, overrun, astray>>

\* A drain that finds nothing is over, and rpc_wait looks at the clock
FoundNothing ==
    /\ caller.at = "waiting" /\ Unread(stat_q) = 0
    /\ caller' = [caller EXCEPT !.at = "looked", !.taken = 0]
    /\ UNCHANGED <<cmd_q, stat_q, owed, overrun, astray>>

LookAgain ==
    /\ caller.at = "looked" /\ ~caller.expired
    /\ caller' = [caller EXCEPT !.at = "waiting"]
    /\ UNCHANGED <<cmd_q, stat_q, owed, overrun, astray>>

GiveUp ==
    /\ caller.at = "looked" /\ caller.expired
    /\ caller' = [caller EXCEPT !.at = "idle", !.rpc_desync = TRUE]
    /\ UNCHANGED <<cmd_q, stat_q, owed, overrun, astray>>

Expires ==
    /\ caller.at \in {"waiting", "looked"} /\ ~caller.expired
    /\ caller' = [caller EXCEPT !.expired = TRUE]
    /\ UNCHANGED <<cmd_q, stat_q, owed, overrun, astray>>

-----------------------------------------------------------------------------
\* The firmware: it reads a record when it comes to it, answers calls it has
\* read in full, reports events, and writes only where there is room
FirmwareReads ==
    /\ Unread(cmd_q) > 0
    /\ IF WholeAt(cmd_q, cmd_q.readPtr, Unread(cmd_q))
       THEN /\ cmd_q' = Taken(cmd_q, elemCount(First(cmd_q).len))
            /\ owed' = IF First(cmd_q).kind = "last" THEN owed + 1 ELSE owed
       ELSE cmd_q' = Taken(cmd_q, Unread(cmd_q)) /\ UNCHANGED owed
    /\ UNCHANGED <<stat_q, caller, overrun, astray>>

FirmwareSays(kind, len) ==
    /\ kind # "event" => owed > 0
    /\ Unread(stat_q) + elemCount(len) < Slots
    /\ stat_q' = Published(Stored(stat_q, kind, len), elemCount(len))
    /\ owed' = IF kind = "event" THEN owed ELSE owed - 1
    /\ UNCHANGED <<cmd_q, caller, overrun, astray>>

Drive ==
    \/ StoreRecord \/ Announce
    \/ TakeMessage \/ DrainFails \/ Emptied
    \/ FoundNothing \/ LookAgain \/ GiveUp

RingNext ==
    \/ \E records \in Calls : Call(records)
    \/ Poll
    \/ Drive \/ Expires
    \/ FirmwareReads
    \/ \E kind \in {"answer", "refusal", "event"}, len \in Replies : FirmwareSays(kind, len)

-----------------------------------------------------------------------------
\* What a reader going from the read pointer to the write pointer would find:
\* records whole, or what is left of them
Found(q) ==
    LET from[n \in 0 .. Slots] ==
            IF n = 0 THEN <<>> ELSE
            LET at == (q.writePtr - n + Slots) % Slots
                r == q.slot[at]
            IN  IF WholeAt(q, at, n)
                THEN <<[kind |-> r.kind, len |-> r.len]>> \o from[n - elemCount(r.len)]
                ELSE <<[kind |-> "garbled", len |-> 0]>>
    IN  from[Unread(q)]

Commands == INSTANCE Channel WITH pending <- Found(cmd_q)
Answers == INSTANCE Channel WITH pending <- Found(stat_q)

Sent == [kind : {"part", "last"}, len : UNION {{c[i] : i \in DOMAIN c} : c \in Calls}]
Said == [kind : {"answer", "refusal", "event"}, len : Replies]

\* Either way messages are taken in the order they were put, each once, and
\* whole as they lie in the ring: through wraps, continuation records, and
\* what calls given up left behind (gsp.c:195-331). Not after a record was
\* stored over unread ones, which nothing prevents once the firmware is behind
\* (gsp.c:199-229), nor after a message that fills its slots but for the
\* element header, which is not counted when it is stepped over (gsp.c:322-324).
MessagesArrive ==
    /\ [][overrun' \/ cmd_q' = cmd_q \/ Commands!Step(Sent)]_<<cmd_q, overrun>>
    /\ [][astray' \/ stat_q' = stat_q \/ Answers!Step(Said)]_<<stat_q, astray>>

\* A call comes to an end, answered or given up, also when the firmware never
\* stops talking (gsp.c:275-279).
CallsEnd == (caller.at # "idle") ~> (caller.at = "idle")
=============================================================================
