----------------------------- MODULE GspProofs -----------------------------
(***************************************************************************)
(* Proofs about the card's firmware as the driver deals with it: the       *)
(* objects it holds (GspRm), its readings (Sensors), and its start and its *)
(* end (Boot).  The three share no variable, and so no lemma.              *)
(***************************************************************************)
EXTENDS GspRm, Sensors, Boot, SequenceTheorems, WellFoundedInduction, TLAPS

-----------------------------------------------------------------------------
(***************************************************************************)
(* GspRm.  Nothing the card holds is off the record, for any number of     *)
(* clients, objects, calls and events, any tree of handles, and any order  *)
(* of late answers, refusals and timeouts.                                 *)
(*                                                                         *)
(* The firmware works in order and tickets grow (TicketsOK), so by the     *)
(* time the answer to the call in hand is in the channel nothing older is  *)
(* left to be done: what a free answered is gone or was denied             *)
(* (AnsweredFreeIsGone), what an allocation was refused was not made       *)
(* (RefusedNotMade), and the allocations still to be done are the call's   *)
(* own, those nobody heard of and those on record already (LateAllocs).    *)
(***************************************************************************)

Functions3 == {"alloc", "control", "free"}
Request == [fn : Functions3, o : Objects, ticket : Nat]
Message == [fn : Functions3, ticket : Nat, refused : BOOLEAN]
           \cup [fn : {"event"}, ticket : Nat, refused : {FALSE}]
Job == {NoJob} \cup [kind : {"free"}, target : Objects] \cup [kind : {"all"}]
       \cup [kind : {"clients"}, clients : SUBSET Clients, at : Int, refused : Nat]

RmType == [desync : BOOLEAN, sent : Nat, swept : SUBSET Clients, unheard : SUBSET Objects,
           dropped : SUBSET Objects, denied : SUBSET Objects]

RmTypeOK ==
    /\ objs \in Seq(Objects) /\ card \in SUBSET Objects
    /\ todo \in Seq(Request) /\ said \in Seq(Message)
    /\ call \in Request \cup {NoCall} /\ job \in Job
    /\ rm \in RmType

\* What RecordComplete excuses
Lost == rm.unheard \cup rm.dropped \cup rm.denied

\* The record names each object once.
RecordOK == \A i, j \in DOMAIN objs : objs[i] = objs[j] => i = j

\* Requests and answers are in the order they were sent; the call in hand was
\* the last.
TicketsOK ==
    /\ \A i \in DOMAIN todo : todo[i].ticket < rm.sent
    /\ \A i, j \in DOMAIN todo : i < j => todo[i].ticket < todo[j].ticket
    /\ \A i \in DOMAIN said : said[i].fn # "event" =>
          /\ said[i].ticket < rm.sent
          /\ \A j \in DOMAIN todo : said[i].ticket < todo[j].ticket
    /\ call # NoCall => call.ticket = rm.sent - 1
    /\ call # NoCall => \A i \in DOMAIN todo : todo[i].ticket = call.ticket => todo[i] = call

\* An allocation is asked for off the record, the rest on it; a job only frees,
\* and while it does its target stands.
CallOK ==
    call # NoCall =>
        /\ IF call.fn = "alloc" THEN call.o \notin Recorded ELSE call.o \in Recorded
        /\ job # NoJob => call.fn = "free" /\ TargetAt # {}
        /\ rm.swept = {}

LateAllocs ==
    \A i \in DOMAIN todo :
        todo[i].fn = "alloc" => todo[i] = call \/ todo[i].o \in Lost \/ todo[i].o \in Recorded

AnsweredFreeIsGone ==
    \A i \in DOMAIN said :
        /\ call # NoCall /\ call.fn = "free" /\ said[i].fn = "free"
        /\ ~ said[i].refused /\ said[i].ticket = call.ticket
        => call.o \notin card \/ call.o \in Lost

\* What the call allocates and the card has, it has made for this call: it is
\* not to be done any more, and was not refused.
RefusedNotMade ==
    call # NoCall /\ call.fn = "alloc" /\ call.o \in card \ Lost =>
        /\ \A i \in DOMAIN todo : todo[i].ticket # call.ticket
        /\ \A i \in DOMAIN said : said[i].ticket = call.ticket => ~ said[i].refused

CardKnown ==
    card \subseteq Recorded \cup Lost \cup {c.o : c \in {x \in {call} : x.fn = "alloc"}}

\* A sweep refused nothing has left none of its clients' objects behind it.
SweepOK ==
    job.kind = "clients" /\ job.refused = 0 =>
        \A i \in DOMAIN objs : objs[i].client \in job.clients => i <= job.at

\* Nor is anything of theirs recorded again before the next request.
SweptOff == \A i \in DOMAIN objs : objs[i].client \notin rm.swept

RInv == /\ RmTypeOK /\ RecordOK /\ TicketsOK /\ CallOK /\ LateAllocs /\ AnsweredFreeIsGone
        /\ RefusedNotMade /\ CardKnown /\ SweepOK /\ SweptOff /\ SweepLeavesNothing

-----------------------------------------------------------------------------
\* A set of numbers has a least member, and one that is bounded a greatest.
LEMMA LeastExists ==
    ASSUME NEW s \in SUBSET Nat, s # {}
    PROVE  \E x \in s : \A y \in s : x <= y
<1> DEFINE R == {ss \in Nat \X Nat : ss[1] < ss[2]}
<1>1. IsWellFoundedOn(R, Nat)
    BY NatLessThanWellFounded DEF OpToRel
<1> HIDE DEF R
<1>2. PICK x \in s : \A y \in s : ~ (<<y, x>> \in R)
    BY <1>1, WFMin
<1>3. ASSUME NEW y \in s PROVE x <= y
  <2>1. x \in Nat /\ y \in Nat
      OBVIOUS
  <2>2. y < x => <<y, x>> \in R
      BY <2>1 DEF R
  <2> QED BY <1>2, <2>1, <2>2
<1> QED BY <1>3

LEMMA HighestIn ==
    ASSUME NEW n \in Nat, NEW s \in SUBSET (1 .. n), s # {}
    PROVE  Highest(s) \in s /\ \A j \in s : j <= Highest(s)
<1> DEFINE d == {n - i : i \in s}
<1>1. \A i \in s : i \in 1 .. n /\ n - i \in Nat /\ n - i \in d
    OBVIOUS
<1>2. d \in SUBSET Nat /\ d # {}
    BY <1>1
<1>3. PICK x \in d : \A y \in d : x <= y
    BY <1>2, LeastExists
<1>4. PICK i \in s : x = n - i
    OBVIOUS
<1>5. ASSUME NEW j \in s PROVE j <= i
  <2> HIDE DEF d
  <2>1. n - i <= n - j
      BY <1>1, <1>3, <1>4
  <2>2. i \in Nat /\ j \in Nat
      BY <1>1
  <2> QED BY <2>1, <2>2
<1> QED BY <1>5 DEF Highest

\* The sequence t holds nothing that s does not.
Among(t, s) == \A i \in DOMAIN t : \E k \in DOMAIN s : t[i] = s[k]

LEMMA DrainedAmong ==
    ASSUME RmTypeOK
    PROVE  Drained \in Seq(Message) /\ Among(Drained, said)
<1>0. said \in Seq(Message)
    BY DEF RmTypeOK
<1>1. CASE Refusals = {}
    BY <1>1 DEF Drained, Among
<1>2. CASE Refusals # {}
  <2> DEFINE k == CHOOSE i \in Refusals : \A j \in Refusals : i <= j
  <2>1. Refusals \in SUBSET Nat
      BY <1>0 DEF Refusals
  <2>2. \E i \in Refusals : \A j \in Refusals : i <= j
      BY <2>1, <1>2, LeastExists
  <2>3. k \in Refusals
      BY <2>2
  <2>4. k \in 1 .. Len(said)
      BY <2>3, <1>0 DEF Refusals
  <2>5. Drained = SubSeq(said, 1 + k, Len(said))
      BY <1>2 DEF Drained
  <2> HIDE DEF k
  <2>6. /\ Drained \in Seq(Message)
        /\ Len(Drained) = Len(said) - k
        /\ \A i \in 1 .. Len(said) - k : Drained[i] = said[i + k]
      BY <2>4, <2>5, <1>0, SubSeqProperties
  <2>7. ASSUME NEW i \in DOMAIN Drained
        PROVE  \E j \in DOMAIN said : Drained[i] = said[j]
    <3>1. i \in 1 .. Len(said) - k /\ i + k \in DOMAIN said
        BY <2>4, <2>6, <1>0
    <3> QED BY <3>1, <2>6
  <2> QED BY <2>6, <2>7 DEF Among
<1> QED BY <1>1, <1>2

LEMMA TailAmong ==
    ASSUME RmTypeOK, said # <<>>
    PROVE  /\ Tail(said) \in Seq(Message) /\ Among(Tail(said), said)
           /\ 1 \in DOMAIN said /\ Head(said) = said[1] /\ Head(said) \in Message
<1>0. said \in Seq(Message)
    BY DEF RmTypeOK
<1>1. Tail(said) \in Seq(Message) /\ Len(Tail(said)) = Len(said) - 1 /\ Len(said) >= 1
      /\ \A i \in 1 .. Len(said) - 1 : Tail(said)[i] = said[i + 1]
    BY <1>0
<1>2. ASSUME NEW i \in DOMAIN Tail(said)
      PROVE  \E k \in DOMAIN said : Tail(said)[i] = said[k]
  <2>1. i \in 1 .. Len(said) - 1 /\ i + 1 \in DOMAIN said
      BY <1>0, <1>1
  <2> QED BY <2>1, <1>1
<1>3. 1 \in DOMAIN said /\ Head(said) = said[1] /\ said[1] \in Message
    BY <1>0, <1>1
<1> QED BY <1>1, <1>2, <1>3 DEF Among

\* What is left of the record once an object is out of it, and where.
LEMMA WithoutIs ==
    ASSUME RmTypeOK, RecordOK, NEW o \in Recorded
    PROVE  \E hole \in DOMAIN objs :
              /\ objs[hole] = o
              /\ Without(o) \in Seq(Objects)
              /\ Len(Without(o)) = Len(objs) - 1
              /\ \A i \in 1 .. Len(objs) - 1 :
                    Without(o)[i] = objs[IF i < hole THEN i ELSE i + 1]
<1> DEFINE hole == CHOOSE i \in DOMAIN objs : objs[i] = o
           W == [i \in 1 .. Len(objs) - 1 |-> objs[IF i < hole THEN i ELSE i + 1]]
<1>0. objs \in Seq(Objects)
    BY DEF RmTypeOK
<1>1. hole \in DOMAIN objs /\ objs[hole] = o
    BY DEF Recorded
<1>2. hole \in 1 .. Len(objs) /\ Len(objs) - 1 \in Nat
    BY <1>0, <1>1
<1>3. Without(o) = W
    BY DEF Without
<1> HIDE DEF hole
<1>4. ASSUME NEW i \in 1 .. Len(objs) - 1
      PROVE  objs[IF i < hole THEN i ELSE i + 1] \in Objects
  <2>1. i \in 1 .. Len(objs) /\ i + 1 \in 1 .. Len(objs)
      BY <1>2
  <2> QED BY <2>1, <1>0
<1>5. W \in [1 .. Len(objs) - 1 -> Objects]
    BY <1>4
<1>7. \A i \in 1 .. Len(objs) - 1 : W[i] = objs[IF i < hole THEN i ELSE i + 1]
    OBVIOUS
<1> HIDE DEF W
<1>6. W \in Seq(Objects) /\ Len(W) = Len(objs) - 1
    BY <1>5, <1>2
<1> QED BY <1>1, <1>3, <1>6, <1>7

\* The target of a job is on record, and so is what goes before it.
LEMMA TargetIn ==
    ASSUME RmTypeOK, RecordOK, TargetAt # {}
    PROVE  /\ TargetAt = {Highest(TargetAt)} /\ Highest(TargetAt) \in DOMAIN objs
           /\ job.kind = "all" => Highest(TargetAt) = Len(objs)
           /\ job.kind = "clients" => /\ job # NoJob /\ Highest(TargetAt) \in InRange
                                      /\ \A j \in InRange : j <= Highest(TargetAt)
<1>0. objs \in Seq(Objects) /\ job \in Job
    BY DEF RmTypeOK
<1>1. \A i \in Int : Highest({i}) = i
    BY DEF Highest
<1>2. CASE job.kind = "free"
  <2>1. TargetAt = {i \in DOMAIN objs : objs[i] = job.target}
      BY <1>2 DEF TargetAt
  <2>2. PICK i \in DOMAIN objs : objs[i] = job.target
      BY <2>1
  <2>3. TargetAt = {i}
      BY <2>1, <2>2 DEF RecordOK
  <2>4. i \in Int
      BY <1>0
  <2> QED BY <1>1, <1>2, <2>3, <2>4
<1>3. CASE job.kind = "clients"
  <2>1. TargetAt = {Highest(s) : s \in {InRange} \ {{}}}
      BY <1>3 DEF TargetAt
  <2>2. InRange # {} /\ TargetAt = {Highest(InRange)}
      BY <2>1
  <2>3. InRange \in SUBSET (1 .. Len(objs)) /\ Len(objs) \in Nat
      BY <1>0 DEF InRange
  <2>4. Highest(InRange) \in InRange /\ \A j \in InRange : j <= Highest(InRange)
      BY <2>2, <2>3, HighestIn
  <2>5. Highest(InRange) \in Int /\ Highest(InRange) \in DOMAIN objs
    <3> DEFINE h == Highest(InRange)
    <3>1. h \in 1 .. Len(objs)
        BY <2>3, <2>4
    <3> HIDE DEF h
    <3>2. h \in Int /\ h \in DOMAIN objs
        BY <3>1, <1>0
    <3> QED BY <3>2 DEF h
  <2>6. Highest(TargetAt) = Highest(InRange)
      BY <1>1, <2>2, <2>5
  <2>7. job # NoJob
      BY <1>3 DEF NoJob
  <2> QED BY <1>3, <2>2, <2>4, <2>5, <2>6, <2>7
<1>4. CASE job.kind = "all"
  <2>1. TargetAt = {Len(objs)} \cap DOMAIN objs
      BY <1>4 DEF TargetAt
  <2>2. TargetAt = {Len(objs)} /\ Len(objs) \in DOMAIN objs /\ Len(objs) \in Int
      BY <2>1, <1>0
  <2> QED BY <1>1, <1>4, <2>2
<1>5. CASE job.kind \notin {"free", "clients", "all"}
    BY <1>5 DEF TargetAt
<1> QED BY <1>2, <1>3, <1>4, <1>5

LEMMA NextRecorded ==
    ASSUME RmTypeOK, NEW o \in Recorded
    PROVE  NextToFree(o) \in Recorded
<1>0. objs \in Seq(Objects)
    BY DEF RmTypeOK
<1>1. CASE Children(o) = {}
    BY <1>1 DEF NextToFree
<1>2. CASE Children(o) # {}
  <2>1. Children(o) \in SUBSET (1 .. Len(objs)) /\ Len(objs) \in Nat
      BY <1>0 DEF Children
  <2>2. Highest(Children(o)) \in Children(o)
      BY <1>2, <2>1, HighestIn
  <2>3. NextToFree(o) = objs[Highest(Children(o))]
      BY <1>2 DEF NextToFree, Highest
  <2>4. Highest(Children(o)) \in DOMAIN objs
      BY <2>2 DEF Children
  <2> QED BY <2>3, <2>4 DEF Recorded
<1> QED BY <1>1, <1>2

-----------------------------------------------------------------------------
LEMMA InitRInv ==
    ASSUME RmInit
    PROVE  RInv
<1>1. RmTypeOK
    BY DEF RmInit, RmTypeOK, RmType, Job
<1>2. RecordOK /\ TicketsOK /\ CallOK /\ LateAllocs /\ AnsweredFreeIsGone /\ RefusedNotMade
    BY DEF RmInit, RecordOK, TicketsOK, CallOK, LateAllocs, AnsweredFreeIsGone, RefusedNotMade
<1>3. CardKnown /\ SweepOK /\ SweptOff /\ SweepLeavesNothing
    BY DEF RmInit, CardKnown, SweepOK, SweptOff, SweepLeavesNothing, NoJob
<1> QED BY <1>1, <1>2, <1>3 DEF RInv

LEMMA CallIsRequest ==
    ASSUME RmTypeOK, call # NoCall
    PROVE  /\ call \in Request /\ call.fn \in Functions3 /\ call.o \in Objects
           /\ call.ticket \in Nat
<1>1. call \in Request
    BY DEF RmTypeOK
<1> QED BY <1>1 DEF Request

\* With no call in hand, every allocation still to be done is one nobody heard
\* of or on record.
LEMMA LateAllocsFree ==
    ASSUME RInv, call = NoCall, NEW i \in DOMAIN todo, todo[i].fn = "alloc"
    PROVE  todo[i].o \in Lost \/ todo[i].o \in Recorded
<1>1. todo[i].fn # NoCall.fn
    BY DEF NoCall
<1> QED BY <1>1 DEF RInv, LateAllocs

\* A step that ends the call in hand, if any, and leaves the firmware's side as
\* it is: what is in doubt only grows.
LEMMA EndsCall ==
    ASSUME RInv, RmTypeOK', RecordOK', call' = NoCall,
           card' = card, todo' = todo, Among(said', said),
           rm'.sent = rm.sent, Lost \subseteq Lost', rm'.swept = rm.swept,
           \A i \in DOMAIN todo : todo[i].fn = "alloc" => todo[i].o \in Recorded' \cup Lost',
           card \cap Recorded \subseteq Recorded' \cup Lost',
           call # NoCall /\ call.fn = "alloc" /\ call.o \in card => call.o \in Recorded' \cup Lost',
           SweepOK', SweptOff'
    PROVE  RInv'
<1>1. TicketsOK'
  <2>1. ASSUME NEW i \in DOMAIN said', said'[i].fn # "event"
        PROVE  /\ said'[i].ticket < rm'.sent
               /\ \A j \in DOMAIN todo' : said'[i].ticket < todo'[j].ticket
    <3>1. PICK k \in DOMAIN said : said'[i] = said[k]
        BY DEF Among
    <3> QED BY <2>1, <3>1 DEF RInv, TicketsOK
  <2> QED BY <2>1 DEF RInv, TicketsOK
<1>2. CallOK'
    BY DEF CallOK
<1>3. LateAllocs'
    BY DEF LateAllocs
<1>4. AnsweredFreeIsGone' /\ RefusedNotMade'
    BY DEF AnsweredFreeIsGone, RefusedNotMade
<1>5. CardKnown'
  <2>1. ASSUME NEW o \in card PROVE o \in Recorded' \cup Lost'
    <3>1. CASE o \in Recorded \/ o \in Lost
        BY <3>1
    <3>2. CASE o \in {c.o : c \in {x \in {call} : x.fn = "alloc"}}
      <4>1. call.fn = "alloc" /\ o = call.o
          BY <3>2
      <4>2. call # NoCall
          BY <4>1 DEF NoCall
      <4> QED BY <4>1, <4>2
    <3> QED BY <3>1, <3>2 DEF RInv, CardKnown
  <2> QED BY <2>1 DEF CardKnown
<1>6. SweepLeavesNothing'
    BY DEF RInv, SweepLeavesNothing, Lost
<1> QED BY <1>1, <1>2, <1>3, <1>4, <1>5, <1>6 DEF RInv

\* A call that fails, sent or not.
LEMMA FailsKeeps ==
    ASSUME RInv, NEW asked \in SUBSET Objects, NEW desync \in BOOLEAN, Fails(asked, desync),
           call # NoCall /\ call.fn = "alloc" /\ call.o \in card \ Lost => call.o \in asked,
           \A i \in DOMAIN todo : todo[i].fn = "alloc" /\ todo[i] = call => call.o \in asked,
           call # NoCall => rm.swept = {},
           job # NoJob => TargetAt # {},
           call' = NoCall, card' = card, todo' = todo,
           said' \in Seq(Message), Among(said', said)
    PROVE  RInv'
<1>0. RmTypeOK /\ RecordOK /\ objs \in Seq(Objects) /\ job \in Job /\ rm \in RmType
    BY DEF RInv, RmTypeOK
<1> DEFINE doubt == {objs[i] : i \in {j \in TargetAt : job.kind = "all"}}
<1>2. doubt \in SUBSET Objects
  <2>1. ASSUME NEW i \in TargetAt, job.kind = "all" PROVE objs[i] \in Objects
      BY <1>0, <2>1 DEF TargetAt
  <2> QED BY <2>1
<1>3. rm' = [rm EXCEPT !.desync = desync, !.unheard = rm.unheard \cup asked,
                       !.dropped = rm.dropped \cup doubt]
    BY DEF Fails
<1>5. job.kind = "all" => /\ TargetAt = {Len(objs)} /\ Len(objs) \in DOMAIN objs
                          /\ objs[Len(objs)] \in doubt
  <2>1. job.kind = "all" => TargetAt # {}
      BY DEF NoJob
  <2> QED BY <2>1, <1>0, TargetIn
<1> HIDE DEF doubt
<1>6. /\ rm' \in RmType
      /\ rm'.sent = rm.sent /\ Lost \subseteq Lost' /\ rm'.swept = rm.swept
      /\ asked \subseteq Lost' /\ doubt \subseteq Lost'
    BY <1>0, <1>2, <1>3 DEF RmType, Lost
<1>7. /\ objs' \in Seq(Objects) /\ Len(objs') <= Len(objs)
      /\ \A i \in DOMAIN objs' : i \in DOMAIN objs /\ objs'[i] = objs[i]
      /\ \A i \in DOMAIN objs : i \in DOMAIN objs' \/ objs[i] \in doubt
  <2>1. CASE job.kind = "all"
    <3>1. objs' = SubSeq(objs, 1, Len(objs) - 1)
        BY <2>1 DEF Fails
    <3>2. Len(objs) \in 1 .. Len(objs) /\ Len(objs) - 1 \in Nat
        BY <1>5, <1>0, <2>1
    <3>3. /\ objs' \in Seq(Objects) /\ Len(objs') = Len(objs) - 1
          /\ \A i \in 1 .. Len(objs) - 1 : objs'[i] = objs[i]
      <4>1. PICK n \in Nat : n = Len(objs) - 1
          BY <3>2
      <4>2. \A i \in 1 .. n : objs[i] \in Objects
          BY <1>0, <4>1
      <4>3. /\ SubSeq(objs, 1, n) \in Seq(Objects)
            /\ Len(SubSeq(objs, 1, n)) = IF 1 <= n THEN n - 1 + 1 ELSE 0
            /\ \A i \in 1 .. n - 1 + 1 : SubSeq(objs, 1, n)[i] = objs[1 + i - 1]
          BY <4>2, SubSeqProperties
      <4> QED BY <3>1, <4>1, <4>3
    <3>4. \A i \in DOMAIN objs : i \in 1 .. Len(objs) - 1 \/ i = Len(objs)
        BY <1>0
    <3>5. DOMAIN objs' = 1 .. Len(objs) - 1 /\ DOMAIN objs = 1 .. Len(objs) /\ Len(objs) \in Nat
        BY <1>0, <3>3
    <3>6. \A i \in DOMAIN objs' : i \in DOMAIN objs /\ objs'[i] = objs[i]
        BY <3>3, <3>5
    <3>7. Len(objs') <= Len(objs)
        BY <3>3, <3>5
    <3>8. \A i \in DOMAIN objs : i \in DOMAIN objs' \/ objs[i] \in doubt
        BY <3>4, <3>5, <1>5, <2>1
    <3> QED BY <3>3, <3>6, <3>7, <3>8
  <2>2. CASE job.kind # "all"
    <3>1. objs' = objs
        BY <2>2 DEF Fails
    <3> QED BY <3>1, <1>0
  <2> QED BY <2>1, <2>2
<1>8. job' \in Job
  <2>1. CASE job.kind = "free"
      BY <2>1 DEF Fails, Job
  <2>2. CASE job.kind = "clients"
    <3>0. job # NoJob
        BY <2>2 DEF NoJob
    <3>1. job \in [kind : {"clients"}, clients : SUBSET Clients, at : Int, refused : Nat]
        BY <1>0, <2>2 DEF Job, NoJob
    <3>2. Highest(TargetAt) \in DOMAIN objs
        BY <1>0, <3>0, TargetIn
    <3>3. Highest(TargetAt) - 1 \in Int
        BY <3>2, <1>0
    <3>4. job' = [job EXCEPT !.refused = job.refused + 1, !.at = Highest(TargetAt) - 1]
        BY <2>2 DEF Fails
    <3>5. job' \in [kind : {"clients"}, clients : SUBSET Clients, at : Int, refused : Nat]
      <4>1. job.refused \in Nat
          BY <3>1
      <4>2. PICK r \in Nat : r = job.refused + 1
          BY <4>1
      <4>3. PICK h \in Int : h = Highest(TargetAt) - 1
          BY <3>3
      <4>4. job' = [job EXCEPT !.refused = r, !.at = h]
          BY <3>4, <4>2, <4>3
      <4> QED BY <3>1, <4>4
    <3> QED BY <3>5 DEF Job
  <2>3. CASE job.kind \notin {"free", "clients"}
    <3>1. job' = job
        BY <2>3 DEF Fails
    <3> QED BY <3>1, <1>0
  <2> QED BY <2>1, <2>2, <2>3
<1>9. RmTypeOK'
    BY <1>0, <1>6, <1>7, <1>8 DEF RmTypeOK
<1>10. RecordOK'
    BY <1>0, <1>7 DEF RecordOK
<1>11. Recorded \subseteq Recorded' \cup Lost'
  <2>1. ASSUME NEW i \in DOMAIN objs PROVE objs[i] \in Recorded' \cup Lost'
    <3>1. i \in DOMAIN objs' => objs[i] \in Recorded'
        BY <1>7 DEF Recorded
    <3> QED BY <3>1, <1>6, <1>7
  <2> QED BY <2>1 DEF Recorded
<1>12. SweepOK'
  <2> SUFFICES ASSUME job'.kind = "clients", job'.refused = 0
               PROVE  \A i \in DOMAIN objs' : objs'[i].client \in job'.clients => i <= job'.at
      BY DEF SweepOK
  <2>1. CASE job.kind = "clients"
    <3>1. job \in [kind : {"clients"}, clients : SUBSET Clients, at : Int, refused : Nat]
        BY <1>0, <2>1 DEF Job, NoJob
    <3>2. job'.refused = job.refused + 1
        BY <2>1, <3>1 DEF Fails
    <3> QED BY <3>1, <3>2
  <2>2. CASE job.kind # "clients"
    <3>1. job' = job \/ job' = NoJob
        BY <2>2 DEF Fails
    <3> QED BY <2>2, <3>1 DEF NoJob
  <2> QED BY <2>1, <2>2
<1>13. \A i \in DOMAIN todo : todo[i].fn = "alloc" => todo[i].o \in Recorded' \cup Lost'
    BY <1>6, <1>11 DEF RInv, LateAllocs
<1>14. call # NoCall /\ call.fn = "alloc" /\ call.o \in card => call.o \in Recorded' \cup Lost'
    BY <1>6
<1>15. card \cap Recorded \subseteq Recorded' \cup Lost'
    BY <1>11
<1>16. SweptOff'
    BY <1>6, <1>7 DEF RInv, SweptOff
<1> QED BY <1>6, <1>9, <1>10, <1>12, <1>13, <1>14, <1>15, <1>16, EndsCall

\* A request is sent, or refused before it is.
LEMMA RpcCallKeeps ==
    ASSUME RInv, NEW fn \in Functions3, NEW o \in Objects, rpc_call(fn, o), call = NoCall,
           IF fn = "alloc" THEN o \notin Recorded ELSE o \in Recorded,
           job # NoJob => fn = "free" /\ TargetAt # {}
    PROVE  RInv'
<1> DEFINE request == [fn |-> fn, o |-> o, ticket |-> rm.sent]
<1>0. RmTypeOK /\ TicketsOK /\ todo \in Seq(Request) /\ said \in Seq(Message)
      /\ rm \in RmType
    BY DEF RInv, RmTypeOK
<1>1. said' \in Seq(Message) /\ Among(said', said)
  <2>1. Among(said, said)
      BY DEF Among
  <2>2. said' = Drained \/ said' = said
      BY DEF rpc_call
  <2> QED BY <2>1, <2>2, <1>0, DrainedAmong
<1>2. card' = card
    BY DEF rpc_call
<1>3. CASE rm.desync /\ Refusals # {}
  <2>1. Fails({}, TRUE) /\ todo' = todo /\ call' = call
      BY <1>3 DEF rpc_call
  <2>2. {} \in SUBSET Objects /\ TRUE \in BOOLEAN
      OBVIOUS
  <2>3. ASSUME NEW i \in DOMAIN todo, todo[i].fn = "alloc" PROVE todo[i] # call
      BY <2>3 DEF NoCall
  <2> QED BY <1>1, <1>2, <2>1, <2>2, <2>3, FailsKeeps
<1>4. CASE ~ (rm.desync /\ Refusals # {})
  <2>1. /\ todo' = Append(todo, request) /\ call' = request
        /\ rm' = [rm EXCEPT !.desync = FALSE, !.sent = rm.sent + 1, !.swept = {}]
        /\ objs' = objs /\ job' = job
      BY <1>4 DEF rpc_call
  <2>2. /\ request \in Request /\ request.fn = fn /\ request.o = o /\ request.ticket = rm.sent
        /\ request # NoCall
      BY <1>0 DEF Request, NoCall, Functions3, RmType
  <2> HIDE DEF request
  <2>3. /\ rm' \in RmType
        /\ rm'.sent = rm.sent + 1 /\ Lost' = Lost /\ rm'.swept = {} /\ rm.sent \in Nat
    <3>1. rm.sent \in Nat
        BY <1>0 DEF RmType
    <3>2. PICK n \in Nat : n = rm.sent + 1
        BY <3>1
    <3>3. rm' = [rm EXCEPT !.desync = FALSE, !.sent = n, !.swept = {}]
        BY <2>1, <3>2
    <3> QED BY <1>0, <3>1, <3>2, <3>3 DEF RmType, Lost
  <2>4. /\ todo' \in Seq(Request) /\ Len(todo') = Len(todo) + 1
        /\ \A i \in DOMAIN todo' :
              (i \in DOMAIN todo /\ todo'[i] = todo[i]) \/ (i = Len(todo) + 1 /\ todo'[i] = request)
        /\ \A i \in DOMAIN todo : i \in 1 .. Len(todo) /\ todo[i].ticket \in Nat
    <3>1. /\ todo' \in Seq(Request) /\ Len(todo') = Len(todo) + 1
          /\ \A i \in 1 .. Len(todo) : todo'[i] = todo[i]
          /\ todo'[Len(todo) + 1] = request
        BY <1>0, <2>1, <2>2, AppendProperties
    <3>2. ASSUME NEW i \in DOMAIN todo
          PROVE  i \in 1 .. Len(todo) /\ todo[i].ticket \in Nat
      <4>1. todo[i] \in Request
          BY <1>0
      <4> QED BY <1>0, <4>1 DEF Request
    <3>3. DOMAIN todo' = 1 .. Len(todo) + 1 /\ DOMAIN todo = 1 .. Len(todo) /\ Len(todo) \in Nat
        BY <1>0, <3>1
    <3> QED BY <3>1, <3>2, <3>3
  <2>5. RmTypeOK'
      BY <1>0, <1>1, <1>2, <2>1, <2>2, <2>3, <2>4 DEF RmTypeOK
  <2>6. Recorded' = Recorded /\ TargetAt' = TargetAt
      BY <2>1 DEF Recorded, TargetAt, InRange
  <2>7. TicketsOK'
    <3>1. \A i \in DOMAIN todo' : todo'[i].ticket < rm'.sent
        BY <1>0, <2>2, <2>3, <2>4 DEF TicketsOK
    <3>2. ASSUME NEW i \in DOMAIN todo', NEW j \in DOMAIN todo', i < j
          PROVE  todo'[i].ticket < todo'[j].ticket
      <4>1. i \in DOMAIN todo
        <5>1. j <= Len(todo) + 1 /\ i \in Nat /\ j \in Nat /\ Len(todo) \in Nat
            BY <2>4, <1>0
        <5> QED BY <5>1, <3>2, <2>4
      <4> QED BY <4>1, <3>2, <1>0, <2>2, <2>4 DEF TicketsOK
    <3>3. ASSUME NEW i \in DOMAIN said', said'[i].fn # "event"
          PROVE  /\ said'[i].ticket < rm'.sent
                 /\ \A j \in DOMAIN todo' : said'[i].ticket < todo'[j].ticket
      <4>1. PICK k \in DOMAIN said : said'[i] = said[k]
          BY <1>1 DEF Among
      <4>2. said[k] \in Message
          BY <1>0
      <4>3. said[k].ticket \in Nat
          BY <4>2 DEF Message
      <4>4. /\ said'[i].ticket < rm.sent
            /\ \A j \in DOMAIN todo : said'[i].ticket < todo[j].ticket
          BY <3>3, <4>1, <1>0 DEF TicketsOK
      <4>5. said'[i].ticket < rm'.sent
          BY <4>1, <4>3, <4>4, <2>3
      <4>6. ASSUME NEW j \in DOMAIN todo' PROVE said'[i].ticket < todo'[j].ticket
        <5>1. todo'[j] = request \/ (j \in DOMAIN todo /\ todo'[j] = todo[j])
            BY <2>4
        <5> QED BY <5>1, <4>4, <2>2
      <4> QED BY <4>5, <4>6
    <3>4. call'.ticket = rm'.sent - 1
        BY <2>1, <2>2, <2>3
    <3>5. ASSUME NEW i \in DOMAIN todo', todo'[i].ticket = call'.ticket
          PROVE  todo'[i] = call'
        BY <3>5, <1>0, <2>1, <2>2, <2>3, <2>4 DEF TicketsOK
    <3> QED BY <3>1, <3>2, <3>3, <3>4, <3>5 DEF TicketsOK
  <2>8. CallOK'
      BY <2>1, <2>2, <2>3, <2>6 DEF CallOK
  <2>9. LateAllocs'
    <3>1. ASSUME NEW i \in DOMAIN todo', todo'[i].fn = "alloc"
          PROVE  todo'[i] = call' \/ todo'[i].o \in Lost' \/ todo'[i].o \in Recorded'
        BY <3>1, <2>1, <2>3, <2>4, <2>6, LateAllocsFree
    <3> QED BY <3>1 DEF LateAllocs
  <2>10. AnsweredFreeIsGone' /\ RefusedNotMade'
    <3>1. ASSUME NEW i \in DOMAIN said', said'[i].fn # "event"
          PROVE  said'[i].ticket # call'.ticket
      <4>1. PICK k \in DOMAIN said : said'[i] = said[k]
          BY <1>1 DEF Among
      <4>2. said[k] \in Message
          BY <1>0
      <4>3. said[k].ticket \in Nat
          BY <4>2 DEF Message
      <4>4. said[k].ticket < rm.sent
          BY <1>0, <3>1, <4>1 DEF TicketsOK
      <4> QED BY <4>1, <4>3, <4>4, <2>1, <2>2, <2>3
    <3>2. AnsweredFreeIsGone'
        BY <3>1 DEF AnsweredFreeIsGone
    <3>4. call'.fn = "alloc" => call'.o \notin card \ Lost
      <4>1. {c.o : c \in {x \in {call} : x.fn = "alloc"}} = {}
          BY DEF NoCall
      <4>2. card \subseteq Recorded \cup Lost
          BY <4>1 DEF RInv, CardKnown
      <4> QED BY <4>2, <2>1, <2>2
    <3>5. RefusedNotMade'
        BY <3>4, <1>2, <2>3 DEF RefusedNotMade
    <3> QED BY <3>2, <3>5
  <2>11. CardKnown'
    <3>1. {c.o : c \in {x \in {call} : x.fn = "alloc"}} = {}
        BY DEF NoCall
    <3>2. card \subseteq Recorded \cup Lost
        BY <3>1 DEF RInv, CardKnown
    <3> QED BY <1>2, <2>3, <2>6, <3>2 DEF CardKnown
  <2>12. SweepOK' /\ SweptOff' /\ SweepLeavesNothing' /\ RecordOK'
      BY <2>1, <2>3 DEF RInv, SweepOK, SweptOff, SweepLeavesNothing, RecordOK
  <2> QED BY <2>5, <2>7, <2>8, <2>9, <2>10, <2>11, <2>12 DEF RInv
<1> QED BY <1>3, <1>4

\* The answer is taken.
LEMMA SucceedsKeeps ==
    ASSUME RInv, call # NoCall, said # <<>>, Head(said).fn = call.fn, ~ Head(said).refused,
           Succeeds(Head(said)), said' = Tail(said), card' = card, todo' = todo
    PROVE  RInv'
<1> DEFINE m == Head(said)
<1>0. RmTypeOK /\ RecordOK /\ TicketsOK /\ objs \in Seq(Objects) /\ job \in Job
      /\ rm \in RmType
    BY DEF RInv, RmTypeOK
<1>1. /\ Tail(said) \in Seq(Message) /\ Among(Tail(said), said)
      /\ 1 \in DOMAIN said /\ Head(said) = said[1]
    BY <1>0, TailAmong
<1>2. call.fn \in Functions3 /\ call.o \in Objects /\ call' = NoCall
    BY <1>0, CallIsRequest DEF Succeeds
<1>3. /\ rm' \in RmType
      /\ rm'.sent = rm.sent /\ Lost \subseteq Lost' /\ rm'.swept = rm.swept /\ rm.swept = {}
      /\ m.ticket # call.ticket /\ call.fn = "free" => call.o \in Lost'
  <2> DEFINE more == IF m.ticket # call.ticket /\ call.fn = "free"
                     THEN rm.dropped \cup {call.o} ELSE rm.dropped
  <2>1. rm' = [rm EXCEPT !.dropped = more]
      BY DEF Succeeds
  <2>2. /\ more \in SUBSET Objects /\ rm.dropped \subseteq more
        /\ m.ticket # call.ticket /\ call.fn = "free" => call.o \in more
      BY <1>0, <1>2 DEF RmType
  <2>3. rm.swept = {}
      BY DEF RInv, CallOK
  <2> HIDE DEF more
  <2> QED BY <1>0, <2>1, <2>2, <2>3 DEF RmType, Lost
\* The answer to this very call is the last word of the firmware so far.
<1>4. ASSUME NEW i \in DOMAIN todo PROVE m.ticket # call.ticket
  <2>1. m.fn # "event"
      BY <1>2 DEF Functions3
  <2>2. m.ticket < todo[i].ticket /\ todo[i].ticket < rm.sent /\ call.ticket = rm.sent - 1
      BY <1>0, <1>1, <2>1 DEF TicketsOK
  <2>3. todo[i] \in Request
      BY <1>0 DEF RmTypeOK
  <2>4. todo[i].ticket \in Nat /\ rm.sent \in Nat
      BY <1>0, <2>3 DEF Request, RmType
  <2> QED BY <2>2, <2>4
\* What is to be allocated yet stays excused or on record.
<1>8. ASSUME NEW i \in DOMAIN todo, todo[i].fn = "alloc",
             \A o \in Recorded : o = call.o \/ o \in Recorded',
             call.fn = "alloc" => call.o \in Recorded',
             call.fn = "control" => call.o \in Recorded'
      PROVE  todo[i].o \in Recorded' \cup Lost'
  <2>1. call.o \in Recorded' \cup Lost'
      BY <1>2, <1>3, <1>4, <1>8 DEF Functions3
  <2> QED BY <2>1, <1>3, <1>8 DEF RInv, LateAllocs
<1>9. SweptOff'
    BY <1>3 DEF SweptOff
<1>5. CASE call.fn = "alloc"
  <2>1. objs' = Append(objs, call.o) /\ call.o \notin Recorded /\ job = NoJob
      BY <1>5 DEF Succeeds, RInv, CallOK
  <2>2. /\ objs' \in Seq(Objects) /\ Len(objs') = Len(objs) + 1
        /\ \A i \in DOMAIN objs : i \in DOMAIN objs' /\ objs'[i] = objs[i]
        /\ Len(objs) + 1 \in DOMAIN objs' /\ objs'[Len(objs) + 1] = call.o
        /\ \A i \in DOMAIN objs' : i \in DOMAIN objs \/ i = Len(objs) + 1
      BY <1>0, <1>2, <2>1, AppendProperties
  <2>3. job' = NoJob
      BY <2>1 DEF Succeeds, NoJob
  <2>4. RmTypeOK'
      BY <1>0, <1>1, <1>2, <1>3, <2>2, <2>3 DEF RmTypeOK, Job
  <2>5. \A i \in DOMAIN objs : objs[i] # call.o
      BY <2>1 DEF Recorded
  <2>6. RecordOK'
      BY <2>2, <2>5, <1>0 DEF RecordOK
  <2>7. Recorded \subseteq Recorded' /\ call.o \in Recorded'
      BY <2>2 DEF Recorded
  <2>8. SweepOK'
      BY <2>3 DEF SweepOK, NoJob
  <2>9. card \cap Recorded \subseteq Recorded' \cup Lost'
      BY <2>7
  <2>10. \A i \in DOMAIN todo : todo[i].fn = "alloc" => todo[i].o \in Recorded' \cup Lost'
      BY <1>5, <1>8, <2>7
  <2> QED BY <1>1, <1>2, <1>3, <1>9, <2>4, <2>6, <2>7, <2>8, <2>9, <2>10, EndsCall
<1>6. CASE call.fn = "control"
  <2>1. objs' = objs /\ job = NoJob
      BY <1>6 DEF Succeeds, RInv, CallOK
  <2>3. job' = NoJob
      BY <2>1 DEF Succeeds, NoJob
  <2>4. RmTypeOK'
      BY <1>0, <1>1, <1>2, <1>3, <2>1, <2>3 DEF RmTypeOK, Job
  <2>6. RecordOK'
      BY <2>1, <1>0 DEF RecordOK
  <2>8. SweepOK'
      BY <2>3 DEF SweepOK, NoJob
  <2>7. Recorded' = Recorded /\ call.o \in Recorded
      BY <1>6, <2>1 DEF Recorded, RInv, CallOK
  <2>9. card \cap Recorded \subseteq Recorded' \cup Lost'
      BY <2>7
  <2>10. call.fn # "alloc"
      BY <1>6
  <2>11. \A i \in DOMAIN todo : todo[i].fn = "alloc" => todo[i].o \in Recorded' \cup Lost'
      BY <1>6, <1>8, <2>7
  <2> QED BY <1>1, <1>2, <1>3, <1>9, <2>4, <2>6, <2>8, <2>9, <2>10, <2>11, EndsCall
<1>7. CASE call.fn = "free"
  <2>1. objs' = Without(call.o) /\ call.o \in Recorded
      BY <1>7 DEF Succeeds, RInv, CallOK
  <2>2. PICK hole \in DOMAIN objs :
              /\ objs[hole] = call.o
              /\ objs' \in Seq(Objects)
              /\ Len(objs') = Len(objs) - 1
              /\ \A i \in 1 .. Len(objs) - 1 : objs'[i] = objs[IF i < hole THEN i ELSE i + 1]
      BY <2>1, <1>0, WithoutIs
  <2>3. ASSUME NEW i \in DOMAIN objs'
        PROVE  /\ i \in DOMAIN objs /\ i + 1 \in DOMAIN objs
               /\ IF i < hole THEN objs'[i] = objs[i] ELSE objs'[i] = objs[i + 1]
    <3>1. i \in 1 .. Len(objs) - 1 /\ Len(objs) \in Nat
        BY <1>0, <2>2
    <3> QED BY <1>0, <2>2, <3>1
  <2>4. ASSUME NEW k \in DOMAIN objs, objs[k] # call.o
        PROVE  \E i \in DOMAIN objs' : objs'[i] = objs[k]
    <3>1. k \in 1 .. Len(objs) /\ hole \in 1 .. Len(objs) /\ k # hole /\ DOMAIN objs' = 1 .. Len(objs) - 1
        BY <1>0, <2>2, <2>4
    <3>2. CASE k < hole
      <4>1. k \in DOMAIN objs'
          BY <3>1, <3>2
      <4> QED BY <4>1, <3>2, <2>3
    <3>3. CASE hole < k
      <4>1. k - 1 \in DOMAIN objs' /\ ~ (k - 1 < hole) /\ (k - 1) + 1 = k
          BY <3>1, <3>3
      <4>2. objs'[k - 1] = objs[k]
          BY <4>1, <2>3
      <4> QED BY <4>1, <4>2
    <3> QED BY <3>1, <3>2, <3>3
  <2>5. RecordOK'
    <3>1. ASSUME NEW i \in DOMAIN objs', NEW j \in DOMAIN objs', objs'[i] = objs'[j]
          PROVE  i = j
      <4>1. i \in Nat /\ j \in Nat /\ hole \in Nat
          BY <1>0, <2>3, <2>2
      <4> QED BY <4>1, <3>1, <2>3, <1>0 DEF RecordOK
    <3> QED BY <3>1 DEF RecordOK
  <2>6. job.kind = "clients" =>
           /\ job \in [kind : {"clients"}, clients : SUBSET Clients, at : Int, refused : Nat]
           /\ Highest(TargetAt) \in DOMAIN objs /\ Highest(TargetAt) \in Int
           /\ Highest(TargetAt) \in InRange /\ \A j \in InRange : j <= Highest(TargetAt)
    <3> SUFFICES ASSUME job.kind = "clients"
                 PROVE  <2>6!2
        OBVIOUS
    <3>1. job # NoJob
        BY DEF NoJob
    <3>2. job \in [kind : {"clients"}, clients : SUBSET Clients, at : Int, refused : Nat]
        BY <1>0 DEF Job, NoJob
    <3>3. TargetAt # {}
        BY <3>1 DEF RInv, CallOK
    <3>4. \A i \in DOMAIN objs : i \in Int
        BY <1>0
    <3> QED BY <3>2, <3>3, <3>4, <1>0, TargetIn
  <2>7. \/ job' = job
        \/ /\ job.kind = "clients" /\ objs[Highest(TargetAt)] = call.o
           /\ job' = [job EXCEPT !.at = Highest(TargetAt) - 1]
      BY DEF Succeeds, Stepped
  <2>8. job' \in Job
    <3> DEFINE h == Highest(TargetAt) - 1
    <3>1. job.kind = "clients" => h \in Int
        BY <2>6
    <3> HIDE DEF h
    <3>2. CASE job.kind = "clients" /\ job' = [job EXCEPT !.at = h]
      <4>1. job' \in [kind : {"clients"}, clients : SUBSET Clients, at : Int, refused : Nat]
          BY <3>1, <3>2, <2>6
      <4> QED BY <4>1 DEF Job
    <3> QED BY <2>7, <3>2, <1>0 DEF h
  <2>9. RmTypeOK'
      BY <1>0, <1>1, <1>2, <1>3, <2>2, <2>8 DEF RmTypeOK
  <2>10. card \cap Recorded \subseteq Recorded' \cup Lost'
    <3>1. ASSUME NEW k \in DOMAIN objs, objs[k] \in card
          PROVE  objs[k] \in Recorded' \cup Lost'
      <4>1. CASE objs[k] # call.o
          BY <4>1, <2>4 DEF Recorded
      <4>2. CASE objs[k] = call.o
        <5>1. m.ticket # call.ticket \/ call.o \in Lost
            BY <1>1, <1>7, <3>1, <4>2 DEF RInv, AnsweredFreeIsGone
        <5> QED BY <5>1, <1>3, <1>7, <4>2
      <4> QED BY <4>1, <4>2
    <3> QED BY <3>1 DEF Recorded
  <2>11. SweepOK'
    <3> SUFFICES ASSUME job'.kind = "clients", job'.refused = 0,
                        NEW i \in DOMAIN objs', objs'[i].client \in job'.clients
                 PROVE  i <= job'.at
        BY DEF SweepOK
    <3>1. /\ job.kind = "clients" /\ job.refused = 0 /\ job'.clients = job.clients
          /\ job'.at = job.at \/ /\ objs[Highest(TargetAt)] = call.o
                                 /\ job'.at = Highest(TargetAt) - 1
        BY <2>6, <2>7
    <3>2. \A k \in DOMAIN objs : objs[k].client \in job.clients =>
              k <= job.at /\ k \in InRange /\ k <= Highest(TargetAt)
        BY <3>1, <2>6 DEF RInv, SweepOK, InRange
    <3>3. i \in Int /\ hole \in Int /\ job.at \in Int
        BY <1>0, <2>2, <2>3, <2>6, <3>1
    <3>4. IF i < hole THEN objs[i].client \in job.clients ELSE objs[i + 1].client \in job.clients
        BY <2>3, <3>1
    <3>5. CASE job'.at = job.at
        BY <3>2, <3>3, <3>4, <3>5, <2>3
    <3>6. CASE objs[Highest(TargetAt)] = call.o /\ job'.at = Highest(TargetAt) - 1
      <4>1. Highest(TargetAt) = hole
          BY <3>1, <3>6, <2>2, <2>6, <1>0 DEF RecordOK
      <4> QED BY <3>2, <3>3, <3>4, <3>6, <4>1, <2>3
    <3> QED BY <3>1, <3>5, <3>6
  <2>12. call.fn # "alloc"
      BY <1>7
  <2>13. \A o \in Recorded : o = call.o \/ o \in Recorded'
      BY <2>4 DEF Recorded
  <2>14. \A i \in DOMAIN todo : todo[i].fn = "alloc" => todo[i].o \in Recorded' \cup Lost'
      BY <1>7, <1>8, <2>13
  <2> QED BY <1>1, <1>2, <1>3, <1>9, <2>5, <2>9, <2>10, <2>11, <2>12, <2>14, EndsCall
<1> QED BY <1>2, <1>5, <1>6, <1>7 DEF Functions3

\* A step that leaves the record, the call in hand and the job alone.
LEMMA SameSide ==
    ASSUME RInv, UNCHANGED <<objs, call, job>>, rm' \in RmType, rm'.swept = rm.swept,
           card' \in SUBSET Objects, todo' \in Seq(Request), said' \in Seq(Message),
           TicketsOK', LateAllocs', AnsweredFreeIsGone', RefusedNotMade', CardKnown',
           SweepLeavesNothing'
    PROVE  RInv'
<1>1. RmTypeOK' /\ RecordOK' /\ SweepOK' /\ SweptOff'
    BY DEF RInv, RmTypeOK, RecordOK, SweepOK, SweptOff
<1>2. TargetAt' = TargetAt /\ Recorded' = Recorded
    BY DEF TargetAt, InRange, Recorded
<1>3. CallOK'
    BY <1>2 DEF RInv, CallOK
<1> QED BY <1>1, <1>3 DEF RInv

LEMMA SaidKeeps ==
    ASSUME RInv, UNCHANGED <<objs, card, todo, call, job, rm>>,
           said' \in Seq(Message), Among(said', said)
    PROVE  RInv'
<1>1. /\ card' \in SUBSET Objects /\ todo' \in Seq(Request) /\ rm' \in RmType /\ Lost' = Lost
      /\ LateAllocs' /\ CardKnown' /\ SweepLeavesNothing'
    BY DEF RInv, RmTypeOK, LateAllocs, CardKnown, SweepLeavesNothing, Recorded, Lost
<1>2. TicketsOK'
  <2>1. ASSUME NEW i \in DOMAIN said', said'[i].fn # "event"
        PROVE  /\ said'[i].ticket < rm'.sent
               /\ \A j \in DOMAIN todo' : said'[i].ticket < todo'[j].ticket
    <3>1. PICK k \in DOMAIN said : said'[i] = said[k]
        BY DEF Among
    <3> QED BY <2>1, <3>1 DEF RInv, TicketsOK
  <2> QED BY <2>1 DEF RInv, TicketsOK
<1>3. AnsweredFreeIsGone'
  <2>1. ASSUME NEW i \in DOMAIN said', call # NoCall, call.fn = "free", said'[i].fn = "free",
               ~ said'[i].refused, said'[i].ticket = call.ticket
        PROVE  call.o \notin card \/ call.o \in Lost
    <3>1. PICK k \in DOMAIN said : said'[i] = said[k]
        BY DEF Among
    <3> QED BY <2>1, <3>1 DEF RInv, AnsweredFreeIsGone
  <2> QED BY <2>1, <1>1 DEF AnsweredFreeIsGone
<1>4. RefusedNotMade'
    BY <1>1 DEF RInv, RefusedNotMade, Among
<1> QED BY <1>1, <1>2, <1>3, <1>4, SameSide

LEMMA AnsweredKeeps ==
    ASSUME RInv, TakeReply
    PROVE  RInv'
<1>0. RmTypeOK /\ call # NoCall /\ said # <<>> /\ said' = Tail(said) /\ card' = card /\ todo' = todo
    BY DEF TakeReply, RInv
<1>1. /\ Tail(said) \in Seq(Message) /\ Among(Tail(said), said) /\ Head(said) \in Message
    BY <1>0, TailAmong
<1>2. CASE Head(said).refused
  <2> DEFINE asked == IF Head(said).ticket = call.ticket THEN {} ELSE AllocSent
  <2>1. Fails(asked, rm.desync) /\ call' = NoCall
      BY <1>2 DEF TakeReply
  <2>2. rm.desync \in BOOLEAN /\ rm.swept = {}
      BY <1>0 DEF RmTypeOK, RmType, RInv, CallOK
  <2>3. job # NoJob => TargetAt # {}
      BY <1>0 DEF RInv, CallOK
  <2>4. asked \in SUBSET Objects
      BY <1>0, CallIsRequest DEF AllocSent
  <2>5. call.fn = "alloc" => call.o \in AllocSent
      BY DEF AllocSent
  <2>6. 1 \in DOMAIN said /\ Head(said) = said[1] /\ said[1].fn # "event"
      BY <1>0, <1>1, <1>2, TailAmong DEF Message, Functions3
  <2>7. call.fn = "alloc" /\ call.o \in card \ Lost => call.o \in asked
      BY <1>0, <1>2, <2>5, <2>6 DEF RInv, RefusedNotMade
  <2>8. ASSUME NEW i \in DOMAIN todo, todo[i].fn = "alloc", todo[i] = call
        PROVE  call.o \in asked
    <3>1. said[1].ticket < call.ticket
        BY <2>6, <2>8 DEF RInv, TicketsOK
    <3>2. call.ticket \in Nat
        BY <1>0, CallIsRequest
    <3> QED BY <3>1, <3>2, <2>5, <2>6, <2>8
  <2> HIDE DEF asked
  <2> QED BY <1>0, <1>1, <2>1, <2>2, <2>3, <2>4, <2>7, <2>8, FailsKeeps
<1>3. CASE ~ Head(said).refused /\ Head(said).fn = call.fn
  <2>1. Succeeds(Head(said))
      BY <1>3 DEF TakeReply
  <2> QED BY <1>0, <1>3, <2>1, SucceedsKeeps
<1>4. CASE ~ Head(said).refused /\ Head(said).fn # call.fn
  <2>1. UNCHANGED <<objs, call, job, rm>>
      BY <1>4 DEF TakeReply
  <2> QED BY <1>0, <1>1, <2>1, SaidKeeps
<1> QED BY <1>2, <1>3, <1>4

LEMMA GiveUpKeeps ==
    ASSUME RInv, GiveUpCall
    PROVE  RInv'
<1>1. /\ call # NoCall /\ call' = NoCall /\ Fails(AllocSent, TRUE)
      /\ card' = card /\ todo' = todo /\ said' = said
    BY DEF GiveUpCall
<1>2. said' \in Seq(Message) /\ Among(said', said)
    BY <1>1 DEF RInv, RmTypeOK, Among
<1>3. (job # NoJob => TargetAt # {}) /\ rm.swept = {}
    BY <1>1 DEF RInv, CallOK
<1>4. AllocSent \in SUBSET Objects /\ TRUE \in BOOLEAN
    BY <1>1, CallIsRequest DEF AllocSent, RInv
<1>5. call.fn = "alloc" => call.o \in AllocSent
    BY DEF AllocSent
<1> QED BY <1>1, <1>2, <1>3, <1>4, <1>5, FailsKeeps

LEMMA PollKeeps ==
    ASSUME RInv, PollNews
    PROVE  RInv'
<1>1. UNCHANGED <<objs, card, todo, call, job, rm>> /\ said' = Drained
    BY DEF PollNews
<1>2. said' \in Seq(Message) /\ Among(said', said)
    BY <1>1, DrainedAmong DEF RInv
<1> QED BY <1>1, <1>2, SaidKeeps

LEMMA EventKeeps ==
    ASSUME RInv, Event
    PROVE  RInv'
<1> DEFINE e == [fn |-> "event", ticket |-> 0, refused |-> FALSE]
<1>0. RmTypeOK /\ TicketsOK /\ AnsweredFreeIsGone /\ said \in Seq(Message)
    BY DEF RInv, RmTypeOK
<1>1. UNCHANGED <<objs, card, todo, call, job, rm>> /\ said' = Append(said, e)
    BY DEF Event
<1>2. e \in Message /\ e.fn = "event" /\ ~ e.refused
    BY DEF Message
<1> HIDE DEF e
<1>3. said' \in Seq(Message)
      /\ \A i \in DOMAIN said' : (i \in DOMAIN said /\ said'[i] = said[i]) \/ said'[i] = e
  <2>1. /\ said' \in Seq(Message) /\ Len(said') = Len(said) + 1
        /\ \A i \in 1 .. Len(said) : said'[i] = said[i]
        /\ said'[Len(said) + 1] = e
      BY <1>0, <1>1, <1>2, AppendProperties
  <2>2. DOMAIN said' = 1 .. Len(said) + 1 /\ DOMAIN said = 1 .. Len(said) /\ Len(said) \in Nat
      BY <1>0, <2>1
  <2> QED BY <2>1, <2>2
<1>4. TicketsOK'
    BY <1>0, <1>1, <1>2, <1>3 DEF TicketsOK
<1>5. AnsweredFreeIsGone'
    BY <1>0, <1>1, <1>2, <1>3 DEF AnsweredFreeIsGone, Lost
<1>6. /\ card' \in SUBSET Objects /\ todo' \in Seq(Request) /\ rm' \in RmType
      /\ LateAllocs' /\ CardKnown' /\ SweepLeavesNothing'
    BY <1>0, <1>1 DEF RInv, RmTypeOK, LateAllocs, CardKnown, SweepLeavesNothing, Recorded, Lost
<1>7. RefusedNotMade'
    BY <1>1, <1>2, <1>3 DEF RInv, RefusedNotMade, Lost
<1> QED BY <1>1, <1>3, <1>4, <1>5, <1>6, <1>7, SameSide

\* The firmware takes the oldest request and says so.
LEMMA HandleKeeps ==
    ASSUME RInv, Handle
    PROVE  RInv'
<1> DEFINE r == Head(todo)
           gone == {o \in card : o = r.o \/ is_descendant(o, r.o)}
<1>0. /\ RmTypeOK /\ TicketsOK /\ LateAllocs /\ AnsweredFreeIsGone /\ CallOK /\ CardKnown
      /\ SweepLeavesNothing /\ said \in Seq(Message) /\ todo \in Seq(Request) /\ todo # <<>>
      /\ card \in SUBSET Objects
    BY DEF RInv, RmTypeOK, Handle
<1>1. todo' = Tail(todo) /\ UNCHANGED <<objs, call, job>>
    BY DEF Handle
<1>2. PICK refused \in BOOLEAN :
         /\ said' = Append(said, [fn |-> r.fn, ticket |-> r.ticket, refused |-> refused])
         /\ \/ /\ card' = CASE r.fn = "alloc" -> card \cup {r.o}
                              [] r.fn = "free" -> card \ gone
                              [] OTHER -> card
               /\ rm' = rm /\ ~ refused
            \/ card' = card /\ rm' = rm /\ refused
            \/ /\ card' = card /\ ~ refused
               /\ rm' = IF r.fn = "free" THEN [rm EXCEPT !.denied = rm.denied \cup {r.o}] ELSE rm
    BY DEF Handle, Answered, Grant, Refuse, Deny
<1> DEFINE m == [fn |-> r.fn, ticket |-> r.ticket, refused |-> refused]
<1>3. /\ 1 \in DOMAIN todo /\ r = todo[1] /\ r \in Request
      /\ todo' \in Seq(Request)
      /\ \A i \in DOMAIN todo' : i + 1 \in DOMAIN todo /\ todo'[i] = todo[i + 1] /\ i \in Nat /\ i > 0
  <2>1. Len(todo) >= 1 /\ Len(Tail(todo)) = Len(todo) - 1 /\ Tail(todo) \in Seq(Request)
        /\ \A i \in 1 .. Len(todo) - 1 : Tail(todo)[i] = todo[i + 1]
      BY <1>0
  <2>2. 1 \in DOMAIN todo /\ r = todo[1] /\ todo[1] \in Request
      BY <1>0, <2>1
  <2>3. ASSUME NEW i \in DOMAIN Tail(todo)
        PROVE  i \in 1 .. Len(todo) - 1 /\ i + 1 \in DOMAIN todo /\ i \in Nat /\ i > 0
      BY <1>0, <2>1
  <2> QED BY <1>1, <2>1, <2>2, <2>3
<1>4. r.fn \in Functions3 /\ r.o \in Objects /\ r.ticket \in Nat
    BY <1>3 DEF Request
<1>5. m \in Message /\ m.fn = r.fn /\ m.ticket = r.ticket
    BY <1>4 DEF Message
<1>16. /\ rm' \in RmType /\ rm'.sent = rm.sent /\ rm'.swept = rm.swept /\ Lost \subseteq Lost'
       /\ card' = card /\ ~ refused /\ r.fn = "free" => r.o \in Lost' \/ r.o \notin card
  <2>1. rm \in RmType
      BY <1>0 DEF RmTypeOK
  <2>2. rm' = rm => rm' \in RmType /\ rm'.sent = rm.sent /\ rm'.swept = rm.swept /\ Lost' = Lost
      BY <2>1 DEF Lost
  <2>3. CASE rm' = [rm EXCEPT !.denied = rm.denied \cup {r.o}]
      BY <1>4, <2>1, <2>3 DEF RmType, Lost
  <2>4. CASE card' = card \ gone /\ rm' = rm
      BY <2>2, <2>4
  <2>5. CASE rm' = rm /\ (refused \/ r.fn # "free")
      BY <2>2, <2>5
  <2> QED BY <1>2, <1>4, <2>3, <2>4, <2>5 DEF Functions3
<1>6. \/ card' = card \cup {r.o} /\ r.fn = "alloc" /\ ~ refused
      \/ card' = card \ gone /\ r.fn = "free"
      \/ card' = card
    BY <1>2, <1>4 DEF Functions3
<1> HIDE DEF r, m
<1>7. r.o \notin card \ gone /\ card \ gone \subseteq card
    OBVIOUS
<1> HIDE DEF gone
<1>8. /\ said' \in Seq(Message)
      /\ \A i \in DOMAIN said' : (i \in DOMAIN said /\ said'[i] = said[i]) \/ said'[i] = m
  <2>1. /\ said' \in Seq(Message) /\ Len(said') = Len(said) + 1
        /\ \A i \in 1 .. Len(said) : said'[i] = said[i]
        /\ said'[Len(said) + 1] = m
    <3>1. said' = Append(said, m)
        BY <1>2 DEF m
    <3> QED BY <1>0, <1>5, <3>1, AppendProperties
  <2>2. DOMAIN said' = 1 .. Len(said) + 1 /\ DOMAIN said = 1 .. Len(said) /\ Len(said) \in Nat
      BY <1>0, <2>1
  <2> QED BY <2>1, <2>2
<1>9. TicketsOK'
  <2>1. \A i \in DOMAIN todo' : r.ticket < todo'[i].ticket /\ r.ticket < rm.sent
                                /\ todo'[i].ticket < rm.sent
      BY <1>0, <1>3 DEF TicketsOK
  <2>2. ASSUME NEW i \in DOMAIN todo', NEW j \in DOMAIN todo', i < j
        PROVE  todo'[i].ticket < todo'[j].ticket
    <3>1. i + 1 < j + 1
        BY <1>3, <2>2
    <3> QED BY <1>0, <1>3, <3>1 DEF TicketsOK
  <2>3. ASSUME NEW i \in DOMAIN said', said'[i].fn # "event"
        PROVE  /\ said'[i].ticket < rm'.sent
               /\ \A j \in DOMAIN todo' : said'[i].ticket < todo'[j].ticket
    <3>1. CASE said'[i] = m
        BY <3>1, <1>0, <1>1, <1>3, <1>5, <1>16, <2>1 DEF TicketsOK
    <3>2. CASE i \in DOMAIN said /\ said'[i] = said[i]
        BY <3>2, <2>3, <1>0, <1>1, <1>3, <1>16 DEF TicketsOK
    <3> QED BY <3>1, <3>2, <1>8
  <2> QED BY <2>1, <2>2, <2>3, <1>0, <1>1, <1>3, <1>16 DEF TicketsOK
<1>10. Recorded' = Recorded /\ LateAllocs'
  <2>1. Recorded' = Recorded
      BY <1>1 DEF Recorded
  <2> QED BY <1>0, <1>1, <1>3, <1>16, <2>1 DEF LateAllocs
\* Whatever the card took on was the call's own, excused or on record already.
<1>11. \A o \in card' :
          \/ o \in card
          \/ /\ o = r.o /\ r.fn = "alloc" /\ ~ refused
             /\ r = call \/ o \in Lost \/ o \in Recorded
    BY <1>0, <1>3, <1>6, <1>7 DEF LateAllocs
<1>12. CardKnown'
  <2>1. ASSUME NEW o \in card'
        PROVE  o \in (Recorded \cup Lost \cup {c.o : c \in {x \in {call} : x.fn = "alloc"}})
      BY <1>0, <1>11 DEF CardKnown
  <2> QED BY <2>1, <1>1, <1>10, <1>16 DEF CardKnown
<1>13. SweepLeavesNothing'
  <2>1. ASSUME NEW o \in card', o.client \in rm.swept PROVE o \in Lost
    <3>1. CASE r = call
      <4>1. call # NoCall
          BY <3>1, <1>4 DEF NoCall, Functions3
      <4> QED BY <2>1, <4>1, <1>0 DEF CallOK
    <3>2. CASE o \in Recorded
        BY <2>1, <3>2 DEF RInv, SweptOff, Recorded
    <3>3. CASE r # call /\ o \notin Recorded
        BY <2>1, <3>3, <1>0, <1>11 DEF SweepLeavesNothing, Lost
    <3> QED BY <3>1, <3>2, <3>3
  <2> QED BY <2>1, <1>16 DEF SweepLeavesNothing, Lost
<1>17. RefusedNotMade'
  <2> SUFFICES ASSUME call # NoCall, call.fn = "alloc", call.o \in card', call.o \notin Lost'
               PROVE  /\ \A i \in DOMAIN todo' : todo'[i].ticket # call.ticket
                      /\ \A i \in DOMAIN said' : said'[i].ticket = call.ticket => ~ said'[i].refused
      BY <1>1 DEF RefusedNotMade
  <2>1. call.o \notin Recorded /\ call.o \notin Lost
      BY <1>0, <1>16 DEF CallOK
  <2>2. CASE call.o \in card
    <3>1. /\ \A i \in DOMAIN todo : todo[i].ticket # call.ticket
          /\ \A i \in DOMAIN said : said[i].ticket = call.ticket => ~ said[i].refused
        BY <2>1, <2>2 DEF RInv, RefusedNotMade
    <3> QED BY <3>1, <1>3, <1>5, <1>8
  <2>3. CASE call.o \notin card
    <3>1. r = call /\ ~ refused
        BY <1>11, <2>1, <2>3
    <3>2. ASSUME NEW i \in DOMAIN todo' PROVE todo'[i].ticket # call.ticket
      <4>1. 1 < i + 1
          BY <1>3
      <4>2. call.ticket < todo'[i].ticket
          BY <1>0, <1>3, <3>1, <4>1 DEF TicketsOK
      <4> QED BY <4>2, <3>1, <1>4
    <3>3. ASSUME NEW i \in DOMAIN said', said'[i].ticket = call.ticket, said'[i].refused
          PROVE  FALSE
      <4>1. CASE said'[i] = m
          BY <3>1, <3>3, <4>1 DEF m
      <4>2. CASE i \in DOMAIN said /\ said'[i] = said[i]
        <5>1. said[i] \in Message
            BY <1>0, <4>2
        <5>2. said[i].fn # "event"
            BY <3>3, <4>2, <5>1 DEF Message, Functions3
        <5>3. said[i].ticket < call.ticket
            BY <1>0, <1>3, <3>1, <4>2, <5>2 DEF TicketsOK
        <5> QED BY <5>3, <3>1, <3>3, <4>2, <1>4
      <4> QED BY <4>1, <4>2, <1>8
    <3> QED BY <3>2, <3>3
  <2> QED BY <2>2, <2>3
<1>14. AnsweredFreeIsGone'
  <2> SUFFICES ASSUME NEW i \in DOMAIN said', call # NoCall, call.fn = "free",
                      said'[i].fn = "free", ~ said'[i].refused, said'[i].ticket = call.ticket
               PROVE  call.o \notin card' \/ call.o \in Lost'
      BY <1>1 DEF AnsweredFreeIsGone
  <2>1. CASE said'[i] = m
    <3>1. r = call /\ r.fn = "free"
        BY <2>1, <1>0, <1>3, <1>5 DEF TicketsOK
    <3>2. ~ refused
        BY <2>1 DEF m
    <3> QED BY <3>1, <3>2, <1>6, <1>7, <1>16
  <2>2. CASE i \in DOMAIN said /\ said'[i] = said[i]
    <3>1. call.o \notin card \/ call.o \in Lost
        BY <2>2, <1>0 DEF AnsweredFreeIsGone
    <3>2. call.ticket < r.ticket /\ r.ticket < rm.sent /\ call.ticket = rm.sent - 1
        BY <2>2, <1>0, <1>3 DEF TicketsOK
    <3>3. rm.sent \in Nat
        BY <1>0 DEF RmTypeOK, RmType
    <3> QED BY <3>2, <3>3, <1>4
  <2> QED BY <2>1, <2>2, <1>8
<1>15. card' \in SUBSET Objects
    BY <1>0, <1>4, <1>6, <1>7
<1> QED BY <1>1, <1>3, <1>8, <1>9, <1>10, <1>12, <1>13, <1>14, <1>15, <1>16, <1>17, SameSide

\* A job is begun: a sweep begins behind everything.
LEMMA StartKeeps ==
    ASSUME RInv, NEW task \in Job, Start(task),
           task.kind = "clients" => task.at = Len(objs)
    PROVE  RInv'
<1>1. UNCHANGED <<objs, card, todo, said, call, rm>> /\ job' = task /\ call = NoCall
    BY DEF Start, Free
<1>2. RmTypeOK' /\ RecordOK' /\ TicketsOK' /\ CallOK'
    BY <1>1 DEF RInv, RmTypeOK, RecordOK, TicketsOK, CallOK
<1>3. /\ LateAllocs' /\ AnsweredFreeIsGone' /\ RefusedNotMade' /\ CardKnown'
      /\ SweptOff' /\ SweepLeavesNothing'
    BY <1>1 DEF RInv, LateAllocs, AnsweredFreeIsGone, RefusedNotMade, CardKnown, SweptOff,
                SweepLeavesNothing, Recorded, Lost
<1>4. SweepOK'
  <2>1. \A i \in DOMAIN objs : i <= Len(objs)
      BY DEF RInv, RmTypeOK
  <2> QED BY <1>1, <2>1 DEF SweepOK
<1> QED BY <1>2, <1>3, <1>4 DEF RInv

\* A job is done.
LEMMA JobDoneKeeps ==
    ASSUME RInv, JobDone
    PROVE  RInv'
<1> DEFINE done == IF job.kind = "clients" /\ job.refused = 0 THEN job.clients ELSE {}
<1>1. /\ UNCHANGED <<objs, card, todo, said, call>> /\ job' = NoJob /\ call = NoCall
      /\ TargetAt = {} /\ rm' = [rm EXCEPT !.swept = done]
    BY DEF JobDone
<1>2. job \in Job /\ rm \in RmType
    BY DEF RInv, RmTypeOK
<1>3. done \in SUBSET Clients
    BY <1>2 DEF Job, NoJob
<1> HIDE DEF done
<1>4. rm' \in RmType
      /\ rm'.sent = rm.sent /\ Lost' = Lost /\ rm'.swept = done
    BY <1>1, <1>2, <1>3 DEF RmType, Lost
<1>5. RmTypeOK'
    BY <1>1, <1>4 DEF RInv, RmTypeOK, Job
<1>6. RecordOK' /\ TicketsOK' /\ CallOK' /\ AnsweredFreeIsGone' /\ RefusedNotMade'
    BY <1>1, <1>4 DEF RInv, RecordOK, TicketsOK, CallOK, AnsweredFreeIsGone, RefusedNotMade
<1>7. LateAllocs' /\ CardKnown'
    BY <1>1, <1>4 DEF RInv, LateAllocs, CardKnown, Recorded
<1>8. SweepOK'
    BY <1>1 DEF SweepOK, NoJob
<1>9. ASSUME NEW o \in Recorded PROVE o.client \notin done
  <2> SUFFICES ASSUME o.client \in done PROVE FALSE
      OBVIOUS
  <2>1. job.kind = "clients" /\ job.refused = 0 /\ o.client \in job.clients
      BY DEF done
  <2>2. InRange = {}
      BY <1>1, <2>1 DEF TargetAt
  <2> QED BY <2>1, <2>2 DEF RInv, SweepOK, InRange, Recorded
<1>10. SweptOff'
    BY <1>1, <1>4, <1>9 DEF SweptOff, Recorded
<1>11. SweepLeavesNothing'
  <2>1. ASSUME NEW o \in card, o.client \in done PROVE o \in Lost
    <3>1. {c.o : c \in {x \in {call} : x.fn = "alloc"}} = {}
        BY <1>1 DEF NoCall
    <3> QED BY <1>9, <2>1, <3>1 DEF RInv, CardKnown
  <2> QED BY <2>1, <1>1, <1>4 DEF SweepLeavesNothing, Lost
<1> QED BY <1>5, <1>6, <1>7, <1>8, <1>10, <1>11 DEF RInv

LEMMA NextRInv ==
    ASSUME RInv, [RmNext]_rmVars
    PROVE  RInv'
<1>0. RmTypeOK /\ RecordOK /\ job \in Job /\ objs \in Seq(Objects)
    BY DEF RInv, RmTypeOK
<1>1. ASSUME NEW o \in Objects, Alloc(o) PROVE RInv'
  <2>1. call = NoCall /\ job = NoJob /\ o \notin Recorded /\ rpc_call("alloc", o)
      BY <1>1 DEF Alloc, Free
  <2>2. "alloc" \in Functions3
      BY DEF Functions3
  <2> QED BY <2>1, <2>2, RpcCallKeeps
<1>2. ASSUME NEW o \in Objects, Control(o) PROVE RInv'
  <2>1. call = NoCall /\ job = NoJob /\ o \in Recorded /\ rpc_call("control", o)
      BY <1>2 DEF Control, Free
  <2>2. "control" \in Functions3
      BY DEF Functions3
  <2> QED BY <2>1, <2>2, RpcCallKeeps
<1>3. ASSUME NEW o \in Recorded, Start([kind |-> "free", target |-> o]) PROVE RInv'
  <2>1. o \in Objects
      BY <1>0 DEF Recorded
  <2>2. [kind |-> "free", target |-> o] \in Job
      BY <2>1 DEF Job
  <2> QED BY <1>3, <2>2, StartKeeps
<1>4. ASSUME NEW c \in SUBSET Clients,
             Start([kind |-> "clients", clients |-> c, at |-> Len(objs), refused |-> 0])
      PROVE  RInv'
  <2>1. Len(objs) \in Int /\ 0 \in Nat
      BY <1>0
  <2>2. [kind |-> "clients", clients |-> c, at |-> Len(objs), refused |-> 0] \in Job
      BY <2>1 DEF Job
  <2> QED BY <1>4, <2>2, StartKeeps
<1>5. CASE Start([kind |-> "all"])
  <2>1. [kind |-> "all"] \in Job
      BY DEF Job
  <2> QED BY <1>5, <2>1, StartKeeps
<1>6. CASE FreeNext
  <2>1. PICK i \in TargetAt : rpc_call("free", NextToFree(objs[i]))
      BY <1>6 DEF FreeNext
  <2>2. call = NoCall /\ TargetAt # {}
      BY <1>6 DEF FreeNext
  <2>3. i \in DOMAIN objs
      BY <1>0, <2>2, TargetIn
  <2>4. NextToFree(objs[i]) \in Recorded
      BY <1>0, <2>3, NextRecorded DEF Recorded
  <2>5. NextToFree(objs[i]) \in Objects /\ "free" \in Functions3
      BY <1>0, <2>4 DEF Recorded, Functions3
  <2> QED BY <2>1, <2>2, <2>4, <2>5, RpcCallKeeps
<1>7. CASE JobDone
    BY <1>7, JobDoneKeeps
<1>8. CASE TakeReply
    BY <1>8, AnsweredKeeps
<1>9. CASE GiveUpCall
    BY <1>9, GiveUpKeeps
<1>10. CASE PollNews
    BY <1>10, PollKeeps
<1>11. CASE Handle
    BY <1>11, HandleKeeps
<1>12. CASE Event
    BY <1>12, EventKeeps
<1>13. CASE UNCHANGED rmVars
  <2>1. UNCHANGED <<objs, card, todo, call, job, rm>> /\ said' = said
      BY <1>13 DEF rmVars
  <2>2. said' \in Seq(Message) /\ Among(said', said)
      BY <1>0, <2>1 DEF RmTypeOK, Among
  <2> QED BY <2>1, <2>2, SaidKeeps
<1> QED BY <1>1, <1>2, <1>3, <1>4, <1>5, <1>6, <1>7, <1>8, <1>9, <1>10, <1>11, <1>12, <1>13
        DEF RmNext

\* The record, the tickets, the card and the sweeps stay as RInv has them, in
\* whatever order answers, refusals and timeouts come.
THEOREM RmInvariant == RmSpec => []RInv
<1>1. RmInit => RInv
    BY InitRInv
<1>2. RInv /\ [RmNext]_rmVars => RInv'
    BY NextRInv
<1> QED BY <1>1, <1>2, PTL DEF RmSpec

\* What the card holds and the driver does not know of was left by an allocation
\* whose own answer never came, by a free stepped over or answered by another
\* request's answer, or by a free the card denied in a status nothing reads
\* (gsp.c:550, 689-694, 735-738), and by nothing else.
THEOREM RmRecordComplete == RmSpec => []RecordComplete
<1>1. RInv => RecordComplete
  <2> SUFFICES ASSUME RInv, NEW o \in card
               PROVE  o \in Recorded \/ o \in Lost \/ o \in {c.o : c \in {call} \ {NoCall}}
      BY DEF RecordComplete, Known, Lost
  <2>1. CASE o \in {c.o : c \in {x \in {call} : x.fn = "alloc"}}
    <3>1. o = call.o /\ call.fn = "alloc"
        BY <2>1
    <3>2. call # NoCall
        BY <3>1 DEF NoCall
    <3> QED BY <3>1, <3>2
  <2> QED BY <2>1 DEF RInv, CardKnown
<1> QED BY <1>1, RmInvariant, PTL

\* A sweep of clients that was refused nothing leaves nothing of theirs behind,
\* but for what those leave (gsp.c:705-725).
THEOREM RmSweepLeavesNothing == RmSpec => []SweepLeavesNothing
<1>1. RInv => SweepLeavesNothing
    BY DEF RInv
<1> QED BY <1>1, RmInvariant, PTL

-----------------------------------------------------------------------------
(***************************************************************************)
(* Sensors.  A reading another process finds in the file is one the        *)
(* firmware finished, for any number of threads, tries and updates.        *)
(*                                                                         *)
(* Two arguments meet in the file.  The number read before a field and     *)
(* compared after it: the firmware's numbers only grow, so if the block    *)
(* still carries the number a reader accepted, nothing was written         *)
(* between, and every word copied so far is that update's (PublisherOK).   *)
(* The flag: one thread at a time is past it (OneAtATime), so the          *)
(* temporary file is what that thread has written so far (FilesOK).        *)
(***************************************************************************)
Places == {"rest", "read", "copy", "open", "time", "values", "rename", "leave"}
Reading == [seq : Nat, first : Nat, second : Nat]
Publisher == [at : Places, seq : Nat, left : Nat, words : SUBSET (Words \cup {"seq"}),
              out : Reading]

TypesOK ==
    /\ armed \in {"no", "armed", "refused"} /\ busy \in BOOLEAN
    /\ block \in Reading /\ updating \in (SUBSET Words) \cup {{"nothing"}}
    /\ publisher \in [Publishers -> Publisher]
    /\ tmp \in [lines : Nat, reading : Reading]
    /\ file \in [lines : Nat, reading : Reading]

\* A reading the firmware finished, or none
Finished(r) == r # Blank => r.first = r.seq /\ r.second = r.seq /\ rusd_seq_ok(r.seq)

\* Between updates the block is whole; during one its number is odd, and what
\* is written already is what the number after it stands for.
BlockOK ==
    IF updating = {"nothing"} THEN /\ Finished(block)
                                   /\ block # Blank => block.seq % 2 = 0 /\ block.seq >= SeqStart
    ELSE /\ block.seq % 2 = 1 /\ block.seq >= SeqStart
         /\ "first" \notin updating => block.first = block.seq + 1
         /\ "second" \notin updating => block.second = block.seq + 1

\* What a reader has copied is the update whose number it read, unless the
\* block has moved on; past the comparison, what it has is whole.
PublisherOK(p) ==
    /\ p.at = "read" => p.out = Blank
    /\ p.at = "copy" =>
         /\ p.left > 0 /\ rusd_seq_ok(p.seq) /\ p.seq <= block.seq
         /\ p.seq = block.seq =>
              /\ "seq" \notin p.words => p.out.seq = p.seq
              /\ "first" \notin p.words => p.out.first = p.seq
              /\ "second" \notin p.words => p.out.second = p.seq
    /\ p.at \in {"open", "time", "values"} => Finished(p.out)

\* One thread at a time is past the flag.
OneAtATime ==
    /\ \A t \in Publishers : publisher[t].at # "rest" => busy
    /\ \A t, u \in Publishers : publisher[t].at # "rest" /\ publisher[u].at # "rest" => t = u

\* The temporary file is what the one thread has written of it.
FilesOK ==
    /\ \A t \in Publishers :
         /\ publisher[t].at = "time" => tmp.lines = 0
         /\ publisher[t].at = "values" => tmp.lines = 1
         /\ publisher[t].at = "rename" => tmp.lines = 2 /\ Finished(tmp.reading)
    /\ PublishedIsWhole

SInv == TypesOK /\ BlockOK /\ (\A t \in Publishers : PublisherOK(publisher[t]))
        /\ OneAtATime /\ FilesOK

-----------------------------------------------------------------------------
LEMMA SensorsInitInv == SensorsInit => SInv
<1>1. SeqStart \in Nat \ {0}
  BY SensorsAssumption
<1>2. SUFFICES ASSUME SensorsInit PROVE SInv
  OBVIOUS
<1>3. TypesOK
  <2>1. Blank \in Reading
    BY DEF Blank, Reading
  <2>2. AtRest \in Publisher
    BY <2>1 DEF AtRest, Publisher, Places
  <2>. QED  BY <1>2, <2>1, <2>2 DEF SensorsInit, TypesOK, NoFile
<1>4. BlockOK
  BY <1>2 DEF SensorsInit, BlockOK, Finished
<1>5. \A t \in Publishers : PublisherOK(publisher[t])
  BY <1>2 DEF SensorsInit, PublisherOK, AtRest
<1>6. OneAtATime /\ FilesOK
  BY <1>2 DEF SensorsInit, OneAtATime, FilesOK, PublishedIsWhole, AtRest
<1>. QED  BY <1>3, <1>4, <1>5, <1>6 DEF SInv

\* The firmware's steps move the number out of every reader's hands.
LEMMA FirmwareKeeps ==
  ASSUME SInv, UpdateBegins \/ UpdateEnds \/ \E w \in Words : UpdateWord(w)
  PROVE  SInv'
<1>1. SeqStart \in Nat \ {0} /\ SeqStart % 2 = 0
  BY SensorsAssumption
<1>2. /\ TypesOK /\ BlockOK /\ OneAtATime /\ FilesOK
      /\ \A t \in Publishers : PublisherOK(publisher[t])
  BY DEF SInv
<1>3. UNCHANGED <<armed, busy, publisher, tmp, file>>
  BY DEF UpdateBegins, UpdateEnds, UpdateWord
<1>4. /\ OneAtATime' /\ FilesOK'
  BY <1>2, <1>3 DEF OneAtATime, FilesOK, PublishedIsWhole, Finished, rusd_seq_ok
<1>5. TypesOK' /\ BlockOK' /\ block'.seq >= block.seq
      /\ (block'.seq = block.seq => block.seq % 2 = 1 /\ block.seq >= SeqStart)
  <2>1. CASE UpdateBegins
    <3>1. /\ block.seq \in Nat /\ updating = {"nothing"} /\ updating' = Words
          /\ block' = [block EXCEPT !.seq = IF @ = 0 THEN SeqStart + 1 ELSE @ + 1]
      BY <1>2, <2>1 DEF UpdateBegins, TypesOK, Reading
    <3>2. block.seq = 0 \/ (block.seq >= SeqStart /\ block.seq % 2 = 0)
      <4>1. CASE block = Blank
        BY <4>1 DEF Blank
      <4>2. CASE block # Blank
        BY <1>2, <3>1, <4>2 DEF BlockOK, Finished
      <4>. QED  BY <4>1, <4>2
    <3>3. \E n \in Nat : /\ n > block.seq /\ n > SeqStart /\ n % 2 = 1
                        /\ block' = [block EXCEPT !.seq = n]
      <4>1. CASE block.seq = 0
        <5>1. (SeqStart + 1) % 2 = 1
          BY <1>1
        <5>. QED  BY <1>1, <3>1, <4>1, <5>1
      <4>2. CASE block.seq # 0
        <5>1. (block.seq + 1) % 2 = 1
          BY <3>1, <3>2, <4>2
        <5>. QED  BY <1>1, <3>1, <3>2, <4>2, <5>1
      <4>. QED  BY <4>1, <4>2
    <3>4. PICK n \in Nat : /\ n > block.seq /\ n > SeqStart /\ n % 2 = 1
                          /\ block' = [block EXCEPT !.seq = n]
      BY <3>3
    <3>5. block' \in Reading /\ block'.seq = n
      BY <1>2, <3>4 DEF TypesOK, Reading
    <3>6. TypesOK'
      BY <1>2, <1>3, <3>1, <3>5 DEF TypesOK
    <3>7. BlockOK'
      <4>1. updating' # {"nothing"} /\ "first" \in updating' /\ "second" \in updating'
        BY <3>1 DEF Words
      <4>. QED  BY <1>1, <3>4, <3>5, <4>1 DEF BlockOK
    <3>. QED  BY <1>1, <3>1, <3>4, <3>5, <3>6, <3>7
  <2>2. CASE UpdateEnds
    BY <1>1, <1>2, <1>3, <2>2 DEF UpdateEnds, TypesOK, BlockOK, Reading, Words, Finished,
       rusd_seq_ok, Blank
  <2>3. ASSUME NEW w \in Words, UpdateWord(w) PROVE TypesOK' /\ BlockOK' /\ block'.seq >= block.seq
                /\ (block'.seq = block.seq => block.seq % 2 = 1 /\ block.seq >= SeqStart)
    <3>1. CASE w = "first"
      BY <1>1, <1>2, <1>3, <2>3, <3>1 DEF UpdateWord, TypesOK, BlockOK, Reading, Words
    <3>2. CASE w = "second"
      BY <1>1, <1>2, <1>3, <2>3, <3>2 DEF UpdateWord, TypesOK, BlockOK, Reading, Words
    <3>. QED  BY <3>1, <3>2 DEF Words
  <2>. QED  BY <2>1, <2>2, <2>3
<1>6. \A t \in Publishers : PublisherOK(publisher[t])'
  <2> SUFFICES ASSUME NEW t \in Publishers PROVE PublisherOK(publisher[t])'
    OBVIOUS
  <2>1. publisher[t] \in Publisher /\ publisher'[t] = publisher[t] /\ PublisherOK(publisher[t])
    BY <1>2, <1>3 DEF TypesOK
  <2>2. block.seq \in Nat /\ block'.seq \in Nat
    BY <1>2, <1>5 DEF TypesOK, Reading
  <2>. QED  BY <1>1, <1>5, <2>1, <2>2 DEF PublisherOK, Publisher, rusd_seq_ok, Finished
<1>. QED  BY <1>4, <1>5, <1>6 DEF SInv

\* A thread's step: what it does to its own place, the flag and the files.
LEMMA PublisherKeeps ==
  ASSUME SInv, NEW t \in Publishers, UNCHANGED <<armed, block, updating>>,
         NEW p \in Publisher, publisher' = [publisher EXCEPT ![t] = p], PublisherOK(p),
         busy' \in BOOLEAN, tmp' \in [lines : Nat, reading : Reading],
         file' \in [lines : Nat, reading : Reading],
         p.at # "rest" => busy',
         IF busy' THEN p.at # "rest" ELSE p.at = "rest",
         publisher[t].at = "rest" => ~ busy,
         p.at = "time" => tmp'.lines = 0,
         p.at = "values" => tmp'.lines = 1,
         p.at = "rename" => tmp'.lines = 2 /\ Finished(tmp'.reading),
         PublishedIsWhole'
  PROVE  SInv'
<1>1. /\ TypesOK /\ BlockOK /\ OneAtATime /\ FilesOK
      /\ \A u \in Publishers : PublisherOK(publisher[u])
  BY DEF SInv
<1>2. /\ publisher' \in [Publishers -> Publisher] /\ publisher'[t] = p
      /\ \A u \in Publishers \ {t} : publisher'[u] = publisher[u] /\ publisher[u].at = "rest"
  BY <1>1 DEF TypesOK, OneAtATime
<1>3. TypesOK' /\ BlockOK'
  BY <1>1, <1>2 DEF TypesOK, BlockOK, Finished, rusd_seq_ok
<1>4. \A u \in Publishers : PublisherOK(publisher[u])'
  <2> SUFFICES ASSUME NEW u \in Publishers PROVE PublisherOK(publisher[u])'
    OBVIOUS
  <2>1. CASE u = t
    BY <1>2, <2>1 DEF PublisherOK, Finished, rusd_seq_ok
  <2>2. CASE u # t
    BY <1>1, <1>2, <2>2 DEF PublisherOK, Finished, rusd_seq_ok
  <2>. QED  BY <2>1, <2>2
<1>5. OneAtATime'
  BY <1>2 DEF OneAtATime
<1>6. FilesOK'
  BY <1>2 DEF FilesOK, Finished, rusd_seq_ok
<1>. QED  BY <1>3, <1>4, <1>5, <1>6 DEF SInv

\* Reading the block
LEMMA ReadingKeeps ==
  ASSUME SInv, NEW t \in Publishers,
         \/ ReadSeq(t) \/ ReadAgain(t) \/ GivesFieldUp(t)
         \/ \E w \in Words \cup {"seq"} : CopyWord(t, w)
  PROVE  SInv'
<1>. DEFINE p == publisher[t]
<1>1. SeqStart \in Nat \ {0} /\ SeqStart % 2 = 0
  BY SensorsAssumption
<1>2. /\ TypesOK /\ BlockOK /\ OneAtATime /\ FilesOK /\ PublisherOK(p)
  BY DEF SInv
<1>3. /\ p \in Publisher /\ p.at \in {"read", "copy"} /\ busy
      /\ UNCHANGED <<armed, block, updating, busy, tmp, file>>
  BY <1>2 DEF ReadSeq, ReadAgain, GivesFieldUp, CopyWord, Where, TypesOK, OneAtATime
<1>4. \E q \in Publisher : /\ publisher' = [publisher EXCEPT ![t] = q] /\ PublisherOK(q)
                          /\ q.at \in {"read", "copy", "open"}
  <2>1. CASE ReadSeq(t)
    <3>1. CASE rusd_seq_ok(block.seq)
      <4>. DEFINE q == [p EXCEPT !.at = "copy", !.seq = block.seq, !.words = Words \cup {"seq"}]
      <4>1. publisher' = [publisher EXCEPT ![t] = q]
        BY <2>1, <3>1 DEF ReadSeq, Becomes
      <4>2. q \in Publisher /\ q.at = "copy" /\ q.left = p.left /\ q.seq = block.seq
            /\ q.words = Words \cup {"seq"}
        BY <1>2, <1>3 DEF Publisher, Places, TypesOK, Reading
      <4>3. p.left > 0 /\ block.seq \in Nat
        BY <1>2, <2>1 DEF ReadSeq, TypesOK, Reading
      <4>4. PublisherOK(q)
        BY <3>1, <4>2, <4>3 DEF PublisherOK, Words
      <4>. QED  BY <4>1, <4>2, <4>4
    <3>2. CASE ~ rusd_seq_ok(block.seq)
      <4>. DEFINE q == [p EXCEPT !.left = @ - 1]
      <4>1. publisher' = [publisher EXCEPT ![t] = q] /\ p.at = "read" /\ p.left > 0
        BY <2>1, <3>2 DEF ReadSeq, Becomes, Where
      <4>2. q \in Publisher /\ q.at = p.at /\ q.out = p.out
        BY <1>3, <4>1 DEF Publisher
      <4>3. PublisherOK(q)
        BY <1>2, <4>1, <4>2 DEF PublisherOK
      <4>. QED  BY <4>1, <4>2, <4>3
    <3>. QED  BY <3>1, <3>2
  <2>2. CASE ReadAgain(t)
    <3>0. p.at = "copy" /\ p.words = {}
      BY <2>2 DEF ReadAgain, Where
    <3>1. CASE Unmoved(p.seq)
      <4>. DEFINE q == [p EXCEPT !.at = "open"]
      <4>1. publisher' = [publisher EXCEPT ![t] = q]
        BY <2>2, <3>1 DEF ReadAgain, Becomes, Place
      <4>2. q \in Publisher /\ q.at = "open" /\ q.out = p.out
        BY <1>3 DEF Publisher, Places
      <4>3. Finished(p.out)
        BY <1>2, <3>0, <3>1 DEF PublisherOK, Unmoved, Finished
      <4>4. PublisherOK(q)
        BY <4>2, <4>3 DEF PublisherOK
      <4>. QED  BY <4>1, <4>2, <4>4
    <3>2. CASE ~ Unmoved(p.seq)
      <4>. DEFINE q == [p EXCEPT !.at = "read", !.left = @ - 1, !.out = Blank]
      <4>1. publisher' = [publisher EXCEPT ![t] = q]
        BY <2>2, <3>2 DEF ReadAgain, Becomes
      <4>2. p.left > 0
        BY <1>2, <3>0 DEF PublisherOK
      <4>3. q \in Publisher /\ q.at = "read" /\ q.out = Blank
        <5>1. Blank \in Reading /\ p.left - 1 \in Nat
          BY <1>3, <4>2 DEF Publisher, Blank, Reading
        <5>. QED  BY <1>3, <5>1 DEF Publisher, Places
      <4>4. PublisherOK(q)
        BY <4>3 DEF PublisherOK
      <4>. QED  BY <4>1, <4>3, <4>4
    <3>. QED  BY <3>1, <3>2
  <2>3. CASE GivesFieldUp(t)
    <3>. DEFINE q == [p EXCEPT !.at = "open"]
    <3>1. publisher' = [publisher EXCEPT ![t] = q] /\ p.out = Blank
      BY <1>2, <2>3 DEF GivesFieldUp, Becomes, Place, Where, PublisherOK
    <3>2. q \in Publisher /\ q.at = "open" /\ q.out = p.out
      BY <1>3 DEF Publisher, Places
    <3>3. PublisherOK(q)
      BY <3>1, <3>2 DEF PublisherOK, Finished
    <3>. QED  BY <3>1, <3>2, <3>3
  <2>4. ASSUME NEW w \in Words \cup {"seq"}, CopyWord(t, w)
        PROVE  \E q \in Publisher : /\ publisher' = [publisher EXCEPT ![t] = q] /\ PublisherOK(q)
                                   /\ q.at \in {"read", "copy", "open"}
    <3>. DEFINE q == [p EXCEPT !.words = @ \ {w}, !.out[w] = block[w]]
    <3>1. publisher' = [publisher EXCEPT ![t] = q] /\ p.at = "copy"
      BY <2>4 DEF CopyWord, Becomes, Where
    <3>2. block.seq \in Nat /\ block.first \in Nat /\ block.second \in Nat
      BY <1>2 DEF TypesOK, Reading
    \* An accepted number is the block's between updates only
    <3>3. p.seq = block.seq => block.first = p.seq /\ block.second = p.seq
      <4>1. rusd_seq_ok(p.seq)
        BY <1>2, <3>1 DEF PublisherOK
      <4>2. CASE updating = {"nothing"}
        BY <1>1, <1>2, <3>2, <4>1, <4>2 DEF BlockOK, Finished, Blank, rusd_seq_ok
      <4>3. CASE updating # {"nothing"}
        BY <1>1, <1>2, <3>2, <4>1, <4>3 DEF BlockOK, rusd_seq_ok
      <4>. QED  BY <4>2, <4>3
    <3>4. q \in Publisher /\ q.at = "copy" /\ q.left = p.left /\ q.seq = p.seq
          /\ q.words = p.words \ {w} /\ q.out = [p.out EXCEPT ![w] = block[w]]
      BY <1>3, <3>1, <3>2 DEF Publisher, Places, Words, Reading
    <3>5. PublisherOK(q)
      <4>1. p.out \in Reading
        BY <1>3 DEF Publisher
      <4>2. CASE w = "seq"
        BY <1>2, <3>1, <3>2, <3>3, <3>4, <4>1, <4>2 DEF PublisherOK, Reading
      <4>3. CASE w = "first"
        BY <1>2, <3>1, <3>2, <3>3, <3>4, <4>1, <4>3 DEF PublisherOK, Reading
      <4>4. CASE w = "second"
        BY <1>2, <3>1, <3>2, <3>3, <3>4, <4>1, <4>4 DEF PublisherOK, Reading
      <4>. QED  BY <4>2, <4>3, <4>4 DEF Words
    <3>. QED  BY <3>1, <3>4, <3>5
  <2>. QED  BY <2>1, <2>2, <2>3, <2>4
<1>5. PICK q \in Publisher : /\ publisher' = [publisher EXCEPT ![t] = q] /\ PublisherOK(q)
                            /\ q.at \in {"read", "copy", "open"}
  BY <1>4
<1>6. PublishedIsWhole'
  BY <1>2, <1>3 DEF FilesOK, PublishedIsWhole, rusd_seq_ok
<1>. QED  BY <1>2, <1>3, <1>5, <1>6, PublisherKeeps DEF TypesOK

\* Taking the flag, and writing the file
LEMMA WritingKeeps ==
  ASSUME SInv, NEW t \in Publishers,
         Publish(t) \/ OpenTmp(t) \/ WriteTime(t) \/ WriteValues(t) \/ Rename(t) \/ StopBeingBusy(t)
  PROVE  SInv'
<1>. DEFINE p == publisher[t]
<1>1. Blank \in Reading /\ NoFile \in [lines : Nat, reading : Reading] /\ NoFile.lines = 0
      /\ AtRest \in Publisher /\ AtRest.at = "rest" /\ AtRest.out = Blank
  BY DEF Blank, Reading, NoFile, AtRest, Publisher, Places
<1>2. /\ TypesOK /\ BlockOK /\ OneAtATime /\ FilesOK /\ PublisherOK(p) /\ p \in Publisher
  BY DEF SInv, TypesOK
<1>3. UNCHANGED <<armed, block, updating>>
  BY DEF Publish, OpenTmp, WriteTime, WriteValues, Rename, StopBeingBusy
<1>4. p.at # "rest" => busy
  BY <1>2 DEF OneAtATime
<1>5. CASE Publish(t)
  <2>. DEFINE q == [AtRest EXCEPT !.at = "read", !.left = Tries]
  <2>1. publisher' = [publisher EXCEPT ![t] = q] /\ ~ busy /\ busy' /\ UNCHANGED <<tmp, file>>
    BY <1>5 DEF Publish, Becomes
  <2>2. q \in Publisher /\ q.at = "read" /\ q.out = Blank
    BY <1>1, SensorsAssumption DEF Publisher, Places, AtRest
  <2>3. PublisherOK(q)
    BY <2>2 DEF PublisherOK
  <2>4. PublishedIsWhole'
    BY <1>2, <2>1 DEF FilesOK, PublishedIsWhole, rusd_seq_ok
  <2>5. busy' = TRUE
    BY <1>5 DEF Publish
  <2>. QED  BY <1>2, <1>3, <2>1, <2>2, <2>3, <2>4, <2>5, PublisherKeeps DEF TypesOK
<1>6. CASE OpenTmp(t)
  <2>0. p.at = "open" /\ busy /\ UNCHANGED file
    BY <1>4, <1>6 DEF OpenTmp, Where
  <2>1. PublishedIsWhole'
    BY <1>2, <2>0 DEF FilesOK, PublishedIsWhole, rusd_seq_ok
  <2>2. CASE tmp' = NoFile /\ Becomes(t, Place(t, "time")) /\ UNCHANGED busy
    <3>. DEFINE q == [p EXCEPT !.at = "time"]
    <3>1. publisher' = [publisher EXCEPT ![t] = q]
      BY <2>2 DEF Becomes, Place
    <3>2. q \in Publisher /\ q.at = "time" /\ q.out = p.out
      BY <1>2 DEF Publisher, Places
    <3>3. PublisherOK(q)
      BY <1>2, <2>0, <3>2 DEF PublisherOK
    <3>. QED  BY <1>1, <1>2, <1>3, <2>0, <2>1, <2>2, <3>1, <3>2, <3>3, PublisherKeeps DEF TypesOK
  <2>3. CASE busy' = FALSE /\ Becomes(t, AtRest) /\ UNCHANGED tmp
    <3>1. PublisherOK(AtRest)
      BY <1>1 DEF PublisherOK
    <3>2. publisher' = [publisher EXCEPT ![t] = AtRest]
      BY <2>3 DEF Becomes
    <3>. QED  BY <1>1, <1>2, <1>3, <2>0, <2>1, <2>3, <3>1, <3>2, PublisherKeeps DEF TypesOK
  <2>. QED  BY <1>6, <2>2, <2>3 DEF OpenTmp
<1>7. CASE WriteTime(t)
  <2>. DEFINE q == [p EXCEPT !.at = "values"]
  <2>0. /\ p.at = "time" /\ busy /\ UNCHANGED <<busy, file>> /\ tmp' = [tmp EXCEPT !.lines = @ + 1]
        /\ publisher' = [publisher EXCEPT ![t] = q]
    BY <1>4, <1>7 DEF WriteTime, Where, Becomes, Place
  <2>1. PublishedIsWhole'
    BY <1>2, <2>0 DEF FilesOK, PublishedIsWhole, rusd_seq_ok
  <2>2. q \in Publisher /\ q.at = "values" /\ q.out = p.out
    BY <1>2 DEF Publisher, Places
  <2>3. PublisherOK(q)
    BY <1>2, <2>0, <2>2 DEF PublisherOK
  <2>4. tmp' \in [lines : Nat, reading : Reading] /\ tmp'.lines = 1
    BY <1>2, <2>0 DEF TypesOK, FilesOK
  <2>. QED  BY <1>2, <1>3, <2>0, <2>1, <2>2, <2>3, <2>4, PublisherKeeps DEF TypesOK
<1>8. CASE WriteValues(t)
  <2>. DEFINE q == [p EXCEPT !.at = "rename"]
  <2>0. /\ p.at = "values" /\ busy /\ UNCHANGED <<busy, file>>
        /\ tmp' = [lines |-> tmp.lines + 1, reading |-> p.out]
        /\ publisher' = [publisher EXCEPT ![t] = q]
    BY <1>4, <1>8 DEF WriteValues, Where, Becomes, Place
  <2>1. PublishedIsWhole'
    BY <1>2, <2>0 DEF FilesOK, PublishedIsWhole, rusd_seq_ok
  <2>2. q \in Publisher /\ q.at = "rename" /\ p.out \in Reading
    BY <1>2 DEF Publisher, Places
  <2>3. PublisherOK(q)
    BY <2>2 DEF PublisherOK
  <2>4. tmp' \in [lines : Nat, reading : Reading] /\ tmp'.lines = 2 /\ Finished(tmp'.reading)
    BY <1>2, <2>0, <2>2 DEF TypesOK, FilesOK, PublisherOK
  <2>. QED  BY <1>2, <1>3, <2>0, <2>1, <2>2, <2>3, <2>4, PublisherKeeps DEF TypesOK
<1>9. CASE Rename(t)
  <2>. DEFINE q == [p EXCEPT !.at = "leave"]
  <2>0. /\ p.at = "rename" /\ busy /\ UNCHANGED busy /\ file' = tmp /\ tmp' = NoFile
        /\ publisher' = [publisher EXCEPT ![t] = q]
    BY <1>4, <1>9 DEF Rename, Where, Becomes, Place
  <2>1. tmp.lines = 2 /\ Finished(tmp.reading)
    BY <1>2, <2>0 DEF FilesOK
  <2>2. PublishedIsWhole'
    BY <2>0, <2>1 DEF Finished, PublishedIsWhole, rusd_seq_ok
  <2>3. q \in Publisher /\ q.at = "leave"
    BY <1>2 DEF Publisher, Places
  <2>4. PublisherOK(q)
    BY <2>3 DEF PublisherOK
  <2>. QED  BY <1>1, <1>2, <1>3, <2>0, <2>2, <2>3, <2>4, PublisherKeeps DEF TypesOK
<1>10. CASE StopBeingBusy(t)
  <2>0. /\ p.at = "leave" /\ busy' = FALSE /\ UNCHANGED <<tmp, file>>
        /\ publisher' = [publisher EXCEPT ![t] = AtRest]
    BY <1>10 DEF StopBeingBusy, Where, Becomes
  <2>1. PublishedIsWhole'
    BY <1>2, <2>0 DEF FilesOK, PublishedIsWhole, rusd_seq_ok
  <2>2. PublisherOK(AtRest)
    BY <1>1 DEF PublisherOK
  <2>. QED  BY <1>1, <1>2, <1>3, <2>0, <2>1, <2>2, PublisherKeeps DEF TypesOK
<1>. QED  BY <1>5, <1>6, <1>7, <1>8, <1>9, <1>10

-----------------------------------------------------------------------------
\* Readers, the block and the files stay consistent through every step of the
\* firmware and of the publishing threads (gsp.c:844-871, tinynv.c:1006-1060).
THEOREM SensorsInvariant == SensorsSpec => []SInv
<1>1. SInv /\ [SensorsNext]_sensorVars => SInv'
  <2> SUFFICES ASSUME SInv, [SensorsNext]_sensorVars PROVE SInv'
    OBVIOUS
  <2>1. CASE SensorsArm
    BY <2>1 DEF SensorsArm, SInv, TypesOK, BlockOK, OneAtATime, FilesOK, PublishedIsWhole,
                PublisherOK, Finished, rusd_seq_ok
  <2>2. CASE UNCHANGED sensorVars
    BY <2>2 DEF sensorVars, SInv, TypesOK, BlockOK, OneAtATime, FilesOK, PublishedIsWhole,
                PublisherOK, Finished, rusd_seq_ok
  <2>3. CASE UpdateBegins \/ UpdateEnds \/ \E w \in Words : UpdateWord(w)
    BY <2>3, FirmwareKeeps
  <2>4. ASSUME NEW t \in Publishers,
               \/ ReadSeq(t) \/ ReadAgain(t) \/ GivesFieldUp(t)
               \/ \E w \in Words \cup {"seq"} : CopyWord(t, w)
        PROVE SInv'
    BY <2>4, ReadingKeeps
  <2>5. ASSUME NEW t \in Publishers,
               Publish(t) \/ OpenTmp(t) \/ WriteTime(t) \/ WriteValues(t) \/ Rename(t)
               \/ StopBeingBusy(t)
        PROVE SInv'
    BY <2>5, WritingKeeps
  <2>. QED  BY <2>1, <2>2, <2>3, <2>4, <2>5 DEF SensorsNext
<1>. QED  BY <1>1, SensorsInitInv, PTL DEF SensorsSpec

\* A reading in the file is one the firmware finished, written to its end by
\* one thread, whatever the threads and the firmware do meanwhile.
THEOREM SensorsPublishWhole == SensorsSpec => []PublishedIsWhole
<1>1. SInv => PublishedIsWhole
  BY DEF SInv, FilesOK
<1>. QED  BY <1>1, SensorsInvariant, PTL

-----------------------------------------------------------------------------
(***************************************************************************)
(* Boot.  Four facts carry its proofs: a firmware is only ever in a card   *)
(* whose region is up; between the look that let a boot begin and the step *)
(* that starts the firmware nothing puts a region up; the steps of a plan  *)
(* name only what earlier steps of it made, or the root page table; and    *)
(* where the process is tells what the card must be while nothing has gone *)
(* wrong.                                                                  *)
(***************************************************************************)

Cards == [name : BOOLEAN, decode : BOOLEAN, bars : BOOLEAN, master : BOOLEAN,
          region : BOOLEAN, fw : {"none", "starting", "running", "halted"}]
Models == [fmc : BOOLEAN, image : ImageSizes, bootbin : BootBinSizes, slack : {0, 8}]
Notes == [ones : BOOLEAN, was_up : BOOLEAN, hi_now : BOOLEAN]
Flags == [booted : BOOLEAN, boot_failed : BOOLEAN, exec_ready : BOOLEAN, up : BOOLEAN,
          restored : BOOLEAN, timed_out : BOOLEAN, busy : BOOLEAN, attempt : Nat]
\* a place, and the step of a plan there
IsSpot(a) == a = [pc |-> a.pc, i |-> a.i]
Slots == [fwsec : {"none", "frts", "sb"}, booter : {"none", "load", "unload"}]
Counts == [procs : Nat, faults : Nat, ended : {"never", "left", "interrupted", "killed"}]

BootTypeOK ==
    /\ gpu \in Cards /\ model \in Models /\ dev \in Notes /\ drv \in Flags
    /\ IsSpot(at) /\ image \in Slots /\ run \in Counts

(***************************************************************************)
(* What the driver knows of the region where it is.                        *)
(***************************************************************************)

\* A firmware has a region; from the look that lets the boot begin to the
\* start there is none; and memory is released after mastering is dropped
ColdInv ==
    /\ gpu.fw # "none" => gpu.region
    /\ at.pc = "warm" => dev.was_up
    /\ at.pc = "enable" => dev.was_up \/ dev.ones \/ ~gpu.region
    /\ at.pc = "identify" => (Reads => dev.was_up \/ ~gpu.region)
    /\ at.pc \in {"place", "start", "undone"} => ~gpu.region
    /\ at.pc \in {"booter", "attach", "notice"} => gpu.region
    /\ at.pc = "fini" => ~gpu.master

(***************************************************************************)
(* Plans.                                                                  *)
(***************************************************************************)

Made(p, n) == {p[j].what : j \in 1 .. n}
\* each step of p names what base has or an earlier step made
Fed(p, base) == \A i \in 1 .. Len(p) : p[i].uses \subseteq base \cup Made(p, i - 1)
\* where the firmware fits, no check of the driver's own refuses it
\* ... and the firmware is asked for nothing where there is none yet
Passes(p, fits, calls) ==
    \A i \in 1 .. Len(p) :
        ((p[i].op = "check" /\ fits) => p[i].holds) /\ (p[i].op = "call" => calls)

\* the plan walked at a place
PlanOf(pc, m) == IF pc = "place" THEN gpu_init_sw(m.fmc, m.image, m.bootbin) ELSE RmSetup

\* what is made by then, at place a with k made and b named before it was made
NamedAt(a, m, k, b) ==
    /\ b = {}
    /\ a.pc \in {"place", "setup"} =>
           /\ a.i \in 1 .. Len(PlanOf(a.pc, m))
           /\ {"root_page_table"} \cup Made(PlanOf(a.pc, m), a.i - 1) \subseteq k
    /\ a.pc \in {"start", "booter", "attach", "notice", "settle"} =>
           LET p == PlanOf("place", m) IN {"root_page_table"} \cup Made(p, Len(p)) \subseteq k

NamedInv == NamedAt(at, model, made, blank)

(***************************************************************************)
(* With nothing going wrong.                                               *)
(***************************************************************************)

Mastered == {"identify", "place", "start", "booter", "attach", "notice", "settle", "setup",
             "carveout", "exec", "ready", "idle", "exec_fini", "unload", "notify", "sb", "unbooter"}
Serving == {"settle", "setup", "carveout", "exec", "ready", "idle", "exec_fini", "unload", "notify"}
Begun == {"place", "start", "booter", "attach", "notice", "settle", "setup", "carveout", "exec",
   "ready"}

Untroubled ==
    /\ at.pc \notin {"refused", "failed", "second", "undo", "undone"}
    /\ gpu.name /\ gpu.bars /\ (gpu.decode \/ at.pc = "enable")
    /\ at.pc \in Mastered => gpu.master
    /\ at.pc \in {"none", "warm", "quiesce", "fini", "down"} => (gpu.region => model.fmc)
    /\ at.pc \in {"enable", "identify"} => ~gpu.region
    /\ dev.was_up => model.fmc
    /\ at.pc = "enable" => (dev.ones => dev.was_up)
    /\ at.pc \in {"enable", "identify"} => (dev.hi_now => dev.was_up)
    /\ at.pc \in {"place", "start"} => ~dev.hi_now
    /\ at.pc \in {"place", "start", "booter"} =>
           /\ "fwsec" \in made => image.fwsec = "frts"
           /\ "booter" \in made => image.booter = "load"
    /\ at.pc \in {"booter", "notify", "sb", "unbooter"} => ~model.fmc
    /\ at.pc \in Serving => gpu.fw = "running"
    /\ at.pc \in Serving \ {"settle"} => drv.up
    /\ ~drv.restored
    /\ drv.booted => at.pc \in Begun
    /\ drv.exec_ready => at.pc \in {"ready", "idle", "exec_fini"}

\* The inductive invariant, and what joins it while nothing has gone wrong
BInv == BootTypeOK /\ ColdInv /\ NamedInv
UntroubledInv == (run.faults = 0 /\ Fits) => Untroubled

(***************************************************************************)
(* Plans are put together from lists of steps.                             *)
(***************************************************************************)

Whole(p) == Made(p, Len(p))
Good(p, base, fits, calls) == (\E S : p \in Seq(S)) /\ Fed(p, base) /\ Passes(p, fits, calls)

\* A process that has from can take step s, and has to when it has
Makes(s, from, to, fits, calls) ==
    /\ s.uses \subseteq from
    /\ ((s.op = "check" /\ fits) => s.holds) /\ (s.op = "call" => calls)
    /\ to \subseteq from \cup {s.what}

\* ... the steps of p
Walks(p, from, to, fits, calls) == Good(p, from, fits, calls) /\ to \subseteq from \cup Whole(p)

\* Two lists one after the other: the second may name what the first made
LEMMA Joined ==
    ASSUME NEW fits \in BOOLEAN, NEW calls \in BOOLEAN, NEW base, NEW p, NEW q, NEW w,
           Good(p, base, fits, calls), w = base \cup Whole(p), Good(q, w, fits, calls)
    PROVE  Good(p \o q, base, fits, calls) /\ Whole(p) \cup Whole(q) \subseteq Whole(p \o q)
<1> DEFINE n == Len(p)  m == Len(q)  r == p \o q
<1>0. PICK S : p \in Seq(S) /\ q \in Seq(S)
  <2>1. PICK A, B : p \in Seq(A) /\ q \in Seq(B)
    BY DEF Good
  <2>2. p \in Seq(A \cup B) /\ q \in Seq(A \cup B)
    BY <2>1, SeqMonotonic
  <2> QED
    BY <2>2
<1>1. /\ n \in Nat /\ m \in Nat
      /\ r \in Seq(S) /\ Len(r) = n + m
      /\ \A i \in 1 .. n : r[i] = p[i]
      /\ \A i \in 1 .. n + m : i > n => (i - n \in 1 .. m /\ r[i] = q[i - n])
      /\ \A i \in 1 .. m : r[n + i] = q[i]
  BY <1>0, ConcatProperties, LenProperties, SMT
<1>2. \A k \in 0 .. n : Made(r, k) = Made(p, k)
  BY <1>1, SMT DEF Made
<1>3. \A k \in 0 .. m : Made(r, n + k) = Made(p, n) \cup Made(q, k)
  <2> SUFFICES ASSUME NEW k \in 0 .. m PROVE Made(r, n + k) = Made(p, n) \cup Made(q, k)
    OBVIOUS
  <2>1. ASSUME NEW x \in Made(r, n + k) PROVE x \in Made(p, n) \cup Made(q, k)
    <3>1. PICK j \in 1 .. n + k : x = r[j].what
      BY <2>1 DEF Made
    <3>2. CASE j \in 1 .. n
      BY <1>1, <3>1, <3>2 DEF Made
    <3>3. CASE j > n
      <4>1. j - n \in 1 .. k /\ r[j] = q[j - n]
        BY <1>1, <3>1, <3>3
      <4> QED
        BY <3>1, <4>1 DEF Made
    <3> QED
      BY <1>1, <3>1, <3>2, <3>3
  <2>2. ASSUME NEW x \in Made(p, n) PROVE x \in Made(r, n + k)
    <3>1. PICK j \in 1 .. n : x = p[j].what
      BY <2>2 DEF Made
    <3> QED
      BY <1>1, <3>1 DEF Made
  <2>3. ASSUME NEW x \in Made(q, k) PROVE x \in Made(r, n + k)
    <3>1. PICK j \in 1 .. k : x = q[j].what
      BY <2>3 DEF Made
    <3>2. n + j \in 1 .. n + k /\ r[n + j] = q[j]
      BY <1>1, <3>1
    <3> QED
      BY <3>1, <3>2 DEF Made
  <2> QED
    BY <2>1, <2>2, <2>3
<1>4. Whole(r) = Whole(p) \cup Whole(q)
  BY <1>1, <1>3 DEF Whole
<1>5. ASSUME NEW i \in 1 .. n + m
      PROVE  /\ r[i].uses \subseteq base \cup Made(r, i - 1)
             /\ ((r[i].op = "check" /\ fits) => r[i].holds) /\ (r[i].op = "call" => calls)
  <2>1. CASE i \in 1 .. n
    <3>1. Made(r, i - 1) = Made(p, i - 1) /\ r[i] = p[i]
      BY <1>1, <1>2, <2>1
    <3> QED
      BY <2>1, <3>1 DEF Good, Fed, Passes
  <2>2. CASE i > n
    <3>1. PICK k \in 1 .. m : i = n + k /\ r[i] = q[k]
      <4>1. i - n \in 1 .. m /\ r[i] = q[i - n]
        BY <1>1, <2>2
      <4>2. i = n + (i - n)
        BY <1>1
      <4> QED
        BY <4>1, <4>2
    <3>2. Made(r, i - 1) = Made(p, n) \cup Made(q, k - 1)
      <4>1. k - 1 \in 0 .. m /\ i - 1 = n + (k - 1)
        BY <1>1, <3>1
      <4> HIDE DEF r, n, m
      <4> QED
        BY <1>3, <4>1
    <3>3. /\ q[k].uses \subseteq w \cup Made(q, k - 1)
          /\ ((q[k].op = "check" /\ fits) => q[k].holds) /\ (q[k].op = "call" => calls)
      BY <3>1 DEF Good, Fed, Passes
    <3> QED
      BY <3>1, <3>2, <3>3 DEF Whole
  <2> QED
    BY <1>1, <2>1, <2>2
<1> QED
  BY <1>1, <1>4, <1>5 DEF Good, Fed, Passes

LEMMA WalksOn ==
    ASSUME NEW fits \in BOOLEAN, NEW calls \in BOOLEAN, NEW p, NEW q, NEW a, NEW b, NEW c,
           Walks(p, a, b, fits, calls), Walks(q, b, c, fits, calls)
    PROVE  Walks(p \o q, a, c, fits, calls)
<1>1. Good(p, a, fits, calls) /\ b \subseteq a \cup Whole(p)
  BY DEF Walks
<1>2. Good(q, b, fits, calls) /\ c \subseteq b \cup Whole(q)
  BY DEF Walks
<1>0. PICK w : w = a \cup Whole(p)
  OBVIOUS
<1>3. Good(q, w, fits, calls)
  <2>1. (\E S : q \in Seq(S)) /\ Fed(q, b) /\ Passes(q, fits, calls)
    BY <1>2 DEF Good
  <2>2. Fed(q, w)
    BY <1>0, <1>1, <2>1 DEF Fed
  <2> QED
    BY <2>1, <2>2 DEF Good
<1>4. Good(p \o q, a, fits, calls) /\ Whole(p) \cup Whole(q) \subseteq Whole(p \o q)
  <2>1. Good(p, a, fits, calls)
    BY <1>1
  <2>2. Good(p \o q, a, fits, calls)
    BY <1>0, <2>1, <1>3, Joined
  <2>3. Whole(p) \cup Whole(q) \subseteq Whole(p \o q)
    BY <1>0, <2>1, <1>3, Joined
  <2> QED
    BY <2>2, <2>3
<1>5. c \subseteq a \cup Whole(p \o q)
  BY <1>1, <1>2, <1>4
<1> QED
  BY <1>4, <1>5 DEF Walks

\* Less of what a process then has
LEMMA WalksTo ==
    ASSUME NEW fits \in BOOLEAN, NEW calls \in BOOLEAN, NEW p, NEW a, NEW b, NEW c,
           Walks(p, a, b, fits, calls), c \subseteq b
    PROVE  Walks(p, a, c, fits, calls)
BY DEF Walks

\* No step, one step, and one step more
LEMMA NoSteps == ASSUME NEW fits \in BOOLEAN, NEW calls \in BOOLEAN,
   NEW a PROVE Walks(<<>>, a, a, fits, calls)
BY DEF Walks, Good, Fed, Passes, Whole, Made

LEMMA OneStep ==
    ASSUME NEW fits \in BOOLEAN, NEW calls \in BOOLEAN, NEW s, NEW a, NEW b,
           Makes(s, a, b, fits, calls)
    PROVE  Walks(<<s>>, a, b, fits, calls)
<1>1. <<s>> \in Seq({s}) /\ Len(<<s>>) = 1 /\ <<s>>[1] = s
  OBVIOUS
<1>2. Made(<<s>>, 1) = {s.what} /\ Made(<<s>>, 0) = {}
  BY <1>1 DEF Made
<1>3. Fed(<<s>>, a) /\ Passes(<<s>>, fits, calls)
  BY <1>1, <1>2 DEF Fed, Passes, Makes
<1>4. Whole(<<s>>) = {s.what}
  BY <1>1, <1>2 DEF Whole
<1>5. b \subseteq a \cup Whole(<<s>>)
  BY <1>4 DEF Makes
<1> QED
  BY <1>1, <1>3, <1>5 DEF Walks, Good

LEMMA AddStep ==
    ASSUME NEW fits \in BOOLEAN, NEW calls \in BOOLEAN, NEW p, NEW a, NEW b,
           Walks(p, a, b, fits, calls),
           NEW s, NEW c, Makes(s, b, c, fits, calls)
    PROVE  Walks(Append(p, s), a, c, fits, calls)
<1>1. Append(p, s) = p \o <<s>>
  <2>1. PICK S : p \in Seq(S)
    BY DEF Walks, Good
  <2>2. p \in Seq(S \cup {s}) /\ s \in S \cup {s}
    BY <2>1, SeqMonotonic
  <2> QED
    BY <2>2, AppendIsConcat
<1>2. Walks(<<s>>, b, c, fits, calls)
  BY OneStep
<1>3. Walks(p \o <<s>>, a, c, fits, calls)
  BY <1>2, WalksOn, Zenon
<1> QED
  BY <1>1, <1>3, Zenon

\* Lists written out
LEMMA TwoSteps ==
    ASSUME NEW fits \in BOOLEAN, NEW calls \in BOOLEAN, NEW a0,
           NEW s1, NEW a1, Makes(s1, a0, a1, fits, calls),
           NEW s2, NEW a2, Makes(s2, a1, a2, fits, calls)
    PROVE  Walks(<<s1, s2>>, a0, a2, fits, calls)
<1>1. <<s1, s2>> = Append(<<s1>>, s2)
  OBVIOUS
<1>2. Walks(<<s1>>, a0, a1, fits, calls)
  BY OneStep, Zenon
<1> QED
  BY <1>1, <1>2, AddStep, Zenon

LEMMA ThreeSteps ==
    ASSUME NEW fits \in BOOLEAN, NEW calls \in BOOLEAN, NEW a0,
           NEW s1, NEW a1, Makes(s1, a0, a1, fits, calls),
           NEW s2, NEW a2, Makes(s2, a1, a2, fits, calls),
           NEW s3, NEW a3, Makes(s3, a2, a3, fits, calls)
    PROVE  Walks(<<s1, s2, s3>>, a0, a3, fits, calls)
<1>1. <<s1, s2, s3>> = Append(<<s1, s2>>, s3)
  OBVIOUS
<1>2. Walks(<<s1, s2>>, a0, a2, fits, calls)
  BY TwoSteps, Zenon
<1> QED
  BY <1>1, <1>2, AddStep, Zenon

LEMMA FourSteps ==
    ASSUME NEW fits \in BOOLEAN, NEW calls \in BOOLEAN, NEW a0,
           NEW s1, NEW a1, Makes(s1, a0, a1, fits, calls),
           NEW s2, NEW a2, Makes(s2, a1, a2, fits, calls),
           NEW s3, NEW a3, Makes(s3, a2, a3, fits, calls),
           NEW s4, NEW a4, Makes(s4, a3, a4, fits, calls)
    PROVE  Walks(<<s1, s2, s3, s4>>, a0, a4, fits, calls)
<1>1. <<s1, s2, s3, s4>> = Append(<<s1, s2, s3>>, s4)
  OBVIOUS
<1>2. Walks(<<s1, s2, s3>>, a0, a3, fits, calls)
  BY ThreeSteps, Zenon
<1> QED
  BY <1>1, <1>2, AddStep, Zenon

LEMMA FiveSteps ==
    ASSUME NEW fits \in BOOLEAN, NEW calls \in BOOLEAN, NEW a0,
           NEW s1, NEW a1, Makes(s1, a0, a1, fits, calls),
           NEW s2, NEW a2, Makes(s2, a1, a2, fits, calls),
           NEW s3, NEW a3, Makes(s3, a2, a3, fits, calls),
           NEW s4, NEW a4, Makes(s4, a3, a4, fits, calls),
           NEW s5, NEW a5, Makes(s5, a4, a5, fits, calls)
    PROVE  Walks(<<s1, s2, s3, s4, s5>>, a0, a5, fits, calls)
<1>1. <<s1, s2, s3, s4, s5>> = Append(<<s1, s2, s3, s4>>, s5)
  OBVIOUS
<1>2. Walks(<<s1, s2, s3, s4>>, a0, a4, fits, calls)
  BY FourSteps, Zenon
<1> QED
  BY <1>1, <1>2, AddStep, Zenon

LEMMA SixSteps ==
    ASSUME NEW fits \in BOOLEAN, NEW calls \in BOOLEAN, NEW a0,
           NEW s1, NEW a1, Makes(s1, a0, a1, fits, calls),
           NEW s2, NEW a2, Makes(s2, a1, a2, fits, calls),
           NEW s3, NEW a3, Makes(s3, a2, a3, fits, calls),
           NEW s4, NEW a4, Makes(s4, a3, a4, fits, calls),
           NEW s5, NEW a5, Makes(s5, a4, a5, fits, calls),
           NEW s6, NEW a6, Makes(s6, a5, a6, fits, calls)
    PROVE  Walks(<<s1, s2, s3, s4, s5, s6>>, a0, a6, fits, calls)
<1>1. <<s1, s2, s3, s4, s5, s6>> = Append(<<s1, s2, s3, s4, s5>>, s6)
  OBVIOUS
<1>2. Walks(<<s1, s2, s3, s4, s5>>, a0, a5, fits, calls)
  BY FiveSteps, Zenon
<1> QED
  BY <1>1, <1>2, AddStep, Zenon

LEMMA SevenSteps ==
    ASSUME NEW fits \in BOOLEAN, NEW calls \in BOOLEAN, NEW a0,
           NEW s1, NEW a1, Makes(s1, a0, a1, fits, calls),
           NEW s2, NEW a2, Makes(s2, a1, a2, fits, calls),
           NEW s3, NEW a3, Makes(s3, a2, a3, fits, calls),
           NEW s4, NEW a4, Makes(s4, a3, a4, fits, calls),
           NEW s5, NEW a5, Makes(s5, a4, a5, fits, calls),
           NEW s6, NEW a6, Makes(s6, a5, a6, fits, calls),
           NEW s7, NEW a7, Makes(s7, a6, a7, fits, calls)
    PROVE  Walks(<<s1, s2, s3, s4, s5, s6, s7>>, a0, a7, fits, calls)
<1>1. <<s1, s2, s3, s4, s5, s6, s7>> = Append(<<s1, s2, s3, s4, s5, s6>>, s7)
  OBVIOUS
<1>2. Walks(<<s1, s2, s3, s4, s5, s6>>, a0, a6, fits, calls)
  BY SixSteps, Zenon
<1> QED
  BY <1>1, <1>2, AddStep, Zenon

LEMMA EightSteps ==
    ASSUME NEW fits \in BOOLEAN, NEW calls \in BOOLEAN, NEW a0,
           NEW s1, NEW a1, Makes(s1, a0, a1, fits, calls),
           NEW s2, NEW a2, Makes(s2, a1, a2, fits, calls),
           NEW s3, NEW a3, Makes(s3, a2, a3, fits, calls),
           NEW s4, NEW a4, Makes(s4, a3, a4, fits, calls),
           NEW s5, NEW a5, Makes(s5, a4, a5, fits, calls),
           NEW s6, NEW a6, Makes(s6, a5, a6, fits, calls),
           NEW s7, NEW a7, Makes(s7, a6, a7, fits, calls),
           NEW s8, NEW a8, Makes(s8, a7, a8, fits, calls)
    PROVE  Walks(<<s1, s2, s3, s4, s5, s6, s7, s8>>, a0, a8, fits, calls)
<1>1. <<s1, s2, s3, s4, s5, s6, s7, s8>> = Append(<<s1, s2, s3, s4, s5, s6, s7>>, s8)
  OBVIOUS
<1>2. Walks(<<s1, s2, s3, s4, s5, s6, s7>>, a0, a7, fits, calls)
  BY SevenSteps, Zenon
<1> QED
  BY <1>1, <1>2, AddStep, Zenon

\* Each kind of step
LEMMA StepMakes ==
    ASSUME NEW fits \in BOOLEAN, NEW calls \in BOOLEAN, NEW a, NEW uses, NEW base, uses
           \subseteq base
    PROVE  /\ Makes(Load(a), base, base \cup {a}, fits, calls)
           /\ Makes(Host(a, uses), base, base \cup {a}, fits, calls)
           /\ Makes(Video(a, uses), base, base \cup {a}, fits, calls)
<1>1. Makes(Load(a), base, base \cup {a}, fits, calls)
  BY DEF Makes, Load, Step
<1>2. Makes(Host(a, uses), base, base \cup {a}, fits, calls)
  BY DEF Makes, Host, Step
<1>3. Makes(Video(a, uses), base, base \cup {a}, fits, calls)
  BY DEF Makes, Video, Step
<1> QED
  BY <1>1, <1>2, <1>3

LEMMA CallMakes ==
    ASSUME NEW fits \in BOOLEAN, NEW calls \in BOOLEAN, calls, NEW a, NEW uses, NEW base,
           uses \subseteq base
    PROVE  Makes(RpcCall(a, uses), base, base \cup {a}, fits, calls)
BY DEF Makes, RpcCall, Step

LEMMA CheckMakes ==
    ASSUME NEW fits \in BOOLEAN, NEW calls \in BOOLEAN, NEW a, NEW uses, NEW base, uses
           \subseteq base,
           NEW holds, fits => holds
    PROVE  Makes(Check(a, uses, holds), base, base \cup {a}, fits, calls)
BY DEF Makes, Check, Step

\* Once the firmware is up
LEMMA InitObjectsWalks ==
    ASSUME NEW fits \in BOOLEAN, NEW calls \in BOOLEAN, calls, NEW base, {"root_page_table"}
           \subseteq base
    PROVE  Walks(init_objects, base, base \cup {"device", "subdevice", "vaspace", "engines"}, fits,
           calls)
<1> DEFINE b1 == base \cup {"priv_root"}  b2 == b1 \cup {"device"}
           b3 == b2 \cup {"subdevice"}  b4 == b3 \cup {"vaspace"}
           b5 == b4 \cup {"engines"}  b6 == b5 \cup {"reserved"}
           b7 == b6 \cup {"pdes_copied"}
<1>1. Makes(RpcCall("priv_root", {}), base, b1, fits, calls)
  BY CallMakes
<1>2. Makes(RpcCall("device", {"priv_root"}), b1, b2, fits, calls)
  BY CallMakes
<1>3. Makes(RpcCall("subdevice", {"device"}), b2, b3, fits, calls)
  BY CallMakes
<1>4. Makes(RpcCall("vaspace", {"device"}), b3, b4, fits, calls)
  BY CallMakes
<1>5. Makes(RpcCall("engines", {"subdevice"}), b4, b5, fits, calls)
  BY CallMakes
<1>6. Makes(Video("reserved", {"root_page_table"}), b5, b6, fits, calls)
  BY StepMakes
<1>7. Makes(RpcCall("pdes_copied", {"vaspace", "reserved"}), b6, b7, fits, calls)
  BY CallMakes
<1>8. Walks(init_objects, base, b7, fits, calls)
  <2> HIDE DEF b1, b2, b3, b4, b5, b6, b7
  <2> QED
    BY <1>1, <1>2, <1>3, <1>4, <1>5, <1>6, <1>7, SevenSteps, Zenon DEF init_objects
<1>9. base \cup {"device", "subdevice", "vaspace", "engines"} \subseteq b7
  OBVIOUS
<1> HIDE DEF b1, b2, b3, b4, b5, b6, b7
<1> QED
  BY <1>8, <1>9, WalksTo, Zenon

LEMMA FillChannelState ==
    ASSUME NEW fits \in BOOLEAN, NEW calls \in BOOLEAN, calls, NEW a, NEW b, NEW base
    PROVE  Walks(fill_channel_state(a, b), base, base \cup {a, b}, fits, calls)
<1>1. Makes(Video(a, {}), base, base \cup {a}, fits, calls)
  BY StepMakes
<1>2. Makes(Video(b, {}), base \cup {a}, (base \cup {a}) \cup {b}, fits, calls)
  BY StepMakes
<1>3. base \cup {a, b} = (base \cup {a}) \cup {b}
  OBVIOUS
<1> QED
  BY <1>1, <1>2, <1>3, TwoSteps, Zenon DEF fill_channel_state

LEMMA GpfifoWalks ==
    ASSUME NEW fits \in BOOLEAN, NEW calls \in BOOLEAN, calls, NEW base
    PROVE  Walks(<<Video("gpfifo", {})>>, base, base \cup {"gpfifo"}, fits, calls)
<1>1. Makes(Video("gpfifo", {}), base, base \cup {"gpfifo"}, fits, calls)
  BY StepMakes
<1> QED
  BY <1>1, OneStep, Zenon

LEMMA ChannelWalks ==
    ASSUME NEW fits \in BOOLEAN, NEW calls \in BOOLEAN, calls, NEW base,
           {"device", "vaspace", "gpfifo", "ramfc", "mthdbuf", "engines"} \subseteq base
    PROVE  Walks(<<RpcCall("channel", {"device", "vaspace", "gpfifo", "ramfc", "mthdbuf",
           "engines"})>>, base, base \cup {"channel"}, fits, calls)
<1>1. Makes(RpcCall("channel", {"device", "vaspace", "gpfifo", "ramfc", "mthdbuf", "engines"}),
        base, base \cup {"channel"}, fits, calls)
  BY CallMakes
<1> QED
  BY <1>1, OneStep, Zenon

LEMMA InitChannelWalks ==
    ASSUME NEW fits \in BOOLEAN, NEW calls \in BOOLEAN, calls, NEW base,
           {"device", "vaspace", "engines"} \subseteq base
    PROVE  Walks(init_channel, base, base \cup {"channel"}, fits, calls)
<1> DEFINE b1 == base \cup {"gpfifo"}
           b2 == b1 \cup {"ramfc", "mthdbuf"}
           b3 == b2 \cup {"channel"}
<1>1. Walks(<<Video("gpfifo", {})>>, base, b1, fits, calls)
  BY GpfifoWalks
<1>2. Walks(fill_channel_state("ramfc", "mthdbuf"), b1, b2, fits, calls)
  BY FillChannelState
<1>3. Walks(<<RpcCall("channel", {"device", "vaspace", "gpfifo", "ramfc", "mthdbuf", "engines"})>>,
        b2, b3, fits, calls)
  <2>1. {"device", "vaspace", "gpfifo", "ramfc", "mthdbuf", "engines"} \subseteq b2
    OBVIOUS
  <2> HIDE DEF b2
  <2> QED
    BY <2>1, ChannelWalks DEF b3
<1>4. base \cup {"channel"} \subseteq b3
  OBVIOUS
<1> HIDE DEF b1, b2, b3
<1>5. Walks(<<Video("gpfifo", {})>> \o fill_channel_state("ramfc", "mthdbuf"), base, b2, fits,
        calls)
  BY <1>1, <1>2, WalksOn, Zenon
<1>6. Walks(<<Video("gpfifo", {})>> \o fill_channel_state("ramfc", "mthdbuf")
        \o <<RpcCall("channel", {"device", "vaspace", "gpfifo", "ramfc", "mthdbuf", "engines"})>>,
        base, b3, fits, calls)
  BY <1>5, <1>3, WalksOn, Zenon
<1> QED
  BY <1>6, <1>4, WalksTo, Zenon DEF init_channel

LEMMA GrContextWalks ==
    ASSUME NEW fits \in BOOLEAN, NEW calls \in BOOLEAN, calls, NEW base, {"subdevice", "channel"}
           \subseteq base
    PROVE  Walks(init_gr_context, base, base \cup {"gr_sizes"}, fits, calls)
<1> DEFINE b1 == base \cup {"gr_sizes"}  b2 == b1 \cup {"grctx"}
           b3 == b2 \cup {"promoted"}  b4 == b3 \cup {"compute_obj"}
           b5 == b4 \cup {"dma_copy_obj"}
<1>1. Makes(RpcCall("gr_sizes", {"subdevice"}), base, b1, fits, calls)
  BY CallMakes
<1>2. Makes(Video("grctx", {"gr_sizes"}), b1, b2, fits, calls)
  BY StepMakes
<1>3. Makes(RpcCall("promoted", {"subdevice", "channel", "grctx"}), b2, b3, fits, calls)
  BY CallMakes
<1>4. Makes(RpcCall("compute_obj", {"channel"}), b3, b4, fits, calls)
  BY CallMakes
<1>5. Makes(RpcCall("dma_copy_obj", {"channel"}), b4, b5, fits, calls)
  BY CallMakes
<1>6. Walks(init_gr_context, base, b5, fits, calls)
  <2> HIDE DEF b1, b2, b3, b4, b5
  <2> QED
    BY <1>1, <1>2, <1>3, <1>4, <1>5, FiveSteps, Zenon DEF init_gr_context
<1>7. base \cup {"gr_sizes"} \subseteq b5
  OBVIOUS
<1> HIDE DEF b1, b2, b3, b4, b5
<1> QED
  BY <1>6, <1>7, WalksTo, Zenon

LEMMA GroupAndGeometryWalks ==
    ASSUME NEW fits \in BOOLEAN, NEW calls \in BOOLEAN, calls, NEW base,
           {"user_device", "user_vaspace", "user_subdevice"} \subseteq base
    PROVE  Walks(group_and_geometry, base, base \cup {"user_group", "user_ctxshare"}, fits, calls)
<1> DEFINE b1 == base \cup {"user_group"}  b2 == b1 \cup {"user_ctxshare"}
           b3 == b2 \cup {"geometry"}  b4 == b3 \cup {"scratch"}
           b5 == b4 \cup {"staging"}
<1>1. Makes(RpcCall("user_group", {"user_device"}), base, b1, fits, calls)
  BY CallMakes
<1>2. Makes(RpcCall("user_ctxshare", {"user_group", "user_vaspace"}), b1, b2, fits, calls)
  BY CallMakes
<1>3. Makes(RpcCall("geometry", {"user_subdevice"}), b2, b3, fits, calls)
  BY CallMakes
<1>4. Makes(Video("scratch", {}), b3, b4, fits, calls)
  BY StepMakes
<1>5. Makes(Host("staging", {}), b4, b5, fits, calls)
  BY StepMakes
<1>6. Walks(group_and_geometry, base, b5, fits, calls)
  <2> HIDE DEF b1, b2, b3, b4, b5
  <2> QED
    BY <1>1, <1>2, <1>3, <1>4, <1>5, FiveSteps, Zenon DEF group_and_geometry
<1>7. base \cup {"user_group", "user_ctxshare"} \subseteq b5
  OBVIOUS
<1> HIDE DEF b1, b2, b3, b4, b5
<1> QED
  BY <1>6, <1>7, WalksTo, Zenon

LEMMA ClientWalks ==
    ASSUME NEW fits \in BOOLEAN, NEW calls \in BOOLEAN, calls, NEW base, {"root_page_table"}
           \subseteq base
    PROVE  Walks(<<reserve_bar_pool, RpcCall("user_root", {}),
           RpcCall("user_device", {"user_root"}), RpcCall("user_subdevice", {"user_device"}),
           RpcCall("user_virtmem", {"user_device"}), RpcCall("boost", {"user_subdevice"}),
           RpcCall("user_vaspace", {"user_device"}), RpcCall("page_directory",
           {"user_device", "user_vaspace", "root_page_table"})>>, base, base
           \cup {"bar_pool", "user_device", "user_subdevice", "user_vaspace"}, fits, calls)
<1> DEFINE b1 == base \cup {"bar_pool"}  b2 == b1 \cup {"user_root"}
           b3 == b2 \cup {"user_device"}  b4 == b3 \cup {"user_subdevice"}
           b5 == b4 \cup {"user_virtmem"}  b6 == b5 \cup {"boost"}
           b7 == b6 \cup {"user_vaspace"}  b8 == b7 \cup {"page_directory"}
<1>1. Makes(reserve_bar_pool, base, b1, fits, calls)
  BY StepMakes DEF reserve_bar_pool
<1>2. Makes(RpcCall("user_root", {}), b1, b2, fits, calls)
  BY CallMakes
<1>3. Makes(RpcCall("user_device", {"user_root"}), b2, b3, fits, calls)
  BY CallMakes
<1>4. Makes(RpcCall("user_subdevice", {"user_device"}), b3, b4, fits, calls)
  BY CallMakes
<1>5. Makes(RpcCall("user_virtmem", {"user_device"}), b4, b5, fits, calls)
  BY CallMakes
<1>6. Makes(RpcCall("boost", {"user_subdevice"}), b5, b6, fits, calls)
  BY CallMakes
<1>7. Makes(RpcCall("user_vaspace", {"user_device"}), b6, b7, fits, calls)
  BY CallMakes
<1>8. Makes(RpcCall("page_directory", {"user_device", "user_vaspace", "root_page_table"}), b7, b8,
        fits, calls)
  BY CallMakes
<1>9. Walks(<<reserve_bar_pool, RpcCall("user_root", {}), RpcCall("user_device", {"user_root"}),
        RpcCall("user_subdevice", {"user_device"}), RpcCall("user_virtmem", {"user_device"}),
        RpcCall("boost", {"user_subdevice"}), RpcCall("user_vaspace", {"user_device"}),
        RpcCall("page_directory", {"user_device", "user_vaspace", "root_page_table"})>>, base, b8,
        fits, calls)
  <2> HIDE DEF b1, b2, b3, b4, b5, b6, b7, b8
  <2> QED
    BY <1>1, <1>2, <1>3, <1>4, <1>5, <1>6, <1>7, <1>8, EightSteps, Zenon
<1>10. base \cup {"bar_pool", "user_device", "user_subdevice", "user_vaspace"} \subseteq b8
  OBVIOUS
<1> HIDE DEF b1, b2, b3, b4, b5, b6, b7, b8
<1> QED
  BY <1>9, <1>10, WalksTo, Zenon

LEMMA OpenClientWalks ==
    ASSUME NEW fits \in BOOLEAN, NEW calls \in BOOLEAN, calls, NEW base, {"root_page_table"}
           \subseteq base
    PROVE  Walks(open_client, base, base \cup {"bar_pool", "user_device", "user_subdevice",
           "user_group", "user_ctxshare"}, fits, calls)
<1> DEFINE b1 == base \cup {"bar_pool", "user_device", "user_subdevice", "user_vaspace"}
           b2 == b1 \cup {"user_group", "user_ctxshare"}
<1>1. Walks(<<reserve_bar_pool, RpcCall("user_root", {}), RpcCall("user_device", {"user_root"}),
        RpcCall("user_subdevice", {"user_device"}), RpcCall("user_virtmem", {"user_device"}),
        RpcCall("boost", {"user_subdevice"}), RpcCall("user_vaspace", {"user_device"}),
        RpcCall("page_directory", {"user_device", "user_vaspace", "root_page_table"})>>, base, b1,
        fits, calls)
  BY ClientWalks
<1>2. Walks(group_and_geometry, b1, b2, fits, calls)
  <2>1. {"user_device", "user_vaspace", "user_subdevice"} \subseteq b1
    OBVIOUS
  <2> HIDE DEF b1
  <2> QED
    BY <2>1, GroupAndGeometryWalks DEF b2
<1>3. base \cup {"bar_pool", "user_device", "user_subdevice", "user_group", "user_ctxshare"}
        \subseteq b2
  OBVIOUS
<1> HIDE DEF b1, b2
<1>4. Walks(<<reserve_bar_pool, RpcCall("user_root", {}), RpcCall("user_device", {"user_root"}),
        RpcCall("user_subdevice", {"user_device"}), RpcCall("user_virtmem", {"user_device"}),
        RpcCall("boost", {"user_subdevice"}), RpcCall("user_vaspace", {"user_device"}),
        RpcCall("page_directory", {"user_device", "user_vaspace", "root_page_table"})>>
        \o group_and_geometry, base, b2, fits, calls)
  BY <1>1, <1>2, WalksOn, Zenon
<1> QED
  BY <1>4, <1>3, WalksTo, Zenon DEF open_client

LEMMA PromoteWalks ==
    ASSUME NEW fits \in BOOLEAN, NEW calls \in BOOLEAN, calls, NEW q, NEW base,
           {"gr_sizes", "user_subdevice", q.channel} \subseteq base
    PROVE  Walks(promote(q), base, base \cup {q.by_virt}, fits, calls)
<1> DEFINE b1 == base \cup {q.grctx}  b2 == b1 \cup {q.by_phys}
           b3 == b2 \cup {q.discarded}  b4 == b3 \cup {q.by_virt}
<1>1. Makes(Video(q.grctx, {"gr_sizes"}), base, b1, fits, calls)
  BY StepMakes
<1>2. Makes(RpcCall(q.by_phys, {"user_subdevice", q.channel, q.grctx}), b1, b2, fits, calls)
  BY CallMakes
<1>3. Makes(Video(q.discarded, {"gr_sizes"}), b2, b3, fits, calls)
  BY StepMakes
<1>4. Makes(RpcCall(q.by_virt, {"user_subdevice", q.channel, q.grctx, q.by_phys}), b3, b4, fits,
        calls)
  BY CallMakes
<1>5. Walks(promote(q), base, b4, fits, calls)
  <2> HIDE DEF b1, b2, b3, b4
  <2> QED
    BY <1>1, <1>2, <1>3, <1>4, FourSteps, Zenon DEF promote
<1>6. base \cup {q.by_virt} \subseteq b4
  OBVIOUS
<1> HIDE DEF b1, b2, b3, b4
<1> QED
  BY <1>5, <1>6, WalksTo, Zenon

LEMMA NotifierWalks ==
    ASSUME NEW fits \in BOOLEAN, NEW calls \in BOOLEAN, calls, NEW q, NEW base, {"bar_pool"}
           \subseteq base
    PROVE  Walks(<<Video(q.notifier, {"bar_pool"})>>, base, base \cup {q.notifier}, fits, calls)
<1>1. Makes(Video(q.notifier, {"bar_pool"}), base, base \cup {q.notifier}, fits, calls)
  BY StepMakes
<1> QED
  BY <1>1, OneStep, Zenon

LEMMA QueueCallWalks ==
    ASSUME NEW fits \in BOOLEAN, NEW calls \in BOOLEAN, calls, NEW q, NEW base,
           {"user_group", "user_ctxshare", "fifo_mem", q.notifier, q.ramfc, q.mthdbuf}
           \subseteq base
    PROVE  Walks(<<RpcCall(q.channel, {"user_group", "user_ctxshare", "fifo_mem", q.notifier,
           q.ramfc, q.mthdbuf})>>, base, base \cup {q.channel}, fits, calls)
<1>1. Makes(RpcCall(q.channel, {"user_group", "user_ctxshare", "fifo_mem", q.notifier, q.ramfc,
        q.mthdbuf}), base, base \cup {q.channel}, fits, calls)
  BY CallMakes
<1> QED
  BY <1>1, OneStep, Zenon

LEMMA QueueChannelWalks ==
    ASSUME NEW fits \in BOOLEAN, NEW calls \in BOOLEAN, calls, NEW q, NEW base,
           {"bar_pool", "user_group", "user_ctxshare", "fifo_mem"} \subseteq base
    PROVE  Walks(queue_channel(q), base, base \cup {q.channel}, fits, calls)
<1> DEFINE b1 == base \cup {q.notifier}
           b2 == b1 \cup {q.ramfc, q.mthdbuf}
           b3 == b2 \cup {q.channel}
<1>1. Walks(<<Video(q.notifier, {"bar_pool"})>>, base, b1, fits, calls)
  BY NotifierWalks
<1>2. Walks(fill_channel_state(q.ramfc, q.mthdbuf), b1, b2, fits, calls)
  BY FillChannelState
<1>3. Walks(<<RpcCall(q.channel, {"user_group", "user_ctxshare", "fifo_mem", q.notifier, q.ramfc,
        q.mthdbuf})>>, b2, b3, fits, calls)
  <2>1. {"user_group", "user_ctxshare", "fifo_mem", q.notifier, q.ramfc, q.mthdbuf} \subseteq b2
    OBVIOUS
  <2> HIDE DEF b2
  <2> QED
    BY <2>1, QueueCallWalks DEF b3
<1>4. base \cup {q.channel} \subseteq b3
  OBVIOUS
<1> HIDE DEF b1, b2, b3
<1>5. Walks(<<Video(q.notifier, {"bar_pool"})>> \o fill_channel_state(q.ramfc, q.mthdbuf), base, b2,
        fits, calls)
  BY <1>1, <1>2, WalksOn, Zenon
<1>6. Walks(<<Video(q.notifier, {"bar_pool"})>> \o fill_channel_state(q.ramfc, q.mthdbuf)
        \o <<RpcCall(q.channel, {"user_group", "user_ctxshare", "fifo_mem", q.notifier, q.ramfc,
        q.mthdbuf})>>, base, b3, fits, calls)
  BY <1>5, <1>3, WalksOn, Zenon
<1> QED
  BY <1>6, <1>4, WalksTo, Zenon DEF queue_channel

LEMMA ObjectWalks ==
    ASSUME NEW fits \in BOOLEAN, NEW calls \in BOOLEAN, calls, NEW q, NEW base, {q.channel}
           \subseteq base
    PROVE  Walks(<<RpcCall(q.object, {q.channel})>>, base, base \cup {q.object}, fits, calls)
<1>1. Makes(RpcCall(q.object, {q.channel}), base, base \cup {q.object}, fits, calls)
  BY CallMakes
<1> QED
  BY <1>1, OneStep, Zenon

LEMMA DebuggerWalks ==
    ASSUME NEW fits \in BOOLEAN, NEW calls \in BOOLEAN, calls, NEW q, NEW base,
           {"user_device", q.object} \subseteq base
    PROVE  Walks(<<RpcCall("user_debugger", {"user_device", q.object})>>, base, base
           \cup {"user_debugger"}, fits, calls)
<1>1. Makes(RpcCall("user_debugger", {"user_device", q.object}), base, base \cup {"user_debugger"},
        fits, calls)
  BY CallMakes
<1> QED
  BY <1>1, OneStep, Zenon

LEMMA TokenWalks ==
    ASSUME NEW fits \in BOOLEAN, NEW calls \in BOOLEAN, calls, NEW q, NEW base,
           {q.channel, "engines"} \subseteq base
    PROVE  Walks(<<RpcCall(q.token, {q.channel, "engines"})>>, base, base \cup {q.token}, fits,
           calls)
<1>1. Makes(RpcCall(q.token, {q.channel, "engines"}), base, base \cup {q.token}, fits, calls)
  BY CallMakes
<1> QED
  BY <1>1, OneStep, Zenon

LEMMA PromotedWalks ==
    ASSUME NEW fits \in BOOLEAN, NEW calls \in BOOLEAN, calls, NEW q, NEW base,
           {"gr_sizes", "user_subdevice", q.channel, "user_device", q.object} \subseteq base
    PROVE  Walks(promote(q) \o <<RpcCall("user_debugger", {"user_device", q.object})>>, base, base
           \cup {"user_debugger"}, fits, calls)
<1> DEFINE b1 == base \cup {q.by_virt}
           b2 == b1 \cup {"user_debugger"}
<1>1. Walks(promote(q), base, b1, fits, calls)
  BY PromoteWalks
<1>2. Walks(<<RpcCall("user_debugger", {"user_device", q.object})>>, b1, b2, fits, calls)
  <2>1. {"user_device", q.object} \subseteq b1
    OBVIOUS
  <2> HIDE DEF b1
  <2> QED
    BY <2>1, DebuggerWalks DEF b2
<1>3. base \cup {"user_debugger"} \subseteq b2
  OBVIOUS
<1> HIDE DEF b1, b2
<1>4. Walks(promote(q) \o <<RpcCall("user_debugger", {"user_device", q.object})>>, base, b2, fits,
        calls)
  BY <1>1, <1>2, WalksOn, Zenon
<1> QED
  BY <1>4, <1>3, WalksTo, Zenon

LEMMA ComputeQueueWalks ==
    ASSUME NEW fits \in BOOLEAN, NEW calls \in BOOLEAN, calls, NEW q, NEW base,
           {"bar_pool", "user_group", "user_ctxshare", "fifo_mem", "gr_sizes", "user_subdevice",
           "user_device", "engines"} \subseteq base
    PROVE  Walks(new_queue(q, TRUE), base, base \cup {q.token}, fits, calls)
<1> DEFINE b1 == base \cup {q.channel}
           b2 == b1 \cup {q.object}
           b3 == b2 \cup {"user_debugger"}
           b4 == b3 \cup {q.token}
<1>1. Walks(queue_channel(q), base, b1, fits, calls)
  BY QueueChannelWalks
<1>2. Walks(<<RpcCall(q.object, {q.channel})>>, b1, b2, fits, calls)
  <2>1. {q.channel} \subseteq b1
    OBVIOUS
  <2> HIDE DEF b1
  <2> QED
    BY <2>1, ObjectWalks DEF b2
<1>3. Walks((promote(q) \o <<RpcCall("user_debugger", {"user_device", q.object})>>), b2, b3, fits,
        calls)
  <2>1. {"gr_sizes", "user_subdevice", q.channel, "user_device", q.object} \subseteq b2
    OBVIOUS
  <2> HIDE DEF b2
  <2> QED
    BY <2>1, PromotedWalks DEF b3
<1>4. Walks(<<RpcCall(q.token, {q.channel, "engines"})>>, b3, b4, fits, calls)
  <2>1. {q.channel, "engines"} \subseteq b3
    OBVIOUS
  <2> HIDE DEF b3
  <2> QED
    BY <2>1, TokenWalks DEF b4
<1>5. base \cup {q.token} \subseteq b4
  OBVIOUS
<1> HIDE DEF b1, b2, b3, b4
<1>6. Walks(queue_channel(q) \o <<RpcCall(q.object, {q.channel})>>, base, b2, fits, calls)
  BY <1>1, <1>2, WalksOn, Zenon
<1>7. Walks(queue_channel(q) \o <<RpcCall(q.object, {q.channel})>>
        \o (promote(q) \o <<RpcCall("user_debugger", {"user_device", q.object})>>), base, b3, fits,
        calls)
  BY <1>6, <1>3, WalksOn, Zenon
<1>8. Walks(queue_channel(q) \o <<RpcCall(q.object, {q.channel})>>
        \o (promote(q) \o <<RpcCall("user_debugger", {"user_device", q.object})>>)
        \o <<RpcCall(q.token, {q.channel, "engines"})>>, base, b4, fits, calls)
  BY <1>7, <1>4, WalksOn, Zenon
<1> QED
  BY <1>8, <1>5, WalksTo, Zenon DEF new_queue

LEMMA CopyQueueWalks ==
    ASSUME NEW fits \in BOOLEAN, NEW calls \in BOOLEAN, calls, NEW q, NEW base,
           {"bar_pool", "user_group", "user_ctxshare", "fifo_mem", "engines"} \subseteq base
    PROVE  Walks(new_queue(q, FALSE), base, base \cup {q.token}, fits, calls)
<1> DEFINE b1 == base \cup {q.channel}
           b2 == b1 \cup {q.object}
           b3 == b2
           b4 == b3 \cup {q.token}
<1>1. Walks(queue_channel(q), base, b1, fits, calls)
  BY QueueChannelWalks
<1>2. Walks(<<RpcCall(q.object, {q.channel})>>, b1, b2, fits, calls)
  <2>1. {q.channel} \subseteq b1
    OBVIOUS
  <2> HIDE DEF b1
  <2> QED
    BY <2>1, ObjectWalks DEF b2
<1>3. Walks(<<>>, b2, b3, fits, calls)
  BY NoSteps
<1>4. Walks(<<RpcCall(q.token, {q.channel, "engines"})>>, b3, b4, fits, calls)
  <2>1. {q.channel, "engines"} \subseteq b3
    OBVIOUS
  <2> HIDE DEF b3
  <2> QED
    BY <2>1, TokenWalks DEF b4
<1>5. base \cup {q.token} \subseteq b4
  OBVIOUS
<1> HIDE DEF b1, b2, b3, b4
<1>6. Walks(queue_channel(q) \o <<RpcCall(q.object, {q.channel})>>, base, b2, fits, calls)
  BY <1>1, <1>2, WalksOn, Zenon
<1>7. Walks(queue_channel(q) \o <<RpcCall(q.object, {q.channel})>> \o <<>>, base, b3, fits, calls)
  BY <1>6, <1>3, WalksOn, Zenon
<1>8. Walks(queue_channel(q) \o <<RpcCall(q.object, {q.channel})>> \o <<>>
        \o <<RpcCall(q.token, {q.channel, "engines"})>>, base, b4, fits, calls)
  BY <1>7, <1>4, WalksOn, Zenon
<1> QED
  BY <1>8, <1>5, WalksTo, Zenon DEF new_queue

LEMMA FifoWalks ==
    ASSUME NEW fits \in BOOLEAN, NEW calls \in BOOLEAN, calls, NEW base, {"bar_pool"} \subseteq base
    PROVE  Walks(<<Video("fifo_mem", {"bar_pool"})>>, base, base \cup {"fifo_mem"}, fits, calls)
<1>1. Makes(Video("fifo_mem", {"bar_pool"}), base, base \cup {"fifo_mem"}, fits, calls)
  BY StepMakes
<1> QED
  BY <1>1, OneStep, Zenon

LEMMA ScheduledWalks ==
    ASSUME NEW fits \in BOOLEAN, NEW calls \in BOOLEAN, calls, NEW base,
           {"user_group", compute_q.token, copy_q.token} \subseteq base
    PROVE  Walks(<<RpcCall("scheduled", {"user_group", compute_q.token, copy_q.token})>>, base, base
           \cup {"scheduled"}, fits, calls)
<1>1. Makes(RpcCall("scheduled", {"user_group", compute_q.token, copy_q.token}), base, base
        \cup {"scheduled"}, fits, calls)
  BY CallMakes
<1> QED
  BY <1>1, OneStep, Zenon

LEMMA InitQueuesWalks ==
    ASSUME NEW fits \in BOOLEAN, NEW calls \in BOOLEAN, calls, NEW base,
           {"bar_pool", "user_group", "user_ctxshare", "gr_sizes", "user_subdevice", "user_device",
           "engines"} \subseteq base
    PROVE  Walks(init_queues, base, base \cup {"scheduled"}, fits, calls)
<1> DEFINE b1 == base \cup {"fifo_mem"}
           b2 == b1 \cup {compute_q.token}
           b3 == b2 \cup {copy_q.token}
           b4 == b3 \cup {"scheduled"}
<1>1. Walks(<<Video("fifo_mem", {"bar_pool"})>>, base, b1, fits, calls)
  BY FifoWalks
<1>2. Walks(new_queue(compute_q, TRUE), b1, b2, fits, calls)
  <2>1. {"bar_pool", "user_group", "user_ctxshare", "fifo_mem", "gr_sizes", "user_subdevice",
          "user_device", "engines"} \subseteq b1
    OBVIOUS
  <2> HIDE DEF b1
  <2> QED
    BY <2>1, ComputeQueueWalks DEF b2
<1>3. Walks(new_queue(copy_q, FALSE), b2, b3, fits, calls)
  <2>1. {"bar_pool", "user_group", "user_ctxshare", "fifo_mem", "engines"} \subseteq b2
    OBVIOUS
  <2> HIDE DEF b2
  <2> QED
    BY <2>1, CopyQueueWalks DEF b3
<1>4. Walks(<<RpcCall("scheduled", {"user_group", compute_q.token, copy_q.token})>>, b3, b4, fits,
        calls)
  <2>1. {"user_group", compute_q.token, copy_q.token} \subseteq b3
    OBVIOUS
  <2> HIDE DEF b3
  <2> QED
    BY <2>1, ScheduledWalks DEF b4
<1>5. base \cup {"scheduled"} \subseteq b4
  OBVIOUS
<1> HIDE DEF b1, b2, b3, b4
<1>6. Walks(<<Video("fifo_mem", {"bar_pool"})>> \o new_queue(compute_q, TRUE), base, b2, fits,
        calls)
  BY <1>1, <1>2, WalksOn, Zenon
<1>7. Walks(<<Video("fifo_mem", {"bar_pool"})>> \o new_queue(compute_q, TRUE)
        \o new_queue(copy_q, FALSE), base, b3, fits, calls)
  BY <1>6, <1>3, WalksOn, Zenon
<1>8. Walks(<<Video("fifo_mem", {"bar_pool"})>> \o new_queue(compute_q, TRUE)
        \o new_queue(copy_q, FALSE) \o <<RpcCall("scheduled",
        {"user_group", compute_q.token, copy_q.token})>>, base, b4, fits, calls)
  BY <1>7, <1>4, WalksOn, Zenon
<1> QED
  BY <1>8, <1>5, WalksTo, Zenon DEF init_queues

\* Once the firmware is up, every step names what is there
LEMMA RmSetupWalks ==
    ASSUME NEW fits \in BOOLEAN, NEW calls \in BOOLEAN, calls, NEW base, {"root_page_table"}
           \subseteq base
    PROVE  Walks(RmSetup, base, base \cup {"scheduled"}, fits, calls)
<1> DEFINE b1 == base \cup {"device", "subdevice", "vaspace", "engines"}
           b2 == b1 \cup {"channel"}
           b3 == b2 \cup {"gr_sizes"}
           b4 == b3 \cup {"bar_pool", "user_device", "user_subdevice", "user_group",
              "user_ctxshare"}
           b5 == b4 \cup {"scheduled"}
<1>1. Walks(init_objects, base, b1, fits, calls)
  BY InitObjectsWalks
<1>2. Walks(init_channel, b1, b2, fits, calls)
  <2>1. {"device", "vaspace", "engines"} \subseteq b1
    OBVIOUS
  <2> HIDE DEF b1
  <2> QED
    BY <2>1, InitChannelWalks DEF b2
<1>3. Walks(init_gr_context, b2, b3, fits, calls)
  <2>1. {"subdevice", "channel"} \subseteq b2
    OBVIOUS
  <2> HIDE DEF b2
  <2> QED
    BY <2>1, GrContextWalks DEF b3
<1>4. Walks(open_client, b3, b4, fits, calls)
  <2>1. {"root_page_table"} \subseteq b3
    OBVIOUS
  <2> HIDE DEF b3
  <2> QED
    BY <2>1, OpenClientWalks DEF b4
<1>5. Walks(init_queues, b4, b5, fits, calls)
  <2>1. {"bar_pool", "user_group", "user_ctxshare", "gr_sizes", "user_subdevice", "user_device",
          "engines"} \subseteq b4
    OBVIOUS
  <2> HIDE DEF b4
  <2> QED
    BY <2>1, InitQueuesWalks DEF b5
<1>6. base \cup {"scheduled"} \subseteq b5
  OBVIOUS
<1> HIDE DEF b1, b2, b3, b4, b5
<1>7. Walks(init_objects \o init_channel, base, b2, fits, calls)
  BY <1>1, <1>2, WalksOn, Zenon
<1>8. Walks(init_objects \o init_channel \o init_gr_context, base, b3, fits, calls)
  BY <1>7, <1>3, WalksOn, Zenon
<1>9. Walks(init_objects \o init_channel \o init_gr_context \o open_client, base, b4, fits, calls)
  BY <1>8, <1>4, WalksOn, Zenon
<1>10. Walks(init_objects \o init_channel \o init_gr_context \o open_client \o init_queues, base,
         b5, fits, calls)
  BY <1>9, <1>5, WalksOn, Zenon
<1> QED
  BY <1>10, <1>6, WalksTo, Zenon DEF RmSetup

\* What a boot places, by the chain of trust and by the falcons
LEMMA ChainOfTrustImages ==
    ASSUME NEW fits \in BOOLEAN, NEW calls \in BOOLEAN, NEW base
    PROVE  Walks(flcn_init_sw(TRUE), base, base \cup {"boot_args", "fmc_image"}, fits, calls)
<1> DEFINE b1 == base \cup {"boot_args"}  b2 == b1 \cup {"fmc"}
           b3 == b2 \cup {"fmc_sections"}  b4 == b3 \cup {"fmc_image"}
<1>1. Makes(Host("boot_args", {}), base, b1, fits, calls)
  BY StepMakes
<1>2. Makes(Load("fmc"), b1, b2, fits, calls)
  BY StepMakes
<1>3. Makes(elf_section("fmc_sections"), b2, b3, fits, calls)
  BY StepMakes DEF elf_section
<1>4. Makes(Host("fmc_image", {}), b3, b4, fits, calls)
  BY StepMakes
<1>5. Walks(flcn_init_sw(TRUE), base, b4, fits, calls)
  <2> HIDE DEF b1, b2, b3, b4
  <2> QED
    BY <1>1, <1>2, <1>3, <1>4, FourSteps, Zenon DEF flcn_init_sw
<1>6. base \cup {"boot_args", "fmc_image"} \subseteq b4
  OBVIOUS
<1> HIDE DEF b1, b2, b3, b4
<1> QED
  BY <1>5, <1>6, WalksTo, Zenon

LEMMA FwsecWalks ==
    ASSUME NEW fits \in BOOLEAN, NEW calls \in BOOLEAN, NEW base
    PROVE  Walks(fwsec_frts, base, base \cup {"fwsec"}, fits, calls)
<1> DEFINE b1 == base \cup {"expansion_rom"}  b2 == b1 \cup {"fwsec_desc"}
           b3 == b2 \cup {"fwsec_patch"}  b4 == b3 \cup {"fwsec"}
<1>1. Makes(find_expansion_rom, base, b1, fits, calls)
  BY StepMakes DEF find_expansion_rom
<1>2. Makes(find_fwsec_desc, b1, b2, fits, calls)
  BY StepMakes DEF find_fwsec_desc
<1>3. Makes(fwsec_patch, b2, b3, fits, calls)
  BY StepMakes DEF fwsec_patch
<1>4. Makes(Video("fwsec", {}), b3, b4, fits, calls)
  BY StepMakes
<1>5. Walks(fwsec_frts, base, b4, fits, calls)
  <2> HIDE DEF b1, b2, b3, b4
  <2> QED
    BY <1>1, <1>2, <1>3, <1>4, FourSteps, Zenon DEF fwsec_frts
<1>6. base \cup {"fwsec"} \subseteq b4
  OBVIOUS
<1> HIDE DEF b1, b2, b3, b4
<1> QED
  BY <1>5, <1>6, WalksTo, Zenon

LEMMA BooterWalks ==
    ASSUME NEW fits \in BOOLEAN, NEW calls \in BOOLEAN, NEW base
    PROVE  Walks(prep_booter, base, base \cup {"booter"}, fits, calls)
<1> DEFINE b1 == base \cup {"booter_load"}  b2 == b1 \cup {"booter"}
<1>1. Makes(flcn_parse_booter("booter_load"), base, b1, fits, calls)
  BY StepMakes DEF flcn_parse_booter
<1>2. Makes(Video("booter", {}), b1, b2, fits, calls)
  BY StepMakes
<1>3. Walks(prep_booter, base, b2, fits, calls)
  <2> HIDE DEF b1, b2
  <2> QED
    BY <1>1, <1>2, TwoSteps, Zenon DEF prep_booter
<1>4. base \cup {"booter"} \subseteq b2
  OBVIOUS
<1> HIDE DEF b1, b2
<1> QED
  BY <1>3, <1>4, WalksTo, Zenon

LEMMA FalconImages ==
    ASSUME NEW fits \in BOOLEAN, NEW calls \in BOOLEAN, NEW base
    PROVE  Walks(flcn_init_sw(FALSE), base, base \cup {"fwsec", "booter"}, fits, calls)
<1> DEFINE b1 == base \cup {"fwsec"}
           b2 == b1 \cup {"booter"}
<1>1. Walks(fwsec_frts, base, b1, fits, calls)
  BY FwsecWalks
<1>2. Walks(prep_booter, b1, b2, fits, calls)
  BY BooterWalks
<1>3. base \cup {"fwsec", "booter"} \subseteq b2
  OBVIOUS
<1> HIDE DEF b1, b2
<1>4. Walks(fwsec_frts \o prep_booter, base, b2, fits, calls)
  BY <1>1, <1>2, WalksOn, Zenon
<1> QED
  BY <1>4, <1>3, WalksTo, Zenon DEF flcn_init_sw

LEMMA RmArgsWalks ==
    ASSUME NEW fits \in BOOLEAN, NEW calls \in BOOLEAN, NEW base
    PROVE  Walks(init_rm_args, base, base \cup {"rm_args"}, fits, calls)
<1> DEFINE b1 == base \cup {"queues"}  b2 == b1 \cup {"rm_args"}
           b3 == b2 \cup {"queue_header"}
<1>1. Makes(Host("queues", {}), base, b1, fits, calls)
  BY StepMakes
<1>2. Makes(Host("rm_args", {"queues"}), b1, b2, fits, calls)
  BY StepMakes
<1>3. Makes(Load("queue_header"), b2, b3, fits, calls)
  BY StepMakes
<1>4. Walks(init_rm_args, base, b3, fits, calls)
  <2> HIDE DEF b1, b2, b3
  <2> QED
    BY <1>1, <1>2, <1>3, ThreeSteps, Zenon DEF init_rm_args
<1>5. base \cup {"rm_args"} \subseteq b3
  OBVIOUS
<1> HIDE DEF b1, b2, b3
<1> QED
  BY <1>4, <1>5, WalksTo, Zenon

LEMMA LibosArgsWalks ==
    ASSUME NEW fits \in BOOLEAN, NEW calls \in BOOLEAN, NEW base, {"rm_args"} \subseteq base
    PROVE  Walks(init_libos_args, base, base \cup {"libos_args"}, fits, calls)
<1> DEFINE b1 == base \cup {"logbuf"}  b2 == b1 \cup {"libos_args"}
<1>1. Makes(Host("logbuf", {}), base, b1, fits, calls)
  BY StepMakes
<1>2. Makes(Host("libos_args", {"logbuf", "rm_args"}), b1, b2, fits, calls)
  BY StepMakes
<1>3. Walks(init_libos_args, base, b2, fits, calls)
  <2> HIDE DEF b1, b2
  <2> QED
    BY <1>1, <1>2, TwoSteps, Zenon DEF init_libos_args
<1>4. base \cup {"libos_args"} \subseteq b2
  OBVIOUS
<1> HIDE DEF b1, b2
<1> QED
  BY <1>3, <1>4, WalksTo, Zenon

\* No driver's own check refuses an image that fits: the radix tree ...
LEMMA RadixHolds == ASSUME NEW n \in Nat PROVE RadixFits(n)
<1> DEFINE up(k) == (k - 1) \div 512 + 1
           n3 == up(n)  n2 == up(n3)  n1 == up(n2)
<1>1. \A k \in Nat : up(k) \in Nat
  OBVIOUS
<1>2. n3 \in Nat /\ n2 \in Nat /\ n1 \in Nat
  <2> HIDE DEF up
  <2> QED
    BY <1>1
<1>3. RadixPages(n) = <<n1, n2, n3, n>>
  BY DEF RadixPages
<1> HIDE DEF n1, n2, n3
<1>4. n1 + n2 <= n1 + n2 + n3 + n /\ n1 + n2 + n3 <= n1 + n2 + n3 + n
  BY <1>2
<1> QED
  BY <1>2, <1>3, <1>4 DEF RadixFits

\* ... and the region's two offsets
LEMMA FrtsHolds == ASSUME NEW n, NEW m PROVE frts_offset = Carveout(n, m).frts
BY DEF frts_offset, Carveout

LEMMA GspImageWalks ==
    ASSUME NEW fits \in BOOLEAN, NEW calls \in BOOLEAN, NEW size \in Nat,
           fits => size <= ImageBound, NEW base
    PROVE  Walks(init_gsp_image(size), base, base \cup {"radix3", "signature"}, fits, calls)
<1> DEFINE b1 == base \cup {"gsp"}  b2 == b1 \cup {"gsp_sections"}
           b3 == b2 \cup {"image_bound"}  b4 == b3 \cup {"radix3"}
           b5 == b4 \cup {"radix"}  b6 == b5 \cup {"signature"}
<1>1. Makes(Load("gsp"), base, b1, fits, calls)
  BY StepMakes
<1>2. Makes(elf_section("gsp_sections"), b1, b2, fits, calls)
  BY StepMakes DEF elf_section
<1>3. Makes(Check("image_bound", {}, size <= ImageBound), b2, b3, fits, calls)
  BY CheckMakes
<1>4. Makes(Host("radix3", {}), b3, b4, fits, calls)
  BY StepMakes
<1>5. Makes(Check("radix", {"radix3"}, RadixFits(size)), b4, b5, fits, calls)
  BY RadixHolds, CheckMakes
<1>6. Makes(Host("signature", {}), b5, b6, fits, calls)
  BY StepMakes
<1>7. Walks(init_gsp_image(size), base, b6, fits, calls)
  <2> HIDE DEF b1, b2, b3, b4, b5, b6
  <2> QED
    BY <1>1, <1>2, <1>3, <1>4, <1>5, <1>6, SixSteps, Zenon DEF init_gsp_image
<1>8. base \cup {"radix3", "signature"} \subseteq b6
  OBVIOUS
<1> HIDE DEF b1, b2, b3, b4, b5, b6
<1> QED
  BY <1>7, <1>8, WalksTo, Zenon

LEMMA BootBinaryWalks ==
    ASSUME NEW fits \in BOOLEAN, NEW calls \in BOOLEAN, NEW bin, fits => bin <= BootBinBound,
           NEW base
    PROVE  Walks(init_boot_binary_image(bin), base, base \cup {"bootloader_image"}, fits, calls)
<1> DEFINE b1 == base \cup {"bootloader"}  b2 == b1 \cup {"bootbin_bound"}
           b3 == b2 \cup {"bootloader_image"}
<1>1. Makes(Load("bootloader"), base, b1, fits, calls)
  BY StepMakes
<1>2. Makes(Check("bootbin_bound", {}, bin <= BootBinBound), b1, b2, fits, calls)
  BY CheckMakes
<1>3. Makes(Host("bootloader_image", {}), b2, b3, fits, calls)
  BY StepMakes
<1>4. Walks(init_boot_binary_image(bin), base, b3, fits, calls)
  <2> HIDE DEF b1, b2, b3
  <2> QED
    BY <1>1, <1>2, <1>3, ThreeSteps, Zenon DEF init_boot_binary_image
<1>5. base \cup {"bootloader_image"} \subseteq b3
  OBVIOUS
<1> HIDE DEF b1, b2, b3
<1> QED
  BY <1>4, <1>5, WalksTo, Zenon

LEMMA FrtsCheckWalks ==
    ASSUME NEW fits \in BOOLEAN, NEW calls \in BOOLEAN, NEW size, NEW bin, NEW base, {"fwsec"}
           \subseteq base
    PROVE  Walks(<<Check("frts", {"fwsec"}, frts_offset = Carveout(size, bin).frts)>>, base, base
           \cup {"frts"}, fits, calls)
<1>1. Makes(Check("frts", {"fwsec"}, frts_offset = Carveout(size, bin).frts), base, base
        \cup {"frts"}, fits, calls)
  BY FrtsHolds, CheckMakes
<1> QED
  BY <1>1, OneStep, Zenon

LEMMA WprMetaHostWalks ==
    ASSUME NEW fits \in BOOLEAN, NEW calls \in BOOLEAN, NEW base,
           {"radix3", "bootloader_image", "signature"} \subseteq base
    PROVE  Walks(<<Host("wpr_meta", {"radix3", "bootloader_image", "signature"})>>, base, base
           \cup {"wpr_meta"}, fits, calls)
<1>1. Makes(Host("wpr_meta", {"radix3", "bootloader_image", "signature"}), base, base
        \cup {"wpr_meta"}, fits, calls)
  BY StepMakes
<1> QED
  BY <1>1, OneStep, Zenon

LEMMA WprMetaTrustWalks ==
    ASSUME NEW fits \in BOOLEAN, NEW calls \in BOOLEAN, NEW size \in Nat, NEW bin,
           fits => size <= ImageBound, fits => bin <= BootBinBound, NEW base
    PROVE  Walks(init_wpr_meta(TRUE, size, bin), base, base \cup {"wpr_meta"}, fits, calls)
<1> DEFINE b1 == base \cup {"radix3", "signature"}
           b2 == b1 \cup {"bootloader_image"}
           b3 == b2
           b4 == b3 \cup {"wpr_meta"}
<1>1. Walks(init_gsp_image(size), base, b1, fits, calls)
  BY GspImageWalks
<1>2. Walks(init_boot_binary_image(bin), b1, b2, fits, calls)
  BY BootBinaryWalks
<1>3. Walks(<<>>, b2, b3, fits, calls)
  BY NoSteps
<1>4. Walks(<<Host("wpr_meta", {"radix3", "bootloader_image", "signature"})>>, b3, b4, fits, calls)
  <2>1. {"radix3", "bootloader_image", "signature"} \subseteq b3
    OBVIOUS
  <2> HIDE DEF b3
  <2> QED
    BY <2>1, WprMetaHostWalks DEF b4
<1>5. base \cup {"wpr_meta"} \subseteq b4
  OBVIOUS
<1> HIDE DEF b1, b2, b3, b4
<1>6. Walks(init_gsp_image(size) \o init_boot_binary_image(bin), base, b2, fits, calls)
  BY <1>1, <1>2, WalksOn, Zenon
<1>7. Walks(init_gsp_image(size) \o init_boot_binary_image(bin) \o <<>>, base, b3, fits, calls)
  BY <1>6, <1>3, WalksOn, Zenon
<1>8. Walks(init_gsp_image(size) \o init_boot_binary_image(bin) \o <<>>
        \o <<Host("wpr_meta", {"radix3", "bootloader_image", "signature"})>>, base, b4, fits, calls)
  BY <1>7, <1>4, WalksOn, Zenon
<1> QED
  BY <1>8, <1>5, WalksTo, Zenon DEF init_wpr_meta

LEMMA WprMetaFalconWalks ==
    ASSUME NEW fits \in BOOLEAN, NEW calls \in BOOLEAN, NEW size \in Nat, NEW bin,
           fits => size <= ImageBound, fits => bin <= BootBinBound, NEW base, {"fwsec"}
           \subseteq base
    PROVE  Walks(init_wpr_meta(FALSE, size, bin), base, base \cup {"wpr_meta"}, fits, calls)
<1> DEFINE b1 == base \cup {"radix3", "signature"}
           b2 == b1 \cup {"bootloader_image"}
           b3 == b2 \cup {"frts"}
           b4 == b3 \cup {"wpr_meta"}
<1>1. Walks(init_gsp_image(size), base, b1, fits, calls)
  BY GspImageWalks
<1>2. Walks(init_boot_binary_image(bin), b1, b2, fits, calls)
  BY BootBinaryWalks
<1>3. Walks(<<Check("frts", {"fwsec"}, frts_offset = Carveout(size, bin).frts)>>, b2, b3, fits,
        calls)
  <2>1. {"fwsec"} \subseteq b2
    OBVIOUS
  <2> HIDE DEF b2
  <2> QED
    BY <2>1, FrtsCheckWalks DEF b3
<1>4. Walks(<<Host("wpr_meta", {"radix3", "bootloader_image", "signature"})>>, b3, b4, fits, calls)
  <2>1. {"radix3", "bootloader_image", "signature"} \subseteq b3
    OBVIOUS
  <2> HIDE DEF b3
  <2> QED
    BY <2>1, WprMetaHostWalks DEF b4
<1>5. base \cup {"wpr_meta"} \subseteq b4
  OBVIOUS
<1> HIDE DEF b1, b2, b3, b4
<1>6. Walks(init_gsp_image(size) \o init_boot_binary_image(bin), base, b2, fits, calls)
  BY <1>1, <1>2, WalksOn, Zenon
<1>7. Walks(init_gsp_image(size) \o init_boot_binary_image(bin)
        \o <<Check("frts", {"fwsec"}, frts_offset = Carveout(size, bin).frts)>>, base, b3, fits,
        calls)
  BY <1>6, <1>3, WalksOn, Zenon
<1>8. Walks(init_gsp_image(size) \o init_boot_binary_image(bin)
        \o <<Check("frts", {"fwsec"}, frts_offset = Carveout(size, bin).frts)>>
        \o <<Host("wpr_meta", {"radix3", "bootloader_image", "signature"})>>, base, b4, fits, calls)
  BY <1>7, <1>4, WalksOn, Zenon
<1> QED
  BY <1>8, <1>5, WalksTo, Zenon DEF init_wpr_meta

LEMMA SystemInfoWalks ==
    ASSUME NEW fits \in BOOLEAN, NEW calls \in BOOLEAN, NEW base
    PROVE  Walks(set_gsp_system_info, base, base \cup {"system_info"}, fits, calls)
<1>1. Makes(Load("system_info"), base, base \cup {"system_info"}, fits, calls)
  BY StepMakes
<1> QED
  BY <1>1, OneStep, Zenon DEF set_gsp_system_info

LEMMA RegistryWalks ==
    ASSUME NEW fits \in BOOLEAN, NEW calls \in BOOLEAN, NEW base
    PROVE  Walks(set_registry_table, base, base \cup {"registry"}, fits, calls)
<1>1. Makes(Load("registry"), base, base \cup {"registry"}, fits, calls)
  BY StepMakes
<1> QED
  BY <1>1, OneStep, Zenon DEF set_registry_table

LEMMA GspPlaceTrustWalks ==
    ASSUME NEW fits \in BOOLEAN, NEW calls \in BOOLEAN, NEW size \in Nat, NEW bin,
           fits => size <= ImageBound, fits => bin <= BootBinBound, NEW base
    PROVE  Walks(gsp_init_sw(TRUE, size, bin), base, base \cup {"wpr_meta", "libos_args"}, fits,
           calls)
<1> DEFINE b1 == base \cup {"rm_args"}
           b2 == b1 \cup {"libos_args"}
           b3 == b2 \cup {"wpr_meta"}
           b4 == b3 \cup {"system_info"}
           b5 == b4 \cup {"registry"}
<1>1. Walks(init_rm_args, base, b1, fits, calls)
  BY RmArgsWalks
<1>2. Walks(init_libos_args, b1, b2, fits, calls)
  <2>1. {"rm_args"} \subseteq b1
    OBVIOUS
  <2> HIDE DEF b1
  <2> QED
    BY <2>1, LibosArgsWalks DEF b2
<1>3. Walks(init_wpr_meta(TRUE, size, bin), b2, b3, fits, calls)
  BY WprMetaTrustWalks
<1>4. Walks(set_gsp_system_info, b3, b4, fits, calls)
  BY SystemInfoWalks
<1>5. Walks(set_registry_table, b4, b5, fits, calls)
  BY RegistryWalks
<1>6. base \cup {"wpr_meta", "libos_args"} \subseteq b5
  OBVIOUS
<1> HIDE DEF b1, b2, b3, b4, b5
<1>7. Walks(init_rm_args \o init_libos_args, base, b2, fits, calls)
  BY <1>1, <1>2, WalksOn, Zenon
<1>8. Walks(init_rm_args \o init_libos_args \o init_wpr_meta(TRUE, size, bin), base, b3, fits,
        calls)
  BY <1>7, <1>3, WalksOn, Zenon
<1>9. Walks(init_rm_args \o init_libos_args \o init_wpr_meta(TRUE, size, bin)
        \o set_gsp_system_info, base, b4, fits, calls)
  BY <1>8, <1>4, WalksOn, Zenon
<1>10. Walks(init_rm_args \o init_libos_args \o init_wpr_meta(TRUE, size, bin)
         \o set_gsp_system_info \o set_registry_table, base, b5, fits, calls)
  BY <1>9, <1>5, WalksOn, Zenon
<1> QED
  BY <1>10, <1>6, WalksTo, Zenon DEF gsp_init_sw

LEMMA PlaceTrustWalks ==
    ASSUME NEW fits \in BOOLEAN, NEW calls \in BOOLEAN, NEW size \in Nat, NEW bin,
           fits => size <= ImageBound, fits => bin <= BootBinBound, NEW base
    PROVE  Walks(gpu_init_sw(TRUE, size, bin), base, base
           \cup {"wpr_meta", "libos_args", "boot_args", "fmc_image"}, fits, calls)
<1> DEFINE b1 == base \cup {"boot_args", "fmc_image"}
           b2 == b1 \cup {"wpr_meta", "libos_args"}
<1>1. Walks(flcn_init_sw(TRUE), base, b1, fits, calls)
  BY ChainOfTrustImages
<1>2. Walks(gsp_init_sw(TRUE, size, bin), b1, b2, fits, calls)
  BY GspPlaceTrustWalks
<1>3. base \cup {"wpr_meta", "libos_args", "boot_args", "fmc_image"} \subseteq b2
  OBVIOUS
<1> HIDE DEF b1, b2
<1>4. Walks(flcn_init_sw(TRUE) \o gsp_init_sw(TRUE, size, bin), base, b2, fits, calls)
  BY <1>1, <1>2, WalksOn, Zenon
<1> QED
  BY <1>4, <1>3, WalksTo, Zenon DEF gpu_init_sw

LEMMA GspPlaceFalconWalks ==
    ASSUME NEW fits \in BOOLEAN, NEW calls \in BOOLEAN, NEW size \in Nat, NEW bin,
           fits => size <= ImageBound, fits => bin <= BootBinBound, NEW base, {"fwsec"}
           \subseteq base
    PROVE  Walks(gsp_init_sw(FALSE, size, bin), base, base \cup {"wpr_meta", "libos_args"}, fits,
           calls)
<1> DEFINE b1 == base \cup {"rm_args"}
           b2 == b1 \cup {"libos_args"}
           b3 == b2 \cup {"wpr_meta"}
           b4 == b3 \cup {"system_info"}
           b5 == b4 \cup {"registry"}
<1>1. Walks(init_rm_args, base, b1, fits, calls)
  BY RmArgsWalks
<1>2. Walks(init_libos_args, b1, b2, fits, calls)
  <2>1. {"rm_args"} \subseteq b1
    OBVIOUS
  <2> HIDE DEF b1
  <2> QED
    BY <2>1, LibosArgsWalks DEF b2
<1>3. Walks(init_wpr_meta(FALSE, size, bin), b2, b3, fits, calls)
  <2>1. {"fwsec"} \subseteq b2
    OBVIOUS
  <2> HIDE DEF b2
  <2> QED
    BY <2>1, WprMetaFalconWalks DEF b3
<1>4. Walks(set_gsp_system_info, b3, b4, fits, calls)
  BY SystemInfoWalks
<1>5. Walks(set_registry_table, b4, b5, fits, calls)
  BY RegistryWalks
<1>6. base \cup {"wpr_meta", "libos_args"} \subseteq b5
  OBVIOUS
<1> HIDE DEF b1, b2, b3, b4, b5
<1>7. Walks(init_rm_args \o init_libos_args, base, b2, fits, calls)
  BY <1>1, <1>2, WalksOn, Zenon
<1>8. Walks(init_rm_args \o init_libos_args \o init_wpr_meta(FALSE, size, bin), base, b3, fits,
        calls)
  BY <1>7, <1>3, WalksOn, Zenon
<1>9. Walks(init_rm_args \o init_libos_args \o init_wpr_meta(FALSE, size, bin)
        \o set_gsp_system_info, base, b4, fits, calls)
  BY <1>8, <1>4, WalksOn, Zenon
<1>10. Walks(init_rm_args \o init_libos_args \o init_wpr_meta(FALSE, size, bin)
         \o set_gsp_system_info \o set_registry_table, base, b5, fits, calls)
  BY <1>9, <1>5, WalksOn, Zenon
<1> QED
  BY <1>10, <1>6, WalksTo, Zenon DEF gsp_init_sw

LEMMA PlaceFalconWalks ==
    ASSUME NEW fits \in BOOLEAN, NEW calls \in BOOLEAN, NEW size \in Nat, NEW bin,
           fits => size <= ImageBound, fits => bin <= BootBinBound, NEW base
    PROVE  Walks(gpu_init_sw(FALSE, size, bin), base, base
           \cup {"wpr_meta", "libos_args", "fwsec", "booter"}, fits, calls)
<1> DEFINE b1 == base \cup {"fwsec", "booter"}
           b2 == b1 \cup {"wpr_meta", "libos_args"}
<1>1. Walks(flcn_init_sw(FALSE), base, b1, fits, calls)
  BY FalconImages
<1>2. Walks(gsp_init_sw(FALSE, size, bin), b1, b2, fits, calls)
  <2>1. {"fwsec"} \subseteq b1
    OBVIOUS
  <2> HIDE DEF b1
  <2> QED
    BY <2>1, GspPlaceFalconWalks DEF b2
<1>3. base \cup {"wpr_meta", "libos_args", "fwsec", "booter"} \subseteq b2
  OBVIOUS
<1> HIDE DEF b1, b2
<1>4. Walks(flcn_init_sw(FALSE) \o gsp_init_sw(FALSE, size, bin), base, b2, fits, calls)
  BY <1>1, <1>2, WalksOn, Zenon
<1> QED
  BY <1>4, <1>3, WalksTo, Zenon DEF gpu_init_sw

(***************************************************************************)
(* Every step keeps the types and what is known of the region.             *)
(***************************************************************************)

\* The card stays a card
LEMMA CardTyped ==
    ASSUME gpu \in Cards
    PROVE  /\ Cleared \in Cards /\ Cold \in Cards
           /\ \A bars \in BOOLEAN : AfterReset(bars) \in Cards
           /\ [AfterReset(FALSE) EXCEPT !.name = FALSE] \in Cards
           /\ [gpu EXCEPT !.decode = TRUE, !.master = TRUE] \in Cards
           /\ [gpu EXCEPT !.decode = TRUE, !.bars = TRUE, !.master = TRUE] \in Cards
           /\ [gpu EXCEPT !.region = TRUE] \in Cards
           /\ [gpu EXCEPT !.region = TRUE, !.fw = "starting"] \in Cards
           /\ [gpu EXCEPT !.region = FALSE, !.fw = "none"] \in Cards
           /\ [gpu EXCEPT !.fw = "starting"] \in Cards
           /\ [gpu EXCEPT !.fw = "running"] \in Cards
           /\ [gpu EXCEPT !.fw = "halted"] \in Cards
           /\ \A bars \in BOOLEAN :
                  [gpu EXCEPT !.decode = FALSE, !.master = FALSE, !.bars = bars] \in Cards
BY DEF Cards, Cleared, Cold, AfterReset

\* ... and the flags stay flags
LEMMA FlagsTyped ==
    ASSUME drv \in Flags
    PROVE  /\ Fresh \in Flags
           /\ [drv EXCEPT !.boot_failed = TRUE] \in Flags
           /\ [drv EXCEPT !.booted = TRUE] \in Flags /\ [drv EXCEPT !.booted = FALSE] \in Flags
           /\ [drv EXCEPT !.restored = FALSE] \in Flags /\ [drv EXCEPT !.restored = TRUE] \in Flags
           /\ [drv EXCEPT !.timed_out = TRUE] \in Flags
           /\ [drv EXCEPT !.timed_out = FALSE, !.attempt = @ + 1] \in Flags
           /\ [drv EXCEPT !.up = TRUE] \in Flags /\ [drv EXCEPT !.up = FALSE] \in Flags
           /\ [drv EXCEPT !.exec_ready = TRUE] \in Flags /\ [drv EXCEPT !.exec_ready = FALSE] \in Flags
           /\ [drv EXCEPT !.busy = TRUE] \in Flags /\ [drv EXCEPT !.busy = FALSE] \in Flags
<1>1. Fresh \in Flags
  BY DEF Flags, Fresh
<1>2. [drv EXCEPT !.boot_failed = TRUE] \in Flags
  BY DEF Flags
<1>3. [drv EXCEPT !.booted = TRUE] \in Flags /\ [drv EXCEPT !.booted = FALSE] \in Flags
  BY DEF Flags
<1>4. [drv EXCEPT !.restored = FALSE] \in Flags /\ [drv EXCEPT !.restored = TRUE] \in Flags
  BY DEF Flags
<1>5. [drv EXCEPT !.timed_out = TRUE] \in Flags
  BY DEF Flags
<1>6. [drv EXCEPT !.timed_out = FALSE, !.attempt = @ + 1] \in Flags
  <2>1. drv.attempt \in Nat
    BY DEF Flags
  <2>2. PICK k \in Nat : k = drv.attempt + 1
    BY <2>1
  <2>3. [drv EXCEPT !.timed_out = FALSE, !.attempt = k] \in Flags
    BY DEF Flags
  <2> QED
    BY <2>2, <2>3
<1>7. [drv EXCEPT !.up = TRUE] \in Flags /\ [drv EXCEPT !.up = FALSE] \in Flags
  BY DEF Flags
<1>8. [drv EXCEPT !.exec_ready = TRUE] \in Flags /\ [drv EXCEPT !.exec_ready = FALSE] \in Flags
  BY DEF Flags
<1>9. [drv EXCEPT !.busy = TRUE] \in Flags /\ [drv EXCEPT !.busy = FALSE] \in Flags
  BY DEF Flags
<1> QED
  BY <1>1, <1>2, <1>3, <1>4, <1>5, <1>6, <1>7, <1>8, <1>9

LEMMA NotesTyped ==
    ASSUME gpu \in Cards, dev \in Notes
    PROVE  /\ [ones |-> ~Reads, was_up |-> Reads /\ gpu.region,
                hi_now |-> Reads /\ gpu.region] \in Notes
           /\ [dev EXCEPT !.was_up = Reads /\ gpu.region, !.hi_now = Reads /\ gpu.region] \in Notes
           /\ [dev EXCEPT !.hi_now = IF dev.was_up THEN FALSE ELSE @] \in Notes
           /\ [dev EXCEPT !.was_up = TRUE, !.hi_now = FALSE] \in Notes
BY DEF Notes, Reads, Cards

LEMMA SlotsTyped ==
    ASSUME image \in Slots
    PROVE  /\ NoImage \in Slots /\ [fwsec |-> "sb", booter |-> "unload"] \in Slots
           /\ [image EXCEPT !.fwsec = "frts"] \in Slots
           /\ [image EXCEPT !.booter = "load"] \in Slots
BY DEF Slots, NoImage

LEMMA NextSpot ==
    ASSUME NEW a, IsSpot(a), NEW k
    PROVE  LET b == [a EXCEPT !.i = k] IN IsSpot(b) /\ b.pc = a.pc /\ b.i = k
<1>1. PICK pc, i : a = [pc |-> pc, i |-> i]
  BY DEF IsSpot
<1>2. [a EXCEPT !.i = k] = [pc |-> pc, i |-> k]
  BY <1>1
<1> QED
  BY <1>1, <1>2 DEF IsSpot

LEMMA BeginTyped ==
    ASSUME run \in Counts
    PROVE  [run EXCEPT !.procs = @ + 1, !.ended = "never"] \in Counts
<1>1. PICK k \in Nat : k = run.procs + 1
  BY DEF Counts
<1>2. [run EXCEPT !.procs = k, !.ended = "never"] \in Counts
  BY DEF Counts
<1> QED
  BY <1>1, <1>2

LEMMA EndTyped ==
    ASSUME run \in Counts, NEW how \in {"left", "interrupted", "killed"}
    PROVE  [run EXCEPT !.ended = how, !.faults = @ + 1] \in Counts
<1>1. PICK k \in Nat : k = run.faults + 1
  BY DEF Counts
<1>2. [run EXCEPT !.ended = how, !.faults = k] \in Counts
  BY DEF Counts
<1> QED
  BY <1>1, <1>2

\* ... and the pieces actions are made of leave everything what it was
LEMMA PiecesTyped ==
    ASSUME BootTypeOK
    PROVE  /\ \A pc : Goto(pc) => IsSpot(at')
           /\ Fault \/ NoFault => run' \in Counts
           /\ UnchangedSoft => image' \in Slots
           /\ UnchangedDriver =>
                  model' \in Models /\ dev' \in Notes /\ drv' \in Flags /\ image' \in Slots
           /\ BootFails => model' \in Models /\ dev' \in Notes /\ drv' \in Flags /\ IsSpot(at')
                           /\ image' \in Slots
           /\ Refuses => model' \in Models /\ dev' \in Notes /\ drv' \in Flags /\ IsSpot(at')
                         /\ image' \in Slots
           /\ RestoreDecode => gpu' \in Cards
           /\ \A how : Gone(how) => drv' \in Flags /\ model' \in Models /\ dev' \in Notes
                                    /\ IsSpot(at') /\ image' \in Slots /\ gpu' \in Cards
           /\ \A g \in Cards : PutDown(g) =>
                  drv' \in Flags /\ model' \in Models /\ dev' \in Notes /\ IsSpot(at')
                  /\ image' \in Slots /\ gpu' \in Cards
<1> USE FlagsTyped DEF BootTypeOK
<1>1. \A pc : Goto(pc) => IsSpot(at')
  BY DEF Goto, IsSpot
<1>2. Fault \/ NoFault => run' \in Counts
  BY DEF Fault, NoFault, Counts
<1>3. UnchangedSoft => image' \in Slots
  BY DEF UnchangedSoft
<1>4. UnchangedDriver =>
          model' \in Models /\ dev' \in Notes /\ drv' \in Flags /\ image' \in Slots
  BY DEF UnchangedDriver, UnchangedSoft
<1>5. BootFails => model' \in Models /\ dev' \in Notes /\ drv' \in Flags /\ IsSpot(at')
                   /\ image' \in Slots
  BY <1>1, <1>3 DEF BootFails
<1>6. Refuses => model' \in Models /\ dev' \in Notes /\ drv' \in Flags /\ IsSpot(at')
                 /\ image' \in Slots
  BY <1>1, <1>4 DEF Refuses
<1>7. RestoreDecode => gpu' \in Cards
  BY CardTyped DEF RestoreDecode
<1>8. \A how : Gone(how) => drv' \in Flags /\ model' \in Models /\ dev' \in Notes
                            /\ IsSpot(at') /\ image' \in Slots /\ gpu' \in Cards
  BY SlotsTyped DEF Gone, IsSpot
<1>9. \A g \in Cards : PutDown(g) =>
          drv' \in Flags /\ model' \in Models /\ dev' \in Notes /\ IsSpot(at')
          /\ image' \in Slots /\ gpu' \in Cards
  BY <1>1, <1>3 DEF PutDown
<1> QED
  BY <1>1, <1>2, <1>3, <1>4, <1>5, <1>6, <1>7, <1>8, <1>9

LEMMA TypeKeeps ==
    ASSUME BootTypeOK, [BootNext]_bootVars
    PROVE  BootTypeOK'
<1> USE PiecesTyped, CardTyped, FlagsTyped, NotesTyped, SlotsTyped DEF BootTypeOK
<1>1. CASE Open
  <2>1. run' \in Counts
    BY <1>1, BeginTyped DEF Open
  <2>2. dev' \in Notes /\ drv' \in Flags /\ IsSpot(at')
    BY <1>1 DEF Open
  <2> QED
    BY <1>1, <2>1, <2>2 DEF Open, UnchangedSoft
<1>2. CASE WarmReset
  <2>1. gpu.bars \in BOOLEAN
    BY DEF Cards
  <2> QED
    BY <1>2, <2>1 DEF WarmReset, NotAdrift
<1>3. CASE Enable
  BY <1>3 DEF Enable
<1>4. CASE SecondLook
  BY <1>4 DEF SecondLook
<1>5. CASE Identify
  BY <1>5 DEF Identify, MmuUp
<1>6. CASE WalkPlan
  <2>1. image' \in Slots
    BY <1>6 DEF WalkPlan
  <2>2. IsSpot(at')
    <3>1. PICK k : k = at.i + 1
      OBVIOUS
    <3>2. [at EXCEPT !.i = @ + 1] = [at EXCEPT !.i = k]
      BY <3>1
    <3>3. IsSpot([at EXCEPT !.i = k])
      BY NextSpot
    <3> QED
      BY <1>6, <3>2, <3>3 DEF WalkPlan
  <2> QED
    BY <1>6, <2>1, <2>2 DEF WalkPlan
<1>7. CASE PlanRefused
  BY <1>7 DEF PlanRefused
<1>8. CASE PlaceRegion
  BY <1>8 DEF PlaceRegion
<1>9. CASE BooterLoad
  BY <1>9 DEF BooterLoad
<1>10. CASE ChainOfTrust
  BY <1>10 DEF ChainOfTrust
<1>11. CASE Attach
  BY <1>11 DEF Attach
<1>12. CASE Notice
  BY <1>12 DEF Notice
<1>13. CASE WindowsBack
  BY <1>13 DEF WindowsBack
<1>14. CASE NoNotice
  BY <1>14 DEF NoNotice
<1>15. CASE NoticeFails
  BY <1>15 DEF NoticeFails
<1>16. CASE Settle
  BY <1>16 DEF Settle
<1>17. CASE Undo
  BY <1>17 DEF Undo, NotAdrift
<1>18. CASE Undone
  BY <1>18 DEF Undone, Release, MmuUp
<1>19. CASE CarveoutCheck
  BY <1>19 DEF CarveoutCheck
<1>20. CASE ExecInit
  BY <1>20 DEF ExecInit
<1>21. CASE Submit
  BY <1>21 DEF Submit
<1>22. CASE EngineDone
  BY <1>22 DEF EngineDone
<1>23. CASE LoseWindows
  BY <1>23 DEF LoseWindows
<1>24. CASE Exit
  BY <1>24 DEF Exit
<1>25. ASSUME NEW broken \in BOOLEAN, Signal(broken) PROVE BootTypeOK'
  BY <1>25 DEF Signal
<1>26. CASE Idle
  BY <1>26 DEF Idle
<1>27. CASE ExecFini
  BY <1>27 DEF ExecFini, Release
<1>28. CASE UnloadPrepare
  BY <1>28 DEF UnloadPrepare
<1>29. CASE GspUnload
  BY <1>29 DEF GspUnload, UnloadStops
<1>30. CASE FwsecSb
  BY <1>30 DEF FwsecSb, UnloadStops
<1>31. CASE BooterUnload
  BY <1>31 DEF BooterUnload, UnloadStops
<1>32. CASE Quiesce
  BY <1>32 DEF Quiesce, MasterDropped
<1>33. CASE Fini
  BY <1>33 DEF Fini, Release
<1>34. CASE Leave
  BY <1>34 DEF Leave, Counts
<1>35. CASE Interrupted
  <2>1. run' \in Counts
    BY <1>35, EndTyped DEF Interrupted
  <2> QED
    BY <1>35, <2>1 DEF Interrupted
<1>36. CASE Killed
  <2>1. run' \in Counts
    BY <1>36, EndTyped DEF Killed
  <2> QED
    BY <1>36, <2>1 DEF Killed
<1>37. CASE UNCHANGED bootVars
  BY <1>37 DEF bootVars
<1> QED
  BY <1>1, <1>2, <1>3, <1>4, <1>5, <1>6, <1>7, <1>8, <1>9, <1>10, <1>11, <1>12, <1>13, <1>14, <1>15,
     <1>16, <1>17, <1>18, <1>19, <1>20, <1>21, <1>22, <1>23, <1>24, <1>25, <1>26, <1>27, <1>28,
     <1>29, <1>30, <1>31, <1>32, <1>33, <1>34, <1>35, <1>36, <1>37 DEF BootNext

\* Where the process is tells what it knows of the region.  What the edits of
\* the card do to it:
LEMMA CardEdits ==
    ASSUME gpu \in Cards
    PROVE  /\ ~Cleared.master /\ Cleared.region = gpu.region /\ Cleared.fw = gpu.fw
           /\ Cleared.name = gpu.name /\ Cleared.decode = gpu.decode /\ Cleared.bars = gpu.bars
           /\ Cold.master /\ Cold.decode /\ Cold.bars /\ Cold.name = gpu.name
           /\ ~Cold.region /\ Cold.fw = "none"
           /\ \A bars \in BOOLEAN :
                  /\ ~AfterReset(bars).region /\ AfterReset(bars).fw = "none"
                  /\ AfterReset(bars).bars = bars /\ AfterReset(bars).name = gpu.name
           /\ LET lost == [AfterReset(FALSE) EXCEPT !.name = FALSE]
              IN  ~lost.region /\ lost.fw = "none"
<1>1. /\ ~Cleared.master /\ Cleared.region = gpu.region /\ Cleared.fw = gpu.fw
      /\ Cleared.name = gpu.name /\ Cleared.decode = gpu.decode /\ Cleared.bars = gpu.bars
  BY DEF Cards, Cleared
<1>2. \A bars \in BOOLEAN :
          /\ ~AfterReset(bars).region /\ AfterReset(bars).fw = "none"
          /\ AfterReset(bars).bars = bars /\ AfterReset(bars).name = gpu.name
  BY DEF Cards, AfterReset
<1>3. /\ Cold.master /\ Cold.decode /\ Cold.bars /\ Cold.name = gpu.name
      /\ ~Cold.region /\ Cold.fw = "none"
  BY DEF Cards, AfterReset, Cold
<1>4. LET lost == [AfterReset(FALSE) EXCEPT !.name = FALSE]
      IN  ~lost.region /\ lost.fw = "none"
  BY DEF Cards, AfterReset
<1> QED
  BY <1>1, <1>2, <1>3, <1>4

\* ... and what the edits within actions do
LEMMA CardMoves ==
    ASSUME gpu \in Cards
    PROVE  /\ LET g == [gpu EXCEPT !.region = FALSE, !.fw = "none"]
              IN  /\ ~g.region /\ g.fw = "none" /\ g.name = gpu.name /\ g.decode = gpu.decode
                  /\ g.bars = gpu.bars /\ g.master = gpu.master
           /\ LET g == [gpu EXCEPT !.region = TRUE, !.fw = "starting"]
              IN  /\ g.region /\ g.fw = "starting" /\ g.name = gpu.name /\ g.decode = gpu.decode
                  /\ g.bars = gpu.bars /\ g.master = gpu.master
           /\ \A fw \in {"starting", "running", "halted"} :
                  LET g == [gpu EXCEPT !.fw = fw]
                  IN  /\ g.region = gpu.region /\ g.fw = fw /\ g.name = gpu.name
                      /\ g.decode = gpu.decode /\ g.bars = gpu.bars /\ g.master = gpu.master
<1>1. LET g == [gpu EXCEPT !.region = FALSE, !.fw = "none"]
      IN  /\ ~g.region /\ g.fw = "none" /\ g.name = gpu.name /\ g.decode = gpu.decode
          /\ g.bars = gpu.bars /\ g.master = gpu.master
  BY DEF Cards
<1>2. LET g == [gpu EXCEPT !.region = TRUE, !.fw = "starting"]
      IN  /\ g.region /\ g.fw = "starting" /\ g.name = gpu.name /\ g.decode = gpu.decode
          /\ g.bars = gpu.bars /\ g.master = gpu.master
  BY DEF Cards
<1>3. \A fw \in {"starting", "running", "halted"} :
          LET g == [gpu EXCEPT !.fw = fw]
          IN  /\ g.region = gpu.region /\ g.fw = fw /\ g.name = gpu.name
              /\ g.decode = gpu.decode /\ g.bars = gpu.bars /\ g.master = gpu.master
  BY DEF Cards
<1> QED
  BY <1>1, <1>2, <1>3

\* ... and where a plan goes on
LEMMA WalkGoes ==
    ASSUME IsSpot(at), WalkPlan
    PROVE  /\ IsSpot(at') /\ at.pc \in {"place", "setup"}
           /\ IF at.i = Len(Plan)
              THEN at'.pc = (IF at.pc = "place" THEN "start" ELSE "carveout")
              ELSE at'.pc = at.pc /\ at'.i = at.i + 1
<1>1. at.pc \in {"place", "setup"}
  BY DEF WalkPlan
<1>2. IF at.i = Len(Plan) THEN Goto(AfterPlan) ELSE at' = [at EXCEPT !.i = @ + 1]
  BY Zenon DEF WalkPlan
<1>3. PICK k : k = at.i + 1
  OBVIOUS
<1>4. CASE at.i = Len(Plan)
  BY <1>1, <1>2, <1>4 DEF Goto, AfterPlan, IsSpot
<1>5. CASE at.i # Len(Plan)
  <2>1. at' = [at EXCEPT !.i = k]
    BY <1>2, <1>3, <1>5
  <2>2. IsSpot(at') /\ at'.pc = at.pc /\ at'.i = k
    BY <2>1, NextSpot
  <2> QED
    BY <1>1, <1>3, <1>5, <2>2
<1> QED
  BY <1>4, <1>5

\* ... and where the pieces actions are made of leave the process
LEMMA Lands ==
    /\ \A pc : Goto(pc) => at'.pc = pc
    /\ UnchangedDriver => dev' = dev
    /\ BootFails => at'.pc = "failed" /\ dev' = dev
    /\ Refuses => at'.pc = "refused" /\ dev' = dev
    /\ UnloadStops => at'.pc = "quiesce" /\ gpu' = gpu /\ dev' = dev
    /\ \A g : PutDown(g) => gpu' = g /\ dev' = dev /\ at'.pc \in {"idle", "unload"}
    /\ \A how : Gone(how) => gpu' = gpu /\ dev' = dev /\ at'.pc = "none"
<1>1. \A pc : Goto(pc) => at'.pc = pc
  BY DEF Goto
<1>2. UnchangedDriver => dev' = dev
  BY DEF UnchangedDriver
<1>3. BootFails => at'.pc = "failed" /\ dev' = dev
  BY <1>1 DEF BootFails
<1>4. Refuses => at'.pc = "refused" /\ dev' = dev
  BY <1>1, <1>2 DEF Refuses
<1>5. UnloadStops => at'.pc = "quiesce" /\ gpu' = gpu /\ dev' = dev
  BY <1>1, <1>2 DEF UnloadStops
<1>6. \A g : PutDown(g) => gpu' = g /\ dev' = dev /\ at'.pc \in {"idle", "unload"}
  BY <1>1 DEF PutDown
<1>7. \A how : Gone(how) => gpu' = gpu /\ dev' = dev /\ at'.pc = "none"
  BY DEF Gone
<1> QED
  BY <1>1, <1>2, <1>3, <1>4, <1>5, <1>6, <1>7

LEMMA ColdKeeps ==
    ASSUME gpu \in Cards, dev \in Notes, IsSpot(at), ColdInv, [BootNext]_bootVars
    PROVE  ColdInv'
<1> USE Lands DEF Cards, Notes, ColdInv, Reads, LeftUp, MasterDropped, AfterPlan, Teardown, Alive
<1>1. CASE Open
  BY <1>1 DEF Open
<1>2. CASE WarmReset
  <2>1. gpu.bars \in BOOLEAN
    OBVIOUS
  <2>2. /\ ~AfterReset(gpu.bars).region /\ AfterReset(gpu.bars).fw = "none"
        /\ Cleared.region = gpu.region /\ Cleared.fw = gpu.fw
    BY <2>1, CardEdits
  <2>3. LET lost == [AfterReset(FALSE) EXCEPT !.name = FALSE]
        IN  ~lost.region /\ lost.fw = "none"
    BY CardEdits
  <2>4. /\ at.pc = "warm" /\ dev' = dev /\ at'.pc \in {"enable", "refused"}
    BY <1>2 DEF WarmReset
  <2>5. /\ gpu'.fw # "none" => gpu'.region
    <3> HIDE DEF Cards
    <3> QED
      BY <1>2, <2>2, <2>3 DEF WarmReset
  <2> QED
    BY <2>4, <2>5
<1>3. CASE Enable
  BY <1>3 DEF Enable
<1>4. CASE SecondLook
  BY <1>4 DEF SecondLook
<1>5. CASE Identify
  <2>1. gpu' = gpu /\ at.pc = "identify" /\ at'.pc \in {"refused", "place"}
    BY <1>5 DEF Identify
  <2>2. at'.pc = "place" => Reads /\ ~LeftUp
    BY <1>5 DEF Identify
  <2>3. at'.pc = "place" => ~gpu.region
    BY <2>1, <2>2
  <2> QED
    BY <2>1, <2>3
<1>6. CASE WalkPlan
  <2>1. gpu' = gpu /\ dev' = dev
    BY <1>6 DEF WalkPlan
  <2> QED
    BY <1>6, <2>1, WalkGoes
<1>7. CASE PlanRefused
  BY <1>7 DEF PlanRefused
<1>8. CASE PlaceRegion
  BY <1>8 DEF PlaceRegion
<1>9. CASE BooterLoad
  BY <1>9, CardMoves DEF BooterLoad
<1>10. CASE ChainOfTrust
  <2>1. PICK g : g = [gpu EXCEPT !.region = TRUE, !.fw = "starting"]
    OBVIOUS
  <2>2. g.region
    BY <2>1, CardMoves
  <2>3. at'.pc \in {"attach", "failed"}
    BY <1>10 DEF ChainOfTrust
  <2>4. gpu' = g \/ (gpu' = gpu /\ at'.pc = "failed")
    BY <1>10, <2>1 DEF ChainOfTrust
  <2> QED
    BY <2>2, <2>3, <2>4
<1>11. CASE Attach
  BY <1>11 DEF Attach
<1>12. CASE Notice
  BY <1>12, CardMoves DEF Notice
<1>13. CASE WindowsBack
  BY <1>13 DEF WindowsBack, RestoreDecode
<1>14. CASE NoNotice
  BY <1>14 DEF NoNotice
<1>15. CASE NoticeFails
  BY <1>15 DEF NoticeFails
<1>16. CASE Settle
  BY <1>16 DEF Settle, RestoreDecode
<1>17. CASE Undo
  <2>1. CASE RestoreDecode /\ Fault /\ BootFails
    BY <2>1 DEF RestoreDecode
  <2>2. CASE ~(RestoreDecode /\ Fault /\ BootFails)
    <3>1. ~Cold.region /\ Cold.fw = "none" /\ Cleared.region = gpu.region /\ Cleared.fw = gpu.fw
      BY CardEdits
    <3>2. LET lost == [AfterReset(FALSE) EXCEPT !.name = FALSE]
          IN  ~lost.region /\ lost.fw = "none"
      BY CardEdits
    <3>3. at'.pc \in {"undone", "failed"} /\ (at'.pc = "undone" => gpu' = Cold)
      BY <1>17 DEF Undo
    <3>4. gpu'.fw # "none" => gpu'.region
      <4> HIDE DEF Cards
      <4> QED
        BY <1>17, <2>2, <3>1, <3>2 DEF Undo
    <3> HIDE DEF Cards
    <3> QED
      BY <3>1, <3>3, <3>4
  <2> QED
    BY <2>1, <2>2
<1>18. CASE Undone
  BY <1>18 DEF Undone
<1>19. CASE CarveoutCheck
  BY <1>19 DEF CarveoutCheck
<1>20. CASE ExecInit
  BY <1>20 DEF ExecInit
<1>21. CASE Submit
  BY <1>21 DEF Submit
<1>22. CASE EngineDone
  BY <1>22 DEF EngineDone
<1>23. CASE LoseWindows
  BY <1>23 DEF LoseWindows
<1>24. CASE Exit
  BY <1>24 DEF Exit
<1>25. ASSUME NEW broken \in BOOLEAN, Signal(broken) PROVE ColdInv'
  <2>1. Cleared.region = gpu.region /\ Cleared.fw = gpu.fw
    BY CardEdits
  <2>2. gpu' \in {gpu, Cleared} /\ at'.pc \in {"idle", "unload"}
    BY <1>25 DEF Signal
  <2> HIDE DEF Cards
  <2> QED
    BY <2>1, <2>2
<1>26. CASE Idle
  BY <1>26 DEF Idle
<1>27. CASE ExecFini
  BY <1>27 DEF ExecFini
<1>28. CASE UnloadPrepare
  BY <1>28 DEF UnloadPrepare
<1>29. CASE GspUnload
  <2>1. PICK g : g = [gpu EXCEPT !.fw = "halted"]
    OBVIOUS
  <2>2. g.region = gpu.region /\ g.fw = "halted"
    BY <2>1, CardMoves
  <2>3. at.pc = "notify" /\ at'.pc \in {"sb", "quiesce"}
    BY <1>29 DEF GspUnload
  <2>4. (gpu' = g /\ gpu.fw = "running") \/ gpu' = gpu
    BY <1>29, <2>1 DEF GspUnload, CanAnswer
  <2> QED
    BY <2>2, <2>3, <2>4
<1>30. CASE FwsecSb
  BY <1>30 DEF FwsecSb
<1>31. CASE BooterUnload
  <2>1. PICK g : g = [gpu EXCEPT !.region = FALSE, !.fw = "none"]
    OBVIOUS
  <2>2. g.fw = "none"
    BY <2>1, CardMoves
  <2>3. at.pc = "unbooter" /\ at'.pc \in {"quiesce"}
    BY <1>31 DEF BooterUnload
  <2>4. gpu' = g \/ gpu' = gpu
    BY <1>31, <2>1 DEF BooterUnload
  <2> QED
    BY <2>2, <2>3, <2>4
<1>32. CASE Quiesce
  BY <1>32, CardEdits DEF Quiesce
<1>33. CASE Fini
  BY <1>33 DEF Fini
<1>34. CASE Leave
  BY <1>34 DEF Leave
<1>35. CASE Interrupted
  BY <1>35 DEF Interrupted
<1>36. CASE Killed
  BY <1>36 DEF Killed
<1>37. CASE UNCHANGED bootVars
  BY <1>37 DEF bootVars
<1> QED
  BY <1>1, <1>2, <1>3, <1>4, <1>5, <1>6, <1>7, <1>8, <1>9, <1>10, <1>11, <1>12, <1>13, <1>14, <1>15,
     <1>16, <1>17, <1>18, <1>19, <1>20, <1>21, <1>22, <1>23, <1>24, <1>25, <1>26, <1>27, <1>28,
     <1>29, <1>30, <1>31, <1>32, <1>33, <1>34, <1>35, <1>36, <1>37 DEF BootNext

(***************************************************************************)
(* What is named is there.                                                 *)
(***************************************************************************)

LEMMA SizesAreNumbers ==
    /\ \A x \in ImageSizes : x \in Nat \ {0}
    /\ \A x \in BootBinSizes : x \in Nat \ {0}
<1>1. ASSUME NEW x, NEW n \in Nat, x \in 1 .. 2 * n PROVE x \in Nat \ {0}
  BY <1>1
<1>2. ImageBound \in Nat /\ BootBinBound \in Nat
  BY DEF ImageBound, BootBinBound, MB
<1> QED
  BY <1>1, <1>2, BootPlanAssumption

\* A plan has a step, and its steps name only the root page table and what
\* the steps before them made
LEMMA PlanFed ==
    ASSUME NEW m \in Models, NEW pc
    PROVE  LET p == PlanOf(pc, m)
           IN  (\E S : p \in Seq(S)) /\ Len(p) \in Nat \ {0} /\ Fed(p, {"root_page_table"})
<1>1. PICK root : root = {"root_page_table"}
  OBVIOUS
<1>2. m.fmc \in BOOLEAN /\ m.image \in Nat
  BY SizesAreNumbers DEF Models
<1>3. ASSUME NEW to, Walks(PlanOf(pc, m), root, root \cup to, FALSE, TRUE),
             \E x \in to : x # "root_page_table"
      PROVE  LET p == PlanOf(pc, m)
             IN  (\E S : p \in Seq(S)) /\ Len(p) \in Nat \ {0} /\ Fed(p, {"root_page_table"})
  <2>0. PICK p : p = PlanOf(pc, m)
    OBVIOUS
  <2>1. (\E S : p \in Seq(S)) /\ Fed(p, root) /\ root \cup to \subseteq root \cup Whole(p)
    BY <2>0, <1>3 DEF Walks, Good
  <2>2. Len(p) \in Nat
    BY <2>1
  <2>3. Whole(p) # {}
    BY <1>1, <1>3, <2>1
  <2>4. Len(p) # 0
    BY <2>3 DEF Whole, Made
  <2> QED
    BY <1>1, <2>0, <2>1, <2>2, <2>4
<1> HIDE DEF PlanOf
<1>4. CASE pc # "place"
  <2>1. PICK to : to = {"scheduled"}
    OBVIOUS
  <2>2. Walks(RmSetup, root, root \cup to, FALSE, TRUE)
    BY <1>1, <2>1, RmSetupWalks
  <2>3. PlanOf(pc, m) = RmSetup
    BY <1>4 DEF PlanOf
  <2>4. Walks(PlanOf(pc, m), root, root \cup to, FALSE, TRUE)
    BY <2>2, <2>3
  <2>5. \E x \in to : x # "root_page_table"
    BY <2>1
  <2> QED
    BY <1>3, <2>4, <2>5, Zenon
<1>5. CASE pc = "place" /\ m.fmc
  <2>1. PICK to : to = {"wpr_meta", "libos_args", "boot_args", "fmc_image"}
    OBVIOUS
  <2>2. Walks(gpu_init_sw(TRUE, m.image, m.bootbin), root, root \cup to, FALSE, TRUE)
    BY <1>2, <2>1, PlaceTrustWalks
  <2>3. PlanOf(pc, m) = gpu_init_sw(TRUE, m.image, m.bootbin)
    BY <1>2, <1>5 DEF PlanOf
  <2>4. Walks(PlanOf(pc, m), root, root \cup to, FALSE, TRUE)
    BY <2>2, <2>3
  <2>5. \E x \in to : x # "root_page_table"
    BY <2>1
  <2> QED
    BY <1>3, <2>4, <2>5, Zenon
<1>6. CASE pc = "place" /\ ~m.fmc
  <2>1. PICK to : to = {"wpr_meta", "libos_args", "fwsec", "booter"}
    OBVIOUS
  <2>2. Walks(gpu_init_sw(FALSE, m.image, m.bootbin), root, root \cup to, FALSE, TRUE)
    BY <1>2, <2>1, PlaceFalconWalks
  <2>3. PlanOf(pc, m) = gpu_init_sw(FALSE, m.image, m.bootbin)
    BY <1>2, <1>6 DEF PlanOf
  <2>4. Walks(PlanOf(pc, m), root, root \cup to, FALSE, TRUE)
    BY <2>2, <2>3
  <2>5. \E x \in to : x # "root_page_table"
    BY <2>1
  <2> QED
    BY <1>3, <2>4, <2>5, Zenon
<1> QED
  BY <1>4, <1>5, <1>6

\* Placing makes what the start names
LEMMA PlacesArguments ==
    ASSUME NEW m \in Models
    PROVE  LET p == PlanOf("place", m)
               all == {"root_page_table"} \cup Made(p, Len(p))
           IN  /\ {"wpr_meta", "libos_args"} \subseteq all
               /\ m.fmc => {"boot_args", "fmc_image"} \subseteq all
               /\ ~m.fmc => {"fwsec", "booter"} \subseteq all
<1>1. PICK root : root = {"root_page_table"}
  OBVIOUS
<1>2. m.fmc \in BOOLEAN /\ m.image \in Nat
  BY SizesAreNumbers DEF Models
<1>3. ASSUME m.fmc
      PROVE  Walks(PlanOf("place", m), root,
                   root \cup {"wpr_meta", "libos_args", "boot_args", "fmc_image"}, FALSE, TRUE)
  <2>1. PICK to : to = {"wpr_meta", "libos_args", "boot_args", "fmc_image"}
    OBVIOUS
  <2>2. Walks(gpu_init_sw(TRUE, m.image, m.bootbin), root, root \cup to, FALSE, TRUE)
    BY <1>2, <2>1, PlaceTrustWalks
  <2>3. PlanOf("place", m) = gpu_init_sw(TRUE, m.image, m.bootbin)
    BY <1>2, <1>3 DEF PlanOf
  <2> QED
    BY <2>1, <2>2, <2>3
<1>4. ASSUME ~m.fmc
      PROVE  Walks(PlanOf("place", m), root,
                   root \cup {"wpr_meta", "libos_args", "fwsec", "booter"}, FALSE, TRUE)
  <2>1. PICK to : to = {"wpr_meta", "libos_args", "fwsec", "booter"}
    OBVIOUS
  <2>2. Walks(gpu_init_sw(FALSE, m.image, m.bootbin), root, root \cup to, FALSE, TRUE)
    BY <1>2, <2>1, PlaceFalconWalks
  <2>3. PlanOf("place", m) = gpu_init_sw(FALSE, m.image, m.bootbin)
    BY <1>2, <1>4 DEF PlanOf
  <2> QED
    BY <2>1, <2>2, <2>3
<1>5. CASE m.fmc
  BY <1>1, <1>3, <1>5 DEF Walks, Whole
<1>6. CASE ~m.fmc
  BY <1>1, <1>4, <1>6 DEF Walks, Whole
<1> QED
  BY <1>5, <1>6

LEMMA NoneMade == ASSUME NEW p PROVE Made(p, 0) = {}
BY DEF Made

LEMMA NextMade ==
    ASSUME NEW p, NEW i \in Nat \ {0}
    PROVE  Made(p, i) = Made(p, i - 1) \cup {p[i].what}
<1>1. 1 .. i = (1 .. i - 1) \cup {i}
  OBVIOUS
<1> QED
  BY <1>1 DEF Made

LEMMA Elsewhere ==
    ASSUME NEW a, NEW m, NEW k, NEW b, b = {},
           a.pc \notin {"place", "setup", "start", "booter", "attach", "notice", "settle"}
    PROVE  NamedAt(a, m, k, b)
BY DEF NamedAt

LEMMA Onward ==
    ASSUME NEW a, NEW c, NEW m, NEW k, NEW b, NamedAt(a, m, k, b),
           a.pc \in {"start", "booter", "attach", "notice", "settle"},
           c.pc \in {"start", "booter", "attach", "notice", "settle"}
    PROVE  NamedAt(c, m, k, b)
BY DEF NamedAt

LEMMA Begins ==
    ASSUME NEW a, NEW m \in Models, NEW k, NEW b, b = {}, {"root_page_table"} \subseteq k,
           a.pc \in {"place", "setup"}, a.i = 1
    PROVE  NamedAt(a, m, k, b)
<1>1. Len(PlanOf(a.pc, m)) \in Nat \ {0}
  BY PlanFed
<1>2. Made(PlanOf(a.pc, m), 0) = {}
  BY NoneMade
<1>3. a.i - 1 = 0 /\ a.i \in 1 .. Len(PlanOf(a.pc, m))
  BY <1>1
<1> HIDE DEF PlanOf
<1> QED
  BY <1>2, <1>3 DEF NamedAt

LEMMA Walked ==
    ASSUME NEW a, NEW c, NEW m \in Models, NEW k, NEW b, NamedAt(a, m, k, b),
           a.pc \in {"place", "setup"}, NEW p, p = PlanOf(a.pc, m),
           IF a.i = Len(p) THEN c.pc = (IF a.pc = "place" THEN "start" ELSE "carveout")
           ELSE c.pc = a.pc /\ c.i = a.i + 1
    PROVE  p[a.i].uses \subseteq k /\ NamedAt(c, m, k \cup {p[a.i].what}, b)
<1>1. PICK i : i = a.i
  OBVIOUS
<1>2. b = {} /\ i \in 1 .. Len(p) /\ {"root_page_table"} \cup Made(p, i - 1) \subseteq k
  BY <1>1 DEF NamedAt
<1>3. Len(p) \in Nat \ {0} /\ Fed(p, {"root_page_table"})
  BY PlanFed
<1>4. p[i].uses \subseteq {"root_page_table"} \cup Made(p, i - 1)
  BY <1>2, <1>3 DEF Fed
<1>5. i \in Nat \ {0}
  BY <1>2, <1>3
<1>6. Made(p, i) = Made(p, i - 1) \cup {p[i].what}
  BY <1>5, NextMade
<1>7. {"root_page_table"} \cup Made(p, i) \subseteq k \cup {p[i].what}
  BY <1>2, <1>6
<1>8. CASE i # Len(p)
  <2>1. c.pc = a.pc /\ c.i = i + 1
    BY <1>1, <1>8
  <2>2. c.i - 1 = i /\ c.i \in 1 .. Len(p)
    BY <1>2, <1>3, <1>5, <1>8, <2>1
  <2>3. NamedAt(c, m, k \cup {p[i].what}, b)
    BY <1>2, <1>7, <2>1, <2>2 DEF NamedAt
  <2> QED
    BY <1>1, <1>2, <1>4, <2>3
<1>9. CASE i = Len(p) /\ a.pc = "place"
  <2>1. c.pc = "start"
    BY <1>1, <1>9
  <2>2. NamedAt(c, m, k \cup {p[i].what}, b)
    BY <1>2, <1>7, <1>9, <2>1 DEF NamedAt
  <2> QED
    BY <1>1, <1>2, <1>4, <2>2
<1>10. CASE i = Len(p) /\ a.pc = "setup"
  <2>1. c.pc = "carveout"
    BY <1>1, <1>10
  <2>2. NamedAt(c, m, k \cup {p[i].what}, b)
    BY <1>2, <2>1, Elsewhere
  <2> QED
    BY <1>1, <1>2, <1>4, <2>2
<1> QED
  BY <1>8, <1>9, <1>10

\* What the pieces of actions leave of what is made
LEMMA LeavesMade ==
    /\ \A pc : Goto(pc) => at'.pc = pc /\ at'.i = 1
    /\ UnchangedSoft => made' = made /\ blank' = blank
    /\ UnchangedDriver => made' = made /\ blank' = blank /\ model' = model
    /\ BootFails => made' = made /\ blank' = blank /\ model' = model /\ at'.pc = "failed"
    /\ Refuses => made' = made /\ blank' = blank /\ model' = model /\ at'.pc = "refused"
    /\ UnloadStops => made' = made /\ blank' = blank /\ model' = model /\ at'.pc = "quiesce"
    /\ \A g : PutDown(g) => made' = made /\ blank' = blank /\ model' = model
                            /\ at'.pc \in {"idle", "unload"}
    /\ \A how : Gone(how) => blank' = blank /\ model' = model /\ at'.pc = "none"
<1>1. \A pc : Goto(pc) => at'.pc = pc /\ at'.i = 1
  BY DEF Goto
<1>2. UnchangedSoft => made' = made /\ blank' = blank
  BY DEF UnchangedSoft
<1>3. UnchangedDriver => made' = made /\ blank' = blank /\ model' = model
  BY <1>2 DEF UnchangedDriver
<1>4. BootFails => made' = made /\ blank' = blank /\ model' = model /\ at'.pc = "failed"
  BY <1>1, <1>2 DEF BootFails
<1>5. Refuses => made' = made /\ blank' = blank /\ model' = model /\ at'.pc = "refused"
  BY <1>1, <1>3 DEF Refuses
<1>6. UnloadStops => made' = made /\ blank' = blank /\ model' = model /\ at'.pc = "quiesce"
  BY <1>1, <1>3 DEF UnloadStops
<1>7. \A g : PutDown(g) => made' = made /\ blank' = blank /\ model' = model
                           /\ at'.pc \in {"idle", "unload"}
  BY <1>1, <1>2 DEF PutDown
<1>8. \A how : Gone(how) => blank' = blank /\ model' = model /\ at'.pc = "none"
  BY DEF Gone
<1> QED
  BY <1>1, <1>2, <1>3, <1>4, <1>5, <1>6, <1>7, <1>8

LEMMA NamedKeeps ==
    ASSUME model \in Models, IsSpot(at), NamedInv, [BootNext]_bootVars
    PROVE  model' = model /\ NamedInv'
<1> DEFINE Named == NamedAt(at', model', made', blank')
<1> SUFFICES model' = model /\ Named
  BY DEF NamedInv
<1>a. blank = {}
  BY DEF NamedInv, NamedAt
<1>b. ASSUME model' = model, blank' = blank,
             at'.pc \notin {"place", "setup", "start", "booter", "attach", "notice", "settle"}
      PROVE  model' = model /\ Named
  BY <1>a, <1>b, Elsewhere
<1>c. ASSUME model' = model, blank' = blank, made' = made,
             at.pc \in {"start", "booter", "attach", "notice", "settle"},
             at'.pc \in {"start", "booter", "attach", "notice", "settle"}
      PROVE  model' = model /\ Named
  BY <1>c, Onward DEF NamedInv
<1>d. ASSUME model' = model, blank' = blank, made' = made, at' = at
      PROVE  model' = model /\ Named
  BY <1>d DEF NamedInv
<1>e. ASSUME model' = model, blank' = blank, {"root_page_table"} \subseteq made',
             at'.pc \in {"place", "setup"}, at'.i = 1
      PROVE  model' = model /\ Named
  BY <1>a, <1>e, Begins
<1>f. at.pc \in {"start", "booter", "attach", "notice", "settle"} =>
          /\ {"root_page_table", "wpr_meta", "libos_args"} \subseteq made
          /\ model.fmc => {"boot_args", "fmc_image"} \subseteq made
  BY PlacesArguments DEF NamedInv, NamedAt
<1> HIDE DEF Named
<1> USE LeavesMade
<1>1. CASE Open
  <2>1. /\ model' = model /\ blank' = blank
        /\ at'.pc \notin {"place", "setup", "start", "booter", "attach", "notice", "settle"}
    BY <1>1 DEF Open
  <2> QED
    BY <1>b, <2>1
<1>2. CASE WarmReset
  <2>1. /\ model' = model /\ blank' = blank
        /\ at'.pc \notin {"place", "setup", "start", "booter", "attach", "notice", "settle"}
    <3>1. at'.pc \in {"enable", "refused"}
      BY <1>2 DEF WarmReset
    <3>2. model' = model /\ blank' = blank
      BY <1>2 DEF WarmReset
    <3> QED
      BY <3>1, <3>2
  <2> QED
    BY <1>b, <2>1
<1>3. CASE Enable
  <2>1. /\ model' = model /\ blank' = blank
        /\ at'.pc \notin {"place", "setup", "start", "booter", "attach", "notice", "settle"}
    BY <1>3 DEF Enable
  <2> QED
    BY <1>b, <2>1
<1>4. CASE SecondLook
  <2>1. /\ model' = model /\ blank' = blank
        /\ at'.pc \notin {"place", "setup", "start", "booter", "attach", "notice", "settle"}
    BY <1>4 DEF SecondLook
  <2> QED
    BY <1>b, <2>1
<1>5. CASE Identify
  <2>1. model' = model /\ blank' = blank /\ at'.pc \in {"refused", "place"}
    BY <1>5 DEF Identify
  <2>2. at'.pc = "place" => at'.i = 1 /\ made' = {"root_page_table"}
    BY <1>5 DEF Identify, MmuUp
  <2> QED
    BY <1>b, <1>e, <2>1, <2>2
<1>6. CASE WalkPlan
  <2>1. PICK p : p = Plan
    OBVIOUS
  <2>2. at.pc \in {"place", "setup"} /\ model' = model
    BY <1>6 DEF WalkPlan
  <2>3. p = PlanOf(at.pc, model)
    BY <2>1, <2>2 DEF Plan, PlanOf
  <2>4. /\ made' = made \cup {p[at.i].what}
        /\ blank' = blank \cup (p[at.i].uses \ made)
    BY <1>6, <2>1, Zenon DEF WalkPlan
  <2>5. IF at.i = Len(p) THEN at'.pc = (IF at.pc = "place" THEN "start" ELSE "carveout")
        ELSE at'.pc = at.pc /\ at'.i = at.i + 1
    BY <1>6, <2>1, WalkGoes
  <2>6. NamedAt(at, model, made, blank)
    BY DEF NamedInv
  <2>7. p[at.i].uses \subseteq made
    BY <2>2, <2>3, <2>5, <2>6, Walked
  <2>8. NamedAt(at', model, made \cup {p[at.i].what}, blank)
    BY <2>2, <2>3, <2>5, <2>6, Walked
  <2>9. blank' = blank
    BY <2>4, <2>7
  <2> QED
    BY <2>2, <2>4, <2>8, <2>9, Zenon DEF Named
<1>7. CASE PlanRefused
  <2>1. /\ model' = model /\ blank' = blank
        /\ at'.pc \notin {"place", "setup", "start", "booter", "attach", "notice", "settle"}
    BY <1>7 DEF PlanRefused
  <2> QED
    BY <1>b, <2>1
<1>8. CASE PlaceRegion
  <2>1. /\ model' = model /\ blank' = blank /\ made' = made
        /\ at.pc = "start" /\ at'.pc \in {"failed", "booter"}
    BY <1>8 DEF PlaceRegion
  <2> QED
    BY <1>b, <1>c, <2>1
<1>9. CASE BooterLoad
  <2>1. /\ model' = model /\ blank' = blank /\ made' = made
        /\ at.pc = "booter" /\ at'.pc \in {"failed", "attach"}
    BY <1>9 DEF BooterLoad
  <2> QED
    BY <1>b, <1>c, <2>1
<1>10. CASE ChainOfTrust
  <2>1. /\ model' = model /\ made' = made
        /\ at.pc = "start" /\ at'.pc \in {"failed", "attach"}
    BY <1>10 DEF ChainOfTrust
  <2>2. model.fmc /\ (blank' = blank \/ blank' = blank \cup ({"boot_args", "fmc_image"} \ made))
    BY <1>10 DEF ChainOfTrust
  <2>3. blank' = blank
    BY <1>f, <2>1, <2>2
  <2> QED
    BY <1>b, <1>c, <2>1, <2>3
<1>11. CASE Attach
  <2>1. /\ model' = model /\ blank' = blank /\ made' = made
        /\ at.pc = "attach" /\ at'.pc \in {"failed", "notice"}
    BY <1>11 DEF Attach
  <2> QED
    BY <1>b, <1>c, <2>1
<1>12. CASE Notice
  <2>1. /\ model' = model /\ blank' = blank /\ made' = made
        /\ at.pc = "notice" /\ at'.pc = "settle"
    BY <1>12 DEF Notice
  <2> QED
    BY <1>c, <2>1
<1>13. CASE WindowsBack
  BY <1>13, <1>d DEF WindowsBack
<1>14. CASE NoNotice
  <2>1. model' = model /\ blank' = blank /\ at'.pc \in {"failed", "undo"}
    BY <1>14 DEF NoNotice
  <2> QED
    BY <1>b, <2>1
<1>15. CASE NoticeFails
  <2>1. /\ model' = model /\ blank' = blank
        /\ at'.pc \notin {"place", "setup", "start", "booter", "attach", "notice", "settle"}
    BY <1>15 DEF NoticeFails
  <2> QED
    BY <1>b, <2>1
<1>16. CASE Settle
  <2>1. /\ model' = model /\ blank' = blank /\ made' = made
        /\ at.pc = "settle" /\ at'.pc = "setup" /\ at'.i = 1
    BY <1>16 DEF Settle
  <2>2. {"root_page_table"} \subseteq made'
    BY <1>f, <2>1
  <2> QED
    BY <1>e, <2>1, <2>2
<1>17. CASE Undo
  <2>1. /\ model' = model /\ blank' = blank
        /\ at'.pc \notin {"place", "setup", "start", "booter", "attach", "notice", "settle"}
    <3>1. at'.pc \in {"undone", "failed"}
      BY <1>17 DEF Undo
    <3>2. model' = model /\ blank' = blank
      BY <1>17 DEF Undo
    <3> QED
      BY <3>1, <3>2
  <2> QED
    BY <1>b, <2>1
<1>18. CASE Undone
  <2>1. /\ model' = model /\ blank' = blank /\ made' = {"root_page_table"}
        /\ at'.pc = "place" /\ at'.i = 1
    BY <1>18 DEF Undone, MmuUp
  <2> QED
    BY <1>e, <2>1
<1>19. CASE CarveoutCheck
  <2>1. /\ model' = model /\ blank' = blank
        /\ at'.pc \notin {"place", "setup", "start", "booter", "attach", "notice", "settle"}
    BY <1>19 DEF CarveoutCheck
  <2> QED
    BY <1>b, <2>1
<1>20. CASE ExecInit
  <2>1. /\ model' = model /\ blank' = blank
        /\ at'.pc \notin {"place", "setup", "start", "booter", "attach", "notice", "settle"}
    BY <1>20 DEF ExecInit
  <2> QED
    BY <1>b, <2>1
<1>21. CASE Submit
  BY <1>21, <1>d DEF Submit
<1>22. CASE EngineDone
  BY <1>22, <1>d DEF EngineDone
<1>23. CASE LoseWindows
  BY <1>23, <1>d DEF LoseWindows
<1>24. CASE Exit
  <2>1. /\ model' = model /\ blank' = blank
        /\ at'.pc \notin {"place", "setup", "start", "booter", "attach", "notice", "settle"}
    BY <1>24 DEF Exit
  <2> QED
    BY <1>b, <2>1
<1>25. ASSUME NEW broken \in BOOLEAN, Signal(broken) PROVE model' = model /\ Named
  <2>1. /\ model' = model /\ blank' = blank
        /\ at'.pc \notin {"place", "setup", "start", "booter", "attach", "notice", "settle"}
    BY <1>25 DEF Signal
  <2> QED
    BY <1>b, <2>1
<1>26. CASE Idle
  <2>1. /\ model' = model /\ blank' = blank
        /\ at'.pc \notin {"place", "setup", "start", "booter", "attach", "notice", "settle"}
    BY <1>26 DEF Idle
  <2> QED
    BY <1>b, <2>1
<1>27. CASE ExecFini
  <2>1. /\ model' = model /\ blank' = blank
        /\ at'.pc \notin {"place", "setup", "start", "booter", "attach", "notice", "settle"}
    BY <1>27 DEF ExecFini
  <2> QED
    BY <1>b, <2>1
<1>28. CASE UnloadPrepare
  <2>1. /\ model' = model /\ blank' = blank
        /\ at'.pc \notin {"place", "setup", "start", "booter", "attach", "notice", "settle"}
    BY <1>28 DEF UnloadPrepare
  <2> QED
    BY <1>b, <2>1
<1>29. CASE GspUnload
  <2>1. /\ model' = model /\ blank' = blank
        /\ at'.pc \notin {"place", "setup", "start", "booter", "attach", "notice", "settle"}
    BY <1>29 DEF GspUnload
  <2> QED
    BY <1>b, <2>1
<1>30. CASE FwsecSb
  <2>1. /\ model' = model /\ blank' = blank
        /\ at'.pc \notin {"place", "setup", "start", "booter", "attach", "notice", "settle"}
    BY <1>30 DEF FwsecSb
  <2> QED
    BY <1>b, <2>1
<1>31. CASE BooterUnload
  <2>1. /\ model' = model /\ blank' = blank
        /\ at'.pc \notin {"place", "setup", "start", "booter", "attach", "notice", "settle"}
    BY <1>31 DEF BooterUnload
  <2> QED
    BY <1>b, <2>1
<1>32. CASE Quiesce
  <2>1. /\ model' = model /\ blank' = blank
        /\ at'.pc \notin {"place", "setup", "start", "booter", "attach", "notice", "settle"}
    BY <1>32 DEF Quiesce
  <2> QED
    BY <1>b, <2>1
<1>33. CASE Fini
  <2>1. /\ model' = model /\ blank' = blank
        /\ at'.pc \notin {"place", "setup", "start", "booter", "attach", "notice", "settle"}
    BY <1>33 DEF Fini
  <2> QED
    BY <1>b, <2>1
<1>34. CASE Leave
  <2>1. /\ model' = model /\ blank' = blank
        /\ at'.pc \notin {"place", "setup", "start", "booter", "attach", "notice", "settle"}
    BY <1>34 DEF Leave
  <2> QED
    BY <1>b, <2>1
<1>35. CASE Interrupted
  <2>1. /\ model' = model /\ blank' = blank
        /\ at'.pc \notin {"place", "setup", "start", "booter", "attach", "notice", "settle"}
    BY <1>35 DEF Interrupted
  <2> QED
    BY <1>b, <2>1
<1>36. CASE Killed
  <2>1. /\ model' = model /\ blank' = blank
        /\ at'.pc \notin {"place", "setup", "start", "booter", "attach", "notice", "settle"}
    BY <1>36 DEF Killed
  <2> QED
    BY <1>b, <2>1
<1>37. CASE UNCHANGED bootVars
  BY <1>37, <1>d DEF bootVars
<1> QED
  BY <1>1, <1>2, <1>3, <1>4, <1>5, <1>6, <1>7, <1>8, <1>9, <1>10, <1>11, <1>12, <1>13, <1>14,
     <1>15, <1>16, <1>17, <1>18, <1>19, <1>20, <1>21, <1>22, <1>23, <1>24, <1>25, <1>26, <1>27,
     <1>28, <1>29, <1>30, <1>31, <1>32, <1>33, <1>34, <1>35, <1>36, <1>37 DEF BootNext

(***************************************************************************)
(* With nothing going wrong a boot comes up.                               *)
(***************************************************************************)

\* What the edits of the flags do to those it is about
LEMMA FlagMoves ==
    ASSUME drv \in Flags
    PROVE  /\ LET d == [drv EXCEPT !.booted = TRUE]
              IN  d.up = drv.up /\ d.restored = drv.restored /\ d.exec_ready = drv.exec_ready
           /\ LET d == [drv EXCEPT !.booted = FALSE]
              IN  /\ ~d.booted /\ d.up = drv.up /\ d.restored = drv.restored
                  /\ d.exec_ready = drv.exec_ready
           /\ LET d == [drv EXCEPT !.restored = FALSE]
              IN  /\ ~d.restored /\ d.booted = drv.booted /\ d.up = drv.up
                  /\ d.exec_ready = drv.exec_ready
           /\ LET d == [drv EXCEPT !.up = TRUE]
              IN  /\ d.up /\ d.booted = drv.booted /\ d.restored = drv.restored
                  /\ d.exec_ready = drv.exec_ready
           /\ LET d == [drv EXCEPT !.up = FALSE]
              IN  /\ d.booted = drv.booted /\ d.restored = drv.restored
                  /\ d.exec_ready = drv.exec_ready
           /\ LET d == [drv EXCEPT !.exec_ready = TRUE]
              IN  d.booted = drv.booted /\ d.restored = drv.restored /\ d.up = drv.up
           /\ LET d == [drv EXCEPT !.exec_ready = FALSE]
              IN  /\ ~d.exec_ready /\ d.booted = drv.booted /\ d.restored = drv.restored
                  /\ d.up = drv.up
           /\ \A b \in BOOLEAN :
                  LET d == [drv EXCEPT !.busy = b]
                  IN  /\ d.booted = drv.booted /\ d.restored = drv.restored
                      /\ d.exec_ready = drv.exec_ready /\ d.up = drv.up
           /\ ~Fresh.booted /\ ~Fresh.exec_ready /\ ~Fresh.restored
<1>1. LET d == [drv EXCEPT !.booted = TRUE]
      IN  d.up = drv.up /\ d.restored = drv.restored /\ d.exec_ready = drv.exec_ready
  BY DEF Flags
<1>2. LET d == [drv EXCEPT !.booted = FALSE]
      IN  /\ ~d.booted /\ d.up = drv.up
          /\ d.restored = drv.restored /\ d.exec_ready = drv.exec_ready
  BY DEF Flags
<1>3. LET d == [drv EXCEPT !.restored = FALSE]
      IN  /\ ~d.restored /\ d.booted = drv.booted
          /\ d.up = drv.up /\ d.exec_ready = drv.exec_ready
  BY DEF Flags
<1>4. LET d == [drv EXCEPT !.up = TRUE]
      IN  /\ d.up /\ d.booted = drv.booted
          /\ d.restored = drv.restored /\ d.exec_ready = drv.exec_ready
  BY DEF Flags
<1>5. LET d == [drv EXCEPT !.up = FALSE]
      IN  d.booted = drv.booted /\ d.restored = drv.restored /\ d.exec_ready = drv.exec_ready
  BY DEF Flags
<1>6. LET d == [drv EXCEPT !.exec_ready = TRUE]
      IN  d.booted = drv.booted /\ d.restored = drv.restored /\ d.up = drv.up
  BY DEF Flags
<1>7. LET d == [drv EXCEPT !.exec_ready = FALSE]
      IN  /\ ~d.exec_ready /\ d.booted = drv.booted
          /\ d.restored = drv.restored /\ d.up = drv.up
  BY DEF Flags
<1>8. \A b \in BOOLEAN :
          LET d == [drv EXCEPT !.busy = b]
          IN  /\ d.booted = drv.booted /\ d.restored = drv.restored
              /\ d.exec_ready = drv.exec_ready /\ d.up = drv.up
  BY DEF Flags
<1>9. ~Fresh.booted /\ ~Fresh.exec_ready /\ ~Fresh.restored
  BY DEF Fresh
<1> QED
  BY <1>1, <1>2, <1>3, <1>4, <1>5, <1>6, <1>7, <1>8, <1>9

\* ... and those of the notes
LEMMA NoteMoves ==
    ASSUME dev \in Notes
    PROVE  LET d == [dev EXCEPT !.hi_now = IF dev.was_up THEN FALSE ELSE @]
           IN  /\ d.was_up = dev.was_up
               /\ (dev.hi_now => dev.was_up) => ~d.hi_now
BY DEF Notes

\* What the pieces of actions leave
LEMMA Leaves ==
    /\ \A pc : Goto(pc) => at'.pc = pc
    /\ UnchangedSoft => made' = made /\ image' = image
    /\ UnchangedDriver => /\ made' = made /\ image' = image /\ model' = model
                          /\ dev' = dev /\ drv' = drv
    /\ UnloadStops => /\ made' = made /\ image' = image /\ model' = model
                      /\ dev' = dev /\ drv' = drv /\ gpu' = gpu /\ at'.pc = "quiesce"
<1>1. \A pc : Goto(pc) => at'.pc = pc
  BY DEF Goto
<1>2. UnchangedSoft => made' = made /\ image' = image
  BY DEF UnchangedSoft
<1>3. UnchangedDriver => /\ made' = made /\ image' = image /\ model' = model
                         /\ dev' = dev /\ drv' = drv
  BY <1>2 DEF UnchangedDriver
<1>4. UnloadStops => /\ made' = made /\ image' = image /\ model' = model
                     /\ dev' = dev /\ drv' = drv /\ gpu' = gpu /\ at'.pc = "quiesce"
  BY <1>1, <1>3 DEF UnloadStops
<1> QED
  BY <1>1, <1>2, <1>3, <1>4

\* A firmware that fits makes a region the manager's carve-out covers, where
\* the falcons unpack it and where the chain of trust places it
LEMMA RegionFits ==
    ASSUME NEW fmc \in BOOLEAN, NEW size \in ImageLeast .. ImageBound,
           NEW bin \in Nat \ {0}, bin <= BootBinBound, NEW slack \in {0, 8}
    PROVE  check_fw_carveout(Region(fmc, size, bin, slack))
<1> USE DEF ImageLeast, ImageBound, BootBinBound, MB
<1>1. PICK v \in Int : v = VramSize /\ v > 2 * (256 * 256)
  BY BootPlanAssumption DEF ReserveTop
<1>2. CASE fmc
  <2>1. PICK lo \in Int : lo = v - 28 * 256 - 256 - bin - size - 135 * 256 - 256 - slack * 256
    BY <1>1
  <2>2. Region(fmc, size, bin, slack) = [lo |-> lo, hi |-> v - 28 * 256, owns |-> lo - 544]
    BY <1>1, <1>2, <2>1 DEF Region, FrtsFromEnd, FrtsSize, HeapSize, NonWprHeap
  <2>3. /\ lo < v - 28 * 256 /\ v - 28 * 256 <= v
        /\ v - 28 * 256 - lo >= 135 * 256 + (64 * 256) \div 2 /\ v - 28 * 256 - lo <= 256 * 256
        /\ v - 256 * 256 <= lo - 544
    BY <1>1, <2>1
  <2> QED
    BY <1>1, <2>2, <2>3 DEF check_fw_carveout, HeapSize, ReserveTop, ManagerTop, NonWprHeap
<1>3. CASE ~fmc
  <2>0. /\ \A n \in Int : round_down(n, 16) \in n - 15 .. n
        /\ \A n \in Int : round_down(n, 256) \in n - 255 .. n
    BY DEF round_down
  <2>a. /\ size \in Int /\ size >= 37 * 256 /\ size <= 64 * 256
        /\ bin \in Int /\ bin >= 1 /\ bin <= 256
    OBVIOUS
  <2>1. PICK gsp \in Int : /\ gsp = round_down(v - 256 - 256 - bin - size, 16)
                           /\ gsp <= v - 512 - bin - size /\ gsp >= v - 527 - bin - size
    BY <1>1, <2>0
  <2>2. PICK heap \in Int : /\ heap = round_down(gsp - 129 * 256, 256)
                            /\ heap <= gsp - 129 * 256 /\ heap >= gsp - 129 * 256 - 255
    BY <2>0
  <2>3. PICK lo \in Int : lo = round_down(heap - 1, 256) /\ lo <= heap - 1 /\ lo >= heap - 256
    BY <2>0
  <2>4. PICK owns : Region(fmc, size, bin, slack) = [lo |-> lo, hi |-> v - 256, owns |-> owns]
    <3>1. Carveout(size, bin).wpr = lo
      BY <1>1, <2>1, <2>2, <2>3 DEF Carveout
    <3>2. Carveout(size, bin).vga = v - 256
      BY <1>1 DEF Carveout
    <3> QED
      BY <1>3, <3>1, <3>2 DEF Region
  <2>5. /\ lo < v - 256 /\ v - 256 <= v
        /\ v - 256 - lo >= 135 * 256 + (64 * 256) \div 2 /\ v - 256 - lo <= 256 * 256
        /\ v - 256 * 256 <= lo - 544
    <3> HIDE DEF ImageLeast, ImageBound, BootBinBound, MB
    <3>1. lo >= v - 782 - bin - size - 130 * 256 - 1 /\ lo <= v - 512 - bin - size - 129 * 256 - 1
      BY <1>1, <2>a, <2>1, <2>2, <2>3
    <3> QED
      BY <1>1, <2>a, <3>1
  <2> QED
    BY <1>1, <2>4, <2>5 DEF check_fw_carveout, HeapSize, ReserveTop, ManagerTop, NonWprHeap
<1> QED
  BY <1>2, <1>3

\* No check of the driver's own refuses a firmware that fits, and a firmware
\* that is not there is asked for nothing
LEMMA PlanPasses ==
    ASSUME NEW m \in Models, m.image <= ImageBound, m.bootbin <= BootBinBound, NEW pc,
           NEW i \in 1 .. Len(PlanOf(pc, m))
    PROVE  LET s == PlanOf(pc, m)[i]
           IN  (s.op = "check" => s.holds) /\ (s.op = "call" => pc # "place")
<1>1. PICK root : root = {"root_page_table"}
  OBVIOUS
<1>2. m.fmc \in BOOLEAN /\ m.image \in Nat
  BY SizesAreNumbers DEF Models
<1>3. ASSUME NEW calls \in BOOLEAN, NEW to, Walks(PlanOf(pc, m), root, to, TRUE, calls)
      PROVE  LET s == PlanOf(pc, m)[i]
             IN  (s.op = "check" => s.holds) /\ (s.op = "call" => calls)
  BY <1>3 DEF Walks, Good, Passes
<1>4. CASE pc # "place"
  <2>1. PICK to : to = root \cup {"scheduled"}
    OBVIOUS
  <2>2. Walks(RmSetup, root, to, TRUE, TRUE)
    BY <1>1, <2>1, RmSetupWalks
  <2>3. PlanOf(pc, m) = RmSetup
    BY <1>4 DEF PlanOf
  <2>4. Walks(PlanOf(pc, m), root, to, TRUE, TRUE)
    BY <2>2, <2>3
  <2> QED
    BY <1>3, <1>4, <2>4
<1>5. CASE pc = "place" /\ m.fmc
  <2>1. PICK to : to = root \cup {"wpr_meta", "libos_args", "boot_args", "fmc_image"}
    OBVIOUS
  <2>2. Walks(gpu_init_sw(TRUE, m.image, m.bootbin), root, to, TRUE, FALSE)
    BY <1>2, <2>1, PlaceTrustWalks
  <2>3. PlanOf(pc, m) = gpu_init_sw(TRUE, m.image, m.bootbin)
    BY <1>2, <1>5 DEF PlanOf
  <2>4. Walks(PlanOf(pc, m), root, to, TRUE, FALSE)
    BY <2>2, <2>3
  <2> QED
    BY <1>3, <2>4
<1>6. CASE pc = "place" /\ ~m.fmc
  <2>1. PICK to : to = root \cup {"wpr_meta", "libos_args", "fwsec", "booter"}
    OBVIOUS
  <2>2. Walks(gpu_init_sw(FALSE, m.image, m.bootbin), root, to, TRUE, FALSE)
    BY <1>2, <2>1, PlaceFalconWalks
  <2>3. PlanOf(pc, m) = gpu_init_sw(FALSE, m.image, m.bootbin)
    BY <1>2, <1>6 DEF PlanOf
  <2>4. Walks(PlanOf(pc, m), root, to, TRUE, FALSE)
    BY <2>2, <2>3
  <2> QED
    BY <1>3, <2>4
<1> QED
  BY <1>4, <1>5, <1>6

\* A step in which nothing goes wrong leads on
LEMMA LeadsOn ==
    ASSUME BInv, Untroubled, Fits, ~Fault, run.faults = 0, run'.faults = 0,
           model' = model, BootNext
    PROVE  Untroubled'
<1> USE DEF Mastered, Serving, Begun
<1>a. gpu \in Cards /\ model \in Models /\ dev \in Notes /\ drv \in Flags /\ IsSpot(at)
  BY DEF BInv, BootTypeOK
<1>r. run \in Counts
  BY DEF BInv, BootTypeOK
<1>1. CASE Open
  <2>1. at.pc = "none" /\ gpu.decode /\ gpu.bars
    BY <1>1 DEF Open, Untroubled
  <2>2. PICK d : d = [ones |-> ~Reads, was_up |-> Reads /\ gpu.region,
          hi_now |-> Reads /\ gpu.region]
    OBVIOUS
  <2>3. d.ones = FALSE /\ d.was_up = gpu.region /\ d.hi_now = gpu.region
    BY <1>a, <2>1, <2>2 DEF Reads, Cards
  <2>4. /\ gpu' = gpu /\ dev' = d /\ drv' = Fresh /\ made' = made /\ image' = image
        /\ at'.pc = (IF d.was_up THEN "warm" ELSE "enable")
    BY <1>1, <2>2, Leaves DEF Open
  <2> QED
    BY <1>a, <2>1, <2>3, <2>4, FlagMoves DEF Untroubled
<1>2. CASE WarmReset
  <2>1. at.pc = "warm" /\ at'.pc = "enable" /\ dev' = dev /\ drv' = drv
    BY <1>2, Leaves DEF WarmReset
  <2>2. gpu' = AfterReset(gpu.bars)
    BY <1>2 DEF WarmReset
  <2>3. gpu.bars \in BOOLEAN
    BY <1>a DEF Cards
  <2>4. ~gpu'.region /\ gpu'.bars = gpu.bars /\ gpu'.name = gpu.name
    BY <1>a, <2>2, <2>3, CardEdits
  <2>5. dev.was_up
    BY <2>1 DEF BInv, ColdInv
  <2> QED
    BY <2>1, <2>4, <2>5 DEF Untroubled
<1>3. CASE Enable
  <2>1. at.pc = "enable" /\ gpu.name /\ dev' = dev /\ drv' = drv
    BY <1>3, Leaves DEF Enable, Untroubled
  <2>2. gpu' = [gpu EXCEPT !.decode = TRUE, !.master = TRUE]
    BY <1>3, <2>1 DEF Enable
  <2>3. /\ gpu'.decode /\ gpu'.master /\ gpu'.region = gpu.region
        /\ gpu'.bars = gpu.bars /\ gpu'.name = gpu.name
    BY <1>a, <2>2 DEF Cards
  <2>4. at'.pc = "identify"
    <3>1. at'.pc = (IF dev.ones /\ ~dev.was_up THEN "second" ELSE "identify")
      BY <1>3, Leaves DEF Enable
    <3> QED
      BY <2>1, <3>1 DEF Untroubled
  <2> QED
    BY <2>1, <2>3, <2>4 DEF Untroubled
<1>4. CASE SecondLook
  BY <1>4 DEF SecondLook, Untroubled
<1>5. CASE Identify
  <2>1. at.pc = "identify" /\ gpu' = gpu /\ Reads /\ ~LeftUp
    BY <1>5 DEF Identify, Untroubled, Reads, LeftUp
  <2>2. PICK d : d = [dev EXCEPT !.hi_now = IF dev.was_up THEN FALSE ELSE @]
    OBVIOUS
  <2>3. PICK f : f = [drv EXCEPT !.booted = TRUE]
    OBVIOUS
  <2>4. /\ dev' = d /\ drv' = f /\ made' = {"root_page_table"} /\ image' = image
        /\ at'.pc = "place"
    BY <1>5, <2>1, <2>2, <2>3, Leaves DEF Identify, MmuUp
  <2>5. d.was_up = dev.was_up /\ ~d.hi_now
    BY <1>a, <2>1, <2>2, NoteMoves DEF Untroubled
  <2>6. f.up = drv.up /\ f.restored = drv.restored /\ f.exec_ready = drv.exec_ready
    BY <1>a, <2>3, FlagMoves
  <2> QED
    BY <2>1, <2>4, <2>5, <2>6 DEF Untroubled
<1>6. CASE WalkPlan
  <2>1. gpu' = gpu /\ dev' = dev /\ drv' = drv
    BY <1>6 DEF WalkPlan
  <2>2. \/ at.pc = "place" /\ at'.pc \in {"place", "start"}
        \/ at.pc = "setup" /\ at'.pc \in {"setup", "carveout"}
    BY <1>6, <1>a, WalkGoes
  <2>3. PICK w : w = Plan[at.i].what
    OBVIOUS
  <2>4. /\ made' = made \cup {w}
        /\ image' = CASE w = "fwsec" -> [image EXCEPT !.fwsec = "frts"]
                      [] w = "booter" -> [image EXCEPT !.booter = "load"]
                      [] OTHER -> image
    BY <1>6, <2>3, Zenon DEF WalkPlan
  <2>5. image \in Slots
    BY DEF BInv, BootTypeOK
  <2>6. /\ image'.fwsec = (IF w = "fwsec" THEN "frts" ELSE image.fwsec)
        /\ image'.booter = (IF w = "booter" THEN "load" ELSE image.booter)
    BY <2>4, <2>5 DEF Slots
  <2>7. CASE at.pc = "place"
    <3>1. /\ "fwsec" \in made' => image'.fwsec = "frts"
          /\ "booter" \in made' => image'.booter = "load"
      BY <2>4, <2>6, <2>7 DEF Untroubled
    <3> QED
      BY <2>1, <2>2, <2>7, <3>1 DEF Untroubled
  <2>8. CASE at.pc = "setup"
    BY <2>1, <2>2, <2>8 DEF Untroubled
  <2> QED
    BY <2>2, <2>7, <2>8
<1>7. CASE PlanRefused
  <2>1. PICK s : s = Plan[at.i]
    OBVIOUS
  <2>2. /\ at.pc \in {"place", "setup"}
        /\ \/ s.op = "check" /\ ~(s.holds /\ s.uses \subseteq made)
           \/ s.op = "call" /\ ~CanAnswer
    BY <1>7, <2>1 DEF PlanRefused
  <2>3. PICK p : p = PlanOf(at.pc, model)
    OBVIOUS
  <2>4. Plan = p
    BY <2>2, <2>3 DEF Plan, PlanOf
  <2>5. at.i \in 1 .. Len(p) /\ {"root_page_table"} \cup Made(p, at.i - 1) \subseteq made
    BY <2>2, <2>3 DEF BInv, NamedInv, NamedAt
  <2>6. Fed(p, {"root_page_table"})
    BY <1>a, <2>3, PlanFed
  <2>7. s.uses \subseteq made
    BY <2>1, <2>4, <2>5, <2>6 DEF Fed
  <2>8. (s.op = "check" => s.holds) /\ (s.op = "call" => at.pc # "place")
    <3>1. model.image <= ImageBound /\ model.bootbin <= BootBinBound
      BY DEF Fits
    <3> QED
      BY <1>a, <2>1, <2>3, <2>4, <2>5, <3>1, PlanPasses
  <2>9. at.pc = "setup" => CanAnswer
    BY DEF Untroubled, CanAnswer, Reads
  <2> QED
    BY <2>2, <2>7, <2>8, <2>9
<1>8. CASE PlaceRegion
  <2>1. at.pc = "start" /\ HasAddresses /\ flcn_execute_hs("fwsec", "frts") /\ ~dev.hi_now
    <3>1. at.pc = "start" /\ ~model.fmc
      BY <1>8 DEF PlaceRegion
    <3>2. {"wpr_meta", "libos_args", "fwsec"} \subseteq made
      BY <1>a, <3>1, PlacesArguments DEF BInv, NamedInv, NamedAt
    <3> QED
      BY <3>1, <3>2 DEF Untroubled, HasAddresses, flcn_execute_hs, tinynv_flcn_reset, Reads
  <2>2. PICK g : g = [gpu EXCEPT !.region = TRUE]
    OBVIOUS
  <2>3. /\ gpu' = g /\ at'.pc = "booter" /\ dev' = dev /\ drv' = drv /\ made' = made
        /\ image' = image /\ ~model.fmc
    BY <1>8, <2>1, <2>2, Leaves DEF PlaceRegion
  <2>4. g.name = gpu.name /\ g.bars = gpu.bars /\ g.decode = gpu.decode /\ g.master = gpu.master
    BY <1>a, <2>2 DEF Cards
  <2> QED
    BY <2>1, <2>3, <2>4 DEF Untroubled
<1>9. CASE BooterLoad
  <2>1. PICK g : g = [gpu EXCEPT !.fw = "starting"]
    OBVIOUS
  <2>2. /\ gpu' = g /\ at.pc = "booter" /\ at'.pc = "attach" /\ dev' = dev /\ drv' = drv
        /\ made' = made /\ image' = image
    BY <1>9, <2>1, Leaves DEF BooterLoad
  <2>3. g.name = gpu.name /\ g.bars = gpu.bars /\ g.decode = gpu.decode /\ g.master = gpu.master
    BY <1>a, <2>1 DEF Cards
  <2> QED
    BY <2>2, <2>3 DEF Untroubled
<1>10. CASE ChainOfTrust
  <2>1. at.pc = "start" /\ HasAddresses /\ kfsp_send_msg
    <3>1. at.pc = "start"
      BY <1>10 DEF ChainOfTrust
    <3>2. {"wpr_meta", "libos_args"} \subseteq made
      BY <1>a, <3>1, PlacesArguments DEF BInv, NamedInv, NamedAt
    <3> QED
      BY <3>1, <3>2 DEF Untroubled, HasAddresses, kfsp_send_msg, Reads
  <2>2. PICK g : g = [gpu EXCEPT !.region = TRUE, !.fw = "starting"]
    OBVIOUS
  <2>3. gpu' = g /\ at'.pc = "attach" /\ dev' = dev /\ drv' = drv
    BY <1>10, <2>1, <2>2, Leaves DEF ChainOfTrust
  <2>4. g.name = gpu.name /\ g.bars = gpu.bars /\ g.decode = gpu.decode /\ g.master = gpu.master
    BY <1>a, <2>2 DEF Cards
  <2> QED
    BY <2>1, <2>3, <2>4 DEF Untroubled
<1>11. CASE Attach
  <2>1. at.pc = "attach" /\ gpu.master
    BY <1>11 DEF Attach, Untroubled
  <2>2. PICK d : d = [drv EXCEPT !.restored = FALSE]
    OBVIOUS
  <2>3. gpu' = gpu /\ dev' = dev /\ drv' = d /\ at'.pc = "notice"
    BY <1>11, <2>1, <2>2, Leaves DEF Attach
  <2>4. ~d.restored /\ d.booted = drv.booted /\ d.up = drv.up /\ d.exec_ready = drv.exec_ready
    BY <1>a, <2>2, FlagMoves
  <2> QED
    BY <2>1, <2>3, <2>4 DEF Untroubled
<1>12. CASE Notice
  <2>1. PICK g : g = [gpu EXCEPT !.fw = "running"]
    OBVIOUS
  <2>2. gpu' = g /\ at.pc = "notice" /\ at'.pc = "settle" /\ dev' = dev /\ drv' = drv
    BY <1>12, <2>1, Leaves DEF Notice
  <2>3. /\ g.name = gpu.name /\ g.bars = gpu.bars /\ g.decode = gpu.decode
        /\ g.master = gpu.master /\ g.fw = "running"
    BY <1>a, <2>1 DEF Cards
  <2> QED
    BY <2>2, <2>3 DEF Untroubled
<1>13. CASE WindowsBack
  BY <1>13 DEF WindowsBack, Untroubled, LooksLost
<1>14. CASE NoNotice
  BY <1>14 DEF NoNotice, Untroubled
<1>15. CASE NoticeFails
  BY <1>15 DEF NoticeFails
<1>16. CASE Settle
  <2>1. at.pc = "settle" /\ ~LooksLost
    BY <1>16 DEF Settle, Untroubled, LooksLost
  <2>2. PICK d : d = [drv EXCEPT !.up = TRUE]
    OBVIOUS
  <2>3. gpu' = gpu /\ dev' = dev /\ drv' = d /\ at'.pc = "setup"
    BY <1>16, <2>1, <2>2, Leaves DEF Settle
  <2>4. d.up /\ d.booted = drv.booted /\ d.restored = drv.restored /\ d.exec_ready = drv.exec_ready
    BY <1>a, <2>2, FlagMoves
  <2> QED
    BY <2>1, <2>3, <2>4 DEF Untroubled
<1>17. CASE Undo
  BY <1>17 DEF Undo, Untroubled
<1>18. CASE Undone
  BY <1>18 DEF Undone, Untroubled
<1>19. CASE CarveoutCheck
  <2>1. at.pc = "carveout" /\ Reads
    BY <1>19 DEF CarveoutCheck, Untroubled, Reads
  <2>2. check_fw_carveout(Region(model.fmc, model.image, model.bootbin, model.slack))
    <3>1. /\ model.fmc \in BOOLEAN /\ model.image \in ImageLeast .. ImageBound
          /\ model.bootbin \in Nat \ {0} /\ model.bootbin <= BootBinBound /\ model.slack \in {0, 8}
      BY <1>a, SizesAreNumbers DEF Models, Fits
    <3> QED
      BY <3>1, RegionFits
  <2>3. gpu' = gpu /\ dev' = dev /\ drv' = drv /\ at'.pc = "exec"
    BY <1>19, <2>1, <2>2, Leaves DEF CarveoutCheck
  <2> QED
    BY <2>1, <2>3 DEF Untroubled
<1>20. CASE ExecInit
  <2>1. PICK d : d = [drv EXCEPT !.exec_ready = TRUE]
    OBVIOUS
  <2>2. gpu' = gpu /\ dev' = dev /\ drv' = d /\ at.pc = "exec" /\ at'.pc = "ready"
    BY <1>20, <2>1, Leaves DEF ExecInit
  <2>3. d.booted = drv.booted /\ d.restored = drv.restored /\ d.up = drv.up
    BY <1>a, <2>1, FlagMoves
  <2> QED
    BY <2>2, <2>3 DEF Untroubled
<1>21. CASE Submit
  <2>1. PICK d : d = [drv EXCEPT !.busy = TRUE]
    OBVIOUS
  <2>2. /\ gpu' = gpu /\ dev' = dev /\ drv' = d /\ at' = at /\ made' = made /\ image' = image
    BY <1>21, <2>1, Leaves DEF Submit
  <2>3. /\ d.booted = drv.booted /\ d.restored = drv.restored
        /\ d.exec_ready = drv.exec_ready /\ d.up = drv.up
    BY <1>a, <2>1, FlagMoves
  <2> QED
    BY <2>2, <2>3 DEF Untroubled
<1>22. CASE EngineDone
  <2>1. PICK d : d = [drv EXCEPT !.busy = FALSE]
    OBVIOUS
  <2>2. /\ gpu' = gpu /\ dev' = dev /\ drv' = d /\ at' = at /\ made' = made /\ image' = image
    BY <1>22, <2>1, Leaves DEF EngineDone
  <2>3. /\ d.booted = drv.booted /\ d.restored = drv.restored
        /\ d.exec_ready = drv.exec_ready /\ d.up = drv.up
    BY <1>a, <2>1, FlagMoves
  <2> QED
    BY <2>2, <2>3 DEF Untroubled
<1>23. CASE LoseWindows
  BY <1>23 DEF LoseWindows
<1>24. CASE Exit
  <2>1. at.pc = "ready"
    BY <1>24 DEF Exit, Untroubled
  <2>2. PICK d : d = [drv EXCEPT !.booted = FALSE]
    OBVIOUS
  <2>3. /\ gpu' = gpu /\ dev' = dev /\ drv' = d
        /\ at'.pc = (IF drv.exec_ready THEN "idle" ELSE "unload")
    BY <1>24, <2>1, <2>2, Leaves DEF Exit, PutDown
  <2>4. ~d.booted /\ d.up = drv.up /\ d.restored = drv.restored /\ d.exec_ready = drv.exec_ready
    BY <1>a, <2>2, FlagMoves
  <2> QED
    BY <2>1, <2>3, <2>4 DEF Untroubled
<1>25. ASSUME NEW broken \in BOOLEAN, Signal(broken) PROVE Untroubled'
  <2>1. drv.exec_ready /\ ~broken /\ at.pc = "ready"
    BY <1>25 DEF Signal, Untroubled
  <2>2. PICK d : d = [drv EXCEPT !.booted = FALSE]
    OBVIOUS
  <2>3. /\ gpu' = gpu /\ dev' = dev /\ drv' = d
        /\ at'.pc = "idle"
    BY <1>25, <2>1, <2>2, Leaves DEF Signal, PutDown
  <2>4. ~d.booted /\ d.up = drv.up /\ d.restored = drv.restored /\ d.exec_ready = drv.exec_ready
    BY <1>a, <2>2, FlagMoves
  <2> QED
    BY <2>1, <2>3, <2>4 DEF Untroubled
<1>26. CASE Idle
  <2>1. gpu' = gpu /\ dev' = dev /\ drv' = drv /\ at.pc = "idle" /\ at'.pc = "exec_fini"
    BY <1>26, Leaves DEF Idle
  <2> QED
    BY <2>1 DEF Untroubled
<1>27. CASE ExecFini
  <2>1. PICK d : d = [drv EXCEPT !.exec_ready = FALSE]
    OBVIOUS
  <2>2. gpu' = gpu /\ dev' = dev /\ drv' = d /\ at.pc = "exec_fini" /\ at'.pc = "unload"
    BY <1>27, <2>1, Leaves DEF ExecFini
  <2>3. ~d.exec_ready /\ d.booted = drv.booted /\ d.restored = drv.restored /\ d.up = drv.up
    BY <1>a, <2>1, FlagMoves
  <2> QED
    BY <2>2, <2>3 DEF Untroubled
<1>28. CASE UnloadPrepare
  <2>1. gpu' = gpu /\ dev' = dev /\ drv' = drv /\ at.pc = "unload" /\ drv.up
    BY <1>28 DEF UnloadPrepare, Untroubled
  <2>2. IF model.fmc THEN at'.pc = "quiesce" ELSE at'.pc = "notify"
    BY <1>28, <2>1, Leaves DEF UnloadPrepare
  <2>3. model.fmc \in BOOLEAN
    BY <1>a DEF Models
  <2> QED
    BY <2>1, <2>2, <2>3 DEF Untroubled
<1>29. CASE GspUnload
  <2>1. at.pc = "notify" /\ CanAnswer
    BY <1>29 DEF GspUnload, Untroubled, CanAnswer, Reads
  <2>2. PICK g, d : g = [gpu EXCEPT !.fw = "halted"] /\ d = [drv EXCEPT !.up = FALSE]
    OBVIOUS
  <2>3. gpu' = g /\ dev' = dev /\ drv' = d /\ at'.pc = "sb"
    BY <1>29, <2>1, <2>2, Leaves DEF GspUnload
  <2>4. g.name = gpu.name /\ g.bars = gpu.bars /\ g.decode = gpu.decode /\ g.master = gpu.master
    BY <1>a, <2>2 DEF Cards
  <2>5. d.booted = drv.booted /\ d.restored = drv.restored /\ d.exec_ready = drv.exec_ready
    BY <1>a, <2>2, FlagMoves
  <2> QED
    BY <2>1, <2>3, <2>4, <2>5 DEF Untroubled
<1>30. CASE FwsecSb
  <2>1. gpu' = gpu /\ dev' = dev /\ drv' = drv /\ at.pc = "sb" /\ at'.pc = "unbooter"
    BY <1>30, Leaves DEF FwsecSb
  <2> QED
    BY <2>1 DEF Untroubled
<1>31. CASE BooterUnload
  <2>1. PICK g : g = [gpu EXCEPT !.region = FALSE, !.fw = "none"]
    OBVIOUS
  <2>2. gpu' = g /\ dev' = dev /\ drv' = drv /\ at.pc = "unbooter" /\ at'.pc = "quiesce"
    BY <1>31, <2>1, Leaves DEF BooterUnload
  <2>3. ~g.region /\ g.name = gpu.name /\ g.bars = gpu.bars /\ g.decode = gpu.decode
    BY <1>a, <2>1 DEF Cards
  <2> QED
    BY <2>2, <2>3 DEF Untroubled
<1>32. CASE Quiesce
  <2>1. gpu' = Cleared /\ dev' = dev /\ drv' = drv /\ at.pc = "quiesce" /\ at'.pc = "fini"
    BY <1>32, Leaves DEF Quiesce, MasterDropped
  <2>2. /\ Cleared.region = gpu.region /\ Cleared.name = gpu.name
        /\ Cleared.bars = gpu.bars /\ Cleared.decode = gpu.decode
    BY <1>a, CardEdits
  <2> QED
    BY <2>1, <2>2 DEF Untroubled
<1>33. CASE Fini
  <2>1. gpu' = gpu /\ dev' = dev /\ drv' = drv /\ at.pc = "fini" /\ at'.pc = "down"
    BY <1>33, Leaves DEF Fini
  <2> QED
    BY <2>1 DEF Untroubled
<1>34. CASE Leave
  <2>1. gpu' = gpu /\ dev' = dev /\ drv' = Fresh /\ at.pc = "down" /\ at'.pc = "none"
    BY <1>34 DEF Leave, Gone, Untroubled
  <2> QED
    BY <1>a, <2>1, FlagMoves DEF Untroubled
<1>35. CASE Interrupted
  <2>1. run'.faults = 1
    BY <1>35, <1>r DEF Interrupted, Counts
  <2> QED
    BY <2>1
<1>36. CASE Killed
  <2>1. run'.faults = 1
    BY <1>36, <1>r DEF Killed, Counts
  <2> QED
    BY <2>1
<1> QED
  BY <1>1, <1>2, <1>3, <1>4, <1>5, <1>6, <1>7, <1>8, <1>9, <1>10, <1>11, <1>12, <1>13, <1>14,
     <1>15, <1>16, <1>17, <1>18, <1>19, <1>20, <1>21, <1>22, <1>23, <1>24, <1>25, <1>26, <1>27,
     <1>28, <1>29, <1>30, <1>31, <1>32, <1>33, <1>34, <1>35, <1>36 DEF BootNext

LEMMA FaultsAdd ==
    ASSUME run \in Counts, BootNext
    PROVE  run'.faults \in {run.faults, run.faults + 1}
<1> DEFINE Goal == run'.faults \in {run.faults, run.faults + 1}
<1>1. Fault => Goal
  <2>1. PICK k : k = run.faults + 1
    OBVIOUS
  <2> QED
    BY <2>1 DEF Fault, Counts
<1>2. NoFault => Goal
  BY DEF NoFault
<1>3. CASE Open
  BY <1>3 DEF Open, Counts
<1>4. CASE WarmReset
  <2>1. Fault \/ NoFault
    BY <1>4 DEF WarmReset
  <2> QED
    BY <1>1, <1>2, <2>1
<1>5. CASE Enable
  <2>1. Fault \/ NoFault
    BY <1>5 DEF Enable
  <2> QED
    BY <1>1, <1>2, <2>1
<1>6. CASE SecondLook
  <2>1. Fault \/ NoFault
    BY <1>6 DEF SecondLook
  <2> QED
    BY <1>1, <1>2, <2>1
<1>7. CASE Identify
  <2>1. Fault \/ NoFault
    BY <1>7 DEF Identify
  <2> QED
    BY <1>1, <1>2, <2>1
<1>8. CASE WalkPlan
  <2>1. Fault \/ NoFault
    BY <1>8 DEF WalkPlan
  <2> QED
    BY <1>1, <1>2, <2>1
<1>9. CASE PlanRefused
  <2>1. Fault \/ NoFault
    BY <1>9 DEF PlanRefused
  <2> QED
    BY <1>1, <1>2, <2>1
<1>10. CASE PlaceRegion
  <2>1. Fault \/ NoFault
    BY <1>10 DEF PlaceRegion
  <2> QED
    BY <1>1, <1>2, <2>1
<1>11. CASE BooterLoad
  <2>1. Fault \/ NoFault
    BY <1>11 DEF BooterLoad
  <2> QED
    BY <1>1, <1>2, <2>1
<1>12. CASE ChainOfTrust
  <2>1. Fault \/ NoFault
    BY <1>12 DEF ChainOfTrust
  <2> QED
    BY <1>1, <1>2, <2>1
<1>13. CASE Attach
  <2>1. Fault \/ NoFault
    BY <1>13 DEF Attach
  <2> QED
    BY <1>1, <1>2, <2>1
<1>14. CASE Notice
  <2>1. Fault \/ NoFault
    BY <1>14 DEF Notice
  <2> QED
    BY <1>1, <1>2, <2>1
<1>15. CASE WindowsBack
  <2>1. Fault \/ NoFault
    BY <1>15 DEF WindowsBack
  <2> QED
    BY <1>1, <1>2, <2>1
<1>16. CASE NoNotice
  <2>1. Fault \/ NoFault
    BY <1>16 DEF NoNotice
  <2> QED
    BY <1>1, <1>2, <2>1
<1>17. CASE NoticeFails
  <2>1. Fault \/ NoFault
    BY <1>17 DEF NoticeFails
  <2> QED
    BY <1>1, <1>2, <2>1
<1>18. CASE Settle
  <2>1. Fault \/ NoFault
    BY <1>18 DEF Settle
  <2> QED
    BY <1>1, <1>2, <2>1
<1>19. CASE Undo
  <2>1. Fault \/ NoFault
    BY <1>19 DEF Undo
  <2> QED
    BY <1>1, <1>2, <2>1
<1>20. CASE Undone
  <2>1. Fault \/ NoFault
    BY <1>20 DEF Undone
  <2> QED
    BY <1>1, <1>2, <2>1
<1>21. CASE CarveoutCheck
  <2>1. Fault \/ NoFault
    BY <1>21 DEF CarveoutCheck
  <2> QED
    BY <1>1, <1>2, <2>1
<1>22. CASE ExecInit
  <2>1. Fault \/ NoFault
    BY <1>22 DEF ExecInit
  <2> QED
    BY <1>1, <1>2, <2>1
<1>23. CASE Submit
  <2>1. Fault \/ NoFault
    BY <1>23 DEF Submit
  <2> QED
    BY <1>1, <1>2, <2>1
<1>24. CASE EngineDone
  <2>1. Fault \/ NoFault
    BY <1>24 DEF EngineDone
  <2> QED
    BY <1>1, <1>2, <2>1
<1>25. CASE LoseWindows
  <2>1. Fault \/ NoFault
    BY <1>25 DEF LoseWindows
  <2> QED
    BY <1>1, <1>2, <2>1
<1>26. CASE Exit
  <2>1. Fault \/ NoFault
    BY <1>26 DEF Exit
  <2> QED
    BY <1>1, <1>2, <2>1
<1>27. ASSUME NEW broken \in BOOLEAN, Signal(broken) PROVE Goal
  <2>1. Fault \/ NoFault
    BY <1>27 DEF Signal
  <2> QED
    BY <1>1, <1>2, <2>1
<1>28. CASE Idle
  <2>1. Fault \/ NoFault
    BY <1>28 DEF Idle
  <2> QED
    BY <1>1, <1>2, <2>1
<1>29. CASE ExecFini
  <2>1. Fault \/ NoFault
    BY <1>29 DEF ExecFini
  <2> QED
    BY <1>1, <1>2, <2>1
<1>30. CASE UnloadPrepare
  <2>1. Fault \/ NoFault
    BY <1>30 DEF UnloadPrepare
  <2> QED
    BY <1>1, <1>2, <2>1
<1>31. CASE GspUnload
  <2>1. Fault \/ NoFault
    BY <1>31 DEF GspUnload
  <2> QED
    BY <1>1, <1>2, <2>1
<1>32. CASE FwsecSb
  <2>1. Fault \/ NoFault
    BY <1>32 DEF FwsecSb
  <2> QED
    BY <1>1, <1>2, <2>1
<1>33. CASE BooterUnload
  <2>1. Fault \/ NoFault
    BY <1>33 DEF BooterUnload
  <2> QED
    BY <1>1, <1>2, <2>1
<1>34. CASE Quiesce
  <2>1. Fault \/ NoFault
    BY <1>34 DEF Quiesce
  <2> QED
    BY <1>1, <1>2, <2>1
<1>35. CASE Fini
  <2>1. Fault \/ NoFault
    BY <1>35 DEF Fini
  <2> QED
    BY <1>1, <1>2, <2>1
<1>36. CASE Leave
  BY <1>36 DEF Leave, Counts
<1>37. CASE Interrupted
  <2>1. PICK k : k = run.faults + 1
    OBVIOUS
  <2> QED
    BY <1>37, <2>1 DEF Interrupted, Counts
<1>38. CASE Killed
  <2>1. PICK k : k = run.faults + 1
    OBVIOUS
  <2> QED
    BY <1>38, <2>1 DEF Killed, Counts
<1> QED
  BY <1>3, <1>4, <1>5, <1>6, <1>7, <1>8, <1>9, <1>10, <1>11, <1>12, <1>13, <1>14, <1>15, <1>16,
     <1>17, <1>18, <1>19, <1>20, <1>21, <1>22, <1>23, <1>24, <1>25, <1>26, <1>27, <1>28, <1>29,
     <1>30, <1>31, <1>32, <1>33, <1>34, <1>35, <1>36, <1>37, <1>38 DEF BootNext

LEMMA UntroubledBegins == BootInit => UntroubledInv
<1> SUFFICES ASSUME BootInit PROVE Untroubled
  BY DEF UntroubledInv
<1>1. gpu.name /\ gpu.bars /\ gpu.decode /\ ~gpu.region /\ at.pc = "none" /\ ~dev.was_up
  BY DEF BootInit
<1>2. ~drv.booted /\ ~drv.exec_ready /\ ~drv.restored
  BY DEF BootInit, Fresh
<1> QED
  BY <1>1, <1>2 DEF Untroubled, Mastered, Serving

LEMMA UntroubledStays ==
    ASSUME BInv, UntroubledInv, [BootNext]_bootVars
    PROVE  UntroubledInv'
<1> SUFFICES ASSUME run'.faults = 0, Fits' PROVE Untroubled'
  BY DEF UntroubledInv
<1>1. model' = model /\ Fits
  <2>1. model \in Models /\ IsSpot(at) /\ NamedInv
    BY DEF BInv, BootTypeOK
  <2>2. model' = model
    BY <2>1, NamedKeeps
  <2> QED
    BY <2>2 DEF Fits
<1>2. CASE BootNext
  <2>1. run \in Counts
    BY DEF BInv, BootTypeOK
  <2>2. ~Fault
    BY <2>1 DEF Fault, Counts
  <2>3. run.faults = 0
    <3>1. run.faults \in Nat
      BY <2>1 DEF Counts
    <3> QED
      BY <1>2, <2>1, <3>1, FaultsAdd
  <2> QED
    BY <1>1, <1>2, <2>2, <2>3, LeadsOn DEF UntroubledInv
<1>3. CASE UNCHANGED bootVars
  BY <1>1, <1>3 DEF bootVars, UntroubledInv, Untroubled
<1> QED
  BY <1>2, <1>3

(***************************************************************************)
(* The theorems.                                                           *)
(***************************************************************************)

LEMMA BootBegins == BootInit => BInv
<1> SUFFICES ASSUME BootInit PROVE BInv
  OBVIOUS
<1>1. BootTypeOK
  <2>1. gpu \in Cards /\ dev \in Notes /\ run \in Counts /\ IsSpot(at)
    BY DEF BootInit, Cards, Notes, Counts, IsSpot
  <2>2. model \in Models
    BY DEF BootInit, Models
  <2>3. drv \in Flags /\ image \in Slots
    BY DEF BootInit, Flags, Slots, Fresh, NoImage
  <2> QED
    BY <2>1, <2>2, <2>3 DEF BootTypeOK
<1>2. ColdInv
  BY DEF BootInit, ColdInv
<1>3. NamedInv
  BY DEF BootInit, NamedInv, NamedAt
<1> QED
  BY <1>1, <1>2, <1>3 DEF BInv

LEMMA BootStays == BInv /\ [BootNext]_bootVars => BInv'
<1> SUFFICES ASSUME BInv, [BootNext]_bootVars PROVE BInv'
  OBVIOUS
<1>1. BootTypeOK'
  BY TypeKeeps DEF BInv
<1>2. ColdInv'
  <2>1. gpu \in Cards /\ dev \in Notes /\ IsSpot(at) /\ ColdInv
    BY DEF BInv, BootTypeOK
  <2> QED
    BY <2>1, ColdKeeps
<1>3. NamedInv'
  <2>1. model \in Models /\ IsSpot(at) /\ NamedInv
    BY DEF BInv, BootTypeOK
  <2> QED
    BY <2>1, NamedKeeps
<1> QED
  BY <1>1, <1>2, <1>3 DEF BInv

\* In every state of every sequence of processes the card is what the place
\* the process is at says it is, and what that place may name is made
THEOREM BootInvariant == BootSpec => []BInv
BY BootBegins, BootStays, PTL DEF BootSpec

\* A firmware is only ever started (PlaceRegion, ChainOfTrust) on a card with
\* no region up and no other firmware in it, whatever the last process, a
\* reset that did nothing or an attempt that was given up left behind
THEOREM BootColdStart == BootSpec => ColdBeforeBoot
<1>1. BInv /\ [BootNext]_bootVars =>
          [(at.pc = "start" /\ at'.pc \in {"booter", "attach"}) =>
               ~gpu.region /\ gpu.fw = "none"]_bootVars
  BY DEF BInv, ColdInv
<1> QED
  BY <1>1, BootInvariant, PTL DEF BootSpec, ColdBeforeBoot

\* The driver gives back the memory of a running firmware (tinynv_gpu_close,
\* unmake_boot) only when the card is not a bus master, or as the process
\* that held it ends
THEOREM BootReleasedOutOfReach == BootSpec => ReleasedOutOfReach
<1> DEFINE Safe == ("firmware" \in adrift' \ adrift) => (~gpu.master \/ at'.pc = "none")
<1>1. ASSUME BInv, [BootNext]_bootVars PROVE Safe
  <2>1. /\ UnchangedSoft => adrift' = adrift
        /\ UnchangedDriver => adrift' = adrift
        /\ BootFails => adrift' = adrift
        /\ Refuses => adrift' = adrift
        /\ UnloadStops => adrift' = adrift
        /\ \A g : PutDown(g) => adrift' = adrift
        /\ \A how : Gone(how) => at'.pc = "none"
    <3>1. UnchangedSoft => adrift' = adrift
      BY DEF UnchangedSoft
    <3>2. UnchangedDriver => adrift' = adrift
      BY <3>1 DEF UnchangedDriver
    <3>3. BootFails => adrift' = adrift
      BY <3>1 DEF BootFails
    <3>4. Refuses => adrift' = adrift
      BY <3>2 DEF Refuses
    <3>5. UnloadStops => adrift' = adrift
      BY <3>2 DEF UnloadStops
    <3>6. \A g : PutDown(g) => adrift' = adrift
      BY <3>1 DEF PutDown
    <3>7. \A how : Gone(how) => at'.pc = "none"
      BY DEF Gone
    <3> QED
      BY <3>1, <3>2, <3>3, <3>4, <3>5, <3>6, <3>7
  <2>2. ASSUME adrift' = adrift PROVE Safe
    BY <2>2
  <2>3. CASE Open
    BY <2>1, <2>2, <2>3 DEF Open
  <2>4. CASE WarmReset
    <3>1. adrift' = adrift \/ adrift' = {}
      BY <2>1, <2>4 DEF WarmReset, NotAdrift
    <3> QED
      BY <3>1
  <2>5. CASE Enable
    BY <2>1, <2>2, <2>5 DEF Enable
  <2>6. CASE SecondLook
    BY <2>1, <2>2, <2>6 DEF SecondLook
  <2>7. CASE Identify
    BY <2>1, <2>2, <2>7 DEF Identify
  <2>8. CASE WalkPlan
    BY <2>1, <2>2, <2>8 DEF WalkPlan
  <2>9. CASE PlanRefused
    BY <2>1, <2>2, <2>9 DEF PlanRefused
  <2>10. CASE PlaceRegion
    BY <2>1, <2>2, <2>10 DEF PlaceRegion
  <2>11. CASE BooterLoad
    BY <2>1, <2>2, <2>11 DEF BooterLoad
  <2>12. CASE ChainOfTrust
    BY <2>1, <2>2, <2>12 DEF ChainOfTrust
  <2>13. CASE Attach
    BY <2>1, <2>2, <2>13 DEF Attach
  <2>14. CASE Notice
    BY <2>1, <2>2, <2>14 DEF Notice
  <2>15. CASE WindowsBack
    BY <2>1, <2>2, <2>15 DEF WindowsBack
  <2>16. CASE NoNotice
    BY <2>1, <2>2, <2>16 DEF NoNotice
  <2>17. CASE NoticeFails
    BY <2>1, <2>2, <2>17 DEF NoticeFails
  <2>18. CASE Settle
    BY <2>1, <2>2, <2>18 DEF Settle
  <2>19. CASE Undo
    <3>1. adrift' = adrift \/ adrift' = {}
      BY <2>1, <2>19 DEF Undo, NotAdrift
    <3> QED
      BY <3>1
  <2>20. CASE Undone
    <3>1. ~Alive(gpu)
      BY <1>1, <2>20 DEF Undone, BInv, ColdInv, Alive
    <3> QED
      BY <2>20, <3>1 DEF Undone, Release
  <2>21. CASE CarveoutCheck
    BY <2>1, <2>2, <2>21 DEF CarveoutCheck
  <2>22. CASE ExecInit
    BY <2>1, <2>2, <2>22 DEF ExecInit
  <2>23. CASE Submit
    BY <2>1, <2>2, <2>23 DEF Submit
  <2>24. CASE EngineDone
    BY <2>1, <2>2, <2>24 DEF EngineDone
  <2>25. CASE LoseWindows
    BY <2>1, <2>2, <2>25 DEF LoseWindows
  <2>26. CASE Exit
    BY <2>1, <2>2, <2>26 DEF Exit
  <2>27. ASSUME NEW broken \in BOOLEAN, Signal(broken) PROVE Safe
    BY <2>1, <2>2, <2>27 DEF Signal
  <2>28. CASE Idle
    BY <2>1, <2>2, <2>28 DEF Idle
  <2>29. CASE ExecFini
    BY <2>29 DEF ExecFini, Release
  <2>30. CASE UnloadPrepare
    BY <2>1, <2>2, <2>30 DEF UnloadPrepare
  <2>31. CASE GspUnload
    BY <2>1, <2>2, <2>31 DEF GspUnload
  <2>32. CASE FwsecSb
    BY <2>1, <2>2, <2>32 DEF FwsecSb
  <2>33. CASE BooterUnload
    BY <2>1, <2>2, <2>33 DEF BooterUnload
  <2>34. CASE Quiesce
    BY <2>1, <2>2, <2>34 DEF Quiesce
  <2>35. CASE Fini
    BY <1>1, <2>35 DEF Fini, BInv, ColdInv
  <2>36. CASE Leave
    BY <2>1, <2>36 DEF Leave
  <2>37. CASE Interrupted
    BY <2>1, <2>37 DEF Interrupted
  <2>38. CASE Killed
    BY <2>1, <2>38 DEF Killed
  <2>39. CASE UNCHANGED bootVars
    BY <2>2, <2>39 DEF bootVars
  <2> QED
    BY <1>1, <2>3, <2>4, <2>5, <2>6, <2>7, <2>8, <2>9, <2>10, <2>11, <2>12, <2>13, <2>14, <2>15,
       <2>16, <2>17, <2>18, <2>19, <2>20, <2>21, <2>22, <2>23, <2>24, <2>25, <2>26, <2>27,
       <2>28, <2>29, <2>30, <2>31, <2>32, <2>33, <2>34, <2>35, <2>36, <2>37, <2>38,
                <2>39 DEF BootNext
<1>2. BInv /\ [BootNext]_bootVars => [Safe]_bootVars
  BY <1>1
<1> QED
  BY <1>2, BootInvariant, PTL DEF BootSpec, ReleasedOutOfReach

\* What the firmware, or a later step of the driver, is given the address or
\* the handle of is made by then: in placing (gpu_init_sw), at the start
\* (the chain of trust's message) and in setting up (RmSetup), for both ways
\* to boot and every size of the images
THEOREM BootNamesWhatIsThere == BootSpec => []NamedWhatIsThere
<1>1. BInv => NamedWhatIsThere
  BY DEF BInv, NamedInv, NamedAt, NamedWhatIsThere
<1> QED
  BY <1>1, BootInvariant, PTL

\* The driver's own checks refuse nothing that fits: while no step was refused
\* and no signal came, a boot that was begun comes up, with either way to
\* boot, every image in Fits and every rounding of the region, and a card that
\* was put down in order is found without a region, except on the chain of
\* trust's path
THEOREM BootOnlyAFaultCosts == BootSpec => []OnlyAFaultCostsABoot
<1>1. BootInit => BInv /\ UntroubledInv
  BY BootBegins, UntroubledBegins
<1>2. BInv /\ UntroubledInv /\ [BootNext]_bootVars => (BInv /\ UntroubledInv)'
  BY BootStays, UntroubledStays
<1>3. UntroubledInv => OnlyAFaultCostsABoot
  BY DEF UntroubledInv, Untroubled, OnlyAFaultCostsABoot
<1> QED
  BY <1>1, <1>2, <1>3, PTL DEF BootSpec

=============================================================================
