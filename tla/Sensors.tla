------------------------------ MODULE Sensors ------------------------------
(***************************************************************************)
(* The card's readings (libtinynv/src/gsp.c, tinynv.c): a block of host    *)
(* memory the firmware keeps writing, read without asking it, and written  *)
(* to a file for other processes by whichever thread synchronises.  Fields *)
(* are read and written one by one, so one of two words stands for all.    *)
(***************************************************************************)
EXTENDS Integers

CONSTANTS
    Publishers,     \* threads
    SeqStart,       \* TINYNV_RUSD_SEQ_START
    Tries,          \* times a field is read before it is left out (10)
    MaxUpdates      \* bound: updates by the firmware

ASSUME SensorsAssumption ==
    /\ {SeqStart, Tries, MaxUpdates} \subseteq Nat \ {0} /\ SeqStart % 2 = 0

VARIABLES
    armed,          \* rusd_armed
    block,          \* the field, as it is in memory
    updating,       \* the words the firmware has still to write, or not at it
    busy,           \* publish_sensors' flag
    publisher,      \* where each thread is, and what it has read
    tmp, file       \* the file being written and the one that is read

sensorVars == <<armed, block, updating, busy, publisher, tmp, file>>

Words == {"first", "second"}
Blank == [seq |-> 0, first |-> 0, second |-> 0]
AtRest == [at |-> "rest", seq |-> 0, left |-> 0, words |-> {}, out |-> Blank]
NoFile == [lines |-> 0, reading |-> Blank]   \* two lines make a whole one

SensorsInit ==
    /\ armed = "no" /\ block = Blank /\ updating = {"nothing"} /\ busy = FALSE
    /\ publisher = [t \in Publishers |-> AtRest] /\ tmp = NoFile /\ file = NoFile

\* tinynv_gsp_sensors_init: the object may be refused, the two controls not
SensorsArm ==
    /\ armed = "no" /\ \E controls \in {"armed", "refused"} : armed' = controls
    /\ UNCHANGED <<block, updating, busy, publisher, tmp, file>>

(***************************************************************************)
(* The firmware: an odd number while it writes, an even one after.         *)
(***************************************************************************)
UpdateBegins ==
    /\ armed = "armed" /\ updating = {"nothing"} /\ block.seq < SeqStart + 2 * MaxUpdates
    /\ block' = [block EXCEPT !.seq = IF @ = 0 THEN SeqStart + 1 ELSE @ + 1]
    /\ updating' = Words
    /\ UNCHANGED <<armed, busy, publisher, tmp, file>>

UpdateWord(w) ==
    /\ w \in updating
    /\ block' = [block EXCEPT ![w] = block.seq + 1] /\ updating' = updating \ {w}
    /\ UNCHANGED <<armed, busy, publisher, tmp, file>>

UpdateEnds ==
    /\ updating = {}
    /\ block' = [block EXCEPT !.seq = @ + 1] /\ updating' = {"nothing"}
    /\ UNCHANGED <<armed, busy, publisher, tmp, file>>

(***************************************************************************)
(* publish_sensors.                                                        *)
(***************************************************************************)
Where(t, place) == publisher[t].at = place
Becomes(t, p) == publisher' = [publisher EXCEPT ![t] = p]
Place(t, place) == [publisher[t] EXCEPT !.at = place]

\* From tinynv_stream_flush and tinynv_stream_sync, if a quarter of a second
\* has passed: the flag is taken by one exchange
Publish(t) ==
    /\ Where(t, "rest") /\ armed = "armed" /\ ~ busy
    /\ busy' = TRUE /\ Becomes(t, [AtRest EXCEPT !.at = "read", !.left = Tries])
    /\ UNCHANGED <<armed, block, updating, tmp, file>>

rusd_seq_ok(seq) ==
    \/ seq < SeqStart /\ seq # 0
    \/ seq >= SeqStart /\ seq % 2 = 0

\* tinynv_gsp_sensors_read
ReadSeq(t) ==
    /\ Where(t, "read") /\ publisher[t].left > 0
    /\ Becomes(t, IF rusd_seq_ok(block.seq)
                  THEN [publisher[t] EXCEPT !.at = "copy", !.seq = block.seq,
                                            !.words = Words \cup {"seq"}]
                  ELSE [publisher[t] EXCEPT !.left = @ - 1])
    /\ UNCHANGED <<armed, block, updating, busy, tmp, file>>

CopyWord(t, w) ==
    /\ Where(t, "copy") /\ w \in publisher[t].words
    /\ Becomes(t, [publisher[t] EXCEPT !.words = @ \ {w}, !.out[w] = block[w]])
    /\ UNCHANGED <<armed, block, updating, busy, tmp, file>>

\* Mutant: the field is taken as it was copied
UnmovedMutant(seq) == TRUE
Unmoved(seq) == block.seq = seq

ReadAgain(t) ==
    /\ Where(t, "copy") /\ publisher[t].words = {}
    /\ Becomes(t, IF Unmoved(publisher[t].seq) THEN Place(t, "open")
                  ELSE [publisher[t] EXCEPT !.at = "read", !.left = @ - 1, !.out = Blank])
    /\ UNCHANGED <<armed, block, updating, busy, tmp, file>>

GivesFieldUp(t) ==
    /\ Where(t, "read") /\ publisher[t].left = 0
    /\ Becomes(t, Place(t, "open"))
    /\ UNCHANGED <<armed, block, updating, busy, tmp, file>>

\* The temporary file: made anew, or not, in which case nothing is published
OpenTmp(t) ==
    /\ Where(t, "open")
    /\ \/ tmp' = NoFile /\ Becomes(t, Place(t, "time")) /\ UNCHANGED busy
       \/ busy' = FALSE /\ Becomes(t, AtRest) /\ UNCHANGED tmp
    /\ UNCHANGED <<armed, block, updating, file>>

WriteTime(t) ==
    /\ Where(t, "time") /\ tmp' = [tmp EXCEPT !.lines = @ + 1] /\ Becomes(t, Place(t, "values"))
    /\ UNCHANGED <<armed, block, updating, busy, file>>

\* A field never written is left out
WriteValues(t) ==
    /\ Where(t, "values") /\ Becomes(t, Place(t, "rename"))
    /\ tmp' = [lines |-> tmp.lines + 1, reading |-> publisher[t].out]
    /\ UNCHANGED <<armed, block, updating, busy, file>>

Rename(t) ==
    /\ Where(t, "rename") /\ file' = tmp /\ tmp' = NoFile /\ Becomes(t, Place(t, "leave"))
    /\ UNCHANGED <<armed, block, updating, busy>>

StopBeingBusy(t) ==
    /\ Where(t, "leave") /\ busy' = FALSE /\ Becomes(t, AtRest)
    /\ UNCHANGED <<armed, block, updating, tmp, file>>

SensorsNext ==
    \/ SensorsArm \/ UpdateBegins \/ UpdateEnds \/ \E w \in Words : UpdateWord(w)
    \/ \E t \in Publishers :
        \/ Publish(t) \/ ReadSeq(t) \/ ReadAgain(t) \/ GivesFieldUp(t)
        \/ \E w \in Words \cup {"seq"} : CopyWord(t, w)
        \/ OpenTmp(t) \/ WriteTime(t) \/ WriteValues(t) \/ Rename(t) \/ StopBeingBusy(t)

SensorsSpec == SensorsInit /\ [][SensorsNext]_sensorVars

-----------------------------------------------------------------------------
\* What another process reads is a file written to its end by one thread, and
\* a reading in it is one the firmware finished, both words of one update
\* (gsp.c:844-871, tinynv.c:1045-1047).
PublishedIsWhole ==
    LET r == file.reading
    IN  \/ file = NoFile
        \/ /\ file.lines = 2
           /\ r # Blank => r.first = r.seq /\ r.second = r.seq /\ rusd_seq_ok(r.seq)
=============================================================================
