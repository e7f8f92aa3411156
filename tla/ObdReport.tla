------------------------------ MODULE ObdReport ------------------------------
(***************************************************************************)
(* The OBD part of a datagram, byte by byte: the car splits each answer    *)
(* into CAN frames (ISO 15765-2), the tracker appends the frames' bytes to *)
(* vehicle_data (Firmware/tracker/src/main.c), and the listener cuts the   *)
(* bytes it received back into entries and decodes them                    *)
(* (Backend/UDP-Listener/server.py).  Nothing but the length byte of each  *)
(* entry separates it from the next one.                                   *)
(*                                                                         *)
(* No frame is lost or late (module Tracker is about that), but the control *)
(* units that answer for one PID send their frames between those of one    *)
(* another.                                                                *)
(***************************************************************************)
EXTENDS Integers, Sequences, SequencesExt

CONSTANTS
    PIDs,       \* PID bytes main asks for
    Parameters, \* what decodePID makes of the answers, see below
    Data,       \* data bytes a control unit answers with
    MaxAnswers  \* bound: answers of one sweep

Live == 65      \* 0x41, the answer to service 01
Negative == 127 \* 0x7F, the car refuses the request

\* A parameter is a value of data bytes from..to of the answer for a PID, given in every
\* answer (flag 0) or only if the first data byte has the bit flag.  Parameters that
\* decodePID always derives from the same bytes count as one.
ASSUME ObdReportAssumption ==
    /\ PIDs \subseteq 0..255
    /\ Parameters \subseteq [pid : 0..255, flag : {0, 1, 2}, from : Nat \ {0}, to : Nat \ {0}]
    /\ \A d \in Data : /\ d \in Seq(0..255) /\ Len(d) \in 1..253
    /\ MaxAnswers \in Nat

\* What a control unit answers: service, PID and data.
LiveAnswer(p, d) == <<Live, p>> \o d
Answer == {LiveAnswer(p, d) : p \in PIDs, d \in Data} \union {<<Negative, 1, 18>>}

VARIABLES
    answers,       \* the answers of the sweep, in the order the tracker meets them
    asked,         \* the PID each of them answers
    currentPID,    \* the PID main asked for last, -1 before the first
    taken,         \* how many frames of each answer main has handled
    begins,        \* history: bytes in front of each answer main has begun to handle
    vehicle_data,  \* bytes appended so far
    MFL,           \* bytes of a multi-frame answer still to come
    lpc,           \* "sweep", "parse", "stored" or "dropped"
    i,             \* the listener's index, 0-based
    entries,       \* history: obdPID of each round of its loop
    decoded        \* decoded_data: parameter -> the bytes its value is made of

carVars == <<answers, asked>>
sweepVars == <<currentPID, taken, begins, vehicle_data, MFL>>
listenerVars == <<i, entries, decoded>>
vars == <<carVars, sweepVars, lpc, listenerVars>>

-----------------------------------------------------------------------------
(* The car: single, first and consecutive frames; only the first byte of the data *)
(* and the bytes that are not padding matter.                                     *)

Padding == 170
Pad(bytes) == bytes \o [k \in 1..8 - Len(bytes) |-> Padding]

FramesOf(a) ==
    IF Len(a) <= 7 THEN << Pad(<<Len(a)>> \o a) >>
    ELSE LET rest == Len(a) - 6
             count == (rest + 6) \div 7
         IN  << <<16, Len(a)>> \o SubSeq(a, 1, 6) >> \o
             [k \in 1..count |->
                 Pad(<<32 + (k % 16)>> \o SubSeq(a, 7 * k, IF k = count THEN Len(a) ELSE 7 * k + 6))]

Init ==
    /\ answers \in SeqOf(Answer, MaxAnswers)
    /\ asked \in [DOMAIN answers -> PIDs]
    /\ \A k \in DOMAIN answers : answers[k][1] = Live => answers[k][2] = asked[k]
    /\ \A j, k \in DOMAIN answers : j < k => asked[j] <= asked[k]
    /\ currentPID = -1
    /\ taken = [k \in DOMAIN answers |-> 0]
    /\ begins = <<>>
    /\ vehicle_data = <<>>
    /\ MFL = 0
    /\ lpc = "sweep"
    /\ i = 0
    /\ entries = <<>>
    /\ decoded = <<>>

-----------------------------------------------------------------------------
(* The tracker's frame handling. *)

Bit(byte, b) == (byte \div b) % 2 = 1
FirstFrame(data) == Bit(data[1], 16)
ConsecutiveFrame(data) == ~FirstFrame(data) /\ Bit(data[1], 32)

\* main has everything the car answers to the current PID: k_msgq_get times out.
Drained == \A k \in DOMAIN answers : asked[k] = currentPID => taken[k] = Len(FramesOf(answers[k]))

\* The next PID of the table is asked for on every format it is supported on, before
\* any frame of its answers is handled.
RequestPID ==
    /\ lpc = "sweep" /\ Drained
    /\ \E p \in PIDs : /\ p > currentPID
                       /\ \A q \in PIDs : q > currentPID => p <= q
                       /\ currentPID' = p
    /\ MFL' = 0
    /\ UNCHANGED <<carVars, taken, begins, vehicle_data, lpc, listenerVars>>

\* k_msgq_get may return the next frame of any answer to the current PID.
Comes(k) ==
    /\ lpc = "sweep"
    /\ asked[k] = currentPID
    /\ taken[k] < Len(FramesOf(answers[k]))
    /\ taken[k] = 0 => k = Len(begins) + 1
FrameOf(k) == FramesOf(answers[k])[taken[k] + 1]

Take(k, bytes) ==
    /\ taken' = [taken EXCEPT ![k] = @ + 1]
    /\ begins' = IF taken[k] = 0 THEN Append(begins, Len(vehicle_data)) ELSE begins
    /\ vehicle_data' = vehicle_data \o bytes
    /\ UNCHANGED <<carVars, currentPID, lpc, listenerVars>>

\* Mutant: a first frame starts the report anew.
AppendFirstResets ==
    \E k \in DOMAIN answers :
        /\ Comes(k) /\ FirstFrame(FrameOf(k))
        /\ MFL' = FrameOf(k)[2] - 6
        /\ taken' = [taken EXCEPT ![k] = @ + 1]
        /\ begins' = Append(begins, Len(vehicle_data))
        /\ vehicle_data' = SubSeq(FrameOf(k), 3, 8)
        /\ UNCHANGED <<carVars, currentPID, lpc, listenerVars>>

\* Mutant: the six bytes of the first frame are not subtracted.
AppendFirstForgets ==
    \E k \in DOMAIN answers :
        /\ Comes(k) /\ FirstFrame(FrameOf(k))
        /\ MFL' = FrameOf(k)[2]
        /\ Take(k, SubSeq(FrameOf(k), 3, 8))

\* The length byte goes to udp_data, which the next report overwrites; six bytes are kept.
AppendFirst ==
    \E k \in DOMAIN answers :
        /\ Comes(k) /\ FirstFrame(FrameOf(k))
        /\ MFL' = FrameOf(k)[2] - 6
        /\ Take(k, SubSeq(FrameOf(k), 3, 8))

\* MFL is that of the first frame handled last, whichever answer this frame belongs to.
AppendConsecutive ==
    \E k \in DOMAIN answers :
        /\ Comes(k) /\ ConsecutiveFrame(FrameOf(k))
        /\ LET bytesToGet == IF MFL < 7 THEN MFL ELSE 7 IN
              /\ MFL' = MFL - bytesToGet
              /\ Take(k, SubSeq(FrameOf(k), 2, bytesToGet + 1))

\* A single frame: the length byte and that many bytes.
AppendSingle ==
    \E k \in DOMAIN answers :
        /\ Comes(k) /\ ~FirstFrame(FrameOf(k)) /\ ~ConsecutiveFrame(FrameOf(k))
        /\ UNCHANGED MFL
        /\ Take(k, SubSeq(FrameOf(k), 1, FrameOf(k)[1] + 1))

\* The sweep is over and its datagram reaches the listener.
Deliver ==
    /\ lpc = "sweep" /\ Drained
    /\ \A p \in PIDs : p <= currentPID
    /\ lpc' = "parse"
    /\ UNCHANGED <<carVars, sweepVars, listenerVars>>

-----------------------------------------------------------------------------
(* The listener's loop over clientOBD. *)

n == Len(vehicle_data)

\* Mutant: the length byte is taken to count itself.
DataLenShort == IF vehicle_data[i + 1] < n - i THEN vehicle_data[i + 1] ELSE n - i

\* datalen: the entry with its length byte, at most what is left.
DataLen == IF vehicle_data[i + 1] + 1 < n - i THEN vehicle_data[i + 1] + 1 ELSE n - i

ObdPID == SubSeq(vehicle_data, i + 1, i + DataLen)

\* decodePID decodes only answers of service 01, to a PID it has parameters for.
Known(entry) == Len(entry) >= 3 /\ entry[2] = Live
Knows(entry, q) == Known(entry) /\ q.pid = entry[3]

\* Whether q is in the answer, and the last data byte decodePID reads to find that out and
\* to compute it.
Has(entry, q) == q.flag = 0 \/ (Len(entry) >= 4 /\ Bit(entry[4], q.flag))
LastRead(entry, q) == IF Has(entry, q) THEN q.to ELSE 1

TooShort(entry) == \E q \in Parameters : Knows(entry, q) /\ Len(entry) < 3 + LastRead(entry, q)
Given(entry) == {q \in Parameters : Knows(entry, q) /\ Has(entry, q)}
ValueOf(entry, q) == SubSeq(entry, 3 + q.from, 3 + q.to)

\* Mutant: a later value of a parameter replaces an earlier one.
RememberLast(entry) ==
    decoded' = [q \in DOMAIN decoded \union Given(entry) |->
                  IF q \in Given(entry) THEN ValueOf(entry, q) ELSE decoded[q]]

\* The first value of a parameter stays, a different later one is only reported.
Remember(entry) ==
    decoded' = [q \in DOMAIN decoded \union Given(entry) |->
                  IF q \in DOMAIN decoded THEN decoded[q] ELSE ValueOf(entry, q)]

NextEntry ==
    /\ lpc = "parse" /\ i < n
    /\ ~TooShort(ObdPID)
    /\ i' = i + DataLen
    /\ entries' = Append(entries, ObdPID)
    /\ Remember(ObdPID)
    /\ UNCHANGED <<carVars, sweepVars, lpc>>

\* IndexError in decodePID: the handler drops the whole datagram.
EntryTooShort ==
    /\ lpc = "parse" /\ i < n
    /\ TooShort(ObdPID)
    /\ lpc' = "dropped"
    /\ UNCHANGED <<carVars, sweepVars, listenerVars>>

EndOfData ==
    /\ lpc = "parse" /\ i >= n
    /\ lpc' = "stored"
    /\ UNCHANGED <<carVars, sweepVars, listenerVars>>

Next ==
    \/ RequestPID \/ AppendFirst \/ AppendConsecutive \/ AppendSingle \/ Deliver
    \/ NextEntry \/ EntryTooShort \/ EndOfData

Spec == Init /\ [][Next]_vars

-----------------------------------------------------------------------------
Framed(a) == <<Len(a)>> \o a

\* "6 bytes of information for this packet (not including this byte)" (Backend/UDP-Client/
\* README.md 32): the listener gets back exactly the answers of the car, each behind its
\* length (main.c 423-463, server.py 311-317).
FramingExact ==
    lpc = "stored" => entries = [k \in DOMAIN answers |-> Framed(answers[k])]

Multi(k) == Len(answers[k]) > 7
AllSingle == \A k \in DOMAIN answers : ~Multi(k)

\* The answers before the first one of several frames reach the listener whatever comes
\* after them, in order and unchanged.
PrefixIntact ==
    lpc = "stored" =>
        \A k \in DOMAIN answers :
            (\A j \in 1..k : ~Multi(j)) => k \in DOMAIN entries /\ entries[k] = Framed(answers[k])

\* What the tracker keeps of an answer: the length of a long one goes elsewhere.
Kept(k) == IF Multi(k) THEN answers[k] ELSE Framed(answers[k])

\* Where answer k + 1 begins in the report.
Start(k) == IF k < Len(answers) THEN begins[k + 1] ELSE Len(vehicle_data)

\* An answer main takes while a long one to the same PID is not complete disturbs both.
Undisturbed(k) ==
    \A j \in DOMAIN answers \ {k} :
        asked[j] = asked[k] => IF j < k THEN ~Multi(j) ELSE ~Multi(k)

\* Control units that answer for one PID at the same time, one of them at length, spoil
\* one another's bytes and nothing else: from where any other answer begins to where the
\* next one does, the report holds all of it, in order, and no byte besides (main.c
\* 421-464).
UndisturbedWhole ==
    lpc = "parse" =>
        \A k \in DOMAIN answers :
            Undisturbed(k) => SubSeq(vehicle_data, Start(k - 1) + 1, Start(k)) = Kept(k)

\* When several control units answer for a parameter, the row holds the value of the first
\* answer that gives it, made of that answer's own bytes, in a report of single frames
\* (server.py 186-216, 327-334).
FirstAnswerWins ==
    lpc = "stored" /\ AllSingle =>
        \A q \in Parameters :
            LET gives == {k \in DOMAIN answers : q \in Given(Framed(answers[k]))}
            IN  /\ q \in DOMAIN decoded <=> gives # {}
                /\ \A k \in gives : (\A j \in gives : k <= j)
                                        => decoded[q] = ValueOf(Framed(answers[k]), q)

\* A report of single frames is given up only for an answer that lacks, by itself, a byte
\* decodePID reads: no entry is cut short by its neighbours (server.py 314-321, 352).
DroppedForCause ==
    lpc = "dropped" /\ AllSingle => \E k \in DOMAIN answers : TooShort(Framed(answers[k]))
=============================================================================
