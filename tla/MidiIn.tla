-------------------------------- MODULE MidiIn --------------------------------
(***************************************************************************)
(* The MIDI In device of the Windows driver.  The application opens it,    *)
(* lends it buffers and starts and stops recording; the rendering thread   *)
(* sends the dumps that the synth answers requests with, which are split   *)
(* over the buffers and handed to the application by a callback.           *)
(*                                                                         *)
(* The driver's queue of buffers is a linked list through the headers,     *)
(* source.lpQueueHdr and lpNext, and a header on it need not be marked     *)
(* MHDR_INQUEUE.  midiInLock guards the list and the pending dumps, but    *)
(* not every test of them.                                                 *)
(*                                                                         *)
(* The bytes of all dumps, in the order in which they are sent, are        *)
(* numbered: a dump or the content of a buffer is an interval of them.     *)
(* Tests of device ids, pointers and sizes, and time stamps, are left out. *)
(***************************************************************************)
EXTENDS Naturals, Sequences

CONSTANTS
    Headers,            \* the application's MIDIHDRs
    NoHeader,           \* a NULL pointer
    BufferLength,       \* dwBufferLength of each header
    DumpLengths,        \* lengths of dumps; messages of 1 to 3 bytes are short
    MaxBytes,           \* bound: bytes sent in dumps in any session
    Sessions,           \* bound: which headers an application uses, how many
                        \* bytes it is sent, whether it stops or closes the device
    MayRecycle          \* whether it uses a buffer again that it got back

ASSUME MidiInAssumption ==
    /\ NoHeader \notin Headers
    /\ BufferLength \in [Headers -> Nat \ {0}]
    /\ DumpLengths \subseteq Nat \ {0}
    /\ MaxBytes \in Nat
    /\ Sessions \subseteq [headers : SUBSET Headers, bytes : 0 .. MaxBytes,
                           mayStop : BOOLEAN]
    /\ MayRecycle \in BOOLEAN

Threads == {"app", "render"}
Nobody == "nobody"

VARIABLES
    session,
    opened,             \* source.midiDesc.hMidi is not 0
    recording,          \* source.state
    stopped,            \* the application has ever stopped or closed the device
    lpQueueHdr,
    lpNext,
    prepared,           \* headers with MHDR_PREPARED
    inQueue,            \* headers with MHDR_INQUEUE
    content,            \* what each header's buffer holds, as an interval
    pPendingData,       \* the dumps with the bytes still to hand over
    sentBytes,          \* bytes in all dumps so far
    midiInLock,         \* the thread inside the critical section
    pc,                 \* where each thread is
    pHdr,               \* the header each thread is at in the list
    lpMidiHdr,          \* the header that is being added
    received,           \* what the application received, as intervals
    calledClosed        \* the driver has called back a closed device

sourceVars == <<session, opened, recording, stopped>>
listVars == <<lpQueueHdr, lpNext>>
flagVars == <<prepared, inQueue>>
dataVars == <<content, pPendingData, sentBytes, received>>
threadVars == <<midiInLock, pc, pHdr, lpMidiHdr>>
vars == <<sourceVars, listVars, flagVars, dataVars, threadVars, calledClosed>>

Interval == {i \in [first : 1 .. MaxBytes, last : 1 .. MaxBytes] :
                i.first <= i.last}
Nothing == [first |-> 1, last |-> 0]
Length(interval) == interval.last + 1 - interval.first

Init ==
    /\ session \in Sessions
    /\ opened = FALSE
    /\ recording = FALSE
    /\ stopped = FALSE
    /\ lpQueueHdr = NoHeader
    /\ lpNext = [h \in Headers |-> NoHeader]
    /\ prepared = {}
    /\ inQueue = {}
    /\ content = [h \in Headers |-> Nothing]
    /\ pPendingData = <<>>
    /\ sentBytes = 0
    /\ midiInLock = Nobody
    /\ pc = [t \in Threads |-> "idle"]
    /\ pHdr = [t \in Threads |-> NoHeader]
    /\ lpMidiHdr = NoHeader
    /\ received = <<>>
    /\ calledClosed = FALSE

Goes(t, from, to) ==
    /\ pc[t] = from
    /\ pc' = [pc EXCEPT ![t] = to]

Idle == pc["app"] = "idle"

\* midCallback()
Callback == calledClosed' = (calledClosed \/ ~opened)

\* A buffer is the driver's from when it is added until it is handed back.  An
\* application that does not recycle its buffers leaves it at that.
MayUse(h) == MayRecycle \/ content[h] = Nothing

-----------------------------------------------------------------------------
(* midMessage(): the calls that need no lock *)

MidOpen ==
    /\ Idle
    /\ ~opened
    /\ opened' = TRUE
    /\ recording' = FALSE
    /\ lpQueueHdr' = NoHeader
    /\ UNCHANGED <<session, stopped, lpNext, flagVars, dataVars, threadVars,
                   calledClosed>>

\* MIDIERR_STILLPLAYING unless the list is empty.  source.state is kept.
MidClose ==
    /\ session.mayStop
    /\ Idle
    /\ opened
    /\ lpQueueHdr = NoHeader
    /\ opened' = FALSE
    /\ stopped' = TRUE
    /\ UNCHANGED <<session, recording, listVars, flagVars, dataVars, threadVars,
                   calledClosed>>

MidStart ==
    /\ Idle
    /\ opened
    /\ recording' = TRUE
    /\ UNCHANGED <<session, opened, stopped, listVars, flagVars, dataVars,
                   threadVars, calledClosed>>

MidStop ==
    /\ session.mayStop
    /\ Idle
    /\ opened
    /\ recording' = FALSE
    /\ stopped' = TRUE
    /\ UNCHANGED <<session, opened, listVars, flagVars, dataVars, threadVars,
                   calledClosed>>

MidPrepare(h) ==
    /\ Idle
    /\ opened
    /\ h \notin prepared
    /\ MayUse(h)
    /\ prepared' = prepared \union {h}
    /\ inQueue' = inQueue \ {h}
    /\ lpNext' = [lpNext EXCEPT ![h] = NoHeader]
    /\ UNCHANGED <<sourceVars, lpQueueHdr, dataVars, threadVars, calledClosed>>

\* MIDIERR_STILLPLAYING for a header marked MHDR_INQUEUE.
MidUnprepare(h) ==
    /\ Idle
    /\ opened
    /\ h \in prepared \ inQueue
    /\ prepared' = prepared \ {h}
    /\ UNCHANGED <<sourceVars, listVars, inQueue, dataVars, threadVars,
                   calledClosed>>

-----------------------------------------------------------------------------
(* midAddBuffer() *)

\* The tests at its beginning: MIDIERR_STILLPLAYING, MIDIERR_UNPREPARED.
AddBuffer(h) ==
    /\ opened
    /\ h \in prepared \ inQueue
    /\ MayUse(h)
    /\ Goes("app", "idle", "add")
    /\ lpMidiHdr' = h
    /\ UNCHANGED <<sourceVars, listVars, flagVars, dataVars, midiInLock, pHdr,
                   calledClosed>>

\* The header is marked before the list is looked at.
AddLocks ==
    /\ midiInLock = Nobody
    /\ midiInLock' = "app"
    /\ Goes("app", "add", "walk")
    /\ inQueue' = inQueue \union {lpMidiHdr}
    /\ content' = [content EXCEPT ![lpMidiHdr] = Nothing]
    /\ lpNext' = [lpNext EXCEPT ![lpMidiHdr] = NoHeader]
    /\ pHdr' = [pHdr EXCEPT !["app"] = lpQueueHdr]
    /\ UNCHANGED <<sourceVars, lpQueueHdr, prepared, pPendingData, sentBytes,
                   received, lpMidiHdr, calledClosed>>

\* ptr->lpNext != 0
AddWalks ==
    /\ pc["app"] = "walk"
    /\ pHdr["app"] # NoHeader
    /\ lpNext[pHdr["app"]] # NoHeader
    /\ pHdr' = [pHdr EXCEPT !["app"] = lpNext[@]]
    /\ UNCHANGED <<sourceVars, listVars, flagVars, dataVars, midiInLock, pc,
                   lpMidiHdr, calledClosed>>

\* Mutant: what is pending is not offered to the buffer just added.
AddLinksOnly ==
    /\ Goes("app", "walk", "idle")
    /\ midiInLock' = Nobody
    /\ IF pHdr["app"] = NoHeader
       THEN /\ lpQueueHdr' = lpMidiHdr
            /\ UNCHANGED lpNext
       ELSE /\ lpNext[pHdr["app"]] = NoHeader
            /\ lpNext' = [lpNext EXCEPT ![pHdr["app"]] = lpMidiHdr]
            /\ UNCHANGED lpQueueHdr
    /\ UNCHANGED <<sourceVars, flagVars, dataVars, pHdr, lpMidiHdr,
                   calledClosed>>

\* At the end of the list, or in an empty one.
AddLinks ==
    /\ Goes("app", "walk", "check")
    /\ midiInLock' = Nobody
    /\ IF pHdr["app"] = NoHeader
       THEN /\ lpQueueHdr' = lpMidiHdr
            /\ UNCHANGED lpNext
       ELSE /\ lpNext[pHdr["app"]] = NoHeader
            /\ lpNext' = [lpNext EXCEPT ![pHdr["app"]] = lpMidiHdr]
            /\ UNCHANGED lpQueueHdr
    /\ UNCHANGED <<sourceVars, flagVars, dataVars, pHdr, lpMidiHdr,
                   calledClosed>>

-----------------------------------------------------------------------------
(* midReset() hands back all buffers; it goes on recording. *)

ResetBegins ==
    /\ opened
    /\ midiInLock = Nobody
    /\ midiInLock' = "app"
    /\ Goes("app", "idle", "reset")
    /\ UNCHANGED <<sourceVars, listVars, flagVars, dataVars, pHdr, lpMidiHdr,
                   calledClosed>>

ResetReturns ==
    /\ pc["app"] = "reset"
    /\ lpQueueHdr # NoHeader
    /\ lpQueueHdr' = lpNext[lpQueueHdr]
    /\ inQueue' = inQueue \ {lpQueueHdr}
    /\ Callback
    /\ UNCHANGED <<sourceVars, lpNext, prepared, dataVars, threadVars>>

ResetEnds ==
    /\ lpQueueHdr = NoHeader
    /\ Goes("app", "reset", "idle")
    /\ midiInLock' = Nobody
    /\ UNCHANGED <<sourceVars, listVars, flagVars, dataVars, pHdr, lpMidiHdr,
                   calledClosed>>

-----------------------------------------------------------------------------
(* SendMidiData() *)

\* A message of 1 to 3 bytes goes to the application at once.
SendShort ==
    /\ pc["render"] = "idle"
    /\ recording
    /\ Callback
    /\ UNCHANGED <<sourceVars, listVars, flagVars, dataVars, threadVars>>

SendDump ==
    /\ \E length \in DumpLengths : sentBytes + length <= session.bytes
    /\ recording
    /\ Goes("render", "idle", "append")
    /\ UNCHANGED <<sourceVars, listVars, flagVars, dataVars, midiInLock, pHdr,
                   lpMidiHdr, calledClosed>>

AppendDump(length) ==
    /\ sentBytes + length <= session.bytes
    /\ midiInLock = Nobody
    /\ Goes("render", "append", "check")
    /\ sentBytes' = sentBytes + length
    /\ pPendingData' = Append(pPendingData,
                              [first |-> sentBytes + 1, last |-> sentBytes'])
    /\ UNCHANGED <<sourceVars, listVars, flagVars, content, received,
                   midiInLock, pHdr, lpMidiHdr, calledClosed>>

-----------------------------------------------------------------------------
(* ProcessPending(), at the end of midAddBuffer() and of SendMidiData() *)

\* Its first two tests take no lock.
CheckPending(t) ==
    /\ Goes(t, "check",
            IF recording /\ pPendingData # <<>> THEN "enter" ELSE "idle")
    /\ UNCHANGED <<sourceVars, listVars, flagVars, dataVars, midiInLock, pHdr,
                   lpMidiHdr, calledClosed>>

EnterPending(t) ==
    /\ midiInLock = Nobody
    /\ midiInLock' = t
    /\ Goes(t, "enter", "copy")
    /\ pHdr' = [pHdr EXCEPT ![t] = lpQueueHdr]
    /\ UNCHANGED <<sourceVars, listVars, flagVars, dataVars, lpMidiHdr,
                   calledClosed>>

\* What of the oldest dump fits into a buffer, and what remains of it.
Part(h) ==
    LET dump == Head(pPendingData)
    IN  IF BufferLength[h] >= Length(dump)
        THEN dump
        ELSE [dump EXCEPT !.last = dump.first + BufferLength[h] - 1]

\* Mutant: the bytes sent are not counted.
RemainingAll(h) ==
    IF BufferLength[h] >= Length(Head(pPendingData))
    THEN Tail(pPendingData)
    ELSE pPendingData

Remaining(h) ==
    IF BufferLength[h] >= Length(Head(pPendingData))
    THEN Tail(pPendingData)
    ELSE [pPendingData EXCEPT ![1].first = @ + BufferLength[h]]

\* A buffer is filled and sent back to the application; it stays in the list.
CopyPending(t) ==
    LET h == pHdr[t]
    IN  /\ pc[t] = "copy"
        /\ h # NoHeader
        /\ pPendingData # <<>>
        /\ content' = [content EXCEPT ![h] = Part(h)]
        /\ received' = Append(received, Part(h))
        /\ pPendingData' = Remaining(h)
        /\ inQueue' = inQueue \ {h}
        /\ pHdr' = [pHdr EXCEPT ![t] = lpNext[h]]
        /\ Callback
        /\ UNCHANGED <<sourceVars, listVars, prepared, sentBytes, midiInLock,
                       pc, lpMidiHdr>>

\* Mutant: the critical section is not left.
LeavePendingLocked(t) ==
    /\ pHdr[t] = NoHeader \/ pPendingData = <<>>
    /\ Goes(t, "copy", "idle")
    /\ UNCHANGED <<sourceVars, listVars, flagVars, dataVars, midiInLock, pHdr,
                   lpMidiHdr, calledClosed>>

LeavePending(t) ==
    /\ pHdr[t] = NoHeader \/ pPendingData = <<>>
    /\ Goes(t, "copy", "idle")
    /\ midiInLock' = Nobody
    /\ UNCHANGED <<sourceVars, listVars, flagVars, dataVars, pHdr, lpMidiHdr,
                   calledClosed>>

ProcessPending(t) ==
    \/ CheckPending(t)
    \/ EnterPending(t)
    \/ CopyPending(t)
    \/ LeavePending(t)

-----------------------------------------------------------------------------
App ==
    \/ MidOpen \/ MidClose \/ MidStart \/ MidStop
    \/ \E h \in session.headers : MidPrepare(h) \/ MidUnprepare(h) \/ AddBuffer(h)
    \/ ResetBegins

\* What a call does once it has begun.
AppCall ==
    \/ AddLocks \/ AddWalks \/ AddLinks
    \/ ResetReturns \/ ResetEnds
    \/ ProcessPending("app")

RenderCall ==
    \/ \E length \in DumpLengths : AppendDump(length)
    \/ ProcessPending("render")

Next == App \/ AppCall \/ SendShort \/ SendDump \/ RenderCall

Spec == Init /\ [][Next]_vars

\* A call goes on; a thread that waits for the critical section gets it.
FairSpec == Spec /\ SF_vars(AppCall) /\ SF_vars(RenderCall)

-----------------------------------------------------------------------------
(* Properties *)

\* Every variable has its type; in particular each part of a dump is an
\* interval that is not empty.
TypeOK ==
    /\ session \in Sessions
    /\ opened \in BOOLEAN
    /\ recording \in BOOLEAN
    /\ stopped \in BOOLEAN
    /\ lpQueueHdr \in Headers \union {NoHeader}
    /\ lpNext \in [Headers -> Headers \union {NoHeader}]
    /\ prepared \subseteq Headers
    /\ inQueue \subseteq Headers
    /\ content \in [Headers -> Interval \union {Nothing}]
    /\ pPendingData \in Seq(Interval)
    /\ sentBytes \in 0 .. MaxBytes
    /\ midiInLock \in Threads \union {Nobody}
    /\ pc \in [Threads -> {"idle", "add", "walk", "reset", "append", "check",
                           "enter", "copy"}]
    /\ pHdr \in [Threads -> Headers \union {NoHeader}]
    /\ lpMidiHdr \in Headers \union {NoHeader}
    /\ received \in Seq(Interval)
    /\ calledClosed \in BOOLEAN

\* The application receives the bytes of all dumps in the order in which they
\* were sent, each of them once and none left out, though dumps are split over
\* buffers and both threads hand them over; what it has not received is pending.
DumpsInOrder ==
    LET parts == received \o pPendingData
    IN  /\ \A i \in 1 .. Len(parts) :
              parts[i].first = IF i = 1 THEN 1 ELSE parts[i - 1].last + 1
        /\ parts # <<>> => parts[Len(parts)].last = sentBytes

\* No dump waits for a buffer while a buffer waits for a dump: when a buffer is
\* added while a dump is sent, one of the two threads sees both.  It is
\* promised to an application that has never stopped: midStart() processes nothing.
NothingWaits ==
    ~stopped /\ recording /\ (\A t \in Threads : pc[t] = "idle") =>
         pPendingData = <<>> \/ inQueue = {}

\* midiInAddBuffer() and midiInReset() return, and so does the rendering
\* thread: none of them walks the list of buffers for ever.
MidiInReturns == \A t \in Threads : pc[t] # "idle" ~> pc[t] = "idle"

\* "Send back to application": a buffer that was handed back belongs to the
\* application, the driver writes only to buffers marked MHDR_INQUEUE.
CopyIntoQueued ==
    \A t \in Threads :
        pc[t] = "copy" /\ pHdr[t] # NoHeader /\ pPendingData # <<>> =>
            pHdr[t] \in inQueue

\* "Is device open?": the driver calls back only an open device.
CallbacksWhenOpen == ~calledClosed
=============================================================================
