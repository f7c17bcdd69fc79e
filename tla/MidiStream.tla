----------------------------- MODULE MidiStream -----------------------------
(***************************************************************************)
(* What a parser of MIDI streams promises: the messages it passes on are   *)
(* those that reading the stream byte by byte yields, however the stream   *)
(* is divided into calls.  Specified by function Take for one byte; a step *)
(* reads as many bytes as it likes.  MidiStreamParser implements it.       *)
(*                                                                         *)
(* A system exclusive message of more than MaxSize bytes may be ignored.   *)
(***************************************************************************)
EXTENDS Naturals, Sequences

CONSTANTS
    Fragments,          \* bound: what one call gives to parse
    ShortMessages,      \* bound: messages given one by one
    MaxSize             \* MAX_STREAM_BUFFER_SIZE: 32768 in the code

VARIABLES
    stream,             \* what is left of the fragment
    message,            \* what was read of the current message
    runningStatus,      \* 0 if there is none
    received            \* what the call has passed on

vars == <<stream, message, runningStatus, received>>

SysEx == 240
EndOfSysEx == 247
IsData(b) == b < 128
IsRealtime(b) == b >= 248
IsStatus(b) == ~IsData(b) /\ ~IsRealtime(b)
IsVoice(b) == b \in 128 .. 239

\* Synth::getShortMessageLength
ShortMessageLength(status) ==
    CASE status \in {241, 243} \union 192 .. 223 -> 2
      [] status \in {242} \union 128 .. 191 \union 224 .. 239 -> 3
      [] OTHER -> 1

RunningAfter(status) == IF IsVoice(status) THEN status ELSE 0

Complete(m) ==
    m # <<>> /\ m[1] # SysEx /\ Len(m) = ShortMessageLength(m[1])

Init ==
    /\ stream = <<>>
    /\ message = <<>>
    /\ runningStatus = 0
    /\ received = <<>>

BreaksOff(m, b) ==
    /\ IsStatus(b)
    /\ m # <<>> /\ ~Complete(m)
    /\ ~(b = EndOfSysEx /\ Head(m) = SysEx)

\* A parse is [message, running, out]; whole tells whether it may pass on a
\* message of more than MaxSize bytes.
Deliver(p) == [p EXCEPT !.message = <<>>, !.out = Append(@, p.message)]

DeliverComplete(p) == IF Complete(p.message) THEN Deliver(p) ELSE p

TakeStatus(p, b, whole) ==
    IF b # EndOfSysEx \/ p.message = <<>> \/ Head(p.message) # SysEx
    THEN [message |-> <<b>>, running |-> RunningAfter(b), out |-> p.out]
    ELSE IF whole \/ Len(p.message) < MaxSize
    THEN Deliver([p EXCEPT !.message = Append(@, b)])
    ELSE [p EXCEPT !.message = <<>>]

TakeData(p, b) ==
    IF p.message # <<>>
    THEN DeliverComplete([p EXCEPT !.message = Append(@, b)])
    ELSE IF p.running = 0 THEN p
    ELSE DeliverComplete([p EXCEPT !.message = <<p.running, b>>])

Take(p, b, whole) ==
    IF IsRealtime(b) THEN [p EXCEPT !.out = Append(@, <<b>>)]
    ELSE LET q == DeliverComplete(p)
         IN  IF IsData(b) THEN TakeData(q, b) ELSE TakeStatus(q, b, whole)

\* The parse of what is left of the fragment, after n bytes.
ReadBytes(n, whole) ==
    LET parse[k \in 0 .. Len(stream)] ==
            IF k = 0 THEN [message |-> message, running |-> runningStatus,
                           out |-> received]
            ELSE Take(parse[k - 1], stream[k], whole)
    IN  parse[n]

Saturated(m) == SubSeq(m, 1, IF Len(m) < MaxSize THEN Len(m) ELSE MaxSize)

-----------------------------------------------------------------------------

ParseStream(fragment) ==
    /\ stream = <<>>
    /\ stream' = fragment
    /\ received' = <<>>
    /\ UNCHANGED <<message, runningStatus>>

\* Reads n bytes.  A message that the byte after them breaks off may be
\* dropped at once.
Read(n) ==
    \E whole \in BOOLEAN :
        LET p == ReadBytes(n, whole)
        IN  /\ whole => Len(message) < MaxSize
            /\ stream' = SubSeq(stream, n + 1, Len(stream))
            /\ runningStatus' = p.running
            /\ received' = p.out
            /\ \/ message' = Saturated(p.message)
               \/ /\ n < Len(stream) /\ BreaksOff(p.message, stream[n + 1])
                  /\ message' = <<>>

\* The running status takes the place of one that is left out.
Resume ==
    /\ stream # <<>> /\ IsData(Head(stream))
    /\ message = <<>>
    /\ runningStatus # 0
    /\ message' = <<runningStatus>>
    /\ UNCHANGED <<stream, runningStatus, received>>

\* A message of one byte, at any time before the next message.
PassOn ==
    /\ Complete(message)
    /\ message' = <<>>
    /\ received' = Append(received, message)
    /\ UNCHANGED <<stream, runningStatus>>

\* A message of its own: not part of the stream, but of its running status.
ProcessShortMessage(m) ==
    LET status == Head(m)
    IN  /\ stream = <<>>
        /\ received' = IF ~IsData(status) THEN <<m>>
                       ELSE IF runningStatus = 0 THEN <<>>
                       ELSE <<<<runningStatus>> \o m>>
        /\ runningStatus' = IF IsStatus(status) THEN RunningAfter(status)
                            ELSE runningStatus
        /\ UNCHANGED <<stream, message>>

Next ==
    \/ \E fragment \in Fragments : ParseStream(fragment)
    \/ \E n \in 0 .. Len(stream) : Read(n)
    \/ Resume
    \/ PassOn
    \/ \E m \in ShortMessages : ProcessShortMessage(m)

Spec == Init /\ [][Next]_vars
=============================================================================
