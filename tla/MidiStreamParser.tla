-------------------------- MODULE MidiStreamParser --------------------------
(***************************************************************************)
(* Class MidiStreamParserImpl: it takes whole messages out of a stream of  *)
(* MIDI bytes that comes in fragments, keeps what is incomplete in         *)
(* streamBuffer and inserts the running status.  Each turn of the loop of  *)
(* parseStream() is a step that reads parsedMessageLength bytes, often     *)
(* many, sometimes none.                                                   *)
(*                                                                         *)
(* streamBufferSize is the length of streamBuffer.  When a first fragment  *)
(* does not fit, the code marks the buffer as full; what is in it, but for *)
(* the first byte, is never read.                                          *)
(***************************************************************************)
EXTENDS Naturals, Sequences

CONSTANTS
    Fragments,          \* bound: what one call gives to parse
    ShortMessages,      \* bound: messages given one by one
    MaxSize,            \* MAX_STREAM_BUFFER_SIZE: 32768 in the code
    Capacity            \* that of a new parser: 8192 or more in the code

ASSUME ParserAssumption ==
    /\ Capacity \in Nat /\ Capacity >= 3
    /\ MaxSize \in Nat /\ MaxSize >= Capacity
    /\ Fragments \subseteq Seq(0 .. 255)
    /\ ShortMessages \subseteq Seq(0 .. 255) \ {<<>>}

VARIABLES
    stream,             \* what is left of the call's fragment
    streamBuffer,
    streamBufferCapacity,
    runningStatus,
    received            \* ghost: what the call gave to midiReceiver

parserVars == <<stream, streamBuffer, streamBufferCapacity, runningStatus,
                received>>

SYSEX == 240
END_OF_SYSEX == 247
IsData(b) == b < 128
IsRealtime(b) == b >= 248

getShortMessageLength(msg) ==
    CASE msg \in {241, 243} \/ msg \div 32 = 6 -> 2
      [] msg = 242 \/ (msg < 240 /\ msg \div 32 # 6) -> 3
      [] OTHER -> 1

FirstOf(S) == CHOOSE n \in S : \A m \in S : n <= m

Shorter(length) == IF length < MaxSize THEN length ELSE MaxSize

ParserInit ==
    /\ stream = <<>>
    /\ streamBuffer = <<>>
    /\ streamBufferCapacity = Capacity
    /\ runningStatus = 0
    /\ received = <<>>

Parsed(n) == stream' = SubSeq(stream, n + 1, Len(stream))

\* Those of the first n bytes that are in the set, taken one after another.
BytesIn(set, n) ==
    LET taken[k \in 0 .. Len(stream)] ==
            IF k = 0 THEN <<>>
            ELSE IF stream[k] \in set THEN Append(taken[k - 1], stream[k])
            ELSE taken[k - 1]
    IN  taken[n]

\* The realtime messages among the first n bytes, one by one.
Realtime(n) ==
    LET bytes == BytesIn(248 .. 255, n)
    IN  [i \in 1 .. Len(bytes) |-> <<bytes[i]>>]

\* Mutant: the buffer grows without a limit.
GrownForAny(size) ==
    IF size <= streamBufferCapacity THEN streamBufferCapacity
    ELSE 2 * streamBufferCapacity

\* The new capacity when size bytes are asked for.
GrownFor(size) ==
    IF size <= streamBufferCapacity THEN streamBufferCapacity ELSE MaxSize

-----------------------------------------------------------------------------

ParseStream(fragment) ==
    /\ stream = <<>>
    /\ stream' = fragment
    /\ received' = <<>>
    /\ UNCHANGED <<streamBuffer, streamBufferCapacity, runningStatus>>

HandleRealtime ==
    /\ stream # <<>>
    /\ IsRealtime(Head(stream))
    /\ received' = Append(received, <<Head(stream)>>)
    /\ Parsed(1)
    /\ UNCHANGED <<streamBuffer, streamBufferCapacity, runningStatus>>

Parsing == stream # <<>> /\ ~IsRealtime(Head(stream))

\* Mutant: a system common message leaves the running status.
RunningAfterKept(status) ==
    IF status \in 128 .. 239 THEN status ELSE runningStatus

\* processStatusByte: a message without a status takes the running one.
RunningAfter(status) ==
    IF IsData(status) \/ IsRealtime(status) THEN runningStatus
    ELSE IF status < SYSEX THEN status ELSE 0

\* Mutant: a byte is not skipped although there is no running status.
ParseShortMessageStatusStuck ==
    LET byte == Head(stream)
    IN  /\ Parsing
        /\ streamBuffer = <<>>
        /\ byte # SYSEX
        /\ \/ ~IsData(byte) /\ Parsed(1) /\ streamBuffer' = <<byte>>
           \/ IsData(byte) /\ runningStatus = 0
                           /\ UNCHANGED <<stream, streamBuffer>>
           \/ IsData(byte) /\ runningStatus # 0
                           /\ streamBuffer' = <<runningStatus>>
                           /\ UNCHANGED stream
        /\ runningStatus' = RunningAfter(byte)
        /\ UNCHANGED <<streamBufferCapacity, received>>

\* With the running status inserted, the byte is read at the next turn.
ParseShortMessageStatus ==
    LET byte == Head(stream)
    IN  /\ Parsing
        /\ streamBuffer = <<>>
        /\ byte # SYSEX
        /\ \/ ~IsData(byte) /\ Parsed(1) /\ streamBuffer' = <<byte>>
           \/ IsData(byte) /\ runningStatus = 0 /\ Parsed(1)
                           /\ UNCHANGED streamBuffer
           \/ IsData(byte) /\ runningStatus # 0
                           /\ streamBuffer' = <<runningStatus>>
                           /\ UNCHANGED stream
        /\ runningStatus' = RunningAfter(byte)
        /\ UNCHANGED <<streamBufferCapacity, received>>

\* The bytes from 1 to n that are data.
DataBytes(n) == BytesIn(0 .. 127, n)

\* It reads up to the last byte it lacks, or to a status before that, which
\* makes it start over, or to the end of the fragment.
ParseShortMessageDataBytes ==
    LET missing == getShortMessageLength(Head(streamBuffer)) - Len(streamBuffer)
        stops == {n \in 1 .. Len(stream) :
                     ~IsData(stream[n]) /\ ~IsRealtime(stream[n])}
        ends == {n \in 0 .. Len(stream) : Len(DataBytes(n)) = missing}
        broken == stops # {} /\ \A n \in ends : FirstOf(stops) <= n
        length == CASE broken -> FirstOf(stops) - 1
                    [] ~broken /\ ends # {} -> FirstOf(ends)
                    [] OTHER -> Len(stream)
        bytes == streamBuffer \o DataBytes(length)
    IN  /\ Parsing
        /\ streamBuffer # <<>> /\ Head(streamBuffer) # SYSEX
        /\ Parsed(length)
        /\ \/ /\ broken
              /\ streamBuffer' = <<>>
              /\ received' = received \o Realtime(length)
           \/ /\ ~broken /\ ends # {}
              /\ streamBuffer' = <<>>
              /\ received' = Append(received \o Realtime(length), bytes)
           \/ /\ ~broken /\ ends = {}
              /\ streamBuffer' = bytes
              /\ received' = received \o Realtime(length)
        /\ UNCHANGED <<streamBufferCapacity, runningStatus>>

\* A message that is complete in the fragment is passed on from there.
ParseSysex ==
    LET stops == {n \in 2 .. Len(stream) : ~IsData(stream[n])}
        stop == IF stops = {} THEN Len(stream) + 1 ELSE FirstOf(stops)
        length == stop - 1
    IN  /\ Parsing
        /\ streamBuffer = <<>>
        /\ Head(stream) = SYSEX
        /\ runningStatus' = 0
        /\ \/ /\ stops # {} /\ stream[stop] = END_OF_SYSEX
              /\ received' = Append(received, SubSeq(stream, 1, stop))
              /\ Parsed(stop)
              /\ UNCHANGED <<streamBuffer, streamBufferCapacity>>
           \/ /\ stops # {} /\ stream[stop] \in 128 .. 246
              /\ Parsed(length)
              /\ UNCHANGED <<streamBuffer, streamBufferCapacity, received>>
           \/ /\ stops # {} => IsRealtime(stream[stop])
              /\ Parsed(length)
              /\ streamBufferCapacity' = GrownFor(length + 1)
              /\ streamBuffer' = IF streamBufferCapacity < MaxSize
                                 THEN SubSeq(stream, 1, length)
                                 ELSE SubSeq(stream, 1, Shorter(length))
              /\ UNCHANGED received

\* What does not fit is dropped, and with it the message when it ends.
ParseSysexFragment ==
    LET stops == {n \in 1 .. Len(stream) : stream[n] \in 128 .. 247}
        stop == IF stops = {} THEN Len(stream) + 1 ELSE FirstOf(stops)
        ends == stops # {} /\ stream[stop] = END_OF_SYSEX
        bytes == streamBuffer \o DataBytes(stop - 1)
                              \o (IF ends THEN <<END_OF_SYSEX>> ELSE <<>>)
        capacity == GrownFor(Len(bytes))
    IN  /\ Parsing
        /\ streamBuffer # <<>> /\ Head(streamBuffer) = SYSEX
        /\ streamBufferCapacity' = capacity
        /\ \/ /\ ends
              /\ Parsed(stop)
              /\ streamBuffer' = <<>>
              /\ received' = received \o Realtime(stop - 1)
                             \o (IF Len(bytes) <= capacity THEN <<bytes>>
                                                           ELSE <<>>)
           \/ /\ ~ends
              /\ Parsed(stop - 1)
              /\ received' = received \o Realtime(stop - 1)
              /\ streamBuffer' =
                   IF stops # {} THEN <<>>
                   ELSE SubSeq(bytes, 1, IF Len(bytes) < capacity
                                         THEN Len(bytes) ELSE capacity)
        /\ UNCHANGED runningStatus

\* A message of its own; the running status completes the one it lacks.
ProcessShortMessage(message) ==
    LET status == Head(message)
    IN  /\ stream = <<>>
        /\ received' = IF ~IsData(status) THEN <<message>>
                       ELSE IF runningStatus = 0 THEN <<>>
                       ELSE <<<<runningStatus>> \o message>>
        /\ runningStatus' = RunningAfter(status)
        /\ UNCHANGED <<stream, streamBuffer, streamBufferCapacity>>

ParserNext ==
    \/ \E fragment \in Fragments : ParseStream(fragment)
    \/ HandleRealtime
    \/ ParseShortMessageStatus
    \/ ParseShortMessageDataBytes
    \/ ParseSysex
    \/ ParseSysexFragment
    \/ \E message \in ShortMessages : ProcessShortMessage(message)

ParserSpec == ParserInit /\ [][ParserNext]_parserVars

\* Each turn of the loop is followed by the next one.
Loop ==
    \/ HandleRealtime \/ ParseShortMessageStatus \/ ParseShortMessageDataBytes
    \/ ParseSysex \/ ParseSysexFragment

ParserFairSpec == ParserSpec /\ WF_parserVars(Loop)

-----------------------------------------------------------------------------

\* The type of every variable; what is kept fits into the buffer.
ParserTypeOK ==
    /\ stream \in Seq(0 .. 255)
    /\ streamBuffer \in Seq(0 .. 255)
    /\ streamBufferCapacity \in Capacity .. MaxSize
    /\ Len(streamBuffer) <= streamBufferCapacity
    /\ runningStatus \in {0} \union 128 .. 239
    /\ received \in Seq(Seq(0 .. 255))

\* The parser passes on what reading byte by byte yields, in order, however
\* the stream is divided into calls, whatever realtime messages split a
\* message, and with messages of their own in between.
Bytewise == INSTANCE MidiStream WITH message <- streamBuffer
ParsesStream == Bytewise!Spec

\* The loop of parseStream() ends: turns that read no byte do not go on.
ParserReturns == (stream # <<>>) ~> (stream = <<>>)

-----------------------------------------------------------------------------
(* A property that does not hold, for a further configuration. *)

\* What is complete has been passed on when the call returns.
NothingHeldBack ==
    stream = <<>> /\ streamBuffer # <<>> =>
        Len(streamBuffer) < getShortMessageLength(Head(streamBuffer))
        \/ Head(streamBuffer) = SYSEX
=============================================================================
