-------------------------------- MODULE Synth --------------------------------
(***************************************************************************)
(* The synthesiser object between the thread that plays MIDI messages and  *)
(* the thread that renders audio: the queue of timestamped messages, the   *)
(* emulated delay of the MIDI interface, and the rendering loop that plays *)
(* every message at its sample.                                            *)
(*                                                                         *)
(* Timestamps and renderedSampleCount are unsigned words that wrap; the    *)
(* code compares them by the sign of their difference.  Beside each word   *)
(* the model keeps what it stands for: a time relative to the sample about *)
(* to be rendered (the field dueIn of a message and the variables          *)
(* receivedIn and playedIn), which cannot wrap.  A relative time that lies *)
(* in the past is cut off at a bound beyond which no comparison tells the  *)
(* values apart, so the clock runs for ever in a finite model.             *)
(*                                                                         *)
(* The queue is the sequence that MidiEventQueue is proved to implement.   *)
(* The flag `activated' is left out: play calls set it, isActive() and     *)
(* open() clear it, and nothing reads it.                                  *)
(***************************************************************************)
EXTENDS Integers, Sequences

CONSTANTS
    Modulus,             \* the words wrap here: 2^32 in the code
    MaxSamplesPerRun,    \* MAX_SAMPLES_PER_RUN
    MaxRender,           \* bound: longest render() request
    DefaultQueueSize,    \* DEFAULT_MIDI_EVENT_QUEUE_SIZE
    MaxQueueSize,        \* MAX_QUEUE_SIZE
    Uses,                \* the ways in which the synth may be used
    TransferTime,        \* samples that a message of each kind takes on the wire
    MaxBacklog,          \* bound: how far ahead of the clock a message may be due
    LongSilence          \* whether messages may be half the clock's range apart

Kinds == {"short", "sysex"}
DelayModes == {"IMMEDIATE", "DELAY_SHORT_MESSAGES_ONLY", "DELAY_ALL"}

ASSUME ClockAssumption ==
    /\ Modulus \in Nat /\ Modulus % 2 = 0
    /\ MaxSamplesPerRun \in 1 .. Modulus \div 2 - 1
    /\ MaxRender \in 1 .. Modulus - 1
    /\ MaxBacklog \in Nat
    /\ MaxBacklog + MaxQueueSize < Modulus \div 2
    /\ MaxSamplesPerRun + MaxQueueSize < Modulus \div 2
    /\ TransferTime \in [Kinds -> Nat]
    /\ LongSilence \in BOOLEAN

\* The sizes of a ring buffer; provers know nothing of powers.
QueueSizes == {2^k : k \in 0 .. 24}

ASSUME QueueSizeAssumption ==
    /\ QueueSizes \subseteq Nat \ {0}
    /\ DefaultQueueSize \in QueueSizes /\ MaxQueueSize \in QueueSizes
    /\ DefaultQueueSize <= MaxQueueSize

\* A use of the synth: the arguments of setMIDIEventQueueSize() and of
\* setMIDIDelayMode(), and how far ahead of the clock timestamps are.
ASSUME UsesAssumption ==
    \A use \in Uses : /\ use.sizes \subseteq Nat
                      /\ use.modes \subseteq DelayModes
                      /\ use.aheads \subseteq -1 .. MaxBacklog

VARIABLES
    use,                    \* how the synth is used
    opened,
    queueSize,              \* size of the ring buffer, 0 if midiQueue is NULL
    queue,                  \* the messages in midiQueue
    midiDelayMode,
    renderedSampleCount,
    lastReceivedMIDIEventTimestamp,
    len,                    \* what render() still has to do; 0 outside render()
    thisLen,                \* samples of the run begun, 0 between two runs
    silent,                 \* the application has stopped to send
    receivedIn,             \* lastReceivedMIDIEventTimestamp, relative
    playedIn,               \* when the last message was played, relative
    error                   \* by how much that message missed its sample

synthVars == <<use, opened, queueSize, midiDelayMode>>
clockVars == <<renderedSampleCount, len, thisLen>>
ghostVars == <<playedIn, error>>
receiveVars == <<lastReceivedMIDIEventTimestamp, receivedIn>>
vars == <<synthVars, queue, clockVars, receiveVars, ghostVars, silent>>

Half == Modulus \div 2
Max2(a, b) == IF a >= b THEN a ELSE b

\* Bit32s(w) of an unsigned word
Signed(w) ==
    IF w % Modulus >= Half THEN (w % Modulus) - Modulus ELSE w % Modulus

Init ==
    /\ use \in Uses
    /\ opened = FALSE
    /\ queueSize = 0
    /\ queue = <<>>
    /\ midiDelayMode = "DELAY_SHORT_MESSAGES_ONLY"
    /\ renderedSampleCount = 0
    /\ lastReceivedMIDIEventTimestamp = 0
    /\ len = 0
    /\ thisLen = 0
    /\ silent = FALSE
    /\ receivedIn = 0
    /\ playedIn = -2
    /\ error = 0

Rendering == len > 0

-----------------------------------------------------------------------------
(* Opening and closing.  The thread that does so excludes the rendering    *)
(* thread; rendering needs an open synth.                                  *)

\* The clock and the last timestamp outlive close() and open(); a queue size
\* that was set does not.
Open ==
    /\ ~opened
    /\ opened' = TRUE
    /\ queueSize' = DefaultQueueSize
    /\ queue' = <<>>
    /\ UNCHANGED <<use, midiDelayMode, clockVars, receiveVars, ghostVars, silent>>

\* dispose() deletes the queue with the messages in it.
Close ==
    /\ opened
    /\ ~Rendering
    /\ opened' = FALSE
    /\ queueSize' = 0
    /\ queue' = <<>>
    /\ UNCHANGED <<use, midiDelayMode, clockVars, receiveVars, ghostVars,
                   silent>>

SetMIDIDelayMode(mode) ==
    /\ mode # midiDelayMode
    /\ midiDelayMode' = mode
    /\ UNCHANGED <<use, opened, queueSize, queue, clockVars, receiveVars,
                   ghostVars, silent>>

\* Find a power of 2 that is >= useSize
BinarySize(useSize) ==
    IF useSize < MaxQueueSize
    THEN CHOOSE size \in QueueSizes :
            /\ size >= useSize
            /\ \A other \in QueueSizes : other >= useSize => size <= other
    ELSE MaxQueueSize

\* flushMIDIQueue() plays what is queued at once; setMIDIEventQueueSize() does
\* the same before it replaces the queue.
FlushMIDIQueue ==
    /\ queueSize # 0
    /\ ~Rendering
    /\ queue' = <<>>
    /\ lastReceivedMIDIEventTimestamp' = renderedSampleCount
    /\ receivedIn' = 0
    /\ UNCHANGED <<use, opened, midiDelayMode, clockVars, ghostVars,
                   silent>>

Flush == FlushMIDIQueue /\ UNCHANGED queueSize

SetMIDIEventQueueSize(useSize) ==
    /\ FlushMIDIQueue
    /\ queueSize' = BinarySize(useSize)

-----------------------------------------------------------------------------
(* playMsg(msg, timestamp) and playSysex(sysex, len, timestamp).  System   *)
(* realtime messages are reported and change nothing.  The driver's        *)
(* ReportHandler never asks for another attempt when the queue is full.    *)

Delayed(kind) ==
    \/ midiDelayMode = "DELAY_ALL"
    \/ midiDelayMode = "DELAY_SHORT_MESSAGES_ONLY" /\ kind = "short"

\* Mutant: the order of words is taken for the order of times.
AddMIDIInterfaceDelayUnsigned(kind, timestamp) ==
    LET last == lastReceivedMIDIEventTimestamp
        start == IF timestamp < last THEN last ELSE timestamp
    IN  (start + TransferTime[kind]) % Modulus

AddMIDIInterfaceDelay(kind, timestamp) ==
    LET last == lastReceivedMIDIEventTimestamp
        start == IF Signed(timestamp - last) < 0 THEN last ELSE timestamp
    IN  (start + TransferTime[kind]) % Modulus

\* What the two words stand for.
DueIn(kind, ahead) ==
    IF Delayed(kind) THEN Max2(ahead, receivedIn) + TransferTime[kind] ELSE ahead

\* The message is to be played `ahead` samples after the one rendered next.
\* The bounds keep the backlog and, but for LongSilence, also the time since
\* the last message below half the clock's range.
Play(kind, ahead) ==
    LET requested == (renderedSampleCount + ahead) % Modulus
        timestamp == IF Delayed(kind)
                     THEN AddMIDIInterfaceDelay(kind, requested)
                     ELSE requested
        event == [timestamp |-> timestamp,
                  transfer  |-> IF Delayed(kind) THEN TransferTime[kind] ELSE 0,
                  dueIn     |-> Max2(DueIn(kind, ahead), thisLen)]
    IN  /\ queueSize # 0
        /\ ~silent
        /\ DueIn(kind, ahead) <= MaxBacklog
        /\ LongSilence \/ ahead - receivedIn < Half
        /\ IF Delayed(kind)
           THEN /\ lastReceivedMIDIEventTimestamp' = timestamp
                /\ receivedIn' = DueIn(kind, ahead)
           ELSE UNCHANGED receiveVars
        /\ queue' = IF Len(queue) < queueSize - 1 THEN Append(queue, event)
                                                  ELSE queue
        /\ UNCHANGED <<synthVars, clockVars, ghostVars, silent>>

\* The application sends nothing more.
FallSilent ==
    /\ ~silent
    /\ silent' = TRUE
    /\ UNCHANGED <<synthVars, queue, clockVars, receiveVars, ghostVars>>

-----------------------------------------------------------------------------
(* render(): each iteration peeks at the oldest message and either plays   *)
(* it, or renders up to it.  Other messages may be queued between the peek *)
(* and the end of the iteration.                                           *)

\* The clock moves on by n samples; past relative times are cut off.
QueueAfter(q, n) ==
    [i \in 1 .. Len(q) |-> [q[i] EXCEPT !.dueIn = Max2(@ - n, -1)]]

ClockAdvances(n) ==
    /\ len' = len - n
    /\ renderedSampleCount' = (renderedSampleCount + n) % Modulus
    /\ receivedIn' = Max2(receivedIn - n, -Half - 2)

RenderBegins(n) ==
    /\ opened
    /\ ~Rendering
    /\ len' = n
    /\ UNCHANGED <<synthVars, queue, renderedSampleCount, thisLen, receiveVars,
                   ghostVars, silent>>

SamplesToNextEvent ==
    IF queue = <<>> THEN MaxSamplesPerRun
                    ELSE Signed(Head(queue).timestamp - renderedSampleCount)

\* Mutant: a message is played only after its sample; at its sample the loop
\* makes runs of no samples.
RenderPlaysAfter ==
    /\ Rendering /\ thisLen = 0
    /\ SamplesToNextEvent < 0
    /\ queue' = QueueAfter(Tail(queue), 1)
    /\ ClockAdvances(1)
    /\ playedIn' = -1
    /\ error' = -Max2(Head(queue).dueIn, playedIn + 1)
    /\ UNCHANGED <<synthVars, thisLen, lastReceivedMIDIEventTimestamp, silent>>

\* A message is due: it is played and dropped.  It takes one sample, so that a
\* note played and released at once is heard.
RenderPlays ==
    /\ Rendering /\ thisLen = 0
    /\ SamplesToNextEvent <= 0
    /\ queue' = QueueAfter(Tail(queue), 1)
    /\ ClockAdvances(1)
    /\ playedIn' = -1
    /\ error' = -Max2(Head(queue).dueIn, playedIn + 1)
    /\ UNCHANGED <<synthVars, thisLen, lastReceivedMIDIEventTimestamp, silent>>

\* Mutant: the run is not cut short before the next message.
RenderRunsPastEvent ==
    /\ Rendering /\ thisLen = 0
    /\ SamplesToNextEvent > 0
    /\ thisLen' = IF len > MaxSamplesPerRun THEN MaxSamplesPerRun ELSE len
    /\ UNCHANGED <<synthVars, queue, renderedSampleCount, len, receiveVars,
                   ghostVars, silent>>

\* No message is due: the run ends before the next one.
RenderRuns ==
    /\ Rendering /\ thisLen = 0
    /\ SamplesToNextEvent > 0
    /\ LET most == IF len > MaxSamplesPerRun THEN MaxSamplesPerRun ELSE len
       IN  thisLen' = IF most > SamplesToNextEvent THEN SamplesToNextEvent
                                                   ELSE most
    /\ UNCHANGED <<synthVars, queue, renderedSampleCount, len, receiveVars,
                   ghostVars, silent>>

RenderAdvances ==
    /\ thisLen > 0
    /\ thisLen' = 0
    /\ queue' = QueueAfter(queue, thisLen)
    /\ ClockAdvances(thisLen)
    /\ playedIn' = Max2(playedIn - thisLen, -2)
    /\ UNCHANGED <<synthVars, lastReceivedMIDIEventTimestamp, error, silent>>

-----------------------------------------------------------------------------
MidiThread ==
    \/ \E kind \in Kinds, ahead \in use.aheads : Play(kind, ahead)
    \/ FallSilent

Control ==
    \/ Open
    \/ Close
    \/ \E mode \in use.modes : SetMIDIDelayMode(mode)
    \/ Flush
    \/ \E useSize \in use.sizes : SetMIDIEventQueueSize(useSize)

RenderStep == RenderPlays \/ RenderRuns \/ RenderAdvances
RenderingThread == RenderStep \/ \E n \in 1 .. MaxRender : RenderBegins(n)

Next == MidiThread \/ Control \/ RenderingThread

Spec == Init /\ [][Next]_vars

\* The audio device asks for samples for ever and render() returns; nothing
\* else has to happen.
FairSpec == Spec /\ WF_vars(RenderingThread)

-----------------------------------------------------------------------------
(* Properties *)

Word == 0 .. Modulus - 1
RelativeTime == -Half - 2 .. Modulus

Event == [timestamp : Word, transfer : Nat, dueIn : RelativeTime]

\* Types; a run never exceeds what render() has left to do, so that len, an
\* unsigned word, does not wrap below 0; and a ring buffer is always one that
\* MidiEventQueue's RingBufferSizeAssumption admits.
TypeOK ==
    /\ use \in Uses
    /\ opened \in BOOLEAN
    /\ queueSize # 0 <=> opened
    /\ opened => queueSize \in QueueSizes
    /\ queue \in Seq(Event)
    /\ opened => Len(queue) <= queueSize - 1
    /\ midiDelayMode \in DelayModes
    /\ renderedSampleCount \in Word
    /\ lastReceivedMIDIEventTimestamp \in Word
    /\ len \in 0 .. MaxRender
    /\ thisLen \in 0 .. len
    /\ silent \in BOOLEAN
    /\ receivedIn \in RelativeTime
    /\ playedIn \in {-2, -1}
    /\ error \in Int

\* Synth.h: a message is played not before its timestamp; render() adds: and
\* at least one sample after the message before it.  It is played exactly at
\* the first sample that both allow, or at the first sample not rendered yet
\* when it was queued, although the clock's words wrap and though render()
\* decides on a run before later messages are queued.
PlayedOnTime == error = 0

\* Synth.h: "The MIDI event will be processed not before the specified
\* timestamp."
NotBeforeTimestamp == error >= 0

\* The emulated MIDI cable carries one message at a time: of two delayed
\* messages in the queue the later one is due at least its own transfer time
\* after the earlier one, whatever timestamps the application gave them, and
\* never before it, which in wrapped words would be nearly a whole turn.
InterfaceBandwidth ==
    \A i, j \in 1 .. Len(queue) :
        i < j /\ queue[i].transfer > 0 /\ queue[j].transfer > 0 =>
            (queue[j].timestamp - queue[i].timestamp) % Modulus
                \in queue[j].transfer .. Half + MaxBacklog

\* Once the application falls silent, everything it queued is played or has
\* been discarded by close(): no message waits for the clock to come round.
MessagesDrain == silent ~> (queue = <<>>)
=============================================================================
