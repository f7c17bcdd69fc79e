----------------------------- MODULE MidiTimestamp -----------------------------
(***************************************************************************)
(* FB01Synth::getMIDIEventTimestamp(): when a message that arrives now is  *)
(* to be played, made from the position of the device (PlayPosition) and   *)
(* the number of frames rendered, while the rendering thread refills the   *)
(* buffer, chunk by chunk or as one looped ring buffer.                    *)
(*                                                                         *)
(* The device begins with a buffer of silence: what is rendered as frame n *)
(* is heard when the device has played n + BufferSize frames.  Waiting for *)
(* hEvent and the choice of the chunk are those of FB01Synth; here a chunk *)
(* is refilled when the device is done with it.                            *)
(***************************************************************************)
EXTENDS PlayPosition

CONSTANTS
    BufferSize,      \* frames, bufferSize
    ChunkSize,       \* frames, chunkSize
    MidiLatency,     \* frames, midiLatency; by default not below BufferSize
    SynthRate,       \* SAMPLE_RATE
    OutputRate,      \* PCM8_MASTER_PCM_RATE, what the synth renders
    QuadModulus,     \* 2^64, the range of a UINT64
    DeviceModes,     \* pairs of useRingBuffer and the jitter of the device
    MaxSessions      \* bound: how often the synth is opened

ASSUME TimestampAssumption ==
    /\ Threads = {"rendering", "midi"}
    /\ ChunkSize \in Nat \ {0} /\ BufferSize \in Nat
    /\ BufferSize % ChunkSize = 0 /\ BufferSize > ChunkSize
    /\ MidiLatency \in Nat /\ SynthRate \in Nat \ {0} /\ OutputRate \in Nat \ {0}
    /\ QuadModulus \in Nat /\ QuadModulus > DwordModulus
    /\ DeviceModes \subseteq BOOLEAN \X Jitters /\ MaxSessions \in Nat

VARIABLES
    useRingBuffer,
    renderedFramesCount, \* of the driver
    renderedSampleCount, \* the clock of the synth
    rendering,           \* where the rendering thread is
    framesToRender,      \* of the call of Render() under way
    midi,                \* where the thread that plays a message is
    countSnapshot,       \* its renderedFramesCountSnapshot
    frame,               \* its `timestamp', before the conversion
    timestamp,           \* what getMIDIEventTimestamp() returns to it
    sessions             \* how often the synth was opened

rendererVars == <<renderedFramesCount, renderedSampleCount, rendering, framesToRender>>
midiVars == <<midi, countSnapshot, frame, timestamp>>
modeVars == <<useRingBuffer, sessions>>
timestampVars == <<vars, rendererVars, midiVars, modeVars>>

TimestampInit ==
    /\ Init
    /\ useRingBuffer \in BOOLEAN
    /\ <<useRingBuffer, jitter>> \in DeviceModes
    /\ renderedFramesCount = 0
    /\ renderedSampleCount = 0
    /\ rendering = "idle"
    /\ framesToRender = 0
    /\ midi = "idle"
    /\ countSnapshot = 0
    /\ frame = 0
    /\ timestamp = 0
    /\ sessions = 1

-----------------------------------------------------------------------------
(* The device and the rendering thread *)

\* Frames that were handed to the device in this session: waveOutWrite()
\* follows Render(), which counts them.
Written == BufferSize + renderedSampleCount - framesToRender

\* WHDR_DONE of the next chunk.
ChunkDone == played >= Written - BufferSize + ChunkSize

\* A looped buffer plays for ever, chunks as long as there are any.
Plays ==
    /\ useRingBuffer \/ played < Written
    /\ DevicePlays
    /\ UNCHANGED <<rendererVars, midiVars, modeVars>>

\* GetPos(): the first thing RenderAvailableSpace() does, and what is done to
\* monitor the position once no chunk is left to refill.
AskPosition ==
    /\ rendering = "idle"
    /\ useRingBuffer \/ ~ChunkDone
    /\ TakeSnapshot("rendering")
    /\ rendering' = "asking"
    /\ UNCHANGED <<renderedFramesCount, renderedSampleCount, framesToRender,
                   midiVars, modeVars>>

\* The thread waits for hEvent, and scans again.
PositionMonitored ==
    /\ ~useRingBuffer
    /\ rendering = "asking" /\ pc["rendering"] = "idle"
    /\ rendering' = "idle"
    /\ UNCHANGED <<vars, renderedFramesCount, renderedSampleCount,
                   framesToRender, midiVars, modeVars>>

\* Synth::render() by n frames; renderedFramesCount follows when it is over.
Render(n) ==
    /\ rendering' = "rendered"
    /\ framesToRender' = n
    /\ renderedSampleCount' = renderedSampleCount + n
    /\ UNCHANGED <<vars, renderedFramesCount, midiVars, modeVars>>

RenderChunk ==
    /\ ~useRingBuffer
    /\ rendering = "idle"
    /\ ChunkDone
    /\ Render(ChunkSize)

PlayPositionInBuffer == returned["rendering"] % BufferSize
RenderPosition == renderedFramesCount % BufferSize

\* Mutant: a buffer whose two positions are equal is taken for a wrapped one.
RenderToEndWhenEqual ==
    /\ useRingBuffer
    /\ rendering = "asking" /\ pc["rendering"] = "idle"
    /\ PlayPositionInBuffer <= RenderPosition
    /\ Render(BufferSize - RenderPosition)

\* RenderAvailableSpace() behind the play position: to the end of the buffer.
RenderToEnd ==
    /\ useRingBuffer
    /\ rendering = "asking" /\ pc["rendering"] = "idle"
    /\ PlayPositionInBuffer < RenderPosition
    /\ Render(BufferSize - RenderPosition)

RenderToPlayPosition ==
    /\ useRingBuffer
    /\ rendering = "asking" /\ pc["rendering"] = "idle"
    /\ PlayPositionInBuffer - RenderPosition >= ChunkSize
    /\ Render(PlayPositionInBuffer - RenderPosition)

\* Less than a chunk is free: Sleep().
SleepUntilSpace ==
    /\ useRingBuffer
    /\ rendering = "asking" /\ pc["rendering"] = "idle"
    /\ PlayPositionInBuffer - RenderPosition \in 0 .. ChunkSize - 1
    /\ rendering' = "idle"
    /\ UNCHANGED <<vars, renderedFramesCount, renderedSampleCount,
                   framesToRender, midiVars, modeVars>>

\* The end of Render(), and waveOutWrite().
CountFrames ==
    /\ rendering = "rendered"
    /\ rendering' = "idle"
    /\ renderedFramesCount' = renderedFramesCount + framesToRender
    /\ framesToRender' = 0
    /\ UNCHANGED <<vars, renderedSampleCount, midiVars, modeVars>>

-----------------------------------------------------------------------------
(* A message arrives *)

\* The snapshot of the frames rendered, and GetPos() begins.
TakeCountSnapshot ==
    /\ midi = "idle"
    /\ TakeSnapshot("midi")
    /\ midi' = "asking"
    /\ countSnapshot' = renderedFramesCount
    /\ UNCHANGED <<rendererVars, frame, timestamp, modeVars>>

InGetPos(t) ==
    /\ AskDevice(t) \/ ReturnSnapshot(t) \/ ReturnPosition(t)
    /\ UNCHANGED <<rendererVars, midiVars, modeVars>>

\* Mutant: a buffer that was just refilled is taken for an empty one.
BufferedFramesUntilEqual(rendered, position) ==
    LET difference == (rendered % BufferSize) - (position % BufferSize)
    IN  IF difference < 0 THEN difference + BufferSize ELSE difference

\* bufferedFramesCount: the frames rendered and not yet played.
BufferedFrames(rendered, position) ==
    LET difference == (rendered % BufferSize) - (position % BufferSize)
    IN  IF difference <= 0 THEN difference + BufferSize ELSE difference

\* `timestamp' before the conversion: the frame in rendering that is
\* MidiLatency behind the one being played.
EventFrame(rendered, position) ==
    LET playedFramesCount ==
            (rendered - BufferedFrames(rendered, position)) % QuadModulus
    IN  (playedFramesCount + MidiLatency) % QuadModulus

\* Mutant: the ratio of the sample rates is turned round.
ConvertedInversely(frames) == {((frames * OutputRate) \div SynthRate) % DwordModulus}

\* Bit32u(timestamp * sampleRateRatio).  A value out of range is undefined.
Converted(frames) ==
    LET samples == (frames * SynthRate) \div OutputRate
    IN  IF samples < DwordModulus THEN {samples} ELSE 0 .. DwordModulus - 1

GetMIDIEventTimestamp ==
    /\ midi = "asking" /\ pc["midi"] = "idle"
    /\ midi' = "stamped"
    /\ frame' = EventFrame(countSnapshot, returned["midi"])
    /\ timestamp' \in Converted(frame')
    /\ UNCHANGED <<vars, rendererVars, countSnapshot, modeVars>>

\* The message goes to the synth.
PlayMIDI ==
    /\ midi = "stamped"
    /\ midi' = "idle"
    /\ countSnapshot' = 0
    /\ frame' = 0
    /\ timestamp' = 0
    /\ UNCHANGED <<vars, rendererVars, modeVars>>

\* Close() and Init(): a new device and a new synth, whose positions begin
\* anew.  renderedFramesCount stays what it was.
Reopen ==
    /\ sessions < MaxSessions
    /\ sessions' = sessions + 1
    /\ rendering = "idle" /\ midi = "idle"
    /\ played' = 0
    /\ prevPlayPosition' = 0
    /\ renderedSampleCount' = 0
    /\ truth' = [t \in Threads |-> 0]
    /\ returned' = [t \in Threads |-> 0]
    /\ UNCHANGED <<jitter, pc, snapshot, sample, useRingBuffer,
                   renderedFramesCount, rendering, framesToRender, midiVars>>

RenderingThread ==
    \/ AskPosition
    \/ PositionMonitored
    \/ RenderChunk
    \/ RenderToEnd
    \/ RenderToPlayPosition
    \/ SleepUntilSpace
    \/ CountFrames

MidiThread == TakeCountSnapshot \/ GetMIDIEventTimestamp \/ PlayMIDI

TimestampNext ==
    \/ Plays
    \/ RenderingThread
    \/ MidiThread
    \/ \E t \in Threads : InGetPos(t)

TimestampSpec == TimestampInit /\ [][TimestampNext]_timestampVars

\* The same with a synth that is closed and opened again.
ReopeningSpec == TimestampInit /\ [][TimestampNext \/ Reopen]_timestampVars

-----------------------------------------------------------------------------
(* Properties *)

\* Every variable has its type: what is left to render fits in the buffer,
\* and a timestamp is a word.
TimestampTypeOK ==
    /\ TypeOK
    /\ useRingBuffer \in BOOLEAN
    /\ renderedFramesCount \in 0 .. MaxSessions * MaxPlayed
    /\ renderedSampleCount \in 0 .. MaxPlayed
    /\ rendering \in {"idle", "asking", "rendered"}
    /\ framesToRender \in 0 .. BufferSize
    /\ midi \in {"idle", "asking", "stamped"}
    /\ countSnapshot \in 0 .. MaxSessions * MaxPlayed
    /\ frame \in 0 .. QuadModulus - 1
    /\ timestamp \in 0 .. DwordModulus - 1
    /\ sessions \in 1 .. MaxSessions

\* "Renders all the available space in the single looped ring buffer", and
\* nothing else: no frame is overwritten that the device has yet to play,
\* although it plays on between the question for its position and the end of
\* the rendering, and laps a rendering thread that is late.
RendersAvailableSpace == renderedSampleCount <= played

\* The same for a device that is exact.
RendersPlayedFrames == jitter = 0 => RendersAvailableSpace

\* The device has not yet played all that had been rendered when the message
\* arrived.
InTime == truth["midi"] < countSnapshot + BufferSize

\* The frame computed for a message is the one that is heard MidiLatency after
\* the device was asked, although the frames rendered were read before the
\* position, the rendering thread has gone on meanwhile, and only positions
\* within the buffer are compared.
LatencyKept ==
    midi = "stamped" /\ InTime =>
        LET expected == truth["midi"] + MidiLatency - BufferSize
        IN  frame \in expected - jitter .. expected

\* The same for a device that is exact.
ConstantLatency == jitter = 0 => LatencyKept

\* No message waits in the queue of the synth for longer than MidiLatency.
NeverWaitsLonger ==
    midi = "stamped" => timestamp < renderedSampleCount + MidiLatency

\* "The timestamp is measured as the global rendered sample count": a message
\* that arrives in time is not yet due in what had been rendered then, so that
\* render() can play it at its sample.
DueAhead ==
    midi = "stamped" /\ InTime /\ jitter = 0 => timestamp >= countSnapshot
=============================================================================
