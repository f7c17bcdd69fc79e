# A TLA+ model of the FB-01 emulator

The repository emulates Yamaha's FB-01 FM sound module in software. Windows
applications reach it through a user-mode MIDI driver; a second part emulates
the IBM Music Feature Card, an FB-01 on an ISA card, for DOSBox and for real
DOS machines. This directory holds TLA+ modules translated from the source, the
TLC configurations that check them, and proofs that TLAPS checks.

    tlc -config MCSynth.cfg MCSynth            # one run
    tlapm SynthProofs.tla                      # the proofs of a module

`PROJECT.json` lists every run, maps each definition to its lines of source and
lists the hazards the properties were written for.

## The system

| Component (source) | State | Operations | What is hard | Module |
|---|---|---|---|---|
| MIDI event queue (`fb01emu/src/MidiEventQueue.h`, `Synth.cpp`) | ring buffer, start and end positions | push, peek, drop, reset | one writer and one reader without a lock | `MidiEventQueue`, `EventFifo` |
| Synth (`fb01emu/src/Synth.cpp`) | queue, sample clock, time the emulated cable is free | open, close, playMsg, playSysex, render, flush | 32-bit time wraps; messages are queued during a run | `Synth` |
| Playback position (`src/FB01Synth.cpp`, `GetPos`) | last position | GetPos | device counter wraps at 2^27; two threads | `PlayPosition` |
| Timestamps and the audio buffer (`src/FB01Synth.cpp`) | frames rendered, chunks or looped buffer | getMIDIEventTimestamp, RenderAvailableSpace | two counts read at different times, laps of a ring | `MidiTimestamp` |
| Driver synth and audio thread (`src/FB01Synth.cpp`) | synth, events, audio chunks, thread | Init, PlayMIDI, Reset, Close, rendering thread | reset against rendering, thread exit, lost wakeups | `FB01Synth` |
| winmm driver interface (`src/winmm_drv.cpp`) | drivers, clients, window of a synth application | DriverProc, modMessage | several clients; fallback from application to local synth | `WinmmDriver` |
| MIDI In (`src/winmm_drv.cpp`) | linked list of buffers, pending dumps | open, close, start, stop, add, reset, SendMidiData | two threads; list shared with the application | `MidiIn` |
| MIDI stream parser (`fb01emu/src/MidiStreamParser.cpp`) | stream buffer, running status | parseStream, processShortMessage | fragments, realtime bytes inside messages | `MidiStreamParser`, `MidiStream` |
| VFB-01 voices (`3rdparty/VFB-01/vfb01.c`, `vfb_device.c`) | configuration, slots of each instrument, key-on register | notes, program change, parameters, All Notes/Sound Off | allocation of voices; configuration and notes mixed | `Fb01Voices` |
| VFB-01 controllers and system exclusive (`vfb01.c`) | RPN/NRPN state, voice banks | control changes, dumps, node messages | message sequences, packets with checksums | `Fb01Controllers`, `Fb01Exclusive` |
| Music Feature Card (`DOSBox/hardware/IMFC.cpp`) | PIU registers, FIFO, status, MIDI filter | port reads and writes, events | FIFO against MIDI callback | `ImfcCard`, `ImfcFilter` |
| PIT 8254 (`PIT_8254.cpp`, `IMFC_PIT` in `IMFC.cpp`) | three counters, one status latch | control words, counts, read-back | low/high flip-flops, latches, pending events | `Pit8254` |
| SoftIMFC (`SoftIMFC/`) | filter, trapped ports | port handlers | the same filter | `ImfcFilter` (in part) |

How the parts interact. An application's thread calls the driver, which gives
its bytes to a parser; the messages go to a synth application, if there is one,
or to the synth in the process. For the latter the driver asks `GetPos` for the
playback position, makes a timestamp of it and pushes the message to the queue.
The rendering thread of the driver refills audio chunks: under `synthEvent` it
calls `Synth::render`, which peeks and drops messages and hands each, at its
sample, to VFB-01, which writes the registers of the chip. VFB-01 answers dump
requests through `SendMidiData`, in the rendering thread, to the buffers an
application lent to MIDI In. A reset takes `synthEvent`, closes and reopens the
synth. On the DOSBox side a program writes bytes to the card, which filters them
to an FB-01 on a MIDI port and stores what comes back in a FIFO; the card's
timers and the FIFO raise one interrupt between them.

What makes each part correct: the queue loses, doubles and reorders nothing and
its slots are never read half written; a message sounds at its sample, however
the clock wraps; the position is that of the device, and what is made of it
gives every message the same latency; the synth outlives its users and no call
hangs; a stream is parsed the same however it is cut; the counts of drivers and
clients are right, and but for a full queue a call that loses a message says so;
dumps arrive whole and in order, and a dump sent back restores its bank; each slot
has a voice for itself, pressed keys sound and released ones do not hang; what a
program sends through the card is conserved, what it receives is taken in order
as long as it reads what is there, and the timers keep running.

## Modules

**`EventFifo`** is what the queue promises: a bounded FIFO whose head may be
looked at and then dropped.

**`MidiEventQueue`** is the ring buffer at the granularity of its shared
accesses. The writer tests `isFull` (`PushBegins`, `PushRefused`), fills the
slot (`SlotTorn`, `SlotFilled`: for a while the slot is half written) and
publishes `endPosition`; the reader peeks, holds the pointer through
`render()`, and drops. The stores are taken in program order, as on x86.

**`Synth`** has the queue as a sequence, which the refinement proof allows.
`PlayMsg`/`PlaySysex` add the delay of the emulated cable and push; `render()`
is split at each run of samples, so that messages are pushed between the
decision on a run and its end. Words wrap at `Modulus`. Beside each word the
model carries the true relative time, which the properties compare with.

**`PlayPosition`** is `GetPos()`: snapshot, question to the device, and write of
`prevPlayPosition` are three steps of each thread. The device is exact, or its
counter may fall back, but not across a wrap unless `FallsAcrossWrap` is set.

**`MidiTimestamp`** extends it with both threads' use of the position. The
rendering thread refills chunks, or what the device has played of one looped
buffer (`RenderToEnd`, `RenderToPlayPosition`); the other thread reads
`renderedFramesCount`, asks for the position and computes the frame. The
conversion between sample rates is a product and a quotient cut to a word.

**`FB01Synth`** is the life cycle: `Init`, `PlayMIDI`, `Reset`, `Close` in
steps, the rendering thread's loop (test, scan, lock, render, write, wait), the
two auto-reset events, and the device, which plays chunks in order. A failed
`open()` during a reset leaves a synth that `render()` cannot use: the crash
that follows is a step, and after it nothing moves.

**`WinmmDriver`** has the tables of drivers and clients, the window of the synth
application, and calls in steps, for `modMessage()` takes no lock: the window is
sought, the synth opened or closed and `synthOpened` set, a slot found, taken
and given its parser, each a step of its own (`Opening`); a message is decided on
(`Decide`), sent to the application (`CopyData`), which may have ended
(`FallBack`, `InitAgain`, `SynthOpened`), or played here. The application may
start or end between any two of them. What a parser makes of a buffer is a number
of messages, and a message that is played here may meet a full queue (`Outcomes`).
`Serial` says whether the process makes one call at a time; everything claimed of
the driver is claimed for such calls.

**`MidiStream`** promises that the messages passed on are those that reading the
stream byte by byte yields (`Take` for one byte, `ReadBytes` for several);
**`MidiStreamParser`** has a step for each turn of the loop in `parseStream()`,
which reads many bytes or none (`BytesIn` is what its loops pick out of them), and
implements it. Dumps longer than the largest buffer may be dropped.

**`MidiIn`** has the linked list as `lpQueueHdr` and `lpNext`, the critical
section `midiInLock`, and a dump as an interval of numbered bytes.
`ProcessPending` is split where the other thread may intervene: the test before
the critical section, the entry, each copy.

**`Fb01Voices`** has one action per MIDI message, with the refresh of all slots
that ends `vfb01_doMidiEvent()` inside each. The order of the writes to the
key-on register matters (a shared voice takes the last one) and a voice above
the last carries into the operator mask, as the sum in `freq_write()` does.
The counter `step` is kept only while a slot is pressed, the only time it can
be read before it is reset. The pairs `pressedBefore` record which of two pressed
slots was pressed first, independently of `step`, for the property that the oldest
key is stolen. `BaseVoice` is the sum of the notes of the instruments before.
Messages come on any of `Channels` and an instrument may be given any channel, as
nothing in the code checks it; but `note_on()` presses the note on the instrument
with the number of the channel, and for a channel beyond the last instrument it
would write beyond `instrument_map`. `NoteOn` is for the others.

**`Fb01Controllers`** has the control changes, with the numbers that say what a
data entry is for, on every channel, and the resets. **`Fb01Exclusive`** has the
dispatch of exclusive messages, the three dumps and the node message down to the
bytes of a packet; a voice and the name of a bank are one byte each, and `Or`
joins the halves of a byte bit by bit, as `|` does. A librarian
program keeps a dump and sends it back, to any bank, over a line that may spoil
a byte. `voice_banks` comes from `malloc()`, so that a bank is anything at the
beginning. `hold` and `portament_on` are stored but nothing reads them.

**`ImfcFilter`** has `IMF_MIDIFilter` and `IMF_CommandFilter`, one step per byte.
**`ImfcCard`** adds the ports, the interrupt, the timers' events and the FIFO:
`AddToFifo` sets RxRDY, raises the interrupt, stores each byte and moves the
position on; `GetFromFifo` loads an entry, compares the positions and moves one
or clears RxRDY, and asks for the interrupt again. All of these are steps, and
those of the callback come between any two of a port read. As in the
code `rxRDYInt` and `txRDYInt` are never cleared, and `Initialize` resets neither
the filter nor the FIFO.

**`Pit8254`** has the counters with their flip-flops and latches, and the events
`IMFC_PIT` schedules. The card never opens the gates of its counters, on which
the class latches no count; a program of the model may, as the class allows.

## Runs

| Run | Question | Bounds |
|---|---|---|
| `queue` | no race, stable held message, inductive invariant, refinement of `EventFifo` | 4 slots, 3 messages (symmetric): positions wrap without limit |
| `synth` | messages sound on time, in the cable's bandwidth, and all of them do | the clock wraps after 14 samples, for ever; the driver's use, and all delay modes, flushes and queue sizes |
| `driver_synth` | no rendering inside a reset, synth outlives its thread, a chunk has one owner, no wakeup lost, calls return | 2 application threads, 2 chunks, `open()` may fail |
| `timestamp` | positions are true, no frame is overwritten unplayed, the latency is constant, no message waits longer | 2 threads, a counter of 8 values and 18 samples played, a buffer of 2 chunks of 2; both kinds of buffer, a device that is exact or falls back by one sample |
| `timestamp_rate` | violated: a message in time is not due in what was rendered before | the same, an exact device |
| `winmm` | counts are right, one synth at a time, a call that succeeds has lost no message but by a full queue | 2 drivers, 2 clients, 2 callers and 2 handles (both symmetric), one call at a time, an application that comes and goes between its steps |
| `midi_in` | dumps arrive in order and complete, none waits beside a free buffer, calls return | dumps of 1 and 2 bytes; a buffer of 1 and one of 2, 3 bytes in all and an application that may stop, or three buffers and 2 bytes |
| `parser` | the parser implements `MidiStream`, stays in its buffer, and calls return | buffers of 3 and 5 bytes; all fragments of 2 bytes over 8 bytes, of 3 over 5, and six longer ones |
| `voices` | voices disjoint, pressed slots sound, no note hangs, the oldest key is stolen, a program reaches its instruments | a chip of 2 voices and 3 channels; 3 keys and 4 messages while a key is held, or 1 key and all messages |
| `exclusive` | dumps restore their bank and its tones, spoilt packets are reported, a data entry finds what was selected | 2 instruments, 2 channels, 2 banks of 2 voices, up to 5 parameter numbers and 2 node messages |
| `imfc_card` | a read of a FIFO that holds a byte takes the next, sent bytes conserved, interrupts go on | a FIFO of 4 entries, 6 programs |
| `pit` | counts written and read whole, one owner of the status latch, timers keep running | counts of two one-bit bytes, 3 programs |

Why the bounds are enough. Two slots and three keys are the least with which a
key is stolen and with which age, order of slots and order of notes differ. Two
chunks let one play while the other is filled, and two threads give every pair
of calls. Four slots let the ring be full, empty and wrapped, and the proofs
remove this bound. Two buffers of different sizes let a dump end inside a
buffer, at its end and beyond it; a third makes the walk along the list a step of
its own. `Synth`'s modulus only has to exceed twice the
longest time a message is ahead or a run lasts, and the size of the queue, as the
constants' assumption says. In `timestamp`
the device's counter wraps twice and the looped buffer four times. Two clients
fill the table, so that a third call finds none free. A parser's buffer of three
bytes holds one message, grows once, and then overflows. Two channels and two
instruments tell a channel's number from another's, and two node messages let a
bank change between a dump and its return. A third channel is the number of no
instrument. A FIFO of four entries is filled by a message of three bytes, and
wrapped by the next. A byte of one bit tells the lower from the
upper half of a count and zero from a value, which is all the latches depend on.

Each module has a type invariant besides; those of `MidiStreamParser` (whose
bound on the buffer is a property) and, within `QueueInv`, of `MidiEventQueue`
are checked by the runs, and the others hold in the same configurations.

`CHECK_DEADLOCK FALSE` is set in the configurations of `Fb01Voices` and
`Fb01Exclusive`: their bounds (`maxStep`; `maxSelections`, `maxStores`) stop all
messages of some uses in the end.

Fairness. `Synth`: the rendering thread goes on, as the device asks for samples
for ever. `FB01Synth`: threads are scheduled, the device plays what it was given,
and a thread that waits for an event is woken in turn (strong fairness for the
two waits: Windows queues the waiters of an event); no application has to call
anything. `MidiIn`: a call goes on, and one that waits for the critical section
gets it. `MidiStreamParser`: a call goes on from one turn of its loop to the
next. `ImfcCard`: pending timer events fire, the callback returns, a requested
interrupt is taken and its handler, which reads one byte, ends (strong fairness
for the interrupt, which other interrupts may delay). The other modules state
safety only.

Environment assumptions, each named in its module. The driver opens and closes
the synth when no other call is under way. The device is asked for its position
more often than it wraps, and does not fall back across a wrap. An instrument's
parameters 0 to 3 change only while none of its keys is down, and the numbers of
notes fit in the chip: nothing in the code bounds their sum (`vfb_device.c:108`
says so). Notes come on channels that are numbers of instruments. Calls of winmm
come one at a time, a driver is closed after its clients, and the local synth
opens again in a reset. Programs send the card whole messages, and the FB-01
answers on channel 1. The accesses of the card's callback and port reads to the
FIFO interleave in every way, but take effect in the order of the source, and a
position is written once: a build that stored `++outWritePos` before it is
compared with the size would show it beyond the FIFO for a moment.

## What the code does differently

Run `timestamp_rate` is expected to fail; `PROJECT.json` quotes the lines that say
otherwise. `getMIDIEventTimestamp()` converts frames of 44.1 kHz to samples of
32 kHz, but the clock of the synth counts the frames it renders. The timestamp
falls behind the clock, and a message is played when it arrives and not at its
sample.

Other assumptions of the passing runs are constants or are named in the modules.
The following properties, which the modules state with what the source says
about them, do not hold without them. The configurations named in the first
column are in this directory; for the others, give the configuration of the run
the constants shown and the property as its only one (without `SYMMETRY`).

| Configuration | Property | What the counterexample shows |
|---|---|---|
| `MCSynthSilence` | `NotBeforeTimestamp` | after a silence of half the clock's range a message is taken for a late one and played at once |
| `MCFB01SynthNoMemory` | `RenderNeedsOpenSynth` | after a reset that finds no memory the rendering thread uses a closed synth |
| `MCFB01SynthPush` | `QueueOutlivesPush` | a push takes no lock against a reset |
| `MCMidiTimestampReopen` | `NeverWaitsLonger` | `renderedFramesCount` survives a reopen: messages wait as long as the first session lasted |
| `MCMidiTimestamp`, `MaxPlayed = 70`, `DeviceModes <- ExactDevice` | `PositionIsTrue` | `wrapCount << WRAP_BITS` loses its upper bits, after 27 hours: the position falls back to 0 |
| `MCMidiTimestamp`, `FallsAcrossWrap = TRUE` | `PositionIsTrue` | a device that falls back across a wrap adds a whole wrap |
| `MCMidiTimestamp` | `NeverGoesBack` | two threads overwrite each other's position, and one goes backwards |
| `MCMidiTimestamp`, `DeviceModes <- JitterChunks` | `LatencyKept` | a counter that lags behind the chunks it is done with adds a buffer to the latency |
| `MCMidiTimestamp`, `DeviceModes <- JitterRing` | `RendersAvailableSpace` | in the looped buffer it makes the thread render a whole lap |
| `MCMidiTimestamp`, `MidiLatency = 1` | `NeverWaitsLonger` | the unsigned subtraction wraps; by default `midiLatency` includes the buffer |
| `MCMidiInReturned` | `CopyIntoQueued` | a buffer sent back stays in the list, and later dumps are written to it |
| `MCMidiInRecycle` | `MidiInReturns` | adding a returned buffer links it to itself: `midiInReset` never returns |
| `MCMidiIn` | `CallbacksWhenOpen` | a closed device is called back |
| `MCFb01VoicesReset` | `NonePronouncing` | All Sound Off after the numbers of notes were changed: a voice beyond the last carries into the operators and keys a voice *on* |
| `MCFb01Voices`, `Uses <- OnlyPlaying` | `ReleasedKeysQuiet` | a note-off never keys a voice off |
| `MCFb01Voices`, `Uses <- ChannelsChange` | `HeldKeysPressed` | a note is played by the instrument with the channel's number |
| `MCFb01Voices`, `Uses <- HoldsUnvoiced` | `HeldKeysPressed` | a key pressed on an instrument without notes hangs once it is given some |
| `MCFb01VoicesReset`, `Uses <- ChannelBeyond` | `NotesStayInMap` | an instrument is given a channel beyond the number of instruments: `note_on()` writes beyond the map (`vfb01.c:417`) |
| `MCFb01Voices`, `Uses <- VoicesChange` | `ParameterLoaded` | the parameter `voice` loads its tone into other voices |
| `MCFb01Exclusive`, `Uses <- VoiceDumps` | `AnswersWellFormed` | the dump of one voice ends with `F0` (`vfb01.c:786`) |
| `MCFb01Exclusive`, `Uses <- ConfigDumps` | `AnswerNamesSystem` | the dump of the configuration takes its source from another byte (`vfb01.c:855`) |
| `MCFb01Exclusive`, `Uses <- RomDumps`, `Banks = {1, 5}` | `DumpNamesBank` | the dump of bank 5 says bank 1 (`vfb01.c:823`) |
| `MCFb01Exclusive`, `Uses <- RomDumps`, `Banks = {1, 5}` | `RomKept` | a node message stores a bank that is ROM (`vfb01.h:186`) |
| `MCFb01Exclusive`, `Uses <- ConfigDumps` | `HandledAsDocumented` | messages that the comments of `fb01_exclusive()` list do not reach their handlers: an upper half of a byte is compared with 1 |
| `MCMidiStreamParser` | `NothingHeldBack` | a message of one byte waits for the next one |
| `MCMidiStreamParser`, `Fragments <- LongFragments` | `ParserTypeOK` | a first fragment longer than the largest buffer is stored beyond it |
| `MCWinmmDriver` | `ParserAlive` | with all slots taken, opening one more gives client 0 another parser |
| `MCWinmmDriver` | `InstanceGiven` | a client opened on the local synth sends to an application that knows nothing of it |
| `MCWinmmDriver`, `MayReopen = TRUE` | `Counted` | reopening a driver forgets the number of its clients |
| `MCWinmmDriver` | `NoSilentLoss` | a message finds the queue full (`Synth.cpp:375`): `PlayMIDI()` drops the result, and the call reports success |
| `MCWinmmDriverThreads` | `OneSynth` | one call closes the local synth while another takes it for open; `Counted` and `LostOnlyToFullQueue` are violated in this configuration, too |
| `MCWinmmDriverReset` | `LostOnlyToFullQueue` | the synth fails to open in the reset of a close and is taken for open |
| `MCImfcCardPreempted` | `BytesInOrder` | a read loads an entry of the empty FIFO, then a byte is stored, and the read takes the old entry for it |
| `MCImfcCardBrokenOff` | `BytesConserved` | the filter keeps its position when a message is broken off |
| `MCImfcCard` | `Announced` | a handler that reads after the interrupt and before the byte is stored clears RxRDY: the byte waits unannounced |
| `MCImfcCard` | `BytesTaken` | and is not taken, until another one comes |
| `MCImfcCard` | `EnabledReadInterrupts` | enabling the interrupt while data waits raises none |
| `MCPit8254` | `OneEventPending` | a count after a control word adds an event to the one pending: two per period |
| `MCPit8254` | `OwnDelay` | a count for counter 2 schedules timer B with the delay of counter 2 |

## Proofs

TLAPS proves, for every value of the constants, what the runs check on small
instances: every safety property of every passing run and both refinements. Each
proof begins with the invariant that is inductive, which TLC checked before it was
proved, and has a lemma per action.

| Module | About | Theorems (property) | Hypotheses beside the constants' assumptions |
|---|---|---|---|
| `SynthProofs` | `Synth` | `SynthTypes`, `MessagesPlayOnTime` (`PlayedOnTime`), `CableIsNotExceeded` (`InterfaceBandwidth`) | `~LongSilence` |
| | `MidiEventQueue` | `TypeCorrect`, `QueueInvariant`, `RaceFree` (`NoDataRace`), `HeldEventIsStable`, `RingBufferImplementsFifo` (`EventFifo`) | none |
| `MidiTimestampProofs` | `PlayPosition`, `MidiTimestamp` | `PositionsAreTrue` and `DriverPositionsAreTrue` (`PositionIsTrue`), `RenderingFollowsDevice` (`RendersPlayedFrames`), `LatencyIsConstant`, `NoMessageWaitsLonger` (`NeverWaitsLonger`) | `MaxPlayed < DwordModulus`, `~FallsAcrossWrap`, and see below |
| `FB01SynthProofs` | `FB01Synth` | `RenderingExcludesReset`, `SynthOutlivesItsThread`, `ChunksAreOwned` | none |
| | `Fb01Controllers` | `SelectionHeard` (`SelectionIsHeard`) | none |
| | `Fb01Exclusive` | `DumpsRestore` (`DumpRestoresBank`), `HarmReported` (`HarmIsReported`) | `RequestsNameBanks` |
| `Fb01VoicesProofs` | `Fb01Voices` | `TypeCorrect`, `SlotsHaveVoices` (`VoicesDisjoint`), `PressedSlotsSound` (`PressedKeysSound`), `ProgramsReachVoices` (`ProgramLoaded`) | none |
| | | `NoNoteHangs` (`HeldKeysPressed`), `FirstKeyGivesWay` (`OldestKeyStolen`) | `ChannelsKept`, `HoldsVoiced` |
| `MidiInProofs` | `MidiIn` | `DumpsArriveInOrder` (`DumpsInOrder`), `NothingWaitsForBuffers` (`NothingWaits`) | none; `~MayRecycle` for the second |
| `WinmmDriverProofs` | `WinmmDriver` | `CountsAreRight` (`Counted`), `CountsFitArrays` (`TypeOK`), `MessagesHaveOnePlace` (`OneSynth`), `LostToFullQueueOnly` (`LostOnlyToFullQueue`) | `Serial`; `~MayReopen` for the first two, `~ResetMayFail` for the others |
| | `MidiStreamParser` | `BufferIsBounded` (`ParserTypeOK`), `MessagesSurviveFragments` (`ParsesStream`: the parser implements `MidiStream`) | `FirstPartsFit` |
| `ImfcCardProofs` | `ImfcCard`, `ImfcFilter` | `HeldBytesAreTakenInOrder` (`HeldBytesInOrder`), `StreamIsConserved` (`BytesConserved`) | none; `~MayBreakOff` for the second |
| `Pit8254Proofs` | `Pit8254` | `CountsAreLoaded`, `CountsAreReadWhole`, `OneStatusIsLatched`, `TimersGoOn`, `CountsFit` (`TypeOK`) | none |

A module of proofs about two components takes the one and what it drives: the
synth and its queue, the driver's synth and the messages of the VFB-01 in it, the
driver and the parser of each client. The parts share no state.

The hypotheses are those under which the runs pass; without each of them the code
does not have the property, and the table above shows how. They stand for what
the driver's surroundings do: no silence of half the clock's range, which is 18
hours; a device that does not fall back across the wrap of its counter; less
than 2^32 samples played since the device was opened, which is 27 hours; buffers
that an application does not lend again, drivers closed after their clients and
calls made one at a time; a synth that opens again in a reset; sessions in which
the channels of instruments stay as they are while notes are played and no key is
pressed on an instrument without notes (`ChannelsKept`, `HoldsVoiced`), and system
exclusive messages of which no part longer than the largest buffer comes alone
(`FirstPartsFit`). `RequestsNameBanks` is not in the
table: `each_voice_bulk_data_dump()` does not check the number of the bank it is
asked for, and what it dumps for one beyond the last is not in the model.

`LatencyIsConstant` and `NoMessageWaitsLonger` presume `MidiLatency >= BufferSize`
besides, as the driver's defaults have it, and that adding the latency to what was
played overflows no word; the latter also a synth whose clock is not the faster
one and looped buffers played by exact devices.

The assumptions on the constants are few: sizes of ring buffers are powers of 2
(stated by what masking needs of them), words wrap at an even number, and what
may lie between two times in words is less than half of that. `ClockAssumption`
bounds how far a message is ahead, and how long a run is, by half the clock less
the size of the queue: a queue of messages that are all due is played one sample
after the other, so the last may fall that far behind and must still be seen as
late. In the code, half the clock is 2^31, runs are at most 4096 samples and the
queue at most 2^24 messages.

How the arguments go:

- **Queue.** `NoDataRace` alone is not inductive: nothing in it says that the
  slot the writer found free is still free, nor that the reader's pointer is the
  oldest message. `QueueInv` adds that: occupied slots hold whole messages, a
  writer that has begun has room, what it will publish is what it was given, and
  the reader's pointer is `startPosition` of a queue that is not empty. The
  writer alone moves the end and the reader the start, away from each other's
  claim. For the refinement the queue is the sequence of occupied slots:
  publication appends to it, a drop takes its head, and filling a slot that is
  not occupied leaves it alone.
- **Synth.** `PlayedOnTime` speaks of one message at one moment. `SynthInv` says
  for every message in the queue how its word and its relative time agree
  (`DueInv`), and that none falls behind by more than `Lag`, so that no word turns
  over; what is due first is not due inside a run that has begun, unless it came
  after (`HeadInv`). Lemmas about words (`SignedDifference`, `SignedAdvances`)
  show that the sign of a wrapped difference is right within half a turn, and
  `DelayInWords` that the delay computed in words is the one meant. `CableInv`
  keeps delayed messages apart, the last of them before `receivedIn`.
- **Position and timestamps.** `PositionInv` relates each thread's snapshot to
  what the device had played when it was taken, so that a step of the counter is
  read as less than half a wrap forward; `TimestampInv` adds what each thread
  knows of frames rendered. The conversion of rates needs only that a quotient of
  products keeps order.
- **Driver synth.** The event `synthEvent` is shown to be a lock (`LockInv`):
  whoever is between its wait and its set holds it. `LifeInv` says what
  `synthOpened` excludes and that only one thread closes.
- **MIDI In.** Received and pending parts of dumps are one chain of consecutive
  intervals (`DumpsInv`), of which copying moves a link or splits one. `ListInv`
  and `WaitInv` say which thread will look again at the list, and hold only
  while buffers are not reused.
- **winmm driver.** A count is the cardinality of a set of slots; the slot that a
  call has found is free until the call takes it (`CountInv`), as no other call is
  under way (`SerialInv`). `SynthInv` says for each step of a call what it finds of
  window and synth, and `LossInv` that a call that lost a message has no synth at
  the end, and so reports it.
- **Card.** Bytes are numbered as they arrive; the FIFO between its positions
  holds consecutive numbers (`StoredInv`), and what a read that found a byte has
  loaded is the next of them (`ReadInv`): the callback stores only in entries
  outside the positions, and the reader alone moves the reading one. The filter's
  invariant says in which positions of a list it can be, so that what it keeps and
  what it has sent are always the stream.
- **PIT.** `WriteInv` and `ReadInv` relate the flip-flops of a counter to the
  bytes written and the byte read so far, `EventInv` the pending events to the
  mode; each speaks of one counter, so that a step is a case per counter.
- **Voices.** After every message all slots are refreshed, whatever the message
  was. So that refresh is described once: which voices a slot has (prefix sums of
  the notes of instruments, `SlotsDisjoint`), and that the last write to the key-on
  register of a voice is the one of its slot. `VoicesDisjoint` and
  `PressedKeysSound` follow for every step. `KeysInv` says that an instrument hears
  its own channel, that every pressed slot plays a key that is down, and that of
  two pressed slots the one with the greater `step` was pressed first; for this a
  step that presses a key gives it the least `step` and makes the others older.
- **Controllers.** `SelectionIsHeard` speaks of a whole number, but a message
  carries half of it. `HalvesHeard` speaks of each half: it is what the last
  control change in the channel's history says, where a number of the other kind
  counts as none.
- **Exclusive.** A bank is taken apart and put together again: `Or` of the halves
  of a byte is the byte, a packet's data are where the handler reads them
  (`PacketsAreAt`), and a sum of bytes of which one changed by less than the
  modulus of the checksum differs from it. `DumpsInv` ties the answer kept by the
  librarian to the bank it was made of.
- **Parser.** `ParserInv` adds to the bound that what is left to parse is the end
  of a fragment (`ReadFrom`), so that `FirstPartsFit` applies to it, and that a
  short message in the buffer begins with its status and is no longer than that
  says (`ShortMessageFits`). For the refinement, lemmas about `Take` for each kind
  of byte are carried over any number of bytes by induction on the place in the
  fragment (`AlongFragment`): while no byte completes the message, reading byte by
  byte keeps what `BytesIn` picks out and passes on the realtime messages
  (`DataCollected`, `SysexCollected`). Each turn of the loop is then one of these
  runs and at most one byte more that completes a message, ends it, or breaks it
  off. The step reads no byte at all where the message in the buffer was already
  complete; it is `PassOn`, and the running status taken for the one that is left
  out is `Resume`.

Recursive definitions are recursive functions, so that the existence of each
function, and with it what it does at the next place, is proved where it is used
(`TakenExists`, `ParseExists` and the sums of `Fb01VoicesProofs`), by induction
with the least counterexample.

Model-checked only: the liveness properties (`MessagesDrain`,
`ChunksKeepPlaying`, `InterruptsGoOn`, `CallsReturn`, `MidiInReturns` and
`ParserReturns`), since liveness under fairness and ENABLED are out of the
prover's reach. `DueAhead` is false, and its run expects that.

## Not modelled

- The YM2151 emulator (MAME code), `pcm8.c` and `vfb_opmvoice.c`: arithmetic on
  samples, and parsing of text files that the driver does not use. The registers
  of the chip are modelled where notes depend on them: key-on and the loaded tone.
- Pitch, volume and envelopes: what `vfb_device.c` writes to the registers of a
  voice is arithmetic; modulation depth and pan position go nowhere else.
- `MT32Synth` is not part of the build. The settings of the driver are read once
  and are constants here.
- The setup program: a sequence of calls of the registry and of the file system,
  each followed by a message box; what they leave behind is decided by Windows.
- SoftIMFC but for its filter: its ports answer constants or the last byte
  written, and the rest asks memory managers, in assembler, to trap the ports.
- Of `winmm_drv.cpp`: loading and freeing, the device's capabilities, time stamps
  and the callbacks of MIDI Out. Realtime bytes are dropped
  (`winmm_drv.cpp:697`) and are not among the messages of `WinmmDriver`. What
  calls that interleave do is modelled step by step, but nothing is claimed of it
  (`MCWinmmDriverThreads`). The messages that follow a failed fall back in the
  same call go to a synth that did not open; the model has them lost, not what
  the code does with the synth.
- Errors of waveOut: a device that cannot be opened, paused, resumed, written to
  or asked for its position. What may fail in `FB01Synth` is `Synth::open()`.
- The pointer `evfb` of `vfb01.c`, which `vfb01_init()` sets once
  (`vfb01.c:223`) and which a close and reopen of the synth leaves pointing at
  what was freed; the modules of the VFB-01 begin with a session and have one.
- What a note on a channel beyond the number of instruments overwrites
  (`vfb01.c:417`).
- Of the card: a short message with status 0, for which the code adds an
  uninitialised number of bytes, and the constructor and destructor. (The
  destructor neither removes the pending timer events nor unprepares the header
  of MIDI In.)
- `MidiStreamParser.h:63` says that the buffer begins with 1000 bytes;
  `globals.h:92` has 8192. The model takes any capacity of three or more.

## What could be added

No safety property of a passing run is without its theorem. Beyond what is
modelled the project could grow by:

1. the settings of the driver as a module of their own, once they can change
   while it runs;
2. the ports of SoftIMFC, whose handlers would share `ImfcCard`'s filter;
3. the composition of `MidiTimestamp` with `Synth`, which would state the latency
   from an application's call to the sample that is heard.
