---------------------------- MODULE MidiEventQueue ----------------------------
(***************************************************************************)
(* The ring buffer between the thread that plays MIDI messages (the        *)
(* writer) and the thread that renders (the reader).  It has no lock: its  *)
(* header says it is safe with one thread that only reads and one that     *)
(* only writes.  The model interleaves the two threads at every access one *)
(* of them makes to what the other can see.                                *)
(*                                                                         *)
(* A step of a thread reads or writes at most one location that the other  *)
(* thread writes, so a position is read and tested in one step.  The two   *)
(* positions are volatile: they are read and written in program order.     *)
(* Filling a slot is not one step: setShortMessage and setSysex free the   *)
(* old message and then assign field after field, and meanwhile the slot   *)
(* holds neither message (Torn).                                           *)
(***************************************************************************)
EXTENDS Naturals, Sequences

CONSTANTS
    Events,           \* the messages with their timestamps
    NoEvent,          \* a slot the constructor has zeroed; also a NULL pointer
    Torn,             \* a slot that is being filled
    RingBufferSize    \* number of slots, a power of 2

\* Positions are masked with RingBufferSize - 1.  For a power of 2 the mask is
\* the remainder, which is how NextPosition states it.
ASSUME RingBufferSizeAssumption ==
    /\ RingBufferSize \in Nat \ {0}
    /\ \E k \in 0 .. 24 : RingBufferSize = 2^k

ASSUME EventsAssumption ==
    /\ NoEvent \notin Events
    /\ Torn \notin Events
    /\ Torn # NoEvent

VARIABLES
    ringBuffer,       \* the slots
    startPosition,    \* the oldest event; only the reader moves it
    endPosition,      \* the first free slot; only the writer moves it
    writer,           \* where the writer is in pushShortMessage/pushSysex
    pushing,          \* the event the writer was given
    newEndPosition,   \* the writer's local variable
    accepted,         \* what the last push returned
    reader,           \* whether the reader holds a pointer to a slot
    held              \* the slot that pointer refers to

queueVars == <<ringBuffer, startPosition, endPosition>>
writerVars == <<writer, pushing, newEndPosition, accepted>>
readerVars == <<reader, held>>
ringVars == <<queueVars, writerVars, readerVars>>

Positions == 0 .. RingBufferSize - 1

NextPosition(p) == (p + 1) % RingBufferSize

QueueInit ==
    /\ ringBuffer = [p \in Positions |-> NoEvent]
    /\ startPosition = 0
    /\ endPosition = 0
    /\ writer = "idle"
    /\ pushing = NoEvent
    /\ newEndPosition = 0
    /\ accepted = TRUE
    /\ reader = "idle"
    /\ held = 0

-----------------------------------------------------------------------------
(* The writer: pushShortMessage and pushSysex *)

IsFull == startPosition = NextPosition(endPosition)

\* The ring buffer is full: the push returns false.
PushRefused ==
    /\ writer = "idle"
    /\ IsFull
    /\ accepted' = FALSE
    /\ UNCHANGED <<queueVars, writer, pushing, newEndPosition, readerVars>>

\* Mutant: the test for a full ring buffer is forgotten.
PushBeginsUnchecked(e) ==
    /\ writer = "idle"
    /\ writer' = "filling"
    /\ pushing' = e
    /\ newEndPosition' = NextPosition(endPosition)
    /\ UNCHANGED <<queueVars, accepted, readerVars>>

\* A slot is free: from here the push cannot fail.
PushBegins(e) ==
    /\ writer = "idle"
    /\ ~IsFull
    /\ writer' = "filling"
    /\ pushing' = e
    /\ newEndPosition' = NextPosition(endPosition)
    /\ UNCHANGED <<queueVars, accepted, readerVars>>

\* The old message of the slot is freed and its fields are being assigned.
SlotTorn ==
    /\ writer = "filling"
    /\ writer' = "filled"
    /\ ringBuffer' = [ringBuffer EXCEPT ![endPosition] = Torn]
    /\ UNCHANGED <<startPosition, endPosition, pushing, newEndPosition,
                   accepted, readerVars>>

\* Mutant: the fields go to the slot after the one that was freed.
SlotFilledWrongSlot ==
    /\ writer = "filled"
    /\ writer' = "publish"
    /\ ringBuffer' = [ringBuffer EXCEPT ![newEndPosition] = pushing]
    /\ UNCHANGED <<startPosition, endPosition, pushing, newEndPosition,
                   accepted, readerVars>>

\* Every field of the slot is written.
SlotFilled ==
    /\ writer = "filled"
    /\ writer' = "publish"
    /\ ringBuffer' = [ringBuffer EXCEPT ![endPosition] = pushing]
    /\ UNCHANGED <<startPosition, endPosition, pushing, newEndPosition,
                   accepted, readerVars>>

\* The new end position makes the slot visible to the reader.
Publish ==
    /\ writer = "publish"
    /\ writer' = "idle"
    /\ endPosition' = newEndPosition
    /\ accepted' = TRUE
    /\ UNCHANGED <<ringBuffer, startPosition, pushing, newEndPosition,
                   readerVars>>

Writer ==
    \/ PushRefused
    \/ \E e \in Events : PushBegins(e)
    \/ SlotTorn
    \/ SlotFilled
    \/ Publish

-----------------------------------------------------------------------------
(* The reader: peekMidiEvent and dropMidiEvent *)

IsEmpty == startPosition = endPosition

\* Mutant: the test for an empty ring buffer is forgotten.
PeekUnchecked ==
    /\ reader = "idle"
    /\ reader' = "holding"
    /\ held' = startPosition
    /\ UNCHANGED <<queueVars, writerVars>>

\* peekMidiEvent returns a pointer into the ring buffer, which the reader
\* follows for as long as it holds it; on an empty buffer it returns NULL.
Peek ==
    /\ reader = "idle"
    /\ ~IsEmpty
    /\ reader' = "holding"
    /\ held' = startPosition
    /\ UNCHANGED <<queueVars, writerVars>>

\* The event is not due: it stays queued and will be peeked again.
Release ==
    /\ reader = "holding"
    /\ reader' = "idle"
    /\ UNCHANGED <<queueVars, writerVars, held>>

\* dropMidiEvent after the event was played.
Drop ==
    /\ reader = "holding"
    /\ reader' = "idle"
    /\ startPosition' = IF IsEmpty THEN startPosition
                                   ELSE NextPosition(startPosition)
    /\ UNCHANGED <<ringBuffer, endPosition, writerVars, held>>

Reader == Peek \/ Release \/ Drop

-----------------------------------------------------------------------------
QueueNext == Writer \/ Reader

QueueSpec == QueueInit /\ [][QueueNext]_ringVars

-----------------------------------------------------------------------------
(* Properties *)

\* Every variable has its type; in particular the masked positions never leave
\* the ring buffer, whatever the order of pushes and drops.
QueueTypeOK ==
    /\ ringBuffer \in [Positions -> Events \union {NoEvent, Torn}]
    /\ startPosition \in Positions
    /\ endPosition \in Positions
    /\ writer \in {"idle", "filling", "filled", "publish"}
    /\ pushing \in Events \union {NoEvent}
    /\ newEndPosition \in Positions
    /\ accepted \in BOOLEAN
    /\ reader \in {"idle", "holding"}
    /\ held \in Positions

\* The slots from startPosition up to and not including endPosition.
Occupied(p) ==
    IF startPosition <= endPosition
    THEN startPosition <= p /\ p < endPosition
    ELSE startPosition <= p \/ p < endPosition

\* The THREAD SAFETY paragraph of MidiEventQueue.h: without a lock, the writer
\* never frees or fills the slot to which the reader holds a pointer.
NoDataRace ==
    writer \in {"filling", "filled"} /\ reader = "holding" => held # endPosition

\* The inductive invariant.  Occupied slots hold whole messages, the slot
\* about to be published holds the pushed one, the room that the writer found
\* does not disappear, and the reader's pointer is the oldest event.
QueueInv ==
    /\ QueueTypeOK
    /\ \A p \in Positions : Occupied(p) => ringBuffer[p] \in Events
    /\ writer # "idle" =>
         /\ pushing \in Events
         /\ newEndPosition = NextPosition(endPosition)
         /\ newEndPosition # startPosition
    /\ writer = "publish" => ringBuffer[endPosition] = pushing
    /\ reader = "holding" => held = startPosition /\ ~IsEmpty

\* A message that the renderer is playing is whole and stays the same until the
\* renderer drops it: render() reads timestamp, sysexData and sysexLength
\* through the pointer at different times, while other messages are pushed.
HeldEventStable ==
    [][reader = "holding" => /\ ringBuffer[held] \in Events
                             /\ ringBuffer'[held] = ringBuffer[held]]_ringVars

\* The queue as the sequence of its occupied slots, oldest first.
QueueLength ==
    IF startPosition <= endPosition
    THEN endPosition - startPosition
    ELSE endPosition + RingBufferSize - startPosition

SlotAt(i) ==
    IF startPosition + i - 1 < RingBufferSize
    THEN startPosition + i - 1
    ELSE startPosition + i - 1 - RingBufferSize

QueuedEvents == [i \in 1 .. QueueLength |-> ringBuffer[SlotAt(i)]]

Fifo == INSTANCE EventFifo WITH
            Capacity <- RingBufferSize - 1,
            fifo     <- QueuedEvents,
            peeked   <- IF reader = "holding" THEN ringBuffer[held] ELSE NoEvent

\* Seen from outside, the lock-free ring buffer is a bounded first-in
\* first-out buffer of RingBufferSize - 1 events: nothing is lost, doubled,
\* reordered or seen half written, and a push is refused only when it is full.
ImplementsFifo == Fifo!Spec
=============================================================================
