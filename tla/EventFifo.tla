------------------------------ MODULE EventFifo ------------------------------
(***************************************************************************)
(* What the MIDI event queue promises to the thread that plays messages    *)
(* and to the thread that renders: a bounded first-in first-out buffer     *)
(* whose head can be looked at, and stays what it was, until it is         *)
(* dropped.  MidiEventQueue implements it.                                 *)
(***************************************************************************)
EXTENDS Naturals, Sequences

CONSTANTS Events,     \* what can be queued
          NoEvent,    \* the null pointer of an empty peek
          Capacity    \* how many events the buffer holds

VARIABLES fifo,       \* the queued events, oldest first
          peeked,     \* the event the consumer refers to, or NoEvent
          accepted    \* what the last attempt to push returned

fifoVars == <<fifo, peeked, accepted>>

Init ==
    /\ fifo = <<>>
    /\ peeked = NoEvent
    /\ accepted = TRUE

\* An event enters at the back; this can be promised only below the capacity.
Push(e) ==
    /\ Len(fifo) < Capacity
    /\ fifo' = Append(fifo, e)
    /\ accepted' = TRUE
    /\ UNCHANGED peeked

\* A push is refused only when the buffer really is full.
Refuse ==
    /\ Len(fifo) = Capacity
    /\ accepted' = FALSE
    /\ UNCHANGED <<fifo, peeked>>

\* The consumer looks at the oldest event, if there is one.
Peek ==
    /\ peeked = NoEvent
    /\ peeked' = IF fifo = <<>> THEN NoEvent ELSE Head(fifo)
    /\ UNCHANGED <<fifo, accepted>>

\* The consumer leaves the oldest event queued: it is not due yet.
Release ==
    /\ peeked' = NoEvent
    /\ UNCHANGED <<fifo, accepted>>

\* The consumer removes the event it refers to, which still is the oldest one.
Drop ==
    /\ fifo # <<>>
    /\ peeked = Head(fifo)
    /\ fifo' = Tail(fifo)
    /\ peeked' = NoEvent
    /\ UNCHANGED accepted

Next ==
    \/ \E e \in Events : Push(e)
    \/ Refuse
    \/ Peek
    \/ Release
    \/ Drop

Spec == Init /\ [][Next]_fifoVars
=============================================================================
