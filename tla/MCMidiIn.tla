------------------------------- MODULE MCMidiIn -------------------------------
(* Small instances of MidiIn for TLC. *)
EXTENDS MidiIn

CONSTANTS small, large, another

BothHeaders == {small, large}
ThreeHeaders == {small, large, another}

\* Buffers that split dumps, and one that does not.
MCBufferLength == [h \in Headers |-> IF h = large THEN 2 ELSE 1]

\* Two buffers that are taken back for good, by an application that may stop, and
\* three by one that does not.
MCSessions ==
    {[headers |-> BothHeaders, bytes |-> 3, mayStop |-> TRUE],
     [headers |-> ThreeHeaders, bytes |-> 2, mayStop |-> FALSE]}
ShortSession == {[headers |-> BothHeaders, bytes |-> 3, mayStop |-> FALSE]}
=============================================================================
