--------------------------- MODULE MCMidiEventQueue ---------------------------
(* A small instance of MidiEventQueue for TLC. *)
EXTENDS MidiEventQueue, TLC

CONSTANTS e1, e2, e3

MCEvents == {e1, e2, e3}

\* Nothing distinguishes one message from another here.
EventSymmetry == Permutations(MCEvents)
=============================================================================
