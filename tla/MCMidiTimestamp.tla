---------------------------- MODULE MCMidiTimestamp ----------------------------
(* Small instances of MidiTimestamp for TLC. *)
EXTENDS MidiTimestamp

BothThreads == {"rendering", "midi"}

\* Chunks with any device, a ring buffer with an exact one.
ExactRing == {<<FALSE, 0>>, <<FALSE, 1>>, <<TRUE, 0>>}
ExactDevice == {<<FALSE, 0>>, <<TRUE, 0>>}
JitterChunks == {<<FALSE, 1>>}
JitterRing == {<<TRUE, 1>>}
=============================================================================
