----------------------------- MODULE MCFB01Synth -----------------------------
(* Small instances of FB01Synth for TLC. *)
EXTENDS FB01Synth

CONSTANTS a, b

TwoThreads == {a, b}
=============================================================================
