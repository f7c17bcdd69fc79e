------------------------------- MODULE MCSynth -------------------------------
(* Small instances of Synth for TLC. *)
EXTENDS Synth

\* A short message occupies the cable for one sample, a dump for two.
MCTransferTime == [kind \in Kinds |-> IF kind = "short" THEN 1 ELSE 2]

\* The driver's use: timestamps just missed and just ahead.
DriverUse == [sizes |-> {}, modes |-> {}, aheads |-> {-1, 1}]

\* The functions that the driver never calls: every delay mode, queues of two
\* sizes (one of them too small to hold a message), and flushes.
InterfaceUse == [sizes |-> {0, 2, 3}, modes |-> DelayModes, aheads |-> {1}]

BothUses == {DriverUse, InterfaceUse}
OnlyDriverUse == {DriverUse}
=============================================================================
