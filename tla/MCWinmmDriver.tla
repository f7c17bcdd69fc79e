---------------------------- MODULE MCWinmmDriver ----------------------------
(* Small instances of WinmmDriver for TLC: handles and callers are alike. *)
EXTENDS WinmmDriver, TLC

Alike == Permutations(Handles) \union Permutations(Callers)
==============================================================================
