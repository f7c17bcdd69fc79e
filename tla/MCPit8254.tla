------------------------------ MODULE MCPit8254 ------------------------------
(* Small instances of Pit8254 for TLC: bytes of one bit. *)
EXTENDS Pit8254

MCFresh == {[c \in Counters |-> b] : b \in BOOLEAN}

\* A program that loads and reads timer A in every way.
OneCounter ==
    [bytes |-> [c \in Counters |-> IF c = 0 THEN {0, 1} ELSE {}],
     words |-> [counter : {0}, access : {Both}, mode : {0, 2}],
     readBacks |-> {{0}}, reads |-> {0}, gates |-> {0}]

\* The modes that the first one does not use.
OtherModes ==
    [bytes |-> [c \in Counters |-> IF c = 0 THEN {1} ELSE {}],
     words |-> [counter : {0}, access : {LSB, MSB}, mode : {1, 3, 4}],
     readBacks |-> {}, reads |-> {0}, gates |-> {0}]

\* A program that runs both timers and changes the clock of timer B.
BothTimers ==
    [bytes |-> [c \in Counters |-> {1}],
     words |-> [counter : {0}, access : {Both}, mode : {0, 2, 3}]
         \union [counter : {1}, access : {LSB}, mode : {0, 2}]
         \union [counter : {2}, access : {MSB}, mode : {3}],
     readBacks |-> {{1}, {0, 1}}, reads |-> {}, gates |-> {}]

MCPrograms == {OneCounter, OtherModes, BothTimers}
=============================================================================
