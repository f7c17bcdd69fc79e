----------------------------- MODULE MCImfcCard -----------------------------
(* Small instances of ImfcCard for TLC: a FIFO of a few bytes. *)
EXTENDS ImfcCard

Idle == [midi |-> {}, commands |-> {}, pcr |-> {}, tcr |-> {}, clocks |-> {},
         statuses |-> {}, dumps |-> {}]

\* Sends messages and parameter lists with entries of both lengths.
Sender == [Idle EXCEPT !.midi = {240, 67, 117, 113, 35, 144, 247},
                       !.commands = {229}, !.tcr = {0, 16}]

\* Sends commands of every length.
Commander(commands) == [Idle EXCEPT !.midi = {144}, !.commands = commands,
                                    !.tcr = {0, 16}, !.pcr = {188}]

\* Receives messages of every length, by interrupts and without.
Receiver == [Idle EXCEPT !.pcr = {188, 9, 8}, !.statuses = {144, 192, 254},
                         !.dumps = {1}]

\* Uses the timers and the interrupt that lets it send.
Timekeeper == [Idle EXCEPT !.pcr = {5, 4, 188}, !.tcr = {0, 4, 12, 3},
                           !.clocks = Timers]

MCHosts == {Sender, Commander({224, 229, 0}), Commander({226}),
            Commander({227}), Receiver, Timekeeper}
=============================================================================
