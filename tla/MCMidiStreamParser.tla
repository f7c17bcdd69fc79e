------------------------- MODULE MCMidiStreamParser -------------------------
(* Small instances of MidiStreamParser for TLC: short fragments. *)
EXTENDS MidiStreamParser

\* Statuses of messages of each kind and length, two data bytes, a clock.
Bytes == {240, 247, 144, 192, 242, 248, 1, 2}
Up(n, bytes) == UNION {[1 .. k -> bytes] : k \in 1 .. n}

\* Longer ones: split messages, a dump longer than the buffer.
Longer == {<<144, 1, 248, 2>>, <<240, 1, 248, 247>>, <<192, 1, 2, 144, 1>>,
           <<240, 1, 2, 1, 2, 1, 247>>, <<1, 2, 1, 2, 247>>, <<1, 144, 2, 1>>}

MCFragments == Up(2, Bytes) \union Up(3, {240, 247, 144, 248, 1}) \union Longer
MCShortMessages == {<<144, 1, 2>>, <<1, 2, 0>>, <<246, 0, 0>>, <<250, 0, 0>>}

\* Too long for the buffer, but not complete.
LongFragments == {<<240, 1, 2, 1, 2, 1>>, <<247>>}
=============================================================================
