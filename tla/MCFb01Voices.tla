----------------------------- MODULE MCFb01Voices -----------------------------
(* Small instances of Fb01Voices for TLC: a chip of a few voices. *)
EXTENDS Fb01Voices

Counts == 0 .. FmSlots

\* The numbers of notes change between the notes.
Playing ==
    [notes |-> {1, 2, 3}, programs |-> {}, noteCounts |-> Counts,
     channels |-> {}, keyLimits |-> {}, voices |-> {}, mayReset |-> FALSE,
     mayHoldUnvoiced |-> FALSE, maxStep |-> 4]

\* All messages and parameters but those that assign channels, with one key.
Control ==
    [notes |-> {1}, programs |-> {4}, noteCounts |-> {0, 2},
     channels |-> {}, keyLimits |-> {127}, voices |-> {5}, mayReset |-> TRUE,
     mayHoldUnvoiced |-> FALSE, maxStep |-> 1]

\* Channels are assigned, also one beyond the instruments, and no key is pressed.
Assigning ==
    [Control EXCEPT !.notes = {}, !.channels = {1, FmSlots}, !.keyLimits = {}]

PlayingAndControl == {Playing, Control, Assigning}
OnlyPlaying == {Playing}
ChannelsChange ==
    {[Playing EXCEPT !.channels = 0 .. FmSlots - 1, !.noteCounts = {}]}
ChannelBeyond == {[Playing EXCEPT !.channels = {FmSlots}, !.noteCounts = {}]}
Resets == {[Playing EXCEPT !.mayReset = TRUE]}
HoldsUnvoiced == {[Playing EXCEPT !.mayHoldUnvoiced = TRUE]}
VoicesChange == {[Playing EXCEPT !.notes = {1}, !.voices = {4, 5}]}
=============================================================================
