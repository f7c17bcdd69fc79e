---------------------------- MODULE MCFb01Exclusive ----------------------------
(* Small instances of Fb01Exclusive for TLC: two instruments, and banks of two *)
(* voices.                                                                     *)
EXTENDS Fb01Exclusive

System == 9
BankRequest(bank) == <<\h43, \h75, System, \h20, 0, bank, \hF7>>
ConfigRequest == <<\h43, \h75, System, \h20, 1, 0, \hF7>>
VoiceRequest(instrument, v) ==
    <<\h43, \h75, System, \h28 + instrument, 0, v, \hF7>>
Change(instrument, parameter, value) ==
    <<\h43, \h75, System, \h18 + instrument, parameter, value, \hF7>>

Nothing ==
    [channels |-> Channels, changes |-> {}, parameterNumbers |-> {},
     dataEntries |-> {}, volumes |-> {}, mayReset |-> FALSE, maxSelections |-> 0,
     requests |-> {}, voiceBytes |-> {213}, wrongBytes |-> {},
     maxStores |-> 0]

\* Parameter numbers on two channels, and an instrument that changes its channel.
Selecting ==
    [Nothing EXCEPT !.parameterNumbers = {0, 1}, !.dataEntries = {3},
                    !.mayReset = TRUE, !.maxSelections = 2,
                    !.requests = {Change(1, 1, 0)}]

\* One channel, and longer.
SelectingLonger ==
    [Nothing EXCEPT !.channels = {1}, !.parameterNumbers = {0, 1},
                    !.dataEntries = {0, 127}, !.mayReset = TRUE,
                    !.maxSelections = 5]

Controlling ==
    [Nothing EXCEPT
        !.changes = {<<"PORTAMENT_TIME", 5>>, <<"MAIN_VOLUME", 0>>,
                     <<"EXPRESSION", 64>>, <<"HOLD1", 65>>, <<"SUSTENUTE", 64>>,
                     <<"PORTAMENT", 127>>, <<"pitch_wheel", 0>>,
                     <<"pitch_wheel", 16383>>},
        !.volumes = {100}, !.mayReset = TRUE]

\* Dumps of two banks, and a line that spoils bytes.
Librarian ==
    [Nothing EXCEPT !.requests = {BankRequest(0), BankRequest(1)},
                    !.voiceBytes = {0, 213}, !.wrongBytes = {127},
                    !.maxStores = 2]

\* Dumps of the configuration while it changes.
Configuring ==
    [Nothing EXCEPT !.requests = {BankRequest(0), ConfigRequest} \cup
                        {VoiceRequest(0, 1)} \cup
                        {Change(1, parameter, 127) : parameter \in 0 .. 5},
                    !.maxStores = 1, !.wrongBytes = {0, 1}]

AllUses == {Selecting, SelectingLonger, Controlling, Librarian, Configuring}
VoiceDumps == {[Nothing EXCEPT !.requests = {VoiceRequest(0, 1)}]}
ConfigDumps == {[Nothing EXCEPT !.requests = {ConfigRequest}]}
RomDumps == {[Nothing EXCEPT !.requests = {BankRequest(5)}, !.maxStores = 1,
                             !.wrongBytes = {0}]}
=============================================================================
