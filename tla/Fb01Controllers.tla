---------------------------- MODULE Fb01Controllers ----------------------------
(***************************************************************************)
(* The control changes of VFB-01: control_change(), pitch_wheel() and      *)
(* GM Mode On, with the registered and non-registered parameter numbers    *)
(* that say what a data entry is for.                                      *)
(*                                                                         *)
(* A controller goes to all instruments on its channel.  What they do to   *)
(* the notes is in Fb01Voices; modulation writes registers of the chip     *)
(* only, and the pan position is never read.                               *)
(***************************************************************************)
EXTENDS Integers, SequencesExt

CONSTANTS
    FmSlots,        \* VFB_MAX_FM_SLOTS, the number of instruments
    Channels,       \* MIDI channels
    Uses            \* bound: what is sent in a session

\* What is sent: on which channels; the changes of controllers, each of a name
\* and a value; the values of parameter numbers and of data entries; whether All
\* Sound Off, Reset All Controllers and GM Mode On are; and how many parameter
\* numbers.
ASSUME ControllersAssumption ==
    /\ FmSlots \in Nat \ {0} /\ Channels \subseteq 0 .. 15
    /\ \A u \in Uses :
          /\ u.channels \subseteq Channels
          /\ u.parameterNumbers \subseteq 0 .. 127
          /\ u.dataEntries \subseteq 0 .. 127
          /\ u.mayReset \in BOOLEAN /\ u.maxSelections \in Nat

Instruments == 0 .. FmSlots - 1
Unset == 255                            \* a half of 0xffff
Halves == {"msb", "lsb"}
NoNumber == [h \in Halves |-> Unset]    \* 0xffff

VARIABLES
    use,            \* what is sent
    instruments,    \* active_config.instruments: its first 6 parameters
    controls,       \* the controls of each instrument in instrument_map
    system_volume,
    rpn_adr,        \* of each channel
    nrpn_adr,
    selections      \* ghost: the parameter numbers each channel was sent

controllerVars == <<use, instruments, controls, system_volume, rpn_adr,
                    nrpn_adr, selections>>

\* The controls that ym2151_reg_init() gives an instrument.
Defaults ==
    [portament |-> 0, portament_on |-> FALSE, bend |-> 0, hold |-> FALSE,
     bend_sense |-> [msb |-> 2, lsb |-> 0],
     master_volume |-> 127, expression |-> 127]

\* setup_configuration(): parameters 0 to 5 are the number of notes, the
\* channel, the limits of the keys, the voice bank and the voice.
ControllersInit ==
    /\ use \in Uses
    /\ instruments = [i \in Instruments |-> <<1, i, 127, 0, 0, i>>]
    /\ controls = [i \in Instruments |-> Defaults]
    /\ system_volume = 127
    /\ rpn_adr = [ch \in Channels |-> NoNumber]
    /\ nrpn_adr = [ch \in Channels |-> NoNumber]
    /\ selections = [ch \in Channels |-> <<>>]

MidiChannel(i) == instruments[i][2]

-----------------------------------------------------------------------------
(* Controllers with a value of their own *)

OnChannel(ch) == {i \in Instruments : MidiChannel(i) = ch}

Limited(low, value, high) ==
    IF value < low THEN low ELSE IF value > high THEN high ELSE value

\* The control `name' after a controller or the pitch wheel sent `value'.
Controlled(control, name, value) ==
    CASE name = "PORTAMENT_TIME" -> [control EXCEPT !.portament = value]
      [] name = "MAIN_VOLUME" -> [control EXCEPT !.master_volume = value]
      [] name = "EXPRESSION" -> [control EXCEPT !.expression = value]
      [] name \in {"HOLD1", "SUSTENUTE"} -> [control EXCEPT !.hold = value > 64]
      [] name = "PORTAMENT" -> [control EXCEPT !.portament_on = value > 64]
      [] name = "pitch_wheel" ->
            [control EXCEPT !.bend = Limited(-8192, value - 8192, 8191)]

ControlChange(ch, change) ==
    /\ change \in use.changes
    /\ controls' = [i \in Instruments |->
          IF i \in OnChannel(ch) THEN Controlled(controls[i], change[1], change[2])
          ELSE controls[i]]
    /\ UNCHANGED <<use, instruments, system_volume, rpn_adr, nrpn_adr,
                   selections>>

\* Universal realtime message, master volume.
MasterVolume(value) ==
    /\ value \in use.volumes
    /\ system_volume' = value
    /\ UNCHANGED <<use, instruments, controls, rpn_adr, nrpn_adr, selections>>

-----------------------------------------------------------------------------
(* Parameter numbers and data entries *)

Remember(ch, kind, half, b) ==
    /\ b \in use.parameterNumbers
    /\ Len(selections[ch]) < use.maxSelections
    /\ selections' = [selections EXCEPT ![ch] = Append(@, <<kind, half, b>>)]

\* Mutant: a half of the number forgets the other one.
RpnForgetsHalf(ch, half, b) ==
    /\ Remember(ch, "rpn", half, b)
    /\ rpn_adr' = [rpn_adr EXCEPT ![ch] = [NoNumber EXCEPT ![half] = b]]
    /\ nrpn_adr' = [nrpn_adr EXCEPT ![ch] = NoNumber]
    /\ UNCHANGED <<use, instruments, controls, system_volume>>

\* RPN_M and RPN_L change a half of the number and forget the other kind.
Rpn(ch, half, b) ==
    /\ Remember(ch, "rpn", half, b)
    /\ rpn_adr' = [rpn_adr EXCEPT ![ch][half] = b]
    /\ nrpn_adr' = [nrpn_adr EXCEPT ![ch] = NoNumber]
    /\ UNCHANGED <<use, instruments, controls, system_volume>>

Nrpn(ch, half, b) ==
    /\ Remember(ch, "nrpn", half, b)
    /\ nrpn_adr' = [nrpn_adr EXCEPT ![ch][half] = b]
    /\ rpn_adr' = [rpn_adr EXCEPT ![ch] = NoNumber]
    /\ UNCHANGED <<use, instruments, controls, system_volume>>

\* The one registered parameter is 0x0000, the pitch bend sensitivity.
DataEntry(ch, half, b) ==
    /\ b \in use.dataEntries
    /\ rpn_adr[ch] = [h \in Halves |-> 0]
    /\ controls' = [i \in Instruments |->
          IF i \in OnChannel(ch) THEN [controls[i] EXCEPT !.bend_sense[half] = b]
          ELSE controls[i]]
    /\ UNCHANGED <<use, instruments, system_volume, rpn_adr, nrpn_adr,
                   selections>>

-----------------------------------------------------------------------------
(* Resets *)

\* reset_ym2151(): whatever the channel, all instruments.
ResetControls ==
    /\ controls' = [i \in Instruments |-> Defaults]
    /\ system_volume' = 127

\* It leaves the parameter numbers as they are.
AllSoundOff ==
    /\ use.mayReset
    /\ ResetControls
    /\ UNCHANGED <<use, instruments, rpn_adr, nrpn_adr, selections>>

\* Reset All Controllers on any channel, and GM Mode On, for all channels.
ResetAllControllers ==
    /\ use.mayReset
    /\ ResetControls
    /\ rpn_adr' = [ch \in Channels |-> NoNumber]
    /\ nrpn_adr' = [ch \in Channels |-> NoNumber]
    /\ selections' = [ch \in Channels |-> <<>>]
    /\ UNCHANGED <<use, instruments>>

ControllersNext ==
    \/ \E ch \in use.channels :
          \/ \E change \in use.changes : ControlChange(ch, change)
          \/ \E half \in Halves :
                \/ \E b \in use.parameterNumbers :
                      Rpn(ch, half, b) \/ Nrpn(ch, half, b)
                \/ \E b \in use.dataEntries : DataEntry(ch, half, b)
    \/ \E value \in use.volumes : MasterVolume(value)
    \/ AllSoundOff
    \/ ResetAllControllers

-----------------------------------------------------------------------------
(* Properties *)

\* The channel was sent both halves of the number 0, and afterwards neither
\* another value of a half nor the number of a non-registered parameter.
SelectsSensitivity(history) ==
    \A half \in Halves :
        \E n \in DOMAIN history :
            /\ history[n] = <<"rpn", half, 0>>
            /\ \A k \in n + 1 .. Len(history) :
                  ~(history[k][1] = "nrpn" \/ history[k][2] = half)

\* The registered number of a channel is that of the pitch bend sensitivity, so
\* that a data entry sets it, just when the channel selected it: whatever was
\* sent to other channels or before a reset, and whichever half of which kind
\* of number came in between.
SelectionIsHeard ==
    \A ch \in Channels :
        rpn_adr[ch] = [h \in Halves |-> 0] <=> SelectsSensitivity(selections[ch])
=============================================================================
