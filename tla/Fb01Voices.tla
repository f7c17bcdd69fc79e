------------------------------ MODULE Fb01Voices ------------------------------
(***************************************************************************)
(* The sound generator VFB-01 from MIDI messages down to the key-on        *)
(* register of the YM2151: which instruments of the active configuration   *)
(* a note goes to, which slot of the instrument plays it, which of the     *)
(* chip's voices the slot is, and which voices are keyed on.               *)
(*                                                                         *)
(* vfb01_doMidiEvent() handles a message and then refreshes every slot of  *)
(* every instrument, in order.  Both are one action: they run in one       *)
(* thread.  Pitch, volume and the contents of a tone are left out; every   *)
(* tone enables all four operators.                                        *)
(***************************************************************************)
EXTENDS Integers, FiniteSetsExt

CONSTANTS
    FmSlots,            \* VFB_MAX_FM_SLOTS: instruments, slots, voices
    Channels,           \* of MIDI messages: 16, more than there are instruments
    Uses                \* bound: what is sent in a session

\* What is sent in a use: the notes; the programs of program changes; the
\* values of the parameters 0 to 3 and of the parameter voice; whether All Sound
\* Off, Reset All Controllers and GM Mode On are sent and whether a key is
\* pressed that has no slot; and how many messages while a key is held.
ASSUME VoicesAssumption ==
    /\ FmSlots \in Nat \ {0}
    /\ Channels \subseteq Nat
    /\ \A use \in Uses :
          /\ use.notes \subseteq Nat /\ use.programs \subseteq Nat
          /\ use.noteCounts \subseteq 0 .. FmSlots
          /\ use.channels \subseteq 0 .. 127
          /\ use.keyLimits \subseteq 0 .. 127
          /\ use.voices \subseteq Nat
          /\ use.mayReset \in BOOLEAN /\ use.mayHoldUnvoiced \in BOOLEAN
          /\ use.maxStep \in Nat

Instruments == 0 .. FmSlots - 1
Slots == 0 .. FmSlots - 1
Voices == 0 .. FmSlots - 1
AllOperators == 15
NoTone == -1            \* registers that hold no tone of the voice memory
NoSelection == [by |-> "nothing", instruments |-> {}, tone |-> 0]

VARIABLES
    use,                \* what is sent
    instruments,        \* evfb->active_config.instruments
    instrument_map,     \* the state of each instrument
    keyedOn,            \* the chip's voices whose operators are keyed on
    tone,               \* the tone in the registers of each of the voices
    down,               \* the keys that are down, for each instrument
    pressedBefore,      \* pairs of pressed slots of each instrument: the first
                        \* was pressed before the second
    selection           \* what the last message selected, and for whom

ghostVars == <<use, down, pressedBefore, selection>>
vars == <<instruments, instrument_map, keyedOn, tone, ghostVars>>

NoteCount(i) == instruments[i].note_count
Active(i) == 0 .. NoteCount(i) - 1
ActiveSlots(config) ==
    UNION {{<<i, s>> : s \in 0 .. config[i].note_count - 1} : i \in Instruments}

FreshMap == [i \in Instruments |->
    [base_voice |-> i, slot_mask |-> AllOperators,
     note |-> [s \in Slots |-> 0], note_on |-> [s \in Slots |-> -1],
     step |-> [s \in Slots |-> 0]]]

Init ==
    /\ use \in Uses
    /\ instruments = [i \in Instruments |->
          [note_count |-> 1, midi_channel |-> i, voice |-> i,
           key_low_limit |-> 0, key_high_limit |-> 127]]
    /\ instrument_map = FreshMap
    /\ keyedOn = {}
    /\ tone = [v \in Voices |-> 0]
    /\ down = [i \in Instruments |-> {}]
    /\ pressedBefore = [i \in Instruments |-> {}]
    /\ selection = NoSelection

-----------------------------------------------------------------------------
(* Writing the registers of the chip, slot after slot *)

Before(p, q) == p[1] < q[1] \/ (p[1] = q[1] /\ p[2] < q[2])
Last(slots) == CHOOSE p \in slots : \A q \in slots : q = p \/ Before(q, p)

Target(map, p) == map[p[1]].base_voice + p[2]
Writing(map, slots, v) == {p \in slots : Target(map, p) % FmSlots = v}

\* What is written to register 8 is the sum of the operators, shifted, and of
\* the voice: a voice beyond the last one carries into the operators.
KeyOnMask(operators, voice) == (operators + voice \div FmSlots) % 16

\* Mutant: a slot is keyed on in the refresh that follows its press only.
KeyedOperatorsOnce(m, s) == IF m.note_on[s] = 2 THEN m.slot_mask ELSE 0

\* freq_write(): the operators of a slot that was pressed or released; nothing
\* is keyed on for a slot that was never played.
KeyedOperators(m, s) == IF m.note_on[s] >= 0 THEN m.slot_mask ELSE 0

\* ym2151_set_freq_volume() for every instrument, after every message.  The step
\* of a slot is kept while it is pressed: no other is read before it is reset.
Refresh(config, map, on) ==
    LET slots == ActiveSlots(config)
        KeyedOn(p) == KeyOnMask(KeyedOperators(map[p[1]], p[2]),
                                Target(map, p)) # 0
    IN  /\ instrument_map' = [i \in Instruments |-> [map[i] EXCEPT
              !.note_on = [s \in Slots |->
                  IF <<i, s>> \in slots /\ @[s] = 2 THEN 1 ELSE @[s]],
              !.step = [s \in Slots |->
                  IF map[i].note_on[s] <= 0 THEN 0
                  ELSE IF <<i, s>> \in slots THEN @[s] + 1 ELSE @[s]]]]
        /\ keyedOn' = {v \in Voices :
              LET writing == Writing(map, slots, v)
              IN  IF writing = {} THEN v \in on ELSE KeyedOn(Last(writing))}

\* Mutant: the tone is written for the first slot only.
LoadFirstSlot(map, slots, t, registers) ==
    [v \in Voices |->
        IF Writing(map, {p \in slots : p[2] = 0}, v) = {}
        THEN registers[v] ELSE t]

\* The registers after a tone was written for the slots: what is written beyond
\* the last voice spoils another one.
Load(map, slots, t, registers) ==
    [v \in Voices |->
        LET writing == Writing(map, slots, v)
        IN  IF writing = {} THEN registers[v]
            ELSE IF Target(map, Last(writing)) \in Voices THEN t
            ELSE NoTone]

\* ym2151_set_voice() for some instruments.  One without slots keeps its
\* operators, too.
SetVoice(config, map, targets, t) ==
    LET slots == {p \in ActiveSlots(config) : p[1] \in targets}
    IN  /\ Refresh(config,
              [i \in Instruments |->
                 IF i \in targets /\ config[i].note_count > 0
                 THEN [map[i] EXCEPT !.slot_mask = AllOperators] ELSE map[i]],
              keyedOn)
        /\ tone' = Load(map, slots, t, tone)

Bounded == \A i \in Instruments, s \in Slots :
               instrument_map[i].step[s] < use.maxStep

-----------------------------------------------------------------------------
(* Notes *)

IsOnInstrument(i, ch, n) ==
    /\ instruments[i].midi_channel = ch
    /\ instruments[i].key_low_limit <= n
    /\ n <= instruments[i].key_high_limit

ReceivedBy(ch, n) == {i \in Instruments : IsOnInstrument(i, ch, n)}
OnChannel(ch) == {i \in Instruments : instruments[i].midi_channel = ch}

Usable(i, n) ==
    {s \in Active(i) : instrument_map[i].note_on[s] <= 0
                       \/ instrument_map[i].note[s] = n}

\* Mutant: the slot that was refreshed least often is taken.
TakenSlotNewest(i, n) ==
    LET step == instrument_map[i].step
    IN  IF Usable(i, n) # {} THEN Min(Usable(i, n))
        ELSE IF NoteCount(i) = 0 THEN 0
        ELSE Min({s \in Active(i) : \A t \in Active(i) : step[s] <= step[t]})

\* ym2151_note_on(): the first slot that is free or plays the same note, or
\* else the first of those that were refreshed most often; an instrument
\* without slots presses slot 0.
TakenSlot(i, n) ==
    LET step == instrument_map[i].step
    IN  IF Usable(i, n) # {} THEN Min(Usable(i, n))
        ELSE IF NoteCount(i) = 0 THEN 0
        ELSE Min({s \in Active(i) : \A t \in Active(i) : step[s] >= step[t]})

PressedSlots(i) == {s \in Slots : instrument_map[i].note_on[s] > 0}
Without(pairs, slots) == {q \in pairs : {q[1], q[2]} \intersect slots = {}}

\* note_on() presses the note on the instrument with the number of the channel,
\* once for each instrument that receives it; a second time it is the same note
\* and changes nothing.  On a channel that is the number of no instrument it
\* would write beyond instrument_map, which nothing checks: what becomes of that
\* is left out, and NotesStayInMap below says when it would happen.
NoteOn(ch, n) ==
    LET s == TakenSlot(ch, n)
    IN  /\ Bounded
        /\ ch \in Instruments
        /\ ReceivedBy(ch, n) # {}
        /\ use.mayHoldUnvoiced \/ \A i \in ReceivedBy(ch, n) : NoteCount(i) > 0
        /\ Refresh(instruments,
              [instrument_map EXCEPT ![ch].note[s] = n, ![ch].note_on[s] = 2,
                                     ![ch].step[s] = 0],
              keyedOn)
        /\ down' = [i \in Instruments |->
              IF i \in ReceivedBy(ch, n) THEN down[i] \union {n} ELSE down[i]]
        /\ pressedBefore' = [pressedBefore EXCEPT ![ch] =
              Without(@, {s}) \union (PressedSlots(ch) \ {s}) \X {s}]
        /\ selection' = NoSelection
        /\ UNCHANGED <<use, instruments, tone>>

Release(releases) ==
    /\ Refresh(instruments,
           [i \in Instruments |-> [instrument_map[i] EXCEPT
               !.note_on = [s \in Slots |->
                  IF s \in releases[i] THEN 0 ELSE @[s]]]],
           keyedOn)
    /\ pressedBefore' =
           [i \in Instruments |-> Without(pressedBefore[i], releases[i])]

\* Mutant: only the first slot that plays the note is released.
ReleasedFirst(i, n) ==
    LET playing == {s \in Active(i) : instrument_map[i].note[s] = n}
    IN  IF playing = {} THEN {} ELSE {Min(playing)}

\* ym2151_note_off()
Released(i, n) == {s \in Active(i) : instrument_map[i].note[s] = n}

NoteOff(ch, n) ==
    /\ Bounded
    /\ Release([i \in Instruments |->
          IF i \in ReceivedBy(ch, n) THEN Released(i, n) ELSE {}])
    /\ down' = [i \in Instruments |->
          IF i \in ReceivedBy(ch, n) THEN down[i] \ {n} ELSE down[i]]
    /\ selection' = NoSelection
    /\ UNCHANGED <<use, instruments, tone>>

\* ym2151_all_note_off() keys the slots off, never-played ones as well; the
\* refresh keys them on again.
AllNotesOff(ch) ==
    /\ Bounded
    /\ Release([i \in Instruments |->
          IF i \in OnChannel(ch) THEN Active(i) ELSE {}])
    /\ down' = [i \in Instruments |->
          IF i \in OnChannel(ch) THEN {} ELSE down[i]]
    /\ selection' = NoSelection
    /\ UNCHANGED <<use, instruments, tone>>

\* reset_ym2151() for all instruments.  The base voices become what they were
\* at the beginning, the configuration stays; every voice is keyed off before
\* the refresh.  The slots are then released afterwards.
ResetAll(released) ==
    /\ use.mayReset
    /\ LET map == [i \in Instruments |-> [FreshMap[i] EXCEPT
                      !.slot_mask = IF NoteCount(i) > 0 THEN @ ELSE 0,
                      !.note_on = [s \in Slots |->
                         IF <<i, s>> \in released THEN 0 ELSE @[s]]]]
       IN  /\ Refresh(instruments, map, {})
           /\ tone' = Load(map, ActiveSlots(instruments), 0,
                            [v \in Voices |-> NoTone])
    /\ down' = [i \in Instruments |-> {}]
    /\ pressedBefore' = [i \in Instruments |-> {}]
    /\ selection' = NoSelection
    /\ UNCHANGED <<use, instruments>>

\* All Sound Off and Reset All Controllers, whatever their channel.
Reset == ResetAll({})

\* GM Mode On: ym2151_all_note_off() of instrument 0 comes after the reset.
GmModeOn == ResetAll({<<0, s>> : s \in Active(0)})

-----------------------------------------------------------------------------
(* Tones *)

ProgramChange(ch, t) ==
    /\ Bounded
    /\ SetVoice(instruments, instrument_map, OnChannel(ch), t)
    /\ selection' = [by |-> "program", instruments |-> OnChannel(ch),
                     tone |-> t]
    /\ UNCHANGED <<use, instruments, down, pressedBefore>>

\* update_voice(): the voices of the instrument are taken for instruments.
UpdateVoice(config, i) ==
    LET base == instrument_map[i].base_voice
    IN  /\ SetVoice(config, instrument_map,
              Instruments \intersect base .. base + NoteCount(i) - 1,
              config[i].voice)
        /\ instruments' = config
        /\ selection' = [by |-> "parameter", instruments |-> {i},
                          tone |-> config[i].voice]
        /\ UNCHANGED <<use, down, pressedBefore>>

\* Parameters 4 (without effect on the tone) and 5.
SelectVoice(i, t) ==
    /\ Bounded
    /\ UpdateVoice([instruments EXCEPT ![i].voice = t], i)

SelectBank(i) ==
    /\ Bounded
    /\ use.voices # {}
    /\ UpdateVoice(instruments, i)

-----------------------------------------------------------------------------
(* Parameters 0 to 3 of an instrument.  They are set while none of its keys  *)
(* is down, and the note counts fit.  param_change_channel(), which sets them *)
(* for all instruments on a channel, is never called (Fb01Exclusive).         *)

\* Mutant: each instrument begins at the voice with its own number.
BaseVoiceFixed(config, i) == i

\* allocate_base_voices()
BaseVoice(config, i) ==
    LET base[n \in 0 .. FmSlots] ==
            IF n = 0 THEN 0 ELSE base[n - 1] + config[n - 1].note_count
    IN  base[i]

Configure(config, map) ==
    /\ instruments' = config
    /\ Refresh(config, map, keyedOn)
    /\ selection' = NoSelection
    /\ UNCHANGED <<use, tone, down, pressedBefore>>

SetParameter(i, parameter, value) ==
    [instruments EXCEPT ![i][parameter] = value]

SetNoteCount(i, n) ==
    LET config == SetParameter(i, "note_count", n)
    IN  /\ BaseVoice(config, FmSlots) <= FmSlots
        /\ Configure(config, [j \in Instruments |->
              [instrument_map[j] EXCEPT !.base_voice = BaseVoice(config, j)]])

SetChannel(i, ch) ==
    Configure(SetParameter(i, "midi_channel", ch), instrument_map)

SetKeyLow(i, n) ==
    Configure(SetParameter(i, "key_low_limit", n), instrument_map)

SetKeyHigh(i, n) ==
    Configure(SetParameter(i, "key_high_limit", n), instrument_map)

ParameterChange ==
    \E i \in Instruments :
        /\ Bounded
        /\ down[i] = {}
        /\ \/ \E n \in use.noteCounts : SetNoteCount(i, n)
           \/ \E ch \in use.channels : SetChannel(i, ch)
           \/ \E n \in use.keyLimits : SetKeyLow(i, n)
           \/ \E n \in use.keyLimits : SetKeyHigh(i, n)

Next ==
    \/ \E ch \in Channels, n \in use.notes : NoteOn(ch, n) \/ NoteOff(ch, n)
    \/ \E ch \in Channels : AllNotesOff(ch)
    \/ Reset
    \/ GmModeOn
    \/ \E ch \in Channels, t \in use.programs : ProgramChange(ch, t)
    \/ \E i \in Instruments, t \in use.voices : SelectVoice(i, t)
    \/ \E i \in Instruments : SelectBank(i)
    \/ ParameterChange

Spec == Init /\ [][Next]_vars

-----------------------------------------------------------------------------
(* Properties *)

\* Every variable has its type.
TypeOK ==
    /\ use \in Uses
    /\ instruments \in [Instruments ->
          [note_count : 0 .. FmSlots, midi_channel : Nat, voice : Nat,
           key_low_limit : 0 .. 127, key_high_limit : 0 .. 127]]
    /\ instrument_map \in [Instruments ->
          [base_voice : 0 .. FmSlots, slot_mask : {0, AllOperators},
           note : [Slots -> Nat], note_on : [Slots -> -1 .. 2],
           step : [Slots -> 0 .. use.maxStep]]]
    /\ keyedOn \subseteq Voices
    /\ tone \in [Voices -> Nat \union {NoTone}]
    /\ down \in [Instruments -> SUBSET use.notes]
    /\ pressedBefore \in [Instruments -> SUBSET (Slots \X Slots)]
    /\ selection \in [by : {"nothing", "program", "parameter"},
                      instruments : SUBSET Instruments, tone : Nat]

SlotsDisjoint ==
    \A p \in ActiveSlots(instruments) :
        /\ Target(instrument_map, p) \in Voices
        /\ \A q \in ActiveSlots(instruments) :
              Target(instrument_map, p) = Target(instrument_map, q) => p = q

Allocated ==
    \A i \in Instruments :
        instrument_map[i].base_voice = BaseVoice(instruments, i)

\* Each slot of each instrument has a voice of the chip for itself, unless a
\* reset gave back the base voices of the beginning.
VoicesDisjoint == Allocated => SlotsDisjoint

StateOf(p) == instrument_map[p[1]].note_on[p[2]]
Sounds(p) == Target(instrument_map, p) % FmSlots \in keyedOn

\* vfb_device.c:53, "1: key on": the voice of a pressed slot is keyed on, as
\* long as slots have voices of their own.  An instrument that had no notes when
\* it was reset has no operators until a tone is chosen.
PressedKeysSound ==
    SlotsDisjoint =>
        \A p \in ActiveSlots(instruments) :
            StateOf(p) = 1 /\ instrument_map[p[1]].slot_mask # 0 => Sounds(p)

\* vfb_device.c:55, "-1: none pronouncing": the voice of a slot that was never
\* played is keyed off.
NonePronouncing ==
    \A p \in ActiveSlots(instruments) : StateOf(p) = -1 => ~Sounds(p)

\* vfb_device.c:54, "0: key released": the voice of a released slot is keyed off.
ReleasedKeysQuiet ==
    \A p \in ActiveSlots(instruments) : StateOf(p) = 0 => ~Sounds(p)

\* No note hangs: a pressed slot plays a note whose key is down.
HeldKeysPressed ==
    \A p \in ActiveSlots(instruments) :
        StateOf(p) > 0 => instrument_map[p[1]].note[p[2]] \in down[p[1]]

\* A key that is down loses its slot to another note only when all slots of the
\* instrument are pressed, and then the slot pressed longest ago goes.
OldestKeyStolen ==
    [][\A i \in Instruments : \A s \in Active(i) :
          /\ instrument_map[i].note_on[s] = 1
          /\ instrument_map'[i].note_on[s] = 1
          /\ instrument_map'[i].note[s] # instrument_map[i].note[s]
          => \A t \in Active(i) \ {s} :
                /\ instrument_map[i].note_on[t] = 1
                /\ <<s, t>> \in pressedBefore[i]]_vars

SelectionLoaded ==
    \A p \in ActiveSlots(instruments) :
        p[1] \in selection.instruments
        => tone[Target(instrument_map, p) % FmSlots] = selection.tone

\* A program change reaches the registers of all voices of all instruments on
\* the channel, wherever the numbers of notes have moved them, unless a reset
\* has left instruments with the same voices.
ProgramLoaded ==
    SlotsDisjoint /\ selection.by = "program" => SelectionLoaded

\* vfb01.c:755, "Update the YM2164 registers for this instrument": after the
\* parameter voice was sent its tone is in all voices of the instrument.
ParameterLoaded == selection.by = "parameter" => SelectionLoaded

\* A note that some instrument receives is pressed on an instrument: no
\* instrument is on a channel beyond their number.
NotesStayInMap ==
    \A ch \in Channels, n \in use.notes :
        ReceivedBy(ch, n) # {} => ch \in Instruments
=============================================================================
