----------------------------- MODULE ImfcFilter -----------------------------
(***************************************************************************)
(* What the IBM Music Feature Card does to the bytes a program sends it:   *)
(* IMF_MIDIFilter(), which turns the entries of a parameter list of the    *)
(* card into parameter changes of the FB-01 and passes everything else,    *)
(* and IMF_CommandFilter(), which collects the commands of the card.       *)
(*                                                                         *)
(* The only caller gives both FALSE for reset, so their first branch is    *)
(* left out.  A performed command is only logged.                          *)
(***************************************************************************)
EXTENDS Naturals, Sequences

VARIABLES
    inSysEx, translate, sIdx,
    paramBuffer,        \* the first pIdx bytes of the code's
    commandBuffer,      \* the first cIdx bytes of the code's
    out                 \* what the last write sent to the FB-01

midiFilter == <<inSysEx, translate, sIdx, paramBuffer>>
filterVars == <<midiFilter, commandBuffer, out>>

Byte == 0 .. 255
StartSysEx == 240
EndSysEx == 247
parameterList == <<StartSysEx, 67, 117, 113>>
Held == SubSeq(parameterList, 1, sIdx)

FilterInit ==
    /\ inSysEx = FALSE
    /\ translate = FALSE
    /\ sIdx = 0
    /\ paramBuffer = <<>>
    /\ commandBuffer = <<>>
    /\ out = <<>>

-----------------------------------------------------------------------------
(* IMF_MIDIFilter.  The position in parameterList counts from 0. *)

\* A start of system exclusive data is compared from the beginning again.
Position(data) == IF data = StartSysEx THEN 0 ELSE sIdx
Inside(data) == inSysEx \/ data = StartSysEx
InHeader(data) == Inside(data) /\ Position(data) < Len(parameterList)
Matches(data) == InHeader(data) /\ parameterList[Position(data) + 1] = data

\* Outside of system exclusive data.
PassThrough(data) ==
    /\ ~Inside(data)
    /\ out' = <<data>>
    /\ UNCHANGED midiFilter

\* Mutant: what was held back is forgotten.
NotTheListAlone(data) ==
    /\ InHeader(data)
    /\ ~Matches(data)
    /\ inSysEx' = FALSE
    /\ translate' = FALSE
    /\ out' = <<data>>
    /\ UNCHANGED <<sIdx, paramBuffer>>

\* Not the list: what was held back goes out first.
NotTheList(data) ==
    /\ InHeader(data)
    /\ ~Matches(data)
    /\ inSysEx' = FALSE
    /\ translate' = FALSE
    /\ out' = Append(Held, data)
    /\ UNCHANGED <<sIdx, paramBuffer>>

HoldBack(data) ==
    /\ Matches(data)
    /\ Position(data) + 1 < Len(parameterList)
    /\ ~translate
    /\ inSysEx' = TRUE
    /\ sIdx' = Position(data) + 1
    /\ out' = <<>>
    /\ UNCHANGED <<translate, paramBuffer>>

ListStarts(data) ==
    /\ Matches(data)
    /\ Position(data) + 1 = Len(parameterList)
    /\ translate' = TRUE
    /\ sIdx' = Len(parameterList)
    /\ out' = <<>>
    /\ UNCHANGED <<inSysEx, paramBuffer>>

\* The rest of the filter: in a list that has started.
Translating(data) ==
    /\ translate
    /\ Inside(data)
    /\ InHeader(data) =>
          Matches(data) /\ Position(data) + 1 < Len(parameterList)
    /\ sIdx' = IF Matches(data) THEN Position(data) + 1 ELSE sIdx

\* What was collected of an entry remains in the buffer.
ListEnds(data) ==
    /\ Translating(data)
    /\ data = EndSysEx
    /\ inSysEx' = FALSE
    /\ translate' = FALSE
    /\ out' = <<>>
    /\ UNCHANGED paramBuffer

\* Three bytes, or four when bit 6 of the parameter number is set.
Complete(entry) ==
    Len(entry) > 2 /\ ((entry[2] \div 64) % 2 = 0 \/ Len(entry) > 3)

Collect(data) ==
    /\ Translating(data)
    /\ data # EndSysEx
    /\ ~Complete(Append(paramBuffer, data))
    /\ inSysEx' = TRUE
    /\ paramBuffer' = Append(paramBuffer, data)
    /\ out' = <<>>
    /\ UNCHANGED translate

\* The parameter change: node, instrument with bits 3 and 4 set, number, data.
Change(entry) ==
    <<StartSysEx, 67, 117, entry[1] % 16, 24 + ((entry[1] \div 16) % 8)>>
    \o <<(entry[2] % 64) + (IF Len(entry) = 4 THEN 64 ELSE 0)>>
    \o SubSeq(entry, 3, Len(entry)) \o <<EndSysEx>>

SendChange(data) ==
    /\ Translating(data)
    /\ data # EndSysEx
    /\ Complete(Append(paramBuffer, data))
    /\ inSysEx' = TRUE
    /\ out' = Change(Append(paramBuffer, data))
    /\ paramBuffer' = <<>>
    /\ UNCHANGED translate

MidiFilter(data) ==
    /\ \/ PassThrough(data) \/ NotTheList(data) \/ HoldBack(data)
       \/ ListStarts(data) \/ ListEnds(data) \/ Collect(data)
       \/ SendChange(data)
    /\ UNCHANGED commandBuffer

-----------------------------------------------------------------------------
(* IMF_CommandFilter *)

\* Mode, error report, path, reboot and node parameters.
cLength == [c \in {224, 225, 226, 229, 227} |->
              CASE c \in {224, 225} -> 2
                [] c = 226 -> 6
                [] c = 229 -> 1
                [] c = 227 -> 9]

\* A byte that begins no command is skipped.
CommandFilter(data) ==
    LET command == Append(commandBuffer, data)
    IN  /\ commandBuffer' =
             IF command[1] \notin DOMAIN cLength
                \/ Len(command) >= cLength[command[1]] THEN <<>> ELSE command
        /\ out' = <<>>
        /\ UNCHANGED midiFilter

-----------------------------------------------------------------------------

FilterTypeOK ==
    /\ inSysEx \in BOOLEAN
    /\ translate \in BOOLEAN
    /\ sIdx \in 0 .. Len(parameterList)
    /\ paramBuffer \in Seq(Byte) /\ Len(paramBuffer) <= 3
    /\ commandBuffer \in Seq(Byte)
    /\ commandBuffer # <<>> => Len(commandBuffer) < cLength[commandBuffer[1]]
    /\ out \in Seq(Byte) /\ Len(out) <= 9
=============================================================================
