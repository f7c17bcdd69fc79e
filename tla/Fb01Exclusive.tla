----------------------------- MODULE Fb01Exclusive -----------------------------
(***************************************************************************)
(* The system exclusive messages of VFB-01: fb01_exclusive() chooses the   *)
(* handler, the dumps answer with a message of packets, and a node message *)
(* stores a voice bank and makes the tones of it.  A librarian program     *)
(* keeps a dump and sends it back, over a line that may spoil a byte.      *)
(*                                                                         *)
(* A message is ex_buf: the bytes after F0, F7 included.  A packet has its *)
(* length, its data and a checksum, as in the code, but a voice and the    *)
(* name of a bank are one byte each.  The handlers that are not actions    *)
(* here only write to the debug output; the native message 7D 0A is one of *)
(* them, since its loop ends with i = 35 and its test asks for 36.         *)
(***************************************************************************)
EXTENDS Fb01Controllers

CONSTANTS
    Banks,              \* numbers of voice banks, below VFB_NUM_VOICE_BANKS
    VoiceCount          \* VFB_NUM_VOICES

Message == Seq(0 .. 255)

\* What is sent, further: the requests to the FB-01, what a voice may be, what a
\* byte may become on the line, and how many node messages.
ASSUME ExclusiveAssumption ==
    /\ Banks \subseteq 0 .. 6 /\ VoiceCount \in 1 .. 48
    /\ \A u \in Uses :
          /\ u.requests \subseteq Message
          /\ u.voiceBytes \subseteq 0 .. 255 /\ u.wrongBytes \subseteq 0 .. 127
          /\ u.maxStores \in Nat

Bank == [0 .. VoiceCount -> 0 .. 255]   \* the name and the voices
Voices == 1 .. VoiceCount
NoStore == [number |-> 0, bank |-> 0, contents |-> <<>>, spoilt |-> FALSE]

VARIABLES
    voice_banks,
    voice,              \* the tones made of them
    answer,             \* the last message SendMidiData() was given
    checksumError,      \* "Checksum error!"
    request,            \* ghost: what it answers
    dumped,             \* ghost: the bank it was made of
    stored              \* ghost: the last node message that stored a bank

dumpVars == <<answer, request, dumped>>
storeVars == <<voice_banks, voice, checksumError, stored>>
exclusiveVars == <<controllerVars, dumpVars, storeVars>>

\* Nothing initialises the banks.
ExclusiveInit ==
    /\ ControllersInit
    /\ voice_banks \in [Banks -> [0 .. VoiceCount -> use.voiceBytes]]
    /\ voice = [v \in Voices |-> 0]
    /\ answer = <<>> /\ request = <<>> /\ dumped = <<>>
    /\ checksumError = FALSE
    /\ stored = NoStore

-----------------------------------------------------------------------------
(* Packets *)

SumOf(bytes) ==
    LET sum[n \in 0 .. Len(bytes)] ==
            IF n = 0 THEN 0 ELSE sum[n - 1] + bytes[n]
    IN  sum[Len(bytes)]

Checksum(bytes) == (-SumOf(bytes)) % 128

\* The bytes of a packet: length, data, checksum.
Packet(data) ==
    <<Len(data) \div 128, Len(data) % 128>> \o data \o <<Checksum(data)>>

Split(byte) == <<byte % 16, byte \div 16>>

\* encode_packet_type_A() of one byte, and type B.
EncodedA(byte) == Packet(Split(byte))
EncodedB(bytes) == Packet([k \in DOMAIN bytes |-> bytes[k] % 128])

\* a | b in a byte, from its bits: d is the value of one.
BitOfEither(a, b, d) ==
    IF (a \div d) % 2 = 1 \/ (b \div d) % 2 = 1 THEN d ELSE 0
Or(a, b) ==
    BitOfEither(a, b, 1) + BitOfEither(a, b, 2) + BitOfEither(a, b, 4)
    + BitOfEither(a, b, 8) + BitOfEither(a, b, 16) + BitOfEither(a, b, 32)
    + BitOfEither(a, b, 64) + BitOfEither(a, b, 128)

\* Mutant: the high half comes first.
JoinedSwapped(first, second) == Or(second, first * 16)

Joined(first, second) == Or(first, second * 16)

PacketLength == 5
PacketAt(message, k) == SubSeq(message, k, k + PacketLength - 1)

\* decode_packet_type_A() with the length given by the caller.
DecodedA(packet) == Joined(packet[3], packet[4])
CheckOk(packet) == Checksum(<<packet[3], packet[4]>>) = packet[5]

-----------------------------------------------------------------------------
(* Messages and the choice of their handlers *)

Byte(ex, n) == ex[n + 1]        \* ex_buf[n]
High(byte) == 16 * (byte \div 16) \* & 0xF0
Kind(byte) == 8 * (byte \div 8)   \* & 0xF8

\* ex_buf[1] = 0x75, and not an event list.
HandlerBySubStatus(ex) ==
    LET kind == Kind(Byte(ex, 3))
        format == Byte(ex, 4)
    IN  CASE kind = \h18 -> "param_change_instrument"
          [] kind = \h28 /\ format = \h40 -> "voice_bulk_data_dump"
          [] kind = \h28 /\ format = 0 -> "voice_data_dump"
          [] kind = \h10 -> "system_param_change"
          [] kind = \h20 /\ format = 0 -> "each_voice_bulk_data_dump"
          [] kind = \h20 /\ format = 1 -> "current_config_data_dump"
          [] kind = \h20 /\ format = 2 -> "config_data_dump"
          [] kind = \h20 /\ format = 3 -> "each_config_data_dump"
          [] kind = \h20 /\ format = 4 -> "unit_ID_number_dump"
          [] kind = \h20 /\ format = \h40 -> "config_data_store"
          [] kind = \hC0 -> "voice_bulk_data_store"
          [] kind = 0 /\ format \in {0, 6} -> "node_message"
          [] kind = 0 /\ format = 1 -> "current_config_store"
          [] kind = 0 /\ format = 2 -> "config_memory_store"
          [] kind = 0 /\ format = 3 -> "config_16_memory_store"
          [] kind = 8 -> "single_voice_bulk_data_store"
          [] OTHER -> "unknown_sysex"

HandlerOfOthers(ex) ==
    CASE High(Byte(ex, 2)) = \h20 -> "voice_RAM1_bulk_data_dump"
      [] High(Byte(ex, 2)) = 0 -> "voice_RAM1_bulk_data_store"
      [] High(Byte(ex, 2)) = 1 -> "param_change_channel"
      [] OTHER -> "unknown_sysex"

\* fb01_exclusive()
Handler(ex) ==
    IF Byte(ex, 1) # \h75 THEN HandlerOfOthers(ex)
    ELSE IF Byte(ex, 2) = \h70 THEN "event_list"
    ELSE HandlerBySubStatus(ex)

-----------------------------------------------------------------------------
(* Handlers *)

\* Parameters 0 to 5; codes from 0x40 on match no case of the switch.  What it
\* does to slots, voices and notes is in Fb01Voices.
ParamChangeInstrument(ex) ==
    /\ Handler(ex) = "param_change_instrument"
    /\ Byte(ex, 4) % 128 \in 0 .. 5
    /\ instruments' = [instruments EXCEPT
            ![Byte(ex, 3) % 8][(Byte(ex, 4) % 128) + 1] = Byte(ex, 5)]
    /\ UNCHANGED <<use, controls, system_volume, rpn_adr, nrpn_adr, selections,
                   dumpVars, storeVars>>

SendMidiData(ex, data, bank) ==
    /\ answer' = data
    /\ request' = ex
    /\ dumped' = bank
    /\ UNCHANGED <<controllerVars, storeVars>>

\* The packets of the name and of the voices, byte after byte.
EncodedBank(bank) ==
    [n \in 1 .. PacketLength * (VoiceCount + 1) |->
        EncodedA(bank[(n - 1) \div PacketLength])[((n - 1) % PacketLength) + 1]]

\* The bank named in the answer has two bits.
EachVoiceBulkDataDump(ex) ==
    LET bank == Byte(ex, 5)
    IN  /\ Handler(ex) = "each_voice_bulk_data_dump"
        /\ SendMidiData(ex,
              <<\hF0, \h43, \h75, Byte(ex, 2), 0, 0, bank % 4>>
              \o EncodedBank(voice_banks[bank]) \o <<\hF7>>,
              voice_banks[bank])

\* The source is taken from the byte that holds the kind of dump.
CurrentConfigDataDump(ex) ==
    /\ Handler(ex) = "current_config_data_dump"
    /\ SendMidiData(ex,
          <<\hF0, \h43, \h75, Byte(ex, 4), 0, 1, 0>>
          \o EncodedB(FlattenSeq([n \in 1 .. FmSlots |-> instruments[n - 1]]))
          \o <<\hF7>>, <<>>)

\* One voice, of a bank with the low bits of an instrument's number.
VoiceDataDump(ex) ==
    /\ Handler(ex) = "voice_data_dump"
    /\ SendMidiData(ex,
          <<\hF0, \h43, \h75, Byte(ex, 2), Byte(ex, 3) % 4, 0, 0>>
          \o EncodedA(voice_banks[Byte(ex, 3) % 4][Byte(ex, 5) + 1])
          \o <<\hF0>>, <<>>)

Tones(bank) == [v \in Voices |-> bank[v]]

\* The tones are those of the bank stored last, whatever its number.
StoreBank(n, bank) ==
    /\ voice_banks' = [voice_banks EXCEPT ![n] = bank]
    /\ voice' = Tones(voice_banks'[n])

PacketsOf(ex) ==
    [k \in 0 .. VoiceCount |-> PacketAt(ex, 7 + k * PacketLength)]

\* Mutant: the last packet decides whether the message is right.
AllCheckedLast(packets) == CheckOk(packets[VoiceCount])

AllChecked(packets) == \A k \in DOMAIN packets : CheckOk(packets[k])

\* A wrong checksum is reported, and the bank stored all the same.
NodeMessage(ex) ==
    LET packets == PacketsOf(ex)
    IN  /\ Handler(ex) = "node_message" /\ Byte(ex, 4) = 0
        /\ StoreBank(Byte(ex, 5), [k \in DOMAIN packets |-> DecodedA(packets[k])])
        /\ checksumError' = ~AllChecked(packets)

-----------------------------------------------------------------------------
(* The librarian and the line (environment) *)

IsBankDump == dumped # <<>>

\* The dump without its F0, spoilt at byte k of a packet, or not (k = 0).
SpoiltAt == {0} \cup (7 .. 6 + (VoiceCount + 1) * PacketLength)
Spoilt(ex, k, b) == IF k = 0 THEN ex ELSE [ex EXCEPT ![k] = b]

\* The librarian sends the dump back, to any bank.
SendBack(k, b, bank) ==
    LET ex == Spoilt([Tail(answer) EXCEPT ![6] = bank], k, b)
    IN  /\ IsBankDump /\ stored.number < use.maxStores
        /\ NodeMessage(ex)
        /\ stored' = [number |-> stored.number + 1, bank |-> bank,
                      contents |-> dumped, spoilt |-> k # 0]
        /\ UNCHANGED <<controllerVars, dumpVars>>

Requests ==
    \E ex \in use.requests :
        \/ ParamChangeInstrument(ex)
        \/ EachVoiceBulkDataDump(ex)
        \/ CurrentConfigDataDump(ex)
        \/ VoiceDataDump(ex)

ExclusiveNext ==
    \/ ControllersNext /\ UNCHANGED <<dumpVars, storeVars>>
    \/ Requests
    \/ \E k \in SpoiltAt, b \in use.wrongBytes, bank \in Banks :
          SendBack(k, b, bank)

ExclusiveSpec == ExclusiveInit /\ [][ExclusiveNext]_exclusiveVars

-----------------------------------------------------------------------------
(* Properties *)

HalvesOf(numbers) == [Halves -> numbers]

\* Banks, tones and bytes sent are bytes; a parameter number is unset or of
\* seven bits.
ExclusiveTypeOK ==
    /\ \A i \in Instruments :
          /\ instruments[i] \in Seq(0 .. 127) /\ Len(instruments[i]) = 6
          /\ controls[i].bend_sense \in HalvesOf(0 .. 127)
          /\ controls[i].bend \in -8192 .. 8191
          /\ {controls[i].hold, controls[i].portament_on} \subseteq BOOLEAN
          /\ {controls[i].master_volume, controls[i].expression,
              controls[i].portament, system_volume} \subseteq 0 .. 127
    /\ \A ch \in Channels :
          {rpn_adr[ch], nrpn_adr[ch]} \subseteq HalvesOf((0 .. 127) \cup {Unset})
    /\ voice_banks \in [Banks -> Bank]
    /\ voice \in [Voices -> 0 .. 255]
    /\ answer \in Message
    /\ checksumError \in BOOLEAN

\* A dump that is sent back makes the bank, and the tones that are played, what
\* the bank was when the dump was asked for, whatever was stored there
\* meanwhile, and no error is reported.
DumpRestoresBank ==
    stored # NoStore /\ ~stored.spoilt =>
        /\ voice_banks[stored.bank] = stored.contents
        /\ voice = Tones(stored.contents)
        /\ ~checksumError

\* One byte of one packet that the line spoilt changes nothing or is reported.
HarmIsReported ==
    stored # NoStore /\ voice_banks[stored.bank] # stored.contents =>
        checksumError

WellFormed(message) ==
    /\ message[1] = \hF0 /\ Last(message) = \hF7
    /\ \A k \in 2 .. Len(message) - 1 : message[k] < 128

\* What SendMidiData() is given is one exclusive message: a terminator ends it,
\* and whatever voices and parameters hold there is no other status byte.
AnswersWellFormed == answer # <<>> => WellFormed(answer)

\* "Set source": an answer names the system that the request named.
AnswerNamesSystem == answer # <<>> => answer[4] = Byte(request, 2)

\* "F0 43 75 <0000ssss> 20 00 <00000xxx> F7": a dump names the bank asked for.
DumpNamesBank == IsBankDump => answer[7] = Byte(request, 5)

\* "First two banks are RAM, rest is ROM".
RomKept ==
    [][\A n \in Banks : n > 1 => voice_banks'[n] = voice_banks[n]]_exclusiveVars

\* Messages of the table in fb01_exclusive(), and the handlers of their names.
Documented ==
    {<<<<\h43, \h75, 1, \h18, \h00, 2, \hF7>>, "param_change_instrument">>,
     <<<<\h43, \h75, 1, \h28, \h40, 0, \hF7>>, "voice_bulk_data_dump">>,
     <<<<\h43, \h75, 1, \h28, 0, 5, \hF7>>, "store_in_voice_RAM">>,
     <<<<\h43, \h75, 1, \h10, \h21, 1, \hF7>>, "system_param_change">>,
     <<<<\h43, \h21, \h0C, \hF7>>, "voice_RAM1_bulk_data_dump">>,
     <<<<\h43, \h75, 1, \h20, 0, 1, \hF7>>, "each_voice_bulk_data_dump">>,
     <<<<\h43, \h75, 1, \h0C, 0, 0, 1, \h20, \h10, 0, \hF7>>,
       "voice_bulk_data_store">>,
     <<<<\h43, \h75, 1, \h08, 0, 0, 1, 0, 0, \hF7>>,
       "single_voice_bulk_data_store">>,
     <<<<\h43, \h11, \h15, 1, 2, \hF7>>, "param_change_channel">>,
     <<<<\h43, \h11, \h15, \h41, 2, 0, \hF7>>, "param_change_channel">>,
     <<<<\h43, \h75, \h70, 1, \hF7>>, "event_list">>}

HandledAsDocumented == \A entry \in Documented : Handler(entry[1]) = entry[2]
=============================================================================
