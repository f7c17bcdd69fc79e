------------------------------ MODULE ImfcCard ------------------------------
(***************************************************************************)
(* The IBM Music Feature Card that IMFC.cpp adds to DOSBox: the registers  *)
(* and interrupts a program in DOSBox uses, the FIFO the MIDI In callback  *)
(* fills from a thread of its own, and the bytes sent to the FB-01         *)
(* (ImfcFilter).  The FIFO takes no lock: the callback and a port read are *)
(* sequences of steps that interleave in every order.  Accesses to the     *)
(* FIFO take effect in the order of the source, and a position is written  *)
(* once, as in a build that does not store it before its wrap.             *)
(*                                                                         *)
(* Of the counters (Pit8254) only their events are kept.  TxRDY, IBE and   *)
(* TMSK are never cleared and left out; so is EXR8, which is 0 because     *)
(* only bytes are stored.  The program that runs is settled at the         *)
(* beginning.                                                              *)
(***************************************************************************)
EXTENDS ImfcFilter

CONSTANTS
    Size,               \* entries of outputFIFO: 65536 in the code
    Hosts,              \* bound: what a program does with the card
    MayBreakOff         \* whether a program breaks messages off

Timers == {"A", "B"}
Nothing == 2 * Size

ASSUME CardAssumption ==
    /\ Size \in Nat /\ Size > 3
    /\ MayBreakOff \in BOOLEAN
    /\ Hosts \subseteq
         [midi : SUBSET Byte,           \* bytes that it sends
          commands : SUBSET Byte,
          pcr : SUBSET Byte,            \* values for the two registers
          tcr : SUBSET Byte,
          clocks : SUBSET Timers,       \* timers that it programs
          statuses : SUBSET Byte,       \* messages from the FB-01
          dumps : SUBSET (1 .. Size - 1)]

VARIABLES
    host,               \* the program that runs
    piu1, EXT8, TBE, TAE, RIE, WIE, RxRDY,
    timerInt,           \* timerAInt, timerBInt
    rxRDYInt, txRDYInt,
    clock,              \* mode 0 or not, and whether an event is pending
    irq,                \* the interrupt is requested
    handling,           \* the program's handler runs
    outputFIFO, outReadPos, outWritePos,
    callback,           \* MidiInProc: where it is in AddToFifo
    arriving,           \* bytes it has still to store
    reader,             \* where a port read is in GetFromFifo
    reading,            \* what the port read in progress found
    stored, taken,      \* ghost: numbers of the next byte stored and taken
    waited,             \* ghost: the FIFO held a byte when the read began
    got,                \* ghost: whether the byte last taken was the next one
    interrupting        \* ghost: an interrupt announced RxRDY with RIE set

registers == <<EXT8, TBE, TAE, RIE, WIE>>
timerVars == <<timerInt, clock>>
readVars == <<outReadPos, reader, reading, waited, taken, got>>
fifoVars == <<outputFIFO, outWritePos, callback, arriving, stored>>
vars == <<host, filterVars, piu1, registers, RxRDY, timerVars, rxRDYInt,
          txRDYInt, irq, handling, readVars, fifoVars, interrupting>>

Init ==
    /\ host \in Hosts
    /\ FilterInit
    /\ piu1 = 0
    /\ EXT8 = TRUE
    /\ TBE = FALSE /\ TAE = FALSE /\ RIE = FALSE /\ WIE = FALSE
    /\ RxRDY = FALSE
    /\ timerInt = [t \in Timers |-> FALSE]
    /\ rxRDYInt = FALSE /\ txRDYInt = FALSE
    /\ clock = [t \in Timers |-> [mode0 |-> FALSE, running |-> TRUE]]
    /\ irq = FALSE
    /\ handling = FALSE
    /\ outputFIFO = [i \in 0 .. Size - 1 |-> 2 * Size - 1]
    /\ outReadPos = 0 /\ outWritePos = 0
    /\ callback = "returned" /\ arriving = 0
    /\ reader = "idle" /\ reading = Nothing /\ waited = FALSE
    /\ stored = 0 /\ taken = 0
    /\ got = "nothing"
    /\ interrupting = FALSE

-----------------------------------------------------------------------------
(* Interrupts.  An event sets its flag and, if enabled, requests the one   *)
(* interrupt; nothing clears rxRDYInt and txRDYInt again.                  *)

IMFC_RxRDYEvent ==
    /\ rxRDYInt' = TRUE
    /\ irq' = (irq \/ RIE)
    /\ interrupting' = (interrupting \/ (RIE /\ RxRDY))

IMFC_TxRDYEvent(enabled) ==
    /\ txRDYInt' = TRUE
    /\ irq' = (irq \/ WIE \/ enabled)

\* Timer A also announces that the card can be written to.
TimerEvent(t) ==
    /\ timerInt' = [timerInt EXCEPT ![t] = TRUE]
    /\ IF t = "A" THEN IMFC_TxRDYEvent(TAE)
                  ELSE irq' = (irq \/ TBE) /\ UNCHANGED txRDYInt

\* The PIC runs a pending event; RestartIRQ adds the next one.
Tick(t) ==
    /\ clock[t].running
    /\ TimerEvent(t)
    /\ clock' = [clock EXCEPT ![t].running = ~clock[t].mode0]
    /\ UNCHANGED <<host, filterVars, piu1, registers, RxRDY, rxRDYInt,
                   handling, readVars, fifoVars, interrupting>>

-----------------------------------------------------------------------------
(* The MIDI In callback: AddToFifo announces the bytes, then stores them.  *)

\* Bytes of a short message: the channel counts as part of the status.
MessageLength(status) ==
    CASE status = 240 -> 1
      [] status \in {192, 208} -> 2
      [] OTHER -> 3

\* Bound: no more bytes come than the FIFO has room for.
AddToFifo(count) ==
    /\ callback = "returned"
    /\ ((stored + 2 * Size - taken) % (2 * Size)) + count < Size
    /\ RxRDY' = TRUE
    /\ callback' = "announced"
    /\ arriving' = count
    /\ UNCHANGED <<host, filterVars, piu1, registers, timerVars, rxRDYInt,
                   txRDYInt, irq, handling, readVars, outputFIFO,
                   outWritePos, stored, interrupting>>

\* Active sensing is filtered out.
ShortMessage(status) == status # 254 /\ AddToFifo(MessageLength(status))

AddToFifoEvent ==
    /\ callback = "announced"
    /\ IMFC_RxRDYEvent
    /\ callback' = "storing"
    /\ UNCHANGED <<host, filterVars, piu1, registers, RxRDY, timerVars,
                   txRDYInt, handling, readVars, outputFIFO, outWritePos,
                   arriving, stored>>

AddToFifoStore ==
    /\ callback = "storing"
    /\ outputFIFO' = [outputFIFO EXCEPT ![outWritePos] = stored]
    /\ callback' = "advancing"
    /\ UNCHANGED <<host, filterVars, piu1, registers, RxRDY, timerVars,
                   rxRDYInt, txRDYInt, irq, handling, readVars, outWritePos,
                   arriving, stored, interrupting>>

\* After the last byte of a dump its buffer is added again.
AddToFifoAdvance ==
    /\ callback = "advancing"
    /\ outWritePos' = IF outWritePos + 1 >= Size THEN 0 ELSE outWritePos + 1
    /\ stored' = (stored + 1) % (2 * Size)
    /\ arriving' = arriving - 1
    /\ callback' = IF arriving = 1 THEN "returned" ELSE "storing"
    /\ UNCHANGED <<host, filterVars, piu1, registers, RxRDY, timerVars,
                   rxRDYInt, txRDYInt, irq, handling, readVars, outputFIFO,
                   interrupting>>

-----------------------------------------------------------------------------
(* GetFromFifo.  Whether the FIFO is empty shows only at a read too many.  *)

\* A program reads the port when the status register tells it to.
ReadPIU0 ==
    /\ reader = "idle"
    /\ RxRDY
    /\ reader' = "loaded"
    /\ reading' = outputFIFO[outReadPos]
    /\ waited' = (outReadPos # outWritePos)
    /\ UNCHANGED <<host, filterVars, piu1, registers, RxRDY, timerVars,
                   rxRDYInt, txRDYInt, irq, handling, outReadPos, taken, got,
                   fifoVars, interrupting>>

Advance ==
    /\ reader' = "advanced"
    /\ outReadPos' = IF outReadPos + 1 >= Size THEN 0 ELSE outReadPos + 1
    /\ taken' = (taken + 1) % (2 * Size)
    /\ got' = IF reading = taken THEN "next"
              ELSE IF waited THEN "another" ELSE "stale"

\* Mutant: it does not look whether there is a byte.
GetFromFifoAlways ==
    /\ reader = "loaded"
    /\ Advance
    /\ UNCHANGED <<host, filterVars, piu1, registers, RxRDY, timerVars,
                   rxRDYInt, txRDYInt, irq, handling, reading, waited,
                   fifoVars, interrupting>>

GetFromFifo ==
    /\ reader = "loaded"
    /\ IF outReadPos = outWritePos
       THEN reader' = "empty" /\ UNCHANGED <<outReadPos, taken, got>>
       ELSE Advance
    /\ UNCHANGED <<host, filterVars, piu1, registers, RxRDY, timerVars,
                   rxRDYInt, txRDYInt, irq, handling, reading, waited,
                   fifoVars, interrupting>>

\* Also if bytes are announced or stored since the FIFO was found empty.
ClearRxRDY ==
    /\ reader = "empty"
    /\ reader' = "advanced"
    /\ RxRDY' = FALSE
    /\ interrupting' = FALSE
    /\ UNCHANGED <<host, filterVars, piu1, registers, timerVars, rxRDYInt,
                   txRDYInt, irq, handling, outReadPos, reading, waited, taken,
                   got, fifoVars>>

\* The port read returns, and with it the handler.
ReadReturns ==
    /\ reader = "advanced"
    /\ reader' = "idle"
    /\ reading' = Nothing
    /\ waited' = FALSE
    /\ handling' = FALSE
    /\ UNCHANGED <<host, filterVars, piu1, registers, RxRDY, timerVars,
                   txRDYInt, outReadPos, taken, got, fifoVars>>

\* Mutant: the interrupt is not requested again.
ReannounceNever ==
    /\ ReadReturns
    /\ UNCHANGED <<rxRDYInt, irq, interrupting>>

\* With data left the interrupt is requested again.
Reannounce ==
    /\ ReadReturns
    /\ IF RxRDY THEN IMFC_RxRDYEvent
                ELSE UNCHANGED <<rxRDYInt, irq, interrupting>>

-----------------------------------------------------------------------------
(* The program: its interrupt handler reads one byte if there is one. *)

Running == reader = "idle" /\ ~handling

Acknowledge ==
    /\ irq
    /\ Running
    /\ irq' = FALSE
    /\ handling' = TRUE
    /\ UNCHANGED <<host, filterVars, piu1, registers, RxRDY, timerVars,
                   rxRDYInt, txRDYInt, readVars, fifoVars, interrupting>>

NothingToRead ==
    /\ handling
    /\ reader = "idle"
    /\ ~RxRDY
    /\ handling' = FALSE
    /\ UNCHANGED <<host, filterVars, piu1, registers, RxRDY, timerVars,
                   rxRDYInt, txRDYInt, irq, readVars, fifoVars, interrupting>>

\* Nothing is broken off: an entry of a list, the header of a message.
WellFormed(data) ==
    /\ translate => data < 128 \/ (data = EndSysEx /\ paramBuffer = <<>>)
    /\ data = StartSysEx => ~(inSysEx /\ sIdx \in 1 .. 3)

WritePIU1(data) ==
    /\ Running
    /\ piu1' = data
    /\ IF EXT8 THEN CommandFilter(data) ELSE MidiFilter(data)
    /\ UNCHANGED <<host, registers, RxRDY, timerVars, rxRDYInt, txRDYInt,
                   irq, handling, readVars, fifoVars, interrupting>>

Write ==
    \E data \in IF EXT8 THEN host.commands ELSE host.midi :
        /\ ~EXT8 /\ ~MayBreakOff => WellFormed(data)
        /\ WritePIU1(data)

Initialize ==
    /\ EXT8' = TRUE
    /\ TBE' = FALSE /\ TAE' = FALSE /\ RIE' = FALSE /\ WIE' = FALSE
    /\ RxRDY' = FALSE
    /\ interrupting' = FALSE
    /\ UNCHANGED <<rxRDYInt, txRDYInt, irq>>

\* The event comes before the enable bit is set.
EnableWrite ==
    /\ WIE' = TRUE
    /\ IF WIE THEN UNCHANGED <<txRDYInt, irq>> ELSE IMFC_TxRDYEvent(FALSE)
    /\ UNCHANGED <<EXT8, TBE, TAE, RIE, RxRDY, rxRDYInt, interrupting>>

EnableRead ==
    /\ RIE' = TRUE
    /\ IF ~RIE /\ RxRDY THEN IMFC_RxRDYEvent
                        ELSE UNCHANGED <<rxRDYInt, irq, interrupting>>
    /\ UNCHANGED <<EXT8, TBE, TAE, WIE, RxRDY, txRDYInt>>

DisableWrite ==
    /\ WIE' = FALSE
    /\ UNCHANGED <<EXT8, TBE, TAE, RIE, RxRDY, rxRDYInt, txRDYInt, irq,
                   interrupting>>

DisableRead ==
    /\ RIE' = FALSE
    /\ interrupting' = FALSE
    /\ UNCHANGED <<EXT8, TBE, TAE, WIE, RxRDY, rxRDYInt, txRDYInt, irq>>

WritePCR(val) ==
    /\ Running
    /\ \/ val = 188 /\ Initialize
       \/ val = 5 /\ EnableWrite
       \/ val = 4 /\ DisableWrite
       \/ val = 9 /\ EnableRead
       \/ val = 8 /\ DisableRead
    /\ UNCHANGED <<host, filterVars, piu1, timerVars, handling, readVars,
                   fifoVars>>

Bit(val, n) == (val \div 2^n) % 2 = 1

WriteTCR(val) ==
    /\ Running
    /\ EXT8' = Bit(val, 4)
    /\ TBE' = Bit(val, 3)
    /\ TAE' = Bit(val, 2)
    /\ timerInt' = [t \in Timers |->
                      timerInt[t] /\ ~Bit(val, IF t = "A" THEN 0 ELSE 1)]
    /\ UNCHANGED <<host, filterVars, piu1, RIE, WIE, RxRDY, rxRDYInt,
                   txRDYInt, clock, irq, handling, readVars, fifoVars,
                   interrupting>>

\* UpdateMode: an output that rises is an event, one that falls clears.
WriteTCWR(t, mode0, low) ==
    /\ Running
    /\ IF ~mode0 /\ low
       THEN TimerEvent(t)
       ELSE /\ timerInt' = [timerInt EXCEPT ![t] = FALSE]
            /\ UNCHANGED <<irq, txRDYInt>>
    /\ clock' = [clock EXCEPT ![t] = [mode0 |-> mode0,
                                      running |-> ~mode0 /\ low]]
    /\ UNCHANGED <<host, filterVars, piu1, registers, RxRDY, rxRDYInt,
                   handling, readVars, fifoVars, interrupting>>

\* A count schedules the event after a control word, in mode 0 always.
WriteCNTR(t) ==
    /\ Running
    /\ clock' = [clock EXCEPT ![t].running = TRUE]
    /\ UNCHANGED <<host, filterVars, piu1, registers, RxRDY, timerInt,
                   rxRDYInt, txRDYInt, irq, handling, readVars, fifoVars,
                   interrupting>>

Card ==
    \/ \E t \in Timers : Tick(t)
    \/ AddToFifoEvent
    \/ AddToFifoStore
    \/ AddToFifoAdvance

MidiIn ==
    \/ \E status \in host.statuses : ShortMessage(status)
    \/ \E count \in host.dumps : AddToFifo(count)

Program ==
    \/ Acknowledge
    \/ ReadPIU0
    \/ GetFromFifo
    \/ ClearRxRDY
    \/ Reannounce
    \/ NothingToRead
    \/ Write
    \/ \E val \in host.pcr : WritePCR(val)
    \/ \E val \in host.tcr : WriteTCR(val)
    \/ \E t \in host.clocks, mode0, low \in BOOLEAN : WriteTCWR(t, mode0, low)
    \/ \E t \in host.clocks : WriteCNTR(t)

Next == Card \/ MidiIn \/ Program

Spec == Init /\ [][Next]_vars

\* The PIC runs pending events and the callback returns; an interrupt is
\* taken and its handler ends.
Fairness ==
    /\ \A t \in Timers : WF_vars(Tick(t))
    /\ WF_vars(AddToFifoEvent)
    /\ WF_vars(AddToFifoStore)
    /\ WF_vars(AddToFifoAdvance)
    /\ SF_vars(Acknowledge)
    /\ WF_vars(handling /\ ReadPIU0)
    /\ WF_vars(GetFromFifo)
    /\ WF_vars(ClearRxRDY)
    /\ WF_vars(Reannounce)
    /\ WF_vars(NothingToRead)

FairSpec == Spec /\ Fairness

-----------------------------------------------------------------------------

\* The type of every variable.
TypeOK ==
    /\ host \in Hosts
    /\ FilterTypeOK
    /\ piu1 \in Byte
    /\ registers \in BOOLEAN \X BOOLEAN \X BOOLEAN \X BOOLEAN \X BOOLEAN
    /\ RxRDY \in BOOLEAN
    /\ timerInt \in [Timers -> BOOLEAN]
    /\ rxRDYInt \in BOOLEAN /\ txRDYInt \in BOOLEAN
    /\ clock \in [Timers -> [mode0 : BOOLEAN, running : BOOLEAN]]
    /\ irq \in BOOLEAN
    /\ handling \in BOOLEAN
    /\ outputFIFO \in [0 .. Size - 1 -> 0 .. 2 * Size - 1]
    /\ outReadPos \in 0 .. Size - 1
    /\ outWritePos \in 0 .. Size - 1
    /\ callback \in {"returned", "announced", "storing", "advancing"}
    /\ arriving \in 0 .. Size - 1
    /\ reader \in {"idle", "loaded", "empty", "advanced"}
    /\ reading \in 0 .. 2 * Size
    /\ waited \in BOOLEAN
    /\ stored \in 0 .. 2 * Size - 1
    /\ taken \in 0 .. 2 * Size - 1
    /\ got \in {"nothing", "next", "another", "stale"}
    /\ interrupting \in BOOLEAN

\* Wherever the callback runs amid a port read, a read of a FIFO that holds a
\* byte takes the one that was stored next: no byte is taken twice, missed or
\* overtaken, although RxRDY promises bytes that are not stored yet.  Only a
\* read of an empty FIFO can go wrong, if a byte comes while it lasts.
HeldBytesInOrder == got # "another"

\* What a write lets out of the filter, as the program wrote it.
Source(bytes) ==
    IF Len(bytes) >= 8
    THEN <<(bytes[5] - 24) * 16 + bytes[4]>> \o SubSeq(bytes, 6, Len(bytes) - 1)
    ELSE bytes

Kept == IF translate THEN paramBuffer ELSE IF inSysEx THEN Held ELSE <<>>

\* The filter neither loses nor invents nor reorders a byte of a well-formed
\* stream, whatever the program does with the other registers meanwhile: what
\* it lets out and what it keeps is what it kept and the byte written, but for
\* the header and the end of a list.
BytesConserved ==
    [][WritePIU1(piu1') /\ ~EXT8 =>
          \/ Source(out') \o Kept' = Append(Kept, piu1')
          \/ ~translate /\ Append(Kept, piu1') = parameterList /\ Kept' = <<>>
          \/ translate /\ piu1' = EndSysEx /\ ~inSysEx']_vars

\* A program that reads one byte at each interrupt is led on: once an interrupt
\* has announced RxRDY, and as long as RIE stays set, each byte in the FIFO is
\* taken, by the interrupt GetFromFifo requests again, unless a read finds the
\* FIFO empty.  That read ends the interrupts, also those of a byte that is
\* announced but not stored yet; see BytesTaken below.
ReadingGoesOn ==
    \A k \in 0 .. 2 * Size - 1 :
        (interrupting /\ outReadPos # outWritePos /\ taken = k)
            ~> (taken # k \/ ~RIE \/ reader = "empty")

\* A program that sends from its interrupt handler gets another interrupt
\* while timer A runs, which stands in for the card being ready again.
WritingGoesOn ==
    (WIE /\ clock["A"] = [mode0 |-> FALSE, running |-> TRUE])
        ~> (irq \/ ~WIE \/ clock["A"] # [mode0 |-> FALSE, running |-> TRUE])

\* The interrupts go on in both directions, but for a read that comes too early.
InterruptsGoOn == ReadingGoesOn /\ WritingGoesOn

-----------------------------------------------------------------------------
(* Properties that do not hold, for further configurations. *)

\* Nor does a read of the empty FIFO take anything but the next byte.
BytesInOrder == got \notin {"another", "stale"}

\* What the FIFO holds is announced.
Announced ==
    callback = "returned" /\ reader = "idle" /\ outReadPos # outWritePos
        => RxRDY

\* Every byte in the FIFO is taken while RIE stays set.
BytesTaken ==
    \A k \in 0 .. 2 * Size - 1 :
        (RIE /\ outReadPos # outWritePos /\ taken = k) ~> (taken # k \/ ~RIE)

\* Data that waits when a program enables the interrupt raises it.
EnabledReadInterrupts ==
    (RIE /\ RxRDY) ~> (~RIE \/ ~RxRDY \/ interrupting)
=============================================================================
