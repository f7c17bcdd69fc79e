----------------------------- MODULE WinmmDriver -----------------------------
(***************************************************************************)
(* What the driver does with the calls of winmm: DriverProc() and the MIDI *)
(* Out part, modMessage(), with the clients and their parsers.  Messages   *)
(* go to the synth application if its window was found (hwnd), else to the *)
(* synth in the process; should the application not answer, the driver     *)
(* falls back on that synth.                                               *)
(*                                                                         *)
(* modMessage() takes no lock.  A call is a sequence of steps, so that the *)
(* application may end between a test and what the driver does for it.     *)
(* What holds does so of calls that come one at a time (Serial); without   *)
(* it the steps of several interleave, which shows what that breaks.       *)
(* What a parser makes of the bytes (MidiStreamParser) counts here only as *)
(* a number of messages; realtime bytes are not among them, for the driver *)
(* ignores those.  What the synth does with a message is FB01Synth's       *)
(* matter, but for one thing: its queue may be full (MidiEventQueue).      *)
(* DRV_LOAD precedes everything, and the device number is always 0.        *)
(***************************************************************************)
EXTENDS Integers, FiniteSets

CONSTANTS
    MAX_DRIVERS,
    MAX_CLIENTS,
    Callers,            \* the threads that call modMessage()
    Handles,            \* of instances of the driver: hdrvr
    NoHandle,
    Serial,             \* whether the calls come one at a time
    MayReopen,          \* whether a driver is closed before its clients
    ResetMayFail        \* whether the synth may fail to open in a reset

ASSUME WinmmAssumption ==
    /\ MAX_DRIVERS \in Nat /\ MAX_DRIVERS > 0
    /\ MAX_CLIENTS \in Nat /\ MAX_CLIENTS > 0
    /\ NoHandle \notin Handles
    /\ Serial \in BOOLEAN /\ MayReopen \in BOOLEAN /\ ResetMayFail \in BOOLEAN

Drivers == 0 .. MAX_DRIVERS - 1
Clients == 0 .. MAX_CLIENTS - 1

VARIABLES
    app,                \* whether the application runs
    hwnd,               \* whether the driver knows its window
    synthOpened,
    midiSynth,          \* what the local synth is: closed, open
    drivers, driverCount,
    clientCount,        \* of the driver that modMessage uses
    clients,
    pc,                 \* where a caller's call is
    client,             \* which client the call is for: *dwUser, dwUser
    instance,           \* what the application gave a call that opens
    left,               \* messages that the parser has still to pass on
    played,             \* ghost: where the messages of a call went
    result              \* ghost: what the call returned

synthVars == <<hwnd, synthOpened, midiSynth>>
driverVars == <<drivers, driverCount>>
clientVars == <<clientCount, clients>>
dataVars == <<left, played, result>>
vars == <<app, synthVars, driverVars, clientVars, pc, client, instance,
          dataVars>>

NotOpen == [open |-> FALSE, hdrvr |-> NoHandle]
NoClient == [allocated |-> FALSE, parser |-> "none", synth_instance |-> "null"]

Init ==
    /\ app \in BOOLEAN
    /\ hwnd = FALSE
    /\ synthOpened = FALSE
    /\ midiSynth = "closed"
    /\ drivers = [d \in Drivers |-> NotOpen]
    /\ driverCount = 0
    /\ clientCount = 0
    /\ clients = [c \in Clients |-> NoClient]
    /\ pc = [t \in Callers |-> "idle"]
    /\ client = [t \in Callers |-> 0]
    /\ instance = [t \in Callers |-> "null"]
    /\ left = [t \in Callers |-> 0]
    /\ played = [t \in Callers |-> {}]
    /\ result = [t \in Callers |-> "none"]

Allocated == {c \in Clients : clients[c].allocated}
Least(S) == CHOOSE n \in S : \A m \in S : n <= m

Idle == \A t \in Callers : pc[t] = "idle"
Go(t, from, to) == pc[t] = from /\ pc' = [pc EXCEPT ![t] = to]

\* The application is started and ends, whatever the driver does.
StartOrEndApp ==
    /\ app' = ~app
    /\ UNCHANGED <<synthVars, driverVars, clientVars, pc, client, instance,
                   dataVars>>

-----------------------------------------------------------------------------
(* DriverProc *)

\* The clients are forgotten but not freed.
DrvOpen(h) ==
    LET free == {d \in Drivers : ~drivers[d].open}
    IN  /\ Serial => Idle
        /\ \A d \in Drivers : drivers[d].hdrvr # h \/ ~drivers[d].open
        /\ driverCount # MAX_DRIVERS
        /\ drivers' = [drivers EXCEPT ![Least(free)] = [open |-> TRUE,
                                                        hdrvr |-> h]]
        /\ clientCount' = IF Least(free) = 0 THEN 0 ELSE clientCount
        /\ driverCount' = driverCount + 1
        /\ UNCHANGED <<app, synthVars, clients, pc, client, instance, dataVars>>

DrvClose(h) ==
    LET opened == {d \in Drivers : drivers[d].open /\ drivers[d].hdrvr = h}
    IN  /\ Serial => Idle
        /\ opened # {}
        /\ MayReopen \/ 0 \notin opened \/ Allocated = {}
        /\ drivers' = [drivers EXCEPT ![Least(opened)].open = FALSE]
        /\ driverCount' = driverCount - 1
        /\ UNCHANGED <<app, synthVars, clientVars, pc, client, instance,
                       dataVars>>

-----------------------------------------------------------------------------
(* modMessage: MODM_OPEN *)

\* winmm makes calls while the driver is open.
MayCall == drivers[0].open /\ (Serial => Idle)

FindWindow(t) ==
    /\ MayCall
    /\ Go(t, "idle", "sought")
    /\ hwnd' = (hwnd \/ app)
    /\ UNCHANGED <<app, synthOpened, midiSynth, driverVars, clientVars, client,
                   instance, dataVars>>

\* The application is there, or a synth in the process is open already.
SynthThere(t) ==
    /\ hwnd # synthOpened
    /\ Go(t, "sought", IF hwnd THEN "greeting" ELSE "ready")
    /\ UNCHANGED <<app, synthVars, driverVars, clientVars, client, instance,
                   dataVars>>

\* FB01Synth::Init(): succeeds or not.
InitSynth(succeeds) == midiSynth' = IF succeeds THEN "open" ELSE "closed"

OpenSynth(t, succeeds) ==
    /\ ~hwnd /\ ~synthOpened
    /\ InitSynth(succeeds)
    /\ Go(t, "sought", IF succeeds THEN "opened synth" ELSE "idle")
    /\ UNCHANGED <<app, hwnd, synthOpened, driverVars, clientVars, client,
                   instance, dataVars>>

\* The synth in the process yields to the application.
CloseSynth(t) ==
    /\ hwnd /\ synthOpened
    /\ midiSynth' = "closed"
    /\ Go(t, "sought", "closed synth")
    /\ UNCHANGED <<app, hwnd, synthOpened, driverVars, clientVars, client,
                   instance, dataVars>>

SynthClosed(t) ==
    /\ synthOpened' = FALSE
    /\ Go(t, "closed synth", "greeting")
    /\ UNCHANGED <<app, hwnd, midiSynth, driverVars, clientVars, client,
                   instance, dataVars>>

\* The handshake: no application answers if it has ended meanwhile.
Greet(t) ==
    /\ instance' = [instance EXCEPT
                        ![t] = IF hwnd /\ app THEN "given" ELSE "null"]
    /\ Go(t, "greeting", "ready")
    /\ UNCHANGED <<app, synthVars, driverVars, clientVars, client, dataVars>>

\* OpenDriver takes a slot that is free, without looking if there are none.
FreeSlots == IF clientCount = 0 THEN {0}
             ELSE IF clientCount = MAX_CLIENTS THEN {}
             ELSE Clients \ Allocated

FindSlot(t) ==
    /\ FreeSlots # {}
    /\ client' = [client EXCEPT ![t] = Least(FreeSlots)]
    /\ Go(t, "ready", "found")
    /\ UNCHANGED <<app, synthVars, driverVars, clientVars, instance, dataVars>>

\* The driver announces the client before it has its parser.
TakeSlot(t) ==
    /\ clients' = [clients EXCEPT ![client[t]].allocated = TRUE]
    /\ clientCount' = clientCount + 1
    /\ Go(t, "found", "taken")
    /\ UNCHANGED <<app, synthVars, driverVars, client, instance, dataVars>>

\* Then the instance the application gave, and a new parser.
Install(t, c, parser) ==
    /\ clients' = [clients EXCEPT ![c].synth_instance = instance[t],
                                  ![c].parser = parser]
    /\ client' = [client EXCEPT ![t] = 0]
    /\ instance' = [instance EXCEPT ![t] = "null"]
    /\ UNCHANGED <<app, synthVars, driverVars, clientCount, dataVars>>

InstallParser(t) == Go(t, "taken", "idle") /\ Install(t, client[t], "own")

\* No slot is free: the client number is not set, winmm's variable for it
\* still 0, and client 0 is given another parser.
NoSlot(t) ==
    /\ FreeSlots = {}
    /\ Go(t, "ready", "idle")
    /\ Install(t, 0, "another")

-----------------------------------------------------------------------------
(* MODM_CLOSE *)

\* The synth is reset, which may leave it closed, or the session is ended.
Close(t, c) ==
    /\ MayCall
    /\ clients[c].allocated
    /\ IF ~hwnd /\ synthOpened
       THEN midiSynth' \in {"open"} \union
                              (IF ResetMayFail THEN {"closed"} ELSE {})
       ELSE UNCHANGED midiSynth
    /\ clients' = [clients EXCEPT ![c].parser = "deleted"]
    /\ client' = [client EXCEPT ![t] = c]
    /\ Go(t, "idle", "closing")
    /\ UNCHANGED <<app, hwnd, synthOpened, driverVars, clientCount, instance,
                   dataVars>>

\* Mutant: the client is not counted out.
CloseDriverUncounted(t) ==
    /\ Go(t, "closing", "idle")
    /\ client' = [client EXCEPT ![t] = 0]
    /\ clients' = [clients EXCEPT ![client[t]].allocated = FALSE]
    /\ UNCHANGED <<app, synthVars, driverVars, clientCount, instance, dataVars>>

\* The client may have been closed by another call.
CloseDriver(t) ==
    /\ Go(t, "closing", "idle")
    /\ client' = [client EXCEPT ![t] = 0]
    /\ IF clients[client[t]].allocated
       THEN /\ clients' = [clients EXCEPT ![client[t]].allocated = FALSE]
            /\ clientCount' = clientCount - 1
       ELSE UNCHANGED clientVars
    /\ UNCHANGED <<app, synthVars, driverVars, instance, dataVars>>

-----------------------------------------------------------------------------
(* MODM_DATA and MODM_LONGDATA *)

\* The parser passes on no message, one or, from a long buffer, several.
Data(t, c, count) ==
    /\ MayCall
    /\ clients[c].allocated
    /\ Go(t, "idle", "parsing")
    /\ client' = [client EXCEPT ![t] = c]
    /\ left' = [left EXCEPT ![t] = count]
    /\ played' = [played EXCEPT ![t] = {}]
    /\ result' = [result EXCEPT ![t] = "none"]
    /\ UNCHANGED <<app, synthVars, driverVars, clientVars, instance>>

Passed(t, where) ==
    /\ left' = [left EXCEPT ![t] = @ - 1]
    /\ played' = [played EXCEPT ![t] = @ \union {where}]
    /\ UNCHANGED result

\* FB01Synth::PlayMIDI: an open synth takes the message unless its queue is
\* full, a closed one does not; the result of playMsg() is dropped.
Outcomes(synth) ==
    IF synth = "open" THEN {"local", "queue full"} ELSE {"nowhere"}

\* No window is known; by the time the synth is called that may have changed.
Decide(t) ==
    /\ left[t] > 0
    /\ ~hwnd
    /\ Go(t, "parsing", "playing")
    /\ UNCHANGED <<app, synthVars, driverVars, clientVars, client, instance,
                   dataVars>>

PlayMIDI(t) ==
    /\ Go(t, "playing", "parsing")
    /\ \E where \in Outcomes(midiSynth) : Passed(t, where)
    /\ UNCHANGED <<app, synthVars, driverVars, clientVars, client, instance>>

\* WM_COPYDATA, with the instance of the client.
CopyData(t) ==
    /\ pc[t] = "parsing" /\ left[t] > 0
    /\ hwnd /\ app
    /\ Passed(t, "app")
    /\ UNCHANGED <<app, synthVars, driverVars, clientVars, pc, client,
                   instance>>

\* Mutant: the window is not forgotten.
FallBackKeepsWindow(t) ==
    /\ left[t] > 0
    /\ hwnd /\ ~app
    /\ Go(t, "parsing", "falling back")
    /\ UNCHANGED <<app, synthVars, driverVars, clientVars, client, instance,
                   dataVars>>

\* The application was terminated.
FallBack(t) ==
    /\ left[t] > 0
    /\ hwnd /\ ~app
    /\ hwnd' = FALSE
    /\ Go(t, "parsing", "falling back")
    /\ UNCHANGED <<app, synthOpened, midiSynth, driverVars, clientVars, client,
                   instance, dataVars>>

\* Mutant: the synth counts as open even if it is not.
InitAgainUnchecked(t, succeeds) ==
    /\ InitSynth(succeeds)
    /\ Go(t, "falling back", "fallen back")
    /\ UNCHANGED <<app, hwnd, synthOpened, driverVars, clientVars, client,
                   instance, dataVars>>

InitAgain(t, succeeds) ==
    /\ InitSynth(succeeds)
    /\ Go(t, "falling back", IF succeeds THEN "fallen back" ELSE "parsing")
    /\ IF succeeds THEN UNCHANGED dataVars ELSE Passed(t, "nowhere")
    /\ UNCHANGED <<app, hwnd, synthOpened, driverVars, clientVars, client,
                   instance>>

\* Before the call goes on to a slot, or to the message it fell back with.
SynthOpened(t) ==
    /\ synthOpened' = TRUE
    /\ Go(t, "opened synth", "ready") \/ Go(t, "fallen back", "playing")
    /\ UNCHANGED <<app, hwnd, midiSynth, driverVars, clientVars, client,
                   instance, dataVars>>

Return(t) ==
    /\ left[t] = 0
    /\ Go(t, "parsing", "idle")
    /\ client' = [client EXCEPT ![t] = 0]
    /\ result' = [result EXCEPT ![t] =
                     IF ~hwnd /\ ~synthOpened THEN "error" ELSE "ok"]
    /\ UNCHANGED <<app, synthVars, driverVars, clientVars, instance, left,
                   played>>

Opening(t) ==
    \/ FindWindow(t) \/ SynthThere(t) \/ CloseSynth(t) \/ SynthClosed(t)
    \/ Greet(t) \/ FindSlot(t) \/ TakeSlot(t) \/ InstallParser(t) \/ NoSlot(t)
    \/ \E succeeds \in BOOLEAN : OpenSynth(t, succeeds)

Sending(t) ==
    \/ \E c \in Clients, count \in 0 .. 2 : Data(t, c, count)
    \/ Decide(t) \/ PlayMIDI(t) \/ CopyData(t) \/ FallBack(t) \/ Return(t)
    \/ \E succeeds \in BOOLEAN : InitAgain(t, succeeds)

Next ==
    \/ StartOrEndApp
    \/ \E h \in Handles : DrvOpen(h) \/ DrvClose(h)
    \/ \E t \in Callers :
          \/ Opening(t) \/ Sending(t) \/ SynthOpened(t) \/ CloseDriver(t)
          \/ \E c \in Clients : Close(t, c)

Spec == Init /\ [][Next]_vars
-----------------------------------------------------------------------------

\* The type of every variable; the counts stay within the arrays.
TypeOK ==
    /\ app \in BOOLEAN /\ hwnd \in BOOLEAN /\ synthOpened \in BOOLEAN
    /\ midiSynth \in {"closed", "open"}
    /\ drivers \in [Drivers -> [open : BOOLEAN,
                                hdrvr : Handles \union {NoHandle}]]
    /\ driverCount \in 0 .. MAX_DRIVERS
    /\ clientCount \in 0 .. MAX_CLIENTS
    /\ clients \in [Clients -> [allocated : BOOLEAN,
                                parser : {"none", "own", "another", "deleted"},
                                synth_instance : {"null", "given"}]]
    /\ pc \in [Callers -> {"idle", "sought", "opened synth", "closed synth",
                           "greeting", "ready", "found", "taken", "closing",
                           "parsing", "playing", "falling back", "fallen back"}]
    /\ client \in [Callers -> Clients]
    /\ instance \in [Callers -> {"null", "given"}]
    /\ left \in [Callers -> 0 .. 2]
    /\ played \in [Callers -> SUBSET {"app", "local", "queue full", "nowhere"}]
    /\ result \in [Callers -> {"none", "ok", "error"}]

\* However calls fail, the counts are those of the open drivers and of the
\* allocated clients: what DRV_OPEN and OpenDriver rely on to find a slot.
Counted ==
    /\ driverCount = Cardinality({d \in Drivers : drivers[d].open})
    /\ clientCount = Cardinality(Allocated)

\* Whatever becomes of the application, and at whatever step of a call it ends,
\* there is one place for messages when no call is amid changing it: while its
\* window is known the local synth is closed, and synthOpened tells whether it
\* is open.  Falling back never opens it twice.
OneSynth ==
    /\ (\A t \in Callers : pc[t] \notin {"sought", "opened synth",
            "closed synth", "falling back", "fallen back"})
          => /\ ~(hwnd /\ synthOpened)
             /\ synthOpened = (midiSynth = "open")
    /\ \A t \in Callers : pc[t] = "falling back" => midiSynth = "closed"

\* A call that reports success passed each of its messages to the application or
\* to an open synth, also if the application ended amid them: none was lost but
\* by a full queue, of which no call is told.
LostOnlyToFullQueue ==
    \A t \in Callers : result[t] = "ok" => "nowhere" \notin played[t]

-----------------------------------------------------------------------------
(* Properties that do not hold, for further configurations. *)

\* A call that reports success has lost no message.
NoSilentLoss ==
    \A t \in Callers : result[t] = "ok" => played[t] \subseteq {"app", "local"}

\* A parser in use is there.
ParserAlive ==
    \A t \in Callers :
        pc[t] \in {"parsing", "playing"} => clients[client[t]].parser = "own"

\* Messages go to the application with the instance it gave.
InstanceGiven ==
    [][\A t \in Callers :
          CopyData(t) => clients[client[t]].synth_instance = "given"]_vars
=============================================================================
