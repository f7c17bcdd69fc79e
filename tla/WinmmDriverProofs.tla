-------------------------- MODULE WinmmDriverProofs --------------------------
(***************************************************************************)
(* Proofs about WinmmDriver and about the MidiStreamParser that each of    *)
(* its clients has.  For any number of drivers and clients, and calls      *)
(* made one at a time: the counts by which the driver finds its slots are  *)
(* right, there is one place for messages, and a call that reports         *)
(* success has lost none but by a full queue (part A).  For streams of     *)
(* any length in any fragments: what the parser keeps of a message stays   *)
(* within its buffer, and what it passes on is what MidiStream promises    *)
(* (part B).                                                               *)
(***************************************************************************)
EXTENDS WinmmDriver, MidiStreamParser, Integers, FiniteSetTheorems,
        WellFoundedInduction, TLAPS

-----------------------------------------------------------------------------
(* A. WinmmDriver *)

ClientType == [allocated : BOOLEAN,
               parser : {"none", "own", "another", "deleted"},
               synth_instance : {"null", "given"}]

Places == {"idle", "sought", "opened synth", "closed synth", "greeting",
           "ready", "found", "taken", "closing", "parsing", "playing",
           "falling back", "fallen back"}

\* The types, but for the counts; a message is played while one is left.
TypeInv ==
    /\ app \in BOOLEAN /\ hwnd \in BOOLEAN /\ synthOpened \in BOOLEAN
    /\ midiSynth \in {"closed", "open"}
    /\ drivers \in [Drivers -> [open : BOOLEAN,
                                hdrvr : Handles \union {NoHandle}]]
    /\ clients \in [Clients -> ClientType]
    /\ pc \in [Callers -> Places]
    /\ client \in [Callers -> Clients]
    /\ instance \in [Callers -> {"null", "given"}]
    /\ left \in [Callers -> 0 .. 2]
    /\ played \in [Callers -> SUBSET {"app", "local", "queue full", "nowhere"}]
    /\ result \in [Callers -> {"none", "ok", "error"}]
    /\ \A t \in Callers :
          pc[t] \in {"playing", "falling back", "fallen back"} => left[t] > 0

OpenDrivers == {d \in Drivers : drivers[d].open}

\* One call at a time.
SerialInv ==
    \A t, u \in Callers : pc[t] # "idle" /\ pc[u] # "idle" => t = u

\* The counts, and the slot of a call: free until it is taken, then allocated.
\* Calls are made, and clients are allocated, while the driver that modMessage
\* uses is open.
CountInv ==
    /\ driverCount \in Nat /\ clientCount \in Nat
    /\ driverCount = Cardinality(OpenDrivers)
    /\ clientCount = Cardinality(Allocated)
    /\ Allocated # {} => drivers[0].open
    /\ \A t \in Callers :
          /\ pc[t] # "idle" => drivers[0].open
          /\ pc[t] = "found" => client[t] \notin Allocated
          /\ pc[t] = "closing" => client[t] \in Allocated

Settled == ~(hwnd /\ synthOpened) /\ (synthOpened <=> midiSynth = "open")

\* The synth, and what the driver knows of it, at each place in a call.
SynthAt(place) ==
    CASE place = "sought" -> synthOpened <=> midiSynth = "open"
      [] place = "closed synth" -> hwnd /\ midiSynth = "closed"
      [] place \in {"opened synth", "fallen back"} ->
             ~hwnd /\ ~synthOpened /\ midiSynth = "open"
      [] place = "falling back" ->
             ~hwnd /\ ~synthOpened /\ midiSynth = "closed"
      [] place = "playing" -> ~hwnd /\ Settled
      [] OTHER -> Settled

SynthInv ==
    /\ Idle => Settled
    /\ \A t \in Callers : pc[t] # "idle" => SynthAt(pc[t])

\* What a call has lost for want of a synth, its return will report.
LossInv ==
    \A t \in Callers :
        /\ result[t] = "ok" => "nowhere" \notin played[t]
        /\ pc[t] \in {"parsing", "playing", "falling back", "fallen back"} =>
              /\ result[t] = "none"
              /\ "nowhere" \in played[t] =>
                    /\ ~hwnd /\ ~synthOpened
                    /\ pc[t] \in {"parsing", "playing"}

\* The inductive invariant: each part where the application keeps to what it
\* presumes.
DriverInv ==
    /\ TypeInv
    /\ Serial => SerialInv
    /\ Serial /\ ~MayReopen => CountInv
    /\ Serial /\ ~ResetMayFail => SynthInv /\ LossInv

-----------------------------------------------------------------------------
(* Slots *)

\* What the loops over the drivers and the clients find is the first such slot.
LEMMA LeastIsIn ==
    ASSUME NEW S \in SUBSET Nat, S # {}
    PROVE  Least(S) \in S
<1>1. \E n \in S : \A m \in S : ~ (<<m, n>> \in OpToRel(<, Nat))
  BY WFMin, NatLessThanWellFounded, Zenon
<1>2. \E n \in S : \A m \in S : ~ (m < n)
  BY <1>1, Zenon DEF OpToRel
<1>3. \E n \in S : \A m \in S : n <= m
  BY <1>2
<1>4. QED
  BY <1>3, Zenon DEF Least

\* The slots are numbered from 0; the open and allocated ones are among them.
LEMMA SlotTypes ==
    /\ Drivers \subseteq Nat /\ IsFiniteSet(Drivers) /\ 0 \in Drivers
    /\ Cardinality(Drivers) = MAX_DRIVERS
    /\ Clients \subseteq Nat /\ IsFiniteSet(Clients) /\ 0 \in Clients
    /\ Cardinality(Clients) = MAX_CLIENTS
    /\ Allocated \subseteq Clients /\ IsFiniteSet(Allocated)
    /\ OpenDrivers \subseteq Drivers /\ IsFiniteSet(OpenDrivers)
<1>1. MAX_DRIVERS \in Nat \ {0} /\ MAX_CLIENTS \in Nat \ {0}
  BY WinmmAssumption
<1>2. /\ Drivers \subseteq Nat /\ 0 \in Drivers
      /\ Clients \subseteq Nat /\ 0 \in Clients
  BY <1>1 DEF Drivers, Clients
<1>3. /\ IsFiniteSet(Drivers) /\ Cardinality(Drivers) = MAX_DRIVERS
      /\ IsFiniteSet(Clients) /\ Cardinality(Clients) = MAX_CLIENTS
  <2>1. /\ IsFiniteSet(0 .. MAX_DRIVERS - 1)
        /\ Cardinality(0 .. MAX_DRIVERS - 1) =
              IF 0 > MAX_DRIVERS - 1 THEN 0 ELSE MAX_DRIVERS - 1 - 0 + 1
    BY <1>1, FS_Interval
  <2>2. /\ IsFiniteSet(0 .. MAX_CLIENTS - 1)
        /\ Cardinality(0 .. MAX_CLIENTS - 1) =
              IF 0 > MAX_CLIENTS - 1 THEN 0 ELSE MAX_CLIENTS - 1 - 0 + 1
    BY <1>1, FS_Interval
  <2>3. QED
    BY <1>1, <2>1, <2>2 DEF Drivers, Clients
<1>4. Allocated \subseteq Clients /\ OpenDrivers \subseteq Drivers
  BY DEF Allocated, OpenDrivers
<1>5. QED
  BY <1>2, <1>3, <1>4, FS_Subset

\* A call that looks for a slot finds one that is free.
LEMMA SlotIsFree ==
    ASSUME CountInv, FreeSlots # {}
    PROVE  Least(FreeSlots) \in Clients \ Allocated
<1>1. FreeSlots \subseteq Clients \ Allocated
  <2>1. CASE clientCount = 0
    BY <2>1, SlotTypes, FS_EmptySet DEF FreeSlots, CountInv
  <2>2. CASE clientCount # 0
    BY <2>2 DEF FreeSlots
  <2>3. QED
    BY <2>1, <2>2
<1>2. Least(FreeSlots) \in FreeSlots
  BY <1>1, LeastIsIn, SlotTypes
<1>3. QED
  BY <1>1, <1>2

\* Whether it is free or not, it is one of the array.
LEMMA SlotIsClient == FreeSlots # {} => Least(FreeSlots) \in Clients
<1>1. FreeSlots \subseteq Clients
  BY SlotTypes DEF FreeSlots
<1>2. QED
  BY <1>1, LeastIsIn, SlotTypes

-----------------------------------------------------------------------------
\* A client keeps its type when one or two of its fields are given others.
LEMMA ClientTypes ==
    ASSUME NEW cl \in [Clients -> ClientType], NEW c \in Clients,
           NEW a \in BOOLEAN, NEW p \in {"none", "own", "another", "deleted"},
           NEW i \in {"null", "given"}
    PROVE  /\ [cl EXCEPT ![c].allocated = a] \in [Clients -> ClientType]
           /\ [cl EXCEPT ![c].parser = p] \in [Clients -> ClientType]
           /\ [cl EXCEPT ![c].synth_instance = i] \in [Clients -> ClientType]
<1>1. /\ [cl[c] EXCEPT !.allocated = a] \in ClientType
      /\ [cl[c] EXCEPT !.parser = p] \in ClientType
      /\ [cl[c] EXCEPT !.synth_instance = i] \in ClientType
  BY DEF ClientType
<1>2. \A r \in ClientType : [cl EXCEPT ![c] = r] \in [Clients -> ClientType]
  OBVIOUS
<1>3. QED
  BY <1>1, <1>2

\* So it does when its parser and its instance are installed.
LEMMA InstallTypes ==
    ASSUME TypeInv, NEW t \in Callers, NEW c \in Clients,
           NEW p \in {"own", "another"}, Install(t, c, p)
    PROVE  clients' \in [Clients -> ClientType]
<1>1. PICK i \in {"null", "given"} : i = instance[t]
  BY DEF TypeInv
<1>2. PICK cl \in [Clients -> ClientType] : cl = clients
  BY DEF TypeInv
<1>3. clients' = [cl EXCEPT ![c].synth_instance = i, ![c].parser = p]
  BY <1>1, <1>2 DEF Install
<1>4. PICK r \in ClientType :
         r = [cl[c] EXCEPT !.synth_instance = i, !.parser = p]
  BY DEF ClientType
<1>5. clients' = [cl EXCEPT ![c] = r]
  BY <1>3, <1>4
<1>6. QED
  BY <1>5

\* A message less is left.
LEMMA OneLess == \A n \in 0 .. 2 : n > 0 => n - 1 \in 0 .. 2
OBVIOUS

\* Every call of the driver keeps the types.
LEMMA TypeInvInductive == TypeInv /\ [Next]_vars => TypeInv'
<1> SUFFICES ASSUME TypeInv, [Next]_vars
             PROVE  TypeInv'
  OBVIOUS
<1> USE DEF TypeInv, synthVars, driverVars, clientVars, dataVars, Places
<1>1. CASE StartOrEndApp
  BY <1>1 DEF StartOrEndApp
<1>2. ASSUME NEW h \in Handles, DrvOpen(h)
      PROVE  TypeInv'
  <2>1. drivers' \in [Drivers -> [open : BOOLEAN,
                                  hdrvr : Handles \union {NoHandle}]]
    BY <1>2 DEF DrvOpen
  <2>2. QED
    BY <1>2, <2>1 DEF DrvOpen
<1>3. ASSUME NEW h \in Handles, DrvClose(h)
      PROVE  TypeInv'
  <2>1. drivers' \in [Drivers -> [open : BOOLEAN,
                                  hdrvr : Handles \union {NoHandle}]]
    <3> DEFINE opened ==
                   {d \in Drivers : drivers[d].open /\ drivers[d].hdrvr = h}
    <3>1. /\ opened # {}
          /\ drivers' = [drivers EXCEPT ![Least(opened)].open = FALSE]
      BY <1>3 DEF DrvClose
    <3>2. opened \subseteq Drivers
      OBVIOUS
    <3> HIDE DEF opened
    <3>3. Least(opened) \in Drivers
      BY <3>1, <3>2, LeastIsIn, SlotTypes
    <3>4. [drivers[Least(opened)] EXCEPT !.open = FALSE]
             \in [open : BOOLEAN, hdrvr : Handles \union {NoHandle}]
      <4>1. \A r \in [open : BOOLEAN, hdrvr : Handles \union {NoHandle}] :
               [r EXCEPT !.open = FALSE]
                  \in [open : BOOLEAN, hdrvr : Handles \union {NoHandle}]
        OBVIOUS
      <4>2. QED
        BY <3>3, <4>1, Zenon
    <3>5. QED
      BY <3>1, <3>3, <3>4
  <2>2. QED
    BY <1>3, <2>1 DEF DrvClose
<1>4. ASSUME NEW t \in Callers, Opening(t) \/ SynthOpened(t)
      PROVE  TypeInv'
  <2> USE DEF Go
  <2>1. CASE FindWindow(t)
    BY <2>1 DEF FindWindow
  <2>2. CASE SynthThere(t)
    BY <2>2 DEF SynthThere
  <2>3. CASE CloseSynth(t)
    BY <2>3 DEF CloseSynth
  <2>4. CASE SynthClosed(t)
    BY <2>4 DEF SynthClosed
  <2>5. CASE Greet(t)
    BY <2>5 DEF Greet
  <2>6. CASE FindSlot(t)
    BY <2>6, SlotIsClient DEF FindSlot
  <2>7. CASE TakeSlot(t)
    <3>1. clients' \in [Clients -> ClientType]
      <4>1. PICK c \in Clients : c = client[t]
        OBVIOUS
      <4>2. clients' = [clients EXCEPT ![c].allocated = TRUE]
        BY <2>7, <4>1 DEF TakeSlot
      <4>3. QED
        BY <4>2, ClientTypes
    <3>2. QED
      BY <2>7, <3>1 DEF TakeSlot
  <2>8. CASE InstallParser(t)
    <3>1. clients' \in [Clients -> ClientType]
      <4>1. PICK c \in Clients : c = client[t]
        OBVIOUS
      <4>2. Install(t, c, "own")
        BY <2>8, <4>1 DEF InstallParser
      <4>3. QED
        BY <4>2, InstallTypes
    <3>2. client' \in [Callers -> Clients]
      BY <2>8, SlotTypes DEF InstallParser, Install
    <3>3. QED
      BY <2>8, <3>1, <3>2 DEF InstallParser, Install
  <2>9. CASE NoSlot(t)
    <3>1. clients' \in [Clients -> ClientType]
      BY <2>9, InstallTypes, SlotTypes DEF NoSlot
    <3>2. client' \in [Callers -> Clients]
      BY <2>9, SlotTypes DEF NoSlot, Install
    <3>3. QED
      BY <2>9, <3>1, <3>2 DEF NoSlot, Install
  <2>10. ASSUME NEW succeeds \in BOOLEAN, OpenSynth(t, succeeds)
         PROVE  TypeInv'
    BY <2>10 DEF OpenSynth, InitSynth
  <2>11. CASE SynthOpened(t)
    BY <2>11 DEF SynthOpened
  <2>12. QED
    BY <1>4, <2>1, <2>2, <2>3, <2>4, <2>5, <2>6, <2>7, <2>8, <2>9, <2>10, <2>11
       DEF Opening
<1>5. ASSUME NEW t \in Callers, NEW c \in Clients, Close(t, c)
      PROVE  TypeInv'
  <2>1. clients' \in [Clients -> ClientType]
    BY <1>5, ClientTypes DEF Close
  <2>2. midiSynth' \in {"closed", "open"}
    BY <1>5 DEF Close
  <2>3. QED
    BY <1>5, <2>1, <2>2 DEF Close, Go
<1>6. ASSUME NEW t \in Callers, CloseDriver(t)
      PROVE  TypeInv'
  <2>1. clients' \in [Clients -> ClientType]
    <3>1. PICK c \in Clients : c = client[t]
      OBVIOUS
    <3>2. \/ clients' = [clients EXCEPT ![c].allocated = FALSE]
          \/ clients' = clients
      BY <1>6, <3>1 DEF CloseDriver
    <3>3. PICK cl \in [Clients -> ClientType] : cl = clients
      OBVIOUS
    <3>4. [cl EXCEPT ![c].allocated = FALSE] \in [Clients -> ClientType]
      BY ClientTypes
    <3>5. QED
      BY <3>2, <3>3, <3>4
  <2>2. client' \in [Callers -> Clients]
    BY <1>6, SlotTypes DEF CloseDriver
  <2>3. QED
    BY <1>6, <2>1, <2>2 DEF CloseDriver, Go
<1>7. ASSUME NEW t \in Callers, Sending(t)
      PROVE  TypeInv'
  <2> USE DEF Go
  <2>1. ASSUME NEW where \in {"app", "local", "queue full", "nowhere"},
               Passed(t, where), left[t] > 0
        PROVE  /\ left' \in [Callers -> 0 .. 2]
               /\ played' \in [Callers ->
                     SUBSET {"app", "local", "queue full", "nowhere"}]
               /\ result' = result
    <3>1. left' = [left EXCEPT ![t] = left[t] - 1] /\ left[t] - 1 \in 0 .. 2
      <4>1. \A n \in 0 .. 2 : n > 0 => n - 1 \in 0 .. 2
        BY OneLess
      <4>2. left[t] \in 0 .. 2
        OBVIOUS
      <4>3. left' = [left EXCEPT ![t] = left[t] - 1]
        BY <2>1 DEF Passed
      <4>4. QED
        BY <2>1, <4>1, <4>2, <4>3, Zenon
    <3>2. /\ played' = [played EXCEPT ![t] = played[t] \union {where}]
          /\ played[t] \union {where}
                \in SUBSET {"app", "local", "queue full", "nowhere"}
      BY <2>1 DEF Passed
    <3>3. result' = result
      BY <2>1 DEF Passed
    <3>4. left' \in [Callers -> 0 .. 2]
      BY <3>1
    <3>5. played' \in [Callers ->
                          SUBSET {"app", "local", "queue full", "nowhere"}]
      BY <3>2
    <3>6. QED
      BY <3>3, <3>4, <3>5
  <2>2. ASSUME NEW c \in Clients, NEW count \in 0 .. 2, Data(t, c, count)
        PROVE  TypeInv'
    BY <2>2 DEF Data
  <2>3. CASE Decide(t)
    BY <2>3 DEF Decide
  <2>4. CASE PlayMIDI(t)
    <3>1. PICK where \in Outcomes(midiSynth) : Passed(t, where)
      BY <2>4 DEF PlayMIDI
    <3>2. where \in {"app", "local", "queue full", "nowhere"} /\ left[t] > 0
      BY <2>4, <3>1 DEF PlayMIDI, Outcomes
    <3>3. QED
      BY <2>1, <2>4, <3>1, <3>2 DEF PlayMIDI, Passed
  <2>5. CASE CopyData(t)
    <3>1. Passed(t, "app") /\ left[t] > 0
      BY <2>5 DEF CopyData
    <3>2. \A u \in Callers : left'[u] = left[u] \/ u = t
      BY <3>1 DEF Passed
    <3>3. QED
      BY <2>1, <2>5, <3>1, <3>2 DEF CopyData
  <2>6. CASE FallBack(t)
    BY <2>6 DEF FallBack
  <2>7. CASE Return(t)
    <3>1. client' \in [Callers -> Clients]
      BY <2>7, SlotTypes DEF Return
    <3>2. QED
      BY <2>7, <3>1 DEF Return
  <2>8. ASSUME NEW succeeds \in BOOLEAN, InitAgain(t, succeeds)
        PROVE  TypeInv'
    <3>1. CASE succeeds
      BY <2>8, <3>1 DEF InitAgain, InitSynth
    <3>2. CASE ~succeeds
      <4>1. Passed(t, "nowhere") /\ left[t] > 0
        BY <2>8, <3>2 DEF InitAgain
      <4>2. \A u \in Callers : left'[u] = left[u] \/ u = t
        BY <4>1 DEF Passed
      <4>3. QED
        BY <2>1, <2>8, <3>2, <4>1, <4>2 DEF InitAgain, InitSynth
    <3>3. QED
      BY <3>1, <3>2
  <2>9. QED
    BY <1>7, <2>2, <2>3, <2>4, <2>5, <2>6, <2>7, <2>8 DEF Sending
<1>8. CASE UNCHANGED vars
  BY <1>8 DEF vars
<1>9. QED
  BY <1>1, <1>2, <1>3, <1>4, <1>5, <1>6, <1>7, <1>8 DEF Next

\* A step of a call, which then is the only one.
LEMMA OneCallAtATime ==
    ASSUME SerialInv, NEW t \in Callers, pc[t] # "idle"
    PROVE  \A u \in Callers \ {t} : pc[u] = "idle"
BY DEF SerialInv

\* Every step of a call takes one caller from one place to another; a call
\* begins when there is no other.
LEMMA StepOfCall ==
    ASSUME TypeInv, NEW t \in Callers,
           \/ Opening(t) \/ Sending(t) \/ SynthOpened(t) \/ CloseDriver(t)
           \/ \E c \in Clients : Close(t, c)
    PROVE  /\ \E to \in Places : pc' = [pc EXCEPT ![t] = to]
           /\ pc[t] = "idle" => MayCall
           /\ UNCHANGED <<drivers, driverCount>>
<1> USE DEF Go, Places, driverVars
<1>1. CASE Opening(t)
  <2>1. CASE FindWindow(t) \/ SynthThere(t) \/ CloseSynth(t) \/ SynthClosed(t)
    BY <2>1 DEF FindWindow, SynthThere, CloseSynth, SynthClosed
  <2>2. CASE Greet(t) \/ FindSlot(t) \/ TakeSlot(t)
    BY <2>2 DEF Greet, FindSlot, TakeSlot
  <2>3. CASE InstallParser(t) \/ NoSlot(t)
    BY <2>3 DEF InstallParser, NoSlot, Install
  <2>4. ASSUME NEW succeeds \in BOOLEAN, OpenSynth(t, succeeds)
        PROVE  /\ \E to \in Places : pc' = [pc EXCEPT ![t] = to]
               /\ pc[t] = "idle" => MayCall
               /\ UNCHANGED <<drivers, driverCount>>
    BY <2>4 DEF OpenSynth
  <2>5. QED
    BY <1>1, <2>1, <2>2, <2>3, <2>4 DEF Opening
<1>2. CASE Sending(t)
  <2>1. CASE Decide(t) \/ PlayMIDI(t) \/ FallBack(t) \/ Return(t)
    BY <2>1 DEF Decide, PlayMIDI, FallBack, Return
  <2>2. CASE CopyData(t)
    <3>1. pc[t] = "parsing" /\ pc' = pc
      BY <2>2 DEF CopyData
    <3>2. pc' = [pc EXCEPT ![t] = "parsing"]
      BY <3>1 DEF TypeInv
    <3>3. QED
      BY <2>2, <3>1, <3>2 DEF CopyData
  <2>3. ASSUME NEW c \in Clients, NEW count \in 0 .. 2, Data(t, c, count)
        PROVE  /\ \E to \in Places : pc' = [pc EXCEPT ![t] = to]
               /\ pc[t] = "idle" => MayCall
               /\ UNCHANGED <<drivers, driverCount>>
    BY <2>3 DEF Data
  <2>4. ASSUME NEW succeeds \in BOOLEAN, InitAgain(t, succeeds)
        PROVE  /\ \E to \in Places : pc' = [pc EXCEPT ![t] = to]
               /\ pc[t] = "idle" => MayCall
               /\ UNCHANGED <<drivers, driverCount>>
    BY <2>4 DEF InitAgain
  <2>5. QED
    BY <1>2, <2>1, <2>2, <2>3, <2>4 DEF Sending
<1>3. CASE SynthOpened(t) \/ CloseDriver(t)
  BY <1>3 DEF SynthOpened, CloseDriver
<1>4. ASSUME NEW c \in Clients, Close(t, c)
      PROVE  /\ \E to \in Places : pc' = [pc EXCEPT ![t] = to]
             /\ pc[t] = "idle" => MayCall
             /\ UNCHANGED <<drivers, driverCount>>
  BY <1>4 DEF Close
<1>5. QED
  BY <1>1, <1>2, <1>3, <1>4

\* Calls that begin one at a time stay alone.
LEMMA SerialInvInductive ==
    ASSUME TypeInv, SerialInv, Serial, [Next]_vars
    PROVE  SerialInv'
<1>1. ASSUME NEW t \in Callers,
             \/ Opening(t) \/ Sending(t) \/ SynthOpened(t) \/ CloseDriver(t)
             \/ \E c \in Clients : Close(t, c)
      PROVE  SerialInv'
  <2>1. /\ \E to \in Places : pc' = [pc EXCEPT ![t] = to]
        /\ pc[t] = "idle" => MayCall
    BY <1>1, StepOfCall
  <2>2. \A u \in Callers \ {t} : pc[u] = "idle"
    BY <2>1, OneCallAtATime DEF MayCall, Idle
  <2>3. PICK to \in Places : pc' = [pc EXCEPT ![t] = to]
    BY <2>1
  <2>4. \A u \in Callers \ {t} : pc'[u] = "idle"
    BY <2>2, <2>3 DEF TypeInv
  <2>5. QED
    BY <2>4 DEF SerialInv
<1>2. CASE pc' = pc
  BY <1>2 DEF SerialInv
<1>3. QED
  BY <1>1, <1>2 DEF Next, StartOrEndApp, DrvOpen, DrvClose, vars

-----------------------------------------------------------------------------
(* Counts *)

\* DRV_OPEN, DRV_CLOSE, MODM_OPEN and MODM_CLOSE keep both counts right.
LEMMA CountInvInductive ==
    ASSUME TypeInv, SerialInv, CountInv, Serial, ~MayReopen, [Next]_vars
    PROVE  CountInv'
<1>0. /\ drivers \in [Drivers -> [open : BOOLEAN,
                                  hdrvr : Handles \union {NoHandle}]]
      /\ clients \in [Clients -> ClientType]
      /\ pc \in [Callers -> Places] /\ client \in [Callers -> Clients]
  BY DEF TypeInv
<1>1. ASSUME NEW h \in Handles, DrvOpen(h)
      PROVE  CountInv'
  <2> DEFINE free == {d \in Drivers : ~drivers[d].open}
             d == Least(free)
  <2>1. free = Drivers \ OpenDrivers
    BY DEF OpenDrivers
  <2>2. free # {}
    <3>1. Cardinality(OpenDrivers) # Cardinality(Drivers)
      BY <1>1, SlotTypes DEF DrvOpen, CountInv
    <3>2. OpenDrivers # Drivers
      BY <3>1
    <3>3. QED
      BY <2>1, <3>2, SlotTypes
  <2>3. d \in Drivers \ OpenDrivers
    BY <2>1, <2>2, LeastIsIn, SlotTypes
  <2>4. /\ drivers' = [drivers EXCEPT ![d] = [open |-> TRUE, hdrvr |-> h]]
        /\ clientCount' = IF d = 0 THEN 0 ELSE clientCount
        /\ driverCount' = driverCount + 1
        /\ UNCHANGED <<clients, pc>> /\ Idle
    BY <1>1 DEF DrvOpen
  <2> HIDE DEF d, free
  <2>5. OpenDrivers' = OpenDrivers \union {d}
    BY <1>0, <2>3, <2>4 DEF OpenDrivers
  <2>6. Cardinality(OpenDrivers') = Cardinality(OpenDrivers) + 1
    BY <2>3, <2>5, SlotTypes, FS_AddElement
  <2>7. Allocated' = Allocated
    BY <2>4 DEF Allocated
  <2>8. d = 0 => Allocated = {}
    BY <2>3 DEF OpenDrivers, CountInv
  <2>9. clientCount' = Cardinality(Allocated') /\ clientCount' \in Nat
    BY <2>4, <2>7, <2>8, FS_EmptySet DEF CountInv
  <2>10. Allocated' # {} => drivers'[0].open
    BY <1>0, <2>3, <2>4, <2>7, <2>8, SlotTypes DEF CountInv
  <2>11. \A t \in Callers : pc'[t] = "idle"
    BY <2>4 DEF Idle
  <2>12. QED
    BY <2>4, <2>6, <2>9, <2>10, <2>11 DEF CountInv
<1>2. ASSUME NEW h \in Handles, DrvClose(h)
      PROVE  CountInv'
  <2> DEFINE opened == {d \in Drivers : drivers[d].open /\ drivers[d].hdrvr = h}
             d == Least(opened)
  <2>1. /\ opened # {} /\ (0 \notin opened \/ Allocated = {})
        /\ drivers' = [drivers EXCEPT ![d].open = FALSE]
        /\ driverCount' = driverCount - 1
        /\ UNCHANGED <<clientCount, clients, pc>> /\ Idle
    BY <1>2 DEF DrvClose, clientVars
  <2>2. d \in opened /\ opened \subseteq OpenDrivers
    BY <2>1, LeastIsIn, SlotTypes DEF OpenDrivers
  <2>3. d \in OpenDrivers /\ (d = 0 => Allocated = {})
    BY <2>1, <2>2
  <2> HIDE DEF d, opened
  <2>4. OpenDrivers' = OpenDrivers \ {d}
    BY <1>0, <2>1, <2>3 DEF OpenDrivers
  <2>5. Cardinality(OpenDrivers') = Cardinality(OpenDrivers) - 1
    BY <2>3, <2>4, SlotTypes, FS_RemoveElement
  <2>6. Cardinality(OpenDrivers') \in Nat
    BY <2>4, SlotTypes, FS_RemoveElement, FS_CardinalityType
  <2>7. Allocated' = Allocated
    BY <2>1 DEF Allocated
  <2>8. Allocated' # {} => drivers'[0].open
    BY <1>0, <2>1, <2>3, <2>7, SlotTypes DEF CountInv
  <2>9. \A t \in Callers : pc'[t] = "idle"
    BY <2>1 DEF Idle
  <2>10. QED
    BY <2>1, <2>5, <2>6, <2>7, <2>8, <2>9 DEF CountInv
<1>3. ASSUME NEW t \in Callers, NEW to \in Places,
             pc' = [pc EXCEPT ![t] = to], drivers[0].open,
             UNCHANGED <<driverVars, clientCount>>, Allocated' = Allocated,
             \A u \in Callers \ {t} : pc[u] = "idle",
             to = "found" => client'[t] \notin Allocated,
             to = "closing" => client'[t] \in Allocated
      PROVE  CountInv'
  <2>1. OpenDrivers' = OpenDrivers /\ UNCHANGED <<drivers, driverCount>>
    BY <1>3 DEF OpenDrivers, driverVars
  <2>2. \A u \in Callers : u # t => pc'[u] = "idle"
    BY <1>0, <1>3
  <2>3. pc'[t] = to
    BY <1>0, <1>3
  <2>4. QED
    BY <1>3, <2>1, <2>2, <2>3 DEF CountInv
<1>4. ASSUME NEW t \in Callers,
             \/ Opening(t) \/ Sending(t) \/ SynthOpened(t) \/ CloseDriver(t)
             \/ \E c \in Clients : Close(t, c)
      PROVE  CountInv'
  <2>1. PICK to \in Places : pc' = [pc EXCEPT ![t] = to]
    BY <1>4, StepOfCall
  <2>2. /\ pc[t] = "idle" => MayCall
        /\ UNCHANGED <<drivers, driverCount>>
    BY <1>4, StepOfCall
  <2>3. \A u \in Callers \ {t} : pc[u] = "idle"
    BY <2>2, OneCallAtATime DEF MayCall, Idle
  <2>4. drivers[0].open
    BY <2>2 DEF MayCall, CountInv
  <2>5. pc'[t] = to /\ \A u \in Callers : u # t => pc'[u] = "idle"
    BY <1>0, <2>1, <2>3
  <2>6. ASSUME UNCHANGED clientCount, Allocated' = Allocated,
               to = "found" => client'[t] \notin Allocated,
               to = "closing" => client'[t] \in Allocated
        PROVE  CountInv'
    BY <1>3, <2>1, <2>2, <2>3, <2>4, <2>6 DEF driverVars
  <2>7. CASE FindSlot(t)
    <3>1. client'[t] \notin Allocated
      BY <1>0, <2>7, SlotIsFree DEF FindSlot
    <3>2. UNCHANGED <<clientCount, clients>> /\ to = "found"
      BY <2>5, <2>7, <1>0 DEF FindSlot, clientVars, Go
    <3>3. QED
      BY <2>6, <3>1, <3>2 DEF Allocated
  <2>8. CASE TakeSlot(t)
    <3>1. PICK c \in Clients : c = client[t]
      BY <1>0
    <3>2. /\ clients' = [clients EXCEPT ![c].allocated = TRUE]
          /\ clientCount' = clientCount + 1
          /\ c \notin Allocated /\ to = "taken"
      BY <1>0, <2>5, <2>8, <3>1 DEF TakeSlot, Go, CountInv
    <3>3. Allocated' = Allocated \union {c}
      BY <1>0, <3>2 DEF Allocated, ClientType
    <3>4. Cardinality(Allocated') = Cardinality(Allocated) + 1
      BY <3>2, <3>3, SlotTypes, FS_AddElement
    <3>5. OpenDrivers' = OpenDrivers
      BY <2>2 DEF OpenDrivers
    <3>6. QED
      BY <2>2, <2>4, <2>5, <3>2, <3>4, <3>5 DEF CountInv
  <2>9. CASE CloseDriver(t)
    <3>1. PICK c \in Clients : c = client[t]
      BY <1>0
    <3>2. c \in Allocated /\ to = "idle"
      BY <1>0, <2>5, <2>9, <3>1 DEF CloseDriver, Go, CountInv
    <3>3. /\ clients' = [clients EXCEPT ![c].allocated = FALSE]
          /\ clientCount' = clientCount - 1
      BY <2>9, <3>1, <3>2 DEF CloseDriver, Allocated
    <3>4. Allocated' = Allocated \ {c}
      BY <1>0, <3>2, <3>3 DEF Allocated, ClientType
    <3>5. /\ Cardinality(Allocated') = Cardinality(Allocated) - 1
          /\ Cardinality(Allocated') \in Nat
      BY <3>2, <3>4, SlotTypes, FS_RemoveElement, FS_CardinalityType
    <3>6. OpenDrivers' = OpenDrivers
      BY <2>2 DEF OpenDrivers
    <3>7. QED
      BY <2>2, <2>4, <2>5, <3>2, <3>3, <3>5, <3>6 DEF CountInv
  <2>10. ASSUME NEW c \in Clients, Close(t, c)
         PROVE  CountInv'
    <3>1. /\ clients' = [clients EXCEPT ![c].parser = "deleted"]
          /\ clientCount' = clientCount /\ client'[t] = c
          /\ c \in Allocated /\ to = "closing"
      BY <1>0, <2>5, <2>10 DEF Close, Go, Allocated
    <3>2. Allocated' = Allocated
      BY <1>0, <3>1 DEF Allocated, ClientType
    <3>3. QED
      BY <2>6, <3>1, <3>2
  <2>11. ASSUME NEW c \in Clients, NEW p \in {"own", "another"},
                Install(t, c, p), pc'[t] = "idle"
         PROVE  CountInv'
    <3>1. \A b \in Clients : clients'[b].allocated = clients[b].allocated
      BY <1>0, <2>11 DEF Install, ClientType
    <3>2. Allocated' = Allocated
      BY <3>1 DEF Allocated
    <3>3. QED
      BY <2>5, <2>6, <2>11, <3>2 DEF Install
  <2>12. CASE InstallParser(t) \/ NoSlot(t)
    <3>1. pc'[t] = "idle"
      BY <1>0, <2>12 DEF InstallParser, NoSlot, Go
    <3>2. \E c \in Clients, p \in {"own", "another"} : Install(t, c, p)
      BY <1>0, <2>12, SlotTypes DEF InstallParser, NoSlot
    <3>3. QED
      BY <2>11, <3>1, <3>2
  <2>13. ASSUME UNCHANGED clientVars, pc'[t] \notin {"found", "closing"}
         PROVE  CountInv'
    <3>1. Allocated' = Allocated /\ clientCount' = clientCount
      BY <2>13 DEF clientVars, Allocated
    <3>2. QED
      BY <2>5, <2>6, <2>13, <3>1
  <2>14. CASE Sending(t) \/ SynthOpened(t)
    <3>1. UNCHANGED clientVars
      BY <2>14 DEF Sending, Data, Decide, PlayMIDI, CopyData, FallBack, Return,
                   InitAgain, SynthOpened
    <3>2. pc'[t] \notin {"found", "closing"}
      BY <1>0, <2>14
         DEF Sending, Data, Decide, PlayMIDI, CopyData, FallBack, Return,
             InitAgain, SynthOpened, Go
    <3>3. QED
      BY <2>13, <3>1, <3>2
  <2>15. CASE \/ FindWindow(t) \/ SynthThere(t) \/ CloseSynth(t)
              \/ SynthClosed(t) \/ Greet(t)
              \/ \E succeeds \in BOOLEAN : OpenSynth(t, succeeds)
    <3>1. UNCHANGED clientVars
      BY <2>15 DEF FindWindow, SynthThere, CloseSynth, SynthClosed, Greet,
                   OpenSynth
    <3>2. pc'[t] \notin {"found", "closing"}
      BY <1>0, <2>15 DEF FindWindow, SynthThere, CloseSynth, SynthClosed, Greet,
                         OpenSynth, Go
    <3>3. QED
      BY <2>13, <3>1, <3>2
  <2>16. QED
    BY <1>4, <2>7, <2>8, <2>9, <2>10, <2>12, <2>14, <2>15 DEF Opening
<1>5. CASE UNCHANGED <<driverVars, clientVars, pc, client>>
  BY <1>5 DEF CountInv, OpenDrivers, Allocated, driverVars, clientVars
<1>6. QED
  BY <1>1, <1>2, <1>4, <1>5 DEF Next, StartOrEndApp, vars

-----------------------------------------------------------------------------
(* The synth and the messages *)

\* What the synth is at a place in the only call is what it is at all.
LEMMA SynthOfCall ==
    ASSUME TypeInv, SynthInv, NEW t \in Callers,
           \A u \in Callers \ {t} : pc[u] = "idle"
    PROVE  SynthAt(pc[t])
<1>1. CASE pc[t] = "idle"
  BY <1>1 DEF SynthInv, SynthAt, Idle
<1>2. CASE pc[t] # "idle"
  BY <1>2 DEF SynthInv
<1>3. QED
  BY <1>1, <1>2

\* A step opens the driver's own synth only when the window is gone, and closes
\* it only when there is one.
LEMMA SynthInvInductive ==
    ASSUME TypeInv, SerialInv, SynthInv, Serial, ~ResetMayFail, [Next]_vars
    PROVE  SynthInv'
<1>0. pc \in [Callers -> Places] /\ hwnd \in BOOLEAN /\ synthOpened \in BOOLEAN
  BY DEF TypeInv
<1>1. ASSUME NEW t \in Callers,
             \/ Opening(t) \/ Sending(t) \/ SynthOpened(t) \/ CloseDriver(t)
             \/ \E c \in Clients : Close(t, c)
      PROVE  SynthInv'
  <2>1. PICK to \in Places : pc' = [pc EXCEPT ![t] = to]
    BY <1>1, StepOfCall
  <2>2. pc[t] = "idle" => MayCall
    BY <1>1, StepOfCall
  <2>3. \A u \in Callers \ {t} : pc[u] = "idle"
    BY <2>2, OneCallAtATime DEF MayCall, Idle
  <2>4. SynthAt(pc[t])
    BY <2>3, SynthOfCall
  <2>5. pc'[t] = to /\ \A u \in Callers : u # t => pc'[u] = "idle"
    BY <1>0, <2>1, <2>3
  <2>6. ASSUME SynthAt(to)'
        PROVE  SynthInv'
    <3>1. to = "idle" => Settled'
      BY <2>6 DEF SynthAt
    <3>2. \A u \in Callers : pc'[u] # "idle" => u = t
      BY <2>5
    <3>3. Idle' => Settled'
      BY <2>5, <3>1 DEF Idle
    <3>4. QED
      BY <2>5, <2>6, <3>2, <3>3 DEF SynthInv
  <2> USE DEF Go, SynthAt, Settled
  <2>7. CASE FindWindow(t)
    <3>1. /\ pc[t] = "idle" /\ to = "sought"
          /\ UNCHANGED <<synthOpened, midiSynth>>
      BY <1>0, <2>5, <2>7 DEF FindWindow
    <3>2. QED
      BY <2>4, <2>6, <3>1
  <2>8. CASE SynthThere(t)
    <3>1. /\ pc[t] = "sought" /\ to \in {"greeting", "ready"}
          /\ hwnd # synthOpened /\ UNCHANGED <<hwnd, synthOpened, midiSynth>>
      BY <1>0, <2>5, <2>8 DEF SynthThere, synthVars
    <3>2. QED
      BY <1>0, <2>4, <2>6, <3>1
  <2>9. ASSUME NEW succeeds \in BOOLEAN, OpenSynth(t, succeeds)
        PROVE  SynthInv'
    <3>1. /\ to = IF succeeds THEN "opened synth" ELSE "idle"
          /\ ~hwnd /\ ~synthOpened /\ UNCHANGED <<hwnd, synthOpened>>
          /\ midiSynth' = IF succeeds THEN "open" ELSE "closed"
      BY <1>0, <2>5, <2>9 DEF OpenSynth, InitSynth
    <3>2. QED
      BY <2>6, <3>1
  <2>10. CASE CloseSynth(t)
    <3>1. to = "closed synth" /\ hwnd /\ hwnd' = hwnd /\ midiSynth' = "closed"
      BY <1>0, <2>5, <2>10 DEF CloseSynth
    <3>2. QED
      BY <2>6, <3>1
  <2>11. CASE SynthClosed(t)
    <3>1. /\ pc[t] = "closed synth" /\ to = "greeting" /\ synthOpened' = FALSE
          /\ UNCHANGED <<hwnd, midiSynth>>
      BY <1>0, <2>5, <2>11 DEF SynthClosed
    <3>2. QED
      BY <2>4, <2>6, <3>1
  <2>12. CASE SynthOpened(t)
    <3>1. /\ pc[t] \in {"opened synth", "fallen back"}
          /\ to \in {"ready", "playing"} /\ synthOpened' = TRUE
          /\ UNCHANGED <<hwnd, midiSynth>>
      BY <1>0, <2>5, <2>12 DEF SynthOpened
    <3>2. QED
      BY <2>4, <2>6, <3>1
  <2>13. CASE FallBack(t)
    <3>1. /\ pc[t] = "parsing" /\ to = "falling back" /\ hwnd /\ hwnd' = FALSE
          /\ UNCHANGED <<synthOpened, midiSynth>>
      BY <1>0, <2>5, <2>13 DEF FallBack
    <3>2. midiSynth \in {"closed", "open"}
      BY DEF TypeInv
    <3>3. QED
      BY <1>0, <2>4, <2>6, <3>1, <3>2
  <2>14. ASSUME NEW succeeds \in BOOLEAN, InitAgain(t, succeeds)
         PROVE  SynthInv'
    <3>1. /\ pc[t] = "falling back" /\ UNCHANGED <<hwnd, synthOpened>>
          /\ to = IF succeeds THEN "fallen back" ELSE "parsing"
          /\ midiSynth' = IF succeeds THEN "open" ELSE "closed"
      BY <1>0, <2>5, <2>14 DEF InitAgain, InitSynth
    <3>2. QED
      BY <2>4, <2>6, <3>1
  <2>15. ASSUME NEW c \in Clients, Close(t, c)
         PROVE  SynthInv'
    <3>1. /\ pc[t] = "idle" /\ to = "closing" /\ UNCHANGED <<hwnd, synthOpened>>
          /\ IF ~hwnd /\ synthOpened THEN midiSynth' = "open"
                                     ELSE midiSynth' = midiSynth
      BY <1>0, <2>5, <2>15 DEF Close
    <3>2. QED
      BY <2>4, <2>6, <3>1
  <2>16. CASE Decide(t)
    <3>1. /\ pc[t] = "parsing" /\ to = "playing" /\ ~hwnd
          /\ UNCHANGED <<hwnd, synthOpened, midiSynth>>
      BY <1>0, <2>5, <2>16 DEF Decide, synthVars
    <3>2. QED
      BY <2>4, <2>6, <3>1
  <2>17. ASSUME UNCHANGED <<hwnd, synthOpened, midiSynth>>,
                pc[t] \notin {"sought", "opened synth", "closed synth",
                              "falling back", "fallen back"},
                to \notin {"sought", "opened synth", "closed synth",
                           "falling back", "fallen back", "playing"}
         PROVE  SynthInv'
    <3>1. Settled
      BY <2>4, <2>17
    <3>2. QED
      BY <2>6, <2>17, <3>1
  <2>18. CASE \/ Greet(t) \/ FindSlot(t) \/ TakeSlot(t) \/ InstallParser(t)
              \/ NoSlot(t) \/ CloseDriver(t) \/ PlayMIDI(t) \/ CopyData(t)
              \/ Return(t) \/ \E c \in Clients, n \in 0 .. 2 : Data(t, c, n)
    <3>1. UNCHANGED <<hwnd, synthOpened, midiSynth>>
      BY <2>18 DEF Greet, FindSlot, TakeSlot, InstallParser, NoSlot, Install,
                   CloseDriver, PlayMIDI, CopyData, Return, Data, synthVars
    <3>2. /\ pc[t] \notin {"sought", "opened synth", "closed synth",
                           "falling back", "fallen back"}
          /\ pc'[t] \notin {"sought", "opened synth", "closed synth",
                            "falling back", "fallen back", "playing"}
      BY <1>0, <2>18
         DEF Greet, FindSlot, TakeSlot, InstallParser, NoSlot, Install,
             CloseDriver, PlayMIDI, CopyData, Return, Data
    <3>3. QED
      BY <2>5, <2>17, <3>1, <3>2
  <2>19. QED
    BY <1>1, <2>7, <2>8, <2>9, <2>10, <2>11, <2>12, <2>13, <2>14, <2>15, <2>16,
       <2>18 DEF Opening, Sending
<1>2. CASE UNCHANGED <<synthVars, pc>>
  BY <1>2 DEF SynthInv, SynthAt, Settled, Idle, synthVars
<1>3. QED
  BY <1>1, <1>2 DEF Next, StartOrEndApp, DrvOpen, DrvClose, vars

\* A message that is played nowhere makes the call that sent it fail.
LEMMA LossInvInductive ==
    ASSUME TypeInv, SerialInv, SynthInv, LossInv, Serial, [Next]_vars
    PROVE  LossInv'
<1>0. /\ pc \in [Callers -> Places]
      /\ played \in [Callers ->
                        SUBSET {"app", "local", "queue full", "nowhere"}]
      /\ result \in [Callers -> {"none", "ok", "error"}]
  BY DEF TypeInv
<1> DEFINE Amid == {"parsing", "playing", "falling back", "fallen back"}
<1>1. ASSUME NEW t \in Callers,
             \/ Opening(t) \/ Sending(t) \/ SynthOpened(t) \/ CloseDriver(t)
             \/ \E c \in Clients : Close(t, c)
      PROVE  LossInv'
  <2>1. PICK to \in Places : pc' = [pc EXCEPT ![t] = to]
    BY <1>1, StepOfCall
  <2>2. pc[t] = "idle" => MayCall
    BY <1>1, StepOfCall
  <2>3. \A u \in Callers \ {t} : pc[u] = "idle"
    BY <2>2, OneCallAtATime DEF MayCall, Idle
  <2>4. SynthAt(pc[t])
    BY <2>3, SynthOfCall
  <2>5. pc'[t] = to /\ \A u \in Callers : u # t => pc'[u] = "idle"
    BY <1>0, <2>1, <2>3
  <2>6. ASSUME \A u \in Callers : u # t => played'[u] = played[u]
                                           /\ result'[u] = result[u],
               result'[t] = "ok" => "nowhere" \notin played'[t],
               to \in Amid =>
                  /\ result'[t] = "none"
                  /\ "nowhere" \in played'[t] =>
                        /\ ~hwnd' /\ ~synthOpened'
                        /\ to \in {"parsing", "playing"}
        PROVE  LossInv'
    <3>1. ASSUME NEW u \in Callers, u # t
          PROVE  /\ result'[u] = "ok" => "nowhere" \notin played'[u]
                 /\ pc'[u] \notin Amid
      BY <2>5, <2>6, <3>1 DEF LossInv
    <3>2. QED
      BY <2>5, <2>6, <3>1 DEF LossInv
  <2> USE DEF Go
  <2>7. ASSUME UNCHANGED <<played, result>>, to \notin Amid
        PROVE  LossInv'
    <3>1. result[t] = "ok" => "nowhere" \notin played[t]
      BY DEF LossInv
    <3>2. QED
      BY <2>6, <2>7, <3>1
  <2>8. CASE Opening(t) \/ CloseDriver(t) \/ \E c \in Clients : Close(t, c)
    <3>1. UNCHANGED <<played, result>>
      BY <2>8 DEF Opening, FindWindow, SynthThere, OpenSynth, CloseSynth,
                  SynthClosed, Greet, FindSlot, TakeSlot, InstallParser, NoSlot,
                  Install, CloseDriver, Close, dataVars
    <3>2. pc'[t] \notin Amid
      BY <1>0, <2>8
         DEF Opening, FindWindow, SynthThere, OpenSynth, CloseSynth,
             SynthClosed, Greet, FindSlot, TakeSlot, InstallParser, NoSlot,
             Install, CloseDriver, Close
    <3>3. QED
      BY <2>5, <2>7, <3>1, <3>2
  <2>9. CASE SynthOpened(t)
    <3>1. /\ UNCHANGED <<played, result>>
          /\ \/ to = "ready"
             \/ pc[t] = "fallen back" /\ to = "playing"
      BY <1>0, <2>5, <2>9 DEF SynthOpened, dataVars
    <3>2. to = "playing" => "nowhere" \notin played[t] /\ result[t] = "none"
      BY <3>1 DEF LossInv
    <3>3. QED
      BY <2>6, <2>7, <3>1, <3>2
  <2>10. ASSUME NEW c \in Clients, NEW n \in 0 .. 2, Data(t, c, n)
         PROVE  LossInv'
    <3>1. /\ played' = [played EXCEPT ![t] = {}]
          /\ result' = [result EXCEPT ![t] = "none"]
      BY <2>10 DEF Data
    <3>2. played'[t] = {} /\ result'[t] = "none"
      BY <1>0, <3>1
    <3>3. \A u \in Callers : u # t => played'[u] = played[u]
                                     /\ result'[u] = result[u]
      BY <1>0, <3>1
    <3>4. QED
      BY <2>6, <3>2, <3>3
  <2>11. CASE Decide(t) \/ FallBack(t)
    <3>1. /\ UNCHANGED <<played, result, synthOpened>> /\ pc[t] = "parsing"
          /\ \/ to = "playing" /\ ~hwnd /\ hwnd' = hwnd
             \/ to = "falling back" /\ hwnd
      BY <1>0, <2>5, <2>11 DEF Decide, FallBack, synthVars, dataVars
    <3>2. /\ result[t] = "none"
          /\ "nowhere" \in played[t] => ~hwnd /\ ~synthOpened
      BY <3>1 DEF LossInv
    <3>3. QED
      BY <2>6, <3>1, <3>2
  <2>12. ASSUME NEW where \in {"app", "local", "queue full", "nowhere"},
                Passed(t, where), pc[t] \in Amid, to = "parsing",
                \/ where = "nowhere" \/ "nowhere" \in played[t]
                   => ~hwnd' /\ ~synthOpened'
         PROVE  LossInv'
    <3>1. played' = [played EXCEPT ![t] = played[t] \union {where}]
          /\ result' = result
      BY <2>12 DEF Passed
    <3>2. played'[t] = played[t] \union {where} /\ result'[t] = "none"
      BY <1>0, <2>12, <3>1 DEF LossInv
    <3>3. \A u \in Callers : u # t => played'[u] = played[u]
                                     /\ result'[u] = result[u]
      BY <1>0, <3>1
    <3>4. QED
      BY <2>6, <2>12, <3>2, <3>3
  <2>13. CASE PlayMIDI(t)
    <3>1. PICK where \in {"app", "local", "queue full", "nowhere"} :
             Passed(t, where) /\ (where = "nowhere" => midiSynth # "open")
      BY <2>13 DEF PlayMIDI, Outcomes
    <3>2. /\ pc[t] = "playing" /\ to = "parsing"
          /\ UNCHANGED <<hwnd, synthOpened>>
      BY <1>0, <2>5, <2>13 DEF PlayMIDI, synthVars
    <3>3. ~hwnd /\ (where = "nowhere" => ~synthOpened)
      BY <2>4, <3>1, <3>2 DEF SynthAt, Settled
    <3>4. "nowhere" \in played[t] => ~hwnd /\ ~synthOpened
      BY <3>2 DEF LossInv
    <3>5. QED
      BY <2>12, <3>1, <3>2, <3>3, <3>4
  <2>14. CASE CopyData(t)
    <3>1. /\ Passed(t, "app") /\ pc[t] = "parsing" /\ to = "parsing" /\ hwnd
          /\ UNCHANGED <<hwnd, synthOpened>>
      BY <2>5, <2>14 DEF CopyData, synthVars
    <3>2. "nowhere" \notin played[t]
      BY <3>1 DEF LossInv
    <3>3. QED
      BY <2>12, <3>1, <3>2
  <2>15. ASSUME NEW succeeds \in BOOLEAN, InitAgain(t, succeeds)
         PROVE  LossInv'
    <3>1. /\ pc[t] = "falling back" /\ UNCHANGED <<hwnd, synthOpened>>
          /\ \/ succeeds /\ to = "fallen back" /\ UNCHANGED <<played, result>>
             \/ ~succeeds /\ to = "parsing" /\ Passed(t, "nowhere")
      BY <1>0, <2>5, <2>15 DEF InitAgain, dataVars
    <3>2. ~hwnd /\ ~synthOpened
      BY <2>4, <3>1 DEF SynthAt
    <3>3. "nowhere" \notin played[t] /\ result[t] = "none"
      BY <3>1 DEF LossInv
    <3>4. CASE succeeds
      BY <2>6, <3>1, <3>3, <3>4
    <3>5. CASE ~succeeds
      BY <2>12, <3>1, <3>2, <3>5
    <3>6. QED
      BY <3>4, <3>5
  <2>16. CASE Return(t)
    <3>1. /\ pc[t] = "parsing" /\ to = "idle" /\ played' = played
          /\ result' = [result EXCEPT ![t] =
                           IF ~hwnd /\ ~synthOpened THEN "error" ELSE "ok"]
      BY <1>0, <2>5, <2>16 DEF Return
    <3>2. result'[t] = IF ~hwnd /\ ~synthOpened THEN "error" ELSE "ok"
      BY <1>0, <3>1
    <3>3. "nowhere" \in played[t] => ~hwnd /\ ~synthOpened
      BY <3>1 DEF LossInv
    <3>4. \A u \in Callers : u # t => result'[u] = result[u]
      BY <1>0, <3>1
    <3>5. QED
      BY <2>6, <3>1, <3>2, <3>3, <3>4
  <2>17. QED
    BY <1>1, <2>8, <2>9, <2>10, <2>11, <2>13, <2>14, <2>15, <2>16 DEF Sending
<1>2. CASE UNCHANGED <<synthVars, pc, dataVars>>
  BY <1>2 DEF LossInv, synthVars, dataVars
<1>3. CASE StartOrEndApp \/ \E h \in Handles : DrvOpen(h) \/ DrvClose(h)
  BY <1>2, <1>3 DEF StartOrEndApp, DrvOpen, DrvClose
<1>4. QED
  BY <1>1, <1>2, <1>3 DEF Next, vars

-----------------------------------------------------------------------------
\* Nothing is open.
LEMMA DriverInvInit == Init => DriverInv
<1> SUFFICES ASSUME Init
             PROVE  DriverInv
  OBVIOUS
<1>1. TypeInv
  <2>1. /\ drivers \in [Drivers -> [open : BOOLEAN,
                                    hdrvr : Handles \union {NoHandle}]]
        /\ clients \in [Clients -> ClientType]
    BY DEF Init, NotOpen, NoClient, ClientType
  <2>2. /\ client \in [Callers -> Clients]
        /\ instance \in [Callers -> {"null", "given"}]
        /\ left \in [Callers -> 0 .. 2]
    BY SlotTypes DEF Init
  <2>3. /\ played \in [Callers ->
                          SUBSET {"app", "local", "queue full", "nowhere"}]
        /\ result \in [Callers -> {"none", "ok", "error"}]
    BY DEF Init
  <2>4. /\ pc \in [Callers -> Places]
        /\ \A t \in Callers : pc[t] = "idle"
    BY DEF Init, Places
  <2>5. QED
    BY <2>1, <2>2, <2>3, <2>4 DEF Init, TypeInv
<1>2. CountInv
  <2>1. OpenDrivers = {} /\ Allocated = {}
    BY DEF Init, NotOpen, NoClient, OpenDrivers, Allocated
  <2>2. QED
    BY <2>1, FS_EmptySet DEF Init, CountInv
<1>3. SerialInv
  BY DEF Init, SerialInv
<1>4. SynthInv /\ LossInv
  BY DEF Init, SynthInv, Settled, LossInv
<1>5. QED
  BY <1>1, <1>2, <1>3, <1>4 DEF DriverInv

\* Each part of the invariant is kept where the application keeps to what
\* the part presumes.
LEMMA DriverInvInductive == DriverInv /\ [Next]_vars => DriverInv'
BY TypeInvInductive, SerialInvInductive, CountInvInductive, SynthInvInductive,
   LossInvInductive
   DEF DriverInv

\* In every state the types are as described, whatever clients call, fail to
\* open or end; where a process makes its calls one at a time so are the counts,
\* the synth at each step of a call, and what a call has lost for want of one.
THEOREM DriverInvariant == Spec => []DriverInv
<1>1. QED
  BY DriverInvInit, DriverInvInductive, PTL DEF Spec

\* For any numbers of drivers and clients, driverCount and clientCount are the
\* numbers of open drivers and of allocated clients, although calls fail between
\* their steps.  Calls must be made one at a time, and the driver must not be
\* closed before its clients, which DRV_OPEN forgets without freeing them.
THEOREM CountsAreRight ==
    ASSUME Serial, ~MayReopen
    PROVE  Spec => []Counted
<1>1. DriverInv => Counted
  BY DEF DriverInv, CountInv, Counted, OpenDrivers
<1>2. QED
  BY <1>1, DriverInvariant, PTL

\* The counts stay within the arrays drivers[] and clients[], so that each
\* DRV_OPEN and MODM_OPEN that takes a slot takes one of the array.
THEOREM CountsFitArrays ==
    ASSUME Serial, ~MayReopen
    PROVE  Spec => []TypeOK
<1>1. DriverInv => TypeOK
  <2> SUFFICES ASSUME DriverInv
               PROVE  TypeOK
    OBVIOUS
  <2>1. TypeInv /\ CountInv
    BY DEF DriverInv
  <2>2. driverCount \in 0 .. MAX_DRIVERS /\ clientCount \in 0 .. MAX_CLIENTS
    <3>1. /\ Cardinality(OpenDrivers) <= MAX_DRIVERS
          /\ Cardinality(Allocated) <= MAX_CLIENTS
      BY SlotTypes, FS_Subset
    <3>2. QED
      BY <2>1, <3>1, WinmmAssumption DEF CountInv
  <2>3. QED
    BY <2>1, <2>2 DEF TypeInv, TypeOK, ClientType, Places
<1>2. QED
  BY <1>1, DriverInvariant, PTL

\* When no call is amid changing it there is one place for messages: while the
\* window of the application is known the synth in the process is closed, and
\* synthOpened tells whether it is open.  The application may end at any step of
\* a call; calls are made one at a time, and the synth opens when it is reset.
THEOREM MessagesHaveOnePlace ==
    ASSUME Serial, ~ResetMayFail
    PROVE  Spec => []OneSynth
<1>1. DriverInv => OneSynth
  <2> SUFFICES ASSUME DriverInv
               PROVE  OneSynth
    OBVIOUS
  <2>1. TypeInv /\ SynthInv
    BY DEF DriverInv
  <2>2. ASSUME NEW t \in Callers, pc[t] = "falling back"
        PROVE  midiSynth = "closed"
    BY <2>1, <2>2 DEF SynthInv, SynthAt
  <2>3. ASSUME \A t \in Callers : pc[t] \notin {"sought", "opened synth",
                  "closed synth", "falling back", "fallen back"}
        PROVE  Settled
    <3>1. CASE Idle
      BY <2>1, <3>1 DEF SynthInv
    <3>2. ASSUME NEW t \in Callers, pc[t] # "idle"
          PROVE  Settled
      BY <2>1, <2>3, <3>2 DEF SynthInv, SynthAt
    <3>3. QED
      BY <3>1, <3>2 DEF Idle
  <2>4. synthOpened \in BOOLEAN
    BY <2>1 DEF TypeInv
  <2>5. QED
    BY <2>2, <2>3, <2>4 DEF OneSynth, Settled
<1>2. QED
  BY <1>1, DriverInvariant, PTL

\* If a process makes one call at a time, and the synth opens when it is reset,
\* a call of modMessage that reports success has lost none of its messages but
\* by a full queue, although the application may end between any two steps.
THEOREM LostToFullQueueOnly ==
    ASSUME Serial, ~ResetMayFail
    PROVE  Spec => []LostOnlyToFullQueue
<1>1. DriverInv => LostOnlyToFullQueue
  BY DEF DriverInv, LossInv, LostOnlyToFullQueue
<1>2. QED
  BY <1>1, DriverInvariant, PTL

-----------------------------------------------------------------------------
(* B. MidiStreamParser *)

\* Lengths have a least one, as the places of bytes have.
LEMMA LeastElement ==
    ASSUME NEW S, S \subseteq Nat, S # {}
    PROVE  \E x \in S : \A y \in S : x <= y
<1> DEFINE Less == OpToRel(<, Nat)
<1>1. IsWellFoundedOn(Less, Nat)
  BY NatLessThanWellFounded, Zenon
<1>2. \A x, y \in Nat : x < y => <<x, y>> \in Less
  BY Zenon DEF OpToRel
<1> HIDE DEF Less
<1>3. PICK x \in S : \A y \in S : ~(<<y, x>> \in Less)
  BY <1>1, WFMin
<1>4. \A y \in S : ~(y < x)
  BY <1>2, <1>3
<1>5. QED
  BY <1>4

\* What FirstOf returns for places in the stream.
LEMMA FirstPlace ==
    ASSUME NEW S, S \subseteq Nat, S # {}
    PROVE  FirstOf(S) \in S /\ \A m \in S : FirstOf(S) <= m
BY LeastElement DEF FirstOf

\* Induction along a fragment: what holds of the first place and goes on from
\* each place to the next holds of all.
LEMMA AlongFragment ==
    ASSUME NEW N \in Nat, NEW S, 0 \in S,
           \A k \in 1 .. N : k - 1 \in S => k \in S
    PROVE  \A k \in 0 .. N : k \in S
<1> DEFINE Left == (0 .. N) \ S
<1>1. Left = {}
  <2>1. SUFFICES ASSUME Left # {}
                 PROVE  FALSE
    OBVIOUS
  <2>2. Left \subseteq Nat
    OBVIOUS
  <2> HIDE DEF Left
  <2>3. PICK k \in Left : \A m \in Left : k <= m
    BY <2>1, <2>2, LeastElement, Zenon
  <2>4. k \in 0 .. N /\ k \notin S
    BY DEF Left
  <2>5. k \in 1 .. N /\ k - 1 \in 0 .. N
    BY <2>4
  <2>6. k - 1 \in S
    BY <2>3, <2>5 DEF Left
  <2>7. QED
    BY <2>4, <2>5, <2>6
<1>2. QED
  BY <1>1

-----------------------------------------------------------------------------
(* The bytes that a message takes from a fragment *)

Bytes == 0 .. 255

\* The recursive function in BytesIn: what was taken up to each byte.
IsTaken(f, s, set) ==
    f = [k \in 0 .. Len(s) |->
            IF k = 0 THEN <<>>
            ELSE IF s[k] \in set THEN Append(f[k - 1], s[k])
            ELSE f[k - 1]]

\* What was taken up to the n-th byte.
TakenUpTo(n, g, s, set) ==
    /\ g \in [0 .. n -> Seq(Bytes)]
    /\ g[0] = <<>>
    /\ \A k \in 1 .. n :
          g[k] = IF s[k] \in set THEN Append(g[k - 1], s[k]) ELSE g[k - 1]

\* One byte more.
LEMMA TakenFurther ==
    ASSUME NEW s \in Seq(Bytes), NEW set, NEW n \in 1 .. Len(s),
           NEW g, TakenUpTo(n - 1, g, s, set)
    PROVE  \E h : TakenUpTo(n, h, s, set)
<1> DEFINE next == IF s[n] \in set THEN Append(g[n - 1], s[n]) ELSE g[n - 1]
           h == [k \in 0 .. n |-> IF k = n THEN next ELSE g[k]]
<1>1. s[n] \in Bytes /\ n \in Nat \ {0}
  OBVIOUS
<1>2. g[n - 1] \in Seq(Bytes)
  BY <1>1 DEF TakenUpTo
<1>3. next \in Seq(Bytes)
  BY <1>1, <1>2
<1> HIDE DEF next
<1>4. h \in [0 .. n -> Seq(Bytes)] /\ h[0] = <<>>
  BY <1>1, <1>3 DEF TakenUpTo
<1>5. ASSUME NEW k \in 1 .. n
      PROVE  h[k] = IF s[k] \in set THEN Append(h[k - 1], s[k]) ELSE h[k - 1]
  <2>1. CASE k = n
    BY <2>1, <1>1 DEF next
  <2>2. CASE k # n
    <3>1. k \in 1 .. n - 1 /\ k - 1 \in 0 .. n /\ k - 1 # n /\ k \in 0 .. n
      BY <2>2, <1>1
    <3>2. QED
      BY <3>1, <2>2 DEF TakenUpTo
  <2>3. QED
    BY <2>1, <2>2
<1>6. TakenUpTo(n, h, s, set)
  BY <1>4, <1>5 DEF TakenUpTo
<1>7. QED
  BY <1>6

\* The recursive function exists, and what it takes are bytes.
LEMMA TakenExists ==
    ASSUME NEW s \in Seq(Bytes), NEW set
    PROVE  \E f : IsTaken(f, s, set) /\ f \in [0 .. Len(s) -> Seq(Bytes)]
<1> DEFINE Possible == {n \in 0 .. Len(s) : \E g : TakenUpTo(n, g, s, set)}
<1>1. Len(s) \in Nat
  OBVIOUS
<1>2. 0 \in Possible
  <2>1. TakenUpTo(0, [k \in 0 .. 0 |-> <<>>], s, set)
    BY DEF TakenUpTo
  <2>2. QED
    BY <2>1, <1>1
<1>3. ASSUME NEW n \in 1 .. Len(s), n - 1 \in Possible
      PROVE  n \in Possible
  BY <1>3, TakenFurther
<1> HIDE DEF Possible
<1>4. Len(s) \in Possible
  <2>1. \A k \in 0 .. Len(s) : k \in Possible
    BY <1>1, <1>2, <1>3, AlongFragment
  <2>2. QED
    BY <1>1, <2>1
<1>5. PICK g : TakenUpTo(Len(s), g, s, set)
  BY <1>4 DEF Possible
<1>6. IsTaken(g, s, set)
  <2>1. g \in [0 .. Len(s) -> Seq(Bytes)]
    BY <1>5 DEF TakenUpTo
  <2>2. ASSUME NEW k \in 0 .. Len(s)
        PROVE  g[k] = IF k = 0 THEN <<>>
                      ELSE IF s[k] \in set THEN Append(g[k - 1], s[k])
                      ELSE g[k - 1]
    <3>1. k = 0 \/ k \in 1 .. Len(s)
      BY <1>1
    <3>2. QED
      BY <3>1, <1>5 DEF TakenUpTo
  <2>3. QED
    BY <2>1, <2>2 DEF IsTaken
<1>7. QED
  BY <1>5, <1>6 DEF TakenUpTo

\* BytesIn() byte after byte.
LEMMA BytesInSteps ==
    ASSUME stream \in Seq(Bytes), NEW set
    PROVE  /\ BytesIn(set, 0) = <<>>
           /\ \A n \in 1 .. Len(stream) :
                 BytesIn(set, n) = IF stream[n] \in set
                                   THEN Append(BytesIn(set, n - 1), stream[n])
                                   ELSE BytesIn(set, n - 1)
<1> DEFINE taken == CHOOSE f : IsTaken(f, stream, set)
<1>1. IsTaken(taken, stream, set)
  BY TakenExists, Zenon
<1>2. \A n : BytesIn(set, n) = taken[n]
  BY DEF BytesIn, IsTaken
<1> HIDE DEF taken
<1>3. taken = [k \in 0 .. Len(stream) |->
            IF k = 0 THEN <<>>
            ELSE IF stream[k] \in set THEN Append(taken[k - 1], stream[k])
            ELSE taken[k - 1]]
  BY <1>1, Zenon DEF IsTaken
<1>4. taken[0] = <<>>
  <2>1. 0 \in 0 .. Len(stream)
    OBVIOUS
  <2>2. QED
    BY <2>1, <1>3
<1>5. ASSUME NEW n \in 1 .. Len(stream)
      PROVE  taken[n] = IF stream[n] \in set
                        THEN Append(taken[n - 1], stream[n]) ELSE taken[n - 1]
  <2>1. n \in 0 .. Len(stream) /\ n # 0
    OBVIOUS
  <2>2. QED
    BY <2>1, <1>3
<1>6. QED
  BY <1>2, <1>4, <1>5

\* What is taken are bytes, and at most one more than before.
LEMMA BytesInTypes ==
    ASSUME stream \in Seq(Bytes), NEW set
    PROVE  \A n \in 0 .. Len(stream) : BytesIn(set, n) \in Seq(Bytes)
<1> DEFINE Typed == {n \in 0 .. Len(stream) : BytesIn(set, n) \in Seq(Bytes)}
<1>1. Len(stream) \in Nat
  OBVIOUS
<1>2. 0 \in Typed
  <2>1. BytesIn(set, 0) = <<>>
    BY BytesInSteps
  <2>2. BytesIn(set, 0) \in Seq(Bytes)
    <3>1. <<>> \in Seq(Bytes)
      OBVIOUS
    <3>2. QED
      BY <2>1, <3>1, Zenon
  <2>3. QED
    BY <1>1, <2>2
<1>3. ASSUME NEW n \in 1 .. Len(stream), n - 1 \in Typed
      PROVE  n \in Typed
  <2>1. BytesIn(set, n - 1) \in Seq(Bytes) /\ stream[n] \in Bytes
    BY <1>3
  <2>2. PICK before \in Seq(Bytes) : before = BytesIn(set, n - 1)
    BY <2>1
  <2>3. BytesIn(set, n) = IF stream[n] \in set
                          THEN Append(before, stream[n]) ELSE before
    BY <2>2, BytesInSteps
  <2>4. BytesIn(set, n) \in Seq(Bytes)
    BY <2>1, <2>3
  <2>5. QED
    BY <2>4
<1> HIDE DEF Typed
<1>4. \A n \in 0 .. Len(stream) : n \in Typed
  BY <1>1, <1>2, <1>3, AlongFragment
<1>5. QED
  BY <1>4 DEF Typed

\* While it never was as many as a message lacks, it is less than that.
LEMMA TooFewBytes ==
    ASSUME stream \in Seq(Bytes), NEW set, NEW missing \in Nat,
           \A n \in 0 .. Len(stream) : Len(BytesIn(set, n)) # missing
    PROVE  \A n \in 0 .. Len(stream) : Len(BytesIn(set, n)) < missing
<1> DEFINE Few == {n \in 0 .. Len(stream) : Len(BytesIn(set, n)) < missing}
<1>1. Len(stream) \in Nat
  OBVIOUS
<1>2. 0 \in Few
  <2>1. Len(BytesIn(set, 0)) = 0
    BY BytesInSteps
  <2>2. 0 \in 0 .. Len(stream)
    BY <1>1
  <2>3. QED
    BY <2>1, <2>2
<1>3. ASSUME NEW n \in 1 .. Len(stream), n - 1 \in Few
      PROVE  n \in Few
  <2>1. n - 1 \in 0 .. Len(stream) /\ n \in 0 .. Len(stream)
    OBVIOUS
  <2>2. /\ BytesIn(set, n - 1) \in Seq(Bytes)
        /\ BytesIn(set, n) = IF stream[n] \in set
                             THEN Append(BytesIn(set, n - 1), stream[n])
                             ELSE BytesIn(set, n - 1)
    BY <2>1, BytesInSteps, BytesInTypes
  <2>3. PICK before \in Seq(Bytes) : before = BytesIn(set, n - 1)
    BY <2>2
  <2>4. Len(BytesIn(set, n)) <= Len(before) + 1
    BY <2>2, <2>3
  <2>5. Len(before) < missing
    BY <1>3, <2>3
  <2>6. Len(BytesIn(set, n)) # missing
    BY <2>1
  <2>7. BytesIn(set, n) \in Seq(Bytes)
    BY <2>1, BytesInTypes
  <2>8. QED
    BY <2>1, <2>4, <2>5, <2>6, <2>7
<1> HIDE DEF Few
<1>4. \A n \in 0 .. Len(stream) : n \in Few
  BY <1>1, <1>2, <1>3, AlongFragment
<1>5. QED
  BY <1>4 DEF Few

-----------------------------------------------------------------------------
(* The invariant of the parser *)

\* A first part of a system exclusive message that comes alone, because the
\* fragment ends or a realtime message follows, fits into the largest buffer.
FirstPartsFit ==
    \A f \in Fragments : \A p \in 1 .. Len(f) : \A q \in p .. Len(f) :
        /\ f[p] = SYSEX
        /\ \A n \in p + 1 .. q : IsData(f[n])
        /\ q = Len(f) \/ IsRealtime(f[q + 1])
        => q - p + 1 <= MaxSize

\* What is left to parse is the end of a fragment.
ReadFrom ==
    stream # <<>> =>
        \E f \in Fragments : \E k \in 0 .. Len(f) :
            /\ Len(stream) = Len(f) - k
            /\ \A m \in 1 .. Len(stream) : stream[m] = f[k + m]

\* A short message in the buffer begins with its status, and is not longer than
\* that says.
ShortMessageFits ==
    streamBuffer # <<>> /\ Head(streamBuffer) # SYSEX =>
        /\ Head(streamBuffer) \in 128 .. 247
        /\ Len(streamBuffer) <= getShortMessageLength(Head(streamBuffer))

ParserInv == ParserTypeOK /\ ReadFrom /\ ShortMessageFits

\* What was received and what is received next.
LEMMA InSuccession ==
    ASSUME NEW S, NEW first \in Seq(S), NEW second \in Seq(S)
    PROVE  first \o second \in Seq(S)
OBVIOUS

\* The lengths of short messages.
LEMMA ShortMessageLengths ==
    ASSUME NEW status \in Bytes
    PROVE  getShortMessageLength(status) \in 1 .. 3
BY DEF getShortMessageLength

\* The running status is none or one of a voice message.
LEMMA RunningStatusTypes ==
    ASSUME ParserTypeOK, NEW status \in Bytes
    PROVE  RunningAfter(status) \in {0} \union 128 .. 239
BY DEF ParserTypeOK, RunningAfter, IsData, IsRealtime, SYSEX, Bytes

\* Realtime messages are messages.
LEMMA RealtimeTypes ==
    ASSUME stream \in Seq(Bytes), NEW n \in 0 .. Len(stream)
    PROVE  Realtime(n) \in Seq(Seq(Bytes))
<1>1. PICK bytes \in Seq(Bytes) : bytes = BytesIn(248 .. 255, n)
  BY BytesInTypes
<1>2. Realtime(n) = [i \in 1 .. Len(bytes) |-> <<bytes[i]>>]
  BY <1>1 DEF Realtime
<1>3. \A i \in 1 .. Len(bytes) : <<bytes[i]>> \in Seq(Bytes)
  BY <1>1
<1>4. QED
  BY <1>2, <1>3

\* After n bytes have been parsed, the rest is still the end of a fragment.
LEMMA RestOfFragment ==
    ASSUME stream \in Seq(Bytes), ReadFrom, stream # <<>>,
           NEW n \in 0 .. Len(stream), Parsed(n)
    PROVE  stream' \in Seq(Bytes) /\ ReadFrom'
<1>1. PICK f \in Fragments : \E k \in 0 .. Len(f) :
            /\ Len(stream) = Len(f) - k
            /\ \A m \in 1 .. Len(stream) : stream[m] = f[k + m]
  BY DEF ReadFrom
<1>2. PICK k \in 0 .. Len(f) :
            /\ Len(stream) = Len(f) - k
            /\ \A m \in 1 .. Len(stream) : stream[m] = f[k + m]
  BY <1>1
<1>3. PICK length \in Nat : length = Len(stream)
  OBVIOUS
<1>4. PICK size \in Nat : size = Len(f)
  BY ParserAssumption
<1>5. stream' = SubSeq(stream, n + 1, length)
  BY <1>3 DEF Parsed
<1>6. /\ stream' \in Seq(Bytes) /\ Len(stream') = length - n
      /\ \A m \in 1 .. length - n : stream'[m] = stream[n + m]
  BY <1>3, <1>5
<1>7. k + n \in 0 .. size /\ Len(stream') = size - (k + n)
  BY <1>2, <1>3, <1>4, <1>6
<1>8. ASSUME NEW m \in 1 .. Len(stream')
      PROVE  stream'[m] = f[(k + n) + m]
  <2>1. m \in 1 .. length - n /\ n + m \in 1 .. length
    BY <1>3, <1>6
  <2>2. stream'[m] = stream[n + m]
    BY <2>1, <1>6
  <2>3. stream[n + m] = f[k + (n + m)]
    BY <2>1, <1>2, <1>3
  <2>4. k + (n + m) = (k + n) + m
    BY <2>1, <1>2, <1>3, <1>4
  <2>5. QED
    BY <2>2, <2>3, <2>4
<1>9. QED
  BY <1>4, <1>6, <1>7, <1>8 DEF ReadFrom

\* A new parser has read nothing.
LEMMA ParserInvInit == ParserInit => ParserInv
BY ParserAssumption DEF ParserInit, ParserInv, ParserTypeOK, ReadFrom,
                        ShortMessageFits

\* A call brings a fragment.
LEMMA ParseStreamKeepsInv ==
    ASSUME ParserInv, NEW fragment \in Fragments, ParseStream(fragment)
    PROVE  ParserInv'
<1>1. fragment \in Seq(Bytes)
  BY ParserAssumption DEF Bytes
<1>2. ParserTypeOK'
  BY <1>1 DEF ParserInv, ParserTypeOK, ParseStream, Bytes
<1>3. ReadFrom'
  <2>1. PICK size \in Nat : size = Len(fragment)
    BY <1>1
  <2>2. stream' = fragment
    BY DEF ParseStream
  <2>3. /\ 0 \in 0 .. Len(fragment) /\ Len(stream') = Len(fragment) - 0
        /\ \A m \in 1 .. Len(stream') : stream'[m] = fragment[0 + m]
    BY <2>1, <2>2
  <2>4. QED
    BY <2>3 DEF ReadFrom
<1>4. ShortMessageFits'
  BY DEF ParserInv, ShortMessageFits, ParseStream
<1>5. QED
  BY <1>2, <1>3, <1>4 DEF ParserInv

\* A realtime message between others.
LEMMA HandleRealtimeKeepsInv ==
    ASSUME ParserInv, HandleRealtime
    PROVE  ParserInv'
<1>1. stream \in Seq(Bytes) /\ stream # <<>> /\ ReadFrom
  BY DEF ParserInv, ParserTypeOK, HandleRealtime, Bytes
<1>2. stream' \in Seq(Bytes) /\ ReadFrom'
  <2>1. 1 \in 0 .. Len(stream)
    BY <1>1
  <2>2. QED
    BY <1>1, <2>1, RestOfFragment DEF HandleRealtime
<1>3. received' \in Seq(Seq(Bytes))
  <2>1. <<Head(stream)>> \in Seq(Bytes)
    BY <1>1
  <2>2. QED
    BY <2>1 DEF ParserInv, ParserTypeOK, HandleRealtime, Bytes
<1>4. QED
  BY <1>2, <1>3 DEF ParserInv, ParserTypeOK, ShortMessageFits, HandleRealtime,
                    Bytes

\* A status byte, read or taken from the running status.
LEMMA StatusKeepsInv ==
    ASSUME ParserInv, ParseShortMessageStatus
    PROVE  ParserInv'
<1>1. /\ stream \in Seq(Bytes) /\ stream # <<>> /\ ReadFrom
      /\ streamBuffer = <<>> /\ streamBufferCapacity' = streamBufferCapacity
      /\ received' = received
  BY DEF ParserInv, ParserTypeOK, ParseShortMessageStatus, Parsing, Bytes
<1>2. PICK byte \in Bytes : byte = Head(stream)
  BY <1>1
<1>3. stream' \in Seq(Bytes) /\ ReadFrom'
  <2>1. 1 \in 0 .. Len(stream)
    BY <1>1
  <2>2. CASE Parsed(1)
    BY <1>1, <2>1, <2>2, RestOfFragment
  <2>3. CASE UNCHANGED stream
    BY <1>1, <2>3 DEF ReadFrom
  <2>4. QED
    BY <2>2, <2>3 DEF ParseShortMessageStatus
<1>4. runningStatus' \in {0} \union 128 .. 239
  BY <1>2, RunningStatusTypes DEF ParserInv, ParseShortMessageStatus
<1>5. streamBuffer' = <<>> \/ \E b \in 128 .. 247 : streamBuffer' = <<b>>
  <2>1. runningStatus # 0 => runningStatus \in 128 .. 247
    BY DEF ParserInv, ParserTypeOK
  <2>2. ~IsData(byte) => byte \in 128 .. 247
    <3>1. ~IsRealtime(byte)
      BY <1>2 DEF ParseShortMessageStatus, Parsing
    <3>2. QED
      BY <3>1 DEF IsData, IsRealtime, Bytes
  <2>3. QED
    BY <1>1, <1>2, <2>1, <2>2 DEF ParseShortMessageStatus
<1>6. /\ streamBuffer' \in Seq(Bytes) /\ Len(streamBuffer') <= 1
      /\ ShortMessageFits'
  <2>1. CASE streamBuffer' = <<>>
    BY <2>1 DEF ShortMessageFits
  <2>2. ASSUME NEW b \in 128 .. 247, streamBuffer' = <<b>>
        PROVE  /\ streamBuffer' \in Seq(Bytes) /\ Len(streamBuffer') <= 1
               /\ ShortMessageFits'
    <3>1. b \in Bytes /\ getShortMessageLength(b) \in 1 .. 3
      BY ShortMessageLengths DEF Bytes
    <3>2. Head(streamBuffer') = b /\ Len(streamBuffer') = 1
      BY <2>2
    <3>3. QED
      BY <2>2, <3>1, <3>2 DEF ShortMessageFits
  <2>3. QED
    BY <1>5, <2>1, <2>2
<1>7. Len(streamBuffer') <= streamBufferCapacity'
  BY <1>1, <1>6, ParserAssumption DEF ParserInv, ParserTypeOK
<1>8. QED
  BY <1>1, <1>3, <1>4, <1>6, <1>7 DEF ParserInv, ParserTypeOK, Bytes

\* A message of its own leaves the stream alone.
LEMMA ProcessShortMessageKeepsInv ==
    ASSUME ParserInv, NEW message \in ShortMessages,
           ProcessShortMessage(message)
    PROVE  ParserInv'
<1>1. message \in Seq(Bytes) /\ message # <<>>
  BY ParserAssumption DEF Bytes
<1>2. Head(message) \in Bytes
  BY <1>1
<1>3. runningStatus' \in {0} \union 128 .. 239
  BY <1>2, RunningStatusTypes DEF ParserInv, ProcessShortMessage
<1>4. received' \in Seq(Seq(Bytes))
  <2>1. runningStatus \in Bytes
    BY DEF ParserInv, ParserTypeOK, Bytes
  <2>2. <<runningStatus>> \o message \in Seq(Bytes)
    BY <1>1, <2>1
  <2>3. PICK full \in Seq(Bytes) : full = <<runningStatus>> \o message
    BY <2>2
  <2>4. received' \in {<<>>, <<message>>, <<full>>}
    BY <2>3 DEF ProcessShortMessage
  <2>5. /\ <<>> \in Seq(Seq(Bytes)) /\ <<full>> \in Seq(Seq(Bytes))
        /\ <<message>> \in Seq(Seq(Bytes))
    BY <1>1
  <2>6. QED
    BY <2>4, <2>5, Zenon
<1>5. QED
  BY <1>3, <1>4 DEF ParserInv, ParserTypeOK, ReadFrom, ShortMessageFits,
                    ProcessShortMessage, Bytes

\* The data bytes of a short message: what it lacks is counted, and what was
\* stored of it stays less than it needs.
LEMMA DataBytesKeepInv ==
    ASSUME ParserInv, ParseShortMessageDataBytes
    PROVE  ParserInv'
<1> DEFINE missing ==
               getShortMessageLength(Head(streamBuffer)) - Len(streamBuffer)
           stops == {n \in 1 .. Len(stream) :
                        ~IsData(stream[n]) /\ ~IsRealtime(stream[n])}
           ends == {n \in 0 .. Len(stream) : Len(DataBytes(n)) = missing}
           broken == stops # {} /\ \A n \in ends : FirstOf(stops) <= n
           length == CASE broken -> FirstOf(stops) - 1
                       [] ~broken /\ ends # {} -> FirstOf(ends)
                       [] OTHER -> Len(stream)
<1>1. /\ stream \in Seq(Bytes) /\ stream # <<>> /\ ReadFrom
      /\ streamBuffer \in Seq(Bytes) /\ streamBuffer # <<>>
      /\ Head(streamBuffer) # SYSEX /\ received \in Seq(Seq(Bytes))
      /\ streamBufferCapacity' = streamBufferCapacity
      /\ runningStatus' = runningStatus
  BY DEF ParserInv, ParserTypeOK, ParseShortMessageDataBytes, Parsing, Bytes
<1>2. /\ Parsed(length)
      /\ \/ /\ streamBuffer' = <<>>
            /\ \/ received' = received \o Realtime(length)
               \/ received' = Append(received \o Realtime(length),
                                     streamBuffer \o DataBytes(length))
         \/ /\ ~broken /\ ends = {}
            /\ streamBuffer' = streamBuffer \o DataBytes(length)
            /\ received' = received \o Realtime(length)
  BY DEF ParseShortMessageDataBytes
<1>3. PICK most \in Nat : most = Len(stream)
  BY <1>1
<1>4. length \in 0 .. most
  <2>1. broken => FirstOf(stops) \in 1 .. most
    <3>1. stops \subseteq 1 .. most
      BY <1>3
    <3>2. stops \subseteq Nat
      BY <3>1
    <3> HIDE DEF stops
    <3>3. broken => FirstOf(stops) \in stops
      BY <3>2, FirstPlace
    <3>4. QED
      BY <3>1, <3>3
  <2>2. ends # {} => FirstOf(ends) \in 0 .. most
    <3>1. ends \subseteq 0 .. most
      BY <1>3
    <3>2. ends \subseteq Nat
      BY <3>1
    <3> HIDE DEF ends
    <3>3. ends # {} => FirstOf(ends) \in ends
      BY <3>2, FirstPlace
    <3>4. QED
      BY <3>1, <3>3
  <2> HIDE DEF ends, broken, stops
  <2>3. QED
    BY <1>3, <2>1, <2>2
<1>5. /\ DataBytes(length) \in Seq(Bytes)
      /\ Realtime(length) \in Seq(Seq(Bytes))
  <2> HIDE DEF length
  <2>1. length \in 0 .. Len(stream)
    BY <1>3, <1>4
  <2>2. QED
    BY <1>1, <2>1, BytesInTypes, RealtimeTypes DEF DataBytes
<1>6. stream' \in Seq(Bytes) /\ ReadFrom'
  <2> HIDE DEF length
  <2>1. length \in 0 .. Len(stream)
    BY <1>3, <1>4
  <2>2. QED
    BY <1>1, <1>2, <2>1, RestOfFragment
<1>7. received' \in Seq(Seq(Bytes))
  <2> HIDE DEF length
  <2>1. PICK out \in Seq(Seq(Bytes)) : out = received \o Realtime(length)
    BY <1>1, <1>5, InSuccession
  <2>2. PICK bytes \in Seq(Bytes) : bytes = streamBuffer \o DataBytes(length)
    BY <1>1, <1>5, InSuccession
  <2>3. received' = out \/ received' = Append(out, bytes)
    BY <1>2, <2>1, <2>2
  <2>4. Append(out, bytes) \in Seq(Seq(Bytes))
    BY <2>2
  <2>5. QED
    BY <2>3, <2>4
<1>8. PICK needed \in 1 .. 3 :
         needed = getShortMessageLength(Head(streamBuffer))
  <2>1. Head(streamBuffer) \in Bytes
    BY <1>1
  <2>2. QED
    BY <2>1, ShortMessageLengths
<1>9. PICK kept \in Nat : kept = Len(streamBuffer)
  BY <1>1
<1>10. /\ kept <= needed /\ missing = needed - kept
       /\ Head(streamBuffer) \in 128 .. 247
  BY <1>1, <1>8, <1>9 DEF ParserInv, ShortMessageFits
<1>11. ASSUME ~broken, ends = {}
       PROVE  Len(DataBytes(length)) < missing
  <2>1. PICK lacking \in Nat : lacking = missing
    BY <1>10
  <2>2. \A n \in 0 .. Len(stream) : Len(BytesIn(0 .. 127, n)) # lacking
    BY <1>11, <2>1 DEF DataBytes
  <2>3. \A n \in 0 .. Len(stream) : Len(BytesIn(0 .. 127, n)) < lacking
    BY <1>1, <2>2, TooFewBytes
  <2> HIDE DEF length
  <2>4. QED
    BY <1>3, <1>4, <2>1, <2>3 DEF DataBytes
<1>12. /\ streamBuffer' \in Seq(Bytes) /\ Len(streamBuffer') <= 3
       /\ ShortMessageFits'
  <2>1. CASE streamBuffer' = <<>>
    BY <2>1 DEF ShortMessageFits
  <2>2. CASE ~broken /\ ends = {}
             /\ streamBuffer' = streamBuffer \o DataBytes(length)
    <3> HIDE DEF length
    <3>1. PICK data \in Seq(Bytes) : data = DataBytes(length)
      BY <1>5
    <3>2. Len(data) < needed - kept
      BY <2>2, <3>1, <1>10, <1>11
    <3>3. /\ streamBuffer' \in Seq(Bytes)
          /\ Len(streamBuffer') = kept + Len(data)
          /\ streamBuffer' # <<>>
          /\ Head(streamBuffer') = Head(streamBuffer)
      BY <2>2, <3>1, <1>1, <1>9
    <3>4. Len(streamBuffer') <= needed
      BY <3>2, <3>3, <3>1, <1>8, <1>9
    <3>5. Head(streamBuffer') \in 128 .. 247
      BY <3>3, <1>10
    <3>6. Len(streamBuffer') <= getShortMessageLength(Head(streamBuffer'))
      BY <3>3, <3>4, <1>8
    <3>7. ShortMessageFits'
      BY <3>5, <3>6 DEF ShortMessageFits
    <3>8. QED
      BY <3>3, <3>4, <3>7, <1>8
  <2>3. QED
    BY <1>2, <2>1, <2>2
<1>13. streamBufferCapacity' \in Capacity .. MaxSize
       /\ Len(streamBuffer') <= streamBufferCapacity'
  BY <1>1, <1>12, ParserAssumption DEF ParserInv, ParserTypeOK
<1>14. QED
  BY <1>1, <1>6, <1>7, <1>12, <1>13 DEF ParserInv, ParserTypeOK, Bytes

\* What is asked for fits into the grown buffer, or more than any buffer has.
LEMMA GrownCapacity ==
    ASSUME streamBufferCapacity \in Capacity .. MaxSize, NEW size \in Nat
    PROVE  /\ GrownFor(size) \in Capacity .. MaxSize
           /\ size <= MaxSize => size <= GrownFor(size)
           /\ size > streamBufferCapacity => GrownFor(size) = MaxSize
BY ParserAssumption DEF GrownFor

\* The first part of a system exclusive message, up to the end of the fragment or
\* to a realtime message, is no longer than the largest buffer.
LEMMA FirstPartIsShort ==
    ASSUME FirstPartsFit, ReadFrom, stream \in Seq(Bytes), stream # <<>>,
           Head(stream) = SYSEX, NEW length \in 1 .. Len(stream),
           \A n \in 2 .. length : IsData(stream[n]),
           length = Len(stream) \/ IsRealtime(stream[length + 1])
    PROVE  length <= MaxSize
<1>1. PICK f \in Fragments : \E k \in 0 .. Len(f) :
            /\ Len(stream) = Len(f) - k
            /\ \A m \in 1 .. Len(stream) : stream[m] = f[k + m]
  BY DEF ReadFrom
<1>2. PICK k \in 0 .. Len(f) :
            /\ Len(stream) = Len(f) - k
            /\ \A m \in 1 .. Len(stream) : stream[m] = f[k + m]
  BY <1>1
<1>3. PICK most \in Nat \ {0} : most = Len(stream)
  OBVIOUS
<1>4. PICK size \in Nat : size = Len(f)
  BY ParserAssumption
<1>5. PICK p \in Nat, q \in Nat : p = k + 1 /\ q = k + length
  BY <1>4
<1>6. p \in 1 .. size /\ q \in p .. size /\ q - p + 1 = length
  BY <1>2, <1>3, <1>4, <1>5
<1>7. f[p] = SYSEX
  <2>1. stream[1] = f[k + 1]
    BY <1>2, <1>3
  <2>2. QED
    BY <2>1, <1>5
<1>8. \A n \in p + 1 .. q : IsData(f[n])
  <2>1. ASSUME NEW n \in p + 1 .. q
        PROVE  IsData(f[n])
    <3>1. PICK m \in 2 .. length : n = k + m
      <4>1. n - k \in 2 .. length /\ n = k + (n - k)
        BY <1>2, <1>4, <1>5
      <4>2. QED
        BY <4>1
    <3>2. stream[m] = f[k + m]
      BY <1>2
    <3>3. QED
      BY <3>1, <3>2
  <2>2. QED
    BY <2>1
<1>9. q = size \/ IsRealtime(f[q + 1])
  <2>1. CASE length = most
    BY <2>1, <1>2, <1>3, <1>4, <1>5
  <2>2. CASE length # most
    <3>1. PICK next \in 1 .. most : next = length + 1
      BY <2>2, <1>3
    <3>2. IsRealtime(stream[next])
      BY <2>2, <3>1, <1>3
    <3>3. stream[next] = f[k + next]
      BY <1>2, <1>3
    <3>4. k + next = q + 1
      BY <3>1, <1>2, <1>4, <1>5
    <3>5. QED
      BY <3>2, <3>3, <3>4
  <2>3. QED
    BY <2>1, <2>2
<1>10. q - p + 1 <= MaxSize
  BY <1>4, <1>6, <1>7, <1>8, <1>9 DEF FirstPartsFit
<1>11. QED
  BY <1>6, <1>10

\* A system exclusive message that begins: passed on at once, broken off, or
\* stored as far as it goes.
LEMMA SysexKeepsInv ==
    ASSUME ParserInv, FirstPartsFit, ParseSysex
    PROVE  ParserInv'
<1> DEFINE stops == {n \in 2 .. Len(stream) : ~IsData(stream[n])}
           stop == IF stops = {} THEN Len(stream) + 1 ELSE FirstOf(stops)
           length == stop - 1
<1>1. /\ stream \in Seq(Bytes) /\ stream # <<>> /\ ReadFrom
      /\ streamBuffer = <<>> /\ Head(stream) = SYSEX
      /\ received \in Seq(Seq(Bytes)) /\ runningStatus' = 0
      /\ streamBufferCapacity \in Capacity .. MaxSize
  BY DEF ParserInv, ParserTypeOK, ParseSysex, Parsing, Bytes
<1>2. \/ /\ stops # {} /\ stream[stop] = END_OF_SYSEX
         /\ received' = Append(received, SubSeq(stream, 1, stop))
         /\ Parsed(stop)
         /\ UNCHANGED <<streamBuffer, streamBufferCapacity>>
      \/ /\ Parsed(length)
         /\ UNCHANGED <<streamBuffer, streamBufferCapacity, received>>
      \/ /\ stops # {} => IsRealtime(stream[stop])
         /\ Parsed(length)
         /\ streamBufferCapacity' = GrownFor(length + 1)
         /\ streamBuffer' = IF streamBufferCapacity < MaxSize
                            THEN SubSeq(stream, 1, length)
                            ELSE SubSeq(stream, 1, Shorter(length))
         /\ UNCHANGED received
  BY DEF ParseSysex
<1>3. PICK most \in Nat \ {0} : most = Len(stream)
  BY <1>1
<1>4. /\ stop \in 2 .. most + 1 /\ length \in 1 .. most
      /\ stops # {} => stop \in 2 .. most
      /\ stops = {} => length = most
      /\ \A n \in 2 .. length : n \notin stops
  <2>1. stops \subseteq 2 .. most
    BY <1>3
  <2>2. stops \subseteq Nat
    BY <2>1
  <2> HIDE DEF stops
  <2>3. CASE stops = {}
    BY <2>3, <1>3
  <2>4. CASE stops # {}
    <3>1. FirstOf(stops) \in stops /\ \A n \in stops : FirstOf(stops) <= n
      BY <2>2, <2>4, FirstPlace
    <3>2. PICK first \in 2 .. most : first = FirstOf(stops)
      BY <2>1, <3>1
    <3>3. stop = first /\ length = first - 1
      BY <2>4, <3>2
    <3>4. \A n \in 2 .. length : n \notin stops
      BY <3>1, <3>2, <3>3
    <3>5. QED
      BY <2>4, <3>2, <3>3, <3>4
  <2>5. QED
    BY <2>3, <2>4
<1>5. \A n \in 2 .. length : IsData(stream[n])
  <2> HIDE DEF length
  <2>1. ASSUME NEW n \in 2 .. length
        PROVE  IsData(stream[n])
    <3>1. n \in 2 .. Len(stream) /\ n \notin stops
      BY <1>3, <1>4
    <3>2. QED
      BY <3>1
  <2>2. QED
    BY <2>1
<1> HIDE DEF stops, stop, length
<1>6. CASE /\ stops # {}
           /\ received' = Append(received, SubSeq(stream, 1, stop))
           /\ Parsed(stop)
           /\ UNCHANGED <<streamBuffer, streamBufferCapacity>>
  <2>1. stop \in 0 .. Len(stream)
    BY <1>3, <1>4, <1>6
  <2>2. stream' \in Seq(Bytes) /\ ReadFrom'
    BY <1>1, <1>6, <2>1, RestOfFragment
  <2>3. SubSeq(stream, 1, stop) \in Seq(Bytes)
    BY <1>1, <2>1
  <2>4. received' \in Seq(Seq(Bytes))
    BY <1>1, <1>6, <2>3
  <2>5. QED
    BY <1>1, <1>6, <2>2, <2>4
       DEF ParserInv, ParserTypeOK, ShortMessageFits, Bytes
<1>7. CASE /\ Parsed(length)
           /\ UNCHANGED <<streamBuffer, streamBufferCapacity, received>>
  <2>1. length \in 0 .. Len(stream)
    BY <1>3, <1>4
  <2>2. stream' \in Seq(Bytes) /\ ReadFrom'
    BY <1>1, <1>7, <2>1, RestOfFragment
  <2>3. QED
    BY <1>1, <1>7, <2>2
       DEF ParserInv, ParserTypeOK, ShortMessageFits, Bytes
<1>8. CASE /\ stops # {} => IsRealtime(stream[stop])
           /\ Parsed(length)
           /\ streamBufferCapacity' = GrownFor(length + 1)
           /\ streamBuffer' = IF streamBufferCapacity < MaxSize
                              THEN SubSeq(stream, 1, length)
                              ELSE SubSeq(stream, 1, Shorter(length))
           /\ UNCHANGED received
  <2>1. length \in 1 .. Len(stream) /\ length \in 0 .. Len(stream)
    BY <1>3, <1>4
  <2>2. stream' \in Seq(Bytes) /\ ReadFrom'
    BY <1>1, <1>8, <2>1, RestOfFragment
  <2>3. length = Len(stream) \/ IsRealtime(stream[length + 1])
    <3>1. CASE stops = {}
      BY <3>1, <1>3, <1>4
    <3>2. CASE stops # {}
      <4>1. length + 1 = stop
        BY <1>4 DEF length
      <4>2. QED
        BY <3>2, <4>1, <1>8
    <3>3. QED
      BY <3>1, <3>2
  <2>4. length <= MaxSize
    BY <1>1, <1>5, <2>1, <2>3, FirstPartIsShort
  <2>5. PICK size \in 1 .. most : size = length /\ size <= MaxSize
    BY <1>3, <2>1, <2>4
  <2>6. Shorter(length) = size
    BY <2>5, ParserAssumption DEF Shorter
  <2>7. streamBuffer' = SubSeq(stream, 1, size)
    BY <1>8, <2>5, <2>6
  <2>8. /\ streamBuffer' \in Seq(Bytes) /\ Len(streamBuffer') = size
        /\ streamBuffer' # <<>> /\ Head(streamBuffer') = SYSEX
    <3>1. size \in 1 .. Len(stream)
      BY <1>3, <2>5
    <3>2. /\ SubSeq(stream, 1, size) \in Seq(Bytes)
          /\ Len(SubSeq(stream, 1, size)) = size
          /\ SubSeq(stream, 1, size)[1] = stream[1]
      BY <1>1, <3>1
    <3>3. PICK stored \in Seq(Bytes) :
             stored = streamBuffer' /\ Len(stored) = size
                                    /\ stored[1] = stream[1]
      BY <2>7, <3>2
    <3>4. stored # <<>> /\ Head(stored) = stored[1]
      BY <3>1, <3>3
    <3>5. Head(stream) = stream[1]
      BY <1>1
    <3>6. QED
      BY <1>1, <3>3, <3>4, <3>5
  <2>9. streamBufferCapacity' = GrownFor(size + 1)
    BY <1>8, <2>5
  <2>10. /\ GrownFor(size + 1) \in Capacity .. MaxSize
         /\ size <= GrownFor(size + 1)
    <3>1. PICK asked \in Nat : asked = size + 1
      OBVIOUS
    <3>2. /\ GrownFor(asked) \in Capacity .. MaxSize
          /\ asked <= MaxSize => asked <= GrownFor(asked)
          /\ asked > streamBufferCapacity => GrownFor(asked) = MaxSize
      BY <1>1, GrownCapacity
    <3>3. QED
      BY <3>1, <3>2, <1>1, <2>5, ParserAssumption
  <2>11. /\ streamBufferCapacity' \in Capacity .. MaxSize
         /\ Len(streamBuffer') <= streamBufferCapacity'
    BY <2>8, <2>9, <2>10
  <2>12. ShortMessageFits'
    BY <2>8 DEF ShortMessageFits
  <2>13. runningStatus' \in {0} \union 128 .. 239 /\ received' = received
    BY <1>1, <1>8
  <2>14. ParserTypeOK'
    BY <1>1, <2>2, <2>8, <2>11, <2>13, Zenon DEF ParserTypeOK, Bytes
  <2>15. QED
    BY <2>2, <2>12, <2>14 DEF ParserInv
<1>9. QED
  BY <1>2, <1>6, <1>7, <1>8

\* A further part of a system exclusive message: what does not fit is cut off.
LEMMA SysexFragmentKeepsInv ==
    ASSUME ParserInv, ParseSysexFragment
    PROVE  ParserInv'
<1> DEFINE stops == {n \in 1 .. Len(stream) : stream[n] \in 128 .. 247}
           stop == IF stops = {} THEN Len(stream) + 1 ELSE FirstOf(stops)
           ends == stops # {} /\ stream[stop] = END_OF_SYSEX
           terminator == IF ends THEN <<END_OF_SYSEX>> ELSE <<>>
           bytes == streamBuffer \o DataBytes(stop - 1) \o terminator
           capacity == GrownFor(Len(bytes))
<1>1. /\ stream \in Seq(Bytes) /\ stream # <<>> /\ ReadFrom
      /\ streamBuffer \in Seq(Bytes) /\ streamBuffer # <<>>
      /\ Head(streamBuffer) = SYSEX /\ received \in Seq(Seq(Bytes))
      /\ streamBufferCapacity \in Capacity .. MaxSize
      /\ runningStatus' = runningStatus
      /\ streamBufferCapacity' = capacity
  BY DEF ParserInv, ParserTypeOK, ParseSysexFragment, Parsing, Bytes
<1>2. \/ /\ ends /\ Parsed(stop) /\ streamBuffer' = <<>>
         /\ received' = received \o Realtime(stop - 1)
                        \o (IF Len(bytes) <= capacity THEN <<bytes>>
                                                      ELSE <<>>)
      \/ /\ ~ends /\ Parsed(stop - 1)
         /\ received' = received \o Realtime(stop - 1)
         /\ streamBuffer' =
              IF stops # {} THEN <<>>
              ELSE SubSeq(bytes, 1, IF Len(bytes) < capacity
                                    THEN Len(bytes) ELSE capacity)
  BY DEF ParseSysexFragment
<1>3. PICK most \in Nat \ {0} : most = Len(stream)
  <2> HIDE DEF stops, stop, ends, terminator, bytes, capacity
  <2>1. stream \in Seq(Bytes) /\ stream # <<>>
    BY <1>1
  <2>2. Len(stream) \in Nat \ {0}
    BY <2>1
  <2>3. QED
    BY <2>2
<1>4. stop \in 1 .. most + 1 /\ (stops # {} => stop \in 1 .. most)
  <2>1. stops \subseteq 1 .. most
    BY <1>3
  <2>2. stops \subseteq Nat
    BY <2>1
  <2> HIDE DEF stops
  <2>3. stops # {} => FirstOf(stops) \in stops
    BY <2>2, FirstPlace
  <2>4. CASE stops = {}
    <3>1. stop = most + 1
      BY <2>4, <1>3
    <3>2. QED
      BY <2>4, <3>1
  <2>5. CASE stops # {}
    <3>1. PICK first \in 1 .. most : first = FirstOf(stops)
      BY <2>1, <2>3, <2>5
    <3>2. stop = first
      BY <2>5, <3>1
    <3>3. QED
      BY <3>1, <3>2
  <2>6. QED
    BY <2>4, <2>5
<1>5. stop - 1 \in 0 .. Len(stream) /\ (ends => stop \in 0 .. Len(stream))
  <2> HIDE DEF stop, stops
  <2>1. QED
    BY <1>3, <1>4
<1>6. /\ DataBytes(stop - 1) \in Seq(Bytes)
      /\ Realtime(stop - 1) \in Seq(Seq(Bytes))
  <2> HIDE DEF stop
  <2>1. QED
    BY <1>1, <1>5, BytesInTypes, RealtimeTypes DEF DataBytes
<1> HIDE DEF stop, ends
<1>7. terminator \in Seq(Bytes)
  <2>1. <<END_OF_SYSEX>> \in Seq(Bytes) /\ <<>> \in Seq(Bytes)
    BY DEF END_OF_SYSEX, Bytes
  <2>2. QED
    BY <2>1
<1> HIDE DEF terminator
<1>8. PICK front \in Seq(Bytes) : /\ front = streamBuffer \o DataBytes(stop - 1)
                                  /\ front # <<>> /\ front[1] = SYSEX
  <2>1. PICK data \in Seq(Bytes) : data = DataBytes(stop - 1)
    BY <1>6
  <2>2. /\ streamBuffer \o data \in Seq(Bytes)
        /\ streamBuffer \o data # <<>>
        /\ (streamBuffer \o data)[1] = streamBuffer[1]
    BY <1>1
  <2>3. Head(streamBuffer) = streamBuffer[1]
    BY <1>1
  <2>4. QED
    BY <1>1, <2>1, <2>2, <2>3
<1>9. PICK whole \in Seq(Bytes) : /\ whole = bytes
                                  /\ whole # <<>> /\ whole[1] = SYSEX
  <2>1. /\ front \o terminator \in Seq(Bytes)
        /\ front \o terminator # <<>>
        /\ (front \o terminator)[1] = front[1]
    BY <1>7, <1>8
  <2>2. bytes = front \o terminator
    BY <1>8
  <2>3. QED
    BY <1>8, <2>1, <2>2
<1>10. PICK size \in Nat \ {0} : size = Len(whole)
  BY <1>9
<1>11. PICK room \in Nat \ {0} : room = capacity /\ room \in Capacity .. MaxSize
  <2>1. capacity = GrownFor(size)
    BY <1>9, <1>10
  <2>2. GrownFor(size) \in Capacity .. MaxSize
    BY <1>1, GrownCapacity
  <2>3. QED
    BY <2>1, <2>2, ParserAssumption
<1> HIDE DEF bytes, capacity
<1>12. stream' \in Seq(Bytes) /\ ReadFrom'
  BY <1>1, <1>2, <1>5, RestOfFragment
<1>13. received' \in Seq(Seq(Bytes))
  <2>1. PICK out \in Seq(Seq(Bytes)) : out = received \o Realtime(stop - 1)
    BY <1>1, <1>6, InSuccession
  <2>2. <<whole>> \in Seq(Seq(Bytes)) /\ <<>> \in Seq(Seq(Bytes))
    BY <1>9
  <2>3. PICK last \in Seq(Seq(Bytes)) :
           last = IF Len(bytes) <= capacity THEN <<bytes>> ELSE <<>>
    BY <1>9, <2>2
  <2>4. received' = out \o last \/ received' = out
    BY <1>2, <2>1, <2>3
  <2>5. out \o last \in Seq(Seq(Bytes))
    BY InSuccession
  <2>6. QED
    BY <2>4, <2>5
<1>14. /\ streamBuffer' \in Seq(Bytes) /\ Len(streamBuffer') <= room
       /\ streamBuffer' # <<>> => Head(streamBuffer') = SYSEX
  <2>1. CASE streamBuffer' = <<>>
    BY <2>1, <1>11
  <2>2. CASE streamBuffer' = SubSeq(bytes, 1, IF Len(bytes) < capacity
                                              THEN Len(bytes) ELSE capacity)
    <3>1. PICK cut \in 1 .. size : /\ cut <= room
                                   /\ cut = IF size < room THEN size ELSE room
      <4>1. (IF size < room THEN size ELSE room) \in 1 .. size
        BY <1>10, <1>11
      <4>2. (IF size < room THEN size ELSE room) <= room
        BY <1>10, <1>11
      <4>3. QED
        BY <4>1, <4>2
    <3>2. streamBuffer' = SubSeq(whole, 1, cut)
      BY <2>2, <3>1, <1>9, <1>10, <1>11
    <3>3. /\ SubSeq(whole, 1, cut) \in Seq(Bytes)
          /\ Len(SubSeq(whole, 1, cut)) = cut
          /\ SubSeq(whole, 1, cut)[1] = whole[1]
      BY <3>1, <1>9, <1>10
    <3>4. PICK stored \in Seq(Bytes) :
             stored = streamBuffer' /\ Len(stored) = cut /\ stored[1] = SYSEX
      BY <3>2, <3>3, <1>9
    <3>5. stored # <<>> => Head(stored) = stored[1]
      OBVIOUS
    <3>6. QED
      BY <3>1, <3>4, <3>5
  <2>3. QED
    BY <1>2, <2>1, <2>2
<1>15. QED
  BY <1>1, <1>11, <1>12, <1>13, <1>14
     DEF ParserInv, ParserTypeOK, ShortMessageFits, Bytes

\* Every turn of the loop and every call keeps the invariant.
LEMMA ParserInvInductive ==
    ASSUME FirstPartsFit
    PROVE  ParserInv /\ [ParserNext]_parserVars => ParserInv'
<1> SUFFICES ASSUME ParserInv, [ParserNext]_parserVars
             PROVE  ParserInv'
  OBVIOUS
<1>1. CASE UNCHANGED parserVars
  BY <1>1 DEF ParserInv, ParserTypeOK, ReadFrom, ShortMessageFits, parserVars
<1>2. QED
  BY <1>1, ParseStreamKeepsInv, HandleRealtimeKeepsInv, StatusKeepsInv,
     DataBytesKeepInv, SysexKeepsInv, SysexFragmentKeepsInv,
     ProcessShortMessageKeepsInv DEF ParserNext

\* Whatever fragments the stream comes in, what is kept of a message never goes
\* beyond the stream buffer, and the buffer never beyond its greatest size: if no
\* first part that is longer than that comes alone.
THEOREM BufferIsBounded ==
    ASSUME FirstPartsFit
    PROVE  ParserSpec => []ParserTypeOK
<1>1. ParserInv => ParserTypeOK
  BY DEF ParserInv
<1>2. QED
  BY <1>1, ParserInvInit, ParserInvInductive, PTL DEF ParserSpec


-----------------------------------------------------------------------------
(* What the parser keeps and passes on is what reading byte by byte yields *)

\* A parse of MidiStream.
Parse(kept, status, out) ==
    [message |-> kept, running |-> status, out |-> out]

\* The parse with which a turn of the loop begins.
Before == Parse(streamBuffer, runningStatus, received)

\* The recursive function in ReadBytes(): the parse after each byte.
IsParse(f, s, start, whole) ==
    f = [k \in 0 .. Len(s) |->
            IF k = 0 THEN start ELSE Bytewise!Take(f[k - 1], s[k], whole)]

\* The parse up to the n-th byte.
ParseUpTo(n, g, s, start, whole) ==
    g = [k \in 0 .. n |->
            IF k = 0 THEN start ELSE Bytewise!Take(g[k - 1], s[k], whole)]

\* One byte more.
LEMMA ParseFurther ==
    ASSUME NEW s \in Seq(Bytes), NEW start, NEW whole, NEW n \in 1 .. Len(s),
           NEW g, ParseUpTo(n - 1, g, s, start, whole)
    PROVE  \E h : ParseUpTo(n, h, s, start, whole)
<1> DEFINE next == Bytewise!Take(g[n - 1], s[n], whole)
           h == [k \in 0 .. n |-> IF k = n THEN next ELSE g[k]]
<1>1. n \in Nat \ {0}
  OBVIOUS
<1>2. ASSUME NEW k \in 0 .. n
      PROVE  h[k] = IF k = 0 THEN start
                    ELSE Bytewise!Take(h[k - 1], s[k], whole)
  <2>1. CASE k = n
    <3>1. k # 0 /\ k - 1 \in 0 .. n /\ k - 1 # n
      BY <2>1, <1>1
    <3>2. h[k] = next /\ h[k - 1] = g[n - 1]
      BY <3>1, <2>1
    <3>3. QED
      BY <3>1, <3>2, <2>1
  <2>2. CASE k # n
    <3>1. k \in 0 .. n - 1
      BY <2>2, <1>1
    <3>2. h[k] = g[k]
      BY <2>2
    <3>3. g[k] = IF k = 0 THEN start
                 ELSE Bytewise!Take(g[k - 1], s[k], whole)
      BY <3>1, Zenon DEF ParseUpTo
    <3>4. k # 0 => h[k - 1] = g[k - 1]
      BY <3>1, <1>1
    <3>5. QED
      BY <3>2, <3>3, <3>4
  <2>3. QED
    BY <2>1, <2>2
<1>3. h = [k \in 0 .. n |->
              IF k = 0 THEN start ELSE Bytewise!Take(h[k - 1], s[k], whole)]
  <2> HIDE DEF next
  <2>1. h = [k \in 0 .. n |-> h[k]]
    OBVIOUS
  <2> HIDE DEF h
  <2>2. QED
    BY <2>1, <1>2, Zenon
<1>4. ParseUpTo(n, h, s, start, whole)
  <2> HIDE DEF h
  <2>1. QED
    BY <1>3, Zenon DEF ParseUpTo
<1>5. QED
  BY <1>4, Zenon

\* The recursive function exists.
LEMMA ParseExists ==
    ASSUME NEW s \in Seq(Bytes), NEW start, NEW whole
    PROVE  \E f : IsParse(f, s, start, whole)
<1> DEFINE Possible == {n \in 0 .. Len(s) :
                           \E g : ParseUpTo(n, g, s, start, whole)}
<1>1. Len(s) \in Nat
  OBVIOUS
<1>2. 0 \in Possible
  <2>1. ParseUpTo(0, [k \in 0 .. 0 |-> start], s, start, whole)
    BY DEF ParseUpTo
  <2>2. QED
    BY <2>1, <1>1
<1>3. ASSUME NEW n \in 1 .. Len(s), n - 1 \in Possible
      PROVE  n \in Possible
  <2>1. PICK g : ParseUpTo(n - 1, g, s, start, whole)
    BY <1>3
  <2>2. \E h : ParseUpTo(n, h, s, start, whole)
    BY <2>1, ParseFurther
  <2>3. n \in 0 .. Len(s)
    OBVIOUS
  <2>4. QED
    BY <2>2, <2>3
<1> HIDE DEF Possible
<1>4. Len(s) \in Possible
  <2>1. \A k \in 0 .. Len(s) : k \in Possible
    BY <1>1, <1>2, <1>3, AlongFragment
  <2>2. QED
    BY <1>1, <2>1
<1>5. PICK g : ParseUpTo(Len(s), g, s, start, whole)
  BY <1>4 DEF Possible
<1>6. QED
  BY <1>5, Zenon DEF IsParse, ParseUpTo

\* ReadBytes() byte after byte.
LEMMA ReadBytesSteps ==
    ASSUME stream \in Seq(Bytes), NEW whole
    PROVE  /\ Bytewise!ReadBytes(0, whole) = Before
           /\ \A n \in 1 .. Len(stream) :
                 Bytewise!ReadBytes(n, whole) =
                     Bytewise!Take(Bytewise!ReadBytes(n - 1, whole),
                                   stream[n], whole)
<1> DEFINE parse == CHOOSE f : IsParse(f, stream, Before, whole)
<1>1. IsParse(parse, stream, Before, whole)
  BY ParseExists, Zenon
<1>2. \A n : Bytewise!ReadBytes(n, whole) = parse[n]
  BY DEF Bytewise!ReadBytes, IsParse, Before, Parse
<1> HIDE DEF parse
<1>3. parse = [k \in 0 .. Len(stream) |->
                  IF k = 0 THEN Before
                  ELSE Bytewise!Take(parse[k - 1], stream[k], whole)]
  BY <1>1, Zenon DEF IsParse
<1>4. parse[0] = Before
  <2>1. 0 \in 0 .. Len(stream)
    OBVIOUS
  <2>2. QED
    BY <2>1, <1>3
<1>5. ASSUME NEW n \in 1 .. Len(stream)
      PROVE  parse[n] = Bytewise!Take(parse[n - 1], stream[n], whole)
  <2>1. n \in 0 .. Len(stream) /\ n # 0
    OBVIOUS
  <2>2. QED
    BY <2>1, <1>3
<1>6. QED
  BY <1>2, <1>4, <1>5

\* Both count the bytes of a message alike.
LEMMA SameLengths ==
    ASSUME NEW status \in 128 .. 247
    PROVE  Bytewise!ShortMessageLength(status) = getShortMessageLength(status)
BY DEF Bytewise!ShortMessageLength, getShortMessageLength

\* When a message is complete.
LEMMA CompleteMessages ==
    ASSUME NEW kept \in Seq(Bytes), kept # <<>>, kept[1] \in 128 .. 247
    PROVE  Bytewise!Complete(kept) <=>
               /\ kept[1] # SYSEX
               /\ Len(kept) = getShortMessageLength(kept[1])
BY SameLengths DEF Bytewise!Complete, Bytewise!SysEx, SYSEX

\* The parts of a parse, and a parse with one of them changed.
LEMMA ParseParts ==
    ASSUME NEW kept, NEW status, NEW out, NEW part
    PROVE  /\ Parse(kept, status, out).message = kept
           /\ Parse(kept, status, out).running = status
           /\ Parse(kept, status, out).out = out
           /\ [Parse(kept, status, out) EXCEPT !.message = part]
                 = Parse(part, status, out)
           /\ [Parse(kept, status, out) EXCEPT !.running = part]
                 = Parse(kept, part, out)
           /\ [Parse(kept, status, out) EXCEPT !.out = part]
                 = Parse(kept, status, part)
BY DEF Parse

\* No message, a message with a byte more, what is passed on with a message
\* more, and a message of one byte.
Nothing == <<>>
Joined(kept, b) == Append(kept, b)
PassedOn(out, m) == Append(out, m)
Alone(b) == <<b>>

\* A realtime message is passed on at once.
LEMMA RealtimeTaken ==
    ASSUME NEW kept \in Seq(Bytes), NEW status, NEW out \in Seq(Seq(Bytes)),
           NEW whole, NEW b \in 248 .. 255
    PROVE  Bytewise!Take(Parse(kept, status, out), b, whole) =
               Parse(kept, status, PassedOn(out, Alone(b)))
<1>1. Bytewise!IsRealtime(b)
  BY DEF Bytewise!IsRealtime
<1>2. Bytewise!Take(Parse(kept, status, out), b, whole)
         = [Parse(kept, status, out) EXCEPT !.out = Append(@, <<b>>)]
  BY <1>1, Zenon DEF Bytewise!Take
<1>3. QED
  BY <1>2 DEF Parse, PassedOn, Alone

\* A data byte joins the message it belongs to, and that is passed on if it is
\* complete.
LEMMA DataJoins ==
    ASSUME NEW kept \in Seq(Bytes), NEW status, NEW out \in Seq(Seq(Bytes)),
           NEW whole, NEW b \in 0 .. 127, kept # Nothing,
           ~Bytewise!Complete(kept)
    PROVE  Bytewise!Take(Parse(kept, status, out), b, whole)
             = Bytewise!DeliverComplete(Parse(Joined(kept, b), status, out))
<1>1. ~Bytewise!IsRealtime(b) /\ Bytewise!IsData(b)
  BY DEF Bytewise!IsRealtime, Bytewise!IsData
<1>2. Bytewise!DeliverComplete(Parse(kept, status, out))
         = Parse(kept, status, out)
  BY DEF Bytewise!DeliverComplete, Parse
<1>3. Bytewise!Take(Parse(kept, status, out), b, whole)
         = Bytewise!TakeData(Parse(kept, status, out), b)
  BY <1>1, <1>2, Zenon DEF Bytewise!Take
<1>4. [Parse(kept, status, out) EXCEPT !.message = Append(@, b)]
           = Parse(Joined(kept, b), status, out)
  <2>1. PICK joined : joined = Append(kept, b)
    OBVIOUS
  <2>2. Parse(kept, status, out).message = kept
    BY ParseParts
  <2>3. [Parse(kept, status, out) EXCEPT !.message = joined]
           = Parse(joined, status, out)
    BY ParseParts
  <2>4. QED
    BY <2>1, <2>2, <2>3 DEF Joined
<1>5. Parse(kept, status, out).message # Nothing
  BY ParseParts
<1>6. QED
  BY <1>3, <1>4, <1>5, Zenon DEF Bytewise!TakeData, Nothing

\* One that does not complete it.
LEMMA DataTaken ==
    ASSUME NEW kept \in Seq(Bytes), NEW status, NEW out \in Seq(Seq(Bytes)),
           NEW whole, NEW b \in 0 .. 127, kept # Nothing,
           ~Bytewise!Complete(kept), ~Bytewise!Complete(Joined(kept, b))
    PROVE  Bytewise!Take(Parse(kept, status, out), b, whole)
             = Parse(Joined(kept, b), status, out)
<1>1. Bytewise!DeliverComplete(Parse(Joined(kept, b), status, out))
         = Parse(Joined(kept, b), status, out)
  BY ParseParts DEF Bytewise!DeliverComplete
<1>2. QED
  BY <1>1, DataJoins

\* One that does.
LEMMA DataCompletes ==
    ASSUME NEW kept \in Seq(Bytes), NEW status, NEW out \in Seq(Seq(Bytes)),
           NEW whole, NEW b \in 0 .. 127, kept # Nothing,
           ~Bytewise!Complete(kept), Bytewise!Complete(Joined(kept, b))
    PROVE  Bytewise!Take(Parse(kept, status, out), b, whole)
             = Parse(Nothing, status, PassedOn(out, Joined(kept, b)))
<1>1. Bytewise!DeliverComplete(Parse(Joined(kept, b), status, out))
         = Parse(Nothing, status, PassedOn(out, Joined(kept, b)))
  BY DEF Bytewise!DeliverComplete, Bytewise!Deliver, Parse, PassedOn,
         Nothing
<1>2. QED
  <2>1. Bytewise!Take(Parse(kept, status, out), b, whole)
          = Bytewise!DeliverComplete(Parse(Joined(kept, b), status, out))
    BY DataJoins, Zenon
  <2>2. QED
    BY <1>1, <2>1, Zenon

\* A data byte that belongs to no message is skipped.
LEMMA DataSkipped ==
    ASSUME NEW out, NEW whole, NEW b \in 0 .. 127
    PROVE  Bytewise!Take(Parse(Nothing, 0, out), b, whole)
             = Parse(Nothing, 0, out)
<1>1. ~Bytewise!IsRealtime(b) /\ Bytewise!IsData(b)
  BY DEF Bytewise!IsRealtime, Bytewise!IsData
<1>2. Bytewise!DeliverComplete(Parse(Nothing, 0, out)) = Parse(Nothing, 0, out)
  BY DEF Bytewise!DeliverComplete, Bytewise!Complete, Parse, Nothing
<1>3. Bytewise!Take(Parse(Nothing, 0, out), b, whole)
         = Bytewise!TakeData(Parse(Nothing, 0, out), b)
  BY <1>1, <1>2, Zenon DEF Bytewise!Take
<1>4. QED
  BY <1>3 DEF Bytewise!TakeData, Parse, Nothing

\* A status begins a message.
LEMMA StatusTaken ==
    ASSUME NEW status, NEW out, NEW whole, NEW b \in 128 .. 247
    PROVE  Bytewise!Take(Parse(Nothing, status, out), b, whole) =
               Parse(Alone(b), Bytewise!RunningAfter(b), out)
<1>1. ~Bytewise!IsRealtime(b) /\ ~Bytewise!IsData(b)
  BY DEF Bytewise!IsRealtime, Bytewise!IsData
<1>2. Bytewise!DeliverComplete(Parse(Nothing, status, out))
         = Parse(Nothing, status, out)
  BY DEF Bytewise!DeliverComplete, Bytewise!Complete, Parse, Nothing
<1>3. Bytewise!Take(Parse(Nothing, status, out), b, whole)
         = Bytewise!TakeStatus(Parse(Nothing, status, out), b, whole)
  BY <1>1, <1>2, Zenon DEF Bytewise!Take
<1>4. Parse(Nothing, status, out).message = Nothing
      /\ Parse(Nothing, status, out).out = out
  BY ParseParts
<1>5. Bytewise!TakeStatus(Parse(Nothing, status, out), b, whole)
         = [message |-> <<b>>, running |-> Bytewise!RunningAfter(b),
            out |-> out]
  BY <1>4 DEF Bytewise!TakeStatus, Nothing
<1>6. QED
  BY <1>3, <1>5, Zenon DEF Parse, Alone

\* The end of a system exclusive message passes it on, unless it is too long.
LEMMA EndTaken ==
    ASSUME NEW kept \in Seq(Bytes), NEW status, NEW out \in Seq(Seq(Bytes)),
           NEW whole, kept # Nothing, kept[1] = SYSEX
    PROVE  Bytewise!Take(Parse(kept, status, out), END_OF_SYSEX, whole) =
               IF whole \/ Len(kept) < MaxSize
               THEN Parse(Nothing, status,
                          PassedOn(out, Joined(kept, END_OF_SYSEX)))
               ELSE Parse(Nothing, status, out)
<1>1. ~Bytewise!IsRealtime(END_OF_SYSEX) /\ ~Bytewise!IsData(END_OF_SYSEX)
  BY DEF Bytewise!IsRealtime, Bytewise!IsData, END_OF_SYSEX
<1>2. Bytewise!DeliverComplete(Parse(kept, status, out))
         = Parse(kept, status, out)
  BY DEF Bytewise!DeliverComplete, Bytewise!Complete, Bytewise!SysEx, SYSEX,
         Parse
<1>3. Bytewise!Take(Parse(kept, status, out), END_OF_SYSEX, whole)
         = Bytewise!TakeStatus(Parse(kept, status, out), END_OF_SYSEX, whole)
  BY <1>1, <1>2 DEF Bytewise!Take
<1>4. Head(kept) = Bytewise!SysEx
  BY DEF Bytewise!SysEx, SYSEX
<1>5. END_OF_SYSEX = Bytewise!EndOfSysEx
  BY DEF Bytewise!EndOfSysEx, END_OF_SYSEX
<1>6. QED
  BY <1>3, <1>4, <1>5 DEF Bytewise!TakeStatus, Bytewise!Deliver, Parse, Joined,
                               PassedOn, Nothing

\* One byte more in succession.
LEMMA JoinedInSuccession ==
    ASSUME NEW first \in Seq(Bytes), NEW second \in Seq(Bytes), NEW b \in Bytes
    PROVE  first \o Joined(second, b) = Joined(first \o second, b)
BY DEF Joined

\* One message more in succession.
LEMMA PassedOnInSuccession ==
    ASSUME NEW first \in Seq(Seq(Bytes)), NEW second \in Seq(Seq(Bytes)),
           NEW m \in Seq(Bytes)
    PROVE  first \o PassedOn(second, m) = PassedOn(first \o second, m)
BY DEF PassedOn

\* Data bytes and realtime messages, one byte more.
LEMMA OneByteMore ==
    ASSUME stream \in Seq(Bytes), NEW n \in 1 .. Len(stream)
    PROVE  /\ stream[n] \in 0 .. 127 =>
                 /\ DataBytes(n) = Joined(DataBytes(n - 1), stream[n])
                 /\ Realtime(n) = Realtime(n - 1)
           /\ stream[n] \in 248 .. 255 =>
                 /\ DataBytes(n) = DataBytes(n - 1)
                 /\ Realtime(n) = PassedOn(Realtime(n - 1), Alone(stream[n]))
<1>1. ASSUME NEW set
      PROVE  BytesIn(set, n) =
                IF stream[n] \in set
                THEN Append(BytesIn(set, n - 1), stream[n])
                ELSE BytesIn(set, n - 1)
  BY BytesInSteps
<1>2. n - 1 \in 0 .. Len(stream) /\ n \in 0 .. Len(stream)
  OBVIOUS
<1>3. PICK b \in Bytes : b = stream[n]
  OBVIOUS
<1>4. b \in 0 .. 127 => b \notin 248 .. 255
  BY DEF Bytes
<1>5. ASSUME stream[n] \in 248 .. 255
      PROVE  Realtime(n) = PassedOn(Realtime(n - 1), Alone(stream[n]))
  <2>1. PICK before \in Seq(Bytes) : before = BytesIn(248 .. 255, n - 1)
    BY <1>2, BytesInTypes
  <2>3. BytesIn(248 .. 255, n) = Append(before, b)
    BY <1>1, <1>3, <1>5, <2>1
  <2>4. Realtime(n - 1) = [i \in 1 .. Len(before) |-> <<before[i]>>]
    BY <2>1 DEF Realtime
  <2>5. Realtime(n) = [i \in 1 .. Len(Append(before, b)) |->
                          <<Append(before, b)[i]>>]
    BY <2>3 DEF Realtime
  <2>6. [i \in 1 .. Len(Append(before, b)) |-> <<Append(before, b)[i]>>]
           = Append([i \in 1 .. Len(before) |-> <<before[i]>>], <<b>>)
    BY <2>1
  <2>7. QED
    BY <1>3, <2>4, <2>5, <2>6 DEF PassedOn, Alone
<1>6. ASSUME stream[n] \in 0 .. 127
      PROVE  Realtime(n) = Realtime(n - 1)
  <2>1. stream[n] \notin 248 .. 255
    BY <1>3, <1>4, <1>6, Zenon
  <2>2. BytesIn(248 .. 255, n) = BytesIn(248 .. 255, n - 1)
    BY <1>1, <2>1
  <2>3. QED
    BY <2>2 DEF Realtime
<1>7. stream[n] \in 248 .. 255 => stream[n] \notin 0 .. 127
  BY <1>3, <1>4, Zenon
<1>8. DataBytes(n) = IF stream[n] \in 0 .. 127
                     THEN Joined(DataBytes(n - 1), stream[n])
                     ELSE DataBytes(n - 1)
  BY <1>1, Zenon DEF DataBytes, Joined
<1>9. QED
  BY <1>5, <1>6, <1>7, <1>8

\* Before the first byte.
LEMMA NoBytesYet ==
    ASSUME stream \in Seq(Bytes)
    PROVE  DataBytes(0) = <<>> /\ Realtime(0) = <<>>
<1>1. \A set : BytesIn(set, 0) = <<>>
  BY BytesInSteps
<1>2. DataBytes(0) = <<>>
  BY <1>1 DEF DataBytes
<1>3. Realtime(0) = [i \in 1 .. Len(<<>>) |-> <<<<>>[i]>>]
  BY <1>1 DEF Realtime
<1>4. Realtime(0) = <<>>
  BY <1>3
<1>5. QED
  BY <1>2, <1>4

\* Reading one byte more: a data byte.
LEMMA ReadsData ==
    ASSUME stream \in Seq(Bytes), NEW n \in 1 .. Len(stream), NEW whole,
           NEW kept \in Seq(Bytes), NEW status, NEW out \in Seq(Seq(Bytes)),
           stream[n] \in 0 .. 127,
           Bytewise!ReadBytes(n - 1, whole) = Parse(kept, status, out),
           kept # Nothing, ~Bytewise!Complete(kept),
           ~Bytewise!Complete(Joined(kept, stream[n]))
    PROVE  Bytewise!ReadBytes(n, whole)
             = Parse(Joined(kept, stream[n]), status, out)
<1>1. PICK b \in 0 .. 127 : b = stream[n]
  OBVIOUS
<1>2. Bytewise!ReadBytes(n, whole)
        = Bytewise!Take(Parse(kept, status, out), b, whole)
  BY <1>1, ReadBytesSteps
<1>3. QED
  <2>1. Bytewise!Take(Parse(kept, status, out), b, whole)
          = Parse(Joined(kept, b), status, out)
    <3>1. ~Bytewise!Complete(Joined(kept, b))
      BY <1>1
    <3>2. QED
      BY <3>1, DataTaken, ZenonT(30)
  <2>2. QED
    BY <1>1, <1>2, <2>1

\* The data byte that completes a message.
LEMMA ReadsLastData ==
    ASSUME stream \in Seq(Bytes), NEW n \in 1 .. Len(stream), NEW whole,
           NEW kept \in Seq(Bytes), NEW status, NEW out \in Seq(Seq(Bytes)),
           stream[n] \in 0 .. 127,
           Bytewise!ReadBytes(n - 1, whole) = Parse(kept, status, out),
           kept # Nothing, ~Bytewise!Complete(kept),
           Bytewise!Complete(Joined(kept, stream[n]))
    PROVE  Bytewise!ReadBytes(n, whole)
             = Parse(Nothing, status, PassedOn(out, Joined(kept, stream[n])))
<1>1. PICK b \in 0 .. 127 : b = stream[n]
  OBVIOUS
<1>2. Bytewise!ReadBytes(n, whole)
        = Bytewise!Take(Parse(kept, status, out), b, whole)
  BY <1>1, ReadBytesSteps
<1>3. QED
  <2>1. Bytewise!Take(Parse(kept, status, out), b, whole)
          = Parse(Nothing, status, PassedOn(out, Joined(kept, b)))
    BY <1>1, DataCompletes
  <2>2. QED
    BY <1>1, <1>2, <2>1

\* A realtime message.
LEMMA ReadsRealtime ==
    ASSUME stream \in Seq(Bytes), NEW n \in 1 .. Len(stream), NEW whole,
           NEW kept \in Seq(Bytes), NEW status, NEW out \in Seq(Seq(Bytes)),
           stream[n] \in 248 .. 255,
           Bytewise!ReadBytes(n - 1, whole) = Parse(kept, status, out)
    PROVE  Bytewise!ReadBytes(n, whole)
             = Parse(kept, status, PassedOn(out, Alone(stream[n])))
<1>1. PICK b \in 248 .. 255 : b = stream[n]
  OBVIOUS
<1>2. Bytewise!ReadBytes(n, whole)
        = Bytewise!Take(Parse(kept, status, out), b, whole)
  BY <1>1, ReadBytesSteps
<1>3. QED
  BY <1>1, <1>2, RealtimeTaken

\* The status of a new message.
LEMMA ReadsStatus ==
    ASSUME stream \in Seq(Bytes), NEW n \in 1 .. Len(stream), NEW whole,
           NEW kept \in Seq(Bytes), NEW status, NEW out \in Seq(Seq(Bytes)),
           stream[n] \in 128 .. 247,
           Bytewise!ReadBytes(n - 1, whole) = Parse(kept, status, out),
           kept = Nothing
    PROVE  Bytewise!ReadBytes(n, whole)
             = Parse(Alone(stream[n]), Bytewise!RunningAfter(stream[n]), out)
<1>1. PICK b \in 128 .. 247 : b = stream[n]
  OBVIOUS
<1>2. Bytewise!ReadBytes(n, whole)
        = Bytewise!Take(Parse(kept, status, out), b, whole)
  BY <1>1, ReadBytesSteps
<1>3. QED
  <2>1. Bytewise!Take(Parse(Nothing, status, out), b, whole)
          = Parse(Alone(b), Bytewise!RunningAfter(b), out)
    BY <1>1, StatusTaken, Zenon
  <2>2. QED
    BY <1>1, <1>2, <2>1

\* A message with bytes.
LEMMA NotNothing ==
    ASSUME NEW s \in Seq(Bytes), Len(s) > 0
    PROVE  s # Nothing
BY DEF Nothing

\* A sequence of one element.
LEMMA OneElement ==
    ASSUME NEW S, NEW s \in Seq(S), Len(s) = 1
    PROVE  s = <<s[1]>>
OBVIOUS

\* No status is among the first n bytes.
NoStatus(n) == \A k \in 1 .. n : IsData(stream[k]) \/ IsRealtime(stream[k])

\* None of the first n bytes completes the message in the buffer.
Incomplete(n) ==
    \A k \in 0 .. n : ~Bytewise!Complete(streamBuffer \o DataBytes(k))

\* Data bytes follow the first one, up to the n-th.
DataFollow(n) == \A k \in 2 .. n : IsData(stream[k])

\* While no message is completed, data bytes join the one in the buffer.
LEMMA DataCollected ==
    ASSUME stream \in Seq(Bytes), received \in Seq(Seq(Bytes)),
           streamBuffer \in Seq(Bytes), streamBuffer # <<>>,
           NEW whole, NEW n \in 0 .. Len(stream), NoStatus(n), Incomplete(n)
    PROVE  Bytewise!ReadBytes(n, whole) =
               Parse(streamBuffer \o DataBytes(n), runningStatus,
                     received \o Realtime(n))
<1> DEFINE Read(k) == Bytewise!ReadBytes(k, whole)
           Collected(k) == Parse(streamBuffer \o DataBytes(k), runningStatus,
                                 received \o Realtime(k))
           Reads == {k \in 0 .. n : Read(k) = Collected(k)}
<1>1. n \in Nat /\ \A k \in 1 .. n : k \in 1 .. Len(stream)
  OBVIOUS
<1>2. 0 \in Reads
  <2>1. streamBuffer \o <<>> = streamBuffer /\ received \o <<>> = received
    OBVIOUS
  <2>2. Read(0) = Before
    BY ReadBytesSteps
  <2>3. Collected(0) = Before
    BY <2>1, NoBytesYet DEF Before
  <2>4. QED
    BY <1>1, <2>2, <2>3
<1>3. ASSUME NEW k \in 1 .. n, k - 1 \in Reads
      PROVE  k \in Reads
  <2>1. k \in 1 .. Len(stream) /\ k - 1 \in 0 .. Len(stream)
    BY <1>1
  <2>2. stream[k] \in 0 .. 127 \/ stream[k] \in 248 .. 255
    <3>1. PICK b \in Bytes : b = stream[k]
      BY <2>1
    <3>2. IsData(b) \/ IsRealtime(b)
      BY <3>1 DEF NoStatus
    <3>3. b \in 0 .. 127 \/ b \in 248 .. 255
      BY <3>2 DEF IsData, IsRealtime, Bytes
    <3>4. QED
      BY <3>1, <3>3, Zenon
  <2>3. PICK data \in Seq(Bytes) : data = DataBytes(k - 1)
    BY <2>1, BytesInTypes DEF DataBytes
  <2>4. PICK passed \in Seq(Seq(Bytes)) : passed = Realtime(k - 1)
    BY <2>1, RealtimeTypes
  <2>5. PICK kept \in Seq(Bytes) : kept = streamBuffer \o data
    BY InSuccession
  <2>6. PICK out \in Seq(Seq(Bytes)), before \in Seq(Seq(Bytes)),
                status \in {runningStatus} :
           /\ before = received /\ out = before \o passed
           /\ status = runningStatus
    BY InSuccession
  <2>7. Read(k - 1) = Parse(kept, status, out)
    BY <1>3, <2>3, <2>4, <2>5, <2>6
  <2>8. ASSUME stream[k] \in 0 .. 127
        PROVE  Read(k) = Collected(k)
    <3>1. DataBytes(k) = Joined(data, stream[k]) /\ Realtime(k) = passed
      BY <2>1, <2>3, <2>4, <2>8, OneByteMore
    <3>2. streamBuffer \o DataBytes(k) = Joined(kept, stream[k])
      <4>1. PICK b \in Bytes : b = stream[k]
        BY <2>1
      <4>2. PICK first \in Seq(Bytes) : first = streamBuffer
        OBVIOUS
      <4>3. first \o Joined(data, b) = Joined(first \o data, b)
        BY JoinedInSuccession
      <4>4. QED
        BY <2>5, <3>1, <4>1, <4>2, <4>3
    <3>3. ~Bytewise!Complete(kept)
          /\ ~Bytewise!Complete(Joined(kept, stream[k]))
      <4>1. k - 1 \in 0 .. n /\ k \in 0 .. n
        BY <1>1
      <4>2. QED
        BY <4>1, <2>3, <2>5, <3>2 DEF Incomplete
    <3>4. kept # Nothing
      BY <2>5 DEF Nothing
    <3>5. Read(k) = Parse(Joined(kept, stream[k]), status, out)
      BY <2>1, <2>7, <2>8, <3>3, <3>4, ReadsData
    <3>6. Collected(k) = Parse(Joined(kept, stream[k]), status, out)
      BY <2>6, <3>1, <3>2
    <3>7. QED
      BY <3>5, <3>6, Zenon
  <2>9. ASSUME stream[k] \in 248 .. 255
        PROVE  Read(k) = Collected(k)
    <3>1. /\ DataBytes(k) = data
          /\ Realtime(k) = PassedOn(passed, Alone(stream[k]))
      BY <2>1, <2>3, <2>4, <2>9, OneByteMore
    <3>2. Alone(stream[k]) \in Seq(Bytes)
      BY <2>1 DEF Alone
    <3>3. received \o Realtime(k) = PassedOn(out, Alone(stream[k]))
      <4>1. PICK one \in Seq(Bytes) : one = Alone(stream[k])
        BY <3>2
      <4>2. before \o PassedOn(passed, one) = PassedOn(before \o passed, one)
        BY PassedOnInSuccession
      <4>3. QED
        BY <2>6, <3>1, <4>1, <4>2
    <3>4. Read(k) = Parse(kept, status, PassedOn(out, Alone(stream[k])))
      BY <2>1, <2>7, <2>9, ReadsRealtime
    <3>5. Collected(k) = Parse(kept, status, PassedOn(out, Alone(stream[k])))
      BY <2>5, <2>6, <3>1, <3>3
    <3>6. QED
      BY <3>4, <3>5, Zenon
  <2>10. QED
    BY <1>1, <2>2, <2>8, <2>9
<1> HIDE DEF Reads
<1>4. \A k \in 0 .. n : k \in Reads
  BY <1>1, <1>2, <1>3, AlongFragment
<1>5. n \in Reads
  BY <1>1, <1>4
<1>6. QED
  BY <1>5 DEF Reads

\* The data byte that completes a message passes it on.
LEMMA DataCompleted ==
    ASSUME stream \in Seq(Bytes), received \in Seq(Seq(Bytes)),
           streamBuffer \in Seq(Bytes), streamBuffer # <<>>,
           NEW whole, NEW n \in 1 .. Len(stream),
           NoStatus(n - 1), Incomplete(n - 1), stream[n] \in 0 .. 127,
           Bytewise!Complete(streamBuffer \o DataBytes(n))
    PROVE  Bytewise!ReadBytes(n, whole) =
               Parse(Nothing, runningStatus,
                     PassedOn(received \o Realtime(n),
                              streamBuffer \o DataBytes(n)))
<1>1. PICK k \in 0 .. Len(stream) : k = n - 1
  OBVIOUS
<1>2. PICK data \in Seq(Bytes) : data = DataBytes(k)
  BY <1>1, BytesInTypes DEF DataBytes
<1>3. PICK kept \in Seq(Bytes) : kept = streamBuffer \o data
  BY InSuccession
<1>4. PICK out \in Seq(Seq(Bytes)), status \in {runningStatus} :
         out = received \o Realtime(k) /\ status = runningStatus
  BY RealtimeTypes, InSuccession
<1>5. Bytewise!ReadBytes(n - 1, whole) = Parse(kept, status, out)
  BY <1>1, <1>2, <1>3, <1>4, DataCollected
<1>6. DataBytes(n) = Joined(data, stream[n]) /\ Realtime(n) = Realtime(k)
  BY <1>1, <1>2, OneByteMore
<1>7. streamBuffer \o DataBytes(n) = Joined(kept, stream[n])
  <2>1. PICK b \in Bytes : b = stream[n]
    OBVIOUS
  <2>2. PICK first \in Seq(Bytes) : first = streamBuffer
    OBVIOUS
  <2>3. first \o Joined(data, b) = Joined(first \o data, b)
    BY JoinedInSuccession
  <2>4. QED
    BY <1>3, <1>6, <2>1, <2>2, <2>3
<1>8. kept # Nothing /\ ~Bytewise!Complete(kept)
  <2>1. k \in 0 .. n - 1
    BY <1>1
  <2>2. ~Bytewise!Complete(kept)
    BY <2>1, <1>2, <1>3 DEF Incomplete
  <2>3. kept # Nothing
    BY <1>3 DEF Nothing
  <2>4. QED
    BY <2>2, <2>3
<1>9. Bytewise!ReadBytes(n, whole)
        = Parse(Nothing, status, PassedOn(out, Joined(kept, stream[n])))
  BY <1>5, <1>7, <1>8, ReadsLastData
<1>10. QED
  BY <1>4, <1>6, <1>7, <1>9

\* A system exclusive message is collected from its first byte on.
LEMMA SysexCollected ==
    ASSUME stream \in Seq(Bytes), received \in Seq(Seq(Bytes)),
           streamBuffer = <<>>, NEW whole, NEW n \in 1 .. Len(stream),
           stream[1] = SYSEX, DataFollow(n)
    PROVE  Bytewise!ReadBytes(n, whole) =
               Parse(SubSeq(stream, 1, n), 0, received)
<1> DEFINE Read(k) == Bytewise!ReadBytes(k, whole)
           Reads == {k \in 0 .. n : k = 0 \/
                        Read(k) = Parse(SubSeq(stream, 1, k), 0, received)}
<1>1. n \in Nat /\ \A k \in 1 .. n : k \in 1 .. Len(stream)
  OBVIOUS
<1>2. 0 \in Reads
  BY <1>1
<1>3. ASSUME NEW k \in 1 .. n, k - 1 \in Reads
      PROVE  k \in Reads
  <2>1. k \in 1 .. Len(stream) /\ k - 1 \in 0 .. Len(stream) /\ k \in 0 .. n
    BY <1>1
  <2>2. PICK out \in Seq(Seq(Bytes)), status \in {runningStatus} :
           out = received /\ status = runningStatus
    OBVIOUS
  <2>3. CASE k = 1
    <3>1. stream[k] = SYSEX /\ stream[k] \in 128 .. 247
      BY <2>3 DEF SYSEX
    <3>2. Read(k - 1) = Parse(Nothing, status, out)
      <4>1. k - 1 = 0
        BY <2>3
      <4>2. QED
        BY <2>2, <4>1, ReadBytesSteps DEF Before, Nothing
    <3>3. Nothing \in Seq(Bytes)
      BY DEF Nothing
    <3>4. Read(k) = Parse(Alone(stream[k]), Bytewise!RunningAfter(stream[k]),
                          out)
      BY <2>1, <3>1, <3>2, <3>3, ReadsStatus
    <3>5. Bytewise!RunningAfter(stream[k]) = 0
      BY <3>1 DEF Bytewise!RunningAfter, Bytewise!IsVoice, SYSEX
    <3>6. SubSeq(stream, 1, k) = Alone(stream[k])
      <4>1. /\ SubSeq(stream, 1, k) \in Seq(Bytes)
            /\ Len(SubSeq(stream, 1, k)) = k
            /\ SubSeq(stream, 1, k)[1] = stream[1]
        BY <2>1
      <4>2. PICK part \in Seq(Bytes) :
               /\ part = SubSeq(stream, 1, k)
               /\ Len(part) = 1 /\ part[1] = stream[1]
        BY <2>3, <4>1
      <4>3. part = <<part[1]>>
        BY <4>2, OneElement
      <4>4. QED
        BY <2>3, <4>2, <4>3 DEF Alone
    <3>7. QED
      BY <2>1, <2>2, <3>4, <3>5, <3>6
  <2>4. CASE k # 1
    <3>1. PICK m \in 1 .. Len(stream) : m = k - 1
      BY <2>1, <2>4
    <3>2. PICK kept \in Seq(Bytes) :
             kept = SubSeq(stream, 1, m) /\ Len(kept) = m /\ kept[1] = SYSEX
      <4>1. /\ SubSeq(stream, 1, m) \in Seq(Bytes)
            /\ Len(SubSeq(stream, 1, m)) = m
            /\ SubSeq(stream, 1, m)[1] = stream[1]
        BY <3>1
      <4>2. QED
        BY <4>1
    <3>3. Read(k - 1) = Parse(kept, 0, out)
      BY <1>3, <2>2, <3>1, <3>2
    <3>4. stream[k] \in 0 .. 127
      <4>1. PICK b \in Bytes : b = stream[k]
        BY <2>1
      <4>2. IsData(b)
        BY <1>1, <2>4, <4>1 DEF DataFollow
      <4>3. b \in 0 .. 127
        <5>1. PICK c \in 0 .. 255 : c = b
          BY DEF Bytes
        <5>2. c < 128
          BY <4>2, <5>1 DEF IsData
        <5>3. QED
          BY <5>1, <5>2
      <4>4. QED
        BY <4>1, <4>3
    <3>5. Joined(kept, stream[k]) = SubSeq(stream, 1, k)
      BY <2>1, <3>1, <3>2 DEF Joined
    <3>6. kept # Nothing
      <4>1. m > 0
        BY <3>1
      <4>2. QED
        BY <3>2, <4>1, NotNothing
    <3>7. /\ ~Bytewise!Complete(kept)
          /\ ~Bytewise!Complete(Joined(kept, stream[k]))
      <4>1. Joined(kept, stream[k])[1] = SYSEX
        BY <3>1, <3>2 DEF Joined
      <4>2. QED
        BY <3>2, <4>1 DEF Bytewise!Complete, Bytewise!SysEx, SYSEX
    <3>8. Read(k) = Parse(Joined(kept, stream[k]), 0, out)
      BY <2>1, <3>3, <3>4, <3>6, <3>7, ReadsData
    <3>9. QED
      BY <2>1, <2>2, <3>5, <3>8
  <2>5. QED
    BY <2>3, <2>4
<1> HIDE DEF Reads
<1>4. \A k \in 0 .. n : k \in Reads
  BY <1>1, <1>2, <1>3, AlongFragment
<1>5. n \in Reads
  BY <1>1, <1>4
<1>6. QED
  BY <1>5 DEF Reads

-----------------------------------------------------------------------------
(* Every turn is a step of MidiStream *)

\* A message that fits into the buffer is not cut off.
LEMMA NotCutOff ==
    ASSUME NEW kept \in Seq(Bytes), Len(kept) <= MaxSize
    PROVE  Bytewise!Saturated(kept) = kept
<1>1. SubSeq(kept, 1, Len(kept)) = kept
  OBVIOUS
<1>2. CASE Len(kept) < MaxSize
  BY <1>1, <1>2 DEF Bytewise!Saturated
<1>3. CASE Len(kept) = MaxSize
  BY <1>1, <1>3, ParserAssumption DEF Bytewise!Saturated
<1>4. QED
  BY <1>2, <1>3, ParserAssumption

\* No message is cut off either.
LEMMA NothingIsNotCutOff == Bytewise!Saturated(Nothing) = Nothing
<1>1. /\ Nothing \in Seq(Bytes) /\ Len(Nothing) = 0
      /\ 0 <= MaxSize
  BY ParserAssumption DEF Nothing
<1>2. QED
  BY <1>1, NotCutOff

\* A turn that reads n bytes, and keeps and passes on what reading them one by
\* one does.
LEMMA TurnReads ==
    ASSUME NEW n \in 0 .. Len(stream), NEW whole \in BOOLEAN,
           NEW kept, NEW status, NEW out,
           Bytewise!ReadBytes(n, whole) = Parse(kept, status, out),
           whole => Len(streamBuffer) < MaxSize,
           Parsed(n), runningStatus' = status, received' = out,
           \/ streamBuffer' = Bytewise!Saturated(kept)
           \/ /\ n < Len(stream) /\ Bytewise!BreaksOff(kept, stream[n + 1])
              /\ streamBuffer' = <<>>
    PROVE  Bytewise!Next
<1>1. /\ Bytewise!ReadBytes(n, whole).message = kept
      /\ Bytewise!ReadBytes(n, whole).running = status
      /\ Bytewise!ReadBytes(n, whole).out = out
  BY ParseParts
<1>2. Bytewise!Read(n)
  BY <1>1, Zenon DEF Bytewise!Read, Parsed
<1>3. QED
  BY <1>2 DEF Bytewise!Next

\* What the parser works on.
LEMMA ParserTypes ==
    ASSUME ParserInv
    PROVE  /\ stream \in Seq(Bytes) /\ streamBuffer \in Seq(Bytes)
           /\ received \in Seq(Seq(Bytes))
           /\ runningStatus \in {0} \union 128 .. 239
           /\ streamBufferCapacity \in Capacity .. MaxSize
           /\ Len(streamBuffer) <= MaxSize
<1>1. /\ stream \in Seq(Bytes) /\ streamBuffer \in Seq(Bytes)
      /\ received \in Seq(Seq(Bytes))
      /\ runningStatus \in {0} \union 128 .. 239
      /\ streamBufferCapacity \in Capacity .. MaxSize
      /\ Len(streamBuffer) <= streamBufferCapacity
  BY DEF ParserInv, ParserTypeOK, Bytes
<1>2. PICK kept \in Nat : kept = Len(streamBuffer)
  BY <1>1
<1>3. QED
  BY <1>1, <1>2, ParserAssumption

\* A realtime message between others is read as one byte.
LEMMA HandleRealtimeImplements ==
    ASSUME ParserInv, HandleRealtime
    PROVE  Bytewise!Next
<1>1. /\ stream \in Seq(Bytes) /\ streamBuffer \in Seq(Bytes)
      /\ received \in Seq(Seq(Bytes)) /\ Len(streamBuffer) <= MaxSize
      /\ stream # <<>> /\ IsRealtime(Head(stream))
  BY ParserTypes DEF HandleRealtime
<1>2. PICK one \in 1 .. Len(stream) : one = 1
  BY <1>1
<1>3. stream[one] \in 248 .. 255 /\ Head(stream) = stream[one]
  <2>1. PICK b \in Bytes : b = stream[one]
    BY <1>1
  <2>2. Head(stream) = b
    BY <1>1, <1>2, <2>1
  <2>3. b \in 248 .. 255
    <3>1. IsRealtime(b)
      BY <1>1, <2>2
    <3>2. QED
      BY <3>1 DEF IsRealtime, Bytes
  <2>4. QED
    BY <2>1, <2>2, <2>3
<1>4. PICK kept \in Seq(Bytes) : kept = streamBuffer
  BY <1>1
<1>5. PICK out \in Seq(Seq(Bytes)) : out = received
  BY <1>1
<1>6. PICK status : status = runningStatus
  OBVIOUS
<1>7. Bytewise!ReadBytes(one - 1, FALSE) = Parse(kept, status, out)
  <2>1. one - 1 = 0
    BY <1>2
  <2>2. QED
    BY <1>1, <1>4, <1>5, <1>6, <2>1, ReadBytesSteps DEF Before
<1>8. Bytewise!ReadBytes(one, FALSE)
        = Parse(kept, status, PassedOn(out, Alone(stream[one])))
  BY <1>1, <1>3, <1>7, ReadsRealtime
<1>9. PICK passed : passed = PassedOn(out, Alone(stream[one]))
  OBVIOUS
<1>10. /\ Parsed(one) /\ runningStatus' = status /\ received' = passed
      /\ streamBuffer' = Bytewise!Saturated(kept)
  <2>1. Bytewise!Saturated(kept) = kept
    BY <1>1, <1>4, NotCutOff
  <2>2. QED
    BY <1>2, <1>3, <1>4, <1>5, <1>6, <1>9, <2>1
       DEF HandleRealtime, PassedOn, Alone
<1>11. QED
  <2>1. one \in 0 .. Len(stream) /\ FALSE \in BOOLEAN
    BY <1>2
  <2>2. Bytewise!ReadBytes(one, FALSE) = Parse(kept, status, passed)
    BY <1>8, <1>9
  <2>3. QED
    BY <1>10, <2>1, <2>2, TurnReads

\* A call begins in MidiStream as it does in the parser.
LEMMA ParseStreamImplements ==
    ASSUME NEW fragment \in Fragments, ParseStream(fragment)
    PROVE  Bytewise!Next
<1>1. Bytewise!ParseStream(fragment)
  BY DEF ParseStream, Bytewise!ParseStream
<1>2. QED
  BY <1>1 DEF Bytewise!Next

\* A status is read, a byte that belongs to no message is skipped, or the running
\* status takes the place of one that is left out.
LEMMA StatusImplements ==
    ASSUME ParserInv, ParseShortMessageStatus
    PROVE  Bytewise!Next
<1>1. /\ stream \in Seq(Bytes) /\ received \in Seq(Seq(Bytes))
      /\ stream # <<>> /\ streamBuffer = <<>>
  BY ParserTypes DEF ParseShortMessageStatus, Parsing
<1>2. PICK one \in 1 .. Len(stream) : one = 1
  BY <1>1
<1>3. PICK byte \in Bytes :
         byte = Head(stream) /\ byte = stream[one] /\ byte \notin 248 .. 255
  <2>1. PICK b \in Bytes : b = stream[one]
    BY <1>1
  <2>2. Head(stream) = b
    BY <1>1, <1>2, <2>1
  <2>3. ~IsRealtime(b)
    BY <2>2 DEF ParseShortMessageStatus, Parsing
  <2>4. b \notin 248 .. 255
    BY <2>3 DEF IsRealtime, Bytes
  <2>5. QED
    BY <2>1, <2>2, <2>4
<1>4. PICK out \in Seq(Seq(Bytes)) : out = received
  BY <1>1
<1>5. PICK status : status = runningStatus
  OBVIOUS
<1>6. Bytewise!ReadBytes(one - 1, FALSE) = Parse(Nothing, status, out)
  <2>1. one - 1 = 0
    BY <1>2
  <2>2. QED
    BY <1>1, <1>4, <1>5, <2>1, ReadBytesSteps DEF Before, Nothing
<1>7. Nothing \in Seq(Bytes) /\ one \in 0 .. Len(stream) /\ FALSE \in BOOLEAN
  BY <1>2 DEF Nothing
<1>8. CASE ~IsData(byte)
  <2>1. byte \in 128 .. 247
    <3>1. byte \in Bytes /\ byte \notin 248 .. 255
      BY <1>3
    <3>2. ~(byte < 128)
      BY <1>8 DEF IsData
    <3>3. PICK b \in 0 .. 255 : b = byte
      BY <3>1 DEF Bytes
    <3>4. b \notin 248 .. 255 /\ ~(b < 128)
      BY <3>1, <3>2, <3>3
    <3>5. b \in 128 .. 247
      BY <3>4
    <3>6. QED
      BY <3>3, <3>5
  <2>2. Bytewise!ReadBytes(one, FALSE)
          = Parse(Alone(stream[one]), Bytewise!RunningAfter(stream[one]), out)
    <3>1. stream[one] \in 128 .. 247
      BY <1>3, <2>1
    <3>2. QED
      <4>1. stream \in Seq(Bytes)
        BY <1>1
      <4>2. one \in 1 .. Len(stream) /\ Nothing = Nothing
        OBVIOUS
      <4>3. QED
        BY <1>6, <1>7, <3>1, <4>1, <4>2, ReadsStatus
  <2>3. PICK kept, running :
           /\ kept = Alone(byte) /\ running = Bytewise!RunningAfter(byte)
    OBVIOUS
  <2>4. Bytewise!ReadBytes(one, FALSE) = Parse(kept, running, out)
    BY <1>3, <2>2, <2>3
  <2>5. Parsed(one) /\ received' = out /\ streamBuffer' = <<byte>>
    BY <1>2, <1>3, <1>4, <1>8 DEF ParseShortMessageStatus
  <2>6. runningStatus' = running
    <3>1. runningStatus' = RunningAfter(byte)
      BY <1>3 DEF ParseShortMessageStatus
    <3>2. RunningAfter(byte) = Bytewise!RunningAfter(byte)
      BY <2>1 DEF RunningAfter, IsData, IsRealtime, SYSEX,
                  Bytewise!RunningAfter, Bytewise!IsVoice
    <3>3. QED
      BY <2>3, <3>1, <3>2
  <2>7. streamBuffer' = Bytewise!Saturated(kept)
    <3>1. <<byte>> \in Seq(Bytes) /\ Len(<<byte>>) = 1 /\ 1 <= MaxSize
      BY ParserAssumption
    <3>2. Bytewise!Saturated(<<byte>>) = <<byte>>
      BY <3>1, NotCutOff
    <3>3. QED
      BY <2>3, <2>5, <3>2 DEF Alone
  <2>8. QED
    BY <1>7, <2>4, <2>5, <2>6, <2>7, TurnReads
<1>9. CASE IsData(byte) /\ runningStatus = 0
  <2>1. byte \in 0 .. 127
    BY <1>9 DEF IsData, Bytes
  <2>2. Bytewise!ReadBytes(one, FALSE) = Parse(Nothing, status, out)
    <3>1. Bytewise!ReadBytes(one, FALSE)
            = Bytewise!Take(Parse(Nothing, status, out), byte, FALSE)
      BY <1>1, <1>3, <1>6, ReadBytesSteps
    <3>2. status = 0
      BY <1>5, <1>9
    <3>3. Bytewise!Take(Parse(Nothing, 0, out), byte, FALSE)
            = Parse(Nothing, 0, out)
      BY <2>1, DataSkipped
    <3>4. QED
      BY <3>1, <3>2, <3>3
  <2>3. /\ Parsed(one) /\ received' = out /\ streamBuffer' = Nothing
        /\ runningStatus' = status
    BY <1>1, <1>2, <1>3, <1>4, <1>5, <1>9
       DEF ParseShortMessageStatus, RunningAfter, Nothing
  <2>4. Bytewise!Saturated(Nothing) = Nothing
    <3>1. Len(Nothing) = 0 /\ 0 <= MaxSize
      BY ParserAssumption DEF Nothing
    <3>2. QED
      BY <1>7, <3>1, NotCutOff
  <2>5. QED
    BY <1>7, <2>2, <2>3, <2>4, TurnReads
<1>10. CASE IsData(byte) /\ runningStatus # 0
  <2>1. Bytewise!IsData(Head(stream))
    BY <1>3, <1>10 DEF Bytewise!IsData, IsData
  <2>2. /\ UNCHANGED <<stream, received>> /\ runningStatus' = runningStatus
        /\ streamBuffer' = <<runningStatus>>
    BY <1>3, <1>10 DEF ParseShortMessageStatus, RunningAfter
  <2>3. Bytewise!Resume
    BY <1>1, <1>10, <2>1, <2>2 DEF Bytewise!Resume
  <2>4. QED
    BY <2>3 DEF Bytewise!Next
<1>11. QED
  BY <1>8, <1>9, <1>10

\* A message of its own is passed on alike.
LEMMA ProcessShortMessageImplements ==
    ASSUME NEW message \in ShortMessages, ProcessShortMessage(message)
    PROVE  Bytewise!Next
<1>1. PICK status \in Bytes : status = Head(message)
  <2>1. message \in Seq(Bytes) /\ message # <<>>
    BY ParserAssumption DEF Bytes
  <2>2. PICK m \in Seq(Bytes) : m = message /\ m # <<>>
    BY <2>1
  <2>3. Head(m) \in Bytes
    BY <2>2
  <2>4. QED
    BY <2>2, <2>3
<1>2. Bytewise!IsData(status) <=> IsData(status)
  BY DEF Bytewise!IsData, IsData
<1>3. (IF Bytewise!IsStatus(status) THEN Bytewise!RunningAfter(status)
                                    ELSE runningStatus)
        = RunningAfter(status)
  BY DEF Bytewise!IsStatus, Bytewise!IsData, Bytewise!IsRealtime,
         Bytewise!RunningAfter, Bytewise!IsVoice, RunningAfter, IsData,
         IsRealtime, SYSEX, Bytes
<1>4. Bytewise!ProcessShortMessage(message)
  BY <1>1, <1>2, <1>3 DEF Bytewise!ProcessShortMessage, ProcessShortMessage
<1>5. QED
  BY <1>4 DEF Bytewise!Next

\* Whether a system exclusive message is passed on at its end.
Passes(kept, whole) == whole \/ Len(kept) < MaxSize

\* A system exclusive message that has begun.
IsSysex(kept) == kept # <<>> /\ kept[1] = SYSEX

\* The end of a system exclusive message.
LEMMA ReadsEnd ==
    ASSUME stream \in Seq(Bytes), NEW n \in 1 .. Len(stream), NEW whole,
           NEW kept \in Seq(Bytes), NEW status, NEW out \in Seq(Seq(Bytes)),
           stream[n] = END_OF_SYSEX,
           Bytewise!ReadBytes(n - 1, whole) = Parse(kept, status, out),
           IsSysex(kept)
    PROVE  /\ Passes(kept, whole) =>
                 Bytewise!ReadBytes(n, whole) =
                     Parse(Nothing, status,
                           PassedOn(out, Joined(kept, END_OF_SYSEX)))
           /\ ~Passes(kept, whole) =>
                 Bytewise!ReadBytes(n, whole) = Parse(Nothing, status, out)
<1>1. Bytewise!ReadBytes(n, whole)
        = Bytewise!Take(Parse(kept, status, out), END_OF_SYSEX, whole)
  BY ReadBytesSteps
<1>2. QED
  BY <1>1, EndTaken DEF Passes, IsSysex, Nothing

\* The data bytes of a short message: it is broken off, completed, or kept.
LEMMA DataBytesImplement ==
    ASSUME ParserInv, ParseShortMessageDataBytes
    PROVE  Bytewise!Next
<1> DEFINE missing ==
               getShortMessageLength(Head(streamBuffer)) - Len(streamBuffer)
           stops == {k \in 1 .. Len(stream) :
                        ~IsData(stream[k]) /\ ~IsRealtime(stream[k])}
           ends == {k \in 0 .. Len(stream) : Len(DataBytes(k)) = missing}
           broken == stops # {} /\ \A k \in ends : FirstOf(stops) <= k
           length == CASE broken -> FirstOf(stops) - 1
                       [] ~broken /\ ends # {} -> FirstOf(ends)
                       [] OTHER -> Len(stream)
<1>1. /\ stream \in Seq(Bytes) /\ streamBuffer \in Seq(Bytes)
      /\ received \in Seq(Seq(Bytes)) /\ Len(streamBuffer) <= MaxSize
      /\ streamBuffer # <<>> /\ Head(streamBuffer) # SYSEX
      /\ runningStatus' = runningStatus
  BY ParserTypes DEF ParseShortMessageDataBytes
<1>2. /\ Parsed(length)
      /\ \/ /\ broken
            /\ streamBuffer' = <<>>
            /\ received' = received \o Realtime(length)
         \/ /\ ~broken /\ ends # {}
            /\ streamBuffer' = <<>>
            /\ received' = Append(received \o Realtime(length),
                                  streamBuffer \o DataBytes(length))
         \/ /\ ~broken /\ ends = {}
            /\ streamBuffer' = streamBuffer \o DataBytes(length)
            /\ received' = received \o Realtime(length)
  BY DEF ParseShortMessageDataBytes
<1>3. PICK most \in Nat : most = Len(stream)
  BY <1>1
<1>4. stops \subseteq 1 .. most /\ ends \subseteq 0 .. most
  BY <1>3
<1>5. ASSUME NEW k \in 0 .. Len(stream)
      PROVE  Bytewise!Complete(streamBuffer \o DataBytes(k)) <=> k \in ends
  <2>1. PICK data \in Seq(Bytes) : data = DataBytes(k)
    BY <1>1, BytesInTypes DEF DataBytes
  <2>2. PICK first \in Seq(Bytes) : first = streamBuffer /\ first # <<>>
    BY <1>1
  <2>3. PICK m \in Seq(Bytes) : m = first \o data
    BY InSuccession
  <2>4. /\ m # <<>> /\ m[1] = Head(first)
        /\ Len(m) = Len(first) + Len(data)
    BY <2>2, <2>3
  <2>5. Head(first) \in 128 .. 247 /\ Head(first) # SYSEX
    BY <1>1, <2>2 DEF ParserInv, ShortMessageFits
  <2>6. PICK needed \in 1 .. 3 : needed = getShortMessageLength(Head(first))
    <3>1. Head(first) \in Bytes
      BY <2>2
    <3>2. QED
      BY <3>1, ShortMessageLengths
  <2>7. Bytewise!Complete(m) <=> Len(m) = needed
    BY <2>4, <2>5, <2>6, CompleteMessages
  <2>8. k \in ends <=> Len(data) = needed - Len(first)
    BY <2>1, <2>2, <2>6
  <2>9. Len(m) = needed <=> Len(data) = needed - Len(first)
    BY <2>2, <2>4, <2>6
  <2>10. QED
    BY <2>1, <2>2, <2>3, <2>7, <2>8, <2>9
<1>6. /\ stops # {} => /\ FirstOf(stops) \in stops
                       /\ \A k \in stops : FirstOf(stops) <= k
      /\ ends # {} => /\ FirstOf(ends) \in ends
                      /\ \A k \in ends : FirstOf(ends) <= k
  <2>1. stops \subseteq Nat /\ ends \subseteq Nat
    BY <1>4
  <2> HIDE DEF stops, ends
  <2>2. QED
    BY <2>1, FirstPlace
<1>7. PICK n \in 0 .. most :
         /\ n = length
         /\ \A k \in 1 .. n : k \notin stops
         /\ broken => n + 1 \in stops /\ \A k \in ends : n < k
         /\ ~broken /\ ends # {} => n \in ends /\ \A k \in ends : n <= k
         /\ ~broken /\ ends = {} => n = most
  <2> HIDE DEF stops, ends
  <2>1. CASE broken
    <3>1. PICK first \in 1 .. most : first = FirstOf(stops)
      BY <1>4, <1>6, <2>1
    <3>2. length = first - 1 /\ length \in 0 .. most
      BY <2>1, <3>1
    <3>3. \A k \in 1 .. first - 1 : k \notin stops
      BY <1>4, <1>6, <2>1, <3>1
    <3>4. \A k \in ends : first - 1 < k
      BY <1>4, <2>1, <3>1
    <3>5. first - 1 + 1 \in stops
      BY <1>6, <2>1, <3>1
    <3> HIDE DEF length, broken
    <3>6. QED
      BY <2>1, <3>2, <3>3, <3>4, <3>5
  <2>2. CASE ~broken /\ ends # {}
    <3>1. PICK first \in 0 .. most : first = FirstOf(ends)
      BY <1>4, <1>6, <2>2
    <3>2. length = first
      BY <2>2, <3>1
    <3>3. \A k \in 1 .. first : k \notin stops
      <4>1. CASE stops = {}
        BY <4>1
      <4>2. CASE stops # {}
        <5>1. PICK stop \in 1 .. most : stop = FirstOf(stops)
          BY <1>4, <1>6, <4>2
        <5>2. PICK k \in ends : ~(stop <= k)
          BY <2>2, <4>2, <5>1
        <5>3. first < stop
          BY <1>4, <1>6, <2>2, <3>1, <5>1, <5>2
        <5>4. \A j \in stops : stop <= j
          BY <1>6, <4>2, <5>1
        <5>5. QED
          BY <3>1, <5>3, <5>4
      <4>3. QED
        BY <4>1, <4>2
    <3>4. first \in ends /\ \A k \in ends : first <= k
      BY <1>6, <2>2, <3>1
    <3> HIDE DEF length, broken
    <3>5. QED
      BY <2>2, <3>2, <3>3, <3>4
  <2>3. CASE ~broken /\ ends = {}
    <3>1. stops = {}
      BY <2>3
    <3>2. length = most
      BY <1>3, <2>3
    <3> HIDE DEF length, broken
    <3>3. QED
      BY <2>3, <3>1, <3>2
  <2> HIDE DEF length, broken
  <2>4. QED
    BY <2>1, <2>2, <2>3
<1>8. n \in 0 .. Len(stream) /\ NoStatus(n)
  <2>1. ASSUME NEW k \in 1 .. n
        PROVE  IsData(stream[k]) \/ IsRealtime(stream[k])
    <3>1. k \notin stops
      BY <1>7
    <3>2. k \in 1 .. Len(stream)
      BY <1>3
    <3>3. QED
      BY <3>1, <3>2
  <2> HIDE DEF stops, ends, length, broken
  <2>2. QED
    BY <1>3, <2>1 DEF NoStatus
<1>9. PICK data \in Seq(Bytes), passed \in Seq(Seq(Bytes)) :
         data = DataBytes(n) /\ passed = Realtime(n)
  <2> HIDE DEF stops, ends, length, broken
  <2>1. QED
    BY <1>1, <1>8, BytesInTypes, RealtimeTypes DEF DataBytes
<1>10. PICK kept \in Seq(Bytes), out \in Seq(Seq(Bytes)),
            status \in {runningStatus} :
          /\ kept = streamBuffer \o data /\ out = received \o passed
          /\ status = runningStatus
  BY <1>1, InSuccession
<1>11. kept # <<>> /\ Head(kept) = Head(streamBuffer)
  BY <1>1, <1>10
<1>12. /\ Parsed(n)
       /\ \/ broken /\ streamBuffer' = <<>> /\ received' = out
          \/ /\ ~broken /\ ends # {}
             /\ streamBuffer' = <<>> /\ received' = Append(out, kept)
          \/ /\ ~broken /\ ends = {}
             /\ streamBuffer' = kept /\ received' = out
  <2> HIDE DEF stops, ends, length, broken
  <2>1. QED
    BY <1>2, <1>7, <1>9, <1>10
<1> HIDE DEF stops, length, broken
<1>13. ASSUME \A k \in ends : n < k
       PROVE  Bytewise!ReadBytes(n, FALSE) = Parse(kept, status, out)
  <2>1. \A k \in 0 .. n : k \in 0 .. Len(stream) /\ k \notin ends
    BY <1>3, <1>4, <1>13
  <2> HIDE DEF ends
  <2>2. Incomplete(n)
    BY <1>5, <2>1 DEF Incomplete
  <2>3. QED
    BY <1>1, <1>8, <1>9, <1>10, <2>2, DataCollected
<1> HIDE DEF ends
<1>14. CASE broken /\ streamBuffer' = <<>> /\ received' = out
  <2>1. Bytewise!ReadBytes(n, FALSE) = Parse(kept, status, out)
    BY <1>7, <1>13, <1>14
  <2>2. n < Len(stream) /\ Bytewise!IsStatus(stream[n + 1])
    <3>1. n + 1 \in 1 .. most /\ n + 1 \in stops
      BY <1>4, <1>7, <1>14
    <3>2. QED
      BY <1>3, <3>1 DEF stops, IsData, IsRealtime, Bytewise!IsStatus,
                        Bytewise!IsData, Bytewise!IsRealtime
  <2>3. ~Bytewise!Complete(kept)
    <3>1. n \notin ends
      BY <1>7, <1>14
    <3>2. QED
      BY <1>5, <1>8, <1>9, <1>10, <3>1
  <2>4. Head(kept) # Bytewise!SysEx
    BY <1>1, <1>11 DEF SYSEX, Bytewise!SysEx
  <2>5. Bytewise!BreaksOff(kept, stream[n + 1])
    BY <1>11, <2>2, <2>3, <2>4 DEF Bytewise!BreaksOff
  <2>6. FALSE \in BOOLEAN /\ runningStatus' = status
    BY <1>1, <1>10
  <2>7. QED
    BY <1>8, <1>12, <1>14, <2>1, <2>2, <2>5, <2>6, TurnReads
<1>15. CASE /\ ~broken /\ ends # {}
            /\ streamBuffer' = <<>> /\ received' = Append(out, kept)
  <2>1. n \in ends /\ \A k \in ends : n <= k
    BY <1>7, <1>15
  <2>2. Bytewise!Complete(kept)
    BY <1>5, <1>8, <1>9, <1>10, <2>1
  <2>3. CASE n = 0
    <3>1. data = <<>> /\ passed = <<>>
      BY <1>1, <1>9, <2>3, NoBytesYet
    <3>2. kept = streamBuffer /\ out = received
      BY <1>1, <1>10, <3>1
    <3>3. stream' = stream
      <4>1. stream' = SubSeq(stream, 1, Len(stream))
        BY <1>12, <2>3 DEF Parsed
      <4>2. QED
        BY <1>1, <4>1
    <3>4. Bytewise!PassOn
      BY <1>1, <1>15, <2>2, <3>2, <3>3 DEF Bytewise!PassOn
    <3>5. QED
      BY <3>4 DEF Bytewise!Next
  <2>4. CASE n # 0
    <3>1. PICK m \in 1 .. Len(stream) : m = n
      BY <1>8, <2>4
    <3>2. m - 1 \in 0 .. Len(stream)
      OBVIOUS
    <3>3. m - 1 \notin ends /\ \A k \in 0 .. m - 1 : k \notin ends
      BY <1>3, <1>4, <2>1, <3>1
    <3>4. stream[m] \in 0 .. 127
      <4>1. PICK b \in Bytes : b = stream[m]
        BY <1>1
      <4>2. IsData(b) \/ IsRealtime(b)
        <5>1. m \in 1 .. n
          BY <3>1
        <5>2. QED
          BY <1>8, <4>1, <5>1 DEF NoStatus
      <4>3. b \notin 248 .. 255
        <5>1. SUFFICES ASSUME stream[m] \in 248 .. 255
                       PROVE  FALSE
          BY <4>1
        <5>2. DataBytes(m) = DataBytes(m - 1)
          BY <1>1, <5>1, OneByteMore
        <5>3. m \in ends => m - 1 \in ends
          BY <3>2, <5>2 DEF ends
        <5>4. QED
          BY <2>1, <3>1, <3>3, <5>3
      <4>4. ~IsRealtime(b)
        BY <4>3 DEF IsRealtime, Bytes
      <4>5. b \in 0 .. 127
        BY <4>2, <4>4 DEF IsData, Bytes
      <4>6. QED
        BY <4>1, <4>5
    <3>5. NoStatus(m - 1)
      <4>1. \A k \in 1 .. m - 1 : k \in 1 .. n
        BY <3>1
      <4>2. QED
        BY <1>8, <4>1 DEF NoStatus
    <3>6. Incomplete(m - 1)
      <4>1. \A k \in 0 .. m - 1 : k \in 0 .. Len(stream)
        OBVIOUS
      <4>2. QED
        BY <1>5, <3>3, <4>1 DEF Incomplete
    <3>7. Bytewise!Complete(streamBuffer \o DataBytes(m))
      BY <1>9, <1>10, <2>2, <3>1
    <3>8. Bytewise!ReadBytes(m, FALSE)
            = Parse(Nothing, runningStatus,
                    PassedOn(received \o Realtime(m),
                             streamBuffer \o DataBytes(m)))
      BY <1>1, <3>4, <3>5, <3>6, <3>7, DataCompleted
    <3>9. PICK all : all = PassedOn(out, kept)
      OBVIOUS
    <3>10. Bytewise!ReadBytes(n, FALSE) = Parse(Nothing, status, all)
      BY <1>9, <1>10, <3>1, <3>8, <3>9
    <3>11. /\ received' = all /\ runningStatus' = status
           /\ streamBuffer' = Nothing /\ FALSE \in BOOLEAN
      BY <1>1, <1>10, <1>15, <3>9 DEF PassedOn, Nothing
    <3>12. Bytewise!Saturated(Nothing) = Nothing
      BY NothingIsNotCutOff
    <3>13. QED
      BY <1>8, <1>12, <3>10, <3>11, <3>12, TurnReads
  <2>5. QED
    BY <2>3, <2>4
<1>16. CASE /\ ~broken /\ ends = {}
            /\ streamBuffer' = kept /\ received' = out
  <2>1. Bytewise!ReadBytes(n, FALSE) = Parse(kept, status, out)
    BY <1>13, <1>16
  <2>2. Len(kept) <= MaxSize
    <3>1. ParserInv'
      BY DataBytesKeepInv
    <3>2. /\ streamBufferCapacity' \in Capacity .. MaxSize
          /\ Len(kept) <= streamBufferCapacity'
      BY <1>16, <3>1 DEF ParserInv, ParserTypeOK
    <3>3. PICK size \in Nat : size = Len(kept)
      OBVIOUS
    <3>4. QED
      BY <3>2, <3>3, ParserAssumption
  <2>3. Bytewise!Saturated(kept) = kept
    BY <2>2, NotCutOff
  <2>4. FALSE \in BOOLEAN /\ runningStatus' = status
    BY <1>1, <1>10
  <2>5. QED
    BY <1>8, <1>12, <1>16, <2>1, <2>3, <2>4, TurnReads
<1>17. QED
  BY <1>12, <1>14, <1>15, <1>16

\* The first byte of some kind in the stream, or the place behind its end.
LEMMA PlaceOfStop ==
    ASSUME NEW most \in Nat, NEW S, S \subseteq 1 .. most
    PROVE  \E stop \in 1 .. most + 1 :
              /\ stop = IF S = {} THEN most + 1 ELSE FirstOf(S)
              /\ S = {} => stop = most + 1
              /\ S # {} => stop \in S
              /\ \A k \in 1 .. stop - 1 : k \notin S
<1>1. CASE S = {}
  BY <1>1
<1>2. CASE S # {}
  <2>1. FirstOf(S) \in S /\ \A k \in S : FirstOf(S) <= k
    <3>1. S \subseteq Nat
      OBVIOUS
    <3>2. QED
      BY <1>2, <3>1, FirstPlace
  <2>2. PICK first \in 1 .. most : first = FirstOf(S)
    BY <2>1
  <2>3. \A k \in 1 .. first - 1 : k \notin S
    BY <2>1, <2>2
  <2>4. QED
    BY <1>2, <2>1, <2>2, <2>3
<1>3. QED
  BY <1>1, <1>2

\* A system exclusive message that begins: it is read to its end, broken off, or
\* kept as far as it goes.
LEMMA SysexImplements ==
    ASSUME ParserInv, FirstPartsFit, ParseSysex
    PROVE  Bytewise!Next
<1> DEFINE stops == {k \in 2 .. Len(stream) : ~IsData(stream[k])}
           stop == IF stops = {} THEN Len(stream) + 1 ELSE FirstOf(stops)
           length == stop - 1
<1>1. /\ stream \in Seq(Bytes) /\ stream # <<>> /\ ReadFrom
      /\ streamBuffer = <<>> /\ Head(stream) = SYSEX
      /\ received \in Seq(Seq(Bytes)) /\ runningStatus' = 0
  BY ParserTypes DEF ParserInv, ParseSysex, Parsing
<1>2. \/ /\ stops # {} /\ stream[stop] = END_OF_SYSEX
         /\ received' = Append(received, SubSeq(stream, 1, stop))
         /\ Parsed(stop)
         /\ UNCHANGED <<streamBuffer, streamBufferCapacity>>
      \/ /\ stops # {} /\ stream[stop] \in 128 .. 246
         /\ Parsed(length)
         /\ UNCHANGED <<streamBuffer, streamBufferCapacity, received>>
      \/ /\ stops # {} => IsRealtime(stream[stop])
         /\ Parsed(length)
         /\ streamBuffer' = IF streamBufferCapacity < MaxSize
                            THEN SubSeq(stream, 1, length)
                            ELSE SubSeq(stream, 1, Shorter(length))
         /\ UNCHANGED received
  BY DEF ParseSysex
<1>3. PICK most \in Nat \ {0} : most = Len(stream)
  BY <1>1
<1>4. PICK e \in 1 .. most + 1 :
         /\ e = stop
         /\ stops = {} => e = most + 1
         /\ stops # {} => e \in stops
         /\ \A k \in 1 .. e - 1 : k \notin stops
  <2>1. stops \subseteq 1 .. most
    BY <1>3
  <2>2. stop = IF stops = {} THEN most + 1 ELSE FirstOf(stops)
    BY <1>3
  <2> HIDE DEF stops, stop
  <2>3. PICK S : S = stops
    OBVIOUS
  <2>4. \E k \in 1 .. most + 1 :
           /\ k = IF S = {} THEN most + 1 ELSE FirstOf(S)
           /\ S = {} => k = most + 1
           /\ S # {} => k \in S
           /\ \A j \in 1 .. k - 1 : j \notin S
    <3>1. S \subseteq 1 .. most
      BY <2>1, <2>3
    <3>2. most \in Nat
      OBVIOUS
    <3>3. QED
      BY <3>1, <3>2, PlaceOfStop, Zenon
  <2>5. QED
    BY <2>2, <2>3, <2>4
<1>5. PICK n \in 1 .. Len(stream) : n = e - 1 /\ n = length
  <2>1. stops \subseteq 2 .. most
    BY <1>3
  <2> HIDE DEF stops, stop
  <2>2. e - 1 \in 1 .. most
    BY <1>3, <1>4, <2>1
  <2>3. length = e - 1
    BY <1>4
  <2>4. QED
    BY <1>3, <2>2, <2>3
<1>6. DataFollow(n)
  <2>1. ASSUME NEW k \in 2 .. n
        PROVE  IsData(stream[k])
    <3>1. k \in 2 .. Len(stream) /\ k \in 1 .. e - 1
      BY <1>5
    <3>2. k \notin stops
      BY <1>4, <3>1
    <3>3. QED
      BY <3>1, <3>2
  <2>2. QED
    BY <2>1 DEF DataFollow
<1>7. /\ stops # {} => e \in 1 .. Len(stream) /\ e = n + 1
      /\ stops = {} => n = Len(stream)
  <2>1. stops \subseteq 1 .. most
    BY <1>3
  <2> HIDE DEF stops, stop, length
  <2>2. QED
    BY <1>3, <1>4, <1>5, <2>1
<1> HIDE DEF length, stop, stops
<1>8. stream[1] = SYSEX
  BY <1>1
<1>9. PICK kept \in Seq(Bytes) :
         /\ kept = SubSeq(stream, 1, n)
         /\ Len(kept) = n /\ kept # <<>> /\ kept[1] = SYSEX
  <2>1. /\ SubSeq(stream, 1, n) \in Seq(Bytes)
        /\ Len(SubSeq(stream, 1, n)) = n
        /\ SubSeq(stream, 1, n)[1] = stream[1]
    BY <1>1
  <2>2. PICK part \in Seq(Bytes) :
           /\ part = SubSeq(stream, 1, n) /\ Len(part) = n
           /\ part[1] = SYSEX
    BY <1>8, <2>1
  <2>3. part # <<>>
    BY <2>2
  <2>4. QED
    BY <2>2, <2>3
<1>10. PICK out \in Seq(Seq(Bytes)), status \in {runningStatus'} :
          out = received /\ status = 0
  BY <1>1
<1>11. ASSUME NEW whole
       PROVE  Bytewise!ReadBytes(n, whole) = Parse(kept, status, out)
  <2>1. Bytewise!ReadBytes(n, whole)
          = Parse(SubSeq(stream, 1, n), 0, received)
    BY <1>1, <1>6, <1>8, SysexCollected
  <2>2. QED
    BY <1>9, <1>10, <2>1
<1>12. runningStatus' = status /\ n \in 0 .. Len(stream)
  BY <1>1, <1>10
<1>13. CASE /\ stops # {} /\ stream[stop] = END_OF_SYSEX
            /\ received' = Append(received, SubSeq(stream, 1, stop))
            /\ Parsed(stop)
            /\ UNCHANGED <<streamBuffer, streamBufferCapacity>>
  <2>1. PICK m \in 1 .. Len(stream) : m = e /\ m - 1 = n /\ m = stop
    BY <1>4, <1>7, <1>13
  <2>2. IsSysex(kept)
    BY <1>9 DEF IsSysex
  <2>3. Bytewise!ReadBytes(m - 1, TRUE) = Parse(kept, status, out)
    BY <1>11, <2>1
  <2>4. stream[m] = END_OF_SYSEX
    BY <1>13, <2>1
  <2>5. Bytewise!ReadBytes(m, TRUE)
          = Parse(Nothing, status, PassedOn(out, Joined(kept, END_OF_SYSEX)))
    <3>1. PICK w : w = TRUE /\ Passes(kept, w)
      BY Zenon DEF Passes
    <3>2. Bytewise!ReadBytes(m - 1, w) = Parse(kept, status, out)
      BY <1>11, <2>1
    <3>3. Bytewise!ReadBytes(m, w) =
             Parse(Nothing, status, PassedOn(out, Joined(kept, END_OF_SYSEX)))
      <4>1. stream \in Seq(Bytes) /\ Passes(kept, w)
        BY <1>1, <3>1
      <4>2. QED
        BY <2>2, <2>4, <3>2, <4>1, ReadsEnd
    <3>4. QED
      BY <3>1, <3>3, Zenon
  <2>6. Joined(kept, END_OF_SYSEX) = SubSeq(stream, 1, m)
    BY <1>1, <1>9, <2>1, <2>4 DEF Joined
  <2>7. PICK all : all = PassedOn(out, Joined(kept, END_OF_SYSEX))
    OBVIOUS
  <2>8. Bytewise!ReadBytes(m, TRUE) = Parse(Nothing, status, all)
    BY <2>5, <2>7
  <2>9. received' = all
    BY <1>10, <1>13, <2>1, <2>6, <2>7 DEF PassedOn
  <2>10. /\ m \in 0 .. Len(stream) /\ TRUE \in BOOLEAN /\ Parsed(m)
         /\ streamBuffer' = Nothing
    BY <1>1, <1>13, <2>1 DEF Nothing
  <2>11. Len(streamBuffer) < MaxSize
    <3>1. Len(streamBuffer) = 0
      BY <1>1
    <3>2. QED
      BY <3>1, ParserAssumption
  <2>12. QED
    BY <1>12, <2>8, <2>9, <2>10, <2>11, NothingIsNotCutOff, TurnReads
<1>14. CASE /\ stops # {} /\ stream[stop] \in 128 .. 246
            /\ Parsed(length)
            /\ UNCHANGED <<streamBuffer, streamBufferCapacity, received>>
  <2>1. n < Len(stream) /\ stream[n + 1] \in 128 .. 246
    <3>1. e = n + 1 /\ e \in 1 .. Len(stream)
      BY <1>7, <1>14
    <3>2. stream[e] \in 128 .. 246
      BY <1>4, <1>14
    <3>3. n < Len(stream)
      BY <3>1
    <3>4. QED
      BY <3>1, <3>2, <3>3
  <2>2. Bytewise!IsStatus(stream[n + 1])
        /\ stream[n + 1] # Bytewise!EndOfSysEx
    <3>1. PICK b \in 128 .. 246 : b = stream[n + 1]
      BY <2>1
    <3>2. Bytewise!IsStatus(b) /\ b # Bytewise!EndOfSysEx
      BY DEF Bytewise!IsStatus, Bytewise!IsData, Bytewise!IsRealtime,
             Bytewise!EndOfSysEx
    <3>3. QED
      BY <3>1, <3>2
  <2>3. ~Bytewise!Complete(kept)
    BY <1>9 DEF Bytewise!Complete, Bytewise!SysEx, SYSEX
  <2>4. Bytewise!BreaksOff(kept, stream[n + 1])
    BY <1>9, <2>2, <2>3 DEF Bytewise!BreaksOff
  <2>5. /\ Parsed(n) /\ received' = out /\ streamBuffer' = <<>>
        /\ FALSE \in BOOLEAN
    BY <1>1, <1>5, <1>10, <1>14
  <2>6. QED
    BY <1>11, <1>12, <2>1, <2>4, <2>5, TurnReads
<1>15. CASE /\ stops # {} => IsRealtime(stream[stop])
            /\ Parsed(length)
            /\ streamBuffer' = IF streamBufferCapacity < MaxSize
                               THEN SubSeq(stream, 1, length)
                               ELSE SubSeq(stream, 1, Shorter(length))
            /\ UNCHANGED received
  <2>1. n = Len(stream) \/ IsRealtime(stream[n + 1])
    BY <1>4, <1>7, <1>15
  <2>2. \A k \in 2 .. n : IsData(stream[k])
    BY <1>6 DEF DataFollow
  <2>3. n <= MaxSize
    BY <1>1, <2>1, <2>2, FirstPartIsShort
  <2>4. Shorter(n) = n
    <3>1. n \in Nat
      OBVIOUS
    <3>2. QED
      BY <2>3, <3>1, ParserAssumption DEF Shorter
  <2>5. streamBuffer' = kept
    BY <1>5, <1>9, <1>15, <2>4
  <2>6. Bytewise!Saturated(kept) = kept
    BY <1>9, <2>3, NotCutOff
  <2>7. Parsed(n) /\ received' = out /\ FALSE \in BOOLEAN
    BY <1>5, <1>10, <1>15
  <2>8. QED
    BY <1>11, <1>12, <2>5, <2>6, <2>7, TurnReads
<1>16. QED
  BY <1>2, <1>13, <1>14, <1>15

\* A further part of a system exclusive message: it is read to its end and passed
\* on if it fits, broken off, or kept as far as it fits.
LEMMA SysexFragmentImplements ==
    ASSUME ParserInv, ParseSysexFragment
    PROVE  Bytewise!Next
<1> DEFINE stops == {k \in 1 .. Len(stream) : stream[k] \in 128 .. 247}
           stop == IF stops = {} THEN Len(stream) + 1 ELSE FirstOf(stops)
           ends == stops # {} /\ stream[stop] = END_OF_SYSEX
           bytes == streamBuffer \o DataBytes(stop - 1)
                                 \o (IF ends THEN <<END_OF_SYSEX>> ELSE <<>>)
           capacity == GrownFor(Len(bytes))
<1>1. /\ stream \in Seq(Bytes) /\ stream # <<>>
      /\ streamBuffer \in Seq(Bytes) /\ streamBuffer # <<>>
      /\ Head(streamBuffer) = SYSEX /\ received \in Seq(Seq(Bytes))
      /\ streamBufferCapacity \in Capacity .. MaxSize
      /\ runningStatus' = runningStatus
  BY ParserTypes DEF ParseSysexFragment, Parsing
<1>2. \/ /\ ends /\ Parsed(stop) /\ streamBuffer' = <<>>
         /\ received' = received \o Realtime(stop - 1)
                        \o (IF Len(bytes) <= capacity THEN <<bytes>>
                                                      ELSE <<>>)
      \/ /\ ~ends /\ Parsed(stop - 1)
         /\ received' = received \o Realtime(stop - 1)
         /\ streamBuffer' =
              IF stops # {} THEN <<>>
              ELSE SubSeq(bytes, 1, IF Len(bytes) < capacity
                                    THEN Len(bytes) ELSE capacity)
  BY DEF ParseSysexFragment
<1>3. PICK most \in Nat \ {0} : most = Len(stream)
  <2>1. Len(stream) \in Nat \ {0}
    BY <1>1
  <2>2. QED
    BY <2>1
<1>4. PICK e \in 1 .. most + 1 :
         /\ e = stop
         /\ stops = {} => e = most + 1
         /\ stops # {} => e \in stops
         /\ \A k \in 1 .. e - 1 : k \notin stops
  <2>1. stop = IF stops = {} THEN most + 1 ELSE FirstOf(stops)
    BY <1>3
  <2>2. PICK S : S = stops
    OBVIOUS
  <2>3. S \subseteq 1 .. most /\ most \in Nat
    BY <1>3, <2>2
  <2> HIDE DEF stops, stop
  <2>4. \E k \in 1 .. most + 1 :
           /\ k = IF S = {} THEN most + 1 ELSE FirstOf(S)
           /\ S = {} => k = most + 1
           /\ S # {} => k \in S
           /\ \A j \in 1 .. k - 1 : j \notin S
    BY <2>3, PlaceOfStop, Zenon
  <2>5. QED
    BY <2>1, <2>2, <2>4
<1>5. PICK n \in 0 .. Len(stream) : n = e - 1
  BY <1>3
<1>6. NoStatus(n)
  <2>1. ASSUME NEW k \in 1 .. n
        PROVE  IsData(stream[k]) \/ IsRealtime(stream[k])
    <3>1. k \in 1 .. Len(stream) /\ k \in 1 .. e - 1
      BY <1>5
    <3>2. k \notin stops
      BY <1>4, <3>1
    <3>3. PICK b \in Bytes : b = stream[k]
      BY <1>1, <3>1
    <3>4. b \notin 128 .. 247
      BY <3>1, <3>2, <3>3
    <3>5. IsData(b) \/ IsRealtime(b)
      BY <3>4 DEF Bytes, IsData, IsRealtime
    <3>6. QED
      BY <3>3, <3>5
  <2>2. QED
    BY <2>1 DEF NoStatus
<1>7. /\ stops # {} => /\ e \in 1 .. Len(stream) /\ e - 1 = n
                       /\ stream[e] \in 128 .. 247
      /\ stops = {} => n = Len(stream)
  <2>1. e \in stops => e \in 1 .. Len(stream) /\ stream[e] \in 128 .. 247
    OBVIOUS
  <2> HIDE DEF stops, stop
  <2>2. stops # {} => e \in 1 .. Len(stream) /\ stream[e] \in 128 .. 247
    BY <1>4, <2>1
  <2>3. e - 1 = n
    BY <1>5
  <2>4. stops = {} => n = Len(stream)
    BY <1>3, <1>4, <1>5
  <2>5. QED
    BY <2>2, <2>3, <2>4
<1> HIDE DEF stops, stop
<1>8. PICK data \in Seq(Bytes), passed \in Seq(Seq(Bytes)) :
         data = DataBytes(n) /\ passed = Realtime(n)
  BY <1>1, BytesInTypes, RealtimeTypes DEF DataBytes
<1>9. PICK kept \in Seq(Bytes), out \in Seq(Seq(Bytes)),
           status \in {runningStatus} :
          /\ kept = streamBuffer \o data /\ out = received \o passed
          /\ status = runningStatus
  BY <1>1, InSuccession
<1>10. kept # <<>> /\ kept[1] = SYSEX /\ Len(streamBuffer) <= Len(kept)
  <2>1. PICK first \in Seq(Bytes) : first = streamBuffer /\ first # <<>>
    BY <1>1
  <2>2. /\ first \o data # <<>> /\ (first \o data)[1] = Head(first)
        /\ Len(first) <= Len(first \o data)
    BY <2>1
  <2>3. QED
    BY <1>1, <1>9, <2>1, <2>2
<1>11. Bytewise!ReadBytes(n, FALSE) = Parse(kept, status, out)
  <2>1. ASSUME NEW k \in 0 .. n
        PROVE  ~Bytewise!Complete(streamBuffer \o DataBytes(k))
    <3>1. PICK first \in Seq(Bytes) : first = streamBuffer /\ first # <<>>
      BY <1>1
    <3>2. PICK part \in Seq(Bytes) : part = DataBytes(k)
      <4>1. k \in 0 .. Len(stream)
        BY <1>5
      <4>2. QED
        BY <1>1, <4>1, BytesInTypes DEF DataBytes
    <3>3. PICK joined \in Seq(Bytes) : joined = first \o part
      BY InSuccession
    <3>4. joined[1] = SYSEX
      BY <1>1, <3>1, <3>3
    <3>5. ~Bytewise!Complete(joined)
      BY <3>4 DEF Bytewise!Complete, Bytewise!SysEx, SYSEX
    <3>6. QED
      BY <3>1, <3>2, <3>3, <3>5
  <2>2. Incomplete(n)
    BY <2>1 DEF Incomplete
  <2>3. QED
    BY <1>1, <1>6, <1>8, <1>9, <2>2, DataCollected
<1>12. stop - 1 = n /\ runningStatus' = status /\ FALSE \in BOOLEAN
  BY <1>1, <1>4, <1>5, <1>9
<1>13. CASE /\ ends /\ Parsed(stop) /\ streamBuffer' = <<>>
            /\ received' = received \o Realtime(stop - 1)
                           \o (IF Len(bytes) <= capacity THEN <<bytes>>
                                                         ELSE <<>>)
  <2>1. PICK m \in 1 .. Len(stream) : m = e /\ m - 1 = n
    BY <1>7, <1>13
  <2>2. stream[m] = END_OF_SYSEX
    BY <1>4, <1>13, <2>1
  <2>3. PICK last \in Bytes : last = END_OF_SYSEX
    BY DEF END_OF_SYSEX, Bytes
  <2>4. PICK all \in Seq(Bytes) : /\ all = Append(kept, last)
                                  /\ Len(all) = Len(kept) + 1
    <3>1. /\ Append(kept, last) \in Seq(Bytes)
          /\ Len(Append(kept, last)) = Len(kept) + 1
      OBVIOUS
    <3> HIDE DEF bytes, capacity, ends
    <3>2. QED
      BY <3>1, Zenon
  <2>5. bytes = all
    <3>1. bytes = kept \o <<last>>
      BY <1>8, <1>9, <1>12, <1>13, <2>3
    <3>2. kept \o <<last>> = Append(kept, last)
      OBVIOUS
    <3>3. QED
      BY <2>4, <3>1, <3>2
  <2>6. PICK size \in Nat : size = Len(kept)
    OBVIOUS
  <2>7. Len(bytes) <= capacity <=> size < MaxSize
    <3>1. PICK asked \in Nat : asked = size + 1
      OBVIOUS
    <3>2. Len(bytes) = asked
      BY <2>4, <2>5, <2>6, <3>1
    <3>3. capacity = GrownFor(asked)
      BY <3>2
    <3>4. /\ GrownFor(asked) \in Capacity .. MaxSize
          /\ asked <= MaxSize => asked <= GrownFor(asked)
      BY <1>1, GrownCapacity
    <3> HIDE DEF bytes, capacity
    <3>5. PICK room \in Nat : room = GrownFor(asked) /\ room <= MaxSize
      BY <3>4, ParserAssumption
    <3>6. QED
      BY <2>6, <3>1, <3>2, <3>3, <3>4, <3>5, ParserAssumption
  <2>8. received' = IF size < MaxSize THEN Append(out, all) ELSE out
    <3> HIDE DEF bytes, capacity
    <3>1. received' = out \o (IF size < MaxSize THEN <<all>> ELSE <<>>)
      BY <1>8, <1>9, <1>12, <1>13, <2>5, <2>7
    <3>2. out \o <<all>> = Append(out, all) /\ out \o <<>> = out
      OBVIOUS
    <3>3. QED
      BY <3>1, <3>2
  <2> HIDE DEF bytes, capacity, ends
  <2>9. PICK more : more = PassedOn(out, Joined(kept, END_OF_SYSEX))
    OBVIOUS
  <2>10. more = Append(out, all)
    BY <2>3, <2>4, <2>9 DEF PassedOn, Joined
  <2>11. IsSysex(kept)
    BY <1>10 DEF IsSysex
  <2>12. Bytewise!ReadBytes(m - 1, FALSE) = Parse(kept, status, out)
    BY <1>11, <2>1
  <2>13. /\ Passes(kept, FALSE) =>
               Bytewise!ReadBytes(m, FALSE) = Parse(Nothing, status, more)
         /\ ~Passes(kept, FALSE) =>
               Bytewise!ReadBytes(m, FALSE) = Parse(Nothing, status, out)
    <3>1. PICK w : w = FALSE
      OBVIOUS
    <3>2. stream \in Seq(Bytes) /\ Bytewise!ReadBytes(m - 1, w)
                                     = Parse(kept, status, out)
      BY <1>1, <2>12, <3>1
    <3>3. /\ Passes(kept, w) =>
               Bytewise!ReadBytes(m, w)
                 = Parse(Nothing, status,
                         PassedOn(out, Joined(kept, END_OF_SYSEX)))
          /\ ~Passes(kept, w) =>
               Bytewise!ReadBytes(m, w) = Parse(Nothing, status, out)
      BY <2>2, <2>11, <3>2, ReadsEnd
    <3>4. QED
      BY <2>9, <3>1, <3>3
  <2>14. Passes(kept, FALSE) <=> size < MaxSize
    BY <2>6 DEF Passes
  <2>15. PICK given : given = received'
    OBVIOUS
  <2>16. Bytewise!ReadBytes(m, FALSE) = Parse(Nothing, status, given)
    <3>1. CASE size < MaxSize
      BY <2>8, <2>10, <2>13, <2>14, <2>15, <3>1
    <3>2. CASE ~(size < MaxSize)
      BY <2>8, <2>13, <2>14, <2>15, <3>2
    <3>3. QED
      BY <3>1, <3>2
  <2>17. m \in 0 .. Len(stream) /\ Parsed(m) /\ streamBuffer' = Nothing
    BY <1>4, <1>13, <2>1 DEF Nothing
  <2>18. QED
    BY <1>12, <2>15, <2>16, <2>17, NothingIsNotCutOff, TurnReads
<1>14. CASE /\ ~ends /\ Parsed(stop - 1) /\ stops # {}
            /\ received' = received \o Realtime(stop - 1)
            /\ streamBuffer' = <<>>
  <2>1. n < Len(stream) /\ Bytewise!IsStatus(stream[n + 1])
        /\ stream[n + 1] # Bytewise!EndOfSysEx
    <3>1. e = n + 1 /\ n < Len(stream)
      BY <1>5, <1>7, <1>14
    <3>2. stream[e] \in 128 .. 247 /\ stream[e] # END_OF_SYSEX
      BY <1>4, <1>7, <1>14
    <3>3. PICK b \in 128 .. 247 : b = stream[n + 1] /\ b # END_OF_SYSEX
      BY <3>1, <3>2
    <3>4. Bytewise!IsStatus(b)
      BY DEF Bytewise!IsStatus, Bytewise!IsData, Bytewise!IsRealtime
    <3>5. b # Bytewise!EndOfSysEx
      BY <3>3 DEF Bytewise!EndOfSysEx, END_OF_SYSEX
    <3>6. QED
      BY <3>1, <3>3, <3>4, <3>5
  <2>2. ~Bytewise!Complete(kept)
    BY <1>10 DEF Bytewise!Complete, Bytewise!SysEx, SYSEX
  <2>3. Bytewise!BreaksOff(kept, stream[n + 1])
    BY <1>10, <2>1, <2>2 DEF Bytewise!BreaksOff
  <2>4. Parsed(n) /\ received' = out
    BY <1>8, <1>9, <1>12, <1>14
  <2>5. QED
    BY <1>11, <1>12, <1>14, <2>1, <2>3, <2>4, TurnReads
<1>15. CASE /\ ~ends /\ Parsed(stop - 1) /\ stops = {}
            /\ received' = received \o Realtime(stop - 1)
            /\ streamBuffer' = SubSeq(bytes, 1, IF Len(bytes) < capacity
                                                THEN Len(bytes) ELSE capacity)
  <2>1. bytes = kept
    <3>1. bytes = kept \o <<>>
      BY <1>8, <1>9, <1>12, <1>15
    <3>2. QED
      BY <3>1
  <2>2. PICK size \in Nat : size = Len(kept)
    OBVIOUS
  <2>3. capacity = GrownFor(size)
    BY <2>1, <2>2
  <2>4. /\ GrownFor(size) \in Capacity .. MaxSize
        /\ size <= MaxSize => size <= GrownFor(size)
        /\ size > streamBufferCapacity => GrownFor(size) = MaxSize
    BY <1>1, GrownCapacity
  <2>5. (IF Len(bytes) < capacity THEN Len(bytes) ELSE capacity)
          = IF Len(kept) < MaxSize THEN Len(kept) ELSE MaxSize
    <3> HIDE DEF bytes, capacity
    <3>1. PICK room \in Nat : room = GrownFor(size) /\ room <= MaxSize
      BY <2>4, ParserAssumption
    <3>2. size > MaxSize => room = MaxSize
      BY <1>1, <2>4, <3>1, ParserAssumption
    <3>3. (IF size < room THEN size ELSE room)
             = IF size < MaxSize THEN size ELSE MaxSize
      BY <2>4, <3>1, <3>2, ParserAssumption
    <3>4. QED
      BY <2>1, <2>2, <2>3, <3>1, <3>3
  <2>6. streamBuffer' = Bytewise!Saturated(kept)
    BY <1>15, <2>1, <2>5 DEF Bytewise!Saturated
  <2>7. Parsed(n) /\ received' = out
    BY <1>8, <1>9, <1>12, <1>15
  <2> HIDE DEF bytes, capacity, ends
  <2>8. QED
    BY <1>11, <1>12, <2>6, <2>7, TurnReads
<1>16. QED
  <2> HIDE DEF bytes, capacity, ends
  <2>1. QED
    BY <1>2, <1>13, <1>14, <1>15

\* Every step is one of MidiStream, or changes nothing.
LEMMA TurnsImplement ==
    ASSUME FirstPartsFit
    PROVE  ParserInv /\ [ParserNext]_parserVars
             => [Bytewise!Next]_(Bytewise!vars)
<1> SUFFICES ASSUME ParserInv, [ParserNext]_parserVars
             PROVE  [Bytewise!Next]_(Bytewise!vars)
  OBVIOUS
<1>1. CASE UNCHANGED parserVars
  BY <1>1 DEF parserVars, Bytewise!vars
<1>2. CASE ParserNext
  <2>1. Bytewise!Next
    BY <1>2, ParseStreamImplements, HandleRealtimeImplements,
       StatusImplements, DataBytesImplement, SysexImplements,
       SysexFragmentImplements, ProcessShortMessageImplements DEF ParserNext
  <2>2. QED
    BY <2>1
<1>3. QED
  BY <1>1, <1>2

\* What the parser passes on is what reading the stream byte by byte yields, in
\* order, however it is divided into calls and whatever splits a message: if no
\* first part of a message that is longer than the largest buffer comes alone.
THEOREM MessagesSurviveFragments ==
    ASSUME FirstPartsFit
    PROVE  ParserSpec => ParsesStream
<1>1. ParserInit => Bytewise!Init
  BY DEF ParserInit, Bytewise!Init
<1>2. QED
  BY <1>1, ParserInvInit, ParserInvInductive, TurnsImplement, PTL
     DEF ParserSpec, ParsesStream, Bytewise!Spec
=============================================================================
