------------------------------- MODULE Pit8254 -------------------------------
(***************************************************************************)
(* The interval timer of the card: class PIT_8254 with the scheduling of   *)
(* timer events that IMFC_PIT adds.  Counters 0 and 1 are the timers A and *)
(* B, counter 2 clocks timer B.                                            *)
(*                                                                         *)
(* A count consists of two bytes, digits to the base Base; counting in BCD *)
(* is left out.  So is time: a count that is latched is any of Samples, an *)
(* output that depends on the time is high or low, and a pending event may *)
(* fire at any moment.  What nothing will read again is cleared in         *)
(* write_latch and the latched status.                                     *)
(*                                                                         *)
(* The class offers gates, which neither the card nor its software moves;  *)
(* while a gate is closed no count is latched.  Which counters a program   *)
(* uses, and how, is settled at the beginning.                             *)
(***************************************************************************)
EXTENDS Naturals, Sequences

CONSTANTS
    Base,               \* values of a byte: 256 in the code
    Samples,            \* bound: counts that may be latched
    Fresh,              \* bound: what new_mode may be in fresh memory
    Programs            \* bound: what a program does with the counters

Counters == 0 .. 2
Timers == {0, 1}
LSB == 1
MSB == 2
Both == 3               \* the LSB, then the MSB
BothSecond == 0         \* the MSB of a pair is next

ASSUME PitAssumption ==
    /\ Fresh \subseteq [Counters -> BOOLEAN]
    /\ Base \in Nat /\ Base > 1
    /\ Samples \subseteq 1 .. Base * Base - 1
    /\ Programs \subseteq
         [bytes : [Counters -> SUBSET (0 .. Base - 1)],     \* that it writes
          words : SUBSET [counter : Counters, access : {LSB, MSB, Both},
                          mode : 0 .. 5],
          readBacks : SUBSET ((SUBSET Counters) \ {{}}),
          reads : SUBSET Counters,       \* whose counts it latches and reads
          gates : SUBSET Counters]

VARIABLES
    program,            \* the program that runs
    pit,                \* the three PIT_Blocks
    latched_timerstatus,
    latched_timerstatus_locked,
    events,             \* how many events of each timer the PIC has pending
    timedBy,            \* the counter whose delay the last of them was given
    written,            \* ghost: what was written since the control word
    half,               \* ghost: the count whose LSB was read
    torn                \* ghost: an MSB was read of another count

statusVars == <<latched_timerstatus, latched_timerstatus_locked>>
eventVars == <<events, timedBy>>
ghostVars == <<written, half, torn>>
vars == <<program, pit, statusVars, eventVars, ghostVars>>

Nobody == 3
NoStatus == [of |-> Nobody, mode |-> 0]
Unread == 0

\* What the constructor leaves uninitialised does not matter before a control
\* word sets it, but for new_mode.
Init ==
    /\ \E fresh \in Fresh :
         pit = [c \in Counters |->
                  [cntr |-> Base * Base, delay |-> Base * Base,
                   read_latch |-> Unread, write_latch |-> 0,
                   mode |-> IF c = 2 THEN 3 ELSE 2,
                   read_state |-> IF c = 1 THEN LSB ELSE Both,
                   write_state |-> Both, go_read_latch |-> TRUE,
                   new_mode |-> fresh[c], counterstatus_set |-> FALSE,
                   counting |-> FALSE, update_count |-> FALSE,
                   gate |-> FALSE]]
    /\ program \in Programs
    /\ latched_timerstatus = NoStatus
    /\ latched_timerstatus_locked = FALSE
    /\ events = [t \in Timers |-> 1]
    /\ timedBy = [t \in Timers |-> t]
    /\ written = [c \in Counters |-> [access |-> Both, bytes |-> <<>>]]
    /\ half = [c \in Counters |-> Unread]
    /\ torn = FALSE

-----------------------------------------------------------------------------
(* Outputs and latches *)

\* counter_output()
Outputs(p) ==
    IF p.mode \notin {0, 2, 3} THEN {TRUE}
    ELSE IF p.new_mode THEN {p.mode # 0}
    ELSE BOOLEAN

\* counter_latch() when the count is s.  A closed gate keeps what was latched
\* before.
Latched(p, s) ==
    [p EXCEPT !.go_read_latch = FALSE,
              !.read_latch = IF \/ ~p.gate /\ p.mode # 1
                                \/ p.mode = 1 /\ ~p.counting /\ ~p.new_mode
                             THEN @ ELSE s]

ReadsAnew(C) ==
    /\ half' = [c \in Counters |-> IF c \in C THEN Unread ELSE half[c]]
    /\ UNCHANGED torn

LatchCommand(c) ==
    /\ \E s \in Samples : pit' = [pit EXCEPT ![c] = Latched(@, s)]
    /\ ReadsAnew({c})
    /\ UNCHANGED <<program, statusVars, eventVars, written>>

Unlocks ==
    /\ latched_timerstatus' = NoStatus
    /\ latched_timerstatus_locked' = FALSE

\* Mutant: a status replaces one that was not read yet.
StatusReplaced(blocks, c) ==
    /\ pit' = [blocks EXCEPT ![c].counterstatus_set = TRUE]
    /\ latched_timerstatus' = [of |-> c, mode |-> blocks[c].mode]
    /\ latched_timerstatus_locked' = TRUE

\* status_latch(): one latch serves all counters.
StatusLatch(blocks, c) ==
    IF latched_timerstatus_locked
    THEN pit' = blocks /\ UNCHANGED statusVars
    ELSE /\ pit' = [blocks EXCEPT ![c].counterstatus_set = TRUE]
         /\ latched_timerstatus' = [of |-> c, mode |-> blocks[c].mode]
         /\ latched_timerstatus_locked' = TRUE

\* The read-back command of write_ctrl(): the counts of the selected counters,
\* the status of the first of them.
ReadBack(selected, counts, status) ==
    /\ \E s \in [selected -> Samples] :
         LET blocks == [c \in Counters |-> IF counts /\ c \in selected
                                           THEN Latched(pit[c], s[c])
                                           ELSE pit[c]]
             first == CHOOSE c \in selected : \A d \in selected : c <= d
         IN  IF status THEN StatusLatch(blocks, first)
                       ELSE pit' = blocks /\ UNCHANGED statusVars
    /\ ReadsAnew(IF counts THEN selected ELSE {})
    /\ UNCHANGED <<program, eventVars, written>>

-----------------------------------------------------------------------------
(* Timer events *)

\* RestartIRQ(): the event is added again unless the counter is in mode 0.
Restarted(p) ==
    IF p.mode # 0 /\ p.update_count
    THEN [p EXCEPT !.delay = p.cntr, !.update_count = FALSE]
    ELSE p

\* Mutant: an event is not added again.
EventsLeftOver(t) == events[t] - 1

EventsLeft(t) == IF pit[t].mode = 0 THEN events[t] - 1 ELSE events[t]

\* IMFC_TimerAEvent(), IMFC_TimerBEvent()
TimerEvent(t) ==
    /\ events[t] > 0
    /\ pit' = [pit EXCEPT ![t] = Restarted(@)]
    /\ events' = [events EXCEPT ![t] = EventsLeft(t)]
    /\ timedBy' = [timedBy EXCEPT ![t] = t]
    /\ UNCHANGED <<program, statusVars, ghostVars>>

\* IMFC_PIT::UpdateMode(): pending events are removed; an output that rises is
\* an event.
UpdateMode(c, mode, old_output) ==
    IF c \notin Timers THEN UNCHANGED eventVars
    ELSE /\ events' = [events EXCEPT ![c] = IF mode # 0 /\ ~old_output
                                            THEN 1 ELSE 0]
         /\ timedBy' = [timedBy EXCEPT ![c] = c]

\* Mutant: the next byte is taken for the second one of a pair begun before.
ReprogrammedMidPair(p, word) ==
    [p EXCEPT !.counterstatus_set = FALSE, !.go_read_latch = TRUE,
              !.update_count = FALSE, !.counting = FALSE, !.new_mode = TRUE,
              !.read_state = word.access, !.mode = word.mode]

Reprogrammed(p, word) ==
    [p EXCEPT !.counterstatus_set = FALSE, !.go_read_latch = TRUE,
              !.update_count = FALSE, !.counting = FALSE, !.new_mode = TRUE,
              !.read_state = word.access, !.write_state = word.access,
              !.mode = word.mode]

\* "Timer is being reprogrammed, unlock the status"
UnlockStatus(c) ==
    IF pit[c].counterstatus_set THEN Unlocks ELSE UNCHANGED statusVars

\* A control word: write_ctrl().  The output it asks for is always that of
\* counter 0.
Program(word) ==
    LET c == word.counter
    IN  /\ \E old_output \in Outputs(pit[0]) : UpdateMode(c, word.mode, old_output)
        /\ \E s \in Samples :
                pit' = [pit EXCEPT ![c] = Reprogrammed(Latched(@, s), word)]
        /\ UnlockStatus(c)
        /\ written' = [written EXCEPT ![c] = [access |-> word.access,
                                              bytes |-> <<>>]]
        /\ ReadsAnew({c})
        /\ UNCHANGED program

-----------------------------------------------------------------------------
(* Counts *)

Word(p, byte) ==
    CASE p.write_state = BothSecond -> p.write_latch + Base * byte
      [] p.write_state = MSB -> Base * byte
      [] OTHER -> byte

Flipped(state) ==
    CASE state = Both -> BothSecond
      [] state = BothSecond -> Both
      [] OTHER -> state

Full(word) == IF word = 0 THEN Base * Base ELSE word

\* Pairs are counted from the control word on.
Write(c, byte) ==
    written' = [written EXCEPT ![c].bytes =
                  IF written[c].access = Both /\ Len(@) = 1
                  THEN Append(@, byte) ELSE <<byte>>]

\* IMFC_PIT::UpdateLatch().  Loading counter 2 restarts timer B, with the delay
\* of counter 2.
UpdateLatch(c, p) ==
    /\ events' =
        CASE c = 2 -> [events EXCEPT ![1] = 1]
          [] c # 2 /\ p.mode = 0 -> [events EXCEPT ![c] = 1]
          [] c # 2 /\ p.mode # 0 /\ p.new_mode -> [events EXCEPT ![c] = @ + 1]
          [] OTHER -> events
    /\ timedBy' = IF c = 2 THEN [timedBy EXCEPT ![1] = 2] ELSE timedBy

\* The first byte of a pair.
WriteFirst(c, byte) ==
    /\ pit[c].write_state = Both
    /\ pit' = [pit EXCEPT ![c].write_latch = byte,
                          ![c].write_state = BothSecond]
    /\ Write(c, byte)
    /\ UNCHANGED <<program, statusVars, eventVars, half, torn>>

\* "In mode 2 writing another value has no direct effect on the count until the
\* old one has run out": RestartIRQ() takes the new one over.
Defers(c) == c = 0 /\ pit[c].mode = 2 /\ ~pit[c].new_mode

Loaded(c, byte) ==
    [pit[c] EXCEPT !.write_latch = 0,
                   !.write_state = Flipped(@),
                   !.cntr = Full(Word(pit[c], byte))]

WriteDeferred(c, byte) ==
    /\ pit[c].write_state # Both
    /\ Defers(c)
    /\ pit' = [pit EXCEPT ![c] = [Loaded(c, byte) EXCEPT !.update_count = TRUE]]
    /\ Write(c, byte)
    /\ UNCHANGED <<program, statusVars, eventVars, half, torn>>

WriteLoads(c, byte) ==
    LET p == Loaded(c, byte)
        loads == [pit EXCEPT ![c] = [p EXCEPT !.delay = p.cntr,
                                              !.new_mode = FALSE]]
    IN  /\ pit[c].write_state # Both
        /\ ~Defers(c)
        /\ pit' = IF c = 2 THEN [loads EXCEPT ![1].delay = pit[1].cntr]
                           ELSE loads
        /\ UpdateLatch(c, p)
        /\ Write(c, byte)
        /\ UNCHANGED <<program, statusVars, half, torn>>

-----------------------------------------------------------------------------
(* read_latch() *)

\* The status that was latched comes first.
ReadStatus(c) ==
    /\ pit[c].counterstatus_set
    /\ pit' = [pit EXCEPT ![c].counterstatus_set = FALSE]
    /\ Unlocks
    /\ UNCHANGED <<program, eventVars, ghostVars>>

\* Mutant: the latch follows the count between the two halves.
ReleasesAlways(state) == TRUE

\* go_read_latch is set again after the last byte.
Releases(state) == state # Both

\* A byte of the count, which is latched unless it is already.
ReadCount(c) ==
    /\ ~pit[c].counterstatus_set
    /\ \E s \in Samples :
        LET p == IF pit[c].go_read_latch THEN Latched(pit[c], s) ELSE pit[c]
            state == p.read_state
        IN  /\ pit' = [pit EXCEPT ![c] = [p EXCEPT
                            !.read_state = Flipped(state),
                            !.go_read_latch = Releases(state) \/ @]]
            /\ half' = [half EXCEPT ![c] = IF state = Both THEN p.read_latch
                                                          ELSE Unread]
            /\ torn' = (torn \/ half[c] \notin {Unread, p.read_latch})
    /\ UNCHANGED <<program, statusVars, eventVars, written>>

-----------------------------------------------------------------------------
(* SetGate() *)

Complete(c) == Len(written[c].bytes) = IF written[c].access = Both THEN 2 ELSE 1

OpenGate(c) ==
    /\ ~pit[c].gate
    /\ pit' = [pit EXCEPT ![c].gate = TRUE,
                          ![c].counting = (pit[c].mode = 1) \/ @]
    /\ UNCHANGED <<program, statusVars, eventVars, ghostVars>>

\* The count is latched; in mode 0 it is what counting goes on from.
CloseGate(c) ==
    /\ pit[c].gate
    /\ IF pit[c].mode \in {0, 2, 3}
       THEN /\ \E s \in Samples :
                  LET p == Latched(pit[c], s)
                  IN  pit' = [pit EXCEPT ![c] = [p EXCEPT
                                !.gate = FALSE,
                                !.cntr = IF p.mode = 0 THEN p.read_latch
                                                       ELSE @]]
            /\ ReadsAnew({c})
       ELSE pit' = [pit EXCEPT ![c].gate = FALSE] /\ ReadsAnew({})
    /\ written' = IF pit[c].mode = 0 /\ Complete(c)
                  THEN [written EXCEPT ![c].bytes = <<>>] ELSE written
    /\ UNCHANGED <<program, statusVars, eventVars>>

-----------------------------------------------------------------------------
Writing ==
    \E c \in Counters : \E byte \in program.bytes[c] :
        WriteFirst(c, byte) \/ WriteDeferred(c, byte) \/ WriteLoads(c, byte)

Controlling ==
    \/ \E word \in program.words : Program(word)
    \/ \E c \in program.reads : LatchCommand(c)
    \/ \E selected \in program.readBacks, counts, status \in BOOLEAN :
            ReadBack(selected, counts, status)
    \/ \E c \in program.gates : OpenGate(c) \/ CloseGate(c)

Reading ==
    \/ \E c \in Counters : ReadStatus(c)
    \/ \E c \in program.reads : ReadCount(c)

Next == Writing \/ Controlling \/ Reading \/ \E t \in Timers : TimerEvent(t)

Spec == Init /\ [][Next]_vars

-----------------------------------------------------------------------------
(* Properties *)

Block ==
    [cntr : 1 .. Base * Base, delay : 1 .. Base * Base,
     read_latch : Samples \union {Unread}, write_latch : 0 .. Base - 1,
     mode : 0 .. 5, read_state : 0 .. 3, write_state : 0 .. 3,
     go_read_latch : BOOLEAN, new_mode : BOOLEAN, counterstatus_set : BOOLEAN,
     counting : BOOLEAN, update_count : BOOLEAN, gate : BOOLEAN]

\* Every variable has its type: counts fit their two bytes, and of a timer at
\* most two events are pending.
TypeOK ==
    /\ program \in Programs
    /\ pit \in [Counters -> Block]
    /\ latched_timerstatus \in [of : Counters \union {Nobody}, mode : 0 .. 5]
    /\ latched_timerstatus_locked \in BOOLEAN
    /\ events \in [Timers -> 0 .. 2]
    /\ timedBy \in [Timers -> Counters]
    /\ written \in [Counters -> [access : {LSB, MSB, Both}, bytes : Seq(0 .. Base - 1)]]
    /\ half \in [Counters -> Samples \union {Unread}]
    /\ torn \in BOOLEAN

\* write_latch(): the flip-flop of the two bytes is in step with what was
\* written since the control word, whatever else is read, latched or
\* programmed in between: a count is what its bytes say.
LoadedCount ==
    \A c \in Counters :
        LET bytes == written[c].bytes
            word == CASE written[c].access = LSB -> bytes[1]
                      [] written[c].access = MSB -> Base * bytes[1]
                      [] OTHER -> bytes[1] + Base * bytes[2]
        IN  Complete(c) => pit[c].cntr = Full(word)

\* read_latch(): the LSB and the MSB that a program reads are of one count,
\* though the counter runs, unless it latches the count in between.
ReadsWhole == ~torn

\* "only 1 status can be latched simultaneously": the latch is locked just
\* while one counter has a status to be read, and the status is that of this
\* counter as it is programmed now.
StatusLatchOwned ==
    LET owners == {c \in Counters : pit[c].counterstatus_set}
    IN  IF latched_timerstatus_locked
        THEN owners = {latched_timerstatus.of}
             /\ latched_timerstatus.mode = pit[latched_timerstatus.of].mode
        ELSE owners = {}

\* UpdateMode(), UpdateLatch(), RestartIRQ(): a timer that was given a mode
\* other than 0 and a count always has an event pending, so it does not stop,
\* however control words, counts and events follow on each other.
TimersRun ==
    \A t \in Timers :
        pit[t].mode # 0 /\ ~pit[t].new_mode => events[t] > 0

\* A timer has one event at a time.
OneEventPending == \A t \in Timers : events[t] <= 1

\* A timer's event is scheduled with the delay of its own counter.
OwnDelay == \A t \in Timers : events[t] > 0 => timedBy[t] = t
=============================================================================
