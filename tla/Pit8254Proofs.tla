---------------------------- MODULE Pit8254Proofs ----------------------------
(***************************************************************************)
(* For bytes of any size and any program: a count is what was written, a   *)
(* count that is read is whole, one status is latched, and timers run on.  *)
(***************************************************************************)
EXTENDS Pit8254, Integers, WellFoundedInduction, TLAPS

\* What the bytes written since the control word say.
WordOf(w) ==
    CASE w.access = LSB -> w.bytes[1]
      [] w.access = MSB -> Base * w.bytes[1]
      [] OTHER -> w.bytes[1] + Base * w.bytes[2]

IsComplete(w) == Len(w.bytes) = IF w.access = Both THEN 2 ELSE 1

\* The flip-flop of a counter, and the byte it holds, are in step with what was
\* written.
WriteInv(p, w) ==
    /\ w.access = Both =>
          /\ Len(w.bytes) <= 2
          /\ p.write_state = IF Len(w.bytes) = 1 THEN BothSecond ELSE Both
          /\ Len(w.bytes) = 1 => p.write_latch = w.bytes[1]
    /\ w.access # Both =>
          /\ Len(w.bytes) <= 1
          /\ p.write_state = w.access
    /\ IsComplete(w) => p.cntr = Full(WordOf(w))

\* While the LSB of a count was read, its MSB is kept.
ReadInv(p, lsb) == lsb # Unread => p.read_latch = lsb /\ ~p.go_read_latch

\* A timer that waits for its count has at most the event of its output.
EventInv(p, pending) ==
    IF p.new_mode THEN pending <= 1 ELSE p.mode # 0 => pending > 0

PitInv ==
    /\ TypeOK
    /\ \A c \in Counters : WriteInv(pit[c], written[c]) /\ ReadInv(pit[c], half[c])
    /\ \A t \in Timers : EventInv(pit[t], events[t])
    /\ StatusLatchOwned
    /\ ~torn

\* What the parts of PitInv read of a counter.
SameCount(p, q) ==
    /\ q.cntr = p.cntr
    /\ q.write_latch = p.write_latch
    /\ q.write_state = p.write_state
SameLatch(p, q) ==
    q.read_latch = p.read_latch /\ q.go_read_latch = p.go_read_latch
SameMode(p, q) == q.mode = p.mode /\ q.new_mode = p.new_mode
SameStatus(p, q) ==
    q.mode = p.mode /\ q.counterstatus_set = p.counterstatus_set

-----------------------------------------------------------------------------
(* Counts *)

\* A count is two digits; a latched count is never 0, which stands for the
\* largest.
LEMMA BaseFacts ==
    /\ Base \in Nat /\ Base > 1 /\ Base * Base \in Nat /\ Base <= Base * Base
    /\ Samples \subseteq 1 .. Base * Base /\ Unread \notin Samples
<1>1. Base \in Nat /\ Base > 1 /\ Samples \subseteq 1 .. Base * Base - 1
  BY PitAssumption
<1>2. \A n \in Nat : n > 1 => n * n \in Nat /\ n <= n * n
  OBVIOUS
<1>3. Base * Base \in Nat /\ Base <= Base * Base
  BY <1>1, <1>2
<1>4. QED
  BY <1>1, <1>3 DEF Unread

\* Two bytes make a count that fits 16 bits, and 0 stands for the largest.
LEMMA WordFits ==
    ASSUME NEW a \in 0 .. Base - 1, NEW b \in 0 .. Base - 1
    PROVE  /\ Full(a) \in 1 .. Base * Base
           /\ Full(Base * b) \in 1 .. Base * Base
           /\ Full(a + Base * b) \in 1 .. Base * Base
<1>1. \A n \in Nat, i \in Nat, j \in Nat :
         i + 1 <= n /\ j + 1 <= n =>
            /\ n * j \in Nat /\ n * j <= n * n /\ i + (n * j) <= n * n
  <2>1. \A n \in Nat, j \in Nat : j + 1 <= n => n * j \in Nat /\ n * (j + 1) <= n * n
    OBVIOUS
  <2>2. \A n \in Nat, j \in Nat : n * (j + 1) = (n * j) + n /\ n * n \in Nat
    OBVIOUS
  <2>3. QED
    BY <2>1, <2>2
<1>2. /\ Base * b \in Nat /\ Base * b <= Base * Base
      /\ a + (Base * b) <= Base * Base
  <2>1. a \in Nat /\ b \in Nat /\ a + 1 <= Base /\ b + 1 <= Base
    BY BaseFacts
  <2>2. QED
    BY <1>1, <2>1, BaseFacts
<1>3. a \in Nat /\ a <= Base * Base
  BY BaseFacts
<1>4. a + (Base * b) \in Nat
  BY <1>2, <1>3
<1>5. ASSUME NEW w \in Nat, w <= Base * Base
      PROVE  Full(w) \in 1 .. Base * Base
  BY <1>5, BaseFacts DEF Full
<1>6. QED
  BY <1>2, <1>3, <1>4, <1>5

\* The first of a set of counters.
LEMMA FirstCounter ==
    ASSUME NEW S \in SUBSET Counters, S # {}
    PROVE  (CHOOSE c \in S : \A d \in S : c <= d) \in S
<1>1. Counters \subseteq Nat
  BY DEF Counters
<1>2. \E n \in S : \A m \in S : ~ (<<m, n>> \in OpToRel(<, Nat))
  BY <1>1, WFMin, NatLessThanWellFounded, Zenon
<1>3. \E n \in S : \A m \in S : ~ (m < n)
  BY <1>1, <1>2, Zenon DEF OpToRel
<1>4. \E n \in S : \A m \in S : n <= m
  BY <1>1, <1>3
<1>5. QED
  BY <1>4, Zenon

-----------------------------------------------------------------------------
(* One counter *)

\* counter_latch() stops the latch from following the count, and touches no
\* more than the latch.
LEMMA LatchedBlock ==
    ASSUME NEW p \in Block, NEW s \in Samples
    PROVE  /\ Latched(p, s) \in Block
           /\ SameCount(p, Latched(p, s)) /\ SameMode(p, Latched(p, s))
           /\ SameStatus(p, Latched(p, s))
           /\ Latched(p, s).go_read_latch = FALSE
           /\ p.mode = 0 /\ p.gate => Latched(p, s).read_latch = s
           /\ Latched(p, s).read_state = p.read_state
<1> DEFINE value == IF \/ ~p.gate /\ p.mode # 1
                       \/ p.mode = 1 /\ ~p.counting /\ ~p.new_mode
                    THEN p.read_latch ELSE s
<1>1. Latched(p, s) = [p EXCEPT !.go_read_latch = FALSE, !.read_latch = value]
  BY DEF Latched, Block
<1>2. value \in Samples \union {Unread} /\ (p.mode = 0 /\ p.gate => value = s)
  BY DEF Block
<1> HIDE DEF value
<1>3. QED
  BY <1>1, <1>2 DEF Block, SameCount, SameMode, SameStatus

\* RestartIRQ() changes nothing but the delay.
LEMMA RestartedBlock ==
    ASSUME NEW p \in Block
    PROVE  /\ Restarted(p) \in Block
           /\ SameCount(p, Restarted(p)) /\ SameMode(p, Restarted(p))
           /\ SameStatus(p, Restarted(p)) /\ SameLatch(p, Restarted(p))
BY DEF Restarted, Block, SameCount, SameMode, SameStatus, SameLatch

\* A status that is latched or read changes nothing else.
LEMMA StatusSet ==
    ASSUME NEW p \in Block, NEW b \in BOOLEAN
    PROVE  LET q == [p EXCEPT !.counterstatus_set = b]
           IN  /\ q \in Block /\ q.counterstatus_set = b
               /\ q.mode = p.mode /\ q.mode \in 0 .. 5
               /\ SameCount(p, q) /\ SameMode(p, q) /\ SameLatch(p, q)
BY DEF Block, SameCount, SameMode, SameLatch

\* A control word sets both flip-flops.
LEMMA ReprogrammedBlock ==
    ASSUME NEW p \in Block, NEW word,
           word.access \in {LSB, MSB, Both}, word.mode \in 0 .. 5
    PROVE  LET q == Reprogrammed(p, word)
           IN  /\ q \in Block /\ q.mode = word.mode
               /\ q.write_state = word.access
               /\ q.new_mode /\ ~q.counterstatus_set
<1> DEFINE access == word.access
           mode == word.mode
           q == [p EXCEPT !.counterstatus_set = FALSE, !.go_read_latch = TRUE,
                          !.update_count = FALSE, !.counting = FALSE,
                          !.new_mode = TRUE, !.read_state = access,
                          !.write_state = access, !.mode = mode]
<1>1. access \in 0 .. 3 /\ mode \in 0 .. 5
  BY DEF LSB, MSB, Both
<1>2. Reprogrammed(p, word) = q
  BY DEF Reprogrammed
<1> HIDE DEF access, mode
<1>3. q \in Block
  BY <1>1 DEF Block
<1>4. /\ q.mode = mode /\ q.write_state = access
      /\ q.new_mode /\ ~q.counterstatus_set
  BY <1>1 DEF Block
<1>5. QED
  BY <1>2, <1>3, <1>4 DEF access, mode

Writes == [access : {LSB, MSB, Both}, bytes : Seq(0 .. Base - 1)]

\* What Write() records of a byte.
Extended(w, byte) ==
    [w EXCEPT !.bytes = IF w.access = Both /\ Len(@) = 1
                        THEN Append(@, byte) ELSE <<byte>>]

\* The second byte of a pair is appended, any other begins anew.
LEMMA ExtendedType ==
    ASSUME NEW w \in Writes, NEW byte \in 0 .. Base - 1
    PROVE  /\ Extended(w, byte) \in Writes
           /\ Extended(w, byte).access = w.access
           /\ Extended(w, byte).bytes =
                 IF w.access = Both /\ Len(w.bytes) = 1
                 THEN Append(w.bytes, byte) ELSE <<byte>>
<1>1. w.bytes \in Seq(0 .. Base - 1)
  BY DEF Writes
<1>2. Append(w.bytes, byte) \in Seq(0 .. Base - 1)
  BY <1>1
<1>3. <<byte>> \in Seq(0 .. Base - 1)
  OBVIOUS
<1>4. QED
  BY <1>2, <1>3 DEF Extended, Writes

\* The first byte of a pair is kept.
LEMMA FirstOfPair ==
    ASSUME NEW p \in Block, NEW w \in Writes, WriteInv(p, w),
           NEW byte \in 0 .. Base - 1, p.write_state = Both,
           NEW q, q.write_latch = byte, q.write_state = BothSecond
    PROVE  WriteInv(q, Extended(w, byte))
<1>1. w.access = Both /\ Len(w.bytes) # 1
  BY DEF WriteInv, Writes, LSB, MSB, Both, BothSecond
<1>2. Extended(w, byte).access = Both /\ Extended(w, byte).bytes = <<byte>>
  BY <1>1, ExtendedType
<1>3. Len(<<byte>>) = 1 /\ <<byte>>[1] = byte
  OBVIOUS
<1>4. QED
  BY <1>2, <1>3 DEF WriteInv, IsComplete

\* The last byte makes a count of what was written.
LEMMA LastByte ==
    ASSUME NEW p \in Block, NEW w \in Writes, WriteInv(p, w),
           NEW byte \in 0 .. Base - 1, p.write_state # Both,
           NEW q, q.write_state = Flipped(p.write_state),
           q.cntr = Full(Word(p, byte))
    PROVE  WriteInv(q, Extended(w, byte))
<1>0. /\ LSB = 1 /\ MSB = 2 /\ Both = 3 /\ BothSecond = 0
      /\ w.bytes \in Seq(0 .. Base - 1) /\ w.access \in {LSB, MSB, Both}
  BY DEF LSB, MSB, Both, BothSecond, Writes
<1>1. CASE w.access = Both
  <2>1. /\ Len(w.bytes) = 1 /\ p.write_state = BothSecond
        /\ p.write_latch = w.bytes[1]
    BY <1>0, <1>1 DEF WriteInv
  <2>2. /\ Extended(w, byte).access = Both
        /\ Extended(w, byte).bytes = Append(w.bytes, byte)
    BY <1>1, <2>1, ExtendedType
  <2>3. /\ Len(Append(w.bytes, byte)) = 2
        /\ Append(w.bytes, byte)[1] = w.bytes[1]
        /\ Append(w.bytes, byte)[2] = byte
    BY <1>0, <2>1
  <2>4. q.cntr = Full(w.bytes[1] + Base * byte) /\ q.write_state = Both
    BY <1>0, <2>1 DEF Word, Flipped
  <2>5. WordOf(Extended(w, byte)) = w.bytes[1] + Base * byte
    BY <1>0, <2>2, <2>3 DEF WordOf
  <2>6. QED
    BY <2>2, <2>3, <2>4, <2>5 DEF WriteInv, IsComplete
<1>2. CASE w.access # Both
  <2>1. p.write_state = w.access
    BY <1>2 DEF WriteInv
  <2>2. /\ Extended(w, byte).access = w.access
        /\ Extended(w, byte).bytes = <<byte>>
    BY <1>2, ExtendedType
  <2>3. Len(<<byte>>) = 1 /\ <<byte>>[1] = byte
    OBVIOUS
  <2>4. q.write_state = w.access
    BY <1>0, <1>2, <2>1 DEF Flipped
  <2>5. Word(p, byte) = WordOf(Extended(w, byte))
    BY <1>0, <1>2, <2>1, <2>2, <2>3 DEF Word, WordOf
  <2>6. QED
    BY <1>2, <2>2, <2>3, <2>4, <2>5 DEF WriteInv
<1>3. QED
  BY <1>1, <1>2

\* A count of one byte or two fits.
LEMMA WordType ==
    ASSUME NEW p \in Block, NEW byte \in 0 .. Base - 1
    PROVE  Full(Word(p, byte)) \in 1 .. Base * Base
<1>1. p.write_latch \in 0 .. Base - 1
  BY DEF Block
<1>2. QED
  BY <1>1, WordFits DEF Word

\* What write_latch() makes of a counter before its delay is set.
LEMMA LoadedBlock ==
    ASSUME pit \in [Counters -> Block], NEW c \in Counters,
           NEW byte \in 0 .. Base - 1
    PROVE  LET p == pit[c]
               q == Loaded(c, byte)
           IN  /\ q \in Block /\ q.cntr = Full(Word(p, byte))
               /\ q.write_state = Flipped(p.write_state)
               /\ SameLatch(p, q) /\ SameMode(p, q) /\ SameStatus(p, q)
<1> DEFINE p == pit[c]
           n == Full(Word(p, byte))
           st == Flipped(p.write_state)
<1>1. p \in Block /\ n \in 1 .. Base * Base
  BY WordType
<1>2. st \in 0 .. 3 /\ 0 \in 0 .. Base - 1
  BY <1>1, BaseFacts DEF Flipped, Block, Both, BothSecond
<1>3. Loaded(c, byte) = [p EXCEPT !.write_latch = 0, !.write_state = st,
                                  !.cntr = n]
  BY DEF Loaded
<1> DEFINE q == [p EXCEPT !.write_latch = 0, !.write_state = st, !.cntr = n]
<1> HIDE DEF p, n, st
<1>4. /\ q \in Block /\ q.cntr = n /\ q.write_state = st
      /\ SameLatch(p, q) /\ SameMode(p, q) /\ SameStatus(p, q)
  BY <1>1, <1>2 DEF Block, SameLatch, SameMode, SameStatus
<1>5. QED
  BY <1>3, <1>4 DEF p, n, st

-----------------------------------------------------------------------------
(* Preservation *)

\* What no command touches is still in step.
LEMMA CountersKept ==
    ASSUME TypeOK, PitInv, pit' \in [Counters -> Block],
           \A c \in Counters : SameCount(pit[c], pit'[c]), written' = written
    PROVE  \A c \in Counters : WriteInv(pit'[c], written'[c])
BY DEF PitInv, WriteInv, SameCount

\* A count that is half read stays in the latch, or is given up.
LEMMA LatchesKept ==
    ASSUME PitInv,
           \A c \in Counters :
              \/ half'[c] = Unread
              \/ half'[c] = half[c] /\ SameLatch(pit[c], pit'[c])
    PROVE  \A c \in Counters : ReadInv(pit'[c], half'[c])
BY DEF PitInv, ReadInv, SameLatch

\* A step that leaves the modes and the events alone.
LEMMA EventsKept ==
    ASSUME PitInv, events' = events,
           \A t \in Timers : SameMode(pit[t], pit'[t])
    PROVE  \A t \in Timers : EventInv(pit'[t], events'[t])
BY DEF PitInv, EventInv, SameMode

\* A step that latches no status and gives none out.
LEMMA StatusKept ==
    ASSUME PitInv, UNCHANGED statusVars,
           \A c \in Counters : SameStatus(pit[c], pit'[c])
    PROVE  StatusLatchOwned'
<1> DEFINE owners == {c \in Counters : pit[c].counterstatus_set}
<1>1. {c \in Counters : pit'[c].counterstatus_set} = owners
  BY DEF SameStatus
<1>2. IF latched_timerstatus_locked
      THEN /\ owners = {latched_timerstatus.of}
           /\ latched_timerstatus.mode = pit[latched_timerstatus.of].mode
      ELSE owners = {}
  BY Zenon DEF PitInv, StatusLatchOwned
<1>3. CASE latched_timerstatus_locked
  <2>1. latched_timerstatus.of \in Counters
    BY <1>2, <1>3
  <2>2. pit'[latched_timerstatus.of].mode = pit[latched_timerstatus.of].mode
    BY <2>1 DEF SameStatus
  <2>3. QED
    BY <1>1, <1>2, <1>3, <2>2, Zenon DEF StatusLatchOwned, statusVars
<1>4. CASE ~latched_timerstatus_locked
  BY <1>1, <1>2, <1>4, Zenon DEF StatusLatchOwned, statusVars
<1>5. QED
  BY <1>3, <1>4

\* The counter whose status was latched has it read, or is reprogrammed.
LEMMA StatusUnlocked ==
    ASSUME PitInv, NEW c \in Counters,
           ~pit'[c].counterstatus_set,
           IF pit[c].counterstatus_set THEN Unlocks ELSE UNCHANGED statusVars,
           \A d \in Counters \ {c} : SameStatus(pit[d], pit'[d])
    PROVE  StatusLatchOwned'
<1> DEFINE owners == {d \in Counters : pit[d].counterstatus_set}
           left == {d \in Counters : pit'[d].counterstatus_set}
<1>1. left = owners \ {c}
  BY DEF SameStatus
<1>2. IF latched_timerstatus_locked
      THEN /\ owners = {latched_timerstatus.of}
           /\ latched_timerstatus.mode = pit[latched_timerstatus.of].mode
      ELSE owners = {}
  BY Zenon DEF PitInv, StatusLatchOwned
<1>3. CASE c \in owners
  <2>1. latched_timerstatus_locked' = FALSE
    BY <1>3 DEF Unlocks
  <2>2. left = {}
    BY <1>1, <1>2, <1>3
  <2>3. QED
    BY <2>1, <2>2, Zenon DEF StatusLatchOwned
<1>4. CASE c \notin owners
  <2>1. UNCHANGED statusVars /\ left = owners
    BY <1>1, <1>4
  <2>2. CASE latched_timerstatus_locked
    <3>1. latched_timerstatus.of \in Counters \ {c}
      BY <1>2, <1>4, <2>2
    <3>2. pit'[latched_timerstatus.of].mode = pit[latched_timerstatus.of].mode
      BY <3>1 DEF SameStatus
    <3>3. QED
      BY <1>2, <2>1, <2>2, <3>2, Zenon DEF StatusLatchOwned, statusVars
  <2>3. CASE ~latched_timerstatus_locked
    BY <1>2, <2>1, <2>3, Zenon DEF StatusLatchOwned, statusVars
  <2>4. QED
    BY <2>2, <2>3
<1>5. QED
  BY <1>3, <1>4

-----------------------------------------------------------------------------
(* Steps *)

\* A program addresses the counters that there are, with bytes.
LEMMA ProgramTypes ==
    ASSUME program \in Programs
    PROVE  /\ program.words \subseteq [counter : Counters,
                                       access : {LSB, MSB, Both}, mode : 0 .. 5]
           /\ program.reads \subseteq Counters /\ program.gates \subseteq Counters
           /\ program.readBacks \subseteq (SUBSET Counters) \ {{}}
           /\ \A c \in Counters : program.bytes[c] \subseteq 0 .. Base - 1
<1> DEFINE Any == [bytes : [Counters -> SUBSET (0 .. Base - 1)],
                   words : SUBSET [counter : Counters, access : {LSB, MSB, Both},
                                   mode : 0 .. 5],
                   readBacks : SUBSET ((SUBSET Counters) \ {{}}),
                   reads : SUBSET Counters, gates : SUBSET Counters]
<1>1. program \in Any
  BY PitAssumption
<1>2. QED
  BY <1>1

\* A step that leaves written, events and the status alone.
LEMMA BlocksStep ==
    ASSUME PitInv, pit' \in [Counters -> Block],
           \A c \in Counters : /\ SameCount(pit[c], pit'[c])
                               /\ SameMode(pit[c], pit'[c])
                               /\ SameStatus(pit[c], pit'[c])
                               /\ \/ half'[c] = Unread
                                  \/ /\ half'[c] = half[c]
                                     /\ SameLatch(pit[c], pit'[c]),
           UNCHANGED <<program, statusVars, eventVars, written, torn>>,
           half' \in [Counters -> Samples \union {Unread}]
    PROVE  PitInv'
<1>1. Timers \subseteq Counters /\ TypeOK
  BY DEF Timers, Counters, PitInv
<1>2. /\ UNCHANGED <<events, timedBy, latched_timerstatus,
                     latched_timerstatus_locked, program, written, torn>>
  BY DEF eventVars, statusVars
<1>3. TypeOK'
  BY <1>1, <1>2 DEF TypeOK
<1>4. \A c \in Counters : WriteInv(pit'[c], written'[c])
  BY <1>1, <1>2, CountersKept
<1>5. \A c \in Counters : ReadInv(pit'[c], half'[c])
  BY LatchesKept
<1>6. \A t \in Timers : EventInv(pit'[t], events'[t])
  BY <1>1, <1>2, EventsKept
<1>7. StatusLatchOwned'
  BY StatusKept
<1>8. QED
  BY <1>2, <1>3, <1>4, <1>5, <1>6, <1>7 DEF PitInv

\* A count that is latched again is read from its LSB on.
LEMMA LatchCommandStep ==
    ASSUME PitInv, NEW c \in Counters, LatchCommand(c)
    PROVE  PitInv'
<1>0. pit \in [Counters -> Block] /\ half \in [Counters -> Samples \union {Unread}]
  BY DEF PitInv, TypeOK
<1>1. PICK s \in Samples : pit' = [pit EXCEPT ![c] = Latched(pit[c], s)]
  BY DEF LatchCommand
<1>2. /\ Latched(pit[c], s) \in Block /\ SameCount(pit[c], Latched(pit[c], s))
      /\ SameMode(pit[c], Latched(pit[c], s))
      /\ SameStatus(pit[c], Latched(pit[c], s))
  BY <1>0, LatchedBlock
<1>3. \A d \in Counters :
         /\ half'[d] = IF d = c THEN Unread ELSE half[d]
         /\ SameCount(pit[d], pit'[d]) /\ SameMode(pit[d], pit'[d])
         /\ SameStatus(pit[d], pit'[d])
         /\ d # c => SameLatch(pit[d], pit'[d])
  BY <1>0, <1>1, <1>2
     DEF LatchCommand, ReadsAnew, SameCount, SameMode, SameStatus, SameLatch
<1>4. /\ pit' \in [Counters -> Block]
      /\ half' \in [Counters -> Samples \union {Unread}]
      /\ torn' = torn
  BY <1>0, <1>1, <1>2 DEF LatchCommand, ReadsAnew
<1>5. UNCHANGED <<program, statusVars, eventVars, written, torn>>
  BY <1>4 DEF LatchCommand
<1>6. QED
  BY <1>3, <1>4, <1>5, BlocksStep

\* In mode 0 an event is the last one; in the other modes it comes again.
LEMMA TimerEventStep ==
    ASSUME PitInv, NEW t \in Timers, TimerEvent(t)
    PROVE  PitInv'
<1>0. /\ pit \in [Counters -> Block] /\ t \in Counters /\ TypeOK
      /\ Timers \subseteq Counters /\ events \in [Timers -> 0 .. 2]
      /\ timedBy \in [Timers -> Counters]
  BY DEF PitInv, TypeOK, Timers, Counters
<1>1. /\ Restarted(pit[t]) \in Block /\ SameCount(pit[t], Restarted(pit[t]))
      /\ SameMode(pit[t], Restarted(pit[t]))
      /\ SameStatus(pit[t], Restarted(pit[t]))
      /\ SameLatch(pit[t], Restarted(pit[t]))
  BY <1>0, RestartedBlock
<1>2. /\ pit' = [pit EXCEPT ![t] = Restarted(pit[t])]
      /\ events' = [events EXCEPT ![t] = EventsLeft(t)]
      /\ timedBy' = [timedBy EXCEPT ![t] = t] /\ events[t] > 0
      /\ UNCHANGED <<program, latched_timerstatus, latched_timerstatus_locked,
                     written, half, torn>>
  BY DEF TimerEvent, statusVars, ghostVars
<1>3. \A d \in Counters :
         /\ SameCount(pit[d], pit'[d]) /\ SameMode(pit[d], pit'[d])
         /\ SameStatus(pit[d], pit'[d]) /\ SameLatch(pit[d], pit'[d])
  BY <1>0, <1>1, <1>2 DEF SameCount, SameMode, SameStatus, SameLatch
<1>4. pit' \in [Counters -> Block]
  BY <1>0, <1>1, <1>2
<1>5. EventsLeft(t) \in 0 .. 2 /\ EventsLeft(t) <= events[t]
  BY <1>0, <1>2 DEF EventsLeft
<1>6. events' \in [Timers -> 0 .. 2] /\ timedBy' \in [Timers -> Counters]
  BY <1>0, <1>2, <1>5
<1>7. TypeOK'
  BY <1>0, <1>2, <1>4, <1>6 DEF TypeOK
<1>8. \A c \in Counters : WriteInv(pit'[c], written'[c])
  BY <1>0, <1>2, <1>3, <1>4, CountersKept
<1>9. \A c \in Counters : ReadInv(pit'[c], half'[c])
  BY <1>2, <1>3, LatchesKept
<1>10. ASSUME NEW u \in Timers
       PROVE  EventInv(pit'[u], events'[u])
  <2>1. EventInv(pit[u], events[u]) /\ SameMode(pit[u], pit'[u])
    BY <1>0, <1>3 DEF PitInv
  <2>2. CASE u = t
    BY <1>0, <1>2, <1>5, <2>1, <2>2 DEF EventInv, SameMode, EventsLeft
  <2>3. CASE u # t
    BY <1>0, <1>2, <2>1, <2>3 DEF EventInv, SameMode
  <2>4. QED
    BY <2>2, <2>3
<1>11. StatusLatchOwned'
  BY <1>2, <1>3, StatusKept DEF statusVars
<1>12. QED
  BY <1>2, <1>7, <1>8, <1>9, <1>10, <1>11 DEF PitInv

\* A control word begins everything anew: the pair of bytes that is written, the
\* count that is read, the status, and the events.
LEMMA ProgramStep ==
    ASSUME PitInv, NEW word \in program.words, Program(word)
    PROVE  PitInv'
<1> DEFINE c == word.counter
<1>0. /\ pit \in [Counters -> Block] /\ TypeOK /\ c \in Counters
      /\ word.access \in {LSB, MSB, Both} /\ word.mode \in 0 .. 5
      /\ Timers \subseteq Counters /\ events \in [Timers -> 0 .. 2]
      /\ timedBy \in [Timers -> Counters]
      /\ half \in [Counters -> Samples \union {Unread}]
      /\ written \in [Counters -> Writes]
  BY ProgramTypes DEF PitInv, TypeOK, Timers, Counters, Writes
<1>1. PICK s \in Samples :
         pit' = [pit EXCEPT ![c] = Reprogrammed(Latched(pit[c], s), word)]
  BY DEF Program
<1> DEFINE q == Reprogrammed(Latched(pit[c], s), word)
<1>2. /\ q \in Block /\ q.mode = word.mode /\ q.write_state = word.access
      /\ q.new_mode /\ ~q.counterstatus_set
  <2>1. Latched(pit[c], s) \in Block
    BY <1>0, LatchedBlock
  <2>2. QED
    BY <1>0, <2>1, ReprogrammedBlock
<1>3. PICK old_output \in Outputs(pit[0]) : UpdateMode(c, word.mode, old_output)
  BY DEF Program
<1>4. /\ written' = [written EXCEPT ![c] = [access |-> word.access,
                                            bytes |-> <<>>]]
      /\ half' = [d \in Counters |-> IF d \in {c} THEN Unread ELSE half[d]]
      /\ torn' = torn /\ program' = program
      /\ UnlockStatus(c)
  BY DEF Program, ReadsAnew
<1> HIDE DEF c, q
<1>5. /\ pit' = [pit EXCEPT ![c] = q]
      /\ pit' \in [Counters -> Block] /\ pit'[c] = q
      /\ \A d \in Counters \ {c} : pit'[d] = pit[d]
  BY <1>0, <1>1, <1>2 DEF q
<1>6. /\ events' \in [Timers -> 0 .. 2] /\ timedBy' \in [Timers -> Counters]
      /\ c \in Timers => events'[c] <= 1
      /\ \A t \in Timers \ {c} : events'[t] = events[t]
  BY <1>0, <1>3 DEF UpdateMode, eventVars
<1>7. /\ written' \in [Counters -> Writes]
      /\ half' \in [Counters -> Samples \union {Unread}]
  <2>1. [access |-> word.access, bytes |-> <<>>] \in Writes
    BY <1>0 DEF Writes
  <2>2. QED
    BY <1>0, <1>4, <2>1
<1>8. /\ latched_timerstatus' \in [of : Counters \union {Nobody}, mode : 0 .. 5]
      /\ latched_timerstatus_locked' \in BOOLEAN
  <2>1. NoStatus \in [of : Counters \union {Nobody}, mode : 0 .. 5]
    BY DEF NoStatus
  <2>2. QED
    BY <1>0, <1>4, <2>1 DEF UnlockStatus, Unlocks, statusVars, TypeOK
<1>9. TypeOK'
  BY <1>0, <1>4, <1>5, <1>6, <1>7, <1>8 DEF TypeOK, Writes
<1>10. ASSUME NEW d \in Counters
       PROVE  WriteInv(pit'[d], written'[d])
  <2>1. CASE d = c
    <3>1. /\ written'[c].access = word.access /\ written'[c].bytes = <<>>
          /\ pit'[c].write_state = word.access
      BY <1>0, <1>2, <1>4, <1>5
    <3>2. Len(<<>>) = 0
      OBVIOUS
    <3>3. QED
      BY <1>0, <2>1, <3>1, <3>2 DEF WriteInv, IsComplete
  <2>2. CASE d # c
    BY <1>0, <1>4, <1>5, <2>2 DEF PitInv
  <2>3. QED
    BY <2>1, <2>2
<1>11. \A d \in Counters : ReadInv(pit'[d], half'[d])
  BY <1>0, <1>4, <1>5, LatchesKept DEF SameLatch
<1>12. ASSUME NEW t \in Timers
       PROVE  EventInv(pit'[t], events'[t])
  <2>1. CASE t = c
    BY <1>2, <1>5, <1>6, <2>1 DEF EventInv
  <2>2. CASE t # c
    BY <1>0, <1>5, <1>6, <2>2 DEF PitInv
  <2>3. QED
    BY <2>1, <2>2
<1>13. StatusLatchOwned'
  BY <1>0, <1>2, <1>4, <1>5, StatusUnlocked DEF UnlockStatus, SameStatus
<1>14. QED
  BY <1>4, <1>9, <1>10, <1>11, <1>12, <1>13 DEF PitInv

\* A byte is written to one counter; its events are those that its mode asks for.
LEMMA WriteStep ==
    ASSUME PitInv, NEW c \in Counters, NEW byte \in 0 .. Base - 1,
           pit' \in [Counters -> Block], Write(c, byte),
           WriteInv(pit'[c], Extended(written[c], byte)),
           \A d \in Counters : /\ SameLatch(pit[d], pit'[d])
                               /\ SameStatus(pit[d], pit'[d])
                               /\ d # c => SameCount(pit[d], pit'[d]),
           events' \in [Timers -> 0 .. 2], timedBy' \in [Timers -> Counters],
           \A t \in Timers : EventInv(pit'[t], events'[t]),
           UNCHANGED <<program, statusVars, half, torn>>
    PROVE  PitInv'
<1>0. /\ TypeOK /\ written \in [Counters -> Writes]
      /\ UNCHANGED <<latched_timerstatus, latched_timerstatus_locked>>
  BY DEF PitInv, TypeOK, Writes, statusVars
<1>1. written' = [written EXCEPT ![c] = Extended(written[c], byte)]
  BY <1>0 DEF Write, Extended
<1>2. Extended(written[c], byte) \in Writes
  BY <1>0, ExtendedType
<1>3. written' \in [Counters -> Writes]
  BY <1>0, <1>1, <1>2
<1>4. TypeOK'
  BY <1>0, <1>3 DEF TypeOK, Writes
<1>5. ASSUME NEW d \in Counters
      PROVE  WriteInv(pit'[d], written'[d])
  <2>1. CASE d = c
    BY <1>0, <1>1, <2>1
  <2>2. CASE d # c
    <3>1. written'[d] = written[d] /\ SameCount(pit[d], pit'[d])
      BY <1>0, <1>1, <2>2
    <3>2. WriteInv(pit[d], written[d])
      BY DEF PitInv
    <3>3. QED
      BY <3>1, <3>2 DEF WriteInv, SameCount
  <2>3. QED
    BY <2>1, <2>2
<1>6. \A d \in Counters : ReadInv(pit'[d], half'[d])
  BY LatchesKept
<1>7. StatusLatchOwned'
  BY StatusKept
<1>8. torn' = torn
  OBVIOUS
<1>9. QED
  BY <1>4, <1>5, <1>6, <1>7, <1>8 DEF PitInv

\* The first byte of a pair changes no event.
LEMMA WriteFirstStep ==
    ASSUME PitInv, NEW c \in Counters, NEW byte \in 0 .. Base - 1,
           WriteFirst(c, byte)
    PROVE  PitInv'
<1> DEFINE q == [pit[c] EXCEPT !.write_latch = byte, !.write_state = BothSecond]
<1>0. /\ pit \in [Counters -> Block] /\ TypeOK /\ pit[c].write_state = Both
      /\ Timers \subseteq Counters /\ events' = events /\ timedBy' = timedBy
      /\ written[c] \in Writes /\ WriteInv(pit[c], written[c])
      /\ Write(c, byte) /\ UNCHANGED <<program, statusVars, half, torn>>
  BY DEF PitInv, TypeOK, Timers, Counters, WriteFirst, eventVars, Writes
<1>1. pit' = [pit EXCEPT ![c] = q]
  BY <1>0 DEF WriteFirst
<1>2. /\ q \in Block /\ q.write_latch = byte /\ q.write_state = BothSecond
      /\ SameLatch(pit[c], q) /\ SameMode(pit[c], q) /\ SameStatus(pit[c], q)
  <2>1. pit[c] \in Block /\ BothSecond \in 0 .. 3
    BY <1>0 DEF BothSecond
  <2>2. QED
    BY <2>1 DEF Block, SameLatch, SameMode, SameStatus
<1>3. WriteInv(q, Extended(written[c], byte))
  BY <1>0, <1>2, FirstOfPair
<1> HIDE DEF q
<1>4. /\ pit' \in [Counters -> Block] /\ pit'[c] = q
      /\ \A d \in Counters \ {c} : pit'[d] = pit[d]
  BY <1>0, <1>1, <1>2
<1>5. \A d \in Counters :
         /\ SameLatch(pit[d], pit'[d]) /\ SameMode(pit[d], pit'[d])
         /\ SameStatus(pit[d], pit'[d]) /\ (d # c => SameCount(pit[d], pit'[d]))
  BY <1>2, <1>4 DEF SameLatch, SameMode, SameStatus, SameCount
<1>6. \A t \in Timers : EventInv(pit'[t], events'[t])
  BY <1>0, <1>5, EventsKept
<1>7. events' \in [Timers -> 0 .. 2] /\ timedBy' \in [Timers -> Counters]
  BY <1>0 DEF TypeOK
<1>8. QED
  BY <1>0, <1>3, <1>4, <1>5, <1>6, <1>7, WriteStep

\* A count that waits for its turn changes no event.
LEMMA WriteDeferredStep ==
    ASSUME PitInv, NEW c \in Counters, NEW byte \in 0 .. Base - 1,
           WriteDeferred(c, byte)
    PROVE  PitInv'
<1> DEFINE p == Loaded(c, byte)
           q == [p EXCEPT !.update_count = TRUE]
<1>0. /\ pit \in [Counters -> Block] /\ TypeOK /\ pit[c].write_state # Both
      /\ Timers \subseteq Counters /\ events' = events /\ timedBy' = timedBy
      /\ written[c] \in Writes /\ WriteInv(pit[c], written[c])
      /\ pit' = [pit EXCEPT ![c] = q]
      /\ Write(c, byte) /\ UNCHANGED <<program, statusVars, half, torn>>
  BY DEF PitInv, TypeOK, Timers, Counters, WriteDeferred, eventVars, Writes
<1>1. /\ p \in Block /\ p.cntr = Full(Word(pit[c], byte))
      /\ p.write_state = Flipped(pit[c].write_state)
      /\ SameLatch(pit[c], p) /\ SameMode(pit[c], p) /\ SameStatus(pit[c], p)
  BY <1>0, LoadedBlock
<1> HIDE DEF p
<1>2. /\ q \in Block /\ SameCount(p, q)
      /\ SameLatch(p, q) /\ SameMode(p, q) /\ SameStatus(p, q)
  BY <1>1 DEF Block, SameCount, SameLatch, SameMode, SameStatus
<1> HIDE DEF q
<1>3. WriteInv(q, Extended(written[c], byte))
  BY <1>0, <1>1, <1>2, LastByte DEF SameCount
<1>4. /\ pit' \in [Counters -> Block] /\ pit'[c] = q
      /\ \A d \in Counters \ {c} : pit'[d] = pit[d]
  BY <1>0, <1>2
<1>5. \A d \in Counters :
         /\ SameLatch(pit[d], pit'[d]) /\ SameMode(pit[d], pit'[d])
         /\ SameStatus(pit[d], pit'[d]) /\ (d # c => SameCount(pit[d], pit'[d]))
  BY <1>1, <1>2, <1>4 DEF SameLatch, SameMode, SameStatus, SameCount
<1>6. \A t \in Timers : EventInv(pit'[t], events'[t])
  BY <1>0, <1>5, EventsKept
<1>7. events' \in [Timers -> 0 .. 2] /\ timedBy' \in [Timers -> Counters]
  BY <1>0 DEF TypeOK
<1>8. QED
  BY <1>0, <1>3, <1>4, <1>5, <1>6, <1>7, WriteStep

\* A count that is loaded brings its timer to life.
LEMMA WriteLoadsStep ==
    ASSUME PitInv, NEW c \in Counters, NEW byte \in 0 .. Base - 1,
           WriteLoads(c, byte)
    PROVE  PitInv'
<1> DEFINE p == Loaded(c, byte)
           q == [p EXCEPT !.delay = p.cntr, !.new_mode = FALSE]
           loads == [pit EXCEPT ![c] = q]
           delayed == [pit[1] EXCEPT !.delay = pit[1].cntr]
<1>0. /\ pit \in [Counters -> Block] /\ TypeOK /\ pit[c].write_state # Both
      /\ Timers \subseteq Counters /\ Timers = {0, 1} /\ 1 \in Counters
      /\ 2 \in Counters /\ (c \in Timers \/ c = 2)
      /\ events \in [Timers -> 0 .. 2] /\ timedBy \in [Timers -> Counters]
      /\ written[c] \in Writes /\ WriteInv(pit[c], written[c])
      /\ pit' = IF c = 2 THEN [loads EXCEPT ![1].delay = pit[1].cntr] ELSE loads
      /\ UpdateLatch(c, p)
      /\ Write(c, byte) /\ UNCHANGED <<program, statusVars, half, torn>>
  BY DEF PitInv, TypeOK, Timers, Counters, WriteLoads, Writes
<1>1. /\ p \in Block /\ p.cntr = Full(Word(pit[c], byte))
      /\ p.write_state = Flipped(pit[c].write_state)
      /\ SameLatch(pit[c], p) /\ SameMode(pit[c], p) /\ SameStatus(pit[c], p)
  BY <1>0, LoadedBlock
<1> HIDE DEF p
<1>2. /\ q \in Block /\ SameCount(p, q) /\ q.mode = p.mode /\ ~q.new_mode
      /\ SameLatch(p, q) /\ SameStatus(p, q)
  BY <1>1 DEF Block, SameCount, SameLatch, SameMode, SameStatus
<1>3. /\ delayed \in Block /\ SameCount(pit[1], delayed)
      /\ SameMode(pit[1], delayed) /\ SameLatch(pit[1], delayed)
      /\ SameStatus(pit[1], delayed)
  BY <1>0 DEF Block, SameCount, SameLatch, SameMode, SameStatus
<1> HIDE DEF q
<1>4. WriteInv(q, Extended(written[c], byte))
  BY <1>0, <1>1, <1>2, LastByte DEF SameCount
<1>5. /\ pit' \in [Counters -> Block] /\ pit'[c] = q
      /\ \A d \in Counters \ {c} :
            pit'[d] = IF c = 2 /\ d = 1 THEN delayed ELSE pit[d]
  <2>1. CASE c = 2
    <3>1. loads[1] = pit[1]
      BY <1>0, <2>1
    <3>2. pit' = [loads EXCEPT ![1] = delayed]
      BY <1>0, <2>1, <3>1
    <3> HIDE DEF delayed
    <3>3. QED
      BY <1>0, <1>2, <1>3, <2>1, <3>2
  <2>2. CASE c # 2
    BY <1>0, <1>2, <2>2
  <2>3. QED
    BY <2>1, <2>2
<1> HIDE DEF delayed, loads
<1>6. \A d \in Counters :
         /\ SameLatch(pit[d], pit'[d]) /\ SameStatus(pit[d], pit'[d])
         /\ d # c => SameCount(pit[d], pit'[d]) /\ SameMode(pit[d], pit'[d])
  BY <1>1, <1>2, <1>3, <1>5
     DEF SameLatch, SameMode, SameStatus, SameCount
<1>7. pit'[c].mode = pit[c].mode /\ ~pit'[c].new_mode
      /\ p.mode = pit[c].mode /\ p.new_mode = pit[c].new_mode
  BY <1>1, <1>2, <1>5 DEF SameMode
<1>8. \A t \in Timers : EventInv(pit[t], events[t])
  BY DEF PitInv
<1>9. /\ events' \in [Timers -> 0 .. 2]
      /\ \A t \in Timers : EventInv(pit'[t], events'[t])
  <2>1. CASE c = 2
    <3>1. events' = [events EXCEPT ![1] = 1]
      BY <1>0, <2>1 DEF UpdateLatch
    <3>2. QED
      BY <1>0, <1>6, <1>8, <2>1, <3>1 DEF EventInv, SameMode
  <2>2. CASE c # 2
    <3>0. c \in Timers /\ EventInv(pit[c], events[c]) /\ events[c] \in 0 .. 2
      BY <1>0, <1>8, <2>2
    <3>1. ASSUME NEW n \in 0 .. 2, events' = [events EXCEPT ![c] = n],
                 pit[c].mode # 0 => n > 0
          PROVE  /\ events' \in [Timers -> 0 .. 2]
                 /\ \A t \in Timers : EventInv(pit'[t], events'[t])
      <4>1. events' \in [Timers -> 0 .. 2] /\ events'[c] = n
        BY <1>0, <3>0, <3>1
      <4>2. ASSUME NEW t \in Timers
            PROVE  EventInv(pit'[t], events'[t])
        <5>1. CASE t = c
          BY <1>7, <3>1, <4>1, <5>1 DEF EventInv
        <5>2. CASE t # c
          <6>1. /\ events'[t] = events[t] /\ SameMode(pit[t], pit'[t])
                /\ EventInv(pit[t], events[t])
            BY <1>0, <1>6, <1>8, <3>1, <5>2
          <6>2. QED
            BY <6>1 DEF EventInv, SameMode
        <5>3. QED
          BY <5>1, <5>2
      <4>3. QED
        BY <4>1, <4>2
    <3>2. CASE p.mode = 0
      <4>1. events' = [events EXCEPT ![c] = 1]
        BY <1>0, <2>2, <3>2 DEF UpdateLatch
      <4>2. QED
        BY <3>1, <4>1
    <3>3. CASE p.mode # 0 /\ p.new_mode
      <4>1. events' = [events EXCEPT ![c] = events[c] + 1]
        BY <1>0, <2>2, <3>3 DEF UpdateLatch
      <4>2. events[c] <= 1
        BY <1>7, <3>0, <3>3 DEF EventInv
      <4>3. events[c] + 1 \in 0 .. 2 /\ events[c] + 1 > 0
        BY <3>0, <4>2
      <4>4. QED
        BY <3>1, <4>1, <4>3
    <3>4. CASE p.mode # 0 /\ ~p.new_mode
      <4>1. events' = events
        BY <1>0, <2>2, <3>4 DEF UpdateLatch
      <4>2. events' = [events EXCEPT ![c] = events[c]]
        BY <1>0, <4>1
      <4>3. events[c] > 0
        BY <1>7, <3>0, <3>4 DEF EventInv
      <4>4. QED
        BY <3>0, <3>1, <4>2, <4>3
    <3>5. QED
      BY <3>2, <3>3, <3>4
  <2>3. QED
    BY <2>1, <2>2
<1>10. timedBy' \in [Timers -> Counters]
  BY <1>0 DEF UpdateLatch
<1>11. WriteInv(pit'[c], Extended(written[c], byte))
  BY <1>4, <1>5
<1>12. QED
  BY <1>0, <1>5, <1>6, <1>9, <1>10, <1>11, WriteStep

\* A step that leaves the modes and the events alone.
LEMMA LatchStep ==
    ASSUME PitInv, pit' \in [Counters -> Block],
           \A c \in Counters : /\ SameMode(pit[c], pit'[c])
                               /\ WriteInv(pit'[c], written'[c])
                               /\ ReadInv(pit'[c], half'[c]),
           UNCHANGED <<program, eventVars>>, torn' = FALSE,
           written' \in [Counters -> Writes],
           half' \in [Counters -> Samples \union {Unread}],
           latched_timerstatus' \in [of : Counters \union {Nobody}, mode : 0 .. 5],
           latched_timerstatus_locked' \in BOOLEAN,
           StatusLatchOwned'
    PROVE  PitInv'
<1>1. Timers \subseteq Counters /\ TypeOK
  BY DEF Timers, Counters, PitInv
<1>2. UNCHANGED <<events, timedBy, program>>
  BY DEF eventVars
<1>3. TypeOK'
  BY <1>1, <1>2 DEF TypeOK, Writes
<1>4. \A t \in Timers : EventInv(pit'[t], events'[t])
  BY <1>1, <1>2, EventsKept
<1>5. QED
  BY <1>3, <1>4 DEF PitInv

\* The status of one counter is latched if none is.
LEMMA StatusLatchStep ==
    ASSUME PitInv, NEW blocks \in [Counters -> Block], NEW c \in Counters,
           \A d \in Counters : SameStatus(pit[d], blocks[d]),
           StatusLatch(blocks, c)
    PROVE  /\ StatusLatchOwned'
           /\ latched_timerstatus' \in [of : Counters \union {Nobody}, mode : 0 .. 5]
           /\ latched_timerstatus_locked' \in BOOLEAN
           /\ pit' \in [Counters -> Block]
           /\ \A d \in Counters : /\ SameCount(blocks[d], pit'[d])
                                  /\ SameMode(blocks[d], pit'[d])
                                  /\ SameLatch(blocks[d], pit'[d])
<1>0. TypeOK
  BY DEF PitInv
<1>1. CASE latched_timerstatus_locked
  <2>1. pit' = blocks /\ UNCHANGED statusVars
    BY <1>1 DEF StatusLatch
  <2>2. StatusLatchOwned'
    BY <2>1, StatusKept
  <2>3. QED
    BY <1>0, <2>1, <2>2
       DEF TypeOK, statusVars, SameCount, SameMode, SameLatch
<1>2. CASE ~latched_timerstatus_locked
  <2> DEFINE q == [blocks[c] EXCEPT !.counterstatus_set = TRUE]
  <2>1. /\ pit' = [blocks EXCEPT ![c] = q]
        /\ latched_timerstatus' = [of |-> c, mode |-> blocks[c].mode]
        /\ latched_timerstatus_locked' = TRUE
    BY <1>2 DEF StatusLatch
  <2>2. /\ q \in Block /\ q.counterstatus_set /\ q.mode = blocks[c].mode
        /\ SameCount(blocks[c], q) /\ SameMode(blocks[c], q)
        /\ SameLatch(blocks[c], q) /\ q.mode \in 0 .. 5
    <3>1. blocks[c] \in Block
      OBVIOUS
    <3>2. QED
      BY <3>1, StatusSet
  <2> HIDE DEF q
  <2>3. /\ pit' \in [Counters -> Block] /\ pit'[c] = q
        /\ \A d \in Counters \ {c} : pit'[d] = blocks[d]
    BY <2>1, <2>2
  <2>4. \A d \in Counters : /\ SameCount(blocks[d], pit'[d])
                            /\ SameMode(blocks[d], pit'[d])
                            /\ SameLatch(blocks[d], pit'[d])
    BY <2>2, <2>3 DEF SameCount, SameMode, SameLatch
  <2>5. {d \in Counters : pit[d].counterstatus_set} = {}
    BY <1>2, Zenon DEF PitInv, StatusLatchOwned
  <2>6. {d \in Counters : pit'[d].counterstatus_set} = {c}
    <3>1. pit'[c].counterstatus_set
      BY <2>2, <2>3
    <3>2. \A d \in Counters \ {c} : ~pit'[d].counterstatus_set
      BY <2>3, <2>5 DEF SameStatus
    <3>3. QED
      BY <3>1, <3>2
  <2>7. /\ latched_timerstatus'.of = c
        /\ latched_timerstatus'.mode = pit'[c].mode
        /\ latched_timerstatus' \in [of : Counters \union {Nobody}, mode : 0 .. 5]
    BY <2>1, <2>2, <2>3
  <2>8. StatusLatchOwned'
    BY <2>1, <2>6, <2>7, Zenon DEF StatusLatchOwned
  <2>9. QED
    BY <2>1, <2>3, <2>4, <2>7, <2>8
<1>3. QED
  BY <1>1, <1>2

\* The counts of all selected counters are latched, but one status.
LEMMA ReadBackStep ==
    ASSUME PitInv, NEW selected \in program.readBacks, NEW counts \in BOOLEAN,
           NEW status \in BOOLEAN, ReadBack(selected, counts, status)
    PROVE  PitInv'
<1> DEFINE Blocks(s) == [c \in Counters |-> IF counts /\ c \in selected
                                           THEN Latched(pit[c], s[c]) ELSE pit[c]]
           first == CHOOSE c \in selected : \A d \in selected : c <= d
           anew == IF counts THEN selected ELSE {}
<1>0. /\ pit \in [Counters -> Block] /\ TypeOK
      /\ half \in [Counters -> Samples \union {Unread}]
      /\ written \in [Counters -> Writes] /\ torn = FALSE
      /\ selected \in SUBSET Counters /\ selected # {}
  <2>1. program \in Programs
    BY DEF PitInv, TypeOK
  <2>2. program.readBacks \subseteq (SUBSET Counters) \ {{}}
    BY <2>1, ProgramTypes
  <2>3. selected \in SUBSET Counters /\ selected # {}
    BY <2>2
  <2>4. QED
    BY <2>3 DEF PitInv, TypeOK, Writes
<1>1. first \in selected /\ first \in Counters
  BY <1>0, FirstCounter
<1> HIDE DEF first
<1>2. PICK s \in [selected -> Samples] :
         IF status THEN StatusLatch(Blocks(s), first)
                   ELSE pit' = Blocks(s) /\ UNCHANGED statusVars
  BY DEF ReadBack, first
<1> DEFINE blocks == Blocks(s)
<1>3. \A c \in Counters :
         /\ blocks[c] \in Block
         /\ SameCount(pit[c], blocks[c]) /\ SameMode(pit[c], blocks[c])
         /\ SameStatus(pit[c], blocks[c])
         /\ c \notin anew => blocks[c] = pit[c]
  <2> SUFFICES ASSUME NEW c \in Counters
               PROVE  /\ blocks[c] \in Block
                      /\ SameCount(pit[c], blocks[c]) /\ SameMode(pit[c], blocks[c])
                      /\ SameStatus(pit[c], blocks[c])
                      /\ c \notin anew => blocks[c] = pit[c]
    OBVIOUS
  <2>1. CASE counts /\ c \in selected
    <3>1. blocks[c] = Latched(pit[c], s[c]) /\ s[c] \in Samples /\ c \in anew
      BY <2>1
    <3>2. pit[c] \in Block
      BY <1>0
    <3> HIDE DEF blocks, anew
    <3>3. QED
      BY <3>1, <3>2, LatchedBlock
  <2>2. CASE ~(counts /\ c \in selected)
    <3>1. blocks[c] = pit[c]
      BY <2>2
    <3> HIDE DEF blocks, anew
    <3>2. QED
      BY <1>0, <3>1 DEF SameCount, SameMode, SameStatus
  <2>3. QED
    BY <2>1, <2>2
<1>4. blocks \in [Counters -> Block]
  BY <1>3
<1>5. IF status THEN StatusLatch(blocks, first)
                ELSE pit' = blocks /\ UNCHANGED statusVars
  BY <1>2
<1>6. /\ half' = [c \in Counters |-> IF c \in anew THEN Unread ELSE half[c]]
      /\ UNCHANGED <<program, eventVars, written, torn>>
  BY DEF ReadBack, ReadsAnew
<1> HIDE DEF blocks, anew, Blocks
<1>7. /\ StatusLatchOwned' /\ pit' \in [Counters -> Block]
      /\ latched_timerstatus' \in [of : Counters \union {Nobody}, mode : 0 .. 5]
      /\ latched_timerstatus_locked' \in BOOLEAN
      /\ \A d \in Counters : /\ SameCount(blocks[d], pit'[d])
                             /\ SameMode(blocks[d], pit'[d])
                             /\ SameLatch(blocks[d], pit'[d])
  <2>1. CASE status
    BY <1>1, <1>3, <1>4, <1>5, <2>1, StatusLatchStep
  <2>2. CASE ~status
    <3>1. pit' = blocks /\ UNCHANGED statusVars
      BY <1>5, <2>2
    <3>2. StatusLatchOwned'
      BY <1>3, <3>1, StatusKept
    <3>3. QED
      BY <1>0, <1>4, <3>1, <3>2
         DEF TypeOK, statusVars, SameCount, SameMode, SameLatch
  <2>3. QED
    BY <2>1, <2>2
<1>8. \A c \in Counters :
         /\ SameMode(pit[c], pit'[c]) /\ SameCount(pit[c], pit'[c])
         /\ c \in anew => half'[c] = Unread
         /\ c \notin anew => half'[c] = half[c] /\ SameLatch(pit[c], pit'[c])
  BY <1>3, <1>6, <1>7 DEF SameMode, SameCount, SameLatch
<1>9. /\ half' \in [Counters -> Samples \union {Unread}]
      /\ written' \in [Counters -> Writes]
  BY <1>0, <1>6
<1>10. \A c \in Counters : WriteInv(pit'[c], written'[c])
  BY <1>0, <1>6, <1>7, <1>8, CountersKept
<1>11. \A c \in Counters : ReadInv(pit'[c], half'[c])
  BY <1>8, LatchesKept
<1>12. QED
  BY <1>0, <1>6, <1>7, <1>8, <1>9, <1>10, <1>11, LatchStep

\* The status is read once.
LEMMA ReadStatusStep ==
    ASSUME PitInv, NEW c \in Counters, ReadStatus(c)
    PROVE  PitInv'
<1> DEFINE q == [pit[c] EXCEPT !.counterstatus_set = FALSE]
<1>0. /\ pit \in [Counters -> Block] /\ TypeOK /\ pit[c].counterstatus_set
      /\ half \in [Counters -> Samples \union {Unread}]
      /\ written \in [Counters -> Writes]
      /\ pit' = [pit EXCEPT ![c] = q] /\ Unlocks /\ torn = FALSE
      /\ UNCHANGED <<program, eventVars, written, half, torn>>
  BY DEF PitInv, TypeOK, Writes, ReadStatus, ghostVars
<1>1. /\ q \in Block /\ ~q.counterstatus_set /\ SameCount(pit[c], q)
      /\ SameMode(pit[c], q) /\ SameLatch(pit[c], q)
  <2>1. pit[c] \in Block
    BY <1>0
  <2>2. QED
    BY <2>1, StatusSet
<1> HIDE DEF q
<1>2. /\ pit' \in [Counters -> Block] /\ pit'[c] = q
      /\ \A d \in Counters \ {c} : pit'[d] = pit[d]
  BY <1>0, <1>1
<1>3. \A d \in Counters : /\ SameCount(pit[d], pit'[d])
                          /\ SameMode(pit[d], pit'[d])
                          /\ SameLatch(pit[d], pit'[d])
                          /\ d # c => SameStatus(pit[d], pit'[d])
  BY <1>1, <1>2 DEF SameCount, SameMode, SameLatch, SameStatus
<1>4. StatusLatchOwned'
  BY <1>0, <1>1, <1>2, <1>3, StatusUnlocked
<1>5. /\ latched_timerstatus' \in [of : Counters \union {Nobody}, mode : 0 .. 5]
      /\ latched_timerstatus_locked' \in BOOLEAN
  <2>1. NoStatus \in [of : Counters \union {Nobody}, mode : 0 .. 5]
    BY DEF NoStatus
  <2>2. QED
    BY <1>0, <2>1 DEF Unlocks
<1>6. \A d \in Counters : WriteInv(pit'[d], written'[d])
  BY <1>0, <1>2, <1>3, CountersKept
<1>7. \A d \in Counters : ReadInv(pit'[d], half'[d])
  BY <1>0, <1>3, LatchesKept
<1>8. QED
  BY <1>0, <1>2, <1>3, <1>4, <1>5, <1>6, <1>7, LatchStep

\* The MSB is that of the count whose LSB was read.
LEMMA ReadCountStep ==
    ASSUME PitInv, NEW c \in Counters, ReadCount(c)
    PROVE  PitInv'
<1> DEFINE P(s) == IF pit[c].go_read_latch THEN Latched(pit[c], s) ELSE pit[c]
           Q(p) == [p EXCEPT !.read_state = Flipped(p.read_state),
                             !.go_read_latch = Releases(p.read_state) \/ @]
<1>0. /\ pit \in [Counters -> Block] /\ TypeOK
      /\ half \in [Counters -> Samples \union {Unread}]
      /\ written \in [Counters -> Writes] /\ torn = FALSE
      /\ UNCHANGED <<program, statusVars, eventVars, written>>
  BY DEF PitInv, TypeOK, Writes, ReadCount
<1>1. PICK s \in Samples :
         /\ pit' = [pit EXCEPT ![c] = Q(P(s))]
         /\ half' = [half EXCEPT ![c] = IF P(s).read_state = Both
                                       THEN P(s).read_latch ELSE Unread]
         /\ torn' = (torn \/ half[c] \notin {Unread, P(s).read_latch})
  BY DEF ReadCount
<1> DEFINE p == P(s)
           q == Q(p)
<1>2. /\ p \in Block /\ SameCount(pit[c], p) /\ SameMode(pit[c], p)
      /\ SameStatus(pit[c], p) /\ p.go_read_latch = FALSE
      /\ ~pit[c].go_read_latch => p = pit[c]
  <2>1. CASE pit[c].go_read_latch
    BY <1>0, <2>1, LatchedBlock
  <2>2. CASE ~pit[c].go_read_latch
    BY <1>0, <2>2 DEF Block, SameCount, SameMode, SameStatus
  <2>3. QED
    BY <2>1, <2>2
<1>3. /\ pit' = [pit EXCEPT ![c] = q]
      /\ half' = [half EXCEPT ![c] = IF p.read_state = Both
                                    THEN p.read_latch ELSE Unread]
      /\ torn' = (torn \/ half[c] \notin {Unread, p.read_latch})
  BY <1>1
<1> HIDE DEF p, P
<1>4. /\ q \in Block /\ SameCount(p, q) /\ SameMode(p, q) /\ SameStatus(p, q)
      /\ p.read_state = Both => SameLatch(p, q)
  <2> DEFINE st == Flipped(p.read_state)
             go == Releases(p.read_state) \/ p.go_read_latch
  <2>1. /\ p.read_state \in 0 .. 3 /\ st \in 0 .. 3 /\ go \in BOOLEAN
        /\ p.read_state = Both => go = FALSE
    BY <1>2 DEF Block, Flipped, Both, BothSecond, Releases
  <2>2. q = [p EXCEPT !.read_state = st, !.go_read_latch = go]
    BY <1>2 DEF Block
  <2> HIDE DEF st, go, q
  <2>3. QED
    BY <1>2, <2>1, <2>2
       DEF Block, SameCount, SameMode, SameStatus, SameLatch
<1> HIDE DEF q, Q
<1>5. /\ pit' \in [Counters -> Block] /\ pit'[c] = q
      /\ \A d \in Counters \ {c} : pit'[d] = pit[d]
  BY <1>0, <1>3, <1>4
<1>6. \A d \in Counters : /\ SameCount(pit[d], pit'[d])
                          /\ SameMode(pit[d], pit'[d])
                          /\ SameStatus(pit[d], pit'[d])
  BY <1>2, <1>4, <1>5 DEF SameCount, SameMode, SameStatus
<1>7. /\ half' \in [Counters -> Samples \union {Unread}]
      /\ half'[c] = IF p.read_state = Both THEN p.read_latch ELSE Unread
      /\ \A d \in Counters \ {c} : half'[d] = half[d]
  <2>1. p.read_latch \in Samples \union {Unread}
    BY <1>2 DEF Block
  <2>2. QED
    BY <1>0, <1>3, <2>1
<1>8. ASSUME NEW d \in Counters
      PROVE  ReadInv(pit'[d], half'[d])
  <2>1. CASE d = c
    BY <1>2, <1>4, <1>5, <1>7, <2>1 DEF ReadInv, SameLatch
  <2>2. CASE d # c
    BY <1>5, <1>7, <2>2 DEF PitInv
  <2>3. QED
    BY <2>1, <2>2
<1>9. torn' = FALSE
  <2>1. ReadInv(pit[c], half[c])
    BY DEF PitInv
  <2>2. half[c] \in {Unread, p.read_latch}
    BY <1>2, <2>1 DEF ReadInv
  <2>3. QED
    BY <1>0, <1>3, <2>2, Zenon
<1>10. StatusLatchOwned'
  BY <1>0, <1>6, StatusKept
<1>11. \A d \in Counters : WriteInv(pit'[d], written'[d])
  BY <1>0, <1>5, <1>6, CountersKept
<1>12. /\ latched_timerstatus' \in [of : Counters \union {Nobody}, mode : 0 .. 5]
       /\ latched_timerstatus_locked' \in BOOLEAN
  BY <1>0 DEF TypeOK, statusVars
<1>13. QED
  BY <1>0, <1>5, <1>6, <1>7, <1>8, <1>9, <1>10, <1>11, <1>12, LatchStep

\* An opened gate changes no count.
LEMMA OpenGateStep ==
    ASSUME PitInv, NEW c \in Counters, OpenGate(c)
    PROVE  PitInv'
<1> DEFINE on == (pit[c].mode = 1) \/ pit[c].counting
           q == [pit[c] EXCEPT !.gate = TRUE, !.counting = on]
<1>0. /\ pit \in [Counters -> Block] /\ pit[c] \in Block
      /\ half \in [Counters -> Samples \union {Unread}]
      /\ UNCHANGED <<program, statusVars, eventVars, written, half, torn>>
      /\ on \in BOOLEAN
  BY DEF PitInv, TypeOK, OpenGate, ghostVars
<1>1. pit' = [pit EXCEPT ![c] = q]
  BY <1>0 DEF OpenGate, Block
<1> HIDE DEF on
<1>2. /\ q \in Block /\ SameCount(pit[c], q) /\ SameMode(pit[c], q)
      /\ SameStatus(pit[c], q) /\ SameLatch(pit[c], q)
  BY <1>0 DEF Block, SameCount, SameMode, SameStatus, SameLatch
<1> HIDE DEF q
<1>3. /\ pit' \in [Counters -> Block] /\ pit'[c] = q
      /\ \A d \in Counters \ {c} : pit'[d] = pit[d]
  BY <1>0, <1>1, <1>2
<1>4. \A d \in Counters :
         /\ SameCount(pit[d], pit'[d]) /\ SameMode(pit[d], pit'[d])
         /\ SameStatus(pit[d], pit'[d]) /\ SameLatch(pit[d], pit'[d])
  BY <1>2, <1>3 DEF SameCount, SameMode, SameStatus, SameLatch
<1>5. QED
  BY <1>0, <1>3, <1>4, BlocksStep

\* What a closing gate leaves of a counter: in mode 0 it is the count that was
\* latched, whatever was written.
LEMMA ClosedBlock ==
    ASSUME NEW p \in Block, NEW s \in Samples, p.gate
    PROVE  LET l == Latched(p, s)
               q == [l EXCEPT !.gate = FALSE,
                              !.cntr = IF l.mode = 0 THEN l.read_latch ELSE @]
           IN  /\ q \in Block /\ SameMode(p, q) /\ SameStatus(p, q)
               /\ q.write_latch = p.write_latch
               /\ q.write_state = p.write_state
               /\ p.mode # 0 => q.cntr = p.cntr
<1> DEFINE l == Latched(p, s)
           n == IF l.mode = 0 THEN l.read_latch ELSE l.cntr
           q == [l EXCEPT !.gate = FALSE, !.cntr = n]
<1>1. /\ l \in Block /\ SameCount(p, l) /\ SameMode(p, l) /\ SameStatus(p, l)
      /\ p.mode = 0 => l.read_latch = s
  BY LatchedBlock
<1> HIDE DEF l
<1>2. n \in 1 .. Base * Base /\ (p.mode # 0 => n = p.cntr)
  BY <1>1, BaseFacts DEF Block, SameCount, SameMode
<1>3. q = [l EXCEPT !.gate = FALSE,
                    !.cntr = IF l.mode = 0 THEN l.read_latch ELSE @]
  BY <1>1 DEF Block
<1> HIDE DEF n
<1>4. /\ q \in Block /\ SameMode(l, q) /\ SameStatus(l, q) /\ q.cntr = n
      /\ q.write_latch = l.write_latch /\ q.write_state = l.write_state
  BY <1>1, <1>2 DEF Block, SameMode, SameStatus
<1> HIDE DEF q
<1>5. QED
  BY <1>1, <1>2, <1>3, <1>4 DEF l, SameMode, SameStatus, SameCount

\* A closed gate keeps the count as it is, or in mode 0 as it was latched.
LEMMA CloseGateStep ==
    ASSUME PitInv, NEW c \in Counters, CloseGate(c)
    PROVE  PitInv'
<1> DEFINE w == written[c]
           clear == pit[c].mode = 0 /\ Complete(c)
           l(s) == Latched(pit[c], s)
           q(s) == [l(s) EXCEPT !.gate = FALSE,
                                !.cntr = IF l(s).mode = 0 THEN l(s).read_latch
                                                          ELSE @]
           off == [pit[c] EXCEPT !.gate = FALSE]
           v == [w EXCEPT !.bytes = <<>>]
<1>0. /\ pit \in [Counters -> Block] /\ TypeOK /\ pit[c] \in Block /\ pit[c].gate
      /\ half \in [Counters -> Samples \union {Unread}]
      /\ written \in [Counters -> Writes] /\ w \in Writes
      /\ WriteInv(pit[c], w) /\ torn = FALSE
      /\ written' = IF clear THEN [written EXCEPT ![c] = v] ELSE written
      /\ UNCHANGED <<program, statusVars, eventVars>>
  BY DEF PitInv, TypeOK, Writes, CloseGate
\* The counter after its gate was closed.
<1>1. PICK r \in Block :
         /\ pit' = [pit EXCEPT ![c] = r]
         /\ SameMode(pit[c], r) /\ SameStatus(pit[c], r)
         /\ r.write_latch = pit[c].write_latch
         /\ r.write_state = pit[c].write_state
         /\ pit[c].mode # 0 => r.cntr = pit[c].cntr
         /\ \/ ReadsAnew({c})
            \/ SameLatch(pit[c], r) /\ ReadsAnew({})
  <2>1. CASE pit[c].mode \in {0, 2, 3}
    <3>1. PICK s \in Samples : pit' = [pit EXCEPT ![c] = q(s)]
      BY <2>1 DEF CloseGate
    <3>2. /\ q(s) \in Block
          /\ SameMode(pit[c], q(s)) /\ SameStatus(pit[c], q(s))
          /\ q(s).write_latch = pit[c].write_latch
          /\ q(s).write_state = pit[c].write_state
          /\ pit[c].mode # 0 => q(s).cntr = pit[c].cntr
      BY <1>0, ClosedBlock
    <3>3. ReadsAnew({c})
      BY <2>1 DEF CloseGate
    <3> HIDE DEF q
    <3>4. QED
      BY <3>1, <3>2, <3>3
  <2>2. CASE pit[c].mode \notin {0, 2, 3}
    <3>1. pit' = [pit EXCEPT ![c] = off] /\ ReadsAnew({})
      BY <2>2 DEF CloseGate
    <3>2. /\ off \in Block /\ SameMode(pit[c], off) /\ SameStatus(pit[c], off)
          /\ off.write_latch = pit[c].write_latch
          /\ off.write_state = pit[c].write_state
          /\ off.cntr = pit[c].cntr /\ SameLatch(pit[c], off)
      BY <1>0 DEF Block, SameMode, SameStatus, SameLatch
    <3> HIDE DEF off
    <3>3. QED
      BY <3>1, <3>2
  <2>3. QED
    BY <2>1, <2>2
<1>2. /\ v \in Writes /\ v.access = w.access /\ v.bytes = <<>>
  <2>1. <<>> \in Seq(0 .. Base - 1)
    OBVIOUS
  <2>2. QED
    BY <1>0, <2>1 DEF Writes
<1>3. clear <=> pit[c].mode = 0 /\ IsComplete(w)
  BY DEF Complete, IsComplete
<1> HIDE DEF w, v, clear
<1>4. /\ pit' \in [Counters -> Block] /\ pit'[c] = r
      /\ \A d \in Counters \ {c} : pit'[d] = pit[d]
  BY <1>0, <1>1
<1>5. /\ written' \in [Counters -> Writes]
      /\ written'[c] = IF clear THEN v ELSE w
      /\ \A d \in Counters \ {c} : written'[d] = written[d]
  BY <1>0, <1>2 DEF w
<1>6. ASSUME NEW d \in Counters
      PROVE  WriteInv(pit'[d], written'[d])
  <2>1. CASE d = c /\ clear
    <3>1. written'[c] = v /\ Len(v.bytes) = 0 /\ Len(v.bytes) <= 2
      BY <1>2, <1>5, <2>1
    <3>2. /\ w.access = Both => r.write_state = Both
          /\ w.access # Both => r.write_state = w.access
      <4>1. IsComplete(w)
        BY <1>3, <2>1, Zenon
      <4>2. WriteInv(pit[c], w) /\ r.write_state = pit[c].write_state
        BY <1>0, <1>1
      <4>3. QED
        BY <4>1, <4>2 DEF WriteInv, IsComplete
    <3>3. WriteInv(r, v)
      BY <1>2, <3>1, <3>2 DEF WriteInv, IsComplete
    <3>4. QED
      BY <1>4, <2>1, <3>1, <3>3
  <2>2. CASE d = c /\ ~clear
    BY <1>0, <1>1, <1>3, <1>4, <1>5, <2>2 DEF WriteInv
  <2>3. CASE d # c
    BY <1>4, <1>5, <2>3 DEF PitInv
  <2>4. QED
    BY <2>1, <2>2, <2>3
<1>7. /\ torn' = FALSE /\ half' \in [Counters -> Samples \union {Unread}]
      /\ \A d \in Counters : \/ half'[d] = Unread
                             \/ half'[d] = half[d] /\ SameLatch(pit[d], pit'[d])
  BY <1>0, <1>1, <1>4 DEF ReadsAnew, SameLatch
<1>8. \A d \in Counters : ReadInv(pit'[d], half'[d])
  BY <1>7, LatchesKept
<1>9. \A d \in Counters : /\ SameMode(pit[d], pit'[d])
                          /\ SameStatus(pit[d], pit'[d])
  BY <1>1, <1>4 DEF SameMode, SameStatus
<1>10. StatusLatchOwned'
  BY <1>0, <1>9, StatusKept
<1>11. /\ latched_timerstatus' \in [of : Counters \union {Nobody}, mode : 0 .. 5]
       /\ latched_timerstatus_locked' \in BOOLEAN
  BY <1>0 DEF TypeOK, statusVars
<1>12. QED
  BY <1>0, <1>4, <1>5, <1>6, <1>7, <1>8, <1>9, <1>10, <1>11, LatchStep

-----------------------------------------------------------------------------
(* Theorems *)

\* Before the first control word nothing was written or read, and the two
\* timers have the event of their output.
LEMMA PitInvInit ==
    ASSUME Init
    PROVE  PitInv
<1> DEFINE fresh == [c \in Counters |-> pit[c].new_mode]
           nothing == [access |-> Both, bytes |-> <<>>]
<1>0. /\ program \in Programs /\ latched_timerstatus = NoStatus
      /\ latched_timerstatus_locked = FALSE
      /\ events = [t \in Timers |-> 1] /\ timedBy = [t \in Timers |-> t]
      /\ written = [c \in Counters |-> nothing]
      /\ half = [c \in Counters |-> Unread] /\ torn = FALSE
      /\ Timers \subseteq Counters /\ Fresh \subseteq [Counters -> BOOLEAN]
      /\ LSB \in 0 .. 3 /\ Both \in 0 .. 3 /\ 0 \in 0 .. Base - 1
      /\ Base * Base \in 1 .. Base * Base
  <2>1. Base * Base \in 1 .. Base * Base /\ 0 \in 0 .. Base - 1
    BY BaseFacts
  <2>2. QED
    BY <2>1, PitAssumption DEF Init, Timers, Counters, LSB, Both
<1>1. pit \in [Counters -> Block]
  <2>1. PICK f \in Fresh :
          pit = [c \in Counters |->
                  [cntr |-> Base * Base, delay |-> Base * Base,
                   read_latch |-> Unread, write_latch |-> 0,
                   mode |-> IF c = 2 THEN 3 ELSE 2,
                   read_state |-> IF c = 1 THEN LSB ELSE Both,
                   write_state |-> Both, go_read_latch |-> TRUE,
                   new_mode |-> f[c], counterstatus_set |-> FALSE,
                   counting |-> FALSE, update_count |-> FALSE,
                   gate |-> FALSE]]
    BY DEF Init
  <2>2. \A c \in Counters : f[c] \in BOOLEAN
    BY <1>0
  <2>3. QED
    BY <1>0, <2>1, <2>2 DEF Block
<1>2. \A c \in Counters : /\ pit[c].write_state = Both
                          /\ ~pit[c].counterstatus_set
                          /\ pit[c].mode # 0
  BY DEF Init
<1>3. nothing \in Writes /\ Len(nothing.bytes) = 0
  BY DEF Writes
<1>4. TypeOK
  <2>1. NoStatus \in [of : Counters \union {Nobody}, mode : 0 .. 5]
    BY DEF NoStatus
  <2>2. events \in [Timers -> 0 .. 2] /\ timedBy \in [Timers -> Counters]
    BY <1>0
  <2>3. written \in [Counters -> Writes]
    BY <1>0, <1>3
  <2>4. QED
    BY <1>0, <1>1, <2>1, <2>2, <2>3 DEF TypeOK, Writes
<1>5. ASSUME NEW c \in Counters
      PROVE  WriteInv(pit[c], written[c]) /\ ReadInv(pit[c], half[c])
  <2>1. /\ written[c].access = Both /\ Len(written[c].bytes) = 0
        /\ half[c] = Unread
    BY <1>0
  <2>2. QED
    BY <1>2, <2>1 DEF WriteInv, ReadInv, IsComplete
<1>6. \A t \in Timers : EventInv(pit[t], events[t])
  BY <1>0 DEF EventInv
<1>7. StatusLatchOwned
  BY <1>0, <1>2, Zenon DEF StatusLatchOwned
<1>8. QED
  BY <1>0, <1>4, <1>5, <1>6, <1>7 DEF PitInv

\* Whatever is written, latched, read or scheduled next.
LEMMA PitInvInductive ==
    ASSUME PitInv, [Next]_vars
    PROVE  PitInv'
<1>0. /\ program.words \subseteq [counter : Counters,
                                  access : {LSB, MSB, Both}, mode : 0 .. 5]
      /\ program.reads \subseteq Counters /\ program.gates \subseteq Counters
      /\ \A c \in Counters : program.bytes[c] \subseteq 0 .. Base - 1
  BY ProgramTypes DEF PitInv, TypeOK
<1>1. CASE Writing
  <2>1. PICK c \in Counters :
           \E byte \in program.bytes[c] :
              WriteFirst(c, byte) \/ WriteDeferred(c, byte) \/ WriteLoads(c, byte)
    BY <1>1 DEF Writing
  <2>2. program.bytes[c] \subseteq 0 .. Base - 1
    BY <1>0
  <2>3. QED
    BY <2>1, <2>2, WriteFirstStep, WriteDeferredStep, WriteLoadsStep
<1>2. CASE \E word \in program.words : Program(word)
  BY <1>2, ProgramStep
<1>3. CASE \E c \in program.reads : LatchCommand(c)
  BY <1>0, <1>3, LatchCommandStep
<1>4. CASE \E selected \in program.readBacks, counts, status \in BOOLEAN :
              ReadBack(selected, counts, status)
  BY <1>4, ReadBackStep
<1>5. CASE \E c \in program.gates : OpenGate(c) \/ CloseGate(c)
  BY <1>0, <1>5, OpenGateStep, CloseGateStep
<1>6. CASE Reading
  BY <1>0, <1>6, ReadStatusStep, ReadCountStep DEF Reading
<1>7. CASE \E t \in Timers : TimerEvent(t)
  BY <1>7, TimerEventStep
<1>8. CASE UNCHANGED vars
  <2>1. UNCHANGED <<program, pit, latched_timerstatus,
                    latched_timerstatus_locked, events, timedBy, written, half,
                    torn>>
    BY <1>8 DEF vars, statusVars, eventVars, ghostVars
  <2>2. QED
    BY <2>1 DEF PitInv, TypeOK, WriteInv, ReadInv, EventInv, StatusLatchOwned,
                IsComplete
<1>9. QED
  BY <1>1, <1>2, <1>3, <1>4, <1>5, <1>6, <1>7, <1>8 DEF Next, Controlling

\* write_ctrl(), write_latch(), read_latch(), the timer events: the flip-flops,
\* the latches and the events of the timers stay in step with each other.
THEOREM PitInvariant == Spec => []PitInv
<1>1. Init => PitInv
  BY PitInvInit
<1>2. PitInv /\ [Next]_vars => PitInv'
  BY PitInvInductive
<1>3. QED
  BY <1>1, <1>2, PTL DEF Spec

\* write_latch(): a counter has the count that its bytes say, and 0 stands for
\* the largest one, for every size of a byte and in every order of control
\* words, latch commands, reads and writes.
THEOREM CountsAreLoaded == Spec => []LoadedCount
<1>1. PitInv => LoadedCount
  <2> SUFFICES ASSUME PitInv, NEW c \in Counters, Complete(c)
               PROVE  pit[c].cntr = Full(WordOf(written[c]))
    BY DEF LoadedCount, WordOf
  <2>1. WriteInv(pit[c], written[c]) /\ IsComplete(written[c])
    BY DEF PitInv, Complete, IsComplete
  <2>2. QED
    BY <2>1 DEF WriteInv
<1>2. QED
  BY <1>1, PitInvariant, PTL

\* read_latch(): the MSB that follows an LSB is of the count that was latched
\* for both, although the counter goes on in between.
THEOREM CountsAreReadWhole == Spec => []ReadsWhole
<1>1. PitInv => ReadsWhole
  BY DEF PitInv, ReadsWhole
<1>2. QED
  BY <1>1, PitInvariant, PTL

\* status_latch(), write_ctrl(), read_latch(): the one latched status is that
\* of the only counter that has one to be read, as this counter is programmed.
THEOREM OneStatusIsLatched == Spec => []StatusLatchOwned
<1>1. PitInv => StatusLatchOwned
  BY DEF PitInv
<1>2. QED
  BY <1>1, PitInvariant, PTL

\* UpdateMode(), UpdateLatch(), RestartIRQ(): a timer that was given a periodic
\* mode and a count has an event pending, so it never stops.
THEOREM TimersGoOn == Spec => []TimersRun
<1>1. PitInv => TimersRun
  <2> SUFFICES ASSUME PitInv, NEW t \in Timers, pit[t].mode # 0,
                      ~pit[t].new_mode
               PROVE  events[t] > 0
    BY DEF TimersRun
  <2>1. EventInv(pit[t], events[t])
    BY DEF PitInv
  <2>2. QED
    BY <2>1 DEF EventInv
<1>2. QED
  BY <1>1, PitInvariant, PTL

\* write_latch(), UpdateLatch(): every count fits its two bytes, and no timer
\* has more than two events.
THEOREM CountsFit == Spec => []TypeOK
<1>1. PitInv => TypeOK
  BY DEF PitInv
<1>2. QED
  BY <1>1, PitInvariant, PTL
=============================================================================
