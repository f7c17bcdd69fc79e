---------------------------- MODULE ImfcCardProofs ----------------------------
(***************************************************************************)
(* For a FIFO of any size, and the callback and a port read interleaved in *)
(* any way: a read of a FIFO that holds a byte takes the next one.  For a  *)
(* stream of any length and any bytes: the filter neither loses nor        *)
(* invents a byte.                                                         *)
(***************************************************************************)
EXTENDS ImfcCard, Integers, SequenceTheorems, TLAPS

\* Where the byte with a number is stored.
Place(n) == IF n < Size THEN n ELSE n - Size

\* How many bytes wait in the FIFO.
Waiting == IF stored >= taken THEN stored - taken ELSE stored - taken + 2 * Size

\* The byte with number n is one of them.
Waits(n) == IF stored >= taken THEN taken <= n /\ n < stored
                               ELSE taken <= n \/ n < stored

FifoTypes ==
    /\ outputFIFO \in [0 .. Size - 1 -> 0 .. 2 * Size - 1]
    /\ stored \in 0 .. 2 * Size - 1 /\ taken \in 0 .. 2 * Size - 1
    /\ arriving \in 0 .. Size - 1

\* The two positions follow the numbers of the bytes, and the FIFO has room for
\* what was announced.
PositionsInv ==
    /\ outReadPos = Place(taken)
    /\ outWritePos = Place(stored)
    /\ Waiting + arriving < Size
    /\ callback # "returned" => arriving > 0

\* Every byte that waits is in its place, and so is one before the position is
\* moved past it.
StoredInv ==
    /\ \A n \in 0 .. 2 * Size - 1 : Waits(n) => outputFIFO[Place(n)] = n
    /\ callback = "advancing" => outputFIFO[Place(stored)] = stored

\* If the FIFO held a byte when a port read began, the read found that byte.
ReadInv == reader = "loaded" /\ waited => reading = taken

CardInv ==
    FifoTypes /\ PositionsInv /\ StoredInv /\ ReadInv /\ HeldBytesInOrder

-----------------------------------------------------------------------------
(* Numbers *)

\* The FIFO has more than three entries, and there are twice as many numbers.
LEMMA SizeFacts == Size \in Nat /\ Size > 3 /\ 2 * Size \in Nat
BY CardAssumption

\* Counting on from the last number begins again.
LEMMA Wrapped ==
    ASSUME NEW m \in Nat \ {0}, NEW x \in 0 .. m + m - 1
    PROVE  x % m = IF x < m THEN x ELSE x - m
<1>1. /\ x \div m \in Int /\ x % m \in 0 .. m - 1
      /\ x = (m * (x \div m)) + (x % m)
  OBVIOUS
<1>2. PICK q \in Int : q = x \div m
  BY <1>1
<1>3. \A w \in Nat \ {0}, a \in Int :
        /\ a <= -1 => w * a <= -w
        /\ a >= 2 => w * a >= w + w
        /\ a = 0 => w * a = 0
        /\ a = 1 => w * a = w
        /\ w * a \in Int
  <2> SUFFICES ASSUME NEW w \in Nat \ {0}, NEW a \in Int
               PROVE  /\ a <= -1 => w * a <= -w
                      /\ a >= 2 => w * a >= w + w
                      /\ a = 0 => w * a = 0
                      /\ a = 1 => w * a = w
                      /\ w * a \in Int
    OBVIOUS
  <2>1. a <= -1 => w * (-1 - a) >= 0
    OBVIOUS
  <2>2. a >= 2 => w * (a - 2) >= 0
    OBVIOUS
  <2>3. QED
    BY <2>1, <2>2
<1>4. q = 0 \/ q = 1
  BY <1>1, <1>2, <1>3
<1>5. (x % m = x) \/ (x % m = x - m)
  BY <1>1, <1>2, <1>3, <1>4
<1>6. QED
  BY <1>1, <1>5

\* The numbers run through twice as many values as the FIFO has entries.
LEMMA NextNumber ==
    ASSUME NEW n \in 0 .. 2 * Size - 1
    PROVE  /\ (n + 1) % (2 * Size) = IF n + 1 = 2 * Size THEN 0 ELSE n + 1
           /\ (n + 1) % (2 * Size) \in 0 .. 2 * Size - 1
           /\ Place(n) \in 0 .. Size - 1
           /\ Place((n + 1) % (2 * Size)) =
                 IF Place(n) + 1 >= Size THEN 0 ELSE Place(n) + 1
<1>1. PICK m \in Nat \ {0} : m = 2 * Size
  BY SizeFacts
<1>2. PICK x \in 0 .. m + m - 1 : x = n + 1
  BY <1>1, SizeFacts
<1>3. x % m = IF x < m THEN x ELSE x - m
  BY Wrapped
<1>4. QED
  BY <1>1, <1>2, <1>3, SizeFacts DEF Place

\* The guard of AddToFifo() counts the bytes that wait.
LEMMA WaitingCounted ==
    ASSUME FifoTypes
    PROVE  /\ (stored + 2 * Size - taken) % (2 * Size) = Waiting
           /\ Waiting \in 0 .. 2 * Size - 1
<1>1. PICK m \in Nat \ {0} : m = 2 * Size
  BY SizeFacts
<1>2. stored \in 0 .. m - 1 /\ taken \in 0 .. m - 1
  BY <1>1 DEF FifoTypes
<1>3. PICK x \in 0 .. m + m - 1 : x = stored + m - taken
  BY <1>2
<1>4. x % m = IF x < m THEN x ELSE x - m
  BY Wrapped
<1>5. Waiting = (IF stored >= taken THEN stored - taken ELSE stored - taken + m)
  BY <1>1 DEF Waiting
<1>6. x % m = Waiting /\ Waiting \in 0 .. m - 1
  BY <1>2, <1>3, <1>4, <1>5
<1>7. QED
  BY <1>1, <1>3, <1>6

-----------------------------------------------------------------------------
(* Steps *)

\* What a step that moves no byte keeps.
LEMMA FifoKept ==
    ASSUME CardInv,
           UNCHANGED <<outReadPos, taken, got, outputFIFO, outWritePos,
                       callback, arriving, stored, reader, reading, waited>>
    PROVE  CardInv'
BY DEF CardInv, FifoTypes, PositionsInv, StoredInv, ReadInv, HeldBytesInOrder,
       Waiting, Waits

\* AddToFifo() announces no more bytes than there is room for.
LEMMA AddToFifoStep ==
    ASSUME CardInv, NEW count \in Int, count > 0, AddToFifo(count)
    PROVE  CardInv'
<1>1. /\ Waiting + count < Size /\ arriving' = count
      /\ callback' = "announced"
      /\ UNCHANGED <<outReadPos, taken, got, outputFIFO, outWritePos, stored,
                     reader, reading, waited>>
  BY WaitingCounted DEF AddToFifo, readVars, CardInv
<1>2. count \in 0 .. Size - 1
  BY <1>1, WaitingCounted, SizeFacts DEF CardInv
<1>3. QED
  BY <1>1, <1>2 DEF CardInv, FifoTypes, PositionsInv, StoredInv, ReadInv,
                    HeldBytesInOrder, Waiting, Waits

\* The interrupt that announces bytes moves none.
LEMMA AddToFifoEventStep ==
    ASSUME CardInv, AddToFifoEvent
    PROVE  CardInv'
<1>1. /\ callback = "announced" /\ callback' = "storing"
      /\ UNCHANGED <<outReadPos, taken, got, outputFIFO, outWritePos, arriving,
                     stored, reader, reading, waited>>
  BY DEF AddToFifoEvent, readVars
<1>2. QED
  BY <1>1 DEF CardInv, FifoTypes, PositionsInv, StoredInv, ReadInv,
              HeldBytesInOrder, Waiting, Waits

\* A byte is stored where none waits.
LEMMA AddToFifoStoreStep ==
    ASSUME CardInv, AddToFifoStore
    PROVE  CardInv'
<1>1. /\ callback = "storing" /\ callback' = "advancing"
      /\ outputFIFO' = [outputFIFO EXCEPT ![outWritePos] = stored]
      /\ UNCHANGED <<outReadPos, taken, got, outWritePos, arriving, stored,
                     reader, reading, waited>>
  BY DEF AddToFifoStore, readVars
<1>2. /\ outputFIFO \in [0 .. Size - 1 -> 0 .. 2 * Size - 1]
      /\ stored \in 0 .. 2 * Size - 1 /\ taken \in 0 .. 2 * Size - 1
      /\ arriving \in 0 .. Size - 1 /\ arriving > 0
      /\ outWritePos = Place(stored) /\ Waiting + arriving < Size /\ StoredInv
  BY <1>1 DEF CardInv, FifoTypes, PositionsInv
<1>3. Place(stored) \in 0 .. Size - 1
  BY <1>2, NextNumber
<1>4. Waiting + 1 < Size
  <2>1. Waiting \in Int
    BY WaitingCounted, SizeFacts DEF CardInv
  <2>2. Waiting + arriving < Size /\ arriving > 0 /\ arriving \in Int
    BY <1>2
  <2> HIDE DEF Waiting
  <2>3. QED
    BY <2>1, <2>2, SizeFacts
<1>5. ASSUME NEW n \in 0 .. 2 * Size - 1, Waits(n)
      PROVE  outputFIFO'[Place(n)] = n
  <2>1. Place(n) # Place(stored) /\ Place(n) \in 0 .. Size - 1
    BY <1>2, <1>4, <1>5, SizeFacts DEF Waits, Waiting, Place
  <2>2. outputFIFO[Place(n)] = n
    BY <1>2, <1>5 DEF StoredInv
  <2>3. QED
    BY <1>1, <1>2, <2>1, <2>2
<1>6. outputFIFO'[Place(stored)] = stored
  BY <1>1, <1>2, <1>3
<1>7. StoredInv'
  BY <1>1, <1>5, <1>6 DEF StoredInv, Place, Waits
<1>8. FifoTypes'
  BY <1>1, <1>2, <1>3 DEF FifoTypes
<1>9. PositionsInv' /\ ReadInv' /\ HeldBytesInOrder'
  BY <1>1 DEF CardInv, PositionsInv, ReadInv, HeldBytesInOrder, Waiting, Place
<1>10. QED
  BY <1>7, <1>8, <1>9 DEF CardInv

\* Then it waits, behind those that wait already.
LEMMA AddToFifoAdvanceStep ==
    ASSUME CardInv, AddToFifoAdvance
    PROVE  CardInv'
<1>1. /\ callback = "advancing"
      /\ outWritePos' = IF outWritePos + 1 >= Size THEN 0 ELSE outWritePos + 1
      /\ stored' = (stored + 1) % (2 * Size)
      /\ arriving' = arriving - 1
      /\ callback' = IF arriving = 1 THEN "returned" ELSE "storing"
      /\ UNCHANGED <<outReadPos, taken, got, outputFIFO, reader, reading,
                     waited>>
  BY DEF AddToFifoAdvance, readVars
<1>2. /\ outputFIFO \in [0 .. Size - 1 -> 0 .. 2 * Size - 1]
      /\ stored \in 0 .. 2 * Size - 1 /\ taken \in 0 .. 2 * Size - 1
      /\ arriving \in 0 .. Size - 1 /\ arriving > 0
      /\ outReadPos = Place(taken) /\ outWritePos = Place(stored)
      /\ Waiting + arriving < Size /\ StoredInv
      /\ outputFIFO[Place(stored)] = stored
  BY <1>1 DEF CardInv, FifoTypes, PositionsInv, StoredInv
<1>3. /\ stored' = IF stored + 1 = 2 * Size THEN 0 ELSE stored + 1
      /\ stored' \in 0 .. 2 * Size - 1
      /\ Place(stored) \in 0 .. Size - 1
      /\ Place(stored') = IF Place(stored) + 1 >= Size THEN 0
                                                     ELSE Place(stored) + 1
  BY <1>1, <1>2, NextNumber
<1>4. Waiting' = Waiting + 1
  <2>1. Waiting' = IF stored' >= taken THEN stored' - taken
                                       ELSE stored' - taken + 2 * Size
    BY <1>1 DEF Waiting
  <2>2. Waiting + 1 < Size
    <3>1. Waiting \in Int
      BY WaitingCounted, SizeFacts DEF CardInv
    <3>2. Waiting + arriving < Size /\ arriving > 0 /\ arriving \in Int
      BY <1>2
    <3> HIDE DEF Waiting
    <3>3. QED
      BY <3>1, <3>2, SizeFacts
  <2>3. CASE stored + 1 = 2 * Size
    <3>1. stored' = 0 /\ stored >= taken /\ Waiting = stored - taken
      BY <1>2, <1>3, <2>3, SizeFacts DEF Waiting
    <3>2. taken > 0
      BY <1>2, <2>2, <2>3, <3>1, SizeFacts
    <3>3. QED
      BY <1>2, <2>1, <2>3, <3>1, <3>2, SizeFacts
  <2>4. CASE stored + 1 # 2 * Size
    BY <1>2, <1>3, <2>1, <2>2, <2>4, SizeFacts DEF Waiting
  <2>5. QED
    BY <2>3, <2>4
<1>5. FifoTypes'
  BY <1>1, <1>2, <1>3, SizeFacts DEF FifoTypes
<1>6. PositionsInv'
  <2>1. outReadPos' = Place(taken)'
    BY <1>1, <1>2 DEF Place
  <2>2. outWritePos' = Place(stored')
    BY <1>1, <1>2, <1>3
  <2>3. Waiting' + arriving' < Size
    <3>1. Waiting \in Int
      BY WaitingCounted, SizeFacts DEF CardInv
    <3>2. Waiting + arriving < Size /\ arriving \in Int
      BY <1>2
    <3> HIDE DEF Waiting
    <3>3. QED
      BY <1>1, <1>4, <3>1, <3>2, SizeFacts
  <2>4. callback' # "returned" => arriving' > 0
    BY <1>1, <1>2
  <2>5. QED
    BY <2>1, <2>2, <2>3, <2>4 DEF PositionsInv, Place
<1>7. ASSUME NEW n \in 0 .. 2 * Size - 1, Waits(n)'
      PROVE  outputFIFO'[Place(n)] = n
  <2>1. CASE n = stored
    BY <1>1, <1>2, <2>1
  <2>2. CASE n # stored
    <3>1. Waits(n)
      BY <1>1, <1>2, <1>3, <1>7, <2>2, SizeFacts DEF Waits, Waiting
    <3>2. QED
      BY <1>1, <1>2, <3>1 DEF StoredInv
  <2>3. QED
    BY <2>1, <2>2
<1>8. StoredInv'
  BY <1>1, <1>7 DEF StoredInv, Place
<1>9. ReadInv' /\ HeldBytesInOrder'
  BY <1>1 DEF CardInv, ReadInv, HeldBytesInOrder
<1>10. QED
  BY <1>5, <1>6, <1>8, <1>9 DEF CardInv

\* A port read finds the byte at the read position, if there is one.
LEMMA ReadPIU0Step ==
    ASSUME CardInv, ReadPIU0
    PROVE  CardInv'
<1>1. /\ reading' = outputFIFO[outReadPos]
      /\ waited' = (outReadPos # outWritePos)
      /\ UNCHANGED <<outReadPos, taken, got, outputFIFO, outWritePos, callback,
                     arriving, stored>>
  BY DEF ReadPIU0, fifoVars
<1>2. ASSUME outReadPos # outWritePos
      PROVE  outputFIFO[outReadPos] = taken
  <2>1. outReadPos = Place(taken) /\ stored # taken
    BY <1>2 DEF CardInv, PositionsInv
  <2>2. taken \in 0 .. 2 * Size - 1 /\ stored \in 0 .. 2 * Size - 1
    BY DEF CardInv, FifoTypes
  <2>3. Waits(taken)
    BY <2>1, <2>2, SizeFacts DEF Waits
  <2>4. QED
    BY <2>1, <2>2, <2>3 DEF CardInv, StoredInv
<1>3. ReadInv'
  BY <1>1, <1>2 DEF ReadInv
<1>4. QED
  BY <1>1, <1>3 DEF CardInv, FifoTypes, PositionsInv, StoredInv,
                    HeldBytesInOrder, Waiting, Waits

\* The byte that is counted as taken is the first that waits; it is the one that
\* was read if the FIFO held it then.
LEMMA GetFromFifoStep ==
    ASSUME CardInv, GetFromFifo
    PROVE  CardInv'
<1>1. /\ reader = "loaded" /\ reader' # "loaded"
      /\ UNCHANGED <<outputFIFO, outWritePos, callback, arriving, stored,
                     reading, waited>>
  BY DEF GetFromFifo, Advance, fifoVars
<1>2. /\ outputFIFO \in [0 .. Size - 1 -> 0 .. 2 * Size - 1]
      /\ stored \in 0 .. 2 * Size - 1 /\ taken \in 0 .. 2 * Size - 1
      /\ arriving \in 0 .. Size - 1
      /\ outReadPos = Place(taken) /\ outWritePos = Place(stored)
      /\ Waiting + arriving < Size /\ StoredInv
      /\ waited => reading = taken
      /\ callback # "returned" => arriving > 0
  BY <1>1 DEF CardInv, FifoTypes, PositionsInv, ReadInv
<1>3. CASE outReadPos = outWritePos
  <2>1. UNCHANGED <<outReadPos, taken, got>>
    BY <1>3 DEF GetFromFifo
  <2>2. QED
    BY <1>1, <2>1 DEF CardInv, FifoTypes, PositionsInv, StoredInv, ReadInv,
                      HeldBytesInOrder, Waiting, Waits
<1>4. CASE outReadPos # outWritePos
  <2>1. /\ outReadPos' = IF outReadPos + 1 >= Size THEN 0 ELSE outReadPos + 1
        /\ taken' = (taken + 1) % (2 * Size)
        /\ got' = IF reading = taken THEN "next"
                  ELSE IF waited THEN "another" ELSE "stale"
    BY <1>4 DEF GetFromFifo, Advance
  <2>2. /\ taken' = IF taken + 1 = 2 * Size THEN 0 ELSE taken + 1
        /\ taken' \in 0 .. 2 * Size - 1
        /\ Place(taken') = IF Place(taken) + 1 >= Size THEN 0
                                                     ELSE Place(taken) + 1
    BY <1>2, <2>1, NextNumber
  <2>3. stored # taken /\ Waits(taken)
    BY <1>2, <1>4 DEF Waits
  <2>4. Waiting' = Waiting - 1
    BY <1>1, <1>2, <2>2, <2>3, SizeFacts DEF Waiting
  <2>5. got' # "another"
    BY <1>2, <2>1
  <2>6. FifoTypes'
    BY <1>1, <1>2, <2>2 DEF FifoTypes
  <2>7. PositionsInv'
    <3>1. outReadPos' = Place(taken')
      BY <1>2, <2>1, <2>2
    <3>2. Waiting' + arriving' < Size
      <4>1. Waiting \in Int /\ arriving' = arriving
        BY <1>1, WaitingCounted, SizeFacts DEF CardInv
      <4>2. QED
        BY <1>2, <2>4, <4>1, SizeFacts
    <3>3. QED
      BY <1>1, <1>2, <3>1, <3>2 DEF PositionsInv, Place
  <2>8. ASSUME NEW n \in 0 .. 2 * Size - 1, Waits(n)'
        PROVE  outputFIFO'[Place(n)] = n
    <3>1. Waits(n)
      BY <1>1, <1>2, <2>2, <2>3, <2>8, SizeFacts DEF Waits
    <3>2. QED
      BY <1>1, <1>2, <3>1 DEF StoredInv
  <2>9. StoredInv'
    BY <1>1, <1>2, <2>8 DEF StoredInv, Place
  <2>10. ReadInv' /\ HeldBytesInOrder'
    BY <1>1, <2>5 DEF ReadInv, HeldBytesInOrder
  <2>11. QED
    BY <2>6, <2>7, <2>9, <2>10 DEF CardInv
<1>5. QED
  BY <1>3, <1>4

\* The end of a port read moves no byte.
LEMMA ReadEndsStep ==
    ASSUME CardInv, ClearRxRDY \/ Reannounce
    PROVE  CardInv'
<1>1. /\ reader' # "loaded"
      /\ UNCHANGED <<outReadPos, taken, got, outputFIFO, outWritePos, callback,
                     arriving, stored>>
  BY DEF ClearRxRDY, Reannounce, ReadReturns, fifoVars
<1>2. QED
  BY <1>1 DEF CardInv, FifoTypes, PositionsInv, StoredInv, ReadInv,
              HeldBytesInOrder, Waiting, Waits

\* The FIFO begins empty.
LEMMA CardInvInit == Init => CardInv
<1> SUFFICES ASSUME Init
             PROVE  CardInv
  OBVIOUS
<1>1. /\ outputFIFO = [i \in 0 .. Size - 1 |-> 2 * Size - 1]
      /\ outReadPos = 0 /\ outWritePos = 0 /\ callback = "returned"
      /\ arriving = 0 /\ reader = "idle" /\ stored = 0 /\ taken = 0
      /\ got = "nothing"
  BY DEF Init
<1>2. 2 * Size - 1 \in 0 .. 2 * Size - 1 /\ 0 \in 0 .. Size - 1
      /\ 0 \in 0 .. 2 * Size - 1
  BY SizeFacts
<1>3. FifoTypes
  BY <1>1, <1>2 DEF FifoTypes
<1>4. PositionsInv
  BY <1>1, SizeFacts DEF PositionsInv, Place, Waiting
<1>5. StoredInv /\ ReadInv /\ HeldBytesInOrder
  BY <1>1, SizeFacts DEF StoredInv, ReadInv, HeldBytesInOrder, Waits
<1>6. QED
  BY <1>3, <1>4, <1>5 DEF CardInv

\* Whatever the program and the timers do.
LEMMA CardInvInductive ==
    ASSUME CardInv, host \in Hosts, [Next]_vars
    PROVE  CardInv'
<1> DEFINE fifo == <<outReadPos, taken, got, outputFIFO, outWritePos, callback,
                     arriving, stored, reader, reading, waited>>
<1>1. CASE \E t \in Timers : Tick(t)
  <2>1. UNCHANGED fifo
    BY <1>1 DEF Tick, readVars, fifoVars
  <2>2. QED
    BY <2>1, FifoKept
<1>2. CASE AddToFifoEvent
  BY <1>2, AddToFifoEventStep
<1>3. CASE AddToFifoStore \/ AddToFifoAdvance
  BY <1>3, AddToFifoStoreStep, AddToFifoAdvanceStep
<1>4. CASE MidiIn
  <2>1. PICK count \in Int : count > 0 /\ AddToFifo(count)
    <3>1. CASE \E status \in host.statuses : ShortMessage(status)
      <4>1. \A status : MessageLength(status) \in {1, 2, 3}
        BY DEF MessageLength
      <4>2. QED
        BY <3>1, <4>1 DEF ShortMessage
    <3>2. CASE \E count \in host.dumps : AddToFifo(count)
      <4>1. host.dumps \subseteq 1 .. Size - 1
        BY CardAssumption
      <4>2. QED
        BY <3>2, <4>1, SizeFacts
    <3>3. QED
      BY <1>4, <3>1, <3>2 DEF MidiIn
  <2>2. QED
    BY <2>1, AddToFifoStep
<1>5. CASE ReadPIU0
  BY <1>5, ReadPIU0Step
<1>6. CASE GetFromFifo \/ ClearRxRDY \/ Reannounce
  BY <1>6, GetFromFifoStep, ReadEndsStep
<1>7. CASE Acknowledge \/ NothingToRead
  <2>1. UNCHANGED fifo
    BY <1>7 DEF Acknowledge, NothingToRead, readVars, fifoVars
  <2>2. QED
    BY <2>1, FifoKept
<1>8. CASE Write \/ \E val \in host.pcr : WritePCR(val)
  <2>1. UNCHANGED fifo
    BY <1>8 DEF Write, WritePIU1, WritePCR, readVars, fifoVars
  <2>2. QED
    BY <2>1, FifoKept
<1>9. CASE \/ \E val \in host.tcr : WriteTCR(val)
           \/ \E t \in host.clocks, mode0, low \in BOOLEAN :
                 WriteTCWR(t, mode0, low)
           \/ \E t \in host.clocks : WriteCNTR(t)
  <2>1. UNCHANGED fifo
    BY <1>9 DEF WriteTCR, WriteTCWR, WriteCNTR, readVars, fifoVars
  <2>2. QED
    BY <2>1, FifoKept
<1>10. CASE UNCHANGED vars
  <2>1. UNCHANGED fifo
    BY <1>10 DEF vars, readVars, fifoVars
  <2>2. QED
    BY <2>1, FifoKept
<1>11. QED
  BY <1>1, <1>2, <1>3, <1>4, <1>5, <1>6, <1>7, <1>8, <1>9, <1>10
     DEF Next, Card, Program

\* The program is chosen once.
LEMMA HostInductive == host \in Hosts /\ [Next]_vars => host' \in Hosts
BY DEF Next, Card, MidiIn, Program, vars, Tick, AddToFifoEvent, AddToFifoStore,
       AddToFifoAdvance, ShortMessage, AddToFifo, Acknowledge, ReadPIU0,
       GetFromFifo, ClearRxRDY, Reannounce, ReadReturns, NothingToRead, Write,
       WritePIU1, WritePCR, WriteTCR, WriteTCWR, WriteCNTR

-----------------------------------------------------------------------------
(* The filter *)

Entries == Seq(0 .. 127)

\* Whether a byte of an entry says that it has four.
Long(number) == (number \div 64) % 2 = 1

\* In a list an entry is collected, outside of it nothing; the header of a list
\* is held back as long as it may still be one.
FilterInv ==
    /\ inSysEx \in BOOLEAN /\ translate \in BOOLEAN /\ sIdx \in 0 .. 4
    /\ paramBuffer \in Entries /\ Len(paramBuffer) <= 3
    /\ translate => inSysEx /\ sIdx = 4
    /\ ~translate => paramBuffer = <<>>
    /\ inSysEx /\ ~translate => sIdx \in 1 .. 3
    /\ Len(paramBuffer) = 3 => Long(paramBuffer[2])

\* What BytesConserved says of one byte.
Conserved(data) ==
    \/ Source(out') \o Kept' = Append(Kept, data)
    \/ ~translate /\ Append(Kept, data) = parameterList /\ Kept' = <<>>
    \/ translate /\ data = EndSysEx /\ ~inSysEx'

\* The four bytes that begin a parameter list of the card.
LEMMA HeaderFacts ==
    /\ parameterList \in Seq(Nat) /\ Len(parameterList) = 4
    /\ parameterList[1] = 240 /\ parameterList[2] = 67
    /\ parameterList[3] = 117 /\ parameterList[4] = 113
BY DEF parameterList, StartSysEx

\* The header is held back byte after byte.
LEMMA HeldGrows ==
    ASSUME NEW n \in 0 .. 3
    PROVE  /\ SubSeq(parameterList, 1, n) \in Seq(Nat)
           /\ Len(SubSeq(parameterList, 1, n)) = n
           /\ Append(SubSeq(parameterList, 1, n), parameterList[n + 1]) =
                 SubSeq(parameterList, 1, n + 1)
<1>1. /\ SubSeq(parameterList, 1, n) \in Seq(Nat)
      /\ Len(SubSeq(parameterList, 1, n)) = n
      /\ \A i \in 1 .. n : SubSeq(parameterList, 1, n)[i] = parameterList[i]
      /\ SubSeq(parameterList, 1, n + 1) \in Seq(Nat)
      /\ Len(SubSeq(parameterList, 1, n + 1)) = n + 1
      /\ \A i \in 1 .. n + 1 :
            SubSeq(parameterList, 1, n + 1)[i] = parameterList[i]
  <2>1. \A m \in 0 .. 4 :
           /\ SubSeq(parameterList, 1, m) \in Seq(Nat)
           /\ Len(SubSeq(parameterList, 1, m)) = m
           /\ \A i \in 1 .. m : SubSeq(parameterList, 1, m)[i] = parameterList[i]
    BY HeaderFacts
  <2>2. n \in 0 .. 4 /\ n + 1 \in 0 .. 4
    OBVIOUS
  <2>3. QED
    BY <2>1, <2>2
<1> DEFINE a == SubSeq(parameterList, 1, n)
           b == SubSeq(parameterList, 1, n + 1)
           v == parameterList[n + 1]
<1>2. v \in Nat
  BY HeaderFacts
<1>3. /\ a \in Seq(Nat) /\ Len(a) = n /\ b \in Seq(Nat) /\ Len(b) = n + 1
      /\ \A i \in 1 .. n : a[i] = b[i]
      /\ b[n + 1] = v
  BY <1>1
<1> HIDE DEF a, b, v
<1>4. /\ Append(a, v) \in Seq(Nat) /\ Len(Append(a, v)) = n + 1
      /\ \A i \in 1 .. n + 1 : Append(a, v)[i] = IF i <= n THEN a[i] ELSE v
  BY <1>2, <1>3
<1>5. \A i \in 1 .. n + 1 : Append(a, v)[i] = b[i]
  BY <1>3, <1>4
<1>6. Append(a, v) = b
  BY <1>3, <1>4, <1>5, SeqEqual
<1>7. QED
  BY <1>1, <1>6 DEF a, b, v

\* ParamIdx is 0: nothing of an entry has been collected.
LEMMA NoEntry == <<>> \in Entries /\ Len(<<>>) = 0
BY DEF Entries

\* An entry is collected byte after byte.
LEMMA EntryGrows ==
    ASSUME NEW s \in Entries, NEW v \in 0 .. 127
    PROVE  /\ Append(s, v) \in Entries /\ Append(s, v) # <<>>
           /\ Len(Append(s, v)) = Len(s) + 1
           /\ Len(s) \in Nat
           /\ \A i \in 1 .. Len(s) : /\ Append(s, v)[i] = s[i]
                                    /\ Append(s, v)[i] \in 0 .. 127
           /\ Append(s, v)[Len(s) + 1] = v
<1>0. s \in Seq(0 .. 127)
  BY DEF Entries
<1>1. /\ Append(s, v) \in Seq(0 .. 127) /\ Append(s, v) # <<>>
      /\ Len(Append(s, v)) = Len(s) + 1
      /\ \A i \in 1 .. Len(s) : Append(s, v)[i] = s[i]
      /\ Append(s, v)[Len(s) + 1] = v
  BY <1>0, AppendProperties
<1>2. Len(s) \in Nat
  BY <1>0, LenProperties
<1>3. \A i \in 1 .. Len(s) : s[i] \in 0 .. 127
  BY <1>0, ElementOfSeq
<1>4. QED
  BY <1>1, <1>2, <1>3 DEF Entries

\* The bytes of an entry can be read off the parameter change.
LEMMA BytesOfChange ==
    \A a, b \in 0 .. 127 :
       /\ (24 + ((a \div 16) % 8) - 24) * 16 + (a % 16) = a
       /\ Long(b) <=> b >= 64
       /\ ~Long(b) <=> (b \div 64) % 2 = 0
       /\ Long(b) => (b % 64) + 64 = b
       /\ ~Long(b) => (b % 64) + 0 = b
       /\ a % 16 \in Nat /\ 24 + ((a \div 16) % 8) \in Nat
       /\ b % 64 \in Nat
BY DEF Long

\* The elements of two byte sequences, one after the other.
LEMMA Joined ==
    ASSUME NEW s \in Seq(Nat), NEW u \in Seq(Nat)
    PROVE  /\ s \o u \in Seq(Nat) /\ Len(s \o u) = Len(s) + Len(u)
           /\ Len(s) \in Nat /\ Len(u) \in Nat
           /\ \A i \in 1 .. Len(s) : (s \o u)[i] = s[i]
           /\ \A i \in 1 .. Len(u) : (s \o u)[Len(s) + i] = u[i]
<1>1. /\ s \o u \in Seq(Nat) /\ Len(s \o u) = Len(s) + Len(u)
      /\ \A i \in 1 .. Len(s) + Len(u) :
            (s \o u)[i] = IF i <= Len(s) THEN s[i] ELSE u[i - Len(s)]
  BY ConcatProperties
<1>2. Len(s) \in Nat /\ Len(u) \in Nat
  BY LenProperties
<1>3. ASSUME NEW i \in 1 .. Len(u)
      PROVE  (s \o u)[Len(s) + i] = u[i]
  <2>1. Len(s) + i \in 1 .. Len(s) + Len(u) /\ ~(Len(s) + i <= Len(s))
        /\ (Len(s) + i) - Len(s) = i
    BY <1>2
  <2>2. QED
    BY <1>1, <2>1
<1>4. QED
  BY <1>1, <1>2, <1>3

\* Bit 6 of the second byte of an entry.
LEMMA LongFacts ==
    \A b \in 0 .. 127 : Long(b) <=> ~((b \div 64) % 2 = 0)
BY DEF Long

\* What the filter makes of an entry tells what the entry was: no two entries
\* become the same parameter change.
LEMMA ChangeUndone ==
    ASSUME NEW entry \in Entries,
           \/ Len(entry) = 3 /\ ~Long(entry[2])
           \/ Len(entry) = 4 /\ Long(entry[2])
    PROVE  Source(Change(entry)) = entry
<1> DEFINE n == Len(entry)
           x == entry[1] % 16
           y == 24 + ((entry[1] \div 16) % 8)
           z == (entry[2] % 64) + (IF n = 4 THEN 64 ELSE 0)
           h == <<StartSysEx, 67, 117, x, y>>
           k == <<z>>
           t == SubSeq(entry, 3, n)
           f == <<EndSysEx>>
           c == h \o k \o t \o f
<1>1. /\ entry \in Seq(Nat) /\ n \in {3, 4}
      /\ entry[1] \in 0 .. 127 /\ entry[2] \in 0 .. 127
      /\ \A i \in 1 .. n : entry[i] \in Nat
  <2>1. entry \in Seq(0 .. 127) /\ n \in {3, 4}
    BY DEF Entries
  <2>2. \A i \in 1 .. n : entry[i] \in 0 .. 127
    BY <2>1, ElementOfSeq
  <2> HIDE DEF n
  <2>3. entry \in Seq(Nat)
    <3>1. 0 .. 127 \subseteq Nat
      OBVIOUS
    <3>2. QED
      BY <2>1, <3>1, SeqMonotonic, Zenon
  <2>4. 1 \in 1 .. n /\ 2 \in 1 .. n
    BY <2>1
  <2>5. \A i \in 1 .. n : entry[i] \in Nat
    BY <2>2
  <2>6. QED
    BY <2>1, <2>2, <2>3, <2>4, <2>5
<1>2. x \in Nat /\ y \in Nat /\ z \in Nat /\ (y - 24) * 16 + x = entry[1]
      /\ z = entry[2]
  <2>2. /\ Long(entry[2]) => (entry[2] % 64) + 64 = entry[2]
        /\ ~Long(entry[2]) => (entry[2] % 64) + 0 = entry[2]
    BY <1>1, BytesOfChange
  <2>3. z = entry[2]
    BY <2>2
  <2>4. entry[2] \in Nat
    BY <1>1
  <2>5. x \in Nat /\ y \in Nat /\ (y - 24) * 16 + x = entry[1]
    <3>1. PICK a \in 0 .. 127 : a = entry[1]
      BY <1>1
    <3>2. /\ (24 + ((a \div 16) % 8) - 24) * 16 + (a % 16) = a
          /\ a % 16 \in Nat /\ 24 + ((a \div 16) % 8) \in Nat
      BY BytesOfChange
    <3>3. x = a % 16 /\ y = 24 + ((a \div 16) % 8)
      BY <3>1
    <3> HIDE DEF x, y
    <3>4. QED
      BY <3>1, <3>2, <3>3
  <2> HIDE DEF z
  <2>6. QED
    BY <2>3, <2>4, <2>5
<1>3. Change(entry) = c
  BY DEF Change
<1> HIDE DEF x, y, z
<1>4. /\ h \in Seq(Nat) /\ Len(h) = 5 /\ h[4] = x /\ h[5] = y
      /\ k \in Seq(Nat) /\ Len(k) = 1 /\ k[1] = z
      /\ f \in Seq(Nat) /\ Len(f) = 1
  BY <1>2 DEF StartSysEx, EndSysEx
<1>5. /\ t \in Seq(Nat) /\ Len(t) = n - 2
      /\ \A i \in 1 .. n - 2 : t[i] = entry[i + 2]
  <2>1. \A i \in 3 .. n : entry[i] \in Nat
    BY <1>1
  <2>2. /\ t \in Seq(Nat) /\ Len(t) = (IF 3 <= n THEN n - 3 + 1 ELSE 0)
        /\ \A i \in 1 .. n - 3 + 1 : t[i] = entry[3 + i - 1]
    BY <1>1, <2>1, SubSeqProperties
  <2> HIDE DEF t, n
  <2>3. QED
    BY <1>1, <2>2
<1> HIDE DEF h, k, t, f, n
<1> DEFINE hk == h \o k
           hkt == hk \o t
<1>6. hk \in Seq(Nat) /\ Len(hk) = 6 /\ hk[4] = x /\ hk[5] = y /\ hk[6] = z
  <2>1. /\ hk \in Seq(Nat) /\ Len(hk) = Len(h) + Len(k)
        /\ \A i \in 1 .. Len(h) : hk[i] = h[i]
        /\ \A i \in 1 .. Len(k) : hk[Len(h) + i] = k[i]
    BY <1>4, Joined
  <2> HIDE DEF hk
  <2>2. hk[5 + 1] = k[1]
    BY <1>4, <2>1
  <2>3. QED
    BY <1>4, <2>1, <2>2
<1> HIDE DEF hk
<1>7. /\ hkt \in Seq(Nat) /\ Len(hkt) = n + 4
      /\ hkt[4] = x /\ hkt[5] = y /\ hkt[6] = z
      /\ \A i \in 1 .. n - 2 : hkt[6 + i] = entry[i + 2]
  <2>1. /\ hkt \in Seq(Nat) /\ Len(hkt) = Len(hk) + Len(t)
        /\ \A i \in 1 .. Len(hk) : hkt[i] = hk[i]
        /\ \A i \in 1 .. Len(t) : hkt[Len(hk) + i] = t[i]
    BY <1>5, <1>6, Joined
  <2> HIDE DEF hkt
  <2>2. \A i \in 1 .. n - 2 : hkt[6 + i] = entry[i + 2]
    BY <1>5, <1>6, <2>1
  <2>3. QED
    BY <1>1, <1>5, <1>6, <2>1, <2>2
<1> HIDE DEF hkt
<1>8. /\ c \in Seq(Nat) /\ Len(c) = n + 5 /\ c[4] = x /\ c[5] = y /\ c[6] = z
      /\ \A i \in 1 .. n - 2 : c[6 + i] = entry[i + 2]
  <2> DEFINE all == hkt \o f
  <2>0. c = all
    BY DEF hkt, hk
  <2>1. /\ all \in Seq(Nat) /\ Len(all) = Len(hkt) + Len(f)
        /\ \A i \in 1 .. Len(hkt) : all[i] = hkt[i]
    BY <1>4, <1>7, Joined
  <2> HIDE DEF c, all
  <2>2. QED
    BY <1>1, <1>4, <1>7, <2>0, <2>1
<1> HIDE DEF c
<1> DEFINE r == SubSeq(c, 6, Len(c) - 1)
           g == <<(c[5] - 24) * 16 + c[4]>>
<1>9. Source(c) = g \o r
  <2>1. Len(c) >= 8
    BY <1>1, <1>8
  <2>2. QED
    BY <2>1 DEF Source
<1>10. /\ r \in Seq(Nat) /\ Len(r) = n - 1
       /\ \A i \in 1 .. n - 1 : r[i] = c[5 + i]
  <2>1. Len(c) \in Nat /\ \A i \in 6 .. Len(c) - 1 : c[i] \in Nat
    <3>1. Len(c) \in Nat /\ \A i \in 1 .. Len(c) : c[i] \in Nat
      BY <1>8, ElementOfSeq, LenProperties
    <3>2. QED
      BY <3>1
  <2>2. /\ r \in Seq(Nat)
        /\ Len(r) = (IF 6 <= Len(c) - 1 THEN (Len(c) - 1) - 6 + 1 ELSE 0)
        /\ \A i \in 1 .. (Len(c) - 1) - 6 + 1 : r[i] = c[6 + i - 1]
    BY <2>1, SubSeqProperties
  <2> HIDE DEF r
  <2>3. QED
    BY <1>1, <1>8, <2>2
<1>11. \A i \in 1 .. n - 1 : r[i] = entry[i + 1]
  <2> SUFFICES ASSUME NEW i \in 1 .. n - 1
               PROVE  c[5 + i] = entry[i + 1]
    BY <1>10
  <2>1. CASE i = 1
    BY <1>2, <1>8, <2>1
  <2>2. CASE i > 1
    <3>1. i - 1 \in 1 .. n - 2 /\ 6 + (i - 1) = 5 + i /\ (i - 1) + 2 = i + 1
      BY <1>1, <2>2
    <3>2. QED
      BY <1>8, <3>1
  <2>3. QED
    BY <1>1, <2>1, <2>2
<1>12. g = <<entry[1]>> /\ g \in Seq(Nat) /\ Len(g) = 1 /\ g[1] = entry[1]
  <2>1. (c[5] - 24) * 16 + c[4] = entry[1] /\ entry[1] \in Nat
    BY <1>1, <1>2, <1>8
  <2>2. QED
    BY <2>1
<1> HIDE DEF r, g
<1>13. /\ g \o r \in Seq(Nat) /\ Len(g \o r) = Len(g) + Len(r)
       /\ \A i \in 1 .. Len(g) : (g \o r)[i] = g[i]
       /\ \A i \in 1 .. Len(r) : (g \o r)[Len(g) + i] = r[i]
  BY <1>10, <1>12, Joined
<1>14. ASSUME NEW i \in 1 .. n
       PROVE  (g \o r)[i] = entry[i]
  <2>1. CASE i = 1
    BY <1>12, <1>13, <2>1
  <2>2. CASE i > 1
    <3>1. i - 1 \in 1 .. n - 1 /\ 1 + (i - 1) = i /\ (i - 1) + 1 = i
      BY <1>1, <2>2
    <3>2. QED
      BY <1>10, <1>11, <1>12, <1>13, <3>1
  <2>3. i = 1 \/ i > 1
    OBVIOUS
  <2>4. QED
    BY <2>1, <2>2, <2>3, Zenon
<1>15. g \o r = entry
  <2>1. Len(entry) = n /\ Len(g \o r) = n
    BY <1>1, <1>10, <1>12, <1>13 DEF n
  <2>2. QED
    BY <1>1, <1>13, <1>14, <2>1, SeqEqual
<1>16. QED
  BY <1>3, <1>9, <1>15

\* An entry is collected until it is complete, and then all of it is sent.
LEMMA EntryStep ==
    ASSUME NEW s \in Entries, Len(s) <= 3, Len(s) = 3 => Long(s[2]),
           NEW v \in 0 .. 127
    PROVE  LET e == Append(s, v)
           IN  /\ e \in Entries /\ e \o <<>> = e /\ <<>> \o e = e
               /\ Complete(e) => Source(Change(e)) = e
               /\ ~Complete(e) => Len(e) <= 3 /\ (Len(e) = 3 => Long(e[2]))
<1> DEFINE e == Append(s, v)
           n == Len(s)
<1>1. /\ e \in Entries /\ Len(e) = n + 1 /\ n \in Nat /\ n <= 3
      /\ \A i \in 1 .. n : e[i] = s[i] /\ e[i] \in 0 .. 127
  BY EntryGrows
<1>2. Complete(e) <=> Len(e) > 2 /\ ((e[2] \div 64) % 2 = 0 \/ Len(e) > 3)
  BY DEF Complete
<1>3. n = 3 => Long(s[2])
  OBVIOUS
<1> HIDE DEF e, n
<1>4. n >= 2 => e[2] = s[2] /\ e[2] \in 0 .. 127
  <2>1. n >= 2 => 2 \in 1 .. n
    BY <1>1
  <2>2. QED
    BY <1>1, <2>1
<1>5. n >= 2 => (Long(e[2]) <=> ~((e[2] \div 64) % 2 = 0))
  BY <1>4, LongFacts
<1>6. e \o <<>> = e /\ <<>> \o e = e
  BY <1>1, ConcatEmptySeq DEF Entries
<1>7. ASSUME Complete(e)
      PROVE  Source(Change(e)) = e
  <2>1. CASE n = 2
    <3>1. Len(e) = 3 /\ ~Long(e[2])
      BY <1>1, <1>2, <1>5, <1>7, <2>1
    <3>2. QED
      BY <1>1, <3>1, ChangeUndone
  <2>2. CASE n = 3
    <3>1. Len(e) = 4 /\ Long(e[2])
      BY <1>1, <1>3, <1>4, <2>2
    <3>2. QED
      BY <1>1, <3>1, ChangeUndone
  <2>3. n = 2 \/ n = 3
    BY <1>1, <1>2, <1>7
  <2>4. QED
    BY <2>1, <2>2, <2>3
<1>8. ASSUME ~Complete(e)
      PROVE  Len(e) <= 3 /\ (Len(e) = 3 => Long(e[2]))
  BY <1>1, <1>2, <1>5, <1>8
<1>9. QED
  BY <1>1, <1>6, <1>7, <1>8 DEF e

\* A byte that breaks nothing off: outside of the list, in its header, or in it.
LEMMA FilterStep ==
    ASSUME FilterInv, NEW data \in Byte, WellFormed(data), MidiFilter(data)
    PROVE  FilterInv' /\ Conserved(data)
<1>0. /\ inSysEx \in BOOLEAN /\ translate \in BOOLEAN /\ sIdx \in 0 .. 4
      /\ paramBuffer \in Entries /\ Len(paramBuffer) <= 3
      /\ translate => inSysEx /\ sIdx = 4
      /\ ~translate => paramBuffer = <<>>
      /\ inSysEx /\ ~translate => sIdx \in 1 .. 3
      /\ Len(paramBuffer) = 3 => Long(paramBuffer[2])
      /\ StartSysEx = 240 /\ EndSysEx = 247 /\ Len(parameterList) = 4
      /\ data \in Nat
  BY HeaderFacts DEF FilterInv, StartSysEx, EndSysEx, Byte
<1>1. /\ translate => data < 128 \/ (data = EndSysEx /\ paramBuffer = <<>>)
      /\ data = StartSysEx => ~(inSysEx /\ sIdx \in 1 .. 3)
  BY DEF WellFormed
\* In a list no header is compared.
<1>2. translate => ~InHeader(data) /\ ~Matches(data) /\ data # StartSysEx
  BY <1>0, <1>1 DEF InHeader, Matches, Position
<1>3. ASSUME data = StartSysEx
      PROVE  Matches(data) /\ Position(data) = 0
  BY <1>0, <1>3, HeaderFacts DEF Matches, InHeader, Inside, Position
<1>4. Source(<<>>) = <<>> /\ Source(<<data>>) = <<data>>
  BY DEF Source
<1>5. CASE PassThrough(data)
  <2>1. /\ ~inSysEx /\ ~translate /\ out' = <<data>>
        /\ UNCHANGED <<inSysEx, translate, sIdx, paramBuffer>>
    BY <1>0, <1>5 DEF PassThrough, Inside, midiFilter
  <2>2. Kept = <<>> /\ Kept' = <<>>
    BY <2>1 DEF Kept
  <2>3. Source(out') = <<data>>
    BY <2>1 DEF Source
  <2>4. Source(out') \o Kept' = Append(Kept, data)
    BY <2>2, <2>3
  <2>5. FilterInv'
    BY <1>0, <2>1 DEF FilterInv
  <2>6. QED
    BY <2>4, <2>5 DEF Conserved
<1>6. CASE NotTheList(data)
  <2>1. /\ data # StartSysEx /\ ~translate /\ inSysEx /\ sIdx \in 1 .. 3
        /\ inSysEx' = FALSE /\ translate' = FALSE /\ out' = Append(Held, data)
        /\ UNCHANGED <<sIdx, paramBuffer>>
    BY <1>0, <1>2, <1>3, <1>6 DEF NotTheList, InHeader, Inside
  <2>2. Kept = Held /\ Kept' = <<>>
    BY <2>1 DEF Kept
  <2>3. Held \in Seq(Nat) /\ Len(Held) = sIdx
    BY <2>1, HeldGrows DEF Held
  <2> DEFINE sent == Append(Held, data)
  <2>4. sent \in Seq(Nat) /\ Len(sent) = sIdx + 1
    BY <1>0, <2>3
  <2> HIDE DEF sent
  <2>5. Source(out') = sent
    <3>1. out' = sent /\ ~(Len(sent) >= 8)
      BY <2>1, <2>4 DEF sent
    <3>2. QED
      BY <3>1 DEF Source
  <2>6. sent \o <<>> = sent
    BY <2>4, ConcatEmptySeq
  <2>7. Source(out') \o Kept' = Append(Kept, data)
    BY <2>2, <2>5, <2>6 DEF sent
  <2>8. FilterInv'
    BY <1>0, <2>1 DEF FilterInv
  <2>9. QED
    BY <2>7, <2>8 DEF Conserved
<1>7. CASE HoldBack(data)
  <2>1. /\ ~translate /\ translate' = FALSE /\ inSysEx' = TRUE /\ out' = <<>>
        /\ Matches(data) /\ sIdx' = Position(data) + 1 /\ sIdx' < 4
        /\ paramBuffer' = paramBuffer /\ Position(data) \in 0 .. 4
    BY <1>0, <1>7 DEF HoldBack, Position
  <2>2. /\ parameterList[Position(data) + 1] = data /\ Inside(data)
        /\ Position(data) \in 0 .. 3
    BY <1>0, <2>1 DEF Matches, InHeader
  <2>3. Kept' = SubSeq(parameterList, 1, Position(data) + 1)
    BY <2>1 DEF Kept, Held
  <2>4. Kept = SubSeq(parameterList, 1, Position(data))
    <3>1. CASE data = StartSysEx
      <4>1. ~inSysEx /\ Position(data) = 0
        BY <1>0, <1>1, <1>3, <2>1, <3>1
      <4>2. SubSeq(parameterList, 1, 0) = <<>>
        BY SubSeqEmpty
      <4>3. QED
        BY <2>1, <4>1, <4>2 DEF Kept
    <3>2. CASE data # StartSysEx
      BY <2>1, <2>2, <3>2 DEF Kept, Held, Position, Inside
    <3>3. QED
      BY <3>1, <3>2
  <2>5. Kept' = Append(Kept, data) /\ Kept' \in Seq(Nat)
    <3>1. /\ Append(SubSeq(parameterList, 1, Position(data)),
                    parameterList[Position(data) + 1]) =
                SubSeq(parameterList, 1, Position(data) + 1)
          /\ SubSeq(parameterList, 1, Position(data)) \in Seq(Nat)
      BY <2>2, HeldGrows
    <3>2. Kept' = Append(Kept, data) /\ Kept \in Seq(Nat)
      BY <2>2, <2>3, <2>4, <3>1
    <3>3. QED
      BY <1>0, <3>2
  <2>6. Source(out') = <<>>
    BY <2>1 DEF Source
  <2>7. Source(out') \o Kept' = Append(Kept, data)
    BY <2>5, <2>6, ConcatEmptySeq
  <2>8. FilterInv'
    <3>1. paramBuffer' = paramBuffer /\ paramBuffer' = <<>>
      BY <1>0, <2>1
    <3>2. sIdx' \in 1 .. 3
      <4>1. \A p \in 0 .. 3 : p + 1 < 4 => p + 1 \in 1 .. 3
        OBVIOUS
      <4>2. sIdx' = Position(data) + 1 /\ sIdx' < 4 /\ Position(data) \in 0 .. 3
        BY <2>1, <2>2
      <4>3. QED
        BY <4>1, <4>2
    <3>3. inSysEx' = TRUE /\ translate' = FALSE
      BY <2>1
    <3>4. inSysEx' \in BOOLEAN /\ translate' \in BOOLEAN /\ ~translate'
      BY <3>3, Zenon
    <3>5. /\ paramBuffer' \in Entries /\ Len(paramBuffer') = 0
      BY <3>1, NoEntry
    <3>6. QED
      BY <3>1, <3>2, <3>4, <3>5 DEF FilterInv
  <2>9. QED
    BY <2>7, <2>8 DEF Conserved
<1>8. CASE ListStarts(data)
  <2>1. /\ Matches(data) /\ Position(data) = 3 /\ ~translate
        /\ translate' = TRUE /\ sIdx' = 4 /\ out' = <<>>
        /\ UNCHANGED <<inSysEx, paramBuffer>> /\ Position(data) \in 0 .. 4
    BY <1>0, <1>2, <1>8 DEF ListStarts, Position
  <2>2. /\ data # StartSysEx /\ inSysEx /\ sIdx = 3
        /\ parameterList[4] = data
    BY <1>3, <2>1 DEF Matches, InHeader, Inside, Position
  <2>3. Kept = SubSeq(parameterList, 1, 3) /\ Kept' = <<>>
    BY <1>0, <2>1, <2>2 DEF Kept, Held
  <2>4. Append(Kept, data) = parameterList
    <3>1. Append(SubSeq(parameterList, 1, 3), parameterList[3 + 1]) =
             SubSeq(parameterList, 1, 3 + 1)
      BY HeldGrows
    <3>2. SubSeq(parameterList, 1, 4) = parameterList
      BY HeaderFacts, SubSeqFull
    <3>3. QED
      BY <2>2, <2>3, <3>1, <3>2
  <2>5. FilterInv'
    <3>1. paramBuffer' = paramBuffer /\ paramBuffer' = <<>>
      BY <1>0, <2>1
    <3>2. /\ inSysEx' \in BOOLEAN /\ translate' \in BOOLEAN /\ sIdx' \in 0 .. 4
          /\ translate' => inSysEx' /\ sIdx' = 4
          /\ inSysEx' /\ ~translate' => sIdx' \in 1 .. 3
      BY <1>0, <2>1, <2>2
    <3>3. QED
      BY <3>1, <3>2, NoEntry DEF FilterInv
  <2>6. QED
    BY <2>1, <2>3, <2>4, <2>5 DEF Conserved
<1>9. CASE ListEnds(data)
  <2>1. /\ translate /\ data = EndSysEx /\ inSysEx' = FALSE /\ translate' = FALSE
        /\ paramBuffer' = paramBuffer /\ sIdx' = sIdx
    BY <1>2, <1>9 DEF ListEnds, Translating
  <2>2. paramBuffer = <<>>
    BY <1>0, <1>1, <2>1
  <2>3. FilterInv'
    <3>1. paramBuffer' = paramBuffer /\ paramBuffer' = <<>>
      BY <2>1, <2>2
    <3>2. /\ inSysEx' \in BOOLEAN /\ translate' \in BOOLEAN /\ sIdx' \in 0 .. 4
          /\ translate' => inSysEx' /\ sIdx' = 4
          /\ inSysEx' /\ ~translate' => sIdx' \in 1 .. 3
      BY <1>0, <2>1, <2>2
    <3>3. QED
      BY <3>1, <3>2, NoEntry DEF FilterInv
  <2>4. QED
    BY <2>1, <2>3 DEF Conserved
<1> DEFINE entry == Append(paramBuffer, data)
<1>10. ASSUME translate, data # EndSysEx
       PROVE  /\ entry \in Entries /\ entry \o <<>> = entry
              /\ <<>> \o entry = entry
              /\ Complete(entry) => Source(Change(entry)) = entry
              /\ ~Complete(entry) =>
                    Len(entry) <= 3 /\ (Len(entry) = 3 => Long(entry[2]))
  <2>1. data \in 0 .. 127
    BY <1>0, <1>1, <1>10
  <2>2. /\ paramBuffer \in Entries /\ Len(paramBuffer) <= 3
        /\ Len(paramBuffer) = 3 => Long(paramBuffer[2])
    BY <1>0
  <2>3. QED
    BY <2>1, <2>2, EntryStep
<1>11. CASE Collect(data)
  <2>1. /\ translate /\ data # EndSysEx /\ ~Complete(entry)
        /\ inSysEx' = TRUE /\ translate' = translate /\ out' = <<>>
        /\ paramBuffer' = entry /\ sIdx' = sIdx
    BY <1>2, <1>11 DEF Collect, Translating
  <2>2. Kept = paramBuffer /\ Kept' = entry
    BY <2>1 DEF Kept
  <2>3. Source(out') = <<>>
    BY <2>1 DEF Source
  <2>4. Source(out') \o Kept' = Append(Kept, data)
    BY <1>10, <2>1, <2>2, <2>3
  <2>5. translate' = TRUE /\ sIdx' = 4
    BY <1>0, <2>1
  <2>6. /\ entry \in Entries /\ Len(entry) <= 3
        /\ Len(entry) = 3 => Long(entry[2])
    BY <1>10, <2>1
  <2> HIDE DEF entry
  <2>7. FilterInv'
    BY <2>1, <2>5, <2>6 DEF FilterInv
  <2>8. QED
    BY <2>4, <2>7 DEF Conserved
<1>12. CASE SendChange(data)
  <2>1. /\ translate /\ data # EndSysEx /\ Complete(entry)
        /\ inSysEx' = TRUE /\ translate' = translate /\ out' = Change(entry)
        /\ paramBuffer' = <<>> /\ sIdx' = sIdx
    BY <1>2, <1>12 DEF SendChange, Translating
  <2>2. Kept = paramBuffer /\ Kept' = <<>>
    BY <2>1 DEF Kept
  <2>3. Source(out') = entry
    <3>1. Source(Change(entry)) = entry
      BY <1>10, <2>1
    <3>2. Source(out') = Source(Change(entry))
      BY <2>1 DEF Source
    <3>3. QED
      BY <3>1, <3>2
  <2>4. Source(out') \o Kept' = Append(Kept, data)
    BY <1>10, <2>1, <2>2, <2>3
  <2>5. translate' = TRUE /\ sIdx' = 4
    BY <1>0, <2>1
  <2>6. FilterInv'
    BY <2>1, <2>5, NoEntry DEF FilterInv
  <2>7. QED
    BY <2>4, <2>6 DEF Conserved
<1>13. QED
  BY <1>5, <1>6, <1>7, <1>8, <1>9, <1>11, <1>12 DEF MidiFilter

\* Nothing else on the card touches the filter.
LEMMA OnlyWritesFilter ==
    ASSUME Next, ~Write
    PROVE  UNCHANGED <<filterVars, piu1>>
BY DEF Next, Card, MidiIn, Program, Tick, AddToFifoEvent, AddToFifoStore,
       AddToFifoAdvance, ShortMessage, AddToFifo, Acknowledge, ReadPIU0,
       GetFromFifo, ClearRxRDY, Reannounce, ReadReturns, NothingToRead, WritePCR, WriteTCR, WriteTCWR, WriteCNTR

\* A write of a MIDI byte, by a program that breaks nothing off.
LEMMA WriteStep ==
    ASSUME FilterInv, ~MayBreakOff, host \in Hosts, Write
    PROVE  FilterInv' /\ (~EXT8 => Conserved(piu1'))
<1>1. CASE EXT8
  <2>1. UNCHANGED midiFilter
    BY <1>1 DEF Write, WritePIU1, CommandFilter
  <2>2. QED
    BY <1>1, <2>1 DEF midiFilter, FilterInv
<1>2. CASE ~EXT8
  <2>1. PICK data \in host.midi : WellFormed(data) /\ WritePIU1(data)
    BY <1>2 DEF Write
  <2>2. data \in Byte
    BY CardAssumption
  <2>3. piu1' = data /\ MidiFilter(data)
    BY <1>2, <2>1 DEF WritePIU1
  <2>4. FilterInv' /\ Conserved(data)
    BY <2>1, <2>2, <2>3, FilterStep
  <2>5. QED
    BY <2>3, <2>4
<1>3. QED
  BY <1>1, <1>2

\* The filter begins outside of system exclusive data.
LEMMA FilterInvInit == Init => FilterInv
<1> SUFFICES ASSUME Init
             PROVE  FilterInv
  OBVIOUS
<1>1. /\ inSysEx = FALSE /\ translate = FALSE /\ sIdx = 0
      /\ paramBuffer = <<>>
  BY DEF Init, FilterInit
<1>2. paramBuffer \in Entries /\ Len(paramBuffer) = 0
  BY <1>1, NoEntry
<1>3. /\ inSysEx \in BOOLEAN /\ translate \in BOOLEAN
      /\ ~inSysEx /\ ~translate
  BY <1>1, Zenon
<1>4. sIdx \in 0 .. 4
  BY <1>1
<1>5. QED
  BY <1>1, <1>2, <1>3, <1>4 DEF FilterInv

\* Whatever the program does with the card meanwhile.
LEMMA FilterInvInductive ==
    ASSUME FilterInv, ~MayBreakOff, host \in Hosts, [Next]_vars
    PROVE  FilterInv'
<1>1. CASE Write
  BY <1>1, WriteStep
<1>2. CASE ~Write
  <2>1. UNCHANGED midiFilter
    BY <1>2, OnlyWritesFilter DEF vars, filterVars
  <2>2. QED
    BY <2>1 DEF midiFilter, FilterInv
<1>3. QED
  BY <1>1, <1>2

\* A step that writes a MIDI byte conserves the bytes of the stream.
LEMMA ConservingStep ==
    ASSUME FilterInv, ~MayBreakOff, host \in Hosts, [Next]_vars,
           WritePIU1(piu1'), ~EXT8, ~UNCHANGED vars
    PROVE  Conserved(piu1')
<1>1. Write
  <2> SUFFICES ASSUME ~Write
               PROVE  UNCHANGED vars
    OBVIOUS
  <2>1. UNCHANGED <<filterVars, piu1>>
    BY OnlyWritesFilter
  <2>2. QED
    BY <2>1 DEF WritePIU1, vars
<1>2. QED
  BY <1>1, WriteStep

-----------------------------------------------------------------------------

\* The positions of the FIFO and the bytes in it follow the numbers of the
\* bytes, whatever MidiInProc() announces before it stores and wherever it runs
\* amid a port read: the invariant that makes GetFromFifo() right for a FIFO
\* that holds a byte.
THEOREM FifoInvariant == Spec => [](CardInv /\ host \in Hosts)
<1>1. Init => CardInv /\ host \in Hosts
  BY CardInvInit DEF Init
<1>2. CardInv /\ host \in Hosts /\ [Next]_vars => (CardInv /\ host \in Hosts)'
  BY CardInvInductive, HostInductive
<1>3. QED
  BY <1>1, <1>2, PTL DEF Spec

\* A port read of a FIFO that holds a byte takes the byte of the FB-01 that was
\* stored next, in a FIFO of any size, although no lock keeps the callback from
\* storing others meanwhile and RxRDY is set before it does.
THEOREM HeldBytesAreTakenInOrder == Spec => []HeldBytesInOrder
<1>1. CardInv => HeldBytesInOrder
  BY DEF CardInv
<1>2. QED
  BY <1>1, FifoInvariant, PTL

\* IMF_MIDIFilter() collects an entry only in a list, at most three bytes of
\* it, and compares a header only outside of one.
THEOREM FilterInvariant ==
    ASSUME ~MayBreakOff
    PROVE  Spec => [](FilterInv /\ host \in Hosts)
<1>1. Init => FilterInv /\ host \in Hosts
  BY FilterInvInit DEF Init
<1>2. FilterInv /\ host \in Hosts /\ [Next]_vars
         => (FilterInv /\ host \in Hosts)'
  BY FilterInvInductive, HostInductive
<1>3. QED
  BY <1>1, <1>2, PTL DEF Spec

\* IMF_MIDIFilter() loses, invents and reorders no byte of a well-formed
\* stream, of any length and with any bytes.
THEOREM StreamIsConserved ==
    ASSUME ~MayBreakOff
    PROVE  Spec => BytesConserved
<1>1. FilterInv /\ host \in Hosts /\ [Next]_vars
         => [WritePIU1(piu1') /\ ~EXT8 =>
               \/ Source(out') \o Kept' = Append(Kept, piu1')
               \/ ~translate /\ Append(Kept, piu1') = parameterList
                  /\ Kept' = <<>>
               \/ translate /\ piu1' = EndSysEx /\ ~inSysEx']_vars
  BY ConservingStep DEF Conserved
<1>2. QED
  BY <1>1, FilterInvariant, PTL DEF Spec, BytesConserved
=============================================================================
