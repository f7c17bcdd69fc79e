----------------------------- MODULE SynthProofs -----------------------------
(***************************************************************************)
(* Proofs about Synth and about the MidiEventQueue it plays from.  For     *)
(* words and queues of any size: every message is played at its sample,    *)
(* however often the clock wraps and whenever messages arrive, and the     *)
(* messages in the queue keep to the bandwidth of the cable (part A).  For *)
(* every power of 2 and every set of messages: the ring buffer stays well  *)
(* typed, the writer never touches the slot the reader refers to, the      *)
(* reader's message never changes under it, and the whole implements       *)
(* EventFifo (part B).                                                     *)
(***************************************************************************)
EXTENDS Synth, MidiEventQueue, SequenceTheorems, WellFoundedInduction, TLAPS

-----------------------------------------------------------------------------
(* A. Synth *)

\* When a queued message is to be played, after the sample rendered next.
DueAt(i) == Signed(queue[i].timestamp - renderedSampleCount)

\* How far behind the clock a message may fall: what was due before it may be
\* as far ahead as a message or a run, and each message takes a sample.
Lag == Max2(MaxBacklog, MaxSamplesPerRun) + MaxQueueSize - 1

BoundsInv ==
    /\ thisLen <= MaxSamplesPerRun
    /\ queueSize \in Nat /\ queueSize <= MaxQueueSize

\* The last received message, until it is too long ago.
ReceivedInv ==
    /\ receivedIn <= MaxBacklog
    /\ receivedIn > -Half - 2 =>
          lastReceivedMIDIEventTimestamp =
             (renderedSampleCount + receivedIn) % Modulus

\* What the relative time of a message keeps of the word; and no message is so
\* far behind that its word is taken for one ahead.
DueInv ==
    \A i \in 1 .. Len(queue) :
        /\ DueAt(i) <= queue[i].dueIn
        /\ queue[i].dueIn <= Max2(DueAt(i), thisLen)
        /\ DueAt(i) <= MaxBacklog
        /\ DueAt(i) >= thisLen + i - 1 - Lag
        /\ \A j \in 1 .. i : DueAt(i) >= DueAt(j) + i - 1 - Lag

\* A run ends before the oldest message, unless that came during the run; and
\* only one that followed another can be overdue.
HeadInv ==
    queue # <<>> /\ (thisLen > 0 \/ playedIn = -2)
        => queue[1].dueIn >= thisLen

\* Delayed messages are as far apart as the cable takes for them.
CableInv ==
    \A i \in 1 .. Len(queue) :
        queue[i].transfer > 0 =>
            /\ DueAt(i) <= receivedIn
            /\ \A j \in 1 .. i - 1 :
                  queue[j].transfer > 0 =>
                     DueAt(i) - DueAt(j) >= queue[i].transfer

SynthInv ==
    /\ TypeOK /\ BoundsInv /\ ReceivedInv
    /\ DueInv /\ HeadInv /\ CableInv /\ PlayedOnTime

-----------------------------------------------------------------------------
(* Words *)

\* The bounds under which a word stands for one relative time.
LEMMA Constants ==
    /\ Modulus \in Nat /\ Half \in Nat /\ Modulus = Half + Half
    /\ MaxSamplesPerRun \in Nat /\ MaxSamplesPerRun > 0
    /\ MaxBacklog \in Nat /\ MaxQueueSize \in Nat /\ MaxQueueSize > 0
    /\ MaxBacklog + MaxQueueSize < Half
    /\ MaxSamplesPerRun + MaxQueueSize < Half
    /\ Lag \in Nat /\ Lag < Half
    /\ MaxBacklog <= Lag - MaxQueueSize + 1
    /\ MaxSamplesPerRun <= Lag - MaxQueueSize + 1
<1>1. Modulus \in Nat /\ Modulus % 2 = 0
  BY ClockAssumption
<1>2. \A m \in Nat : m % 2 = 0 => /\ m \div 2 \in Nat
                                  /\ m = (m \div 2) + (m \div 2)
  OBVIOUS
<1>3. Half \in Nat /\ Modulus = Half + Half
  BY <1>1, <1>2 DEF Half
<1>4. MaxQueueSize \in Nat /\ MaxQueueSize > 0
  BY QueueSizeAssumption
<1>5. /\ MaxSamplesPerRun \in Nat /\ MaxSamplesPerRun > 0 /\ MaxBacklog \in Nat
      /\ MaxBacklog + MaxQueueSize < Half
      /\ MaxSamplesPerRun + MaxQueueSize < Half
  BY <1>1, <1>3, ClockAssumption DEF Half
<1>6. QED
  BY <1>1, <1>3, <1>4, <1>5 DEF Lag, Max2

\* A sum brought back into the range of a word.
Turned(x) ==
    IF x < 0 THEN x + Modulus ELSE IF x < Modulus THEN x ELSE x - Modulus

\* Less than a turn away from the words, one turn brings a sum back.
LEMMA Wrapped ==
    ASSUME NEW x \in Int, -Modulus <= x, x < Modulus + Modulus
    PROVE  x % Modulus = Turned(x) /\ Turned(x) \in Word
<1>1. PICK m \in Nat \ {0} : m = Modulus
  BY Constants
<1>2. /\ x \div m \in Int /\ x % m \in 0 .. m - 1
      /\ x = (m * (x \div m)) + (x % m)
  OBVIOUS
<1>3. PICK q \in Int : q = x \div m
  BY <1>2
<1>4. \A w \in Nat \ {0}, a \in Int :
        /\ a <= -2 => w * a <= -w - w
        /\ a = -1 => w * a = -w
        /\ a = 0 => w * a = 0
        /\ a = 1 => w * a = w
        /\ a >= 2 => w * a >= w + w
  <2>1. \A w \in Nat \ {0}, a \in Int, b \in Int : a <= b => w * a <= w * b
    OBVIOUS
  <2>2. \A w \in Nat \ {0} : /\ w * (-2) = -w - w /\ w * (-1) = -w
                             /\ w * 0 = 0 /\ w * 1 = w /\ w * 2 = w + w
    OBVIOUS
  <2>3. QED
    BY <2>1, <2>2
<1>5. /\ q <= -2 => m * q <= -m - m
      /\ q = -1 => m * q = -m
      /\ q = 0 => m * q = 0
      /\ q = 1 => m * q = m
      /\ q >= 2 => m * q >= m + m
  BY <1>4
<1>6. PICK p \in Int : p = m * q
  OBVIOUS
<1>7. PICK y \in 0 .. m - 1 : y = x % m
  BY <1>2
<1>8. x = p + y
  BY <1>2, <1>3, <1>6, <1>7
<1>9. -m <= x /\ x < m + m
  BY <1>1
<1>10. p = -m \/ p = 0 \/ p = m
  BY <1>5, <1>6, <1>7, <1>8, <1>9
<1>11. y = IF x < 0 THEN x + m ELSE IF x < m THEN x ELSE x - m
  BY <1>7, <1>8, <1>10
<1>12. QED
  BY <1>1, <1>7, <1>11 DEF Turned, Word

\* What Bit32s() makes of the difference of two words, and no other number less
\* than half the range away, leads from the one to the other.
LEMMA SignedDifference ==
    ASSUME NEW t \in Word, NEW c \in Word
    PROVE  /\ Signed(t - c) \in -Half .. Half - 1
           /\ t = Turned(c + Signed(t - c))
           /\ \A r \in -Half .. Half - 1 :
                 t = Turned(c + r) => Signed(t - c) = r
<1>1. t \in 0 .. Modulus - 1 /\ c \in 0 .. Modulus - 1
  BY DEF Word
<1>2. (t - c) % Modulus = Turned(t - c)
  BY <1>1, Constants, Wrapped
<1>3. Signed(t - c) = IF Turned(t - c) >= Half THEN Turned(t - c) - Modulus
                                               ELSE Turned(t - c)
  BY <1>2 DEF Signed
<1>4. QED
  BY <1>1, <1>3, Constants DEF Turned

\* The difference follows the clock, which wraps.
LEMMA SignedAdvances ==
    ASSUME NEW t \in Word, NEW c \in Word, NEW n \in 0 .. Half - 1,
           Signed(t - c) - n >= -Half
    PROVE  /\ (c + n) % Modulus \in Word
           /\ Signed(t - ((c + n) % Modulus)) = Signed(t - c) - n
<1>1. t \in 0 .. Modulus - 1 /\ c \in 0 .. Modulus - 1
  BY DEF Word
<1>2. (c + n) % Modulus = Turned(c + n) /\ Turned(c + n) \in Word
  BY <1>1, Constants, Wrapped
<1>3. PICK s \in -Half .. Half - 1 : s = Signed(t - c) /\ t = Turned(c + s)
  BY SignedDifference
<1>4. s - n \in -Half .. Half - 1 /\ t = Turned(Turned(c + n) + (s - n))
  BY <1>1, <1>3, Constants DEF Turned
<1>5. Signed(t - Turned(c + n)) = s - n
  BY <1>2, <1>4, SignedDifference
<1>6. QED
  BY <1>2, <1>3, <1>5

\* Time passes for a word and for the relative time that it stands for.
LEMMA WordAdvances ==
    ASSUME NEW c \in Word, NEW n \in 0 .. Half - 1,
           NEW r \in Int, -Half - 2 < r - n, r <= MaxBacklog
    PROVE  (((c + n) % Modulus) + (r - n)) % Modulus = (c + r) % Modulus
<1>1. c \in 0 .. Modulus - 1
  BY DEF Word
<1>2. (c + n) % Modulus = Turned(c + n) /\ Turned(c + n) \in Word
  BY <1>1, Constants, Wrapped
<1>3. Turned(c + n) \in 0 .. Modulus - 1
  BY <1>2 DEF Word
<1>4. Half >= 2
  BY Constants
<1>5. \A x \in Int : -Modulus <= x /\ x < Modulus + Modulus
                      => x % Modulus = Turned(x)
  BY Wrapped
<1>6. PICK d \in 0 .. Modulus - 1 : d = Turned(c + n)
  BY <1>3
<1>7. /\ c + r \in Int /\ -Modulus <= c + r /\ c + r < Modulus + Modulus
      /\ d + (r - n) \in Int /\ -Modulus <= d + (r - n)
      /\ d + (r - n) < Modulus + Modulus
  BY <1>1, <1>4, Constants
<1>8. /\ (c + r) % Modulus = Turned(c + r)
      /\ (d + (r - n)) % Modulus = Turned(d + (r - n))
  BY <1>5, <1>7
<1>9. Turned(Turned(c + n) + (r - n)) = Turned(c + r)
  BY <1>1, <1>3, <1>4, Constants DEF Turned
<1>10. QED
  BY <1>2, <1>6, <1>8, <1>9

-----------------------------------------------------------------------------
(* Steps *)

\* The types of what the invariant relates.
LEMMA Typed ==
    ASSUME SynthInv
    PROVE  /\ queue \in Seq(Event) /\ Len(queue) \in Nat
           /\ \A i \in 1 .. Len(queue) :
                 /\ queue[i] \in Event
                 /\ queue[i].timestamp \in Word /\ queue[i].transfer \in Nat
                 /\ queue[i].dueIn \in Int /\ DueAt(i) \in -Half .. Half - 1
           /\ renderedSampleCount \in Word
           /\ lastReceivedMIDIEventTimestamp \in Word
           /\ thisLen \in Nat /\ len \in Nat /\ receivedIn \in Int
           /\ playedIn \in {-2, -1}
<1>1. queue \in Seq(Event) /\ renderedSampleCount \in Word
  BY DEF SynthInv, TypeOK
<1>2. Len(queue) \in Nat /\ \A i \in 1 .. Len(queue) : queue[i] \in Event
  BY <1>1, LenProperties, ElementOfSeq
<1>3. ASSUME NEW i \in 1 .. Len(queue)
      PROVE  /\ queue[i].timestamp \in Word /\ queue[i].transfer \in Nat
             /\ queue[i].dueIn \in Int /\ DueAt(i) \in -Half .. Half - 1
  <2>1. /\ queue[i].timestamp \in Word /\ queue[i].transfer \in Nat
        /\ queue[i].dueIn \in RelativeTime
    BY <1>2 DEF Event
  <2>2. DueAt(i) \in -Half .. Half - 1
    BY <1>1, <2>1, SignedDifference DEF DueAt
  <2>3. QED
    BY <2>1, <2>2, Constants DEF RelativeTime
<1>4. /\ lastReceivedMIDIEventTimestamp \in Word
      /\ thisLen \in Nat /\ len \in Nat /\ receivedIn \in Int
      /\ playedIn \in {-2, -1}
  BY Constants, ClockAssumption DEF SynthInv, TypeOK, RelativeTime
<1>5. QED
  BY <1>1, <1>2, <1>3, <1>4

\* What is compared of a message in the queue are numbers.
LEMMA Numbers ==
    ASSUME SynthInv, NEW i \in 1 .. Len(queue)
    PROVE  /\ DueAt(i) \in Int /\ queue[i].dueIn \in Int
           /\ queue[i].transfer \in Nat
<1>1. DueAt(i) \in -Half .. Half - 1
  BY Typed
<1>2. DueAt(i) \in Int
  BY <1>1, Constants
<1>3. QED
  BY <1>2, Typed

\* n samples pass for the queue, of which the first d messages are dropped, and
\* none falls too far behind.
QueueMoves(d, n) ==
    /\ d <= Len(queue) /\ Len(queue') = Len(queue) - d
    /\ \A i \in 1 .. Len(queue) - d :
          /\ queue'[i] = [queue[i + d] EXCEPT !.dueIn = Max2(@ - n, -1)]
          /\ DueAt(i + d) - n >= i - 1 - Lag
    /\ renderedSampleCount' = (renderedSampleCount + n) % Modulus
    /\ receivedIn' = Max2(receivedIn - n, -Half - 2)
    /\ lastReceivedMIDIEventTimestamp' = lastReceivedMIDIEventTimestamp
    /\ thisLen <= n /\ thisLen' = 0

\* Time passes for the messages in the queue, of which the first is dropped when
\* it has been played.
LEMMA QueueAdvances ==
    ASSUME SynthInv, NEW d \in {0, 1}, NEW n \in 1 .. Half - 1,
           QueueMoves(d, n)
    PROVE  /\ renderedSampleCount' \in Word
           /\ receivedIn' \in RelativeTime
           /\ \A i \in 1 .. Len(queue') : queue'[i] \in Event
           /\ ReceivedInv' /\ DueInv' /\ CableInv'
<1>0. \A x, y : Max2(x, y) = IF x >= y THEN x ELSE y
  BY DEF Max2
<1>1. /\ n \in 0 .. Half - 1 /\ n \in Int /\ d \in Int
      /\ renderedSampleCount \in Word /\ thisLen \in Nat
      /\ receivedIn \in Int /\ receivedIn <= MaxBacklog /\ Len(queue) \in Nat
  <2>1. n \in 0 .. Half - 1 /\ n \in Int /\ d \in Int
    BY Constants
  <2>2. receivedIn <= MaxBacklog
    BY DEF SynthInv, ReceivedInv
  <2>3. QED
    BY <2>1, <2>2, Typed
<1>m. /\ Len(queue') = Len(queue) - d /\ thisLen <= n /\ thisLen' = 0
      /\ receivedIn' = IF receivedIn - n >= -Half - 2 THEN receivedIn - n
                                                     ELSE -Half - 2
  BY <1>0 DEF QueueMoves
<1>c. renderedSampleCount' = Turned(renderedSampleCount + n)
  <2>1. renderedSampleCount \in 0 .. Modulus - 1
    BY <1>1 DEF Word
  <2>2. /\ renderedSampleCount + n \in Int
        /\ -Modulus <= renderedSampleCount + n
        /\ renderedSampleCount + n < Modulus + Modulus
    BY <1>1, <2>1, Constants
  <2>3. (renderedSampleCount + n) % Modulus = Turned(renderedSampleCount + n)
    BY <2>2, Wrapped
  <2>4. QED
    BY <2>3 DEF QueueMoves
<1>2. /\ renderedSampleCount' \in Word
      /\ receivedIn' \in RelativeTime /\ receivedIn' <= MaxBacklog
  BY <1>1, <1>m, <1>c, Constants DEF RelativeTime, Turned, Word
<1>3. ReceivedInv'
  <2> SUFFICES ASSUME receivedIn' > -Half - 2
               PROVE  lastReceivedMIDIEventTimestamp' =
                         (renderedSampleCount' + receivedIn') % Modulus
    BY <1>2 DEF ReceivedInv
  <2>1. /\ receivedIn' = receivedIn - n /\ -Half - 2 < receivedIn - n
        /\ receivedIn > -Half - 2
    BY <1>1, <1>m, Constants
  <2>2. lastReceivedMIDIEventTimestamp =
           (renderedSampleCount + receivedIn) % Modulus
    BY <2>1 DEF SynthInv, ReceivedInv
  <2>3. (((renderedSampleCount + n) % Modulus) + (receivedIn - n)) % Modulus =
           (renderedSampleCount + receivedIn) % Modulus
    BY <1>1, <2>1, WordAdvances
  <2>4. QED
    BY <2>1, <2>2, <2>3 DEF QueueMoves
<1>4. ASSUME NEW i \in 1 .. Len(queue')
      PROVE  /\ i \in Nat /\ i >= 1
             /\ i + d \in 1 .. Len(queue) /\ queue'[i] \in Event
             /\ queue'[i].timestamp = queue[i + d].timestamp
             /\ queue'[i].transfer = queue[i + d].transfer
             /\ queue[i + d].dueIn \in Int /\ queue'[i].dueIn \in Int
             /\ queue'[i].dueIn >= queue[i + d].dueIn - n
             /\ \/ queue'[i].dueIn = queue[i + d].dueIn - n
                \/ queue'[i].dueIn = -1
             /\ DueAt(i)' = DueAt(i + d) - n
             /\ DueAt(i)' >= i - 1 - Lag
  <2>1. i \in 1 .. Len(queue) - d /\ i + d \in 1 .. Len(queue)
        /\ i \in Nat /\ i >= 1
    BY <1>1, <1>m
  <2>2. /\ queue[i + d] \in Event /\ queue[i + d].timestamp \in Word
        /\ queue[i + d].transfer \in Nat /\ queue[i + d].dueIn \in RelativeTime
    <3>1. queue[i + d] \in Event
      BY <2>1, Typed
    <3>2. QED
      BY <3>1 DEF Event
  <2>3. queue'[i] = [queue[i + d] EXCEPT !.dueIn = Max2(@ - n, -1)]
    BY <2>1 DEF QueueMoves
  <2>4. /\ queue'[i].timestamp = queue[i + d].timestamp
        /\ queue'[i].transfer = queue[i + d].transfer
        /\ queue'[i].dueIn = Max2(queue[i + d].dueIn - n, -1)
    BY <2>2, <2>3 DEF Event
  <2>5. PICK v \in -Half - 2 .. Modulus : v = queue[i + d].dueIn
    BY <2>2 DEF RelativeTime
  <2>a. PICK w \in Int : w = IF v - n >= -1 THEN v - n ELSE -1
    <3>1. v - n \in Int
      BY <1>1
    <3>2. CASE v - n >= -1
      BY <3>1, <3>2
    <3>3. CASE ~(v - n >= -1)
      BY <3>3
    <3>4. QED
      BY <3>2, <3>3
  <2>b. queue'[i].dueIn = w
    BY <1>0, <2>4, <2>5, <2>a
  <2>c. w >= v - n /\ (w = v - n \/ w = -1)
    BY <1>1, <2>a
  <2>d. w \in -Half - 2 .. Modulus
    <3>1. w <= v \/ w = -1
      BY <1>1, <2>c
    <3>2. QED
      BY <2>c, <3>1, <2>a, Constants
  <2>e. /\ queue'[i].dueIn \in RelativeTime
        /\ queue[i + d].dueIn \in Int /\ queue'[i].dueIn \in Int
        /\ queue'[i].dueIn >= queue[i + d].dueIn - n
        /\ \/ queue'[i].dueIn = queue[i + d].dueIn - n
           \/ queue'[i].dueIn = -1
    BY <2>5, <2>b, <2>c, <2>d DEF RelativeTime
  <2>6. queue'[i] \in Event
    BY <2>2, <2>3, <2>4, <2>e DEF Event
  <2>7. DueAt(i + d) - n >= i - 1 - Lag /\ DueAt(i + d) \in Int
    BY <2>1, Typed, Constants DEF QueueMoves
  <2>8. DueAt(i + d) - n >= -Half
    BY <2>1, <2>7, Constants
  <2>9. DueAt(i)' = DueAt(i + d) - n
    <3>1. Signed(queue[i + d].timestamp
                 - ((renderedSampleCount + n) % Modulus)) =
             Signed(queue[i + d].timestamp - renderedSampleCount) - n
      BY <1>1, <2>2, <2>8, SignedAdvances DEF DueAt
    <3>2. DueAt(i)' = Signed(queue'[i].timestamp - renderedSampleCount')
      BY DEF DueAt, Signed, Half
    <3>3. QED
      BY <2>4, <3>1, <3>2 DEF DueAt, QueueMoves
  <2>10. QED
    BY <2>1, <2>4, <2>e, <2>6, <2>7, <2>9
<1>5. DueInv'
  <2> SUFFICES ASSUME NEW i \in 1 .. Len(queue')
               PROVE  /\ DueAt(i)' <= queue'[i].dueIn
                      /\ queue'[i].dueIn <= Max2(DueAt(i)', thisLen')
                      /\ DueAt(i)' <= MaxBacklog
                      /\ DueAt(i)' >= thisLen' + i - 1 - Lag
                      /\ \A j \in 1 .. i :
                            DueAt(i)' >= DueAt(j)' + i - 1 - Lag
    BY DEF DueInv, Max2, Lag
  <2>1. /\ i \in Nat /\ i >= 1 /\ i + d \in 1 .. Len(queue)
        /\ queue[i + d].dueIn \in Int /\ queue'[i].dueIn \in Int
        /\ queue'[i].dueIn >= queue[i + d].dueIn - n
        /\ \/ queue'[i].dueIn = queue[i + d].dueIn - n
           \/ queue'[i].dueIn = -1
        /\ DueAt(i)' = DueAt(i + d) - n /\ DueAt(i)' >= i - 1 - Lag
    BY <1>4
  <2>f. i \in Int /\ DueAt(i)' = DueAt(i + d) - n
    BY <2>1
  <2>g. DueAt(i)' >= i - 1 - Lag
    BY <2>1
  <2>d. DueAt(i + d) \in Int
    BY <2>1, Typed, Constants
  <2>2. /\ DueAt(i + d) <= queue[i + d].dueIn
        /\ queue[i + d].dueIn <= Max2(DueAt(i + d), thisLen)
        /\ DueAt(i + d) <= MaxBacklog
        /\ \A j \in 1 .. i + d :
              DueAt(i + d) >= DueAt(j) + (i + d) - 1 - Lag
    BY <2>1 DEF SynthInv, DueInv
  <2>e. queue[i + d].dueIn <= IF DueAt(i + d) >= thisLen THEN DueAt(i + d)
                                                      ELSE thisLen
    BY <1>0, <2>2
  <2>3. ASSUME NEW j \in 1 .. i
        PROVE  DueAt(i)' >= DueAt(j)' + i - 1 - Lag
    <3>1. j \in 1 .. Len(queue') /\ j + d \in 1 .. i + d
      <4>1. j \in Int /\ 1 <= j /\ j <= i /\ i \in 1 .. Len(queue')
        BY <2>f
      <4>2. j \in 1 .. Len(queue')
        BY <1>1, <1>m, <4>1
      <4>3. j + d \in 1 .. i + d
        BY <1>1, <2>f, <4>1
      <4>4. QED
        BY <4>2, <4>3
    <3>2. DueAt(j)' = DueAt(j + d) - n /\ DueAt(j + d) \in Int
      <4>1. j + d \in 1 .. Len(queue) /\ DueAt(j)' = DueAt(j + d) - n
        BY <1>4, <3>1
      <4>2. QED
        BY <4>1, Numbers
    <3>3. DueAt(i + d) >= DueAt(j + d) + (i + d) - 1 - Lag
      BY <2>2, <3>1
    <3>4. \A x, y, a, b, l, k, m, e \in Int :
             /\ x >= y + (k + e) - 1 - l /\ e >= 0
             /\ a = x - m /\ b = y - m
             => a >= b + k - 1 - l
      OBVIOUS
    <3>5. Lag \in Int /\ d >= 0 /\ DueAt(i)' \in Int /\ DueAt(j)' \in Int
      BY <1>1, <2>d, <2>f, <3>2, Constants
    <3>6. QED
      BY <1>1, <2>d, <2>f, <3>2, <3>3, <3>4, <3>5
  <2>h. \A v, w, x, a, m, t \in Int :
           /\ w = v - m \/ w = -1
           /\ w >= v - m
           /\ a = x - m /\ x <= v
           /\ v <= x \/ v <= t
           /\ t <= m
           => a <= w /\ (w <= a \/ w <= 0)
    OBVIOUS
  <2>i. /\ DueAt(i)' \in Int /\ thisLen \in Int
        /\ queue'[i].dueIn = queue[i + d].dueIn - n \/ queue'[i].dueIn = -1
        /\ queue'[i].dueIn >= queue[i + d].dueIn - n
        /\ queue[i + d].dueIn \in Int /\ queue'[i].dueIn \in Int
        /\ DueAt(i + d) <= queue[i + d].dueIn
    BY <1>1, <2>1, <2>d, <2>f, <2>2
  <2>j. /\ DueAt(i)' <= queue'[i].dueIn
        /\ queue'[i].dueIn <= DueAt(i)' \/ queue'[i].dueIn <= 0
    <3>1. \/ queue[i + d].dueIn <= DueAt(i + d)
          \/ queue[i + d].dueIn <= thisLen
      BY <2>e
    <3>2. thisLen <= n
      BY <1>m
    <3>3. PICK v \in Int, w \in Int, x \in Int, a \in Int, m \in Int,
               t \in Int :
             /\ v = queue[i + d].dueIn /\ w = queue'[i].dueIn
             /\ x = DueAt(i + d) /\ a = DueAt(i)' /\ m = n /\ t = thisLen
      BY <1>1, <2>d, <2>i
    <3>4. w = v - m \/ w = -1
      BY <2>i, <3>3
    <3>5. w >= v - m
      BY <2>i, <3>3
    <3>6. a = x - m /\ x <= v
      BY <2>i, <2>f, <3>3
    <3>7. (v <= x \/ v <= t) /\ t <= m
      BY <3>1, <3>2, <3>3
    <3>8. a <= w /\ (w <= a \/ w <= 0)
      BY <2>h, <3>4, <3>5, <3>6, <3>7
    <3>9. QED
      BY <3>3, <3>8
  <2>4. queue'[i].dueIn <= Max2(DueAt(i)', thisLen')
    <3>1. thisLen' = 0
      BY <1>m
    <3>2. QED
      BY <1>0, <2>i, <2>j, <3>1
  <2>5. DueAt(i)' <= queue'[i].dueIn /\ DueAt(i)' <= MaxBacklog
    <3>1. DueAt(i + d) <= MaxBacklog
      BY <2>2
    <3>2. MaxBacklog \in Int
      BY Constants
    <3>3. \A x, a, m, k \in Int : a = x - m /\ x <= k /\ m >= 0 => a <= k
      OBVIOUS
    <3>4. n >= 0
      BY <1>1, Constants
    <3>5. QED
      BY <1>1, <2>d, <2>f, <2>i, <2>j, <3>1, <3>2, <3>3, <3>4
  <2>6. DueAt(i)' >= thisLen' + i - 1 - Lag
    BY <1>m, <2>f, <2>g, Constants
  <2>7. QED
    BY <2>3, <2>4, <2>5, <2>6
<1>6. CableInv'
  <2> SUFFICES ASSUME NEW i \in 1 .. Len(queue'), queue'[i].transfer > 0
               PROVE  /\ DueAt(i)' <= receivedIn'
                      /\ \A j \in 1 .. i - 1 :
                            queue'[j].transfer > 0 =>
                               DueAt(i)' - DueAt(j)' >= queue'[i].transfer
    BY DEF CableInv
  <2>1. /\ i \in Nat /\ i >= 1 /\ i + d \in 1 .. Len(queue)
        /\ queue'[i].transfer = queue[i + d].transfer
        /\ DueAt(i)' = DueAt(i + d) - n
    BY <1>4
  <2>2. /\ DueAt(i + d) \in Int /\ DueAt(i + d) <= receivedIn
        /\ \A j \in 1 .. i + d - 1 :
              queue[j].transfer > 0 =>
                 DueAt(i + d) - DueAt(j) >= queue[i + d].transfer
    <3>1. DueAt(i + d) \in Int /\ queue[i + d].transfer > 0
      BY <2>1, Numbers
    <3>2. QED
      BY <2>1, <3>1 DEF SynthInv, CableInv
  <2>3. ASSUME NEW j \in 1 .. i - 1, queue'[j].transfer > 0
        PROVE  DueAt(i)' - DueAt(j)' >= queue'[i].transfer
    <3>1. j \in 1 .. Len(queue') /\ j + d \in 1 .. i + d - 1
          /\ j + d \in 1 .. Len(queue)
      <4>1. j \in Int /\ 1 <= j /\ j <= i - 1 /\ i \in 1 .. Len(queue')
        BY <2>1
      <4>2. j \in 1 .. Len(queue')
        BY <1>1, <1>m, <2>1, <4>1
      <4>3. j + d \in 1 .. i + d - 1
        <5>1. i \in Int
          BY <2>1
        <5>2. d = 0 \/ d = 1
          OBVIOUS
        <5>3. QED
          BY <4>1, <5>1, <5>2
      <4>4. j + d \in 1 .. Len(queue)
        BY <1>4, <4>2
      <4>5. QED
        BY <4>2, <4>3, <4>4
    <3>2. /\ DueAt(j)' = DueAt(j + d) - n /\ DueAt(j + d) \in Int
          /\ queue'[j].transfer = queue[j + d].transfer
      <4>1. DueAt(j + d) \in Int
        BY <3>1, Numbers
      <4>2. QED
        BY <1>4, <3>1, <4>1
    <3>3. DueAt(i + d) - DueAt(j + d) >= queue[i + d].transfer
      BY <2>2, <2>3, <3>1, <3>2
    <3>4. queue[i + d].transfer \in Nat
      BY <2>1, Typed
    <3>5. QED
      BY <2>1, <2>2, <3>2, <3>3, <3>4
  <2>4. DueAt(i)' <= receivedIn'
    BY <1>0, <1>1, <1>m, <2>1, <2>2, Constants
  <2>5. QED
    BY <2>3, <2>4
<1>7. QED
  BY <1>2, <1>3, <1>4, <1>5, <1>6

\* A message is played: it was due, and it is dropped.
LEMMA PlaysOnTime ==
    ASSUME SynthInv, RenderPlays
    PROVE  SynthInv'
<1>1. /\ queue # <<>> /\ Len(queue) \in Nat /\ Len(queue) >= 1
      /\ SamplesToNextEvent = DueAt(1) /\ Head(queue) = queue[1]
      /\ 1 \in 1 .. Len(queue)
  <2>1. queue # <<>>
    BY Constants DEF RenderPlays, SamplesToNextEvent
  <2>2. Len(queue) \in Nat /\ Len(queue) >= 1
    BY <2>1, Typed, EmptySeq
  <2>3. Head(queue) = queue[1]
    BY <2>1, Typed, HeadTailProperties
  <2>4. SamplesToNextEvent = DueAt(1)
    BY <2>1, <2>3 DEF SamplesToNextEvent, DueAt
  <2>5. QED
    BY <2>1, <2>2, <2>3, <2>4
<1>2. /\ thisLen = 0 /\ thisLen' = 0 /\ DueAt(1) <= 0 /\ len \in Nat /\ len > 0
      /\ len' = len - 1 /\ playedIn' = -1
      /\ error' = -Max2(queue[1].dueIn, playedIn + 1)
  <2>1. len \in Nat
    BY Typed
  <2>2. QED
    BY <1>1, <2>1 DEF RenderPlays, ClockAdvances, Rendering
<1>3. error' = 0
  <2>1. /\ DueAt(1) \in Int /\ queue[1].dueIn \in Int
        /\ playedIn \in {-2, -1}
    <3>1. DueAt(1) \in Int /\ queue[1].dueIn \in Int
      BY <1>1, Numbers
    <3>2. QED
      BY <3>1 DEF SynthInv, TypeOK
  <2>2. queue[1].dueIn <= IF DueAt(1) >= 0 THEN DueAt(1) ELSE 0
    BY <1>1, <1>2 DEF SynthInv, DueInv, Max2
  <2>3. queue[1].dueIn <= 0
    BY <1>2, <2>1, <2>2
  <2>4. playedIn = -2 => queue[1].dueIn >= 0
    BY <1>1, <1>2 DEF SynthInv, HeadInv
  <2>5. Max2(queue[1].dueIn, playedIn + 1) = 0
    BY <2>1, <2>3, <2>4 DEF Max2
  <2>6. QED
    BY <1>2, <2>5
<1>4. /\ Len(queue') = Len(queue) - 1 /\ 1 <= Len(queue)
      /\ queue' = [i \in 1 .. Len(queue) - 1 |->
                     [queue[i + 1] EXCEPT !.dueIn = Max2(@ - 1, -1)]]
  <2>1. /\ Tail(queue) \in Seq(Event) /\ Len(Tail(queue)) = Len(queue) - 1
        /\ \A i \in 1 .. Len(Tail(queue)) : Tail(queue)[i] = queue[i + 1]
    BY <1>1, Typed, HeadTailProperties
  <2>2. queue' = QueueAfter(Tail(queue), 1)
    BY DEF RenderPlays
  <2>3. queue' = [i \in 1 .. Len(queue) - 1 |->
                     [queue[i + 1] EXCEPT !.dueIn = Max2(@ - 1, -1)]]
    BY <2>1, <2>2 DEF QueueAfter
  <2>4. Len(queue') = Len(queue) - 1
    BY <1>1, <2>3
  <2>5. QED
    BY <1>1, <2>3, <2>4
<1>5. QueueMoves(1, 1)
  <2>1. ASSUME NEW i \in 1 .. Len(queue) - 1
        PROVE  DueAt(i + 1) - 1 >= i - 1 - Lag
    <3>1. i + 1 \in 1 .. Len(queue) /\ i \in Nat
      BY <1>1, <2>1
    <3>2. DueAt(i + 1) >= (i + 1) - 1 - Lag
      BY <1>2, <3>1, Constants DEF SynthInv, DueInv
    <3>3. DueAt(i + 1) \in Int
      BY <3>1, Typed, Constants
    <3>4. QED
      BY <3>1, <3>2, <3>3, Constants
  <2>2. /\ renderedSampleCount' = (renderedSampleCount + 1) % Modulus
        /\ receivedIn' = Max2(receivedIn - 1, -Half - 2)
        /\ lastReceivedMIDIEventTimestamp' = lastReceivedMIDIEventTimestamp
    BY DEF RenderPlays, ClockAdvances
  <2>3. \A i \in 1 .. Len(queue) - 1 :
           queue'[i] = [queue[i + 1] EXCEPT !.dueIn = Max2(@ - 1, -1)]
    BY <1>4
  <2>4. QED
    BY <1>2, <1>4, <2>1, <2>2, <2>3 DEF QueueMoves
<1>6. /\ renderedSampleCount' \in Word /\ receivedIn' \in RelativeTime
      /\ \A i \in 1 .. Len(queue') : queue'[i] \in Event
      /\ ReceivedInv' /\ DueInv' /\ CableInv'
  <2>1. 1 \in 1 .. Half - 1
    BY Constants
  <2>2. QED
    BY <1>5, <2>1, QueueAdvances
<1>7. TypeOK'
  <2>1. /\ use' = use /\ opened' = opened /\ queueSize' = queueSize
        /\ midiDelayMode' = midiDelayMode /\ silent' = silent
        /\ lastReceivedMIDIEventTimestamp' = lastReceivedMIDIEventTimestamp
    BY DEF RenderPlays, synthVars
  <2>2. queue' \in Seq(Event)
    BY <1>4, <1>6
  <2>3. opened => Len(queue') <= queueSize - 1
    BY <1>1, <1>4, QueueSizeAssumption DEF SynthInv, TypeOK
  <2>4. len' \in 0 .. MaxRender /\ thisLen' \in 0 .. len'
    <3>1. len <= MaxRender /\ MaxRender \in Int
      BY ClockAssumption, Constants DEF SynthInv, TypeOK
    <3>2. QED
      BY <1>2, <3>1
  <2>5. error' \in Int /\ playedIn' \in {-2, -1}
    BY <1>2, <1>3
  <2>6. QED
    BY <1>6, <2>1, <2>2, <2>3, <2>4, <2>5 DEF SynthInv, TypeOK, Word,
       RelativeTime, Half, Event
<1>8. BoundsInv'
  BY <1>2, Constants DEF SynthInv, BoundsInv, RenderPlays, synthVars
<1>9. HeadInv'
  BY <1>2 DEF HeadInv
<1>10. PlayedOnTime'
  BY <1>3 DEF PlayedOnTime
<1>11. QED
  BY <1>6, <1>7, <1>8, <1>9, <1>10 DEF SynthInv

\* A run ends: its samples have passed for every message.
LEMMA AdvancesOnTime ==
    ASSUME SynthInv, RenderAdvances
    PROVE  SynthInv'
<1>1. /\ thisLen \in 1 .. Half - 1 /\ thisLen \in Int /\ thisLen' = 0
      /\ len \in Nat /\ thisLen <= len
      /\ len' = len - thisLen /\ Len(queue) \in Nat
      /\ playedIn' = -2 /\ error' = error
  <2>1. thisLen \in Nat /\ thisLen > 0 /\ thisLen <= MaxSamplesPerRun
    BY Typed DEF RenderAdvances, SynthInv, BoundsInv
  <2>2. len \in Nat /\ thisLen <= len
    BY Typed DEF SynthInv, TypeOK
  <2>3. playedIn' = -2
    BY <2>1, Typed DEF RenderAdvances, Max2
  <2>4. /\ thisLen' = 0 /\ len' = len - thisLen /\ error' = error
    BY DEF RenderAdvances, ClockAdvances
  <2>5. thisLen \in 1 .. Half - 1
    BY <2>1, Constants
  <2>6. Len(queue) \in Nat
    BY Typed
  <2>7. QED
    BY <2>1, <2>2, <2>3, <2>4, <2>5, <2>6
<1>2. /\ Len(queue') = Len(queue)
      /\ queue' = [i \in 1 .. Len(queue) |->
                     [queue[i] EXCEPT !.dueIn = Max2(@ - thisLen, -1)]]
  BY <1>1 DEF RenderAdvances, QueueAfter
<1>3. QueueMoves(0, thisLen)
  <2>1. ASSUME NEW i \in 1 .. Len(queue) - 0
        PROVE  /\ queue'[i] =
                     [queue[i + 0] EXCEPT !.dueIn = Max2(@ - thisLen, -1)]
               /\ DueAt(i + 0) - thisLen >= i - 1 - Lag
    <3>1. i \in 1 .. Len(queue) /\ i + 0 = i /\ i \in Int
      BY <1>1
    <3>2. DueAt(i) >= thisLen + i - 1 - Lag
      BY <3>1 DEF SynthInv, DueInv
    <3>3. DueAt(i) \in Int
      BY <3>1, Typed, Constants
    <3>4. DueAt(i) - thisLen >= i - 1 - Lag
      BY <1>1, <3>1, <3>2, <3>3, Constants
    <3>5. QED
      BY <1>2, <3>1, <3>4
  <2>2. /\ renderedSampleCount' = (renderedSampleCount + thisLen) % Modulus
        /\ receivedIn' = Max2(receivedIn - thisLen, -Half - 2)
        /\ lastReceivedMIDIEventTimestamp' = lastReceivedMIDIEventTimestamp
    BY DEF RenderAdvances, ClockAdvances
  <2>3. /\ 0 <= Len(queue) /\ Len(queue') = Len(queue) - 0
        /\ thisLen <= thisLen
    BY <1>1, <1>2
  <2>4. QED
    BY <1>1, <2>1, <2>2, <2>3 DEF QueueMoves
<1>4. /\ renderedSampleCount' \in Word /\ receivedIn' \in RelativeTime
      /\ \A i \in 1 .. Len(queue') : queue'[i] \in Event
      /\ ReceivedInv' /\ DueInv' /\ CableInv'
  BY <1>1, <1>3, QueueAdvances
<1>5. TypeOK'
  <2>1. /\ use' = use /\ opened' = opened /\ queueSize' = queueSize
        /\ midiDelayMode' = midiDelayMode /\ silent' = silent
        /\ lastReceivedMIDIEventTimestamp' = lastReceivedMIDIEventTimestamp
    BY DEF RenderAdvances, synthVars
  <2>2. queue' \in Seq(Event)
    BY <1>1, <1>2, <1>4
  <2>3. opened => Len(queue') <= queueSize - 1
    BY <1>2 DEF SynthInv, TypeOK
  <2>4. len' \in 0 .. MaxRender /\ thisLen' \in 0 .. len'
    <3>1. len <= MaxRender /\ MaxRender \in Int
      BY ClockAssumption, Constants DEF SynthInv, TypeOK
    <3>2. QED
      BY <1>1, <3>1
  <2>5. error' \in Int /\ playedIn' \in {-2, -1}
    BY <1>1 DEF SynthInv, TypeOK
  <2>6. QED
    BY <1>4, <2>1, <2>2, <2>3, <2>4, <2>5 DEF SynthInv, TypeOK, Word,
       RelativeTime, Half, Event
<1>6. BoundsInv'
  BY <1>1, Constants DEF SynthInv, BoundsInv, RenderAdvances, synthVars
<1>7. HeadInv'
  <2> SUFFICES ASSUME queue' # <<>>
               PROVE  queue'[1].dueIn >= 0
    BY <1>1 DEF HeadInv
  <2>1. queue # <<>> /\ 1 \in 1 .. Len(queue)
    <3>1. queue' = <<>> <=> Len(queue') = 0
      BY <1>1, <1>2
    <3>2. Len(queue) # 0
      BY <1>2, <3>1
    <3>3. QED
      BY <1>1, <3>2, Typed, EmptySeq
  <2>2. queue[1].dueIn >= thisLen
    BY <1>1, <2>1 DEF SynthInv, HeadInv
  <2>3. queue[1] \in Event /\ queue[1].dueIn \in Int
    BY <2>1, Typed
  <2>4. queue'[1].dueIn = Max2(queue[1].dueIn - thisLen, -1)
    BY <1>2, <2>1, <2>3 DEF Event
  <2>5. QED
    BY <1>1, <2>2, <2>3, <2>4 DEF Max2
<1>8. PlayedOnTime'
  BY <1>1 DEF PlayedOnTime, SynthInv
<1>9. QED
  BY <1>4, <1>5, <1>6, <1>7, <1>8 DEF SynthInv

\* A step that leaves the queue and the clock leaves what is due.
LEMMA SameQueue ==
    ASSUME queue' = queue, renderedSampleCount' = renderedSampleCount
    PROVE  \A i : DueAt(i)' = DueAt(i)
  BY DEF DueAt, Signed, Half

\* A run begins: it ends before the oldest message.
LEMMA RunsUpToEvent ==
    ASSUME SynthInv, RenderRuns
    PROVE  SynthInv'
<1>1. /\ thisLen = 0 /\ SamplesToNextEvent > 0 /\ len \in Nat /\ len > 0
      /\ Len(queue) \in Nat
      /\ queue' = queue /\ renderedSampleCount' = renderedSampleCount
      /\ len' = len /\ receivedIn' = receivedIn
      /\ lastReceivedMIDIEventTimestamp' = lastReceivedMIDIEventTimestamp
      /\ error' = error /\ playedIn' = playedIn
      /\ use' = use /\ opened' = opened /\ queueSize' = queueSize
      /\ midiDelayMode' = midiDelayMode /\ silent' = silent
  BY Typed DEF RenderRuns, Rendering, synthVars, receiveVars, ghostVars
<1>2. queue # <<>> => /\ 1 \in 1 .. Len(queue)
                      /\ SamplesToNextEvent = DueAt(1)
  <2> SUFFICES ASSUME queue # <<>>
               PROVE  /\ 1 \in 1 .. Len(queue)
                      /\ SamplesToNextEvent = DueAt(1)
    OBVIOUS
  <2>1. 1 \in 1 .. Len(queue)
    BY <1>1, Typed, EmptySeq
  <2>2. Head(queue) = queue[1]
    BY Typed, HeadTailProperties
  <2>3. QED
    BY <2>1, <2>2 DEF SamplesToNextEvent, DueAt
<1>3. SamplesToNextEvent \in Int
  <2>1. CASE queue = <<>>
    BY <2>1, Constants DEF SamplesToNextEvent
  <2>2. CASE queue # <<>>
    BY <1>2, <2>2, Typed, Constants
  <2>3. QED
    BY <2>1, <2>2
<1>4. /\ thisLen' \in Nat /\ thisLen' <= len /\ thisLen' <= MaxSamplesPerRun
      /\ thisLen' <= SamplesToNextEvent
  BY <1>1, <1>3, Constants DEF RenderRuns
<1>5. \A i : DueAt(i)' = DueAt(i)
  BY <1>1, SameQueue
<1>6. DueInv'
  <2> SUFFICES ASSUME NEW i \in 1 .. Len(queue)
               PROVE  /\ DueAt(i) <= queue[i].dueIn
                      /\ queue[i].dueIn <= Max2(DueAt(i), thisLen')
                      /\ DueAt(i) <= MaxBacklog
                      /\ DueAt(i) >= thisLen' + i - 1 - Lag
                      /\ \A j \in 1 .. i :
                            DueAt(i) >= DueAt(j) + i - 1 - Lag
    BY <1>1, <1>5 DEF DueInv, Max2, Lag
  <2>1. /\ DueAt(i) <= queue[i].dueIn
        /\ queue[i].dueIn <= Max2(DueAt(i), thisLen)
        /\ DueAt(i) <= MaxBacklog
        /\ \A j \in 1 .. i : DueAt(i) >= DueAt(j) + i - 1 - Lag
    BY DEF SynthInv, DueInv
  <2>2. i \in Int /\ i >= 1 /\ 1 \in 1 .. i /\ 1 \in 1 .. Len(queue)
    BY <1>1
  <2>3. DueAt(i) \in Int /\ DueAt(1) \in Int /\ queue[i].dueIn \in Int
    BY <2>2, Typed, Constants
  <2>4. queue[i].dueIn <= Max2(DueAt(i), thisLen')
    BY <1>1, <1>4, <2>1, <2>3 DEF Max2
  <2>5. DueAt(1) >= thisLen'
    <3>1. queue # <<>>
      BY <1>1, <2>2, Typed, EmptySeq
    <3>2. QED
      BY <1>2, <1>4, <3>1
  <2>6. DueAt(i) >= DueAt(1) + i - 1 - Lag
    BY <2>1, <2>2
  <2>7. DueAt(i) >= thisLen' + i - 1 - Lag
    <3>1. Lag \in Int /\ thisLen' \in Int
      BY <1>4, Constants
    <3>2. QED
      BY <2>2, <2>3, <2>5, <2>6, <3>1
  <2>8. QED
    BY <2>1, <2>4, <2>7
<1>7. HeadInv'
  <2> SUFFICES ASSUME queue # <<>>
               PROVE  queue[1].dueIn >= thisLen'
    BY <1>1 DEF HeadInv
  <2>1. /\ DueAt(1) <= queue[1].dueIn /\ DueAt(1) >= thisLen'
        /\ DueAt(1) \in Int /\ queue[1].dueIn \in Int
    <3>1. 1 \in 1 .. Len(queue) /\ DueAt(1) >= thisLen'
      BY <1>2, <1>4
    <3>2. DueAt(1) \in Int /\ queue[1].dueIn \in Int
      BY <3>1, Numbers
    <3>3. QED
      BY <3>1, <3>2 DEF SynthInv, DueInv
  <2>2. QED
    BY <1>4, <2>1
<1>8. CableInv'
  BY <1>1, <1>5 DEF SynthInv, CableInv
<1>9. TypeOK'
  <2>1. thisLen' \in 0 .. len
    BY <1>1, <1>4
  <2>2. QED
    BY <1>1, <2>1 DEF SynthInv, TypeOK, Word, RelativeTime, Half
<1>10. BoundsInv' /\ ReceivedInv' /\ PlayedOnTime'
  BY <1>1, <1>4 DEF SynthInv, BoundsInv, ReceivedInv, PlayedOnTime, Half
<1>11. QED
  BY <1>6, <1>7, <1>8, <1>9, <1>10 DEF SynthInv

\* A delay that keeps to the bounds.
LEMMA DelayedWord ==
    ASSUME NEW c \in Word, NEW b \in Int, NEW n \in Nat,
           -1 <= b, b + n <= MaxBacklog
    PROVE  (Turned(c + b) + n) % Modulus = (c + (b + n)) % Modulus
<1>1. c \in 0 .. Modulus - 1
  BY DEF Word
<1>2. /\ c + b \in Int /\ -Modulus <= c + b /\ c + b < Modulus + Modulus
      /\ c + (b + n) \in Int /\ -Modulus <= c + (b + n)
      /\ c + (b + n) < Modulus + Modulus
  BY <1>1, Constants
<1>3. Turned(c + b) \in 0 .. Modulus - 1
  BY <1>2, Wrapped DEF Word
<1>4. PICK x \in 0 .. Modulus - 1 : x = Turned(c + b)
  BY <1>3
<1>5. x + n \in Int /\ -Modulus <= x + n /\ x + n < Modulus + Modulus
  BY <1>4, Constants
<1>6. /\ (c + (b + n)) % Modulus = Turned(c + (b + n))
      /\ (x + n) % Modulus = Turned(x + n)
  BY <1>2, <1>5, Wrapped
<1>7. Turned(x + n) = Turned(c + (b + n))
  BY <1>1, <1>2, <1>4, Constants DEF Turned
<1>8. QED
  BY <1>4, <1>6, <1>7

\* The word that the driver makes of a relative time.
LEMMA Requested ==
    ASSUME NEW c \in Word, NEW r \in Int, -Half <= r, r <= MaxBacklog
    PROVE  /\ (c + r) % Modulus = Turned(c + r) /\ (c + r) % Modulus \in Word
           /\ Signed(((c + r) % Modulus) - c) = r
<1>1. c \in 0 .. Modulus - 1
  BY DEF Word
<1>2. c + r \in Int /\ -Modulus <= c + r /\ c + r < Modulus + Modulus
  BY <1>1, Constants
<1>3. (c + r) % Modulus = Turned(c + r) /\ Turned(c + r) \in Word
  BY <1>2, Wrapped
<1>4. r \in -Half .. Half - 1
  BY Constants
<1>5. Signed(Turned(c + r) - c) = r
  BY <1>3, <1>4, SignedDifference
<1>6. QED
  BY <1>3, <1>5

\* The delay is added to the later of what the application asked for and the
\* end of the message before it, in words as in relative times.
LEMMA DelayInWords ==
    ASSUME SynthInv, NEW kind \in Kinds, NEW ahead \in -1 .. MaxBacklog,
           Delayed(kind), DueIn(kind, ahead) <= MaxBacklog,
           ahead - receivedIn < Half
    PROVE  AddMIDIInterfaceDelay(kind, (renderedSampleCount + ahead) % Modulus)
              = (renderedSampleCount + DueIn(kind, ahead)) % Modulus
<1> DEFINE c == renderedSampleCount
           last == lastReceivedMIDIEventTimestamp
           requested == (c + ahead) % Modulus
           T == TransferTime[kind]
           r == DueIn(kind, ahead)
<1>1. /\ c \in Word /\ last \in Word /\ receivedIn \in Int /\ T \in Nat
      /\ r <= MaxBacklog /\ ahead \in Int /\ ahead >= -1 /\ ahead <= MaxBacklog
  BY Typed, ClockAssumption, Constants
<1>2. r = (IF ahead >= receivedIn THEN ahead ELSE receivedIn) + T
  BY DEF DueIn, Max2
<1>3. receivedIn <= MaxBacklog /\ receivedIn > -Half - 2
  BY <1>1, Constants DEF SynthInv, ReceivedInv
<1>4. last = (c + receivedIn) % Modulus
  BY <1>3 DEF SynthInv, ReceivedInv
<1>5. c \in 0 .. Modulus - 1
  BY <1>1 DEF Word
<1> HIDE DEF c, last, T, r
<1>6. last = Turned(c + receivedIn)
  <2>1. /\ c + receivedIn \in Int /\ -Modulus <= c + receivedIn
        /\ c + receivedIn < Modulus + Modulus
    BY <1>1, <1>3, <1>5, Constants
  <2>2. QED
    BY <1>4, <2>1, Wrapped
<1>7. requested = Turned(c + ahead) /\ requested \in Word
  BY <1>1, Constants, Requested
<1> HIDE DEF requested
<1>8. ahead - receivedIn \in -Half .. Half - 1
  BY <1>1, <1>3, Constants
<1>9. requested = Turned(last + (ahead - receivedIn))
  <2>1. PICK x \in Int : x = last
    BY <1>1, Constants DEF Word
  <2>2. Half > 0
    BY Constants
  <2>3. QED
    BY <1>1, <1>3, <1>5, <1>6, <1>7, <1>8, <2>1, <2>2, Constants DEF Turned
<1>10. Signed(requested - last) = ahead - receivedIn
  BY <1>1, <1>7, <1>8, <1>9, SignedDifference
<1>11. AddMIDIInterfaceDelay(kind, requested) =
          ((IF ahead - receivedIn < 0 THEN last ELSE requested) + T) % Modulus
  BY <1>10 DEF AddMIDIInterfaceDelay, last, T
<1>12. CASE ahead < receivedIn
  <2>1. AddMIDIInterfaceDelay(kind, requested) = (last + T) % Modulus
    BY <1>1, <1>11, <1>12
  <2>2. r = receivedIn + T /\ r \in Int
    BY <1>1, <1>2, <1>12
  <2>3. (last + T) % Modulus = (c + r) % Modulus
    <3>1. -1 <= receivedIn /\ receivedIn + T <= MaxBacklog
      BY <1>1, <1>12, <2>2
    <3>2. (Turned(c + receivedIn) + T) % Modulus
             = (c + (receivedIn + T)) % Modulus
      BY <1>1, <3>1, DelayedWord
    <3>3. QED
      BY <1>6, <2>2, <3>2
  <2>4. QED
    BY <2>1, <2>3 DEF requested, c, r
<1>13. CASE ahead >= receivedIn
  <2>1. AddMIDIInterfaceDelay(kind, requested) = (requested + T) % Modulus
    BY <1>1, <1>11, <1>13
  <2>2. r = ahead + T /\ r \in Int
    BY <1>1, <1>2, <1>13
  <2>3. (requested + T) % Modulus = (c + r) % Modulus
    <3>1. -1 <= ahead /\ ahead + T <= MaxBacklog
      BY <1>1, <2>2
    <3>2. (Turned(c + ahead) + T) % Modulus = (c + (ahead + T)) % Modulus
      BY <1>1, <3>1, DelayedWord
    <3>3. QED
      BY <1>7, <2>2, <3>2
  <2>4. QED
    BY <2>1, <2>3 DEF requested, c, r
<1>14. QED
  BY <1>1, <1>12, <1>13

\* A message arrives: it is queued, for a sample that keeps to the cable, or it
\* is lost because the queue is full.
LEMMA MessageIsQueued ==
    ASSUME SynthInv, ~LongSilence,
           NEW kind \in Kinds, NEW ahead \in -1 .. MaxBacklog, Play(kind, ahead)
    PROVE  SynthInv'
<1> DEFINE r == DueIn(kind, ahead)
           T == IF Delayed(kind) THEN TransferTime[kind] ELSE 0
           requested == (renderedSampleCount + ahead) % Modulus
           stamp == IF Delayed(kind)
                    THEN AddMIDIInterfaceDelay(kind, requested) ELSE requested
           event == [timestamp |-> stamp, transfer |-> T,
                     dueIn |-> Max2(r, thisLen)]
<1>1. /\ queueSize # 0 /\ r <= MaxBacklog /\ ahead - receivedIn < Half
      /\ IF Delayed(kind)
         THEN lastReceivedMIDIEventTimestamp' = stamp /\ receivedIn' = r
         ELSE UNCHANGED receiveVars
      /\ queue' = IF Len(queue) < queueSize - 1 THEN Append(queue, event)
                                                ELSE queue
  BY DEF Play
<1>2. /\ renderedSampleCount' = renderedSampleCount
      /\ len' = len /\ thisLen' = thisLen
      /\ error' = error /\ playedIn' = playedIn
      /\ use' = use /\ opened' = opened /\ queueSize' = queueSize
      /\ midiDelayMode' = midiDelayMode /\ silent' = silent
  BY DEF Play, synthVars, clockVars, ghostVars
<1>3. /\ renderedSampleCount \in Word /\ receivedIn \in Int /\ thisLen \in Nat
      /\ TransferTime[kind] \in Nat /\ T \in Nat /\ ahead \in Int
      /\ Len(queue) \in Nat /\ queue \in Seq(Event)
  BY Typed, ClockAssumption, Constants
<1>4. /\ r \in Int /\ r >= -1 /\ r <= MaxBacklog
      /\ Delayed(kind) => r - T >= receivedIn
  BY <1>1, <1>3, Constants DEF DueIn, Max2
<1>5. /\ stamp = (renderedSampleCount + r) % Modulus
      /\ stamp \in Word /\ Signed(stamp - renderedSampleCount) = r
  <2>1. stamp = (renderedSampleCount + r) % Modulus
    <3>1. CASE Delayed(kind)
      BY <1>1, <3>1, DelayInWords
    <3>2. CASE ~Delayed(kind)
      BY <3>2 DEF DueIn
    <3>3. QED
      BY <3>1, <3>2
  <2>2. -Half <= r
    BY <1>4, Constants
  <2>3. QED
    BY <1>3, <1>4, <2>1, <2>2, Requested
<1> HIDE DEF r, T, stamp
<1>6. Max2(r, thisLen) \in RelativeTime
  <2>1. thisLen <= MaxSamplesPerRun
    BY DEF SynthInv, BoundsInv
  <2>2. QED
    BY <1>3, <1>4, <2>1, Constants DEF Max2, RelativeTime
<1>7. /\ event \in Event /\ event.timestamp = stamp
      /\ event.transfer = T /\ event.dueIn = Max2(r, thisLen)
  BY <1>3, <1>5, <1>6 DEF Event
<1> HIDE DEF event
<1>8. /\ receivedIn' \in Int /\ receivedIn' <= MaxBacklog
      /\ receivedIn' >= receivedIn /\ receivedIn' \in RelativeTime
      /\ T > 0 => r = receivedIn' /\ r - T >= receivedIn
  <2>1. CASE Delayed(kind)
    BY <1>1, <1>3, <1>4, <2>1, Constants DEF RelativeTime
  <2>2. CASE ~Delayed(kind)
    BY <1>1, <1>3, <2>2 DEF SynthInv, ReceivedInv, TypeOK, receiveVars, T
  <2>3. QED
    BY <2>1, <2>2
<1>9. ReceivedInv' /\ lastReceivedMIDIEventTimestamp' \in Word
  <2>1. CASE Delayed(kind)
    BY <1>1, <1>2, <1>4, <1>5, <2>1 DEF ReceivedInv
  <2>2. CASE ~Delayed(kind)
    BY <1>1, <1>2, <2>2, Typed DEF SynthInv, ReceivedInv, receiveVars, Half
  <2>3. QED
    BY <2>1, <2>2
<1>10. BoundsInv' /\ PlayedOnTime'
  BY <1>2 DEF SynthInv, BoundsInv, PlayedOnTime
<1>11. ASSUME queue' \in Seq(Event), Len(queue') <= queueSize - 1
       PROVE  TypeOK'
  BY <1>2, <1>8, <1>9, <1>11
     DEF SynthInv, TypeOK, Word, RelativeTime, Half, Event
<1>12. CASE queue' = queue
  <2>1. \A i : DueAt(i)' = DueAt(i)
    BY <1>2, <1>12, SameQueue
  <2>2. TypeOK'
    BY <1>1, <1>11, <1>12 DEF SynthInv, TypeOK
  <2>3. DueInv'
    BY <1>2, <1>12, <2>1 DEF SynthInv, DueInv, Max2, Lag
  <2>4. HeadInv'
    BY <1>2, <1>12 DEF SynthInv, HeadInv
  <2>5. CableInv'
    <3> SUFFICES ASSUME NEW i \in 1 .. Len(queue), queue[i].transfer > 0
                 PROVE  /\ DueAt(i) <= receivedIn'
                        /\ \A j \in 1 .. i - 1 :
                              queue[j].transfer > 0 =>
                                 DueAt(i) - DueAt(j) >= queue[i].transfer
      BY <1>12, <2>1 DEF CableInv
    <3>1. DueAt(i) <= receivedIn /\ DueAt(i) \in Int
      BY Typed, Constants DEF SynthInv, CableInv
    <3>2. DueAt(i) <= receivedIn'
      BY <1>3, <1>8, <3>1
    <3>3. QED
      BY <3>2 DEF SynthInv, CableInv
  <2>6. QED
    BY <1>9, <1>10, <2>2, <2>3, <2>4, <2>5 DEF SynthInv
<1>13. CASE Len(queue) < queueSize - 1 /\ queue' = Append(queue, event)
  <2> PICK k \in Nat : k = Len(queue) + 1
    BY <1>3
  <2>1. /\ queue' \in Seq(Event) /\ Len(queue') = k
        /\ \A i \in 1 .. Len(queue) : queue'[i] = queue[i]
        /\ queue'[k] = event
    BY <1>3, <1>7, <1>13, AppendProperties
  <2>2. \A i \in 1 .. Len(queue) : DueAt(i)' = DueAt(i)
    BY <1>2, <2>1 DEF DueAt, Signed, Half
  <2>3. DueAt(k)' = r
    BY <1>2, <1>5, <1>7, <2>1 DEF DueAt, Signed, Half
  <2>4. k \in Int /\ k >= 1 /\ k <= queueSize - 1 /\ k <= MaxQueueSize - 1
        /\ queueSize \in Int
    BY <1>3, <1>13, Constants DEF SynthInv, BoundsInv
  <2>5. TypeOK'
    BY <1>11, <2>1, <2>4
  <2>6. DueInv'
    <3> SUFFICES ASSUME NEW i \in 1 .. k
                 PROVE  /\ DueAt(i)' <= queue'[i].dueIn
                        /\ queue'[i].dueIn <= Max2(DueAt(i)', thisLen)
                        /\ DueAt(i)' <= MaxBacklog
                        /\ DueAt(i)' >= thisLen + i - 1 - Lag
                        /\ \A j \in 1 .. i :
                              DueAt(i)' >= DueAt(j)' + i - 1 - Lag
      BY <1>2, <2>1 DEF DueInv, Max2, Lag
    <3>1. CASE i \in 1 .. Len(queue)
      <4>1. ASSUME NEW j \in 1 .. i
            PROVE  DueAt(i)' >= DueAt(j)' + i - 1 - Lag
        <5>1. j \in 1 .. Len(queue)
          BY <3>1, <1>3
        <5>2. DueAt(i) >= DueAt(j) + i - 1 - Lag
          BY <3>1 DEF SynthInv, DueInv
        <5>3. QED
          BY <2>2, <3>1, <5>1, <5>2
      <4>2. /\ DueAt(i) <= queue[i].dueIn
            /\ queue[i].dueIn <= Max2(DueAt(i), thisLen)
            /\ DueAt(i) <= MaxBacklog
            /\ DueAt(i) >= thisLen + i - 1 - Lag
        BY <3>1 DEF SynthInv, DueInv
      <4>3. DueAt(i)' = DueAt(i) /\ queue'[i] = queue[i]
        BY <2>1, <2>2, <3>1
      <4>4. QED
        BY <4>1, <4>2, <4>3
    <3>2. CASE i = k
      <4>1. /\ r <= queue'[k].dueIn
            /\ queue'[k].dueIn <= Max2(r, thisLen)
        BY <1>3, <1>4, <1>7, <2>1 DEF Max2
      <4>2. \A x \in Int : x <= MaxBacklog => r >= x + k - 1 - Lag
        BY <1>4, <2>4, Constants
      <4>3. thisLen <= MaxSamplesPerRun
        BY DEF SynthInv, BoundsInv
      <4>4. r >= thisLen + k - 1 - Lag
        BY <1>3, <1>4, <2>4, <4>3, Constants
      <4>5. ASSUME NEW j \in 1 .. k
            PROVE  r >= DueAt(j)' + k - 1 - Lag
        <5>1. CASE j = k
          BY <1>4, <2>3, <4>2, <5>1
        <5>2. CASE j \in 1 .. Len(queue)
          <6>1. DueAt(j) \in Int /\ DueAt(j) <= MaxBacklog
            BY <5>2, Typed, Constants DEF SynthInv, DueInv
          <6>2. QED
            BY <2>2, <4>2, <5>2, <6>1
        <5>3. QED
          BY <1>3, <5>1, <5>2
      <4>6. QED
        BY <1>4, <2>3, <3>2, <4>1, <4>4, <4>5
    <3>3. QED
      BY <1>3, <3>1, <3>2
  <2>7. HeadInv'
    <3> SUFFICES ASSUME thisLen > 0 \/ playedIn = -2
                 PROVE  queue'[1].dueIn >= thisLen
      BY <1>2 DEF HeadInv
    <3>1. CASE Len(queue) = 0
      <4>1. k = 1 /\ queue'[1].dueIn = Max2(r, thisLen)
        BY <1>7, <2>1, <3>1
      <4>2. QED
        BY <1>3, <1>4, <4>1 DEF Max2
    <3>2. CASE Len(queue) # 0
      <4>1. 1 \in 1 .. Len(queue) /\ queue # <<>>
        BY <1>3, <3>2, EmptySeq
      <4>2. QED
        BY <2>1, <4>1 DEF SynthInv, HeadInv
    <3>3. QED
      BY <3>1, <3>2
  <2>8. CableInv'
    <3> SUFFICES ASSUME NEW i \in 1 .. k, queue'[i].transfer > 0
                 PROVE  /\ DueAt(i)' <= receivedIn'
                        /\ \A j \in 1 .. i - 1 :
                              queue'[j].transfer > 0 =>
                                 DueAt(i)' - DueAt(j)' >= queue'[i].transfer
      BY <2>1 DEF CableInv
    <3>0. ASSUME NEW j \in 1 .. Len(queue), queue'[j].transfer > 0
          PROVE  /\ DueAt(j)' = DueAt(j) /\ DueAt(j) \in Int
                 /\ DueAt(j) <= receivedIn /\ queue'[j] = queue[j]
      <4>1. queue'[j] = queue[j] /\ DueAt(j)' = DueAt(j)
        BY <2>1, <2>2
      <4>2. DueAt(j) \in Int
        BY Typed, Constants
      <4>3. QED
        BY <3>0, <4>1, <4>2 DEF SynthInv, CableInv
    <3>1. CASE i \in 1 .. Len(queue)
      <4>1. /\ DueAt(i)' = DueAt(i) /\ queue'[i] = queue[i]
            /\ DueAt(i) <= receivedIn /\ DueAt(i) \in Int
        BY <3>0, <3>1
      <4>2. DueAt(i)' <= receivedIn'
        BY <1>3, <1>8, <4>1
      <4>3. ASSUME NEW j \in 1 .. i - 1, queue'[j].transfer > 0
            PROVE  DueAt(i)' - DueAt(j)' >= queue'[i].transfer
        <5>1. j \in 1 .. Len(queue)
          BY <1>3, <3>1
        <5>2. DueAt(j)' = DueAt(j) /\ queue'[j] = queue[j]
          BY <3>0, <4>3, <5>1
        <5>3. DueAt(i) - DueAt(j) >= queue[i].transfer
          BY <3>1, <4>1, <4>3, <5>2 DEF SynthInv, CableInv
        <5>4. QED
          BY <4>1, <5>2, <5>3
      <4>4. QED
        BY <4>2, <4>3
    <3>2. CASE i = k
      <4>1. T > 0 /\ r = receivedIn' /\ r - T >= receivedIn
        BY <1>7, <1>8, <2>1, <3>2
      <4>2. ASSUME NEW j \in 1 .. i - 1, queue'[j].transfer > 0
            PROVE  DueAt(i)' - DueAt(j)' >= queue'[i].transfer
        <5>1. j \in 1 .. Len(queue)
          BY <1>3, <3>2
        <5>2. DueAt(j)' \in Int /\ DueAt(j)' <= receivedIn
          BY <3>0, <4>2, <5>1
        <5>3. DueAt(i)' = r /\ queue'[i].transfer = T
          BY <1>7, <2>1, <2>3, <3>2
        <5>4. QED
          BY <1>3, <1>4, <4>1, <5>2, <5>3
      <4>3. QED
        BY <1>4, <2>3, <3>2, <4>1, <4>2
    <3>3. QED
      BY <1>3, <3>1, <3>2
  <2>9. QED
    BY <1>9, <1>10, <2>5, <2>6, <2>7, <2>8 DEF SynthInv
<1>14. QED
  BY <1>1, <1>12, <1>13

\* The size that setMIDIEventQueueSize() arrives at is that of a ring buffer.
LEMMA BinarySizes ==
    ASSUME NEW useSize \in Nat
    PROVE  /\ BinarySize(useSize) \in QueueSizes
           /\ BinarySize(useSize) <= MaxQueueSize
<1>1. CASE useSize < MaxQueueSize
  <2> DEFINE Fits == {size \in QueueSizes : size >= useSize}
             Less == OpToRel(<, Nat)
  <2>1. /\ Fits \subseteq Nat /\ MaxQueueSize \in Fits
        /\ \A size : size \in Fits <=> size \in QueueSizes /\ size >= useSize
    <3>1. MaxQueueSize \in QueueSizes /\ MaxQueueSize >= useSize
      BY <1>1, QueueSizeAssumption, Constants
    <3>2. QED
      BY <3>1, QueueSizeAssumption
  <2>a. IsWellFoundedOn(Less, Nat)
    BY NatLessThanWellFounded, Zenon
  <2>b. \A x \in Nat, y \in Nat : x < y => <<x, y>> \in Less
    BY Zenon DEF OpToRel
  <2> HIDE DEF Fits, Less
  <2>2. PICK least \in Fits : \A other \in Fits : ~(<<other, least>> \in Less)
    BY <2>1, <2>a, WFMin
  <2>3. \A other \in Fits : ~(other < least)
    BY <2>1, <2>2, <2>b
  <2>4. \A other \in Fits : least <= other
    BY <2>1, <2>3
  <2>5. \E size \in QueueSizes :
           /\ size >= useSize
           /\ \A other \in QueueSizes : other >= useSize => size <= other
    BY <2>1, <2>4
  <2>6. /\ BinarySize(useSize) \in QueueSizes
        /\ \A other \in QueueSizes :
              other >= useSize => BinarySize(useSize) <= other
    BY <1>1, <2>5 DEF BinarySize
  <2>7. QED
    BY <2>1, <2>6
<1>2. CASE ~(useSize < MaxQueueSize)
  BY <1>2, QueueSizeAssumption, Constants DEF BinarySize
<1>3. QED
  BY <1>1, <1>2

\* The ring buffer is there when the synth is open.
SizeInv ==
    /\ queueSize # 0 <=> opened
    /\ opened \in BOOLEAN
    /\ queueSize \in Nat /\ queueSize <= MaxQueueSize
    /\ opened => queueSize \in QueueSizes

\* The queue is emptied: the control thread opens, closes or flushes.
LEMMA EmptyQueue ==
    ASSUME SynthInv, queue' = <<>>, SizeInv',
           UNCHANGED <<use, midiDelayMode, clockVars, ghostVars, silent>>,
           \/ UNCHANGED receiveVars
           \/ /\ lastReceivedMIDIEventTimestamp' = renderedSampleCount
              /\ receivedIn' = 0
    PROVE  SynthInv'
<1>1. /\ use' = use /\ midiDelayMode' = midiDelayMode /\ silent' = silent
      /\ renderedSampleCount' = renderedSampleCount
      /\ len' = len /\ thisLen' = thisLen
      /\ error' = error /\ playedIn' = playedIn
  BY DEF clockVars, ghostVars
<1>2. Len(queue') = 0 /\ queue' \in Seq(Event)
  BY EmptySeq
<1>3. DueInv' /\ HeadInv' /\ CableInv'
  BY <1>2 DEF DueInv, HeadInv, CableInv
<1>4. BoundsInv' /\ PlayedOnTime'
  BY <1>1 DEF SynthInv, BoundsInv, PlayedOnTime, SizeInv
<1>5. /\ ReceivedInv' /\ receivedIn' \in RelativeTime
      /\ lastReceivedMIDIEventTimestamp' \in Word
  <2>1. CASE UNCHANGED receiveVars
    BY <1>1, <2>1 DEF SynthInv, ReceivedInv, TypeOK, receiveVars, Half
  <2>2. CASE /\ lastReceivedMIDIEventTimestamp' = renderedSampleCount
             /\ receivedIn' = 0
    <3>1. renderedSampleCount \in Word /\ renderedSampleCount \in Int
      BY Typed, Constants DEF Word
    <3>2. (renderedSampleCount + 0) % Modulus = renderedSampleCount
      BY <3>1, Constants DEF Word
    <3>3. 0 \in RelativeTime /\ 0 <= MaxBacklog
      BY Constants DEF RelativeTime
    <3>4. QED
      BY <1>1, <2>2, <3>1, <3>2, <3>3 DEF ReceivedInv
  <2>3. QED
    BY <2>1, <2>2
<1>6. TypeOK'
  <2>1. opened' => Len(queue') <= queueSize' - 1
    <3> SUFFICES ASSUME opened' PROVE Len(queue') <= queueSize' - 1
      OBVIOUS
    <3>1. queueSize' # 0 /\ queueSize' \in Nat
      BY DEF SizeInv
    <3>2. PICK q \in Nat : q = queueSize'
      BY <3>1
    <3>3. q >= 1
      BY <3>1, <3>2
    <3>4. 0 <= q - 1
      BY <3>3
    <3>5. QED
      BY <1>2, <3>2, <3>4
  <2>2. /\ queueSize' # 0 <=> opened'
        /\ opened' \in BOOLEAN
        /\ opened' => queueSize' \in QueueSizes
    BY DEF SizeInv
  <2>3. QED
    BY <1>1, <1>2, <1>5, <2>1, <2>2
       DEF SynthInv, TypeOK, Word, RelativeTime, Half, Event
<1>7. QED
  BY <1>3, <1>4, <1>5, <1>6 DEF SynthInv

-----------------------------------------------------------------------------
(* The program *)

\* The invariant holds before the synth is opened.
LEMMA InitSynth == Init => SynthInv
<1> SUFFICES ASSUME Init PROVE SynthInv
  OBVIOUS
<1>1. /\ use \in Uses /\ opened = FALSE /\ queueSize = 0 /\ queue = <<>>
      /\ midiDelayMode = "DELAY_SHORT_MESSAGES_ONLY"
      /\ renderedSampleCount = 0 /\ lastReceivedMIDIEventTimestamp = 0
      /\ len = 0 /\ thisLen = 0 /\ silent = FALSE /\ receivedIn = 0
      /\ playedIn = -2 /\ error = 0
  BY DEF Init
<1>2. Len(queue) = 0 /\ queue \in Seq(Event)
  BY <1>1, EmptySeq
<1>3. DueInv /\ HeadInv /\ CableInv
  BY <1>1, <1>2 DEF DueInv, HeadInv, CableInv
<1>4. 0 \in Word /\ 0 \in RelativeTime /\ 0 \in 0 .. MaxRender
  BY Constants, ClockAssumption DEF Word, RelativeTime
<1>5. TypeOK
  <2>1. /\ queueSize # 0 <=> opened
        /\ opened => queueSize \in QueueSizes
        /\ opened => Len(queue) <= queueSize - 1
        /\ opened \in BOOLEAN /\ silent \in BOOLEAN
    BY <1>1
  <2>2. midiDelayMode \in DelayModes /\ thisLen \in 0 .. len
        /\ playedIn \in {-2, -1} /\ error \in Int
    BY <1>1 DEF DelayModes
  <2>3. QED
    BY <1>1, <1>2, <1>4, <2>1, <2>2 DEF TypeOK
<1>6. (0 + 0) % Modulus = 0
  BY Constants
<1>7. BoundsInv /\ ReceivedInv /\ PlayedOnTime
  BY <1>1, <1>6, Constants DEF BoundsInv, ReceivedInv, PlayedOnTime
<1>8. QED
  BY <1>3, <1>5, <1>7 DEF SynthInv

\* No step of the three threads breaks it, unless the application is silent for
\* half the clock's range.
LEMMA NextSynth ==
    ASSUME SynthInv, [Next]_vars, ~LongSilence
    PROVE  SynthInv'
<1>t. use \in Uses /\ SizeInv
  BY DEF SynthInv, TypeOK, BoundsInv, SizeInv
<1>s. ASSUME UNCHANGED <<queue, clockVars, receiveVars, ghostVars, use,
                         opened, queueSize>>,
             midiDelayMode' \in DelayModes, silent' \in BOOLEAN
      PROVE  SynthInv'
  <2>1. /\ queue' = queue /\ use' = use /\ opened' = opened
        /\ queueSize' = queueSize
        /\ renderedSampleCount' = renderedSampleCount
        /\ len' = len /\ thisLen' = thisLen
        /\ error' = error /\ playedIn' = playedIn
        /\ receivedIn' = receivedIn
        /\ lastReceivedMIDIEventTimestamp' = lastReceivedMIDIEventTimestamp
    BY <1>s DEF clockVars, receiveVars, ghostVars
  <2>2. \A i : DueAt(i)' = DueAt(i)
    BY <2>1, SameQueue
  <2>3. TypeOK' /\ BoundsInv' /\ ReceivedInv' /\ PlayedOnTime' /\ HeadInv'
    BY <1>s, <2>1 DEF SynthInv, TypeOK, BoundsInv, ReceivedInv, PlayedOnTime,
       HeadInv, Word, RelativeTime, Half, Event
  <2>4. DueInv' /\ CableInv'
    BY <2>1, <2>2 DEF SynthInv, DueInv, CableInv, Max2, Lag
  <2>5. QED
    BY <2>3, <2>4 DEF SynthInv
<1>1. CASE \E kind \in Kinds, ahead \in use.aheads : Play(kind, ahead)
  <2>1. PICK kind \in Kinds, ahead \in use.aheads : Play(kind, ahead)
    BY <1>1
  <2>2. ahead \in -1 .. MaxBacklog
    BY <1>t, <2>1, UsesAssumption
  <2>3. QED
    BY <2>1, <2>2, MessageIsQueued
<1>2. CASE FallSilent
  BY <1>2, <1>s DEF FallSilent, synthVars, SynthInv, TypeOK
<1>3. CASE Open
  <2>1. /\ DefaultQueueSize \in QueueSizes /\ DefaultQueueSize \in Nat
        /\ DefaultQueueSize # 0 /\ DefaultQueueSize <= MaxQueueSize
    BY QueueSizeAssumption
  <2>2. SizeInv'
    BY <1>3, <2>1 DEF Open, SizeInv
  <2>3. QED
    BY <1>3, <2>2, EmptyQueue DEF Open
<1>4. CASE Close
  <2>1. /\ opened' = FALSE /\ queueSize' = 0 /\ queue' = <<>>
        /\ UNCHANGED <<use, midiDelayMode, clockVars, receiveVars, ghostVars,
                       silent>>
    BY <1>4 DEF Close
  <2>2. SizeInv'
    <3>1. 0 <= MaxQueueSize
      BY Constants
    <3>2. QED
      BY <2>1, <3>1 DEF SizeInv
  <2>3. /\ UNCHANGED receiveVars
        /\ UNCHANGED <<use, midiDelayMode, clockVars, ghostVars, silent>>
    BY <2>1
  <2>4. QED
    BY <2>1, <2>2, <2>3, EmptyQueue
<1>5. CASE \E mode \in use.modes : SetMIDIDelayMode(mode)
  <2>1. PICK mode \in use.modes : SetMIDIDelayMode(mode)
    BY <1>5
  <2>2. mode \in DelayModes
    BY <1>t, <2>1, UsesAssumption
  <2>3. QED
    BY <1>s, <2>1, <2>2 DEF SetMIDIDelayMode, SynthInv, TypeOK
<1>6. CASE Flush
  <2>1. queueSize' = queueSize /\ opened' = opened
    BY <1>6 DEF Flush, FlushMIDIQueue
  <2>2. SizeInv'
    BY <1>t, <2>1 DEF SizeInv
  <2>3. QED
    BY <1>6, <2>2, EmptyQueue DEF Flush, FlushMIDIQueue
<1>7. CASE \E useSize \in use.sizes : SetMIDIEventQueueSize(useSize)
  <2>1. PICK useSize \in use.sizes : SetMIDIEventQueueSize(useSize)
    BY <1>7
  <2>2. useSize \in Nat
    BY <1>t, <2>1, UsesAssumption
  <2>3. /\ BinarySize(useSize) \in QueueSizes /\ BinarySize(useSize) \in Nat
        /\ BinarySize(useSize) # 0 /\ BinarySize(useSize) <= MaxQueueSize
    BY <2>2, BinarySizes, QueueSizeAssumption
  <2>4. /\ queueSize # 0 /\ queue' = <<>>
        /\ queueSize' = BinarySize(useSize) /\ opened' = opened
        /\ lastReceivedMIDIEventTimestamp' = renderedSampleCount
        /\ receivedIn' = 0
        /\ UNCHANGED <<use, midiDelayMode, clockVars, ghostVars, silent>>
    BY <2>1 DEF SetMIDIEventQueueSize, FlushMIDIQueue
  <2>5. SizeInv'
    BY <1>t, <2>3, <2>4 DEF SizeInv
  <2>6. QED
    BY <2>4, <2>5, EmptyQueue
<1>8. CASE RenderPlays
  BY <1>8, PlaysOnTime
<1>9. CASE RenderRuns
  BY <1>9, RunsUpToEvent
<1>10. CASE RenderAdvances
  BY <1>10, AdvancesOnTime
<1>11. CASE \E n \in 1 .. MaxRender : RenderBegins(n)
  <2>1. PICK n \in 1 .. MaxRender : RenderBegins(n)
    BY <1>11
  <2>2. /\ queue' = queue /\ use' = use /\ opened' = opened
        /\ queueSize' = queueSize /\ midiDelayMode' = midiDelayMode
        /\ renderedSampleCount' = renderedSampleCount
        /\ len' = n /\ thisLen' = thisLen
        /\ error' = error /\ playedIn' = playedIn /\ silent' = silent
        /\ receivedIn' = receivedIn
        /\ lastReceivedMIDIEventTimestamp' = lastReceivedMIDIEventTimestamp
    BY <2>1 DEF RenderBegins, synthVars, receiveVars, ghostVars
  <2>3. \A i : DueAt(i)' = DueAt(i)
    BY <2>2, SameQueue
  <2>4. len' \in 0 .. MaxRender /\ thisLen' \in 0 .. len'
    <3>1. MaxRender \in Int /\ len \in Nat /\ ~(len > 0)
      BY <2>1, Typed, ClockAssumption, Constants DEF RenderBegins, Rendering
    <3>2. thisLen \in 0 .. len
      BY DEF SynthInv, TypeOK
    <3>3. QED
      BY <2>1, <2>2, <3>1, <3>2
  <2>5. TypeOK'
    BY <2>2, <2>4 DEF SynthInv, TypeOK, Word, RelativeTime, Half, Event
  <2>6. BoundsInv' /\ ReceivedInv' /\ PlayedOnTime' /\ HeadInv'
    BY <2>2 DEF SynthInv, BoundsInv, ReceivedInv, PlayedOnTime, HeadInv, Half
  <2>7. DueInv' /\ CableInv'
    BY <2>2, <2>3 DEF SynthInv, DueInv, CableInv, Max2, Lag
  <2>8. QED
    BY <2>5, <2>6, <2>7 DEF SynthInv
<1>12. CASE UNCHANGED vars
  BY <1>12, <1>s DEF vars, synthVars, SynthInv, TypeOK
<1>13. QED
  BY <1>1, <1>2, <1>3, <1>4, <1>5, <1>6, <1>7, <1>8, <1>9, <1>10, <1>11, <1>12
     DEF Next, MidiThread, Control, RenderingThread, RenderStep

\* Words are as far apart as the times that they stand for.
LEMMA TurnedDifference ==
    ASSUME NEW c \in 0 .. Modulus - 1, NEW a \in Int, NEW b \in Int,
           a <= b, b - a < Modulus, -Half <= a, a < Half, -Half <= b, b < Half
    PROVE  Turned(Turned(c + b) - Turned(c + a)) = b - a
  BY Constants DEF Turned

\* Of two delayed messages in the queue, the later is due its transfer time
\* after the earlier one, and less than a turn of the clock.
LEMMA CableBandwidth == SynthInv => InterfaceBandwidth
<1> SUFFICES ASSUME SynthInv,
                    NEW i \in 1 .. Len(queue), NEW j \in 1 .. Len(queue),
                    i < j, queue[i].transfer > 0, queue[j].transfer > 0
             PROVE  (queue[j].timestamp - queue[i].timestamp) % Modulus
                       \in queue[j].transfer .. Half + MaxBacklog
  BY DEF InterfaceBandwidth
<1>1. /\ Len(queue) \in Nat /\ queue[j].transfer \in Nat
      /\ queue[i].timestamp \in Word /\ queue[j].timestamp \in Word
      /\ DueAt(i) \in -Half .. Half - 1 /\ DueAt(j) \in -Half .. Half - 1
      /\ renderedSampleCount \in Word
  BY Typed
<1>2. DueAt(j) - DueAt(i) >= queue[j].transfer
  <2>1. i \in 1 .. j - 1
    BY <1>1
  <2>2. QED
    BY <2>1 DEF SynthInv, CableInv
<1>3. DueAt(j) <= MaxBacklog
  BY DEF SynthInv, DueInv
<1>4. /\ queue[i].timestamp = Turned(renderedSampleCount + DueAt(i))
      /\ queue[j].timestamp = Turned(renderedSampleCount + DueAt(j))
  BY <1>1, SignedDifference DEF DueAt
<1>5. PICK a \in Int, b \in Int : a = DueAt(i) /\ b = DueAt(j)
  BY <1>1, Constants
<1>6. PICK c \in 0 .. Modulus - 1, t \in 0 .. Modulus - 1,
           u \in 0 .. Modulus - 1, n \in Nat :
         /\ c = renderedSampleCount /\ n = queue[j].transfer
         /\ t = queue[i].timestamp /\ u = queue[j].timestamp
  BY <1>1 DEF Word
<1>7. (u - t) % Modulus = Turned(u - t)
  <2>1. u - t \in Int /\ -Modulus <= u - t /\ u - t < Modulus + Modulus
    BY Constants
  <2>2. QED
    BY <2>1, Wrapped
<1>8. /\ b - a >= 1 /\ b - a >= n /\ b - a <= Half + MaxBacklog
      /\ b - a < Modulus /\ -Half <= a /\ a < Half /\ -Half <= b /\ b < Half
  <2>1. b - a >= n /\ n > 0 /\ b <= MaxBacklog
    BY <1>2, <1>3, <1>5, <1>6
  <2>2. -Half <= a /\ a < Half /\ -Half <= b /\ b < Half
    <3>1. a \in -Half .. Half - 1 /\ b \in -Half .. Half - 1
      BY <1>1, <1>5
    <3>2. PICK h \in Nat : h = Half
      BY Constants
    <3>3. QED
      BY <3>1, <3>2
  <2>3. QED
    BY <2>1, <2>2, Constants
<1>9. Turned(u - t) = b - a
  <2>1. t = Turned(c + a) /\ u = Turned(c + b)
    BY <1>4, <1>5, <1>6
  <2>2. QED
    BY <1>8, <2>1, TurnedDifference
<1>10. b - a \in n .. Half + MaxBacklog
  BY <1>8, Constants
<1>11. QED
  BY <1>6, <1>7, <1>9, <1>10

\* The inductive invariant of the synth.
THEOREM SynthInvariant ==
    ASSUME ~LongSilence
    PROVE  Spec => []SynthInv
<1>1. SynthInv /\ [Next]_vars => SynthInv'
  BY NextSynth
<1>2. QED
  BY InitSynth, <1>1, PTL DEF Spec

\* Types: render()'s counters never run below zero, and the queue never holds
\* more than its ring buffer, whose size is always a power of 2, can.
THEOREM SynthTypes ==
    ASSUME ~LongSilence
    PROVE  Spec => []TypeOK
<1>1. SynthInv => TypeOK
  BY DEF SynthInv
<1>2. QED
  BY SynthInvariant, <1>1, PTL

\* render() plays every message at the first sample that its timestamp and the
\* message before it allow, for clocks, runs and queues of any size.
THEOREM MessagesPlayOnTime ==
    ASSUME ~LongSilence
    PROVE  Spec => []PlayedOnTime
<1>1. SynthInv => PlayedOnTime
  BY DEF SynthInv
<1>2. QED
  BY SynthInvariant, <1>1, PTL

\* addMIDIInterfaceDelay() keeps delayed messages as far apart as a MIDI cable
\* would, whatever timestamps the application asks for.
THEOREM CableIsNotExceeded ==
    ASSUME ~LongSilence
    PROVE  Spec => []InterfaceBandwidth
BY SynthInvariant, CableBandwidth, PTL

-----------------------------------------------------------------------------
(* B. MidiEventQueue *)

\* What masking does to a position: it steps to the next slot and wraps from
\* the last slot to the first.
LEMMA NextPositionWraps ==
    ASSUME NEW p \in Positions
    PROVE  /\ NextPosition(p) \in Positions
           /\ NextPosition(p) = IF p = RingBufferSize - 1 THEN 0 ELSE p + 1
<1>1. RingBufferSize \in Nat \ {0}
  BY RingBufferSizeAssumption
<1>2. CASE p = RingBufferSize - 1
  BY <1>1, <1>2, SMT DEF NextPosition, Positions
<1>3. CASE p # RingBufferSize - 1
  BY <1>1, <1>3, SMT DEF NextPosition, Positions
<1>4. QED
  BY <1>2, <1>3

-----------------------------------------------------------------------------
(* Type correctness *)

\* The buffer begins with any contents, but within bounds.
LEMMA InitTypeOK == QueueInit => QueueTypeOK
BY RingBufferSizeAssumption DEF QueueInit, QueueTypeOK, Positions

\* Masked positions stay within the buffer.
LEMMA TypeOKInductive == QueueTypeOK /\ [QueueNext]_ringVars => QueueTypeOK'
<1> SUFFICES ASSUME QueueTypeOK, [QueueNext]_ringVars
             PROVE  QueueTypeOK'
  OBVIOUS
<1>0. /\ NextPosition(startPosition) \in Positions
      /\ NextPosition(endPosition) \in Positions
  BY NextPositionWraps DEF QueueTypeOK
<1>1. CASE PushRefused
  BY <1>1 DEF QueueTypeOK, PushRefused, queueVars, readerVars
<1>2. ASSUME NEW e \in Events, PushBegins(e)
      PROVE  QueueTypeOK'
  BY <1>0, <1>2 DEF QueueTypeOK, PushBegins, queueVars, readerVars
<1>3. CASE SlotTorn
  BY <1>3 DEF QueueTypeOK, SlotTorn, readerVars
<1>4. CASE SlotFilled
  BY <1>4 DEF QueueTypeOK, SlotFilled, readerVars
<1>5. CASE Publish
  BY <1>5 DEF QueueTypeOK, Publish, readerVars
<1>6. CASE Peek
  BY <1>6 DEF QueueTypeOK, Peek, queueVars, writerVars
<1>7. CASE Release
  BY <1>7 DEF QueueTypeOK, Release, queueVars, writerVars
<1>8. CASE Drop
  BY <1>0, <1>8 DEF QueueTypeOK, Drop, writerVars
<1>9. CASE UNCHANGED ringVars
  BY <1>9 DEF QueueTypeOK, ringVars, queueVars, writerVars, readerVars
<1>10. QED
  BY <1>1, <1>2, <1>3, <1>4, <1>5, <1>6, <1>7, <1>8, <1>9
     DEF QueueNext, Writer, Reader

\* Every reachable state of the two threads is well typed: no position ever
\* leaves the ring buffer.
THEOREM TypeCorrect == QueueSpec => []QueueTypeOK
BY InitTypeOK, TypeOKInductive, PTL DEF QueueSpec

-----------------------------------------------------------------------------
(* The inductive invariant *)

\* An empty queue occupies no slot.
LEMMA InitQueueInv == QueueInit => QueueInv
BY InitTypeOK DEF QueueInit, QueueInv, Occupied, Positions, IsEmpty

\* A slot is filled before it is published, and released before it is filled
\* again.
LEMMA QueueInvInductive == QueueInv /\ [QueueNext]_ringVars => QueueInv'
<1> SUFFICES ASSUME QueueInv, [QueueNext]_ringVars
             PROVE  QueueInv'
  OBVIOUS
<1>0. /\ QueueTypeOK
      /\ QueueTypeOK'
  BY TypeOKInductive DEF QueueInv
<1>a. /\ startPosition \in Positions
      /\ endPosition \in Positions
      /\ NextPosition(startPosition) =
            IF startPosition = RingBufferSize - 1 THEN 0 ELSE startPosition + 1
      /\ NextPosition(endPosition) =
            IF endPosition = RingBufferSize - 1 THEN 0 ELSE endPosition + 1
  BY <1>0, NextPositionWraps DEF QueueTypeOK
<1>b. Positions = 0 .. RingBufferSize - 1 /\ RingBufferSize \in Nat \ {0}
  BY RingBufferSizeAssumption DEF Positions
<1>1. CASE PushRefused
  BY <1>0, <1>1
     DEF QueueInv, PushRefused, Occupied, IsEmpty, queueVars, readerVars
<1>2. ASSUME NEW e \in Events, PushBegins(e)
      PROVE  QueueInv'
  BY <1>0, <1>2
     DEF QueueInv, PushBegins, IsFull, Occupied, IsEmpty, NextPosition,
         queueVars, readerVars
<1>3. CASE SlotTorn
  \* The slot at endPosition is not occupied.
  <2>1. ~Occupied(endPosition)
    BY <1>a, <1>b DEF Occupied
  <2>2. \A p \in Positions :
           Occupied(p)' => /\ Occupied(p)
                           /\ ringBuffer'[p] = ringBuffer[p]
    BY <1>0, <1>3, <2>1 DEF SlotTorn, Occupied, QueueTypeOK
  <2>3. QED
    BY <1>0, <1>3, <2>2
       DEF QueueInv, SlotTorn, Occupied, IsEmpty, NextPosition, readerVars
<1>4. CASE SlotFilled
  <2>1. ~Occupied(endPosition)
    BY <1>a, <1>b DEF Occupied
  <2>2. \A p \in Positions :
           Occupied(p)' => /\ Occupied(p)
                           /\ ringBuffer'[p] = ringBuffer[p]
    BY <1>0, <1>4, <2>1 DEF SlotFilled, Occupied, QueueTypeOK
  <2>3. ringBuffer'[endPosition] = pushing
    BY <1>0, <1>4 DEF SlotFilled, QueueTypeOK
  <2>4. QED
    BY <1>0, <1>4, <2>2, <2>3
       DEF QueueInv, SlotFilled, Occupied, IsEmpty, NextPosition, readerVars
<1>5. CASE Publish
  \* The only slot that becomes occupied is the one just filled.
  <2>1. endPosition' = NextPosition(endPosition)
    BY <1>5 DEF Publish, QueueInv
  <2>2. \A p \in Positions : Occupied(p)' => Occupied(p) \/ p = endPosition
    BY <1>5, <2>1, <1>a, <1>b DEF Publish, Occupied
  <2>3. \A p \in Positions : Occupied(p)' => ringBuffer'[p] \in Events
    BY <1>5, <2>2 DEF Publish, QueueInv
  <2>4. endPosition' # startPosition'
    BY <1>5 DEF Publish, QueueInv
  <2>5. QED
    BY <1>0, <1>5, <2>3, <2>4 DEF QueueInv, Publish, IsEmpty, readerVars
<1>6. CASE Peek
  BY <1>0, <1>6
     DEF QueueInv, Peek, Occupied, IsEmpty, NextPosition, queueVars, writerVars
<1>7. CASE Release
  BY <1>0, <1>7
     DEF QueueInv, Release, Occupied, IsEmpty, NextPosition, queueVars,
         writerVars
<1>8. CASE Drop
  \* The dropped slot was occupied, so the start does not pass the end.
  <2>1. ~IsEmpty /\ startPosition' = NextPosition(startPosition)
    BY <1>8 DEF Drop, QueueInv
  <2>2. \A p \in Positions : Occupied(p)' => Occupied(p)
    BY <1>8, <2>1, <1>a, <1>b DEF Drop, Occupied, IsEmpty
  <2>3. NextPosition(endPosition) # startPosition'
    BY <2>1, <1>a, <1>b DEF IsEmpty
  <2>4. QED
    BY <1>0, <1>8, <2>2, <2>3 DEF QueueInv, Drop, NextPosition, writerVars
<1>9. CASE UNCHANGED ringVars
  BY <1>0, <1>9
     DEF QueueInv, Occupied, IsEmpty, NextPosition, ringVars, queueVars,
         writerVars, readerVars
<1>10. QED
  BY <1>1, <1>2, <1>3, <1>4, <1>5, <1>6, <1>7, <1>8, <1>9
     DEF QueueNext, Writer, Reader

\* The inductive invariant holds in every reachable state.
THEOREM QueueInvariant == QueueSpec => []QueueInv
BY InitQueueInv, QueueInvInductive, PTL DEF QueueSpec

-----------------------------------------------------------------------------
(* Safety *)

\* What the writer fills is no slot that is occupied.
LEMMA QueueInvNoDataRace == QueueInv => NoDataRace
BY DEF QueueInv, NoDataRace, IsEmpty

\* The writer never frees or fills the slot the reader holds a pointer to,
\* however their steps interleave.
THEOREM RaceFree == QueueSpec => []NoDataRace
BY QueueInvariant, QueueInvNoDataRace, PTL

\* The writer fills another slot than the one the reader refers to.
LEMMA HeldEventStep ==
    ASSUME QueueInv, [QueueNext]_ringVars, reader = "holding"
    PROVE  /\ ringBuffer[held] \in Events
           /\ ringBuffer'[held] = ringBuffer[held]
<1>1. /\ held = startPosition
      /\ held \in Positions
      /\ held # endPosition
  BY DEF QueueInv, QueueTypeOK, IsEmpty
<1>2. Occupied(held)
  BY <1>1, RingBufferSizeAssumption
     DEF QueueInv, QueueTypeOK, Occupied, Positions
<1>3. ringBuffer[held] \in Events
  BY <1>1, <1>2 DEF QueueInv
<1>4. ringBuffer'[held] = ringBuffer[held]
  BY <1>1 DEF QueueNext, Writer, Reader, PushRefused, PushBegins, SlotTorn,
              SlotFilled, Publish, Peek, Release, Drop, ringVars, queueVars,
              QueueInv, QueueTypeOK
<1>5. QED
  BY <1>3, <1>4

\* A message stays whole and unchanged for as long as the renderer refers to
\* it.
THEOREM HeldEventIsStable == QueueSpec => HeldEventStable
<1>1. QueueInv /\ [QueueNext]_ringVars =>
        [reader = "holding" => /\ ringBuffer[held] \in Events
                               /\ ringBuffer'[held] = ringBuffer[held]]_ringVars
  BY HeldEventStep
<1>2. QED
  BY <1>1, QueueInvariant, PTL DEF QueueSpec, HeldEventStable

-----------------------------------------------------------------------------
(* The queue implements EventFifo.  The point where a push takes effect is   *)
(* the assignment to endPosition, that of a drop the one to startPosition.   *)

\* The occupied slots, oldest first, are a sequence of whole messages.
QueueShape ==
    /\ QueueLength \in 0 .. RingBufferSize - 1
    /\ \A i \in 1 .. QueueLength :
          /\ SlotAt(i) \in Positions
          /\ QueuedEvents[i] = ringBuffer[SlotAt(i)]
    /\ QueuedEvents \in Seq(Events)
    /\ Len(QueuedEvents) = QueueLength

\* The invariant gives the queue its shape: the slots between the positions
\* were all filled before they were published.
LEMMA QueuedEventsSeq == QueueInv => QueueShape
<1> SUFFICES ASSUME QueueInv
             PROVE  QueueShape
  OBVIOUS
<1>1. /\ RingBufferSize \in Nat \ {0}
      /\ startPosition \in 0 .. RingBufferSize - 1
      /\ endPosition \in 0 .. RingBufferSize - 1
  BY RingBufferSizeAssumption DEF QueueInv, QueueTypeOK, Positions
<1>2. QueueLength \in 0 .. RingBufferSize - 1
  BY <1>1 DEF QueueLength
<1>3. \A i \in 1 .. QueueLength : SlotAt(i) \in Positions /\ Occupied(SlotAt(i))
  BY <1>1 DEF QueueLength, SlotAt, Occupied, Positions
<1>4. \A i \in 1 .. QueueLength : ringBuffer[SlotAt(i)] \in Events
  BY <1>3 DEF QueueInv
<1>5. QueuedEvents \in [1 .. QueueLength -> Events]
  BY <1>4 DEF QueuedEvents
<1>6. QueuedEvents \in Seq(Events)
  BY <1>2, <1>5, SeqDef
<1>7. Len(QueuedEvents) = QueueLength
  BY <1>2, <1>5, <1>6, LenProperties
<1>8. QED
  BY <1>2, <1>3, <1>6, <1>7 DEF QueueShape, QueuedEvents

\* The first occupied slot is the one at startPosition, and a full ring buffer
\* holds one event less than it has slots.
LEMMA QueueEnds ==
    QueueInv => /\ IsEmpty <=> QueuedEvents = <<>>
                /\ ~IsEmpty => Head(QueuedEvents) = ringBuffer[startPosition]
                /\ IsFull <=> Len(QueuedEvents) = RingBufferSize - 1
<1> SUFFICES ASSUME QueueInv
             PROVE  /\ IsEmpty <=> QueuedEvents = <<>>
                    /\ ~IsEmpty => Head(QueuedEvents) = ringBuffer[startPosition]
                    /\ IsFull <=> Len(QueuedEvents) = RingBufferSize - 1
  OBVIOUS
<1>1. /\ RingBufferSize \in Nat \ {0}
      /\ startPosition \in 0 .. RingBufferSize - 1
      /\ endPosition \in 0 .. RingBufferSize - 1
  BY RingBufferSizeAssumption DEF QueueInv, QueueTypeOK, Positions
<1>2. IsEmpty <=> QueueLength = 0
  BY <1>1 DEF IsEmpty, QueueLength
<1>3. IsFull <=> QueueLength = RingBufferSize - 1
  <2>1. NextPosition(endPosition) =
          IF endPosition = RingBufferSize - 1 THEN 0 ELSE endPosition + 1
    BY <1>1, NextPositionWraps DEF Positions
  <2>2. QED
    BY <1>1, <2>1 DEF IsFull, QueueLength
<1>4. /\ QueuedEvents \in Seq(Events)
      /\ Len(QueuedEvents) = QueueLength
  BY QueuedEventsSeq DEF QueueShape
<1>5. IsEmpty <=> QueuedEvents = <<>>
  BY <1>2, <1>4, EmptySeq
<1>6. ASSUME ~IsEmpty
      PROVE  Head(QueuedEvents) = ringBuffer[startPosition]
  <2>1. 1 \in 1 .. QueueLength
    BY <1>1, <1>2, <1>6 DEF QueueLength
  <2>2. SlotAt(1) = startPosition
    BY <1>1 DEF SlotAt
  <2>3. QueuedEvents[1] = ringBuffer[startPosition]
    BY <2>1, <2>2, QueuedEventsSeq DEF QueueShape
  <2>4. QED
    BY <1>4, <1>5, <1>6, <2>3
<1>7. QED
  BY <1>3, <1>4, <1>5, <1>6

-----------------------------------------------------------------------------
(* Initial states map to initial states, steps to steps or stutters *)

\* The empty ring buffer is the empty queue.
LEMMA InitImplementsFifo == QueueInit => Fifo!Init
<1> SUFFICES ASSUME QueueInit
             PROVE  Fifo!Init
  OBVIOUS
<1>1. QueueInv /\ IsEmpty
  BY InitQueueInv DEF QueueInit, IsEmpty
<1>2. QueuedEvents = <<>>
  BY <1>1, QueueEnds
<1>3. QED
  BY <1>2 DEF QueueInit, Fifo!Init

\* Neither thread changes the queue but by Publish and Drop: the slots it
\* writes meanwhile are free.
LEMMA FreeSlotWritten ==
    ASSUME QueueInv, QueueInv',
           UNCHANGED <<startPosition, endPosition>>,
           \A p \in Positions : p # endPosition => ringBuffer'[p] = ringBuffer[p]
    PROVE  QueuedEvents' = QueuedEvents
<1>1. QueueShape /\ QueueShape'
  BY QueuedEventsSeq, PTL
<1>2. /\ RingBufferSize \in Nat \ {0}
      /\ startPosition \in 0 .. RingBufferSize - 1
      /\ endPosition \in 0 .. RingBufferSize - 1
  BY RingBufferSizeAssumption DEF QueueInv, QueueTypeOK, Positions
<1>3. QueueLength' = QueueLength /\ \A i : SlotAt(i)' = SlotAt(i)
  BY DEF QueueLength, SlotAt
<1>4. \A i \in 1 .. QueueLength : SlotAt(i) # endPosition
  BY <1>2 DEF QueueLength, SlotAt
<1>5. \A i \in 1 .. QueueLength : QueuedEvents'[i] = QueuedEvents[i]
  BY <1>1, <1>3, <1>4 DEF QueueShape
<1>6. QED
  BY <1>1, <1>3, <1>5, SeqEqual DEF QueueShape

\* Publishing appends the pushed message at the back.
LEMMA PublishAppends ==
    ASSUME QueueInv, QueueInv', Publish
    PROVE  /\ Len(QueuedEvents) < RingBufferSize - 1
           /\ QueuedEvents' = Append(QueuedEvents, pushing)
<1>1. QueueShape /\ QueueShape'
  BY QueuedEventsSeq, PTL
<1>2. /\ RingBufferSize \in Nat \ {0}
      /\ startPosition \in 0 .. RingBufferSize - 1
      /\ endPosition \in 0 .. RingBufferSize - 1
      /\ endPosition' = IF endPosition = RingBufferSize - 1
                        THEN 0 ELSE endPosition + 1
      /\ endPosition' # startPosition
      /\ startPosition' = startPosition
      /\ ringBuffer' = ringBuffer
      /\ ringBuffer[endPosition] = pushing
      /\ pushing \in Events
  BY RingBufferSizeAssumption, NextPositionWraps
     DEF QueueInv, QueueTypeOK, Positions, Publish
<1>3. QueueLength' = QueueLength + 1
  BY <1>2 DEF QueueLength
<1>4. \A i : SlotAt(i)' = SlotAt(i)
  BY <1>2 DEF SlotAt
<1>5. SlotAt(QueueLength + 1) = endPosition
  BY <1>2 DEF QueueLength, SlotAt
<1>6. \A i \in 1 .. QueueLength + 1 :
         QueuedEvents'[i] = IF i <= QueueLength THEN QueuedEvents[i] ELSE pushing
  BY <1>1, <1>2, <1>3, <1>4, <1>5 DEF QueueShape
<1>7. /\ Append(QueuedEvents, pushing) \in Seq(Events)
      /\ Len(Append(QueuedEvents, pushing)) = QueueLength + 1
      /\ \A i \in 1 .. QueueLength + 1 :
            Append(QueuedEvents, pushing)[i] =
               IF i <= QueueLength THEN QueuedEvents[i] ELSE pushing
  BY <1>1, <1>2 DEF QueueShape
<1>8. QueuedEvents' = Append(QueuedEvents, pushing)
  BY <1>1, <1>3, <1>6, <1>7, SeqEqual DEF QueueShape
<1>9. Len(QueuedEvents) < RingBufferSize - 1
  BY <1>1, <1>2, <1>3 DEF QueueShape
<1>10. QED
  BY <1>8, <1>9

\* Dropping removes the message at the front, which is the one held.
LEMMA DropRemovesHead ==
    ASSUME QueueInv, QueueInv', Drop
    PROVE  /\ QueuedEvents # <<>>
           /\ Head(QueuedEvents) = ringBuffer[held]
           /\ QueuedEvents' = Tail(QueuedEvents)
<1>1. QueueShape /\ QueueShape'
  BY QueuedEventsSeq, PTL
<1>2. /\ RingBufferSize \in Nat \ {0}
      /\ startPosition \in 0 .. RingBufferSize - 1
      /\ endPosition \in 0 .. RingBufferSize - 1
      /\ startPosition' = IF startPosition = RingBufferSize - 1
                          THEN 0 ELSE startPosition + 1
      /\ endPosition' = endPosition
      /\ ringBuffer' = ringBuffer
      /\ startPosition # endPosition
      /\ held = startPosition
  BY RingBufferSizeAssumption, NextPositionWraps
     DEF QueueInv, QueueTypeOK, Positions, Drop, IsEmpty
<1>3. /\ QueuedEvents # <<>>
      /\ Head(QueuedEvents) = ringBuffer[held]
  BY <1>2, QueueEnds DEF IsEmpty
<1>4. QueueLength' = QueueLength - 1
  BY <1>2 DEF QueueLength
<1>5. \A i \in 1 .. QueueLength - 1 : SlotAt(i)' = SlotAt(i + 1)
  BY <1>1, <1>2 DEF QueueShape, SlotAt
<1>6. \A i \in 1 .. QueueLength - 1 : QueuedEvents'[i] = QueuedEvents[i + 1]
  <2>1. ASSUME NEW i \in 1 .. QueueLength - 1
        PROVE  QueuedEvents'[i] = QueuedEvents[i + 1]
    <3>1. i \in 1 .. QueueLength' /\ i + 1 \in 1 .. QueueLength
      BY <1>1, <1>4 DEF QueueShape
    <3>2. QueuedEvents'[i] = ringBuffer'[SlotAt(i)']
      BY <1>1, <3>1 DEF QueueShape
    <3>3. QueuedEvents[i + 1] = ringBuffer[SlotAt(i + 1)]
      BY <1>1, <3>1 DEF QueueShape
    <3>4. QED
      BY <1>2, <1>5, <3>2, <3>3
  <2>2. QED
    BY <2>1
<1>7. /\ Tail(QueuedEvents) \in Seq(Events)
      /\ Len(Tail(QueuedEvents)) = QueueLength - 1
      /\ \A i \in 1 .. QueueLength - 1 :
            Tail(QueuedEvents)[i] = QueuedEvents[i + 1]
  BY <1>1, <1>3, HeadTailProperties DEF QueueShape
<1>8. QueuedEvents' = Tail(QueuedEvents)
  BY <1>1, <1>4, <1>6, <1>7, SeqEqual DEF QueueShape
<1>9. QED
  BY <1>3, <1>8

\* Every step is a push, a drop or an observation of the queue, or none of
\* them.
LEMMA StepImplementsFifo ==
    ASSUME QueueInv, QueueInv', [QueueNext]_ringVars
    PROVE  [Fifo!Next]_(Fifo!fifoVars)
<1> USE DEF Fifo!fifoVars
<1>1. CASE PushRefused
  <2>1. QueuedEvents' = QueuedEvents
    BY <1>1, FreeSlotWritten DEF PushRefused, queueVars
  <2>2. Len(QueuedEvents) = RingBufferSize - 1
    BY <1>1, QueueEnds DEF PushRefused
  <2>3. Fifo!Refuse
    BY <1>1, <2>1, <2>2 DEF Fifo!Refuse, PushRefused, queueVars, readerVars
  <2>4. QED
    BY <2>3 DEF Fifo!Next
<1>2. ASSUME NEW e \in Events, PushBegins(e)
      PROVE  UNCHANGED Fifo!fifoVars
  <2>1. QueuedEvents' = QueuedEvents
    BY <1>2, FreeSlotWritten DEF PushBegins, queueVars
  <2>2. QED
    BY <1>2, <2>1 DEF PushBegins, queueVars, readerVars
<1>3. ASSUME SlotTorn \/ SlotFilled
      PROVE  UNCHANGED Fifo!fifoVars
  <2>1. QueuedEvents' = QueuedEvents
    BY <1>3, FreeSlotWritten DEF SlotTorn, SlotFilled, QueueInv, QueueTypeOK
  <2>2. reader = "holding" => ringBuffer'[held] = ringBuffer[held]
    BY <1>3, HeldEventStep DEF QueueNext, Writer
  <2>3. QED
    BY <1>3, <2>1, <2>2 DEF SlotTorn, SlotFilled, readerVars
<1>4. CASE Publish
  <2>1. Fifo!Push(pushing)
    BY <1>4, PublishAppends DEF Fifo!Push, Publish, readerVars
  <2>2. pushing \in Events
    BY <1>4 DEF QueueInv, Publish
  <2>3. QED
    BY <2>1, <2>2 DEF Fifo!Next
<1>5. CASE Peek
  <2>1. QueuedEvents' = QueuedEvents
    BY <1>5, FreeSlotWritten DEF Peek, queueVars
  <2>2. QueuedEvents # <<>> /\ Head(QueuedEvents) = ringBuffer[startPosition]
    BY <1>5, QueueEnds DEF Peek
  <2>3. Fifo!Peek
    BY <1>5, <2>1, <2>2 DEF Fifo!Peek, Peek, queueVars, writerVars
  <2>4. QED
    BY <2>3 DEF Fifo!Next
<1>6. CASE Release
  <2>1. QueuedEvents' = QueuedEvents
    BY <1>6, FreeSlotWritten DEF Release, queueVars
  <2>2. Fifo!Release
    BY <1>6, <2>1 DEF Fifo!Release, Release, queueVars, writerVars
  <2>3. QED
    BY <2>2 DEF Fifo!Next
<1>7. CASE Drop
  <2>1. Fifo!Drop
    BY <1>7, DropRemovesHead DEF Fifo!Drop, Drop, writerVars
  <2>2. QED
    BY <2>1 DEF Fifo!Next
<1>8. CASE UNCHANGED ringVars
  <2>1. QueuedEvents' = QueuedEvents
    BY <1>8, FreeSlotWritten DEF ringVars, queueVars
  <2>2. QED
    BY <1>8, <2>1 DEF ringVars, queueVars, writerVars, readerVars
<1>9. QED
  BY <1>1, <1>2, <1>3, <1>4, <1>5, <1>6, <1>7, <1>8
     DEF QueueNext, Writer, Reader

\* The ring buffer shared by two threads without a lock behaves as a bounded
\* first-in first-out buffer, whatever its size and however the threads
\* interleave.
THEOREM RingBufferImplementsFifo == QueueSpec => ImplementsFifo
<1>1. QueueInv /\ QueueInv' /\ [QueueNext]_ringVars => [Fifo!Next]_(Fifo!fifoVars)
  BY StepImplementsFifo
<1>2. QED
  BY <1>1, InitImplementsFifo, QueueInvariant, PTL
     DEF QueueSpec, ImplementsFifo, Fifo!Spec
=============================================================================
