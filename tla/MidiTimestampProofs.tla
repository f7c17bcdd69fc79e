-------------------------- MODULE MidiTimestampProofs --------------------------
(***************************************************************************)
(* For every buffer, chunk, latency and wraparound of the device's counter:*)
(* GetPos() returns true positions to threads that overlap in it, nothing  *)
(* is rendered over frames still to be played, and a message is stamped    *)
(* with the frame heard MidiLatency after it came.                         *)
(*                                                                         *)
(* The theorems name what they assume of the constants: a device that does *)
(* not fall back across a wraparound, fewer samples played than a DWORD    *)
(* counts, a latency that covers the buffer.                               *)
(***************************************************************************)
EXTENDS MidiTimestamp, TLAPS

-----------------------------------------------------------------------------
(* Division *)

\* Division by a modulus.
LEMMA Division ==
    ASSUME NEW w \in Nat \ {0}, NEW n \in Int
    PROVE  /\ n \div w \in Int
           /\ n % w \in 0 .. w - 1
           /\ n = w * (n \div w) + (n % w)
OBVIOUS

\* Different multiples of a modulus are at least the modulus apart.
LEMMA MultiplesApart ==
    ASSUME NEW w \in Nat \ {0}, NEW a \in Int, NEW b \in Int, a < b
    PROVE  w * a + w <= w * b
<1>1. w * (b - a - 1) >= 0
  OBVIOUS
<1>2. QED
  BY <1>1

\* There is one way to divide.
LEMMA DivisionUnique ==
    ASSUME NEW w \in Nat \ {0}, NEW q \in Int, NEW r \in 0 .. w - 1,
           NEW n \in Int, n = w * q + r
    PROVE  n \div w = q /\ n % w = r
<1>2. n \div w \in Int /\ n % w \in 0 .. w - 1 /\ n = w * (n \div w) + (n % w)
  BY Division
<1>3. ~(n \div w < q)
  BY <1>2, MultiplesApart
<1>4. ~(q < n \div w)
  BY <1>2, MultiplesApart
<1>5. QED
  BY <1>2, <1>3, <1>4

-----------------------------------------------------------------------------
(* GetPos() *)

\* What the assumptions say of the constants.
LEMMA Constants ==
    /\ WrapModulus \in Nat \ {0} /\ DwordModulus \in Nat \ {0}
    /\ WrapThreshold \in Nat \ {0} /\ WrapModulus = 2 * WrapThreshold
    /\ Jitters \subseteq 0 .. WrapThreshold - 1
    /\ MaxPlayed \in Nat
<1>1. /\ WrapModulus \in Nat \ {0} /\ WrapModulus % 2 = 0
      /\ Jitters \subseteq 0 .. WrapThreshold - 1
      /\ MaxPlayed \in Nat
  BY PositionAssumption DEF WrapThreshold
<1>2. WrapThreshold \in Nat \ {0} /\ WrapModulus = 2 * WrapThreshold
  BY <1>1 DEF WrapThreshold
<1>3. DwordModulus \in Nat \ {0}
  <2>1. PICK k \in 1 .. 32 : DwordModulus = k * WrapModulus
    BY PositionAssumption
  <2>2. k * WrapModulus \in Nat \ {0}
    BY <1>1
  <2>3. QED
    BY <2>1, <2>2
<1>4. QED
  BY <1>1, <1>2, <1>3

\* Falling back by less than the remainder stays within the round.
LEMMA FallsWithinRound ==
    ASSUME NEW w \in Nat \ {0}, NEW n \in Nat, NEW b \in Nat, b <= n % w
    PROVE  /\ n - b \in Nat
           /\ (n - b) \div w = n \div w
           /\ (n - b) % w = (n % w) - b
           /\ (n - b) % w \in 0 .. w - 1
<1>1. /\ n \div w \in Int /\ n % w \in 0 .. w - 1
      /\ n = w * (n \div w) + (n % w)
  BY Division
<1>2. ~(n \div w < 0)
  BY <1>1, MultiplesApart
<1>3. PICK q \in Nat, r \in 0 .. w - 1 : q = n \div w /\ r = n % w
  BY <1>1, <1>2
<1>4. n = w * q + r /\ r - b \in 0 .. w - 1
  BY <1>1, <1>3
<1>5. n - b \in Int /\ n - b = w * q + (r - b)
  BY <1>4
<1>6. (n - b) \div w = q /\ (n - b) % w = r - b
  BY <1>4, <1>5, DivisionUnique
<1>7. w * q >= 0
  OBVIOUS
<1>8. QED
  BY <1>3, <1>4, <1>5, <1>6, <1>7

\* Of two positions less than half a wrap apart, the remainders tell which is
\* the later one and whether a wraparound lies between them.
LEMMA WrapsApart ==
    ASSUME NEW h \in Nat \ {0}, NEW w \in Nat \ {0}, w = 2 * h,
           NEW pq \in Int, NEW pr \in 0 .. w - 1,
           NEW sq \in Int, NEW sr \in 0 .. w - 1,
           NEW p \in Int, NEW s \in Int, p = w * pq + pr, s = w * sq + sr,
           p - s \in 1 - h .. h - 1, pq >= sq
    PROVE  /\ p < s => pr - sr \in -h .. -1
           /\ p >= s =>
                 /\ pr - sr \notin -h .. -1
                 /\ pq = IF pr - sr < -h THEN sq + 1 ELSE sq
<1>1. CASE pq = sq
  <2>1. pr - sr = p - s
    BY <1>1
  <2>2. QED
    BY <1>1, <2>1
<1>2. CASE pq = sq + 1
  <2>1. w * pq = w * sq + w
    BY <1>2
  <2>2. pr - sr = p - s - w
    BY <2>1
  <2>3. QED
    BY <1>2, <2>2
<1>3. CASE pq > sq + 1
  <2>1. w * sq + w <= w * (sq + 1) /\ w * (sq + 1) + w <= w * pq
    BY <1>3, MultiplesApart
  <2>2. QED
    BY <2>1
<1>4. QED
  BY <1>1, <1>2, <1>3

\* A later position lies in the same round or a later one.
LEMMA DivisionMonotone ==
    ASSUME NEW w \in Nat \ {0}, NEW a \in Int, NEW b \in Int, a <= b
    PROVE  a \div w <= b \div w
<1>1. /\ a \div w \in Int /\ a % w \in 0 .. w - 1
      /\ a = w * (a \div w) + (a % w)
      /\ b \div w \in Int /\ b % w \in 0 .. w - 1
      /\ b = w * (b \div w) + (b % w)
  BY Division
<1>2. ~(b \div w < a \div w)
  BY <1>1, MultiplesApart
<1>3. QED
  BY <1>1, <1>2

\* The same of the positions that GetPos() compares.
LEMMA WrapDetected ==
    ASSUME NEW s \in Nat, NEW p \in Nat,
           p - s \in 1 - WrapThreshold .. WrapThreshold - 1,
           p \div WrapModulus >= s \div WrapModulus
    PROVE  LET d == (p % WrapModulus) - (s % WrapModulus)
           IN  /\ p < s => d \in -WrapThreshold .. -1
               /\ p >= s =>
                     /\ d \notin -WrapThreshold .. -1
                     /\ p \div WrapModulus = IF d < -WrapThreshold
                                             THEN (s \div WrapModulus) + 1
                                             ELSE s \div WrapModulus
<1>1. p \in Int /\ s \in Int /\ WrapModulus \in Nat \ {0}
  BY Constants
<1>2. PICK pq \in Int, pr \in 0 .. WrapModulus - 1 :
         /\ pq = p \div WrapModulus /\ pr = p % WrapModulus
         /\ p = WrapModulus * pq + pr
  BY <1>1, Division
<1>3. PICK sq \in Int, sr \in 0 .. WrapModulus - 1 :
         /\ sq = s \div WrapModulus /\ sr = s % WrapModulus
         /\ s = WrapModulus * sq + sr
  BY <1>1, Division
<1>4. /\ p < s => pr - sr \in -WrapThreshold .. -1
      /\ p >= s =>
            /\ pr - sr \notin -WrapThreshold .. -1
            /\ pq = IF pr - sr < -WrapThreshold THEN sq + 1 ELSE sq
  <2>1. pq >= sq
    BY <1>2, <1>3
  <2>2. p = WrapModulus * pq + pr /\ s = WrapModulus * sq + sr
    BY <1>2, <1>3
  <2>3. QED
    BY <1>1, <2>1, <2>2, Constants, WrapsApart
<1>5. QED
  BY <1>2, <1>3, <1>4

\* What a thread was told of a position p that lies no further back than the
\* device may fall, and in the same round of its counter.
Told(t, p) ==
    /\ p \in truth[t] - jitter .. truth[t]
    /\ p \div WrapModulus = truth[t] \div WrapModulus
    /\ sample[t] = p % WrapModulus

\* The inductive invariant: every position in use is at most half a wrap old.
PositionInv ==
    /\ TypeOK
    /\ played - prevPlayPosition \in 0 .. WrapThreshold - 1
    /\ \A t \in Threads :
          pc[t] # "idle" => played - snapshot[t] \in 0 .. WrapThreshold - 1
    /\ \A t \in Threads :
          pc[t] = "asked" =>
             /\ truth[t] \in snapshot[t] .. played
             /\ \E p \in 0 .. truth[t] : Told(t, p)
    /\ PositionIsTrue

\* What GetPos() is about to return to a thread that has asked the device.
LEMMA GetPosIsTrue ==
    ASSUME PositionInv, MaxPlayed < DwordModulus,
           NEW t \in Threads, pc[t] = "asked"
    PROVE  /\ Delta(t) \in -WrapThreshold .. -1 =>
                 snapshot[t] \in truth[t] - jitter .. truth[t]
           /\ Delta(t) \notin -WrapThreshold .. -1 =>
                 /\ NewPosition(t) \in truth[t] - jitter .. truth[t]
                 /\ NewPosition(t) >= snapshot[t]
<1> DEFINE s == snapshot[t]
<1>1. PICK p \in Nat : Told(t, p)
  BY DEF PositionInv
<1>2. /\ s \in Nat /\ truth[t] \in Nat /\ played \in Nat
      /\ jitter \in 0 .. WrapThreshold - 1
      /\ played < DwordModulus
      /\ played - s \in 0 .. WrapThreshold - 1
      /\ truth[t] \in s .. played
  BY Constants DEF PositionInv, TypeOK
<1>3. p - s \in 1 - WrapThreshold .. WrapThreshold - 1
  BY <1>1, <1>2, Constants DEF Told
<1>4. p \div WrapModulus >= s \div WrapModulus
  <2>1. s \div WrapModulus <= truth[t] \div WrapModulus
    BY <1>2, Constants, DivisionMonotone
  <2>2. s \div WrapModulus \in Int /\ truth[t] \div WrapModulus \in Int
    <3>1. s \in Int /\ truth[t] \in Int /\ WrapModulus \in Nat \ {0}
      BY <1>2, Constants
    <3>2. QED
      BY <3>1, Division
  <2>3. QED
    BY <1>1, <2>1, <2>2 DEF Told
<1>5. sample[t] = p % WrapModulus
  BY <1>1 DEF Told
<1>6. CASE p < s
  <2>1. Delta(t) \in -WrapThreshold .. -1
    BY <1>2, <1>3, <1>4, <1>5, <1>6, WrapDetected DEF Delta
  <2>2. s \in truth[t] - jitter .. truth[t]
    BY <1>1, <1>2, <1>6 DEF Told
  <2>3. QED
    BY <2>1, <2>2
<1>7. CASE p >= s
  <2>1. /\ Delta(t) \notin -WrapThreshold .. -1
        /\ WrapCount(t) = p \div WrapModulus
    BY <1>2, <1>3, <1>4, <1>5, <1>7, WrapDetected DEF Delta, WrapCount
  <2>2. sample[t] + WrapCount(t) * WrapModulus = p
    <3>1. /\ p \div WrapModulus \in Int /\ p % WrapModulus \in Int
          /\ p = WrapModulus * (p \div WrapModulus) + (p % WrapModulus)
      <4>1. p \in Int /\ WrapModulus \in Nat \ {0}
        BY Constants
      <4>2. QED
        BY <4>1, Division
    <3>2. (p \div WrapModulus) * WrapModulus
             = WrapModulus * (p \div WrapModulus)
      BY <3>1, Constants
    <3>3. QED
      BY <1>5, <2>1, <3>1, <3>2, Constants
  <2>3. p \in 0 .. DwordModulus - 1
    <3>1. p \in truth[t] - jitter .. truth[t]
      BY <1>1 DEF Told
    <3>2. QED
      BY <1>2, <3>1, Constants
  <2>4. NewPosition(t) = p
    <3>1. p % DwordModulus = p
      BY <2>3, Constants
    <3>2. QED
      BY <2>2, <3>1 DEF NewPosition
  <2>5. QED
    BY <1>1, <1>7, <2>1, <2>4 DEF Told
<1>8. QED
  BY <1>2, <1>6, <1>7

\* The device begins at position 0, unasked.
LEMMA InitPositionInv == Init => PositionInv
<1> SUFFICES ASSUME Init
             PROVE  PositionInv
  OBVIOUS
<1>1. jitter \in Nat
  BY Constants DEF Init
<1>2. TypeOK
  BY Constants DEF Init, TypeOK
<1>3. QED
  BY <1>1, <1>2, Constants DEF Init, PositionInv, PositionIsTrue

\* A step of GetPos() moves its thread alone.
LEMMA GetPosMoves ==
    ASSUME PositionInv, NEW t \in Threads, GetPos(t)
    PROVE  \A u \in Threads \ {t} :
              /\ pc'[u] = pc[u] /\ snapshot'[u] = snapshot[u]
              /\ sample'[u] = sample[u] /\ truth'[u] = truth[u]
              /\ returned'[u] = returned[u]
BY DEF PositionInv, TypeOK, GetPos, TakeSnapshot, AskDevice, ReturnSnapshot,
       ReturnPosition, Returns, deviceVars

\* No step leaves a position in use that is half a wrap old: an overwritten
\* prevPlayPosition is as recent as the snapshot of the call that wrote it.
LEMMA PositionInvInductive ==
    ASSUME MaxPlayed < DwordModulus, ~FallsAcrossWrap,
           PositionInv, [Next]_vars
    PROVE  PositionInv'
<1>0. /\ played \in 0 .. MaxPlayed /\ jitter \in 0 .. WrapThreshold - 1
      /\ prevPlayPosition \in 0 .. DwordModulus - 1
      /\ TypeOK /\ PositionIsTrue
  BY Constants DEF PositionInv, TypeOK
<1>1. CASE DevicePlays
  <2>1. TypeOK'
    BY <1>0, <1>1, Constants DEF DevicePlays, TypeOK
  <2>2. /\ played' - prevPlayPosition' \in 0 .. WrapThreshold - 1
        /\ \A t \in Threads :
              pc'[t] # "idle" => played' - snapshot'[t] \in 0 .. WrapThreshold - 1
    BY <1>0, <1>1, Constants DEF DevicePlays, PositionInv, TypeOK
  <2>3. \A t \in Threads :
           pc'[t] = "asked" =>
              /\ truth'[t] \in snapshot'[t] .. played'
              /\ \E p \in 0 .. truth'[t] : Told(t, p)'
    BY <1>0, <1>1 DEF DevicePlays, PositionInv, Told
  <2>4. PositionIsTrue'
    BY <1>0, <1>1 DEF DevicePlays, PositionIsTrue
  <2>5. QED
    BY <2>1, <2>2, <2>3, <2>4 DEF PositionInv
<1>2. ASSUME NEW t \in Threads, TakeSnapshot(t)
      PROVE  PositionInv'
  <2>1. TypeOK'
    BY <1>0, <1>2 DEF TakeSnapshot, TypeOK, deviceVars
  <2>2. pc'[t] = "snapshot" /\ snapshot'[t] = prevPlayPosition
    BY <1>0, <1>2 DEF TakeSnapshot, TypeOK
  <2>3. UNCHANGED <<played, jitter, prevPlayPosition, sample, truth, returned>>
    BY <1>2 DEF TakeSnapshot, deviceVars
  <2>4. \A u \in Threads \ {t} : pc'[u] = pc[u] /\ snapshot'[u] = snapshot[u]
    BY <1>2, GetPosMoves DEF GetPos
  <2>5. QED
    BY <2>1, <2>2, <2>3, <2>4 DEF PositionInv, PositionIsTrue, Told
<1>3. ASSUME NEW t \in Threads, AskDevice(t)
      PROVE  PositionInv'
  <2>1. PICK behind \in 0 .. jitter :
           /\ behind <= played % WrapModulus
           /\ sample' = [sample EXCEPT ![t] = (played - behind) % WrapModulus]
    BY <1>3 DEF AskDevice
  <2>2. /\ pc[t] = "snapshot" /\ pc'[t] = "asked"
        /\ truth'[t] = played
        /\ sample'[t] = (played - behind) % WrapModulus
        /\ UNCHANGED <<played, jitter, prevPlayPosition, snapshot, returned>>
    BY <1>0, <1>3, <2>1 DEF AskDevice, TypeOK, deviceVars
  <2>3. /\ played - behind \in Nat
        /\ (played - behind) \div WrapModulus = played \div WrapModulus
        /\ (played - behind) % WrapModulus \in 0 .. WrapModulus - 1
    <3>1. played \in Nat /\ behind \in Nat /\ WrapModulus \in Nat \ {0}
      BY <1>0, <2>1, Constants
    <3>2. QED
      BY <2>1, <3>1, FallsWithinRound
  <2>4. TypeOK'
    BY <1>0, <1>3, <2>1, <2>3 DEF AskDevice, TypeOK, deviceVars
  <2>5. Told(t, played - behind)'
    BY <1>0, <2>1, <2>2, <2>3 DEF Told
  <2>6. truth'[t] \in snapshot'[t] .. played'
    BY <1>0, <2>2, Constants DEF PositionInv, TypeOK
  <2>7. \A u \in Threads \ {t} :
           /\ pc'[u] = pc[u] /\ snapshot'[u] = snapshot[u]
           /\ sample'[u] = sample[u] /\ truth'[u] = truth[u]
           /\ returned'[u] = returned[u]
    BY <1>3, GetPosMoves DEF GetPos
  <2>8. QED
    BY <2>2, <2>3, <2>4, <2>5, <2>6, <2>7 DEF PositionInv, PositionIsTrue, Told
<1>4. ASSUME NEW t \in Threads, ReturnSnapshot(t) \/ ReturnPosition(t)
      PROVE  PositionInv'
  <2>1. /\ pc[t] = "asked" /\ pc'[t] = "idle"
        /\ UNCHANGED <<played, jitter, truth>>
        /\ returned'[t] \in truth[t] - jitter .. truth[t]
        /\ \/ prevPlayPosition' = prevPlayPosition
           \/ prevPlayPosition' = returned'[t] /\ returned'[t] >= snapshot[t]
    <3>1. pc[t] = "asked" /\ UNCHANGED <<played, jitter, truth>>
      BY <1>4 DEF ReturnSnapshot, ReturnPosition, Returns, deviceVars
    <3>2. /\ pc'[t] = "idle"
          /\ \A position : Returns(t, position) => returned'[t] = position
      BY <1>0, <1>4 DEF ReturnSnapshot, ReturnPosition, Returns, TypeOK
    <3>3. QED
      BY <1>4, <3>1, <3>2, GetPosIsTrue DEF ReturnSnapshot, ReturnPosition
  <2>2. TypeOK'
    <3>1. NewPosition(t) \in 0 .. DwordModulus - 1
      <4>1. sample[t] \in Int /\ WrapCount(t) \in Int
        <5>1. snapshot[t] \in Int /\ WrapModulus \in Nat \ {0}
          BY <1>0, Constants DEF TypeOK
        <5>2. snapshot[t] \div WrapModulus \in Int
          BY <5>1, Division
        <5>3. QED
          BY <1>0, <5>2 DEF TypeOK, WrapCount
      <4>2. sample[t] + WrapCount(t) * WrapModulus \in Int
        BY <4>1, Constants
      <4>3. QED
        BY <4>2, Constants, Division DEF NewPosition
    <3>2. 0 \in 0 .. DwordModulus - 1 /\ 0 \in 0 .. WrapModulus - 1
      BY Constants
    <3>3. QED
      BY <1>0, <1>4, <3>1, <3>2
         DEF ReturnSnapshot, ReturnPosition, Returns, TypeOK, deviceVars
  <2>3. played' - prevPlayPosition' \in 0 .. WrapThreshold - 1
    BY <1>0, <2>1, Constants DEF PositionInv, TypeOK
  <2>4. \A u \in Threads \ {t} :
           /\ pc'[u] = pc[u] /\ snapshot'[u] = snapshot[u]
           /\ sample'[u] = sample[u] /\ truth'[u] = truth[u]
           /\ returned'[u] = returned[u]
    BY <1>4, GetPosMoves DEF GetPos
  <2>5. QED
    BY <2>1, <2>2, <2>3, <2>4 DEF PositionInv, PositionIsTrue, Told
<1>5. CASE UNCHANGED vars
  BY <1>5 DEF PositionInv, TypeOK, PositionIsTrue, Told, vars, deviceVars
<1>6. QED
  BY <1>1, <1>2, <1>3, <1>4, <1>5 DEF Next, GetPos

\* For a device that does not fall back across a wraparound, and until 2^32
\* samples are played, when waveOutGetPosition() itself wraps: however the calls
\* of GetPos() overlap, each returns a position that was true when it asked.
THEOREM PositionsAreTrue ==
    ASSUME MaxPlayed < DwordModulus, ~FallsAcrossWrap
    PROVE  Spec => []PositionIsTrue
<1>1. PositionInv /\ [Next]_vars => PositionInv'
  BY PositionInvInductive
<1>2. PositionInv => PositionIsTrue
  BY DEF PositionInv
<1>3. QED
  BY InitPositionInv, <1>1, <1>2, PTL DEF Spec

-----------------------------------------------------------------------------
(* getMIDIEventTimestamp() *)

\* Rendering and timestamping use GetPos() as its threads do.
LEMMA TimestampStepIsPositionStep ==
    [TimestampNext]_timestampVars => [Next]_vars
BY TimestampAssumption
   DEF TimestampNext, timestampVars, Plays, RenderingThread, MidiThread,
       AskPosition, PositionMonitored, RenderChunk, RenderToEnd,
       RenderToPlayPosition, SleepUntilSpace, CountFrames, Render,
       TakeCountSnapshot, GetMIDIEventTimestamp, PlayMIDI, InGetPos, Next,
       GetPos

\* The difference of two positions that lie less than a buffer apart, from
\* their remainders.
LEMMA RemaindersApart ==
    ASSUME NEW w \in Nat \ {0},
           NEW cq \in Int, NEW cr \in 0 .. w - 1,
           NEW pq \in Int, NEW pr \in 0 .. w - 1,
           NEW c \in Int, NEW p \in Int, c = w * cq + cr, p = w * pq + pr,
           p \in c .. c + w - 1
    PROVE  /\ cr - pr <= 0 => cr - pr = c - p
           /\ cr - pr > 0 => cr - pr = c + w - p
<1>1. ~(pq < cq)
  BY MultiplesApart
<1>2. CASE pq = cq
  BY <1>2
<1>3. CASE pq = cq + 1
  <2>1. w * pq = w * cq + w
    BY <1>3
  <2>2. cr - pr = c + w - p
    BY <2>1
  <2>3. QED
    BY <2>2
<1>4. CASE pq > cq + 1
  <2>1. w * cq + w <= w * (cq + 1) /\ w * (cq + 1) + w <= w * pq
    BY <1>4, MultiplesApart
  <2>2. QED
    BY <2>1
<1>5. QED
  BY <1>1, <1>2, <1>3, <1>4

\* The buffer never counts as empty; a position that lies between the frames
\* rendered and a buffer more gives the frames buffered, exactly.
LEMMA FramesBuffered ==
    ASSUME NEW c \in Nat, NEW p \in Nat
    PROVE  /\ BufferedFrames(c, p) \in 1 .. BufferSize
           /\ p \in c .. c + BufferSize - 1 =>
                 BufferedFrames(c, p) = c + BufferSize - p
<1>1. BufferSize \in Nat \ {0} /\ c \in Int /\ p \in Int
  BY TimestampAssumption
<1>2. /\ c \div BufferSize \in Int /\ c % BufferSize \in 0 .. BufferSize - 1
      /\ c = BufferSize * (c \div BufferSize) + (c % BufferSize)
      /\ p \div BufferSize \in Int /\ p % BufferSize \in 0 .. BufferSize - 1
      /\ p = BufferSize * (p \div BufferSize) + (p % BufferSize)
  BY <1>1, Division
<1>3. BufferedFrames(c, p) \in 1 .. BufferSize
  BY <1>1, <1>2 DEF BufferedFrames
<1>4. ASSUME p \in c .. c + BufferSize - 1
      PROVE  BufferedFrames(c, p) = c + BufferSize - p
  <2>1. /\ (c % BufferSize) - (p % BufferSize) <= 0 =>
              (c % BufferSize) - (p % BufferSize) = c - p
        /\ (c % BufferSize) - (p % BufferSize) > 0 =>
              (c % BufferSize) - (p % BufferSize) = c + BufferSize - p
    <3>1. PICK cq \in Int, cr \in 0 .. BufferSize - 1,
               pq \in Int, pr \in 0 .. BufferSize - 1 :
             /\ cr = c % BufferSize /\ c = BufferSize * cq + cr
             /\ pr = p % BufferSize /\ p = BufferSize * pq + pr
      BY <1>2
    <3>2. /\ c = BufferSize * cq + cr /\ p = BufferSize * pq + pr
          /\ p \in c .. c + BufferSize - 1
      BY <1>4, <3>1
    <3>3. /\ cr - pr <= 0 => cr - pr = c - p
          /\ cr - pr > 0 => cr - pr = c + BufferSize - p
      BY <1>1, <3>2, RemaindersApart
    <3>4. QED
      BY <3>1, <3>3
  <2>2. QED
    BY <1>1, <2>1 DEF BufferedFrames
<1>5. QED
  BY <1>3, <1>4

\* A sum that is in range comes out right whether or not a part of it was
\* negative and wrapped around.
LEMMA WrappedSum ==
    ASSUME NEW w \in Nat \ {0}, NEW x \in Int, NEW y \in Nat,
           x + y \in 0 .. w - 1
    PROVE  ((x % w) + y) % w = x + y
<1>1. PICK q \in Int, r \in 0 .. w - 1 : r = x % w /\ x = w * q + r
  BY Division
<1>2. -q \in Int /\ x + y \in 0 .. w - 1 /\ r + y \in Int
  OBVIOUS
<1>3. PICK k \in Int, m \in Int, n \in 0 .. w - 1 :
         k = -q /\ m = r + y /\ n = x + y
  BY <1>2, Zenon
<1>4. m = w * k + n
  <2>1. w * k = -(w * q)
    BY <1>3
  <2>2. x = w * q + r
    BY <1>1
  <2>3. QED
    BY <1>3, <2>1, <2>2
<1>5. m % w = n
  BY <1>4, DivisionUnique
<1>6. QED
  BY <1>1, <1>3, <1>5

\* The positions the threads work with are those of the device, as long as no
\* looped buffer is played by a device that falls back: there the rendering
\* thread can be a buffer ahead.
Exact == ~useRingBuffer \/ jitter = 0

\* The inductive invariant.
TimestampInv ==
    /\ PositionInv
    /\ useRingBuffer \in BOOLEAN
    /\ <<useRingBuffer, jitter>> \in DeviceModes
    /\ renderedFramesCount \in Nat /\ framesToRender \in Nat
    /\ renderedSampleCount = renderedFramesCount + framesToRender
    /\ rendering # "rendered" => framesToRender = 0
    /\ rendering \in {"idle", "asking", "rendered"}
    /\ midi \in {"idle", "asking", "stamped"}
    /\ \A t \in Threads : truth[t] \in 0 .. played
    /\ pc["rendering"] # "idle" => rendering = "asking"
    /\ pc["midi"] # "idle" => midi = "asking"
    /\ Exact => renderedSampleCount <= played
    /\ Exact /\ rendering = "asking" /\ pc["rendering"] # "snapshot" =>
          renderedSampleCount <= truth["rendering"]
    /\ countSnapshot \in Nat /\ countSnapshot <= renderedFramesCount
    /\ Exact /\ midi # "idle" /\ pc["midi"] # "snapshot" =>
          countSnapshot <= truth["midi"]
    /\ midi = "stamped" =>
          /\ frame = EventFrame(countSnapshot, returned["midi"])
          /\ timestamp \in Converted(frame)

\* RenderAvailableSpace(): what lies between the position in which the buffer
\* is rendered next and the one in which it is played has been played.
LEMMA AvailableSpace ==
    ASSUME NEW w \in Nat \ {0}, NEW r \in Nat, NEW p \in Nat, r <= p
    PROVE  /\ w - (r % w) \in Nat
           /\ p % w < r % w => r + (w - (r % w)) <= p
           /\ (p % w) - (r % w) >= 0 =>
                 /\ (p % w) - (r % w) \in Nat
                 /\ r + ((p % w) - (r % w)) <= p
<1>0. r \in Int /\ p \in Int
  OBVIOUS
<1>1. PICK rq \in Int, rr \in 0 .. w - 1 : rr = r % w /\ r = w * rq + rr
  BY <1>0, Division
<1>2. PICK pq \in Int, pr \in 0 .. w - 1 : pr = p % w /\ p = w * pq + pr
  BY <1>0, Division
<1>3. ~(pq < rq)
  BY <1>1, <1>2, MultiplesApart
<1>4. CASE pq = rq
  BY <1>1, <1>2, <1>4
<1>5. CASE pq > rq
  <2>1. w * rq + w <= w * pq
    BY <1>5, MultiplesApart
  <2>2. QED
    BY <1>1, <1>2, <2>1
<1>6. QED
  BY <1>1, <1>2, <1>3, <1>4, <1>5

\* The driver begins with a buffer of silence and no message.
LEMMA InitTimestampInv == TimestampInit => TimestampInv
BY InitPositionInv, TimestampAssumption
   DEF TimestampInit, TimestampInv, Init, Exact

\* No step of the two threads or of the device breaks the invariant.
LEMMA TimestampInvInductive ==
    ASSUME MaxPlayed < DwordModulus, ~FallsAcrossWrap,
           TimestampInv, [TimestampNext]_timestampVars
    PROVE  TimestampInv'
<1>0. /\ Threads = {"rendering", "midi"} /\ BufferSize \in Nat \ {0}
      /\ ChunkSize \in Nat \ {0}
  BY TimestampAssumption
<1>1. PositionInv /\ PositionInv'
  BY TimestampStepIsPositionStep, PositionInvInductive DEF TimestampInv
<1>2. /\ played \in Nat /\ pc \in [Threads -> {"idle", "snapshot", "asked"}]
      /\ played' \in Nat /\ truth \in [Threads -> 0 .. MaxPlayed]
      /\ pc' \in [Threads -> {"idle", "snapshot", "asked"}]
  BY <1>1 DEF PositionInv, TypeOK
<1> USE DEF rendererVars, midiVars, modeVars
<1>3. CASE Plays
  BY <1>0, <1>1, <1>2, <1>3 DEF Plays, DevicePlays, TimestampInv, Exact
<1>4. CASE AskPosition
  BY <1>0, <1>1, <1>2, <1>4
     DEF AskPosition, TakeSnapshot, TimestampInv, Exact, deviceVars
<1>5. CASE PositionMonitored \/ SleepUntilSpace \/ CountFrames
  BY <1>0, <1>1, <1>2, <1>5
     DEF PositionMonitored, SleepUntilSpace, CountFrames, TimestampInv, Exact,
         vars, deviceVars
<1>6. CASE TakeCountSnapshot
  BY <1>0, <1>1, <1>2, <1>6
     DEF TakeCountSnapshot, TakeSnapshot, TimestampInv, Exact, deviceVars
<1>7. CASE GetMIDIEventTimestamp \/ PlayMIDI
  BY <1>0, <1>1, <1>2, <1>7
     DEF GetMIDIEventTimestamp, PlayMIDI, TimestampInv, Exact, vars, deviceVars
<1>8. ASSUME NEW n \in Nat, Render(n), rendering # "rendered",
             pc["rendering"] = "idle",
             Exact => renderedSampleCount + n <= played
      PROVE  TimestampInv'
  BY <1>0, <1>1, <1>2, <1>8 DEF Render, TimestampInv, Exact, vars, deviceVars
<1>9. CASE RenderChunk
  BY <1>0, <1>2, <1>8, <1>9
     DEF RenderChunk, TimestampInv, ChunkDone, Written
<1>10. CASE RenderToEnd \/ RenderToPlayPosition
  \* The position is exact, and more recent than the last rendering.
  <2>1. /\ rendering = "asking" /\ pc["rendering"] = "idle"
        /\ renderedSampleCount = renderedFramesCount
        /\ renderedFramesCount \in Nat
        /\ returned["rendering"] \in Nat
        /\ Exact => /\ renderedFramesCount <= returned["rendering"]
                    /\ returned["rendering"] <= played
    BY <1>0, <1>1, <1>2, <1>10, Constants
       DEF RenderToEnd, RenderToPlayPosition, TimestampInv, Exact,
           PositionInv, TypeOK, PositionIsTrue
  <2>2. CASE RenderToEnd
    <3>1. /\ BufferSize - RenderPosition \in Nat
          /\ Exact => renderedSampleCount + (BufferSize - RenderPosition)
                        <= played
      BY <1>0, <1>2, <2>1, <2>2, AvailableSpace
         DEF RenderToEnd, RenderPosition, PlayPositionInBuffer
    <3>2. QED
      BY <1>8, <2>1, <2>2, <3>1 DEF RenderToEnd
  <2>3. CASE RenderToPlayPosition
    <3>1. PlayPositionInBuffer \in Int /\ RenderPosition \in Int
      BY <1>0, <2>1 DEF RenderPosition, PlayPositionInBuffer
    <3>2. PlayPositionInBuffer - RenderPosition \in Nat
      BY <1>0, <2>3, <3>1 DEF RenderToPlayPosition
    <3>3. Exact => renderedSampleCount
                     + (PlayPositionInBuffer - RenderPosition) <= played
      <4>1. SUFFICES ASSUME Exact
                     PROVE  renderedFramesCount
                              + (PlayPositionInBuffer - RenderPosition)
                              <= returned["rendering"]
        BY <1>2, <2>1, <3>1
      <4>2. PlayPositionInBuffer - RenderPosition >= 0
        BY <3>1, <3>2
      <4>3. QED
        BY <1>0, <2>1, <4>1, <4>2, AvailableSpace
           DEF RenderPosition, PlayPositionInBuffer
    <3>4. QED
      BY <1>8, <2>1, <2>3, <3>2, <3>3 DEF RenderToPlayPosition
  <2>4. QED
    BY <1>10, <2>2, <2>3
<1>11. ASSUME NEW t \in Threads, InGetPos(t)
       PROVE  TimestampInv'
  <2>1. /\ \A u \in Threads \ {t} : /\ pc'[u] = pc[u] /\ truth'[u] = truth[u]
                                   /\ returned'[u] = returned[u]
        /\ UNCHANGED <<played, jitter, rendererVars, midiVars, modeVars>>
        /\ pc[t] # "idle"
        /\ \/ pc'[t] = "asked" /\ truth'[t] = played
           \/ pc[t] = "asked" /\ pc'[t] = "idle" /\ truth'[t] = truth[t]
    BY <1>1, <1>2, <1>11, GetPosMoves
       DEF InGetPos, GetPos, AskDevice, ReturnSnapshot, ReturnPosition,
           Returns, deviceVars
  <2>2. QED
    BY <1>0, <1>1, <1>2, <2>1 DEF TimestampInv, Exact
<1>12. CASE UNCHANGED timestampVars
  BY <1>1, <1>12 DEF timestampVars, TimestampInv, Exact, vars, deviceVars
<1>13. QED
  BY <1>3, <1>4, <1>5, <1>6, <1>7, <1>9, <1>10, <1>11, <1>12
     DEF TimestampNext, RenderingThread, MidiThread

\* The inductive invariant holds while the driver plays: the threads of
\* getMIDIEventTimestamp() and of Render() overlap only as it says.
THEOREM TimestampInvariant ==
    ASSUME MaxPlayed < DwordModulus, ~FallsAcrossWrap
    PROVE  TimestampSpec => []TimestampInv
<1>1. TimestampInv /\ [TimestampNext]_timestampVars => TimestampInv'
  BY TimestampInvInductive
<1>2. QED
  BY InitTimestampInv, <1>1, PTL DEF TimestampSpec

\* GetPos() keeps its promise in the driver, where the rendering thread monitors
\* the position while messages are timestamped.
THEOREM DriverPositionsAreTrue ==
    ASSUME MaxPlayed < DwordModulus, ~FallsAcrossWrap
    PROVE  TimestampSpec => []PositionIsTrue
<1>1. TimestampInv => PositionIsTrue
  BY DEF TimestampInv, PositionInv
<1>2. QED
  BY <1>1, TimestampInvariant, PTL

\* RenderAvailableSpace() and the refilling of chunks render into frames that
\* an exact device has played, and into no others.
THEOREM RenderingFollowsDevice ==
    ASSUME MaxPlayed < DwordModulus, ~FallsAcrossWrap
    PROVE  TimestampSpec => []RendersPlayedFrames
<1>1. TimestampInv => RendersPlayedFrames
  BY DEF TimestampInv, RendersPlayedFrames, RendersAvailableSpace, Exact
<1>2. QED
  BY <1>1, TimestampInvariant, PTL

\* The frame a message is stamped with, of the frames rendered when it came.
LEMMA EventFrameBounds ==
    ASSUME MidiLatency >= BufferSize, NEW c \in Nat, NEW p \in Nat
    PROVE  /\ c + MidiLatency <= QuadModulus =>
                 EventFrame(c, p) \in 0 .. c + MidiLatency - 1
           /\ p \in c .. c + BufferSize - 1 /\ p + MidiLatency < QuadModulus =>
                 EventFrame(c, p) = p + MidiLatency - BufferSize
<1>0. /\ QuadModulus \in Nat \ {0} /\ MidiLatency \in Nat
      /\ BufferSize \in Nat \ {0}
  BY TimestampAssumption, Constants
<1> DEFINE x == c - BufferedFrames(c, p)
<1>1. BufferedFrames(c, p) \in 1 .. BufferSize
  BY FramesBuffered
<1>2. x \in Int /\ x + MidiLatency \in 0 .. c + MidiLatency - 1
  BY <1>0, <1>1
<1>3. x + MidiLatency < QuadModulus => EventFrame(c, p) = x + MidiLatency
  BY <1>0, <1>2, WrappedSum DEF EventFrame
<1>4. p \in c .. c + BufferSize - 1 => x = p - BufferSize
  BY <1>0, <1>1, FramesBuffered
<1>5. QED
  BY <1>0, <1>2, <1>3, <1>4

\* With an exact device and a latency that covers the buffer, a message that
\* comes in time is stamped with the frame heard MidiLatency later, although
\* getMIDIEventTimestamp() reads the count of frames before the position.
THEOREM LatencyIsConstant ==
    ASSUME MaxPlayed < DwordModulus, ~FallsAcrossWrap,
           MidiLatency >= BufferSize, MaxPlayed + MidiLatency < QuadModulus
    PROVE  TimestampSpec => []ConstantLatency
<1>1. ASSUME TimestampInv
      PROVE  ConstantLatency
  <2>1. SUFFICES ASSUME jitter = 0, midi = "stamped", InTime
                 PROVE  frame = truth["midi"] + MidiLatency - BufferSize
    <3>1. truth["midi"] + MidiLatency - BufferSize \in Int
      BY <1>1, TimestampAssumption DEF TimestampInv, PositionInv, TypeOK
    <3>2. QED
      BY <3>1 DEF ConstantLatency, LatencyKept
  <2>2. /\ truth["midi"] \in countSnapshot .. MaxPlayed
        /\ countSnapshot \in Nat /\ truth["midi"] \in Nat
        /\ returned["midi"] = truth["midi"]
        /\ frame = EventFrame(countSnapshot, truth["midi"])
    BY <1>1, <2>1, TimestampAssumption
       DEF TimestampInv, PositionInv, TypeOK, PositionIsTrue, Exact
  <2>3. truth["midi"] \in countSnapshot .. countSnapshot + BufferSize - 1
    BY <2>1, <2>2, TimestampAssumption DEF InTime
  <2>4. truth["midi"] + MidiLatency < QuadModulus
    BY <2>2, TimestampAssumption, Constants
  <2>5. QED
    BY <2>2, <2>3, <2>4, EventFrameBounds
<1>2. QED
  BY <1>1, TimestampInvariant, PTL

\* Converting to the slower clock of the synth does not increase a count.
LEMMA ConvertedBelow ==
    ASSUME SynthRate <= OutputRate, NEW n \in Nat, n < DwordModulus,
           NEW v \in Converted(n)
    PROVE  v \in 0 .. n
<1>0. SynthRate \in Nat \ {0} /\ OutputRate \in Nat \ {0}
  BY TimestampAssumption
<1>1. n * SynthRate <= OutputRate * n /\ n * SynthRate \in Nat
  <2>1. n * (OutputRate - SynthRate) >= 0
    BY <1>0
  <2>2. QED
    BY <1>0, <2>1
<1>2. PICK m \in Nat : m = n * SynthRate
  BY <1>1
<1>3. /\ m \div OutputRate \in Int /\ m % OutputRate \in 0 .. OutputRate - 1
      /\ m = OutputRate * (m \div OutputRate) + (m % OutputRate)
  <2>1. m \in Int
    OBVIOUS
  <2>2. QED
    BY <1>0, <2>1, Division
<1>4. ~(m \div OutputRate > n)
  BY <1>0, <1>1, <1>2, <1>3, MultiplesApart
<1>5. ~(m \div OutputRate < 0)
  BY <1>0, <1>2, <1>3, MultiplesApart
<1>6. v = m \div OutputRate
  BY <1>2, <1>3, <1>4, Constants DEF Converted
<1>7. QED
  BY <1>3, <1>4, <1>5, <1>6

\* When the synth's clock is not the faster one, no timestamp lies MidiLatency or
\* more ahead of what has been rendered, as long as looped buffers are played by
\* exact devices.
THEOREM NoMessageWaitsLonger ==
    ASSUME MaxPlayed + MidiLatency < DwordModulus, ~FallsAcrossWrap,
           MidiLatency >= BufferSize, SynthRate <= OutputRate,
           \A mode \in DeviceModes : mode[1] => mode[2] = 0
    PROVE  TimestampSpec => []NeverWaitsLonger
<1>0. MaxPlayed < DwordModulus /\ DwordModulus < QuadModulus
  BY TimestampAssumption, Constants
<1>1. ASSUME TimestampInv
      PROVE  NeverWaitsLonger
  <2>1. SUFFICES ASSUME midi = "stamped"
                 PROVE  timestamp < renderedSampleCount + MidiLatency
    BY DEF NeverWaitsLonger
  <2>2. Exact
    BY <1>1 DEF TimestampInv, Exact
  <2>3. /\ countSnapshot \in Nat /\ returned["midi"] \in Nat
        /\ renderedSampleCount \in Nat
        /\ countSnapshot <= renderedSampleCount
        /\ renderedSampleCount <= MaxPlayed
        /\ frame = EventFrame(countSnapshot, returned["midi"])
        /\ timestamp \in Converted(frame)
    <3>1. played \in 0 .. MaxPlayed /\ returned["midi"] \in Nat
      BY <1>1, TimestampAssumption DEF TimestampInv, PositionInv, TypeOK
    <3>2. renderedSampleCount <= played
      BY <1>1, <2>2 DEF TimestampInv
    <3>3. QED
      BY <1>1, <2>1, <3>1, <3>2, Constants DEF TimestampInv
  <2>4. frame \in 0 .. countSnapshot + MidiLatency - 1
    BY <1>0, <2>3, TimestampAssumption, Constants, EventFrameBounds
  <2>5. frame \in Nat /\ frame < DwordModulus
    BY <2>3, <2>4, TimestampAssumption, Constants
  <2>6. timestamp \in 0 .. frame
    BY <2>3, <2>5, ConvertedBelow
  <2>7. QED
    BY <2>3, <2>4, <2>5, <2>6, TimestampAssumption
<1>2. QED
  BY <1>0, <1>1, TimestampInvariant, PTL
=============================================================================
