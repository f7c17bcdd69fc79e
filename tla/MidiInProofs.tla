----------------------------- MODULE MidiInProofs -----------------------------
(***************************************************************************)
(* For any buffers, dumps and sessions: the application receives the bytes *)
(* in order, and, if it does not use a buffer again that it got back, no   *)
(* dump waits for a buffer while a buffer waits for a dump.                *)
(***************************************************************************)
EXTENDS MidiIn, Integers, TLAPS

\* The types, and that a header is being added while midAddBuffer() is under way.
TypeInv ==
    /\ TypeOK
    /\ pc["app"] \in {"add", "walk"} => lpMidiHdr \in Headers

\* The critical section holds one thread, and the list is walked inside.
LockInv ==
    /\ pc["app"] \in {"walk", "reset"} => midiInLock = "app"
    /\ \A t \in Threads : pc[t] = "copy" => midiInLock = t

\* A sequence of parts holds the bytes that follow one byte, up to another.
Chain(parts, from, to) ==
    /\ \A i \in 1 .. Len(parts) :
          parts[i].first = (IF i = 1 THEN from ELSE parts[i - 1].last) + 1
    /\ to = IF parts = <<>> THEN from ELSE parts[Len(parts)].last

\* What was received is followed by what is pending.
DumpsInv ==
    \E bytes \in 0 .. MaxBytes :
        Chain(received, 0, bytes) /\ Chain(pPendingData, bytes, sentBytes)

\* The headers that a walk through the links `next' from h comes to.
IsClosed(S, next, h) ==
    /\ S \subseteq Headers
    /\ h \in S \union {NoHeader}
    /\ \A g \in S : next[g] \in S \union {NoHeader}

ReachableFrom(next, h) ==
    {g \in Headers : \A S \in SUBSET Headers : IsClosed(S, next, h) => g \in S}

List == ReachableFrom(lpNext, lpQueueHdr)

\* The header that midAddBuffer() has tested; then, marked, on its way into the
\* list.
AddInv ==
    pc["app"] = "add" =>
        /\ lpMidiHdr \in prepared \ inQueue
        /\ content[lpMidiHdr] = Nothing

WalkInv ==
    pc["app"] = "walk" =>
        /\ lpMidiHdr \in inQueue \ List
        /\ lpNext[lpMidiHdr] = NoHeader
        /\ IF pHdr["app"] = NoHeader THEN lpQueueHdr = NoHeader
                                     ELSE pHdr["app"] \in List

\* A header in the list is marked or filled, so that it is not added again.
ListedInv ==
    pc["app"] # "reset" =>
        \A h \in List : h \in inQueue \/ content[h] # Nothing

\* A marked header is in the list, or about to be linked; and it is still
\* before a thread that copies.
QueuedInv ==
    \A h \in inQueue : h \in List \/ (pc["app"] = "walk" /\ h = lpMidiHdr)

CopyInv ==
    \A t \in Threads :
        pc[t] = "copy" =>
            /\ pHdr[t] \in List \union {NoHeader}
            /\ inQueue \subseteq ReachableFrom(lpNext, pHdr[t])

ListInv ==
    /\ inQueue \subseteq prepared
    /\ AddInv /\ WalkInv /\ ListedInv /\ QueuedInv /\ CopyInv

\* While a buffer and a dump wait, a thread is about to bring them together.
WaitInv ==
    /\ ~opened => /\ ~recording /\ lpQueueHdr = NoHeader
                  /\ inQueue = {} /\ pc["app"] = "idle"
    /\ ~recording => pPendingData = <<>> /\ pc["render"] = "idle"
    /\ recording /\ pPendingData # <<>> /\ inQueue # {} =>
          \/ pc["app"] \in {"walk", "reset", "check", "enter", "copy"}
          \/ pc["render"] \in {"check", "enter", "copy"}

\* The inductive invariant; the second half is for an application that has not
\* stopped and takes each buffer back for good.
MidiInv ==
    /\ TypeInv /\ LockInv /\ DumpsInv
    /\ ~stopped /\ ~MayRecycle => ListInv /\ WaitInv

-----------------------------------------------------------------------------
(* Parts of dumps *)

\* What ProcessPending() copies: the whole dump if it fits, else its beginning.
LEMMA PartType ==
    ASSUME NEW h \in Headers, pPendingData \in Seq(Interval), pPendingData # <<>>
    PROVE  LET dump == Head(pPendingData)
           IN  /\ dump \in Interval
               /\ Tail(pPendingData) \in Seq(Interval)
               /\ Part(h) \in Interval
               /\ Part(h).first = dump.first
               /\ BufferLength[h] >= Length(dump) => Part(h) = dump
               /\ BufferLength[h] < Length(dump) =>
                     /\ Part(h).last < dump.last
                     /\ Part(h).last + 1 = dump.first + BufferLength[h]
<1> DEFINE dump == Head(pPendingData)
<1>1. dump \in Interval /\ Tail(pPendingData) \in Seq(Interval)
  OBVIOUS
<1>2. dump \in [first : 1 .. MaxBytes, last : 1 .. MaxBytes]
  BY <1>1 DEF Interval
<1>3. /\ dump.first \in Nat /\ dump.last \in Nat /\ dump.first >= 1
      /\ dump.last <= MaxBytes /\ dump.first <= dump.last
  BY <1>1, MidiInAssumption DEF Interval
<1>4. BufferLength[h] \in Nat \ {0} /\ MaxBytes \in Nat
  BY MidiInAssumption
<1>5. Length(dump) \in Int
  BY <1>3 DEF Length
<1>6. CASE BufferLength[h] >= Length(dump)
  <2>1. Part(h) = dump
    BY <1>6 DEF Part
  <2>2. ~(BufferLength[h] < Length(dump))
    BY <1>4, <1>5, <1>6
  <2>3. QED
    BY <1>1, <2>1, <2>2
<1>7. CASE BufferLength[h] < Length(dump)
  <2> DEFINE last == dump.first + BufferLength[h] - 1
  <2>1. /\ last < dump.last /\ dump.first <= last /\ last \in Nat
        /\ last + 1 = dump.first + BufferLength[h]
    <3>1. BufferLength[h] < dump.last + 1 - dump.first
      BY <1>7 DEF Length
    <3>2. \A f, l, b \in Nat :
             f >= 1 /\ b # 0 /\ b < l + 1 - f =>
                /\ f + b - 1 < l /\ f <= f + b - 1 /\ f + b - 1 \in Nat
                /\ (f + b - 1) + 1 = f + b
      OBVIOUS
    <3>3. BufferLength[h] \in Nat /\ BufferLength[h] # 0
      BY <1>4
    <3>4. QED
      BY <1>3, <3>1, <3>2, <3>3
  <2>2. ~(BufferLength[h] >= Length(dump))
    BY <1>4, <1>5, <1>7
  <2>3. Part(h) = [dump EXCEPT !.last = last]
    BY <2>2 DEF Part
  <2> HIDE DEF last
  <2>4. last \in 1 .. MaxBytes
    BY <1>3, <1>4, <2>1
  <2>5. /\ Part(h) \in [first : 1 .. MaxBytes, last : 1 .. MaxBytes]
        /\ Part(h).first = dump.first /\ Part(h).last = last
    BY <1>2, <2>3, <2>4
  <2>6. Part(h) \in Interval
    BY <2>1, <2>5 DEF Interval
  <2>7. QED
    BY <1>1, <2>1, <2>2, <2>5, <2>6
<1>8. QED
  BY <1>4, <1>5, <1>6, <1>7

\* What it leaves: the other dumps, after the rest of the one it has split.
LEMMA RemainingType ==
    ASSUME NEW h \in Headers, pPendingData \in Seq(Interval), pPendingData # <<>>
    PROVE  /\ Remaining(h) \in Seq(Interval)
           /\ BufferLength[h] >= Length(Head(pPendingData)) =>
                 Remaining(h) = Tail(pPendingData)
           /\ BufferLength[h] < Length(Head(pPendingData)) =>
                 /\ Len(Remaining(h)) = Len(pPendingData)
                 /\ Remaining(h)[1].first = Part(h).last + 1
                 /\ Remaining(h)[1].last = Head(pPendingData).last
                 /\ \A i \in 2 .. Len(pPendingData) :
                       Remaining(h)[i] = pPendingData[i]
<1> DEFINE dump == Head(pPendingData)
           rest == [dump EXCEPT !.first = @ + BufferLength[h]]
<1>0. dump \in Interval /\ Tail(pPendingData) \in Seq(Interval)
  OBVIOUS
<1>1. dump \in [first : 1 .. MaxBytes, last : 1 .. MaxBytes]
  BY <1>0 DEF Interval
<1>2. /\ dump.first \in Nat /\ dump.last \in Nat /\ dump.first >= 1
      /\ dump.last <= MaxBytes
      /\ BufferLength[h] \in Nat \ {0} /\ MaxBytes \in Nat
  BY <1>0, MidiInAssumption DEF Interval
<1>3. Length(dump) \in Int
  BY <1>2 DEF Length
<1>4. CASE BufferLength[h] >= Length(dump)
  <2>1. Remaining(h) = Tail(pPendingData)
    BY <1>4 DEF Remaining
  <2>2. ~(BufferLength[h] < Length(dump))
    BY <1>2, <1>3, <1>4
  <2>3. QED
    BY <1>0, <2>1, <2>2
<1>5. CASE BufferLength[h] < Length(dump)
  <2>1. Part(h).last + 1 = dump.first + BufferLength[h]
    BY <1>5, PartType
  <2>2. /\ dump.first + BufferLength[h] <= dump.last
        /\ dump.first + BufferLength[h] \in 1 .. MaxBytes
    BY <1>2, <1>5 DEF Length
  <2>3. /\ rest \in [first : 1 .. MaxBytes, last : 1 .. MaxBytes]
        /\ rest.first = dump.first + BufferLength[h]
        /\ rest.last = dump.last
    BY <1>1, <2>2
  <2>4. rest \in Interval
    BY <2>2, <2>3 DEF Interval
  <2>5. dump = pPendingData[1] /\ 1 \in 1 .. Len(pPendingData)
    OBVIOUS
  <2>6. ~(BufferLength[h] >= Length(dump))
    BY <1>2, <1>3, <1>5
  <2>7. Remaining(h) = [pPendingData EXCEPT ![1].first = @ + BufferLength[h]]
    BY <2>6 DEF Remaining
  <2>8. Remaining(h) = [pPendingData EXCEPT ![1] = rest]
    BY <2>5, <2>7
  <2>9. /\ Remaining(h) \in Seq(Interval)
        /\ Len(Remaining(h)) = Len(pPendingData)
        /\ Remaining(h)[1] = rest
        /\ \A i \in 2 .. Len(pPendingData) : Remaining(h)[i] = pPendingData[i]
    BY <2>4, <2>5, <2>8
  <2>10. QED
    BY <2>1, <2>3, <2>6, <2>9
<1>6. QED
  BY <1>2, <1>3, <1>4, <1>5

\* A part that begins where a chain ends is appended to it.
LEMMA ChainAppend ==
    ASSUME NEW s \in Seq(Interval), NEW from \in Nat, NEW to \in Nat,
           Chain(s, from, to), NEW p \in Interval, p.first = to + 1
    PROVE  Chain(Append(s, p), from, p.last)
<1>1. /\ Append(s, p) \in Seq(Interval) /\ Len(s) \in Nat
      /\ Len(Append(s, p)) = Len(s) + 1 /\ Append(s, p)[Len(s) + 1] = p
      /\ \A i \in 1 .. Len(s) : Append(s, p)[i] = s[i]
      /\ Append(s, p) # <<>>
  OBVIOUS
<1>2. ASSUME NEW i \in 1 .. Len(s)
      PROVE  Append(s, p)[i].first =
                (IF i = 1 THEN from ELSE Append(s, p)[i - 1].last) + 1
  BY <1>1 DEF Chain
<1>3. p.first =
         (IF Len(s) + 1 = 1 THEN from ELSE Append(s, p)[Len(s)].last) + 1
  <2>1. CASE s = <<>>
    BY <1>1, <2>1 DEF Chain
  <2>2. CASE s # <<>>
    <3>1. Len(s) \in 1 .. Len(s)
      BY <1>1, <2>2
    <3>2. QED
      BY <1>1, <2>2, <3>1 DEF Chain
  <2>3. QED
    BY <2>1, <2>2
<1>4. QED
  BY <1>1, <1>2, <1>3 DEF Chain

\* Without its first part, a chain begins where that one ends.
LEMMA ChainTail ==
    ASSUME NEW s \in Seq(Interval), NEW from \in Nat, NEW to \in Nat,
           Chain(s, from, to), s # <<>>
    PROVE  /\ Head(s).first = from + 1
           /\ Chain(Tail(s), Head(s).last, to)
<1>1. /\ Len(s) \in Nat \ {0} /\ Head(s) = s[1] /\ Tail(s) \in Seq(Interval)
      /\ Len(Tail(s)) = Len(s) - 1
      /\ \A i \in 1 .. Len(s) - 1 : Tail(s)[i] = s[i + 1]
  OBVIOUS
<1>2. Head(s).first = from + 1
  BY <1>1 DEF Chain
<1>3. ASSUME NEW i \in 1 .. Len(Tail(s))
      PROVE  Tail(s)[i].first = (IF i = 1 THEN Head(s).last
                                         ELSE Tail(s)[i - 1].last) + 1
  BY <1>1 DEF Chain
<1>4. to = IF Tail(s) = <<>> THEN Head(s).last ELSE Tail(s)[Len(Tail(s))].last
  <2>0. to = s[Len(s)].last
    BY DEF Chain
  <2>1. CASE Len(s) = 1
    <3>1. Tail(s) = <<>>
      <4>1. \A u \in Seq(Interval) : Len(u) = 0 => u = <<>>
        OBVIOUS
      <4>2. Tail(s) \in Seq(Interval) /\ Len(Tail(s)) = 0
        BY <1>1, <2>1
      <4>3. QED
        BY <4>1, <4>2, Zenon
    <3>2. QED
      BY <1>1, <2>0, <2>1, <3>1
  <2>2. CASE Len(s) # 1
    <3>1. Tail(s) # <<>> /\ Len(s) - 1 \in 1 .. Len(s) - 1
      BY <1>1, <2>2
    <3>2. Tail(s)[Len(s) - 1] = s[Len(s)]
      BY <1>1, <3>1
    <3>3. QED
      BY <1>1, <2>0, <3>1, <3>2
  <2>3. QED
    BY <2>1, <2>2
<1>5. QED
  BY <1>2, <1>3, <1>4 DEF Chain

\* No part of a dump holds no byte.
LEMMA ChainEmpty == \A from : Chain(<<>>, from, from)
BY DEF Chain

\* What was received, and then what is pending, is in order.
LEMMA ChainsInOrder ==
    ASSUME received \in Seq(Interval), pPendingData \in Seq(Interval),
           DumpsInv, sentBytes \in Nat, MaxBytes \in Nat
    PROVE  DumpsInOrder
<1> DEFINE r == received
           p == pPendingData
           parts == r \o p
<1>1. PICK bytes \in 0 .. MaxBytes :
         Chain(r, 0, bytes) /\ Chain(p, bytes, sentBytes)
  BY DEF DumpsInv
<1>2. /\ Len(r) \in Nat /\ Len(p) \in Nat
      /\ parts \in Seq(Interval) /\ Len(parts) = Len(r) + Len(p)
      /\ \A i \in 1 .. Len(r) : parts[i] = r[i]
      /\ \A i \in Len(r) + 1 .. Len(r) + Len(p) : parts[i] = p[i - Len(r)]
  OBVIOUS
<1>3. ASSUME NEW i \in 1 .. Len(parts)
      PROVE  parts[i].first = IF i = 1 THEN 1 ELSE parts[i - 1].last + 1
  <2>1. CASE i \in 1 .. Len(r)
    <3>1. r[i].first = (IF i = 1 THEN 0 ELSE r[i - 1].last) + 1
      BY <1>1, <2>1 DEF Chain
    <3>2. CASE i = 1
      BY <1>2, <2>1, <3>1, <3>2
    <3>3. CASE i # 1
      BY <1>2, <2>1, <3>1, <3>3
    <3>4. QED
      BY <3>2, <3>3
  <2>2. CASE i = Len(r) + 1
    <3>1. /\ p[1].first = bytes + 1 /\ parts[i] = p[1]
      BY <1>1, <1>2, <2>2 DEF Chain
    <3>2. CASE r = <<>>
      BY <1>1, <2>2, <3>1, <3>2 DEF Chain
    <3>3. CASE r # <<>>
      BY <1>1, <1>2, <2>2, <3>1, <3>3 DEF Chain
    <3>4. QED
      BY <3>2, <3>3
  <2>3. CASE i > Len(r) + 1
    <3>1. /\ i - Len(r) \in 2 .. Len(p) /\ i - Len(r) - 1 \in 1 .. Len(p)
          /\ i - 1 \in Len(r) + 1 .. Len(r) + Len(p)
          /\ i \in Len(r) + 1 .. Len(r) + Len(p)
      BY <1>2, <2>3
    <3>2. p[i - Len(r)].first = p[i - Len(r) - 1].last + 1
      <4>1. \A k \in 2 .. Len(p) : p[k].first = p[k - 1].last + 1
        BY <1>1, <1>2 DEF Chain
      <4>2. QED
        BY <3>1, <4>1
    <3>3. parts[i] = p[i - Len(r)] /\ parts[i - 1] = p[i - Len(r) - 1]
      BY <1>2, <3>1
    <3>4. QED
      BY <1>2, <2>3, <3>2, <3>3
  <2>4. QED
    BY <1>2, <2>1, <2>2, <2>3
<1>4. parts # <<>> => parts[Len(parts)].last = sentBytes
  <2>1. CASE p = <<>>
    BY <1>1, <1>2, <2>1 DEF Chain
  <2>2. CASE p # <<>>
    BY <1>1, <1>2, <2>2 DEF Chain
  <2>3. QED
    BY <2>1, <2>2
<1>5. QED
  BY <1>3, <1>4 DEF DumpsInOrder

-----------------------------------------------------------------------------
(* The list *)

\* Walking on from h is walking from the header behind it.
LEMMA ReachNext ==
    ASSUME NEW next \in [Headers -> Headers \union {NoHeader}], NEW h \in Headers
    PROVE  ReachableFrom(next, h) \subseteq {h} \union ReachableFrom(next, next[h])
<1> SUFFICES ASSUME NEW g \in ReachableFrom(next, h), g # h,
                    NEW S \in SUBSET Headers, IsClosed(S, next, next[h])
             PROVE  g \in S
  BY DEF ReachableFrom
<1>1. IsClosed(S \union {h}, next, h)
  BY DEF IsClosed
<1>2. QED
  BY <1>1 DEF ReachableFrom

\* From what a walk comes to, the links lead nowhere else.
LEMMA ReachClosed ==
    ASSUME NEW next \in [Headers -> Headers \union {NoHeader}],
           NEW h \in Headers \union {NoHeader}
    PROVE  IsClosed(ReachableFrom(next, h), next, h)
BY DEF IsClosed, ReachableFrom

\* A walk stays in any set that the links do not leave.
LEMMA ReachLeast ==
    ASSUME NEW next, NEW h, NEW S \in SUBSET Headers, IsClosed(S, next, h)
    PROVE  ReachableFrom(next, h) \subseteq S
BY DEF ReachableFrom

\* An empty list holds no header.
LEMMA ReachNone ==
    ASSUME NEW next
    PROVE  ReachableFrom(next, NoHeader) = {}
<1>1. IsClosed({}, next, NoHeader)
  BY DEF IsClosed
<1>2. QED
  BY <1>1, ReachLeast

\* What can be reached from a header that can be reached.
LEMMA ReachTransitive ==
    ASSUME NEW next \in [Headers -> Headers \union {NoHeader}],
           NEW h \in Headers \union {NoHeader},
           NEW g \in ReachableFrom(next, h)
    PROVE  ReachableFrom(next, g) \subseteq ReachableFrom(next, h)
<1>1. IsClosed(ReachableFrom(next, h), next, h)
  BY ReachClosed
<1>2. IsClosed(ReachableFrom(next, h), next, g)
  BY <1>1 DEF IsClosed
<1>3. QED
  BY <1>2, ReachLeast DEF ReachableFrom

\* Relinking a header that is not reached changes nothing.
LEMMA ReachUnlinked ==
    ASSUME NEW next \in [Headers -> Headers \union {NoHeader}],
           NEW h \in Headers \union {NoHeader},
           NEW g \in Headers \ ReachableFrom(next, h),
           NEW v \in Headers \union {NoHeader}
    PROVE  ReachableFrom([next EXCEPT ![g] = v], h) = ReachableFrom(next, h)
<1> DEFINE new == [next EXCEPT ![g] = v]
           R == ReachableFrom(next, h)
           Q == ReachableFrom(new, h)
<1>1. new \in [Headers -> Headers \union {NoHeader}]
  OBVIOUS
<1>2. \A f \in Headers \ {g} : new[f] = next[f]
  OBVIOUS
<1>3. IsClosed(R, next, h) /\ IsClosed(Q, new, h)
  BY <1>1, ReachClosed
<1>4. IsClosed(R, new, h)
  BY <1>2, <1>3 DEF IsClosed
<1>5. Q \subseteq R
  BY <1>4, ReachLeast DEF ReachableFrom
<1>6. IsClosed(Q, next, h)
  BY <1>2, <1>3, <1>5 DEF IsClosed
<1>7. R \subseteq Q
  BY <1>6, ReachLeast DEF ReachableFrom
<1>8. QED
  BY <1>5, <1>7

-----------------------------------------------------------------------------
(* Types, the critical section and the order of dumps *)

\* What an application may do, by the assumption on the constants.
LEMMA SessionTypes ==
    ASSUME session \in Sessions
    PROVE  session.headers \subseteq Headers /\ session.bytes \in 0 .. MaxBytes
BY MidiInAssumption

\* Every step of either thread keeps the types.
LEMMA TypeInvInductive == TypeInv /\ [Next]_vars => TypeInv'
<1> SUFFICES ASSUME TypeInv, [Next]_vars
             PROVE  TypeInv'
  OBVIOUS
<1>0. /\ session.headers \subseteq Headers /\ session.bytes \in 0 .. MaxBytes
      /\ MaxBytes \in Nat /\ NoHeader \notin Headers
      /\ "app" \in Threads /\ "render" \in Threads
      /\ DumpLengths \subseteq Nat \ {0}
  BY MidiInAssumption, SessionTypes DEF TypeInv, TypeOK, Threads
<1> USE DEF TypeInv, TypeOK, sourceVars, listVars, flagVars, dataVars, threadVars
<1>1. CASE MidOpen \/ MidClose \/ MidStart \/ MidStop
  BY <1>1 DEF MidOpen, MidClose, MidStart, MidStop
<1>2. ASSUME NEW h \in session.headers,
             MidPrepare(h) \/ MidUnprepare(h) \/ AddBuffer(h)
      PROVE  TypeInv'
  <2>1. CASE MidPrepare(h)
    BY <1>0, <2>1 DEF MidPrepare
  <2>2. CASE MidUnprepare(h)
    BY <1>0, <2>2 DEF MidUnprepare
  <2>3. CASE AddBuffer(h)
    BY <1>0, <2>3 DEF AddBuffer, Goes
  <2>4. QED
    BY <1>2, <2>1, <2>2, <2>3
<1>3. CASE ResetBegins
  BY <1>0, <1>3 DEF ResetBegins, Goes
<1>4. CASE AddLocks
  <2>1. lpMidiHdr \in Headers /\ pc["app"] = "add"
    BY <1>4 DEF AddLocks, Goes
  <2>2. inQueue' \subseteq Headers
    BY <1>4, <2>1 DEF AddLocks
  <2>3. content' \in [Headers -> Interval \union {Nothing}]
    BY <1>4, <2>1 DEF AddLocks
  <2>4. /\ lpNext' \in [Headers -> Headers \union {NoHeader}]
        /\ pHdr' \in [Threads -> Headers \union {NoHeader}]
        /\ pc' \in [Threads -> {"idle", "add", "walk", "reset", "append",
                                "check", "enter", "copy"}]
    BY <1>0, <1>4, <2>1 DEF AddLocks, Goes
  <2>5. midiInLock' \in Threads \union {Nobody}
    BY <1>0, <1>4 DEF AddLocks
  <2>6. QED
    BY <1>4, <2>1, <2>2, <2>3, <2>4, <2>5 DEF AddLocks
<1>5. CASE AddWalks
  BY <1>0, <1>5 DEF AddWalks
<1>6. CASE AddLinks
  <2>1. /\ lpQueueHdr' \in Headers \union {NoHeader}
        /\ lpNext' \in [Headers -> Headers \union {NoHeader}]
    BY <1>6 DEF AddLinks
  <2>2. /\ pc' \in [Threads -> {"idle", "add", "walk", "reset", "append",
                                "check", "enter", "copy"}]
        /\ pc'["app"] = "check"
    BY <1>0, <1>6 DEF AddLinks, Goes
  <2>3. QED
    BY <1>6, <2>1, <2>2 DEF AddLinks
<1>7. CASE ResetReturns \/ ResetEnds
  BY <1>0, <1>7 DEF ResetReturns, ResetEnds, Callback, Goes
<1>8. CASE SendShort \/ SendDump
  BY <1>0, <1>8 DEF SendShort, SendDump, Callback, Goes
<1>9. ASSUME NEW length \in DumpLengths, AppendDump(length)
      PROVE  TypeInv'
  <2>1. /\ sentBytes' \in 0 .. MaxBytes
        /\ [first |-> sentBytes + 1, last |-> sentBytes'] \in Interval
    BY <1>0, <1>9 DEF AppendDump, Interval
  <2>2. pPendingData' \in Seq(Interval)
    BY <1>9, <2>1 DEF AppendDump
  <2>3. /\ pc' \in [Threads -> {"idle", "add", "walk", "reset", "append",
                                "check", "enter", "copy"}]
        /\ pc'["app"] = pc["app"]
    BY <1>0, <1>9 DEF AppendDump, Goes
  <2>4. QED
    BY <1>9, <2>1, <2>2, <2>3 DEF AppendDump
<1>10. ASSUME NEW t \in Threads, CheckPending(t)
       PROVE  TypeInv'
  BY <1>10 DEF CheckPending, Goes
<1>11. ASSUME NEW t \in Threads, EnterPending(t)
       PROVE  TypeInv'
  BY <1>11 DEF EnterPending, Goes
<1>12. ASSUME NEW t \in Threads, CopyPending(t)
       PROVE  TypeInv'
  <2>1. pHdr[t] \in Headers /\ pPendingData # <<>>
    BY <1>12 DEF CopyPending
  <2>2. Part(pHdr[t]) \in Interval /\ Remaining(pHdr[t]) \in Seq(Interval)
    BY <2>1, PartType, RemainingType
  <2>3. /\ content' \in [Headers -> Interval \union {Nothing}]
        /\ received' \in Seq(Interval) /\ pPendingData' \in Seq(Interval)
    BY <1>12, <2>1, <2>2 DEF CopyPending
  <2>4. pHdr' \in [Threads -> Headers \union {NoHeader}]
    BY <1>12, <2>1 DEF CopyPending
  <2>5. QED
    BY <1>12, <2>3, <2>4 DEF CopyPending, Callback
<1>13. ASSUME NEW t \in Threads, LeavePending(t)
       PROVE  TypeInv'
  BY <1>13 DEF LeavePending, Goes
<1>14. CASE UNCHANGED vars
  BY <1>14 DEF vars
<1>15. QED
  BY <1>0, <1>1, <1>2, <1>3, <1>4, <1>5, <1>6, <1>7, <1>8, <1>9, <1>10, <1>11,
     <1>12, <1>13, <1>14
     DEF Next, App, AppCall, RenderCall, ProcessPending

\* midiInLock keeps the two threads apart, in every step of either.
LEMMA LockInvInductive == TypeInv /\ LockInv /\ [Next]_vars => LockInv'
<1> SUFFICES ASSUME TypeInv, LockInv, [Next]_vars
             PROVE  LockInv'
  OBVIOUS
<1>0. /\ pc \in [Threads -> {"idle", "add", "walk", "reset", "append", "check",
                             "enter", "copy"}]
      /\ "app" \in Threads /\ "render" \in Threads
      /\ Nobody \notin Threads
  BY DEF TypeInv, TypeOK, Threads, Nobody
<1> USE DEF LockInv, sourceVars, listVars, flagVars, dataVars, threadVars
<1>1. CASE MidOpen \/ MidClose \/ MidStart \/ MidStop
  BY <1>1 DEF MidOpen, MidClose, MidStart, MidStop
<1>2. ASSUME NEW h \in session.headers,
             MidPrepare(h) \/ MidUnprepare(h) \/ AddBuffer(h)
      PROVE  LockInv'
  BY <1>0, <1>2 DEF MidPrepare, MidUnprepare, AddBuffer, Goes
<1>3. CASE ResetBegins
  BY <1>0, <1>3 DEF ResetBegins, Goes
<1>4. CASE AddLocks
  BY <1>0, <1>4 DEF AddLocks, Goes
<1>5. CASE AddWalks
  BY <1>0, <1>5 DEF AddWalks
<1>6. CASE AddLinks
  BY <1>0, <1>6 DEF AddLinks, Goes
<1>7. CASE ResetReturns \/ ResetEnds
  BY <1>0, <1>7 DEF ResetReturns, ResetEnds, Goes
<1>8. CASE SendShort \/ SendDump
  BY <1>0, <1>8 DEF SendShort, SendDump, Goes
<1>9. ASSUME NEW length \in DumpLengths, AppendDump(length)
      PROVE  LockInv'
  BY <1>0, <1>9 DEF AppendDump, Goes
<1>10. ASSUME NEW t \in Threads, ProcessPending(t)
       PROVE  LockInv'
  BY <1>0, <1>10
     DEF ProcessPending, CheckPending, EnterPending, CopyPending, LeavePending,
         Goes
<1>11. CASE UNCHANGED vars
  BY <1>11 DEF vars
<1>12. QED
  BY <1>0, <1>1, <1>2, <1>3, <1>4, <1>5, <1>6, <1>7, <1>8, <1>9, <1>10, <1>11
     DEF Next, App, AppCall, RenderCall

\* A buffer takes the bytes that follow those received; those that follow them
\* are still pending.
LEMMA CopyKeepsOrder ==
    ASSUME TypeInv, NEW t \in Threads, CopyPending(t), DumpsInv
    PROVE  DumpsInv'
<1> DEFINE h == pHdr[t]
           dump == Head(pPendingData)
<1>0. /\ h \in Headers /\ pPendingData # <<>>
      /\ received \in Seq(Interval) /\ pPendingData \in Seq(Interval)
      /\ sentBytes \in Nat /\ MaxBytes \in Nat
      /\ received' = Append(received, Part(h))
      /\ pPendingData' = Remaining(h) /\ sentBytes' = sentBytes
  BY MidiInAssumption DEF CopyPending, TypeInv, TypeOK
<1>1. PICK bytes \in 0 .. MaxBytes :
         Chain(received, 0, bytes) /\ Chain(pPendingData, bytes, sentBytes)
  BY DEF DumpsInv
<1>2. /\ dump.first = bytes + 1
      /\ Chain(Tail(pPendingData), dump.last, sentBytes)
  BY <1>0, <1>1, ChainTail
<1>3. /\ dump \in Interval /\ Part(h) \in Interval
      /\ Part(h).first = dump.first
      /\ BufferLength[h] >= Length(dump) => Part(h) = dump
  BY <1>0, PartType
<1>4. Part(h).last \in 0 .. MaxBytes
  BY <1>0, <1>3 DEF Interval
<1>5. Chain(received', 0, Part(h).last)
  BY <1>0, <1>1, <1>2, <1>3, ChainAppend
<1>6. Chain(pPendingData', Part(h).last, sentBytes)
  <2>0. BufferLength[h] \in Nat /\ Length(dump) \in Int
    <3>1. dump.first \in 1 .. MaxBytes /\ dump.last \in 1 .. MaxBytes
      BY <1>3 DEF Interval
    <3>2. QED
      BY <1>0, <3>1, MidiInAssumption DEF Length
  <2>1. CASE BufferLength[h] >= Length(dump)
    BY <1>0, <1>2, <1>3, <2>1, RemainingType
  <2>2. CASE BufferLength[h] < Length(dump)
    <3>1. /\ Remaining(h) \in Seq(Interval)
          /\ Len(Remaining(h)) = Len(pPendingData)
          /\ Remaining(h)[1].first = Part(h).last + 1
          /\ Remaining(h)[1].last = dump.last
          /\ \A i \in 2 .. Len(pPendingData) :
                Remaining(h)[i] = pPendingData[i]
      BY <1>0, <2>2, RemainingType
    <3>2. /\ Len(pPendingData) \in Nat \ {0} /\ dump = pPendingData[1]
          /\ Remaining(h) # <<>>
      BY <1>0, <3>1
    <3>3. ASSUME NEW i \in 1 .. Len(Remaining(h))
          PROVE  Remaining(h)[i].first =
                    (IF i = 1 THEN Part(h).last
                              ELSE Remaining(h)[i - 1].last) + 1
      <4>1. CASE i = 1
        BY <3>1, <4>1
      <4>2. CASE i # 1
        <5>1. /\ i \in 2 .. Len(pPendingData) /\ i - 1 \in 1 .. Len(pPendingData)
              /\ i \in 1 .. Len(pPendingData)
          BY <3>1, <3>2, <4>2
        <5>2. pPendingData[i].first = pPendingData[i - 1].last + 1
          BY <1>1, <4>2, <5>1 DEF Chain
        <5>3. Remaining(h)[i - 1].last = pPendingData[i - 1].last
          BY <3>1, <3>2, <5>1
        <5>4. QED
          BY <3>1, <4>2, <5>1, <5>2, <5>3
      <4>3. QED
        BY <4>1, <4>2
    <3>4. sentBytes = Remaining(h)[Len(Remaining(h))].last
      BY <1>0, <1>1, <3>1, <3>2 DEF Chain
    <3>5. QED
      BY <1>0, <3>2, <3>3, <3>4 DEF Chain
  <2>3. QED
    BY <2>0, <2>1, <2>2
<1>7. QED
  BY <1>0, <1>4, <1>5, <1>6 DEF DumpsInv

\* ProcessPending() takes bytes from the first dump only, in order.
LEMMA DumpsInvInductive == TypeInv /\ DumpsInv /\ [Next]_vars => DumpsInv'
<1> SUFFICES ASSUME TypeInv, DumpsInv, [Next]_vars
             PROVE  DumpsInv'
  OBVIOUS
<1>1. CASE UNCHANGED <<received, pPendingData, sentBytes>>
  BY <1>1 DEF DumpsInv
<1>2. ASSUME NEW length \in DumpLengths, AppendDump(length)
      PROVE  DumpsInv'
  <2>0. /\ sentBytes \in 0 .. MaxBytes /\ MaxBytes \in Nat /\ length \in Nat \ {0}
        /\ session.bytes \in 0 .. MaxBytes /\ sentBytes' = sentBytes + length
        /\ sentBytes' <= session.bytes
        /\ pPendingData \in Seq(Interval) /\ received' = received
        /\ pPendingData' = Append(pPendingData,
                                  [first |-> sentBytes + 1, last |-> sentBytes'])
    BY <1>2, MidiInAssumption, SessionTypes
       DEF AppendDump, TypeInv, TypeOK, dataVars
  <2>1. [first |-> sentBytes + 1, last |-> sentBytes'] \in Interval
    BY <2>0 DEF Interval
  <2>2. PICK bytes \in 0 .. MaxBytes :
           Chain(received, 0, bytes) /\ Chain(pPendingData, bytes, sentBytes)
    BY DEF DumpsInv
  <2>3. Chain(pPendingData', bytes, sentBytes')
    BY <2>0, <2>1, <2>2, ChainAppend
  <2>4. QED
    BY <2>0, <2>2, <2>3 DEF DumpsInv
<1>3. ASSUME NEW t \in Threads, CopyPending(t)
      PROVE  DumpsInv'
  BY <1>3, CopyKeepsOrder
<1>4. QED
  BY <1>1, <1>2, <1>3
     DEF Next, App, AppCall, RenderCall, ProcessPending, MidOpen, MidClose,
         MidStart, MidStop, MidPrepare, MidUnprepare, AddBuffer, ResetBegins,
         AddLocks, AddWalks, AddLinks, ResetReturns, ResetEnds, SendShort,
         SendDump, CheckPending, EnterPending, LeavePending, Threads, vars,
         dataVars

-----------------------------------------------------------------------------
(* The list, and the dumps that wait *)

\* Relinking a header outside the list changes no walk through the list.
LEMMA ListUnlinked ==
    ASSUME TypeInv, CopyInv, NEW g \in Headers \ List,
           lpNext' = [lpNext EXCEPT ![g] = NoHeader], lpQueueHdr' = lpQueueHdr
    PROVE  /\ List' = List
           /\ \A t \in Threads :
                 pc[t] = "copy" =>
                    ReachableFrom(lpNext', pHdr[t]) =
                       ReachableFrom(lpNext, pHdr[t])
<1>1. /\ lpNext \in [Headers -> Headers \union {NoHeader}]
      /\ lpQueueHdr \in Headers \union {NoHeader}
  BY DEF TypeInv, TypeOK
<1>2. List' = List
  BY <1>1, ReachUnlinked DEF List
<1>3. ASSUME NEW t \in Threads, pc[t] = "copy"
      PROVE  ReachableFrom(lpNext', pHdr[t]) = ReachableFrom(lpNext, pHdr[t])
  <2>1. CASE pHdr[t] \in List
    <3>1. ReachableFrom(lpNext, pHdr[t]) \subseteq List
      BY <1>1, <2>1, ReachTransitive DEF List
    <3>2. pHdr[t] \in Headers
      BY <2>1 DEF List, ReachableFrom
    <3>3. g \in Headers \ ReachableFrom(lpNext, pHdr[t])
      BY <3>1
    <3>4. QED
      BY <1>1, <3>2, <3>3, ReachUnlinked
  <2>2. CASE pHdr[t] = NoHeader
    BY <2>2, ReachNone
  <2>3. QED
    BY <1>3, <2>1, <2>2 DEF CopyInv
<1>4. QED
  BY <1>2, <1>3

\* Linking a header behind the last one adds it to the list.
LEMMA ListLinked ==
    ASSUME TypeInv, NEW g \in List, NEW v \in Headers \ List,
           lpNext[g] = NoHeader, lpNext[v] = NoHeader,
           lpNext' = [lpNext EXCEPT ![g] = v], lpQueueHdr' = lpQueueHdr
    PROVE  List' = List \union {v}
<1>0. /\ lpNext \in [Headers -> Headers \union {NoHeader}]
      /\ lpQueueHdr \in Headers \union {NoHeader}
      /\ g \in Headers /\ g # v /\ v # NoHeader
  BY MidiInAssumption DEF TypeInv, TypeOK, List, ReachableFrom
<1>1. /\ lpNext' \in [Headers -> Headers \union {NoHeader}]
      /\ lpNext'[g] = v /\ \A f \in Headers \ {g} : lpNext'[f] = lpNext[f]
  BY <1>0
<1>2. /\ List = ReachableFrom(lpNext, lpQueueHdr)
      /\ List' = ReachableFrom(lpNext', lpQueueHdr)
      /\ List \in SUBSET Headers /\ List' \in SUBSET Headers
      /\ List \union {v} \in SUBSET Headers
  BY DEF List, ReachableFrom
<1>3. /\ IsClosed(List, lpNext, lpQueueHdr)
      /\ IsClosed(List', lpNext', lpQueueHdr)
  BY <1>0, <1>1, <1>2, ReachClosed
<1>4. IsClosed(List \union {v}, lpNext', lpQueueHdr)
  BY <1>0, <1>1, <1>3 DEF IsClosed
<1>5. List' \subseteq List \union {v}
  BY <1>2, <1>4, ReachLeast
<1>6. IsClosed(List', lpNext, lpQueueHdr)
  BY <1>0, <1>1, <1>3 DEF IsClosed
<1>7. List \subseteq List'
  BY <1>2, <1>6, ReachLeast
<1>8. v \in List'
  <2>1. g \in List'
    BY <1>7
  <2>2. QED
    BY <1>0, <1>1, <1>3, <2>1 DEF IsClosed
<1>9. QED
  BY <1>5, <1>7, <1>8

\* While midAddBuffer() walks to the end of the list of buffers and
\* ProcessPending() takes buffers from its head, no buffer drops out of it.
LEMMA ListInvInductive ==
    ASSUME TypeInv, LockInv, ListInv, WaitInv, ~MayRecycle, ~stopped',
           [Next]_vars
    PROVE  ListInv'
<1>0. /\ pc \in [Threads -> {"idle", "add", "walk", "reset", "append", "check",
                             "enter", "copy"}]
      /\ pHdr \in [Threads -> Headers \union {NoHeader}]
      /\ lpNext \in [Headers -> Headers \union {NoHeader}]
      /\ lpQueueHdr \in Headers \union {NoHeader}
      /\ content \in [Headers -> Interval \union {Nothing}]
      /\ inQueue \subseteq Headers
      /\ pc["app"] \in {"add", "walk"} => lpMidiHdr \in Headers
      /\ session.headers \subseteq Headers /\ NoHeader \notin Headers
      /\ List \subseteq Headers
  BY MidiInAssumption, SessionTypes DEF TypeInv, TypeOK, List, ReachableFrom
<1>t. /\ Threads = {"app", "render"} /\ Nobody \notin Threads
  BY DEF Threads, Nobody
<1>l. IsClosed(List, lpNext, lpQueueHdr)
  BY <1>0, ReachClosed DEF List
<1>same. UNCHANGED <<lpNext, lpQueueHdr>> => List' = List
  BY DEF List
<1>1. CASE MidOpen
  <2>1. UNCHANGED <<listVars, flagVars, content, threadVars>>
    BY <1>1 DEF MidOpen, WaitInv, listVars, dataVars
  <2>2. QED
    BY <2>1, <1>same DEF ListInv, AddInv, WalkInv, ListedInv, QueuedInv,
       CopyInv, listVars, flagVars, threadVars
<1>2. CASE MidClose \/ MidStop
  BY <1>2 DEF MidClose, MidStop
<1>3. CASE MidStart \/ SendShort \/ UNCHANGED vars
  <2>1. UNCHANGED <<listVars, flagVars, content, threadVars>>
    BY <1>3 DEF MidStart, SendShort, vars, dataVars
  <2>2. QED
    BY <2>1, <1>same DEF ListInv, AddInv, WalkInv, ListedInv, QueuedInv,
       CopyInv, listVars, flagVars, threadVars
<1>4. ASSUME NEW h \in session.headers, MidPrepare(h)
      PROVE  ListInv'
  <2>1. /\ pc["app"] = "idle" /\ h \in Headers /\ h \notin inQueue
        /\ content[h] = Nothing
        /\ UNCHANGED <<content, threadVars, lpQueueHdr>> /\ inQueue' = inQueue
        /\ prepared' = prepared \union {h}
        /\ lpNext' = [lpNext EXCEPT ![h] = NoHeader]
    BY <1>0, <1>4 DEF MidPrepare, Idle, MayUse, ListInv, dataVars
  <2>2. h \in Headers \ List
    BY <2>1 DEF ListInv, ListedInv
  <2>3. /\ List' = List
        /\ \A t \in Threads :
              pc[t] = "copy" => ReachableFrom(lpNext', pHdr[t]) =
                                   ReachableFrom(lpNext, pHdr[t])
    BY <2>1, <2>2, ListUnlinked DEF ListInv
  <2>4. QED
    BY <2>1, <2>3 DEF ListInv, AddInv, WalkInv, ListedInv, QueuedInv, CopyInv,
       threadVars
<1>5. ASSUME NEW h \in session.headers, MidUnprepare(h)
      PROVE  ListInv'
  <2>1. /\ pc["app"] = "idle" /\ h \notin inQueue
        /\ UNCHANGED <<listVars, inQueue, content, threadVars>>
        /\ prepared' = prepared \ {h}
    BY <1>5 DEF MidUnprepare, Idle, dataVars
  <2>2. QED
    BY <2>1, <1>same DEF ListInv, AddInv, WalkInv, ListedInv, QueuedInv,
       CopyInv, listVars, threadVars
<1>6. ASSUME NEW h \in session.headers, AddBuffer(h)
      PROVE  ListInv'
  <2>1. /\ pc["app"] = "idle" /\ h \in prepared \ inQueue /\ content[h] = Nothing
        /\ pc' = [pc EXCEPT !["app"] = "add"] /\ lpMidiHdr' = h
        /\ UNCHANGED <<listVars, flagVars, content, pHdr>>
    BY <1>6 DEF AddBuffer, MayUse, Goes, dataVars
  <2>2. /\ pc'["app"] = "add"
        /\ \A t \in Threads : pc'[t] = "copy" => pc[t] = "copy"
    BY <1>0, <1>t, <2>1
  <2>3. QED
    BY <2>1, <2>2, <1>same DEF ListInv, AddInv, WalkInv, ListedInv, QueuedInv,
       CopyInv, listVars, flagVars
<1>7. CASE ResetBegins
  <2>1. /\ pc["app"] = "idle" /\ pc' = [pc EXCEPT !["app"] = "reset"]
        /\ UNCHANGED <<listVars, flagVars, content, pHdr>>
    BY <1>7 DEF ResetBegins, Goes, dataVars
  <2>2. /\ pc'["app"] = "reset"
        /\ \A t \in Threads : pc'[t] = "copy" => pc[t] = "copy"
    BY <1>0, <1>t, <2>1
  <2>3. QED
    BY <2>1, <2>2, <1>same DEF ListInv, AddInv, WalkInv, ListedInv, QueuedInv,
       CopyInv, listVars, flagVars
<1>8. CASE AddLocks
  <2>1. /\ pc["app"] = "add" /\ pc' = [pc EXCEPT !["app"] = "walk"]
        /\ midiInLock = Nobody
        /\ lpMidiHdr \in prepared \ inQueue /\ content[lpMidiHdr] = Nothing
        /\ lpMidiHdr \in Headers
        /\ UNCHANGED <<lpQueueHdr, prepared, lpMidiHdr>>
        /\ inQueue' = inQueue \union {lpMidiHdr}
        /\ content' = [content EXCEPT ![lpMidiHdr] = Nothing]
        /\ lpNext' = [lpNext EXCEPT ![lpMidiHdr] = NoHeader]
        /\ pHdr' = [pHdr EXCEPT !["app"] = lpQueueHdr]
    BY <1>0, <1>8 DEF AddLocks, Goes, ListInv, AddInv
  <2>2. /\ pc'["app"] = "walk" /\ pHdr'["app"] = lpQueueHdr
        /\ \A t \in Threads : pc'[t] # "copy"
        /\ content' = content /\ lpNext'[lpMidiHdr] = NoHeader
    BY <1>0, <1>t, <2>1 DEF LockInv
  <2>3. lpMidiHdr \in Headers \ List
    BY <2>1 DEF ListInv, ListedInv
  <2>4. List' = List
    BY <2>1, <2>3, ListUnlinked DEF ListInv
  <2>5. pHdr'["app"] # NoHeader => pHdr'["app"] \in List
    BY <1>l, <2>2 DEF IsClosed
  <2>6. /\ inQueue' \subseteq prepared' /\ AddInv' /\ CopyInv'
    BY <2>1, <2>2 DEF ListInv, AddInv, CopyInv
  <2>7. WalkInv'
    BY <2>1, <2>2, <2>3, <2>4, <2>5 DEF WalkInv
  <2>8. ListedInv' /\ QueuedInv'
    BY <2>1, <2>2, <2>4 DEF ListInv, ListedInv, QueuedInv
  <2>9. QED
    BY <2>6, <2>7, <2>8 DEF ListInv
<1>9. CASE AddWalks
  <2>1. /\ pc["app"] = "walk" /\ pHdr["app"] # NoHeader
        /\ lpNext[pHdr["app"]] # NoHeader
        /\ pHdr' = [pHdr EXCEPT !["app"] = lpNext[pHdr["app"]]]
        /\ UNCHANGED <<listVars, flagVars, content, pc, lpMidiHdr>>
    BY <1>9 DEF AddWalks, dataVars
  <2>2. /\ pHdr'["app"] = lpNext[pHdr["app"]]
        /\ \A t \in Threads : pc[t] # "copy"
    BY <1>0, <1>t, <2>1 DEF LockInv
  <2>3. pHdr'["app"] \in List
    BY <1>l, <2>1, <2>2 DEF IsClosed, ListInv, WalkInv
  <2>4. QED
    BY <1>0, <2>1, <2>2, <2>3, <1>same DEF ListInv, AddInv, WalkInv, ListedInv,
       QueuedInv, CopyInv, listVars, flagVars
<1>10. CASE AddLinks
  <2>1. /\ pc["app"] = "walk" /\ pc' = [pc EXCEPT !["app"] = "check"]
        /\ lpMidiHdr \in inQueue \ List /\ lpNext[lpMidiHdr] = NoHeader
        /\ lpMidiHdr \in Headers
        /\ UNCHANGED <<flagVars, content, pHdr, lpMidiHdr>>
    BY <1>0, <1>10 DEF AddLinks, Goes, dataVars, ListInv, WalkInv
  <2>2. /\ pc'["app"] = "check"
        /\ \A t \in Threads : pc'[t] # "copy"
    BY <1>0, <1>t, <2>1 DEF LockInv
  <2>3. List' = List \union {lpMidiHdr}
    <3>1. CASE pHdr["app"] = NoHeader
      <4>1. lpQueueHdr = NoHeader /\ lpQueueHdr' = lpMidiHdr /\ lpNext' = lpNext
        BY <1>10, <2>1, <3>1 DEF AddLinks, ListInv, WalkInv
      <4>2. List = {}
        BY <4>1, ReachNone DEF List
      <4>3. List' = ReachableFrom(lpNext, lpMidiHdr)
        BY <4>1 DEF List
      <4>4. IsClosed({lpMidiHdr}, lpNext, lpMidiHdr)
        BY <2>1 DEF IsClosed
      <4>5. List' \subseteq {lpMidiHdr}
        BY <2>1, <4>3, <4>4, ReachLeast
      <4>6. IsClosed(List', lpNext, lpMidiHdr)
        BY <1>0, <2>1, <4>3, ReachClosed
      <4>7. lpMidiHdr \in List'
        BY <1>0, <2>1, <4>6 DEF IsClosed
      <4>8. QED
        BY <4>2, <4>5, <4>7
    <3>2. CASE pHdr["app"] # NoHeader
      <4>1. /\ pHdr["app"] \in List /\ lpNext[pHdr["app"]] = NoHeader
            /\ lpNext' = [lpNext EXCEPT ![pHdr["app"]] = lpMidiHdr]
            /\ lpQueueHdr' = lpQueueHdr
        BY <1>10, <2>1, <3>2 DEF AddLinks, ListInv, WalkInv
      <4>2. QED
        BY <2>1, <4>1, ListLinked
    <3>3. QED
      BY <3>1, <3>2
  <2>4. QED
    BY <2>1, <2>2, <2>3 DEF ListInv, AddInv, WalkInv, ListedInv, QueuedInv,
       CopyInv, flagVars
<1>11. CASE ResetReturns
  <2>1. /\ pc["app"] = "reset" /\ lpQueueHdr # NoHeader
        /\ lpQueueHdr' = lpNext[lpQueueHdr] /\ inQueue' = inQueue \ {lpQueueHdr}
        /\ UNCHANGED <<lpNext, prepared, content, pc, pHdr, lpMidiHdr>>
    BY <1>11 DEF ResetReturns, dataVars, threadVars
  <2>2. \A t \in Threads : pc[t] # "copy"
    BY <1>0, <1>t, <2>1 DEF LockInv
  <2>3. List \subseteq {lpQueueHdr} \union List'
    BY <1>0, <2>1, ReachNext DEF List
  <2>4. QED
    BY <2>1, <2>2, <2>3 DEF ListInv, AddInv, WalkInv, ListedInv, QueuedInv,
       CopyInv
<1>12. CASE ResetEnds
  <2>1. /\ pc["app"] = "reset" /\ pc' = [pc EXCEPT !["app"] = "idle"]
        /\ lpQueueHdr = NoHeader
        /\ UNCHANGED <<listVars, flagVars, content, pHdr, lpMidiHdr>>
    BY <1>12 DEF ResetEnds, Goes, dataVars
  <2>2. /\ pc'["app"] = "idle"
        /\ \A t \in Threads : pc'[t] = "copy" => pc[t] = "copy"
    BY <1>0, <1>t, <2>1
  <2>3. List = {}
    BY <2>1, ReachNone DEF List
  <2>4. QED
    BY <2>1, <2>2, <2>3, <1>same DEF ListInv, AddInv, WalkInv, ListedInv,
       QueuedInv, CopyInv, listVars, flagVars
<1>13. ASSUME UNCHANGED <<listVars, flagVars, content, pHdr, lpMidiHdr>>,
              NEW t \in Threads, NEW to \in {"append", "check", "enter", "idle"},
              pc[t] \in {"idle", "append", "check", "copy"},
              t = "app" => pc[t] # "idle",
              pc' = [pc EXCEPT ![t] = to]
       PROVE  ListInv'
  <2>1. /\ pc["app"] = "reset" => pc'["app"] = "reset"
        /\ pc'["app"] \in {"add", "walk", "reset"} => pc'["app"] = pc["app"]
        /\ pc["app"] \in {"add", "walk", "reset"} => pc'["app"] = pc["app"]
        /\ \A s \in Threads : pc'[s] = "copy" => pc[s] = "copy"
    BY <1>0, <1>t, <1>13
  <2>2. UNCHANGED <<lpNext, lpQueueHdr, prepared, inQueue>>
    BY <1>13 DEF listVars, flagVars
  <2>3. List' = List
    BY <2>2, <1>same
  <2>4. AddInv' /\ inQueue' \subseteq prepared'
    BY <1>13, <2>1, <2>2 DEF ListInv, AddInv
  <2>5. WalkInv' /\ QueuedInv'
    BY <1>13, <2>1, <2>2, <2>3 DEF ListInv, WalkInv, QueuedInv
  <2>6. ListedInv' /\ CopyInv'
    BY <1>13, <2>1, <2>2, <2>3 DEF ListInv, ListedInv, CopyInv
  <2>7. QED
    BY <2>4, <2>5, <2>6 DEF ListInv
<1>14. CASE SendDump
  BY <1>t, <1>13, <1>14 DEF SendDump, Goes, dataVars
<1>15. ASSUME NEW length \in DumpLengths, AppendDump(length)
       PROVE  ListInv'
  BY <1>t, <1>13, <1>15 DEF AppendDump, Goes
<1>16. ASSUME NEW t \in Threads, CheckPending(t)
       PROVE  ListInv'
  BY <1>13, <1>16 DEF CheckPending, Goes, dataVars
<1>17. ASSUME NEW t \in Threads, LeavePending(t)
       PROVE  ListInv'
  BY <1>13, <1>17 DEF LeavePending, Goes, dataVars
<1>18. ASSUME NEW t \in Threads, EnterPending(t)
       PROVE  ListInv'
  <2>1. /\ midiInLock = Nobody /\ pc[t] = "enter"
        /\ pc' = [pc EXCEPT ![t] = "copy"]
        /\ pHdr' = [pHdr EXCEPT ![t] = lpQueueHdr]
        /\ UNCHANGED <<listVars, flagVars, content, lpMidiHdr>>
    BY <1>18 DEF EnterPending, Goes, dataVars
  <2>2. /\ pc["app"] \notin {"walk", "reset"} /\ \A s \in Threads : pc[s] # "copy"
        /\ pc'["app"] \notin {"walk", "reset"}
        /\ pc'["app"] = "add" => pc["app"] = "add"
        /\ \A s \in Threads : pc'[s] = "copy" => s = t
        /\ pHdr'[t] = lpQueueHdr
    BY <1>0, <1>t, <2>1 DEF LockInv
  <2>3. List' = List /\ UNCHANGED <<lpNext, lpQueueHdr, prepared, inQueue>>
    BY <2>1, <1>same DEF listVars, flagVars
  <2>4. inQueue \subseteq List
    BY <2>2 DEF ListInv, QueuedInv
  <2>5. CopyInv'
    <3>1. lpQueueHdr \in List \union {NoHeader}
      BY <1>l DEF IsClosed
    <3>2. inQueue' \subseteq ReachableFrom(lpNext', pHdr'[t])
      BY <2>2, <2>3, <2>4 DEF List
    <3>3. pHdr'[t] \in List' \union {NoHeader}
      BY <2>2, <2>3, <3>1
    <3>4. QED
      BY <2>2, <3>2, <3>3 DEF CopyInv
  <2>6. QED
    BY <2>1, <2>2, <2>3, <2>5 DEF ListInv, AddInv, WalkInv, ListedInv, QueuedInv
<1>19. ASSUME NEW t \in Threads, CopyPending(t)
       PROVE  ListInv'
  <2> DEFINE h == pHdr[t]
  <2>1. /\ pc[t] = "copy" /\ h \in Headers /\ pPendingData # <<>>
        /\ content' = [content EXCEPT ![h] = Part(h)]
        /\ inQueue' = inQueue \ {h} /\ pHdr' = [pHdr EXCEPT ![t] = lpNext[h]]
        /\ UNCHANGED <<lpNext, lpQueueHdr, prepared, pc, lpMidiHdr>>
    BY <1>0, <1>19 DEF CopyPending, listVars
  <2>2. /\ pc["app"] \notin {"walk", "reset"}
        /\ \A s \in Threads : pc[s] = "copy" => s = t
        /\ pHdr'[t] = lpNext[h]
        /\ content'[h] = Part(h)
        /\ \A g \in Headers \ {h} : content'[g] = content[g]
    BY <1>0, <1>t, <2>1 DEF LockInv
  <2>3. Part(h) # Nothing
    <3>1. Part(h) \in Interval
      BY <2>1, PartType DEF TypeInv, TypeOK
    <3>2. Part(h).first \in 1 .. MaxBytes /\ Part(h).last \in 1 .. MaxBytes
      BY <3>1 DEF Interval
    <3>3. QED
      BY <3>2, MidiInAssumption DEF Nothing
  <2>4. List' = List
    BY <2>1, <1>same
  <2>5. h \in List /\ inQueue \subseteq ReachableFrom(lpNext, h)
    BY <1>0, <2>1 DEF ListInv, CopyInv
  <2>6. CopyInv'
    <3>1. lpNext[h] \in List \union {NoHeader}
      BY <1>l, <2>5 DEF IsClosed
    <3>2. inQueue' \subseteq ReachableFrom(lpNext, lpNext[h])
      BY <1>0, <2>1, <2>5, ReachNext
    <3>3. QED
      BY <2>1, <2>2, <2>4, <3>1, <3>2 DEF CopyInv
  <2>7. AddInv'
    <3>1. pc["app"] = "add" => lpMidiHdr \notin List
      BY <2>1 DEF ListInv, AddInv, ListedInv
    <3>2. QED
      BY <1>0, <2>1, <2>2, <2>5, <3>1 DEF ListInv, AddInv
  <2>8. ListedInv'
    BY <1>0, <2>1, <2>2, <2>3, <2>4 DEF ListInv, ListedInv
  <2>9. QED
    BY <2>1, <2>2, <2>4, <2>6, <2>7, <2>8 DEF ListInv, WalkInv, QueuedInv
<1>20. QED
  BY <1>1, <1>2, <1>3, <1>4, <1>5, <1>6, <1>7, <1>8, <1>9, <1>10, <1>11,
     <1>12, <1>14, <1>15, <1>16, <1>17, <1>18, <1>19, <1>t
     DEF Next, App, AppCall, RenderCall, ProcessPending

\* A thread that leaves ProcessPending() leaves no buffer and dump waiting for
\* each other, and the one that adds either looks at both.
LEMMA WaitInvInductive ==
    ASSUME TypeInv, LockInv, ListInv, WaitInv, ~MayRecycle, ~stopped',
           [Next]_vars
    PROVE  WaitInv'
<1>0. /\ pc \in [Threads -> {"idle", "add", "walk", "reset", "append", "check",
                             "enter", "copy"}]
      /\ opened \in BOOLEAN /\ recording \in BOOLEAN
      /\ Threads = {"app", "render"}
  BY DEF TypeInv, TypeOK, Threads
<1> USE DEF WaitInv, sourceVars, listVars, flagVars, dataVars, threadVars
<1>1. CASE MidOpen \/ MidStart \/ SendShort \/ UNCHANGED vars
  BY <1>1 DEF MidOpen, MidStart, SendShort, vars
<1>2. CASE MidClose \/ MidStop
  BY <1>2 DEF MidClose, MidStop
<1>3. ASSUME NEW h \in session.headers,
             MidPrepare(h) \/ MidUnprepare(h)
      PROVE  WaitInv'
  BY <1>3 DEF MidPrepare, MidUnprepare
<1>4. ASSUME NEW h \in session.headers, AddBuffer(h)
      PROVE  WaitInv'
  BY <1>0, <1>4 DEF AddBuffer, Goes
<1>5. CASE ResetBegins
  BY <1>0, <1>5 DEF ResetBegins, Goes
<1>6. CASE AddLocks
  BY <1>0, <1>6 DEF AddLocks, Goes
<1>7. CASE AddWalks
  BY <1>0, <1>7 DEF AddWalks
<1>8. CASE AddLinks
  BY <1>0, <1>8 DEF AddLinks, Goes
<1>9. CASE ResetReturns
  BY <1>0, <1>9 DEF ResetReturns
<1>10. CASE ResetEnds
  <2>1. pc["app"] = "reset" /\ lpQueueHdr = NoHeader
    BY <1>10 DEF ResetEnds, Goes
  <2>2. List = {}
    BY <2>1, ReachNone DEF List
  <2>3. inQueue = {}
    BY <2>1, <2>2 DEF ListInv, QueuedInv
  <2>4. QED
    BY <1>0, <1>10, <2>3 DEF ResetEnds, Goes
<1>11. CASE SendDump
  BY <1>0, <1>11 DEF SendDump, Goes
<1>12. ASSUME NEW length \in DumpLengths, AppendDump(length)
       PROVE  WaitInv'
  BY <1>0, <1>12 DEF AppendDump, Goes
<1>13. ASSUME NEW t \in Threads, CheckPending(t)
       PROVE  WaitInv'
  BY <1>0, <1>13 DEF CheckPending, Goes
<1>14. ASSUME NEW t \in Threads, EnterPending(t)
       PROVE  WaitInv'
  BY <1>0, <1>14 DEF EnterPending, Goes
<1>15. ASSUME NEW t \in Threads, CopyPending(t)
       PROVE  WaitInv'
  <2>1. /\ pc[t] = "copy" /\ pPendingData # <<>>
        /\ UNCHANGED <<opened, recording, lpQueueHdr, pc>>
        /\ inQueue' \subseteq inQueue
    BY <1>15 DEF CopyPending
  <2>2. QED
    BY <1>0, <2>1
<1>16. ASSUME NEW t \in Threads, LeavePending(t)
       PROVE  WaitInv'
  <2>1. /\ pc[t] = "copy" /\ pc' = [pc EXCEPT ![t] = "idle"]
        /\ pHdr[t] = NoHeader \/ pPendingData = <<>>
        /\ UNCHANGED <<opened, recording, lpQueueHdr, inQueue, pPendingData>>
    BY <1>16 DEF LeavePending, Goes
  <2>2. pPendingData = <<>> \/ inQueue = {}
    BY <2>1, ReachNone DEF ListInv, CopyInv
  <2>3. QED
    BY <1>0, <2>1, <2>2
<1>17. QED
  BY <1>0, <1>1, <1>2, <1>3, <1>4, <1>5, <1>6, <1>7, <1>8, <1>9, <1>10,
     <1>11, <1>12, <1>13, <1>14, <1>15, <1>16
     DEF Next, App, AppCall, RenderCall, ProcessPending

-----------------------------------------------------------------------------
\* The device is closed and holds nothing.
LEMMA MidiInvInit == Init => MidiInv
<1> SUFFICES ASSUME Init
             PROVE  MidiInv
  OBVIOUS
<1>0. /\ "app" \in Threads /\ "render" \in Threads
      /\ \A t \in Threads : pc[t] = "idle"
  BY DEF Init, Threads
<1>1. TypeInv
  <2>1. sentBytes \in 0 .. MaxBytes
    BY MidiInAssumption DEF Init
  <2>2. received \in Seq(Interval) /\ pPendingData \in Seq(Interval)
    BY DEF Init
  <2>3. /\ lpNext \in [Headers -> Headers \union {NoHeader}]
        /\ content \in [Headers -> Interval \union {Nothing}]
        /\ pHdr \in [Threads -> Headers \union {NoHeader}]
    BY DEF Init
  <2>4. /\ pc \in [Threads -> {"idle", "add", "walk", "reset", "append",
                               "check", "enter", "copy"}]
        /\ midiInLock \in Threads \union {Nobody}
    BY DEF Init
  <2>5. QED
    BY <1>0, <2>1, <2>2, <2>3, <2>4 DEF TypeInv, TypeOK, Init
<1>2. LockInv
  BY <1>0 DEF LockInv
<1>3. DumpsInv
  <2>1. 0 \in 0 .. MaxBytes
    BY MidiInAssumption
  <2>2. Chain(received, 0, 0) /\ Chain(pPendingData, 0, sentBytes)
    BY ChainEmpty DEF Init
  <2>3. QED
    BY <2>1, <2>2 DEF DumpsInv
<1>4. ListInv
  <2>1. List = {}
    BY ReachNone DEF Init, List
  <2>2. QED
    BY <1>0, <2>1
       DEF ListInv, AddInv, WalkInv, ListedInv, QueuedInv, CopyInv, Init
<1>5. WaitInv
  BY <1>0 DEF WaitInv, Init
<1>6. QED
  BY <1>1, <1>2, <1>3, <1>4, <1>5 DEF MidiInv

\* The parts of the invariant that presume an application that has not stopped
\* presume it of the state before as well.
LEMMA MidiInvInductive == MidiInv /\ [Next]_vars => MidiInv'
<1> SUFFICES ASSUME MidiInv, [Next]_vars
             PROVE  MidiInv'
  OBVIOUS
<1>1. TypeInv' /\ LockInv' /\ DumpsInv'
  BY TypeInvInductive, LockInvInductive, DumpsInvInductive DEF MidiInv
<1>2. ASSUME ~stopped', ~MayRecycle
      PROVE  ListInv' /\ WaitInv'
  <2>1. ~stopped
    BY <1>2
       DEF MidiInv, TypeInv, TypeOK, Next, App, AppCall, RenderCall,
           ProcessPending, MidOpen, MidClose, MidStart, MidStop, MidPrepare,
           MidUnprepare, AddBuffer, ResetBegins, AddLocks, AddWalks, AddLinks,
           ResetReturns, ResetEnds, SendShort, SendDump, AppendDump,
           CheckPending, EnterPending, CopyPending, LeavePending, vars,
           sourceVars
  <2>2. QED
    BY <1>2, <2>1, ListInvInductive, WaitInvInductive DEF MidiInv
<1>3. QED
  BY <1>1, <1>2 DEF MidiInv

\* The lock, the list and the dumps are as described in every state, whichever
\* calls of midMessage() and dumps of the rendering thread interleave.
THEOREM MidiInvariant == Spec => []MidiInv
<1>1. QED
  BY MidiInvInit, MidiInvInductive, PTL DEF Spec

\* The application receives every byte of every dump once and in the order in
\* which they were sent, however ProcessPending() splits them over its buffers
\* and whichever of the two threads runs it: for any buffers, dumps and calls.
THEOREM DumpsArriveInOrder == Spec => []DumpsInOrder
<1>1. MidiInv => DumpsInOrder
  BY ChainsInOrder, MidiInAssumption DEF MidiInv, TypeInv, TypeOK
<1>2. QED
  BY <1>1, MidiInvariant, PTL

\* If the application does not use a buffer again that it got back, no dump
\* waits for a buffer while a buffer waits for a dump: of midAddBuffer() and
\* SendMidiData(), the one that finishes last sees what the other has left.
THEOREM NothingWaitsForBuffers ==
    ASSUME ~MayRecycle
    PROVE  Spec => []NothingWaits
<1>1. MidiInv => NothingWaits
  BY DEF MidiInv, WaitInv, NothingWaits, Threads
<1>2. QED
  BY <1>1, MidiInvariant, PTL
=============================================================================
