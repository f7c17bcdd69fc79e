--------------------------- MODULE Fb01VoicesProofs ---------------------------
(***************************************************************************)
(* Proofs about Fb01Voices, for any number of instruments and any notes.   *)
(*                                                                         *)
(* Voices are given out by sums over the instruments (section 1).  After   *)
(* each message the slots are refreshed, whatever the message was; what    *)
(* that does to keys and registers is proved once (section 2).             *)
(***************************************************************************)
EXTENDS Fb01Voices, TLAPS, WellFoundedInduction

-----------------------------------------------------------------------------
(* 1. Sums and least elements *)

\* A set of natural numbers has a least element: the first slot that is free,
\* for ym2151_note_on().
LEMMA LeastNumber ==
    ASSUME NEW S, S \subseteq Nat, S # {}
    PROVE  \E x \in S : \A y \in S : x <= y
<1> DEFINE Less == OpToRel(<, Nat)
<1>1. IsWellFoundedOn(Less, Nat)
  BY NatLessThanWellFounded, Zenon
<1>2. \A x, y \in Nat : x < y => <<x, y>> \in Less
  BY Zenon DEF OpToRel
<1> HIDE DEF Less
<1>3. PICK x \in S : \A y \in S : ~(<<y, x>> \in Less)
  BY <1>1, WFMin
<1>4. \A y \in S : ~(y < x)
  BY <1>2, <1>3
<1>5. QED
  BY <1>4

\* What Min returns for slots.
LEMMA MinProperties ==
    ASSUME NEW S, S \subseteq Nat, S # {}
    PROVE  Min(S) \in S /\ \A y \in S : Min(S) <= y
BY LeastNumber DEF Min

\* A set of numbers with a bound has a greatest element: the slot that was
\* refreshed most often.
LEMMA GreatestNumber ==
    ASSUME NEW S, S \subseteq Nat, S # {},
           NEW bound \in Nat, \A x \in S : x <= bound
    PROVE  \E x \in S : \A y \in S : x >= y
<1> DEFINE Gaps == {bound - x : x \in S}
<1>1. Gaps \subseteq Nat /\ Gaps # {}
  <2>1. \A x \in S : bound - x \in Nat
    <3>1. \A x \in S : x \in Nat /\ x <= bound
      OBVIOUS
    <3>2. QED
      BY <3>1
  <2>2. QED
    BY <2>1
<1>2. PICK gap \in Gaps : \A other \in Gaps : gap <= other
  BY <1>1, LeastNumber, Zenon
<1>3. PICK x \in S : gap = bound - x
  OBVIOUS
<1>4. ASSUME NEW y \in S
      PROVE  x >= y
  <2>1. gap <= bound - y
    BY <1>2
  <2>2. x \in Nat /\ y \in Nat
    OBVIOUS
  <2>3. QED
    BY <2>1, <2>2, <1>3
<1>5. QED
  BY <1>4

\* The loop of allocate_base_voices(), as sums: the numbers of notes of the
\* instruments before the n-th.
IsPrefixSum(f, config) ==
    f = [n \in 0 .. FmSlots |->
            IF n = 0 THEN 0 ELSE f[n - 1] + config[n - 1].note_count]

HasCounts(config) == \A i \in Instruments : config[i].note_count \in Nat

\* The sums of the first n instruments, for every n: what the recursive function
\* in BaseVoice is.
LEMMA PrefixSumsExist ==
    ASSUME NEW config, HasCounts(config)
    PROVE  \E f : IsPrefixSum(f, config)
<1> DEFINE Sums(n, g) ==
              /\ g \in [0 .. n -> Nat]
              /\ g[0] = 0
              /\ \A k \in 1 .. n : g[k] = g[k - 1] + config[k - 1].note_count
           Missing == {n \in 0 .. FmSlots : ~ \E g : Sums(n, g)}
<1>1. FmSlots \in Nat \ {0}
  BY VoicesAssumption
<1>2. \A k \in 1 .. FmSlots : config[k - 1].note_count \in Nat
  BY <1>1 DEF HasCounts, Instruments
<1>3. Missing = {}
  <2>1. SUFFICES ASSUME Missing # {}
                 PROVE  FALSE
    OBVIOUS
  <2>2. Missing \subseteq Nat
    BY <1>1
  <2> HIDE DEF Missing
  <2>3. PICK n \in Missing : \A m \in Missing : n <= m
    BY <2>1, <2>2, LeastNumber, Zenon
  <2> USE DEF Missing
  <2>4. n # 0
    <3>1. Sums(0, [k \in 0 .. 0 |-> 0])
      OBVIOUS
    <3>2. QED
      BY <3>1
  <2>5. n \in 1 .. FmSlots
    BY <2>4, <1>1
  <2>6. PICK g : Sums(n - 1, g)
    <3>1. n - 1 \in 0 .. FmSlots
      BY <2>5, <1>1
    <3>2. n - 1 \notin Missing
      <4> HIDE DEF Missing
      <4>1. QED
        BY <2>3, <2>5, <1>1
    <3>3. QED
      BY <3>1, <3>2
  <2> DEFINE h == [k \in 0 .. n |->
                     IF k = n THEN g[n - 1] + config[n - 1].note_count
                     ELSE g[k]]
  <2>7. Sums(n, h)
    <3>1. g[n - 1] \in Nat /\ config[n - 1].note_count \in Nat
      BY <2>5, <2>6, <1>2, <1>1
    <3>2. h \in [0 .. n -> Nat] /\ h[0] = 0
      BY <3>1, <2>5, <2>6, <1>1
    <3>3. ASSUME NEW k \in 1 .. n
          PROVE  h[k] = h[k - 1] + config[k - 1].note_count
      <4>1. CASE k = n
        BY <4>1, <2>5, <1>1
      <4>2. CASE k # n
        <5>1. k \in 1 .. n - 1 /\ k - 1 \in 0 .. n /\ k - 1 # n
          BY <4>2, <2>5, <1>1
        <5>2. QED
          BY <5>1, <4>2, <2>6
      <4>3. QED
        BY <4>1, <4>2
    <3>4. QED
      BY <3>2, <3>3
  <2>8. QED
    BY <2>7
<1>4. PICK g : Sums(FmSlots, g)
  <2>1. FmSlots \in 0 .. FmSlots /\ FmSlots \notin Missing
    <3> HIDE DEF Missing
    <3>1. QED
      BY <1>1, <1>3
  <2>2. \E g : Sums(FmSlots, g)
    <3> HIDE DEF Sums
    <3>1. QED
      BY <2>1
  <2>3. QED
    BY <2>2
<1>5. IsPrefixSum(g, config)
  <2>1. g \in [0 .. FmSlots -> Nat]
    BY <1>4
  <2>2. ASSUME NEW n \in 0 .. FmSlots
        PROVE  g[n] = IF n = 0 THEN 0
                      ELSE g[n - 1] + config[n - 1].note_count
    BY <1>4, <1>1
  <2>3. QED
    BY <2>1, <2>2 DEF IsPrefixSum
<1>6. QED
  BY <1>5

\* An instrument begins where the one before it ends.
LEMMA BaseVoiceSteps ==
    ASSUME NEW config, HasCounts(config)
    PROVE  /\ BaseVoice(config, 0) = 0
           /\ \A n \in 1 .. FmSlots :
                 BaseVoice(config, n)
                 = BaseVoice(config, n - 1) + config[n - 1].note_count
<1> DEFINE base == CHOOSE f : IsPrefixSum(f, config)
<1>1. FmSlots \in Nat \ {0}
  BY VoicesAssumption
<1>2. IsPrefixSum(base, config)
  BY PrefixSumsExist, Zenon
<1>3. \A n : BaseVoice(config, n) = base[n]
  BY DEF BaseVoice, IsPrefixSum
<1> HIDE DEF base
<1>4. base = [n \in 0 .. FmSlots |->
                IF n = 0 THEN 0 ELSE base[n - 1] + config[n - 1].note_count]
  BY <1>2, Zenon DEF IsPrefixSum
<1>5. base[0] = 0
  BY <1>4, <1>1
<1>6. ASSUME NEW n \in 1 .. FmSlots
      PROVE  base[n] = base[n - 1] + config[n - 1].note_count
  <2>1. n \in 0 .. FmSlots /\ n # 0
    BY <1>1
  <2>2. QED
    BY <2>1, <1>4
<1>7. QED
  BY <1>3, <1>5, <1>6

\* The base voices are numbers.
LEMMA BaseVoiceTypes ==
    ASSUME NEW config, HasCounts(config)
    PROVE  \A n \in 0 .. FmSlots : BaseVoice(config, n) \in Nat
<1> DEFINE Bad == {n \in 0 .. FmSlots : BaseVoice(config, n) \notin Nat}
<1>1. FmSlots \in Nat \ {0}
  BY VoicesAssumption
<1>2. Bad = {}
  <2>1. SUFFICES ASSUME Bad # {}
                 PROVE  FALSE
    OBVIOUS
  <2>2. Bad \subseteq Nat
    BY <1>1
  <2> HIDE DEF Bad
  <2>3. PICK n \in Bad : \A m \in Bad : n <= m
    BY <2>1, <2>2, LeastNumber, Zenon
  <2>4. n \in 0 .. FmSlots /\ BaseVoice(config, n) \notin Nat
    BY DEF Bad
  <2>5. n # 0
    BY <2>4, BaseVoiceSteps
  <2>6. n \in 1 .. FmSlots /\ n - 1 \in 0 .. FmSlots /\ n - 1 \in Instruments
    BY <2>4, <2>5, <1>1 DEF Instruments
  <2>7. BaseVoice(config, n - 1) \in Nat
    <3>1. n - 1 \notin Bad
      BY <2>3, <2>6, <1>1
    <3>2. QED
      BY <3>1, <2>6 DEF Bad
  <2>8. config[n - 1].note_count \in Nat
    BY <2>6 DEF HasCounts
  <2>9. QED
    BY <2>4, <2>6, <2>7, <2>8, BaseVoiceSteps
<1>3. QED
  BY <1>2

\* Each instrument ends before or where a later one begins.
LEMMA InstrumentsAreOrdered ==
    ASSUME NEW config, HasCounts(config), NEW i \in Instruments
    PROVE  \A j \in i + 1 .. FmSlots :
              BaseVoice(config, i) + config[i].note_count
              <= BaseVoice(config, j)
<1> DEFINE end == BaseVoice(config, i) + config[i].note_count
           Bad == {j \in i + 1 .. FmSlots : ~(end <= BaseVoice(config, j))}
<1>1. FmSlots \in Nat \ {0} /\ i \in Nat /\ i < FmSlots
  BY VoicesAssumption DEF Instruments
<1>2. \A n \in 0 .. FmSlots : BaseVoice(config, n) \in Nat
  BY BaseVoiceTypes
<1>3. end \in Nat /\ end = BaseVoice(config, i + 1)
  <2>1. config[i].note_count \in Nat
    BY DEF HasCounts
  <2>2. i + 1 \in 1 .. FmSlots /\ (i + 1) - 1 = i /\ i \in 0 .. FmSlots
    BY <1>1
  <2>3. QED
    BY <2>1, <2>2, <1>2, BaseVoiceSteps
<1>4. Bad = {}
  <2>1. SUFFICES ASSUME Bad # {}
                 PROVE  FALSE
    OBVIOUS
  <2>2. Bad \subseteq Nat
    BY <1>1
  <2> HIDE DEF Bad, end
  <2>3. PICK j \in Bad : \A k \in Bad : j <= k
    BY <2>1, <2>2, LeastNumber, Zenon
  <2>4. j \in i + 1 .. FmSlots /\ ~(end <= BaseVoice(config, j))
    BY DEF Bad
  <2>5. j # i + 1
    BY <2>4, <1>3
  <2>6. /\ j \in 1 .. FmSlots /\ j - 1 \in i + 1 .. FmSlots
        /\ j - 1 \in Instruments
        /\ j - 1 \in 0 .. FmSlots /\ j \in 0 .. FmSlots
    BY <2>4, <2>5, <1>1 DEF Instruments
  <2>7. end <= BaseVoice(config, j - 1)
    <3>1. j - 1 \notin Bad
      BY <2>3, <2>6, <1>1
    <3>2. QED
      BY <3>1, <2>6 DEF Bad
  <2>8. config[j - 1].note_count \in Nat
    BY <2>6 DEF HasCounts
  <2>9. BaseVoice(config, j)
        = BaseVoice(config, j - 1) + config[j - 1].note_count
    BY <2>6, BaseVoiceSteps
  <2>10. BaseVoice(config, j - 1) \in Nat
    BY <2>6, <1>2
  <2>11. QED
    BY <2>4, <2>7, <2>8, <2>9, <2>10, <1>3
<1>5. QED
  BY <1>4

\* Slots of a configuration that fits have different voices of the chip.
LEMMA AllocatedVoicesDiffer ==
    ASSUME NEW config, HasCounts(config),
           BaseVoice(config, FmSlots) <= FmSlots,
           NEW i \in Instruments, NEW s \in 0 .. config[i].note_count - 1,
           NEW j \in Instruments, NEW t \in 0 .. config[j].note_count - 1
    PROVE  /\ BaseVoice(config, i) + s \in Voices
           /\ BaseVoice(config, i) + s = BaseVoice(config, j) + t
              => i = j /\ s = t
<1>1. FmSlots \in Nat \ {0} /\ i \in 0 .. FmSlots - 1 /\ j \in 0 .. FmSlots - 1
  BY VoicesAssumption DEF Instruments
<1>2. config[i].note_count \in Nat /\ config[j].note_count \in Nat
  BY DEF HasCounts
<1>3. BaseVoice(config, i) \in Nat /\ BaseVoice(config, j) \in Nat
  BY <1>1, BaseVoiceTypes
<1>4. BaseVoice(config, FmSlots) \in Nat
  BY <1>1, BaseVoiceTypes
<1>5. BaseVoice(config, i) + config[i].note_count
      <= BaseVoice(config, FmSlots)
  BY <1>1, InstrumentsAreOrdered
<1>6. i < j => BaseVoice(config, i) + config[i].note_count
               <= BaseVoice(config, j)
  BY <1>1, InstrumentsAreOrdered
<1>7. j < i => BaseVoice(config, j) + config[j].note_count
               <= BaseVoice(config, i)
  BY <1>1, InstrumentsAreOrdered
<1>8. QED
  BY <1>1, <1>2, <1>3, <1>4, <1>5, <1>6, <1>7 DEF Voices

-----------------------------------------------------------------------------
(* 2. The refresh that follows every message *)

Configs == [Instruments ->
    [note_count : 0 .. FmSlots, midi_channel : Nat, voice : Nat,
     key_low_limit : 0 .. 127, key_high_limit : 0 .. 127]]

MapEntries(steps) ==
    [base_voice : 0 .. FmSlots, slot_mask : {0, AllOperators},
     note : [Slots -> Nat], note_on : [Slots -> -1 .. 2],
     step : [Slots -> 0 .. steps]]

Maps(steps) == [Instruments -> MapEntries(steps)]

\* The map of a message, before the refresh: its steps may still be counted.
Refreshable(map, steps) ==
    /\ map \in Maps(steps)
    /\ \A i \in Instruments, s \in Slots :
          map[i].note_on[s] > 0 => map[i].step[s] < steps

\* Instruments, slots and voices have numbers from 0.
LEMMA Numbers ==
    /\ FmSlots \in Nat \ {0}
    /\ Instruments = 0 .. FmSlots - 1 /\ Slots = 0 .. FmSlots - 1
    /\ Voices = 0 .. FmSlots - 1
    /\ 0 \in Slots
BY VoicesAssumption DEF Instruments, Slots, Voices

\* What is sent is bounded, whichever use it is.
LEMMA UseTypes ==
    ASSUME use \in Uses
    PROVE  /\ use.notes \subseteq Nat /\ use.programs \subseteq Nat
           /\ use.noteCounts \subseteq 0 .. FmSlots
           /\ use.channels \subseteq Nat
           /\ use.keyLimits \subseteq 0 .. 127 /\ use.voices \subseteq Nat
           /\ use.maxStep \in Nat
BY VoicesAssumption

\* The types in the words of the lemmas.
LEMMA TypesOfState ==
    ASSUME TypeOK
    PROVE  /\ use \in Uses /\ use.maxStep \in Nat
           /\ instruments \in Configs
           /\ instrument_map \in Maps(use.maxStep)
           /\ keyedOn \subseteq Voices
           /\ HasCounts(instruments)
           /\ \A i \in Instruments :
                 NoteCount(i) \in 0 .. FmSlots /\ Active(i) \subseteq Slots
<1>1. use \in Uses /\ use.maxStep \in Nat
  BY UseTypes DEF TypeOK
<1>2. instruments \in Configs
  BY DEF TypeOK, Configs
<1>3. instrument_map \in Maps(use.maxStep)
  BY DEF TypeOK, Maps, MapEntries
<1>4. \A i \in Instruments : instruments[i].note_count \in 0 .. FmSlots
  BY <1>2 DEF Configs
<1>5. HasCounts(instruments)
  BY <1>4, Numbers DEF HasCounts
<1>6. \A i \in Instruments :
         NoteCount(i) \in 0 .. FmSlots /\ Active(i) \subseteq Slots
  BY <1>4, Numbers DEF NoteCount, Active
<1>7. QED
  BY <1>1, <1>2, <1>3, <1>5, <1>6 DEF TypeOK

\* ym2151_set_freq_volume() on one slot: a key that was pressed is held from now
\* on, and the time it is held is counted; nothing else of the map changes.
LEMMA RefreshOfSlot ==
    ASSUME NEW config, NEW map, NEW on, NEW steps \in Nat,
           map \in Maps(steps),
           Refresh(config, map, on),
           NEW i \in Instruments, NEW s \in Slots
    PROVE  /\ instrument_map'[i].base_voice = map[i].base_voice
           /\ instrument_map'[i].slot_mask = map[i].slot_mask
           /\ instrument_map'[i].note = map[i].note
           /\ instrument_map'[i].note_on[s] =
                 IF <<i, s>> \in ActiveSlots(config) /\ map[i].note_on[s] = 2
                 THEN 1 ELSE map[i].note_on[s]
           /\ instrument_map'[i].step[s] =
                 IF map[i].note_on[s] <= 0 THEN 0
                 ELSE IF <<i, s>> \in ActiveSlots(config)
                 THEN map[i].step[s] + 1 ELSE map[i].step[s]
<1>1. map[i] \in MapEntries(steps)
  BY DEF Maps
<1>2. instrument_map' = [j \in Instruments |-> [map[j] EXCEPT
              !.note_on = [t \in Slots |->
                  IF <<j, t>> \in ActiveSlots(config) /\ @[t] = 2
                  THEN 1 ELSE @[t]],
              !.step = [t \in Slots |->
                  IF map[j].note_on[t] <= 0 THEN 0
                  ELSE IF <<j, t>> \in ActiveSlots(config)
                  THEN @[t] + 1 ELSE @[t]]]]
  BY DEF Refresh
<1>3. QED
  BY <1>1, <1>2 DEF MapEntries

\* After it, every entry of the map and every voice has its type.
LEMMA RefreshTypes ==
    ASSUME NEW config, NEW map, NEW on, NEW steps \in Nat,
           Refreshable(map, steps),
           Refresh(config, map, on)
    PROVE  instrument_map' \in Maps(steps) /\ keyedOn' \subseteq Voices
<1>1. map \in Maps(steps)
  BY DEF Refreshable
<1>2. ASSUME NEW i \in Instruments
      PROVE  instrument_map'[i] \in MapEntries(steps)
  <2> DEFINE states == [t \in Slots |->
                          IF <<i, t>> \in ActiveSlots(config)
                             /\ map[i].note_on[t] = 2
                          THEN 1 ELSE map[i].note_on[t]]
             times == [t \in Slots |->
                          IF map[i].note_on[t] <= 0 THEN 0
                          ELSE IF <<i, t>> \in ActiveSlots(config)
                          THEN map[i].step[t] + 1 ELSE map[i].step[t]]
  <2>1. map[i] \in MapEntries(steps)
    BY <1>1 DEF Maps
  <2>2. instrument_map'[i] = [map[i] EXCEPT !.note_on = states, !.step = times]
    BY DEF Refresh
  <2>3. map[i].note_on \in [Slots -> -1 .. 2] /\ map[i].step \in [Slots -> 0 .. steps]
    BY <2>1 DEF MapEntries
  <2>4. states \in [Slots -> -1 .. 2]
    BY <2>3
  <2>5. times \in [Slots -> 0 .. steps]
    <3>1. \A t \in Slots : map[i].note_on[t] > 0 => map[i].step[t] < steps
      BY DEF Refreshable
    <3>2. ASSUME NEW t \in Slots
          PROVE  times[t] \in 0 .. steps
      <4>1. map[i].note_on[t] \in -1 .. 2 /\ map[i].step[t] \in 0 .. steps
        BY <2>3
      <4>2. QED
        BY <4>1, <3>1
    <3>3. QED
      BY <3>2
  <2> HIDE DEF states, times
  <2>6. QED
    BY <2>1, <2>2, <2>4, <2>5 DEF MapEntries
<1>3. instrument_map' \in Maps(steps)
  <2>1. \E f : instrument_map' = [j \in Instruments |-> f[j]]
    <3>1. instrument_map' = [j \in Instruments |-> instrument_map'[j]]
      BY DEF Refresh
    <3>2. QED
      BY <3>1
  <2>2. QED
    BY <2>1, <1>2 DEF Maps
<1>4. keyedOn' \subseteq Voices
  BY DEF Refresh
<1>5. QED
  BY <1>3, <1>4

\* What every message does at last.
Refreshes ==
    \E map, on : /\ Refreshable(map, use.maxStep)
                 /\ Refresh(instruments', map, on)

\* The slot that ym2151_note_on() takes: one that is free or plays the note, or
\* else one that was refreshed at least as often as each of the others, which
\* all play other notes.
LEMMA TakenSlotProperties ==
    ASSUME TypeOK, NEW i \in Instruments, NEW n \in Nat,
           NEW s, s = TakenSlot(i, n)
    PROVE  /\ s \in Slots
           /\ NoteCount(i) > 0 => s \in Active(i)
           /\ \/ s \in Usable(i, n)
              \/ \A t \in Active(i) :
                    /\ instrument_map[i].note_on[t] > 0
                    /\ instrument_map[i].note[t] # n
                    /\ instrument_map[i].step[s] >= instrument_map[i].step[t]
<1> DEFINE step == instrument_map[i].step
           longest == {t \in Active(i) : \A u \in Active(i) : step[t] >= step[u]}
<1>1. /\ NoteCount(i) \in 0 .. FmSlots /\ Active(i) \subseteq Slots
      /\ Slots \subseteq Nat /\ 0 \in Slots
      /\ NoteCount(i) > 0 => 0 \in Active(i)
  BY TypesOfState, Numbers DEF Active
<1>2. instrument_map[i] \in MapEntries(use.maxStep) /\ use.maxStep \in Nat
  BY TypesOfState DEF Maps
<1>3. \A t \in Slots : instrument_map[i].note_on[t] \in -1 .. 2
                       /\ step[t] \in 0 .. use.maxStep
  BY <1>2 DEF MapEntries
<1>4. CASE Usable(i, n) # {}
  <2>1. s = Min(Usable(i, n))
    BY <1>4 DEF TakenSlot
  <2>2. Usable(i, n) \subseteq Active(i)
    BY DEF Usable
  <2>3. s \in Usable(i, n)
    BY <2>1, <2>2, <1>1, <1>4, MinProperties
  <2>4. QED
    BY <2>2, <2>3, <1>1
<1>5. CASE Usable(i, n) = {} /\ NoteCount(i) = 0
  <2>1. s = 0
    BY <1>5 DEF TakenSlot
  <2>2. Active(i) = {}
    BY <1>5 DEF Active
  <2>3. QED
    BY <2>1, <2>2, <1>1, <1>5
<1>6. CASE Usable(i, n) = {} /\ NoteCount(i) # 0
  <2>1. s = Min(longest)
    BY <1>6 DEF TakenSlot
  <2>2. longest # {}
    <3> DEFINE times == {step[t] : t \in Active(i)}
    <3>1. times \subseteq Nat /\ times # {} /\ \A x \in times : x <= use.maxStep
      <4>1. ASSUME NEW t \in Active(i)
            PROVE  step[t] \in Nat /\ step[t] <= use.maxStep
        <5>1. step[t] \in 0 .. use.maxStep
          BY <1>1, <1>3
        <5> HIDE DEF step
        <5>2. QED
          BY <5>1, <1>2
      <4>2. 0 \in Active(i)
        BY <1>1, <1>6
      <4>3. QED
        BY <4>1, <4>2
    <3>2. PICK x \in times : \A y \in times : x >= y
      <4> HIDE DEF times
      <4>1. QED
        BY <3>1, <1>2, GreatestNumber, Zenon
    <3>3. PICK t \in Active(i) : x = step[t]
      OBVIOUS
    <3>4. \A u \in Active(i) : step[t] >= step[u]
      BY <3>2, <3>3
    <3>5. QED
      BY <3>4
  <2>3. s \in longest
    <3>1. longest \subseteq Nat
      BY <1>1
    <3> HIDE DEF longest
    <3>2. QED
      BY <2>1, <2>2, <3>1, MinProperties
  <2>4. s \in Active(i) /\ \A t \in Active(i) : step[s] >= step[t]
    BY <2>3
  <2>5. ASSUME NEW t \in Active(i)
        PROVE  instrument_map[i].note_on[t] > 0 /\ instrument_map[i].note[t] # n
    <3>1. t \notin Usable(i, n)
      BY <1>6
    <3>2. ~(instrument_map[i].note_on[t] <= 0) /\ instrument_map[i].note[t] # n
      BY <3>1 DEF Usable
    <3>3. instrument_map[i].note_on[t] \in -1 .. 2
      BY <1>1, <1>3
    <3>4. QED
      BY <3>2, <3>3
  <2>6. QED
    BY <2>4, <2>5, <1>1
<1>7. QED
  BY <1>4, <1>5, <1>6

\* Messages are taken while steps may be counted.
LEMMA BoundedSteps ==
    ASSUME TypeOK, Bounded
    PROVE  Refreshable(instrument_map, use.maxStep)
BY TypesOfState DEF Bounded, Refreshable

\* The map that note_on() leaves to the refresh: the slot is pressed.
PressedMap(ch, n, s) ==
    [instrument_map EXCEPT ![ch].note[s] = n, ![ch].note_on[s] = 2,
                           ![ch].step[s] = 0]

\* note_on() changes one slot of the instrument with the number of the channel.
LEMMA PressedMapSlots ==
    ASSUME TypeOK, NEW ch \in Instruments, NEW n \in Nat, NEW s \in Slots,
           NEW i \in Instruments, NEW t \in Slots
    PROVE  /\ PressedMap(ch, n, s)[i].note[t]
                 = IF i = ch /\ t = s THEN n ELSE instrument_map[i].note[t]
           /\ PressedMap(ch, n, s)[i].note_on[t]
                 = IF i = ch /\ t = s THEN 2 ELSE instrument_map[i].note_on[t]
           /\ PressedMap(ch, n, s)[i].step[t]
                 = IF i = ch /\ t = s THEN 0 ELSE instrument_map[i].step[t]
<1>1. instrument_map \in Maps(use.maxStep)
  BY TypesOfState
<1>2. \A j \in Instruments : instrument_map[j] \in MapEntries(use.maxStep)
  BY <1>1 DEF Maps
<1>3. CASE i = ch
  BY <1>1, <1>2, <1>3 DEF PressedMap, Maps, MapEntries
<1>4. CASE i # ch
  BY <1>1, <1>2, <1>4 DEF PressedMap, Maps, MapEntries
<1>5. QED
  BY <1>3, <1>4

\* It stays a map.
LEMMA PressedMapTypes ==
    ASSUME TypeOK, NEW ch \in Instruments, NEW n \in Nat, NEW s \in Slots
    PROVE  PressedMap(ch, n, s) \in Maps(use.maxStep)
<1>1. instrument_map \in Maps(use.maxStep) /\ use.maxStep \in Nat
  BY TypesOfState
<1>2. instrument_map[ch] \in MapEntries(use.maxStep)
  BY <1>1 DEF Maps
<1> DEFINE entry == [instrument_map[ch] EXCEPT
                        !.note = [@ EXCEPT ![s] = n],
                        !.note_on = [@ EXCEPT ![s] = 2],
                        !.step = [@ EXCEPT ![s] = 0]]
<1>3. PressedMap(ch, n, s) = [instrument_map EXCEPT ![ch] = entry]
  BY <1>1, <1>2 DEF PressedMap, Maps, MapEntries
<1>4. entry \in MapEntries(use.maxStep)
  <2>1. [instrument_map[ch].note EXCEPT ![s] = n] \in [Slots -> Nat]
    BY <1>2 DEF MapEntries
  <2>2. [instrument_map[ch].note_on EXCEPT ![s] = 2] \in [Slots -> -1 .. 2]
    BY <1>2 DEF MapEntries
  <2>3. [instrument_map[ch].step EXCEPT ![s] = 0]
        \in [Slots -> 0 .. use.maxStep]
    BY <1>1, <1>2 DEF MapEntries
  <2>4. QED
    BY <1>2, <2>1, <2>2, <2>3 DEF MapEntries
<1> HIDE DEF entry
<1>5. QED
  BY <1>1, <1>3, <1>4 DEF Maps

\* Pressing a slot leaves steps that may still be counted.
LEMMA PressedMapRefreshes ==
    ASSUME TypeOK, Bounded,
           NEW ch \in Instruments, NEW n \in Nat, NEW s \in Slots
    PROVE  Refreshable(PressedMap(ch, n, s), use.maxStep)
<1>1. \A i \in Instruments, t \in Slots :
         /\ instrument_map[i].step[t] < use.maxStep
         /\ instrument_map[i].step[t] \in Nat
         /\ use.maxStep \in Nat
  BY TypesOfState DEF Bounded, Maps, MapEntries
<1>2. ASSUME NEW i \in Instruments, NEW t \in Slots
      PROVE  PressedMap(ch, n, s)[i].step[t] < use.maxStep
  <2>1. PressedMap(ch, n, s)[i].step[t]
        = IF i = ch /\ t = s THEN 0 ELSE instrument_map[i].step[t]
    BY PressedMapSlots
  <2>2. PICK was : was = instrument_map[i].step[t]
    OBVIOUS
  <2>3. was \in Nat /\ was < use.maxStep /\ use.maxStep \in Nat
    BY <1>1, <2>2
  <2>4. QED
    BY <2>1, <2>2, <2>3
<1>3. QED
  BY <1>2, PressedMapTypes DEF Refreshable

\* A key that is pressed is refreshed like all the others.
LEMMA NoteOnRefreshes ==
    ASSUME TypeOK, NEW ch \in Instruments, NEW n \in use.notes, NoteOn(ch, n)
    PROVE  \E s \in Slots :
              /\ s = TakenSlot(ch, n)
              /\ Refreshable(PressedMap(ch, n, s), use.maxStep)
              /\ Refresh(instruments, PressedMap(ch, n, s), keyedOn)
<1>1. n \in Nat
  BY TypesOfState, UseTypes
<1>2. PICK s : s = TakenSlot(ch, n)
  OBVIOUS
<1>3. s \in Slots
  BY <1>1, <1>2, TakenSlotProperties
<1>4. Refresh(instruments, PressedMap(ch, n, s), keyedOn) /\ Bounded
  BY <1>2 DEF NoteOn, PressedMap
<1>5. Refreshable(PressedMap(ch, n, s), use.maxStep)
  BY <1>1, <1>3, <1>4, PressedMapRefreshes
<1>6. QED
  BY <1>2, <1>3, <1>4, <1>5

\* The map that a release leaves to the refresh.
ReleasedMap(releases) ==
    [i \in Instruments |-> [instrument_map[i] EXCEPT
        !.note_on = [s \in Slots |-> IF s \in releases[i] THEN 0 ELSE @[s]]]]

\* A release is refreshed; it changes only whether slots are pressed.
LEMMA ReleaseRefreshes ==
    ASSUME TypeOK, Bounded, NEW releases, Release(releases)
    PROVE  /\ Refreshable(ReleasedMap(releases), use.maxStep)
           /\ Refresh(instruments, ReleasedMap(releases), keyedOn)
           /\ \A i \in Instruments :
                 LET entry == ReleasedMap(releases)[i]
                 IN  /\ entry.note = instrument_map[i].note
                     /\ entry.step = instrument_map[i].step
                     /\ \A s \in Slots :
                           entry.note_on[s] = IF s \in releases[i] THEN 0
                                              ELSE instrument_map[i].note_on[s]
<1> DEFINE states(i) == [s \in Slots |-> IF s \in releases[i] THEN 0
                                         ELSE instrument_map[i].note_on[s]]
           map == ReleasedMap(releases)
<1>1. \A i \in Instruments : instrument_map[i] \in MapEntries(use.maxStep)
  BY TypesOfState DEF Maps
<1>2. ASSUME NEW i \in Instruments
      PROVE  /\ map[i] \in MapEntries(use.maxStep)
             /\ map[i].note = instrument_map[i].note
             /\ map[i].step = instrument_map[i].step
             /\ map[i].note_on = states(i)
  <2>1. map[i] = [instrument_map[i] EXCEPT !.note_on = states(i)]
    BY DEF ReleasedMap
  <2>2. states(i) \in [Slots -> -1 .. 2]
    BY <1>1 DEF MapEntries
  <2> HIDE DEF states, map
  <2>3. QED
    BY <2>1, <2>2, <1>1 DEF MapEntries
<1>3. map \in Maps(use.maxStep)
  BY <1>2 DEF Maps, ReleasedMap
<1>4. ASSUME NEW i \in Instruments, NEW s \in Slots
      PROVE  map[i].step[s] < use.maxStep
  BY <1>2 DEF Bounded
<1>5. Refreshable(map, use.maxStep)
  BY <1>3, <1>4 DEF Refreshable
<1>6. Refresh(instruments, map, keyedOn)
  BY DEF Release, ReleasedMap
<1>7. QED
  BY <1>2, <1>5, <1>6

\* The map after a reset.
ResetMap(released) ==
    [i \in Instruments |-> [FreshMap[i] EXCEPT
        !.slot_mask = IF NoteCount(i) > 0 THEN @ ELSE 0,
        !.note_on = [s \in Slots |->
            IF <<i, s>> \in released THEN 0 ELSE @[s]]]]

\* After a reset no slot is pressed.
LEMMA ResetRefreshes ==
    ASSUME TypeOK, NEW released, ResetAll(released)
    PROVE  /\ Refreshable(ResetMap(released), use.maxStep)
           /\ Refresh(instruments, ResetMap(released), {})
           /\ \A i \in Instruments, s \in Slots :
                 ResetMap(released)[i].note_on[s] \in {-1, 0}
<1> DEFINE states(i) == [s \in Slots |-> IF <<i, s>> \in released THEN 0
                                         ELSE -1]
           mask(i) == IF NoteCount(i) > 0 THEN AllOperators ELSE 0
           map == ResetMap(released)
<1>1. \A i \in Instruments :
         FreshMap[i] = [base_voice |-> i, slot_mask |-> AllOperators,
                        note |-> [s \in Slots |-> 0],
                        note_on |-> [s \in Slots |-> -1],
                        step |-> [s \in Slots |-> 0]]
  BY DEF FreshMap
<1>2. ASSUME NEW i \in Instruments
      PROVE  /\ map[i] \in MapEntries(use.maxStep)
             /\ map[i].note_on = states(i)
  <2>1. map[i] = [base_voice |-> i, slot_mask |-> mask(i),
                  note |-> [s \in Slots |-> 0], note_on |-> states(i),
                  step |-> [s \in Slots |-> 0]]
    <3>1. PICK fresh : fresh = FreshMap[i]
      OBVIOUS
    <3>2. fresh = [base_voice |-> i, slot_mask |-> AllOperators,
                   note |-> [s \in Slots |-> 0],
                   note_on |-> [s \in Slots |-> -1],
                   step |-> [s \in Slots |-> 0]]
      BY <3>1, <1>1
    <3>3. map[i] = [fresh EXCEPT
                      !.slot_mask = IF NoteCount(i) > 0 THEN @ ELSE 0,
                      !.note_on = [s \in Slots |->
                         IF <<i, s>> \in released THEN 0 ELSE @[s]]]
      BY <3>1 DEF ResetMap
    <3>4. fresh.slot_mask = AllOperators
          /\ \A s \in Slots : fresh.note_on[s] = -1
      BY <3>2
    <3>5. map[i] = [fresh EXCEPT !.slot_mask = mask(i), !.note_on = states(i)]
      BY <3>3, <3>4
    <3> HIDE DEF states, mask, map
    <3>6. QED
      BY <3>2, <3>5
  <2>2. states(i) \in [Slots -> -1 .. 2]
    OBVIOUS
  <2>3. mask(i) \in {0, AllOperators} /\ i \in 0 .. FmSlots
    BY Numbers
  <2>4. [s \in Slots |-> 0] \in [Slots -> 0 .. use.maxStep]
    BY TypesOfState
  <2> HIDE DEF states, map, mask
  <2>5. QED
    BY <2>1, <2>2, <2>3, <2>4 DEF MapEntries
<1>3. map \in Maps(use.maxStep)
  BY <1>2 DEF Maps, ResetMap
<1>4. ASSUME NEW i \in Instruments, NEW s \in Slots
      PROVE  map[i].note_on[s] \in {-1, 0}
  BY <1>2
<1>5. Refreshable(map, use.maxStep)
  <2>1. ASSUME NEW i \in Instruments, NEW s \in Slots
        PROVE  ~(map[i].note_on[s] > 0)
    BY <1>4
  <2>2. QED
    BY <2>1, <1>3 DEF Refreshable
<1>6. Refresh(instruments, map, {})
  BY DEF ResetAll, ResetMap
<1>7. QED
  BY <1>4, <1>5, <1>6

\* The map holds the same keys.
KeepsKeys(map) ==
    \A i \in Instruments, s \in Slots :
        /\ map[i].note[s] = instrument_map[i].note[s]
        /\ map[i].note_on[s] = instrument_map[i].note_on[s]
        /\ map[i].step[s] = instrument_map[i].step[s]

\* The map with other operators or base voices still may be refreshed.
LEMMA KeptStepsRefresh ==
    ASSUME TypeOK, Bounded, NEW map, map \in Maps(use.maxStep), KeepsKeys(map)
    PROVE  Refreshable(map, use.maxStep)
<1>1. ASSUME NEW i \in Instruments, NEW s \in Slots
      PROVE  map[i].step[s] < use.maxStep
  <2>1. map[i].step[s] = instrument_map[i].step[s]
    BY DEF KeepsKeys
  <2>2. instrument_map[i].step[s] < use.maxStep
    BY DEF Bounded
  <2>3. QED
    BY <2>1, <2>2
<1>2. QED
  BY <1>1 DEF Refreshable

\* The map with the operators of some instruments set.
VoicedMap(config, targets) ==
    [i \in Instruments |->
        IF i \in targets /\ config[i].note_count > 0
        THEN [instrument_map[i] EXCEPT !.slot_mask = AllOperators]
        ELSE instrument_map[i]]

\* ym2151_set_voice() changes no key, and is refreshed.
LEMMA SetVoiceRefreshes ==
    ASSUME TypeOK, Bounded, NEW config, NEW targets, NEW t,
           SetVoice(config, instrument_map, targets, t)
    PROVE  \E map : /\ Refreshable(map, use.maxStep)
                    /\ KeepsKeys(map)
                    /\ Refresh(config, map, keyedOn)
<1> DEFINE map == VoicedMap(config, targets)
<1>1. \A i \in Instruments : instrument_map[i] \in MapEntries(use.maxStep)
  BY TypesOfState DEF Maps
<1>2. ASSUME NEW i \in Instruments
      PROVE  /\ map[i] \in MapEntries(use.maxStep)
             /\ map[i].note = instrument_map[i].note
             /\ map[i].note_on = instrument_map[i].note_on
             /\ map[i].step = instrument_map[i].step
  <2>1. \/ map[i] = instrument_map[i]
        \/ map[i] = [instrument_map[i] EXCEPT !.slot_mask = AllOperators]
    BY DEF VoicedMap
  <2> HIDE DEF map
  <2>2. CASE map[i] = instrument_map[i]
    BY <2>2, <1>1
  <2>3. CASE map[i] = [instrument_map[i] EXCEPT !.slot_mask = AllOperators]
    BY <2>3, <1>1 DEF MapEntries
  <2>4. QED
    BY <2>1, <2>2, <2>3
<1>3. map \in Maps(use.maxStep)
  BY <1>2 DEF Maps, VoicedMap
<1>4. KeepsKeys(map)
  BY <1>2 DEF KeepsKeys
<1>5. Refreshable(map, use.maxStep)
  BY <1>3, <1>4, KeptStepsRefresh
<1>6. Refresh(config, map, keyedOn)
  BY DEF SetVoice, VoicedMap
<1>7. QED
  BY <1>4, <1>5, <1>6

\* The map after allocate_base_voices().
AllocatedMap(config) ==
    [j \in Instruments |->
        [instrument_map[j] EXCEPT !.base_voice = BaseVoice(config, j)]]

\* So does allocate_base_voices(), if the numbers of notes fit.
LEMMA AllocatedMapTypes ==
    ASSUME TypeOK, NEW config, HasCounts(config),
           BaseVoice(config, FmSlots) <= FmSlots
    PROVE  /\ AllocatedMap(config) \in Maps(use.maxStep)
           /\ KeepsKeys(AllocatedMap(config))
<1> DEFINE map == AllocatedMap(config)
<1>1. \A i \in Instruments : instrument_map[i] \in MapEntries(use.maxStep)
  BY TypesOfState DEF Maps
<1>2. ASSUME NEW i \in Instruments
      PROVE  BaseVoice(config, i) \in 0 .. FmSlots
  <2>1. BaseVoice(config, i) \in Nat /\ BaseVoice(config, FmSlots) \in Nat
    BY Numbers, BaseVoiceTypes
  <2>2. BaseVoice(config, i) + config[i].note_count
        <= BaseVoice(config, FmSlots)
    BY Numbers, InstrumentsAreOrdered
  <2>3. config[i].note_count \in Nat
    BY DEF HasCounts
  <2>4. QED
    BY <2>1, <2>2, <2>3, Numbers
<1>3. ASSUME NEW i \in Instruments
      PROVE  /\ map[i] \in MapEntries(use.maxStep)
             /\ map[i].note = instrument_map[i].note
             /\ map[i].note_on = instrument_map[i].note_on
             /\ map[i].step = instrument_map[i].step
  <2>1. map[i] = [instrument_map[i] EXCEPT !.base_voice = BaseVoice(config, i)]
    BY DEF AllocatedMap
  <2> HIDE DEF map
  <2>2. QED
    BY <2>1, <1>1, <1>2 DEF MapEntries
<1>4. map \in Maps(use.maxStep)
  BY <1>3 DEF Maps, AllocatedMap
<1>5. KeepsKeys(map)
  BY <1>3 DEF KeepsKeys
<1>6. QED
  BY <1>4, <1>5

-----------------------------------------------------------------------------
(* 3. Types *)

Tones == [Voices -> Nat \union {NoTone}]

\* Registers hold tones, whatever is written.
LEMMA LoadTypes ==
    ASSUME NEW map, NEW slots, NEW t \in Nat, NEW registers \in Tones
    PROVE  Load(map, slots, t, registers) \in Tones
BY DEF Load, Tones

Selections == [by : {"nothing", "program", "parameter"},
               instruments : SUBSET Instruments, tone : Nat]

\* A message that refreshes leaves the types as they are if it gives the other
\* variables their types.
LEMMA TypeStep ==
    ASSUME TypeOK, Refreshes, use' = use, instruments' \in Configs,
           tone' \in Tones,
           down' \in [Instruments -> SUBSET use.notes],
           pressedBefore' \in [Instruments -> SUBSET (Slots \X Slots)],
           selection' \in Selections
    PROVE  TypeOK'
<1>1. PICK map, on : /\ Refreshable(map, use.maxStep)
                     /\ Refresh(instruments', map, on)
  BY DEF Refreshes
<1>2. use.maxStep \in Nat /\ use \in Uses
  BY TypesOfState
<1>3. instrument_map' \in Maps(use.maxStep) /\ keyedOn' \subseteq Voices
  BY <1>1, <1>2, RefreshTypes
<1>4. QED
  BY <1>2, <1>3 DEF TypeOK, Configs, Maps, MapEntries, Tones, Selections

\* What a message leaves as it is keeps its type.
LEMMA KeptTypes ==
    ASSUME TypeOK
    PROVE  /\ instruments \in Configs /\ tone \in Tones
           /\ down \in [Instruments -> SUBSET use.notes]
           /\ pressedBefore \in [Instruments -> SUBSET (Slots \X Slots)]
           /\ NoSelection \in Selections
BY DEF TypeOK, Configs, Tones, Selections, NoSelection

\* Removing pairs leaves pairs of slots.
LEMMA WithoutTypes ==
    ASSUME NEW pairs \in SUBSET (Slots \X Slots), NEW slots
    PROVE  Without(pairs, slots) \in SUBSET (Slots \X Slots)
BY DEF Without

\* Pressing a key keeps the types.
LEMMA NoteOnTypes ==
    ASSUME TypeOK, NEW ch \in Instruments, NEW n \in use.notes, NoteOn(ch, n)
    PROVE  TypeOK'
<1>1. PICK s \in Slots :
         /\ s = TakenSlot(ch, n)
         /\ Refreshable(PressedMap(ch, n, s), use.maxStep)
         /\ Refresh(instruments, PressedMap(ch, n, s), keyedOn)
  BY NoteOnRefreshes
<1>2. /\ use' = use /\ instruments' = instruments /\ tone' = tone
      /\ selection' = NoSelection
  BY DEF NoteOn
<1>3. Refreshes
  BY <1>1, <1>2 DEF Refreshes
<1>4. down' \in [Instruments -> SUBSET use.notes]
  BY KeptTypes DEF NoteOn
<1>5. pressedBefore' \in [Instruments -> SUBSET (Slots \X Slots)]
  <2> DEFINE pairs == Without(pressedBefore[ch], {s})
                      \union (PressedSlots(ch) \ {s}) \X {s}
  <2>1. pressedBefore' = [pressedBefore EXCEPT ![ch] = pairs]
    BY <1>1 DEF NoteOn
  <2>2. pairs \in SUBSET (Slots \X Slots)
    <3>1. Without(pressedBefore[ch], {s}) \in SUBSET (Slots \X Slots)
      BY KeptTypes, WithoutTypes
    <3>2. (PressedSlots(ch) \ {s}) \X {s} \in SUBSET (Slots \X Slots)
      BY DEF PressedSlots
    <3>3. QED
      BY <3>1, <3>2
  <2> HIDE DEF pairs
  <2>3. QED
    BY <2>1, <2>2, KeptTypes
<1>6. QED
  BY <1>2, <1>3, <1>4, <1>5, KeptTypes, TypeStep

\* So does releasing slots.
LEMMA ReleaseTypes ==
    ASSUME TypeOK, Bounded, NEW releases, Release(releases),
           use' = use, instruments' = instruments, tone' = tone,
           down' \in [Instruments -> SUBSET use.notes],
           selection' = NoSelection
    PROVE  TypeOK'
<1>1. Refreshes
  BY ReleaseRefreshes DEF Refreshes
<1>2. pressedBefore' \in [Instruments -> SUBSET (Slots \X Slots)]
  <2>1. pressedBefore' =
           [i \in Instruments |-> Without(pressedBefore[i], releases[i])]
    BY DEF Release
  <2>2. \A i \in Instruments :
           Without(pressedBefore[i], releases[i]) \in SUBSET (Slots \X Slots)
    BY KeptTypes, WithoutTypes
  <2>3. QED
    BY <2>1, <2>2
<1>3. QED
  BY <1>1, <1>2, KeptTypes, TypeStep

\* Two messages release keys.
LEMMA KeysReleasedTypes ==
    ASSUME TypeOK, NEW ch \in Channels,
           AllNotesOff(ch) \/ \E n \in use.notes : NoteOff(ch, n)
    PROVE  TypeOK'
<1>1. CASE AllNotesOff(ch)
  <2> DEFINE releases == [i \in Instruments |->
                            IF i \in OnChannel(ch) THEN Active(i) ELSE {}]
  <2>1. /\ Bounded /\ Release(releases)
        /\ use' = use /\ instruments' = instruments /\ tone' = tone
        /\ selection' = NoSelection
    BY <1>1 DEF AllNotesOff
  <2>2. down' \in [Instruments -> SUBSET use.notes]
    BY <1>1, KeptTypes DEF AllNotesOff
  <2> HIDE DEF releases
  <2>3. QED
    BY <2>1, <2>2, ReleaseTypes
<1>2. CASE \E n \in use.notes : NoteOff(ch, n)
  <2>1. PICK n \in use.notes : NoteOff(ch, n)
    BY <1>2
  <2> DEFINE releases == [i \in Instruments |->
                     IF i \in ReceivedBy(ch, n) THEN Released(i, n) ELSE {}]
  <2>2. /\ Bounded /\ Release(releases)
        /\ use' = use /\ instruments' = instruments /\ tone' = tone
        /\ selection' = NoSelection
    BY <2>1 DEF NoteOff
  <2>3. down' \in [Instruments -> SUBSET use.notes]
    BY <2>1, KeptTypes DEF NoteOff
  <2> HIDE DEF releases
  <2>4. QED
    BY <2>2, <2>3, ReleaseTypes
<1>3. QED
  BY <1>1, <1>2

\* So does a reset.
LEMMA ResetTypes ==
    ASSUME TypeOK, NEW released, ResetAll(released)
    PROVE  TypeOK'
<1>1. /\ use' = use /\ instruments' = instruments
      /\ down' = [i \in Instruments |-> {}]
      /\ pressedBefore' = [i \in Instruments |-> {}]
      /\ selection' = NoSelection
      /\ tone' = Load(ResetMap(released), ActiveSlots(instruments), 0,
                      [v \in Voices |-> NoTone])
  BY DEF ResetAll, ResetMap
<1>2. Refreshes
  BY <1>1, ResetRefreshes DEF Refreshes
<1>3. tone' \in Tones
  <2>1. [v \in Voices |-> NoTone] \in Tones
    BY DEF Tones
  <2>2. QED
    BY <1>1, <2>1, LoadTypes
<1>4. /\ down' \in [Instruments -> SUBSET use.notes]
      /\ pressedBefore' \in [Instruments -> SUBSET (Slots \X Slots)]
  BY <1>1
<1>5. QED
  BY <1>1, <1>2, <1>3, <1>4, KeptTypes, TypeStep

\* A tone is chosen for the instruments of a channel.
LEMMA ProgramChangeTypes ==
    ASSUME TypeOK, NEW ch \in Channels, NEW t \in use.programs,
           ProgramChange(ch, t)
    PROVE  TypeOK'
<1>1. /\ Bounded /\ SetVoice(instruments, instrument_map, OnChannel(ch), t)
      /\ use' = use /\ instruments' = instruments /\ down' = down
      /\ pressedBefore' = pressedBefore
      /\ selection' = [by |-> "program", instruments |-> OnChannel(ch),
                       tone |-> t]
  BY DEF ProgramChange
<1>2. Refreshes
  BY <1>1, SetVoiceRefreshes DEF Refreshes
<1>3. t \in Nat
  BY TypesOfState, UseTypes
<1>4. tone' \in Tones
  BY <1>1, <1>3, KeptTypes, LoadTypes DEF SetVoice
<1>5. selection' \in Selections
  BY <1>1, <1>3 DEF Selections, OnChannel
<1>6. QED
  BY <1>1, <1>2, <1>4, <1>5, KeptTypes, TypeStep

\* The parameters voice and voice bank of an instrument.
LEMMA UpdateVoiceTypes ==
    ASSUME TypeOK, Bounded, NEW config \in Configs, NEW i \in Instruments,
           UpdateVoice(config, i)
    PROVE  TypeOK'
<1>1. PICK targets : /\ SetVoice(config, instrument_map, targets,
                                 config[i].voice)
                     /\ instruments' = config
                     /\ use' = use /\ down' = down
                     /\ pressedBefore' = pressedBefore
                     /\ selection' = [by |-> "parameter", instruments |-> {i},
                                      tone |-> config[i].voice]
  BY DEF UpdateVoice
<1>2. Refreshes
  BY <1>1, SetVoiceRefreshes DEF Refreshes
<1>3. config[i].voice \in Nat
  BY DEF Configs
<1>4. tone' \in Tones
  BY <1>1, <1>3, KeptTypes, LoadTypes DEF SetVoice
<1>5. selection' \in Selections
  BY <1>1, <1>3 DEF Selections
<1>6. QED
  BY <1>1, <1>2, <1>4, <1>5, KeptTypes, TypeStep

\* The other parameters.
LEMMA ConfigureTypes ==
    ASSUME TypeOK, NEW config \in Configs, NEW map,
           Refreshable(map, use.maxStep), Configure(config, map)
    PROVE  TypeOK'
<1>1. /\ instruments' = config /\ Refresh(config, map, keyedOn)
      /\ selection' = NoSelection
      /\ use' = use /\ tone' = tone /\ down' = down
      /\ pressedBefore' = pressedBefore
  BY DEF Configure
<1>2. Refreshes
  BY <1>1 DEF Refreshes
<1>3. QED
  BY <1>1, <1>2, KeptTypes, TypeStep

\* A parameter of an instrument with a value of its type.
LEMMA SetParameterTypes ==
    ASSUME TypeOK, NEW i \in Instruments, NEW value
    PROVE  /\ value \in 0 .. FmSlots
              => SetParameter(i, "note_count", value) \in Configs
           /\ value \in Nat
              => SetParameter(i, "midi_channel", value) \in Configs
           /\ value \in 0 .. 127
              => SetParameter(i, "key_low_limit", value) \in Configs
           /\ value \in 0 .. 127
              => SetParameter(i, "key_high_limit", value) \in Configs
           /\ value \in Nat => SetParameter(i, "voice", value) \in Configs
<1>1. instruments \in Configs
  BY TypesOfState
<1>2. value \in 0 .. FmSlots
      => SetParameter(i, "note_count", value) \in Configs
  BY <1>1 DEF SetParameter, Configs
<1>3. value \in Nat
      => SetParameter(i, "midi_channel", value) \in Configs
  BY <1>1 DEF SetParameter, Configs
<1>4. value \in 0 .. 127
      => SetParameter(i, "key_low_limit", value) \in Configs
  BY <1>1 DEF SetParameter, Configs
<1>5. value \in 0 .. 127
      => SetParameter(i, "key_high_limit", value) \in Configs
  BY <1>1 DEF SetParameter, Configs
<1>6. value \in Nat => SetParameter(i, "voice", value) \in Configs
  BY <1>1 DEF SetParameter, Configs
<1>7. QED
  BY <1>2, <1>3, <1>4, <1>5, <1>6

\* A configuration has numbers of notes.
LEMMA ConfigCounts ==
    ASSUME NEW config \in Configs
    PROVE  HasCounts(config)
BY Numbers DEF HasCounts, Configs

\* What a change of parameters does: it sets one for an instrument without keys,
\* keeps the map of keys, and allocates voices that fit.
ParameterEffect(i, config, map) ==
    /\ down[i] = {}
    /\ config \in Configs
    /\ \A j \in Instruments \ {i} : config[j] = instruments[j]
    /\ \/ config[i].midi_channel = instruments[i].midi_channel
       \/ config[i].midi_channel \in use.channels
    /\ Refreshable(map, use.maxStep)
    /\ KeepsKeys(map)
    /\ \/ /\ \A j \in Instruments :
                config[j].note_count = instruments[j].note_count
          /\ map = instrument_map
       \/ /\ BaseVoice(config, FmSlots) <= FmSlots
          /\ map = AllocatedMap(config)
    /\ Configure(config, map)

\* A parameter that is not the number of notes leaves the voices.
LEMMA OtherParameterEffect ==
    ASSUME TypeOK, Bounded, NEW i \in Instruments, down[i] = {},
           NEW config \in Configs,
           \A j \in Instruments \ {i} : config[j] = instruments[j],
           config[i].note_count = instruments[i].note_count,
           \/ config[i].midi_channel = instruments[i].midi_channel
           \/ config[i].midi_channel \in use.channels,
           Configure(config, instrument_map)
    PROVE  ParameterEffect(i, config, instrument_map)
<1>1. KeepsKeys(instrument_map)
  BY DEF KeepsKeys
<1>2. Refreshable(instrument_map, use.maxStep)
  BY BoundedSteps
<1>3. \A j \in Instruments : config[j].note_count = instruments[j].note_count
  OBVIOUS
<1>4. QED
  BY <1>1, <1>2, <1>3 DEF ParameterEffect

\* Each of the parameters 0 to 3.
LEMMA ParameterChangeEffect ==
    ASSUME TypeOK, ParameterChange
    PROVE  \E i \in Instruments, config \in Configs :
              \E map : ParameterEffect(i, config, map)
<1>1. PICK i \in Instruments :
         /\ Bounded
         /\ down[i] = {}
         /\ \/ \E n \in use.noteCounts : SetNoteCount(i, n)
            \/ \E ch \in use.channels : SetChannel(i, ch)
            \/ \E n \in use.keyLimits : SetKeyLow(i, n)
            \/ \E n \in use.keyLimits : SetKeyHigh(i, n)
  BY DEF ParameterChange
<1>2. /\ use.noteCounts \subseteq 0 .. FmSlots
      /\ use.channels \subseteq Nat
      /\ use.keyLimits \subseteq 0 .. 127
  BY TypesOfState, UseTypes
<1>3. instruments \in Configs
  BY TypesOfState
<1>4. CASE \E n \in use.noteCounts : SetNoteCount(i, n)
  <2>1. PICK n \in use.noteCounts : SetNoteCount(i, n)
    BY <1>4
  <2>2. PICK config : config = SetParameter(i, "note_count", n)
    OBVIOUS
  <2>3. config \in Configs
    BY <2>2, <1>2, SetParameterTypes
  <2>4. /\ BaseVoice(config, FmSlots) <= FmSlots
        /\ Configure(config, AllocatedMap(config))
    BY <2>1, <2>2 DEF SetNoteCount, AllocatedMap
  <2>5. /\ \A j \in Instruments \ {i} : config[j] = instruments[j]
        /\ config[i].midi_channel = instruments[i].midi_channel
    BY <2>2, <1>3 DEF SetParameter, Configs
  <2>6. AllocatedMap(config) \in Maps(use.maxStep)
        /\ KeepsKeys(AllocatedMap(config))
    BY <2>3, <2>4, ConfigCounts, AllocatedMapTypes
  <2>7. Refreshable(AllocatedMap(config), use.maxStep)
    BY <2>6, <1>1, KeptStepsRefresh
  <2>8. ParameterEffect(i, config, AllocatedMap(config))
    BY <1>1, <2>3, <2>4, <2>5, <2>6, <2>7 DEF ParameterEffect
  <2>9. QED
    BY <2>3, <2>8
<1>5. CASE \E ch \in use.channels : SetChannel(i, ch)
  <2>1. PICK ch \in use.channels : SetChannel(i, ch)
    BY <1>5
  <2>2. PICK config : config = SetParameter(i, "midi_channel", ch)
    OBVIOUS
  <2>3. config \in Configs
    BY <2>2, <1>2, SetParameterTypes
  <2>4. Configure(config, instrument_map)
    BY <2>1, <2>2 DEF SetChannel
  <2>5. /\ \A j \in Instruments \ {i} : config[j] = instruments[j]
        /\ config[i].note_count = instruments[i].note_count
        /\ config[i].midi_channel = ch
    BY <2>2, <1>3 DEF SetParameter, Configs
  <2>6. ParameterEffect(i, config, instrument_map)
    BY <1>1, <2>3, <2>4, <2>5, OtherParameterEffect
  <2>7. QED
    BY <2>3, <2>6
<1>6. CASE \E n \in use.keyLimits : SetKeyLow(i, n)
  <2>1. PICK n \in use.keyLimits : SetKeyLow(i, n)
    BY <1>6
  <2>2. PICK config : config = SetParameter(i, "key_low_limit", n)
    OBVIOUS
  <2>3. config \in Configs
    BY <2>2, <1>2, SetParameterTypes
  <2>4. Configure(config, instrument_map)
    BY <2>1, <2>2 DEF SetKeyLow
  <2>5. /\ \A j \in Instruments \ {i} : config[j] = instruments[j]
        /\ config[i].note_count = instruments[i].note_count
        /\ config[i].midi_channel = instruments[i].midi_channel
    BY <2>2, <1>3 DEF SetParameter, Configs
  <2>6. ParameterEffect(i, config, instrument_map)
    BY <1>1, <2>3, <2>4, <2>5, OtherParameterEffect
  <2>7. QED
    BY <2>3, <2>6
<1>7. CASE \E n \in use.keyLimits : SetKeyHigh(i, n)
  <2>1. PICK n \in use.keyLimits : SetKeyHigh(i, n)
    BY <1>7
  <2>2. PICK config : config = SetParameter(i, "key_high_limit", n)
    OBVIOUS
  <2>3. config \in Configs
    BY <2>2, <1>2, SetParameterTypes
  <2>4. Configure(config, instrument_map)
    BY <2>1, <2>2 DEF SetKeyHigh
  <2>5. /\ \A j \in Instruments \ {i} : config[j] = instruments[j]
        /\ config[i].note_count = instruments[i].note_count
        /\ config[i].midi_channel = instruments[i].midi_channel
    BY <2>2, <1>3 DEF SetParameter, Configs
  <2>6. ParameterEffect(i, config, instrument_map)
    BY <1>1, <2>3, <2>4, <2>5, OtherParameterEffect
  <2>7. QED
    BY <2>3, <2>6
<1>8. QED
  BY <1>1, <1>4, <1>5, <1>6, <1>7

\* The messages, by what they do.
LEMMA Messages ==
    ASSUME TypeOK, Next
    PROVE  \/ \E ch \in Instruments, n \in use.notes : NoteOn(ch, n)
           \/ \E ch \in Channels :
                 AllNotesOff(ch) \/ \E n \in use.notes : NoteOff(ch, n)
           \/ \E released : ResetAll(released)
           \/ \E ch \in Channels, t \in use.programs : ProgramChange(ch, t)
           \/ \E i \in Instruments, config \in Configs :
                 /\ Bounded /\ UpdateVoice(config, i)
                 /\ \A j \in Instruments :
                       /\ config[j].note_count = instruments[j].note_count
                       /\ config[j].midi_channel = instruments[j].midi_channel
           \/ ParameterChange
<1>1. \/ \E ch \in Channels, n \in use.notes : NoteOn(ch, n)
      \/ \E ch \in Channels, n \in use.notes : NoteOff(ch, n)
      \/ \E ch \in Channels : AllNotesOff(ch)
      \/ \E released : ResetAll(released)
      \/ \E ch \in Channels, t \in use.programs : ProgramChange(ch, t)
      \/ \E i \in Instruments, t \in use.voices : SelectVoice(i, t)
      \/ \E i \in Instruments : SelectBank(i)
      \/ ParameterChange
  BY DEF Next, Reset, GmModeOn
<1>2. CASE \E i \in Instruments, t \in use.voices : SelectVoice(i, t)
  <2>1. PICK i \in Instruments, t \in use.voices : SelectVoice(i, t)
    BY <1>2
  <2>2. PICK config : config = SetParameter(i, "voice", t)
    OBVIOUS
  <2>3. Bounded /\ UpdateVoice(config, i)
    BY <2>1, <2>2 DEF SelectVoice, SetParameter
  <2>4. t \in Nat /\ instruments \in Configs
    BY TypesOfState, UseTypes
  <2>5. config \in Configs
    BY <2>2, <2>4, SetParameterTypes
  <2>6. \A j \in Instruments :
           /\ config[j].note_count = instruments[j].note_count
           /\ config[j].midi_channel = instruments[j].midi_channel
    BY <2>2, <2>4 DEF SetParameter, Configs
  <2>7. QED
    BY <2>3, <2>5, <2>6
<1>3. CASE \E i \in Instruments : SelectBank(i)
  <2>1. PICK i \in Instruments : SelectBank(i)
    BY <1>3
  <2>2. Bounded /\ UpdateVoice(instruments, i)
    BY <2>1 DEF SelectBank
  <2>3. PICK config : config = instruments
    OBVIOUS
  <2>4. config \in Configs /\ UpdateVoice(config, i)
    BY <2>2, <2>3, TypesOfState
  <2>5. QED
    BY <2>2, <2>3, <2>4
<1>4. \A ch \in Channels, n \in use.notes : NoteOn(ch, n) => ch \in Instruments
  BY DEF NoteOn
<1>5. QED
  BY <1>1, <1>2, <1>3, <1>4, Zenon

\* Initially all variables have their types.
LEMMA TypesInit == Init => TypeOK
<1> SUFFICES ASSUME Init
             PROVE  TypeOK
  OBVIOUS
<1>2. use \in Uses /\ use.maxStep \in Nat
  BY UseTypes DEF Init
<1>3. instruments \in Configs
  BY Numbers DEF Init, Configs
<1>4. instrument_map \in Maps(use.maxStep)
  BY <1>2, Numbers DEF Init, FreshMap, Maps, MapEntries
<1>5. keyedOn \subseteq Voices /\ tone \in Tones
  BY DEF Init, Tones
<1>6. /\ down \in [Instruments -> SUBSET use.notes]
      /\ pressedBefore \in [Instruments -> SUBSET (Slots \X Slots)]
      /\ selection \in Selections
  BY DEF Init, NoSelection, Selections
<1>7. QED
  BY <1>2, <1>3, <1>4, <1>5, <1>6
     DEF TypeOK, Configs, Maps, MapEntries, Tones, Selections

\* Every message keeps the types.
LEMMA TypesInductive == TypeOK /\ [Next]_vars => TypeOK'
<1> SUFFICES ASSUME TypeOK, [Next]_vars
             PROVE  TypeOK'
  OBVIOUS
<1>2. CASE UNCHANGED vars
  BY <1>2 DEF vars, ghostVars, TypeOK
<1>3. ASSUME NEW ch \in Instruments, NEW n \in use.notes, NoteOn(ch, n)
      PROVE  TypeOK'
  BY <1>3, NoteOnTypes
<1>4. ASSUME NEW ch \in Channels,
             AllNotesOff(ch) \/ \E n \in use.notes : NoteOff(ch, n)
      PROVE  TypeOK'
  BY <1>4, KeysReleasedTypes
<1>5. ASSUME NEW released, ResetAll(released)
      PROVE  TypeOK'
  BY <1>5, ResetTypes
<1>6. ASSUME NEW ch \in Channels, NEW t \in use.programs,
             ProgramChange(ch, t)
      PROVE  TypeOK'
  BY <1>6, ProgramChangeTypes
<1>7. ASSUME NEW i \in Instruments, NEW config \in Configs, Bounded,
             UpdateVoice(config, i)
      PROVE  TypeOK'
  BY <1>7, UpdateVoiceTypes
<1>8. ASSUME ParameterChange
      PROVE  TypeOK'
  <2>1. PICK i \in Instruments, config \in Configs :
           \E map : ParameterEffect(i, config, map)
    BY <1>8, ParameterChangeEffect
  <2>2. PICK map : ParameterEffect(i, config, map)
    BY <2>1
  <2>3. Refreshable(map, use.maxStep) /\ Configure(config, map)
    BY <2>2 DEF ParameterEffect
  <2>4. QED
    BY <2>3, ConfigureTypes
<1>9. QED
  BY <1>2, <1>3, <1>4, <1>5, <1>6, <1>7, <1>8, Messages, Zenon

\* Whatever is sent, and however many instruments and channels there are,
\* configuration, map of notes, registers and counts of steps have their types:
\* base voices do not go beyond the chip, and for notes on the channels that are
\* numbers of instruments ym2151_note_on() takes a slot that exists.  Notes on
\* the other channels are left out of NoteOn (NotesStayInMap): the code does not
\* keep them within instrument_map.
THEOREM TypeCorrect == Spec => []TypeOK
BY TypesInit, TypesInductive, PTL DEF Spec

-----------------------------------------------------------------------------
(* 4. Voices and tones *)

\* The notes of all instruments fit into the chip.
NotesFit == BaseVoice(instruments, FmSlots) <= FmSlots

\* Base voices depend on the numbers of notes only.
LEMMA SameCountsSameVoices ==
    ASSUME NEW c, HasCounts(c), NEW d, HasCounts(d),
           \A j \in Instruments : c[j].note_count = d[j].note_count
    PROVE  \A n \in 0 .. FmSlots : BaseVoice(c, n) = BaseVoice(d, n)
<1> DEFINE Bad == {n \in 0 .. FmSlots : BaseVoice(c, n) # BaseVoice(d, n)}
<1>1. Bad = {}
  <2>1. SUFFICES ASSUME Bad # {}
                 PROVE  FALSE
    OBVIOUS
  <2>2. Bad \subseteq Nat
    BY Numbers
  <2> HIDE DEF Bad
  <2>3. PICK n \in Bad : \A m \in Bad : n <= m
    BY <2>1, <2>2, LeastNumber, Zenon
  <2>4. n \in 0 .. FmSlots /\ BaseVoice(c, n) # BaseVoice(d, n)
    BY DEF Bad
  <2>5. n # 0
    BY <2>4, BaseVoiceSteps
  <2>6. n \in 1 .. FmSlots /\ n - 1 \in 0 .. FmSlots /\ n - 1 \in Instruments
    BY <2>4, <2>5, Numbers
  <2>7. BaseVoice(c, n - 1) = BaseVoice(d, n - 1)
    <3>1. n - 1 \notin Bad
      BY <2>3, <2>6, Numbers
    <3>2. QED
      BY <3>1, <2>6 DEF Bad
  <2>8. QED
    BY <2>4, <2>6, <2>7, BaseVoiceSteps
<1>2. QED
  BY <1>1

\* With one note each, every instrument has the voice with its number.
LEMMA SingleNotes ==
    ASSUME NEW c, \A j \in Instruments : c[j].note_count = 1
    PROVE  \A n \in 0 .. FmSlots : BaseVoice(c, n) = n
<1> DEFINE Bad == {n \in 0 .. FmSlots : BaseVoice(c, n) # n}
<1>0. HasCounts(c)
  BY DEF HasCounts
<1>1. Bad = {}
  <2>1. SUFFICES ASSUME Bad # {}
                 PROVE  FALSE
    OBVIOUS
  <2>2. Bad \subseteq Nat
    BY Numbers
  <2> HIDE DEF Bad
  <2>3. PICK n \in Bad : \A m \in Bad : n <= m
    BY <2>1, <2>2, LeastNumber, Zenon
  <2>4. n \in 0 .. FmSlots /\ BaseVoice(c, n) # n
    BY DEF Bad
  <2>5. n # 0
    BY <2>4, <1>0, BaseVoiceSteps
  <2>6. n \in 1 .. FmSlots /\ n - 1 \in 0 .. FmSlots /\ n - 1 \in Instruments
    BY <2>4, <2>5, Numbers
  <2>7. BaseVoice(c, n - 1) = n - 1
    <3>1. n - 1 \notin Bad
      BY <2>3, <2>6, Numbers
    <3>2. QED
      BY <3>1, <2>6 DEF Bad
  <2>8. c[n - 1].note_count = 1
    BY <2>6
  <2>9. QED
    BY <2>4, <2>6, <2>7, <2>8, <1>0, BaseVoiceSteps
<1>2. QED
  BY <1>1

\* Initially the notes fit.
LEMMA FitInit == Init => NotesFit
<1> SUFFICES ASSUME Init
             PROVE  NotesFit
  OBVIOUS
<1>1. \A j \in Instruments : instruments[j].note_count = 1
  BY DEF Init
<1>2. BaseVoice(instruments, FmSlots) = FmSlots
  BY <1>1, SingleNotes, Numbers
<1>3. QED
  BY <1>2, Numbers DEF NotesFit

\* Numbers of notes change only to numbers that fit.
LEMMA FitInductive == TypeOK /\ NotesFit /\ [Next]_vars => NotesFit'
<1> SUFFICES ASSUME TypeOK, NotesFit, [Next]_vars
             PROVE  NotesFit'
  OBVIOUS
<1>1. HasCounts(instruments)
  BY TypesOfState
<1>2. ASSUME NEW config \in Configs, instruments' = config,
             \A j \in Instruments :
                config[j].note_count = instruments[j].note_count
      PROVE  NotesFit'
  <2>1. BaseVoice(config, FmSlots) = BaseVoice(instruments, FmSlots)
    BY <1>1, <1>2, ConfigCounts, SameCountsSameVoices, Numbers
  <2>2. QED
    BY <2>1, <1>2 DEF NotesFit
<1>3. CASE instruments' = instruments
  BY <1>3 DEF NotesFit
<1>4. CASE UNCHANGED vars
  BY <1>4, <1>3 DEF vars
<1>5. ASSUME NEW ch \in Instruments, NEW n \in use.notes, NoteOn(ch, n)
      PROVE  NotesFit'
  BY <1>5, <1>3 DEF NoteOn
<1>6. ASSUME NEW ch \in Channels,
             AllNotesOff(ch) \/ \E n \in use.notes : NoteOff(ch, n)
      PROVE  NotesFit'
  BY <1>6, <1>3 DEF AllNotesOff, NoteOff
<1>7. ASSUME NEW released, ResetAll(released)
      PROVE  NotesFit'
  BY <1>7, <1>3 DEF ResetAll
<1>8. ASSUME NEW ch \in Channels, NEW t \in use.programs,
             ProgramChange(ch, t)
      PROVE  NotesFit'
  BY <1>8, <1>3 DEF ProgramChange
<1>9. ASSUME NEW i \in Instruments, NEW config \in Configs,
             UpdateVoice(config, i),
             \A j \in Instruments :
                config[j].note_count = instruments[j].note_count
      PROVE  NotesFit'
  <2>1. instruments' = config
    BY <1>9 DEF UpdateVoice
  <2>2. QED
    BY <2>1, <1>2, <1>9
<1>10. ASSUME ParameterChange
       PROVE  NotesFit'
  <2>1. PICK i \in Instruments, config \in Configs :
           \E map : ParameterEffect(i, config, map)
    BY <1>10, ParameterChangeEffect
  <2>2. PICK map : ParameterEffect(i, config, map)
    BY <2>1
  <2>3. instruments' = config
    BY <2>2 DEF ParameterEffect, Configure
  <2>4. CASE \A j \in Instruments :
                config[j].note_count = instruments[j].note_count
    BY <2>3, <2>4, <1>2
  <2>5. CASE BaseVoice(config, FmSlots) <= FmSlots
    BY <2>3, <2>5 DEF NotesFit
  <2>6. QED
    BY <2>2, <2>4, <2>5 DEF ParameterEffect
<1>11. QED
  BY <1>4, <1>5, <1>6, <1>7, <1>8, <1>9, <1>10, Messages, Zenon

\* For any numbers of notes that parameters have given to instruments, each slot
\* of each instrument has a voice of the chip for itself, as long as the base
\* voices are those that allocate_base_voices() gave out.
THEOREM SlotsHaveVoices == Spec => []VoicesDisjoint
<1>1. TypeOK /\ NotesFit => VoicesDisjoint
  <2> SUFFICES ASSUME TypeOK, NotesFit, Allocated
               PROVE  SlotsDisjoint
    BY DEF VoicesDisjoint
  <2>1. HasCounts(instruments)
    BY TypesOfState
  <2>2. ASSUME NEW p \in ActiveSlots(instruments)
        PROVE  /\ p[1] \in Instruments
               /\ p[2] \in 0 .. instruments[p[1]].note_count - 1
               /\ p = <<p[1], p[2]>>
               /\ Target(instrument_map, p)
                  = BaseVoice(instruments, p[1]) + p[2]
    <3>1. PICK i \in Instruments :
             \E s \in 0 .. instruments[i].note_count - 1 : p = <<i, s>>
      BY DEF ActiveSlots
    <3>2. p = <<p[1], p[2]>> /\ p[1] = i
          /\ p[2] \in 0 .. instruments[i].note_count - 1
      BY <3>1
    <3>3. QED
      BY <3>1, <3>2 DEF Allocated, Target
  <2>3. ASSUME NEW p \in ActiveSlots(instruments),
               NEW q \in ActiveSlots(instruments)
        PROVE  /\ Target(instrument_map, p) \in Voices
               /\ Target(instrument_map, p) = Target(instrument_map, q)
                  => p = q
    <3>1. PICK i \in Instruments, j \in Instruments : i = p[1] /\ j = q[1]
      BY <2>2
    <3>a. PICK s \in 0 .. instruments[i].note_count - 1,
               t \in 0 .. instruments[j].note_count - 1 :
             s = p[2] /\ t = q[2]
      BY <2>2, <3>1
    <3>2. /\ i \in Instruments /\ s \in 0 .. instruments[i].note_count - 1
          /\ j \in Instruments /\ t \in 0 .. instruments[j].note_count - 1
          /\ p = <<i, s>> /\ q = <<j, t>>
          /\ Target(instrument_map, p) = BaseVoice(instruments, i) + s
          /\ Target(instrument_map, q) = BaseVoice(instruments, j) + t
      BY <2>2, <3>1, <3>a
    <3>3. /\ BaseVoice(instruments, i) + s \in Voices
          /\ BaseVoice(instruments, i) + s = BaseVoice(instruments, j) + t
             => i = j /\ s = t
      BY <3>2, <2>1, AllocatedVoicesDiffer DEF NotesFit
    <3>4. QED
      BY <3>2, <3>3
  <2>4. QED
    BY <2>3 DEF SlotsDisjoint
<1>2. Spec => []NotesFit
  BY FitInit, FitInductive, TypeCorrect, PTL DEF Spec
<1>3. QED
  BY <1>1, <1>2, TypeCorrect, PTL

\* Slots that have voices of their own, whatever the base voices are.
OwnVoices(map, slots) ==
    \A p \in slots :
        /\ Target(map, p) \in Voices
        /\ \A q \in slots : Target(map, p) = Target(map, q) => p = q

\* The registers of such a voice are written once.
LEMMA WrittenOnce ==
    ASSUME NEW map, NEW slots, OwnVoices(map, slots), NEW p \in slots,
           NEW v, v = Target(map, p)
    PROVE  /\ v \in Voices /\ v % FmSlots = v
           /\ Writing(map, slots, v) = {p}
           /\ Last(Writing(map, slots, v)) = p
<1>1. ASSUME NEW q \in slots
      PROVE  Target(map, q) \in Voices /\ Target(map, q) % FmSlots = Target(map, q)
  <2>1. PICK w : w = Target(map, q)
    OBVIOUS
  <2>2. w \in Voices
    BY <2>1 DEF OwnVoices
  <2>3. w \in Nat /\ w < FmSlots
    BY <2>2, Numbers
  <2>4. w % FmSlots = w
    BY <2>3, Numbers
  <2>5. QED
    BY <2>1, <2>2, <2>4
<1>2. v \in Voices /\ v % FmSlots = v
  BY <1>1
<1>3. ASSUME NEW q \in Writing(map, slots, v)
      PROVE  q = p
  <2>1. q \in slots /\ Target(map, q) % FmSlots = v
    BY DEF Writing
  <2>2. Target(map, q) = Target(map, p)
    BY <1>1, <2>1
  <2>3. QED
    BY <2>1, <2>2 DEF OwnVoices
<1>4. p \in Writing(map, slots, v)
  BY <1>2 DEF Writing
<1>5. Writing(map, slots, v) = {p}
  BY <1>3, <1>4
<1>6. Last({p}) = p
  BY DEF Last
<1>7. QED
  BY <1>2, <1>5, <1>6

\* The refresh moves no voice.
LEMMA RefreshKeepsVoices ==
    ASSUME NEW config \in Configs, NEW map, NEW on, NEW steps \in Nat,
           map \in Maps(steps), Refresh(config, map, on),
           NEW p \in ActiveSlots(config)
    PROVE  /\ p[1] \in Instruments /\ p[2] \in Slots
           /\ p = <<p[1], p[2]>>
           /\ Target(instrument_map', p) = Target(map, p)
<1>1. PICK i \in Instruments : \E s \in 0 .. config[i].note_count - 1 :
                                  p = <<i, s>>
  BY DEF ActiveSlots
<1>2. config[i].note_count \in 0 .. FmSlots
  BY DEF Configs
<1>3. p[1] = i /\ p[2] \in 0 .. config[i].note_count - 1 /\ p = <<p[1], p[2]>>
  BY <1>1
<1>4. p[2] \in Slots
  BY <1>2, <1>3, Numbers
<1>5. map[i] \in MapEntries(steps)
  BY DEF Maps
<1>6. instrument_map'[i].base_voice = map[i].base_voice
  BY <1>5 DEF Refresh, MapEntries
<1>7. QED
  BY <1>3, <1>4, <1>6 DEF Target

\* After the refresh, the voice of a slot that is pressed is keyed on.
LEMMA RefreshSounds ==
    ASSUME NEW config \in Configs, NEW map, NEW on, NEW steps \in Nat,
           map \in Maps(steps), Refresh(config, map, on),
           OwnVoices(instrument_map', ActiveSlots(config)),
           NEW p \in ActiveSlots(config),
           instrument_map'[p[1]].note_on[p[2]] = 1,
           instrument_map'[p[1]].slot_mask # 0
    PROVE  Target(instrument_map', p) % FmSlots \in keyedOn'
<1> DEFINE slots == ActiveSlots(config)
<1>1. \A q \in slots : Target(instrument_map', q) = Target(map, q)
  BY RefreshKeepsVoices
<1>2. OwnVoices(map, slots)
  BY <1>1 DEF OwnVoices
<1>3. PICK v : v = Target(map, p)
  OBVIOUS
<1>4. /\ v \in Voices /\ v % FmSlots = v
      /\ Writing(map, slots, v) = {p} /\ Last(Writing(map, slots, v)) = p
  BY <1>2, <1>3, WrittenOnce
<1>5. v \in keyedOn' <=> KeyOnMask(KeyedOperators(map[p[1]], p[2]),
                                   Target(map, p)) # 0
  BY <1>4 DEF Refresh
<1>6. p[1] \in Instruments /\ p[2] \in Slots
  BY RefreshKeepsVoices
<1>7. KeyedOperators(map[p[1]], p[2]) = AllOperators
  <2>1. map[p[1]] \in MapEntries(steps)
    BY <1>6 DEF Maps
  <2>2. map[p[1]].slot_mask \in {0, AllOperators}
        /\ map[p[1]].note_on[p[2]] \in -1 .. 2
    BY <2>1, <1>6 DEF MapEntries
  <2>3. /\ instrument_map'[p[1]].slot_mask = map[p[1]].slot_mask
        /\ instrument_map'[p[1]].note_on[p[2]] =
              IF <<p[1], p[2]>> \in slots /\ map[p[1]].note_on[p[2]] = 2
              THEN 1 ELSE map[p[1]].note_on[p[2]]
    BY <1>6, RefreshOfSlot
  <2>4. map[p[1]].note_on[p[2]] >= 0
    BY <2>2, <2>3
  <2>5. QED
    BY <2>2, <2>3, <2>4 DEF KeyedOperators
<1>8. KeyOnMask(AllOperators, v) # 0
  <2>1. v \in Nat /\ v < FmSlots
    BY <1>4, Numbers
  <2>2. v \div FmSlots = 0
    BY <2>1, Numbers
  <2>3. QED
    BY <2>2 DEF KeyOnMask, AllOperators
<1>9. v \in keyedOn'
  BY <1>3, <1>5, <1>7, <1>8
<1>10. QED
  BY <1>1, <1>3, <1>4, <1>9

\* Every message ends with a refresh.
LEMMA MessagesRefresh ==
    ASSUME TypeOK, Next
    PROVE  Refreshes
<1>1. ASSUME NEW ch \in Instruments, NEW n \in use.notes, NoteOn(ch, n)
      PROVE  Refreshes
  <2>1. instruments' = instruments
    BY <1>1 DEF NoteOn
  <2>2. QED
    BY <1>1, <2>1, NoteOnRefreshes DEF Refreshes
<1>2. ASSUME NEW ch \in Channels,
             AllNotesOff(ch) \/ \E n \in use.notes : NoteOff(ch, n)
      PROVE  Refreshes
  <2>1. /\ instruments' = instruments /\ Bounded
        /\ \E releases : Release(releases)
    BY <1>2 DEF AllNotesOff, NoteOff
  <2>2. QED
    BY <2>1, ReleaseRefreshes DEF Refreshes
<1>3. ASSUME NEW released, ResetAll(released)
      PROVE  Refreshes
  <2>1. instruments' = instruments
    BY <1>3 DEF ResetAll
  <2>2. QED
    BY <1>3, <2>1, ResetRefreshes DEF Refreshes
<1>4. ASSUME NEW ch \in Channels, NEW t \in use.programs,
             ProgramChange(ch, t)
      PROVE  Refreshes
  <2>1. /\ Bounded /\ instruments' = instruments
        /\ SetVoice(instruments, instrument_map, OnChannel(ch), t)
    BY <1>4 DEF ProgramChange
  <2>2. QED
    BY <2>1, SetVoiceRefreshes DEF Refreshes
<1>5. ASSUME NEW i \in Instruments, NEW config \in Configs, Bounded,
             UpdateVoice(config, i)
      PROVE  Refreshes
  <2>1. /\ instruments' = config
        /\ \E targets : SetVoice(config, instrument_map, targets,
                                 config[i].voice)
    BY <1>5 DEF UpdateVoice
  <2>2. QED
    BY <1>5, <2>1, SetVoiceRefreshes DEF Refreshes
<1>6. ASSUME ParameterChange
      PROVE  Refreshes
  <2>1. PICK i \in Instruments, config \in Configs :
           \E map : ParameterEffect(i, config, map)
    BY <1>6, ParameterChangeEffect
  <2>2. PICK map : ParameterEffect(i, config, map)
    BY <2>1
  <2>3. /\ Refreshable(map, use.maxStep) /\ instruments' = config
        /\ Refresh(config, map, keyedOn)
    BY <2>2 DEF ParameterEffect, Configure
  <2>4. QED
    BY <2>3 DEF Refreshes
<1>7. QED
  BY <1>1, <1>2, <1>3, <1>4, <1>5, <1>6, Messages, Zenon

\* As long as slots have voices of their own, a slot that is pressed sounds after
\* every message: whatever was sent in between, for this instrument or another,
\* and however notes moved from voice to voice.
THEOREM PressedSlotsSound == Spec => []PressedKeysSound
<1>1. Init => PressedKeysSound
  <2> SUFFICES ASSUME Init, NEW p \in ActiveSlots(instruments), StateOf(p) = 1
               PROVE  FALSE
    BY DEF PressedKeysSound
  <2>1. PICK i \in Instruments :
           \E s \in 0 .. instruments[i].note_count - 1 : p = <<i, s>>
    BY DEF ActiveSlots
  <2>2. instruments[i].note_count = 1
    BY DEF Init
  <2>3. p = <<i, 0>> /\ 0 \in Slots
    BY <2>1, <2>2, Numbers
  <2>4. instrument_map[i].note_on[0] = -1
    BY <2>3 DEF Init, FreshMap
  <2>5. QED
    BY <2>3, <2>4 DEF StateOf
<1>2. PressedKeysSound /\ TypeOK /\ TypeOK' /\ [Next]_vars => PressedKeysSound'
  <2> SUFFICES ASSUME PressedKeysSound, TypeOK, TypeOK', [Next]_vars
               PROVE  PressedKeysSound'
    OBVIOUS
  <2>1. CASE UNCHANGED vars
    BY <2>1 DEF vars, PressedKeysSound, SlotsDisjoint, StateOf, Sounds
  <2>2. CASE Next
    <3> SUFFICES ASSUME SlotsDisjoint', NEW p \in ActiveSlots(instruments'),
                        StateOf(p)' = 1, instrument_map'[p[1]].slot_mask # 0
                 PROVE  Sounds(p)'
      BY DEF PressedKeysSound
    <3>1. PICK map, on : /\ Refreshable(map, use.maxStep)
                         /\ Refresh(instruments', map, on)
      BY <2>2, MessagesRefresh DEF Refreshes
    <3>2. PICK config : config = instruments'
      OBVIOUS
    <3>3. config \in Configs
      BY <3>2 DEF TypeOK, Configs
    <3>4. /\ use.maxStep \in Nat /\ map \in Maps(use.maxStep)
          /\ Refresh(config, map, on)
      BY <3>1, <3>2, TypesOfState DEF Refreshable
    <3>5. /\ OwnVoices(instrument_map', ActiveSlots(config))
          /\ p \in ActiveSlots(config)
          /\ instrument_map'[p[1]].note_on[p[2]] = 1
      BY <3>2 DEF SlotsDisjoint, OwnVoices, StateOf
    <3>6. Target(instrument_map', p) % FmSlots \in keyedOn'
      BY <3>3, <3>4, <3>5, RefreshSounds
    <3>7. QED
      BY <3>6 DEF Sounds
  <2>3. QED
    BY <2>1, <2>2
<1>3. QED
  BY <1>1, <1>2, TypeCorrect, PTL DEF Spec

\* ym2151_set_voice() writes the tone to the voices of its slots, and the refresh
\* leaves them where they are.
LEMMA SetVoiceLoads ==
    ASSUME TypeOK, Bounded, NEW config \in Configs, NEW targets, NEW t,
           SetVoice(config, instrument_map, targets, t),
           OwnVoices(instrument_map', ActiveSlots(config)),
           NEW p \in ActiveSlots(config), p[1] \in targets
    PROVE  tone'[Target(instrument_map', p) % FmSlots] = t
<1> DEFINE slots == {q \in ActiveSlots(config) : q[1] \in targets}
<1>1. \A i \in Instruments : instrument_map[i] \in MapEntries(use.maxStep)
  BY TypesOfState DEF Maps
<1>2. PICK map : map = VoicedMap(config, targets)
  OBVIOUS
<1>3. \A i \in Instruments :
         /\ map[i] \in MapEntries(use.maxStep)
         /\ map[i].base_voice = instrument_map[i].base_voice
  <2> SUFFICES ASSUME NEW i \in Instruments
               PROVE  /\ map[i] \in MapEntries(use.maxStep)
                      /\ map[i].base_voice = instrument_map[i].base_voice
    OBVIOUS
  <2>1. CASE map[i] = instrument_map[i]
    BY <2>1, <1>1
  <2>2. CASE map[i] = [instrument_map[i] EXCEPT !.slot_mask = AllOperators]
    BY <2>2, <1>1 DEF MapEntries
  <2>3. QED
    BY <2>1, <2>2, <1>2 DEF VoicedMap
<1>4. map \in Maps(use.maxStep) /\ use.maxStep \in Nat
  BY <1>2, <1>3, TypesOfState DEF Maps, VoicedMap
<1>5. /\ Refresh(config, map, keyedOn)
      /\ tone' = Load(instrument_map, slots, t, tone)
  BY <1>2 DEF SetVoice, VoicedMap
<1>6. ASSUME NEW q \in ActiveSlots(config)
      PROVE  Target(instrument_map', q) = Target(instrument_map, q)
  <2>1. q[1] \in Instruments /\ Target(instrument_map', q) = Target(map, q)
    BY <1>4, <1>5, RefreshKeepsVoices
  <2>2. QED
    BY <2>1, <1>3 DEF Target
<1>7. OwnVoices(instrument_map, slots)
  BY <1>6 DEF OwnVoices
<1>8. PICK v : v = Target(instrument_map, p)
  OBVIOUS
<1>a. p \in slots
  OBVIOUS
<1> HIDE DEF slots
<1>9. /\ v \in Voices /\ v % FmSlots = v
      /\ Writing(instrument_map, slots, v) = {p}
      /\ Last(Writing(instrument_map, slots, v)) = p
  BY <1>7, <1>8, <1>a, WrittenOnce
<1>10. tone'[v] = t
  BY <1>5, <1>8, <1>9 DEF Load
<1>11. QED
  BY <1>6, <1>8, <1>9, <1>10

\* A program change writes its tone to the registers of all voices of all
\* instruments on the channel, wherever the numbers of notes have moved them, as
\* long as slots have voices of their own.
THEOREM ProgramsReachVoices == Spec => []ProgramLoaded
<1>1. Init => ProgramLoaded
  BY DEF Init, NoSelection, ProgramLoaded
<1>2. ProgramLoaded /\ TypeOK /\ [Next]_vars => ProgramLoaded'
  <2> SUFFICES ASSUME ProgramLoaded, TypeOK, [Next]_vars,
                      SlotsDisjoint', selection'.by = "program"
               PROVE  SelectionLoaded'
    BY DEF ProgramLoaded
  <2>1. CASE UNCHANGED vars
    BY <2>1 DEF vars, ghostVars, ProgramLoaded, SlotsDisjoint, SelectionLoaded
  <2>2. ASSUME NEW ch \in Channels, NEW t \in use.programs,
               ProgramChange(ch, t)
        PROVE  SelectionLoaded'
    <3>1. /\ Bounded /\ instruments' = instruments
          /\ SetVoice(instruments, instrument_map, OnChannel(ch), t)
          /\ selection'.instruments = OnChannel(ch) /\ selection'.tone = t
      BY <2>2 DEF ProgramChange
    <3>2. PICK config : config = instruments
      OBVIOUS
    <3>3. config \in Configs
      BY <3>2, TypesOfState
    <3>4. OwnVoices(instrument_map', ActiveSlots(config))
      BY <3>1, <3>2 DEF SlotsDisjoint, OwnVoices
    <3>5. ASSUME NEW p \in ActiveSlots(config), p[1] \in OnChannel(ch)
          PROVE  tone'[Target(instrument_map', p) % FmSlots] = t
      BY <3>1, <3>2, <3>3, <3>4, <3>5, SetVoiceLoads
    <3>6. QED
      BY <3>1, <3>2, <3>5 DEF SelectionLoaded
  <2>3. CASE selection' = NoSelection
    BY <2>3 DEF NoSelection
  <2>4. ASSUME NEW ch \in Instruments, NEW n \in use.notes, NoteOn(ch, n)
        PROVE  SelectionLoaded'
    BY <2>3, <2>4 DEF NoteOn
  <2>5. ASSUME NEW ch \in Channels,
               AllNotesOff(ch) \/ \E n \in use.notes : NoteOff(ch, n)
        PROVE  SelectionLoaded'
    BY <2>3, <2>5 DEF AllNotesOff, NoteOff
  <2>6. ASSUME NEW released, ResetAll(released)
        PROVE  SelectionLoaded'
    BY <2>3, <2>6 DEF ResetAll
  <2>7. ASSUME NEW i \in Instruments, NEW config, UpdateVoice(config, i)
        PROVE  SelectionLoaded'
    BY <2>7 DEF UpdateVoice
  <2>8. ASSUME ParameterChange
        PROVE  SelectionLoaded'
    <3>1. \E config, map : Configure(config, map)
      BY <2>8 DEF ParameterChange, SetNoteCount, SetChannel, SetKeyLow,
                  SetKeyHigh
    <3>2. QED
      BY <3>1, <2>3 DEF Configure
  <2>9. QED
    BY <2>1, <2>2, <2>4, <2>5, <2>6, <2>7, <2>8, Messages, Zenon
<1>3. QED
  BY <1>1, <1>2, TypeCorrect, PTL DEF Spec

-----------------------------------------------------------------------------
(* 5. Keys *)

\* The sessions for which the theorems of this section hold: channels are not
\* assigned anew when notes are played, and no key is pressed that has no slot.
\* In the others notes hang (MCFb01Voices, ChannelsChange and HoldsUnvoiced).
ChannelsKept == \A u \in Uses : u.notes = {} \/ u.channels = {}
HoldsVoiced == \A u \in Uses : ~u.mayHoldUnvoiced

\* A note reaches the instrument with the number of its channel only.
ChannelsOwn ==
    use.notes = {} \/ \A i \in Instruments : instruments[i].midi_channel = i

IsPressed(i, s) == instrument_map[i].note_on[s] > 0

\* A pressed slot is one of the instrument's, plays a note whose key is down, and
\* was refreshed.
PressedSlotsHeld ==
    \A i \in Instruments, s \in Slots :
        /\ instrument_map[i].note_on[s] # 2
        /\ IsPressed(i, s) =>
              /\ s \in Active(i)
              /\ instrument_map[i].note[s] \in down[i]
              /\ instrument_map[i].step[s] >= 1

\* A slot that was refreshed as often as another was pressed before it.
LongerHeldFirst ==
    \A i \in Instruments : \A s, t \in Slots :
        /\ s # t /\ IsPressed(i, s) /\ IsPressed(i, t)
        /\ instrument_map[i].step[s] >= instrument_map[i].step[t]
        => <<s, t>> \in pressedBefore[i]

\* The inductive invariant.
KeysInv == ChannelsOwn /\ PressedSlotsHeld /\ LongerHeldFirst

\* The slots of a configuration that are refreshed.
LEMMA ActivePairs ==
    ASSUME NEW config, NEW i \in Instruments, NEW s
    PROVE  <<i, s>> \in ActiveSlots(config)
           <=> s \in 0 .. config[i].note_count - 1
BY DEF ActiveSlots

\* A slot that a message leaves alone stays pressed or not, and the time that it
\* is held is counted.
LEMMA SlotKept ==
    ASSUME TypeOK, PressedSlotsHeld,
           NEW config \in Configs, NEW map, NEW on,
           Refreshable(map, use.maxStep), Refresh(config, map, on),
           instruments' = config,
           NEW i \in Instruments, NEW s \in Slots,
           map[i].note[s] = instrument_map[i].note[s],
           map[i].note_on[s] = instrument_map[i].note_on[s],
           map[i].step[s] = instrument_map[i].step[s],
           \/ down[i] = {}
           \/ config[i].note_count = instruments[i].note_count
    PROVE  /\ instrument_map[i].note_on[s] \in -1 .. 1
           /\ instrument_map'[i].note_on[s] = instrument_map[i].note_on[s]
           /\ instrument_map'[i].note[s] = instrument_map[i].note[s]
           /\ IsPressed(i, s) =>
                 /\ s \in 0 .. config[i].note_count - 1
                 /\ instrument_map[i].note[s] \in down[i]
                 /\ instrument_map[i].step[s] \in Nat
                 /\ instrument_map'[i].step[s] = instrument_map[i].step[s] + 1
<1>1. map \in Maps(use.maxStep) /\ use.maxStep \in Nat
  BY TypesOfState DEF Refreshable
<1>2. PICK was : was = instrument_map[i].note_on[s]
  OBVIOUS
<1>3. instrument_map[i] \in MapEntries(use.maxStep)
  BY TypesOfState DEF Maps
<1>4. was \in -1 .. 1 /\ instrument_map[i].step[s] \in Nat
  <2>1. was \in -1 .. 2 /\ was # 2
    BY <1>2, <1>3 DEF MapEntries, PressedSlotsHeld
  <2>2. instrument_map[i].step[s] \in 0 .. use.maxStep
    BY <1>3 DEF MapEntries
  <2>3. QED
    BY <2>1, <2>2, <1>1
<1>5. /\ instrument_map'[i].note = map[i].note
      /\ instrument_map'[i].note_on[s] =
            IF <<i, s>> \in ActiveSlots(config) /\ map[i].note_on[s] = 2
            THEN 1 ELSE map[i].note_on[s]
      /\ instrument_map'[i].step[s] =
            IF map[i].note_on[s] <= 0 THEN 0
            ELSE IF <<i, s>> \in ActiveSlots(config)
            THEN map[i].step[s] + 1 ELSE map[i].step[s]
  BY <1>1, RefreshOfSlot
<1>6. instrument_map'[i].note_on[s] = was
  <2>1. map[i].note_on[s] # 2
    BY <1>2, <1>4
  <2>2. QED
    BY <2>1, <1>2, <1>5
<1>7. ASSUME IsPressed(i, s)
      PROVE  /\ s \in 0 .. config[i].note_count - 1
             /\ instrument_map[i].note[s] \in down[i]
             /\ instrument_map'[i].step[s] = instrument_map[i].step[s] + 1
  <2>1. s \in Active(i) /\ instrument_map[i].note[s] \in down[i]
    BY <1>7 DEF PressedSlotsHeld
  <2>2. s \in 0 .. config[i].note_count - 1
    BY <2>1 DEF Active, NoteCount
  <2>3. <<i, s>> \in ActiveSlots(config)
    BY <2>2, ActivePairs
  <2>4. ~(map[i].note_on[s] <= 0)
    BY <1>7, <1>2, <1>4 DEF IsPressed
  <2>5. QED
    BY <2>1, <2>2, <2>3, <2>4, <1>5
<1>8. QED
  BY <1>2, <1>4, <1>5, <1>6, <1>7

\* Messages that press and release nothing keep the keys.
LEMMA KeysKept ==
    ASSUME TypeOK, PressedSlotsHeld, LongerHeldFirst,
           NEW config \in Configs, NEW map, NEW on,
           Refreshable(map, use.maxStep), KeepsKeys(map),
           Refresh(config, map, on), instruments' = config,
           down' = down, pressedBefore' = pressedBefore,
           \A i \in Instruments :
              \/ down[i] = {}
              \/ config[i].note_count = instruments[i].note_count
    PROVE  PressedSlotsHeld' /\ LongerHeldFirst'
<1>1. ASSUME NEW i \in Instruments, NEW s \in Slots
      PROVE  /\ instrument_map[i].note_on[s] \in -1 .. 1
             /\ instrument_map'[i].note_on[s] = instrument_map[i].note_on[s]
             /\ instrument_map'[i].note[s] = instrument_map[i].note[s]
             /\ IsPressed(i, s) =>
                   /\ s \in 0 .. config[i].note_count - 1
                   /\ instrument_map[i].note[s] \in down[i]
                   /\ instrument_map[i].step[s] \in Nat
                   /\ instrument_map'[i].step[s]
                      = instrument_map[i].step[s] + 1
  <2>1. /\ map[i].note[s] = instrument_map[i].note[s]
        /\ map[i].note_on[s] = instrument_map[i].note_on[s]
        /\ map[i].step[s] = instrument_map[i].step[s]
    BY DEF KeepsKeys
  <2>2. QED
    BY <2>1, SlotKept
<1>2. ASSUME NEW i \in Instruments, NEW s \in Slots
      PROVE  /\ instrument_map'[i].note_on[s] # 2
             /\ IsPressed(i, s)' =>
                   /\ s \in Active(i)'
                   /\ instrument_map'[i].note[s] \in down'[i]
                   /\ instrument_map'[i].step[s] >= 1
  <2>1. instrument_map'[i].note_on[s] # 2
    BY <1>1
  <2>2. ASSUME IsPressed(i, s)'
        PROVE  /\ s \in Active(i)'
               /\ instrument_map'[i].note[s] \in down'[i]
               /\ instrument_map'[i].step[s] >= 1
    <3>1. IsPressed(i, s)
      BY <2>2, <1>1 DEF IsPressed
    <3>2. QED
      BY <3>1, <1>1 DEF Active, NoteCount
  <2>3. QED
    BY <2>1, <2>2
<1>3. ASSUME NEW i \in Instruments, NEW s \in Slots, NEW t \in Slots,
             s # t, IsPressed(i, s)', IsPressed(i, t)',
             instrument_map'[i].step[s] >= instrument_map'[i].step[t]
      PROVE  <<s, t>> \in pressedBefore'[i]
  <2>1. IsPressed(i, s) /\ IsPressed(i, t)
    BY <1>1, <1>3 DEF IsPressed
  <2>2. instrument_map[i].step[s] >= instrument_map[i].step[t]
    BY <2>1, <1>1, <1>3
  <2>3. QED
    BY <2>1, <2>2, <1>3 DEF LongerHeldFirst
<1>4. QED
  BY <1>2, <1>3 DEF PressedSlotsHeld, LongerHeldFirst

\* A note that is played is received by one instrument, the one with the number
\* of its channel.
LEMMA ReceivedByOwn ==
    ASSUME ChannelsOwn, NEW ch \in Instruments, NEW n \in use.notes
    PROVE  ReceivedBy(ch, n) \subseteq {ch}
BY DEF ChannelsOwn, ReceivedBy, IsOnInstrument

\* The new pairs: the slot that is pressed is the last of those that are.
LEMMA PressedLast ==
    ASSUME NEW i \in Instruments, NEW s \in Slots,
           NEW a \in Slots, NEW b \in Slots, a # b, a # s, IsPressed(i, a),
           b # s => <<a, b>> \in pressedBefore[i]
    PROVE  <<a, b>> \in Without(pressedBefore[i], {s})
                        \union (PressedSlots(i) \ {s}) \X {s}
<1>1. CASE b = s
  <2>1. a \in PressedSlots(i) \ {s}
    BY DEF PressedSlots, IsPressed
  <2>2. QED
    BY <2>1, <1>1
<1>2. CASE b # s
  BY <1>2 DEF Without
<1>3. QED
  BY <1>1, <1>2

\* A key that is pressed takes a slot, and leaves the others as they are.
LEMMA NoteOnKeys ==
    ASSUME TypeOK, KeysInv, HoldsVoiced,
           NEW ch \in Instruments, NEW n \in use.notes, NoteOn(ch, n)
    PROVE  PressedSlotsHeld' /\ LongerHeldFirst'
<1>1. PICK s \in Slots :
         /\ s = TakenSlot(ch, n)
         /\ Refreshable(PressedMap(ch, n, s), use.maxStep)
         /\ Refresh(instruments, PressedMap(ch, n, s), keyedOn)
  BY NoteOnRefreshes
<1>2. n \in Nat
  BY TypesOfState, UseTypes
<1>3. ReceivedBy(ch, n) = {ch}
  BY ReceivedByOwn DEF NoteOn, KeysInv
<1>4. s \in Active(ch)
  <2>1. use \in Uses /\ NoteCount(ch) \in 0 .. FmSlots
    BY TypesOfState
  <2>2. ~use.mayHoldUnvoiced
    BY <2>1 DEF HoldsVoiced
  <2>3. NoteCount(ch) > 0
    BY <2>2, <1>3 DEF NoteOn
  <2>4. QED
    BY <2>3, <1>1, <1>2, TakenSlotProperties
<1>5. /\ instruments' = instruments
      /\ down' = [i \in Instruments |->
            IF i \in ReceivedBy(ch, n) THEN down[i] \union {n} ELSE down[i]]
      /\ pressedBefore' = [pressedBefore EXCEPT ![ch] =
            Without(@, {s}) \union (PressedSlots(ch) \ {s}) \X {s}]
  BY <1>1 DEF NoteOn
<1>6. \A i \in Instruments : Active(i)' = Active(i) /\ down[i] \subseteq down'[i]
  BY <1>5 DEF Active, NoteCount
<1>7. PICK config : config = instruments
  OBVIOUS
<1>8. PICK map : map = PressedMap(ch, n, s)
  OBVIOUS
<1>9. /\ config \in Configs /\ Refreshable(map, use.maxStep)
      /\ map \in Maps(use.maxStep) /\ use.maxStep \in Nat
      /\ Refresh(config, map, keyedOn)
      /\ instruments' = config
  BY <1>1, <1>5, <1>7, <1>8, TypesOfState DEF Refreshable
<1>10. /\ instrument_map'[ch].note[s] = n
       /\ instrument_map'[ch].note_on[s] = 1
       /\ instrument_map'[ch].step[s] = 1
  <2>1. map[ch].note[s] = n /\ map[ch].note_on[s] = 2 /\ map[ch].step[s] = 0
    BY <1>2, <1>8, PressedMapSlots
  <2>2. <<ch, s>> \in ActiveSlots(config)
    BY <1>4, <1>7, ActivePairs DEF Active, NoteCount
  <2>3. /\ instrument_map'[ch].note = map[ch].note
        /\ instrument_map'[ch].note_on[s] =
              IF <<ch, s>> \in ActiveSlots(config) /\ map[ch].note_on[s] = 2
              THEN 1 ELSE map[ch].note_on[s]
        /\ instrument_map'[ch].step[s] =
              IF map[ch].note_on[s] <= 0 THEN 0
              ELSE IF <<ch, s>> \in ActiveSlots(config)
              THEN map[ch].step[s] + 1 ELSE map[ch].step[s]
    BY <1>9, RefreshOfSlot
  <2>4. QED
    BY <2>1, <2>2, <2>3
<1>11. ASSUME NEW i \in Instruments, NEW t \in Slots, <<i, t>> # <<ch, s>>
       PROVE  /\ instrument_map[i].note_on[t] \in -1 .. 1
              /\ instrument_map'[i].note_on[t] = instrument_map[i].note_on[t]
              /\ instrument_map'[i].note[t] = instrument_map[i].note[t]
              /\ IsPressed(i, t) =>
                    /\ t \in 0 .. config[i].note_count - 1
                    /\ instrument_map[i].note[t] \in down[i]
                    /\ instrument_map[i].step[t] \in Nat
                    /\ instrument_map'[i].step[t]
                       = instrument_map[i].step[t] + 1
  <2>1. /\ map[i].note[t] = instrument_map[i].note[t]
        /\ map[i].note_on[t] = instrument_map[i].note_on[t]
        /\ map[i].step[t] = instrument_map[i].step[t]
    <3>1. /\ map[i].note[t] = IF i = ch /\ t = s THEN n
                             ELSE instrument_map[i].note[t]
          /\ map[i].note_on[t] = IF i = ch /\ t = s THEN 2
                                ELSE instrument_map[i].note_on[t]
          /\ map[i].step[t] = IF i = ch /\ t = s THEN 0
                             ELSE instrument_map[i].step[t]
      BY <1>2, <1>8, PressedMapSlots
    <3>2. ~(i = ch /\ t = s)
      BY <1>11
    <3>3. QED
      BY <3>1, <3>2
  <2>2. config[i].note_count = instruments[i].note_count
    BY <1>7
  <2>3. QED
    BY <2>1, <2>2, <1>9, SlotKept DEF KeysInv
<1>12. ASSUME NEW i \in Instruments, NEW t \in Slots
       PROVE  /\ instrument_map'[i].note_on[t] # 2
              /\ IsPressed(i, t)' =>
                    /\ t \in Active(i)'
                    /\ instrument_map'[i].note[t] \in down'[i]
                    /\ instrument_map'[i].step[t] >= 1
  <2>1. CASE <<i, t>> = <<ch, s>>
    <3>1. n \in down'[ch]
      BY <1>3, <1>5
    <3>2. QED
      BY <2>1, <3>1, <1>4, <1>6, <1>10
  <2>2. CASE <<i, t>> # <<ch, s>>
    <3>1. instrument_map'[i].note_on[t] # 2
      BY <2>2, <1>11
    <3>2. ASSUME IsPressed(i, t)'
          PROVE  /\ t \in Active(i)'
                 /\ instrument_map'[i].note[t] \in down'[i]
                 /\ instrument_map'[i].step[t] >= 1
      <4>1. IsPressed(i, t)
        BY <2>2, <3>2, <1>11 DEF IsPressed
      <4>2. t \in Active(i)
        BY <4>1, <2>2, <1>7, <1>11 DEF Active, NoteCount
      <4>3. QED
        BY <4>1, <4>2, <2>2, <1>6, <1>11
    <3>3. QED
      BY <3>1, <3>2
  <2>3. QED
    BY <2>1, <2>2
<1>13. ASSUME NEW i \in Instruments, NEW a \in Slots, NEW b \in Slots,
              a # b, IsPressed(i, a)', IsPressed(i, b)',
              instrument_map'[i].step[a] >= instrument_map'[i].step[b]
       PROVE  <<a, b>> \in pressedBefore'[i]
  <2>1. CASE i # ch
    <3>1. <<i, a>> # <<ch, s>> /\ <<i, b>> # <<ch, s>>
      BY <2>1
    <3>2. IsPressed(i, a) /\ IsPressed(i, b)
      BY <3>1, <1>11, <1>13 DEF IsPressed
    <3>3. instrument_map[i].step[a] >= instrument_map[i].step[b]
      BY <3>1, <3>2, <1>11, <1>13
    <3>4. <<a, b>> \in pressedBefore[i]
      BY <3>2, <3>3, <1>13 DEF LongerHeldFirst, KeysInv
    <3>5. pressedBefore'[i] = pressedBefore[i]
      BY <2>1, <1>5, KeptTypes
    <3>6. QED
      BY <3>4, <3>5
  <2>2. CASE i = ch
    <3>1. pressedBefore'[i] = Without(pressedBefore[i], {s})
                              \union (PressedSlots(i) \ {s}) \X {s}
      BY <2>2, <1>5, KeptTypes
    <3>2. CASE a = s
      <4>1. <<i, b>> # <<ch, s>>
        BY <3>2, <1>13
      <4>2. IsPressed(i, b)
        BY <4>1, <1>11, <1>13 DEF IsPressed
      <4>3. instrument_map[i].step[b] >= 1
        BY <4>2 DEF KeysInv, PressedSlotsHeld
      <4>4. instrument_map'[i].step[b] >= 2
        BY <4>1, <4>2, <4>3, <1>11
      <4>5. instrument_map[i].step[b] \in Nat
        BY <4>1, <4>2, <1>11
      <4>6. QED
        BY <4>1, <4>2, <4>3, <4>5, <1>10, <1>11, <1>13, <2>2, <3>2
    <3>3. CASE a # s
      <4>1. <<i, a>> # <<ch, s>>
        BY <3>3
      <4>2. IsPressed(i, a)
        BY <4>1, <1>11, <1>13 DEF IsPressed
      <4>3. ASSUME b # s
            PROVE  <<a, b>> \in pressedBefore[i]
        <5>1. <<i, b>> # <<ch, s>>
          BY <4>3
        <5>2. IsPressed(i, b)
          BY <5>1, <1>11, <1>13 DEF IsPressed
        <5>3. instrument_map[i].step[a] >= instrument_map[i].step[b]
          BY <4>1, <4>2, <5>1, <5>2, <1>11, <1>13
        <5>4. QED
          BY <4>2, <5>2, <5>3, <1>13 DEF LongerHeldFirst, KeysInv
      <4>4. QED
        BY <3>1, <3>3, <4>2, <4>3, <1>13, PressedLast
    <3>4. QED
      BY <3>2, <3>3
  <2>3. QED
    BY <2>1, <2>2
<1>14. QED
  BY <1>12, <1>13 DEF PressedSlotsHeld, LongerHeldFirst

\* A release takes slots away, and leaves the others as they are.
LEMMA ReleaseKeys ==
    ASSUME TypeOK, KeysInv, Bounded, NEW releases, Release(releases),
           instruments' = instruments,
           \A i \in Instruments, s \in Slots :
              /\ IsPressed(i, s) /\ instrument_map[i].note[s] \in down[i]
              /\ s \in Active(i) /\ s \notin releases[i]
              => instrument_map[i].note[s] \in down'[i]
    PROVE  PressedSlotsHeld' /\ LongerHeldFirst'
<1>1. PICK map : map = ReleasedMap(releases)
  OBVIOUS
<1>2. PICK config : config = instruments
  OBVIOUS
<1>3. /\ config \in Configs /\ Refreshable(map, use.maxStep)
      /\ map \in Maps(use.maxStep) /\ use.maxStep \in Nat
      /\ Refresh(config, map, keyedOn) /\ instruments' = config
      /\ \A i \in Instruments, s \in Slots :
            /\ map[i].note = instrument_map[i].note
            /\ map[i].step = instrument_map[i].step
            /\ map[i].note_on[s] = IF s \in releases[i] THEN 0
                                   ELSE instrument_map[i].note_on[s]
  BY <1>1, <1>2, TypesOfState, ReleaseRefreshes DEF Refreshable
<1>4. ASSUME NEW i \in Instruments, NEW s \in Slots, s \in releases[i]
      PROVE  instrument_map'[i].note_on[s] = 0
  <2>1. map[i].note_on[s] = 0
    BY <1>3, <1>4
  <2>2. instrument_map'[i].note_on[s] =
           IF <<i, s>> \in ActiveSlots(config) /\ map[i].note_on[s] = 2
           THEN 1 ELSE map[i].note_on[s]
    BY <1>3, RefreshOfSlot
  <2>3. QED
    BY <2>1, <2>2
<1>5. ASSUME NEW i \in Instruments, NEW s \in Slots, s \notin releases[i]
      PROVE  /\ instrument_map[i].note_on[s] \in -1 .. 1
             /\ instrument_map'[i].note_on[s] = instrument_map[i].note_on[s]
             /\ instrument_map'[i].note[s] = instrument_map[i].note[s]
             /\ IsPressed(i, s) =>
                   /\ s \in 0 .. config[i].note_count - 1
                   /\ instrument_map[i].note[s] \in down[i]
                   /\ instrument_map[i].step[s] \in Nat
                   /\ instrument_map'[i].step[s]
                      = instrument_map[i].step[s] + 1
  <2>1. /\ map[i].note[s] = instrument_map[i].note[s]
        /\ map[i].note_on[s] = instrument_map[i].note_on[s]
        /\ map[i].step[s] = instrument_map[i].step[s]
    BY <1>3, <1>5
  <2>2. config[i].note_count = instruments[i].note_count
    BY <1>2
  <2>3. QED
    BY <2>1, <2>2, <1>3, SlotKept DEF KeysInv
<1>6. ASSUME NEW i \in Instruments, NEW s \in Slots, IsPressed(i, s)'
      PROVE  s \notin releases[i] /\ IsPressed(i, s)
  BY <1>4, <1>5, <1>6 DEF IsPressed
<1>7. ASSUME NEW i \in Instruments, NEW s \in Slots
      PROVE  /\ instrument_map'[i].note_on[s] # 2
             /\ IsPressed(i, s)' =>
                   /\ s \in Active(i)'
                   /\ instrument_map'[i].note[s] \in down'[i]
                   /\ instrument_map'[i].step[s] >= 1
  <2>1. instrument_map'[i].note_on[s] # 2
    BY <1>4, <1>5
  <2>2. ASSUME IsPressed(i, s)'
        PROVE  /\ s \in Active(i)'
               /\ instrument_map'[i].note[s] \in down'[i]
               /\ instrument_map'[i].step[s] >= 1
    <3>1. s \notin releases[i] /\ IsPressed(i, s)
      BY <2>2, <1>6
    <3>2. s \in Active(i) /\ Active(i)' = Active(i)
      BY <3>1, <1>2, <1>3, <1>5 DEF Active, NoteCount
    <3>3. QED
      BY <3>1, <3>2, <1>5
  <2>3. QED
    BY <2>1, <2>2
<1>8. ASSUME NEW i \in Instruments, NEW s \in Slots, NEW t \in Slots,
             s # t, IsPressed(i, s)', IsPressed(i, t)',
             instrument_map'[i].step[s] >= instrument_map'[i].step[t]
      PROVE  <<s, t>> \in pressedBefore'[i]
  <2>1. /\ s \notin releases[i] /\ IsPressed(i, s)
        /\ t \notin releases[i] /\ IsPressed(i, t)
    BY <1>6, <1>8
  <2>2. instrument_map[i].step[s] >= instrument_map[i].step[t]
    BY <2>1, <1>5, <1>8
  <2>3. <<s, t>> \in pressedBefore[i]
    BY <2>1, <2>2, <1>8 DEF LongerHeldFirst, KeysInv
  <2>4. pressedBefore'[i] = Without(pressedBefore[i], releases[i])
    BY DEF Release
  <2>5. QED
    BY <2>1, <2>3, <2>4 DEF Without
<1>9. QED
  BY <1>7, <1>8 DEF PressedSlotsHeld, LongerHeldFirst

\* Initially no slot is pressed.
LEMMA KeysInit == Init => KeysInv
<1> SUFFICES ASSUME Init
             PROVE  KeysInv
  OBVIOUS
<1>1. \A i \in Instruments : instruments[i].midi_channel = i
  BY DEF Init
<1>2. \A i \in Instruments, s \in Slots : instrument_map[i].note_on[s] = -1
  BY DEF Init, FreshMap
<1>3. \A i \in Instruments, s \in Slots :
         ~IsPressed(i, s) /\ instrument_map[i].note_on[s] # 2
  BY <1>2 DEF IsPressed
<1>4. QED
  BY <1>1, <1>3 DEF KeysInv, ChannelsOwn, PressedSlotsHeld, LongerHeldFirst

\* Instruments keep their channels when notes are played.
LEMMA ChannelsInductive ==
    ASSUME ChannelsKept, TypeOK, ChannelsOwn, Next
    PROVE  ChannelsOwn'
<1>1. CASE use' = use /\ instruments' = instruments
  BY <1>1 DEF ChannelsOwn
<1>2. ASSUME NEW ch \in Instruments, NEW n \in use.notes, NoteOn(ch, n)
      PROVE  ChannelsOwn'
  BY <1>1, <1>2 DEF NoteOn
<1>3. ASSUME NEW ch \in Channels,
             AllNotesOff(ch) \/ \E n \in use.notes : NoteOff(ch, n)
      PROVE  ChannelsOwn'
  BY <1>1, <1>3 DEF AllNotesOff, NoteOff
<1>4. ASSUME NEW released, ResetAll(released)
      PROVE  ChannelsOwn'
  BY <1>1, <1>4 DEF ResetAll
<1>5. ASSUME NEW ch \in Channels, NEW t \in use.programs,
             ProgramChange(ch, t)
      PROVE  ChannelsOwn'
  BY <1>1, <1>5 DEF ProgramChange
<1>6. ASSUME NEW i \in Instruments, NEW config \in Configs,
             UpdateVoice(config, i),
             \A j \in Instruments :
                config[j].midi_channel = instruments[j].midi_channel
      PROVE  ChannelsOwn'
  <2>1. use' = use /\ instruments' = config
    BY <1>6 DEF UpdateVoice
  <2>2. QED
    BY <2>1, <1>6 DEF ChannelsOwn
<1>7. ASSUME ParameterChange
      PROVE  ChannelsOwn'
  <2>1. PICK i \in Instruments, config \in Configs :
           \E map : ParameterEffect(i, config, map)
    BY <1>7, ParameterChangeEffect
  <2>2. /\ use' = use /\ instruments' = config
        /\ \A j \in Instruments \ {i} : config[j] = instruments[j]
        /\ \/ config[i].midi_channel = instruments[i].midi_channel
           \/ config[i].midi_channel \in use.channels
    BY <2>1 DEF ParameterEffect, Configure
  <2>3. use.notes = {} \/ use.channels = {}
    BY TypesOfState DEF ChannelsKept
  <2>4. QED
    BY <2>2, <2>3 DEF ChannelsOwn
<1>8. QED
  BY <1>2, <1>3, <1>4, <1>5, <1>6, <1>7, Messages, Zenon

\* Two messages release keys.
LEMMA KeysReleased ==
    ASSUME TypeOK, KeysInv, NEW ch \in Channels,
           AllNotesOff(ch) \/ \E n \in use.notes : NoteOff(ch, n)
    PROVE  PressedSlotsHeld' /\ LongerHeldFirst'
<1>1. CASE AllNotesOff(ch)
  <2> DEFINE releases == [i \in Instruments |->
                            IF i \in OnChannel(ch) THEN Active(i) ELSE {}]
  <2>1. /\ Bounded /\ Release(releases) /\ instruments' = instruments
        /\ down' = [i \in Instruments |->
              IF i \in OnChannel(ch) THEN {} ELSE down[i]]
    BY <1>1 DEF AllNotesOff
  <2>2. ASSUME NEW i \in Instruments, NEW s \in Slots,
               instrument_map[i].note[s] \in down[i],
               s \in Active(i), s \notin releases[i]
        PROVE  instrument_map[i].note[s] \in down'[i]
    <3>1. i \notin OnChannel(ch)
      BY <2>2
    <3>2. QED
      BY <3>1, <2>1, <2>2
  <2> HIDE DEF releases
  <2>3. QED
    BY <2>1, <2>2, ReleaseKeys
<1>2. CASE \E n \in use.notes : NoteOff(ch, n)
  <2>1. PICK n \in use.notes : NoteOff(ch, n)
    BY <1>2
  <2> DEFINE releases == [i \in Instruments |->
                     IF i \in ReceivedBy(ch, n) THEN Released(i, n) ELSE {}]
  <2>2. /\ Bounded /\ Release(releases) /\ instruments' = instruments
        /\ down' = [i \in Instruments |->
              IF i \in ReceivedBy(ch, n) THEN down[i] \ {n} ELSE down[i]]
    BY <2>1 DEF NoteOff
  <2>3. ASSUME NEW i \in Instruments, NEW s \in Slots,
               instrument_map[i].note[s] \in down[i],
               s \in Active(i), s \notin releases[i]
        PROVE  instrument_map[i].note[s] \in down'[i]
    <3>1. CASE i \in ReceivedBy(ch, n)
      <4>1. instrument_map[i].note[s] # n
        BY <3>1, <2>3 DEF Released
      <4>2. QED
        BY <4>1, <3>1, <2>2, <2>3
    <3>2. CASE i \notin ReceivedBy(ch, n)
      BY <3>2, <2>2, <2>3
    <3>3. QED
      BY <3>1, <3>2
  <2> HIDE DEF releases
  <2>4. QED
    BY <2>2, <2>3, ReleaseKeys
<1>3. QED
  BY <1>1, <1>2

\* A reset leaves no slot pressed.
LEMMA ResetKeys ==
    ASSUME TypeOK, NEW released, ResetAll(released)
    PROVE  PressedSlotsHeld' /\ LongerHeldFirst'
<1>1. ASSUME NEW i \in Instruments, NEW s \in Slots
      PROVE  instrument_map'[i].note_on[s] \in {-1, 0}
  <2>1. PICK map : map = ResetMap(released)
    OBVIOUS
  <2>2. /\ Refreshable(map, use.maxStep) /\ Refresh(instruments, map, {})
        /\ map[i].note_on[s] \in {-1, 0}
    BY <2>1, ResetRefreshes
  <2>3. map \in Maps(use.maxStep) /\ use.maxStep \in Nat
    BY <2>2, TypesOfState DEF Refreshable
  <2>4. instrument_map'[i].note_on[s] =
           IF <<i, s>> \in ActiveSlots(instruments) /\ map[i].note_on[s] = 2
           THEN 1 ELSE map[i].note_on[s]
    BY <2>2, <2>3, RefreshOfSlot
  <2>5. QED
    BY <2>2, <2>4
<1>2. \A i \in Instruments, s \in Slots :
         ~IsPressed(i, s)' /\ instrument_map'[i].note_on[s] # 2
  BY <1>1 DEF IsPressed
<1>3. QED
  BY <1>2 DEF PressedSlotsHeld, LongerHeldFirst

\* Every message keeps the invariant.
LEMMA KeysInductive ==
    ASSUME ChannelsKept, HoldsVoiced
    PROVE  TypeOK /\ KeysInv /\ [Next]_vars => KeysInv'
<1> SUFFICES ASSUME TypeOK, KeysInv, [Next]_vars
             PROVE  KeysInv'
  OBVIOUS
<1>1. CASE UNCHANGED vars
  <2>1. /\ use' = use /\ instruments' = instruments /\ down' = down
        /\ instrument_map' = instrument_map /\ pressedBefore' = pressedBefore
    BY <1>1 DEF vars, ghostVars
  <2>2. QED
    BY <2>1 DEF KeysInv, ChannelsOwn, PressedSlotsHeld, LongerHeldFirst,
                IsPressed, Active, NoteCount
<1>2. CASE Next
  <2>1. ChannelsOwn'
    BY <1>2, ChannelsInductive DEF KeysInv
  <2> DEFINE KeysOk == PressedSlotsHeld' /\ LongerHeldFirst'
  <2>2. ASSUME NEW ch \in Instruments, NEW n \in use.notes, NoteOn(ch, n)
        PROVE  KeysOk
    BY <2>2, NoteOnKeys
  <2>3. ASSUME NEW ch \in Channels,
               AllNotesOff(ch) \/ \E n \in use.notes : NoteOff(ch, n)
        PROVE  KeysOk
    BY <2>3, KeysReleased
  <2>4. ASSUME NEW released, ResetAll(released)
        PROVE  KeysOk
    BY <2>4, ResetKeys
  <2>5. ASSUME NEW config \in Configs, NEW targets, NEW t, Bounded,
               SetVoice(config, instrument_map, targets, t),
               instruments' = config,
               \A j \in Instruments :
                  config[j].note_count = instruments[j].note_count,
               down' = down, pressedBefore' = pressedBefore
        PROVE  KeysOk
    <3>1. PICK map : /\ Refreshable(map, use.maxStep) /\ KeepsKeys(map)
                     /\ Refresh(config, map, keyedOn)
      BY <2>5, SetVoiceRefreshes
    <3>2. QED
      BY <3>1, <2>5, KeysKept DEF KeysInv
  <2>6. ASSUME NEW ch \in Channels, NEW t \in use.programs,
               ProgramChange(ch, t)
        PROVE  KeysOk
    <3>1. PICK config : config = instruments
      OBVIOUS
    <3>2. /\ Bounded /\ instruments' = config
          /\ SetVoice(config, instrument_map, OnChannel(ch), t)
          /\ down' = down /\ pressedBefore' = pressedBefore
      BY <3>1, <2>6 DEF ProgramChange
    <3>3. config \in Configs
      BY <3>1, TypesOfState
    <3> HIDE DEF KeysOk
    <3>4. QED
      BY <3>1, <3>2, <3>3, <2>5
  <2>7. ASSUME NEW i \in Instruments, NEW config \in Configs, Bounded,
               UpdateVoice(config, i),
               \A j \in Instruments :
                  config[j].note_count = instruments[j].note_count
        PROVE  KeysOk
    <3>1. PICK targets : SetVoice(config, instrument_map, targets,
                                  config[i].voice)
      BY <2>7 DEF UpdateVoice
    <3>2. instruments' = config /\ down' = down
          /\ pressedBefore' = pressedBefore
      BY <2>7 DEF UpdateVoice
    <3> HIDE DEF KeysOk
    <3>3. QED
      BY <3>1, <3>2, <2>5, <2>7
  <2>8. ASSUME ParameterChange
        PROVE  KeysOk
    <3>1. PICK i \in Instruments, config \in Configs :
             \E map : ParameterEffect(i, config, map)
      BY <2>8, ParameterChangeEffect
    <3>2. PICK map : ParameterEffect(i, config, map)
      BY <3>1
    <3>3. /\ Refreshable(map, use.maxStep) /\ KeepsKeys(map)
          /\ Refresh(config, map, keyedOn) /\ instruments' = config
          /\ down' = down /\ pressedBefore' = pressedBefore
          /\ \A j \in Instruments :
                \/ down[j] = {}
                \/ config[j].note_count = instruments[j].note_count
      BY <3>2 DEF ParameterEffect, Configure
    <3>4. QED
      BY <3>1, <3>3, KeysKept DEF KeysInv
  <2>9. KeysOk
    <3> HIDE DEF KeysOk
    <3>1. QED
      BY <1>2, <2>2, <2>3, <2>4, <2>6, <2>7, <2>8, Messages, Zenon
  <2>10. QED
    BY <2>1, <2>9 DEF KeysInv
<1>3. QED
  BY <1>1, <1>2

\* The state of the keys, always.
LEMMA KeysInvariant ==
    ASSUME ChannelsKept, HoldsVoiced
    PROVE  Spec => []KeysInv
BY KeysInit, KeysInductive, TypeCorrect, PTL DEF Spec

\* No note hangs, for any number of instruments and notes: a slot that is pressed
\* plays a note whose key is down, through releases, resets, tones and changes of
\* the other parameters, unless channels are assigned anew or a key is pressed on
\* an instrument without slots.
THEOREM NoNoteHangs ==
    ASSUME ChannelsKept, HoldsVoiced
    PROVE  Spec => []HeldKeysPressed
<1>1. TypeOK /\ KeysInv => HeldKeysPressed
  <2> SUFFICES ASSUME TypeOK, KeysInv, NEW p \in ActiveSlots(instruments),
                      StateOf(p) > 0
               PROVE  instrument_map[p[1]].note[p[2]] \in down[p[1]]
    BY DEF HeldKeysPressed
  <2>1. PICK i \in Instruments :
           \E s \in 0 .. instruments[i].note_count - 1 : p = <<i, s>>
    BY DEF ActiveSlots
  <2>2. PICK s \in Active(i) : p = <<i, s>>
    BY <2>1 DEF Active, NoteCount
  <2>3. s \in Slots
    BY TypesOfState
  <2>4. IsPressed(i, s)
    BY <2>2 DEF IsPressed, StateOf
  <2>5. QED
    BY <2>2, <2>3, <2>4 DEF KeysInv, PressedSlotsHeld
<1>2. QED
  BY <1>1, KeysInvariant, TypeCorrect, PTL

\* A slot keeps its note.
LEMMA RefreshKeepsNotes ==
    ASSUME NEW config, NEW map, NEW on, NEW steps,
           map \in Maps(steps), Refresh(config, map, on), NEW i \in Instruments
    PROVE  instrument_map'[i].note = map[i].note
<1>1. map[i] \in MapEntries(steps)
  BY DEF Maps
<1>2. QED
  BY <1>1 DEF Refresh, MapEntries

\* The slots' notes change only when a key is pressed.
LEMMA OnlyNotesStart ==
    ASSUME TypeOK, Next, NEW i \in Instruments, NEW s \in Slots,
           instrument_map'[i].note_on[s] = 1,
           instrument_map'[i].note[s] # instrument_map[i].note[s]
    PROVE  \E n \in use.notes : NoteOn(i, n) /\ s = TakenSlot(i, n)
<1> DEFINE Started == \E n \in use.notes : NoteOn(i, n) /\ s = TakenSlot(i, n)
<1>1. ASSUME NEW config \in Configs, NEW map, NEW on,
             Refreshable(map, use.maxStep), Refresh(config, map, on),
             map[i].note[s] = instrument_map[i].note[s]
      PROVE  FALSE
  <2>1. map \in Maps(use.maxStep) /\ use.maxStep \in Nat
    BY <1>1, TypesOfState DEF Refreshable
  <2>2. instrument_map'[i].note = map[i].note
    BY <1>1, <2>1, RefreshKeepsNotes
  <2>3. QED
    BY <1>1, <2>2
<1>2. PICK now : now = instruments
  OBVIOUS
<1>3. now \in Configs
  BY <1>2, TypesOfState
<1>4. ASSUME NEW ch \in Instruments, NEW n \in use.notes, NoteOn(ch, n)
      PROVE  Started
  <2>1. PICK t \in Slots :
           /\ t = TakenSlot(ch, n)
           /\ Refreshable(PressedMap(ch, n, t), use.maxStep)
           /\ Refresh(instruments, PressedMap(ch, n, t), keyedOn)
    BY <1>4, NoteOnRefreshes
  <2>2. n \in Nat
    BY TypesOfState, UseTypes
  <2>3. PICK map : map = PressedMap(ch, n, t)
    OBVIOUS
  <2>4. map[i].note[s] = IF i = ch /\ s = t THEN n
                         ELSE instrument_map[i].note[s]
    BY <2>2, <2>3, PressedMapSlots
  <2>5. Refreshable(map, use.maxStep) /\ Refresh(now, map, keyedOn)
    BY <2>1, <2>3, <1>2
  <2>6. i = ch /\ s = t
    BY <2>4, <2>5, <1>1, <1>3
  <2>7. QED
    BY <2>1, <2>6, <1>4
<1>5. ASSUME NEW ch \in Channels,
             AllNotesOff(ch) \/ \E n \in use.notes : NoteOff(ch, n)
      PROVE  Started
  <2>1. Bounded /\ \E releases : Release(releases)
    BY <1>5 DEF AllNotesOff, NoteOff
  <2>2. PICK releases : Release(releases)
    BY <2>1
  <2>3. PICK map : map = ReleasedMap(releases)
    OBVIOUS
  <2>4. /\ Refreshable(map, use.maxStep) /\ Refresh(now, map, keyedOn)
        /\ map[i].note = instrument_map[i].note
    BY <2>1, <2>2, <2>3, <1>2, ReleaseRefreshes
  <2>5. QED
    BY <2>4, <1>1, <1>3
<1>6. ASSUME NEW released, ResetAll(released)
      PROVE  Started
  <2>1. PICK map : map = ResetMap(released)
    OBVIOUS
  <2>2. /\ Refreshable(map, use.maxStep) /\ Refresh(now, map, {})
        /\ map[i].note_on[s] \in {-1, 0}
    BY <2>1, <1>2, <1>6, ResetRefreshes
  <2>3. map \in Maps(use.maxStep) /\ use.maxStep \in Nat
    BY <2>2, TypesOfState DEF Refreshable
  <2>4. instrument_map'[i].note_on[s] =
           IF <<i, s>> \in ActiveSlots(now) /\ map[i].note_on[s] = 2
           THEN 1 ELSE map[i].note_on[s]
    BY <2>2, <2>3, RefreshOfSlot
  <2>5. QED
    BY <2>2, <2>4
<1>7. ASSUME NEW ch \in Channels, NEW t \in use.programs,
             ProgramChange(ch, t)
      PROVE  Started
  <2>1. Bounded /\ SetVoice(now, instrument_map, OnChannel(ch), t)
    BY <1>2, <1>7 DEF ProgramChange
  <2>2. PICK map : /\ Refreshable(map, use.maxStep) /\ KeepsKeys(map)
                   /\ Refresh(now, map, keyedOn)
    BY <2>1, SetVoiceRefreshes
  <2>3. QED
    BY <2>2, <1>1, <1>3 DEF KeepsKeys
<1>8. ASSUME NEW j \in Instruments, NEW config \in Configs, Bounded,
             UpdateVoice(config, j)
      PROVE  Started
  <2>1. PICK targets : SetVoice(config, instrument_map, targets,
                                config[j].voice)
    BY <1>8 DEF UpdateVoice
  <2>2. PICK map : /\ Refreshable(map, use.maxStep) /\ KeepsKeys(map)
                   /\ Refresh(config, map, keyedOn)
    BY <2>1, <1>8, SetVoiceRefreshes
  <2>3. QED
    BY <2>2, <1>1 DEF KeepsKeys
<1>9. ASSUME ParameterChange
      PROVE  Started
  <2>1. PICK j \in Instruments, config \in Configs :
           \E map : ParameterEffect(j, config, map)
    BY <1>9, ParameterChangeEffect
  <2>2. PICK map : ParameterEffect(j, config, map)
    BY <2>1
  <2>3. /\ Refreshable(map, use.maxStep) /\ KeepsKeys(map)
        /\ Refresh(config, map, keyedOn)
    BY <2>2 DEF ParameterEffect, Configure
  <2>4. QED
    BY <2>3, <1>1 DEF KeepsKeys
<1>10. QED
  <2> HIDE DEF Started
  <2>1. Started
    BY <1>4, <1>5, <1>6, <1>7, <1>8, <1>9, Messages, Zenon
  <2>2. QED
    BY <2>1 DEF Started

\* A key that is down loses its slot only when all slots of the instrument are
\* pressed, and then to the key pressed longest ago: the time that a slot is held,
\* counted by the refreshes after every message, orders the keys as they were
\* pressed.
THEOREM FirstKeyGivesWay ==
    ASSUME ChannelsKept, HoldsVoiced
    PROVE  Spec => OldestKeyStolen
<1> DEFINE Kept == \A i \in Instruments : \A s \in Active(i) :
              /\ instrument_map[i].note_on[s] = 1
              /\ instrument_map'[i].note_on[s] = 1
              /\ instrument_map'[i].note[s] # instrument_map[i].note[s]
              => \A t \in Active(i) \ {s} :
                    /\ instrument_map[i].note_on[t] = 1
                    /\ <<s, t>> \in pressedBefore[i]
<1>1. TypeOK /\ KeysInv /\ [Next]_vars => [Kept]_vars
  <2> SUFFICES ASSUME TypeOK, KeysInv, Next,
                      NEW i \in Instruments, NEW s \in Active(i),
                      instrument_map[i].note_on[s] = 1,
                      instrument_map'[i].note_on[s] = 1,
                      instrument_map'[i].note[s] # instrument_map[i].note[s],
                      NEW t \in Active(i) \ {s}
               PROVE  /\ instrument_map[i].note_on[t] = 1
                      /\ <<s, t>> \in pressedBefore[i]
    OBVIOUS
  <2>1. s \in Slots /\ t \in Slots /\ s # t
    BY TypesOfState
  <2>2. PICK n \in use.notes : NoteOn(i, n) /\ s = TakenSlot(i, n)
    BY <2>1, OnlyNotesStart
  <2>3. n \in Nat
    BY TypesOfState, UseTypes
  <2>4. \/ s \in Usable(i, n)
        \/ \A u \in Active(i) :
              /\ instrument_map[i].note_on[u] > 0
              /\ instrument_map[i].note[u] # n
              /\ instrument_map[i].step[s] >= instrument_map[i].step[u]
    BY <2>2, <2>3, TakenSlotProperties
  <2>5. s \notin Usable(i, n)
    <3>1. instrument_map'[i].note[s] = n
      <4>1. PICK map : /\ map = PressedMap(i, n, s)
                       /\ Refreshable(map, use.maxStep)
                       /\ Refresh(instruments, map, keyedOn)
        BY <2>2, NoteOnRefreshes
      <4>2. map[i].note[s] = n
        BY <4>1, <2>1, <2>3, PressedMapSlots
      <4>3. map \in Maps(use.maxStep) /\ use.maxStep \in Nat
        BY <4>1, TypesOfState DEF Refreshable
      <4>4. instrument_map'[i].note = map[i].note
        BY <4>1, <4>3, RefreshKeepsNotes
      <4>5. QED
        BY <4>2, <4>4
    <3>2. QED
      BY <3>1 DEF Usable
  <2>6. /\ instrument_map[i].note_on[t] > 0
        /\ instrument_map[i].step[s] >= instrument_map[i].step[t]
    BY <2>4, <2>5
  <2>7. instrument_map[i].note_on[t] = 1
    <3>1. instrument_map[i] \in MapEntries(use.maxStep)
      BY TypesOfState DEF Maps
    <3>2. instrument_map[i].note_on[t] \in -1 .. 2
      BY <3>1, <2>1 DEF MapEntries
    <3>3. instrument_map[i].note_on[t] # 2
      BY <2>1 DEF KeysInv, PressedSlotsHeld
    <3>4. QED
      BY <3>2, <3>3, <2>6
  <2>8. IsPressed(i, s) /\ IsPressed(i, t)
    BY <2>6 DEF IsPressed
  <2>9. QED
    BY <2>1, <2>6, <2>7, <2>8 DEF KeysInv, LongerHeldFirst
<1>2. Spec => [][Kept]_vars
  <2> HIDE DEF Kept
  <2>1. QED
    BY <1>1, KeysInvariant, TypeCorrect, PTL DEF Spec
<1>3. QED
  BY <1>2 DEF OldestKeyStolen
=============================================================================
