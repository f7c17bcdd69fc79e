---------------------------- MODULE FB01SynthProofs ----------------------------
(***************************************************************************)
(* Proofs about FB01Synth and about the messages that the VFB-01 it drives *)
(* is given: Fb01Controllers and Fb01Exclusive.  For any number of         *)
(* application threads and of chunks: rendering excludes resets, the synth *)
(* outlives the rendering thread, and no chunk is filled while the audio   *)
(* device owns it (part A).  For any instruments, channels, banks and      *)
(* messages: parameter numbers mean what a channel selected (part B), and  *)
(* a dump that comes back over a line that spoils a byte is the bank it    *)
(* was made of, or is reported (part C).                                   *)
(***************************************************************************)
EXTENDS FB01Synth, Fb01Exclusive, TLAPS

-----------------------------------------------------------------------------
(* A. FB01Synth *)

\* The calls that are inside synthEvent, and those that are inside Close().
Holds(t) == app[t] \in {"locked", "reopening", "deleting"}

Closes(t) ==
    app[t] \in {"stopping", "waking", "joining", "closing", "deleting"}

\* synthEvent is a lock: one of the application threads and the rendering
\* thread is inside, or nobody is.
LockInv ==
    /\ thread = "render" => ~synthEvent
    /\ \A t \in AppThreads : Holds(t) => ~synthEvent /\ thread # "render"
    /\ \A t, u \in AppThreads : Holds(t) /\ Holds(u) => t = u

\* What the flag synthOpened says of the calls, the synth and the thread, and
\* what a call of Close() excludes.
LifeInv ==
    /\ ~synthOpened => NoCallUnderWay /\ thread \in {"none", "dead"}
    /\ synth = "none" => ~synthOpened
    /\ synth = "closed" => \E t \in AppThreads : app[t] = "reopening"
    /\ \A t, u \in AppThreads : Closes(t) /\ app[u] # "idle" => t = u
    /\ \A t \in AppThreads :
          app[t] \in {"closing", "deleting"} => thread = "dead"

\* The inductive invariant.
SynthInv == TypeOK /\ ChunkOwnership /\ LockInv /\ LifeInv

-----------------------------------------------------------------------------
\* The driver starts without a synth, a thread or a call.
LEMMA InitSynthInv == Init => SynthInv
<1> SUFFICES ASSUME Init
             PROVE  SynthInv
  OBVIOUS
<1> USE DEF Init
<1>1. TypeOK
  <2>1. playing \in Seq(AllChunks) /\ chunk \in 0 .. Chunks
    BY ChunksAssumption
  <2>2. QED
    BY <2>1 DEF TypeOK, Phases
<1>2. ChunkOwnership
  BY DEF ChunkOwnership
<1>3. LockInv
  BY DEF LockInv, Holds
<1>4. LifeInv
  BY DEF LifeInv, Closes, NoCallUnderWay
<1>5. QED
  BY <1>1, <1>2, <1>3, <1>4 DEF SynthInv

\* The device is opened with every chunk written once, in order.
LEMMA InOrderOnce ==
    /\ InOrder \in Seq(AllChunks)
    /\ \A i, j \in 1 .. Len(InOrder) : InOrder[i] = InOrder[j] => i = j
<1>1. \A i \in 1 .. Chunks : i - 1 \in AllChunks
  BY ChunksAssumption DEF AllChunks
<1>2. InOrder \in [1 .. Chunks -> AllChunks]
  BY <1>1 DEF InOrder
<1>3. InOrder \in Seq(AllChunks) /\ Len(InOrder) = Chunks
  BY <1>2, ChunksAssumption
<1>4. \A i, j \in 1 .. Chunks : InOrder[i] = InOrder[j] => i = j
  BY ChunksAssumption DEF InOrder
<1>5. QED
  BY <1>3, <1>4

\* A step of a call moves its thread and leaves the others where they are.
LEMMA CallMoves ==
    ASSUME TypeOK, NEW t \in AppThreads, AppThread(t)
    PROVE  /\ ~Crashed
           /\ app' \in [AppThreads -> Phases]
           /\ \A u \in AppThreads \ {t} : app'[u] = app[u]
<1>1. \E from, to \in Phases : Goes(t, from, to)
  BY DEF AppThread, NewCall, CallStep, WaitForSynth, FindQueue, ResetDisabled,
         ResetPauses, ClosePauses, Push, ResetCloses, ResetOpens, ResetFails,
         ResetResumes, CloseStops, CloseWakes, CloseJoins, CloseDeletes,
         ApplySettings, ResetLocks, CloseLocks, Phases
<1>2. QED
  BY <1>1 DEF Goes, TypeOK

\* Every step keeps the types; the loop counter stays within the chunks because
\* the rendering thread only writes chunks that the device has played.
LEMMA TypeOKInductive == SynthInv /\ [Next]_vars => TypeOK'
<1> SUFFICES ASSUME SynthInv, [Next]_vars
             PROVE  TypeOK'
  OBVIOUS
<1> USE ChunksAssumption
    DEF SynthInv, TypeOK, vars, synthVars, threadVars, deviceVars
<1>1. CASE RenderingThread
  <2>1. CASE TestStop
    BY <2>1 DEF TestStop
  <2>2. CASE ScanChunk
    <3>1. chunk \in AllChunks /\ chunk + 1 \in 0 .. Chunks
      BY <2>2 DEF ScanChunk, AllChunks
    <3>2. CASE chunk \in done
      BY <2>2, <3>2 DEF ScanChunk
    <3>3. CASE chunk \notin done
      BY <2>2, <3>1, <3>3 DEF ScanChunk
    <3>4. QED
      BY <3>2, <3>3
  <2>3. CASE ScanEnds
    BY <2>3 DEF ScanEnds
  <2>4. CASE LockSynth
    BY <2>4 DEF LockSynth
  <2>5. CASE RenderChunk
    BY <2>5 DEF RenderChunk
  <2>6. CASE RenderCrashes
    BY <2>6 DEF RenderCrashes
  <2>7. CASE WriteChunk
    \* The chunk is one that the device has played.
    <3>1. chunk \in AllChunks
      BY <2>7 DEF WriteChunk, ChunkOwnership
    <3>2. /\ chunk' \in 0 .. Chunks
          /\ playing' \in Seq(AllChunks)
          /\ done' \subseteq AllChunks
      BY <2>7, <3>1 DEF WriteChunk, AllChunks
    <3>3. QED
      BY <2>7, <3>2 DEF WriteChunk
  <2>8. CASE Wake
    BY <2>8 DEF Wake
  <2>9. QED
    BY <1>1, <2>1, <2>2, <2>3, <2>4, <2>5, <2>6, <2>7, <2>8
       DEF RenderingThread
<1>2. CASE DevicePlays
  <2>1. Head(playing) \in AllChunks /\ Tail(playing) \in Seq(AllChunks)
    BY <1>2 DEF DevicePlays
  <2>2. QED
    BY <1>2, <2>1 DEF DevicePlays
<1>3. CASE InitSucceeds
  BY <1>3, InOrderOnce DEF InitSucceeds
<1>4. CASE InitFails
  BY <1>4 DEF InitFails
<1>5. ASSUME NEW t \in AppThreads, AppThread(t)
      PROVE  TypeOK'
  <2>1. app' \in [AppThreads -> Phases]
    BY <1>5, CallMoves
  <2>2. /\ synth' \in {synth, "none", "closed", "open", "failed"}
        /\ synthOpened' \in {synthOpened, FALSE}
        /\ synthEvent' \in {synthEvent, FALSE, TRUE}
        /\ stopProcessing' \in {stopProcessing, TRUE}
        /\ hEvent' \in {hEvent, TRUE}
        /\ UNCHANGED threadVars
        /\ playing' \in {playing, <<>>} /\ done' \in {done, {}}
        /\ paused' \in {paused, TRUE, FALSE}
        /\ dangling' \subseteq AppThreads
    <3>1. CASE NewCall(t)
      BY <3>1 DEF NewCall, FindQueue, ResetDisabled, ResetPauses, ClosePauses
    <3>2. CASE CallStep(t)
      BY <3>2
         DEF CallStep, Push, ResetCloses, ResetOpens, ResetFails, ResetResumes,
             CloseStops, CloseWakes, CloseJoins, CloseDeletes, QueueDeleted
    <3>3. CASE WaitForSynth(t)
      BY <3>3 DEF WaitForSynth, ApplySettings, ResetLocks, CloseLocks
    <3>4. QED
      BY <1>5, <3>1, <3>2, <3>3 DEF AppThread
  <2>3. playing' \in Seq(AllChunks) /\ done' \subseteq AllChunks
    <3>1. <<>> \in Seq(AllChunks)
      OBVIOUS
    <3>2. QED
      BY <2>2, <3>1
  <2>4. synth' \in {"none", "closed", "open", "failed"}
    BY <2>2
  <2>5. /\ synthOpened' \in BOOLEAN /\ synthEvent' \in BOOLEAN
        /\ stopProcessing' \in BOOLEAN /\ hEvent' \in BOOLEAN
        /\ paused' \in BOOLEAN
    BY <2>2, Zenon
  <2>6. QED
    BY <2>1, <2>2, <2>3, <2>4, <2>5
<1>6. CASE UNCHANGED vars
  BY <1>6
<1>7. QED
  BY <1>1, <1>2, <1>3, <1>4, <1>5, <1>6 DEF Next

-----------------------------------------------------------------------------
(* Chunks *)

\* A chunk changes hands only by waveOutWrite() and by WHDR_DONE.
LEMMA ChunkOwnershipInductive == SynthInv /\ [Next]_vars => ChunkOwnership'
<1> SUFFICES ASSUME SynthInv, [Next]_vars
             PROVE  ChunkOwnership'
  OBVIOUS
<1>0. /\ playing \in Seq(AllChunks)
      /\ done \subseteq AllChunks
      /\ ChunkOwnership
  BY DEF SynthInv, TypeOK
<1> USE DEF threadVars, deviceVars
<1>1. CASE RenderingThread
  <2>1. CASE WriteChunk
    \* The device owns the chunk from now on, for the only time.
    <3>1. chunk \in done /\ chunk \in AllChunks
      BY <1>0, <2>1 DEF WriteChunk, ChunkOwnership
    <3>2. /\ Len(playing') = Len(playing) + 1
          /\ \A i \in 1 .. Len(playing) : playing'[i] = playing[i]
          /\ playing'[Len(playing) + 1] = chunk
      BY <1>0, <2>1, <3>1 DEF WriteChunk
    <3>3. \A i \in 1 .. Len(playing) :
             playing'[i] # chunk /\ playing'[i] \notin done'
      BY <1>0, <2>1, <3>1, <3>2 DEF WriteChunk, ChunkOwnership
    <3>4. chunk \notin done' /\ thread' = "scan"
      BY <2>1 DEF WriteChunk
    <3>5. \A i \in 1 .. Len(playing') :
             i \in 1 .. Len(playing) \/ i = Len(playing) + 1
      BY <1>0, <3>2
    <3>6. QED
      BY <1>0, <3>2, <3>3, <3>4, <3>5 DEF ChunkOwnership
  <2>2. CASE ~WriteChunk
    <3>1. /\ UNCHANGED deviceVars
          /\ thread' \in {"lock", "render", "write"} =>
                chunk' = chunk /\ chunk \in done
      BY <1>0, <1>1, <2>2
         DEF RenderingThread, TestStop, ScanChunk, ScanEnds, LockSynth,
             RenderChunk, RenderCrashes, Wake, ChunkOwnership
    <3>2. QED
      BY <1>0, <3>1 DEF ChunkOwnership
  <2>3. QED
    BY <2>1, <2>2
<1>2. CASE DevicePlays
  <2>1. /\ Len(playing') = Len(playing) - 1
        /\ \A i \in 1 .. Len(playing') : playing'[i] = playing[i + 1]
        /\ Head(playing) = playing[1]
        /\ Len(playing) \in Nat \ {0}
    BY <1>0, <1>2 DEF DevicePlays
  <2>2. \A i \in 1 .. Len(playing') :
           i + 1 \in 1 .. Len(playing) /\ i + 1 # 1 /\ 1 \in 1 .. Len(playing)
    BY <2>1
  <2>3. \A i \in 1 .. Len(playing') :
           playing'[i] \notin done /\ playing'[i] # playing[1]
    BY <1>0, <2>1, <2>2 DEF ChunkOwnership
  <2>4. \A i, j \in 1 .. Len(playing') : playing'[i] = playing'[j] => i = j
    BY <1>0, <2>1, <2>2 DEF ChunkOwnership
  <2>5. done' = done \union {playing[1]} /\ UNCHANGED <<thread, chunk>>
    BY <1>2, <2>1 DEF DevicePlays
  <2>6. QED
    BY <1>0, <2>3, <2>4, <2>5 DEF ChunkOwnership
<1>3. CASE InitSucceeds
  BY <1>3, InOrderOnce DEF InitSucceeds, ChunkOwnership
<1>4. CASE InitFails
  BY <1>0, <1>4 DEF InitFails, ChunkOwnership
<1>5. ASSUME NEW t \in AppThreads, AppThread(t)
      PROVE  ChunkOwnership'
  <2>1. CASE CloseJoins(t)
    BY <2>1 DEF CloseJoins, ChunkOwnership
  <2>2. CASE ~CloseJoins(t)
    <3>1. UNCHANGED <<thread, chunk, playing, done>>
      BY <1>5, <2>2
         DEF AppThread, NewCall, CallStep, WaitForSynth, FindQueue,
             ResetDisabled, ResetPauses, ClosePauses, Push, ResetCloses,
             ResetOpens, ResetFails, ResetResumes, CloseStops, CloseWakes,
             CloseDeletes, ApplySettings, ResetLocks, CloseLocks
    <3>2. QED
      BY <1>0, <3>1 DEF ChunkOwnership
  <2>3. QED
    BY <2>1, <2>2
<1>6. CASE UNCHANGED vars
  BY <1>0, <1>6 DEF vars, ChunkOwnership
<1>7. QED
  BY <1>1, <1>2, <1>3, <1>4, <1>5, <1>6 DEF Next

-----------------------------------------------------------------------------
(* synthEvent *)

\* Where a step of a call begins and ends.
LEMMA GoesFromTo ==
    ASSUME TypeOK, NEW t \in AppThreads, NEW from, NEW to, Goes(t, from, to)
    PROVE  app[t] = from /\ app'[t] = to
BY DEF TypeOK, Goes

\* A call gets synthEvent, keeps it, sets it when it leaves or, when it has
\* deleted the synth, leaves it reset; or it has nothing to do with it.
LEMMA CallLocks ==
    ASSUME TypeOK, NEW t \in AppThreads, AppThread(t)
    PROVE  \/ synthEvent /\ ~Holds(t) /\ ~synthEvent' /\ Holds(t)'
           \/ Holds(t) /\ Holds(t)' /\ UNCHANGED synthEvent
           \/ Holds(t) /\ ~Holds(t)'
           \/ ~Holds(t) /\ ~Holds(t)' /\ UNCHANGED synthEvent
<1> USE GoesFromTo DEF Holds, threadVars
<1>1. CASE NewCall(t)
  BY <1>1 DEF NewCall, FindQueue, ResetDisabled, ResetPauses, ClosePauses
<1>2. CASE CallStep(t)
  BY <1>2
     DEF CallStep, Push, ResetCloses, ResetOpens, ResetFails, ResetResumes,
         CloseStops, CloseWakes, CloseJoins, CloseDeletes
<1>3. CASE WaitForSynth(t)
  BY <1>3 DEF WaitForSynth, ApplySettings, ResetLocks, CloseLocks
<1>4. QED
  BY <1>1, <1>2, <1>3 DEF AppThread

\* No call changes where the rendering thread is.
LEMMA CallLeavesThread ==
    ASSUME NEW t \in AppThreads, AppThread(t)
    PROVE  UNCHANGED threadVars
BY DEF AppThread, NewCall, CallStep, WaitForSynth, FindQueue, ResetDisabled,
       ResetPauses, ClosePauses, Push, ResetCloses, ResetOpens, ResetFails,
       ResetResumes, CloseStops, CloseWakes, CloseJoins, CloseDeletes,
       ApplySettings, ResetLocks, CloseLocks

\* synthEvent is taken only when it is set, and set only by who took it.
LEMMA LockInvInductive == SynthInv /\ [Next]_vars => LockInv'
<1> SUFFICES ASSUME SynthInv, [Next]_vars
             PROVE  LockInv'
  OBVIOUS
<1>0. TypeOK /\ LockInv /\ LifeInv
  BY DEF SynthInv
<1>1. CASE RenderingThread
  <2>1. UNCHANGED app
    BY <1>1 DEF RenderingThread, TestStop, ScanChunk, ScanEnds, LockSynth,
                RenderChunk, RenderCrashes, WriteChunk, Wake
  <2>2. CASE LockSynth
    BY <1>0, <2>1, <2>2 DEF LockSynth, LockInv, Holds
  <2>3. CASE RenderChunk \/ RenderCrashes
    BY <1>0, <2>1, <2>3 DEF RenderChunk, RenderCrashes, LockInv, Holds
  <2>4. CASE ~LockSynth /\ ~RenderChunk /\ ~RenderCrashes
    <3>1. thread' # "render" /\ UNCHANGED synthEvent
      BY <1>1, <2>4
         DEF RenderingThread, TestStop, ScanChunk, ScanEnds, WriteChunk, Wake
    <3>2. QED
      BY <1>0, <2>1, <3>1 DEF LockInv, Holds
  <2>5. QED
    BY <2>2, <2>3, <2>4
<1>2. CASE DevicePlays
  BY <1>0, <1>2 DEF DevicePlays, LockInv, Holds, threadVars
<1>3. CASE InitSucceeds \/ InitFails
  \* The synth is opened while no call is under way.
  <2>1. /\ \A t \in AppThreads : app'[t] = "idle"
        /\ thread' # "render"
    BY <1>0, <1>3
       DEF InitSucceeds, InitFails, NoCallUnderWay, LifeInv, threadVars
  <2>2. QED
    BY <2>1 DEF LockInv, Holds
<1>4. ASSUME NEW t \in AppThreads, AppThread(t)
      PROVE  LockInv'
  <2>1. \A u \in AppThreads \ {t} : Holds(u)' = Holds(u)
    BY <1>0, <1>4, CallMoves DEF Holds
  <2>2. UNCHANGED thread
    BY <1>4, CallLeavesThread DEF threadVars
  <2>3. QED
    BY <1>0, <1>4, <2>1, <2>2, CallLocks DEF LockInv
<1>5. CASE UNCHANGED vars
  BY <1>0, <1>5 DEF vars, LockInv, Holds, threadVars
<1>6. QED
  BY <1>1, <1>2, <1>3, <1>4, <1>5 DEF Next

-----------------------------------------------------------------------------
(* The life cycle *)

\* What a call that is about to begin needs, and what the steps of a call that
\* is under way do to the synth and to Close()'s progress.
LEMMA CallLives ==
    ASSUME TypeOK, NEW t \in AppThreads, AppThread(t)
    PROVE  /\ app[t] = "idle" => synthOpened /\ UNCHANGED synthVars
           /\ Closes(t)' =>
                 \/ Closes(t)
                 \/ NoCallUnderWay /\ app'[t] = "stopping"
           /\ app[t] = "idle" => NoCallUnderWay \/ ~Closing
           /\ app'[t] \in {"closing", "deleting"} =>
                 thread = "dead" \/ app[t] = "closing"
           /\ \/ app[t] = "deleting" /\ app'[t] = "idle"
                 /\ synth' = "none" /\ ~synthOpened'
              \/ synthOpened' = synthOpened /\ app'[t] = "reopening"
                 /\ synth' = "closed"
              \/ synthOpened' = synthOpened /\ app[t] = "reopening"
                 /\ synth' \in {"open", "failed"}
              \/ UNCHANGED synthVars /\ app[t] # "reopening"
<1> USE GoesFromTo DEF Closes, synthVars
<1>1. CASE NewCall(t)
  BY <1>1 DEF NewCall, FindQueue, ResetDisabled, ResetPauses, ClosePauses
<1>2. CASE CallStep(t)
  BY <1>2
     DEF CallStep, Push, ResetCloses, ResetOpens, ResetFails, ResetResumes,
         CloseStops, CloseWakes, CloseJoins, CloseDeletes
<1>3. CASE WaitForSynth(t)
  BY <1>3 DEF WaitForSynth, ApplySettings, ResetLocks, CloseLocks
<1>4. QED
  BY <1>1, <1>2, <1>3 DEF AppThread

\* Init() and Close() run alone, and Close() joins the thread before it deletes.
LEMMA LifeInvInductive == SynthInv /\ [Next]_vars => LifeInv'
<1> SUFFICES ASSUME SynthInv, [Next]_vars
             PROVE  LifeInv'
  OBVIOUS
<1>0. TypeOK /\ LifeInv
  BY DEF SynthInv
<1>1. CASE RenderingThread
  <2>1. UNCHANGED <<app, synthVars>> /\ thread \notin {"none", "dead"}
    BY <1>1 DEF RenderingThread, TestStop, ScanChunk, ScanEnds, LockSynth,
                RenderChunk, RenderCrashes, WriteChunk, Wake
  <2>2. QED
    BY <1>0, <2>1 DEF LifeInv, Closes, NoCallUnderWay, synthVars
<1>2. CASE DevicePlays
  BY <1>0, <1>2
     DEF DevicePlays, LifeInv, Closes, NoCallUnderWay, synthVars, threadVars
<1>3. CASE InitSucceeds \/ InitFails
  <2>1. \A t \in AppThreads : app'[t] = "idle"
    BY <1>3 DEF InitSucceeds, InitFails, NoCallUnderWay
  <2>2. /\ synth' \in {"open", "failed"}
        /\ ~synthOpened' => thread' \in {"none", "dead"}
    BY <1>0, <1>3 DEF InitSucceeds, InitFails, LifeInv, threadVars
  <2>3. QED
    BY <2>1, <2>2 DEF LifeInv, Closes, NoCallUnderWay
<1>4. ASSUME NEW t \in AppThreads, AppThread(t)
      PROVE  LifeInv'
  <2>0. /\ \A u \in AppThreads \ {t} : app'[u] = app[u]
        /\ UNCHANGED thread
    BY <1>0, <1>4, CallMoves, CallLeavesThread DEF threadVars
  <2>1. synthOpened
    BY <1>0, <1>4, CallLives DEF LifeInv, NoCallUnderWay
  <2>2. ~synthOpened' => NoCallUnderWay' /\ thread' \in {"none", "dead"}
    <3>1. SUFFICES ASSUME ~synthOpened'
                   PROVE  NoCallUnderWay' /\ thread' \in {"none", "dead"}
      OBVIOUS
    <3>2. app[t] = "deleting" /\ app'[t] = "idle"
      BY <1>0, <1>4, <2>1, <3>1, CallLives DEF synthVars
    <3>3. \A u \in AppThreads \ {t} : app[u] = "idle"
      BY <1>0, <3>2 DEF LifeInv, Closes
    <3>4. QED
      BY <1>0, <2>0, <3>2, <3>3 DEF LifeInv, NoCallUnderWay
  <2>3. synth' = "none" => ~synthOpened'
    BY <1>0, <1>4, <2>1, CallLives DEF LifeInv, synthVars
  <2>4. synth' = "closed" => \E u \in AppThreads : app'[u] = "reopening"
    BY <1>0, <1>4, <2>0, CallLives DEF LifeInv, synthVars
  <2>5. ASSUME NEW u \in AppThreads, NEW v \in AppThreads,
               Closes(u)', app'[v] # "idle"
        PROVE  u = v
    <3>1. CASE app[t] = "idle"
      BY <1>0, <1>4, <2>0, <2>5, <3>1, CallLives
         DEF Closes, Closing, NoCallUnderWay
    <3>2. CASE app[t] # "idle"
      BY <1>0, <1>4, <2>0, <2>5, <3>2, CallLives
         DEF LifeInv, Closes, NoCallUnderWay
    <3>3. QED
      BY <3>1, <3>2
  <2>6. \A u \in AppThreads :
           app'[u] \in {"closing", "deleting"} => thread' = "dead"
    BY <1>0, <1>4, <2>0, CallLives DEF LifeInv
  <2>7. QED
    BY <2>2, <2>3, <2>4, <2>5, <2>6 DEF LifeInv
<1>5. CASE UNCHANGED vars
  BY <1>0, <1>5
     DEF vars, LifeInv, Closes, NoCallUnderWay, synthVars, threadVars
<1>6. QED
  BY <1>1, <1>2, <1>3, <1>4, <1>5 DEF Next

-----------------------------------------------------------------------------
(* Theorems *)

\* The inductive invariant holds in every reachable state: synthEvent is a lock
\* for the rendering thread, Reset() and Close(), and Close() is alone.
THEOREM SynthInvariant == Spec => []SynthInv
<1>1. SynthInv /\ [Next]_vars => SynthInv'
  BY TypeOKInductive, ChunkOwnershipInductive, LockInvInductive,
     LifeInvInductive DEF SynthInv
<1>2. QED
  BY InitSynthInv, <1>1, PTL DEF Spec

\* MidiSynth's rendering thread is never inside synth->render() while another
\* thread has the synth closed between the two halves of Reset().
THEOREM RenderingExcludesReset == Spec => []RenderExcludesReset
<1>1. SynthInv => RenderExcludesReset
  BY DEF SynthInv, TypeOK, LockInv, LifeInv, Holds, RenderExcludesReset
<1>2. QED
  BY <1>1, SynthInvariant, PTL

\* Close() deletes the synth and frees the chunks only after the rendering
\* thread has died, whatever calls and chunks were under way.
THEOREM SynthOutlivesItsThread == Spec => []SynthOutlivesThread
<1>1. SynthInv => SynthOutlivesThread
  BY DEF SynthInv, LifeInv, SynthOutlivesThread
<1>2. QED
  BY <1>1, SynthInvariant, PTL

\* The rendering thread fills a chunk only between the device's WHDR_DONE and
\* its next waveOutWrite, and the device holds no chunk twice.
THEOREM ChunksAreOwned == Spec => []ChunkOwnership
<1>1. SynthInv => ChunkOwnership
  BY DEF SynthInv
<1>2. QED
  BY <1>1, SynthInvariant, PTL

-----------------------------------------------------------------------------
(* B. Fb01Controllers: parameter numbers *)

Kinds == {"rpn", "nrpn"}
Values == 0 .. 127
Selections == Seq(Kinds \X Halves \X Values)
Numbers == [Halves -> 0 .. Unset]

\* The half of the registered number was selected to be 0, and neither selected
\* anew nor forgotten afterwards.
HalfSelected(history, half) ==
    \E n \in DOMAIN history :
        /\ history[n] = <<"rpn", half, 0>>
        /\ \A k \in n + 1 .. Len(history) :
              ~(history[k][1] = "nrpn" \/ history[k][2] = half)

\* The inductive invariant: each half of the number is what the history of the
\* channel says.
HalvesHeard ==
    /\ use \in Uses
    /\ selections \in [Channels -> Selections]
    /\ rpn_adr \in [Channels -> Numbers]
    /\ \A ch \in Channels : \A half \in Halves :
          rpn_adr[ch][half] = 0 <=> HalfSelected(selections[ch], half)

\* One more parameter number in the history.
LEMMA SelectedNow ==
    ASSUME NEW history \in Selections, NEW half \in Halves,
           NEW kind \in Kinds, NEW h \in Halves, NEW b \in Values,
           NEW entry, entry = <<kind, h, b>>,
           NEW next, next = Append(history, entry)
    PROVE  /\ next \in Selections
           /\ HalfSelected(next, half) <=>
                 \/ kind = "rpn" /\ h = half /\ b = 0
                 \/ kind = "rpn" /\ h # half /\ HalfSelected(history, half)
<1> DEFINE last == Len(history) + 1
<1>1. /\ Len(history) \in Nat /\ Len(next) = last
      /\ DOMAIN history = 1 .. Len(history) /\ DOMAIN next = 1 .. last
      /\ \A n \in 1 .. Len(history) : next[n] = history[n]
      /\ next[last] = entry
  BY DEF Selections
<1>2. next \in Selections
  <2>1. entry \in Kinds \X Halves \X Values
    OBVIOUS
  <2>2. QED
    BY <2>1 DEF Selections
<1>3. entry[1] = kind /\ entry[2] = h /\ entry[3] = b
  OBVIOUS
<1>4. ASSUME HalfSelected(next, half)
      PROVE  \/ kind = "rpn" /\ h = half /\ b = 0
             \/ kind = "rpn" /\ h # half /\ HalfSelected(history, half)
  <2>1. PICK n \in 1 .. last :
           /\ next[n] = <<"rpn", half, 0>>
           /\ \A k \in n + 1 .. last :
                 ~(next[k][1] = "nrpn" \/ next[k][2] = half)
    BY <1>1, <1>4 DEF HalfSelected
  <2>2. CASE n = last
    <3>1. entry = <<"rpn", half, 0>>
      BY <2>1, <2>2, <1>1
    <3>2. QED
      BY <3>1, <1>3
  <2>3. CASE n # last
    <3>1. n \in 1 .. Len(history) /\ last \in n + 1 .. last
      BY <2>3, <1>1
    <3>2. kind # "nrpn" /\ h # half
      BY <2>1, <3>1, <1>1, <1>3
    <3>3. \A k \in n + 1 .. Len(history) :
             ~(history[k][1] = "nrpn" \/ history[k][2] = half)
      <4>1. ASSUME NEW k \in n + 1 .. Len(history)
            PROVE  ~(history[k][1] = "nrpn" \/ history[k][2] = half)
        <5>1. k \in 1 .. Len(history) /\ k \in n + 1 .. last
          BY <3>1, <1>1
        <5>2. next[k] = history[k]
          BY <5>1, <1>1
        <5>3. QED
          BY <5>1, <5>2, <2>1
      <4>2. QED
        BY <4>1
    <3>4. HalfSelected(history, half)
      BY <2>1, <3>1, <3>3, <1>1 DEF HalfSelected
    <3>5. QED
      BY <3>2, <3>4 DEF Kinds
  <2>4. QED
    BY <2>2, <2>3
<1>5. ASSUME kind = "rpn", h = half, b = 0
      PROVE  HalfSelected(next, half)
  <2>1. next[last] = <<"rpn", half, 0>> /\ last \in DOMAIN next
    BY <1>1, <1>5
  <2>2. last + 1 .. Len(next) = {}
    BY <1>1
  <2>3. QED
    BY <2>1, <2>2 DEF HalfSelected
<1>6. ASSUME kind = "rpn", h # half, HalfSelected(history, half)
      PROVE  HalfSelected(next, half)
  <2>1. PICK n \in 1 .. Len(history) :
           /\ history[n] = <<"rpn", half, 0>>
           /\ \A k \in n + 1 .. Len(history) :
                 ~(history[k][1] = "nrpn" \/ history[k][2] = half)
    BY <1>1, <1>6 DEF HalfSelected
  <2>2. ASSUME NEW k \in n + 1 .. last
        PROVE  ~(next[k][1] = "nrpn" \/ next[k][2] = half)
    <3>1. CASE k = last
      BY <3>1, <1>1, <1>3, <1>6
    <3>2. CASE k # last
      <4>1. k \in n + 1 .. Len(history) /\ k \in 1 .. Len(history)
        BY <3>2, <1>1
      <4>2. next[k] = history[k]
        BY <4>1, <1>1
      <4>3. QED
        BY <4>1, <4>2, <2>1
    <3>3. QED
      BY <3>1, <3>2
  <2>3. n \in DOMAIN next /\ next[n] = <<"rpn", half, 0>>
    BY <2>1, <1>1
  <2>4. QED
    BY <2>2, <2>3, <1>1 DEF HalfSelected
<1>7. HalfSelected(next, half) <=>
         \/ kind = "rpn" /\ h = half /\ b = 0
         \/ kind = "rpn" /\ h # half /\ HalfSelected(history, half)
  BY <1>4, <1>5, <1>6, Zenon
<1>8. QED
  BY <1>2, <1>7

\* Initially no number is selected.
LEMMA HalvesInit == ExclusiveInit => HalvesHeard
<1> SUFFICES ASSUME ExclusiveInit
             PROVE  HalvesHeard
  OBVIOUS
<1>1. /\ use \in Uses
      /\ rpn_adr = [ch \in Channels |-> NoNumber]
      /\ selections = [ch \in Channels |-> <<>>]
  BY DEF ExclusiveInit, ControllersInit
<1>2. <<>> \in Selections /\ NoNumber \in Numbers
  BY DEF Selections, NoNumber, Numbers, Unset
<1>3. ASSUME NEW ch \in Channels, NEW half \in Halves
      PROVE  rpn_adr[ch][half] # 0 /\ ~HalfSelected(selections[ch], half)
  BY <1>1, <1>3 DEF NoNumber, Unset, HalfSelected
<1>4. QED
  BY <1>1, <1>2, <1>3 DEF HalvesHeard

\* What a parameter number does to the channel, and that it leaves the others.
NumberSent(ch, kind, h, b) ==
    /\ use' = use
    /\ selections' = [selections EXCEPT ![ch] = Append(@, <<kind, h, b>>)]
    /\ rpn_adr' = [rpn_adr EXCEPT ![ch] =
          IF kind = "rpn" THEN [@ EXCEPT ![h] = b] ELSE NoNumber]

\* A parameter number leaves the halves what the history says.
LEMMA NumberSentHeard ==
    ASSUME HalvesHeard, NEW ch \in Channels, NEW kind \in Kinds,
           NEW h \in Halves, NEW b \in Values, NumberSent(ch, kind, h, b)
    PROVE  HalvesHeard'
<1>1. PICK history : history = selections[ch]
  OBVIOUS
<1>a. PICK entry : entry = <<kind, h, b>>
  OBVIOUS
<1>2. PICK next : next = Append(history, entry)
  OBVIOUS
<1>3. history \in Selections /\ rpn_adr[ch] \in Numbers
  BY <1>1 DEF HalvesHeard
<1>4. ASSUME NEW half \in Halves
      PROVE  /\ next \in Selections
             /\ HalfSelected(next, half) <=>
                   \/ kind = "rpn" /\ h = half /\ b = 0
                   \/ kind = "rpn" /\ h # half /\ HalfSelected(history, half)
  BY <1>a, <1>2, <1>3, SelectedNow
<1>5. next \in Selections
  BY <1>4
<1>6. PICK number :
         number = IF kind = "rpn" THEN [rpn_adr[ch] EXCEPT ![h] = b]
                  ELSE NoNumber
  OBVIOUS
<1>7. number \in Numbers
  <2>1. NoNumber \in Numbers
    BY DEF NoNumber, Numbers, Unset
  <2>2. b \in 0 .. Unset
    BY DEF Unset, Values
  <2>3. [rpn_adr[ch] EXCEPT ![h] = b] \in Numbers
    BY <1>3, <2>2 DEF Numbers
  <2>4. QED
    BY <1>6, <2>1, <2>3
<1>8. /\ selections' = [selections EXCEPT ![ch] = next]
      /\ rpn_adr' = [rpn_adr EXCEPT ![ch] = number]
      /\ use' = use
  BY <1>1, <1>a, <1>2, <1>6 DEF NumberSent
<1>9. /\ selections' \in [Channels -> Selections]
      /\ rpn_adr' \in [Channels -> Numbers]
  BY <1>5, <1>7, <1>8 DEF HalvesHeard
<1>10. ASSUME NEW half \in Halves
       PROVE  number[half] = 0 <=> HalfSelected(next, half)
  <2>1. CASE kind = "nrpn"
    <3>1. number[half] = Unset
      BY <2>1, <1>6 DEF NoNumber
    <3>2. ~HalfSelected(next, half)
      BY <2>1, <1>4
    <3>3. QED
      BY <3>1, <3>2 DEF Unset
  <2>2. CASE kind = "rpn"
    <3>1. number[half] = IF half = h THEN b ELSE rpn_adr[ch][half]
      BY <2>2, <1>3, <1>6 DEF Numbers
    <3>2. rpn_adr[ch][half] = 0 <=> HalfSelected(history, half)
      BY <1>1 DEF HalvesHeard
    <3>3. CASE half = h
      <4>1. HalfSelected(next, half) <=> b = 0
        BY <3>3, <2>2, <1>4
      <4>2. QED
        BY <4>1, <3>1, <3>3
    <3>4. CASE half # h
      <4>1. HalfSelected(next, half) <=> HalfSelected(history, half)
        BY <3>4, <2>2, <1>4
      <4>2. QED
        BY <4>1, <3>1, <3>2, <3>4
    <3>5. QED
      BY <3>3, <3>4
  <2>3. QED
    BY <2>1, <2>2 DEF Kinds
<1>11. ASSUME NEW c \in Channels, NEW half \in Halves
       PROVE  rpn_adr'[c][half] = 0 <=> HalfSelected(selections'[c], half)
  <2>1. CASE c = ch
    <3>1. rpn_adr'[c] = number /\ selections'[c] = next
      BY <2>1, <1>8 DEF HalvesHeard
    <3>2. QED
      BY <3>1, <1>10
  <2>2. CASE c # ch
    <3>1. rpn_adr'[c] = rpn_adr[c] /\ selections'[c] = selections[c]
      BY <2>2, <1>8 DEF HalvesHeard
    <3>2. rpn_adr[c][half] = 0 <=> HalfSelected(selections[c], half)
      BY DEF HalvesHeard
    <3>3. QED
      BY <3>1, <3>2
  <2>3. QED
    BY <2>1, <2>2
<1>12. QED
  BY <1>8, <1>9, <1>11 DEF HalvesHeard

\* Everything else keeps the numbers, or forgets all of them.
LEMMA HalvesInductive ==
    HalvesHeard /\ [ExclusiveNext]_exclusiveVars => HalvesHeard'
<1> SUFFICES ASSUME HalvesHeard, [ExclusiveNext]_exclusiveVars
             PROVE  HalvesHeard'
  OBVIOUS
<1>1. CASE UNCHANGED <<use, rpn_adr, selections>>
  BY <1>1 DEF HalvesHeard
<1>2. CASE UNCHANGED exclusiveVars
  BY <1>1, <1>2 DEF exclusiveVars, controllerVars
<1>3. \A ch \in use.channels : ch \in Channels
  BY ControllersAssumption DEF HalvesHeard
<1>4. use.parameterNumbers \subseteq Values /\ {"rpn", "nrpn"} = Kinds
  BY ControllersAssumption DEF HalvesHeard, Values, Kinds
<1>5. ASSUME NEW ch \in use.channels, NEW half \in Halves,
             NEW b \in use.parameterNumbers, Rpn(ch, half, b)
      PROVE  HalvesHeard'
  <2>1. NumberSent(ch, "rpn", half, b)
    <3>1. rpn_adr' = [rpn_adr EXCEPT ![ch] = [@ EXCEPT ![half] = b]]
      BY <1>5 DEF Rpn
    <3>2. QED
      BY <3>1, <1>5 DEF Rpn, Remember, NumberSent
  <2>2. QED
    BY <2>1, <1>3, <1>4, NumberSentHeard
<1>6. ASSUME NEW ch \in use.channels, NEW half \in Halves,
             NEW b \in use.parameterNumbers, Nrpn(ch, half, b)
      PROVE  HalvesHeard'
  <2>1. NumberSent(ch, "nrpn", half, b)
    BY <1>6 DEF Nrpn, Remember, NumberSent
  <2>2. QED
    BY <2>1, <1>3, <1>4, NumberSentHeard
<1>7. CASE ResetAllControllers
  <2>1. /\ use' = use /\ rpn_adr' = [ch \in Channels |-> NoNumber]
        /\ selections' = [ch \in Channels |-> <<>>]
    BY <1>7 DEF ResetAllControllers
  <2>2. <<>> \in Selections /\ NoNumber \in Numbers
    BY DEF Selections, NoNumber, Numbers, Unset
  <2>3. ASSUME NEW ch \in Channels, NEW half \in Halves
        PROVE  rpn_adr'[ch][half] # 0 /\ ~HalfSelected(selections'[ch], half)
    BY <2>1, <2>3 DEF NoNumber, Unset, HalfSelected
  <2>4. QED
    BY <2>1, <2>2, <2>3 DEF HalvesHeard
<1>8. CASE ControllersNext
  <2>1. ASSUME NEW ch, NEW change, ControlChange(ch, change)
        PROVE  HalvesHeard'
    BY <1>1, <2>1 DEF ControlChange
  <2>2. ASSUME NEW ch, NEW half, NEW b, DataEntry(ch, half, b)
        PROVE  HalvesHeard'
    BY <1>1, <2>2 DEF DataEntry
  <2>3. ASSUME NEW value, MasterVolume(value)
        PROVE  HalvesHeard'
    BY <1>1, <2>3 DEF MasterVolume
  <2>4. CASE AllSoundOff
    BY <1>1, <2>4 DEF AllSoundOff
  <2>5. QED
    BY <1>5, <1>6, <1>7, <1>8, <2>1, <2>2, <2>3, <2>4 DEF ControllersNext
<1>9. CASE Requests
  <2>1. ASSUME NEW ex, ParamChangeInstrument(ex)
        PROVE  HalvesHeard'
    BY <1>1, <2>1 DEF ParamChangeInstrument
  <2>2. ASSUME NEW ex, NEW data, NEW bank, SendMidiData(ex, data, bank)
        PROVE  HalvesHeard'
    BY <1>1, <2>2 DEF SendMidiData, controllerVars
  <2>3. QED
    BY <1>9, <2>1, <2>2 DEF Requests, EachVoiceBulkDataDump,
                            CurrentConfigDataDump, VoiceDataDump
<1>10. ASSUME NEW k, NEW b, NEW bank, SendBack(k, b, bank)
       PROVE  HalvesHeard'
  BY <1>1, <1>10 DEF SendBack, controllerVars
<1>11. QED
  BY <1>2, <1>8, <1>9, <1>10 DEF ExclusiveNext

\* The registered number of a channel is that of the pitch bend sensitivity just
\* when the channel selected it, for any channels and any order of parameter
\* numbers of both kinds, of their halves, and of resets.
THEOREM SelectionHeard == ExclusiveSpec => []SelectionIsHeard
<1>1. HalvesHeard => SelectionIsHeard
  <2> SUFFICES ASSUME HalvesHeard, NEW ch \in Channels
               PROVE  rpn_adr[ch] = [h \in Halves |-> 0]
                      <=> SelectsSensitivity(selections[ch])
    BY DEF SelectionIsHeard
  <2>1. SelectsSensitivity(selections[ch])
        <=> \A half \in Halves : HalfSelected(selections[ch], half)
    BY DEF SelectsSensitivity, HalfSelected
  <2>2. (\A half \in Halves : HalfSelected(selections[ch], half))
        <=> \A half \in Halves : rpn_adr[ch][half] = 0
    BY DEF HalvesHeard
  <2>3. rpn_adr[ch] \in Numbers
    BY DEF HalvesHeard
  <2>4. rpn_adr[ch] = [h \in Halves |-> 0]
        <=> \A half \in Halves : rpn_adr[ch][half] = 0
    BY <2>3 DEF Numbers
  <2>5. QED
    BY <2>1, <2>2, <2>4, Zenon
<1>2. QED
  BY <1>1, HalvesInit, HalvesInductive, PTL DEF ExclusiveSpec

-----------------------------------------------------------------------------
(* C. Fb01Exclusive: dumps *)

\* Or gives a byte, whatever is joined.
LEMMA OrIsByte ==
    ASSUME NEW a, NEW b
    PROVE  Or(a, b) \in 0 .. 255
<1>1. /\ BitOfEither(a, b, 1) \in {0, 1} /\ BitOfEither(a, b, 2) \in {0, 2}
      /\ BitOfEither(a, b, 4) \in {0, 4} /\ BitOfEither(a, b, 8) \in {0, 8}
      /\ BitOfEither(a, b, 16) \in {0, 16} /\ BitOfEither(a, b, 32) \in {0, 32}
      /\ BitOfEither(a, b, 64) \in {0, 64}
      /\ BitOfEither(a, b, 128) \in {0, 128}
  BY DEF BitOfEither
<1>2. QED
  BY <1>1 DEF Or

\* decode_packet_type_A() joins the halves of a byte that encode_packet_type_A()
\* has split.
LEMMA HalvesJoin ==
    ASSUME NEW byte \in 0 .. 255
    PROVE  Joined(byte % 16, byte \div 16) = byte
<1> DEFINE low == byte % 16
           high == byte \div 16
           Bit(d) == IF (low \div d) % 2 = 1 \/ ((high * 16) \div d) % 2 = 1
                     THEN d ELSE 0
<1>1. low \in 0 .. 15 /\ high \in 0 .. 15 /\ byte = high * 16 + low
  OBVIOUS
<1>2. Joined(low, high) = Bit(1) + Bit(2) + Bit(4) + Bit(8) + Bit(16) + Bit(32)
                          + Bit(64) + Bit(128)
  BY DEF Joined, Or, BitOfEither
<1> HIDE DEF low, high
<1>3. Bit(1) + Bit(2) + Bit(4) + Bit(8) = low
  BY <1>1
<1>4. Bit(16) + Bit(32) + Bit(64) + Bit(128) = high * 16
  BY <1>1
<1>5. /\ Bit(1) \in Int /\ Bit(2) \in Int /\ Bit(4) \in Int /\ Bit(8) \in Int
      /\ Bit(16) \in Int /\ Bit(32) \in Int /\ Bit(64) \in Int
      /\ Bit(128) \in Int
  OBVIOUS
<1> HIDE DEF Bit
<1>6. Joined(low, high) = byte
  BY <1>1, <1>2, <1>3, <1>4, <1>5
<1>7. QED
  BY <1>6 DEF low, high

\* The sum over the two data bytes of a packet.
LEMMA SumOfTwo ==
    ASSUME NEW a \in Nat, NEW b \in Nat
    PROVE  SumOf(<<a, b>>) = a + b
<1> DEFINE IsSum(f) == f = [n \in 0 .. Len(<<a, b>>) |->
                              IF n = 0 THEN 0 ELSE f[n - 1] + <<a, b>>[n]]
           sums == [n \in 0 .. 2 |-> IF n = 0 THEN 0
                                     ELSE IF n = 1 THEN a ELSE a + b]
           sum == CHOOSE f : IsSum(f)
<1>1. Len(<<a, b>>) = 2 /\ <<a, b>>[1] = a /\ <<a, b>>[2] = b
  OBVIOUS
<1>2. IsSum(sums)
  <2>1. \A n \in 0 .. 2 : sums[n] = IF n = 0 THEN 0
                                    ELSE sums[n - 1] + <<a, b>>[n]
    OBVIOUS
  <2>2. sums = [n \in 0 .. 2 |-> sums[n]]
    OBVIOUS
  <2> HIDE DEF sums
  <2>3. QED
    BY <2>1, <2>2, <1>1
<1>3. IsSum(sum)
  <2> HIDE DEF IsSum, sums
  <2>1. QED
    BY <1>2, Zenon
<1>4. SumOf(<<a, b>>) = sum[2]
  BY <1>1 DEF SumOf
<1> HIDE DEF sum
<1>5. sum[0] = 0 /\ sum[1] = sum[0] + a /\ sum[2] = sum[1] + b
  BY <1>1, <1>3
<1>6. QED
  BY <1>4, <1>5

LEMMA ChecksumOfTwo ==
    ASSUME NEW a \in Nat, NEW b \in Nat
    PROVE  Checksum(<<a, b>>) = (-(a + b)) % 128
BY SumOfTwo DEF Checksum

\* A checksum tells if one of the two bytes has become another one of seven bits.
LEMMA ChecksumTells ==
    ASSUME NEW a \in 0 .. 15, NEW b \in 0 .. 15, NEW c \in 0 .. 127
    PROVE  /\ c # a => Checksum(<<c, b>>) # Checksum(<<a, b>>)
           /\ c # b => Checksum(<<a, c>>) # Checksum(<<a, b>>)
<1>1. /\ Checksum(<<a, b>>) = (-(a + b)) % 128
      /\ Checksum(<<c, b>>) = (-(c + b)) % 128
      /\ Checksum(<<a, c>>) = (-(a + c)) % 128
  BY ChecksumOfTwo
<1>2. c # a => (-(c + b)) % 128 # (-(a + b)) % 128
  OBVIOUS
<1>3. c # b => (-(a + c)) % 128 # (-(a + b)) % 128
  OBVIOUS
<1>4. QED
  BY <1>1, <1>2, <1>3

\* The elements of a concatenation.
LEMMA ConcatenationElements ==
    ASSUME NEW S, NEW front \in Seq(S), NEW tail \in Seq(S)
    PROVE  /\ front \o tail \in Seq(S)
           /\ Len(front \o tail) = Len(front) + Len(tail)
           /\ \A n \in 1 .. Len(front) : (front \o tail)[n] = front[n]
           /\ \A n \in Len(front) + 1 .. Len(front) + Len(tail) :
                 (front \o tail)[n] = tail[n - Len(front)]
OBVIOUS

\* The packet of a byte.
LEMMA PacketOfByte ==
    ASSUME NEW byte \in 0 .. 255
    PROVE  /\ Len(EncodedA(byte)) = 5
           /\ EncodedA(byte)[1] = 0 /\ EncodedA(byte)[2] = 2
           /\ EncodedA(byte)[3] = byte % 16
           /\ EncodedA(byte)[4] = byte \div 16
           /\ EncodedA(byte)[5]
                 = Checksum(<<byte % 16, byte \div 16>>)
           /\ byte % 16 \in 0 .. 15 /\ byte \div 16 \in 0 .. 15
           /\ Checksum(<<byte % 16, byte \div 16>>) \in 0 .. 127
<1>1. byte % 16 \in 0 .. 15 /\ byte \div 16 \in 0 .. 15
  OBVIOUS
<1>2. PICK low \in 0 .. 15, high \in 0 .. 15 :
         low = byte % 16 /\ high = byte \div 16
  BY <1>1
<1>3. Checksum(<<low, high>>) \in 0 .. 127
  <2>1. Checksum(<<low, high>>) = (-(low + high)) % 128
    BY ChecksumOfTwo
  <2>2. QED
    BY <2>1
<1>4. PICK check \in 0 .. 127 : check = Checksum(<<low, high>>)
  BY <1>3
<1>5. PICK header, data, tail : /\ header = <<2 \div 128, 2 % 128>>
                                /\ data = <<low, high>> /\ tail = <<check>>
  OBVIOUS
<1>6. EncodedA(byte) = header \o data \o tail
  <2>1. Len(Split(byte)) = 2
    BY DEF Split
  <2>2. QED
    BY <2>1, <1>2, <1>4, <1>5 DEF EncodedA, Split, Packet
<1>7. /\ header \in Seq(Nat) /\ Len(header) = 2
      /\ header[1] = 0 /\ header[2] = 2
      /\ data \in Seq(Nat) /\ Len(data) = 2
      /\ data[1] = low /\ data[2] = high
      /\ tail \in Seq(Nat) /\ Len(tail) = 1 /\ tail[1] = check
  <2>1. 2 \div 128 = 0 /\ 2 % 128 = 2
    OBVIOUS
  <2>2. QED
    BY <2>1, <1>5
<1>8. PICK packet : packet = header \o data \o tail
  OBVIOUS
<1>9. /\ Len(packet) = 5 /\ packet[1] = 0 /\ packet[2] = 2
      /\ packet[3] = low /\ packet[4] = high /\ packet[5] = check
  <2>1. PICK front : front = header \o data
    OBVIOUS
  <2>2. /\ front \in Seq(Nat) /\ Len(front) = 4
        /\ \A n \in 1 .. 2 : front[n] = header[n]
        /\ \A n \in 3 .. 4 : front[n] = data[n - 2]
    <3>1. /\ front \in Seq(Nat) /\ Len(front) = Len(header) + Len(data)
          /\ \A n \in 1 .. Len(header) : front[n] = header[n]
          /\ \A n \in Len(header) + 1 .. Len(header) + Len(data) :
                front[n] = data[n - Len(header)]
      <4>1. header \in Seq(Nat) /\ data \in Seq(Nat)
        BY <1>7
      <4>2. QED
        BY <2>1, <4>1, ConcatenationElements, SMTT(30)
    <3>2. QED
      BY <3>1, <1>7
  <2>3. /\ Len(packet) = 5
        /\ \A n \in 1 .. 4 : packet[n] = front[n]
        /\ packet[5] = tail[1]
    <3>1. /\ packet \in Seq(Nat) /\ Len(packet) = Len(front) + Len(tail)
          /\ \A n \in 1 .. Len(front) : packet[n] = front[n]
          /\ \A n \in Len(front) + 1 .. Len(front) + Len(tail) :
                packet[n] = tail[n - Len(front)]
      <4>1. packet = front \o tail
        BY <2>1, <1>8
      <4>2. front \in Seq(Nat) /\ tail \in Seq(Nat)
        BY <2>2, <1>7
      <4>3. QED
        BY <4>1, <4>2, ConcatenationElements
    <3>2. QED
      BY <3>1, <2>2, <1>7
  <2>4. QED
    BY <2>2, <2>3, <1>7
<1>10. QED
  BY <1>1, <1>2, <1>3, <1>4, <1>6, <1>8, <1>9

\* The bytes of all packets of a bank.
LEMMA EncodedBankBytes ==
    ASSUME NEW bank \in Bank
    PROVE  /\ EncodedBank(bank) \in Seq(0 .. 255)
           /\ Len(EncodedBank(bank)) = 5 * (VoiceCount + 1)
           /\ \A j \in 0 .. VoiceCount, m \in 1 .. 5 :
                 EncodedBank(bank)[5 * j + m] = EncodedA(bank[j])[m]
<1>1. VoiceCount \in 1 .. 48
  BY ExclusiveAssumption
<1>2. PICK length \in Nat : length = 5 * (VoiceCount + 1)
  BY <1>1
<1>3. EncodedBank(bank) = [n \in 1 .. length |->
                             EncodedA(bank[(n - 1) \div 5])[((n - 1) % 5) + 1]]
  BY <1>2 DEF EncodedBank, PacketLength
<1>4. ASSUME NEW n \in 1 .. length
      PROVE  EncodedBank(bank)[n] \in 0 .. 255
  <2>1. PICK j \in 0 .. VoiceCount, m \in 1 .. 5 :
           j = (n - 1) \div 5 /\ m = ((n - 1) % 5) + 1
    BY <1>1, <1>2
  <2>2. PICK byte \in 0 .. 255 : byte = bank[j]
    BY DEF Bank
  <2>3. EncodedBank(bank)[n] = EncodedA(byte)[m]
    BY <1>3, <2>1, <2>2
  <2>4. /\ EncodedA(byte)[1] \in 0 .. 255 /\ EncodedA(byte)[2] \in 0 .. 255
        /\ EncodedA(byte)[3] \in 0 .. 255 /\ EncodedA(byte)[4] \in 0 .. 255
        /\ EncodedA(byte)[5] \in 0 .. 255
    <3>1. PICK low \in 0 .. 15, high \in 0 .. 15, check \in 0 .. 127 :
             /\ low = byte % 16 /\ high = byte \div 16
             /\ check = Checksum(<<byte % 16, byte \div 16>>)
      BY PacketOfByte
    <3>2. /\ EncodedA(byte)[1] = 0 /\ EncodedA(byte)[2] = 2
          /\ EncodedA(byte)[3] = low /\ EncodedA(byte)[4] = high
          /\ EncodedA(byte)[5] = check
      BY <3>1, PacketOfByte
    <3>3. QED
      BY <3>2
  <2>5. m = 1 \/ m = 2 \/ m = 3 \/ m = 4 \/ m = 5
    OBVIOUS
  <2>6. QED
    BY <2>3, <2>4, <2>5
<1>5. EncodedBank(bank) \in Seq(0 .. 255) /\ Len(EncodedBank(bank)) = length
  BY <1>3, <1>4
<1>6. ASSUME NEW j \in 0 .. VoiceCount, NEW m \in 1 .. 5
      PROVE  EncodedBank(bank)[5 * j + m] = EncodedA(bank[j])[m]
  <2>1. PICK n \in 1 .. length : n = 5 * j + m
    BY <1>1, <1>2
  <2>2. (n - 1) \div 5 = j /\ ((n - 1) % 5) + 1 = m
    BY <2>1, <1>1
  <2>3. QED
    BY <1>3, <2>1, <2>2
<1>7. QED
  BY <1>2, <1>5, <1>6

\* The message that each_voice_bulk_data_dump() sends for a bank.
Header(system, number) == <<\hF0, \h43, \h75, system, 0, 0, number>>
BankMessage(system, number, bank) ==
    Header(system, number) \o EncodedBank(bank) \o <<\hF7>>

\* Where the packets are in the message, after its F0.
PacketsAreAt(message, bank) ==
    /\ \E S : message \in Seq(S)
    /\ Len(message) = 5 * (VoiceCount + 1) + 7
    /\ \A j \in 0 .. VoiceCount, m \in 1 .. 5 :
          message[6 + 5 * j + m] = EncodedA(bank[j])[m]

LEMMA MessageOfBank ==
    ASSUME NEW system, NEW number, NEW bank \in Bank
    PROVE  PacketsAreAt(Tail(BankMessage(system, number, bank)), bank)
<1> DEFINE S == {system, number} \union (0 .. 255)
<1>1. PICK header, data, end : /\ header = Header(system, number)
                               /\ data = EncodedBank(bank)
                               /\ end = <<\hF7>>
  OBVIOUS
<1>2. VoiceCount \in 1 .. 48
  BY ExclusiveAssumption
<1>3. header \in Seq(S) /\ Len(header) = 7
  BY <1>1 DEF Header
<1>4. end \in Seq(S) /\ Len(end) = 1
  BY <1>1
<1>5. /\ data \in Seq(S) /\ Len(data) = 5 * (VoiceCount + 1)
      /\ \A j \in 0 .. VoiceCount, m \in 1 .. 5 :
            data[5 * j + m] = EncodedA(bank[j])[m]
  <2>1. data \in Seq(0 .. 255)
    BY <1>1, EncodedBankBytes
  <2>2. data \in Seq(S)
    BY <2>1
  <2>3. QED
    BY <2>2, <1>1, EncodedBankBytes
<1> HIDE DEF S
<1>6. PICK front : front = header \o data
  OBVIOUS
<1>7. /\ front \in Seq(S) /\ Len(front) = Len(header) + Len(data)
      /\ \A n \in Len(header) + 1 .. Len(header) + Len(data) :
            front[n] = data[n - Len(header)]
  <2>1. header \in Seq(S) /\ data \in Seq(S)
    BY <1>3, <1>5
  <2>2. QED
    BY <2>1, <1>6, ConcatenationElements
<1>8. PICK whole : whole = front \o end
  OBVIOUS
<1>9. /\ whole \in Seq(S) /\ Len(whole) = Len(front) + Len(end)
      /\ \A n \in 1 .. Len(front) : whole[n] = front[n]
  <2>1. front \in Seq(S) /\ end \in Seq(S)
    BY <1>4, <1>7
  <2>2. QED
    BY <2>1, <1>8, ConcatenationElements
<1>10. whole = BankMessage(system, number, bank)
  BY <1>1, <1>6, <1>8 DEF BankMessage
<1>11. PICK message : message = Tail(whole)
  OBVIOUS
<1>12. Len(whole) = 5 * (VoiceCount + 1) + 8
  BY <1>2, <1>3, <1>4, <1>5, <1>7, <1>9
<1>13. whole # <<>>
  BY <1>12, <1>2
<1>14. /\ message \in Seq(S) /\ Len(message) = 5 * (VoiceCount + 1) + 7
       /\ \A n \in 1 .. Len(message) : message[n] = whole[n + 1]
  <2>1. whole \in Seq(S)
    BY <1>9
  <2>2. /\ message \in Seq(S) /\ Len(message) = Len(whole) - 1
        /\ \A n \in 1 .. Len(message) : message[n] = whole[n + 1]
    BY <2>1, <1>11, <1>13
  <2>3. QED
    BY <2>2, <1>2, <1>12
<1>15. ASSUME NEW j \in 0 .. VoiceCount, NEW m \in 1 .. 5
       PROVE  message[6 + 5 * j + m] = EncodedA(bank[j])[m]
  <2>1. PICK n \in Nat : n = 6 + 5 * j + m
    BY <1>2
  <2>2. n \in 1 .. 5 * (VoiceCount + 1) + 7
    BY <2>1, <1>2
  <2>3. message[n] = whole[n + 1]
    BY <2>2, <1>14
  <2>4. /\ n + 1 \in 1 .. 7 + 5 * (VoiceCount + 1)
        /\ n + 1 \in 8 .. 7 + 5 * (VoiceCount + 1)
    BY <2>1, <1>2
  <2>5. whole[n + 1] = front[n + 1]
    BY <2>4, <1>3, <1>5, <1>7, <1>9
  <2>6. front[n + 1] = data[(n + 1) - 7]
    BY <2>4, <1>3, <1>5, <1>7
  <2>7. (n + 1) - 7 = 5 * j + m
    BY <2>1, <1>2
  <2>8. QED
    BY <2>1, <2>3, <2>5, <2>6, <2>7, <1>5
<1>16. PacketsAreAt(message, bank)
  BY <1>14, <1>15 DEF PacketsAreAt
<1>17. QED
  BY <1>10, <1>11, <1>16

\* The packet of one byte after a bank came back for the n-th.
PacketIsBack(ex, bank, n, k, b, j) ==
    /\ ex[6] = n
    /\ \A m \in 1 .. 5 :
          PacketAt(ex, 7 + 5 * j)[m] =
             IF k = 6 + 5 * j + m THEN b ELSE EncodedA(bank[j])[m]

\* The packets of the message that comes back: one byte of one of them may be
\* another one.
LEMMA PacketsSentBack ==
    ASSUME NEW message, NEW bank, PacketsAreAt(message, bank),
           NEW n, NEW k \in SpoiltAt, NEW b,
           NEW ex, ex = Spoilt([message EXCEPT ![6] = n], k, b),
           NEW j \in 0 .. VoiceCount
    PROVE  PacketIsBack(ex, bank, n, k, b, j)
<1>1. VoiceCount \in 1 .. 48
  BY ExclusiveAssumption
<1>2. PICK length \in Nat : length = 5 * (VoiceCount + 1) + 7
  BY <1>1
<1>3. PICK S : message \in Seq(S)
  BY DEF PacketsAreAt
<1>4. Len(message) = length
  BY <1>2 DEF PacketsAreAt
<1>5. k \in Nat /\ k # 6 /\ k <= length
  BY <1>1, <1>2 DEF SpoiltAt, PacketLength
<1>6. PICK sent : sent = [message EXCEPT ![6] = n]
  OBVIOUS
<1>7. DOMAIN message = 1 .. length
  BY <1>3, <1>4
<1>8. 6 \in 1 .. length
  BY <1>1, <1>2
<1>9. /\ DOMAIN sent = 1 .. length /\ sent[6] = n
      /\ \A p \in 1 .. length : p # 6 => sent[p] = message[p]
  BY <1>6, <1>7, <1>8
<1>10. /\ ex[6] = n
       /\ \A p \in 1 .. length :
             p # 6 => ex[p] = IF p = k THEN b ELSE message[p]
  <2>1. CASE k = 0
    <3>1. ex = sent
      BY <2>1, <1>6 DEF Spoilt
    <3>2. \A p \in 1 .. length : p # k
      BY <2>1
    <3>3. QED
      BY <3>1, <3>2, <1>9
  <2>2. CASE k # 0
    <3>1. ex = [sent EXCEPT ![k] = b]
      BY <2>2, <1>6 DEF Spoilt
    <3>2. QED
      BY <2>2, <3>1, <1>5, <1>8, <1>9
  <2>3. QED
    BY <2>1, <2>2
<1>11. ASSUME NEW m \in 1 .. 5
       PROVE  PacketAt(ex, 7 + 5 * j)[m] =
                 IF k = 6 + 5 * j + m THEN b ELSE EncodedA(bank[j])[m]
  <2>1. PICK p \in Nat : p = 6 + 5 * j + m
    BY <1>1
  <2>2. p \in 1 .. length /\ p # 6
    BY <2>1, <1>1, <1>2
  <2>3. PICK first \in Nat : first = 7 + 5 * j
    BY <1>1
  <2>4. PacketAt(ex, first) = SubSeq(ex, first, first + 5 - 1)
    BY DEF PacketAt, PacketLength
  <2>5. SubSeq(ex, first, first + 5 - 1)[m] = ex[first + m - 1]
    BY <2>3
  <2>6. first + m - 1 = p
    BY <2>1, <2>3, <1>1
  <2>7. message[p] = EncodedA(bank[j])[m]
    BY <2>1 DEF PacketsAreAt
  <2>8. ex[p] = IF p = k THEN b ELSE message[p]
    BY <2>2, <1>10
  <2>9. QED
    BY <2>1, <2>3, <2>4, <2>5, <2>6, <2>7, <2>8
<1>12. QED
  BY <1>10, <1>11 DEF PacketIsBack

\* The packet of a byte, which is b at one place, if that is in the packet.
SpoiltPacket(packet, byte, b, at) ==
    \A m \in 1 .. 5 : packet[m] = IF m = at THEN b ELSE EncodedA(byte)[m]

\* What node_message() reads from such a packet.
LEMMA PacketReceived ==
    ASSUME NEW byte \in 0 .. 255, NEW b \in 0 .. 127, NEW at \in Int,
           NEW packet, SpoiltPacket(packet, byte, b, at)
    PROVE  /\ at \notin 1 .. 5 => DecodedA(packet) = byte /\ CheckOk(packet)
           /\ CheckOk(packet) => DecodedA(packet) = byte
<1>1. PICK low \in 0 .. 15, high \in 0 .. 15 :
         low = byte % 16 /\ high = byte \div 16
  BY PacketOfByte
<1>2. PICK check : check = Checksum(<<low, high>>)
  OBVIOUS
<1>3. /\ EncodedA(byte)[3] = low /\ EncodedA(byte)[4] = high
      /\ EncodedA(byte)[5] = check
  BY <1>1, <1>2, PacketOfByte
<1>4. /\ packet[3] = (IF 3 = at THEN b ELSE low)
      /\ packet[4] = (IF 4 = at THEN b ELSE high)
      /\ packet[5] = (IF 5 = at THEN b ELSE check)
  BY <1>3 DEF SpoiltPacket
<1>5. Joined(low, high) = byte
  BY <1>1, HalvesJoin
<1>6. CASE at \notin {3, 4}
  <2>1. packet[3] = low /\ packet[4] = high
    BY <1>4, <1>6
  <2>2. DecodedA(packet) = byte
    BY <2>1, <1>5 DEF DecodedA
  <2>3. at # 5 => CheckOk(packet)
    BY <2>1, <1>2, <1>4 DEF CheckOk
  <2>4. QED
    BY <2>2, <2>3
<1>7. CASE at = 3
  <2>1. packet[3] = b /\ packet[4] = high /\ packet[5] = check
    BY <1>4, <1>7
  <2>2. CheckOk(packet) => b = low
    <3>1. b # low => Checksum(<<b, high>>) # Checksum(<<low, high>>)
      BY ChecksumTells
    <3>2. QED
      BY <2>1, <3>1, <1>2 DEF CheckOk
  <2>3. b = low => DecodedA(packet) = byte
    BY <2>1, <1>5 DEF DecodedA
  <2>4. QED
    BY <2>2, <2>3, <1>7
<1>8. CASE at = 4
  <2>1. packet[3] = low /\ packet[4] = b /\ packet[5] = check
    BY <1>4, <1>8
  <2>2. CheckOk(packet) => b = high
    <3>1. b # high => Checksum(<<low, b>>) # Checksum(<<low, high>>)
      BY ChecksumTells
    <3>2. QED
      BY <2>1, <3>1, <1>2 DEF CheckOk
  <2>3. b = high => DecodedA(packet) = byte
    BY <2>1, <1>5 DEF DecodedA
  <2>4. QED
    BY <2>2, <2>3, <1>8
<1>9. QED
  BY <1>6, <1>7, <1>8

\* The banks that are asked for exist.
RequestsNameBanks ==
    \A u \in Uses : \A ex \in u.requests :
        Handler(ex) = "each_voice_bulk_data_dump" => Byte(ex, 5) \in Banks

\* The message sent last, when a bank was dumped, is the bank's.
DumpSent ==
    IsBankDump => /\ dumped \in Bank
                  /\ PacketsAreAt(Tail(answer), dumped)

\* The inductive invariant: banks hold bytes, the answer is the dump that it is
\* taken for, and what was stored last is the dump or was reported.
DumpsInv ==
    /\ use \in Uses
    /\ voice_banks \in [Banks -> Bank]
    /\ DumpSent
    /\ DumpRestoresBank
    /\ HarmIsReported

\* What voices hold and what bytes become on the line.
LEMMA UseBytes ==
    ASSUME use \in Uses
    PROVE  /\ use.voiceBytes \subseteq 0 .. 255
           /\ use.wrongBytes \subseteq 0 .. 127
<1>1. \A x \in use.voiceBytes : x \in 0 .. 255
  BY ExclusiveAssumption
<1>2. \A x \in use.wrongBytes : x \in 0 .. 127
  BY ExclusiveAssumption
<1>3. QED
  BY <1>1, <1>2

\* Initially nothing was dumped or stored.
LEMMA DumpsInit == ExclusiveInit => DumpsInv
<1> SUFFICES ASSUME ExclusiveInit
             PROVE  DumpsInv
  OBVIOUS
<1>1. use \in Uses /\ dumped = <<>> /\ stored = NoStore
  BY DEF ExclusiveInit, ControllersInit
<1>2. voice_banks \in [Banks -> Bank]
  <2>1. use.voiceBytes \subseteq 0 .. 255
    BY <1>1, UseBytes
  <2>2. voice_banks \in [Banks -> [0 .. VoiceCount -> use.voiceBytes]]
    BY DEF ExclusiveInit
  <2>3. [0 .. VoiceCount -> use.voiceBytes] \subseteq Bank
    BY <2>1 DEF Bank
  <2>4. QED
    BY <2>2, <2>3
<1>3. QED
  BY <1>1, <1>2 DEF DumpsInv, DumpSent, IsBankDump, DumpRestoresBank,
                    HarmIsReported

\* A message that comes back, spoilt or not, is the dump or is reported.
LEMMA SendBackReported ==
    ASSUME DumpsInv, NEW k \in SpoiltAt, NEW b \in use.wrongBytes,
           NEW bank \in Banks, SendBack(k, b, bank)
    PROVE  DumpsInv'
<1>1. PICK ex : ex = Spoilt([Tail(answer) EXCEPT ![6] = bank], k, b)
  OBVIOUS
<1>2. /\ IsBankDump /\ NodeMessage(ex)
      /\ stored'.bank = bank /\ stored'.contents = dumped
      /\ stored'.spoilt = (k # 0)
      /\ use' = use /\ answer' = answer /\ dumped' = dumped
  BY <1>1 DEF SendBack, controllerVars, dumpVars
<1>3. dumped \in Bank /\ PacketsAreAt(Tail(answer), dumped) /\ use \in Uses
  BY <1>2 DEF DumpsInv, DumpSent
<1>4. b \in 0 .. 127 /\ VoiceCount \in 1 .. 48
  <2>1. VoiceCount \in 1 .. 48
    BY ExclusiveAssumption
  <2>2. QED
    BY <2>1, <1>3, UseBytes
<1>5. PICK message : message = Tail(answer)
  OBVIOUS
<1>6. ASSUME NEW j \in 0 .. VoiceCount
      PROVE  /\ ex[6] = bank
             /\ \A m \in 1 .. 5 :
                   PacketAt(ex, 7 + 5 * j)[m] =
                      IF k = 6 + 5 * j + m THEN b ELSE EncodedA(dumped[j])[m]
  <2>1. PacketsAreAt(message, dumped)
        /\ ex = Spoilt([message EXCEPT ![6] = bank], k, b)
    BY <1>1, <1>3, <1>5
  <2>2. PacketIsBack(ex, dumped, bank, k, b, j)
    BY <2>1, PacketsSentBack
  <2>3. QED
    BY <2>2 DEF PacketIsBack
<1>7. ex[6] = bank
  BY <1>4, <1>6
<1>8. PICK packets : packets = PacketsOf(ex)
  OBVIOUS
<1>9. DOMAIN packets = 0 .. VoiceCount
  BY <1>8 DEF PacketsOf
<1>10. ASSUME NEW j \in 0 .. VoiceCount
       PROVE  /\ k = 0 => DecodedA(packets[j]) = dumped[j]
                          /\ CheckOk(packets[j])
              /\ CheckOk(packets[j]) => DecodedA(packets[j]) = dumped[j]
  <2>1. PICK byte \in 0 .. 255 : byte = dumped[j]
    BY <1>3 DEF Bank
  <2>2. PICK at \in Int : at = k - (6 + 5 * j)
    BY <1>4 DEF SpoiltAt, PacketLength
  <2>3. PICK packet : packet = packets[j]
    OBVIOUS
  <2>4. packet = PacketAt(ex, 7 + 5 * j)
    <3>1. 7 + j * PacketLength = 7 + 5 * j
      BY DEF PacketLength
    <3>2. QED
      BY <3>1, <2>3, <1>8 DEF PacketsOf
  <2>5. SpoiltPacket(packet, byte, b, at)
    <3>1. k \in Int
      BY <1>4 DEF SpoiltAt, PacketLength
    <3>2. \A m \in 1 .. 5 : k = 6 + 5 * j + m <=> m = at
      BY <3>1, <2>2
    <3>3. \A m \in 1 .. 5 :
             packet[m] = IF k = 6 + 5 * j + m THEN b ELSE EncodedA(byte)[m]
      BY <1>6, <2>1, <2>4
    <3>4. QED
      BY <3>2, <3>3 DEF SpoiltPacket
  <2>6. /\ at \notin 1 .. 5 => DecodedA(packet) = byte /\ CheckOk(packet)
        /\ CheckOk(packet) => DecodedA(packet) = byte
    BY <2>5, <1>4, PacketReceived
  <2>7. k = 0 => at \notin 1 .. 5
    BY <2>2
  <2>8. QED
    BY <2>1, <2>3, <2>6, <2>7
<1> DEFINE contents == [j \in DOMAIN packets |-> DecodedA(packets[j])]
<1>11. contents \in Bank
  <2>1. ASSUME NEW j \in 0 .. VoiceCount
        PROVE  DecodedA(packets[j]) \in 0 .. 255
    BY OrIsByte DEF DecodedA, Joined
  <2>2. QED
    BY <2>1, <1>9 DEF Bank
<1>12. /\ voice_banks' = [voice_banks EXCEPT ![bank] = contents]
       /\ voice' = Tones(voice_banks'[bank])
       /\ checksumError' = ~AllChecked(packets)
  <2>1. Byte(ex, 5) = bank
    BY <1>7 DEF Byte
  <2>2. /\ StoreBank(Byte(ex, 5), contents)
        /\ checksumError' = ~AllChecked(packets)
    BY <1>2, <1>8 DEF NodeMessage
  <2> HIDE DEF contents
  <2>3. QED
    BY <2>1, <2>2 DEF StoreBank
<1>13. /\ voice_banks' \in [Banks -> Bank]
       /\ voice_banks'[bank] = contents
  <2> HIDE DEF contents
  <2>1. QED
    BY <1>11, <1>12 DEF DumpsInv
<1>14. (\A j \in 0 .. VoiceCount : DecodedA(packets[j]) = dumped[j])
       => contents = dumped
  BY <1>3, <1>9 DEF Bank
<1>15. AllChecked(packets) <=> \A j \in 0 .. VoiceCount : CheckOk(packets[j])
  BY <1>9 DEF AllChecked
<1>16. ASSUME k = 0
       PROVE  contents = dumped /\ AllChecked(packets)
  BY <1>10, <1>14, <1>15, <1>16
<1>17. AllChecked(packets) => contents = dumped
  BY <1>10, <1>14, <1>15
<1> HIDE DEF contents
<1>18. DumpRestoresBank'
  BY <1>2, <1>12, <1>13, <1>16 DEF DumpRestoresBank
<1>19. HarmIsReported'
  BY <1>2, <1>12, <1>13, <1>17 DEF HarmIsReported
<1>20. DumpSent'
  BY <1>2, <1>3 DEF DumpSent
<1>21. QED
  BY <1>2, <1>3, <1>13, <1>18, <1>19, <1>20 DEF DumpsInv

\* All other messages leave the banks; the dump of a bank is remembered.
LEMMA DumpsInductive ==
    ASSUME RequestsNameBanks
    PROVE  DumpsInv /\ [ExclusiveNext]_exclusiveVars => DumpsInv'
<1> SUFFICES ASSUME DumpsInv, [ExclusiveNext]_exclusiveVars
             PROVE  DumpsInv'
  OBVIOUS
<1>1. CASE use' = use /\ UNCHANGED dumpVars /\ UNCHANGED storeVars
  BY <1>1 DEF dumpVars, storeVars, DumpsInv, DumpSent, IsBankDump,
              DumpRestoresBank, HarmIsReported
<1>2. CASE UNCHANGED exclusiveVars
  <2>1. use' = use /\ UNCHANGED dumpVars /\ UNCHANGED storeVars
    BY <1>2 DEF exclusiveVars, controllerVars
  <2>2. QED
    BY <2>1, <1>1
<1>3. CASE ControllersNext /\ UNCHANGED <<dumpVars, storeVars>>
  <2>1. use' = use
    BY <1>3 DEF ControllersNext, ControlChange, Rpn, Nrpn, DataEntry,
                MasterVolume, AllSoundOff, ResetAllControllers
  <2>2. UNCHANGED dumpVars /\ UNCHANGED storeVars
    BY <1>3
  <2>3. QED
    BY <2>1, <2>2, <1>1
<1>4. ASSUME NEW ex, NEW data, NEW bank, SendMidiData(ex, data, bank),
             bank # <<>> => bank \in Bank /\ PacketsAreAt(Tail(data), bank)
      PROVE  DumpsInv'
  <2>1. /\ use' = use /\ UNCHANGED storeVars
        /\ answer' = data /\ dumped' = bank
    BY <1>4 DEF SendMidiData, controllerVars
  <2>2. DumpSent'
    BY <2>1, <1>4 DEF DumpSent, IsBankDump
  <2>3. QED
    BY <2>1, <2>2 DEF storeVars, DumpsInv, DumpRestoresBank, HarmIsReported
<1>5. ASSUME NEW ex \in use.requests, EachVoiceBulkDataDump(ex)
      PROVE  DumpsInv'
  <2>1. PICK bank : bank = voice_banks[Byte(ex, 5)]
    OBVIOUS
  <2>2. bank \in Bank
    <3>1. use \in Uses
      BY DEF DumpsInv
    <3>2. Byte(ex, 5) \in Banks
      BY <3>1, <1>5 DEF RequestsNameBanks, EachVoiceBulkDataDump
    <3>3. QED
      BY <2>1, <3>2 DEF DumpsInv
  <2>3. PICK data :
           data = BankMessage(Byte(ex, 2), Byte(ex, 5) % 4, bank)
    OBVIOUS
  <2>4. PacketsAreAt(Tail(data), bank)
    BY <2>2, <2>3, MessageOfBank
  <2>5. SendMidiData(ex, data, bank)
    BY <2>1, <2>3, <1>5 DEF EachVoiceBulkDataDump, BankMessage, Header
  <2>6. QED
    BY <2>2, <2>4, <2>5, <1>4
<1>6. ASSUME NEW ex, CurrentConfigDataDump(ex) \/ VoiceDataDump(ex)
      PROVE  DumpsInv'
  <2>1. \E data : SendMidiData(ex, data, <<>>)
    BY <1>6 DEF CurrentConfigDataDump, VoiceDataDump
  <2>2. PICK data : SendMidiData(ex, data, <<>>)
    BY <2>1
  <2>3. PICK bank : bank = <<>>
    OBVIOUS
  <2>4. QED
    BY <2>2, <2>3, <1>4
<1>7. ASSUME NEW ex, ParamChangeInstrument(ex)
      PROVE  DumpsInv'
  <2>1. use' = use /\ UNCHANGED dumpVars /\ UNCHANGED storeVars
    BY <1>7 DEF ParamChangeInstrument
  <2>2. QED
    BY <2>1, <1>1
<1>8. CASE Requests
  BY <1>5, <1>6, <1>7, <1>8 DEF Requests
<1>9. QED
  BY <1>2, <1>3, <1>8, SendBackReported DEF ExclusiveNext

\* A dump that is sent back makes the bank and the tones what the bank was, for
\* any number of voices and banks and any bytes in them: splitting, packing,
\* unpacking and joining lose nothing, and no error is reported.
THEOREM DumpsRestore ==
    ASSUME RequestsNameBanks
    PROVE  ExclusiveSpec => []DumpRestoresBank
<1>1. DumpsInv => DumpRestoresBank
  BY DEF DumpsInv
<1>2. QED
  BY <1>1, DumpsInit, DumpsInductive, PTL DEF ExclusiveSpec

\* One spoilt byte, in whichever place of whichever packet and whatever it has
\* become, changes nothing of the bank or is reported.
THEOREM HarmReported ==
    ASSUME RequestsNameBanks
    PROVE  ExclusiveSpec => []HarmIsReported
<1>1. DumpsInv => HarmIsReported
  BY DEF DumpsInv
<1>2. QED
  BY <1>1, DumpsInit, DumpsInductive, PTL DEF ExclusiveSpec
=============================================================================
