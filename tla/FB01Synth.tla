------------------------------ MODULE FB01Synth ------------------------------
(***************************************************************************)
(* The life cycle of the synth inside the Windows driver: the threads of   *)
(* the applications, which open, play, reset and close it, the rendering   *)
(* thread, which refills the chunks that the audio device has played, and  *)
(* the two events they meet at: synthEvent, which guards rendering against *)
(* a reset, and hEvent, which wakes the rendering thread.                  *)
(*                                                                         *)
(* The driver opens and closes the synth when no other call is under way;  *)
(* several threads may play and reset at the same time.  Messages, samples *)
(* and timestamps are left to Synth and PlayPosition.  The audio device is *)
(* external: it plays chunks in the order of waveOutWrite, marks each      *)
(* WHDR_DONE and sets hEvent.                                              *)
(***************************************************************************)
EXTENDS Naturals, Sequences

CONSTANTS
    AppThreads,     \* threads that call the driver
    Chunks,         \* number of WAVEHDRs, more than one: no looped ring buffer
    OpenMayFail     \* whether Synth::open() may run out of memory

ASSUME ChunksAssumption == Chunks \in Nat \ {0, 1}
ASSUME OpenMayFailAssumption == OpenMayFail \in BOOLEAN

VARIABLES
    synth,             \* "none", or the Synth object: "closed", "open" or,
                       \* when open() has failed, "failed"
    synthOpened,       \* winmm_drv.cpp's flag: Init() has succeeded
    synthEvent,        \* the event is set, that is, nobody is inside
    stopProcessing,
    hEvent,            \* the event is set
    thread,            \* where the rendering thread is
    chunk,             \* its loop counter i
    allBuffersRendered,
    playing,           \* device: the chunks written and not yet played
    done,              \* device: the chunks marked WHDR_DONE
    paused,            \* device: playback is paused
    app,               \* where each application thread is
    dangling           \* threads whose midiQueue was deleted under them

deviceVars == <<playing, done, paused>>
threadVars == <<thread, chunk, allBuffersRendered>>
synthVars == <<synth, synthOpened>>
vars == <<synthVars, synthEvent, stopProcessing, hEvent, threadVars, deviceVars,
          app, dangling>>

AllChunks == 0 .. Chunks - 1
InOrder == [i \in 1 .. Chunks |-> i - 1]

Init ==
    /\ synth = "none"
    /\ synthOpened = FALSE
    /\ synthEvent = FALSE
    /\ stopProcessing = FALSE
    /\ hEvent = FALSE
    /\ thread = "none"
    /\ chunk = 0
    /\ allBuffersRendered = TRUE
    /\ playing = <<>>
    /\ done = {}
    /\ paused = FALSE
    /\ app = [t \in AppThreads |-> "idle"]
    /\ dangling = {}

\* A crash of the rendering thread is the end of the process.
Crashed == thread = "crashed"

Goes(t, from, to) ==
    /\ ~Crashed
    /\ app[t] = from
    /\ app' = [app EXCEPT ![t] = to]

NoCallUnderWay == \A t \in AppThreads : app[t] = "idle"

\* The synth's queue is deleted: a thread that is pushing keeps its pointer.
QueueDeleted ==
    dangling' = dangling \union {t \in AppThreads : app[t] = "pushing"}

-----------------------------------------------------------------------------
(* The rendering thread *)

TestStop ==
    /\ thread = "test"
    /\ thread' = IF stopProcessing THEN "dead" ELSE "scan"
    /\ chunk' = 0
    /\ allBuffersRendered' = TRUE
    /\ UNCHANGED <<synthVars, synthEvent, stopProcessing, hEvent, deviceVars,
                   app, dangling>>

\* Mutant: a chunk is refilled whether the device has played it or not.
ScanChunkUnconditionally ==
    /\ thread = "scan"
    /\ chunk < Chunks
    /\ thread' = "lock"
    /\ allBuffersRendered' = FALSE
    /\ UNCHANGED chunk
    /\ UNCHANGED <<synthVars, synthEvent, stopProcessing, hEvent, deviceVars,
                   app, dangling>>

ScanChunk ==
    /\ thread = "scan"
    /\ chunk < Chunks
    /\ IF chunk \in done
       THEN /\ thread' = "lock"
            /\ allBuffersRendered' = FALSE
            /\ UNCHANGED chunk
       ELSE /\ chunk' = chunk + 1
            /\ UNCHANGED <<thread, allBuffersRendered>>
    /\ UNCHANGED <<synthVars, synthEvent, stopProcessing, hEvent, deviceVars,
                   app, dangling>>

\* After a scan that found nothing to do the thread sleeps.
ScanEnds ==
    /\ thread = "scan"
    /\ chunk = Chunks
    /\ thread' = IF allBuffersRendered THEN "wait" ELSE "test"
    /\ UNCHANGED <<synthVars, synthEvent, stopProcessing, hEvent, chunk,
                   allBuffersRendered, deviceVars, app, dangling>>

\* Mutant: rendering does not wait for a reset to finish.
LockSynthUnguarded ==
    /\ thread = "lock"
    /\ thread' = "render"
    /\ synthEvent' = FALSE
    /\ UNCHANGED <<synthVars, stopProcessing, hEvent, chunk,
                   allBuffersRendered, deviceVars, app, dangling>>

LockSynth ==
    /\ thread = "lock"
    /\ synthEvent
    /\ thread' = "render"
    /\ synthEvent' = FALSE
    /\ UNCHANGED <<synthVars, stopProcessing, hEvent, chunk,
                   allBuffersRendered, deviceVars, app, dangling>>

\* synth->render() into the chunk, then synthEvent.Release().
RenderChunk ==
    /\ thread = "render"
    /\ synth = "open"
    /\ thread' = "write"
    /\ synthEvent' = TRUE
    /\ UNCHANGED <<synthVars, stopProcessing, hEvent, chunk,
                   allBuffersRendered, deviceVars, app, dangling>>

\* render() follows midiQueue, which is NULL in a synth that is not open.
RenderCrashes ==
    /\ thread = "render"
    /\ synth # "open"
    /\ thread' = "crashed"
    /\ UNCHANGED <<synthVars, synthEvent, stopProcessing, hEvent, chunk,
                   allBuffersRendered, deviceVars, app, dangling>>

WriteChunk ==
    /\ thread = "write"
    /\ thread' = "scan"
    /\ chunk' = chunk + 1
    /\ playing' = Append(playing, chunk)
    /\ done' = done \ {chunk}
    /\ UNCHANGED <<synthVars, synthEvent, stopProcessing, hEvent,
                   allBuffersRendered, paused, app, dangling>>

\* hEvent resets itself when it wakes the thread.
Wake ==
    /\ thread = "wait"
    /\ hEvent
    /\ hEvent' = FALSE
    /\ thread' = "test"
    /\ UNCHANGED <<synthVars, synthEvent, stopProcessing, chunk,
                   allBuffersRendered, deviceVars, app, dangling>>

RenderingThread ==
    \/ TestStop
    \/ ScanChunk
    \/ ScanEnds
    \/ LockSynth
    \/ RenderChunk
    \/ RenderCrashes
    \/ WriteChunk
    \/ Wake

\* The audio device has played a chunk.
DevicePlays ==
    /\ ~Crashed
    /\ playing # <<>>
    /\ ~paused
    /\ playing' = Tail(playing)
    /\ done' = done \union {Head(playing)}
    /\ hEvent' = TRUE
    /\ UNCHANGED <<synthVars, synthEvent, stopProcessing, threadVars, paused,
                   app, dangling>>

-----------------------------------------------------------------------------
(* Init() *)

\* The synth, the events, the device with silent chunks and the thread start.
InitSucceeds ==
    /\ ~Crashed
    /\ NoCallUnderWay
    /\ ~synthOpened
    /\ synth' = "open"
    /\ synthOpened' = TRUE
    /\ synthEvent' = TRUE
    /\ stopProcessing' = FALSE
    /\ hEvent' = TRUE
    /\ playing' = InOrder
    /\ done' = {}
    /\ paused' = FALSE
    /\ thread' = "test"
    /\ UNCHANGED <<chunk, allBuffersRendered, app, dangling>>

\* Synth::open() fails; the Synth object stays behind.
InitFails ==
    /\ OpenMayFail
    /\ ~Crashed
    /\ NoCallUnderWay
    /\ ~synthOpened
    /\ synth' = "failed"
    /\ synthEvent' = TRUE
    /\ UNCHANGED <<synthOpened, stopProcessing, hEvent, threadVars, deviceVars,
                   app, dangling>>

-----------------------------------------------------------------------------
(* PlayMIDI() and PlaySysex().  They take no event: Synth finds midiQueue  *)
(* and then pushes to it; without a queue the message is refused.          *)

Closing ==
    \E t \in AppThreads :
        app[t] \in {"stopping", "waking", "joining", "closing", "deleting"}

FindQueue(t) ==
    /\ synthOpened
    /\ ~Closing
    /\ synth = "open"
    /\ Goes(t, "idle", "pushing")
    /\ UNCHANGED <<synthVars, synthEvent, stopProcessing, hEvent, threadVars,
                   deviceVars, dangling>>

Push(t) ==
    /\ Goes(t, "pushing", "idle")
    /\ dangling' = dangling \ {t}
    /\ UNCHANGED <<synthVars, synthEvent, stopProcessing, hEvent, threadVars,
                   deviceVars>>

-----------------------------------------------------------------------------
(* Reset() *)

\* With reset disabled, only the settings are applied, under synthEvent.
ResetDisabled(t) ==
    /\ synthOpened
    /\ ~Closing
    /\ Goes(t, "idle", "settings")
    /\ UNCHANGED <<synthVars, synthEvent, stopProcessing, hEvent, threadVars,
                   deviceVars, dangling>>

ApplySettings(t) ==
    /\ synthEvent
    /\ Goes(t, "settings", "idle")
    /\ UNCHANGED <<synthVars, synthEvent, stopProcessing, hEvent, threadVars,
                   deviceVars, dangling>>

ResetPauses(t) ==
    /\ synthOpened
    /\ ~Closing
    /\ Goes(t, "idle", "resetting")
    /\ paused' = TRUE
    /\ UNCHANGED <<synthVars, synthEvent, stopProcessing, hEvent, threadVars,
                   playing, done, dangling>>

ResetLocks(t) ==
    /\ synthEvent
    /\ Goes(t, "resetting", "locked")
    /\ synthEvent' = FALSE
    /\ UNCHANGED <<synthVars, stopProcessing, hEvent, threadVars, deviceVars,
                   dangling>>

ResetCloses(t) ==
    /\ Goes(t, "locked", "reopening")
    /\ synth' = "closed"
    /\ QueueDeleted
    /\ UNCHANGED <<synthOpened, synthEvent, stopProcessing, hEvent, threadVars,
                   deviceVars>>

\* Mutant: the reset keeps synthEvent.
ResetOpensLocked(t) ==
    /\ Goes(t, "reopening", "resuming")
    /\ synth' = "open"
    /\ UNCHANGED <<synthOpened, synthEvent, stopProcessing, hEvent, threadVars,
                   deviceVars, dangling>>

ResetOpens(t) ==
    /\ Goes(t, "reopening", "resuming")
    /\ synth' = "open"
    /\ synthEvent' = TRUE
    /\ UNCHANGED <<synthOpened, stopProcessing, hEvent, threadVars, deviceVars,
                   dangling>>

\* The synth stays closed and playback paused; MODM_CLOSE ignores the failure.
ResetFails(t) ==
    /\ OpenMayFail
    /\ Goes(t, "reopening", "idle")
    /\ synth' = "failed"
    /\ synthEvent' = TRUE
    /\ UNCHANGED <<synthOpened, stopProcessing, hEvent, threadVars, deviceVars,
                   dangling>>

ResetResumes(t) ==
    /\ Goes(t, "resuming", "idle")
    /\ paused' = FALSE
    /\ UNCHANGED <<synthVars, synthEvent, stopProcessing, hEvent, threadVars,
                   playing, done, dangling>>

-----------------------------------------------------------------------------
(* Close() *)

ClosePauses(t) ==
    /\ NoCallUnderWay
    /\ synthOpened
    /\ Goes(t, "idle", "stopping")
    /\ paused' = TRUE
    /\ UNCHANGED <<synthVars, synthEvent, stopProcessing, hEvent, threadVars,
                   playing, done, dangling>>

CloseStops(t) ==
    /\ Goes(t, "stopping", "waking")
    /\ stopProcessing' = TRUE
    /\ UNCHANGED <<synthVars, synthEvent, hEvent, threadVars, deviceVars,
                   dangling>>

\* Mutant: the sleeping rendering thread is not woken.
CloseWakesNobody(t) ==
    /\ Goes(t, "waking", "joining")
    /\ UNCHANGED <<synthVars, synthEvent, stopProcessing, hEvent, threadVars,
                   deviceVars, dangling>>

CloseWakes(t) ==
    /\ Goes(t, "waking", "joining")
    /\ hEvent' = TRUE
    /\ UNCHANGED <<synthVars, synthEvent, stopProcessing, threadVars,
                   deviceVars, dangling>>

\* Mutant: the rendering thread is not waited for.
CloseJoinsNobody(t) ==
    /\ Goes(t, "joining", "closing")
    /\ playing' = <<>>
    /\ done' = {}
    /\ UNCHANGED <<synthVars, synthEvent, stopProcessing, hEvent, threadVars,
                   paused, dangling>>

\* The rendering thread has died: the device is reset and its chunks freed.
CloseJoins(t) ==
    /\ thread = "dead"
    /\ Goes(t, "joining", "closing")
    /\ playing' = <<>>
    /\ done' = {}
    /\ UNCHANGED <<synthVars, synthEvent, stopProcessing, hEvent, threadVars,
                   paused, dangling>>

CloseLocks(t) ==
    /\ synthEvent
    /\ Goes(t, "closing", "deleting")
    /\ synthEvent' = FALSE
    /\ UNCHANGED <<synthVars, stopProcessing, hEvent, threadVars, deviceVars,
                   dangling>>

CloseDeletes(t) ==
    /\ Goes(t, "deleting", "idle")
    /\ synth' = "none"
    /\ synthOpened' = FALSE
    /\ QueueDeleted
    /\ UNCHANGED <<synthEvent, stopProcessing, hEvent, threadVars, deviceVars>>

-----------------------------------------------------------------------------
\* The steps a call makes of itself, and those that wait for synthEvent.
CallStep(t) ==
    \/ Push(t)
    \/ ResetCloses(t) \/ ResetOpens(t) \/ ResetFails(t) \/ ResetResumes(t)
    \/ CloseStops(t) \/ CloseWakes(t) \/ CloseJoins(t) \/ CloseDeletes(t)

WaitForSynth(t) == ApplySettings(t) \/ ResetLocks(t) \/ CloseLocks(t)

NewCall(t) == FindQueue(t) \/ ResetDisabled(t) \/ ResetPauses(t) \/ ClosePauses(t)

AppThread(t) == NewCall(t) \/ CallStep(t) \/ WaitForSynth(t)

Next ==
    \/ InitSucceeds
    \/ InitFails
    \/ \E t \in AppThreads : AppThread(t)
    \/ RenderingThread
    \/ DevicePlays
    \/ Crashed /\ UNCHANGED vars

Spec == Init /\ [][Next]_vars

\* Threads are scheduled and the device plays.  The kernel wakes the threads
\* that wait for an event in turn, so each of them gets it if it is set again
\* and again.  No application has to call anything.
Fairness ==
    /\ WF_vars(RenderingThread)
    /\ SF_vars(LockSynth)
    /\ WF_vars(DevicePlays)
    /\ \A t \in AppThreads : WF_vars(CallStep(t)) /\ SF_vars(WaitForSynth(t))

FairSpec == Spec /\ Fairness

-----------------------------------------------------------------------------
(* Properties *)

\* Where a thread may be in its call of the driver.
Phases ==
    {"idle", "pushing", "settings", "resetting", "locked", "reopening",
     "resuming", "stopping", "waking", "joining", "closing", "deleting"}

\* Every variable has its type; the scan of the chunks ends at the last one.
TypeOK ==
    /\ synth \in {"none", "closed", "open", "failed"}
    /\ synthOpened \in BOOLEAN
    /\ synthEvent \in BOOLEAN
    /\ stopProcessing \in BOOLEAN
    /\ hEvent \in BOOLEAN
    /\ thread \in {"none", "test", "scan", "lock", "render", "write", "wait",
                   "dead", "crashed"}
    /\ chunk \in 0 .. Chunks
    /\ allBuffersRendered \in BOOLEAN
    /\ playing \in Seq(AllChunks)
    /\ done \subseteq AllChunks
    /\ paused \in BOOLEAN
    /\ app \in [AppThreads -> Phases]
    /\ dangling \subseteq AppThreads

\* The rendering thread is inside render() only between resets, although
\* another thread closes and reopens the synth: it finds the synth open, or as
\* a failed open() has left it.
RenderExcludesReset == thread = "render" => synth \in {"open", "failed"}

\* Synth.h: open() "must be called before any other function".  render(), which
\* follows midiQueue without a test, is called only while the synth is open.
RenderNeedsOpenSynth == thread = "render" => synth = "open"

\* Close() deletes the synth, its audio buffer and the wave headers only after
\* the rendering thread has made its last step.
SynthOutlivesThread ==
    /\ synth = "none" => thread \in {"none", "dead"}
    /\ \A t \in AppThreads :
          app[t] \in {"closing", "deleting"} => thread = "dead"

\* The rendering thread fills a chunk only between the device's playing it and
\* its being written again, and no chunk is written twice.
ChunkOwnership ==
    /\ thread \in {"lock", "render", "write"} => chunk \in done
    /\ \A i \in 1 .. Len(playing) :
          /\ playing[i] \notin done
          /\ \A j \in 1 .. Len(playing) : playing[i] = playing[j] => i = j

\* No wakeup is lost: a chunk that was played is written again, unless the
\* rendering thread is told to stop.
ChunksKeepPlaying ==
    \A c \in AllChunks :
        c \in done ~> c \notin done \/ stopProcessing \/ Crashed

\* PlayMIDI(), Reset() and Close() return; Close() in particular waits neither
\* for a sleeping rendering thread nor for one that waits for synthEvent.
CallsReturn == \A t \in AppThreads : app[t] # "idle" ~> app[t] = "idle" \/ Crashed

\* Synth.h: "Calls from multiple threads must be synchronised".  No thread
\* pushes to a queue that a reset has deleted.
QueueOutlivesPush == dangling = {}
=============================================================================
