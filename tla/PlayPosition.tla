----------------------------- MODULE PlayPosition -----------------------------
(***************************************************************************)
(* WaveOutWin32::GetPos(): the playback position as a counter that does    *)
(* not wrap, made from the device's counter, which wraps at 2^27.  The     *)
(* rendering thread and the threads that play messages call it without a   *)
(* lock; they share the position returned last, prevPlayPosition.          *)
(*                                                                         *)
(* The audio device is external.  GetPos()'s comments say what the code    *)
(* expects of it: a counter that wraps and that may go back a little.      *)
(***************************************************************************)
EXTENDS Integers

CONSTANTS
    Threads,         \* the threads that call GetPos()
    WrapModulus,     \* 2^WRAP_BITS, where the device's counter wraps
    DwordModulus,    \* 2^32, the range of wrapCount << WRAP_BITS
    Jitters,         \* how far the device's counter may fall behind
    FallsAcrossWrap, \* whether it may fall back across a wraparound
    MaxPlayed        \* bound: samples played

ASSUME PositionAssumption ==
    /\ WrapModulus \in Nat \ {0} /\ WrapModulus % 2 = 0
    /\ \E k \in 1 .. 32 : DwordModulus = k * WrapModulus
    /\ Jitters \subseteq 0 .. WrapModulus \div 2 - 1
    /\ FallsAcrossWrap \in BOOLEAN
    /\ MaxPlayed \in Nat

VARIABLES
    played,              \* samples the device has played
    jitter,              \* how far this device's counter may fall behind
    prevPlayPosition,
    pc,                  \* where each thread is in GetPos()
    snapshot,            \* playPositionSnapshot of each thread
    sample,              \* mmTime.u.sample of each thread, masked
    truth,               \* what `played' was when the thread read the device
    returned             \* what GetPos() returned last to each thread

deviceVars == <<played, jitter>>
vars == <<deviceVars, prevPlayPosition, pc, snapshot, sample, truth, returned>>

WrapThreshold == WrapModulus \div 2

Init ==
    /\ played = 0
    /\ jitter \in Jitters
    /\ prevPlayPosition = 0
    /\ pc = [t \in Threads |-> "idle"]
    /\ snapshot = [t \in Threads |-> 0]
    /\ sample = [t \in Threads |-> 0]
    /\ truth = [t \in Threads |-> 0]
    /\ returned = [t \in Threads |-> 0]

\* The device plays a sample.  The position is asked for often enough not to
\* miss a wraparound, and no call takes as long as half a wrap.
DevicePlays ==
    /\ played < MaxPlayed
    /\ played + 1 - prevPlayPosition < WrapThreshold
    /\ \A t \in Threads :
          pc[t] # "idle" => played + 1 - snapshot[t] < WrapThreshold
    /\ played' = played + 1
    /\ UNCHANGED <<jitter, prevPlayPosition, pc, snapshot, sample, truth, returned>>

TakeSnapshot(t) ==
    /\ pc[t] = "idle"
    /\ pc' = [pc EXCEPT ![t] = "snapshot"]
    /\ snapshot' = [snapshot EXCEPT ![t] = prevPlayPosition]
    /\ UNCHANGED <<deviceVars, prevPlayPosition, sample, truth, returned>>

\* waveOutGetPosition(), masked.
AskDevice(t) ==
    /\ pc[t] = "snapshot"
    /\ pc' = [pc EXCEPT ![t] = "asked"]
    /\ \E behind \in 0 .. jitter :
          /\ behind <= IF FallsAcrossWrap THEN played ELSE played % WrapModulus
          /\ sample' = [sample EXCEPT ![t] = (played - behind) % WrapModulus]
    /\ truth' = [truth EXCEPT ![t] = played]
    /\ UNCHANGED <<deviceVars, prevPlayPosition, snapshot, returned>>

Delta(t) == sample[t] - (snapshot[t] % WrapModulus)

\* Mutant: a wraparound is not counted.
WrapCountUnchanged(t) == snapshot[t] \div WrapModulus

WrapCount(t) ==
    IF Delta(t) < -WrapThreshold THEN snapshot[t] \div WrapModulus + 1
                                 ELSE snapshot[t] \div WrapModulus

\* The sum is one of DWORDs: it is cut off before it is widened.
NewPosition(t) == (sample[t] + WrapCount(t) * WrapModulus) % DwordModulus

\* The call is over, and with it its local variables.
Returns(t, position) ==
    /\ pc' = [pc EXCEPT ![t] = "idle"]
    /\ returned' = [returned EXCEPT ![t] = position]
    /\ snapshot' = [snapshot EXCEPT ![t] = 0]
    /\ sample' = [sample EXCEPT ![t] = 0]
    /\ UNCHANGED <<deviceVars, truth>>

\* The device's counter went back: the position stays what it was.
ReturnSnapshot(t) ==
    /\ pc[t] = "asked"
    /\ Delta(t) \in -WrapThreshold .. -1
    /\ Returns(t, snapshot[t])
    /\ UNCHANGED prevPlayPosition

ReturnPosition(t) ==
    /\ pc[t] = "asked"
    /\ Delta(t) \notin -WrapThreshold .. -1
    /\ Returns(t, NewPosition(t))
    /\ prevPlayPosition' = NewPosition(t)

GetPos(t) ==
    \/ TakeSnapshot(t)
    \/ AskDevice(t)
    \/ ReturnSnapshot(t)
    \/ ReturnPosition(t)

Next == DevicePlays \/ \E t \in Threads : GetPos(t)

Spec == Init /\ [][Next]_vars

-----------------------------------------------------------------------------
(* Properties *)

\* Every variable has its type: positions and samples stay in their ranges.
TypeOK ==
    /\ played \in 0 .. MaxPlayed
    /\ jitter \in Jitters
    /\ prevPlayPosition \in 0 .. DwordModulus - 1
    /\ pc \in [Threads -> {"idle", "snapshot", "asked"}]
    /\ snapshot \in [Threads -> 0 .. DwordModulus - 1]
    /\ sample \in [Threads -> 0 .. WrapModulus - 1]
    /\ truth \in [Threads -> 0 .. MaxPlayed]
    /\ returned \in [Threads -> 0 .. DwordModulus - 1]

\* GetPos() undoes the wraparounds: although the threads overwrite each
\* other's prevPlayPosition with older values, what a call returns is no more
\* than the device's jitter behind the samples played when it asked, and never
\* ahead of them.
PositionIsTrue ==
    \A t \in Threads :
        pc[t] = "idle" => returned[t] \in truth[t] - jitter .. truth[t]

\* "This ensures the return is monotonically increased": no thread is given a
\* position that lies before the one it was given last.  It fails when the
\* device falls back and another thread's older position was written last.
NeverGoesBack ==
    [][\A t \in Threads : returned'[t] >= returned[t]]_vars
=============================================================================
