------------------------------ MODULE Runtime -------------------------------
(***************************************************************************)
(* The Runtime around one LeasedGenerator: the goroutine that runs its     *)
(* refresh loop, and Stop, which cancels the loop, waits for it and closes *)
(* the generator.  Callers of the generator and direct calls of Close go   *)
(* on at the same time.                                                    *)
(***************************************************************************)
EXTENDS LeaseManager

CONSTANT Loop   \* the goroutine of Runtime.run

ASSUME RuntimeAssumption ==
    /\ Loop \in Threads
    /\ \A t \in Threads : "loop" \in MayCall[t] <=> t = Loop

VARIABLES
    loop,       \* where RunRefreshLoop and run() are
    loopLeft,   \* until the refresh of the loop times out
    loopErr,    \* what RunRefreshLoop returned
    rctx,       \* Runtime.ctx: "live" or its Err()
    rerr,       \* Runtime.err
    stopper,    \* the thread inside stopOnce
    stopping,   \* where each call of Stop is
    stopDone,
    stopErr,
    stopResults \* history: what calls of Stop returned

loopVars == <<loop, loopLeft, loopErr, rctx, rerr>>
stopVars == <<stopper, stopping, stopDone, stopErr, stopResults>>
vars == <<leaseVars, loopVars, stopVars>>

Users == Threads \ {Loop}

Init ==
    /\ LeaseInit
    /\ loop = "off"
    /\ loopLeft = 0
    /\ loopErr = {}
    /\ rctx = "live"
    /\ rerr = {}
    /\ stopper = NoThread
    /\ stopping = [t \in Users |-> "no"]
    /\ stopDone = FALSE
    /\ stopErr = {}
    /\ stopResults = {}

-----------------------------------------------------------------------------
(* The refresh loop.  Its ticker may have a tick ready at any time.        *)
StartRuntime ==
    /\ loop = "off"
    /\ loop' = "select"
    /\ UNCHANGED <<leaseVars, loopLeft, loopErr, rctx, rerr, stopVars>>

(* The operation timeout starts here, before the mutex.  Its context does  *)
(* not end with that of the Runtime.                                       *)
LoopRefreshes ==
    /\ loop = "select" /\ rctx = "live"
    /\ loop' = "refresh"
    /\ loopLeft' = OperationTimeout
    /\ Ask(Loop, "loop")
    /\ UNCHANGED <<loopErr, rctx, rerr, stopVars>>

LoopGoesOn ==
    /\ loop = "refresh" /\ got[Loop] = {}
    /\ Leave(Loop)
    /\ loop' = "select"
    /\ loopLeft' = 0
    /\ UNCHANGED <<loopErr, rctx, rerr, stopVars>>

LoopFails ==
    /\ loop = "refresh" /\ got[Loop] # {}
    /\ Leave(Loop)
    /\ loop' = "ended"
    /\ loopLeft' = 0
    /\ loopErr' = got[Loop]
    /\ UNCHANGED <<rctx, rerr, stopVars>>

LoopCancelled ==
    /\ loop = "select" /\ rctx # "live"
    /\ loop' = "ended"
    /\ loopErr' = {rctx}
    /\ UNCHANGED <<leaseVars, loopLeft, rctx, rerr, stopVars>>

-----------------------------------------------------------------------------
(* run().  An error is the Runtime's own unless its context has ended and  *)
(* the error says no more than that.                                       *)
(* Slip: with the context ended, no error is worth recording.              *)
WorthRecordingUnlessEnded(e) == rctx = "live"

WorthRecording(e) == rctx = "live" \/ (e # {} /\ e \cap ContextErrors = {})

JudgeEnd ==
    /\ loop = "ended"
    /\ loop' = IF WorthRecording(loopErr) THEN "recording" ELSE "recorded"
    /\ UNCHANGED <<leaseVars, loopLeft, loopErr, rctx, rerr, stopVars>>

Cancelled(c) == IF c = "live" THEN "Canceled" ELSE c

RecordError ==
    /\ loop = "recording"
    /\ loop' = "recorded"
    /\ rerr' = loopErr
    /\ rctx' = Cancelled(rctx)
    /\ UNCHANGED <<leaseVars, loopLeft, loopErr, stopVars>>

(* Slip: run() returns at once when it has recorded an error.              *)
CloseDoneUnlessFailed ==
    /\ loop = "recorded" /\ rerr = {}
    /\ loop' = "done"
    /\ UNCHANGED <<leaseVars, loopLeft, loopErr, rctx, rerr, stopVars>>

CloseDone ==
    /\ loop = "recorded"
    /\ loop' = "done"
    /\ UNCHANGED <<leaseVars, loopLeft, loopErr, rctx, rerr, stopVars>>

(* The parent context ends, by cancellation or by its deadline.            *)
EndParent ==
    /\ rctx = "live"
    /\ rctx' \in ContextErrors
    /\ UNCHANGED <<leaseVars, loop, loopLeft, loopErr, rerr, stopVars>>

-----------------------------------------------------------------------------
(* Stop.  Whoever comes first does the work; everybody waits for it.       *)
Advance(t, where) == stopping' = [stopping EXCEPT ![t] = where]

CallStop(t) ==
    /\ pc[t] = "out" /\ stopping[t] = "no" /\ "stop" \in MayCall[t]
    /\ loop # "off"
    /\ IF stopper = NoThread
       THEN stopper' = t /\ Advance(t, "cancel")
       ELSE UNCHANGED stopper /\ Advance(t, "wait")
    /\ UNCHANGED <<leaseVars, loopVars, stopDone, stopErr, stopResults>>

(* Slip: Stop waits for a loop it has not told to end.                     *)
CancelLoopUntold(t) ==
    /\ stopping[t] = "cancel"
    /\ Advance(t, "join")
    /\ UNCHANGED <<leaseVars, loopVars, stopper, stopDone, stopErr, stopResults>>

CancelLoop(t) ==
    /\ stopping[t] = "cancel"
    /\ rctx' = Cancelled(rctx)
    /\ Advance(t, "join")
    /\ UNCHANGED <<leaseVars, loop, loopLeft, loopErr, rerr, stopper, stopDone, stopErr, stopResults>>

(* Slip: Stop closes the generator as soon as it has cancelled the loop.   *)
CloseAfterCancel(t) ==
    /\ stopping[t] = "join"
    /\ Ask(t, "stop")
    /\ Advance(t, "close")
    /\ UNCHANGED <<loopVars, stopper, stopDone, stopErr, stopResults>>

CloseAfterLoop(t) ==
    /\ stopping[t] = "join" /\ loop = "done"
    /\ Ask(t, "stop")
    /\ Advance(t, "close")
    /\ UNCHANGED <<loopVars, stopper, stopDone, stopErr, stopResults>>

FinishStop(t) ==
    /\ stopping[t] = "close"
    /\ Leave(t)
    /\ stopErr' = rerr \cup got[t]
    /\ stopDone' = TRUE
    /\ Advance(t, "wait")
    /\ UNCHANGED <<loopVars, stopper, stopResults>>

ReturnStop(t) ==
    /\ stopping[t] = "wait" /\ stopDone
    /\ Advance(t, "no")
    /\ stopResults' = stopResults \cup {stopErr}
    /\ UNCHANGED <<leaseVars, loopVars, stopper, stopDone, stopErr>>

-----------------------------------------------------------------------------
Call(t) ==
    /\ stopping[t] = "no"
    /\ \E o \in MayCall[t] \ {"stop"} : Ask(t, o)
    /\ UNCHANGED <<loopVars, stopVars>>

Waiting(t) == pc[t] \notin {"out", "answered"}

(* When loopLeft is used up, the context of the loop's refresh has ended.  *)
Tick ==
    /\ SomethingRuns \/ loopLeft > 0
    /\ RunTimers
    /\ loopLeft' = Less(loopLeft)
    /\ ctx' = IF loop = "refresh" /\ Waiting(Loop) /\ loopLeft' = 0
              THEN [ctx EXCEPT ![Loop] = "DeadlineExceeded"]
              ELSE ctx
    /\ UNCHANGED <<loop, loopErr, rctx, rerr, stopVars>>

Manager(A) == A /\ UNCHANGED <<loopVars, stopVars>>

LoopSteps ==
    LoopRefreshes \/ LoopGoesOn \/ LoopFails \/ LoopCancelled
    \/ JudgeEnd \/ RecordError \/ CloseDone

StopSteps(t) ==
    CancelLoop(t) \/ CloseAfterLoop(t) \/ FinishStop(t) \/ ReturnStop(t)

Next ==
    \/ StartRuntime \/ LoopSteps \/ EndParent \/ Tick
    \/ \E t \in Users : Call(t) \/ CallStop(t) \/ StopSteps(t)
    \/ \E t \in Threads : Manager(Proceed(t)) \/ Manager(EndContext(t))

(* Time passes, timers fire, store calls end at the latest when their      *)
(* context does, and goroutines that wait for nothing go on.  sync.Mutex   *)
(* hands itself over to a waiter that has starved.                         *)
Fairness ==
    /\ WF_vars(Tick)
    /\ WF_vars(LoopSteps)
    /\ \A t \in Users : WF_vars(StopSteps(t))
    /\ \A t \in Threads :
          /\ SF_vars(Manager(Lock(t)))
          /\ WF_vars(Manager(Answer(t)))
          /\ WF_vars(Manager(Wake(t)))
          /\ WF_vars(Manager(SeeClosed(t)))

Spec == Init /\ [][Next]_vars

FairSpec == Spec /\ Fairness

-----------------------------------------------------------------------------
TypeOK ==
    /\ LeaseTypeOK
    /\ loop \in {"off", "select", "refresh", "ended", "recording", "recorded", "done"}
    /\ loopLeft \in 0..OperationTimeout
    /\ {loopErr, rerr, stopErr} \subseteq SUBSET Sentinels
    /\ rctx \in ContextErrors \cup {"live"}
    /\ stopper \in Users \cup {NoThread}
    /\ stopping \in [Users -> {"no", "cancel", "join", "close", "wait"}]
    /\ stopDone \in BOOLEAN
    /\ stopResults \subseteq SUBSET Sentinels

(* When the loop is over, for whatever reason, the Runtime's context has   *)
(* ended too, so that nothing that works under it outlives the refreshes.  *)
(* When Stop returns, all is over: the loop has ended, the manager is      *)
(* closed, whoever closed it has told the observer, and the store is not   *)
(* being called and will not be called again.                              *)
EndLeavesNothing ==
    /\ loop = "done" => rctx # "live"
    /\ stopResults # {} =>
          /\ loop = "done"
          /\ lifecycle = "closed" /\ closeDone = "closed"
          /\ \A t \in Threads : pc[t] \notin StorePositions

(* Every call of Stop returns the same: whatever Err has reported; why the *)
(* loop ended, unless that looks like the end of its context; and how the  *)
(* release went, also when it was somebody else's Close that released.     *)
StopTellsFailure ==
    \A e \in stopResults :
        /\ e = stopErr
        /\ rerr \cup closeErr \subseteq e
        /\ loopErr \cap ContextErrors = {} => loopErr \subseteq e

(* Whom a thread waits for: the holder of the mutex, the Close whose       *)
(* release is under way, the loop that Stop has cancelled, the first Stop. *)
WaitsFor(t, u) ==
    \/ pc[t] \in {"lock", "relock", "reread"} /\ mu = u
    \/ pc[t] = "await" /\ closeDone # "closed" /\ pc[u] \in {"releasing", "relock"}
    \/ t \in Users /\ stopping[t] = "join" /\ loop # "done" /\ u = Loop
    \/ t \in Users /\ stopping[t] = "wait" /\ ~stopDone /\ u = stopper

Blocked(t) ==
    \/ pc[t] \in {"lock", "relock", "reread"} /\ mu # NoThread
    \/ pc[t] = "await" /\ closeDone # "closed"
    \/ t \in Users /\ stopping[t] = "join" /\ loop # "done"
    \/ t \in Users /\ stopping[t] = "wait" /\ ~stopDone

(* It is in the middle of an operation, of Stop, or of the loop's end.     *)
Busy(u) ==
    \/ pc[u] # "out"
    \/ u \in Users /\ stopping[u] \in {"cancel", "join"}
    \/ u = Loop /\ loop \in {"ended", "recording", "recorded"}
    \/ u = Loop /\ loop = "select" /\ rctx # "live"

(* One mutex, the channels closeDone, done and stopDone, and sync.Once hang*)
(* no call: whoever is blocked waits for a thread that has work left to do,*)
(* and threads never wait for each other in a circle, so that every chain  *)
(* ends at one that only the store, a timer or nothing holds up.           *)
NobodyWaitsInVain ==
    /\ \A t \in Threads : Blocked(t) => \E u \in Threads : WaitsFor(t, u) /\ Busy(u)
    /\ \A circle \in (SUBSET Threads) \ {{}} :
          \E t \in circle : \A u \in circle : ~WaitsFor(t, u)

(* Once the manager has failed or is closed, its end and its first reason  *)
(* stay: no refresh or acquire under way brings it back.  The observer is  *)
(* told each step once, in order, with nothing after closed, though Close  *)
(* has let go of the mutex in between.                                     *)
Latch == INSTANCE LeaseLifecycle WITH
    phase <- lifecycle, reason <- terminalErr, told <- story,
    Errors <- SUBSET Sentinels, ClosedError <- {"GeneratorClosed"}

ImplementsLifecycle == Latch!Spec

InCall(t) == Waiting(t) \/ stopping[t] # "no"

(* Every call of the generator and every Stop returns, however calls,      *)
(* timeouts and cancellations overlap.                                     *)
CallsReturn == \A t \in Users : InCall(t) ~> ~InCall(t)

(* When the Runtime's context ends, the loop does, also when it waits for  *)
(* the mutex or the store just then.                                       *)
LoopEnds == (loop # "off" /\ rctx # "live") ~> loop = "done"
=============================================================================
