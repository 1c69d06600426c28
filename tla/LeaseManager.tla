---------------------------- MODULE LeaseManager ----------------------------
(***************************************************************************)
(* The LeaseManager of one LeasedGenerator as the goroutines that share it *)
(* see it: Acquire, Refresh, Next, Ready and Close queue for one mutex,    *)
(* most of them keep it through store calls and sleeps, contexts end while *)
(* they do, and Close lets go of it while it releases the lease.           *)
(*                                                                         *)
(* Time is counted down: what is left of the lease, of the operation       *)
(* timeout and of a sleep.  What the row and the generator decide (refused *)
(* leases, a fence or a clock in the way) is a choice; LeasedGenerator.tla *)
(* has the rows and clocks.  An error is the set of sentinels errors.Is    *)
(* finds in it, and nil is {}.                                             *)
(***************************************************************************)
EXTENDS Naturals, Sequences

CONSTANTS
    Threads,           \* goroutines that share the manager
    MayCall,           \* the operations each of them calls
    MayEnd,            \* bound: how the contexts each of them calls with may end
    LeaseWindow,       \* all in ticks:
    RefreshInterval,   \* below this much lease, Next refreshes first
    OperationTimeout,
    AcquireTimeout,
    MaxSleep,          \* bound: longest sleep inside NextWithin
    NoThread

(* "loop" is the Refresh of RunRefreshLoop, "stop" the Close of Runtime.   *)
Ops == {"acquire", "refresh", "next", "ready", "close", "loop", "stop"}

ASSUME ManagerAssumption ==
    /\ NoThread \notin Threads
    /\ MayCall \in [Threads -> SUBSET Ops]
    /\ MayEnd \in [Threads -> SUBSET {"Canceled", "DeadlineExceeded"}]
    /\ {LeaseWindow, RefreshInterval, OperationTimeout} \subseteq Nat \ {0}
    /\ LeaseWindow > RefreshInterval + OperationTimeout
    /\ {AcquireTimeout, MaxSleep} \subseteq Nat

VARIABLES
    mu,            \* who holds the mutex
    lifecycle,
    terminalErr,
    closeErr,
    closeDone,     \* the channel: "none", "open", "closed"
    leaseOwned,
    leaseLeft,     \* until leaseDeadlineMonotonicMillis
    pc, op,        \* of each thread: where it is in which operation
    ctx,           \* the context of its call: "live" or the error it ended with
    timer,         \* what is left of its store call or sleep
    acquireLeft,   \* until the deadline of Acquire
    got,           \* an error a thread carries on with
    story,         \* history: the lifecycle events the observer was told
    culprit,       \* history: the operation that made the manager fail
    releases,      \* history: how often the store's Release was called
    closeResults   \* history: what calls of Close returned

managerVars == <<mu, lifecycle, terminalErr, closeErr, closeDone, leaseOwned, leaseLeft>>
threadVars == <<pc, op, ctx, timer, acquireLeft, got>>
historyVars == <<story, culprit, releases, closeResults>>
leaseVars == <<managerVars, threadVars, historyVars>>

StorePositions == {"acquiring", "refreshing", "readying", "refencing", "releasing"}

HeldPositions ==
    (StorePositions \ {"releasing"}) \cup {"backoff", "generate", "regenerate"}

Positions ==
    HeldPositions \cup {"out", "lock", "releasing", "relock", "await", "reread", "answered"}

ContextErrors == {"Canceled", "DeadlineExceeded"}

Sentinels ==
    ContextErrors \cup {"LeaseStore", "Broken", "LeaseLost", "LeaseNotAcquired",
                        "LeaseAlreadyAcquired", "LeaseUnavailable", "Generation",
                        "GeneratorClosed"}

LeaseInit ==
    /\ mu = NoThread
    /\ lifecycle = "new"
    /\ terminalErr = {}
    /\ closeErr = {}
    /\ closeDone = "none"
    /\ leaseOwned = FALSE
    /\ leaseLeft = 0
    /\ pc = [t \in Threads |-> "out"]
    /\ op = [t \in Threads |-> "ready"]
    /\ ctx = [t \in Threads |-> "live"]
    /\ timer = [t \in Threads |-> 0]
    /\ acquireLeft = 0
    /\ got = [t \in Threads |-> {}]
    /\ story = <<>>
    /\ culprit = "none"
    /\ releases = 0
    /\ closeResults = {}

-----------------------------------------------------------------------------
(* Pieces of the operations.                                               *)
Go(t, where, ticks) ==
    /\ pc' = [pc EXCEPT ![t] = where]
    /\ timer' = [timer EXCEPT ![t] = ticks]

(* The thread goes on with the mutex, or takes it when it is free.         *)
Holding(t, where, ticks) ==
    /\ mu' = t
    /\ Go(t, where, ticks)
    /\ UNCHANGED <<op, ctx, got>>

(* The operation returns e and the mutex is free.  The refresh loop and    *)
(* Runtime.Stop carry on with the answer.                                  *)
Inner(t) == op[t] \in {"loop", "stop"}

Return(t, e) ==
    /\ mu' = NoThread
    /\ Go(t, IF Inner(t) THEN "answered" ELSE "out", 0)
    /\ got' = [got EXCEPT ![t] = IF Inner(t) THEN e ELSE {}]
    /\ op' = [op EXCEPT ![t] = IF Inner(t) THEN op[t] ELSE "ready"]
    /\ ctx' = [ctx EXCEPT ![t] = "live"]

StateUnchanged ==
    UNCHANGED <<lifecycle, terminalErr, closeErr, closeDone, leaseOwned, leaseLeft>>

Refuse(t, e) ==
    /\ Return(t, e)
    /\ StateUnchanged
    /\ UNCHANGED <<acquireLeft, historyVars>>

(* failLocked.  Its two early returns, for a manager that has failed or is *)
(* closed, are not met with the mutex held since ensureActiveLocked.       *)
Fail(t, e) ==
    /\ Return(t, e)
    /\ lifecycle' = "failed"
    /\ terminalErr' = e
    /\ story' = Append(story, "failed")
    /\ culprit' = op[t]
    /\ UNCHANGED <<closeErr, closeDone, leaseOwned, leaseLeft, acquireLeft, releases, closeResults>>

Enter(t, o) == pc[t] = "lock" /\ op[t] \in o /\ mu = NoThread

InactiveError ==
    IF lifecycle = "new" THEN {"LeaseNotAcquired"}
    ELSE IF lifecycle = "failed" THEN terminalErr
    ELSE {"GeneratorClosed"}

(* ensureActiveLocked.                                                     *)
NotActive(t) ==
    \/ lifecycle # "active" /\ Refuse(t, InactiveError)
    \/ lifecycle = "active" /\ leaseLeft = 0 /\ Fail(t, {"LeaseLost"})

Active == lifecycle = "active" /\ leaseLeft > 0

(* Slip: the mutex is not held while the store is asked.                   *)
CallStoreUnlocked(t, where) ==
    /\ mu' = NoThread
    /\ Go(t, where, OperationTimeout)
    /\ StateUnchanged
    /\ UNCHANGED <<op, ctx, got, historyVars>>

CallStore(t, where) ==
    /\ Holding(t, where, OperationTimeout)
    /\ StateUnchanged
    /\ UNCHANGED historyVars

(* Slip: the refresh of Next, like that of a caller, ends with its context.*)
DetachedNowhere(t) == FALSE

(* leaseOperationContext of Next does not end with the caller's context.   *)
Detached(t) == op[t] = "next"

OperationEnded(t) == timer[t] = 0 \/ (ctx[t] # "live" /\ ~Detached(t))

(* How a store call may fail: by itself, or because its context ended.     *)
StoreErrors(t) ==
    IF ~OperationEnded(t) THEN {{"LeaseStore", "Broken"}}
    ELSE (IF timer[t] = 0 THEN {{"LeaseStore", "DeadlineExceeded"}} ELSE {})
         \cup (IF ctx[t] # "live" /\ ~Detached(t) THEN {{"LeaseStore", ctx[t]}} ELSE {})

(* Slip: the time the request took is given to the lease.                  *)
InstallLonger(t) ==
    /\ lifecycle' = "active"
    /\ leaseOwned' = TRUE
    /\ leaseLeft' = LeaseWindow + (OperationTimeout - timer[t])
    /\ UNCHANGED <<terminalErr, closeErr, closeDone>>

(* installStateLocked: the lease runs from before the request.             *)
Install(t) ==
    /\ lifecycle' = "active"
    /\ leaseOwned' = TRUE
    /\ leaseLeft' = LeaseWindow - (OperationTimeout - timer[t])
    /\ UNCHANGED <<terminalErr, closeErr, closeDone>>

-----------------------------------------------------------------------------
(* Acquire.                                                                *)
EnterAcquire(t) ==
    /\ Enter(t, {"acquire"})
    /\ \/ lifecycle = "active" /\ Refuse(t, {"LeaseAlreadyAcquired"})
       \/ lifecycle \in {"failed", "closed"} /\ Refuse(t, InactiveError)
       \/ lifecycle = "new" /\ CallStore(t, "acquiring") /\ acquireLeft' = AcquireTimeout

Acquired(t) ==
    /\ pc[t] = "acquiring" /\ ~OperationEnded(t)
    /\ Install(t)
    /\ Return(t, {})
    /\ story' = Append(story, "acquired")
    /\ UNCHANGED <<acquireLeft, culprit, releases, closeResults>>

(* The row is another's.  Acquire sleeps as long as the row tells it to,   *)
(* unless that is past its deadline.                                       *)
Unavailable(t) ==
    /\ pc[t] = "acquiring" /\ ~OperationEnded(t)
    /\ \/ Fail(t, {"LeaseUnavailable"})
       \/ \E wait \in 1..acquireLeft :
             /\ Holding(t, "backoff", wait)
             /\ StateUnchanged
             /\ UNCHANGED <<acquireLeft, historyVars>>

TryAgain(t) ==
    /\ pc[t] = "backoff" /\ timer[t] = 0
    /\ CallStore(t, "acquiring")
    /\ UNCHANGED acquireLeft

CancelBackoff(t) ==
    /\ pc[t] = "backoff" /\ timer[t] > 0 /\ ctx[t] # "live"
    /\ Fail(t, {ctx[t]})

-----------------------------------------------------------------------------
(* Refresh, called by users and by the refresh loop.                       *)
EnterRefresh(t) ==
    /\ Enter(t, {"refresh", "loop"})
    /\ NotActive(t) \/ (Active /\ CallStore(t, "refreshing") /\ UNCHANGED acquireLeft)

Refreshed(t) ==
    /\ pc[t] = "refreshing" /\ ~OperationEnded(t)
    /\ Install(t)
    /\ Return(t, {})
    /\ UNCHANGED <<acquireLeft, historyVars>>

(* A store call of Acquire, Refresh or Next failed.                        *)
StoreFailed(t) ==
    /\ pc[t] \in StorePositions \ {"releasing"}
    /\ \E e \in StoreErrors(t) : Fail(t, e)

-----------------------------------------------------------------------------
(* Next.  It looks at its context before every step that takes time.       *)
Generate(t, where) ==
    /\ \E sleep \in 0..MaxSleep : Holding(t, where, sleep)
    /\ UNCHANGED <<acquireLeft, historyVars>>

(* ensureReadyLocked: below the floor the manager fails; close to the end  *)
(* of the lease, or of the window, Next refreshes first.                   *)
EnterNext(t) ==
    /\ Enter(t, {"next"})
    /\ \/ NotActive(t)
       \/ Active /\ Fail(t, {"Generation"})
       \/ Active /\ ctx[t] # "live" /\ Refuse(t, {ctx[t]})
       \/ Active /\ ctx[t] = "live" /\ CallStore(t, "readying") /\ UNCHANGED acquireLeft
       \/ /\ Active /\ ctx[t] = "live" /\ leaseLeft > RefreshInterval
          /\ Generate(t, "generate") /\ StateUnchanged

(* refreshForNextLocked after a refresh: on to NextWithin, or back.        *)
RefreshedForNext(t) ==
    /\ pc[t] \in {"readying", "refencing"} /\ ~OperationEnded(t)
    /\ Install(t)
    /\ \/ ctx[t] # "live" /\ Return(t, {ctx[t]}) /\ UNCHANGED <<acquireLeft, historyVars>>
       \/ ctx[t] = "live" /\ Generate(t, IF pc[t] = "readying" THEN "generate" ELSE "regenerate")

Generating(t) == pc[t] \in {"generate", "regenerate"}

(* An ID; or an error that ends the generator, such as a clock set back or *)
(* the fence for the second time.                                          *)
Generated(t) ==
    /\ Generating(t) /\ timer[t] = 0
    /\ Refuse(t, {}) \/ Fail(t, {"Generation"})

CancelGenerate(t) ==
    /\ Generating(t) /\ timer[t] > 0 /\ ctx[t] # "live"
    /\ Refuse(t, {ctx[t]})

(* The fence for the first time: one refresh.                              *)
FenceReached(t) ==
    /\ pc[t] = "generate" /\ timer[t] = 0
    /\ \/ ctx[t] # "live" /\ Refuse(t, {ctx[t]})
       \/ ctx[t] = "live" /\ leaseLeft = 0 /\ Fail(t, {"LeaseLost"})
       \/ ctx[t] = "live" /\ Active /\ CallStore(t, "refencing") /\ UNCHANGED acquireLeft

-----------------------------------------------------------------------------
(* Ready, and the check in Snapshot.                                       *)
EnterReady(t) ==
    /\ Enter(t, {"ready"})
    /\ NotActive(t) \/ (Active /\ (Fail(t, {"Generation"}) \/ Refuse(t, {})))

-----------------------------------------------------------------------------
(* Close.  The first call closes the manager, lets go of the mutex for the *)
(* release, and takes it again to tell how it went.                        *)
Unlock(t, where, ticks) ==
    /\ mu' = NoThread
    /\ Go(t, where, ticks)
    /\ UNCHANGED <<op, ctx, acquireLeft>>

(* Slip: only a lease that is still good is released.                      *)
ShouldReleaseActive == lifecycle = "active"

ShouldRelease == leaseOwned

(* The release without the mutex, or straight on to the end of Close.      *)
StartRelease(t) ==
    IF ShouldRelease
    THEN Unlock(t, "releasing", OperationTimeout) /\ releases' = releases + 1
    ELSE Unlock(t, "relock", 0) /\ UNCHANGED releases

(* Slip: the manager is marked closed only when the release is over.       *)
EnterCloseUnmarked(t) ==
    /\ Enter(t, {"close", "stop"})
    /\ lifecycle # "closed"
    /\ closeDone' = "open"
    /\ StartRelease(t)
    /\ UNCHANGED <<lifecycle, terminalErr, leaseLeft, closeErr, leaseOwned, got, story,
                   culprit, closeResults>>

EnterClose(t) ==
    /\ Enter(t, {"close", "stop"})
    /\ lifecycle # "closed"
    /\ lifecycle' = "closed"
    /\ terminalErr' = {"GeneratorClosed"}
    /\ leaseLeft' = 0
    /\ closeDone' = "open"
    /\ StartRelease(t)
    /\ UNCHANGED <<closeErr, leaseOwned, got, story, culprit, closeResults>>

Released(t) ==
    /\ pc[t] = "releasing"
    /\ \E e \in StoreErrors(t) \cup (IF OperationEnded(t) THEN {} ELSE {{}}) :
          got' = [got EXCEPT ![t] = e]
    /\ Go(t, "relock", 0)
    /\ UNCHANGED <<managerVars, op, ctx, acquireLeft, historyVars>>

(* Slip: the channel of the waiting calls stays open.                      *)
FinishCloseSilent(t) ==
    /\ pc[t] = "relock" /\ mu = NoThread
    /\ leaseOwned' = FALSE
    /\ closeErr' = got[t]
    /\ story' = Append(story, "closed")
    /\ closeResults' = closeResults \cup {got[t]}
    /\ Return(t, got[t])
    /\ UNCHANGED <<closeDone, lifecycle, terminalErr, leaseLeft, acquireLeft, culprit, releases>>

FinishClose(t) ==
    /\ pc[t] = "relock" /\ mu = NoThread
    /\ leaseOwned' = FALSE
    /\ closeErr' = got[t]
    /\ closeDone' = "closed"
    /\ story' = Append(story, "closed")
    /\ closeResults' = closeResults \cup {got[t]}
    /\ Return(t, got[t])
    /\ UNCHANGED <<lifecycle, terminalErr, leaseLeft, acquireLeft, culprit, releases>>

(* Later calls wait for the first one, and return what it returned.        *)
EnterCloseAgain(t) ==
    /\ Enter(t, {"close", "stop"})
    /\ lifecycle = "closed"
    /\ Unlock(t, "await", 0)
    /\ StateUnchanged
    /\ UNCHANGED <<got, historyVars>>

(* Slip: later calls do not wait.                                          *)
SeeClosedAtOnce(t) ==
    /\ pc[t] = "await"
    /\ Go(t, "reread", 0)
    /\ UNCHANGED <<managerVars, op, ctx, acquireLeft, got, historyVars>>

SeeClosed(t) ==
    /\ pc[t] = "await" /\ closeDone = "closed"
    /\ Go(t, "reread", 0)
    /\ UNCHANGED <<managerVars, op, ctx, acquireLeft, got, historyVars>>

ReadCloseError(t) ==
    /\ pc[t] = "reread" /\ mu = NoThread
    /\ Return(t, closeErr)
    /\ closeResults' = closeResults \cup {closeErr}
    /\ StateUnchanged
    /\ UNCHANGED <<acquireLeft, story, culprit, releases>>

-----------------------------------------------------------------------------
(* Callers, contexts and time.                                             *)
Ask(t, o) ==
    /\ pc[t] = "out"
    /\ pc' = [pc EXCEPT ![t] = "lock"]
    /\ op' = [op EXCEPT ![t] = o]
    /\ UNCHANGED <<managerVars, ctx, timer, acquireLeft, got, historyVars>>

Leave(t) ==
    /\ pc[t] = "answered"
    /\ pc' = [pc EXCEPT ![t] = "out"]
    /\ op' = [op EXCEPT ![t] = "ready"]
    /\ got' = [got EXCEPT ![t] = {}]
    /\ UNCHANGED <<managerVars, ctx, timer, acquireLeft, historyVars>>

(* The caller's context ends where the operation may still look at it.     *)
EndContext(t) ==
    /\ op[t] \notin {"loop", "ready"} /\ ctx[t] = "live"
    /\ pc[t] \in HeldPositions \cup {"lock", "releasing"}
    /\ \E e \in MayEnd[t] : ctx' = [ctx EXCEPT ![t] = e]
    /\ UNCHANGED <<managerVars, pc, op, timer, acquireLeft, got, historyVars>>

Less(n) == IF n = 0 THEN 0 ELSE n - 1

SomethingRuns == leaseLeft > 0 \/ acquireLeft > 0 \/ \E t \in Threads : timer[t] > 0

RunTimers ==
    /\ leaseLeft' = Less(leaseLeft)
    /\ acquireLeft' = Less(acquireLeft)
    /\ timer' = [t \in Threads |-> Less(timer[t])]
    /\ UNCHANGED <<mu, lifecycle, terminalErr, closeErr, closeDone, leaseOwned,
                   pc, op, got, historyVars>>

-----------------------------------------------------------------------------
(* What a thread does next, by what makes it go on: the mutex, the answer  *)
(* of the store (at the latest its timeout), a timer, or nothing.          *)
Lock(t) ==
    \/ EnterAcquire(t) \/ EnterRefresh(t) \/ EnterNext(t) \/ EnterReady(t)
    \/ EnterClose(t) \/ EnterCloseAgain(t) \/ FinishClose(t) \/ ReadCloseError(t)

Answer(t) ==
    \/ Acquired(t) \/ Unavailable(t) \/ Refreshed(t) \/ RefreshedForNext(t)
    \/ StoreFailed(t) \/ Released(t)

Wake(t) ==
    \/ TryAgain(t) \/ CancelBackoff(t)
    \/ Generated(t) \/ CancelGenerate(t) \/ FenceReached(t)

Proceed(t) == Lock(t) \/ Answer(t) \/ Wake(t) \/ SeeClosed(t)

-----------------------------------------------------------------------------
LeaseTypeOK ==
    /\ mu \in Threads \cup {NoThread}
    /\ lifecycle \in {"new", "active", "failed", "closed"}
    /\ {terminalErr, closeErr} \subseteq SUBSET Sentinels
    /\ closeDone \in {"none", "open", "closed"}
    /\ leaseOwned \in BOOLEAN
    /\ leaseLeft \in 0..LeaseWindow
    /\ pc \in [Threads -> Positions]
    /\ op \in [Threads -> Ops]
    /\ ctx \in [Threads -> ContextErrors \cup {"live"}]
    /\ timer \in [Threads -> Nat]
    /\ acquireLeft \in 0..AcquireTimeout
    /\ got \in [Threads -> SUBSET Sentinels]
    /\ story \in Seq({"acquired", "failed", "closed"})
    /\ culprit \in Ops \cup {"none"}
    /\ releases \in Nat
    /\ closeResults \subseteq SUBSET Sentinels

(* The store is asked one thing at a time, the release included, which     *)
(* runs without the mutex: only the closed lifecycle keeps others away.    *)
OneStoreCall ==
    \A t, u \in Threads : {pc[t], pc[u]} \subseteq StorePositions => t = u

(* All calls of Close return what the one release answered, whichever of   *)
(* them released and however they overlap, and none before it is known.    *)
ClosersAgree ==
    closeResults # {} => closeDone = "closed" /\ closeResults = {closeErr}

(* Of however many calls of Close and Stop one releases the lease, and it  *)
(* does so exactly when a lease was ever acquired, also after a failure.   *)
ReleasedOnce ==
    /\ releases <= 1
    /\ closeDone = "closed" =>
          (releases = 1 <=> \E i \in 1..Len(story) : story[i] = "acquired")

(* A caller that cancels Next, also while its refresh is under way, never  *)
(* makes the shared manager fail; only a cancelled Acquire or Refresh does.*)
(* (The loop's refresh gets a context that Stop cannot cancel: see         *)
(* LoopRefreshes.)                                                         *)
CancelHarmless == "Canceled" \in terminalErr => culprit \in {"acquire", "refresh"}
=============================================================================
