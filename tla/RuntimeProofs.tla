--------------------------- MODULE RuntimeProofs ----------------------------
(***************************************************************************)
(* Theorems about LeaseManager and Runtime, for any number of callers and  *)
(* any timeouts that NewLeaseManager accepts.                              *)
(***************************************************************************)
EXTENDS Runtime, TLAPS

-----------------------------------------------------------------------------
(* The inductive invariant of the manager.  The mutex is held where the    *)
(* code is between Lock and Unlock, and only there.                        *)
MutexHeld == \A t \in Threads : pc[t] \in HeldPositions <=> mu = t

(* A thread that holds the mutex past ensureActiveLocked relies on the     *)
(* lifecycle it saw; one that has let go of it, in Close, on the channel.  *)
Fits(t, where) ==
    /\ where \in {"acquiring", "backoff"} => lifecycle = "new" /\ op[t] = "acquire"
    /\ where \in HeldPositions \ {"acquiring", "backoff"} => lifecycle = "active"
    /\ where = "refreshing" => op[t] \in {"refresh", "loop"}
    /\ where \in {"readying", "refencing", "generate", "regenerate"} => op[t] = "next"
    /\ where \in {"releasing", "relock"} => closeDone = "open"
    /\ where = "reread" => closeDone = "closed"
    /\ where \in {"releasing", "relock", "await", "reread"} =>
          op[t] \in {"close", "stop"} /\ closeDone # "none"
    /\ where \in {"out", "answered"} => ctx[t] = "live"

InPlace ==
    \A t \in Threads :
        /\ Fits(t, pc[t])
        /\ pc[t] \in StorePositions => timer[t] <= OperationTimeout

OneCloser ==
    \A t, u \in Threads : {pc[t], pc[u]} \subseteq {"releasing", "relock"} => t = u

ToldOf(s, what) == \E i \in 1..Len(s) : s[i] = what

WasAcquired == ToldOf(story, "acquired")

(* The release and its answer, before, while and after Close has gone on.  *)
CloseRecord ==
    /\ closeDone = "none" <=> lifecycle # "closed"
    /\ closeDone # "closed" => closeResults = {} /\ (leaseOwned <=> WasAcquired)
    /\ closeResults \subseteq {closeErr}
    /\ releases = IF closeDone # "none" /\ WasAcquired THEN 1 ELSE 0

(* What the observer was told, and the error, are those of the lifecycle.  *)
LifeRecord ==
    /\ lifecycle = "new" => story = <<>>
    /\ lifecycle \in {"new", "active"} => terminalErr = {}
    /\ lifecycle = "active" => WasAcquired
    /\ lifecycle = "failed" => terminalErr # {}
    /\ lifecycle = "closed" => terminalErr = {"GeneratorClosed"}
    /\ closeDone # "closed" => ~ToldOf(story, "closed")

(* The refresh loop is not cancelled while it is in the manager.           *)
LoopNotCancelled == \A t \in Threads : op[t] = "loop" => ctx[t] # "Canceled"

LeaseInv ==
    /\ LeaseTypeOK
    /\ MutexHeld /\ InPlace /\ OneCloser
    /\ CloseRecord /\ LifeRecord
    /\ LoopNotCancelled /\ CancelHarmless

(* The inductive invariant of the Runtime: where the loop and each call of *)
(* Stop are, and in which operation of the manager that is.                *)
LoopInPlace ==
    /\ loop = "refresh" <=> pc[Loop] # "out"
    /\ pc[Loop] # "out" => op[Loop] = "loop"
    /\ \A t \in Users : op[t] # "loop"
    /\ loop \in {"recorded", "done"} =>
          /\ rctx # "live"
          /\ loopErr \cap ContextErrors = {} => loopErr \subseteq rerr

StopInPlace ==
    /\ \A t \in Users :
          /\ stopping[t] = "close" <=> op[t] = "stop"
          /\ stopping[t] = "close" => pc[t] # "out" /\ loop = "done"
          /\ stopping[t] = "close" /\ pc[t] = "answered" =>
                closeDone = "closed" /\ got[t] = closeErr
          /\ stopping[t] \in {"cancel", "join", "wait"} => pc[t] = "out"
          /\ stopping[t] \in {"cancel", "join", "close"} => stopper = t /\ ~stopDone
    /\ stopDone =>
          /\ stopper # NoThread
          /\ loop = "done" /\ closeDone = "closed"
          /\ stopErr = rerr \cup closeErr
    /\ stopResults \subseteq {stopErr}
    /\ stopResults # {} => stopDone

IndInv == TypeOK /\ LeaseInv /\ LoopInPlace /\ StopInPlace

-----------------------------------------------------------------------------
Kinds == {"acquired", "failed", "closed"}

(* One more event is told, and those told before stay.                     *)
LEMMA AppendStory ==
    ASSUME NEW s \in Seq(Kinds), NEW kind \in Kinds, NEW what
    PROVE  /\ Append(s, kind) \in Seq(Kinds)
           /\ ToldOf(Append(s, kind), what) <=> ToldOf(s, what) \/ kind = what
<1>1. /\ Append(s, kind) \in Seq(Kinds)
      /\ Len(Append(s, kind)) = Len(s) + 1
      /\ \A i \in 1..Len(s) : Append(s, kind)[i] = s[i]
      /\ Append(s, kind)[Len(s) + 1] = kind
      /\ Len(s) \in Nat
  OBVIOUS
<1>2. \A i \in 1..(Len(s) + 1) : i \in 1..Len(s) \/ i = Len(s) + 1  BY <1>1
<1>3. Len(s) + 1 \in 1..(Len(s) + 1) /\ \A i \in 1..Len(s) : i \in 1..(Len(s) + 1)  BY <1>1
<1> DEFINE n == Len(s) + 1  u == Append(s, kind)
<1> HIDE DEF n, u
<1>4. /\ Len(u) = n /\ u[n] = kind
      /\ \A i \in 1..Len(s) : u[i] = s[i]
      /\ \A i \in 1..n : i \in 1..Len(s) \/ i = n
      /\ n \in 1..n /\ \A i \in 1..Len(s) : i \in 1..n
  BY <1>1, <1>2, <1>3 DEF n, u
<1>5. ToldOf(u, what) <=> ToldOf(s, what) \/ kind = what
  BY <1>4, Zenon DEF ToldOf
<1> QED  BY <1>1, <1>5 DEF u

-----------------------------------------------------------------------------
(* The manager's operations are made of a few kinds of steps: t has or     *)
(* takes the mutex, and refuses, fails, goes on, or installs a lease.      *)
Turn(t) ==
    /\ (pc[t] = "lock" /\ mu = NoThread) \/ pc[t] \in HeldPositions
    /\ op[t] \notin {"close", "stop"}

RefuseStep(t) == Turn(t) /\ \E e \in SUBSET Sentinels : Refuse(t, e)

FailStep(t) ==
    /\ Turn(t) /\ lifecycle \in {"new", "active"}
    /\ \E e \in (SUBSET Sentinels) \ {{}} :
          /\ Fail(t, e)
          /\ "Canceled" \in e => op[t] \in {"acquire", "refresh"}

GoOn(t, where, ticks) ==
    /\ where \in HeldPositions /\ ticks \in Nat
    /\ Fits(t, where)
    /\ where \in StorePositions => ticks <= OperationTimeout
    /\ Holding(t, where, ticks)
    /\ acquireLeft' \in 0..AcquireTimeout
    /\ UNCHANGED historyVars

HoldStep(t) ==
    /\ Turn(t) /\ StateUnchanged
    /\ \E where \in HeldPositions, ticks \in Nat : GoOn(t, where, ticks)

InstallStep(t) ==
    /\ Turn(t) /\ pc[t] # "lock" /\ lifecycle = "active"
    /\ timer[t] <= OperationTimeout
    /\ Install(t)
    /\ \/ \E e \in SUBSET Sentinels : Return(t, e) /\ UNCHANGED <<acquireLeft, historyVars>>
       \/ \E where \in {"generate", "regenerate"}, ticks \in Nat : GoOn(t, where, ticks)

(* Every operation of the manager but Close is one of them.                *)
OrdinaryStep(t) ==
    RefuseStep(t) \/ FailStep(t) \/ HoldStep(t) \/ InstallStep(t) \/ Acquired(t)

CloseStep(t) ==
    EnterClose(t) \/ EnterCloseAgain(t) \/ Released(t) \/ FinishClose(t)
    \/ SeeClosed(t) \/ ReadCloseError(t)

LEMMA InactiveErrorType ==
    ASSUME LeaseTypeOK, lifecycle # "active"
    PROVE  InactiveError \in SUBSET Sentinels
BY DEF InactiveError, LeaseTypeOK, Sentinels

LEMMA StoreErrorsType ==
    ASSUME LeaseTypeOK, NEW t \in Threads, NEW e \in StoreErrors(t)
    PROVE  /\ e \in (SUBSET Sentinels) \ {{}}
           /\ "Canceled" \in e => ctx[t] = "Canceled" /\ ~Detached(t)
BY DEF StoreErrors, LeaseTypeOK, Sentinels, ContextErrors

LEMMA NotActiveStep ==
    ASSUME LeaseInv, NEW t \in Threads, Turn(t), NotActive(t)
    PROVE  RefuseStep(t) \/ FailStep(t)
<1>1. CASE lifecycle # "active" /\ Refuse(t, InactiveError)
  BY <1>1, InactiveErrorType DEF RefuseStep, LeaseInv
<1>2. CASE lifecycle = "active" /\ leaseLeft = 0 /\ Fail(t, {"LeaseLost"})
  <2>1. {"LeaseLost"} \in (SUBSET Sentinels) \ {{}}  BY DEF Sentinels
  <2>2. "Canceled" \notin {"LeaseLost"}  OBVIOUS
  <2> QED  BY <1>2, <2>1, <2>2 DEF FailStep
<1> QED  BY <1>1, <1>2 DEF NotActive

LEMMA CallStoreStep ==
    ASSUME LeaseInv, NEW t \in Threads, Turn(t), NEW where \in StorePositions \ {"releasing"},
           Fits(t, where), CallStore(t, where), acquireLeft' \in 0..AcquireTimeout
    PROVE  HoldStep(t)
BY ManagerAssumption DEF CallStore, HoldStep, GoOn, HeldPositions

LEMMA GenerateStep ==
    ASSUME LeaseInv, NEW t \in Threads, NEW where \in {"generate", "regenerate"},
           lifecycle = "active", op[t] = "next", Generate(t, where)
    PROVE  \E ticks \in Nat : GoOn(t, where, ticks)
<1>1. PICK sleep \in 0..MaxSleep : Holding(t, where, sleep)  BY DEF Generate
<1>2. sleep \in Nat  BY ManagerAssumption
<1>3. Fits(t, where)  BY DEF Fits, HeldPositions
<1>4. where \in HeldPositions /\ where \notin StorePositions  BY DEF HeldPositions, StorePositions
<1>5. acquireLeft' \in 0..AcquireTimeout  BY DEF Generate, LeaseInv, LeaseTypeOK
<1> QED  BY <1>1, <1>2, <1>3, <1>4, <1>5 DEF GoOn, Generate

LEMMA AcquireSteps ==
    ASSUME LeaseInv, NEW t \in Threads,
           EnterAcquire(t) \/ Unavailable(t) \/ TryAgain(t) \/ CancelBackoff(t)
    PROVE  OrdinaryStep(t)
<1>0. acquireLeft \in 0..AcquireTimeout /\ AcquireTimeout \in 0..AcquireTimeout
  BY ManagerAssumption DEF LeaseInv, LeaseTypeOK
<1>1. CASE EnterAcquire(t)
  <2>1. Turn(t)  BY <1>1 DEF EnterAcquire, Enter, Turn
  <2>2. {"LeaseAlreadyAcquired"} \in SUBSET Sentinels  BY DEF Sentinels
  <2>3. CASE lifecycle = "new" /\ CallStore(t, "acquiring") /\ acquireLeft' = AcquireTimeout
    <3>1. Fits(t, "acquiring")
      BY <1>1, <2>3 DEF EnterAcquire, Enter, Fits, HeldPositions
    <3> QED  BY <1>0, <2>1, <2>3, <3>1, CallStoreStep DEF StorePositions, OrdinaryStep
  <2>4. CASE lifecycle = "active" /\ Refuse(t, {"LeaseAlreadyAcquired"})
    BY <2>1, <2>2, <2>4 DEF RefuseStep, OrdinaryStep
  <2>5. CASE lifecycle \in {"failed", "closed"} /\ Refuse(t, InactiveError)
    BY <2>1, <2>5, InactiveErrorType DEF RefuseStep, OrdinaryStep, LeaseInv
  <2> QED  BY <1>1, <2>3, <2>4, <2>5 DEF EnterAcquire
<1>2. CASE Unavailable(t)
  <2>1. Turn(t) /\ lifecycle = "new" /\ op[t] = "acquire"
    BY <1>2 DEF Unavailable, Turn, LeaseInv, InPlace, Fits, HeldPositions, StorePositions
  <2>2. CASE Fail(t, {"LeaseUnavailable"})
    <3>1. {"LeaseUnavailable"} \in (SUBSET Sentinels) \ {{}} /\ "Canceled" \notin {"LeaseUnavailable"}
      BY DEF Sentinels
    <3> QED  BY <2>1, <2>2, <3>1 DEF FailStep, OrdinaryStep
  <2>3. ASSUME NEW wait \in 1..acquireLeft, Holding(t, "backoff", wait), StateUnchanged,
               UNCHANGED <<acquireLeft, historyVars>>
        PROVE  OrdinaryStep(t)
    <3>1. Fits(t, "backoff")  BY <2>1 DEF Fits, HeldPositions
    <3>2. wait \in Nat  BY <1>0, ManagerAssumption
    <3>3. "backoff" \in HeldPositions \ StorePositions  BY DEF HeldPositions, StorePositions
    <3>4. GoOn(t, "backoff", wait)  BY <1>0, <2>3, <3>1, <3>2, <3>3 DEF GoOn
    <3> QED  BY <2>1, <2>3, <3>2, <3>3, <3>4 DEF HoldStep, OrdinaryStep
  <2> QED  BY <1>2, <2>2, <2>3 DEF Unavailable
<1>3. CASE TryAgain(t)
  <2>1. Turn(t) /\ Fits(t, "acquiring")
    BY <1>3 DEF TryAgain, Turn, LeaseInv, InPlace, Fits, HeldPositions
  <2> QED  BY <1>0, <1>3, <2>1, CallStoreStep DEF TryAgain, StorePositions, OrdinaryStep
<1>4. CASE CancelBackoff(t)
  <2>1. Turn(t) /\ lifecycle = "new" /\ op[t] = "acquire"
    BY <1>4 DEF CancelBackoff, Turn, LeaseInv, InPlace, Fits, HeldPositions
  <2>2. {ctx[t]} \in (SUBSET Sentinels) \ {{}}
    BY <1>4 DEF CancelBackoff, LeaseInv, LeaseTypeOK, Sentinels, ContextErrors
  <2> QED  BY <1>4, <2>1, <2>2 DEF CancelBackoff, FailStep, OrdinaryStep
<1> QED  BY <1>1, <1>2, <1>3, <1>4

LEMMA RefreshSteps ==
    ASSUME LeaseInv, NEW t \in Threads, EnterRefresh(t) \/ Refreshed(t) \/ StoreFailed(t)
    PROVE  OrdinaryStep(t)
<1>0. acquireLeft \in 0..AcquireTimeout  BY DEF LeaseInv, LeaseTypeOK
<1>1. CASE EnterRefresh(t)
  <2>1. Turn(t) /\ pc[t] = "lock" /\ op[t] \in {"refresh", "loop"}
    BY <1>1 DEF EnterRefresh, Enter, Turn
  <2>2. CASE NotActive(t)  BY <2>1, <2>2, NotActiveStep DEF OrdinaryStep
  <2>3. CASE Active /\ CallStore(t, "refreshing") /\ UNCHANGED acquireLeft
    <3>1. Fits(t, "refreshing")  BY <2>1, <2>3 DEF Fits, HeldPositions, Active
    <3> QED  BY <1>0, <2>1, <2>3, <3>1, CallStoreStep DEF StorePositions, OrdinaryStep
  <2> QED  BY <1>1, <2>2, <2>3 DEF EnterRefresh
<1>2. CASE Refreshed(t)
  <2>1. Turn(t) /\ lifecycle = "active" /\ timer[t] <= OperationTimeout
    BY <1>2 DEF Refreshed, Turn, LeaseInv, InPlace, Fits, HeldPositions, StorePositions
  <2>2. {} \in SUBSET Sentinels  OBVIOUS
  <2> QED  BY <1>2, <2>1, <2>2 DEF Refreshed, InstallStep, OrdinaryStep
<1>3. CASE StoreFailed(t)
  <2>1. PICK e \in StoreErrors(t) : Fail(t, e)  BY <1>3 DEF StoreFailed
  <2>2. Turn(t) /\ lifecycle \in {"new", "active"} /\ op[t] \in {"acquire", "refresh", "loop", "next"}
    BY <1>3 DEF StoreFailed, Turn, LeaseInv, InPlace, Fits, HeldPositions, StorePositions
  <2>3. e \in (SUBSET Sentinels) \ {{}} /\ ("Canceled" \in e => ctx[t] = "Canceled" /\ ~Detached(t))
    BY StoreErrorsType DEF LeaseInv
  <2>4. "Canceled" \in e => op[t] \in {"acquire", "refresh"}
    BY <2>2, <2>3 DEF Detached, LeaseInv, LoopNotCancelled
  <2> QED  BY <2>1, <2>2, <2>3, <2>4 DEF FailStep, OrdinaryStep
<1> QED  BY <1>1, <1>2, <1>3

LEMMA ErrorTypes ==
    ASSUME LeaseInv, NEW t \in Threads
    PROVE  /\ {} \in SUBSET Sentinels
           /\ ctx[t] # "live" => {ctx[t]} \in SUBSET Sentinels
           /\ {"Generation"} \in (SUBSET Sentinels) \ {{}} /\ "Canceled" \notin {"Generation"}
           /\ {"LeaseLost"} \in (SUBSET Sentinels) \ {{}} /\ "Canceled" \notin {"LeaseLost"}
BY DEF LeaseInv, LeaseTypeOK, Sentinels, ContextErrors

LEMMA NextSteps ==
    ASSUME LeaseInv, NEW t \in Threads,
           EnterNext(t) \/ RefreshedForNext(t) \/ Generated(t) \/ CancelGenerate(t) \/ FenceReached(t)
    PROVE  OrdinaryStep(t)
<1>0. acquireLeft \in 0..AcquireTimeout  BY DEF LeaseInv, LeaseTypeOK
<1>a. Turn(t) /\ op[t] = "next"
  BY DEF EnterNext, Enter, RefreshedForNext, Generated, Generating, CancelGenerate, FenceReached,
         Turn, LeaseInv, InPlace, Fits, HeldPositions, StorePositions
<1>b. pc[t] # "lock" => lifecycle = "active"
  BY <1>a DEF LeaseInv, InPlace, Fits, HeldPositions, Turn
<1>c. ASSUME NEW e \in SUBSET Sentinels, Refuse(t, e)  PROVE OrdinaryStep(t)
  BY <1>a, <1>c DEF RefuseStep, OrdinaryStep
<1>d. ASSUME lifecycle = "active", NEW e \in {{"Generation"}, {"LeaseLost"}}, Fail(t, e)
      PROVE  OrdinaryStep(t)
  BY <1>a, <1>d, ErrorTypes DEF FailStep, OrdinaryStep
<1>e. ASSUME NEW where \in {"readying", "refencing"}, lifecycle = "active",
             CallStore(t, where), UNCHANGED acquireLeft
      PROVE  OrdinaryStep(t)
  <2>1. Fits(t, where)  BY <1>a, <1>e DEF Fits, HeldPositions
  <2>2. where \in StorePositions \ {"releasing"}  BY <1>e DEF StorePositions
  <2> QED  BY <1>0, <1>a, <1>e, <2>1, <2>2, CallStoreStep DEF OrdinaryStep
<1>1. CASE EnterNext(t)
  <2>1. CASE NotActive(t)  BY <1>a, <2>1, NotActiveStep DEF OrdinaryStep
  <2>2. CASE Active /\ Fail(t, {"Generation"})  BY <1>d, <2>2 DEF Active
  <2>3. CASE Active /\ ctx[t] # "live" /\ Refuse(t, {ctx[t]})  BY <1>c, <2>3, ErrorTypes
  <2>4. CASE Active /\ CallStore(t, "readying") /\ UNCHANGED acquireLeft
    BY <1>e, <2>4 DEF Active
  <2>5. CASE Active /\ Generate(t, "generate") /\ StateUnchanged
    <3>1. PICK ticks \in Nat : GoOn(t, "generate", ticks)
      BY <1>a, <2>5, GenerateStep DEF Active
    <3> QED  BY <1>a, <2>5, <3>1 DEF HoldStep, OrdinaryStep, HeldPositions
  <2> QED  BY <1>1, <2>1, <2>2, <2>3, <2>4, <2>5 DEF EnterNext
<1>2. CASE RefreshedForNext(t)
  <2>1. /\ pc[t] # "lock" /\ lifecycle = "active" /\ timer[t] <= OperationTimeout
        /\ Install(t)
    BY <1>2, <1>b DEF RefreshedForNext, LeaseInv, InPlace, StorePositions
  <2>2. CASE ctx[t] # "live" /\ Return(t, {ctx[t]}) /\ UNCHANGED <<acquireLeft, historyVars>>
    BY <1>a, <2>1, <2>2, ErrorTypes DEF InstallStep, OrdinaryStep
  <2>3. ASSUME NEW where \in {"generate", "regenerate"}, Generate(t, where)
        PROVE  OrdinaryStep(t)
    <3>1. PICK ticks \in Nat : GoOn(t, where, ticks)  BY <1>a, <2>1, <2>3, GenerateStep
    <3> QED  BY <1>a, <2>1, <3>1 DEF InstallStep, OrdinaryStep
  <2> QED  BY <1>2, <2>2, <2>3 DEF RefreshedForNext
<1>3. CASE Generated(t)
  <2>1. lifecycle = "active"  BY <1>3, <1>b DEF Generated, Generating
  <2> QED  BY <1>3, <1>c, <1>d, <2>1, ErrorTypes DEF Generated
<1>4. CASE CancelGenerate(t)  BY <1>4, <1>c, ErrorTypes DEF CancelGenerate
<1>5. CASE FenceReached(t)
  <2>1. lifecycle = "active"  BY <1>5, <1>b DEF FenceReached
  <2>2. CASE ctx[t] # "live" /\ Refuse(t, {ctx[t]})  BY <1>c, <2>2, ErrorTypes
  <2>3. CASE Fail(t, {"LeaseLost"})  BY <1>d, <2>1, <2>3
  <2>4. CASE CallStore(t, "refencing") /\ UNCHANGED acquireLeft  BY <1>e, <2>1, <2>4
  <2> QED  BY <1>5, <2>2, <2>3, <2>4 DEF FenceReached
<1> QED  BY <1>1, <1>2, <1>3, <1>4, <1>5

LEMMA ReadySteps ==
    ASSUME LeaseInv, NEW t \in Threads, EnterReady(t)
    PROVE  OrdinaryStep(t)
<1>1. Turn(t)  BY DEF EnterReady, Enter, Turn
<1>2. CASE NotActive(t)  BY <1>1, <1>2, NotActiveStep DEF OrdinaryStep
<1>3. CASE Active /\ Fail(t, {"Generation"})
  BY <1>1, <1>3, ErrorTypes DEF Active, FailStep, OrdinaryStep
<1>4. CASE Refuse(t, {})  BY <1>1, <1>4, ErrorTypes DEF RefuseStep, OrdinaryStep
<1> QED  BY <1>2, <1>3, <1>4 DEF EnterReady

(* A thread proceeds by one of these steps or by a step of Close.          *)
LEMMA StepKinds ==
    ASSUME LeaseInv, NEW t \in Threads, Proceed(t)
    PROVE  OrdinaryStep(t) \/ CloseStep(t)
<1>1. CASE Lock(t)
  BY <1>1, AcquireSteps, RefreshSteps, NextSteps, ReadySteps DEF Lock, CloseStep
<1>2. CASE Answer(t)
  BY <1>2, AcquireSteps, RefreshSteps, NextSteps DEF Answer, CloseStep, OrdinaryStep
<1>3. CASE Wake(t)
  BY <1>3, AcquireSteps, NextSteps DEF Wake
<1>4. CASE SeeClosed(t)  BY <1>4 DEF CloseStep
<1> QED  BY <1>1, <1>2, <1>3, <1>4 DEF Proceed

-----------------------------------------------------------------------------
(* Each kind of step preserves the manager's invariant.                    *)
LEMMA RefuseKeeps ==
    ASSUME LeaseInv, NEW t \in Threads, RefuseStep(t)
    PROVE  LeaseInv'
<1>1. PICK e \in SUBSET Sentinels : Refuse(t, e)  BY DEF RefuseStep
<1> USE DEF Refuse, Return, Go, StateUnchanged, historyVars
<1>2. LeaseTypeOK'
  BY <1>1 DEF LeaseInv, LeaseTypeOK, Inner, Positions, ContextErrors, Ops
<1>3. MutexHeld'
  BY <1>1, ManagerAssumption
     DEF RefuseStep, Turn, LeaseInv, LeaseTypeOK, MutexHeld, HeldPositions, StorePositions
<1>4. InPlace'
  BY <1>1 DEF LeaseInv, LeaseTypeOK, InPlace, Fits, HeldPositions, StorePositions
<1>5. OneCloser'
  BY <1>1 DEF LeaseInv, LeaseTypeOK, OneCloser
<1>6. CloseRecord' /\ LifeRecord'
  BY <1>1 DEF LeaseInv, CloseRecord, LifeRecord, WasAcquired
<1>7. LoopNotCancelled' /\ CancelHarmless'
  BY <1>1 DEF LeaseInv, LeaseTypeOK, LoopNotCancelled, CancelHarmless
<1> QED  BY <1>2, <1>3, <1>4, <1>5, <1>6, <1>7 DEF LeaseInv

(* When one thread has or takes the mutex, no other is inside.             *)
LEMMA OthersOutside ==
    ASSUME LeaseInv, NEW t \in Threads, Turn(t), NEW u \in Threads, u # t
    PROVE  pc[u] \notin HeldPositions
BY ManagerAssumption DEF LeaseInv, MutexHeld, Turn

LEMMA FailKeeps ==
    ASSUME LeaseInv, NEW t \in Threads, FailStep(t)
    PROVE  LeaseInv'
<1>1. PICK e \in (SUBSET Sentinels) \ {{}} :
          /\ Fail(t, e)
          /\ "Canceled" \in e => op[t] \in {"acquire", "refresh"}
  BY DEF FailStep
<1>a. \A u \in Threads : u # t => pc[u] \notin HeldPositions  BY OthersOutside DEF FailStep
<1>b. lifecycle \in {"new", "active"} /\ closeDone = "none"
  BY DEF FailStep, LeaseInv, CloseRecord
<1>c. story' = Append(story, "failed") /\ story \in Seq(Kinds)
  BY <1>1 DEF Fail, LeaseInv, LeaseTypeOK, Kinds
<1>d. story' \in Seq(Kinds) /\ \A what : ToldOf(story', what) <=> ToldOf(story, what) \/ "failed" = what
  <2>1. "failed" \in Kinds  BY DEF Kinds
  <2> QED  BY <1>c, <2>1, AppendStory
<1>e. (WasAcquired <=> WasAcquired') /\ (ToldOf(story, "closed") <=> ToldOf(story', "closed"))
  BY <1>d DEF WasAcquired
<1> USE DEF Fail, Return, Go
<1>2. LeaseTypeOK'
  BY <1>1, <1>d DEF LeaseInv, LeaseTypeOK, Inner, Positions, ContextErrors, Ops, Kinds
<1>3. MutexHeld'
  BY <1>1, <1>a, ManagerAssumption
     DEF FailStep, Turn, LeaseInv, LeaseTypeOK, MutexHeld, HeldPositions, StorePositions
<1>4. InPlace'
  BY <1>1, <1>a DEF LeaseInv, LeaseTypeOK, InPlace, Fits, HeldPositions, StorePositions
<1>5. OneCloser'
  BY <1>1 DEF LeaseInv, LeaseTypeOK, OneCloser
<1>6. CloseRecord'
  BY <1>1, <1>b, <1>e DEF LeaseInv, CloseRecord
<1>7. LifeRecord'
  BY <1>1, <1>b, <1>e DEF LeaseInv, LifeRecord
<1>8. LoopNotCancelled' /\ CancelHarmless'
  BY <1>1 DEF LeaseInv, LeaseTypeOK, LoopNotCancelled, CancelHarmless
<1> QED  BY <1>2, <1>3, <1>4, <1>5, <1>6, <1>7, <1>8 DEF LeaseInv

LEMMA HoldKeeps ==
    ASSUME LeaseInv, NEW t \in Threads, HoldStep(t)
    PROVE  LeaseInv'
<1>1. PICK where \in HeldPositions, ticks \in Nat : GoOn(t, where, ticks)
  BY DEF HoldStep
<1>a. \A u \in Threads : u # t => pc[u] \notin HeldPositions  BY OthersOutside DEF HoldStep
<1> USE DEF HoldStep, StateUnchanged, GoOn, Holding, Go, historyVars
<1>2. LeaseTypeOK'
  BY <1>1 DEF LeaseInv, LeaseTypeOK, Positions
<1>3. MutexHeld'
  BY <1>1, <1>a DEF LeaseInv, LeaseTypeOK, MutexHeld
<1>4. InPlace'
  BY <1>1 DEF LeaseInv, LeaseTypeOK, InPlace, Fits
<1>5. OneCloser'
  BY <1>1 DEF LeaseInv, LeaseTypeOK, OneCloser, HeldPositions, StorePositions
<1>6. CloseRecord' /\ LifeRecord'
  BY <1>1 DEF LeaseInv, CloseRecord, LifeRecord, WasAcquired
<1>7. LoopNotCancelled' /\ CancelHarmless'
  BY <1>1 DEF LeaseInv, LoopNotCancelled, CancelHarmless
<1> QED  BY <1>2, <1>3, <1>4, <1>5, <1>6, <1>7 DEF LeaseInv

(* The lease runs from before the request, which took at most its timeout. *)
LEMMA InstalledLease ==
    ASSUME LeaseInv, NEW t \in Threads, timer[t] <= OperationTimeout, Install(t)
    PROVE  leaseLeft' \in 0..LeaseWindow
BY ManagerAssumption DEF Install, LeaseInv, LeaseTypeOK

LEMMA InstallKeeps ==
    ASSUME LeaseInv, NEW t \in Threads, InstallStep(t)
    PROVE  LeaseInv'
<1>a. \A u \in Threads : u # t => pc[u] \notin HeldPositions  BY OthersOutside DEF InstallStep
<1>b. leaseLeft' \in 0..LeaseWindow  BY InstalledLease DEF InstallStep
<1>c. /\ lifecycle = "active" /\ lifecycle' = "active" /\ leaseOwned' = TRUE
      /\ UNCHANGED <<terminalErr, closeErr, closeDone, historyVars>>
  BY DEF InstallStep, Install, GoOn
<1>d. closeDone = "none" /\ WasAcquired
  BY <1>c DEF LeaseInv, CloseRecord, LifeRecord
<1>e. CloseRecord' /\ LifeRecord'
  BY <1>c, <1>d DEF LeaseInv, CloseRecord, LifeRecord, WasAcquired, historyVars
<1>f. CancelHarmless'
  BY <1>c DEF LeaseInv, CancelHarmless, historyVars
<1>1. CASE \E e \in SUBSET Sentinels : Return(t, e) /\ UNCHANGED <<acquireLeft, historyVars>>
  <2>1. PICK e \in SUBSET Sentinels : Return(t, e) /\ UNCHANGED <<acquireLeft, historyVars>>
    BY <1>1
  <2> USE DEF Return, Go
  <2>2. LeaseTypeOK'
    BY <1>b, <1>c, <2>1
       DEF LeaseInv, LeaseTypeOK, Inner, Positions, ContextErrors, Ops, historyVars
  <2>3. MutexHeld'
    BY <1>a, <2>1, ManagerAssumption
       DEF LeaseInv, LeaseTypeOK, MutexHeld, HeldPositions, StorePositions
  <2>4. InPlace'
    BY <1>a, <1>c, <2>1 DEF LeaseInv, LeaseTypeOK, InPlace, Fits, HeldPositions, StorePositions
  <2>5. OneCloser'
    BY <2>1 DEF LeaseInv, LeaseTypeOK, OneCloser
  <2>6. LoopNotCancelled'
    BY <2>1 DEF LeaseInv, LeaseTypeOK, LoopNotCancelled
  <2> QED  BY <1>e, <1>f, <2>2, <2>3, <2>4, <2>5, <2>6 DEF LeaseInv
<1>2. CASE \E where \in {"generate", "regenerate"}, ticks \in Nat : GoOn(t, where, ticks)
  <2>1. PICK where \in {"generate", "regenerate"}, ticks \in Nat : GoOn(t, where, ticks)
    BY <1>2
  <2> USE DEF GoOn, Holding, Go
  <2>2. LeaseTypeOK'
    BY <1>b, <1>c, <2>1 DEF LeaseInv, LeaseTypeOK, Positions, historyVars
  <2>3. MutexHeld'
    BY <1>a, <2>1 DEF LeaseInv, LeaseTypeOK, MutexHeld
  <2>4. InPlace'
    BY <1>c, <2>1 DEF LeaseInv, LeaseTypeOK, InPlace, Fits
  <2>5. OneCloser'
    BY <2>1 DEF LeaseInv, LeaseTypeOK, OneCloser
  <2>6. LoopNotCancelled'
    BY <2>1 DEF LeaseInv, LeaseTypeOK, LoopNotCancelled
  <2> QED  BY <1>e, <1>f, <2>2, <2>3, <2>4, <2>5, <2>6 DEF LeaseInv
<1> QED  BY <1>1, <1>2 DEF InstallStep

LEMMA AcquiredKeeps ==
    ASSUME LeaseInv, NEW t \in Threads, Acquired(t)
    PROVE  LeaseInv'
<1>0. pc[t] \in HeldPositions /\ timer[t] <= OperationTimeout /\ op[t] = "acquire"
      /\ lifecycle = "new"
  BY DEF Acquired, LeaseInv, InPlace, Fits, HeldPositions, StorePositions
<1>a. \A u \in Threads : u # t => pc[u] \notin HeldPositions
  BY <1>0, OthersOutside DEF Turn
<1>b. leaseLeft' \in 0..LeaseWindow  BY <1>0, InstalledLease DEF Acquired
<1>c. closeDone = "none" /\ story = <<>> /\ terminalErr = {}
  BY <1>0 DEF LeaseInv, CloseRecord, LifeRecord
<1>d. /\ story' \in Seq(Kinds)
      /\ \A what : ToldOf(story', what) <=> ToldOf(story, what) \/ "acquired" = what
  <2>1. "acquired" \in Kinds /\ story \in Seq(Kinds)  BY DEF Kinds, LeaseInv, LeaseTypeOK
  <2> QED  BY <2>1, AppendStory DEF Acquired
<1>e. WasAcquired' /\ (ToldOf(story, "closed") <=> ToldOf(story', "closed"))
  BY <1>d DEF WasAcquired
<1> USE DEF Acquired, Install, Return, Go
<1>2. LeaseTypeOK'
  BY <1>b, <1>d DEF LeaseInv, LeaseTypeOK, Inner, Positions, ContextErrors, Ops, Kinds
<1>3. MutexHeld'
  BY <1>a, ManagerAssumption
     DEF LeaseInv, LeaseTypeOK, MutexHeld, HeldPositions, StorePositions
<1>4. InPlace'
  BY <1>a DEF LeaseInv, LeaseTypeOK, InPlace, Fits, HeldPositions, StorePositions
<1>5. OneCloser'
  BY DEF LeaseInv, LeaseTypeOK, OneCloser
<1>6. CloseRecord'
  BY <1>0, <1>c, <1>e DEF LeaseInv, CloseRecord
<1>7. LifeRecord'
  BY <1>c, <1>e DEF LeaseInv, LifeRecord
<1>8. LoopNotCancelled' /\ CancelHarmless'
  BY <1>c DEF LeaseInv, LeaseTypeOK, LoopNotCancelled, CancelHarmless
<1> QED  BY <1>2, <1>3, <1>4, <1>5, <1>6, <1>7, <1>8 DEF LeaseInv

LEMMA OrdinaryKeeps ==
    ASSUME LeaseInv, NEW t \in Threads, OrdinaryStep(t)
    PROVE  LeaseInv'
BY RefuseKeeps, FailKeeps, HoldKeeps, InstallKeeps, AcquiredKeeps DEF OrdinaryStep

-----------------------------------------------------------------------------
(* Close, and what callers, contexts and time do, preserve it as well.     *)
LEMMA EnterCloseKeeps ==
    ASSUME LeaseInv, NEW t \in Threads, EnterClose(t)
    PROVE  LeaseInv'
<1>a. /\ pc[t] = "lock" /\ mu = NoThread /\ op[t] \in {"close", "stop"}
      /\ lifecycle # "closed" /\ closeDone = "none"
  BY DEF EnterClose, Enter, LeaseInv, CloseRecord
<1>b. \A u \in Threads : pc[u] \notin HeldPositions
  BY <1>a, ManagerAssumption DEF LeaseInv, MutexHeld
<1>c. \A u \in Threads : pc[u] \notin {"releasing", "relock"}
  BY <1>a DEF LeaseInv, InPlace, Fits
<1>d. /\ lifecycle' = "closed" /\ terminalErr' = {"GeneratorClosed"}
      /\ leaseLeft' = 0 /\ closeDone' = "open" /\ mu' = NoThread
      /\ UNCHANGED <<closeErr, leaseOwned, got, story, culprit, closeResults, op, ctx, acquireLeft>>
      /\ \E where \in {"releasing", "relock"}, ticks \in {OperationTimeout, 0} : Go(t, where, ticks)
      /\ releases' = IF leaseOwned THEN releases + 1 ELSE releases
  BY DEF EnterClose, StartRelease, ShouldRelease, Unlock
<1>e. PICK where \in {"releasing", "relock"}, ticks \in {OperationTimeout, 0} : Go(t, where, ticks)
  BY <1>d
<1>f. releases = 0 /\ closeResults = {} /\ (leaseOwned <=> WasAcquired) /\ WasAcquired' = WasAcquired
  BY <1>a, <1>d DEF LeaseInv, CloseRecord, WasAcquired
<1> USE DEF Go
<1>1. LeaseTypeOK'
  BY <1>d, <1>e, <1>f, ManagerAssumption DEF LeaseInv, LeaseTypeOK, Positions, Sentinels
<1>2. MutexHeld'
  BY <1>b, <1>d, <1>e, ManagerAssumption
     DEF LeaseInv, LeaseTypeOK, MutexHeld, HeldPositions, StorePositions
<1>3. InPlace'
  BY <1>a, <1>b, <1>d, <1>e, ManagerAssumption
     DEF LeaseInv, LeaseTypeOK, InPlace, Fits, HeldPositions, StorePositions
<1>4. OneCloser'
  BY <1>c, <1>e DEF LeaseInv, LeaseTypeOK, OneCloser
<1>5. CloseRecord'
  BY <1>d, <1>f DEF CloseRecord
<1>6. LifeRecord'
  BY <1>a, <1>d DEF LeaseInv, LifeRecord
<1>7. LoopNotCancelled' /\ CancelHarmless'
  BY <1>d DEF LeaseInv, LoopNotCancelled, CancelHarmless
<1> QED  BY <1>1, <1>2, <1>3, <1>4, <1>5, <1>6, <1>7 DEF LeaseInv

(* Steps of Close that touch no more than the position of their thread.    *)
LEMMA WaitingCloseKeeps ==
    ASSUME LeaseInv, NEW t \in Threads,
           EnterCloseAgain(t) \/ Released(t) \/ SeeClosed(t)
    PROVE  LeaseInv'
<1>a. PICK where \in {"await", "reread", "relock"} :
          /\ Go(t, where, 0)
          /\ pc[t] \notin HeldPositions
          /\ op[t] \in {"close", "stop"} /\ closeDone # "none"
          /\ where = "reread" => closeDone = "closed"
          /\ where = "relock" => pc[t] = "releasing" /\ closeDone = "open"
  <2>1. CASE EnterCloseAgain(t)
    BY <2>1 DEF EnterCloseAgain, Enter, Unlock, LeaseInv, CloseRecord, HeldPositions, StorePositions
  <2>2. CASE Released(t)
    BY <2>2 DEF Released, LeaseInv, InPlace, Fits, HeldPositions, StorePositions
  <2>3. CASE SeeClosed(t)
    BY <2>3 DEF SeeClosed, LeaseInv, InPlace, Fits, HeldPositions, StorePositions
  <2> QED  BY <2>1, <2>2, <2>3
<1>b. /\ UNCHANGED <<lifecycle, terminalErr, closeErr, closeDone, leaseOwned, leaseLeft,
                     op, ctx, acquireLeft, story, culprit, releases, closeResults>>
      /\ mu' = mu
  BY DEF EnterCloseAgain, Enter, Unlock, StateUnchanged, Released, SeeClosed, managerVars, historyVars
<1>c. got' \in [Threads -> SUBSET Sentinels]
  <2>1. CASE Released(t)
    <3>1. PICK e \in StoreErrors(t) \cup (IF OperationEnded(t) THEN {} ELSE {{}}) :
              got' = [got EXCEPT ![t] = e]
      BY <2>1 DEF Released
    <3>2. e \in SUBSET Sentinels  BY <3>1, StoreErrorsType DEF LeaseInv
    <3> QED  BY <3>1, <3>2 DEF LeaseInv, LeaseTypeOK
  <2> QED  BY <2>1 DEF EnterCloseAgain, SeeClosed, LeaseInv, LeaseTypeOK
<1> USE DEF Go
<1>1. LeaseTypeOK'
  BY <1>a, <1>b, <1>c DEF LeaseInv, LeaseTypeOK, Positions
<1>2. MutexHeld'
  BY <1>a, <1>b DEF LeaseInv, LeaseTypeOK, MutexHeld, HeldPositions, StorePositions
<1>3. InPlace'
  BY <1>a, <1>b DEF LeaseInv, LeaseTypeOK, InPlace, Fits, HeldPositions, StorePositions
<1>4. OneCloser'
  BY <1>a, <1>b DEF LeaseInv, LeaseTypeOK, OneCloser
<1>5. CloseRecord' /\ LifeRecord'
  BY <1>b DEF LeaseInv, CloseRecord, LifeRecord, WasAcquired
<1>6. LoopNotCancelled' /\ CancelHarmless'
  BY <1>b DEF LeaseInv, LoopNotCancelled, CancelHarmless
<1> QED  BY <1>1, <1>2, <1>3, <1>4, <1>5, <1>6 DEF LeaseInv

LEMMA FinishCloseKeeps ==
    ASSUME LeaseInv, NEW t \in Threads, FinishClose(t)
    PROVE  LeaseInv'
<1>a. /\ pc[t] = "relock" /\ mu = NoThread /\ lifecycle = "closed" /\ closeDone = "open"
      /\ closeResults = {} /\ terminalErr = {"GeneratorClosed"}
  BY DEF FinishClose, LeaseInv, InPlace, Fits, CloseRecord, LifeRecord
<1>b. \A u \in Threads : u # t => pc[u] \notin HeldPositions \cup {"releasing", "relock"}
  BY <1>a, ManagerAssumption DEF LeaseInv, MutexHeld, OneCloser
<1>c. /\ story' \in Seq(Kinds)
      /\ \A what : ToldOf(story', what) <=> ToldOf(story, what) \/ "closed" = what
  <2>1. "closed" \in Kinds /\ story \in Seq(Kinds)  BY DEF Kinds, LeaseInv, LeaseTypeOK
  <2> QED  BY <2>1, AppendStory DEF FinishClose
<1>d. WasAcquired' <=> WasAcquired  BY <1>c DEF WasAcquired
<1>1. LeaseTypeOK'
  <2>1. /\ UNCHANGED <<lifecycle, terminalErr, leaseLeft, acquireLeft, culprit, releases>>
        /\ leaseOwned' = FALSE /\ closeErr' = got[t] /\ closeDone' = "closed"
        /\ closeResults' = closeResults \cup {got[t]}
        /\ Return(t, got[t])
    BY DEF FinishClose
  <2>2. story' \in Seq({"acquired", "failed", "closed"})  BY <1>c DEF Kinds
  <2>3. got[t] \in SUBSET Sentinels  BY DEF LeaseInv, LeaseTypeOK
  <2>4. closeErr' \in SUBSET Sentinels /\ closeResults' \subseteq SUBSET Sentinels
    BY <2>1, <2>3 DEF LeaseInv, LeaseTypeOK
  <2>5. /\ pc' \in [Threads -> Positions] /\ op' \in [Threads -> Ops]
        /\ ctx' \in [Threads -> ContextErrors \cup {"live"}] /\ timer' \in [Threads -> Nat]
        /\ got' \in [Threads -> SUBSET Sentinels] /\ mu' = NoThread
    BY <2>1, <2>3 DEF LeaseInv, LeaseTypeOK, Return, Go, Inner, Positions, ContextErrors, Ops
  <2> QED  BY <2>1, <2>2, <2>4, <2>5 DEF LeaseInv, LeaseTypeOK
<1> USE DEF FinishClose, Return, Go
<1>2. MutexHeld'
  BY <1>b, ManagerAssumption DEF LeaseInv, LeaseTypeOK, MutexHeld, HeldPositions, StorePositions
<1>3. InPlace'
  BY <1>b DEF LeaseInv, LeaseTypeOK, InPlace, Fits, HeldPositions, StorePositions
<1>4. OneCloser'
  BY DEF LeaseInv, LeaseTypeOK, OneCloser
<1>5. CloseRecord'
  BY <1>a, <1>d DEF LeaseInv, CloseRecord
<1>6. LifeRecord'
  BY <1>a DEF LifeRecord
<1>7. LoopNotCancelled' /\ CancelHarmless'
  BY <1>a DEF LeaseInv, LeaseTypeOK, LoopNotCancelled, CancelHarmless
<1> QED  BY <1>1, <1>2, <1>3, <1>4, <1>5, <1>6, <1>7 DEF LeaseInv

LEMMA ReadCloseErrorKeeps ==
    ASSUME LeaseInv, NEW t \in Threads, ReadCloseError(t)
    PROVE  LeaseInv'
<1>a. mu = NoThread /\ pc[t] = "reread" /\ closeDone = "closed"
  BY DEF ReadCloseError, LeaseInv, InPlace, Fits
<1> USE DEF ReadCloseError, Return, Go, StateUnchanged
<1>1. LeaseTypeOK'
  BY DEF LeaseInv, LeaseTypeOK, Inner, Positions, ContextErrors, Ops
<1>2. MutexHeld'
  BY <1>a, ManagerAssumption DEF LeaseInv, LeaseTypeOK, MutexHeld, HeldPositions, StorePositions
<1>3. InPlace'
  BY DEF LeaseInv, LeaseTypeOK, InPlace, Fits, HeldPositions, StorePositions
<1>4. OneCloser'
  BY DEF LeaseInv, LeaseTypeOK, OneCloser
<1>5. CloseRecord' /\ LifeRecord'
  BY <1>a DEF LeaseInv, CloseRecord, LifeRecord, WasAcquired
<1>6. LoopNotCancelled' /\ CancelHarmless'
  BY DEF LeaseInv, LeaseTypeOK, LoopNotCancelled, CancelHarmless
<1> QED  BY <1>1, <1>2, <1>3, <1>4, <1>5, <1>6 DEF LeaseInv

LEMMA ProceedKeeps ==
    ASSUME LeaseInv, NEW t \in Threads, Proceed(t)
    PROVE  LeaseInv'
BY StepKinds, OrdinaryKeeps, EnterCloseKeeps, WaitingCloseKeeps, FinishCloseKeeps,
   ReadCloseErrorKeeps DEF CloseStep

LEMMA CallerKeeps ==
    ASSUME LeaseInv, NEW t \in Threads, NEW o \in Ops,
           Ask(t, o) \/ Leave(t) \/ EndContext(t)
    PROVE  LeaseInv'
<1>a. UNCHANGED <<managerVars, timer, acquireLeft, historyVars>>
  BY DEF Ask, Leave, EndContext
<1>b. LeaseTypeOK'
  <2>1. CASE Ask(t, o)
    BY <1>a, <2>1 DEF Ask, LeaseInv, LeaseTypeOK, Positions, managerVars, historyVars
  <2>2. CASE Leave(t)
    BY <1>a, <2>2 DEF Leave, LeaseInv, LeaseTypeOK, Positions, Ops, managerVars, historyVars
  <2>3. CASE EndContext(t)
    <3>1. PICK e \in MayEnd[t] : ctx' = [ctx EXCEPT ![t] = e]  BY <2>3 DEF EndContext
    <3>2. e \in ContextErrors  BY ManagerAssumption DEF ContextErrors
    <3> QED
      BY <1>a, <2>3, <3>1, <3>2
         DEF EndContext, LeaseInv, LeaseTypeOK, managerVars, historyVars
  <2> QED  BY <2>1, <2>2, <2>3
<1>c. CloseRecord' /\ LifeRecord' /\ CancelHarmless'
  BY <1>a DEF LeaseInv, CloseRecord, LifeRecord, CancelHarmless, WasAcquired, managerVars, historyVars
<1>1. CASE Ask(t, o) \/ Leave(t)
  <2>1. PICK where \in {"lock", "out"} :
            pc' = [pc EXCEPT ![t] = where] /\ pc[t] \in {"out", "answered"} /\ ctx[t] = "live"
    BY <1>1 DEF Ask, Leave, LeaseInv, InPlace, Fits
  <2>2. \E o2 \in Ops : op' = [op EXCEPT ![t] = o2]
    BY <1>1 DEF Ask, Leave, Ops
  <2>3. UNCHANGED ctx  BY <1>1 DEF Ask, Leave
  <2>4. MutexHeld'
    BY <1>a, <2>1 DEF LeaseInv, LeaseTypeOK, MutexHeld, HeldPositions, StorePositions, managerVars
  <2>5. InPlace'
    BY <1>a, <2>1, <2>2, <2>3
       DEF LeaseInv, LeaseTypeOK, InPlace, Fits, HeldPositions, StorePositions, managerVars
  <2>6. OneCloser'
    BY <2>1 DEF LeaseInv, LeaseTypeOK, OneCloser
  <2>7. LoopNotCancelled'
    BY <2>1, <2>2, <2>3 DEF LeaseInv, LeaseTypeOK, LoopNotCancelled
  <2> QED  BY <1>b, <1>c, <2>4, <2>5, <2>6, <2>7 DEF LeaseInv
<1>2. CASE EndContext(t)
  <2>1. MutexHeld' /\ OneCloser'
    BY <1>2, <1>a DEF EndContext, LeaseInv, MutexHeld, OneCloser, managerVars
  <2>2. InPlace'
    BY <1>2, <1>a
       DEF EndContext, LeaseInv, LeaseTypeOK, InPlace, Fits, HeldPositions, StorePositions, managerVars
  <2>3. LoopNotCancelled'
    BY <1>2 DEF EndContext, LeaseInv, LeaseTypeOK, LoopNotCancelled
  <2> QED  BY <1>b, <1>c, <2>1, <2>2, <2>3 DEF LeaseInv
<1> QED  BY <1>1, <1>2

LEMMA LessType ==
    ASSUME NEW n \in Nat
    PROVE  Less(n) \in Nat /\ Less(n) <= n
BY DEF Less

(* Time only runs down, and may end the context of the loop's refresh.     *)
LEMMA TickKeeps ==
    ASSUME TypeOK, LeaseInv, Tick
    PROVE  LeaseInv' /\ loopLeft' \in 0..OperationTimeout
<1>a. /\ leaseLeft' = Less(leaseLeft) /\ acquireLeft' = Less(acquireLeft)
      /\ timer' = [t \in Threads |-> Less(timer[t])] /\ loopLeft' = Less(loopLeft)
      /\ UNCHANGED <<mu, lifecycle, terminalErr, closeErr, closeDone, leaseOwned, pc, op, got,
                     story, culprit, releases, closeResults>>
  BY DEF Tick, RunTimers, historyVars
<1>b. ctx' = ctx \/ (pc[Loop] \notin {"out", "answered"}
                      /\ ctx' = [ctx EXCEPT ![Loop] = "DeadlineExceeded"])
  BY DEF Tick, Waiting
<1>c. /\ leaseLeft \in 0..LeaseWindow /\ acquireLeft \in 0..AcquireTimeout
      /\ loopLeft \in 0..OperationTimeout /\ timer \in [Threads -> Nat]
  BY DEF TypeOK, LeaseInv, LeaseTypeOK
<1>d. /\ leaseLeft' \in 0..LeaseWindow /\ acquireLeft' \in 0..AcquireTimeout
      /\ loopLeft' \in 0..OperationTimeout
  BY <1>a, <1>c, ManagerAssumption DEF Less
<1>e. \A t \in Threads : timer'[t] \in Nat /\ timer'[t] <= timer[t]
  BY <1>a, <1>c, LessType
<1>1. LeaseTypeOK'
  BY <1>a, <1>b, <1>c, <1>d, LessType DEF LeaseInv, LeaseTypeOK, ContextErrors
<1>2. MutexHeld' /\ OneCloser'
  BY <1>a DEF LeaseInv, MutexHeld, OneCloser
<1>3. InPlace'
  <2>1. SUFFICES ASSUME NEW t \in Threads
                 PROVE  /\ Fits(t, pc[t])'
                        /\ pc[t] \in StorePositions => timer'[t] <= OperationTimeout
    BY <1>a DEF InPlace
  <2>2. Fits(t, pc[t])'
    BY <1>a, <1>b DEF LeaseInv, LeaseTypeOK, InPlace, Fits
  <2>3. ASSUME pc[t] \in StorePositions  PROVE timer'[t] <= OperationTimeout
    <3>1. timer[t] <= OperationTimeout /\ timer[t] \in Nat
      BY <2>3, <1>c DEF LeaseInv, InPlace
    <3> QED  BY <1>e, <3>1, ManagerAssumption
  <2> QED  BY <2>2, <2>3
<1>4. CloseRecord' /\ LifeRecord' /\ CancelHarmless'
  BY <1>a DEF LeaseInv, CloseRecord, LifeRecord, CancelHarmless, WasAcquired
<1>5. LoopNotCancelled'
  BY <1>a, <1>b DEF LeaseInv, LeaseTypeOK, LoopNotCancelled
<1> QED  BY <1>d, <1>1, <1>2, <1>3, <1>4, <1>5 DEF LeaseInv

-----------------------------------------------------------------------------
(* What the Runtime relies on in the manager: an operation of one thread   *)
(* moves nobody else, the loop and Stop get their answer, and an answer to *)
(* Stop is that of the one release.                                        *)
LEMMA ProceedFrame ==
    ASSUME LeaseInv, NEW t \in Threads, Proceed(t)
    PROVE  /\ pc[t] \notin {"out", "answered"}
           /\ \A u \in Threads : u # t => pc'[u] = pc[u] /\ op'[u] = op[u] /\ got'[u] = got[u]
           /\ Inner(t) => op'[t] = op[t] /\ pc'[t] # "out"
           /\ ~Inner(t) => op'[t] \in {op[t], "ready"} /\ pc'[t] # "answered"
           /\ closeDone = "closed" => closeDone' = "closed" /\ closeErr' = closeErr
           /\ op[t] = "stop" /\ pc'[t] = "answered" => closeDone' = "closed" /\ got'[t] = closeErr'
<1> DEFINE Goal ==
      /\ pc[t] \notin {"out", "answered"}
      /\ \A u \in Threads : u # t => pc'[u] = pc[u] /\ op'[u] = op[u] /\ got'[u] = got[u]
      /\ Inner(t) => op'[t] = op[t] /\ pc'[t] # "out"
      /\ ~Inner(t) => op'[t] \in {op[t], "ready"} /\ pc'[t] # "answered"
      /\ closeDone = "closed" => closeDone' = "closed" /\ closeErr' = closeErr
      /\ op[t] = "stop" /\ pc'[t] = "answered" => closeDone' = "closed" /\ got'[t] = closeErr'
<1>0. pc \in [Threads -> Positions] /\ op \in [Threads -> Ops] /\ got \in [Threads -> SUBSET Sentinels]
  BY DEF LeaseInv, LeaseTypeOK
<1>1. CASE RefuseStep(t)
  BY <1>0, <1>1
     DEF RefuseStep, Turn, Refuse, Return, Go, StateUnchanged, HeldPositions, StorePositions
<1>2. CASE FailStep(t)
  BY <1>0, <1>2 DEF FailStep, Turn, Fail, Return, Go, HeldPositions, StorePositions
<1>3. CASE HoldStep(t)
  BY <1>0, <1>3
     DEF HoldStep, Turn, GoOn, Holding, Go, StateUnchanged, HeldPositions, StorePositions
<1>4. CASE InstallStep(t)
  <2>1. pc[t] \notin {"out", "answered"} /\ op[t] # "stop" /\ UNCHANGED <<closeDone, closeErr>>
    BY <1>4 DEF InstallStep, Turn, Install, HeldPositions, StorePositions
  <2>2. CASE \E e \in SUBSET Sentinels : Return(t, e)
    BY <1>0, <2>1, <2>2 DEF Return, Go
  <2>3. CASE \E where \in {"generate", "regenerate"}, ticks \in Nat : GoOn(t, where, ticks)
    BY <1>0, <2>1, <2>3 DEF GoOn, Holding, Go
  <2> QED  BY <1>4, <2>2, <2>3 DEF InstallStep
<1>5. CASE Acquired(t)
  <2>1. op[t] = "acquire"
    BY <1>5 DEF Acquired, LeaseInv, InPlace, Fits
  <2> QED  BY <1>0, <1>5, <2>1 DEF Acquired, Install, Return, Go, Inner
<1>6. CASE EnterClose(t)
  BY <1>0, <1>6 DEF EnterClose, Enter, StartRelease, Unlock, Go, LeaseInv, CloseRecord
<1>7. CASE EnterCloseAgain(t)
  BY <1>0, <1>7 DEF EnterCloseAgain, Enter, Unlock, Go, StateUnchanged
<1>8. CASE Released(t)
  BY <1>0, <1>8 DEF Released, Go, managerVars
<1>9. CASE FinishClose(t)
  BY <1>0, <1>9 DEF FinishClose, Return, Go, LeaseInv, InPlace, Fits
<1>10. CASE SeeClosed(t)
  BY <1>0, <1>10 DEF SeeClosed, Go, managerVars
<1>11. CASE ReadCloseError(t)
  BY <1>0, <1>11 DEF ReadCloseError, Return, Go, StateUnchanged, LeaseInv, InPlace, Fits
<1> QED
  BY <1>1, <1>2, <1>3, <1>4, <1>5, <1>6, <1>7, <1>8, <1>9, <1>10, <1>11, StepKinds
     DEF OrdinaryStep, CloseStep

-----------------------------------------------------------------------------
(* The steps of the Runtime.                                               *)
LEMMA ManagerStepKeeps ==
    ASSUME IndInv, NEW t \in Threads, Manager(Proceed(t)) \/ Manager(EndContext(t))
    PROVE  IndInv'
<1>0. UNCHANGED <<loopVars, stopVars>>  BY DEF Manager
<1>1. LeaseInv'
  BY ProceedKeeps, CallerKeeps DEF Manager, IndInv, Ops
<1>2. TypeOK'
  BY <1>0, <1>1 DEF IndInv, TypeOK, LeaseInv, loopVars, stopVars
<1>3. CASE Proceed(t)
  <2>1. LoopInPlace'
    BY <1>0, <1>3, ProceedFrame, RuntimeAssumption
       DEF IndInv, LoopInPlace, Users, loopVars, Inner
  <2>2. StopInPlace'
    <3>1. \A u \in Users : u # t => pc'[u] = pc[u] /\ op'[u] = op[u] /\ got'[u] = got[u]
      BY <1>3, ProceedFrame DEF IndInv, Users
    <3>2. closeDone = "closed" => closeDone' = "closed" /\ closeErr' = closeErr
      BY <1>3, ProceedFrame DEF IndInv
    <3>3. t \in Users => op[t] # "loop"  BY DEF IndInv, LoopInPlace
    <3>4. /\ pc[t] # "out"
          /\ op[t] = "stop" => op'[t] = "stop" /\ pc'[t] # "out"
          /\ op[t] # "stop" /\ t \in Users => op'[t] # "stop"
          /\ op[t] = "stop" /\ pc'[t] = "answered" => closeDone' = "closed" /\ got'[t] = closeErr'
      BY <1>3, <3>3, ProceedFrame DEF IndInv, Inner
    <3> QED  BY <1>0, <3>1, <3>2, <3>4 DEF IndInv, StopInPlace, loopVars, stopVars
  <2> QED  BY <1>1, <1>2, <2>1, <2>2 DEF IndInv
<1>4. CASE EndContext(t)
  BY <1>0, <1>1, <1>2, <1>4
     DEF IndInv, LoopInPlace, StopInPlace, EndContext, managerVars, loopVars, stopVars
<1> QED  BY <1>3, <1>4 DEF Manager

LEMMA LeaseVarsKept ==
    ASSUME LeaseInv, UNCHANGED leaseVars
    PROVE  LeaseInv'
BY DEF leaseVars, managerVars, threadVars, historyVars, LeaseInv, LeaseTypeOK, MutexHeld, InPlace,
       Fits, OneCloser, CloseRecord, LifeRecord, WasAcquired, LoopNotCancelled, CancelHarmless

(* Those in which the loop and Stop do not touch the manager.              *)
LEMMA OwnStepKeeps ==
    ASSUME IndInv,
           \/ StartRuntime \/ LoopCancelled \/ JudgeEnd \/ RecordError \/ CloseDone \/ EndParent
           \/ \E t \in Users : CallStop(t) \/ CancelLoop(t) \/ ReturnStop(t)
    PROVE  IndInv'
<1>0. UNCHANGED leaseVars
  BY DEF StartRuntime, LoopCancelled, JudgeEnd, RecordError, CloseDone, EndParent,
         CallStop, CancelLoop, ReturnStop
<1>1. LeaseInv'  BY <1>0, LeaseVarsKept DEF IndInv
<1>2. UNCHANGED <<pc, op, got, closeDone, closeErr>>
  BY <1>0 DEF leaseVars, managerVars, threadVars
<1>3. LeaseTypeOK'  BY <1>1 DEF LeaseInv
<1>4. Loop \notin Users /\ NoThread \notin Users /\ Users \subseteq Threads
  BY RuntimeAssumption, ManagerAssumption DEF Users
<1>5. ContextErrors \subseteq Sentinels  BY DEF ContextErrors, Sentinels
<1>6. rctx \in ContextErrors \cup {"live"} /\ Cancelled(rctx) \in ContextErrors
      /\ loopErr \in SUBSET Sentinels
  BY DEF IndInv, TypeOK, Cancelled, ContextErrors
<1> USE DEF IndInv, TypeOK, LoopInPlace, StopInPlace, loopVars, stopVars
<1>a. CASE StartRuntime
  BY <1>a, <1>1, <1>2, <1>3 DEF StartRuntime
<1>b. CASE LoopCancelled
  BY <1>b, <1>1, <1>2, <1>3, <1>5, <1>6 DEF LoopCancelled
<1>c. CASE JudgeEnd
  BY <1>c, <1>1, <1>2, <1>3 DEF JudgeEnd, WorthRecording
<1>d. CASE RecordError
  <2>1. rctx' # "live"  BY <1>d, <1>6 DEF RecordError, ContextErrors
  <2> QED  BY <1>d, <1>1, <1>2, <1>3, <1>6, <2>1 DEF RecordError
<1>e. CASE CloseDone
  BY <1>e, <1>1, <1>2, <1>3 DEF CloseDone
<1>f. CASE EndParent
  <2>1. rctx' # "live" /\ rctx = "live"  BY <1>f DEF EndParent, ContextErrors
  <2> QED  BY <1>f, <1>1, <1>2, <1>3, <2>1 DEF EndParent
<1>g. ASSUME NEW t \in Users, CallStop(t)  PROVE IndInv'
  BY <1>g, <1>1, <1>2, <1>3, <1>4 DEF CallStop, Advance
<1>h. ASSUME NEW t \in Users, CancelLoop(t)  PROVE IndInv'
  <2>1. rctx' # "live"  BY <1>h, <1>6 DEF CancelLoop, ContextErrors
  <2> QED  BY <1>h, <1>1, <1>2, <1>3, <1>4, <1>6, <2>1 DEF CancelLoop, Advance
<1>i. ASSUME NEW t \in Users, ReturnStop(t)  PROVE IndInv'
  BY <1>i, <1>1, <1>2, <1>3, <1>4 DEF ReturnStop, Advance
<1> QED  BY <1>a, <1>b, <1>c, <1>d, <1>e, <1>f, <1>g, <1>h, <1>i

(* Those in which they call it or take its answer.                         *)
LEMMA AskingKeeps ==
    ASSUME IndInv,
           \/ LoopRefreshes \/ LoopGoesOn \/ LoopFails
           \/ \E t \in Users : Call(t) \/ CloseAfterLoop(t) \/ FinishStop(t)
    PROVE  IndInv'
<1>0. /\ Loop \in Threads /\ Loop \notin Users /\ Users \subseteq Threads
      /\ {"loop", "stop"} \subseteq Ops /\ OperationTimeout \in 0..OperationTimeout
  BY RuntimeAssumption, ManagerAssumption DEF Users, Ops
<1>1. ASSUME NEW t \in Threads, NEW o \in Ops, Ask(t, o)
      PROVE  /\ LeaseInv' /\ LeaseTypeOK'
             /\ UNCHANGED <<got, closeDone, closeErr>>
             /\ pc[t] = "out" /\ pc' = [pc EXCEPT ![t] = "lock"] /\ op' = [op EXCEPT ![t] = o]
  BY <1>1, CallerKeeps DEF IndInv, LeaseInv, Ask, managerVars
<1>2. ASSUME NEW t \in Threads, Leave(t)
      PROVE  /\ LeaseInv' /\ LeaseTypeOK'
             /\ UNCHANGED <<closeDone, closeErr>>
             /\ pc[t] = "answered" /\ pc' = [pc EXCEPT ![t] = "out"]
             /\ op' = [op EXCEPT ![t] = "ready"]
             /\ got' = [got EXCEPT ![t] = {}]
  BY <1>0, <1>2, CallerKeeps DEF IndInv, LeaseInv, Leave, managerVars
<1>3. pc \in [Threads -> Positions] /\ op \in [Threads -> Ops] /\ got \in [Threads -> SUBSET Sentinels]
      /\ closeErr \in SUBSET Sentinels
  BY DEF IndInv, LeaseInv, LeaseTypeOK
<1> USE DEF IndInv, TypeOK, LoopInPlace, StopInPlace, loopVars, stopVars
<1>a. CASE LoopRefreshes
  BY <1>a, <1>0, <1>1, <1>3 DEF LoopRefreshes
<1>b. CASE LoopGoesOn
  <2>1. 0 \in 0..OperationTimeout  BY ManagerAssumption
  <2> QED  BY <1>b, <1>0, <1>2, <1>3, <2>1 DEF LoopGoesOn
<1>c. CASE LoopFails
  <2>1. 0 \in 0..OperationTimeout  BY ManagerAssumption
  <2> QED  BY <1>c, <1>0, <1>2, <1>3, <2>1 DEF LoopFails
<1>d. ASSUME NEW t \in Users, Call(t)  PROVE IndInv'
  <2>1. PICK o \in MayCall[t] \ {"stop"} : Ask(t, o)  BY <1>d DEF Call
  <2>2. o \in Ops /\ o # "loop" /\ o # "stop"
    BY <1>0, <2>1, ManagerAssumption, RuntimeAssumption
  <2> QED  BY <1>d, <1>0, <1>1, <1>3, <2>1, <2>2 DEF Call
<1>e. ASSUME NEW t \in Users, CloseAfterLoop(t)  PROVE IndInv'
  BY <1>e, <1>0, <1>1, <1>3 DEF CloseAfterLoop, Advance
<1>f. ASSUME NEW t \in Users, FinishStop(t)  PROVE IndInv'
  BY <1>f, <1>0, <1>2, <1>3, ManagerAssumption DEF FinishStop, Advance
<1> QED  BY <1>a, <1>b, <1>c, <1>d, <1>e, <1>f

-----------------------------------------------------------------------------
LEMMA InitEstablishes == Init => IndInv
<1> SUFFICES ASSUME Init  PROVE IndInv
  OBVIOUS
<1> USE DEF Init, LeaseInit
<1>1. TypeOK
  <2>1. 0 \in 0..LeaseWindow /\ 0 \in 0..AcquireTimeout /\ 0 \in 0..OperationTimeout
    BY ManagerAssumption
  <2>2. {} \in SUBSET Sentinels  OBVIOUS
  <2>3. story \in Seq({"acquired", "failed", "closed"})  OBVIOUS
  <2>4. /\ pc \in [Threads -> Positions] /\ op \in [Threads -> Ops] /\ timer \in [Threads -> Nat]
        /\ ctx \in [Threads -> ContextErrors \cup {"live"}] /\ got \in [Threads -> SUBSET Sentinels]
    BY DEF Positions, Ops
  <2>5. LeaseTypeOK  BY <2>1, <2>2, <2>3, <2>4 DEF LeaseTypeOK
  <2> QED  BY <2>1, <2>2, <2>5 DEF TypeOK
<1>2. LeaseInv
  <2>1. LeaseTypeOK  BY <1>1 DEF TypeOK
  <2>2. MutexHeld /\ InPlace /\ OneCloser
    BY ManagerAssumption DEF MutexHeld, InPlace, Fits, OneCloser, HeldPositions, StorePositions
  <2>3. \A what : ~ToldOf(story, what)  BY DEF ToldOf
  <2>4. CloseRecord /\ LifeRecord  BY <2>3 DEF CloseRecord, LifeRecord, WasAcquired
  <2>5. LoopNotCancelled /\ CancelHarmless  BY DEF LoopNotCancelled, CancelHarmless
  <2> QED  BY <2>1, <2>2, <2>4, <2>5 DEF LeaseInv
<1>3. LoopInPlace /\ StopInPlace
  BY RuntimeAssumption DEF LoopInPlace, StopInPlace, Users
<1> QED  BY <1>1, <1>2, <1>3 DEF IndInv

LEMMA TickKeepsRuntime ==
    ASSUME IndInv, Tick
    PROVE  IndInv'
<1>1. LeaseInv' /\ loopLeft' \in 0..OperationTimeout  BY TickKeeps DEF IndInv
<1>2. UNCHANGED <<pc, op, got, closeDone, closeErr, loop, loopErr, rctx, rerr, stopVars>>
  BY DEF Tick, RunTimers
<1> QED
  BY <1>1, <1>2 DEF IndInv, TypeOK, LeaseInv, LoopInPlace, StopInPlace, stopVars

LEMMA StepPreserves == IndInv /\ [Next]_vars => IndInv'
<1> SUFFICES ASSUME IndInv, [Next]_vars  PROVE IndInv'
  OBVIOUS
<1>1. CASE UNCHANGED vars
  <2>1. LeaseInv'  BY <1>1, LeaseVarsKept DEF vars, IndInv
  <2>2. UNCHANGED <<pc, op, got, closeDone, closeErr, loopVars, stopVars>>
    BY <1>1 DEF vars, leaseVars, managerVars, threadVars
  <2> QED
    BY <2>1, <2>2 DEF IndInv, TypeOK, LeaseInv, LoopInPlace, StopInPlace, loopVars, stopVars
<1>2. CASE Tick  BY <1>2, TickKeepsRuntime
<1>3. CASE StartRuntime \/ LoopSteps \/ EndParent
  BY <1>3, OwnStepKeeps, AskingKeeps DEF LoopSteps
<1>4. ASSUME NEW t \in Users, Call(t) \/ CallStop(t) \/ StopSteps(t)  PROVE IndInv'
  BY <1>4, OwnStepKeeps, AskingKeeps DEF StopSteps
<1>5. ASSUME NEW t \in Threads, Manager(Proceed(t)) \/ Manager(EndContext(t))  PROVE IndInv'
  BY <1>5, ManagerStepKeeps
<1> QED  BY <1>1, <1>2, <1>3, <1>4, <1>5 DEF Next

LEMMA AlwaysIndInv == Spec => []IndInv
BY InitEstablishes, StepPreserves, PTL DEF Spec

-----------------------------------------------------------------------------
(* What follows from the invariant.                                        *)

(* Every variable keeps its type; a lease is never longer than its window  *)
(* although the time its request took is subtracted from it.               *)
THEOREM RuntimeTypeOK == Spec => []TypeOK
<1>1. IndInv => TypeOK  BY DEF IndInv
<1> QED  BY <1>1, AlwaysIndInv, PTL

(* The store is asked one thing at a time: the mutex keeps the others out, *)
(* and during the release, without it, the closed lifecycle does.          *)
THEOREM RuntimeOneStoreCall == Spec => []OneStoreCall
<1>1. IndInv => OneStoreCall
  <2> SUFFICES ASSUME IndInv, NEW t \in Threads, NEW u \in Threads,
                      {pc[t], pc[u]} \subseteq StorePositions
               PROVE  t = u
    BY DEF OneStoreCall
  <2>1. CASE pc[t] # "releasing" /\ pc[u] # "releasing"
    BY <2>1 DEF IndInv, LeaseInv, MutexHeld, HeldPositions
  <2>2. CASE pc[t] = "releasing" /\ pc[u] = "releasing"
    BY <2>2 DEF IndInv, LeaseInv, OneCloser
  <2>3. ASSUME NEW v \in Threads, NEW w \in Threads,
               pc[v] = "releasing", pc[w] \in StorePositions \ {"releasing"}
        PROVE  FALSE
    <3>1. lifecycle = "closed"  BY <2>3 DEF IndInv, LeaseInv, InPlace, Fits, CloseRecord
    <3>2. lifecycle \in {"new", "active"}
      BY <2>3 DEF IndInv, LeaseInv, InPlace, Fits, HeldPositions
    <3> QED  BY <3>1, <3>2
  <2> QED  BY <2>1, <2>2, <2>3
<1> QED  BY <1>1, AlwaysIndInv, PTL

(* All calls of Close return what the one release answered, and none       *)
(* returns before it is known.                                             *)
THEOREM RuntimeClosersAgree == Spec => []ClosersAgree
<1>1. IndInv => ClosersAgree  BY DEF IndInv, LeaseInv, CloseRecord, ClosersAgree
<1> QED  BY <1>1, AlwaysIndInv, PTL

(* The lease is released at most once, and by the time Close returns it    *)
(* has been if there ever was one.                                         *)
THEOREM RuntimeReleasedOnce == Spec => []ReleasedOnce
<1>1. IndInv => ReleasedOnce
  BY DEF IndInv, LeaseInv, CloseRecord, WasAcquired, ToldOf, ReleasedOnce
<1> QED  BY <1>1, AlwaysIndInv, PTL

(* Cancelling Next or the refresh loop never makes the manager fail.       *)
THEOREM RuntimeCancelHarmless == Spec => []CancelHarmless
<1>1. IndInv => CancelHarmless  BY DEF IndInv, LeaseInv
<1> QED  BY <1>1, AlwaysIndInv, PTL

(* When the loop is over the Runtime's context has ended.  When Stop       *)
(* returns the loop has ended, the manager is closed, and the store is not *)
(* being called.                                                           *)
THEOREM RuntimeEndLeavesNothing == Spec => []EndLeavesNothing
<1>1. IndInv => EndLeavesNothing
  <2> SUFFICES ASSUME IndInv, stopResults # {}
               PROVE  /\ loop = "done" /\ lifecycle = "closed" /\ closeDone = "closed"
                      /\ \A t \in Threads : pc[t] \notin StorePositions
    BY DEF EndLeavesNothing, IndInv, LoopInPlace
  <2>1. loop = "done" /\ closeDone = "closed"  BY DEF IndInv, StopInPlace
  <2>2. lifecycle = "closed"  BY <2>1 DEF IndInv, LeaseInv, CloseRecord
  <2>3. \A t \in Threads : pc[t] \notin StorePositions
    BY <2>1, <2>2 DEF IndInv, LeaseInv, InPlace, Fits, HeldPositions
  <2> QED  BY <2>1, <2>2, <2>3
<1> QED  BY <1>1, AlwaysIndInv, PTL

(* Every call of Stop returns the error of the loop, unless its context    *)
(* was all that ended it, and the answer of the release.                   *)
THEOREM RuntimeStopTellsFailure == Spec => []StopTellsFailure
<1>1. IndInv => StopTellsFailure  BY DEF IndInv, StopInPlace, LoopInPlace, StopTellsFailure
<1> QED  BY <1>1, AlwaysIndInv, PTL

-----------------------------------------------------------------------------
(* What makes waiting safe, besides IndInv: an open channel has a Close at *)
(* work on it, and an unfinished Stop the thread that came first.          *)
CloserAtWork ==
    closeDone = "open" => \E t \in Threads : pc[t] \in {"releasing", "relock"}

StopperAtWork ==
    /\ stopper # NoThread => loop # "off"
    /\ stopper # NoThread /\ ~stopDone =>
          stopper \in Users /\ stopping[stopper] \in {"cancel", "join", "close"}
    /\ \A t \in Users :
          /\ stopping[t] # "no" => stopper # NoThread
          /\ stopping[t] = "join" => rctx # "live"

WaitInv == CloserAtWork /\ StopperAtWork

LEMMA CloserKept ==
    ASSUME CloserAtWork, closeDone' = closeDone \/ closeDone' # "open",
           \A t \in Threads :
               pc[t] \in {"releasing", "relock"} => pc'[t] \in {"releasing", "relock"}
    PROVE  CloserAtWork'
BY DEF CloserAtWork

(* In the manager only Close moves a thread to or from the release.        *)
LEMMA ProceedKeepsCloser ==
    ASSUME LeaseInv, CloserAtWork, NEW t \in Threads, Proceed(t)
    PROVE  CloserAtWork'
<1>0. pc \in [Threads -> Positions]  BY DEF LeaseInv, LeaseTypeOK
<1>1. \A u \in Threads : u # t => pc'[u] = pc[u]  BY ProceedFrame
<1>2. CASE OrdinaryStep(t)
  <2>1. closeDone' = closeDone
    BY <1>2 DEF OrdinaryStep, RefuseStep, Refuse, FailStep, Fail, HoldStep, StateUnchanged,
                InstallStep, Acquired, Install
  <2>2. pc[t] \notin {"releasing", "relock"}
    BY <1>2 DEF OrdinaryStep, RefuseStep, FailStep, HoldStep, InstallStep, Acquired, Turn,
                HeldPositions, StorePositions
  <2> QED  BY <1>1, <2>1, <2>2, CloserKept
<1>3. CASE EnterClose(t)
  <2>1. pc'[t] \in {"releasing", "relock"}
    BY <1>0, <1>3 DEF EnterClose, StartRelease, Unlock, Go
  <2> QED  BY <2>1 DEF CloserAtWork
<1>4. CASE Released(t)
  <2>1. pc'[t] = "relock"  BY <1>0, <1>4 DEF Released, Go
  <2> QED  BY <2>1 DEF CloserAtWork
<1>5. CASE FinishClose(t)
  BY <1>5 DEF FinishClose, CloserAtWork
<1>6. CASE EnterCloseAgain(t) \/ SeeClosed(t) \/ ReadCloseError(t)
  <2>1. closeDone' = closeDone /\ pc[t] \notin {"releasing", "relock"}
    BY <1>6 DEF EnterCloseAgain, Enter, SeeClosed, ReadCloseError, StateUnchanged, managerVars
  <2> QED  BY <1>1, <2>1, CloserKept
<1> QED  BY <1>2, <1>3, <1>4, <1>5, <1>6, StepKinds DEF CloseStep

(* Nothing but Stop moves on what StopperAtWork is about.                  *)
LEMMA StopperKept ==
    ASSUME StopperAtWork, UNCHANGED stopVars, loop # "off" => loop' # "off",
           rctx # "live" => rctx' # "live"
    PROVE  StopperAtWork'
BY DEF StopperAtWork, stopVars

LEMMA LoopKeepsWaiting ==
    ASSUME IndInv, WaitInv, StartRuntime \/ LoopSteps \/ EndParent
    PROVE  WaitInv'
<1>0. pc \in [Threads -> Positions] /\ rctx \in ContextErrors \cup {"live"}
  BY DEF IndInv, TypeOK, LeaseTypeOK
<1>1. UNCHANGED <<closeDone, stopVars>>
  BY DEF StartRuntime, LoopSteps, EndParent, LoopRefreshes, LoopGoesOn, LoopFails, LoopCancelled,
         JudgeEnd, RecordError, CloseDone, Ask, Leave, leaseVars, managerVars
<1>2. loop' # "off"  \/ loop' = loop
  BY DEF StartRuntime, LoopSteps, EndParent, LoopRefreshes, LoopGoesOn, LoopFails, LoopCancelled,
         JudgeEnd, RecordError, CloseDone
<1>3. rctx' = rctx \/ rctx' # "live"
  BY <1>0 DEF StartRuntime, LoopSteps, EndParent, LoopRefreshes, LoopGoesOn, LoopFails,
              LoopCancelled, JudgeEnd, RecordError, CloseDone, Cancelled, ContextErrors
<1>4. \A t \in Threads :
          pc[t] \in {"releasing", "relock"} => pc'[t] \in {"releasing", "relock"}
  BY <1>0 DEF StartRuntime, LoopSteps, EndParent, LoopRefreshes, LoopGoesOn, LoopFails,
              LoopCancelled, JudgeEnd, RecordError, CloseDone, Ask, Leave, leaseVars, threadVars
<1>5. CloserAtWork'  BY <1>1, <1>4, CloserKept DEF WaitInv
<1>6. StopperAtWork'  BY <1>1, <1>2, <1>3, StopperKept DEF WaitInv
<1> QED  BY <1>5, <1>6 DEF WaitInv

LEMMA UserKeepsWaiting ==
    ASSUME IndInv, WaitInv, NEW t \in Users, Call(t) \/ CallStop(t) \/ StopSteps(t)
    PROVE  WaitInv'
<1>0. /\ pc \in [Threads -> Positions] /\ rctx \in ContextErrors \cup {"live"}
      /\ stopping \in [Users -> {"no", "cancel", "join", "close", "wait"}]
      /\ NoThread \notin Users
  BY ManagerAssumption DEF IndInv, TypeOK, LeaseTypeOK, Users
<1>1. UNCHANGED <<closeDone, loop>>
  BY DEF Call, CallStop, StopSteps, CancelLoop, CloseAfterLoop, FinishStop, ReturnStop, Ask, Leave,
         leaseVars, managerVars, loopVars
<1>2. \A u \in Threads :
          pc[u] \in {"releasing", "relock"} => pc'[u] \in {"releasing", "relock"}
  BY <1>0 DEF Call, CallStop, StopSteps, CancelLoop, CloseAfterLoop, FinishStop, ReturnStop, Ask,
              Leave, leaseVars, threadVars
<1>3. CloserAtWork'  BY <1>1, <1>2, CloserKept DEF WaitInv
<1>4. StopperAtWork'
  <2>1. CASE Call(t)
    BY <1>1, <2>1, StopperKept DEF Call, WaitInv, loopVars
  <2>2. CASE CallStop(t)
    BY <1>0, <1>1, <2>2 DEF CallStop, Advance, WaitInv, StopperAtWork, loopVars
  <2>3. CASE CancelLoop(t)
    <3>1. rctx' # "live"  BY <1>0, <2>3 DEF CancelLoop, Cancelled, ContextErrors
    <3> QED  BY <1>0, <1>1, <2>3, <3>1 DEF CancelLoop, Advance, WaitInv, StopperAtWork
  <2>4. CASE CloseAfterLoop(t)
    BY <1>0, <1>1, <2>4 DEF CloseAfterLoop, Advance, WaitInv, StopperAtWork, loopVars
  <2>5. CASE FinishStop(t)
    BY <1>0, <1>1, <2>5 DEF FinishStop, Advance, WaitInv, StopperAtWork, loopVars
  <2>6. CASE ReturnStop(t)
    BY <1>0, <1>1, <2>6
       DEF ReturnStop, Advance, WaitInv, StopperAtWork, loopVars, IndInv, StopInPlace
  <2> QED  BY <2>1, <2>2, <2>3, <2>4, <2>5, <2>6 DEF StopSteps
<1> QED  BY <1>3, <1>4 DEF WaitInv

LEMMA StepKeepsWaiting ==
    ASSUME IndInv, WaitInv, [Next]_vars
    PROVE  WaitInv'
<1>1. CASE UNCHANGED vars
  BY <1>1 DEF vars, leaseVars, managerVars, threadVars, loopVars, stopVars, WaitInv, CloserAtWork,
              StopperAtWork
<1>2. CASE Tick
  BY <1>2 DEF Tick, RunTimers, stopVars, WaitInv, CloserAtWork, StopperAtWork
<1>3. CASE StartRuntime \/ LoopSteps \/ EndParent
  BY <1>3, LoopKeepsWaiting
<1>4. ASSUME NEW t \in Users, Call(t) \/ CallStop(t) \/ StopSteps(t)  PROVE WaitInv'
  BY <1>4, UserKeepsWaiting
<1>5. ASSUME NEW t \in Threads, Manager(Proceed(t)) \/ Manager(EndContext(t))  PROVE WaitInv'
  <2>1. StopperAtWork'
    BY <1>5, StopperKept DEF Manager, WaitInv, loopVars
  <2>2. CASE Proceed(t)
    BY <2>1, <2>2, ProceedKeepsCloser DEF IndInv, WaitInv
  <2>3. CASE EndContext(t)
    BY <2>1, <2>3 DEF EndContext, managerVars, WaitInv, CloserAtWork
  <2> QED  BY <1>5, <2>2, <2>3 DEF Manager
<1> QED  BY <1>1, <1>2, <1>3, <1>4, <1>5 DEF Next

(* The holder of the mutex, inside the manager, waits for nobody.          *)
LEMMA HolderIsFree ==
    ASSUME IndInv, NEW t \in Threads, NEW u \in Threads, NEW v \in Threads, mu = u
    PROVE  ~WaitsFor(u, v)
<1>1. pc[u] \in HeldPositions  BY DEF IndInv, LeaseInv, MutexHeld
<1>2. pc[u] \notin {"out", "lock", "await", "reread", "relock"}
  BY <1>1 DEF HeldPositions, StorePositions
<1>3. u \in Users => stopping[u] \notin {"join", "wait"}
  BY <1>2 DEF IndInv, StopInPlace
<1> QED  BY <1>2, <1>3 DEF WaitsFor

(* Whoever is blocked waits for a thread that is busy.                     *)
LEMMA BlockedWaitsForBusy ==
    ASSUME IndInv, WaitInv, NEW t \in Threads, Blocked(t)
    PROVE  \E u \in Threads : WaitsFor(t, u) /\ Busy(u)
<1>0. /\ mu \in Threads \cup {NoThread} /\ Users \subseteq Threads /\ Loop \in Threads
      /\ loop \in {"off", "select", "refresh", "ended", "recording", "recorded", "done"}
  BY RuntimeAssumption DEF IndInv, TypeOK, LeaseTypeOK, Users
<1>1. CASE pc[t] \in {"lock", "relock", "reread"} /\ mu # NoThread
  <2>1. mu \in Threads /\ pc[mu] \in HeldPositions
    BY <1>0, <1>1 DEF IndInv, LeaseInv, MutexHeld
  <2>2. pc[mu] # "out"  BY <2>1 DEF HeldPositions, StorePositions
  <2> QED  BY <1>1, <2>1, <2>2 DEF WaitsFor, Busy
<1>2. CASE pc[t] = "await" /\ closeDone # "closed"
  <2>1. closeDone = "open"
    BY <1>2 DEF IndInv, TypeOK, LeaseTypeOK, LeaseInv, InPlace, Fits
  <2>2. PICK u \in Threads : pc[u] \in {"releasing", "relock"}
    BY <2>1 DEF WaitInv, CloserAtWork
  <2> QED  BY <1>2, <2>2 DEF WaitsFor, Busy
<1>3. CASE t \in Users /\ stopping[t] = "join" /\ loop # "done"
  <2>1. stopper # NoThread /\ rctx # "live" /\ loop # "off"
    BY <1>3 DEF WaitInv, StopperAtWork
  <2>2. Busy(Loop)
    BY <1>0, <1>3, <2>1 DEF Busy, IndInv, LoopInPlace
  <2> QED  BY <1>0, <1>3, <2>2 DEF WaitsFor
<1>4. CASE t \in Users /\ stopping[t] = "wait" /\ ~stopDone
  <2>1. stopper \in Users /\ stopping[stopper] \in {"cancel", "join", "close"}
    BY <1>4 DEF WaitInv, StopperAtWork
  <2>2. Busy(stopper)
    BY <2>1 DEF Busy, IndInv, StopInPlace
  <2> QED  BY <1>0, <1>4, <2>1, <2>2 DEF WaitsFor
<1> QED  BY <1>1, <1>2, <1>3, <1>4 DEF Blocked

(* Stop waits for the loop or for the first Stop, which waits for the loop *)
(* or in Close; the loop waits at the mutex at most, Close there or for    *)
(* the Close at work, which waits at the mutex at most.                    *)
LEMMA NoCircle ==
    ASSUME IndInv, WaitInv, NEW circle \in SUBSET Threads,
           \A t \in circle : \E u \in circle : WaitsFor(t, u)
    PROVE  circle = {}
<1>0. /\ Loop \in Threads /\ Loop \notin Users /\ Users \subseteq Threads
  BY RuntimeAssumption DEF Users
<1>1. \A t \in circle : pc[t] \notin {"lock", "relock", "reread"}
  <2> SUFFICES ASSUME NEW t \in circle, pc[t] \in {"lock", "relock", "reread"} PROVE FALSE
    OBVIOUS
  <2>1. PICK u \in circle : WaitsFor(t, u)  OBVIOUS
  <2>2. t \in Users => stopping[t] \notin {"join", "wait"}
    BY DEF IndInv, StopInPlace
  <2>3. mu = u  BY <2>1, <2>2 DEF WaitsFor
  <2> QED  BY <2>3, HolderIsFree
<1>2. \A t \in circle : pc[t] # "await"
  <2> SUFFICES ASSUME NEW t \in circle, pc[t] = "await" PROVE FALSE
    OBVIOUS
  <2>1. PICK u \in circle : WaitsFor(t, u)  OBVIOUS
  <2>2. t \in Users => stopping[t] \notin {"join", "wait"}
    BY DEF IndInv, StopInPlace
  <2>3. pc[u] = "releasing"  BY <1>1, <2>1, <2>2 DEF WaitsFor
  <2>4. u \in Users => stopping[u] \notin {"join", "wait"}
    BY <2>3 DEF IndInv, StopInPlace
  <2> QED  BY <2>3, <2>4 DEF WaitsFor
<1>3. Loop \notin circle
  BY <1>0, <1>1, <1>2 DEF WaitsFor
<1>4. \A t \in circle : t \in Users /\ stopping[t] = "wait" /\ ~stopDone /\ stopper \in circle
  BY <1>1, <1>2, <1>3 DEF WaitsFor
<1>5. circle # {} => stopper \in circle /\ stopping[stopper] \in {"cancel", "join", "close"}
  BY <1>4 DEF WaitInv, StopperAtWork
<1> QED  BY <1>4, <1>5

(* No call of the manager or of Stop hangs for want of somebody to wake it:*)
(* the chain of waiting threads, for any number of them, ends at one that  *)
(* only the store, a timer or nothing holds up (Close, Stop).              *)
THEOREM RuntimeNobodyWaitsInVain == Spec => []NobodyWaitsInVain
<1>1. Init => WaitInv
  BY DEF Init, LeaseInit, WaitInv, CloserAtWork, StopperAtWork
<1>2. IndInv /\ WaitInv /\ [Next]_vars => WaitInv'
  BY StepKeepsWaiting
<1>3. IndInv /\ WaitInv => NobodyWaitsInVain
  BY BlockedWaitsForBusy, NoCircle DEF NobodyWaitsInVain
<1> QED  BY <1>1, <1>2, <1>3, AlwaysIndInv, PTL DEF Spec

-----------------------------------------------------------------------------
(* The refinement: one thread's step is a step of the lifecycle or none.   *)
LEMMA ProceedMaps ==
    ASSUME LeaseInv, NEW t \in Threads, Proceed(t)
    PROVE  Latch!Next \/ UNCHANGED Latch!lifecycleVars
<1> USE DEF Latch!lifecycleVars
<1>1. CASE RefuseStep(t)
  BY <1>1 DEF RefuseStep, Refuse, StateUnchanged, historyVars
<1>2. CASE FailStep(t)
  <2>1. Latch!Fail  BY <1>2 DEF FailStep, Fail, Latch!Fail
  <2> QED  BY <2>1 DEF Latch!Next
<1>3. CASE HoldStep(t)
  BY <1>3 DEF HoldStep, GoOn, StateUnchanged, historyVars
<1>4. CASE InstallStep(t)
  BY <1>4 DEF InstallStep, Install, GoOn, historyVars
<1>5. CASE Acquired(t)
  <2>1. lifecycle = "new"  BY <1>5 DEF Acquired, LeaseInv, InPlace, Fits
  <2>2. Latch!Activate  BY <1>5, <2>1 DEF Acquired, Install, Latch!Activate
  <2> QED  BY <2>2 DEF Latch!Next
<1>6. CASE EnterClose(t)
  <2>1. Latch!Shut  BY <1>6 DEF EnterClose, Latch!Shut
  <2> QED  BY <2>1 DEF Latch!Next
<1>7. CASE FinishClose(t)
  <2>1. lifecycle = "closed" /\ ~ToldOf(story, "closed") /\ story \in Seq(Kinds)
    BY <1>7 DEF FinishClose, LeaseInv, LeaseTypeOK, InPlace, Fits, CloseRecord, LifeRecord, Kinds
  <2>2. ~Latch!ToldOfClose
    <3>1. story # <<>> => Len(story) \in 1..Len(story)  BY <2>1
    <3> QED  BY <2>1, <3>1 DEF ToldOf, Latch!ToldOfClose
  <2>3. Latch!Tell  BY <1>7, <2>1, <2>2 DEF FinishClose, Latch!Tell
  <2> QED  BY <2>3 DEF Latch!Next
<1>8. CASE EnterCloseAgain(t) \/ Released(t) \/ SeeClosed(t) \/ ReadCloseError(t)
  BY <1>8 DEF EnterCloseAgain, Released, SeeClosed, ReadCloseError, StateUnchanged, managerVars,
              historyVars
<1> QED
  BY <1>1, <1>2, <1>3, <1>4, <1>5, <1>6, <1>7, <1>8, StepKinds DEF OrdinaryStep, CloseStep

(* The manager's lifecycle, with its terminal error and what its observer  *)
(* is told, is the latch LeaseLifecycle specifies, whatever the Runtime    *)
(* and the callers do with it.                                             *)
THEOREM RuntimeImplementsLifecycle == Spec => ImplementsLifecycle
<1>1. Init => Latch!Init  BY DEF Init, LeaseInit, Latch!Init
<1>2. IndInv /\ [Next]_vars => [Latch!Next]_(Latch!lifecycleVars)
  <2> SUFFICES ASSUME IndInv, [Next]_vars  PROVE Latch!Next \/ UNCHANGED Latch!lifecycleVars
    OBVIOUS
  <2>1. CASE UNCHANGED vars
    BY <2>1 DEF vars, leaseVars, managerVars, historyVars, Latch!lifecycleVars
  <2>2. CASE Tick
    BY <2>2 DEF Tick, RunTimers, historyVars, Latch!lifecycleVars
  <2>3. CASE StartRuntime \/ LoopSteps \/ EndParent
    BY <2>3 DEF StartRuntime, LoopSteps, EndParent, LoopRefreshes, LoopGoesOn, LoopFails,
                LoopCancelled, JudgeEnd, RecordError, CloseDone, Ask, Leave,
                leaseVars, managerVars, historyVars, Latch!lifecycleVars
  <2>4. ASSUME NEW t \in Users, Call(t) \/ CallStop(t) \/ StopSteps(t)
        PROVE  UNCHANGED Latch!lifecycleVars
    BY <2>4 DEF Call, CallStop, StopSteps, CancelLoop, CloseAfterLoop, FinishStop, ReturnStop,
                Ask, Leave, leaseVars, managerVars, historyVars, Latch!lifecycleVars
  <2>5. ASSUME NEW t \in Threads, Manager(Proceed(t)) \/ Manager(EndContext(t))
        PROVE  Latch!Next \/ UNCHANGED Latch!lifecycleVars
    <3>1. CASE Proceed(t)  BY <3>1, ProceedMaps DEF IndInv
    <3>2. CASE EndContext(t)
      BY <3>2 DEF EndContext, managerVars, historyVars, Latch!lifecycleVars
    <3> QED  BY <2>5, <3>1, <3>2 DEF Manager
  <2> QED  BY <2>1, <2>2, <2>3, <2>4, <2>5 DEF Next
<1> QED
  BY <1>1, <1>2, AlwaysIndInv, PTL DEF Spec, ImplementsLifecycle, Latch!Spec

-----------------------------------------------------------------------------
(* What LeaseLifecycle promises follows from its own four actions: nothing *)
(* in this part looks at LeaseManager.                                     *)
Phases == {"new", "active", "failed", "closed"}

LatchInv ==
    /\ lifecycle \in Phases
    /\ story \in Seq(Kinds)
    /\ Latch!ToldOnce

LEMMA RankIsNat ==
    /\ Latch!Rank("new") = 0 /\ Latch!Rank("active") = 1 /\ Latch!Rank("acquired") = 1
    /\ Latch!Rank("failed") = 2 /\ Latch!Rank("closed") = 3
    /\ \A k \in Kinds : Latch!Rank(k) \in 1..3
    /\ \A p \in Phases : Latch!Rank(p) \in 0..3
PROOF BY DEF Latch!Rank, Kinds, Phases

(* Telling of one more step, of a rank above all that was told so far.     *)
LEMMA TellKeeps ==
    ASSUME LatchInv, NEW k \in Kinds, NEW phase \in Phases,
           \A i \in 1..Len(story) : Latch!Rank(story[i]) < Latch!Rank(k),
           Latch!Rank(k) <= Latch!Rank(phase),
           story' = Append(story, k), lifecycle' = phase
    PROVE  LatchInv'
<1> DEFINE n == Len(story)
<1>1. /\ story \in Seq(Kinds) /\ n \in Nat /\ story' \in Seq(Kinds)
      /\ Len(story') = n + 1 /\ story'[n + 1] = k
      /\ \A i \in 1..n : story'[i] = story[i]
  BY DEF LatchInv
<1>2. ASSUME NEW i \in 1..Len(story'), NEW j \in 1..Len(story'), i < j
      PROVE  Latch!Rank(story'[i]) < Latch!Rank(story'[j])
  <2>1. i \in 1..n
    BY <1>1, <1>2
  <2>2. CASE j \in 1..n
    BY <1>1, <1>2, <2>1, <2>2 DEF LatchInv, Latch!ToldOnce
  <2>3. CASE j = n + 1
    BY <1>1, <2>1, <2>3
  <2> QED
    BY <1>1, <2>2, <2>3
<1>3. ASSUME NEW i \in 1..Len(story') PROVE Latch!Rank(story'[i]) <= Latch!Rank(phase)
  <2>1. CASE i \in 1..n
    <3>1. story[i] \in Kinds /\ story'[i] = story[i]
      BY <1>1, <2>1
    <3>2. Latch!Rank(story[i]) < Latch!Rank(k)
      BY <2>1
    <3> QED
      BY <3>1, <3>2, RankIsNat
  <2>2. CASE i = n + 1
    BY <1>1, <2>2
  <2> QED
    BY <1>1, <2>1, <2>2
<1>4. Latch!ToldOnce'
  BY <1>2, <1>3 DEF Latch!ToldOnce
<1> QED
  BY <1>1, <1>4 DEF LatchInv

LEMMA LatchStep ==
    ASSUME LatchInv, Latch!Next
    PROVE  LatchInv'
<1>1. /\ story \in Seq(Kinds) /\ \A i \in 1..Len(story) : story[i] \in Kinds
      /\ \A i \in 1..Len(story) : Latch!Rank(story[i]) <= Latch!Rank(lifecycle)
      /\ "acquired" \in Kinds /\ "failed" \in Kinds /\ "closed" \in Kinds
      /\ "active" \in Phases /\ "failed" \in Phases /\ "closed" \in Phases
  BY DEF LatchInv, Latch!ToldOnce, Kinds, Phases
<1>2. CASE Latch!Activate
  <2>1. \A i \in 1..Len(story) : Latch!Rank(story[i]) < Latch!Rank("acquired")
    BY <1>1, <1>2, RankIsNat DEF Latch!Activate
  <2> QED
    BY <1>1, <1>2, <2>1, RankIsNat, TellKeeps DEF Latch!Activate
<1>3. CASE Latch!Fail
  <2>1. \A i \in 1..Len(story) : Latch!Rank(story[i]) < Latch!Rank("failed")
    BY <1>1, <1>3, RankIsNat DEF Latch!Fail
  <2> QED
    BY <1>1, <1>3, <2>1, RankIsNat, TellKeeps DEF Latch!Fail
<1>4. CASE Latch!Shut
  <2>1. lifecycle' = "closed" /\ story' = story
    BY <1>4 DEF Latch!Shut
  <2>2. \A i \in 1..Len(story) : Latch!Rank(story[i]) <= Latch!Rank("closed")
    BY <1>1, RankIsNat
  <2>3. Latch!ToldOnce'
    BY <2>1, <2>2 DEF LatchInv, Latch!ToldOnce
  <2> QED
    BY <1>1, <2>1, <2>3 DEF LatchInv
<1>5. CASE Latch!Tell
  <2>1. /\ lifecycle = "closed" /\ lifecycle' = "closed" /\ story' = Append(story, "closed")
        /\ ~(story # <<>> /\ story[Len(story)] = "closed")
    BY <1>5 DEF Latch!Tell, Latch!ToldOfClose
  <2>2. ASSUME NEW i \in 1..Len(story)
        PROVE  Latch!Rank(story[i]) < Latch!Rank("closed")
    <3> DEFINE n == Len(story)
    <3>1. n \in 1..n /\ story # <<>> /\ story[n] \in Kinds \ {"closed"}
      BY <1>1, <2>1
    <3>2. Latch!Rank(story[n]) < 3
      BY <3>1 DEF Latch!Rank, Kinds
    <3>3. i < n => Latch!Rank(story[i]) < Latch!Rank(story[n])
      BY <3>1 DEF LatchInv, Latch!ToldOnce
    <3>4. i = n \/ i < n
      BY <1>1
    <3>5. Latch!Rank(story[i]) \in 1..3 /\ Latch!Rank(story[n]) \in 1..3
      BY <1>1, <3>1, RankIsNat
    <3> QED
      BY <3>2, <3>3, <3>4, <3>5, RankIsNat
  <2> QED
    BY <1>1, <2>1, <2>2, RankIsNat, TellKeeps
<1> QED
  BY <1>2, <1>3, <1>4, <1>5 DEF Latch!Next

(* The latch keeps its promise: whatever moves through the phases by its   *)
(* four actions tells an observer of each step at most once, in order, and *)
(* of nothing that it takes back (observeLocked, failLocked, Close).       *)
THEOREM LifecycleKeepsItsPromise == Latch!Spec => []Latch!ToldOnce
<1>1. Latch!Init => LatchInv
  BY DEF Latch!Init, LatchInv, Latch!ToldOnce, Phases
<1>2. LatchInv /\ [Latch!Next]_(Latch!lifecycleVars) => LatchInv'
  <2> SUFFICES ASSUME LatchInv, [Latch!Next]_(Latch!lifecycleVars) PROVE LatchInv'
    OBVIOUS
  <2>1. CASE UNCHANGED Latch!lifecycleVars
    BY <2>1 DEF Latch!lifecycleVars, LatchInv, Latch!ToldOnce
  <2>2. CASE Latch!Next
    BY <2>2, LatchStep
  <2> QED
    BY <2>1, <2>2
<1>3. LatchInv => Latch!ToldOnce
  BY DEF LatchInv
<1> QED
  BY <1>1, <1>2, <1>3, PTL DEF Latch!Spec

(* So an observer of the manager under the Runtime, which is told from     *)
(* several goroutines and once outside the first critical section of       *)
(* Close, never hears of a step twice or too late (observeLocked).         *)
THEOREM RuntimeTellsOnce == Spec => []Latch!ToldOnce
<1> QED
  BY RuntimeImplementsLifecycle, LifecycleKeepsItsPromise, PTL DEF ImplementsLifecycle
=============================================================================
