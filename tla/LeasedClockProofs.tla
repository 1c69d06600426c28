------------------------- MODULE LeasedClockProofs -------------------------
(***************************************************************************)
(* Theorems about LeasedGenerator that do depend on clocks: while nobody   *)
(* sets the database clock at most one process takes the lease for its     *)
(* own, and while nobody sets the wall clocks one refresh makes room.      *)
(***************************************************************************)
EXTENDS LeasedGeneratorProofs

(* The bounds on how often a clock is set, at zero.                        *)
WallClocksKept == MaxAdjust = 0
DbClockKept == MaxDbAdjust = 0

-----------------------------------------------------------------------------
(* What keeps a second refusal by the fence away: no generator is further  *)
(* ahead of its wall clock than its over-cost budget allows, counting what *)
(* is left of it.                                                          *)
WithinBudget(p) ==
    gen[p].lastMillis + gen[p].overCostRemaining <= wall[p] + OverCostLimit

AllWithinBudget == \A p \in Procs : WithinBudget(p)

(* AdvanceGrows on a clock that may be before the epoch.                   *)
LEMMA AdvanceWithinBudget ==
    ASSUME NEW g \in GeneratorState, NEW now \in Nat, ~Exhausted(g, now),
           g.lastMillis + g.overCostRemaining <= now + OverCostLimit
    PROVE  /\ SkipZero(Advance(g, now)) \in GeneratorState
           /\ SkipZero(Advance(g, now)).lastMillis
                  + SkipZero(Advance(g, now)).overCostRemaining <= now + OverCostLimit
<1> DEFINE k == Advance(g, now)
<1>1. k \in GeneratorState /\ k.lastMillis + k.overCostRemaining <= now + OverCostLimit
  <2>1. CASE now > g.lastMillis
    <3>1. k = OnClock(now, 0) /\ 0 \in 0..MaxSequence
      BY <2>1, GeneratorAssumption DEF Advance, Restart, GeneratorAssumption
    <3> HIDE DEF k
    <3>2. /\ OnClock(now, 0) \in GeneratorState
          /\ OnClock(now, 0).lastMillis = now
          /\ OnClock(now, 0).overCostRemaining = OverCostLimit
      BY <3>1, OnClockFields
    <3>3. k.lastMillis = now /\ k.overCostRemaining = OverCostLimit
      BY <3>1, <3>2
    <3> QED
      BY <3>1, <3>2, <3>3, GeneratorAssumption DEF GeneratorAssumption
  <2>2. CASE now <= g.lastMillis /\ g.sequence < MaxSequence
    <3>1. k = [g EXCEPT !.sequence = @ + 1]
      BY <2>2, Fields DEF Advance
    <3>2. k \in GeneratorState
      BY <2>2, <3>1, GeneratorAssumption DEF GeneratorAssumption, GeneratorState
    <3>3. k.lastMillis = g.lastMillis /\ k.overCostRemaining = g.overCostRemaining
      BY <3>1 DEF GeneratorState
    <3> HIDE DEF k
    <3> QED
      BY <3>2, <3>3
  <2>3. CASE now <= g.lastMillis /\ g.sequence >= MaxSequence
    <3>1. g.overCostRemaining # 0
      BY <2>3 DEF Exhausted
    <3>2. k = [ lastMillis        |-> g.lastMillis + 1,
                sequence          |-> 0,
                overCostActive    |-> TRUE,
                overCostRemaining |-> g.overCostRemaining - 1 ]
      BY <2>3, Fields, GeneratorAssumption DEF Advance, GeneratorAssumption
    <3> QED
      BY <2>3, <3>1, <3>2, Fields, GeneratorAssumption DEF GeneratorState, GeneratorAssumption
  <2> QED
    BY <2>1, <2>2, <2>3, Fields, GeneratorAssumption DEF GeneratorAssumption
<1> HIDE DEF k
<1>2. /\ SkipZero(k) \in GeneratorState
      /\ SkipZero(k).lastMillis + SkipZero(k).overCostRemaining <= now + OverCostLimit
  BY <1>1, SkipZeroFields
<1> QED
  BY <1>2 DEF k

(* The next state of p's generator is within the budget, whichever way     *)
(* NextWithin comes to it.                                                 *)
LEMMA IssueWithinBudget ==
    ASSUME IndInv, AllWithinBudget, NEW p \in Procs, NEW g,
           UNCHANGED wall,
           SkipZero(g) \in GeneratorState,
           SkipZero(g).lastMillis + SkipZero(g).overCostRemaining <= wall[p] + OverCostLimit,
           Issue(p, SkipZero(g))
    PROVE  AllWithinBudget'
<1>1. gen \in [Procs -> GeneratorState] /\ gen' = [gen EXCEPT ![p] = SkipZero(g)]
  BY DEF IndInv, TypeOK, Issue
<1> QED
  BY <1>1 DEF AllWithinBudget, WithinBudget

(* A generator is left as it is, or reset with its process.                *)
GeneratorKept(p) == gen' = gen \/ gen' = [gen EXCEPT ![p] = NewGenerator]

LEMMA KeptWithinBudget ==
    ASSUME IndInv, AllWithinBudget, NEW p \in Procs, UNCHANGED wall, GeneratorKept(p)
    PROVE  AllWithinBudget'
<1>1. NewGenerator \in GeneratorState /\ NewGenerator.lastMillis = 0
  BY NewGeneratorFields
<1>2. NewGenerator.overCostRemaining <= OverCostLimit /\ NewGenerator.overCostRemaining \in Nat
  BY <1>1, Fields
<1>3. gen \in [Procs -> GeneratorState] /\ wall \in [Procs -> Nat] /\ OverCostLimit \in Nat
  BY GeneratorAssumption DEF IndInv, TypeOK, GeneratorAssumption
<1> QED
  BY <1>1, <1>2, <1>3 DEF GeneratorKept, AllWithinBudget, WithinBudget

LEMMA SettleWithinBudget ==
    ASSUME IndInv, AllWithinBudget, NEW p \in Procs, NEW g, Outside(p),
           SkipZero(g) \in GeneratorState,
           SkipZero(g).lastMillis + SkipZero(g).overCostRemaining <= wall[p] + OverCostLimit,
           Settle(p, g)
    PROVE  AllWithinBudget'
<1>1. UNCHANGED wall
  BY DEF Outside, clocks
<1>2. CASE Issue(p, SkipZero(g))
  BY <1>1, <1>2, IssueWithinBudget
<1>3. CASE RefuseStamp(p, SkipZero(g))
  <2>1. GeneratorKept(p)
    BY <1>3 DEF RefuseStamp, EnterRefresh, FailLocked, End, GeneratorKept
  <2> QED
    BY <1>1, <2>1, KeptWithinBudget
<1> QED
  BY <1>2, <1>3 DEF Settle

LEMMA GenerateWithinBudget ==
    ASSUME IndInv, AllWithinBudget, NEW p \in Procs,
           IssueAtOnce(p) \/ IssueAfterRollback(p) \/ IssueAfterOverflow(p)
    PROVE  AllWithinBudget'
<1>1. /\ gen[p] \in GeneratorState /\ wall[p] \in Nat /\ OverCostLimit \in Nat
      /\ gen[p].lastMillis + gen[p].overCostRemaining <= wall[p] + OverCostLimit
  BY GeneratorAssumption DEF IndInv, TypeOK, GeneratorAssumption, AllWithinBudget, WithinBudget
<1>2. CASE IssueAtOnce(p)
  <2> DEFINE g == CatchUp(gen[p], wall[p])
  <2>1. ~Exhausted(g, wall[p]) /\ Settle(p, Advance(g, wall[p])) /\ Outside(p)
    BY <1>2 DEF IssueAtOnce
  <2>2. g \in GeneratorState /\ g.lastMillis + g.overCostRemaining <= wall[p] + OverCostLimit
    <3>1. wall[p] <= wall[p]
      BY <1>1
    <3> QED
      BY <1>1, <3>1, CatchUpKeepsStamp
  <2> HIDE DEF g
  <2> QED
    BY <1>1, <2>1, <2>2, AdvanceWithinBudget, SettleWithinBudget
<1>3. CASE IssueAfterRollback(p)
  BY <1>1, <1>3, AdvanceWithinBudget, SettleWithinBudget DEF IssueAfterRollback
<1>4. CASE IssueAfterOverflow(p)
  <2>1. wall[p] > gen[p].lastMillis /\ Settle(p, Restart(wall[p])) /\ Outside(p)
    BY <1>4 DEF IssueAfterOverflow
  <2>2. Restart(wall[p]) = Advance(gen[p], wall[p]) /\ ~Exhausted(gen[p], wall[p])
    BY <1>1, <2>1, Fields DEF Advance, Exhausted
  <2> QED
    BY <1>1, <2>1, <2>2, AdvanceWithinBudget, SettleWithinBudget
<1> QED
  BY <1>2, <1>3, <1>4

LEMMA StepWithinBudget ==
    ASSUME WallClocksKept, IndInv, AllWithinBudget, [Next]_vars
    PROVE  AllWithinBudget'
<1>1. CASE UNCHANGED <<gen, wall>>
  BY <1>1 DEF AllWithinBudget, WithinBudget
<1>2. CASE Tick
  <2>1. /\ gen' = gen /\ wall' = [p \in Procs |-> wall[p] + 1]
        /\ gen \in [Procs -> GeneratorState] /\ wall \in [Procs -> Nat] /\ OverCostLimit \in Nat
    BY <1>2, GeneratorAssumption DEF Tick, memory, IndInv, TypeOK, GeneratorAssumption
  <2>2. ASSUME NEW p \in Procs PROVE WithinBudget(p)'
    <3>1. gen[p].lastMillis \in Nat /\ gen[p].overCostRemaining \in Nat /\ wall[p] \in Nat
      BY <2>1, Fields
    <3> QED
      BY <2>1, <3>1 DEF AllWithinBudget, WithinBudget
  <2> QED
    BY <2>2 DEF AllWithinBudget
<1>3. CASE SetDbClock
  BY <1>1, <1>3 DEF SetDbClock, memory
<1>4. ASSUME NEW p \in Procs,
             \/ Acquire(p) \/ Refresh(p) \/ CallNext(p) \/ Ready(p) \/ Close(p)
             \/ Answer(p) \/ RequestFails(p)
             \/ Generate(p) \/ Resume(p)
             \/ AbandonNext(p) \/ CancelSleep(p) \/ CancelBackoff(p)
             \/ Begin(p) \/ Execute(p)
             \/ Crash(p) \/ SetWallClock(p)
      PROVE  AllWithinBudget'
  <2>1. CASE IssueAtOnce(p) \/ IssueAfterRollback(p) \/ IssueAfterOverflow(p)
    BY <2>1, GenerateWithinBudget
  <2>2. CASE SetWallClock(p)
    <3>1. adjusts.wall \in Nat /\ adjusts.wall < 0
      BY <2>2 DEF SetWallClock, WallClocksKept, IndInv, TypeOK
    <3> QED
      BY <3>1
  <2>3. CASE \/ Acquire(p) \/ Refresh(p) \/ CallNext(p) \/ Ready(p) \/ Close(p)
             \/ RequestFails(p) \/ AbandonNext(p) \/ CancelSleep(p) \/ CancelBackoff(p)
             \/ Crash(p)
    <3>1. UNCHANGED wall /\ GeneratorKept(p)
      BY <2>3 DEF Acquire, Refresh, CallNext, Ready, Close, RequestFails, AbandonNext,
                  CancelSleep, CancelBackoff, Crash, EnterRefresh, FailLocked, End,
                  Outside, clocks, GeneratorKept
    <3> QED
      BY <3>1, KeptWithinBudget
  <2>4. CASE Answer(p)
    <3>1. UNCHANGED wall /\ GeneratorKept(p)
      BY <2>4 DEF Answer, Answered, AcquireGranted, AcquireRefused, RefreshGranted,
                  RefreshRefused, SkewReported, FailLocked, End, Outside, clocks, GeneratorKept
    <3> QED
      BY <3>1, KeptWithinBudget
  <2>5. CASE \/ RejectClock(p) \/ WaitForRollback(p) \/ WaitForNextMillis(p)
             \/ StillBehind(p) \/ WaitAgain(p) \/ RetryAcquire(p)
    <3>1. UNCHANGED wall /\ GeneratorKept(p)
      BY <2>5 DEF RejectClock, WaitForRollback, WaitForNextMillis, StillBehind, WaitAgain,
                  RetryAcquire, SleepUntil, FailLocked, End, Outside, clocks, GeneratorKept
    <3> QED
      BY <3>1, KeptWithinBudget
  <2>6. CASE Begin(p) \/ Execute(p)
    <3>1. UNCHANGED wall /\ GeneratorKept(p)
      BY <2>6 DEF Begin, Execute, ExecuteAcquire, ExecuteRefresh, ExecuteNothing,
                  memory, Outside, clocks, GeneratorKept
    <3> QED
      BY <3>1, KeptWithinBudget
  <2> QED
    BY <1>4, <2>1, <2>2, <2>3, <2>4, <2>5, <2>6 DEF Generate, Resume
<1> QED
  BY <1>1, <1>2, <1>3, <1>4 DEF Next, vars, memory, clocks

LEMMA InitWithinBudget == Init => AllWithinBudget
<1> SUFFICES ASSUME Init, NEW p \in Procs PROVE WithinBudget(p)
  BY DEF AllWithinBudget
<1>1. gen[p] = NewGenerator /\ wall[p] = InitialWall /\ InitialWall \in Nat
  BY LeasedAssumption DEF Init, InitProcesses, LeasedAssumption
<1>2. /\ NewGenerator.lastMillis = 0
      /\ NewGenerator.overCostRemaining \in Nat
      /\ NewGenerator.overCostRemaining <= OverCostLimit
  BY NewGeneratorFields, Fields
<1> QED
  BY <1>1, <1>2, GeneratorAssumption DEF WithinBudget, GeneratorAssumption

LEMMA BudgetMakesRoom ==
    ASSUME OverCostLimit < FenceWindow, IndInv, AllWithinBudget
    PROVE  RefreshMakesRoom
<1> DEFINE g(p) == CatchUp(gen[p], wall[p])
<1> SUFFICES ASSUME NEW p \in Procs,
                    lease[p].fence >= wall[p] + FenceWindow,
                    ~Exhausted(g(p), wall[p])
             PROVE  ~FenceReached(SkipZero(Advance(g(p), wall[p])), LeaseOf(p))
  BY DEF RefreshMakesRoom
<1>1. /\ gen[p] \in GeneratorState /\ wall[p] \in Nat /\ OverCostLimit \in Nat
      /\ FenceWindow \in Nat /\ lease[p].fence \in Nat
      /\ gen[p].lastMillis + gen[p].overCostRemaining <= wall[p] + OverCostLimit
  BY GeneratorAssumption, LeasedAssumption
  DEF IndInv, TypeOK, GeneratorAssumption, LeasedAssumption, AllWithinBudget, WithinBudget
<1>2. g(p) \in GeneratorState /\ g(p).lastMillis + g(p).overCostRemaining <= wall[p] + OverCostLimit
  <2>1. wall[p] <= wall[p]
    BY <1>1
  <2> QED
    BY <1>1, <2>1, CatchUpKeepsStamp
<1> HIDE DEF g
<1> DEFINE k == SkipZero(Advance(g(p), wall[p]))
<1>3. k \in GeneratorState /\ k.lastMillis + k.overCostRemaining <= wall[p] + OverCostLimit
  BY <1>1, <1>2, AdvanceWithinBudget
<1> HIDE DEF k
<1>4. k.lastMillis < lease[p].fence
  BY <1>1, <1>3, Fields
<1>5. ~FenceReached(k, LeaseOf(p))
  BY <1>1, <1>3, <1>4, Fields DEF FenceReached, LeaseOf
<1> QED
  BY <1>5 DEF k

(* While no wall clock is set, a refresh that moves the fence a whole      *)
(* window past the clock lets Next issue: its second NextWithin is not     *)
(* refused by the fence, which would end the generator, for every over-cost*)
(* budget below the fence window (LeasedGenerator.Next).                   *)
THEOREM LeasedRefreshMakesRoom ==
    ASSUME UniqueOwners, WallClocksKept, OverCostLimit < FenceWindow
    PROVE  Spec => []RefreshMakesRoom
<1>1. Init => AllWithinBudget
  BY InitWithinBudget
<1>2. IndInv /\ AllWithinBudget /\ [Next]_vars => AllWithinBudget'
  BY StepWithinBudget
<1>3. IndInv /\ AllWithinBudget => RefreshMakesRoom
  BY BudgetMakesRoom
<1> QED
  BY <1>1, <1>2, <1>3, LeasedInvariant, PTL DEF Spec

-----------------------------------------------------------------------------
(* What keeps two processes from holding the lease at once.  The database  *)
(* clock and the monotonic one move together; a lease that counts from the *)
(* moment its request was sent ends no later than the reservation in the   *)
(* row, and has ended once the row names another owner.                    *)
ClocksInStep == dbClock + 1 = mono + InitialWall

EndsInTime(p, deadline) ==
    IF row.owner = OwnerOf[p] THEN deadline + InitialWall <= row.reserved + 1
                              ELSE deadline <= mono

TimelyLease(p) ==
    lifecycle[p] = "active" =>
        /\ EndsInTime(p, lease[p].deadline)
        /\ lease[p].deadline <= mono + LeaseWindow
        /\ conn[p].phase # "none" => lease[p].deadline <= conn[p].sentAt + LeaseWindow

TimelyRequest(p) ==
    /\ conn[p].phase # "none" => conn[p].sentAt <= mono
    /\ conn[p].phase = "begun" =>
          conn[p].sentAt + InitialWall <= conn[p].dbNow + 1 /\ conn[p].dbNow <= dbClock
    /\ conn[p].phase = "done" /\ conn[p].outcome = "granted" =>
          EndsInTime(p, conn[p].sentAt + LeaseWindow)

Timely(p) == TimelyLease(p) /\ TimelyRequest(p)

InTime == ClocksInStep /\ \A p \in Procs : Timely(p)

(* The numbers above are natural.                                          *)
LEMMA TimeTypes ==
    ASSUME IndInv, NEW p \in Procs
    PROVE  /\ conn[p] \in Request /\ conn[p].sentAt \in Nat /\ conn[p].dbNow \in Nat
           /\ lease[p].deadline \in Nat
           /\ mono \in Nat /\ dbClock \in Nat /\ row.reserved \in Nat
           /\ InitialWall \in Nat /\ LeaseWindow \in Nat
<1>1. /\ conn[p] \in Request /\ lease[p] \in [floor : Nat, fence : Nat, deadline : Nat]
      /\ row \in LeaseRow /\ mono \in Nat /\ dbClock \in Nat
  BY DEF IndInv, TypeOK
<1> QED
  BY <1>1, StoreAssumption, LeasedAssumption
  DEF Request, LeaseRow, StoreAssumption, LeasedAssumption

LEMMA InitInTime == Init => InTime
<1> SUFFICES ASSUME Init PROVE InTime
  OBVIOUS
<1>1. ClocksInStep
  BY LeasedAssumption DEF Init, InitProcesses, ClocksInStep, LeasedAssumption
<1>2. ASSUME NEW p \in Procs PROVE Timely(p)
  BY RequestConstants DEF Init, InitProcesses, Timely, TimelyLease, TimelyRequest
<1> QED
  BY <1>1, <1>2 DEF InTime

-----------------------------------------------------------------------------
(* A step of p keeps what the others have of the lease; if it leaves the   *)
(* row and the clocks alone, only p's own part is left to show.            *)
StepOf(p) ==
    \A q \in Procs \ {p} :
        /\ lifecycle'[q] = lifecycle[q]
        /\ lease'[q] = lease[q]
        /\ conn'[q] = conn[q]

LEMMA StepInTime ==
    ASSUME InTime, NEW p \in Procs, StepOf(p), Timely(p)',
           UNCHANGED <<row, mono, dbClock>>
    PROVE  InTime'
<1>1. ASSUME NEW q \in Procs, q # p PROVE Timely(q)'
  <2>1. Timely(q)
    BY DEF InTime
  <2>2. lifecycle'[q] = lifecycle[q] /\ lease'[q] = lease[q] /\ conn'[q] = conn[q]
    BY <1>1 DEF StepOf
  <2> QED
    BY <2>1, <2>2 DEF Timely, TimelyLease, TimelyRequest, EndsInTime
<1> QED
  BY <1>1 DEF InTime, ClocksInStep

(* The process ends.                                                       *)
LEMMA EndInTime ==
    ASSUME IndInv, InTime, NEW p \in Procs, End(p),
           conn' = conn \/ conn' = [conn EXCEPT ![p] = NoRequest],
           UNCHANGED <<row, mono, dbClock>>
    PROVE  InTime'
<1>1. TypeOK /\ Timely(p)
  BY DEF IndInv, InTime
<1>2. /\ StepOf(p) /\ lifecycle'[p] = "over"
      /\ conn'[p] = conn[p] \/ conn'[p] = NoRequest
  BY <1>1 DEF TypeOK, End, StepOf
<1>3. Timely(p)'
  BY <1>1, <1>2, RequestConstants DEF Timely, TimelyLease, TimelyRequest, EndsInTime
<1> QED
  BY <1>2, <1>3, StepInTime

(* Nothing of the lease, or of the call, changes.                          *)
LEMMA KeptInTime ==
    ASSUME InTime, UNCHANGED <<lifecycle, lease, conn, row, mono, dbClock>>
    PROVE  InTime'
PROOF BY DEF InTime, ClocksInStep, Timely, TimelyLease, TimelyRequest, EndsInTime

(* A request counts from now.                                              *)
LEMMA SentInTime ==
    ASSUME IndInv, InTime, NEW p \in Procs, NEW op \in {"acquire", "refresh"}, Send(p, op),
           UNCHANGED <<lifecycle, lease, row, mono, dbClock>>
    PROVE  InTime'
<1> DEFINE r == NewRequest(op, wall[p], mono)
<1>1. TypeOK /\ Timely(p) /\ wall[p] \in Nat /\ mono \in Nat
  BY DEF IndInv, InTime, TypeOK
<1>2. r.phase = "sent" /\ r.sentAt = mono
  BY DEF NewRequest
<1>3. conn' = [conn EXCEPT ![p] = r]
  BY DEF Send
<1> HIDE DEF r
<1>4. conn'[p] = r /\ StepOf(p)
  BY <1>1, <1>3 DEF TypeOK, StepOf
<1>5. Timely(p)'
  BY <1>1, <1>2, <1>4 DEF Timely, TimelyLease, TimelyRequest, EndsInTime
<1> QED
  BY <1>4, <1>5, StepInTime

LEMMA EnterRefreshInTime ==
    ASSUME IndInv, InTime, NEW p \in Procs, NEW a, EnterRefresh(p, a),
           UNCHANGED <<row, mono, dbClock>>
    PROVE  InTime'
<1>1. CASE FailLocked(p) /\ UNCHANGED conn
  BY <1>1, EndInTime DEF FailLocked
<1>2. CASE Send(p, "refresh") /\ UNCHANGED <<lifecycle, lease>>
  BY <1>2, SentInTime
<1> QED
  BY <1>1, <1>2 DEF EnterRefresh

(* A refused Acquire goes to sleep.                                        *)
LEMMA RefusedInTime ==
    ASSUME IndInv, InTime, NEW p \in Procs,
           conn' = [conn EXCEPT ![p] = NoRequest],
           UNCHANGED <<lifecycle, lease, row, mono, dbClock>>
    PROVE  InTime'
<1>1. TypeOK /\ Timely(p)
  BY DEF IndInv, InTime
<1>2. conn'[p] = NoRequest /\ StepOf(p)
  BY <1>1 DEF TypeOK, StepOf
<1>3. Timely(p)'
  BY <1>1, <1>2, RequestConstants DEF Timely, TimelyLease, TimelyRequest, EndsInTime
<1> QED
  BY <1>2, <1>3, StepInTime

(* The lease in memory ends when the answer said it would.                 *)
LEMMA InstalledInTime ==
    ASSUME IndInv, InTime, NEW p \in Procs, NEW floor,
           conn[p].phase = "done", conn[p].outcome = "granted",
           conn' = [conn EXCEPT ![p] = NoRequest],
           Installed(p, floor),
           lifecycle' = lifecycle \/ lifecycle' = [lifecycle EXCEPT ![p] = "active"],
           UNCHANGED <<row, mono, dbClock>>
    PROVE  InTime'
<1> DEFINE l == [floor    |-> floor,
                 fence    |-> conn[p].fence,
                 deadline |-> conn[p].sentAt + LeaseWindow]
<1>1. TypeOK /\ Timely(p)
  BY DEF IndInv, InTime
<1>2. lease' = [lease EXCEPT ![p] = l] /\ l.deadline = conn[p].sentAt + LeaseWindow
  BY DEF Installed
<1> HIDE DEF l
<1>3. /\ conn'[p] = NoRequest /\ StepOf(p)
      /\ lease'[p].deadline = conn[p].sentAt + LeaseWindow
  BY <1>1, <1>2 DEF TypeOK, StepOf
<1>4. EndsInTime(p, conn[p].sentAt + LeaseWindow) /\ conn[p].sentAt <= mono
  BY <1>1 DEF Timely, TimelyRequest
<1>5. Timely(p)'
  BY <1>3, <1>4, TimeTypes, RequestConstants
  DEF Timely, TimelyLease, TimelyRequest, EndsInTime
<1> QED
  BY <1>3, <1>5, StepInTime

-----------------------------------------------------------------------------
(* The database.                                                           *)
LEMMA BegunInTime ==
    ASSUME IndInv, InTime, NEW p \in Procs, Begin(p)
    PROVE  InTime'
<1> DEFINE r == [conn[p] EXCEPT !.phase = "begun", !.dbNow = dbClock, !.seen = row]
<1>1. TypeOK /\ Timely(p) /\ ClocksInStep
  BY DEF IndInv, InTime
<1>2. /\ conn[p].phase = "sent" /\ conn' = [conn EXCEPT ![p] = r]
      /\ UNCHANGED <<lifecycle, lease, row, mono, dbClock>>
  BY DEF Begin, memory, Outside, clocks
<1>3. r.phase = "begun" /\ r.sentAt = conn[p].sentAt /\ r.dbNow = dbClock
  BY TimeTypes DEF Request
<1> HIDE DEF r
<1>4. conn'[p] = r /\ StepOf(p)
  BY <1>1, <1>2 DEF TypeOK, StepOf
<1>5. Timely(p)'
  BY <1>1, <1>2, <1>3, <1>4, TimeTypes
  DEF Timely, TimelyLease, TimelyRequest, EndsInTime, ClocksInStep
<1> QED
  BY <1>2, <1>4, <1>5, StepInTime

(* The answer is about the same request.                                   *)
LEMMA FinishKeepsSentAt ==
    ASSUME conn \in [Procs -> Request], NEW p \in Procs, NEW r \in Request,
           NEW outcome, Finish(p, outcome, r)
    PROVE  /\ \A q \in Procs \ {p} : conn'[q] = conn[q]
           /\ \/ conn'[p] = NoRequest
              \/ /\ pc[p] \in {"acquire", "refresh"}
                 /\ conn'[p].phase = "done" /\ conn'[p].outcome = outcome
                 /\ conn'[p].sentAt = r.sentAt
<1> DEFINE d == [r EXCEPT !.phase = "done", !.outcome = outcome]
<1>1. d.phase = "done" /\ d.outcome = outcome /\ d.sentAt = r.sentAt
  BY DEF Request
<1>2. CASE pc[p] \in {"acquire", "refresh"}
  <2>1. conn' = [conn EXCEPT ![p] = d]
    BY <1>2 DEF Finish
  <2> HIDE DEF d
  <2> QED
    BY <1>1, <1>2, <2>1
<1>3. CASE pc[p] \notin {"acquire", "refresh"}
  <2>1. conn' = [conn EXCEPT ![p] = NoRequest]
    BY <1>3 DEF Finish
  <2> QED
    BY <2>1
<1> QED
  BY <1>2, <1>3

LEMMA NothingInTime ==
    ASSUME IndInv, InTime, NEW p \in Procs, ExecuteNothing(p)
    PROVE  InTime'
<1>1. TypeOK /\ Timely(p) /\ conn \in [Procs -> Request] /\ conn[p] \in Request
  BY DEF IndInv, InTime, TypeOK
<1>2. conn[p].phase = "begun" /\ UNCHANGED <<lifecycle, lease, row, mono, dbClock>>
  BY DEF ExecuteNothing, memory, Outside, clocks
<1>3. PICK outcome \in {"refused", "skew"} : Finish(p, outcome, conn[p])
  <2>1. CASE ClockOk(conn[p].localNow, conn[p].dbNow)
    BY <2>1 DEF ExecuteNothing
  <2>2. CASE ~ClockOk(conn[p].localNow, conn[p].dbNow)
    BY <2>2 DEF ExecuteNothing
  <2> QED
    BY <2>1, <2>2
<1>4. /\ StepOf(p)
      /\ \/ conn'[p] = NoRequest
         \/ /\ conn'[p].phase = "done" /\ conn'[p].outcome = outcome
            /\ conn'[p].sentAt = conn[p].sentAt
  BY <1>1, <1>2, <1>3, FinishKeepsSentAt DEF StepOf
<1>5. Timely(p)'
  BY <1>1, <1>2, <1>4, RequestConstants DEF Timely, TimelyLease, TimelyRequest, EndsInTime
<1> QED
  BY <1>2, <1>4, <1>5, StepInTime

(* A statement that writes makes the row p's.  Its reservation covers p's  *)
(* request; whoever the row named before had no time left.                 *)
LEMMA WriteInTime ==
    ASSUME UniqueOwners, IndInv, InTime, NEW p \in Procs, NEW fence \in Nat,
           conn[p].phase = "begun",
           row'.owner = OwnerOf[p], row'.reserved = conn[p].dbNow + LeaseWindow,
           row.owner = OwnerOf[p] \/ row.reserved <= conn[p].dbNow \/ row.owner = NoOwner,
           GrantAnswer(p, fence),
           UNCHANGED <<lifecycle, lease, mono, dbClock>>
    PROVE  InTime'
<1> DEFINE r == [conn[p] EXCEPT !.fence = fence, !.dbNow = 0, !.seen = NoRow]
<1>1. /\ TypeOK /\ Timely(p) /\ ClocksInStep /\ conn \in [Procs -> Request]
      /\ \A q \in Procs : OwnerOf[q] # NoOwner
  <2>1. TypeOK /\ Timely(p) /\ ClocksInStep
    BY DEF IndInv, InTime
  <2>2. conn \in [Procs -> Request]
    BY <2>1 DEF TypeOK
  <2>3. \A q \in Procs : OwnerOf[q] # NoOwner
    <3>1. NoOwner \notin Owners /\ OwnerOf \in [Procs -> Owners]
      BY StoreAssumption, LeasedAssumption DEF StoreAssumption, LeasedAssumption
    <3> QED
      BY <3>1
  <2> QED
    BY <2>1, <2>2, <2>3
<1>2. r \in Request /\ r.sentAt = conn[p].sentAt /\ Finish(p, "granted", r)
  BY TimeTypes, RequestConstants DEF Request, GrantAnswer
<1> HIDE DEF r
<1>3. /\ StepOf(p)
      /\ \/ conn'[p] = NoRequest
         \/ /\ conn'[p].phase = "done" /\ conn'[p].outcome = "granted"
            /\ conn'[p].sentAt = conn[p].sentAt
  BY <1>1, <1>2, FinishKeepsSentAt DEF StepOf
<1>4. /\ conn[p].sentAt + InitialWall <= conn[p].dbNow + 1
      /\ conn[p].dbNow <= dbClock /\ conn[p].sentAt <= mono
  BY <1>1 DEF Timely, TimelyRequest
<1>5. Timely(p)'
  <2>1. lifecycle[p] = "active" => /\ lease[p].deadline <= conn[p].sentAt + LeaseWindow
                                   /\ lease[p].deadline <= mono + LeaseWindow
    BY <1>1 DEF Timely, TimelyLease
  <2>2. /\ conn[p].sentAt \in Nat /\ conn[p].dbNow \in Nat /\ lease[p].deadline \in Nat
        /\ mono \in Nat /\ InitialWall \in Nat /\ LeaseWindow \in Nat
    BY TimeTypes
  <2>3. TimelyLease(p)'
    BY <1>3, <1>4, <2>1, <2>2, RequestConstants DEF TimelyLease, EndsInTime
  <2>4. TimelyRequest(p)'
    BY <1>3, <1>4, <2>2, RequestConstants DEF TimelyRequest, EndsInTime
  <2> QED
    BY <2>3, <2>4 DEF Timely
<1>6. ASSUME NEW q \in Procs, q # p PROVE Timely(q)'
  <2>1. /\ Timely(q) /\ lifecycle'[q] = lifecycle[q] /\ lease'[q] = lease[q]
        /\ conn'[q] = conn[q]
    BY <1>3, <1>6 DEF InTime, StepOf
  <2>2. row'.owner # OwnerOf[q] /\ OwnerOf[q] # OwnerOf[p]
    BY <1>6 DEF UniqueOwners
  <2>3. ASSUME NEW deadline \in Nat, EndsInTime(q, deadline) PROVE deadline <= mono
    <3>1. CASE row.owner = OwnerOf[q]
      <4>1. row.reserved <= conn[p].dbNow
        BY <1>1, <2>2, <3>1
      <4>2. deadline + InitialWall <= row.reserved + 1
        BY <2>3, <3>1 DEF EndsInTime
      <4> QED
        BY <1>1, <1>4, <4>1, <4>2, TimeTypes DEF ClocksInStep
    <3>2. CASE row.owner # OwnerOf[q]
      BY <2>3, <3>2 DEF EndsInTime
    <3> QED
      BY <3>1, <3>2
  <2>4. TimelyLease(q)'
    <3>1. lease[q].deadline \in Nat
      BY TimeTypes
    <3> QED
      BY <2>1, <2>2, <2>3, <3>1 DEF Timely, TimelyLease, EndsInTime
  <2>5. TimelyRequest(q)'
    <3>1. conn[q].sentAt + LeaseWindow \in Nat
      BY TimeTypes
    <3>2. conn[q].phase = "done" /\ conn[q].outcome = "granted" =>
              conn[q].sentAt + LeaseWindow <= mono
      BY <2>1, <2>3, <3>1 DEF Timely, TimelyRequest
    <3> QED
      BY <2>1, <2>2, <3>2 DEF Timely, TimelyRequest, EndsInTime
  <2> QED
    BY <2>4, <2>5 DEF Timely
<1> QED
  BY <1>1, <1>5, <1>6 DEF InTime, ClocksInStep

LEMMA ExecuteInTime ==
    ASSUME UniqueOwners, IndInv, InTime, NEW p \in Procs,
           ExecuteAcquire(p) \/ ExecuteRefresh(p)
    PROVE  InTime'
<1>1. /\ conn[p].phase = "begun"
      /\ row' = Leased(row, OwnerOf[p], conn[p].dbNow, conn[p].fence)
      /\ GrantAnswer(p, row'.fence)
      /\ UNCHANGED <<lifecycle, lease, mono, dbClock>>
      /\ row.owner = OwnerOf[p] \/ row.reserved <= conn[p].dbNow \/ row.owner = NoOwner
  BY DEF ExecuteAcquire, ExecuteRefresh, MayAcquire, MayRefresh, memory, clocks
<1>2. row'.owner = OwnerOf[p] /\ row'.reserved = conn[p].dbNow + LeaseWindow
  BY <1>1 DEF Leased
<1>3. row'.fence \in Nat
  BY <1>1, RowWritten DEF IndInv, TypeOK
<1> QED
  BY <1>1, <1>2, <1>3, WriteInTime

-----------------------------------------------------------------------------
LEMMA TickInTime ==
    ASSUME IndInv, InTime, Tick
    PROVE  InTime'
<1>1. /\ mono' = mono + 1 /\ dbClock' = dbClock + 1
      /\ UNCHANGED <<lifecycle, lease, conn, row>>
      /\ mono \in Nat /\ dbClock \in Nat /\ InitialWall \in Nat /\ LeaseWindow \in Nat
  BY StoreAssumption, LeasedAssumption
  DEF Tick, memory, IndInv, TypeOK, StoreAssumption, LeasedAssumption
<1>2. ASSUME NEW p \in Procs PROVE Timely(p)'
  <2>1. Timely(p)
    BY DEF InTime
  <2>2. TimelyLease(p)'
    BY <1>1, <2>1, TimeTypes DEF Timely, TimelyLease, EndsInTime
  <2>3. TimelyRequest(p)'
    BY <1>1, <2>1, TimeTypes DEF Timely, TimelyRequest, EndsInTime
  <2> QED
    BY <2>2, <2>3 DEF Timely
<1>3. ClocksInStep'
  BY <1>1 DEF InTime, ClocksInStep
<1> QED
  BY <1>2, <1>3 DEF InTime

LEMMA SettleInTime ==
    ASSUME IndInv, InTime, NEW p \in Procs, NEW g, Settle(p, g), Outside(p)
    PROVE  InTime'
<1>1. UNCHANGED <<row, mono, dbClock>>
  BY DEF Outside, clocks
<1>2. CASE Issue(p, SkipZero(g))
  BY <1>1, <1>2, KeptInTime DEF Issue
<1>3. CASE RefuseStamp(p, SkipZero(g))
  <2>1. CASE FailLocked(p) /\ UNCHANGED conn
    BY <1>1, <2>1, EndInTime DEF FailLocked
  <2>2. CASE EnterRefresh(p, 2)
    BY <1>1, <2>2, EnterRefreshInTime
  <2> QED
    BY <1>3, <2>1, <2>2 DEF RefuseStamp
<1> QED
  BY <1>2, <1>3 DEF Settle

LEMMA AnswerInTime ==
    ASSUME IndInv, InTime, NEW p \in Procs, Answer(p)
    PROVE  InTime'
<1>1. /\ conn' = [conn EXCEPT ![p] = NoRequest] /\ conn[p].phase = "done"
      /\ UNCHANGED <<row, mono, dbClock>>
  BY DEF Answer, AcquireGranted, AcquireRefused, RefreshGranted, RefreshRefused,
         SkewReported, Answered, Outside, clocks
<1>2. CASE FailLocked(p)
  BY <1>1, <1>2, EndInTime DEF FailLocked
<1>3. CASE AcquireGranted(p)
  BY <1>1, <1>3, InstalledInTime DEF AcquireGranted
<1>4. CASE RefreshGranted(p)
  BY <1>1, <1>4, InstalledInTime DEF RefreshGranted
<1>5. CASE AcquireRefused(p) /\ ~FailLocked(p)
  BY <1>1, <1>5, RefusedInTime DEF AcquireRefused
<1> QED
  BY <1>2, <1>3, <1>4, <1>5 DEF Answer, RefreshRefused, SkewReported

LEMMA StepsInTime ==
    ASSUME UniqueOwners, DbClockKept, IndInv, InTime, [Next]_vars
    PROVE  InTime'
<1>1. CASE UNCHANGED vars
  BY <1>1, KeptInTime DEF vars, memory, clocks
<1>2. CASE Tick
  BY <1>2, TickInTime
<1>3. CASE SetDbClock
  <2>1. adjusts.db \in Nat /\ adjusts.db < 0
    BY <1>3 DEF SetDbClock, DbClockKept, IndInv, TypeOK
  <2> QED
    BY <2>1
<1>4. ASSUME NEW p \in Procs,
             \/ Acquire(p) \/ Refresh(p) \/ CallNext(p) \/ Ready(p) \/ Close(p)
             \/ Answer(p) \/ RequestFails(p)
             \/ Generate(p) \/ Resume(p)
             \/ AbandonNext(p) \/ CancelSleep(p) \/ CancelBackoff(p)
             \/ Begin(p) \/ Execute(p)
             \/ Crash(p) \/ SetWallClock(p)
      PROVE  InTime'
  <2>1. CASE Acquire(p) \/ RetryAcquire(p)
    <3>1. Send(p, "acquire") /\ UNCHANGED <<lifecycle, lease, row, mono, dbClock>>
      BY <2>1 DEF Acquire, RetryAcquire, TryAcquire, Outside, clocks
    <3> QED
      BY <3>1, SentInTime
  <2>2. CASE Refresh(p)
    <3>1. EnterRefresh(p, 0) /\ UNCHANGED <<row, mono, dbClock>>
      BY <2>2 DEF Refresh, Outside, clocks
    <3> QED
      BY <3>1, EnterRefreshInTime
  <2>3. CASE CallNext(p)
    <3>1. UNCHANGED <<row, mono, dbClock>>
      BY <2>3 DEF CallNext, Outside, clocks
    <3>2. CASE FailLocked(p) /\ UNCHANGED conn
      BY <3>1, <3>2, EndInTime DEF FailLocked
    <3>3. CASE EnterRefresh(p, 1)
      BY <3>1, <3>3, EnterRefreshInTime
    <3>4. CASE UNCHANGED <<lifecycle, lease, conn>>
      BY <3>1, <3>4, KeptInTime
    <3> QED
      BY <2>3, <3>2, <3>3, <3>4 DEF CallNext
  <2>4. CASE Answer(p)
    BY <2>4, AnswerInTime
  <2>5. CASE \/ Ready(p) \/ Close(p) \/ RequestFails(p) \/ CancelBackoff(p)
             \/ RejectClock(p) \/ StillBehind(p) \/ Crash(p)
    <3>1. /\ End(p) /\ UNCHANGED <<row, mono, dbClock>>
          /\ conn' = conn \/ conn' = [conn EXCEPT ![p] = NoRequest]
      BY <2>5 DEF Ready, Close, RequestFails, CancelBackoff, RejectClock, StillBehind,
                  Crash, FailLocked, Outside, clocks
    <3> QED
      BY <3>1, EndInTime
  <2>6. CASE \/ WaitForRollback(p) \/ WaitForNextMillis(p) \/ WaitAgain(p)
             \/ AbandonNext(p) \/ CancelSleep(p) \/ SetWallClock(p)
    <3>1. UNCHANGED <<lifecycle, lease, conn, row, mono, dbClock>>
      BY <2>6 DEF WaitForRollback, WaitForNextMillis, WaitAgain, SleepUntil, AbandonNext,
                  CancelSleep, SetWallClock, memory, Outside, clocks
    <3> QED
      BY <3>1, KeptInTime
  <2>7. CASE IssueAtOnce(p)
    BY <2>7, SettleInTime DEF IssueAtOnce
  <2>8. CASE IssueAfterRollback(p)
    BY <2>8, SettleInTime DEF IssueAfterRollback
  <2>9. CASE IssueAfterOverflow(p)
    BY <2>9, SettleInTime DEF IssueAfterOverflow
  <2>10. CASE Begin(p)
    BY <2>10, BegunInTime
  <2>11. CASE ExecuteAcquire(p) \/ ExecuteRefresh(p)
    BY <2>11, ExecuteInTime
  <2>12. CASE ExecuteNothing(p)
    BY <2>12, NothingInTime
  <2> QED
    BY <1>4, <2>1, <2>2, <2>3, <2>4, <2>5, <2>6, <2>7, <2>8, <2>9, <2>10, <2>11, <2>12
    DEF Generate, Resume, Execute
<1> QED
  BY <1>1, <1>2, <1>3, <1>4 DEF Next

LEMMA InTimeExcludes == IndInv /\ InTime /\ UniqueOwners => LeaseExclusive
<1> SUFFICES ASSUME IndInv, InTime, UniqueOwners,
                    NEW p \in Procs, NEW q \in Procs, Live(p), Live(q), p # q
             PROVE  FALSE
  BY DEF LeaseExclusive
<1>1. OwnerOf[p] # OwnerOf[q]
  BY DEF UniqueOwners
<1>2. EndsInTime(p, lease[p].deadline) /\ EndsInTime(q, lease[q].deadline)
  BY DEF InTime, Timely, TimelyLease, Live
<1>3. ~(lease[p].deadline <= mono) /\ ~(lease[q].deadline <= mono)
  <2>1. lease[p].deadline \in Nat /\ lease[q].deadline \in Nat /\ mono \in Nat
    BY TimeTypes
  <2> QED
    BY <2>1 DEF Live, Expired
<1> QED
  BY <1>1, <1>2, <1>3 DEF EndsInTime

(* While nobody sets the database clock, at most one LeasedGenerator takes *)
(* the lease for its own, for every lease window, however late statements  *)
(* run and answers come, and wherever the wall clocks are                  *)
(* (installStateLocked, ensureActiveLocked, PGLeaseStore.TryAcquire).      *)
THEOREM LeasedExclusive ==
    ASSUME UniqueOwners, DbClockKept
    PROVE  Spec => []LeaseExclusive
<1>1. Init => InTime
  BY InitInTime
<1>2. IndInv /\ InTime /\ [Next]_vars => InTime'
  BY StepsInTime
<1>3. IndInv /\ InTime => LeaseExclusive
  BY InTimeExcludes
<1> QED
  BY <1>1, <1>2, <1>3, LeasedInvariant, PTL DEF Spec
=============================================================================
