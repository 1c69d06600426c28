-------------------------- MODULE GeneratorProofs ---------------------------
(***************************************************************************)
(* Theorems about Generator, for any number of callers, any windows, any   *)
(* movement of the wall clock and any limits.  The inductive invariant     *)
(* adds to the properties only what a sleeping call relies on: the mutex   *)
(* keeps it the only one, so the state it looked at is still there.        *)
(***************************************************************************)
EXTENDS GeneratorIDs, GeneratorOpsProofs

(* At most one call sleeps, the clock never exceeded its history maximum,  *)
(* and a sleeper sits on a state past the epoch; one that waits out a      *)
(* rollback is not in over-cost mode.                                      *)
SleeperState ==
    /\ \A c, d \in Callers : Waiting(c) /\ Waiting(d) => c = d
    /\ \A c \in Callers : Waiting(c) => gen.lastMillis >= EpochMillis
    /\ \A c \in Callers : pc[c] = "rollback" => gen.overCostActive = FALSE

IndInv ==
    /\ TypeOK
    /\ wall <= peak
    /\ SleeperState
    /\ StateIsLastIssued
    /\ StrictlyIncreasing
    /\ BoundedLead
    /\ IssuedWithinBounds

-----------------------------------------------------------------------------
LEMMA IssuedStamps ==
    ASSUME NEW s \in Seq(Issued), NEW i \in 1..Len(s)
    PROVE  s[i].stamp \in Stamp
<1>1. s[i] \in Issued
  OBVIOUS
<1> QED
  BY <1>1 DEF Issued

LEMMA InitIndInv == Init => IndInv
<1> SUFFICES ASSUME Init PROVE IndInv
  OBVIOUS
<1>1. NewGenerator \in GeneratorState /\ NewGenerator.lastMillis = 0
      /\ NewGenerator.overCostRemaining = OverCostLimit
  <2>1. 0 \in Nat /\ 0 \in 0..MaxSequence
    BY GeneratorAssumption DEF GeneratorAssumption
  <2> QED
    BY <2>1, OnClockFields DEF NewGenerator, Restart
<1>2. TypeOK
  <2>1. pc \in [Callers -> Positions]
    BY DEF Init, Positions
  <2>2. window \in [Callers -> [floor : Nat, fence : Nat]]
    BY DEF Init, NoWindow
  <2>3. issued \in Seq(Issued)
    BY DEF Init
  <2> QED
    BY <1>1, <2>1, <2>2, <2>3, CallAssumption DEF Init, TypeOK, CallAssumption, NotArmed
<1>3. SleeperState
  BY DEF Init, SleeperState, Waiting
<1>4. wall <= peak
  BY CallAssumption DEF Init, CallAssumption
<1>5. BoundedLead
  BY <1>1, CallAssumption, GeneratorAssumption
  DEF Init, BoundedLead, CallAssumption, GeneratorAssumption
<1> QED
  BY <1>2, <1>3, <1>4, <1>5
  DEF Init, IndInv, StateIsLastIssued, StrictlyIncreasing, IssuedWithinBounds

(* A call that gives up changes nothing but its own position.              *)
LEMMA FailKeepsIndInv ==
    ASSUME IndInv, NEW c \in Callers, Fail(c)
    PROVE  IndInv'
<1>1. TypeOK'
  BY DEF IndInv, TypeOK, Fail, Return, clocks, Positions, NotArmed, NoWindow
<1>2. SleeperState'
  BY DEF IndInv, TypeOK, SleeperState, Fail, Return, clocks, Waiting
<1> QED
  BY <1>1, <1>2
  DEF IndInv, Fail, clocks, StateIsLastIssued, StrictlyIncreasing, BoundedLead,
      IssuedWithinBounds

(* Going to sleep, for a caller that is the only one to hold the mutex.    *)
LEMMA SleepKeepsIndInv ==
    ASSUME IndInv, NEW c \in Callers, NEW why \in {"rollback", "overflow"},
           \A d \in Callers : Waiting(d) => d = c,
           gen.lastMillis >= EpochMillis,
           why = "rollback" => gen.overCostActive = FALSE,
           pc' = [pc EXCEPT ![c] = why],
           wakeAt' \in Nat,
           UNCHANGED <<gen, window, clocks, issued>>
    PROVE  IndInv'
<1>1. TypeOK'
  BY DEF IndInv, TypeOK, clocks, Positions
<1>2. SleeperState'
  BY DEF IndInv, TypeOK, SleeperState, clocks, Waiting
<1> QED
  BY <1>1, <1>2
  DEF IndInv, clocks, StateIsLastIssued, StrictlyIncreasing, BoundedLead,
      IssuedWithinBounds

(* A call that commits a later stamp within the lead and past the epoch.   *)
LEMMA CommitKeepsIndInv ==
    ASSUME IndInv, NEW c \in Callers, NEW g,
           g \in GeneratorState,
           Before(StampOf(gen), StampOf(g)),
           g.lastMillis >= EpochMillis,
           g.lastMillis + g.overCostRemaining <= peak + OverCostLimit,
           ~(g.lastMillis = EpochMillis /\ NodeCode = 0 /\ g.sequence = 0),
           \A d \in Callers : Waiting(d) => d = c,
           Commit(c, g)
    PROVE  IndInv'
<1> DEFINE n == Len(issued)
           e == EntryOf(g, window[c])
<1>1. /\ issued \in Seq(Issued) /\ n \in Nat
      /\ window[c] \in [floor : Nat, fence : Nat]
      /\ gen \in GeneratorState /\ peak \in Nat
  BY DEF IndInv, TypeOK
<1>2. StampOf(g) \in Stamp /\ StampOf(gen) \in Stamp
  BY <1>1, Fields DEF StampOf, Stamp
<1>3. e \in Issued
  BY <1>1, <1>2, Fields DEF Issued, EntryOf
<1>4. issued' = Append(issued, e) /\ gen' = g /\ peak' = peak /\ wall' = wall
  BY DEF Commit, clocks
<1> HIDE DEF e
<1>5. /\ issued' \in Seq(Issued)
      /\ Len(issued') = n + 1
      /\ issued'[n + 1] = e
      /\ \A i \in 1..n : issued'[i] = issued[i]
  BY <1>1, <1>3, <1>4
<1>6. /\ e.stamp = StampOf(g) /\ e.floor = window[c].floor /\ e.fence = window[c].fence
      /\ e.ahead = g.overCostActive /\ e.left = g.overCostRemaining
  BY DEF e, EntryOf
<1>7. TypeOK'
  <2>1. pc' \in [Callers -> Positions]
    BY DEF IndInv, TypeOK, Commit, Return, Positions
  <2>2. window' \in [Callers -> [floor : Nat, fence : Nat]]
    BY DEF IndInv, TypeOK, Commit, Return, NoWindow
  <2> QED
    BY <1>4, <1>5, <2>1, <2>2 DEF IndInv, TypeOK, Commit, Return, clocks, NotArmed
<1>8. SleeperState'
  BY DEF IndInv, TypeOK, SleeperState, Commit, Return, Waiting
<1>9. StateIsLastIssued'
  BY <1>1, <1>4, <1>5, <1>6 DEF StateIsLastIssued
<1>10. StrictlyIncreasing'
  <2>1. \A i \in 1..n : issued[i].stamp \in Stamp
    BY <1>1, IssuedStamps
  <2>2. \A i \in 1..n : Before(issued[i].stamp, StampOf(g))
    <3> SUFFICES ASSUME NEW i \in 1..n PROVE Before(issued[i].stamp, StampOf(g))
      OBVIOUS
    <3>1. issued[n].stamp = StampOf(gen)
      BY <1>1 DEF IndInv, StateIsLastIssued
    <3>2. CASE i = n
      BY <3>1, <3>2
    <3>3. CASE i < n
      <4>1. Before(issued[i].stamp, issued[n].stamp)
        BY <1>1, <3>3 DEF IndInv, StrictlyIncreasing
      <4> QED
        BY <1>2, <2>1, <3>1, <4>1, BeforeTransitive
    <3> QED
      BY <1>1, <3>2, <3>3
  <2> SUFFICES ASSUME NEW i \in 1..n + 1, NEW j \in 1..n + 1, i < j
               PROVE  Before(issued'[i].stamp, issued'[j].stamp)
    BY <1>5 DEF StrictlyIncreasing
  <2>3. CASE j = n + 1
    BY <1>1, <1>5, <1>6, <2>2, <2>3
  <2>4. CASE j # n + 1
    <3>1. i \in 1..n /\ j \in 1..n
      BY <1>1, <2>4
    <3> QED
      BY <1>5, <3>1 DEF IndInv, StrictlyIncreasing
  <2> QED
    BY <2>3, <2>4
<1>11. BoundedLead'
  <2>1. g.lastMillis <= peak + OverCostLimit
    BY <1>1, Fields, GeneratorAssumption DEF GeneratorAssumption
  <2>2. e.stamp.ts = g.lastMillis
    BY <1>6 DEF StampOf
  <2>3. \A i \in 1..n + 1 : issued'[i].stamp.ts <= peak + OverCostLimit
    BY <1>1, <1>5, <2>1, <2>2 DEF IndInv, BoundedLead
  <2> QED
    BY <1>4, <1>5, <2>3 DEF BoundedLead
<1>12. IssuedWithinBounds'
  <2>1. /\ e.stamp.ts = g.lastMillis /\ e.stamp.seq = g.sequence
    BY <1>6 DEF StampOf
  <2>2. /\ e.stamp.ts >= e.floor
        /\ e.fence > 0 => e.stamp.ts < e.fence
        /\ e.stamp.ts >= EpochMillis /\ e.stamp.ts - EpochMillis <= MaxTimestamp
        /\ ~(e.stamp.ts = EpochMillis /\ NodeCode = 0 /\ e.stamp.seq = 0)
    <3> DEFINE w == window[c]
    <3>1. /\ ~(w.floor > 0 /\ g.lastMillis < w.floor)
          /\ ~(w.fence > 0 /\ g.lastMillis >= w.fence)
          /\ ~(g.lastMillis - EpochMillis > MaxTimestamp)
      BY DEF Commit, Issuable, BelowFloor, FenceReached, OutOfRange
    <3>2. g.lastMillis \in Nat /\ w.floor \in Nat /\ w.fence \in Nat
      BY <1>1, Fields
    <3>3. e.floor = w.floor /\ e.fence = w.fence
      BY <1>6
    <3> HIDE DEF w
    <3> QED
      BY <2>1, <3>1, <3>2, <3>3, GeneratorAssumption DEF GeneratorAssumption
  <2> SUFFICES ASSUME NEW i \in 1..n + 1
               PROVE  LET s == issued'[i].stamp IN
                        /\ s.ts >= issued'[i].floor
                        /\ issued'[i].fence > 0 => s.ts < issued'[i].fence
                        /\ s.ts >= EpochMillis /\ s.ts - EpochMillis <= MaxTimestamp
                        /\ ~(s.ts = EpochMillis /\ NodeCode = 0 /\ s.seq = 0)
    BY <1>5 DEF IssuedWithinBounds
  <2>3. CASE i = n + 1
    BY <1>5, <2>2, <2>3
  <2>4. CASE i # n + 1
    <3>1. i \in 1..n
      BY <1>1, <2>4
    <3> QED
      BY <1>5, <3>1 DEF IndInv, IssuedWithinBounds
  <2> QED
    BY <2>3, <2>4
<1> QED
  BY <1>4, <1>7, <1>8, <1>9, <1>10, <1>11, <1>12 DEF IndInv

-----------------------------------------------------------------------------
(* What the caller that commits may assume about its state.                *)
LEMMA AdvanceCommitKeepsIndInv ==
    ASSUME IndInv, NEW c \in Callers, NEW g,
           g \in GeneratorState,
           StampOf(g) = StampOf(gen),
           g.lastMillis + g.overCostRemaining <= peak + OverCostLimit,
           wall >= EpochMillis,
           ~Exhausted(g, wall),
           \A d \in Callers : Waiting(d) => d = c,
           Settle(c, Advance(g, wall))
    PROVE  IndInv'
<1> DEFINE k == SkipZero(Advance(g, wall))
<1>1. wall \in Nat /\ peak \in Nat /\ wall <= peak
  BY DEF IndInv, TypeOK
<1>2. /\ k \in GeneratorState
      /\ Before(StampOf(gen), StampOf(k))
      /\ k.lastMillis >= EpochMillis
      /\ k.lastMillis + k.overCostRemaining <= peak + OverCostLimit
  BY <1>1, AdvanceGrows
<1>3. ~(k.lastMillis = EpochMillis /\ NodeCode = 0 /\ k.sequence = 0)
  BY AdvanceGrows, SkipZeroNonZero, <1>1
<1>4. CASE Commit(c, k)
  <2> HIDE DEF k
  <2> QED
    BY <1>2, <1>3, <1>4, CommitKeepsIndInv
<1>5. CASE Refuse(c, k)
  BY <1>5, FailKeepsIndInv DEF Refuse
<1> QED
  BY <1>4, <1>5 DEF Settle

LEMMA RestartCommitKeepsIndInv ==
    ASSUME IndInv, NEW c \in Callers,
           wall > gen.lastMillis, wall >= EpochMillis,
           \A d \in Callers : Waiting(d) => d = c,
           Settle(c, Restart(wall))
    PROVE  IndInv'
<1>1. gen \in GeneratorState /\ wall \in Nat /\ peak \in Nat /\ wall <= peak
  BY DEF IndInv, TypeOK
<1>2. ~Exhausted(gen, wall) /\ Advance(gen, wall) = Restart(wall)
  BY <1>1, Fields DEF Exhausted, Advance
<1>3. gen.lastMillis + gen.overCostRemaining <= peak + OverCostLimit
  BY DEF IndInv, BoundedLead
<1> QED
  BY <1>1, <1>2, <1>3, AdvanceCommitKeepsIndInv

(* A generator that has issued something stands past the epoch.            *)
LEMMA UsedStatePastEpoch ==
    ASSUME IndInv, gen.lastMillis # 0
    PROVE  gen.lastMillis >= EpochMillis
<1>1. NewGenerator.lastMillis = 0
  BY DEF NewGenerator, Restart, OnClock
<1>2. issued # <<>> /\ StampOf(gen) = issued[Len(issued)].stamp
  BY <1>1 DEF IndInv, StateIsLastIssued
<1>3. Len(issued) \in 1..Len(issued)
  BY <1>2 DEF IndInv, TypeOK
<1>4. issued[Len(issued)].stamp.ts >= EpochMillis
  BY <1>3 DEF IndInv, IssuedWithinBounds
<1> QED
  BY <1>2, <1>4 DEF StampOf

(* Time passing or the wall clock being set.                               *)
LEMMA ClockKeepsIndInv ==
    ASSUME IndInv,
           wall' \in Nat, mono' \in Nat, peak' \in Nat, adjusts' \in Nat,
           wall' <= peak', peak <= peak',
           UNCHANGED <<gen, pc, window, wakeAt, issued>>
    PROVE  IndInv'
<1>1. /\ peak \in Nat /\ issued \in Seq(Issued)
      /\ gen.lastMillis \in Nat /\ gen.overCostRemaining \in Nat
  BY Fields DEF IndInv, TypeOK
<1>2. \A i \in 1..Len(issued) : issued[i].stamp.ts \in Nat
  BY <1>1, IssuedStamps DEF Stamp
<1>3. BoundedLead'
  BY <1>1, <1>2, GeneratorAssumption DEF IndInv, BoundedLead, GeneratorAssumption
<1> QED
  BY <1>3
  DEF IndInv, TypeOK, SleeperState, Waiting, StateIsLastIssued, StrictlyIncreasing,
      IssuedWithinBounds

-----------------------------------------------------------------------------
LEMMA NextKeepsIndInv == IndInv /\ [Next]_vars => IndInv'
<1> SUFFICES ASSUME IndInv, [Next]_vars PROVE IndInv'
  OBVIOUS
<1>1. /\ gen \in GeneratorState /\ wall \in Nat /\ peak \in Nat /\ mono \in Nat
      /\ wakeAt \in Nat /\ adjusts \in Nat
      /\ pc \in [Callers -> Positions]
      /\ window \in [Callers -> [floor : Nat, fence : Nat]]
      /\ gen.lastMillis + gen.overCostRemaining <= peak + OverCostLimit
      /\ gen.lastMillis \in Nat /\ wall <= peak
  BY Fields DEF IndInv, TypeOK, BoundedLead
<1>2. ASSUME NEW c \in Callers, CanLock(c)
      PROVE  \A d \in Callers : Waiting(d) => d = c
  BY <1>2 DEF CanLock, Locked
<1>3. ASSUME NEW c \in Callers, Waiting(c)
      PROVE  \A d \in Callers : Waiting(d) => d = c
  BY <1>3 DEF IndInv, SleeperState
<1>4. CASE UNCHANGED vars
  BY <1>4
  DEF vars, IndInv, TypeOK, SleeperState, Waiting, StateIsLastIssued, StrictlyIncreasing,
      BoundedLead, IssuedWithinBounds
<1>5. CASE Tick
  <2>1. /\ wall' \in Nat /\ mono' \in Nat /\ peak' \in Nat
        /\ wall' <= peak' /\ peak <= peak'
    BY <1>1, <1>5 DEF Tick, PeakOf
  <2> QED
    BY <1>1, <1>5, <2>1, ClockKeepsIndInv DEF Tick
<1>6. CASE SetWallClock
  <2>1. /\ wall' \in Nat /\ mono' \in Nat /\ peak' \in Nat /\ adjusts' \in Nat
        /\ wall' <= peak' /\ peak <= peak'
    BY <1>1, <1>6 DEF SetWallClock, PeakOf
  <2> QED
    BY <1>6, <2>1, ClockKeepsIndInv DEF SetWallClock
<1>7. ASSUME NEW c \in Callers, Invoke(c) PROVE IndInv'
  <2>1. /\ pc' = [pc EXCEPT ![c] = "locking"]
        /\ UNCHANGED <<gen, wakeAt, clocks, issued>>
    BY <1>7 DEF Invoke
  <2>2. window' \in [Callers -> [floor : Nat, fence : Nat]]
    <3>1. PICK w \in {NoWindow} \cup {v \in Windows : ValidWindow(v)} :
                 window' = [window EXCEPT ![c] = w]
      BY <1>7 DEF Invoke
    <3>2. w \in [floor : Nat, fence : Nat]
      BY <3>1, CallAssumption DEF CallAssumption, NoWindow
    <3> QED
      BY <1>1, <3>1, <3>2
  <2>3. pc' \in [Callers -> Positions] /\ \A d \in Callers : Waiting(d)' => Waiting(d)
    BY <1>1, <2>1 DEF Positions, Waiting
  <2>4. SleeperState'
    BY <1>1, <1>7, <2>1, <2>3 DEF IndInv, SleeperState, Invoke
  <2> QED
    BY <2>1, <2>2, <2>3, <2>4
    DEF IndInv, TypeOK, clocks, StateIsLastIssued, StrictlyIncreasing, BoundedLead,
        IssuedWithinBounds
<1>8. ASSUME NEW c \in Callers, EnterNext(c) PROVE IndInv'
  <2>1. CASE RejectClock(c)
    BY <2>1, FailKeepsIndInv DEF RejectClock
  <2>2. CASE WaitForRollback(c)
    <3>1. /\ gen.lastMillis # 0 /\ gen.overCostActive = FALSE
          /\ \A d \in Callers : Waiting(d) => d = c
      BY <1>1, <1>2, <2>2, Fields DEF WaitForRollback, Behind
    <3>2. gen.lastMillis >= EpochMillis
      BY <3>1, UsedStatePastEpoch
    <3> QED
      BY <1>1, <2>2, <3>1, <3>2, SleepKeepsIndInv DEF WaitForRollback, Sleep
  <2>3. CASE WaitForNextMillis(c)
    <3>1. CatchUp(gen, wall).lastMillis = gen.lastMillis
      BY <1>1, CatchUpKeepsStamp
    <3>2. gen.lastMillis >= EpochMillis
      BY <1>1, <2>3, <3>1, GeneratorAssumption
      DEF WaitForNextMillis, Exhausted, GeneratorAssumption
    <3>3. \A d \in Callers : Waiting(d) => d = c
      BY <1>2, <2>3 DEF WaitForNextMillis
    <3> QED
      BY <1>1, <2>3, <3>2, <3>3, SleepKeepsIndInv DEF WaitForNextMillis, Sleep
  <2>4. CASE IssueAtOnce(c)
    <3> DEFINE g == CatchUp(gen, wall)
    <3>1. /\ g \in GeneratorState
          /\ StampOf(g) = StampOf(gen)
          /\ g.lastMillis + g.overCostRemaining <= peak + OverCostLimit
      BY <1>1, CatchUpKeepsStamp
    <3>2. wall >= EpochMillis /\ ~Exhausted(g, wall) /\ Settle(c, Advance(g, wall))
      BY <2>4 DEF IssueAtOnce
    <3>3. \A d \in Callers : Waiting(d) => d = c
      BY <1>2, <2>4 DEF IssueAtOnce
    <3> HIDE DEF g
    <3> QED
      BY <3>1, <3>2, <3>3, AdvanceCommitKeepsIndInv
  <2> QED
    BY <1>8, <2>1, <2>2, <2>3, <2>4 DEF EnterNext
<1>9. ASSUME NEW c \in Callers, SleepUntil(c) PROVE IndInv'
  <2>1. wakeAt' \in Nat
    <3>1. SleepTarget(c) \in Nat
      BY <1>1 DEF SleepTarget
    <3> QED
      BY <1>1, <1>9, <3>1 DEF SleepUntil, NoTimer
  <2> QED
    BY <1>9, <2>1
    DEF SleepUntil, IndInv, TypeOK, clocks, SleeperState, Waiting, StateIsLastIssued,
        StrictlyIncreasing, BoundedLead, IssuedWithinBounds
<1>10. ASSUME NEW c \in Callers, CancelSleep(c) PROVE IndInv'
  BY <1>10, FailKeepsIndInv DEF CancelSleep
<1>11. ASSUME NEW c \in Callers, Resume(c) PROVE IndInv'
  <2>1. CASE StillBehind(c)
    BY <2>1, FailKeepsIndInv DEF StillBehind
  <2>2. CASE WaitAgain(c)
    <3>1. gen.lastMillis >= EpochMillis /\ \A d \in Callers : Waiting(d) => d = c
      BY <1>3, <2>2 DEF WaitAgain, Woken, IndInv, SleeperState
    <3> QED
      BY <2>2, <3>1, SleepKeepsIndInv DEF WaitAgain, NotArmed
  <2>3. CASE IssueAfterRollback(c)
    <3>1. gen.lastMillis >= EpochMillis /\ \A d \in Callers : Waiting(d) => d = c
      BY <1>3, <2>3 DEF IssueAfterRollback, Woken, IndInv, SleeperState
    <3>2. wall >= EpochMillis
      BY <1>1, <2>3, <3>1, GeneratorAssumption
      DEF IssueAfterRollback, SleepTarget, GeneratorAssumption
    <3> QED
      BY <1>1, <2>3, <3>1, <3>2, AdvanceCommitKeepsIndInv DEF IssueAfterRollback
  <2>4. CASE IssueAfterOverflow(c)
    <3>1. gen.lastMillis >= EpochMillis /\ \A d \in Callers : Waiting(d) => d = c
      BY <1>3, <2>4 DEF IssueAfterOverflow, Woken, IndInv, SleeperState
    <3>2. wall > gen.lastMillis /\ wall >= EpochMillis
      BY <1>1, <2>4, <3>1, GeneratorAssumption
      DEF IssueAfterOverflow, SleepTarget, GeneratorAssumption
    <3> QED
      BY <2>4, <3>1, <3>2, RestartCommitKeepsIndInv DEF IssueAfterOverflow
  <2> QED
    BY <1>11, <2>1, <2>2, <2>3, <2>4 DEF Resume
<1> QED
  BY <1>4, <1>5, <1>6, <1>7, <1>8, <1>9, <1>10, <1>11 DEF Next

-----------------------------------------------------------------------------
(* IndInv holds in every reachable state.                                  *)
THEOREM GeneratorInvariant == Spec => []IndInv
<1> QED
  BY InitIndInv, NextKeepsIndInv, PTL DEF Spec

(* Every variable keeps its type.                                          *)
THEOREM GeneratorTypeOK == Spec => []TypeOK
<1>1. IndInv => TypeOK
  BY DEF IndInv
<1> QED
  BY <1>1, GeneratorInvariant, PTL

(* Generator.next never returns two equal IDs, nor a smaller one later,    *)
(* whatever the wall clock does and however many callers there are.        *)
THEOREM GeneratorStrictlyIncreasing == Spec => []StrictlyIncreasing
<1>1. IndInv => StrictlyIncreasing
  BY DEF IndInv
<1> QED
  BY <1>1, GeneratorInvariant, PTL

(* Over-cost mode never runs more than OverCostCount milliseconds ahead of *)
(* the highest clock there has been.                                       *)
THEOREM GeneratorBoundedLead == Spec => []BoundedLead
<1>1. IndInv => BoundedLead
  BY DEF IndInv
<1> QED
  BY <1>1, GeneratorInvariant, PTL

(* A failed or cancelled call leaves the state of the last issued ID.      *)
THEOREM GeneratorStateIsLastIssued == Spec => []StateIsLastIssued
<1>1. IndInv => StateIsLastIssued
  BY DEF IndInv
<1> QED
  BY <1>1, GeneratorInvariant, PTL

(* No ID leaves its caller's window or the encodable range.                *)
THEOREM GeneratorIssuedWithinBounds == Spec => []IssuedWithinBounds
<1>1. IndInv => IssuedWithinBounds
  BY DEF IndInv
<1> QED
  BY <1>1, GeneratorInvariant, PTL

-----------------------------------------------------------------------------
(* The IDs of the stamps.  The invariant lets only stamps through that     *)
(* Compose takes.                                                          *)
LEMMA IssuedEncodable ==
    ASSUME IndInv, NEW i \in 1..Len(issued)
    PROVE  Encodable(issued[i].stamp)
<1>1. issued[i].stamp \in Stamp
  BY IssuedStamps DEF IndInv, TypeOK
<1> QED
  BY <1>1 DEF IndInv, IssuedWithinBounds, Encodable

(* The int64s that Generator.next returns grow strictly, in the order they *)
(* are returned, and Compose never fails under it.                         *)
THEOREM GeneratorIDsGrow == Spec => []IDsGrow
<1>1. IndInv => IDsGrow
  <2> SUFFICES ASSUME IndInv, NEW j \in 1..Len(issued)
               PROVE  /\ IDAt(j).err = "nil" /\ IDAt(j).id > 0
                      /\ \A i \in 1..(j - 1) : IDAt(i).id < IDAt(j).id
    BY DEF IDsGrow
  <2>1. IDAt(j).err = "nil" /\ IDAt(j).id \in 1..MaxInt64
    BY IssuedEncodable, EncodableComposes DEF IDAt
  <2>2. IDAt(j).id > 0
    BY <2>1, Widths
  <2>3. ASSUME NEW i \in 1..(j - 1) PROVE IDAt(i).id < IDAt(j).id
    <3>1. i \in 1..Len(issued) /\ i < j
      BY DEF IndInv, TypeOK
    <3>2. Before(issued[i].stamp, issued[j].stamp)
      BY <3>1 DEF IndInv, StrictlyIncreasing
    <3> QED
      BY <3>1, <3>2, IssuedEncodable, IDsFollowOrder DEF IDAt
  <2> QED
    BY <2>1, <2>2, <2>3
<1> QED
  BY <1>1, GeneratorInvariant, PTL

(* A lead of OverCostCount milliseconds, given to DecodeStrict in          *)
(* nanoseconds, is that many milliseconds again.                           *)
LEMMA PatienceMillis ==
    /\ OverCostLimit \in Nat /\ Patience \in Nat
    /\ LeadMillis(Patience) = OverCostLimit
<1>1. OverCostLimit \in Nat /\ NanosPerMilli \in Nat /\ NanosPerMilli > 0
  BY GeneratorAssumption, WidthAssumption DEF GeneratorAssumption, WidthAssumption
<1>2. Patience \in Nat /\ Patience = NanosPerMilli * OverCostLimit + 0
  BY <1>1, SMTT(20) DEF Patience
<1>3. (NanosPerMilli * OverCostLimit + 0) \div NanosPerMilli = OverCostLimit
  BY <1>1, DivModUnique
<1> QED
  BY <1>1, <1>2, <1>3 DEF LeadMillis

(* Readers who allow the lead the guide asks for get every ID's parts.     *)
THEOREM GeneratorIDsReadBack == Spec => []IDsReadBack
<1>1. IndInv => IDsReadBack
  <2> SUFFICES ASSUME IndInv, peak > 0, peak + OverCostLimit <= MaxInt64,
                      Patience <= MaxInt64, NEW i \in 1..Len(issued)
               PROVE  LET read == DecodeStrict(IDAt(i).id, EpochMillis, peak, Patience) IN
                      /\ read.err = "nil"
                      /\ read.parts = [ ts     |-> issued[i].stamp.ts,
                                        nodeID |-> NodeCode + 1,
                                        seq    |-> issued[i].stamp.seq ]
    BY DEF IDsReadBack
  <2> DEFINE s == issued[i].stamp
             id == IDAt(i).id
  <2>1. Encodable(s) /\ id = IDOf(s).id
    BY IssuedEncodable DEF IDAt
  <2>2. DecodeError(id, EpochMillis) = "nil"
    BY <2>1, EncodableComposes
  <2>3. /\ Parts(id, EpochMillis).ts = s.ts
        /\ Parts(id, EpochMillis).nodeID = NodeCode + 1
        /\ Parts(id, EpochMillis).seq = s.seq
    BY <2>1, EncodableComposes
  <2>4. s.ts \in Nat /\ s.ts <= peak + OverCostLimit /\ peak \in Nat
    BY <2>1 DEF IndInv, TypeOK, BoundedLead, Encodable, Stamp
  <2> HIDE DEF s, id
  <2>5. StrictError(id, EpochMillis, peak, Patience) = "nil"
    <3>1. /\ ~(peak <= 0 \/ Patience < 0)
          /\ ~(peak > MaxInt64 - LeadMillis(Patience))
          /\ ~(Parts(id, EpochMillis).ts > peak + LeadMillis(Patience))
      BY <2>3, <2>4, PatienceMillis, Widths
    <3> QED
      BY <2>2, <3>1 DEF StrictError
  <2>6. Parts(id, EpochMillis) = [ts |-> s.ts, nodeID |-> NodeCode + 1, seq |-> s.seq]
    BY <2>3 DEF Parts
  <2> QED
    BY <2>5, <2>6 DEF DecodeStrict, PartsUnless, s, id
<1> QED
  BY <1>1, GeneratorInvariant, PTL

-----------------------------------------------------------------------------
(* What a step that issues an ID shows of the clock.                       *)
LEMMA IssueFollowsClock ==
    ASSUME IndInv, Next, issued' # issued
    PROVE  IF gen'.overCostActive THEN gen'.lastMillis > wall
                                  ELSE gen'.lastMillis = wall
<1>1. gen \in GeneratorState /\ wall \in Nat /\ peak \in Nat /\ wall <= peak
      /\ gen.lastMillis + gen.overCostRemaining <= peak + OverCostLimit
      /\ gen.lastMillis \in Nat /\ gen.overCostActive \in BOOLEAN
  BY Fields DEF IndInv, TypeOK, BoundedLead
<1>2. PICK c \in Callers : IssueAtOnce(c) \/ IssueAfterRollback(c) \/ IssueAfterOverflow(c)
  BY DEF Next, Tick, SetWallClock, Invoke, EnterNext, RejectClock, WaitForRollback,
         WaitForNextMillis, SleepUntil, CancelSleep, Resume, StillBehind, WaitAgain, Fail, Sleep
<1>3. ASSUME NEW g, Settle(c, g) PROVE gen' = SkipZero(g)
  BY <1>3 DEF Settle, Commit, Refuse, Fail
<1>4. CASE IssueAtOnce(c)
  <2> DEFINE g == CatchUp(gen, wall)
  <2>1. /\ g \in GeneratorState
        /\ g.lastMillis = gen.lastMillis
        /\ g.overCostActive => wall < g.lastMillis
    BY <1>1, CatchUpKeepsStamp
  <2>2. g.overCostActive = FALSE => wall >= g.lastMillis
    <3>1. CASE gen.overCostActive
      BY <1>1, <2>1, <3>1 DEF CatchUp
    <3>2. CASE ~gen.overCostActive
      BY <1>1, <1>4, <2>1, <3>2 DEF IssueAtOnce, Behind
    <3> QED
      BY <3>1, <3>2
  <2>3. wall >= EpochMillis /\ ~Exhausted(g, wall) /\ gen' = SkipZero(Advance(g, wall))
    BY <1>3, <1>4 DEF IssueAtOnce
  <2> HIDE DEF g
  <2> QED
    BY <1>1, <2>1, <2>2, <2>3, AdvanceFlag, Fields
<1>5. CASE IssueAfterRollback(c)
  <2>1. /\ gen.overCostActive = FALSE
        /\ gen.lastMillis >= EpochMillis
        /\ wall >= gen.lastMillis
        /\ ~Exhausted(gen, wall)
        /\ gen' = SkipZero(Advance(gen, wall))
    BY <1>3, <1>5 DEF IssueAfterRollback, Woken, SleepTarget, IndInv, SleeperState
  <2>2. wall >= EpochMillis
    BY <1>1, <2>1, GeneratorAssumption DEF GeneratorAssumption
  <2> QED
    BY <1>1, <2>1, <2>2, AdvanceFlag
<1>6. CASE IssueAfterOverflow(c)
  <2>1. gen' = SkipZero(Restart(wall)) /\ wall > gen.lastMillis
        /\ gen.lastMillis >= EpochMillis
    BY <1>1, <1>3, <1>6
    DEF IssueAfterOverflow, Woken, SleepTarget, IndInv, SleeperState
  <2>2. wall >= EpochMillis
    BY <1>1, <2>1, GeneratorAssumption DEF GeneratorAssumption
  <2> QED
    BY <1>1, <2>1, <2>2, RestartGrows
<1> QED
  BY <1>2, <1>4, <1>5, <1>6

(* Outside over-cost mode an ID carries the clock of its return.           *)
THEOREM GeneratorAheadOnlyInOverCost == Spec => AheadOnlyInOverCost
<1>1. IndInv /\ [Next]_vars =>
          [issued' # issued =>
              IF gen'.overCostActive THEN gen'.lastMillis > wall
                                     ELSE gen'.lastMillis = wall]_vars
  BY IssueFollowsClock
<1> QED
  BY <1>1, GeneratorInvariant, PTL DEF Spec, AheadOnlyInOverCost

-----------------------------------------------------------------------------
(* The refinement of IDStream: issuing emits, a new clock maximum is       *)
(* observed, everything else stutters.                                     *)
LEMMA StampsOf ==
    ASSUME NEW s \in Seq(Issued)
    PROVE  LET r == [i \in 1..Len(s) |-> s[i].stamp] IN
           /\ r \in Seq(Stamp)
           /\ Len(r) = Len(s)
           /\ \A i \in 1..Len(s) : r[i] = s[i].stamp
<1>1. \A i \in 1..Len(s) : s[i].stamp \in Stamp
  BY IssuedStamps
<1> QED
  BY <1>1

LEMMA PeakGrows ==
    ASSUME IndInv, [Next]_vars
    PROVE  peak' >= peak
<1>1. peak \in Nat /\ wall \in Nat
  BY DEF IndInv, TypeOK
<1>2. CASE Tick \/ SetWallClock
  BY <1>1, <1>2 DEF Tick, SetWallClock, PeakOf
<1>3. CASE UNCHANGED vars
  BY <1>1, <1>3 DEF vars
<1>4. ASSUME NEW c \in Callers,
             Invoke(c) \/ EnterNext(c) \/ SleepUntil(c) \/ CancelSleep(c) \/ Resume(c)
      PROVE  peak' = peak
  BY <1>4
  DEF Invoke, EnterNext, RejectClock, WaitForRollback, WaitForNextMillis, IssueAtOnce,
      SleepUntil, CancelSleep, Resume, StillBehind, WaitAgain, IssueAfterRollback,
      IssueAfterOverflow, Fail, Sleep, Settle, Commit, Refuse, clocks
<1> QED
  BY <1>1, <1>2, <1>3, <1>4 DEF Next

AbstractStamp == [ts : Nat, seq : Nat]

LEMMA StampIsAbstract == Stamp \subseteq AbstractStamp
PROOF BY GeneratorAssumption DEF Stamp, AbstractStamp, GeneratorAssumption

LEMMA StreamInitHolds == Init => Stream!StreamInit
<1> SUFFICES ASSUME Init PROVE Stream!StreamInit
  OBVIOUS
<1>1. issued = <<>> /\ peak \in Nat
  BY CallAssumption DEF Init, CallAssumption
<1>2. issued \in Seq(Issued) /\ Len(issued) = 0
  BY <1>1
<1>3. stampsIssued \in Seq(Stamp) /\ Len(stampsIssued) = 0
  BY <1>2, StampsOf DEF stampsIssued
<1>4. stampsIssued = <<>>
  BY <1>3
<1> QED
  BY <1>1, <1>4 DEF Stream!StreamInit

LEMMA IssueAppends ==
    ASSUME IndInv, Next, issued' # issued
    PROVE  peak' = peak /\ \E e \in Issued : issued' = Append(issued, e)
<1>1. PICK c \in Callers : IssueAtOnce(c) \/ IssueAfterRollback(c) \/ IssueAfterOverflow(c)
  BY DEF Next, Tick, SetWallClock, Invoke, EnterNext, RejectClock, WaitForRollback,
         WaitForNextMillis, SleepUntil, CancelSleep, Resume, StillBehind, WaitAgain, Fail, Sleep
<1>2. PICK g : Settle(c, g)
  BY <1>1 DEF IssueAtOnce, IssueAfterRollback, IssueAfterOverflow
<1>3. Commit(c, SkipZero(g))
  BY <1>2 DEF Settle, Refuse, Fail
<1> DEFINE e == EntryOf(SkipZero(g), window[c])
<1>4. peak' = peak /\ issued' = Append(issued, e)
  BY <1>3 DEF Commit, clocks
<1>5. issued \in Seq(Issued) /\ issued' \in Seq(Issued)
  BY NextKeepsIndInv DEF IndInv, TypeOK
<1> HIDE DEF e
<1>6. e \in Issued
  <2>1. issued'[Len(issued')] = e /\ Len(issued') \in 1..Len(issued')
    BY <1>4, <1>5
  <2> QED
    BY <1>5, <2>1
<1> QED
  BY <1>4, <1>6

LEMMA StepImplementsStream ==
    ASSUME IndInv, [Next]_vars
    PROVE  [Stream!StreamNext]_(Stream!streamVars)
<1>1. /\ IndInv' /\ peak \in Nat /\ peak' \in Nat
      /\ issued \in Seq(Issued) /\ issued' \in Seq(Issued)
  BY NextKeepsIndInv DEF IndInv, TypeOK
<1>2. CASE issued' = issued
  <2>1. stampsIssued' = stampsIssued
    BY <1>2 DEF stampsIssued
  <2>2. peak' >= peak
    BY PeakGrows
  <2>3. CASE peak' = peak
    BY <2>1, <2>3 DEF Stream!streamVars
  <2>4. CASE peak' # peak
    BY <1>1, <2>1, <2>2, <2>4 DEF Stream!StreamNext, Stream!Observe
  <2> QED
    BY <2>3, <2>4
<1>3. CASE issued' # issued
  <2>1. Next
    BY <1>3 DEF vars
  <2>2. peak' = peak
    BY <1>3, <2>1, IssueAppends
  <2>3. PICK e \in Issued : issued' = Append(issued, e)
    BY <1>3, <2>1, IssueAppends
  <2> DEFINE n == Len(issued)
  <2>4. /\ n \in Nat /\ Len(issued') = n + 1
        /\ issued'[n + 1] = e /\ \A i \in 1..n : issued'[i] = issued[i]
    BY <1>1, <2>3
  <2>5. /\ stampsIssued \in Seq(Stamp) /\ Len(stampsIssued) = n
        /\ \A i \in 1..n : stampsIssued[i] = issued[i].stamp
    BY <1>1, StampsOf DEF stampsIssued
  <2>6. /\ stampsIssued' \in Seq(Stamp) /\ Len(stampsIssued') = n + 1
        /\ \A i \in 1..n + 1 : stampsIssued'[i] = issued'[i].stamp
    BY <1>1, <2>4, StampsOf DEF stampsIssued
  <2>7. stampsIssued'[n + 1] = e.stamp /\ e.stamp \in Stamp
    BY <2>4, <2>6 DEF Issued
  <2>8. stampsIssued' = Append(stampsIssued, e.stamp)
    BY <2>4, <2>5, <2>6, <2>7
  <2>9. stampsIssued # <<>> => Stream!Earlier(stampsIssued[n], e.stamp)
    <3> SUFFICES ASSUME stampsIssued # <<>>
                 PROVE  Stream!Earlier(stampsIssued[n], e.stamp)
      OBVIOUS
    <3>1. n \in 1..n + 1 /\ n \in 1..n /\ n < n + 1
      BY <2>4, <2>5
    <3>2. Before(issued'[n].stamp, issued'[n + 1].stamp)
      BY <1>1, <2>4, <3>1 DEF IndInv, StrictlyIncreasing
    <3> QED
      BY <2>4, <2>5, <3>1, <3>2 DEF Before, Stream!Earlier
  <2>10. e.stamp.ts <= peak + OverCostLimit
    BY <1>1, <2>2, <2>4 DEF IndInv, BoundedLead
  <2>11. Stream!Emit(e.stamp)
    <3>1. e.stamp \in [ts : Nat, seq : Nat]
      BY <2>7, StampIsAbstract DEF AbstractStamp
    <3> QED
      BY <2>2, <2>5, <2>8, <2>9, <2>10, <3>1 DEF Stream!Emit
  <2>12. n + 1 \in DOMAIN stampsIssued'
    BY <2>4, <2>6
  <2> QED
    BY <2>7, <2>11, <2>12 DEF Stream!StreamNext
<1> QED
  BY <1>2, <1>3

(* Generator implements the abstract stream of growing, bounded stamps.    *)
THEOREM GeneratorImplementsIDStream == Spec => ImplementsIDStream
<1>1. IndInv /\ [Next]_vars => [Stream!StreamNext]_(Stream!streamVars)
  BY StepImplementsStream
<1> QED
  BY <1>1, StreamInitHolds, GeneratorInvariant, PTL
  DEF Spec, ImplementsIDStream, Stream!StreamSpec

-----------------------------------------------------------------------------
(* What IDStream promises follows from its own two actions: nothing in     *)
(* this part looks at Generator.                                           *)
StreamInv ==
    /\ stampsIssued \in Seq(AbstractStamp)
    /\ peak \in Nat
    /\ Stream!OrderedWithinLead

LEMMA EarlierTransitive ==
    ASSUME NEW a \in AbstractStamp, NEW b \in AbstractStamp, NEW c \in AbstractStamp,
           Stream!Earlier(a, b), Stream!Earlier(b, c)
    PROVE  Stream!Earlier(a, c)
PROOF BY DEF AbstractStamp, Stream!Earlier

LEMMA ObserveKeeps ==
    ASSUME StreamInv, Stream!Observe
    PROVE  StreamInv'
<1>1. /\ peak' \in Nat /\ peak' > peak /\ peak \in Nat
      /\ stampsIssued' = stampsIssued
      /\ stampsIssued \in Seq(AbstractStamp)
  BY DEF StreamInv, Stream!Observe
<1>2. Stream!OrderedWithinLead'
  <2> SUFFICES ASSUME NEW i \in 1..Len(stampsIssued)
               PROVE  stampsIssued[i].ts <= peak' + OverCostLimit
    BY <1>1 DEF StreamInv, Stream!OrderedWithinLead
  <2>1. stampsIssued[i] \in AbstractStamp /\ stampsIssued[i].ts <= peak + OverCostLimit
    BY <1>1 DEF StreamInv, Stream!OrderedWithinLead
  <2>2. stampsIssued[i].ts \in Nat /\ OverCostLimit \in Nat
    BY <2>1, GeneratorAssumption DEF AbstractStamp, GeneratorAssumption
  <2> QED
    BY <1>1, <2>1, <2>2
<1> QED
  BY <1>1, <1>2 DEF StreamInv

LEMMA EmitKeeps ==
    ASSUME StreamInv, NEW s, Stream!Emit(s)
    PROVE  StreamInv'
<1> DEFINE n == Len(stampsIssued)
<1>1. /\ s \in AbstractStamp
      /\ stampsIssued # <<>> => Stream!Earlier(stampsIssued[n], s)
      /\ s.ts <= peak + OverCostLimit
      /\ stampsIssued' = Append(stampsIssued, s)
      /\ peak' = peak /\ peak \in Nat
      /\ stampsIssued \in Seq(AbstractStamp) /\ n \in Nat
  BY DEF StreamInv, Stream!Emit, AbstractStamp
<1>2. /\ stampsIssued' \in Seq(AbstractStamp)
      /\ Len(stampsIssued') = n + 1 /\ stampsIssued'[n + 1] = s
      /\ \A i \in 1..n : stampsIssued'[i] = stampsIssued[i]
  BY <1>1
<1>3. \A i \in 1..n : Stream!Earlier(stampsIssued[i], s)
  <2> SUFFICES ASSUME NEW i \in 1..n PROVE Stream!Earlier(stampsIssued[i], s)
    OBVIOUS
  <2>1. /\ n \in 1..n /\ stampsIssued # <<>>
        /\ stampsIssued[i] \in AbstractStamp /\ stampsIssued[n] \in AbstractStamp
    BY <1>1
  <2>2. Stream!Earlier(stampsIssued[n], s)
    BY <1>1, <2>1
  <2>3. CASE i = n
    BY <2>2, <2>3
  <2>4. CASE i # n
    <3>1. i < n
      BY <1>1, <2>4
    <3>2. Stream!Earlier(stampsIssued[i], stampsIssued[n])
      BY <2>1, <3>1 DEF StreamInv, Stream!OrderedWithinLead
    <3> QED
      BY <1>1, <2>1, <2>2, <3>2, EarlierTransitive
  <2> QED
    BY <2>3, <2>4
<1>4. ASSUME NEW i \in 1..Len(stampsIssued'), NEW j \in 1..Len(stampsIssued'), i < j
      PROVE  Stream!Earlier(stampsIssued'[i], stampsIssued'[j])
  <2>1. i \in 1..n
    BY <1>1, <1>2, <1>4
  <2>2. CASE j \in 1..n
    BY <1>2, <1>4, <2>1, <2>2 DEF StreamInv, Stream!OrderedWithinLead
  <2>3. CASE j = n + 1
    BY <1>2, <1>3, <2>1, <2>3
  <2> QED
    BY <1>1, <1>2, <2>2, <2>3
<1>5. ASSUME NEW i \in 1..Len(stampsIssued') PROVE stampsIssued'[i].ts <= peak' + OverCostLimit
  <2>1. CASE i \in 1..n
    BY <1>1, <1>2, <2>1 DEF StreamInv, Stream!OrderedWithinLead
  <2>2. CASE i = n + 1
    BY <1>1, <1>2, <2>2
  <2> QED
    BY <1>1, <1>2, <2>1, <2>2
<1>6. Stream!OrderedWithinLead'
  BY <1>4, <1>5 DEF Stream!OrderedWithinLead
<1> QED
  BY <1>1, <1>2, <1>6 DEF StreamInv

(* The abstract stream keeps its promise: whatever only ever appends a     *)
(* stamp later than its last one, within the lead of the highest clock     *)
(* reading so far, hands out ordered stamps within the lead of the clock   *)
(* (Generator.NextWithin under any callers).                               *)
THEOREM IDStreamKeepsItsPromise ==
    Stream!StreamSpec => []Stream!OrderedWithinLead
<1>1. Stream!StreamInit => StreamInv
  BY DEF Stream!StreamInit, StreamInv, Stream!OrderedWithinLead
<1>2. StreamInv /\ [Stream!StreamNext]_(Stream!streamVars) => StreamInv'
  <2> SUFFICES ASSUME StreamInv, [Stream!StreamNext]_(Stream!streamVars) PROVE StreamInv'
    OBVIOUS
  <2>1. CASE UNCHANGED Stream!streamVars
    BY <2>1 DEF Stream!streamVars, StreamInv, Stream!OrderedWithinLead
  <2>2. CASE Stream!StreamNext
    BY <2>2, ObserveKeeps, EmitKeeps DEF Stream!StreamNext
  <2> QED
    BY <2>1, <2>2
<1>3. StreamInv => Stream!OrderedWithinLead
  BY DEF StreamInv
<1> QED
  BY <1>1, <1>2, <1>3, PTL DEF Stream!StreamSpec
=============================================================================
