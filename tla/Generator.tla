----------------------------- MODULE Generator ------------------------------
(***************************************************************************)
(* Concurrent callers of one in-process Generator (src/generator/idgen.go).*)
(* A call holds g.mu from its first clock reading to its return, also      *)
(* while it sleeps.  Between the steps of a call the monotonic clock       *)
(* advances and the wall clock may be set forwards or backwards.           *)
(*                                                                         *)
(* A sleeping call keeps no locals here: nobody else can change gen while  *)
(* it holds the mutex, and what it computed before the sleep is either     *)
(* equal to gen or overwritten after it.                                   *)
(***************************************************************************)
EXTENDS GeneratorOps, Sequences

CONSTANTS
    Callers,      \* goroutines that share the generator
    Windows,      \* the windows NextWithin is called with
    InitialWall,  \* wall clock when the generator is created
    MaxMono,      \* bound: no idle Tick past this monotonic instant
    MaxWall,      \* bound: the clock is never set past this value
    MaxAdjust,    \* bound: how often the wall clock is set
    MaxIssued     \* bound: no new call once this many IDs were issued

ASSUME CallAssumption ==
    /\ InitialWall \in Nat
    /\ \A w \in Windows : w \in [floor : Nat, fence : Nat]

VARIABLES
    gen,     \* the Generator's fields
    pc,      \* pc[c]: where caller c is in next()
    window,  \* window[c]: the bounds c passed
    wakeAt,  \* monotonic instant at which the mutex holder's sleep ends
    mono,    \* monotonic clock
    wall,    \* wall clock, what NowMillis returns
    peak,    \* history: highest wall clock so far
    adjusts, \* history: how often the wall clock was set
    issued   \* history: the IDs returned, in the order of return

vars == <<gen, pc, window, wakeAt, mono, wall, peak, adjusts, issued>>
clocks == <<mono, wall, peak, adjusts>>

Positions == {"idle", "locking", "rollback", "overflow"}

(* SleepUntil has not been entered; it found its target in the past.  Real *)
(* timers end later than both, for the monotonic clock starts at 1.        *)
NotArmed == 0
NoTimer == 1

(* An ID returned: its stamp, the over-cost mode the generator was left in,*)
(* and the bounds the caller had given.                                    *)
Issued == [stamp : Stamp, ahead : BOOLEAN, left : 0..OverCostLimit, floor : Nat, fence : Nat]

EntryOf(g, w) ==
    [ stamp |-> StampOf(g), ahead |-> g.overCostActive, left |-> g.overCostRemaining,
      floor |-> w.floor, fence |-> w.fence ]

TypeOK ==
    /\ gen \in GeneratorState
    /\ pc \in [Callers -> Positions]
    /\ window \in [Callers -> [floor : Nat, fence : Nat]]
    /\ wakeAt \in Nat
    /\ mono \in Nat
    /\ wall \in Nat
    /\ peak \in Nat
    /\ adjusts \in Nat
    /\ issued \in Seq(Issued)

Init ==
    /\ gen = NewGenerator
    /\ pc = [c \in Callers |-> "idle"]
    /\ window = [c \in Callers |-> NoWindow]
    /\ wakeAt = NotArmed
    /\ mono = 1
    /\ wall = InitialWall
    /\ peak = InitialWall
    /\ adjusts = 0
    /\ issued = <<>>

-----------------------------------------------------------------------------
Waiting(c) == pc[c] \in {"rollback", "overflow"}

Locked == \E c \in Callers : Waiting(c)

CanLock(c) == pc[c] = "locking" /\ ~Locked

(* Return from next(), releasing the mutex.                                *)
Return(c) ==
    /\ pc' = [pc EXCEPT ![c] = "idle"]
    /\ window' = [window EXCEPT ![c] = NoWindow]
    /\ wakeAt' = NotArmed

Fail(c) == Return(c) /\ UNCHANGED <<gen, clocks, issued>>

Sleep(c, why) ==
    /\ pc' = [pc EXCEPT ![c] = why]
    /\ UNCHANGED <<gen, window, wakeAt, clocks, issued>>

(* The end of a call: every check passes and the state is committed, or    *)
(* the call fails and leaves the generator as it found it.                 *)
Commit(c, g) ==
    /\ Issuable(g, window[c])
    /\ gen' = g
    /\ issued' = Append(issued, EntryOf(g, window[c]))
    /\ Return(c)
    /\ UNCHANGED clocks

(* Slip: the budget is counted down in the field, not in a local.          *)
RefuseOnBudget(c, g) ==
    /\ ~Issuable(g, window[c])
    /\ gen' = [gen EXCEPT !.overCostRemaining = g.overCostRemaining]
    /\ Return(c)
    /\ UNCHANGED <<clocks, issued>>

Refuse(c, g) == ~Issuable(g, window[c]) /\ Fail(c)

Settle(c, g) == Commit(c, SkipZero(g)) \/ Refuse(c, SkipZero(g))

-----------------------------------------------------------------------------
(* Next passes no window, NextWithin a valid one or fails at once.         *)
Invoke(c) ==
    /\ pc[c] = "idle"
    /\ Len(issued) < MaxIssued
    /\ \E w \in {NoWindow} \cup {v \in Windows : ValidWindow(v)} :
           window' = [window EXCEPT ![c] = w]
    /\ pc' = [pc EXCEPT ![c] = "locking"]
    /\ UNCHANGED <<gen, wakeAt, clocks, issued>>

(* The clock is too far behind, or it is before the epoch.                 *)
RejectClock(c) ==
    /\ CanLock(c)
    /\ IF Behind(gen, wall) THEN RollbackTooLarge(gen, wall) ELSE wall < EpochMillis
    /\ Fail(c)

WaitForRollback(c) ==
    /\ CanLock(c)
    /\ Behind(gen, wall)
    /\ ~RollbackTooLarge(gen, wall)
    /\ Sleep(c, "rollback")

WaitForNextMillis(c) ==
    /\ CanLock(c)
    /\ ~Behind(gen, wall)
    /\ wall >= EpochMillis
    /\ Exhausted(CatchUp(gen, wall), wall)
    /\ Sleep(c, "overflow")

IssueAtOnce(c) ==
    /\ CanLock(c)
    /\ ~Behind(gen, wall)
    /\ wall >= EpochMillis
    /\ LET g == CatchUp(gen, wall) IN
           ~Exhausted(g, wall) /\ Settle(c, Advance(g, wall))

-----------------------------------------------------------------------------
(* SleepUntil reads the wall clock once more to compute the delay and then *)
(* waits on a timer, which follows the monotonic clock.                    *)
SleepTarget(c) == IF pc[c] = "rollback" THEN gen.lastMillis ELSE gen.lastMillis + 1

(* Slip: a target that has passed already is waited for all the same.      *)
SleepUntilUnarmed(c) ==
    /\ Waiting(c)
    /\ wakeAt = NotArmed
    /\ SleepTarget(c) > wall
    /\ wakeAt' = mono + (SleepTarget(c) - wall)
    /\ UNCHANGED <<gen, pc, window, clocks, issued>>

SleepUntil(c) ==
    /\ Waiting(c)
    /\ wakeAt = NotArmed
    /\ wakeAt' = IF SleepTarget(c) > wall THEN mono + (SleepTarget(c) - wall) ELSE NoTimer
    /\ UNCHANGED <<gen, pc, window, clocks, issued>>

Woken(c) == Waiting(c) /\ wakeAt # NotArmed /\ mono >= wakeAt

(* ctx is looked at only while a timer is waited for.                      *)
CancelSleep(c) ==
    /\ Waiting(c)
    /\ wakeAt > NoTimer
    /\ Fail(c)

(* The clock is read again and must have reached what was waited for.      *)
StillBehind(c) ==
    /\ Woken(c)
    /\ wall < SleepTarget(c)
    /\ Fail(c)

(* The rollback is over; the millisecond reached may itself be used up.    *)
WaitAgain(c) ==
    /\ Woken(c)
    /\ pc[c] = "rollback"
    /\ wall >= SleepTarget(c)
    /\ Exhausted(gen, wall)
    /\ pc' = [pc EXCEPT ![c] = "overflow"]
    /\ wakeAt' = NotArmed
    /\ UNCHANGED <<gen, window, clocks, issued>>

IssueAfterRollback(c) ==
    /\ Woken(c)
    /\ pc[c] = "rollback"
    /\ wall >= SleepTarget(c)
    /\ ~Exhausted(gen, wall)
    /\ Settle(c, Advance(gen, wall))

(* Slip: the clock is not compared again after the sleep.                  *)
IssueAfterOverflowUnchecked(c) ==
    /\ Woken(c)
    /\ pc[c] = "overflow"
    /\ Settle(c, Restart(wall))

IssueAfterOverflow(c) ==
    /\ Woken(c)
    /\ pc[c] = "overflow"
    /\ wall >= SleepTarget(c)
    /\ Settle(c, Restart(wall))

-----------------------------------------------------------------------------
PeakOf(a, b) == IF a > b THEN a ELSE b

(* Time passes; past MaxMono only as long as a sleep needs it.             *)
Tick ==
    /\ mono < MaxMono \/ mono < wakeAt
    /\ mono' = mono + 1
    /\ wall' = wall + 1
    /\ peak' = PeakOf(peak, wall')
    /\ UNCHANGED <<gen, pc, window, wakeAt, adjusts, issued>>

(* The operating system sets the wall clock; mono and timers do not move.  *)
SetWallClock ==
    /\ adjusts < MaxAdjust
    /\ \E t \in 0..MaxWall :
           /\ wall' = t
           /\ peak' = PeakOf(peak, t)
    /\ adjusts' = adjusts + 1
    /\ UNCHANGED <<gen, pc, window, wakeAt, mono, issued>>

EnterNext(c) ==
    RejectClock(c) \/ WaitForRollback(c) \/ WaitForNextMillis(c) \/ IssueAtOnce(c)

Resume(c) ==
    StillBehind(c) \/ WaitAgain(c) \/ IssueAfterRollback(c) \/ IssueAfterOverflow(c)

Next ==
    \/ Tick
    \/ SetWallClock
    \/ \E c \in Callers :
           Invoke(c) \/ EnterNext(c) \/ SleepUntil(c) \/ CancelSleep(c) \/ Resume(c)

Spec == Init /\ [][Next]_vars

(* Time passes and timers fire; sync.Mutex hands itself to a waiter that   *)
(* has been starved for a millisecond, so no caller is overtaken forever.  *)
Fairness ==
    /\ WF_vars(Tick)
    /\ \A c \in Callers :
           SF_vars(EnterNext(c)) /\ WF_vars(SleepUntil(c)) /\ WF_vars(Resume(c))

FairSpec == Spec /\ Fairness

-----------------------------------------------------------------------------
(* IDs grow strictly in the order they are returned, so no two are equal,  *)
(* across callers, clock jumps, cancelled sleeps and failed calls          *)
(* (Generator.next).                                                       *)
StrictlyIncreasing ==
    \A i, j \in 1..Len(issued) : i < j => Before(issued[i].stamp, issued[j].stamp)

(* What over-cost mode has spent and may still spend is covered by the     *)
(* highest clock there has been: neither the timestamp nor the budget left *)
(* reaches more than OverCostCount past it (the switch of next).           *)
BoundedLead ==
    /\ gen.lastMillis + gen.overCostRemaining <= peak + OverCostLimit
    /\ \A i \in 1..Len(issued) : issued[i].stamp.ts <= peak + OverCostLimit

(* The generator is exactly as the newest ID returned left it: a call that *)
(* failed, was cancelled, or hit floor or fence has used up neither a stamp*)
(* nor over-cost budget, and has not ended over-cost mode; and skipping the*)
(* zero ID has not desynchronised ID and state (the locals of next).       *)
StateIsLastIssued ==
    IF issued = <<>> THEN gen = NewGenerator
    ELSE LET newest == issued[Len(issued)] IN
         /\ StampOf(gen) = newest.stamp
         /\ gen.overCostActive = newest.ahead
         /\ gen.overCostRemaining = newest.left

(* A sleep or an over-cost step never carries an ID out of the window its  *)
(* caller gave (NextWithin), nor out of what Compose can encode.           *)
IssuedWithinBounds ==
    \A i \in 1..Len(issued) :
        LET s == issued[i].stamp IN
            /\ s.ts >= issued[i].floor
            /\ issued[i].fence > 0 => s.ts < issued[i].fence
            /\ s.ts >= EpochMillis /\ s.ts - EpochMillis <= MaxTimestamp
            /\ ~(s.ts = EpochMillis /\ NodeCode = 0 /\ s.seq = 0)

(* The over-cost flag says precisely whether the ID just returned is ahead *)
(* of the clock; without it the timestamp is the clock at the return, also *)
(* after a sleep during which the clock was set.                           *)
AheadOnlyInOverCost ==
    [][issued' # issued =>
          IF gen'.overCostActive THEN gen'.lastMillis > wall
                                 ELSE gen'.lastMillis = wall]_vars

(* Every call of Next returns, although calls sleep with the mutex held.   *)
EveryCallReturns == \A c \in Callers : pc[c] # "idle" ~> pc[c] = "idle"

(* The generator implements the abstract stream of growing stamps.         *)
stampsIssued == [i \in 1..Len(issued) |-> issued[i].stamp]
Stream == INSTANCE IDStream WITH
              stream <- stampsIssued, horizon <- peak, Lead <- OverCostLimit
ImplementsIDStream == Stream!StreamSpec
=============================================================================
