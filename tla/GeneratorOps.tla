---------------------------- MODULE GeneratorOps ----------------------------
(***************************************************************************)
(* What one call of Generator.next computes, as operators on the state a   *)
(* Generator carries from call to call.  They are pure: Generator.tla runs *)
(* them for concurrent callers of one generator, LeasedGenerator.tla for   *)
(* the generators of several processes.                                    *)
(*                                                                         *)
(* Instants and durations are whole milliseconds.  An issued ID is its     *)
(* stamp: the timestamp and sequence that Compose packs with the node code.*)
(***************************************************************************)
EXTENDS Naturals

CONSTANTS
    EpochMillis,        \* Config.EpochMillis, after the default is filled in
    NodeCode,           \* Config.NodeID - 1
    MaxSequence,        \* largest sequence within one millisecond
    MaxTimestamp,       \* largest timestamp, relative to the epoch
    SmallRollbackWait,  \* Config.SmallRollbackWait
    OverCostLimit       \* Config.OverCostCount

(* What NewGenerator validates.  A sequence of one value only would leave  *)
(* no room to skip the zero ID.                                            *)
ASSUME GeneratorAssumption ==
    /\ EpochMillis \in Nat \ {0}
    /\ NodeCode \in Nat
    /\ MaxSequence \in Nat \ {0}
    /\ MaxTimestamp \in Nat
    /\ SmallRollbackWait \in Nat
    /\ OverCostLimit \in Nat

GeneratorState ==
    [ lastMillis        : Nat,
      sequence          : 0..MaxSequence,
      overCostActive    : BOOLEAN,
      overCostRemaining : 0..OverCostLimit ]

(* A generator whose newest stamp is (ts, seq) and that follows the wall   *)
(* clock: its over-cost budget is whole.                                   *)
OnClock(ts, seq) ==
    [ lastMillis        |-> ts,
      sequence          |-> seq,
      overCostActive    |-> FALSE,
      overCostRemaining |-> OverCostLimit ]

Restart(now) == OnClock(now, 0)

(* The zero lastMillis says that nothing has been issued yet.              *)
NewGenerator == Restart(0)

Stamp == [ts : Nat, seq : 0..MaxSequence]

StampOf(g) == [ts |-> g.lastMillis, seq |-> g.sequence]

(* The order of the composed IDs of one node.                              *)
Before(a, b) == a.ts < b.ts \/ (a.ts = b.ts /\ a.seq < b.seq)

-----------------------------------------------------------------------------
(* The bounds of NextWithin; Next passes zeros, which bound nothing.       *)
NoWindow == [floor |-> 0, fence |-> 0]

ValidWindow(w) == w.floor > 0 /\ w.fence > w.floor

-----------------------------------------------------------------------------
(* waitForRollback: only outside over-cost mode, and only after a first    *)
(* ID, is a clock behind lastMillis an obstacle.                           *)
Behind(g, now) == ~g.overCostActive /\ g.lastMillis # 0 /\ now < g.lastMillis

RollbackTooLarge(g, now) == g.lastMillis - now > SmallRollbackWait

(* Slip: over-cost mode is never left on catching up.                      *)
CatchUpForgotten(g, now) == g

(* The wall clock has reached the virtual time: over-cost mode ends and    *)
(* its budget is whole again.                                              *)
CatchUp(g, now) ==
    IF g.overCostActive /\ now >= g.lastMillis
    THEN OnClock(g.lastMillis, g.sequence)
    ELSE g

(* No stamp is left at lastMillis and no budget to move past it: the call  *)
(* must sleep until the next millisecond.                                  *)
Exhausted(g, now) ==
    /\ now <= g.lastMillis
    /\ g.sequence >= MaxSequence
    /\ g.overCostRemaining = 0

(* Slips: the budget is not counted down; a full millisecond is not noticed*)
(* at all.                                                                 *)
AdvanceUncounted(g, now) ==
    IF now > g.lastMillis THEN Restart(now)
    ELSE IF g.sequence < MaxSequence THEN [g EXCEPT !.sequence = @ + 1]
    ELSE [g EXCEPT !.lastMillis = @ + 1, !.sequence = 0, !.overCostActive = TRUE]

AdvanceTooFar(g, now) ==
    IF now > g.lastMillis THEN Restart(now)
    ELSE [g EXCEPT !.sequence = @ + 1]

(* The next state of a generator that is neither behind nor exhausted.     *)
Advance(g, now) ==
    IF now > g.lastMillis THEN Restart(now)
    ELSE IF g.sequence < MaxSequence THEN [g EXCEPT !.sequence = @ + 1]
    ELSE [ lastMillis        |-> g.lastMillis + 1,
           sequence          |-> 0,
           overCostActive    |-> TRUE,
           overCostRemaining |-> g.overCostRemaining - 1 ]

(* Slip: the zero ID is not skipped.                                       *)
SkipZeroForgotten(g) == g

(* Stamp (epoch, 0) on node code 0 would compose to the invalid ID zero.   *)
SkipZero(g) ==
    IF g.lastMillis = EpochMillis /\ NodeCode = 0 /\ g.sequence = 0
    THEN [g EXCEPT !.sequence = 1]
    ELSE g

-----------------------------------------------------------------------------
(* The last checks before the state is committed, in the code's order.     *)
BelowFloor(g, w) == w.floor > 0 /\ g.lastMillis < w.floor

FenceReached(g, w) == w.fence > 0 /\ g.lastMillis >= w.fence

OutOfRange(g) == g.lastMillis - EpochMillis > MaxTimestamp

Issuable(g, w) == ~BelowFloor(g, w) /\ ~FenceReached(g, w) /\ ~OutOfRange(g)
=============================================================================
