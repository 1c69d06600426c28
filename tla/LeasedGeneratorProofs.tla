----------------------- MODULE LeasedGeneratorProofs ------------------------
(***************************************************************************)
(* Theorems about LeasedGenerator, for any number of processes with one    *)
(* OwnerID each, any windows, and any movement of any clock: none of the   *)
(* steps below needs to know how far a clock is from another one, or that  *)
(* a lease has not run out.  What keeps the IDs apart is the row alone.    *)
(***************************************************************************)
EXTENDS LeasedIDs, GeneratorOpsProofs

(* LeasedGeneratorConfig.OwnerID: the unique owner of this instance.       *)
UniqueOwners == \A p, q \in Procs : OwnerOf[p] = OwnerOf[q] => p = q

-----------------------------------------------------------------------------
(* The inductive invariant.  What the row says of the windows granted: it  *)
(* covers them all, and the windows of others end before its owner's own   *)
(* begins, so the owner's may grow.                                        *)
RowCovers ==
    /\ row.owner = NoOwner => row.fence = 0
    /\ \A p \in Procs :
          /\ granted[p] = NoWindow \/ ValidWindow(granted[p])
          /\ granted[p].fence <= row.fence

OwnerIsLast ==
    \A p \in Procs : row.owner = OwnerOf[p] =>
        /\ granted[p] # NoWindow
        /\ \A q \in Procs \ {p} : granted[q].fence <= granted[p].floor

(* The position of p's thread fits its lifecycle and its store call; a     *)
(* call under way asks for a fence past its own clock reading.             *)
InStep(p) ==
    /\ pc[p] \in {"acquire", "backoff"} => lifecycle[p] = "new"
    /\ pc[p] \in {"refresh", "generate", "rollback", "overflow"} => lifecycle[p] = "active"
    /\ pc[p] = "acquire" => conn[p].op = "acquire"
    /\ pc[p] = "refresh" => conn[p].op = "refresh"
    /\ conn[p].phase = "done" => pc[p] \in {"acquire", "refresh"}
    /\ conn[p].phase # "none" /\ lifecycle[p] # "over" => pc[p] \in {"acquire", "refresh"}
    /\ conn[p].phase \in {"sent", "begun"} => conn[p].fence = conn[p].localNow + FenceWindow
    /\ conn[p].phase = "begun" => conn[p].localNow > 0

(* Until an Acquire of p has written, p has no window and no IDs; one that *)
(* p gave up on may be executed later, but only once.                      *)
BeforeGrant(p) ==
    /\ lifecycle[p] = "new" => issued[p] = <<>> /\ gen[p] = NewGenerator
    /\ lifecycle[p] = "new" /\ granted[p] # NoWindow =>
          conn[p].phase = "done" /\ conn[p].outcome = "granted"
    /\ conn[p].phase \in {"sent", "begun"} /\ conn[p].op = "acquire" =>
          granted[p] = NoWindow

(* An answer not yet read reports the window as it was granted.            *)
GrantOnTheWay(p) ==
    conn[p].phase = "done" /\ conn[p].outcome = "granted" =>
        /\ ValidWindow(granted[p])
        /\ conn[p].fence = granted[p].fence
        /\ conn[p].op = "acquire" => conn[p].localNow = granted[p].floor

(* The lease in memory lies within the granted window.                     *)
HoldsGrant(p) ==
    lifecycle[p] = "active" =>
        /\ lease[p].floor = granted[p].floor
        /\ lease[p].fence <= granted[p].fence
        /\ ValidWindow(LeaseOf(p))

(* The stamps p has returned grow, are ones that Compose takes, lie in its *)
(* window, and none is newer than the state of its generator.              *)
OwnStamps(p) ==
    /\ \A i, j \in 1..Len(issued[p]) : i < j => Before(issued[p][i], issued[p][j])
    /\ \A i \in 1..Len(issued[p]) : Encodable(issued[p][i])
    /\ \A i \in 1..Len(issued[p]) :
          granted[p].floor <= issued[p][i].ts /\ issued[p][i].ts < granted[p].fence
    /\ lifecycle[p] = "active" =>
          \A i \in 1..Len(issued[p]) :
              issued[p][i] = StampOf(gen[p]) \/ Before(issued[p][i], StampOf(gen[p]))

(* A generator that has issued is past the epoch, as a sleeper relies on.  *)
PastEpoch(p) ==
    /\ gen[p].lastMillis = 0 \/ gen[p].lastMillis >= EpochMillis
    /\ pc[p] \in {"rollback", "overflow"} => gen[p].lastMillis >= EpochMillis

Own(p) ==
    /\ InStep(p) /\ BeforeGrant(p) /\ GrantOnTheWay(p)
    /\ HoldsGrant(p) /\ OwnStamps(p) /\ PastEpoch(p)

IndInv ==
    /\ TypeOK
    /\ RowCovers
    /\ OwnerIsLast
    /\ DisjointGrants
    /\ \A p \in Procs : Own(p)

-----------------------------------------------------------------------------
LEMMA NewGeneratorFields ==
    NewGenerator \in GeneratorState /\ NewGenerator.lastMillis = 0
<1>1. 0 \in Nat /\ 0 \in 0..MaxSequence
  BY GeneratorAssumption DEF GeneratorAssumption
<1> QED
  BY <1>1, OnClockFields DEF NewGenerator, Restart

LEMMA RequestConstants ==
    /\ NoRequest \in Request
    /\ NoRequest.phase = "none"
    /\ NoRow \in LeaseRow
PROOF BY DEF NoRequest, Request, NoRow, LeaseRow

LEMMA InitIndInv == Init => IndInv
<1> SUFFICES ASSUME Init PROVE IndInv
  OBVIOUS
<1>1. TypeOK
  <2>1. lifecycle \in [Procs -> Lifecycles] /\ pc \in [Procs -> Positions]
    BY DEF Init, InitProcesses, Lifecycles, Positions
  <2>2. conn \in [Procs -> Request] /\ row \in LeaseRow
    BY RequestConstants DEF Init, InitProcesses
  <2>3. gen \in [Procs -> GeneratorState]
    BY NewGeneratorFields DEF Init, InitProcesses
  <2>4. /\ lease \in [Procs -> [floor : Nat, fence : Nat, deadline : Nat]]
        /\ granted \in [Procs -> Window]
    BY DEF Init, InitProcesses, NoLease, NoWindow, Window
  <2>5. /\ attempt \in [Procs -> 0..2] /\ wakeAt \in [Procs -> Nat]
        /\ acquireBy \in [Procs -> Nat] /\ wall \in [Procs -> Nat]
        /\ dbClock \in Nat /\ mono \in Nat /\ adjusts \in [wall : Nat, db : Nat]
        /\ issued \in [Procs -> Seq(Stamp)]
    BY LeasedAssumption DEF Init, InitProcesses, LeasedAssumption
  <2> QED
    BY <2>1, <2>2, <2>3, <2>4, <2>5 DEF TypeOK
<1>2. RowCovers
  BY DEF Init, InitProcesses, RowCovers, NoRow, NoWindow
<1>3. OwnerIsLast
  BY StoreAssumption, LeasedAssumption
  DEF Init, InitProcesses, OwnerIsLast, NoRow, StoreAssumption, LeasedAssumption
<1>4. DisjointGrants
  BY DEF Init, InitProcesses, DisjointGrants
<1>5. ASSUME NEW p \in Procs PROVE Own(p)
  BY RequestConstants, NewGeneratorFields
  DEF Init, InitProcesses, Own, InStep, BeforeGrant, GrantOnTheWay, HoldsGrant, OwnStamps, PastEpoch
<1> QED
  BY <1>1, <1>2, <1>3, <1>4, <1>5 DEF IndInv

-----------------------------------------------------------------------------
(* A step of p leaves what belongs to the others alone.                    *)
OnlyFor(p) ==
    \A q \in Procs \ {p} :
        /\ lifecycle'[q] = lifecycle[q]
        /\ lease'[q] = lease[q]
        /\ gen'[q] = gen[q]
        /\ pc'[q] = pc[q]
        /\ conn'[q] = conn[q]
        /\ granted'[q] = granted[q]
        /\ issued'[q] = issued[q]

(* So what p knows of itself is all that a step of p can disturb, besides  *)
(* the row and the windows.                                                *)
LEMMA OthersKeepOwn ==
    ASSUME IndInv, NEW p \in Procs, OnlyFor(p), Own(p)'
    PROVE  \A q \in Procs : Own(q)'
<1> SUFFICES ASSUME NEW q \in Procs, q # p PROVE Own(q)'
  OBVIOUS
<1>1. Own(q)
  BY DEF IndInv
<1>2. /\ lifecycle'[q] = lifecycle[q] /\ lease'[q] = lease[q] /\ gen'[q] = gen[q]
      /\ pc'[q] = pc[q] /\ conn'[q] = conn[q] /\ granted'[q] = granted[q]
      /\ issued'[q] = issued[q]
  BY DEF OnlyFor
<1>3. InStep(q)' /\ BeforeGrant(q)' /\ GrantOnTheWay(q)'
  BY <1>1, <1>2 DEF Own, InStep, BeforeGrant, GrantOnTheWay
<1>4. HoldsGrant(q)'
  BY <1>1, <1>2 DEF Own, HoldsGrant, LeaseOf
<1>5. OwnStamps(q)' /\ PastEpoch(q)'
  BY <1>1, <1>2 DEF Own, OwnStamps, PastEpoch
<1> QED
  BY <1>3, <1>4, <1>5 DEF Own

LEMMA InsideStep ==
    ASSUME IndInv, NEW p \in Procs, OnlyFor(p), TypeOK', Own(p)',
           granted' = granted, row' = row
    PROVE  IndInv'
<1>1. \A q \in Procs : Own(q)'
  BY OthersKeepOwn
<1> QED
  BY <1>1 DEF IndInv, RowCovers, OwnerIsLast, DisjointGrants
-----------------------------------------------------------------------------
(* The steps inside a process, by what they do to its memory.              *)

(* The process ends: p issues nothing any more, and only a call that is    *)
(* already sent may still be executed.                                     *)
LEMMA EndKeeps ==
    ASSUME IndInv, NEW p \in Procs, End(p),
           conn' = conn \/ conn' = [conn EXCEPT ![p] = NoRequest],
           conn'[p].phase # "done",
           issued' = issued, Outside(p)
    PROVE  IndInv'
<1>1. TypeOK /\ Own(p)
  BY DEF IndInv
<1>2. /\ conn' \in [Procs -> Request]
      /\ \A q \in Procs \ {p} : conn'[q] = conn[q]
      /\ conn'[p] = conn[p] \/ conn'[p].phase = "none"
  BY <1>1, RequestConstants DEF TypeOK
<1>3. TypeOK'
  <2>1. gen' \in [Procs -> GeneratorState]
    BY <1>1, NewGeneratorFields DEF TypeOK, End
  <2>2. /\ lifecycle' \in [Procs -> Lifecycles] /\ pc' \in [Procs -> Positions]
        /\ lease' \in [Procs -> [floor : Nat, fence : Nat, deadline : Nat]]
        /\ attempt' \in [Procs -> 0..2] /\ wakeAt' \in [Procs -> Nat]
        /\ acquireBy' \in [Procs -> Nat]
    BY <1>1 DEF TypeOK, End, Return, Lifecycles, Positions, NoLease
  <2> QED
    BY <1>1, <1>2, <2>1, <2>2 DEF TypeOK, Outside, clocks
<1>4. OnlyFor(p)
  BY <1>1, <1>2 DEF OnlyFor, TypeOK, End, Return, Outside
<1>5. lifecycle'[p] = "over" /\ pc'[p] = "idle" /\ gen'[p] = NewGenerator
  BY <1>1 DEF TypeOK, End, Return
<1>6. Own(p)'
  BY <1>1, <1>2, <1>5, NewGeneratorFields
  DEF Own, InStep, BeforeGrant, GrantOnTheWay, HoldsGrant, OwnStamps, PastEpoch, Outside
<1> QED
  BY <1>3, <1>4, <1>6, InsideStep DEF Outside

(* The thread moves on, with lifecycle, lease, generator and call as they  *)
(* were.                                                                   *)
LEMMA MoveKeeps ==
    ASSUME IndInv, NEW p \in Procs, NEW why \in Positions,
           pc' = [pc EXCEPT ![p] = why],
           lifecycle[p] = "active", conn[p].phase = "none",
           why \in {"idle", "generate", "rollback", "overflow"},
           why \in {"rollback", "overflow"} => gen[p].lastMillis >= EpochMillis,
           attempt' \in [Procs -> 0..2],
           wakeAt' \in [Procs -> Nat], acquireBy' \in [Procs -> Nat],
           UNCHANGED <<lifecycle, lease, gen, conn, issued>>, Outside(p)
    PROVE  IndInv'
<1>1. TypeOK /\ Own(p)
  BY DEF IndInv
<1>2. TypeOK'
  BY <1>1 DEF TypeOK, Outside, clocks
<1>3. OnlyFor(p) /\ pc'[p] = why
  BY <1>1 DEF OnlyFor, TypeOK, Outside
<1>4. Own(p)'
  <2>1. InStep(p)' /\ BeforeGrant(p)' /\ GrantOnTheWay(p)'
    BY <1>1, <1>3 DEF Own, InStep, BeforeGrant, GrantOnTheWay, Outside
  <2>2. HoldsGrant(p)' /\ OwnStamps(p)' /\ PastEpoch(p)'
    BY <1>1, <1>3 DEF Own, HoldsGrant, LeaseOf, OwnStamps, PastEpoch, Outside
  <2> QED
    BY <2>1, <2>2 DEF Own
<1> QED
  BY <1>2, <1>3, <1>4, InsideStep DEF Outside

(* A store call leaves the process.                                        *)
LEMMA NewRequestFields ==
    ASSUME NEW op \in {"acquire", "refresh"}, NEW now \in Nat, NEW instant \in Nat
    PROVE  /\ NewRequest(op, now, instant) \in Request
           /\ NewRequest(op, now, instant).phase = "sent"
           /\ NewRequest(op, now, instant).op = op
           /\ NewRequest(op, now, instant).localNow = now
           /\ NewRequest(op, now, instant).fence = now + FenceWindow
PROOF BY RequestConstants, LeasedAssumption DEF NewRequest, Request, LeasedAssumption

LEMMA SendKeeps ==
    ASSUME IndInv, NEW p \in Procs, NEW op \in {"acquire", "refresh"},
           Send(p, op), pc' = [pc EXCEPT ![p] = op],
           conn[p].phase = "none",
           lifecycle[p] = (IF op = "acquire" THEN "new" ELSE "active"),
           attempt' \in [Procs -> 0..2],
           wakeAt' \in [Procs -> Nat], acquireBy' \in [Procs -> Nat],
           UNCHANGED <<lifecycle, lease, gen, issued>>, Outside(p)
    PROVE  IndInv'
<1>1. TypeOK /\ Own(p)
  BY DEF IndInv
<1> DEFINE r == NewRequest(op, wall[p], mono)
<1>2. /\ r \in Request /\ r.phase = "sent" /\ r.op = op
      /\ r.fence = r.localNow + FenceWindow
  <2>1. wall[p] \in Nat /\ mono \in Nat
    BY <1>1 DEF TypeOK
  <2> QED
    BY <2>1, NewRequestFields
<1>3. conn' = [conn EXCEPT ![p] = r]
  BY DEF Send
<1> HIDE DEF r
<1>4. TypeOK'
  BY <1>1, <1>2, <1>3 DEF TypeOK, Outside, clocks, Positions
<1>5. OnlyFor(p) /\ pc'[p] = op /\ conn'[p] = r
  BY <1>1, <1>3 DEF OnlyFor, TypeOK, Outside
<1>6. Own(p)'
  <2>1. InStep(p)' /\ GrantOnTheWay(p)'
    BY <1>1, <1>2, <1>5 DEF Own, InStep, GrantOnTheWay
  <2>2. BeforeGrant(p)'
    BY <1>1, <1>2, <1>5 DEF Own, BeforeGrant, Outside
  <2>3. HoldsGrant(p)' /\ OwnStamps(p)' /\ PastEpoch(p)'
    BY <1>1, <1>5 DEF Own, HoldsGrant, LeaseOf, OwnStamps, PastEpoch, Outside
  <2> QED
    BY <2>1, <2>2, <2>3 DEF Own
<1> QED
  BY <1>4, <1>5, <1>6, InsideStep DEF Outside

(* A refresh fails at once or is sent.                                     *)
LEMMA EnterRefreshKeeps ==
    ASSUME IndInv, NEW p \in Procs, NEW a \in 0..2, EnterRefresh(p, a),
           lifecycle[p] = "active", conn[p].phase = "none",
           issued' = issued, Outside(p)
    PROVE  IndInv'
<1>1. CASE Expired(p) /\ FailLocked(p) /\ UNCHANGED conn
  BY <1>1, EndKeeps DEF FailLocked
<1>2. CASE ~(Expired(p) /\ FailLocked(p) /\ UNCHANGED conn)
  <2>1. /\ Send(p, "refresh")
        /\ pc' = [pc EXCEPT ![p] = "refresh"]
        /\ attempt' = [attempt EXCEPT ![p] = a]
        /\ wakeAt' = [wakeAt EXCEPT ![p] = 0]
        /\ UNCHANGED <<lifecycle, lease, gen, acquireBy>>
    BY <1>2 DEF EnterRefresh
  <2>2. /\ attempt' \in [Procs -> 0..2]
        /\ wakeAt' \in [Procs -> Nat] /\ acquireBy' \in [Procs -> Nat]
    BY <2>1 DEF IndInv, TypeOK
  <2> QED
    BY <2>1, <2>2, SendKeeps
<1> QED
  BY <1>1, <1>2

(* An ID is returned.                                                      *)
LEMMA IssueKeeps ==
    ASSUME IndInv, NEW p \in Procs, NEW g \in GeneratorState, Issue(p, g),
           lifecycle[p] = "active", conn[p].phase = "none",
           Before(StampOf(gen[p]), StampOf(g)), g.lastMillis >= EpochMillis,
           ~(g.lastMillis = EpochMillis /\ NodeCode = 0 /\ g.sequence = 0),
           Outside(p)
    PROVE  IndInv'
<1> DEFINE n == Len(issued[p])
<1>1. TypeOK /\ Own(p)
  BY DEF IndInv
<1>2. /\ issued[p] \in Seq(Stamp) /\ n \in Nat
      /\ StampOf(g) \in Stamp /\ StampOf(gen[p]) \in Stamp
      /\ \A i \in 1..n : issued[p][i] \in Stamp
  <2>1. issued[p] \in Seq(Stamp) /\ gen[p] \in GeneratorState
    BY <1>1 DEF TypeOK
  <2>2. StampOf(g) \in Stamp /\ StampOf(gen[p]) \in Stamp
    BY <2>1, Fields DEF StampOf, Stamp
  <2>3. n \in Nat /\ \A i \in 1..n : issued[p][i] \in Stamp
    BY <2>1
  <2> QED
    BY <2>1, <2>2, <2>3
<1>3. /\ issued' = [issued EXCEPT ![p] = Append(issued[p], StampOf(g))]
      /\ gen' = [gen EXCEPT ![p] = g]
      /\ UNCHANGED <<lifecycle, lease, conn, granted>>
  BY DEF Issue, Outside
<1>4. /\ issued'[p] \in Seq(Stamp)
      /\ Len(issued'[p]) = n + 1
      /\ issued'[p][n + 1] = StampOf(g)
      /\ \A i \in 1..n : issued'[p][i] = issued[p][i]
  BY <1>1, <1>2, <1>3 DEF TypeOK
<1>5. pc'[p] = "idle" /\ gen'[p] = g
  BY <1>1 DEF TypeOK, Issue, Return
<1>6. TypeOK'
  <2>1. /\ pc' \in [Procs -> Positions] /\ attempt' \in [Procs -> 0..2]
        /\ wakeAt' \in [Procs -> Nat] /\ acquireBy' \in [Procs -> Nat]
    BY <1>1 DEF TypeOK, Issue, Return, Positions
  <2>2. gen' \in [Procs -> GeneratorState] /\ issued' \in [Procs -> Seq(Stamp)]
    BY <1>1, <1>2, <1>3 DEF TypeOK
  <2> QED
    BY <1>1, <1>3, <2>1, <2>2 DEF TypeOK, Outside, clocks
<1>7. OnlyFor(p)
  BY <1>1, <1>3 DEF OnlyFor, TypeOK, Issue, Return
<1>8. InStep(p)' /\ BeforeGrant(p)' /\ GrantOnTheWay(p)'
  BY <1>1, <1>3, <1>5 DEF Own, InStep, BeforeGrant, GrantOnTheWay
<1>9. HoldsGrant(p)' /\ PastEpoch(p)'
  BY <1>1, <1>3, <1>5 DEF Own, HoldsGrant, LeaseOf, PastEpoch
<1>10. OwnStamps(p)'
  <2>1. granted[p].floor <= StampOf(g).ts /\ StampOf(g).ts < granted[p].fence
    <3>1. Issuable(g, LeaseOf(p))
      BY DEF Issue
    <3>2. ValidWindow(LeaseOf(p)) /\ lease[p].floor = granted[p].floor
          /\ lease[p].fence <= granted[p].fence
      BY <1>1 DEF Own, HoldsGrant
    <3>3. lease[p] \in [floor : Nat, fence : Nat, deadline : Nat]
          /\ granted[p] \in Window /\ g.lastMillis \in Nat
      BY <1>1, Fields DEF TypeOK
    <3>4. /\ lease[p].floor > 0 /\ lease[p].fence > lease[p].floor
          /\ g.lastMillis >= lease[p].floor /\ g.lastMillis < lease[p].fence
      BY <3>1, <3>2, <3>3 DEF Issuable, BelowFloor, FenceReached, LeaseOf, ValidWindow
    <3> QED
      BY <3>2, <3>3, <3>4 DEF StampOf, Window
  <2>2. \A i \in 1..n : Before(issued[p][i], StampOf(g))
    <3> SUFFICES ASSUME NEW i \in 1..n PROVE Before(issued[p][i], StampOf(g))
      OBVIOUS
    <3>1. issued[p][i] = StampOf(gen[p]) \/ Before(issued[p][i], StampOf(gen[p]))
      BY <1>1 DEF Own, OwnStamps
    <3> QED
      BY <1>2, <3>1, BeforeTransitive
  <2>3. \A i, j \in 1..(n + 1) : i < j => Before(issued'[p][i], issued'[p][j])
    <3> SUFFICES ASSUME NEW i \in 1..(n + 1), NEW j \in 1..(n + 1), i < j
                 PROVE  Before(issued'[p][i], issued'[p][j])
      OBVIOUS
    <3>1. i \in 1..n
      BY <1>2
    <3>2. CASE j = n + 1
      BY <1>4, <2>2, <3>1, <3>2
    <3>3. CASE j # n + 1
      <4>1. j \in 1..n
        BY <1>2, <3>3
      <4> QED
        BY <1>1, <1>4, <3>1, <4>1 DEF Own, OwnStamps
    <3> QED
      BY <3>2, <3>3
  <2>4. \A i \in 1..(n + 1) : /\ granted[p].floor <= issued'[p][i].ts
                              /\ issued'[p][i].ts < granted[p].fence
    <3> SUFFICES ASSUME NEW i \in 1..(n + 1)
                 PROVE  /\ granted[p].floor <= issued'[p][i].ts
                        /\ issued'[p][i].ts < granted[p].fence
      OBVIOUS
    <3>1. CASE i = n + 1
      BY <1>4, <2>1, <3>1
    <3>2. CASE i # n + 1
      <4>1. i \in 1..n
        BY <1>2, <3>2
      <4> QED
        BY <1>1, <1>4, <4>1 DEF Own, OwnStamps
    <3> QED
      BY <3>1, <3>2
  <2>5. \A i \in 1..(n + 1) : \/ issued'[p][i] = StampOf(g)
                              \/ Before(issued'[p][i], StampOf(g))
    <3> SUFFICES ASSUME NEW i \in 1..(n + 1), i # n + 1
                 PROVE  Before(issued'[p][i], StampOf(g))
      BY <1>4
    <3>1. i \in 1..n
      BY <1>2
    <3> QED
      BY <1>4, <2>2, <3>1
  <2>6. \A i \in 1..(n + 1) : Encodable(issued'[p][i])
    <3>1. Encodable(StampOf(g))
      <4>1. g.lastMillis - EpochMillis <= MaxTimestamp
        BY Fields, GeneratorAssumption
        DEF Issue, Issuable, OutOfRange, GeneratorAssumption
      <4> QED
        BY <1>2, <4>1 DEF Encodable, StampOf
    <3> SUFFICES ASSUME NEW i \in 1..(n + 1), i # n + 1
                 PROVE  Encodable(issued'[p][i])
      BY <1>4, <3>1
    <3>2. i \in 1..n
      BY <1>2
    <3> QED
      BY <1>1, <1>4, <3>2 DEF Own, OwnStamps
  <2> QED
    BY <1>3, <1>4, <1>5, <2>3, <2>4, <2>5, <2>6 DEF OwnStamps
<1>11. Own(p)'
  BY <1>8, <1>9, <1>10 DEF Own
<1> QED
  BY <1>6, <1>7, <1>11, InsideStep DEF Outside

(* The generator has an answer: the ID, a refresh or a terminal error.     *)
LEMMA SettleKeeps ==
    ASSUME IndInv, NEW p \in Procs, NEW g \in GeneratorState,
           Settle(p, g), lifecycle[p] = "active", conn[p].phase = "none",
           Before(StampOf(gen[p]), StampOf(SkipZero(g))),
           SkipZero(g).lastMillis >= EpochMillis,
           Outside(p)
    PROVE  IndInv'
<1>1. CASE Issue(p, SkipZero(g))
  BY <1>1, SkipZeroFields, SkipZeroNonZero, IssueKeeps
<1>2. CASE RefuseStamp(p, SkipZero(g))
  <2>1. CASE FailLocked(p) /\ UNCHANGED conn
    BY <1>2, <2>1, EndKeeps DEF FailLocked, RefuseStamp
  <2>2. CASE EnterRefresh(p, 2)
    BY <1>2, <2>2, EnterRefreshKeeps DEF RefuseStamp
  <2> QED
    BY <1>2, <2>1, <2>2 DEF RefuseStamp
<1> QED
  BY <1>1, <1>2 DEF Settle
-----------------------------------------------------------------------------
(* The actions of a process, in the order of the module.                   *)
LEMMA AcquireKeeps ==
    ASSUME IndInv, NEW p \in Procs, Acquire(p) \/ RetryAcquire(p)
    PROVE  IndInv'
<1>1. /\ pc[p] \in {"idle", "backoff"} /\ lifecycle[p] = "new"
      /\ conn[p].phase = "none"
  BY DEF IndInv, Own, InStep, Acquire, RetryAcquire
<1>2. /\ attempt' \in [Procs -> 0..2] /\ wakeAt' \in [Procs -> Nat]
      /\ acquireBy' \in [Procs -> Nat]
  <2>1. /\ attempt \in [Procs -> 0..2] /\ wakeAt \in [Procs -> Nat]
        /\ acquireBy \in [Procs -> Nat] /\ mono + AcquireTimeout \in Nat
    BY LeasedAssumption DEF IndInv, TypeOK, LeasedAssumption
  <2>2. attempt' = attempt /\ wakeAt' = [wakeAt EXCEPT ![p] = 0]
    BY DEF Acquire, RetryAcquire, TryAcquire
  <2>3. \/ acquireBy' = acquireBy
        \/ acquireBy' = [acquireBy EXCEPT ![p] = mono + AcquireTimeout]
    BY DEF Acquire, RetryAcquire
  <2> QED
    BY <2>1, <2>2, <2>3
<1>3. /\ Send(p, "acquire") /\ pc' = [pc EXCEPT ![p] = "acquire"]
      /\ UNCHANGED <<lifecycle, lease, gen, issued>> /\ Outside(p)
  BY DEF Acquire, RetryAcquire, TryAcquire
<1> QED
  BY <1>1, <1>2, <1>3, SendKeeps

(* A granted call installs the window it was granted.                      *)
LEMMA InstallKeeps ==
    ASSUME IndInv, NEW p \in Procs, NEW position \in {"acquire", "refresh"},
           NEW floor \in Nat, NEW why \in {"idle", "generate"},
           Answered(p, position), conn[p].outcome = "granted",
           floor = granted[p].floor,
           Installed(p, floor),
           lifecycle' = [lifecycle EXCEPT ![p] = "active"],
           pc' = [pc EXCEPT ![p] = why],
           attempt' \in [Procs -> 0..2],
           wakeAt' \in [Procs -> Nat], acquireBy' \in [Procs -> Nat],
           gen' = gen
    PROVE  IndInv'
<1>1. TypeOK /\ Own(p)
  BY DEF IndInv
<1>2. /\ conn[p] \in Request /\ granted[p] \in Window
      /\ conn' = [conn EXCEPT ![p] = NoRequest]
      /\ conn[p].phase = "done" /\ pc[p] = position
      /\ UNCHANGED issued /\ Outside(p)
  BY <1>1 DEF TypeOK, Answered
<1>3. conn[p].fence \in Nat /\ conn[p].sentAt \in Nat
  BY <1>2 DEF Request
<1>4. conn[p].fence = granted[p].fence /\ ValidWindow(granted[p])
  BY <1>1, <1>2 DEF Own, GrantOnTheWay
<1> DEFINE l == [floor    |-> floor,
                 fence    |-> conn[p].fence,
                 deadline |-> conn[p].sentAt + LeaseWindow]
<1>5. /\ lease' = [lease EXCEPT ![p] = l]
      /\ l \in [floor : Nat, fence : Nat, deadline : Nat]
      /\ l.floor = floor /\ l.fence = conn[p].fence
  BY <1>3, StoreAssumption DEF Installed, StoreAssumption
<1> HIDE DEF l
<1>6. TypeOK'
  <2>1. lease' \in [Procs -> [floor : Nat, fence : Nat, deadline : Nat]]
    BY <1>1, <1>5 DEF TypeOK
  <2>2. conn' \in [Procs -> Request]
    BY <1>1, <1>2, RequestConstants DEF TypeOK
  <2>3. lifecycle' \in [Procs -> Lifecycles] /\ pc' \in [Procs -> Positions]
    BY <1>1 DEF TypeOK, Lifecycles, Positions
  <2> QED
    BY <1>1, <1>2, <2>1, <2>2, <2>3 DEF TypeOK, Outside, clocks
<1>7. OnlyFor(p)
  BY <1>1, <1>2, <1>5 DEF OnlyFor, TypeOK, Outside
<1>8. /\ lifecycle'[p] = "active" /\ pc'[p] = why /\ conn'[p] = NoRequest
      /\ lease'[p].floor = granted[p].floor /\ lease'[p].fence = granted[p].fence
      /\ granted' = granted /\ issued' = issued
  BY <1>1, <1>2, <1>4, <1>5 DEF TypeOK, Outside
<1>9. InStep(p)' /\ BeforeGrant(p)' /\ GrantOnTheWay(p)'
  BY <1>1, <1>8, RequestConstants DEF Own, InStep, BeforeGrant, GrantOnTheWay
<1>10. HoldsGrant(p)'
  BY <1>2, <1>4, <1>8 DEF HoldsGrant, LeaseOf, ValidWindow, Window
<1>11. OwnStamps(p)'
  <2>1. OwnStamps(p)
    BY <1>1 DEF Own
  <2>2. CASE lifecycle[p] = "new"
    <3>1. Len(issued[p]) = 0
      BY <1>1, <2>2 DEF Own, BeforeGrant
    <3> QED
      BY <1>8, <3>1 DEF OwnStamps
  <2>3. CASE lifecycle[p] = "active"
    BY <1>8, <2>1, <2>3 DEF OwnStamps
  <2> QED
    BY <1>1, <1>2, <2>2, <2>3 DEF Own, InStep
<1>12. PastEpoch(p)'
  BY <1>1, <1>8 DEF Own, PastEpoch
<1>13. Own(p)'
  BY <1>9, <1>10, <1>11, <1>12 DEF Own
<1> QED
  BY <1>2, <1>6, <1>7, <1>13, InsideStep DEF Outside

LEMMA AcquireGrantedKeeps ==
    ASSUME IndInv, NEW p \in Procs, AcquireGranted(p)
    PROVE  IndInv'
<1>1. TypeOK /\ Own(p)
  BY DEF IndInv
<1>2. conn[p].localNow = granted[p].floor /\ conn[p].localNow \in Nat
  <2>1. conn[p] \in Request /\ conn[p].op = "acquire"
    BY <1>1 DEF TypeOK, Own, InStep, AcquireGranted, Answered
  <2> QED
    BY <1>1, <2>1 DEF Own, GrantOnTheWay, AcquireGranted, Answered, Request
<1>3. /\ attempt' \in [Procs -> 0..2] /\ wakeAt' \in [Procs -> Nat]
      /\ acquireBy' \in [Procs -> Nat]
  BY <1>1 DEF TypeOK, AcquireGranted, Return
<1> QED
  BY <1>2, <1>3, InstallKeeps DEF AcquireGranted, Return

LEMMA RefreshGrantedKeeps ==
    ASSUME IndInv, NEW p \in Procs, RefreshGranted(p)
    PROVE  IndInv'
<1>1. TypeOK /\ Own(p)
  BY DEF IndInv
<1>2. lifecycle[p] = "active" /\ lifecycle' = [lifecycle EXCEPT ![p] = "active"]
  BY <1>1 DEF TypeOK, Own, InStep, RefreshGranted, Answered
<1>3. lease[p].floor = granted[p].floor /\ lease[p].floor \in Nat
  BY <1>1, <1>2 DEF TypeOK, Own, HoldsGrant
<1>4. /\ attempt' \in [Procs -> 0..2] /\ wakeAt' \in [Procs -> Nat]
      /\ acquireBy' \in [Procs -> Nat]
  <2>1. CASE Return(p)
    BY <1>1, <2>1 DEF TypeOK, Return
  <2>2. CASE UNCHANGED <<attempt, wakeAt, acquireBy>>
    BY <1>1, <2>2 DEF TypeOK
  <2> QED
    BY <2>1, <2>2 DEF RefreshGranted
<1>5. CASE pc' = [pc EXCEPT ![p] = "idle"]
  BY <1>2, <1>3, <1>4, <1>5, InstallKeeps DEF RefreshGranted
<1>6. CASE pc' = [pc EXCEPT ![p] = "generate"]
  BY <1>2, <1>3, <1>4, <1>6, InstallKeeps DEF RefreshGranted
<1> QED
  BY <1>5, <1>6 DEF RefreshGranted, Return

LEMMA RetryWait ==
    ASSUME NEW seen \in LeaseRow, NEW localNow \in Nat, NEW dbNow \in Nat,
           NEW elapsed \in Int
    PROVE  DeductRoundTrip(AcquireWait(seen, localNow, dbNow), elapsed) \in Nat
<1>1. seen.reserved \in Nat /\ seen.fence \in Nat
  BY DEF LeaseRow
<1>2. AcquireWait(seen, localNow, dbNow) \in Nat
  BY <1>1 DEF AcquireWait, RetryDelay
<1> QED
  BY <1>2 DEF DeductRoundTrip, RetryDelay

LEMMA AcquireRefusedKeeps ==
    ASSUME IndInv, NEW p \in Procs, AcquireRefused(p)
    PROVE  IndInv'
<1>1. TypeOK /\ Own(p) /\ conn[p] \in Request
  BY DEF IndInv, TypeOK
<1>2. /\ conn' = [conn EXCEPT ![p] = NoRequest] /\ issued' = issued /\ Outside(p)
      /\ conn'[p] = NoRequest
      /\ pc[p] = "acquire" /\ conn[p].outcome = "refused" /\ conn[p].phase = "done"
  BY <1>1 DEF TypeOK, AcquireRefused, Answered
<1>3. CASE FailLocked(p)
  BY <1>2, <1>3, RequestConstants, EndKeeps DEF FailLocked
<1>4. CASE ~FailLocked(p)
  <2> DEFINE wait == DeductRoundTrip(AcquireWait(conn[p].seen, conn[p].localNow,
                                                 conn[p].dbNow),
                                     mono - conn[p].sentAt)
  <2>1. /\ Wait(p, "backoff", mono + wait)
        /\ UNCHANGED <<lifecycle, lease, gen, attempt, acquireBy>>
    BY <1>4 DEF AcquireRefused
  <2>2. mono + wait \in Nat
    <3>1. /\ conn[p].seen \in LeaseRow /\ conn[p].localNow \in Nat
          /\ conn[p].dbNow \in Nat /\ conn[p].sentAt \in Nat /\ mono \in Nat
      BY <1>1 DEF Request, TypeOK
    <3>2. mono - conn[p].sentAt \in Int
      BY <3>1
    <3>3. wait \in Nat
      BY <3>1, <3>2, RetryWait
    <3> QED
      BY <3>1, <3>3
  <2> HIDE DEF wait
  <2>3. pc' = [pc EXCEPT ![p] = "backoff"] /\ wakeAt' = [wakeAt EXCEPT ![p] = mono + wait]
    BY <2>1 DEF Wait
  <2>4. TypeOK'
    <3>1. conn' \in [Procs -> Request]
      BY <1>1, <1>2, RequestConstants DEF TypeOK
    <3>2. pc' \in [Procs -> Positions] /\ wakeAt' \in [Procs -> Nat]
      BY <1>1, <2>2, <2>3 DEF TypeOK, Positions
    <3> QED
      BY <1>1, <1>2, <2>1, <3>1, <3>2 DEF TypeOK, Outside, clocks
  <2>5. OnlyFor(p) /\ pc'[p] = "backoff"
    BY <1>1, <1>2, <2>1, <2>3 DEF OnlyFor, TypeOK, Outside
  <2>6. InStep(p)' /\ BeforeGrant(p)' /\ GrantOnTheWay(p)'
    BY <1>1, <1>2, <2>1, <2>5, RequestConstants
    DEF Own, InStep, BeforeGrant, GrantOnTheWay, Outside
  <2>7. HoldsGrant(p)' /\ OwnStamps(p)' /\ PastEpoch(p)'
    BY <1>1, <1>2, <2>1, <2>5 DEF Own, InStep, HoldsGrant, OwnStamps, PastEpoch, Outside
  <2>8. Own(p)'
    BY <2>6, <2>7 DEF Own
  <2> QED
    BY <1>2, <2>4, <2>5, <2>8, InsideStep DEF Outside
<1> QED
  BY <1>3, <1>4

(* Everything that ends the process.                                       *)
LEMMA EndingKeeps ==
    ASSUME IndInv, NEW p \in Procs,
           \/ RefreshRefused(p) \/ SkewReported(p) \/ RequestFails(p) \/ CancelBackoff(p)
           \/ RejectClock(p) \/ StillBehind(p) \/ Ready(p) \/ Close(p) \/ Crash(p)
    PROVE  IndInv'
<1>1. TypeOK /\ Own(p)
  BY DEF IndInv
<1>2. End(p) /\ issued' = issued /\ Outside(p)
  BY DEF RefreshRefused, SkewReported, RequestFails, CancelBackoff, RejectClock, StillBehind,
         Ready, Close, Crash, FailLocked, Answered
<1>3. \/ conn' = [conn EXCEPT ![p] = NoRequest]
      \/ conn' = conn /\ conn[p].phase # "done"
  BY <1>1 DEF Own, InStep, RefreshRefused, SkewReported, RequestFails, CancelBackoff,
              RejectClock, StillBehind, Woken, Ready, Idle, Close, Crash, Answered
<1>4. conn'[p].phase # "done"
  BY <1>1, <1>3, RequestConstants DEF TypeOK
<1> QED
  BY <1>2, <1>3, <1>4, EndKeeps

LEMMA CallNextKeeps ==
    ASSUME IndInv, NEW p \in Procs, CallNext(p)
    PROVE  IndInv'
<1>1. /\ lifecycle[p] = "active" /\ conn[p].phase = "none"
      /\ issued' = issued /\ Outside(p)
  BY DEF IndInv, Own, InStep, CallNext, Idle
<1>2. CASE FailLocked(p) /\ UNCHANGED conn
  BY <1>1, <1>2, EndKeeps DEF FailLocked
<1>3. CASE EnterRefresh(p, 1)
  BY <1>1, <1>3, EnterRefreshKeeps
<1>4. CASE /\ pc' = [pc EXCEPT ![p] = "generate"]
           /\ attempt' = [attempt EXCEPT ![p] = 1]
           /\ UNCHANGED <<lifecycle, lease, gen, wakeAt, acquireBy, conn>>
  <2>1. /\ attempt' \in [Procs -> 0..2] /\ wakeAt' \in [Procs -> Nat]
        /\ acquireBy' \in [Procs -> Nat] /\ "generate" \in Positions
    BY <1>4 DEF IndInv, TypeOK, Positions
  <2> QED
    BY <1>1, <1>4, <2>1, MoveKeeps
<1> QED
  BY <1>2, <1>3, <1>4 DEF CallNext

LEMMA AbandonKeeps ==
    ASSUME IndInv, NEW p \in Procs, AbandonNext(p) \/ CancelSleep(p)
    PROVE  IndInv'
<1>1. /\ lifecycle[p] = "active" /\ conn[p].phase = "none" /\ Return(p)
      /\ UNCHANGED <<lifecycle, lease, gen, conn, issued>> /\ Outside(p)
  BY DEF IndInv, Own, InStep, AbandonNext, CancelSleep
<1>2. /\ attempt' \in [Procs -> 0..2] /\ wakeAt' \in [Procs -> Nat]
      /\ acquireBy' \in [Procs -> Nat] /\ "idle" \in Positions
      /\ pc' = [pc EXCEPT ![p] = "idle"]
  BY <1>1 DEF IndInv, TypeOK, Return, Positions
<1> QED
  BY <1>1, <1>2, MoveKeeps

(* The steps inside NextWithin start from an active process whose store    *)
(* call is over.                                                           *)
LEMMA Generating ==
    ASSUME IndInv, NEW p \in Procs, pc[p] \in {"generate", "rollback", "overflow"}
    PROVE  /\ lifecycle[p] = "active" /\ conn[p].phase = "none"
           /\ gen[p] \in GeneratorState /\ wall[p] \in Nat /\ mono \in Nat
           /\ EpochMillis \in Nat /\ OverCostLimit \in Nat
           /\ pc[p] # "generate" => gen[p].lastMillis >= EpochMillis
           /\ gen[p].lastMillis = 0 \/ gen[p].lastMillis >= EpochMillis
PROOF BY GeneratorAssumption
      DEF IndInv, TypeOK, Own, InStep, PastEpoch, GeneratorAssumption

LEMMA SleepKeeps ==
    ASSUME IndInv, NEW p \in Procs, NEW why \in {"rollback", "overflow"},
           pc[p] \in {"generate", "rollback", "overflow"},
           NEW target \in Nat, target >= wall[p], gen[p].lastMillis >= EpochMillis,
           SleepUntil(p, why, target), Outside(p)
    PROVE  IndInv'
<1>1. /\ pc' = [pc EXCEPT ![p] = why]
      /\ wakeAt' = [wakeAt EXCEPT ![p] = mono + (target - wall[p])]
      /\ UNCHANGED <<lifecycle, lease, gen, attempt, acquireBy, conn, issued>>
  BY DEF SleepUntil, Wait
<1>2. mono + (target - wall[p]) \in Nat
  BY Generating
<1>3. /\ attempt' \in [Procs -> 0..2] /\ wakeAt' \in [Procs -> Nat]
      /\ acquireBy' \in [Procs -> Nat] /\ why \in Positions
  BY <1>1, <1>2 DEF IndInv, TypeOK, Positions
<1> QED
  BY <1>1, <1>3, Generating, MoveKeeps

LEMMA WaitKeeps ==
    ASSUME IndInv, NEW p \in Procs,
           WaitForRollback(p) \/ WaitForNextMillis(p) \/ WaitAgain(p)
    PROVE  IndInv'
<1>1. CASE WaitForRollback(p)
  <2>1. /\ gen[p].lastMillis \in Nat /\ gen[p].lastMillis >= wall[p]
        /\ gen[p].lastMillis >= EpochMillis
    BY <1>1, Generating, Fields DEF WaitForRollback, Behind
  <2> QED
    BY <1>1, <2>1, SleepKeeps DEF WaitForRollback, SleepUntil
<1>2. CASE WaitForNextMillis(p)
  <2>1. gen[p] \in GeneratorState /\ wall[p] \in Nat /\ wall[p] <= CatchUp(gen[p], wall[p]).lastMillis
    BY <1>2, Generating DEF WaitForNextMillis, Exhausted
  <2>2. CatchUp(gen[p], wall[p]).lastMillis = gen[p].lastMillis
    <3> DEFINE bound == gen[p].lastMillis + gen[p].overCostRemaining + wall[p]
    <3>1. /\ bound \in Nat /\ wall[p] <= bound
          /\ gen[p].lastMillis + gen[p].overCostRemaining <= bound + OverCostLimit
      BY <1>2, <2>1, Generating, Fields DEF WaitForNextMillis
    <3> HIDE DEF bound
    <3> QED
      BY <2>1, <3>1, CatchUpKeepsStamp
  <2>3. /\ gen[p].lastMillis + 1 \in Nat /\ gen[p].lastMillis + 1 >= wall[p]
        /\ gen[p].lastMillis >= EpochMillis
    BY <1>2, <2>1, <2>2, Generating, Fields DEF WaitForNextMillis
  <2> QED
    BY <1>2, <2>3, SleepKeeps DEF WaitForNextMillis, SleepUntil
<1>3. CASE WaitAgain(p)
  <2>1. /\ gen[p].lastMillis + 1 \in Nat /\ gen[p].lastMillis + 1 >= wall[p]
        /\ gen[p].lastMillis >= EpochMillis /\ pc[p] = "rollback"
    BY <1>3, Generating, Fields DEF WaitAgain, Woken, Exhausted
  <2> QED
    BY <1>3, <2>1, SleepKeeps DEF WaitAgain, SleepUntil
<1> QED
  BY <1>1, <1>2, <1>3

(* A generator that is not exhausted moves on to a later stamp; the bound  *)
(* on its lead is of no interest here.                                     *)
LEMMA AdvanceSettles ==
    ASSUME NEW g \in GeneratorState, NEW now \in Nat, now >= EpochMillis,
           ~Exhausted(g, now)
    PROVE  /\ Advance(g, now) \in GeneratorState
           /\ Before(StampOf(g), StampOf(SkipZero(Advance(g, now))))
           /\ SkipZero(Advance(g, now)).lastMillis >= EpochMillis
<1> DEFINE bound == g.lastMillis + g.overCostRemaining + now
<1>1. /\ bound \in Nat /\ now <= bound
      /\ g.lastMillis + g.overCostRemaining <= bound + OverCostLimit
  BY Fields, GeneratorAssumption DEF GeneratorAssumption
<1> HIDE DEF bound
<1> QED
  BY <1>1, AdvanceGrows

LEMMA GenerateKeeps ==
    ASSUME IndInv, NEW p \in Procs,
           IssueAtOnce(p) \/ IssueAfterRollback(p) \/ IssueAfterOverflow(p)
    PROVE  IndInv'
<1>1. CASE IssueAtOnce(p)
  <2> DEFINE g == CatchUp(gen[p], wall[p])
  <2>1. /\ gen[p] \in GeneratorState /\ wall[p] \in Nat /\ wall[p] >= EpochMillis
        /\ lifecycle[p] = "active" /\ conn[p].phase = "none"
        /\ ~Exhausted(g, wall[p])
        /\ Settle(p, Advance(g, wall[p])) /\ Outside(p)
    BY <1>1, Generating DEF IssueAtOnce
  <2>2. g \in GeneratorState /\ StampOf(g) = StampOf(gen[p])
    <3> DEFINE bound == gen[p].lastMillis + gen[p].overCostRemaining + wall[p]
    <3>1. /\ bound \in Nat /\ wall[p] <= bound
          /\ gen[p].lastMillis + gen[p].overCostRemaining <= bound + OverCostLimit
      BY <2>1, Fields, GeneratorAssumption DEF GeneratorAssumption
    <3> HIDE DEF bound
    <3> QED
      BY <2>1, <3>1, CatchUpKeepsStamp
  <2> HIDE DEF g
  <2>3. /\ Advance(g, wall[p]) \in GeneratorState
        /\ Before(StampOf(gen[p]), StampOf(SkipZero(Advance(g, wall[p]))))
        /\ SkipZero(Advance(g, wall[p])).lastMillis >= EpochMillis
    BY <2>1, <2>2, AdvanceSettles
  <2> QED
    BY <2>1, <2>3, SettleKeeps
<1>2. CASE IssueAfterRollback(p)
  <2>1. /\ gen[p] \in GeneratorState /\ wall[p] \in Nat /\ wall[p] >= EpochMillis
        /\ lifecycle[p] = "active" /\ conn[p].phase = "none"
    BY <1>2, Generating, Fields DEF IssueAfterRollback, Woken
  <2> QED
    BY <1>2, <2>1, AdvanceSettles, SettleKeeps DEF IssueAfterRollback
<1>3. CASE IssueAfterOverflow(p)
  <2>1. /\ gen[p] \in GeneratorState /\ wall[p] \in Nat /\ wall[p] >= EpochMillis
        /\ wall[p] > gen[p].lastMillis
        /\ lifecycle[p] = "active" /\ conn[p].phase = "none"
    BY <1>3, Generating, Fields DEF IssueAfterOverflow, Woken
  <2>2. /\ Restart(wall[p]) \in GeneratorState
        /\ Before(StampOf(gen[p]), StampOf(SkipZero(Restart(wall[p]))))
        /\ SkipZero(Restart(wall[p])).lastMillis >= EpochMillis
    <3>1. wall[p] <= wall[p] /\ 0 \in 0..MaxSequence
      BY <2>1, GeneratorAssumption DEF GeneratorAssumption
    <3>2. Restart(wall[p]) \in GeneratorState
      BY <2>1, <3>1, OnClockFields DEF Restart
    <3> QED
      BY <2>1, <3>1, <3>2, RestartGrows
  <2> QED
    BY <1>3, <2>1, <2>2, SettleKeeps DEF IssueAfterOverflow
<1> QED
  BY <1>1, <1>2, <1>3
-----------------------------------------------------------------------------
(* The database.                                                           *)
LEMMA BeginKeeps ==
    ASSUME IndInv, NEW p \in Procs, Begin(p)
    PROVE  IndInv'
<1> DEFINE r == [conn[p] EXCEPT !.phase = "begun", !.dbNow = dbClock, !.seen = row]
<1>1. TypeOK /\ Own(p) /\ conn[p] \in Request
  BY DEF IndInv, TypeOK
<1>2. /\ conn[p].phase = "sent" /\ conn[p].localNow > 0
      /\ conn' = [conn EXCEPT ![p] = r]
      /\ UNCHANGED <<memory, issued>> /\ Outside(p)
  BY DEF Begin
<1>3. r \in Request
  BY <1>1 DEF TypeOK, Request
<1>4. /\ r.phase = "begun" /\ r.op = conn[p].op /\ r.fence = conn[p].fence
      /\ r.localNow = conn[p].localNow
  BY <1>1 DEF Request
<1> HIDE DEF r
<1>5. TypeOK'
  BY <1>1, <1>2, <1>3 DEF TypeOK, Outside, memory, clocks
<1>6. OnlyFor(p) /\ conn'[p] = r
  BY <1>1, <1>2 DEF OnlyFor, TypeOK, Outside, memory
<1>7. InStep(p)' /\ BeforeGrant(p)' /\ GrantOnTheWay(p)'
  BY <1>1, <1>2, <1>4, <1>6
  DEF Own, InStep, BeforeGrant, GrantOnTheWay, Outside, memory
<1>8. HoldsGrant(p)' /\ OwnStamps(p)' /\ PastEpoch(p)'
  BY <1>1, <1>2 DEF Own, HoldsGrant, LeaseOf, OwnStamps, PastEpoch, Outside, memory
<1>9. Own(p)'
  BY <1>7, <1>8 DEF Own
<1> QED
  BY <1>2, <1>5, <1>6, <1>9, InsideStep DEF Outside

(* The answer reaches p if its thread still waits for it.                  *)
LEMMA FinishFields ==
    ASSUME conn \in [Procs -> Request], NEW p \in Procs, NEW r \in Request,
           NEW outcome \in {"granted", "refused", "skew"}, Finish(p, outcome, r)
    PROVE  /\ conn' \in [Procs -> Request]
           /\ \A q \in Procs \ {p} : conn'[q] = conn[q]
           /\ IF pc[p] \in {"acquire", "refresh"}
              THEN /\ conn'[p].phase = "done" /\ conn'[p].outcome = outcome
                   /\ conn'[p].op = r.op /\ conn'[p].fence = r.fence
                   /\ conn'[p].localNow = r.localNow
              ELSE conn'[p] = NoRequest
<1> DEFINE d == [r EXCEPT !.phase = "done", !.outcome = outcome]
<1>1. d \in Request
  BY DEF Request
<1>2. /\ d.phase = "done" /\ d.outcome = outcome /\ d.op = r.op
      /\ d.fence = r.fence /\ d.localNow = r.localNow
  BY DEF Request
<1>3. CASE pc[p] \in {"acquire", "refresh"}
  <2>1. conn' = [conn EXCEPT ![p] = d]
    BY <1>3 DEF Finish
  <2> HIDE DEF d
  <2> QED
    BY <1>1, <1>2, <1>3, <2>1
<1>4. CASE pc[p] \notin {"acquire", "refresh"}
  <2>1. conn' = [conn EXCEPT ![p] = NoRequest]
    BY <1>4 DEF Finish
  <2> QED
    BY <1>4, <2>1, RequestConstants
<1> QED
  BY <1>3, <1>4

LEMMA ExecuteNothingKeeps ==
    ASSUME IndInv, NEW p \in Procs, ExecuteNothing(p)
    PROVE  IndInv'
<1>1. TypeOK /\ Own(p) /\ conn[p] \in Request /\ conn \in [Procs -> Request]
  BY DEF IndInv, TypeOK
<1>2. conn[p].phase = "begun" /\ UNCHANGED <<memory, issued>> /\ Outside(p)
  BY DEF ExecuteNothing
<1>3. PICK outcome \in {"refused", "skew"} : Finish(p, outcome, conn[p])
  <2>1. CASE ClockOk(conn[p].localNow, conn[p].dbNow)
    BY <2>1 DEF ExecuteNothing
  <2>2. CASE ~ClockOk(conn[p].localNow, conn[p].dbNow)
    BY <2>2 DEF ExecuteNothing
  <2> QED
    BY <2>1, <2>2
<1>4. /\ conn' \in [Procs -> Request]
      /\ \A q \in Procs \ {p} : conn'[q] = conn[q]
      /\ IF pc[p] \in {"acquire", "refresh"}
         THEN /\ conn'[p].phase = "done" /\ conn'[p].outcome = outcome
              /\ conn'[p].op = conn[p].op
         ELSE conn'[p] = NoRequest
  BY <1>1, <1>3, FinishFields
<1>5. TypeOK' /\ OnlyFor(p)
  BY <1>1, <1>2, <1>4 DEF TypeOK, OnlyFor, Outside, memory, clocks
<1>6. BeforeGrant(p)'
  BY <1>1, <1>2, <1>4, RequestConstants DEF Own, BeforeGrant, Outside, memory
<1>7. InStep(p)' /\ GrantOnTheWay(p)'
  BY <1>1, <1>2, <1>3, <1>4, RequestConstants DEF Own, InStep, GrantOnTheWay, memory
<1>8. HoldsGrant(p)' /\ OwnStamps(p)' /\ PastEpoch(p)'
  BY <1>1, <1>2 DEF Own, HoldsGrant, LeaseOf, OwnStamps, PastEpoch, Outside, memory
<1>9. Own(p)'
  BY <1>6, <1>7, <1>8 DEF Own
<1> QED
  BY <1>2, <1>5, <1>9, InsideStep DEF Outside

LEMMA LeasedFields ==
    ASSUME NEW r \in LeaseRow, NEW owner \in Owners, NEW now \in Nat, NEW fence \in Nat
    PROVE  /\ Leased(r, owner, now, fence) \in LeaseRow
           /\ Leased(r, owner, now, fence).owner = owner
           /\ Leased(r, owner, now, fence).fence \in Nat
           /\ Leased(r, owner, now, fence).fence >= r.fence
           /\ Leased(r, owner, now, fence).fence >= fence
PROOF BY StoreAssumption DEF Leased, Greatest, LeaseRow, StoreAssumption

LEMMA RowWritten ==
    ASSUME conn \in [Procs -> Request], row \in LeaseRow, NEW p \in Procs,
           row' = Leased(row, OwnerOf[p], conn[p].dbNow, conn[p].fence)
    PROVE  /\ row' \in LeaseRow /\ row'.owner = OwnerOf[p]
           /\ row'.fence \in Nat /\ row.fence \in Nat /\ row'.fence >= row.fence
<1>1. /\ conn[p].dbNow \in Nat /\ conn[p].fence \in Nat
      /\ row.fence \in Nat /\ OwnerOf[p] \in Owners
  BY LeasedAssumption DEF Request, LeaseRow, LeasedAssumption
<1> QED
  BY <1>1, LeasedFields

LEMMA GrantAnswerFields ==
    ASSUME conn \in [Procs -> Request], NEW p \in Procs, NEW fence \in Nat,
           GrantAnswer(p, fence)
    PROVE  /\ conn' \in [Procs -> Request]
           /\ \A q \in Procs \ {p} : conn'[q] = conn[q]
           /\ IF pc[p] \in {"acquire", "refresh"}
              THEN /\ conn'[p].phase = "done" /\ conn'[p].outcome = "granted"
                   /\ conn'[p].op = conn[p].op /\ conn'[p].fence = fence
                   /\ conn'[p].localNow = conn[p].localNow
              ELSE conn'[p] = NoRequest
<1> DEFINE r == [conn[p] EXCEPT !.fence = fence, !.dbNow = 0, !.seen = NoRow]
<1>1. r \in Request
  BY RequestConstants DEF Request
<1>2. r.op = conn[p].op /\ r.fence = fence /\ r.localNow = conn[p].localNow
  BY DEF Request
<1>3. Finish(p, "granted", r)
  BY DEF GrantAnswer
<1> HIDE DEF r
<1> QED
  BY <1>1, <1>2, <1>3, FinishFields

(* What a statement that writes does to the windows and to the answer;     *)
(* floor is where p's window begins.  Its fence moves to the row's.        *)
LEMMA WriteKeeps ==
    ASSUME UniqueOwners, IndInv, NEW p \in Procs, NEW floor \in Nat,
           conn[p].phase = "begun",
           row' = Leased(row, OwnerOf[p], conn[p].dbNow, conn[p].fence),
           granted' = [granted EXCEPT ![p] = [floor |-> floor, fence |-> row'.fence]],
           GrantAnswer(p, row'.fence),
           UNCHANGED <<memory, clocks, issued>>,
           floor > 0, floor < row'.fence,
           \A q \in Procs \ {p} : granted[q].fence <= floor,
           conn[p].op = "acquire" => floor = conn[p].localNow,
           granted[p] # NoWindow => floor = granted[p].floor
    PROVE  IndInv'
<1> DEFINE w == [floor |-> floor, fence |-> row'.fence]
<1>1. /\ TypeOK /\ Own(p) /\ RowCovers /\ DisjointGrants
      /\ conn[p] \in Request /\ conn \in [Procs -> Request]
      /\ row \in LeaseRow /\ granted \in [Procs -> Window] /\ OwnerOf[p] \in Owners
  BY LeasedAssumption DEF IndInv, TypeOK, LeasedAssumption
<1>2. /\ row' \in LeaseRow /\ row'.owner = OwnerOf[p]
      /\ row'.fence \in Nat /\ row.fence \in Nat /\ row'.fence >= row.fence
  BY <1>1, RowWritten
<1>3. /\ w \in Window /\ w.floor = floor /\ w.fence = row'.fence
      /\ ValidWindow(w) /\ w # NoWindow
  BY <1>2 DEF Window, ValidWindow, NoWindow
<1>4. granted' = [granted EXCEPT ![p] = w]
  OBVIOUS
<1> HIDE DEF w
<1>5. /\ granted'[p] = w
      /\ \A q \in Procs \ {p} : granted'[q] = granted[q]
      /\ \A q \in Procs : granted[q].floor \in Nat /\ granted[q].fence \in Nat
  BY <1>1, <1>4 DEF Window
<1>6. /\ conn' \in [Procs -> Request]
      /\ \A q \in Procs \ {p} : conn'[q] = conn[q]
      /\ IF pc[p] \in {"acquire", "refresh"}
         THEN /\ conn'[p].phase = "done" /\ conn'[p].outcome = "granted"
              /\ conn'[p].op = conn[p].op /\ conn'[p].fence = row'.fence
              /\ conn'[p].localNow = conn[p].localNow
         ELSE conn'[p] = NoRequest
  BY <1>1, <1>2, GrantAnswerFields
<1>7. TypeOK'
  <2>1. granted' \in [Procs -> Window]
    BY <1>1, <1>3, <1>4
  <2> QED
    BY <1>1, <1>2, <1>6, <2>1 DEF TypeOK, memory, clocks
<1>8. RowCovers'
  <2>1. row'.owner # NoOwner
    BY <1>1, <1>2, StoreAssumption DEF StoreAssumption
  <2>2. ASSUME NEW q \in Procs
        PROVE  /\ granted'[q] = NoWindow \/ ValidWindow(granted'[q])
               /\ granted'[q].fence <= row'.fence
    <3>1. CASE q = p
      BY <1>2, <1>3, <1>5, <3>1
    <3>2. CASE q # p
      BY <1>1, <1>2, <1>5, <3>2 DEF RowCovers
    <3> QED
      BY <3>1, <3>2
  <2> QED
    BY <2>1, <2>2 DEF RowCovers
<1>9. OwnerIsLast'
  <2> SUFFICES ASSUME NEW q \in Procs, row'.owner = OwnerOf[q]
               PROVE  /\ granted'[q] # NoWindow
                      /\ \A k \in Procs \ {q} : granted'[k].fence <= granted'[q].floor
    BY DEF OwnerIsLast
  <2>1. q = p
    BY <1>2 DEF UniqueOwners
  <2> QED
    BY <1>3, <1>5, <2>1
<1>10. DisjointGrants'
  BY <1>1, <1>3, <1>5 DEF DisjointGrants
<1>11. OnlyFor(p)
  BY <1>5, <1>6 DEF OnlyFor, memory
<1>12. InStep(p)' /\ BeforeGrant(p)' /\ GrantOnTheWay(p)'
  <2>1. InStep(p)'
    BY <1>1, <1>6, RequestConstants DEF Own, InStep, memory
  <2>2. BeforeGrant(p)'
    <3>1. conn'[p].phase \notin {"sent", "begun"}
      BY <1>6, RequestConstants
    <3>2. lifecycle[p] = "new" => conn'[p].phase = "done" /\ conn'[p].outcome = "granted"
      BY <1>1, <1>6 DEF Own, InStep
    <3> QED
      BY <1>1, <3>1, <3>2 DEF Own, BeforeGrant, memory
  <2>3. GrantOnTheWay(p)'
    BY <1>3, <1>5, <1>6, RequestConstants DEF GrantOnTheWay
  <2> QED
    BY <2>1, <2>2, <2>3
<1>13. HoldsGrant(p)' /\ OwnStamps(p)' /\ PastEpoch(p)'
  <2>1. granted[p] = NoWindow => Len(issued[p]) = 0
    <3> SUFFICES ASSUME granted[p] = NoWindow PROVE Len(issued[p]) = 0
      OBVIOUS
    <3>1. issued[p] \in Seq(Stamp) /\ Len(issued[p]) \in Nat
      BY <1>1 DEF TypeOK
    <3>2. ASSUME Len(issued[p]) # 0 PROVE FALSE
      <4>1. 1 \in 1..Len(issued[p])
        BY <3>1, <3>2
      <4>2. issued[p][1] \in Stamp
        BY <3>1, <4>1
      <4>3. issued[p][1].ts \in Nat /\ issued[p][1].ts < 0
        BY <1>1, <4>1, <4>2 DEF Own, OwnStamps, NoWindow, Stamp
      <4> QED
        BY <4>3
    <3> QED
      BY <3>2
  <2>2. granted[p] # NoWindow => granted[p].floor = floor /\ granted[p].fence <= row'.fence
    BY <1>1, <1>2, <1>5 DEF RowCovers
  <2>3. HoldsGrant(p)'
    <3> SUFFICES ASSUME lifecycle[p] = "active"
                 PROVE  /\ lease[p].floor = w.floor
                        /\ lease[p].fence <= w.fence
                        /\ ValidWindow(LeaseOf(p))
      BY <1>5 DEF HoldsGrant, LeaseOf, memory
    <3>1. /\ lease[p].floor = granted[p].floor /\ lease[p].fence <= granted[p].fence
          /\ ValidWindow(LeaseOf(p)) /\ lease[p].fence \in Nat /\ lease[p].floor > 0
      BY <1>1 DEF TypeOK, Own, HoldsGrant, ValidWindow, LeaseOf
    <3>2. granted[p] # NoWindow
      BY <3>1 DEF NoWindow
    <3> QED
      BY <1>2, <1>3, <1>5, <2>2, <3>1, <3>2
  <2>4. OwnStamps(p)'
    <3>1. CASE granted[p] = NoWindow
      BY <2>1, <3>1 DEF OwnStamps, memory
    <3>2. CASE granted[p] # NoWindow
      <4>1. ASSUME NEW i \in 1..Len(issued[p])
            PROVE  w.floor <= issued[p][i].ts /\ issued[p][i].ts < w.fence
        <5>1. issued[p] \in Seq(Stamp)
          BY <1>1 DEF TypeOK
        <5>2. issued[p][i] \in Stamp
          BY <5>1
        <5>3. /\ issued[p][i].ts \in Nat
              /\ granted[p].floor <= issued[p][i].ts /\ issued[p][i].ts < granted[p].fence
          BY <1>1, <5>2 DEF Own, OwnStamps, Stamp
        <5> QED
          BY <1>2, <1>3, <1>5, <2>2, <3>2, <5>3
      <4> QED
        BY <1>1, <1>5, <4>1 DEF Own, OwnStamps, memory
    <3> QED
      BY <3>1, <3>2
  <2>5. PastEpoch(p)'
    BY <1>1 DEF Own, PastEpoch, memory
  <2> QED
    BY <2>3, <2>4, <2>5
<1>14. \A q \in Procs : Own(q)'
  BY <1>11, <1>12, <1>13, OthersKeepOwn DEF Own
<1> QED
  BY <1>7, <1>8, <1>9, <1>10, <1>14 DEF IndInv

(* A first window begins past the fence of the row.                        *)
LEMMA ExecuteAcquireKeeps ==
    ASSUME UniqueOwners, IndInv, NEW p \in Procs, ExecuteAcquire(p)
    PROVE  IndInv'
<1>1. /\ TypeOK /\ Own(p) /\ RowCovers /\ OwnerIsLast
      /\ conn[p] \in Request /\ row \in LeaseRow /\ OwnerOf[p] \in Owners
  BY LeasedAssumption DEF IndInv, TypeOK, LeasedAssumption
<1>2. /\ conn[p].phase = "begun" /\ conn[p].op = "acquire"
      /\ MayAcquire(row, OwnerOf[p], conn[p].localNow, conn[p].dbNow)
      /\ row' = Leased(row, OwnerOf[p], conn[p].dbNow, conn[p].fence)
      /\ granted' = [granted EXCEPT ![p] = [floor |-> conn[p].localNow, fence |-> row'.fence]]
      /\ GrantAnswer(p, row'.fence)
      /\ UNCHANGED <<memory, clocks, issued>>
  BY DEF ExecuteAcquire
<1>3. granted[p] = NoWindow
  BY <1>1, <1>2 DEF Own, BeforeGrant
<1>4. row.owner # OwnerOf[p]
  BY <1>1, <1>3 DEF OwnerIsLast
<1>5. /\ conn[p].localNow \in Nat /\ conn[p].dbNow \in Nat /\ conn[p].fence \in Nat
      /\ row.fence \in Nat /\ FenceWindow \in Nat /\ FenceWindow > 0
  BY <1>1, LeasedAssumption DEF Request, LeaseRow, LeasedAssumption
<1>6. row.fence <= conn[p].localNow
  BY <1>1, <1>2, <1>4, <1>5 DEF MayAcquire, RowCovers
<1>7. \A q \in Procs \ {p} : granted[q].fence <= conn[p].localNow
  <2> SUFFICES ASSUME NEW q \in Procs PROVE granted[q].fence <= conn[p].localNow
    OBVIOUS
  <2>1. granted[q] \in Window /\ granted[q].fence <= row.fence
    BY <1>1 DEF TypeOK, RowCovers
  <2> QED
    BY <1>5, <1>6, <2>1 DEF Window
<1>8. conn[p].localNow > 0 /\ conn[p].fence = conn[p].localNow + FenceWindow
  BY <1>1, <1>2 DEF Own, InStep
<1>9. conn[p].localNow < row'.fence
  <2>1. row'.fence \in Nat /\ row'.fence >= conn[p].fence
    BY <1>1, <1>2, <1>5, LeasedFields
  <2> QED
    BY <1>5, <1>8, <2>1
<1> QED
  BY <1>2, <1>3, <1>5, <1>7, <1>8, <1>9, WriteKeeps

(* The owner's window is the last one, so it may grow.                     *)
LEMMA ExecuteRefreshKeeps ==
    ASSUME UniqueOwners, IndInv, NEW p \in Procs, ExecuteRefresh(p)
    PROVE  IndInv'
<1>1. /\ TypeOK /\ Own(p) /\ RowCovers /\ OwnerIsLast
      /\ conn[p] \in Request /\ row \in LeaseRow /\ OwnerOf[p] \in Owners
      /\ granted[p] \in Window
  BY LeasedAssumption DEF IndInv, TypeOK, LeasedAssumption
<1>2. /\ conn[p].phase = "begun" /\ conn[p].op = "refresh"
      /\ row.owner = OwnerOf[p]
      /\ row' = Leased(row, OwnerOf[p], conn[p].dbNow, conn[p].fence)
      /\ granted' = [granted EXCEPT ![p] = [floor |-> granted[p].floor, fence |-> row'.fence]]
      /\ GrantAnswer(p, row'.fence)
      /\ UNCHANGED <<memory, clocks, issued>>
  BY DEF ExecuteRefresh, MayRefresh
<1>3. /\ granted[p] # NoWindow
      /\ \A q \in Procs \ {p} : granted[q].fence <= granted[p].floor
  BY <1>1, <1>2 DEF OwnerIsLast
<1>4. /\ granted[p].floor \in Nat /\ granted[p].floor > 0
      /\ granted[p].fence > granted[p].floor /\ granted[p].fence <= row.fence
      /\ granted[p].fence \in Nat
  BY <1>1, <1>3 DEF RowCovers, ValidWindow, Window
<1>5. row'.fence \in Nat /\ row'.fence >= row.fence /\ row.fence \in Nat
  <2>1. /\ conn[p].dbNow \in Nat /\ conn[p].fence \in Nat /\ row.fence \in Nat
    BY <1>1 DEF Request, LeaseRow
  <2> QED
    BY <1>1, <1>2, <2>1, LeasedFields
<1>6. granted[p].floor < row'.fence
  BY <1>4, <1>5
<1> QED
  BY <1>2, <1>3, <1>4, <1>6, WriteKeeps

(* Clocks move as they like.                                               *)
LEMMA ClocksKeep ==
    ASSUME IndInv,
           TypeOK',
           UNCHANGED <<memory, conn, row, granted, issued>>
    PROVE  IndInv'
<1>1. \A p \in Procs : Own(p)'
  <2> SUFFICES ASSUME NEW p \in Procs PROVE Own(p)'
    OBVIOUS
  <2>1. InStep(p)' /\ BeforeGrant(p)' /\ GrantOnTheWay(p)'
    BY DEF IndInv, Own, InStep, BeforeGrant, GrantOnTheWay, memory
  <2>2. HoldsGrant(p)' /\ OwnStamps(p)' /\ PastEpoch(p)'
    BY DEF IndInv, Own, HoldsGrant, LeaseOf, OwnStamps, PastEpoch, memory
  <2> QED
    BY <2>1, <2>2 DEF Own
<1> QED
  BY <1>1 DEF IndInv, RowCovers, OwnerIsLast, DisjointGrants

LEMMA ClockActionsKeep ==
    ASSUME IndInv, Tick \/ SetDbClock \/ \E p \in Procs : SetWallClock(p)
    PROVE  IndInv'
<1>1. TypeOK
  BY DEF IndInv
<1>2. CASE Tick
  <2>1. wall \in [Procs -> Nat] /\ dbClock \in Nat /\ mono \in Nat
    BY <1>1 DEF TypeOK
  <2>2. wall' \in [Procs -> Nat] /\ dbClock' \in Nat /\ mono' \in Nat
    BY <1>2, <2>1 DEF Tick
  <2>3. TypeOK'
    BY <1>1, <1>2, <2>2 DEF TypeOK, Tick, memory
  <2> QED
    BY <1>2, <2>3, ClocksKeep DEF Tick
<1>3. CASE SetDbClock
  <2>1. adjusts \in [wall : Nat, db : Nat]
    BY <1>1 DEF TypeOK
  <2>2. dbClock' \in Nat
    BY <1>3, LeasedAssumption DEF SetDbClock, LeasedAssumption
  <2>3. adjusts' \in [wall : Nat, db : Nat]
    BY <1>3, <2>1 DEF SetDbClock
  <2>4. TypeOK'
    BY <1>1, <1>3, <2>2, <2>3 DEF TypeOK, SetDbClock, memory
  <2> QED
    BY <1>3, <2>4, ClocksKeep DEF SetDbClock
<1>4. CASE \E p \in Procs : SetWallClock(p)
  <2>1. wall \in [Procs -> Nat] /\ adjusts \in [wall : Nat, db : Nat]
    BY <1>1 DEF TypeOK
  <2>2. wall' \in [Procs -> Nat]
    BY <1>4, <2>1, LeasedAssumption DEF SetWallClock, LeasedAssumption
  <2>3. adjusts' \in [wall : Nat, db : Nat]
    BY <1>4, <2>1 DEF SetWallClock
  <2>4. TypeOK'
    BY <1>1, <1>4, <2>2, <2>3 DEF TypeOK, SetWallClock, memory
  <2> QED
    BY <1>4, <2>4, ClocksKeep DEF SetWallClock
<1> QED
  BY <1>2, <1>3, <1>4

LEMMA StepKeepsIndInv ==
    ASSUME UniqueOwners, IndInv, [Next]_vars
    PROVE  IndInv'
<1>1. CASE UNCHANGED vars
  <2>1. TypeOK'
    BY <1>1 DEF IndInv, TypeOK, vars, memory, clocks
  <2> QED
    BY <1>1, <2>1, ClocksKeep DEF vars
<1>2. CASE Tick \/ SetDbClock
  BY <1>2, ClockActionsKeep
<1>3. ASSUME NEW p \in Procs,
             \/ Acquire(p) \/ Refresh(p) \/ CallNext(p) \/ Ready(p) \/ Close(p)
             \/ Answer(p) \/ RequestFails(p)
             \/ Generate(p) \/ Resume(p)
             \/ AbandonNext(p) \/ CancelSleep(p) \/ CancelBackoff(p)
             \/ Begin(p) \/ Execute(p)
             \/ Crash(p) \/ SetWallClock(p)
      PROVE  IndInv'
  <2>1. CASE Acquire(p) \/ RetryAcquire(p)
    BY <2>1, AcquireKeeps
  <2>2. CASE Refresh(p)
    <3>1. lifecycle[p] = "active" /\ conn[p].phase = "none"
      BY <2>2 DEF IndInv, Own, InStep, Refresh, Idle
    <3> QED
      BY <2>2, <3>1, EnterRefreshKeeps DEF Refresh
  <2>3. CASE CallNext(p)
    BY <2>3, CallNextKeeps
  <2>4. CASE AcquireGranted(p)
    BY <2>4, AcquireGrantedKeeps
  <2>5. CASE AcquireRefused(p)
    BY <2>5, AcquireRefusedKeeps
  <2>6. CASE RefreshGranted(p)
    BY <2>6, RefreshGrantedKeeps
  <2>7. CASE \/ RefreshRefused(p) \/ SkewReported(p) \/ RequestFails(p) \/ CancelBackoff(p)
             \/ RejectClock(p) \/ StillBehind(p) \/ Ready(p) \/ Close(p) \/ Crash(p)
    BY <2>7, EndingKeeps
  <2>8. CASE WaitForRollback(p) \/ WaitForNextMillis(p) \/ WaitAgain(p)
    BY <2>8, WaitKeeps
  <2>9. CASE IssueAtOnce(p) \/ IssueAfterRollback(p) \/ IssueAfterOverflow(p)
    BY <2>9, GenerateKeeps
  <2>10. CASE AbandonNext(p) \/ CancelSleep(p)
    BY <2>10, AbandonKeeps
  <2>11. CASE Begin(p)
    BY <2>11, BeginKeeps
  <2>12. CASE ExecuteAcquire(p)
    BY <2>12, ExecuteAcquireKeeps
  <2>13. CASE ExecuteRefresh(p)
    BY <2>13, ExecuteRefreshKeeps
  <2>14. CASE ExecuteNothing(p)
    BY <2>14, ExecuteNothingKeeps
  <2>15. CASE SetWallClock(p)
    BY <2>15, ClockActionsKeep
  <2> QED
    BY <1>3, <2>1, <2>2, <2>3, <2>4, <2>5, <2>6, <2>7, <2>8, <2>9, <2>10, <2>11, <2>12,
       <2>13, <2>14, <2>15
    DEF Answer, Generate, Resume, Execute
<1> QED
  BY <1>1, <1>2, <1>3 DEF Next

-----------------------------------------------------------------------------
(* The inductive invariant holds throughout: where every process has an    *)
(* OwnerID of its own, the row of the database covers every window it has  *)
(* granted, only its owner's window may grow, and each process issues      *)
(* growing stamps inside its own.                                          *)
THEOREM LeasedInvariant ==
    ASSUME UniqueOwners
    PROVE  Spec => []IndInv
<1>1. Init => IndInv
  BY InitIndInv
<1>2. IndInv /\ [Next]_vars => IndInv'
  BY StepKeepsIndInv
<1> QED
  BY <1>1, <1>2, PTL DEF Spec

(* LeasedGenerators keep the types of their states.                        *)
THEOREM LeasedTypeOK ==
    ASSUME UniqueOwners
    PROVE  Spec => []TypeOK
<1>1. IndInv => TypeOK
  BY DEF IndInv
<1> QED
  BY <1>1, LeasedInvariant, PTL

(* PGLeaseStore never grants overlapping windows of timestamps, whatever   *)
(* the clocks of the database and of the processes do.                     *)
THEOREM LeasedDisjointGrants ==
    ASSUME UniqueOwners
    PROVE  Spec => []DisjointGrants
<1>1. IndInv => DisjointGrants
  BY DEF IndInv
<1> QED
  BY <1>1, LeasedInvariant, PTL

(* A process issues, and believes it may issue, only what the row records. *)
THEOREM LeasedDurableBeforeUse ==
    ASSUME UniqueOwners
    PROVE  Spec => []DurableBeforeUse
<1>1. IndInv => DurableBeforeUse
  BY DEF IndInv, RowCovers, Own, HoldsGrant, OwnStamps, LeaseOf, DurableBeforeUse
<1> QED
  BY <1>1, LeasedInvariant, PTL

(* Two LeasedGenerators never return the same ID, nor does one twice.      *)
LEMMA InvariantUnique == IndInv => UniqueIDs
<1> SUFFICES ASSUME IndInv, NEW p \in Procs, NEW q \in Procs,
                    NEW i \in 1..Len(issued[p]), NEW j \in 1..Len(issued[q]),
                    issued[p][i] = issued[q][j]
             PROVE  p = q /\ i = j
  BY DEF UniqueIDs
<1>1. issued[p] \in Seq(Stamp) /\ issued[q] \in Seq(Stamp)
  BY DEF IndInv, TypeOK
<1>2. issued[p][i] \in Stamp /\ issued[q][j] \in Stamp
  BY <1>1
<1>3. Own(p) /\ Own(q)
  BY DEF IndInv
<1>4. p = q
  <2> SUFFICES ASSUME p # q PROVE FALSE
    OBVIOUS
  <2> DEFINE t == issued[p][i].ts
  <2>1. /\ t \in Nat
        /\ granted[p].floor <= t /\ t < granted[p].fence
        /\ granted[q].floor <= t /\ t < granted[q].fence
    BY <1>2, <1>3 DEF Own, OwnStamps, Stamp
  <2> HIDE DEF t
  <2>2. granted[p] \in Window /\ granted[q] \in Window
    BY DEF IndInv, TypeOK
  <2>3. granted[p] # NoWindow /\ granted[q] # NoWindow
    BY <2>1 DEF NoWindow
  <2>4. granted[p].fence <= granted[q].floor \/ granted[q].fence <= granted[p].floor
    BY <2>3 DEF IndInv, DisjointGrants
  <2> QED
    BY <2>1, <2>2, <2>4 DEF Window
<1>5. i = j
  <2>1. /\ i < j => Before(issued[p][i], issued[p][j])
        /\ j < i => Before(issued[p][j], issued[p][i])
    BY <1>3, <1>4 DEF Own, OwnStamps
  <2>2. ~Before(issued[p][i], issued[p][i])
    BY <1>2 DEF Before, Stamp
  <2>3. i \in Nat /\ j \in Nat
    BY <1>1
  <2> QED
    BY <1>4, <2>1, <2>2, <2>3
<1> QED
  BY <1>4, <1>5

(* No ID is ever issued twice under one node_id: across crashes,           *)
(* takeovers, late statements and lost answers, and with no assumption on  *)
(* any clock (LeasedGenerator.Next).                                       *)
THEOREM LeasedUniqueIDs ==
    ASSUME UniqueOwners
    PROVE  Spec => []UniqueIDs
<1> QED
  BY InvariantUnique, LeasedInvariant, PTL

(* IDs are as different as the stamps they are made of.                    *)
LEMMA DistinctStampsDistinctIDs ==
    ASSUME NEW a, NEW b, Encodable(a), Encodable(b), IDOf(a).id = IDOf(b).id
    PROVE  a = b
<1>1. a \in Stamp /\ b \in Stamp
  BY DEF Encodable
<1>2. ~Before(a, b)
  <2> SUFFICES ASSUME Before(a, b) PROVE FALSE
    OBVIOUS
  <2>1. IDOf(a).id < IDOf(b).id
    BY IDsFollowOrder
  <2>2. IDOf(a).id \in 1..MaxInt64
    BY EncodableComposes
  <2> QED
    BY <2>1, <2>2
<1>3. ~Before(b, a)
  <2> SUFFICES ASSUME Before(b, a) PROVE FALSE
    OBVIOUS
  <2>1. IDOf(b).id < IDOf(a).id
    BY IDsFollowOrder
  <2>2. IDOf(a).id \in 1..MaxInt64
    BY EncodableComposes
  <2> QED
    BY <2>1, <2>2
<1>4. a.ts = b.ts /\ a.seq = b.seq
  <2>1. MaxSequence \in Nat
    BY GeneratorAssumption DEF GeneratorAssumption
  <2> QED
    BY <1>1, <1>2, <1>3, <2>1 DEF Before, Stamp
<1> QED
  BY <1>1, <1>4 DEF Stamp

(* The same in the 64-bit words that callers get: what Compose makes of the*)
(* stamps is never refused, and never the same word twice, whichever       *)
(* process of the node_id returned it (Generator.next, Compose).           *)
THEOREM LeasedNoIDTwice ==
    ASSUME UniqueOwners
    PROVE  Spec => []NoIDTwice
<1>1. IndInv => NoIDTwice
  <2> SUFFICES ASSUME IndInv, NEW p \in Procs, NEW q \in Procs,
                      NEW i \in 1..Len(issued[p]), NEW j \in 1..Len(issued[q])
               PROVE  /\ IDOf(issued[p][i]).err = "nil"
                      /\ IDOf(issued[p][i]).id = IDOf(issued[q][j]).id => p = q /\ i = j
    BY DEF NoIDTwice
  <2>1. Encodable(issued[p][i]) /\ Encodable(issued[q][j])
    BY DEF IndInv, Own, OwnStamps
  <2>2. IDOf(issued[p][i]).err = "nil"
    BY <2>1, EncodableComposes
  <2>3. ASSUME IDOf(issued[p][i]).id = IDOf(issued[q][j]).id PROVE p = q /\ i = j
    <3>1. issued[p][i] = issued[q][j]
      BY <2>1, <2>3, DistinctStampsDistinctIDs
    <3> QED
      BY <3>1, InvariantUnique DEF UniqueIDs
  <2> QED
    BY <2>2, <2>3
<1> QED
  BY <1>1, LeasedInvariant, PTL

-----------------------------------------------------------------------------
(* LeasedGenerator implements FencedGrants: every step of the database, of *)
(* a process, of a clock or of the network is a grant, a growth of the     *)
(* last window, the use of a stamp, or changes neither windows nor stamps. *)
(* The invariant above says why.                                           *)

(* What the abstract machine sees does not change.                         *)
Unseen == UNCHANGED <<granted, issued>>

LEMMA UnseenStutters ==
    ASSUME Unseen PROVE [Grants!GrantsNext]_(Grants!grantVars)
PROOF BY DEF Unseen, Grants!grantVars

LEMMA InitImplements == Init => Grants!GrantsInit
PROOF BY DEF Init, InitProcesses, Grants!GrantsInit, Grants!None, NoWindow

-----------------------------------------------------------------------------
(* A takeover, and the first grant of all, is a Take: the local clock it   *)
(* begins at is not below the fence of the row, which covers all windows.  *)
LEMMA AcquireTakes ==
    ASSUME UniqueOwners, IndInv, NEW p \in Procs, ExecuteAcquire(p)
    PROVE  Grants!Take(p)
<1>1. /\ TypeOK /\ Own(p) /\ RowCovers /\ OwnerIsLast
      /\ conn[p] \in Request /\ row \in LeaseRow /\ OwnerOf[p] \in Owners
      /\ granted \in [Procs -> Window]
  BY LeasedAssumption DEF IndInv, TypeOK, LeasedAssumption
<1>2. /\ conn[p].phase = "begun" /\ conn[p].op = "acquire"
      /\ MayAcquire(row, OwnerOf[p], conn[p].localNow, conn[p].dbNow)
      /\ row' = Leased(row, OwnerOf[p], conn[p].dbNow, conn[p].fence)
      /\ granted' = [granted EXCEPT ![p] = [floor |-> conn[p].localNow, fence |-> row'.fence]]
      /\ issued' = issued
  BY DEF ExecuteAcquire
<1>3. granted[p] = NoWindow
  BY <1>1, <1>2 DEF Own, BeforeGrant
<1>4. row.owner # OwnerOf[p]
  BY <1>1, <1>3 DEF OwnerIsLast
<1>5. /\ conn[p].localNow \in Nat /\ conn[p].dbNow \in Nat /\ conn[p].fence \in Nat
      /\ row.fence \in Nat /\ FenceWindow \in Nat /\ FenceWindow > 0
  BY <1>1, LeasedAssumption DEF Request, LeaseRow, LeasedAssumption
<1>6. row.fence <= conn[p].localNow
  BY <1>1, <1>2, <1>4, <1>5 DEF MayAcquire, RowCovers
<1>7. \A q \in Procs : granted[q].fence <= conn[p].localNow
  <2> SUFFICES ASSUME NEW q \in Procs PROVE granted[q].fence <= conn[p].localNow
    OBVIOUS
  <2>1. granted[q] \in Window /\ granted[q].fence <= row.fence
    BY <1>1 DEF RowCovers
  <2> QED
    BY <1>5, <1>6, <2>1 DEF Window
<1>8. conn[p].localNow < row'.fence /\ row'.fence \in Nat
  <2>1. row'.fence \in Nat /\ row'.fence >= conn[p].fence
    BY <1>1, <1>2, <1>5, LeasedFields
  <2>2. conn[p].fence = conn[p].localNow + FenceWindow
    BY <1>1, <1>2 DEF Own, InStep
  <2> QED
    BY <1>5, <2>1, <2>2
<1> DEFINE w == [floor |-> conn[p].localNow, fence |-> row'.fence]
<1>9. w.floor = conn[p].localNow /\ w.fence = row'.fence /\ w \in Grants!Windows
  BY <1>5, <1>8 DEF Grants!Windows
<1>10. granted' = [granted EXCEPT ![p] = w]
  BY <1>2
<1> HIDE DEF w
<1>11. granted'[p] = w /\ granted' = [granted EXCEPT ![p] = granted'[p]]
  BY <1>1, <1>10
<1> QED
  BY <1>2, <1>3, <1>7, <1>8, <1>9, <1>11 DEF Grants!Take, Grants!None, NoWindow

(* A refresh extends the window of the row's owner, which is the last one, *)
(* or leaves it as it is when the fence does not move.                     *)
LEMMA RefreshExtends ==
    ASSUME UniqueOwners, IndInv, NEW p \in Procs, ExecuteRefresh(p)
    PROVE  Grants!Extend(p) \/ Unseen
<1>1. /\ TypeOK /\ Own(p) /\ RowCovers /\ OwnerIsLast
      /\ conn[p] \in Request /\ row \in LeaseRow /\ OwnerOf[p] \in Owners
      /\ granted \in [Procs -> Window] /\ granted[p] \in Window
  BY LeasedAssumption DEF IndInv, TypeOK, LeasedAssumption
<1>2. /\ row.owner = OwnerOf[p]
      /\ row' = Leased(row, OwnerOf[p], conn[p].dbNow, conn[p].fence)
      /\ granted' = [granted EXCEPT ![p] = [floor |-> granted[p].floor, fence |-> row'.fence]]
      /\ issued' = issued
  BY DEF ExecuteRefresh, MayRefresh
<1>3. /\ granted[p] # NoWindow
      /\ \A q \in Procs \ {p} : granted[q].fence <= granted[p].floor
  BY <1>1, <1>2 DEF OwnerIsLast
<1>4. /\ row'.fence \in Nat /\ row'.fence >= granted[p].fence /\ granted[p].fence \in Nat
  <2>1. /\ conn[p].dbNow \in Nat /\ conn[p].fence \in Nat /\ row.fence \in Nat
        /\ granted[p].fence \in Nat /\ granted[p].fence <= row.fence
    BY <1>1 DEF Request, LeaseRow, Window, RowCovers
  <2>2. row'.fence \in Nat /\ row'.fence >= row.fence
    BY <1>1, <1>2, <2>1, LeasedFields
  <2> QED
    BY <2>1, <2>2
<1> DEFINE w == [floor |-> granted[p].floor, fence |-> row'.fence]
<1>5. w.floor = granted[p].floor /\ w.fence = row'.fence
  OBVIOUS
<1>6. granted' = [granted EXCEPT ![p] = w]
  BY <1>2
<1>7. CASE row'.fence = granted[p].fence
  <2>1. w = granted[p]
    BY <1>1, <1>7 DEF Window
  <2> HIDE DEF w
  <2>2. granted' = granted
    BY <1>1, <1>6, <2>1
  <2> QED
    BY <1>2, <2>2 DEF Unseen
<1>8. CASE row'.fence # granted[p].fence
  <2>1. row'.fence > granted[p].fence
    BY <1>4, <1>8
  <2>2. w = [floor |-> granted[p].floor, fence |-> w.fence]
    BY <1>5
  <2> HIDE DEF w
  <2>3. granted'[p] = w
    BY <1>1, <1>6
  <2>4. granted' = [granted EXCEPT ![p] = [floor |-> granted[p].floor,
                                           fence |-> granted'[p].fence]]
    BY <1>6, <2>2, <2>3
  <2> QED
    BY <1>2, <1>3, <1>4, <1>5, <2>1, <2>3, <2>4 DEF Grants!Extend, Grants!None, NoWindow
<1> QED
  BY <1>7, <1>8

(* An ID returned is a stamp used: it lies in the granted window and after *)
(* the last one, as the invariant says of the state that follows.          *)
LEMMA IssueUses ==
    ASSUME IndInv, IndInv', NEW p \in Procs, NEW g, Issue(p, g), Outside(p)
    PROVE  Grants!Use(p)
<1> DEFINE s == StampOf(g)
           n == Len(issued[p])
<1>1. /\ issued[p] \in Seq(Stamp) /\ issued'[p] \in Seq(Stamp)
      /\ issued \in [Procs -> Seq(Stamp)]
      /\ issued' = [issued EXCEPT ![p] = Append(issued[p], s)]
      /\ granted' = granted
  BY DEF IndInv, TypeOK, Issue, Outside
<1> HIDE DEF s
<1>2. /\ n \in Nat /\ issued'[p] = Append(issued[p], s)
  BY <1>1
<1>3. /\ Len(issued'[p]) = n + 1 /\ issued'[p][n + 1] = s
      /\ \A i \in 1..n : issued'[p][i] = issued[p][i]
      /\ n + 1 \in DOMAIN issued'[p]
  BY <1>1, <1>2
<1>4. OwnStamps(p)'
  BY DEF IndInv, Own
<1>5. granted[p].floor <= s.ts /\ s.ts < granted[p].fence
  <2>1. n + 1 \in 1..Len(issued'[p])
    BY <1>2, <1>3
  <2> QED
    BY <1>1, <1>3, <1>4, <2>1 DEF OwnStamps
<1>6. issued[p] # <<>> => Before(issued[p][n], s)
  <2> SUFFICES ASSUME issued[p] # <<>> PROVE Before(issued[p][n], s)
    OBVIOUS
  <2>1. n \in 1..n
    BY <1>1
  <2>2. n \in 1..Len(issued'[p]) /\ n + 1 \in 1..Len(issued'[p]) /\ n < n + 1
    BY <1>2, <1>3, <2>1
  <2>3. Before(issued'[p][n], issued'[p][n + 1])
    BY <1>4, <2>2 DEF OwnStamps
  <2> QED
    BY <1>3, <2>1, <2>3
<1>7. s \in {issued'[p][i] : i \in DOMAIN issued'[p]} /\ s \in [ts : Nat, seq : Nat]
  <2>1. s \in Stamp
    BY <1>1, <1>3
  <2>2. Stamp \subseteq [ts : Nat, seq : Nat]
    BY GeneratorAssumption DEF Stamp, GeneratorAssumption
  <2> QED
    BY <1>3, <2>1, <2>2
<1>8. issued[p] # <<>> => Grants!Later(issued[p][Len(issued[p])], s)
  BY <1>6 DEF Grants!Later, Before
<1> HIDE DEF n
<1> QED
  BY <1>1, <1>5, <1>7, <1>8 DEF Grants!Use

LEMMA SettleUses ==
    ASSUME IndInv, IndInv', NEW p \in Procs, NEW g, Settle(p, g), Outside(p)
    PROVE  Grants!Use(p) \/ Unseen
<1>1. CASE Issue(p, SkipZero(g))
  BY <1>1, IssueUses
<1>2. CASE RefuseStamp(p, SkipZero(g))
  BY <1>2 DEF RefuseStamp, Outside, Unseen
<1> QED
  BY <1>1, <1>2 DEF Settle

-----------------------------------------------------------------------------
LEMMA StepImplements ==
    ASSUME UniqueOwners, IndInv, [Next]_vars
    PROVE  [Grants!GrantsNext]_(Grants!grantVars)
<1>1. IndInv'
  BY StepKeepsIndInv
<1>2. CASE UNCHANGED vars \/ Tick \/ SetDbClock
  <2>1. Unseen
    BY <1>2 DEF vars, Tick, SetDbClock, Unseen
  <2> QED
    BY <2>1, UnseenStutters
<1>3. ASSUME NEW p \in Procs,
             \/ Acquire(p) \/ Refresh(p) \/ CallNext(p) \/ Ready(p) \/ Close(p)
             \/ Answer(p) \/ RequestFails(p)
             \/ Generate(p) \/ Resume(p)
             \/ AbandonNext(p) \/ CancelSleep(p) \/ CancelBackoff(p)
             \/ Begin(p) \/ Execute(p)
             \/ Crash(p) \/ SetWallClock(p)
      PROVE  \/ Grants!Take(p) \/ Grants!Extend(p) \/ Grants!Use(p)
             \/ Unseen
  <2>1. CASE \/ Acquire(p) \/ Refresh(p) \/ CallNext(p) \/ Ready(p) \/ Close(p)
             \/ RequestFails(p) \/ AbandonNext(p) \/ CancelBackoff(p)
             \/ CancelSleep(p) \/ Begin(p) \/ Crash(p) \/ SetWallClock(p)
    BY <2>1 DEF Acquire, Refresh, CallNext, Ready, Close, RequestFails, AbandonNext,
                CancelBackoff, CancelSleep, Begin, Crash, SetWallClock, Outside, Unseen
  <2>2. CASE Answer(p)
    BY <2>2 DEF Answer, AcquireGranted, AcquireRefused, RefreshGranted, RefreshRefused,
                SkewReported, Answered, Outside, Unseen
  <2>3. CASE Generate(p) \/ Resume(p)
    <3>1. CASE RejectClock(p) \/ StillBehind(p) \/ RetryAcquire(p)
      BY <3>1 DEF RejectClock, StillBehind, RetryAcquire, Outside, Unseen
    <3>2. CASE WaitForRollback(p) \/ WaitForNextMillis(p) \/ WaitAgain(p)
      BY <3>2 DEF WaitForRollback, WaitForNextMillis, WaitAgain, SleepUntil, Outside, Unseen
    <3>3. CASE IssueAtOnce(p)
      BY <1>1, <3>3, SettleUses DEF IssueAtOnce
    <3>4. CASE IssueAfterRollback(p)
      BY <1>1, <3>4, SettleUses DEF IssueAfterRollback
    <3>5. CASE IssueAfterOverflow(p)
      BY <1>1, <3>5, SettleUses DEF IssueAfterOverflow
    <3> QED
      BY <2>3, <3>1, <3>2, <3>3, <3>4, <3>5 DEF Generate, Resume
  <2>4. CASE ExecuteAcquire(p)
    BY <2>4, AcquireTakes
  <2>5. CASE ExecuteRefresh(p)
    BY <2>5, RefreshExtends
  <2>6. CASE ExecuteNothing(p)
    BY <2>6 DEF ExecuteNothing, Outside, Unseen
  <2> QED
    BY <1>3, <2>1, <2>2, <2>3, <2>4, <2>5, <2>6 DEF Execute
<1>4. CASE ~(UNCHANGED vars \/ Tick \/ SetDbClock)
  <2>1. Grants!GrantsNext \/ Unseen
    BY <1>3, <1>4 DEF Next, Grants!GrantsNext
  <2> QED
    BY <2>1, UnseenStutters
<1> QED
  BY <1>2, <1>4

(* Where every process has an OwnerID of its own, LeasedGenerators with    *)
(* their crashes, lost and late statements, takeovers and clocks in any    *)
(* position do what FencedGrants allows and no more (PGLeaseStore,         *)
(* LeasedGenerator.Next).                                                  *)
THEOREM LeasedImplementsFencedGrants ==
    ASSUME UniqueOwners
    PROVE  Spec => ImplementsFencedGrants
<1>1. Init => Grants!GrantsInit
  BY InitImplements
<1>2. IndInv /\ [Next]_vars => [Grants!GrantsNext]_(Grants!grantVars)
  BY StepImplements
<1> QED
  BY <1>1, <1>2, LeasedInvariant, PTL DEF Spec, ImplementsFencedGrants, Grants!GrantsSpec

-----------------------------------------------------------------------------
(* What FencedGrants promises follows from its own three actions: nothing  *)
(* in this part looks at LeasedGenerator.                                  *)
AbstractStamp == [ts : Nat, seq : Nat]

GrantsApart ==
    \A p, q \in Procs :
        p # q => \/ granted[p] = Grants!None \/ granted[q] = Grants!None
                 \/ granted[p].fence <= granted[q].floor
                 \/ granted[q].fence <= granted[p].floor

StampsInside ==
    \A p \in Procs : \A i \in 1..Len(issued[p]) :
        granted[p].floor <= issued[p][i].ts /\ issued[p][i].ts < granted[p].fence

StampsGrow ==
    \A p \in Procs : \A i, j \in 1..Len(issued[p]) :
        i < j => Grants!Later(issued[p][i], issued[p][j])

GrantsInv ==
    /\ granted \in [Procs -> Grants!Windows]
    /\ issued \in [Procs -> Seq(AbstractStamp)]
    /\ GrantsApart
    /\ StampsInside
    /\ StampsGrow

LEMMA LaterTransitive ==
    ASSUME NEW a \in AbstractStamp, NEW b \in AbstractStamp, NEW c \in AbstractStamp,
           Grants!Later(a, b), Grants!Later(b, c)
    PROVE  Grants!Later(a, c)
PROOF BY DEF AbstractStamp, Grants!Later

LEMMA GrantsInitInv == Grants!GrantsInit => GrantsInv
<1> SUFFICES ASSUME Grants!GrantsInit PROVE GrantsInv
  OBVIOUS
<1>1. Grants!None \in Grants!Windows
  BY DEF Grants!None, Grants!Windows
<1>2. /\ granted = [h \in Procs |-> Grants!None]
      /\ issued = [h \in Procs |-> <<>>]
  BY DEF Grants!GrantsInit
<1>3. \A p \in Procs : granted[p] = Grants!None /\ issued[p] = <<>> /\ 1..Len(issued[p]) = {}
  BY <1>2
<1>4. granted \in [Procs -> Grants!Windows] /\ issued \in [Procs -> Seq(AbstractStamp)]
  BY <1>1, <1>2
<1>5. GrantsApart /\ StampsInside /\ StampsGrow
  BY <1>3 DEF GrantsApart, StampsInside, StampsGrow
<1> QED
  BY <1>4, <1>5 DEF GrantsInv

LEMMA TakeKeeps ==
    ASSUME GrantsInv, NEW h \in Procs, Grants!Take(h)
    PROVE  GrantsInv'
<1>1. /\ granted[h] = Grants!None /\ granted'[h] \in Grants!Windows
      /\ \A k \in Procs : granted[k].fence <= granted'[h].floor
      /\ issued' = issued
      /\ granted \in [Procs -> Grants!Windows]
  BY DEF Grants!Take, GrantsInv
<1>2. \A k \in Procs \ {h} : granted'[k] = granted[k]
  BY <1>1 DEF Grants!Take
<1>3. granted' \in [Procs -> Grants!Windows]
  <2> DEFINE w == granted'[h]
  <2>1. w \in Grants!Windows /\ granted' = [granted EXCEPT ![h] = w]
    BY <1>1 DEF Grants!Take
  <2> HIDE DEF w
  <2> QED
    BY <1>1, <2>1
<1>4. GrantsApart'
  BY <1>1, <1>2 DEF GrantsInv, GrantsApart
<1>5. 1..Len(issued[h]) = {}
  <2>1. ASSUME NEW i \in 1..Len(issued[h]) PROVE FALSE
    <3>1. issued[h] \in Seq(AbstractStamp) /\ issued[h][i] \in AbstractStamp
      BY DEF GrantsInv
    <3>2. issued[h][i].ts \in Nat
      BY <3>1 DEF AbstractStamp
    <3>3. issued[h][i].ts < 0
      BY <1>1 DEF GrantsInv, StampsInside, Grants!None
    <3> QED
      BY <3>2, <3>3
  <2> QED
    BY <2>1
<1>6. StampsInside'
  BY <1>1, <1>2, <1>5 DEF GrantsInv, StampsInside
<1>7. StampsGrow'
  BY <1>1 DEF GrantsInv, StampsGrow
<1> QED
  BY <1>1, <1>3, <1>4, <1>6, <1>7 DEF GrantsInv

LEMMA ExtendKeeps ==
    ASSUME GrantsInv, NEW h \in Procs, Grants!Extend(h)
    PROVE  GrantsInv'
<1>1. /\ granted'[h].fence \in Nat /\ granted'[h].fence > granted[h].fence
      /\ \A k \in Procs \ {h} : granted[k].fence <= granted[h].floor
      /\ issued' = issued
      /\ granted \in [Procs -> Grants!Windows] /\ granted[h] \in Grants!Windows
      /\ issued \in [Procs -> Seq(AbstractStamp)]
  BY DEF Grants!Extend, GrantsInv
<1> DEFINE f == granted'[h].fence
           w == [floor |-> granted[h].floor, fence |-> f]
<1>2. f \in Nat /\ granted' = [granted EXCEPT ![h] = w]
  BY <1>1 DEF Grants!Extend
<1>3. w \in Grants!Windows /\ w.floor = granted[h].floor /\ w.fence = f
  BY <1>1, <1>2 DEF Grants!Windows
<1>4. f > granted[h].fence
  BY <1>1
<1> HIDE DEF f, w
<1>5. /\ granted' \in [Procs -> Grants!Windows]
      /\ granted'[h] = w
      /\ \A k \in Procs \ {h} : granted'[k] = granted[k]
  BY <1>1, <1>2, <1>3
<1>6. GrantsApart'
  BY <1>1, <1>3, <1>5 DEF GrantsInv, GrantsApart
<1>7. StampsInside'
  <2> SUFFICES ASSUME NEW p \in Procs, NEW i \in 1..Len(issued[p])
               PROVE  /\ granted'[p].floor <= issued[p][i].ts
                      /\ issued[p][i].ts < granted'[p].fence
    BY <1>1 DEF StampsInside
  <2>1. granted[p].floor <= issued[p][i].ts /\ issued[p][i].ts < granted[p].fence
    BY DEF GrantsInv, StampsInside
  <2>2. CASE p # h
    BY <1>5, <2>1, <2>2
  <2>3. CASE p = h
    <3>1. issued[p][i].ts \in Nat
      <4>1. issued[p] \in Seq(AbstractStamp)
        BY <1>1
      <4>2. issued[p][i] \in AbstractStamp
        BY <4>1
      <4> QED
        BY <4>2 DEF AbstractStamp
    <3>2. granted[p].fence \in Nat
      BY <1>1 DEF Grants!Windows
    <3> QED
      BY <1>2, <1>3, <1>4, <1>5, <2>1, <2>3, <3>1, <3>2
  <2> QED
    BY <2>2, <2>3
<1>8. StampsGrow'
  BY <1>1 DEF GrantsInv, StampsGrow
<1> QED
  BY <1>1, <1>5, <1>6, <1>7, <1>8 DEF GrantsInv

LEMMA UseKeeps ==
    ASSUME GrantsInv, NEW h \in Procs, Grants!Use(h)
    PROVE  GrantsInv'
<1>1. PICK s \in {issued'[h][i] : i \in DOMAIN issued'[h]} :
          /\ s \in AbstractStamp
          /\ granted[h].floor <= s.ts /\ s.ts < granted[h].fence
          /\ issued[h] # <<>> => Grants!Later(issued[h][Len(issued[h])], s)
          /\ issued' = [issued EXCEPT ![h] = Append(issued[h], s)]
          /\ granted' = granted
  BY DEF Grants!Use, AbstractStamp
<1> DEFINE n == Len(issued[h])
<1>2. /\ issued \in [Procs -> Seq(AbstractStamp)] /\ issued[h] \in Seq(AbstractStamp)
      /\ n \in Nat
  BY DEF GrantsInv
<1>3. /\ issued'[h] = Append(issued[h], s)
      /\ \A p \in Procs \ {h} : issued'[p] = issued[p]
      /\ issued' \in [Procs -> Seq(AbstractStamp)]
  BY <1>1, <1>2
<1>4. /\ Len(issued'[h]) = n + 1 /\ issued'[h][n + 1] = s
      /\ \A i \in 1..n : issued'[h][i] = issued[h][i]
  BY <1>1, <1>2, <1>3
<1>5. GrantsApart'
  BY <1>1 DEF GrantsInv, GrantsApart
<1>6. StampsInside'
  <2> SUFFICES ASSUME NEW p \in Procs, NEW i \in 1..Len(issued'[p])
               PROVE  /\ granted[p].floor <= issued'[p][i].ts
                      /\ issued'[p][i].ts < granted[p].fence
    BY <1>1 DEF StampsInside
  <2>1. CASE p # h \/ i \in 1..n
    BY <1>3, <1>4, <2>1 DEF GrantsInv, StampsInside
  <2>2. CASE p = h /\ i = n + 1
    BY <1>1, <1>4, <2>2
  <2> QED
    BY <1>2, <1>4, <2>1, <2>2
<1>7. \A i \in 1..n : Grants!Later(issued[h][i], s)
  <2> SUFFICES ASSUME NEW i \in 1..n PROVE Grants!Later(issued[h][i], s)
    OBVIOUS
  <2>1. n \in 1..n /\ issued[h] # <<>> /\ issued[h][i] \in AbstractStamp /\ issued[h][n] \in AbstractStamp
    BY <1>2
  <2>2. Grants!Later(issued[h][n], s)
    BY <1>1, <2>1
  <2>3. CASE i = n
    BY <2>2, <2>3
  <2>4. CASE i # n
    <3>1. i < n /\ i \in 1..Len(issued[h]) /\ n \in 1..Len(issued[h])
      BY <1>2, <2>1, <2>4
    <3>2. Grants!Later(issued[h][i], issued[h][n])
      BY <3>1 DEF GrantsInv, StampsGrow
    <3> QED
      BY <1>1, <2>1, <2>2, <3>2, LaterTransitive
  <2> QED
    BY <2>3, <2>4
<1>8. StampsGrow'
  <2> SUFFICES ASSUME NEW p \in Procs, NEW i \in 1..Len(issued'[p]),
                      NEW j \in 1..Len(issued'[p]), i < j
               PROVE  Grants!Later(issued'[p][i], issued'[p][j])
    BY DEF StampsGrow
  <2>1. CASE p # h
    BY <1>3, <2>1 DEF GrantsInv, StampsGrow
  <2>2. CASE p = h /\ j \in 1..n
    <3>1. i \in 1..n
      BY <1>2, <1>4, <2>2
    <3> QED
      BY <1>4, <2>2, <3>1 DEF GrantsInv, StampsGrow
  <2>3. CASE p = h /\ j = n + 1
    <3>1. i \in 1..n
      BY <1>2, <1>4, <2>3
    <3> QED
      BY <1>4, <1>7, <2>3, <3>1
  <2> QED
    BY <1>2, <1>4, <2>1, <2>2, <2>3
<1> QED
  BY <1>1, <1>3, <1>5, <1>6, <1>8 DEF GrantsInv

LEMMA GrantsUnique == GrantsInv => Grants!NoStampTwice
<1> SUFFICES ASSUME GrantsInv, NEW h \in Procs, NEW k \in Procs,
                    NEW i \in 1..Len(issued[h]), NEW j \in 1..Len(issued[k]),
                    issued[h][i] = issued[k][j]
             PROVE  h = k /\ i = j
  BY DEF Grants!NoStampTwice
<1>1. /\ issued[h] \in Seq(AbstractStamp) /\ issued[k] \in Seq(AbstractStamp)
      /\ granted[h] \in Grants!Windows /\ granted[k] \in Grants!Windows
  BY DEF GrantsInv
<1>2. issued[h][i] \in AbstractStamp
  BY <1>1
<1>3. h = k
  <2> SUFFICES ASSUME h # k PROVE FALSE
    OBVIOUS
  <2> DEFINE t == issued[h][i].ts
  <2>1. /\ t \in Nat
        /\ granted[h].floor <= t /\ t < granted[h].fence
        /\ granted[k].floor <= t /\ t < granted[k].fence
    BY <1>2 DEF GrantsInv, StampsInside, AbstractStamp
  <2> HIDE DEF t
  <2>2. granted[h] # Grants!None /\ granted[k] # Grants!None
    BY <2>1 DEF Grants!None
  <2>3. granted[h].fence <= granted[k].floor \/ granted[k].fence <= granted[h].floor
    BY <2>2 DEF GrantsInv, GrantsApart
  <2> QED
    BY <1>1, <2>1, <2>3 DEF Grants!Windows
<1>4. ~(i < j) /\ ~(j < i)
  <2>1. ~Grants!Later(issued[h][i], issued[h][i])
    BY <1>2 DEF Grants!Later, AbstractStamp
  <2> QED
    BY <1>3, <2>1 DEF GrantsInv, StampsGrow
<1> QED
  BY <1>1, <1>3, <1>4

(* The abstract machine keeps its promise: whatever grants windows by its  *)
(* rules and issues out of them never issues a stamp twice (NextWithin     *)
(* with the floor and fence of a lease).                                   *)
THEOREM FencedGrantsKeepTheirPromise ==
    Grants!GrantsSpec => []Grants!NoStampTwice
<1>1. Grants!GrantsInit => GrantsInv
  BY GrantsInitInv
<1>2. GrantsInv /\ [Grants!GrantsNext]_(Grants!grantVars) => GrantsInv'
  <2> SUFFICES ASSUME GrantsInv, [Grants!GrantsNext]_(Grants!grantVars) PROVE GrantsInv'
    OBVIOUS
  <2>1. CASE UNCHANGED Grants!grantVars
    BY <2>1 DEF Grants!grantVars, GrantsInv, GrantsApart, StampsInside, StampsGrow
  <2>2. CASE Grants!GrantsNext
    BY <2>2, TakeKeeps, ExtendKeeps, UseKeeps DEF Grants!GrantsNext
  <2> QED
    BY <2>1, <2>2
<1>3. GrantsInv => Grants!NoStampTwice
  BY GrantsUnique
<1> QED
  BY <1>1, <1>2, <1>3, PTL DEF Grants!GrantsSpec
=============================================================================
