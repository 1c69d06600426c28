------------------------- MODULE GeneratorOpsProofs -------------------------
(***************************************************************************)
(* Facts about the operators of GeneratorOps, for every generator state    *)
(* and every clock reading, and about the IDs that Compose makes of the    *)
(* stamps (StampIDs).  Both state machines rest on them.                   *)
(***************************************************************************)
EXTENDS StampIDs, IDCodecOpsProofs

(* The fields of a generator state, with their ranges.                     *)
LEMMA Fields ==
    ASSUME NEW g \in GeneratorState
    PROVE  /\ g.lastMillis \in Nat
           /\ g.sequence \in Nat
           /\ g.sequence <= MaxSequence
           /\ g.overCostActive \in BOOLEAN
           /\ g.overCostRemaining \in Nat
           /\ g.overCostRemaining <= OverCostLimit
PROOF BY GeneratorAssumption DEF GeneratorAssumption, GeneratorState

LEMMA OnClockFields ==
    ASSUME NEW ts \in Nat, NEW seq \in 0..MaxSequence
    PROVE  /\ OnClock(ts, seq) \in GeneratorState
           /\ OnClock(ts, seq).lastMillis = ts
           /\ OnClock(ts, seq).sequence = seq
           /\ OnClock(ts, seq).overCostActive = FALSE
           /\ OnClock(ts, seq).overCostRemaining = OverCostLimit
PROOF BY GeneratorAssumption DEF GeneratorAssumption, GeneratorState, OnClock

(* Skipping the zero ID only ever raises a sequence of zero to one.        *)
LEMMA SkipZeroFields ==
    ASSUME NEW g \in GeneratorState
    PROVE  /\ SkipZero(g) \in GeneratorState
           /\ SkipZero(g).lastMillis = g.lastMillis
           /\ SkipZero(g).sequence \in Nat
           /\ SkipZero(g).sequence >= g.sequence
           /\ SkipZero(g).overCostActive = g.overCostActive
           /\ SkipZero(g).overCostRemaining = g.overCostRemaining
PROOF BY GeneratorAssumption, Fields
      DEF GeneratorAssumption, GeneratorState, SkipZero

(* The stamp that would compose to zero is never left standing.            *)
LEMMA SkipZeroNonZero ==
    ASSUME NEW g \in GeneratorState
    PROVE  ~( /\ SkipZero(g).lastMillis = EpochMillis
              /\ NodeCode = 0
              /\ SkipZero(g).sequence = 0 )
PROOF BY GeneratorAssumption, Fields
      DEF GeneratorAssumption, GeneratorState, SkipZero

(* Entering a call (the catch-up of next): the newest stamp is untouched,  *)
(* over-cost mode survives only while the clock is behind, and the budget  *)
(* stays covered by what bounded it or by the clock.                       *)
LEMMA CatchUpKeepsStamp ==
    ASSUME NEW g \in GeneratorState, NEW now \in Nat, NEW bound \in Nat,
           g.lastMillis + g.overCostRemaining <= bound + OverCostLimit,
           now <= bound
    PROVE  /\ CatchUp(g, now) \in GeneratorState
           /\ StampOf(CatchUp(g, now)) = StampOf(g)
           /\ CatchUp(g, now).lastMillis = g.lastMillis
           /\ CatchUp(g, now).overCostActive => now < g.lastMillis
           /\ CatchUp(g, now).lastMillis + CatchUp(g, now).overCostRemaining
                  <= bound + OverCostLimit
<1>1. CASE g.overCostActive /\ now >= g.lastMillis
  <2>1. CatchUp(g, now) = OnClock(g.lastMillis, g.sequence)
    BY <1>1 DEF CatchUp
  <2>2. g.lastMillis \in Nat /\ g.sequence \in 0..MaxSequence
    BY DEF GeneratorState
  <2>3. /\ CatchUp(g, now) \in GeneratorState
        /\ CatchUp(g, now).lastMillis = g.lastMillis
        /\ CatchUp(g, now).sequence = g.sequence
        /\ CatchUp(g, now).overCostActive = FALSE
        /\ CatchUp(g, now).overCostRemaining = OverCostLimit
    <3> DEFINE k == OnClock(g.lastMillis, g.sequence)
    <3>1. /\ k \in GeneratorState
          /\ k.lastMillis = g.lastMillis
          /\ k.sequence = g.sequence
          /\ k.overCostActive = FALSE
          /\ k.overCostRemaining = OverCostLimit
      BY <2>2, OnClockFields
    <3> HIDE DEF k
    <3>2. CatchUp(g, now) = k
      BY <2>1 DEF k
    <3> QED
      BY <3>1, <3>2
  <2> QED
    BY <1>1, <2>2, <2>3, GeneratorAssumption DEF StampOf, GeneratorAssumption
<1>2. CASE ~(g.overCostActive /\ now >= g.lastMillis)
  <2>1. CatchUp(g, now) = g
    BY <1>2, Zenon DEF CatchUp
  <2>2. g.overCostActive => now < g.lastMillis
    BY <1>2, Fields
  <2> QED
    BY <2>1, <2>2
<1> QED
  BY <1>1, <1>2

(* Restarting on a clock past the newest stamp yields a later stamp.       *)
LEMMA RestartGrows ==
    ASSUME NEW g \in GeneratorState, NEW now \in Nat, NEW bound \in Nat,
           now > g.lastMillis, now >= EpochMillis, now <= bound
    PROVE  /\ SkipZero(Restart(now)) \in GeneratorState
           /\ Before(StampOf(g), StampOf(SkipZero(Restart(now))))
           /\ SkipZero(Restart(now)).lastMillis = now
           /\ SkipZero(Restart(now)).overCostActive = FALSE
           /\ SkipZero(Restart(now)).lastMillis + SkipZero(Restart(now)).overCostRemaining
                  <= bound + OverCostLimit
<1>1. 0 \in 0..MaxSequence
  BY GeneratorAssumption DEF GeneratorAssumption
<1> DEFINE k == Restart(now)
<1>2. /\ k \in GeneratorState
      /\ k.lastMillis = now
      /\ k.overCostActive = FALSE
      /\ k.overCostRemaining = OverCostLimit
  BY <1>1, OnClockFields DEF Restart
<1> HIDE DEF k
<1>3. /\ SkipZero(k) \in GeneratorState
      /\ SkipZero(k).lastMillis = now
      /\ SkipZero(k).overCostActive = FALSE
      /\ SkipZero(k).overCostRemaining = OverCostLimit
  BY <1>2, SkipZeroFields
<1>4. Before(StampOf(g), StampOf(SkipZero(k)))
  BY <1>3 DEF StampOf, Before
<1> QED
  BY <1>3, <1>4, GeneratorAssumption DEF k, GeneratorAssumption

(* A call that is not exhausted moves to a later stamp, within the lead.   *)
LEMMA AdvanceGrows ==
    ASSUME NEW g \in GeneratorState, NEW now \in Nat, NEW bound \in Nat,
           now >= EpochMillis, now <= bound,
           g.lastMillis + g.overCostRemaining <= bound + OverCostLimit,
           ~Exhausted(g, now)
    PROVE  /\ Advance(g, now) \in GeneratorState
           /\ SkipZero(Advance(g, now)) \in GeneratorState
           /\ Before(StampOf(g), StampOf(SkipZero(Advance(g, now))))
           /\ SkipZero(Advance(g, now)).lastMillis >= EpochMillis
           /\ SkipZero(Advance(g, now)).lastMillis
                  + SkipZero(Advance(g, now)).overCostRemaining <= bound + OverCostLimit
<1>1. CASE now > g.lastMillis
  <2>1. Advance(g, now) = Restart(now) /\ 0 \in 0..MaxSequence
    BY <1>1, GeneratorAssumption DEF Advance, GeneratorAssumption
  <2>2. Restart(now) \in GeneratorState
    BY <2>1, OnClockFields DEF Restart
  <2> QED
    BY <1>1, <2>1, <2>2, RestartGrows
<1>2. CASE now <= g.lastMillis
  <2> DEFINE k == Advance(g, now)
  <2>1. /\ k \in GeneratorState
        /\ Before(StampOf(g), StampOf(k))
        /\ k.lastMillis >= EpochMillis
        /\ k.lastMillis + k.overCostRemaining <= bound + OverCostLimit
    <3>1. CASE g.sequence < MaxSequence
      <4>1. k = [g EXCEPT !.sequence = @ + 1]
        BY <1>2, <3>1, Fields DEF Advance
      <4>2. k \in GeneratorState
        BY <3>1, <4>1, GeneratorAssumption DEF GeneratorAssumption, GeneratorState
      <4>3. /\ k.lastMillis = g.lastMillis
            /\ k.sequence = g.sequence + 1
            /\ k.overCostRemaining = g.overCostRemaining
        BY <4>1 DEF GeneratorState
      <4> HIDE DEF k
      <4> QED
        BY <1>2, <4>2, <4>3, Fields, GeneratorAssumption
        DEF StampOf, Before, GeneratorAssumption
    <3>2. CASE g.sequence >= MaxSequence
      <4>1. g.overCostRemaining # 0
        BY <1>2, <3>2 DEF Exhausted
      <4>2. k = [ lastMillis        |-> g.lastMillis + 1,
                  sequence          |-> 0,
                  overCostActive    |-> TRUE,
                  overCostRemaining |-> g.overCostRemaining - 1 ]
        BY <1>2, <3>2, Fields, GeneratorAssumption DEF Advance, GeneratorAssumption
      <4> QED
        BY <1>2, <4>1, <4>2, Fields, GeneratorAssumption
        DEF GeneratorState, StampOf, Before, GeneratorAssumption
    <3> QED
      BY <3>1, <3>2, Fields, GeneratorAssumption DEF GeneratorAssumption
  <2> HIDE DEF k
  <2>2. /\ SkipZero(k) \in GeneratorState
        /\ Before(StampOf(g), StampOf(SkipZero(k)))
        /\ SkipZero(k).lastMillis >= EpochMillis
        /\ SkipZero(k).lastMillis + SkipZero(k).overCostRemaining <= bound + OverCostLimit
    BY <2>1, SkipZeroFields, Fields DEF StampOf, Before
  <2> QED
    BY <2>1, <2>2 DEF k
<1> QED
  BY <1>1, <1>2, Fields

(* The flag of the state after such a call tells whether its timestamp is  *)
(* ahead of the clock, provided it told so before and the clock was not    *)
(* behind.                                                                 *)
LEMMA AdvanceFlag ==
    ASSUME NEW g \in GeneratorState, NEW now \in Nat,
           now >= EpochMillis, ~Exhausted(g, now),
           g.overCostActive => now < g.lastMillis,
           ~g.overCostActive => now >= g.lastMillis
    PROVE  IF SkipZero(Advance(g, now)).overCostActive
           THEN SkipZero(Advance(g, now)).lastMillis > now
           ELSE SkipZero(Advance(g, now)).lastMillis = now
<1> DEFINE k == Advance(g, now)
<1>1. k \in GeneratorState /\ IF k.overCostActive THEN k.lastMillis > now ELSE k.lastMillis = now
  <2>1. CASE now > g.lastMillis
    <3>1. 0 \in 0..MaxSequence
      BY GeneratorAssumption DEF GeneratorAssumption
    <3> QED
      BY <2>1, <3>1, OnClockFields DEF Advance, Restart
  <2>2. CASE now <= g.lastMillis /\ g.sequence < MaxSequence
    <3>1. k = [g EXCEPT !.sequence = @ + 1]
      BY <2>2, Fields DEF Advance
    <3>2. k \in GeneratorState
      BY <2>2, <3>1, GeneratorAssumption DEF GeneratorAssumption, GeneratorState
    <3>3. k.lastMillis = g.lastMillis /\ k.overCostActive = g.overCostActive
      BY <3>1 DEF GeneratorState
    <3> HIDE DEF k
    <3> QED
      BY <2>2, <3>2, <3>3, Fields
  <2>3. CASE now <= g.lastMillis /\ g.sequence >= MaxSequence
    <3>1. g.overCostRemaining # 0
      BY <2>3 DEF Exhausted
    <3>2. k = [ lastMillis        |-> g.lastMillis + 1,
                sequence          |-> 0,
                overCostActive    |-> TRUE,
                overCostRemaining |-> g.overCostRemaining - 1 ]
      BY <2>3, Fields, GeneratorAssumption DEF Advance, GeneratorAssumption
    <3> QED
      BY <2>3, <3>1, <3>2, Fields, GeneratorAssumption DEF GeneratorState, GeneratorAssumption
  <2> QED
    BY <2>1, <2>2, <2>3, Fields, GeneratorAssumption DEF GeneratorAssumption
<1> HIDE DEF k
<1>2. IF SkipZero(k).overCostActive THEN SkipZero(k).lastMillis > now
                                    ELSE SkipZero(k).lastMillis = now
  BY <1>1, SkipZeroFields
<1> QED
  BY <1>2 DEF k

(* Before is a strict order on stamps.                                     *)
LEMMA BeforeTransitive ==
    ASSUME NEW a \in Stamp, NEW b \in Stamp, NEW c \in Stamp,
           Before(a, b), Before(b, c)
    PROVE  Before(a, c)
PROOF BY DEF Stamp, Before

-----------------------------------------------------------------------------
(* A stamp that has passed the checks of next.                             *)
Encodable(s) ==
    /\ s \in Stamp
    /\ s.ts >= EpochMillis /\ s.ts - EpochMillis <= MaxTimestamp
    /\ ~(s.ts = EpochMillis /\ NodeCode = 0 /\ s.seq = 0)

(* The widths the two sides share, in the terms of the codec.              *)
LEMMA SharedFields ==
    /\ EpochMillis \in Int64 /\ EpochMillis \in Nat /\ EpochMillis > 0
    /\ EpochOf(EpochMillis) = EpochMillis
    /\ NodeCode \in 0..(MaxNodeID - 1) /\ NodeCode \in Int64
    /\ \A n \in 0..MaxSequence : n \in 0..(SequenceCount - 1) /\ n \in Int64
    /\ MaxTimestamp \in Nat /\ MaxTimestamp = Timestamps - 1
    /\ EpochMillis + MaxTimestamp <= MaxInt64
<1>1. /\ EpochMillis \in Nat /\ EpochMillis > 0 /\ NodeCode \in Nat
      /\ MaxSequence \in Nat /\ MaxTimestamp \in Nat
  BY GeneratorAssumption DEF GeneratorAssumption
<1>2. /\ Timestamps \in Nat /\ MaxNodeID \in Nat /\ SequenceCount \in Nat
      /\ Timestamps = MaxTimestamp + 1 /\ SequenceCount = MaxSequence + 1
      /\ NodeCode < MaxNodeID /\ EpochMillis + MaxTimestamp <= MaxInt64
  BY WidthAssumption, SharedWidths DEF WidthAssumption, SharedWidths
<1>3. MaxNodeID <= Words /\ SequenceCount <= Words
  <2>1. /\ Timestamps \in Nat \ {0} /\ MaxNodeID \in Nat \ {0}
        /\ SequenceCount \in Nat \ {0} /\ IDsPerMilli \in Nat
    BY WidthAssumption, Widths DEF WidthAssumption
  <2>2. MaxNodeID * 1 <= MaxNodeID * SequenceCount
    BY <2>1, MulMono
  <2>3. SequenceCount * 1 <= SequenceCount * MaxNodeID
    BY <2>1, MulMono
  <2>4. IDsPerMilli * 1 <= IDsPerMilli * Timestamps
    BY <2>1, MulMono
  <2>5. /\ SequenceCount * MaxNodeID = IDsPerMilli
        /\ MaxNodeID * SequenceCount = IDsPerMilli
        /\ IDsPerMilli * Timestamps = Words
    BY <2>1, SMTT(20) DEF IDsPerMilli, Words
  <2> QED
    BY <2>1, <2>2, <2>3, <2>4, <2>5, Widths
<1>4. /\ MaxInt64 = Words - 1 /\ Words \in Nat
      /\ \A x \in Int : -Words <= x /\ x < Words => x \in Int64
  BY Widths
<1>5. EpochMillis \in Int64 /\ EpochOf(EpochMillis) = EpochMillis
  BY <1>1, <1>2, <1>4 DEF EpochOf
<1>6. NodeCode \in 0..(MaxNodeID - 1) /\ NodeCode \in Int64
  BY <1>1, <1>2, <1>3, <1>4
<1>7. ASSUME NEW n \in 0..MaxSequence PROVE n \in 0..(SequenceCount - 1) /\ n \in Int64
  BY <1>1, <1>2, <1>3, <1>4
<1> QED
  BY <1>1, <1>2, <1>5, <1>6, <1>7

(* Compose makes a positive ID of such a stamp, and Decode the stamp of it.*)
LEMMA EncodableComposes ==
    ASSUME NEW s, Encodable(s), NEW id, id = IDOf(s).id
    PROVE  /\ IDOf(s).err = "nil"
           /\ s.ts - EpochMillis \in 0..(Timestamps - 1)
           /\ s.seq \in 0..(SequenceCount - 1)
           /\ id = Pack(s.ts - EpochMillis, NodeCode, s.seq)
           /\ id \in 1..MaxInt64
           /\ TimeField(id) + EpochOf(EpochMillis) = s.ts
           /\ DecodeError(id, EpochMillis) = "nil"
           /\ Parts(id, EpochMillis).ts = s.ts
           /\ Parts(id, EpochMillis).nodeID = NodeCode + 1
           /\ Parts(id, EpochMillis).seq = s.seq
<1>1. /\ s.ts \in Nat /\ s.seq \in 0..MaxSequence
      /\ s.ts >= EpochMillis /\ s.ts - EpochMillis <= MaxTimestamp
      /\ ~(s.ts = EpochMillis /\ NodeCode = 0 /\ s.seq = 0)
  BY DEF Encodable, Stamp
<1>2. s.seq \in 0..(SequenceCount - 1) /\ s.seq \in Int64
  BY <1>1, SharedFields
<1>3. s.ts \in Int64 /\ s.ts - EpochMillis \in 0..(Timestamps - 1)
  BY <1>1, SharedFields, Widths
<1>4. ComposeError(s.ts, EpochMillis, NodeCode, s.seq) = "nil"
  BY <1>1, <1>2, <1>3, SharedFields, StampComposes
<1>5. IDOf(s).err = "nil" /\ id = Compose(s.ts, EpochMillis, NodeCode, s.seq).id
  BY <1>4 DEF IDOf, Compose
<1>6. EpochMillis \in Int64 /\ NodeCode \in Int64
  BY SharedFields
<1>7. s.ts - EpochOf(EpochMillis) <= MaxInt64
  BY <1>3, EpochFits, InWord, Widths, SharedFields
<1>8. /\ id = Pack(s.ts - EpochOf(EpochMillis), NodeCode, s.seq)
      /\ id \in 1..MaxInt64
      /\ TimeField(id) + EpochOf(EpochMillis) = s.ts
      /\ DecodeError(id, EpochMillis) = "nil"
  BY <1>2, <1>3, <1>4, <1>5, <1>6, <1>7, ComposedDecodes
<1>9. /\ Parts(id, EpochMillis).ts = s.ts
      /\ Parts(id, EpochMillis).nodeID = NodeCode + 1
      /\ Parts(id, EpochMillis).seq = s.seq
  BY <1>2, <1>3, <1>4, <1>5, <1>6, <1>7, ComposedDecodes
<1> QED
  BY <1>2, <1>3, <1>5, <1>8, <1>9, SharedFields

(* The order of the stamps of one node is the order of its IDs.            *)
LEMMA IDsFollowOrder ==
    ASSUME NEW a, NEW b, Encodable(a), Encodable(b), Before(a, b)
    PROVE  IDOf(a).id < IDOf(b).id
<1>1. /\ a.ts - EpochMillis \in 0..(Timestamps - 1) /\ a.seq \in 0..(SequenceCount - 1)
      /\ IDOf(a).id = Pack(a.ts - EpochMillis, NodeCode, a.seq)
      /\ b.ts - EpochMillis \in 0..(Timestamps - 1) /\ b.seq \in 0..(SequenceCount - 1)
      /\ IDOf(b).id = Pack(b.ts - EpochMillis, NodeCode, b.seq)
  BY EncodableComposes
<1>2. \/ a.ts - EpochMillis < b.ts - EpochMillis
      \/ a.ts - EpochMillis = b.ts - EpochMillis /\ NodeCode = NodeCode /\ a.seq < b.seq
  <2>1. a.ts \in Nat /\ b.ts \in Nat /\ EpochMillis \in Nat
    BY SharedFields DEF Encodable, Stamp
  <2> QED
    BY <2>1 DEF Before
<1> QED
  BY <1>1, <1>2, SharedFields, PackOrder

(* The one error of Compose that GeneratorOps keeps is the one that next   *)
(* can still meet when it calls it: no generator state that has passed the *)
(* check of the epoch and the skip of the zero ID is refused for another   *)
(* reason, and none that OutOfRange lets through is refused at all.        *)
THEOREM OutOfRangeIsWhatComposeRefuses ==
    ASSUME NEW k \in GeneratorState, NEW g, g = SkipZero(k),
           g.lastMillis >= EpochMillis, g.lastMillis <= MaxInt64
    PROVE  IDOf(StampOf(g)).err = IF OutOfRange(g) THEN "ErrTimestampOverflow" ELSE "nil"
<1>1. /\ g \in GeneratorState /\ g.lastMillis \in Nat /\ g.sequence \in 0..MaxSequence
      /\ ~(g.lastMillis = EpochMillis /\ NodeCode = 0 /\ g.sequence = 0)
  <2>1. g \in GeneratorState
    BY SkipZeroFields
  <2> QED
    BY <2>1, SkipZeroNonZero DEF GeneratorState
<1>2. g.sequence \in 0..(SequenceCount - 1) /\ g.lastMillis \in Int64
  BY <1>1, SharedFields, Widths
<1>3. /\ g.lastMillis - EpochMillis <= Timestamps - 1 =>
            ComposeError(g.lastMillis, EpochMillis, NodeCode, g.sequence) = "nil"
      /\ g.lastMillis - EpochMillis > Timestamps - 1 =>
            ComposeError(g.lastMillis, EpochMillis, NodeCode, g.sequence)
                = "ErrTimestampOverflow"
  BY <1>1, <1>2, SharedFields, StampComposes
<1>4. IDOf(StampOf(g)).err = ComposeError(g.lastMillis, EpochMillis, NodeCode, g.sequence)
  BY DEF IDOf, StampOf, Compose
<1>5. g.lastMillis - EpochMillis \in Int /\ MaxTimestamp \in Int
  BY <1>1, SharedFields
<1> QED
  BY <1>3, <1>4, <1>5, SharedFields DEF OutOfRange
=============================================================================
