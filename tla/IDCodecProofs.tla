--------------------------- MODULE IDCodecProofs ----------------------------
(***************************************************************************)
(* The properties of the codec, which follow from the answers alone: a     *)
(* behaviour's answers are those of the functions.                         *)
(***************************************************************************)
EXTENDS IDCodec, IDCodecOpsProofs

-----------------------------------------------------------------------------
(* The invariant: the recorded answers are the functions' answers.         *)
THEOREM AnswersAreTrue == Spec => []TrueAnswers
<1>1. Init => TrueAnswers
  BY DEF Init, TrueAnswers
<1>2. TrueAnswers /\ [Next]_vars => TrueAnswers'
  <2> SUFFICES ASSUME TrueAnswers, [Next]_vars PROVE TrueAnswers'
    OBVIOUS
  <2>1. CASE ComposeCode
    <3>1. PICK ts \in Instants, e \in Epochs, node \in Nodes, seq \in Seqs :
            /\ composed' = composed \cup {Compose(ts, e, node, seq)}
            /\ UNCHANGED <<decoded, judged>>
      BY <2>1 DEF ComposeCode
    <3>2. {ts, e, node, seq} \subseteq Int64
      BY CodecInputAssumption DEF CodecInputAssumption
    <3> QED
      BY <3>1, <3>2 DEF TrueAnswers, Compose
  <2>2. CASE ComposeNode
    <3>1. PICK ts \in Instants, e \in Epochs, nodeID \in Nodes, seq \in Seqs :
            /\ ValidNodeID(nodeID)
            /\ composed' = composed \cup {Compose(ts, e, CodeOf(nodeID), seq)}
            /\ UNCHANGED <<decoded, judged>>
      BY <2>2 DEF ComposeNode
    <3>2. CodeOf(nodeID) \in Int64
      <4>1. nodeID \in Int64 /\ nodeID >= 1 /\ nodeID \in Int
        BY <3>1, CodecInputAssumption, Widths, WidthAssumption
           DEF CodecInputAssumption, ValidNodeID, WidthAssumption
      <4> QED
        BY <4>1, Widths DEF CodeOf
    <3>3. {ts, e, CodeOf(nodeID), seq} \subseteq Int64
      BY <3>2, CodecInputAssumption DEF CodecInputAssumption
    <3> QED
      BY <3>1, <3>3 DEF TrueAnswers, Compose
  <2>3. CASE DecodeID
    <3>1. PICK id \in IDs, e \in Epochs :
            /\ decoded' = decoded \cup {Decode(id, e)}
            /\ UNCHANGED <<composed, judged>>
      BY <2>3 DEF DecodeID
    <3>2. {id, e} \subseteq Int64
      BY CodecInputAssumption DEF CodecInputAssumption
    <3> QED
      BY <3>1, <3>2 DEF TrueAnswers, Decode
  <2>4. CASE JudgeID
    <3>1. PICK id \in IDs, e \in Epochs, now \in Instants, lead \in Leads :
            /\ judged' = judged \cup {DecodeStrict(id, e, now, lead)}
            /\ UNCHANGED <<composed, decoded>>
      BY <2>4 DEF JudgeID
    <3>2. {id, e, now, lead} \subseteq Int64
      BY CodecInputAssumption DEF CodecInputAssumption
    <3> QED
      BY <3>1, <3>2 DEF TrueAnswers, DecodeStrict
  <2>5. CASE UNCHANGED vars
    BY <2>5 DEF TrueAnswers, vars
  <2> QED
    BY <2>1, <2>2, <2>3, <2>4, <2>5 DEF Next
<1> QED
  BY <1>1, <1>2, PTL DEF Spec

(* What the answers say of an ID that was issued.                          *)
LEMMA IssuedAnswers ==
    ASSUME TrueAnswers, NEW c \in Issued \cap Sensible
    PROVE  /\ c.ts \in Int64 /\ c.epoch \in Int64 /\ c.node \in Int64 /\ c.seq \in Int64
           /\ c.ts - EpochOf(c.epoch) <= MaxInt64
           /\ ComposeError(c.ts, c.epoch, c.node, c.seq) = "nil"
           /\ c.id = Compose(c.ts, c.epoch, c.node, c.seq).id
<1>1. /\ c = Compose(c.ts, c.epoch, c.node, c.seq)
      /\ {c.ts, c.epoch, c.node, c.seq} \subseteq Int64
      /\ c.err = "nil" /\ c.ts - EpochOf(c.epoch) <= MaxInt64
  BY DEF TrueAnswers, Issued, Sensible
<1>2. ComposeError(c.ts, c.epoch, c.node, c.seq) = "nil"
  BY <1>1 DEF Compose
<1> QED
  BY <1>1, <1>2

(* Compose, when the difference of timestamp and epoch fits the word, lets *)
(* through only stamps it can encode.                                      *)
THEOREM ComposeGuardsTheRange == Spec => []RangeGuarded
<1>1. TrueAnswers => RangeGuarded
  <2> SUFFICES ASSUME TrueAnswers, NEW c \in Issued \cap Sensible
               PROVE  /\ c.ts - EpochOf(c.epoch) \in 0..(Timestamps - 1)
                      /\ c.id > 0
    BY DEF RangeGuarded
  <2>1. c.ts - EpochOf(c.epoch) \in 0..(Timestamps - 1)
    BY IssuedAnswers, ComposedExactly
  <2>2. c.id \in 1..MaxInt64
    BY IssuedAnswers, ComposedDecodes
  <2> QED
    BY <2>1, <2>2, Widths
<1> QED
  BY <1>1, AnswersAreTrue, PTL

(* Decode inverts Compose.                                                 *)
THEOREM DecodeInvertsCompose == Spec => []RoundTrip
<1>1. TrueAnswers => RoundTrip
  <2> SUFFICES ASSUME TrueAnswers, NEW c \in Issued \cap Sensible
               PROVE  /\ DecodeError(c.id, c.epoch) = "nil"
                      /\ Parts(c.id, c.epoch) =
                           [ts |-> c.ts, nodeID |-> c.node + 1, seq |-> c.seq]
    BY DEF RoundTrip
  <2>1. /\ c.ts \in Int64 /\ c.epoch \in Int64 /\ c.node \in Int64 /\ c.seq \in Int64
        /\ c.ts - EpochOf(c.epoch) <= MaxInt64
        /\ ComposeError(c.ts, c.epoch, c.node, c.seq) = "nil"
        /\ c.id = Compose(c.ts, c.epoch, c.node, c.seq).id
    BY IssuedAnswers
  <2>2. DecodeError(c.id, c.epoch) = "nil"
    BY <2>1, ComposedDecodes
  <2>3. /\ Parts(c.id, c.epoch).ts = c.ts
        /\ Parts(c.id, c.epoch).nodeID = c.node + 1
        /\ Parts(c.id, c.epoch).seq = c.seq
    BY <2>1, ComposedDecodes
  <2> QED
    BY <2>2, <2>3 DEF Parts
<1> QED
  BY <1>1, AnswersAreTrue, PTL

(* Compose makes every ID that Decode accepts from the parts it returns.   *)
THEOREM DecodeAcceptsComposed == Spec => []DecodedIsComposed
<1>1. TrueAnswers => DecodedIsComposed
  <2> SUFFICES ASSUME TrueAnswers, NEW d \in Accepted
               PROVE  /\ ValidNodeID(d.parts.nodeID)
                      /\ LET c == Compose(d.parts.ts, d.epoch, CodeOf(d.parts.nodeID), d.parts.seq)
                         IN c.err = "nil" /\ c.id = d.id
    BY DEF DecodedIsComposed
  <2> DEFINE id == d.id
             e == EpochOf(d.epoch)
             ts == TimeField(id) + e
             node == NodeField(id)
             seq == SeqField(id)
  <2>1. /\ d = Decode(id, d.epoch)
        /\ id \in Int64 /\ d.epoch \in Int64 /\ d.err = "nil"
    BY DEF TrueAnswers, Accepted
  <2>2. DecodeError(id, d.epoch) = "nil" /\ d.parts = Parts(id, d.epoch)
    BY <2>1 DEF Decode, PartsUnless
  <2>3. e \in Int64 /\ e \in Int /\ -Words <= e /\ e < Words
    BY <2>1, EpochFits, Widths
  <2>4. id \in 1..MaxInt64
    BY <2>1, <2>2, DecodedExactly
  <2>5. /\ TimeField(id) \in 0..(Timestamps - 1)
        /\ node \in 0..(MaxNodeID - 1)
        /\ seq \in 0..(SequenceCount - 1)
        /\ Pack(TimeField(id), node, seq) = id
    BY <2>4, FieldsPack
  <2>6. ts \in Int /\ -Words <= ts /\ ts < Words
    <3>1. TimeField(id) + e <= MaxInt64 /\ TimeField(id) \in Nat
      BY <2>1, <2>2, <2>4, DecodedExactly
    <3> HIDE DEF e, id
    <3> QED
      BY <2>3, <3>1, Widths
  <2>7. d.parts.ts = ts /\ d.parts.nodeID = node + 1 /\ d.parts.seq = seq
    BY <2>2, <2>6, WrapFits DEF Parts
  <2>8. ValidNodeID(d.parts.nodeID) /\ CodeOf(d.parts.nodeID) = node
    BY <2>5, <2>7, WidthAssumption DEF ValidNodeID, CodeOf, WidthAssumption
  <2>9. Relative(ts, d.epoch) = TimeField(id)
    <3>1. ts - e = TimeField(id)
      BY <2>3, <2>5, WidthAssumption DEF WidthAssumption
    <3>2. TimeField(id) \in Int /\ -Words <= TimeField(id) /\ TimeField(id) < Words
      <4>1. Timestamps <= Words
        <5>1. Timestamps * 1 <= Timestamps * IDsPerMilli
          BY Widths, WidthAssumption, MulMono DEF WidthAssumption
        <5> QED
          BY <5>1, WidthAssumption DEF WidthAssumption, Words
      <4> QED
        BY <2>5, <4>1, Widths, WidthAssumption DEF WidthAssumption
    <3> QED
      BY <3>1, <3>2, WrapFits DEF Relative
  <2>10. ComposeError(ts, d.epoch, node, seq) = "nil"
    BY <2>3, <2>4, <2>5, <2>6, <2>9, WidthAssumption DEF ComposeError, WidthAssumption
  <2> QED
    BY <2>5, <2>7, <2>8, <2>9, <2>10 DEF Compose
<1> QED
  BY <1>1, AnswersAreTrue, PTL

(* An issued ID, reduced to its three fields.                              *)
LEMMA IssuedFields ==
    ASSUME TrueAnswers, NEW c \in Issued \cap Sensible
    PROVE  /\ c.ts - EpochOf(c.epoch) \in 0..(Timestamps - 1)
           /\ c.node \in 0..(MaxNodeID - 1)
           /\ c.seq \in 0..(SequenceCount - 1)
           /\ c.id = Pack(c.ts - EpochOf(c.epoch), c.node, c.seq)
           /\ c.ts \in Int /\ EpochOf(c.epoch) \in Int
<1>1. /\ c.ts - EpochOf(c.epoch) \in 0..(Timestamps - 1)
      /\ c.node \in 0..(MaxNodeID - 1)
      /\ c.seq \in 0..(SequenceCount - 1)
  BY IssuedAnswers, ComposedExactly
<1>2. c.id = Pack(c.ts - EpochOf(c.epoch), c.node, c.seq)
  BY IssuedAnswers, ComposedDecodes
<1> QED
  BY <1>1, <1>2, IssuedAnswers, EpochFits, InWord

(* The larger ID is the one with the later (timestamp, node, sequence).    *)
THEOREM IDsAreOrdered == Spec => []IDsFollowStamps
<1> DEFINE Less(a, b) == \/ a.ts < b.ts
                         \/ a.ts = b.ts /\ a.node < b.node
                         \/ a.ts = b.ts /\ a.node = b.node /\ a.seq < b.seq
<1>1. ASSUME TrueAnswers, NEW a \in Issued \cap Sensible, NEW b \in Issued \cap Sensible,
             EpochOf(a.epoch) = EpochOf(b.epoch), Less(a, b)
      PROVE  a.id < b.id
  <2> DEFINE e == EpochOf(a.epoch)
  <2>1. /\ a.ts - e \in 0..(Timestamps - 1) /\ a.node \in 0..(MaxNodeID - 1)
        /\ a.seq \in 0..(SequenceCount - 1) /\ a.id = Pack(a.ts - e, a.node, a.seq)
        /\ a.ts \in Int /\ e \in Int
    BY <1>1, IssuedFields
  <2>2. /\ b.ts - e \in 0..(Timestamps - 1) /\ b.node \in 0..(MaxNodeID - 1)
        /\ b.seq \in 0..(SequenceCount - 1) /\ b.id = Pack(b.ts - e, b.node, b.seq)
        /\ b.ts \in Int
    BY <1>1, IssuedFields
  <2>3. \/ a.ts - e < b.ts - e
        \/ a.ts - e = b.ts - e /\ a.node < b.node
        \/ a.ts - e = b.ts - e /\ a.node = b.node /\ a.seq < b.seq
    BY <1>1, <2>1, <2>2
  <2> HIDE DEF e
  <2>4. Pack(a.ts - e, a.node, a.seq) < Pack(b.ts - e, b.node, b.seq)
    BY <2>1, <2>2, <2>3, PackOrder
  <2> QED
    BY <2>1, <2>2, <2>4
<1>2. ASSUME TrueAnswers, NEW a \in Issued \cap Sensible, NEW b \in Issued \cap Sensible,
             EpochOf(a.epoch) = EpochOf(b.epoch)
      PROVE  a.id < b.id <=> Less(a, b)
  <2>1. Less(a, b) => a.id < b.id
    BY <1>1, <1>2
  <2>2. Less(b, a) => b.id < a.id
    BY <1>1, <1>2
  <2> DEFINE e == EpochOf(a.epoch)
  <2>3. /\ a.id = Pack(a.ts - e, a.node, a.seq) /\ b.id = Pack(b.ts - e, b.node, b.seq)
        /\ a.ts \in Int /\ a.node \in 0..(MaxNodeID - 1) /\ a.seq \in 0..(SequenceCount - 1)
        /\ b.ts \in Int /\ b.node \in 0..(MaxNodeID - 1) /\ b.seq \in 0..(SequenceCount - 1)
        /\ a.ts - e \in 0..(Timestamps - 1) /\ b.ts - e \in 0..(Timestamps - 1)
    BY <1>2, IssuedFields
  <2>4. a.node \in Int /\ b.node \in Int /\ a.seq \in Int /\ b.seq \in Int
    BY <2>3, WidthAssumption DEF WidthAssumption
  <2>5. Less(a, b) \/ Less(b, a) \/ (a.ts = b.ts /\ a.node = b.node /\ a.seq = b.seq)
    BY <2>3, <2>4
  <2>6. a.id \in Int /\ b.id \in Int
    <3>1. Pack(a.ts - e, a.node, a.seq) \in 0..MaxInt64
      BY <2>3, PackFields
    <3>2. Pack(b.ts - e, b.node, b.seq) \in 0..MaxInt64
      BY <2>3, PackFields
    <3> QED
      BY <2>3, <3>1, <3>2, Widths
  <2>7. (a.ts = b.ts /\ a.node = b.node /\ a.seq = b.seq) => a.id = b.id
    BY <2>3
  <2> HIDE DEF Less
  <2>8. CASE Less(a, b)
    BY <2>1, <2>8
  <2>9. CASE Less(b, a)
    <3>1. ~(a.id < b.id)
      BY <2>2, <2>6, <2>9
    <3>2. ~Less(a, b)
      BY <2>1, <3>1
    <3> QED
      BY <3>1, <3>2
  <2>10. CASE a.ts = b.ts /\ a.node = b.node /\ a.seq = b.seq
    <3>1. a.id = b.id
      BY <2>7, <2>10
    <3>2. ~(a.id < b.id)
      BY <2>6, <3>1
    <3>3. ~Less(a, b)
      BY <2>1, <3>2
    <3> QED
      BY <3>2, <3>3
  <2> QED
    BY <2>5, <2>8, <2>9, <2>10
<1>3. TrueAnswers => IDsFollowStamps
  BY <1>2 DEF IDsFollowStamps
<1> QED
  BY <1>3, AnswersAreTrue, PTL

(* DecodeStrict draws its line in exact time.                              *)
THEOREM DecodeStrictIsExact == Spec => []StrictIsExact
<1>1. TrueAnswers => StrictIsExact
  <2> SUFFICES ASSUME TrueAnswers, NEW j \in judged
               PROVE  LET ahead == (ClaimedTime(j) - j.now) * NanosPerMilli IN
                      /\ j.err = "nil" => j.id > 0 /\ ahead <= j.lead
                      /\ j.err = "ErrTimestampInFuture" => ahead > j.lead
    BY DEF StrictIsExact
  <2> DEFINE d == Ahead(j.id, j.epoch, j.now)
  <2>1. /\ j = DecodeStrict(j.id, j.epoch, j.now, j.lead)
        /\ j.id \in Int64 /\ j.epoch \in Int64 /\ j.now \in Int64 /\ j.lead \in Int64
    BY DEF TrueAnswers
  <2>2. j.err = StrictError(j.id, j.epoch, j.now, j.lead)
    BY <2>1 DEF DecodeStrict
  <2>3. /\ j.err = "nil" => j.id > 0 /\ j.lead >= 0 /\ d \in Int /\ d <= LeadMillis(j.lead)
        /\ j.err = "ErrTimestampInFuture" =>
             j.id > 0 /\ j.lead >= 0 /\ d \in Int /\ d > LeadMillis(j.lead)
    BY <2>1, <2>2, StrictExactly
  <2>4. ClaimedTime(j) - j.now = d
    BY DEF ClaimedTime, Ahead
  <2>5. NanosPerMilli \in Int /\ j.lead \in Int
    BY <2>1, InWord, WidthAssumption DEF WidthAssumption
  <2> HIDE DEF d
  <2>6. ASSUME j.err = "nil" PROVE d * NanosPerMilli <= j.lead
    BY <2>1, <2>3, <2>6, LeadExact
  <2>7. ASSUME j.err = "ErrTimestampInFuture" PROVE d * NanosPerMilli > j.lead
    <3>1. d \in Int /\ j.lead >= 0 /\ d > LeadMillis(j.lead)
      BY <2>3, <2>7
    <3>2. LeadMillis(j.lead) \in Nat /\ (d <= LeadMillis(j.lead) <=> d * NanosPerMilli <= j.lead)
      BY <2>1, <3>1, LeadExact
    <3>3. d * NanosPerMilli \in Int
      BY <2>5, <3>1, SMT
    <3> QED
      BY <2>5, <3>1, <3>2, <3>3
  <2> QED
    BY <2>3, <2>4, <2>6, <2>7
<1> QED
  BY <1>1, AnswersAreTrue, PTL

(* A clock that moves on, or a longer lead, never turns an accepted ID     *)
(* into a future one.                                                      *)
THEOREM AcceptedStaysAccepted == Spec => []NeverFutureAgain
<1>1. TrueAnswers => NeverFutureAgain
  <2> SUFFICES ASSUME TrueAnswers, NEW i \in judged, NEW j \in judged,
                      i.err = "nil", j.err = "ErrTimestampInFuture",
                      i.id = j.id, EpochOf(i.epoch) = EpochOf(j.epoch), i.lead <= j.lead
               PROVE  j.now < i.now
    BY DEF NeverFutureAgain
  <2> DEFINE di == Ahead(i.id, i.epoch, i.now)
             dj == Ahead(j.id, j.epoch, j.now)
  <2>1. /\ i = DecodeStrict(i.id, i.epoch, i.now, i.lead)
        /\ i.id \in Int64 /\ i.epoch \in Int64 /\ i.now \in Int64 /\ i.lead \in Int64
        /\ j = DecodeStrict(j.id, j.epoch, j.now, j.lead)
        /\ j.id \in Int64 /\ j.epoch \in Int64 /\ j.now \in Int64 /\ j.lead \in Int64
    BY DEF TrueAnswers
  <2>2. /\ StrictError(i.id, i.epoch, i.now, i.lead) = "nil"
        /\ StrictError(j.id, j.epoch, j.now, j.lead) = "ErrTimestampInFuture"
    BY <2>1 DEF DecodeStrict
  <2>3. i.lead >= 0 /\ di \in Int /\ di <= LeadMillis(i.lead)
    BY <2>1, <2>2, StrictExactly
  <2>4. j.id > 0 /\ j.lead >= 0 /\ dj \in Int /\ dj > LeadMillis(j.lead)
    BY <2>1, <2>2, StrictExactly
  <2>5. /\ i.now \in Int /\ j.now \in Int /\ i.lead \in Int /\ j.lead \in Int
        /\ LeadMillis(i.lead) \in Int /\ LeadMillis(j.lead) \in Int
    BY <2>1, <2>3, <2>4, InWord, LeadExact
  <2>6. LeadMillis(i.lead) <= LeadMillis(j.lead)
    <3> DEFINE qi == LeadMillis(i.lead)
    <3>1. qi * NanosPerMilli <= i.lead
      BY <2>1, <2>3, <2>5, LeadExact
    <3>2. qi * NanosPerMilli \in Int
      BY <2>5, WidthAssumption, SMT DEF WidthAssumption
    <3>3. qi * NanosPerMilli <= j.lead
      BY <2>5, <3>1, <3>2
    <3> HIDE DEF qi
    <3>4. qi \in Int
      BY <2>5 DEF qi
    <3>5. qi <= LeadMillis(j.lead)
      BY <2>1, <2>4, <3>3, <3>4, LeadExact
    <3> QED
      BY <3>5 DEF qi
  <2>7. TimeField(i.id) + EpochOf(i.epoch) \in Int
    <3>1. TimeField(j.id) \in Nat
      BY <2>1, <2>4, DecodedExactly
    <3>2. EpochOf(i.epoch) \in Int
      BY <2>1, EpochFits
    <3> QED
      BY <3>1, <3>2
  <2> DEFINE t == TimeField(i.id) + EpochOf(i.epoch)
  <2>8. di = t - i.now /\ dj = t - j.now
    BY DEF Ahead
  <2> HIDE DEF di, dj, t
  <2> QED
    BY <2>3, <2>4, <2>5, <2>6, <2>7, <2>8 DEF t
<1> QED
  BY <1>1, AnswersAreTrue, PTL
=============================================================================
