-------------------------- MODULE IDCodecOpsProofs --------------------------
(***************************************************************************)
(* Facts about the codec's operators for every width of the fields and     *)
(* every 64-bit argument: what a quotient and a remainder are, what Pack   *)
(* builds and the field operators read, what Compose lets through, what    *)
(* Decode and DecodeStrict accept, and in which order IDs come.            *)
(***************************************************************************)
EXTENDS IDCodecOps, TLAPS

LEMMA DivMod ==
    ASSUME NEW a \in Int, NEW b \in Int, b > 0
    PROVE  /\ a \div b \in Int
           /\ a % b \in Int
           /\ a = b * (a \div b) + (a % b)
           /\ 0 <= a % b
           /\ a % b < b
PROOF BY SMTT(20)

LEMMA MulMono ==
    ASSUME NEW a \in Int, NEW b \in Int, NEW c \in Int, a >= 0, b <= c
    PROVE  a * b <= a * c
PROOF BY SMTT(20)

(* A larger quotient outweighs any remainder.                              *)
LEMMA Outweighs ==
    ASSUME NEW b \in Int, NEW q \in Int, NEW r \in Int, NEW p \in Int, NEW s \in Int,
           b > 0, 0 <= s, r < b, q < p
    PROVE  b * q + r < b * p + s
<1>1. b * (q + 1) <= b * p
  BY MulMono
<1>2. b * (q + 1) = b * q + b
  BY SMT
<1>3. b * q \in Int /\ b * p \in Int
  BY SMT
<1> QED
  BY <1>1, <1>2, <1>3

(* Quotient and remainder are determined.                                  *)
LEMMA DivModUnique ==
    ASSUME NEW b \in Int, NEW q \in Int, NEW r \in Int, b > 0, 0 <= r, r < b
    PROVE  (b * q + r) \div b = q /\ (b * q + r) % b = r
<1> DEFINE a == b * q + r
           p == a \div b
           s == a % b
<1>1. a \in Int
  BY SMT
<1>2. p \in Int /\ s \in Int /\ a = b * p + s /\ 0 <= s /\ s < b
  BY <1>1, DivMod
<1>3. a = b * q + r
  OBVIOUS
<1> HIDE DEF a, p, s
<1>4. ~(q < p)
  BY <1>2, <1>3, Outweighs
<1>5. ~(p < q)
  BY <1>2, <1>3, Outweighs
<1>6. p = q
  BY <1>2, <1>4, <1>5
<1>7. s = r
  <2>1. b * q \in Int
    BY SMT
  <2> QED
    BY <1>2, <1>3, <1>6, <2>1
<1> QED
  BY <1>6, <1>7 DEF p, s, a

-----------------------------------------------------------------------------
(* The widths.                                                             *)
LEMMA Widths ==
    /\ IDsPerMilli \in Nat \ {0}
    /\ Words \in Nat \ {0}
    /\ MaxInt64 = Words - 1
    /\ Int64 \subseteq Int
    /\ \A x \in Int64 : -Words <= x /\ x < Words
    /\ \A x \in Int : -Words <= x /\ x < Words => x \in Int64
    /\ DefaultEpochMillis \in Int64
    /\ DefaultEpochMillis > 0
<1>1. IDsPerMilli \in Nat \ {0}
  BY WidthAssumption, SMTT(20) DEF WidthAssumption, IDsPerMilli
<1>2. Words \in Nat \ {0}
  BY WidthAssumption, <1>1, SMTT(20) DEF WidthAssumption, Words
<1> QED
  BY WidthAssumption, <1>1, <1>2 DEF WidthAssumption, MaxInt64, Int64

LEMMA InWord ==
    ASSUME NEW x \in Int64
    PROVE  x \in Int /\ -Words <= x /\ x < Words
PROOF BY Widths

(* A value that fits the word is left as it is.                            *)
LEMMA WrapFits ==
    ASSUME NEW x \in Int, -Words <= x, x < Words
    PROVE  Wrap(x) = x
<1>1. (2 * Words) * 0 + (x + Words) = x + Words
  BY Widths
<1>2. ((2 * Words) * 0 + (x + Words)) % (2 * Words) = x + Words
  BY Widths, DivModUnique
<1> QED
  BY <1>1, <1>2, Widths DEF Wrap

LEMMA WrapInt64 ==
    ASSUME NEW x \in Int
    PROVE  Wrap(x) \in Int64
<1>1. /\ (x + Words) % (2 * Words) \in Int
      /\ 0 <= (x + Words) % (2 * Words)
      /\ (x + Words) % (2 * Words) < 2 * Words
  BY Widths, DivMod
<1> QED
  BY <1>1, Widths DEF Wrap

-----------------------------------------------------------------------------
(* Pack and the three fields are inverse to each other.                    *)
LEMMA PackFields ==
    ASSUME NEW rel \in 0..(Timestamps - 1),
           NEW node \in 0..(MaxNodeID - 1),
           NEW seq \in 0..(SequenceCount - 1)
    PROVE  /\ Pack(rel, node, seq) = rel * IDsPerMilli + node * SequenceCount + seq
           /\ Pack(rel, node, seq) \in 0..MaxInt64
           /\ TimeField(Pack(rel, node, seq)) = rel
           /\ NodeField(Pack(rel, node, seq)) = node
           /\ SeqField(Pack(rel, node, seq)) = seq
<1> DEFINE low == node * SequenceCount + seq
           high == MaxNodeID * rel + node
           id == IDsPerMilli * rel + low
<1>1. low \in Nat /\ low < IDsPerMilli
  <2>1. low \in Int /\ node * SequenceCount \in Nat
    BY WidthAssumption, SMTT(20) DEF WidthAssumption
  <2>2. SequenceCount * node + seq < SequenceCount * MaxNodeID + 0
    BY WidthAssumption, Outweighs DEF WidthAssumption
  <2>3. SequenceCount * node = node * SequenceCount /\ SequenceCount * MaxNodeID = IDsPerMilli
    BY WidthAssumption, SMTT(20) DEF WidthAssumption, IDsPerMilli
  <2> QED
    BY <2>1, <2>2, <2>3, Widths
<1>2. id \in Nat /\ id < Words
  <2>1. IDsPerMilli * rel \in Nat
    BY Widths, WidthAssumption, SMTT(20) DEF WidthAssumption
  <2>2. IDsPerMilli * rel + low < IDsPerMilli * Timestamps + 0
    <3> HIDE DEF low
    <3> QED
      BY <1>1, Widths, WidthAssumption, Outweighs DEF WidthAssumption
  <2>3. IDsPerMilli * Timestamps = Words
    BY Widths, WidthAssumption, SMTT(20) DEF WidthAssumption, Words
  <2> HIDE DEF low
  <2> QED
    BY <1>1, <2>1, <2>2, <2>3, Widths
<1>3. Pack(rel, node, seq) = id
  <2>1. rel * IDsPerMilli = IDsPerMilli * rel /\ rel * IDsPerMilli \in Int /\ node * SequenceCount \in Int
    BY Widths, WidthAssumption, SMTT(20) DEF WidthAssumption
  <2>2. rel * IDsPerMilli + node * SequenceCount + seq = id
    BY <2>1
  <2>3. Wrap(id) = id
    <3> HIDE DEF id
    <3> QED
      BY <1>2, Widths, WrapFits
  <2> QED
    BY <2>2, <2>3 DEF Pack
<1>4. id \div IDsPerMilli = rel
  <2> HIDE DEF low
  <2> QED
    BY <1>1, Widths, WidthAssumption, DivModUnique DEF WidthAssumption
<1>5. high \in Int /\ id = SequenceCount * high + seq
  <2>1. IDsPerMilli * rel = SequenceCount * (MaxNodeID * rel)
    BY WidthAssumption, SMTT(20) DEF WidthAssumption, IDsPerMilli
  <2>2. MaxNodeID * rel \in Int
    BY WidthAssumption, SMTT(20) DEF WidthAssumption
  <2>3. \A u \in Int : SequenceCount * (u + node) = SequenceCount * u + node * SequenceCount
    BY WidthAssumption, SMTT(20) DEF WidthAssumption
  <2>4. SequenceCount * high = SequenceCount * (MaxNodeID * rel) + node * SequenceCount
    BY <2>2, <2>3
  <2>5. SequenceCount * (MaxNodeID * rel) \in Int /\ node * SequenceCount \in Int
    BY <2>2, WidthAssumption, SMTT(20) DEF WidthAssumption
  <2> QED
    BY <2>1, <2>2, <2>4, <2>5
<1>6. id \div SequenceCount = high /\ id % SequenceCount = seq
  <2> HIDE DEF high, id
  <2> QED
    BY <1>5, WidthAssumption, DivModUnique DEF WidthAssumption
<1>7. high % MaxNodeID = node
  BY WidthAssumption, DivModUnique DEF WidthAssumption
<1>8. rel * IDsPerMilli + node * SequenceCount + seq = id
  <2>1. rel * IDsPerMilli = IDsPerMilli * rel /\ rel * IDsPerMilli \in Int /\ node * SequenceCount \in Int
    BY Widths, WidthAssumption, SMTT(20) DEF WidthAssumption
  <2> QED
    BY <2>1
<1> HIDE DEF high, id
<1> QED
  BY <1>2, <1>3, <1>4, <1>6, <1>7, <1>8, Widths
     DEF TimeField, NodeField, SeqField

(* The fields of a positive ID are in range, and make the ID again.        *)
LEMMA FieldsPack ==
    ASSUME NEW id \in 1..MaxInt64
    PROVE  /\ TimeField(id) \in 0..(Timestamps - 1)
           /\ NodeField(id) \in 0..(MaxNodeID - 1)
           /\ SeqField(id) \in 0..(SequenceCount - 1)
           /\ Pack(TimeField(id), NodeField(id), SeqField(id)) = id
<1> DEFINE high == id \div SequenceCount
           rel == high \div MaxNodeID
           node == NodeField(id)
           seq == SeqField(id)
<1>1. id \in Int /\ id > 0 /\ id < Words
  BY Widths
<1>2. /\ high \in Int /\ seq \in Int
      /\ id = SequenceCount * high + seq /\ 0 <= seq /\ seq < SequenceCount
  BY <1>1, WidthAssumption, DivMod DEF WidthAssumption, SeqField
<1>3. /\ rel \in Int /\ node \in Int
      /\ high = MaxNodeID * rel + node /\ 0 <= node /\ node < MaxNodeID
  <2>1. node = high % MaxNodeID
    BY DEF NodeField
  <2> HIDE DEF high, node
  <2> QED
    BY <1>2, <2>1, WidthAssumption, DivMod DEF WidthAssumption
<1> HIDE DEF high, rel, node, seq
<1> DEFINE low == node * SequenceCount + seq
<1>4. low \in Nat /\ low < IDsPerMilli
  <2>1. low \in Int /\ node * SequenceCount \in Nat
    BY <1>2, <1>3, WidthAssumption, SMTT(20) DEF WidthAssumption
  <2>2. SequenceCount * node + seq < SequenceCount * MaxNodeID + 0
    BY <1>2, <1>3, WidthAssumption, Outweighs DEF WidthAssumption
  <2>3. SequenceCount * node = node * SequenceCount /\ SequenceCount * MaxNodeID = IDsPerMilli
    BY <1>3, WidthAssumption, SMTT(20) DEF WidthAssumption, IDsPerMilli
  <2> QED
    BY <1>2, <2>1, <2>2, <2>3, Widths
<1>5. id = IDsPerMilli * rel + low
  <2>1. SequenceCount * (MaxNodeID * rel) = IDsPerMilli * rel
    BY <1>3, WidthAssumption, SMTT(20) DEF WidthAssumption, IDsPerMilli
  <2>2. MaxNodeID * rel \in Int
    BY <1>3, WidthAssumption, SMTT(20) DEF WidthAssumption
  <2>3. \A u \in Int : SequenceCount * (u + node) = SequenceCount * u + node * SequenceCount
    BY <1>3, WidthAssumption, SMTT(20) DEF WidthAssumption
  <2>4. SequenceCount * high = SequenceCount * (MaxNodeID * rel) + node * SequenceCount
    BY <1>3, <2>2, <2>3
  <2>5. IDsPerMilli * rel \in Int /\ node * SequenceCount \in Int
    BY <1>3, Widths, WidthAssumption, SMTT(20) DEF WidthAssumption
  <2> QED
    BY <1>2, <2>1, <2>4, <2>5
<1>6. TimeField(id) = rel
  <2> HIDE DEF low
  <2> QED
    BY <1>3, <1>4, <1>5, Widths, DivModUnique DEF TimeField
<1>7. rel \in 0..(Timestamps - 1)
  <2>1. IDsPerMilli * Timestamps = Words
    BY Widths, WidthAssumption, SMTT(20) DEF WidthAssumption, Words
  <2>2. Timestamps \in Int /\ IDsPerMilli \in Int /\ IDsPerMilli > 0
    BY Widths, WidthAssumption DEF WidthAssumption
  <2>3. ~(rel >= Timestamps)
    <3>1. SUFFICES ASSUME rel >= Timestamps PROVE FALSE
      OBVIOUS
    <3>2. IDsPerMilli * Timestamps <= IDsPerMilli * rel
      BY <1>3, <2>2, <3>1, MulMono
    <3>3. IDsPerMilli * rel \in Int
      BY <1>3, <2>2, SMT
    <3> HIDE DEF low
    <3> QED
      BY <1>1, <1>4, <1>5, <2>1, <3>2, <3>3, Widths
  <2>4. ~(rel < 0)
    <3>1. SUFFICES ASSUME rel < 0 PROVE FALSE
      OBVIOUS
    <3> HIDE DEF low
    <3>2. IDsPerMilli * rel + low < IDsPerMilli * 0 + 0
      BY <1>3, <1>4, <2>2, <3>1, Outweighs
    <3> QED
      BY <1>1, <1>5, <2>2, <3>2
  <2> QED
    BY <1>3, <2>2, <2>3, <2>4
<1>8. node \in 0..(MaxNodeID - 1) /\ seq \in 0..(SequenceCount - 1)
  BY <1>2, <1>3, WidthAssumption DEF WidthAssumption
<1>9. Pack(rel, node, seq) = id
  <2>1. Pack(rel, node, seq) = rel * IDsPerMilli + node * SequenceCount + seq
    BY <1>7, <1>8, PackFields
  <2>2. rel * IDsPerMilli = IDsPerMilli * rel /\ rel * IDsPerMilli \in Int /\ node * SequenceCount \in Int
    BY <1>3, Widths, WidthAssumption, SMTT(20) DEF WidthAssumption
  <2> QED
    BY <1>2, <1>5, <2>1, <2>2
<1> QED
  BY <1>6, <1>7, <1>8, <1>9 DEF node, seq
-----------------------------------------------------------------------------
LEMMA EpochFits ==
    ASSUME NEW e \in Int64
    PROVE  /\ EpochOf(e) \in Int64
           /\ EpochOf(e) \in Int /\ -Words <= EpochOf(e) /\ EpochOf(e) < Words
           /\ e >= 0 => EpochOf(e) > 0
<1>1. EpochOf(e) \in Int64
  BY Widths DEF EpochOf
<1>2. e >= 0 => EpochOf(e) > 0
  BY Widths DEF EpochOf
<1> QED
  BY <1>1, <1>2, InWord

(* What an answer of Compose without an error says of its arguments.       *)
LEMMA ComposedExactly ==
    ASSUME NEW ts \in Int64, NEW e \in Int64, NEW node \in Int64, NEW seq \in Int64,
           ts - EpochOf(e) <= MaxInt64, ComposeError(ts, e, node, seq) = "nil"
    PROVE  /\ ts - EpochOf(e) \in 0..(Timestamps - 1)
           /\ Relative(ts, e) = ts - EpochOf(e)
           /\ node \in 0..(MaxNodeID - 1)
           /\ seq \in 0..(SequenceCount - 1)
           /\ Pack(Relative(ts, e), node, seq) # 0
<1>1. /\ ts >= EpochOf(e)
      /\ node \in 0..(MaxNodeID - 1)
      /\ seq \in 0..(SequenceCount - 1)
      /\ Relative(ts, e) <= Timestamps - 1
      /\ Pack(Relative(ts, e), node, seq) # 0
  <2>1. ts \in Int /\ EpochOf(e) \in Int
    BY EpochFits, InWord
  <2>2. Relative(ts, e) \in Int
    <3>1. ts - EpochOf(e) \in Int
      BY <2>1
    <3> QED
      BY <3>1, WrapInt64, InWord DEF Relative
  <2> QED
    BY <2>1, <2>2, WidthAssumption DEF ComposeError, WidthAssumption
<1>2. ts - EpochOf(e) \in Int /\ -Words <= ts - EpochOf(e) /\ ts - EpochOf(e) < Words
  <2>1. EpochOf(e) \in Int /\ ts \in Int
    BY EpochFits, InWord
  <2>2. Words \in Nat /\ MaxInt64 = Words - 1
    BY Widths
  <2> QED
    BY <1>1, <2>1, <2>2
<1>3. Relative(ts, e) = ts - EpochOf(e)
  BY <1>2, WrapFits DEF Relative
<1>4. ts - EpochOf(e) >= 0
  BY <1>1, EpochFits, InWord
<1> QED
  BY <1>1, <1>2, <1>3, <1>4, WidthAssumption DEF WidthAssumption

(* The lead in whole milliseconds: an exact comparison in nanoseconds.     *)
LEMMA LeadExact ==
    ASSUME NEW lead \in Int64, lead >= 0, NEW d \in Int
    PROVE  /\ LeadMillis(lead) \in Nat
           /\ LeadMillis(lead) <= lead
           /\ d <= LeadMillis(lead) <=> d * NanosPerMilli <= lead
<1> DEFINE q == LeadMillis(lead)
           r == lead % NanosPerMilli
<1>1. NanosPerMilli \in Int /\ NanosPerMilli > 0 /\ lead \in Int
  BY Widths, WidthAssumption DEF WidthAssumption
<1>2. q \in Int /\ r \in Int /\ lead = NanosPerMilli * q + r /\ 0 <= r /\ r < NanosPerMilli
  BY <1>1, DivMod DEF LeadMillis
<1> HIDE DEF q, r
<1>3. q >= 0
  <2>1. SUFFICES ASSUME q < 0 PROVE FALSE
    BY <1>2
  <2>2. NanosPerMilli * q + r < NanosPerMilli * 0 + 0
    BY <1>1, <1>2, <2>1, Outweighs
  <2> QED
    BY <1>1, <1>2, <2>2
<1>4. q <= lead
  <2>1. q * 1 <= q * NanosPerMilli
    BY <1>1, <1>2, <1>3, MulMono
  <2>2. q * NanosPerMilli = NanosPerMilli * q /\ NanosPerMilli * q \in Int
    BY <1>1, <1>2, SMT
  <2> QED
    BY <1>2, <2>1, <2>2
<1>5. d * NanosPerMilli = NanosPerMilli * d /\ NanosPerMilli * d \in Int /\ NanosPerMilli * q \in Int
  BY <1>1, <1>2, SMT
<1>6. ASSUME d <= q PROVE d * NanosPerMilli <= lead
  <2>1. NanosPerMilli * d <= NanosPerMilli * q
    BY <1>1, <1>2, <1>6, MulMono
  <2> QED
    BY <1>1, <1>2, <1>5, <2>1
<1>7. ASSUME q < d PROVE ~(d * NanosPerMilli <= lead)
  <2>1. NanosPerMilli * q + r < NanosPerMilli * d + 0
    BY <1>1, <1>2, <1>7, Outweighs
  <2> QED
    BY <1>1, <1>2, <1>5, <2>1
<1>8. q = LeadMillis(lead)
  BY DEF q
<1> QED
  BY <1>2, <1>3, <1>4, <1>6, <1>7, <1>8

(* What Decode accepts, and what its parts are, in exact arithmetic.       *)
LEMMA DecodedExactly ==
    ASSUME NEW id \in Int64, NEW epoch \in Int64
    PROVE  /\ DecodeError(id, epoch) = "nil" =>
                /\ id \in 1..MaxInt64
                /\ TimeField(id) + EpochOf(epoch) <= MaxInt64
           /\ /\ id \in 1..MaxInt64
              /\ TimeField(id) + EpochOf(epoch) <= MaxInt64
              => DecodeError(id, epoch) = "nil"
           /\ DecodeError(id, epoch) = "nil" =>
                Wrap(TimeField(id) + EpochOf(epoch)) = TimeField(id) + EpochOf(epoch)
           /\ EpochOf(epoch) \in Int
           /\ id > 0 => TimeField(id) \in Nat
<1> DEFINE e == EpochOf(epoch)
           t == TimeField(id)
<1>1. /\ e \in Int /\ -Words <= e /\ e < Words
      /\ id \in Int /\ id < Words
      /\ MaxInt64 = Words - 1 /\ Words \in Int
  <2>1. e \in Int /\ -Words <= e /\ e < Words
    BY EpochFits
  <2>2. id \in Int /\ id < Words
    BY InWord
  <2>3. MaxInt64 = Words - 1 /\ Words \in Int
    BY Widths
  <2> QED
    BY <2>1, <2>2, <2>3
<1>2. ASSUME id > 0 PROVE t \in Int /\ 0 <= t /\ ~(t > Timestamps - 1)
  <2>1. id \in 1..MaxInt64
    BY <1>1, <1>2
  <2>2. t \in 0..(Timestamps - 1)
    BY <2>1, FieldsPack
  <2> QED
    BY <2>2, WidthAssumption DEF WidthAssumption
<1>3. DecodeError(id, epoch) =
        IF id <= 0 THEN "ErrInvalidID"
        ELSE IF t > Timestamps - 1 \/ e > MaxInt64 - t THEN "ErrTimestampOverflow"
        ELSE "nil"
  BY DEF DecodeError
<1> HIDE DEF e, t
<1>4. DecodeError(id, epoch) = "nil" => id > 0 /\ t + e <= MaxInt64
  BY <1>1, <1>2, <1>3
<1>5. id > 0 /\ t + e <= MaxInt64 => DecodeError(id, epoch) = "nil"
  BY <1>1, <1>2, <1>3
<1>6. id > 0 /\ t + e <= MaxInt64 => Wrap(t + e) = t + e
  BY <1>1, <1>2, WrapFits
<1> QED
  BY <1>1, <1>2, <1>4, <1>5, <1>6 DEF e, t

(* The parts of a packed ID below its timestamp, and its value.            *)
LEMMA LowFits ==
    ASSUME NEW rel \in 0..(Timestamps - 1), NEW node \in 0..(MaxNodeID - 1),
           NEW seq \in 0..(SequenceCount - 1)
    PROVE  /\ node * SequenceCount + seq \in Nat
           /\ node * SequenceCount + seq < IDsPerMilli
           /\ Pack(rel, node, seq) = IDsPerMilli * rel + (node * SequenceCount + seq)
           /\ IDsPerMilli * rel \in Int
<1>1. SequenceCount * node + seq < SequenceCount * MaxNodeID + 0
  BY WidthAssumption, Outweighs DEF WidthAssumption
<1>2. /\ SequenceCount * node = node * SequenceCount /\ SequenceCount * MaxNodeID = IDsPerMilli
      /\ node * SequenceCount \in Nat
  BY WidthAssumption, SMTT(20) DEF WidthAssumption, IDsPerMilli
<1>3. rel * IDsPerMilli = IDsPerMilli * rel /\ rel * IDsPerMilli \in Int
  BY Widths, WidthAssumption, SMTT(20) DEF WidthAssumption
<1>4. Pack(rel, node, seq) = rel * IDsPerMilli + node * SequenceCount + seq
  BY PackFields
<1>5. seq \in Nat /\ IDsPerMilli \in Nat
  BY Widths, WidthAssumption DEF WidthAssumption
<1> QED
  BY <1>1, <1>2, <1>3, <1>4, <1>5

(* IDs of one epoch are ordered as their timestamp, node and sequence.     *)
LEMMA PackOrder ==
    ASSUME NEW r1 \in 0..(Timestamps - 1), NEW n1 \in 0..(MaxNodeID - 1),
           NEW s1 \in 0..(SequenceCount - 1),
           NEW r2 \in 0..(Timestamps - 1), NEW n2 \in 0..(MaxNodeID - 1),
           NEW s2 \in 0..(SequenceCount - 1),
           \/ r1 < r2
           \/ r1 = r2 /\ n1 < n2
           \/ r1 = r2 /\ n1 = n2 /\ s1 < s2
    PROVE  Pack(r1, n1, s1) < Pack(r2, n2, s2)
<1> DEFINE low1 == n1 * SequenceCount + s1
           low2 == n2 * SequenceCount + s2
<1>1. /\ r1 \in Int /\ r2 \in Int /\ n1 \in Int /\ n2 \in Int /\ s1 \in Int /\ s2 \in Int
      /\ 0 <= s1 /\ s1 < SequenceCount /\ 0 <= s2 /\ s2 < SequenceCount
      /\ SequenceCount \in Int /\ SequenceCount > 0
      /\ IDsPerMilli \in Int /\ IDsPerMilli > 0
  BY Widths, WidthAssumption DEF WidthAssumption
<1>3. /\ low1 \in Int /\ low2 \in Int /\ 0 <= low1 /\ 0 <= low2
      /\ low1 < IDsPerMilli /\ low2 < IDsPerMilli
      /\ Pack(r1, n1, s1) = IDsPerMilli * r1 + low1
      /\ Pack(r2, n2, s2) = IDsPerMilli * r2 + low2
      /\ IDsPerMilli * r1 \in Int /\ IDsPerMilli * r2 \in Int
  <2>1. /\ low1 \in Nat /\ low1 < IDsPerMilli /\ IDsPerMilli * r1 \in Int
        /\ Pack(r1, n1, s1) = IDsPerMilli * r1 + low1
    BY LowFits
  <2>2. /\ low2 \in Nat /\ low2 < IDsPerMilli /\ IDsPerMilli * r2 \in Int
        /\ Pack(r2, n2, s2) = IDsPerMilli * r2 + low2
    BY LowFits
  <2> HIDE DEF low1, low2
  <2> QED
    BY <2>1, <2>2
<1>4. low1 = SequenceCount * n1 + s1 /\ low2 = SequenceCount * n2 + s2
  BY <1>1, SMT
<1> HIDE DEF low1, low2
<1>5. CASE r1 < r2
  <2>1. IDsPerMilli * r1 + low1 < IDsPerMilli * r2 + low2
    BY <1>1, <1>3, <1>5, Outweighs
  <2> QED
    BY <1>3, <2>1
<1>6. CASE r1 = r2 /\ n1 < n2
  <2>1. low1 < low2
    BY <1>1, <1>4, <1>6, Outweighs
  <2> QED
    BY <1>3, <1>6, <2>1
<1>7. CASE r1 = r2 /\ n1 = n2 /\ s1 < s2
  <2>1. low1 < low2
    <3>1. SequenceCount * n1 \in Int
      BY <1>1, SMT
    <3> QED
      BY <1>1, <1>4, <1>7, <3>1
  <2> QED
    BY <1>3, <1>7, <2>1
<1> QED
  BY <1>5, <1>6, <1>7

-----------------------------------------------------------------------------
(* An ID without an error is positive, holds the fields it was composed    *)
(* from, and decodes to them under the epoch it was composed with.         *)
LEMMA ComposedDecodes ==
    ASSUME NEW ts \in Int64, NEW e \in Int64, NEW node \in Int64, NEW seq \in Int64,
           ts - EpochOf(e) <= MaxInt64, ComposeError(ts, e, node, seq) = "nil",
           NEW id, id = Compose(ts, e, node, seq).id
    PROVE  /\ id = Pack(ts - EpochOf(e), node, seq)
           /\ id \in 1..MaxInt64
           /\ TimeField(id) + EpochOf(e) = ts
           /\ DecodeError(id, e) = "nil"
           /\ Parts(id, e).ts = ts
           /\ Parts(id, e).nodeID = node + 1
           /\ Parts(id, e).seq = seq
<1> DEFINE rel == ts - EpochOf(e)
<1>1. id = Pack(Relative(ts, e), node, seq)
  BY DEF Compose
<1>2. /\ Relative(ts, e) = rel /\ rel \in 0..(Timestamps - 1)
      /\ node \in 0..(MaxNodeID - 1) /\ seq \in 0..(SequenceCount - 1)
      /\ id # 0
  BY <1>1, ComposedExactly
<1>3. /\ id \in 0..MaxInt64
      /\ TimeField(id) = rel /\ NodeField(id) = node /\ SeqField(id) = seq
  BY <1>1, <1>2, PackFields
<1>4. id \in 1..MaxInt64 /\ id \in Int64
  BY <1>2, <1>3, Widths
<1>5. /\ EpochOf(e) \in Int /\ ts \in Int /\ ts < Words /\ -Words <= ts
      /\ MaxInt64 = Words - 1 /\ Words \in Nat
  BY EpochFits, InWord, Widths
<1>6. TimeField(id) + EpochOf(e) = ts
  BY <1>3, <1>5
<1>7. DecodeError(id, e) = "nil"
  BY <1>4, <1>5, <1>6, DecodedExactly
<1>8. Wrap(TimeField(id) + EpochOf(e)) = ts
  BY <1>5, <1>6, WrapFits
<1> QED
  BY <1>1, <1>2, <1>3, <1>4, <1>6, <1>7, <1>8 DEF Parts

(* For a stamp at or after an explicit epoch the range of the timestamp is *)
(* all that Compose still refuses, but for the zero ID.                    *)
LEMMA StampComposes ==
    ASSUME NEW ts \in Int64, NEW e \in Int64, e > 0, ts >= e,
           NEW node \in 0..(MaxNodeID - 1), NEW seq \in 0..(SequenceCount - 1),
           ~(ts = e /\ node = 0 /\ seq = 0)
    PROVE  /\ ts - e <= Timestamps - 1 => ComposeError(ts, e, node, seq) = "nil"
           /\ ts - e > Timestamps - 1 =>
                  ComposeError(ts, e, node, seq) = "ErrTimestampOverflow"
<1>1. /\ ts \in Int /\ e \in Int /\ Words \in Nat /\ ts < Words
      /\ Timestamps \in Nat /\ EpochOf(e) = e
  BY InWord, Widths, WidthAssumption DEF EpochOf, WidthAssumption
<1>2. Relative(ts, e) = ts - e
  BY <1>1, WrapFits DEF Relative
<1>3. ASSUME ts - e <= Timestamps - 1 PROVE Pack(ts - e, node, seq) # 0
  <2>1. ts - e \in 0..(Timestamps - 1)
    BY <1>1, <1>3
  <2>2. 0 \in 0..(Timestamps - 1) /\ 0 \in 0..(MaxNodeID - 1) /\ 0 \in 0..(SequenceCount - 1)
    BY WidthAssumption DEF WidthAssumption
  <2>3. Pack(0, 0, 0) = 0
    <3>1. Pack(0, 0, 0) = 0 * IDsPerMilli + 0 * SequenceCount + 0
      BY <2>2, PackFields
    <3>2. IDsPerMilli \in Nat /\ SequenceCount \in Nat
      BY Widths, WidthAssumption DEF WidthAssumption
    <3> QED
      BY <3>1, <3>2
  <2>4. Pack(0, 0, 0) < Pack(ts - e, node, seq)
    <3>1. \/ 0 < ts - e
          \/ 0 = ts - e /\ 0 < node
          \/ 0 = ts - e /\ 0 = node /\ 0 < seq
      BY <1>1, <2>1, WidthAssumption DEF WidthAssumption
    <3> QED
      BY <2>1, <2>2, <3>1, PackOrder
  <2>5. Pack(ts - e, node, seq) \in Int
    BY <2>1, PackFields, Widths
  <2> QED
    BY <2>3, <2>4, <2>5
<1> QED
  BY <1>1, <1>2, <1>3 DEF ComposeError

-----------------------------------------------------------------------------
(* How far an ID is ahead of a clock, without the width of the word.       *)
Ahead(id, epoch, now) == (TimeField(id) + EpochOf(epoch)) - now

(* What DecodeStrict compares.                                             *)
LEMMA StrictExactly ==
    ASSUME NEW id \in Int64, NEW epoch \in Int64, NEW now \in Int64, NEW lead \in Int64
    PROVE  /\ StrictError(id, epoch, now, lead) = "nil" =>
                /\ id > 0 /\ lead >= 0
                /\ Ahead(id, epoch, now) \in Int
                /\ Ahead(id, epoch, now) <= LeadMillis(lead)
           /\ StrictError(id, epoch, now, lead) = "ErrTimestampInFuture" =>
                /\ id > 0 /\ lead >= 0
                /\ Ahead(id, epoch, now) \in Int
                /\ Ahead(id, epoch, now) > LeadMillis(lead)
<1> DEFINE ts == TimeField(id) + EpochOf(epoch)
           err == StrictError(id, epoch, now, lead)
<1>1. SUFFICES ASSUME err \in {"nil", "ErrTimestampInFuture"}
               PROVE  /\ err = "nil" =>
                            /\ id > 0 /\ lead >= 0
                            /\ ts - now \in Int /\ ts - now <= LeadMillis(lead)
                      /\ err = "ErrTimestampInFuture" =>
                            /\ id > 0 /\ lead >= 0
                            /\ ts - now \in Int /\ ts - now > LeadMillis(lead)
  BY DEF Ahead
<1>2. id \in Int /\ now \in Int /\ lead \in Int
  BY InWord
<1>3. DecodeError(id, epoch) \in {"nil", "ErrInvalidID", "ErrTimestampOverflow"}
  BY DEF DecodeError
<1>4. DecodeError(id, epoch) = "nil" /\ lead >= 0
  BY <1>1, <1>2, <1>3 DEF StrictError
<1>5. /\ id > 0 /\ ts \in Int /\ Wrap(ts) = ts
  <2>1. id \in 1..MaxInt64 /\ Wrap(ts) = ts /\ EpochOf(epoch) \in Int
    BY <1>4, DecodedExactly
  <2>2. id > 0
    BY <1>2, <2>1, Widths
  <2>3. TimeField(id) \in Nat
    BY <2>2, DecodedExactly
  <2> QED
    BY <2>1, <2>2, <2>3
<1>6. LeadMillis(lead) \in Nat
  <2>1. 0 \in Int
    OBVIOUS
  <2> QED
    BY <1>4, <2>1, LeadExact
<1>7. Parts(id, epoch).ts = ts
  BY <1>5 DEF Parts
<1>8. err = "nil" => ~(ts > now + LeadMillis(lead))
  BY <1>4, <1>7 DEF StrictError
<1>9. err = "ErrTimestampInFuture" => ts > now + LeadMillis(lead)
  BY <1>4, <1>7 DEF StrictError
<1> HIDE DEF ts, err
<1> QED
  BY <1>2, <1>4, <1>5, <1>6, <1>8, <1>9
=============================================================================
