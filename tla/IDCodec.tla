------------------------------ MODULE IDCodec -------------------------------
(***************************************************************************)
(* Calls of Compose, Decode and DecodeStrict with any arguments: stamps,   *)
(* epochs, IDs, clock readings and future leads of 64 bits.  The functions *)
(* keep no state.  The variables are the answers they have given, so that  *)
(* properties can relate the answers of several calls.                     *)
(***************************************************************************)
EXTENDS IDCodecOps, FiniteSets

CONSTANTS
    Nodes,               \* node codes and node IDs callers pass
    Seqs,                \* sequences callers pass
    Instants,            \* timestamps and clock readings callers pass
    Epochs,              \* epochs callers pass
    Leads,               \* values of max_future_lead, in nanoseconds
    IDs,                 \* values callers have decoded
    MaxCalls             \* bound: calls of a behaviour

ASSUME CodecInputAssumption ==
    /\ Nodes \subseteq Int64
    /\ Seqs \subseteq Int64
    /\ Instants \subseteq Int64
    /\ Epochs \subseteq Int64
    /\ Leads \subseteq Int64
    /\ IDs \subseteq Int64
    /\ MaxCalls \in Nat

VARIABLES composed, decoded, judged

vars == <<composed, decoded, judged>>

-----------------------------------------------------------------------------
Init == composed = {} /\ decoded = {} /\ judged = {}

Calls == Cardinality(composed) + Cardinality(decoded) + Cardinality(judged)

(* Compose with a node code as it stands, or with the code of a node ID.   *)
ComposeCode ==
    \E ts \in Instants, epoch \in Epochs, node \in Nodes, seq \in Seqs :
        /\ composed' = composed \cup {Compose(ts, epoch, node, seq)}
        /\ UNCHANGED <<decoded, judged>>

ComposeNode ==
    \E ts \in Instants, epoch \in Epochs, nodeID \in Nodes, seq \in Seqs :
        /\ ValidNodeID(nodeID)
        /\ composed' = composed \cup {Compose(ts, epoch, CodeOf(nodeID), seq)}
        /\ UNCHANGED <<decoded, judged>>

DecodeID ==
    \E id \in IDs, epoch \in Epochs :
        /\ decoded' = decoded \cup {Decode(id, epoch)}
        /\ UNCHANGED <<composed, judged>>

JudgeID ==
    \E id \in IDs, epoch \in Epochs, now \in Instants, lead \in Leads :
        /\ judged' = judged \cup {DecodeStrict(id, epoch, now, lead)}
        /\ UNCHANGED <<composed, decoded>>

Next ==
    /\ Calls < MaxCalls
    /\ ComposeCode \/ ComposeNode \/ DecodeID \/ JudgeID

Spec == Init /\ [][Next]_vars

-----------------------------------------------------------------------------
(* The calls answered were calls of the functions above, on 64-bit words.  *)
TrueAnswers ==
    /\ \A c \in composed :
          /\ c = Compose(c.ts, c.epoch, c.node, c.seq)
          /\ {c.ts, c.epoch, c.node, c.seq} \subseteq Int64
    /\ \A d \in decoded :
          /\ d = Decode(d.id, d.epoch)
          /\ {d.id, d.epoch} \subseteq Int64
    /\ \A j \in judged :
          /\ j = DecodeStrict(j.id, j.epoch, j.now, j.lead)
          /\ {j.id, j.epoch, j.now, j.lead} \subseteq Int64

Issued == {c \in composed : c.err = "nil"}

Accepted == {d \in decoded : d.err = "nil"}

(* Calls whose difference of timestamp and epoch fits the word, negative   *)
(* epochs included.  For a timestamp too far after a negative epoch, which *)
(* nothing rejects, the difference wraps before Compose compares it.       *)
Sensible == {c \in composed : c.ts - EpochOf(c.epoch) <= MaxInt64}

(* Compose (idgen.go:391) refuses with the errors its comments describe,   *)
(* in exact arithmetic: what it lets through is a stamp at or after the    *)
(* epoch and within maxTimestamp of it, packed into a positive ID.         *)
RangeGuarded ==
    \A c \in Issued \cap Sensible :
        /\ c.ts - EpochOf(c.epoch) \in 0..(Timestamps - 1)
        /\ c.id > 0

(* The shifts of Compose and of Decode (idgen.go:408, 423-432) agree: an ID*)
(* decodes, under the epoch it was composed with, to the stamp and the node*)
(* it was composed from.                                                   *)
RoundTrip ==
    \A c \in Issued \cap Sensible :
        /\ DecodeError(c.id, c.epoch) = "nil"
        /\ Parts(c.id, c.epoch) =
             [ts |-> c.ts, nodeID |-> c.node + 1, seq |-> c.seq]

(* Every ID Decode accepts is one Compose makes of the parts it returns,   *)
(* through NodeCode: no positive ID is outside the codec's range.          *)
DecodedIsComposed ==
    \A d \in Accepted :
        /\ ValidNodeID(d.parts.nodeID)
        /\ LET c == Compose(d.parts.ts, d.epoch, CodeOf(d.parts.nodeID), d.parts.seq)
           IN c.err = "nil" /\ c.id = d.id

(* IDs are ordered as (timestamp, node, sequence): of one node's, the later*)
(* stamp is the larger ID, and two nodes or stamps never share an ID.  The *)
(* generator relies on it when it orders stamps only (idgen.go:408).       *)
IDsFollowStamps ==
    \A a, b \in Issued \cap Sensible :
        EpochOf(a.epoch) = EpochOf(b.epoch) =>
            (a.id < b.id <=>
                \/ a.ts < b.ts
                \/ a.ts = b.ts /\ a.node < b.node
                \/ a.ts = b.ts /\ a.node = b.node /\ a.seq < b.seq)

(* The instant an ID claims, without the word's width.                     *)
ClaimedTime(j) == TimeField(j.id) + EpochOf(j.epoch)

(* DecodeStrict (idgen.go:437) draws its line in exact time although it    *)
(* truncates the lead to milliseconds and adds in 64 bits: an ID is        *)
(* accepted only within the lead, and called future only beyond it.        *)
StrictIsExact ==
    \A j \in judged :
        LET ahead == (ClaimedTime(j) - j.now) * NanosPerMilli IN
        /\ j.err = "nil" => j.id > 0 /\ ahead <= j.lead
        /\ j.err = "ErrTimestampInFuture" => ahead > j.lead

(* A clock that moves on never turns an accepted ID into a future one.     *)
NeverFutureAgain ==
    \A i, j \in judged :
        (/\ i.err = "nil" /\ j.err = "ErrTimestampInFuture"
         /\ i.id = j.id /\ EpochOf(i.epoch) = EpochOf(j.epoch) /\ i.lead <= j.lead)
            => j.now < i.now
=============================================================================
