----------------------------- MODULE IDCodecOps -----------------------------
(***************************************************************************)
(* NodeCode, Compose, Decode and DecodeStrict: a stamp packed into a signed*)
(* word of 64 bits and taken apart again, as operators.  They are pure:    *)
(* IDCodec.tla calls them with any arguments, GeneratorIDs.tla and         *)
(* LeasedIDs.tla on the stamps that generators issue.                      *)
(*                                                                         *)
(* The shifts and masks of the code are products, quotients and remainders *)
(* by powers of two here: on fields that do not overlap | is +, << of a    *)
(* signed word keeps the low bits (Wrap), >> and & are \div and %.  The    *)
(* widths are constants; timestamp, node and sequence fill the word but    *)
(* for its sign, as 41 + 10 + 12 bits do.                                  *)
(***************************************************************************)
EXTENDS Integers

CONSTANTS
    Timestamps,          \* 1 << timestampBits
    MaxNodeID,           \* 1 << NodeBits, the number of node codes
    SequenceCount,       \* MaxSequence + 1
    DefaultEpochMillis,
    NanosPerMilli        \* a time.Duration counts nanoseconds

(* One millisecond of the ID space: 1 << timeShift.                        *)
IDsPerMilli == MaxNodeID * SequenceCount

Words == Timestamps * IDsPerMilli     \* 1 << 63

MaxInt64 == Words - 1

Int64 == (-Words)..MaxInt64

ASSUME WidthAssumption ==
    /\ Timestamps \in Nat \ {0}
    /\ MaxNodeID \in Nat \ {0}
    /\ SequenceCount \in Nat \ {0}
    /\ NanosPerMilli \in Nat \ {0}
    /\ DefaultEpochMillis \in 1..MaxInt64

(* Two's complement: the value an operation on int64 leaves of x.          *)
Wrap(x) == ((x + Words) % (2 * Words)) - Words

-----------------------------------------------------------------------------
(* NodeCode makes a configured node ID zero-based, after ValidateNodeID.   *)
ValidNodeID(nodeID) == nodeID \in 1..MaxNodeID

CodeOf(nodeID) == nodeID - 1

(* The epoch 0 of a call stands for the default.                           *)
EpochOf(epoch) == IF epoch = 0 THEN DefaultEpochMillis ELSE epoch

Relative(ts, epoch) == Wrap(ts - EpochOf(epoch))

(* Slip: node and sequence change places.                                  *)
PackSwapped(rel, node, seq) == Wrap(rel * IDsPerMilli + seq * MaxNodeID + node)

Pack(rel, node, seq) == Wrap(rel * IDsPerMilli + node * SequenceCount + seq)

(* Slip: the bound of the relative time admits one more.                   *)
ComposeErrorLoose(ts, epoch, node, seq) ==
    IF ts < EpochOf(epoch) THEN "ErrTimestampBeforeEpoch"
    ELSE IF node \notin 0..(MaxNodeID - 1) THEN "ErrInvalidNodeID"
    ELSE IF seq \notin 0..(SequenceCount - 1) THEN "ErrInvalidSequence"
    ELSE IF Relative(ts, epoch) > Timestamps THEN "ErrTimestampOverflow"
    ELSE IF Pack(Relative(ts, epoch), node, seq) = 0 THEN "ErrZeroID"
    ELSE "nil"

ComposeError(ts, epoch, node, seq) ==
    IF ts < EpochOf(epoch) THEN "ErrTimestampBeforeEpoch"
    ELSE IF node \notin 0..(MaxNodeID - 1) THEN "ErrInvalidNodeID"
    ELSE IF seq \notin 0..(SequenceCount - 1) THEN "ErrInvalidSequence"
    ELSE IF Relative(ts, epoch) > Timestamps - 1 THEN "ErrTimestampOverflow"
    ELSE IF Pack(Relative(ts, epoch), node, seq) = 0 THEN "ErrZeroID"
    ELSE "nil"

(* What Compose answers, with the arguments it answers to.                 *)
Compose(ts, epoch, node, seq) ==
    [ ts |-> ts, epoch |-> epoch, node |-> node, seq |-> seq,
      err |-> ComposeError(ts, epoch, node, seq),
      id  |-> IF ComposeError(ts, epoch, node, seq) = "nil"
              THEN Pack(Relative(ts, epoch), node, seq) ELSE 0 ]

-----------------------------------------------------------------------------
(* The three fields of a positive ID.                                      *)
TimeField(id) == id \div IDsPerMilli
NodeField(id) == (id \div SequenceCount) % MaxNodeID
SeqField(id)  == id % SequenceCount

(* Slip: the sum with the epoch is not checked.                            *)
DecodeErrorUnchecked(id, epoch) ==
    IF id <= 0 THEN "ErrInvalidID"
    ELSE IF TimeField(id) > Timestamps - 1 THEN "ErrTimestampOverflow"
    ELSE "nil"

DecodeError(id, epoch) ==
    IF id <= 0 THEN "ErrInvalidID"
    ELSE IF \/ TimeField(id) > Timestamps - 1
            \/ EpochOf(epoch) > MaxInt64 - TimeField(id)
    THEN "ErrTimestampOverflow"
    ELSE "nil"

Parts(id, epoch) ==
    [ ts     |-> Wrap(TimeField(id) + EpochOf(epoch)),
      nodeID |-> NodeField(id) + 1,
      seq    |-> SeqField(id) ]

(* Errors come with empty parts.                                           *)
PartsUnless(err, id, epoch) ==
    IF err = "nil" THEN Parts(id, epoch) ELSE [ts |-> 0, nodeID |-> 0, seq |-> 0]

Decode(id, epoch) ==
    [ id |-> id, epoch |-> epoch, err |-> DecodeError(id, epoch),
      parts |-> PartsUnless(DecodeError(id, epoch), id, epoch) ]

-----------------------------------------------------------------------------
LeadMillis(lead) == lead \div NanosPerMilli

(* Slip: the lead is rounded up to whole milliseconds.                     *)
StrictErrorRoundedUp(id, epoch, now, lead) ==
    IF now <= 0 \/ lead < 0 THEN "ErrInvalidGenerationRange"
    ELSE IF DecodeError(id, epoch) # "nil" THEN DecodeError(id, epoch)
    ELSE IF now > MaxInt64 - LeadMillis(lead) - 1 THEN "ErrTimestampOverflow"
    ELSE IF Parts(id, epoch).ts > now + LeadMillis(lead) + 1
    THEN "ErrTimestampInFuture"
    ELSE "nil"

StrictError(id, epoch, now, lead) ==
    IF now <= 0 \/ lead < 0 THEN "ErrInvalidGenerationRange"
    ELSE IF DecodeError(id, epoch) # "nil" THEN DecodeError(id, epoch)
    ELSE IF now > MaxInt64 - LeadMillis(lead) THEN "ErrTimestampOverflow"
    ELSE IF Parts(id, epoch).ts > now + LeadMillis(lead)
    THEN "ErrTimestampInFuture"
    ELSE "nil"

DecodeStrict(id, epoch, now, lead) ==
    [ id |-> id, epoch |-> epoch, now |-> now, lead |-> lead,
      err |-> StrictError(id, epoch, now, lead),
      parts |-> PartsUnless(StrictError(id, epoch, now, lead), id, epoch) ]
=============================================================================
