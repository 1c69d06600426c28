------------------------------ MODULE StampIDs ------------------------------
(***************************************************************************)
(* Where generator and codec meet: Generator.next ends with a call of      *)
(* Compose on its epoch, its node code and the stamp it is about to commit.*)
(* GeneratorOps keeps of that call the one error it can still meet there   *)
(* (OutOfRange); here is the ID it returns.                                *)
(***************************************************************************)
EXTENDS GeneratorOps, IDCodecOps

(* Both sides read the same widths, NewGenerator has validated the node ID *)
(* and the timestamps that an ID can hold are words themselves.            *)
ASSUME SharedWidths ==
    /\ Timestamps = MaxTimestamp + 1
    /\ SequenceCount = MaxSequence + 1
    /\ NodeCode < MaxNodeID
    /\ EpochMillis + MaxTimestamp <= MaxInt64

IDOf(s) == Compose(s.ts, EpochMillis, NodeCode, s.seq)
=============================================================================
