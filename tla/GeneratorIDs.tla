---------------------------- MODULE GeneratorIDs ----------------------------
(***************************************************************************)
(* The IDs that the callers of Generator get, in place of their stamps, and*)
(* what readers of these IDs see.                                          *)
(***************************************************************************)
EXTENDS Generator, StampIDs

IDAt(i) == IDOf(issued[i].stamp)

(* Compose never refuses a stamp that next has let through all its checks, *)
(* and the positive 64-bit IDs it packs grow strictly in the order they are*)
(* returned, across callers, clock jumps, over-cost steps and the skipped  *)
(* zero ID (Generator.next).                                               *)
IDsGrow ==
    \A j \in 1..Len(issued) :
        /\ IDAt(j).err = "nil" /\ IDAt(j).id > 0
        /\ \A i \in 1..(j - 1) : IDAt(i).id < IDAt(j).id

(* A reader whose clock is no further behind than the highest reading of   *)
(* the generator's, and who allows a lead of OverCostCount milliseconds, as*)
(* docs/guides/getting-started.md:39 asks, gets the stamp and the node of  *)
(* every ID out of DecodeStrict: over-cost mode, a clock set back, and the *)
(* nanoseconds of the lead never make one look as if it were of the future.*)
(* Clock and lead have to fit an int64.                                    *)
Patience == OverCostLimit * NanosPerMilli

IDsReadBack ==
    /\ peak > 0 /\ peak + OverCostLimit <= MaxInt64
    /\ Patience <= MaxInt64
    => \A i \in 1..Len(issued) :
          LET read == DecodeStrict(IDAt(i).id, EpochMillis, peak, Patience) IN
          /\ read.err = "nil"
          /\ read.parts = [ ts     |-> issued[i].stamp.ts,
                            nodeID |-> NodeCode + 1,
                            seq    |-> issued[i].stamp.seq ]
=============================================================================
