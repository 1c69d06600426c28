----------------------------- MODULE MCIDCodec ------------------------------
(***************************************************************************)
(* A small word for IDCodec: two bits of timestamp, one of node, two of    *)
(* sequence and the sign, so that a word is -32..31.  The default epoch is *)
(* 20; it leaves room for only some of the timestamps.                     *)
(***************************************************************************)
EXTENDS IDCodec

(* Around and outside the ranges of node and sequence.                     *)
MCNodes == {-1, 0, 1, 2}
MCSeqs  == {-1, 0, 3, 4}

(* The default, epochs at the end of the word, and a negative one.         *)
MCEpochs == {-3, 0, 28, 31}

(* Around the epochs, and at both ends of the word.                        *)
MCInstants == {-32, 0, 1, 20, 21, 23, 24, 28, 30, 31}

(* Durations on both sides of whole milliseconds, and the two largest.     *)
MCLeads == {-1, 0, 3, 4, 30, 31}

(* No ID, and IDs with the smallest and largest value of each field.       *)
MCIDs == {-32, 0, 1, 8, 14, 23, 24, 31}
=============================================================================
