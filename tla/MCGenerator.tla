---------------------------- MODULE MCGenerator -----------------------------
(***************************************************************************)
(* Small instances of Generator.  The epoch is 2 and the clock starts one  *)
(* millisecond before it; two stamps fit into a millisecond, except at     *)
(* (epoch, 0), which is skipped.                                           *)
(***************************************************************************)
EXTENDS GeneratorIDs, TLC

(* A window open from the epoch on, and one whose floor and fence are      *)
(* reached and passed as the clock moves.                                  *)
MCWindows == {[floor |-> 3, fence |-> 5], [floor |-> 2, fence |-> 4]}

(* Neither valid for NextWithin: a floor of zero, an empty window.         *)
MCBadWindows == {[floor |-> 0, fence |-> 4], [floor |-> 3, fence |-> 3]}

MCAllWindows == MCWindows \cup MCBadWindows

(* Nothing tells the callers apart.                                        *)
Symmetry == Permutations(Callers)
=============================================================================
