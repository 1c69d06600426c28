------------------------- MODULE MCLeasedGenerator --------------------------
(***************************************************************************)
(* Small instances of LeasedGenerator: two processes, one lease row.       *)
(***************************************************************************)
EXTENDS LeasedIDs, TLC

CONSTANTS p1, p2

MCProcs == {p1, p2}

(* Each instance has an OwnerID of its own, as LeasedGeneratorConfig says. *)
OwnOwner == [p \in MCProcs |-> p]

(* OwnerID names the process instance (LeaseManagerConfig.OwnerID): a      *)
(* service that keeps the string of its start makes two LeasedGenerators,  *)
(* one after the other, with the same.                                     *)
SharedOwner == [p \in MCProcs |-> p1]

(* One process on its own.                                                 *)
MCOne == {p1}
SoloOwner == [p \in MCOne |-> p]

(* p2 is made when p1 is over: closed, failed or crashed.                  *)
NextInTurn ==
    /\ Next
    /\ lifecycle'[p2] # "new" \/ pc'[p2] # "idle" => lifecycle[p1] = "over"
SpecInTurn == Init /\ [][NextInTurn]_vars

(* The row of an owner that is gone: its lease and its fence still lie in  *)
(* the future, so Acquire has to retry.                                    *)
LeftBehind == [owner |-> p2, reserved |-> InitialWall + 1, fence |-> InitialWall + 1]

InitAfterAnother == InitProcesses /\ row = LeftBehind

SpecAfterAnother == InitAfterAnother /\ [][Next]_vars /\ Fairness

(* With OwnOwner, nothing tells the two processes apart.                   *)
Symmetry == Permutations(MCProcs)
=============================================================================
