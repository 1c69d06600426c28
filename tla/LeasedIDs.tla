----------------------------- MODULE LeasedIDs ------------------------------
(***************************************************************************)
(* The IDs that the LeasedGenerators of one node_id return.                *)
(***************************************************************************)
EXTENDS LeasedGenerator, StampIDs

(* What the lease is for: Compose refuses none of the stamps that processes*)
(* have let through, and no two of the 64-bit IDs it makes of them are     *)
(* equal, whichever process returned them and whatever happened to clocks, *)
(* leases, messages and processes in between (LeasedGenerator.Next).       *)
NoIDTwice ==
    \A p, q \in Procs : \A i \in 1..Len(issued[p]), j \in 1..Len(issued[q]) :
        /\ IDOf(issued[p][i]).err = "nil"
        /\ IDOf(issued[p][i]).id = IDOf(issued[q][j]).id => p = q /\ i = j
=============================================================================
