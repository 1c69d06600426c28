--------------------------- MODULE LeaseLifecycle ---------------------------
(***************************************************************************)
(* What a lease manager promises of its lifecycle: new, active, failed,    *)
(* closed, in this order, with steps left out but never one taken back;    *)
(* one reason for the end, kept until Close replaces it; and an observer   *)
(* that is told each of these steps once, of the last one when Close is    *)
(* through with the release.                                               *)
(***************************************************************************)
EXTENDS Naturals, Sequences

CONSTANTS Errors, ClosedError

VARIABLES phase, reason, told

lifecycleVars == <<phase, reason, told>>

Init == phase = "new" /\ reason = {} /\ told = <<>>

Activate ==
    /\ phase = "new" /\ phase' = "active"
    /\ told' = Append(told, "acquired")
    /\ UNCHANGED reason

Fail ==
    /\ phase \in {"new", "active"} /\ phase' = "failed"
    /\ reason' \in Errors \ {{}}
    /\ told' = Append(told, "failed")

Shut ==
    /\ phase # "closed" /\ phase' = "closed"
    /\ reason' = ClosedError
    /\ UNCHANGED told

ToldOfClose == told # <<>> /\ told[Len(told)] = "closed"

Tell ==
    /\ phase = "closed" /\ ~ToldOfClose
    /\ told' = Append(told, "closed")
    /\ UNCHANGED <<phase, reason>>

Next == Activate \/ Fail \/ Shut \/ Tell

Spec == Init /\ [][Next]_lifecycleVars

(* What an observer may rely on: it is told of each step at most once and  *)
(* in the order of the phases, and what it was told of stays true for the  *)
(* rest of the manager's life (observeLocked, failLocked, Close).          *)
Rank(word) == CASE word = "new" -> 0
                [] word \in {"active", "acquired"} -> 1
                [] word = "failed" -> 2
                [] OTHER -> 3

ToldOnce ==
    /\ \A i, j \in 1..Len(told) : i < j => Rank(told[i]) < Rank(told[j])
    /\ \A i \in 1..Len(told) : Rank(told[i]) <= Rank(phase)
=============================================================================
