---------------------------- MODULE FencedGrants ----------------------------
(***************************************************************************)
(* What a generation fence promises for one node_id, without leases,       *)
(* clocks or failures: windows of timestamps are granted one after the     *)
(* other, only the newest may still grow, and a process issues growing     *)
(* stamps out of its own window.  No two processes can then issue the same *)
(* stamp (NoStampTwice).                                                   *)
(***************************************************************************)
EXTENDS Naturals, Sequences

CONSTANT Holders    \* the processes that may be granted a window

VARIABLES
    windows,        \* windows[h]: floor and fence of h, zeros before its grant
    stamps          \* stamps[h]: what h has issued

grantVars == <<windows, stamps>>

Windows == [floor : Nat, fence : Nat]
None == [floor |-> 0, fence |-> 0]

GrantsInit ==
    /\ windows = [h \in Holders |-> None]
    /\ stamps = [h \in Holders |-> <<>>]

(* A first window lies past everything granted so far.                     *)
Take(h) ==
    /\ windows[h] = None
    /\ windows'[h] \in Windows
    /\ \A k \in Holders : windows[k].fence <= windows'[h].floor
    /\ windows'[h].floor < windows'[h].fence
    /\ windows' = [windows EXCEPT ![h] = windows'[h]]
    /\ UNCHANGED stamps

(* Only the last window may grow, and only at its end.                     *)
Extend(h) ==
    /\ windows[h] # None
    /\ \A k \in Holders \ {h} : windows[k].fence <= windows[h].floor
    /\ windows'[h].fence \in Nat /\ windows'[h].fence > windows[h].fence
    /\ windows' = [windows EXCEPT ![h] = [floor |-> @.floor, fence |-> windows'[h].fence]]
    /\ UNCHANGED stamps

Later(a, b) == a.ts < b.ts \/ (a.ts = b.ts /\ a.seq < b.seq)

Use(h) ==
    \E s \in {stamps'[h][i] : i \in DOMAIN stamps'[h]} :
        /\ s \in [ts : Nat, seq : Nat]
        /\ windows[h].floor <= s.ts /\ s.ts < windows[h].fence
        /\ stamps[h] # <<>> => Later(stamps[h][Len(stamps[h])], s)
        /\ stamps' = [stamps EXCEPT ![h] = Append(@, s)]
        /\ UNCHANGED windows

GrantsNext == \E h \in Holders : Take(h) \/ Extend(h) \/ Use(h)

GrantsSpec == GrantsInit /\ [][GrantsNext]_grantVars

(* What it is all for: no stamp is issued twice, by whomever.  It follows  *)
(* from GrantsSpec alone, so from any way to manage leases that keeps to   *)
(* these three actions (LeasedGenerator.Next, NextWithin).                 *)
NoStampTwice ==
    \A h, k \in Holders : \A i \in 1..Len(stamps[h]), j \in 1..Len(stamps[k]) :
        stamps[h][i] = stamps[k][j] => h = k /\ i = j
=============================================================================
