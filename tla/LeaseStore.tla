----------------------------- MODULE LeaseStore -----------------------------
(***************************************************************************)
(* The row of id_generator_node_leases for one node_id, and what the SQL   *)
(* statements of PGLeaseStore (src/lease/lease.go) do to it, as operators. *)
(* A statement reads the database clock and its snapshot when it begins    *)
(* and decides again on the newest row version when it writes: PostgreSQL  *)
(* rechecks the WHERE of an UPDATE, and the one of ON CONFLICT DO UPDATE,  *)
(* after it has waited for the row lock.                                   *)
(***************************************************************************)
EXTENDS Naturals

CONSTANTS
    Owners,        \* owner_id values
    NoOwner,       \* the row does not exist yet
    LeaseWindow,   \* LeaseManagerConfig.LeaseWindow
    MaxClockSkew   \* LeaseManagerConfig.MaxClockSkew

(* What NewLeaseManager validates.                                         *)
ASSUME StoreAssumption ==
    /\ NoOwner \notin Owners
    /\ LeaseWindow \in Nat \ {0}
    /\ MaxClockSkew \in Nat \ {0}

LeaseRow == [owner : Owners \cup {NoOwner}, reserved : Nat, fence : Nat]

NoRow == [owner |-> NoOwner, reserved |-> 0, fence |-> 0]

Greatest(a, b) == IF a >= b THEN a ELSE b

(* clock_ok of the candidate CTE.                                          *)
ClockOk(localNow, dbNow) ==
    localNow <= dbNow + MaxClockSkew /\ dbNow <= localNow + MaxClockSkew

(* Slip: an expired lease is enough, the fence is not looked at.           *)
MayAcquireUnfenced(row, owner, localNow, dbNow) ==
    /\ ClockOk(localNow, dbNow)
    /\ \/ row.owner = NoOwner
       \/ row.owner = owner
       \/ row.reserved <= dbNow

(* TryAcquire writes: the row is inserted, or it is the owner's already,   *)
(* or its lease has run out and the fence lies behind the local clock.     *)
MayAcquire(row, owner, localNow, dbNow) ==
    /\ ClockOk(localNow, dbNow)
    /\ \/ row.owner = NoOwner
       \/ row.owner = owner
       \/ row.reserved <= dbNow /\ localNow >= row.fence

(* Slip: the row is taken for the caller's own.                            *)
MayRefreshForAnyone(row, owner, localNow, dbNow) ==
    /\ ClockOk(localNow, dbNow)
    /\ row.reserved > dbNow

(* Refresh writes: the row matched in the snapshot and still does.         *)
MayRefresh(row, owner, localNow, dbNow) ==
    /\ ClockOk(localNow, dbNow)
    /\ row.owner = owner
    /\ row.reserved > dbNow

(* Slip: the fence follows the local clock, backwards too.                 *)
LeasedUnordered(row, owner, dbNow, fence) ==
    [ owner |-> owner, reserved |-> dbNow + LeaseWindow, fence |-> fence ]

(* Either statement moves the lease, and the fence only forwards.          *)
Leased(row, owner, dbNow, fence) ==
    [ owner    |-> owner,
      reserved |-> dbNow + LeaseWindow,
      fence    |-> Greatest(row.fence, fence) ]

-----------------------------------------------------------------------------
(* How long Acquire sleeps before it tries again, from the row it was      *)
(* shown (acquireWait, leaseAcquireRetryDelayMillis).                      *)
RetryDelay == 1

AcquireWait(seen, localNow, dbNow) ==
    IF seen.reserved > dbNow THEN seen.reserved - dbNow
    ELSE IF seen.fence > localNow THEN seen.fence - localNow
    ELSE RetryDelay

(* deductAcquireRoundTrip: the statement itself has used up some of it.    *)
DeductRoundTrip(wait, elapsed) ==
    IF elapsed = 0 THEN wait
    ELSE IF elapsed >= wait THEN RetryDelay
    ELSE wait - elapsed
=============================================================================
