-------------------------- MODULE LeasedGenerator ---------------------------
(***************************************************************************)
(* LeasedGenerators (src/lease/lease.go) that compete for one node_id      *)
(* through the row of a PostgreSQL table.  A process here is one           *)
(* LeasedGenerator from NewLeasedGenerator to its end; a restarted service *)
(* is another process.  LeaseManager.mu serialises everything a process    *)
(* does, its sleeps and store calls included, so a process is one          *)
(* sequential thread whose next call is arbitrary: Acquire, Next, Refresh  *)
(* (also from RunRefreshLoop), Ready or Close.                             *)
(*                                                                         *)
(* A store call is sent, begins in the database (which fixes its now_ms    *)
(* and snapshot), writes, and answers.  It may fail on the client at any   *)
(* moment in between and still be executed later.                          *)
(***************************************************************************)
EXTENDS GeneratorOps, LeaseStore, Sequences, FiniteSetsExt

CONSTANTS
    Procs,            \* the LeasedGenerators
    OwnerOf,          \* OwnerOf[p]: the OwnerID p was configured with
    FenceWindow,      \* LeasedGeneratorConfig.FenceWindow
    RefreshInterval,  \* LeasedGeneratorConfig.LeaseRefreshInterval
    AcquireTimeout,   \* LeasedGeneratorConfig.LeaseAcquireTimeout
    InitialWall,      \* every clock at the start
    MaxMono,          \* bound: no idle Tick past this monotonic instant
    ClockValues,      \* bound: the values a wall or db clock may be set to
    MaxAdjust,        \* bound: how often a process's wall clock is set
    MaxDbAdjust,      \* bound: how often the database clock is set
    MaxIssued         \* bound: no new call of Next at this many IDs in all

(* What NewLeasedGenerator validates; store requests need a positive clock.*)
ASSUME LeasedAssumption ==
    /\ OwnerOf \in [Procs -> Owners]
    /\ FenceWindow \in Nat /\ RefreshInterval \in Nat
    /\ FenceWindow > RefreshInterval /\ LeaseWindow > RefreshInterval
    /\ AcquireTimeout \in Nat
    /\ InitialWall \in Nat \ {0}
    /\ ClockValues \subseteq Nat

VARIABLES
    lifecycle,   \* lifecycle[p]: LeaseManager.lifecycle
    lease,       \* lease[p]: floor, fence and monotonic deadline in memory
    gen,         \* gen[p]: the fields of p's Generator
    pc,          \* pc[p]: what the holder of p's mutex is doing
    attempt,     \* attempt[p]: which NextWithin of Next a refresh leads to
    wakeAt,      \* wakeAt[p]: monotonic end of p's sleep
    acquireBy,   \* acquireBy[p]: monotonic deadline of p's Acquire
    conn,        \* conn[p]: p's store call
    row,         \* the row in the database
    wall,        \* wall[p]: p's wall clock
    dbClock,     \* the database's clock
    mono,        \* monotonic time, the same rate everywhere
    adjusts,     \* history: how often wall clocks and the db clock were set
    granted,     \* history: granted[p], the window the database gave p last
    issued       \* history: issued[p], the stamps p returned

memory == <<lifecycle, lease, gen, pc, attempt, wakeAt, acquireBy>>
clocks == <<wall, dbClock, mono, adjusts>>
vars == <<memory, conn, row, clocks, granted, issued>>

-----------------------------------------------------------------------------
(* LeaseManager.lifecycle; failed, closed and the crash of the process are *)
(* one here, for after each of them p sends and issues nothing any more.   *)
Lifecycles == {"new", "active", "over"}

Positions == {"idle", "acquire", "backoff", "refresh", "generate",
              "rollback", "overflow"}

Window == [floor : Nat, fence : Nat]

(* A store call; dbNow and seen are what it read when it began.  In the    *)
(* answer to a granted one, fence is the row's fence.                      *)
Request ==
    [ phase    : {"none", "sent", "begun", "done"},
      op       : {"acquire", "refresh"},
      localNow : Nat,
      fence    : Nat,
      sentAt   : Nat,
      dbNow    : Nat,
      seen     : LeaseRow,
      outcome  : {"none", "granted", "refused", "skew"} ]

NoRequest ==
    [ phase |-> "none", op |-> "acquire", localNow |-> 0, fence |-> 0, sentAt |-> 0,
      dbNow |-> 0, seen |-> NoRow, outcome |-> "none" ]

NoLease == [floor |-> 0, fence |-> 0, deadline |-> 0]

TypeOK ==
    /\ lifecycle \in [Procs -> Lifecycles]
    /\ lease \in [Procs -> [floor : Nat, fence : Nat, deadline : Nat]]
    /\ gen \in [Procs -> GeneratorState]
    /\ pc \in [Procs -> Positions]
    /\ attempt \in [Procs -> 0..2]
    /\ wakeAt \in [Procs -> Nat]
    /\ acquireBy \in [Procs -> Nat]
    /\ conn \in [Procs -> Request]
    /\ row \in LeaseRow
    /\ wall \in [Procs -> Nat]
    /\ dbClock \in Nat
    /\ mono \in Nat
    /\ adjusts \in [wall : Nat, db : Nat]
    /\ granted \in [Procs -> Window]
    /\ issued \in [Procs -> Seq(Stamp)]

(* Processes that have not called anything yet.                            *)
InitProcesses ==
    /\ lifecycle = [p \in Procs |-> "new"]
    /\ lease = [p \in Procs |-> NoLease]
    /\ gen = [p \in Procs |-> NewGenerator]
    /\ pc = [p \in Procs |-> "idle"]
    /\ attempt = [p \in Procs |-> 0]
    /\ wakeAt = [p \in Procs |-> 0]
    /\ acquireBy = [p \in Procs |-> 0]
    /\ conn = [p \in Procs |-> NoRequest]
    /\ wall = [p \in Procs |-> InitialWall]
    /\ dbClock = InitialWall
    /\ mono = 1
    /\ adjusts = [wall |-> 0, db |-> 0]
    /\ granted = [p \in Procs |-> NoWindow]
    /\ issued = [p \in Procs |-> <<>>]

Init == InitProcesses /\ row = NoRow

-----------------------------------------------------------------------------
(* Steps inside a process, written for the memory of p only.               *)
Idle(p) == lifecycle[p] = "active" /\ pc[p] = "idle"

(* Release the mutex; nothing of the call survives.                        *)
Return(p) ==
    /\ pc' = [pc EXCEPT ![p] = "idle"]
    /\ attempt' = [attempt EXCEPT ![p] = 0]
    /\ wakeAt' = [wakeAt EXCEPT ![p] = 0]
    /\ acquireBy' = [acquireBy EXCEPT ![p] = 0]

(* failLocked, Close and the end of the process.  Nothing reads the lease  *)
(* or the generator again, so they are reset to keep such states few.      *)
End(p) ==
    /\ lifecycle' = [lifecycle EXCEPT ![p] = "over"]
    /\ lease' = [lease EXCEPT ![p] = NoLease]
    /\ gen' = [gen EXCEPT ![p] = NewGenerator]
    /\ Return(p)

(* Any error of the lease or the generator is terminal.                    *)
FailLocked(p) == End(p)

Wait(p, why, until) ==
    /\ pc' = [pc EXCEPT ![p] = why]
    /\ wakeAt' = [wakeAt EXCEPT ![p] = until]

(* One store call, with the local clock and the fence derived from it.     *)
NewRequest(op, now, instant) ==
    [ phase |-> "sent", op |-> op, localNow |-> now, fence |-> now + FenceWindow,
      sentAt |-> instant, dbNow |-> 0, seen |-> NoRow, outcome |-> "none" ]

Send(p, op) == conn' = [conn EXCEPT ![p] = NewRequest(op, wall[p], mono)]

Outside(p) == UNCHANGED <<row, clocks, granted>>

(* acquireLocked, the top of its loop.                                     *)
TryAcquire(p) ==
    /\ Send(p, "acquire")
    /\ pc' = [pc EXCEPT ![p] = "acquire"]
    /\ wakeAt' = [wakeAt EXCEPT ![p] = 0]

(* ensureActiveLocked, for a manager that is active.                       *)
Expired(p) == mono >= lease[p].deadline

(* refreshLocked up to the store call; a is where its success leads.       *)
EnterRefresh(p, a) ==
    \/ /\ Expired(p)
       /\ FailLocked(p)
       /\ UNCHANGED conn
    \/ /\ ~Expired(p)
       /\ Send(p, "refresh")
       /\ pc' = [pc EXCEPT ![p] = "refresh"]
       /\ attempt' = [attempt EXCEPT ![p] = a]
       /\ wakeAt' = [wakeAt EXCEPT ![p] = 0]
       /\ UNCHANGED <<lifecycle, lease, gen, acquireBy>>

-----------------------------------------------------------------------------
(* Acquire.  On any other lifecycle it returns an error and does nothing.  *)
Acquire(p) ==
    /\ lifecycle[p] = "new"
    /\ pc[p] = "idle"
    /\ acquireBy' = [acquireBy EXCEPT ![p] = mono + AcquireTimeout]
    /\ TryAcquire(p)
    /\ UNCHANGED <<lifecycle, lease, gen, attempt, issued>>
    /\ Outside(p)

(* Slip: the lease runs from the answer.                                   *)
InstalledLate(p, floor) ==
    lease' = [lease EXCEPT ![p] = [floor    |-> floor,
                                   fence    |-> conn[p].fence,
                                   deadline |-> mono + LeaseWindow]]

(* The answer to a call that wrote the row: installStateLocked.  A lease   *)
(* runs from the moment the request was sent, on the monotonic clock.      *)
Installed(p, floor) ==
    lease' = [lease EXCEPT ![p] = [floor    |-> floor,
                                   fence    |-> conn[p].fence,
                                   deadline |-> conn[p].sentAt + LeaseWindow]]

Answered(p, position) ==
    /\ pc[p] = position
    /\ conn[p].phase = "done"
    /\ conn' = [conn EXCEPT ![p] = NoRequest]
    /\ UNCHANGED issued
    /\ Outside(p)

AcquireGranted(p) ==
    /\ Answered(p, "acquire")
    /\ conn[p].outcome = "granted"
    /\ lifecycle' = [lifecycle EXCEPT ![p] = "active"]
    /\ Installed(p, conn[p].localNow)
    /\ Return(p)
    /\ UNCHANGED <<gen>>

AcquireRefused(p) ==
    /\ Answered(p, "acquire")
    /\ conn[p].outcome = "refused"
    /\ LET asked == AcquireWait(conn[p].seen, conn[p].localNow, conn[p].dbNow)
           wait  == DeductRoundTrip(asked, mono - conn[p].sentAt)
       IN \/ /\ mono >= acquireBy[p] \/ mono + wait > acquireBy[p]
             /\ FailLocked(p)
          \/ /\ mono < acquireBy[p] /\ mono + wait <= acquireBy[p]
             /\ Wait(p, "backoff", mono + wait)
             /\ UNCHANGED <<lifecycle, lease, gen, attempt, acquireBy>>

RetryAcquire(p) ==
    /\ pc[p] = "backoff"
    /\ mono >= wakeAt[p]
    /\ TryAcquire(p)
    /\ UNCHANGED <<lifecycle, lease, gen, attempt, acquireBy, issued>>
    /\ Outside(p)

CancelBackoff(p) ==
    /\ pc[p] = "backoff"
    /\ FailLocked(p)
    /\ UNCHANGED <<conn, issued>>
    /\ Outside(p)

-----------------------------------------------------------------------------
(* Refresh: by the refresh loop or the user, or on behalf of Next.         *)
Refresh(p) ==
    /\ Idle(p)
    /\ EnterRefresh(p, 0)
    /\ UNCHANGED issued
    /\ Outside(p)

RefreshGranted(p) ==
    /\ Answered(p, "refresh")
    /\ conn[p].outcome = "granted"
    /\ Installed(p, lease[p].floor)
    /\ UNCHANGED <<lifecycle, gen>>
    /\ \/ /\ attempt[p] = 0
          /\ Return(p)
       \/ /\ attempt[p] > 0
          /\ pc' = [pc EXCEPT ![p] = "generate"]
          /\ UNCHANGED <<attempt, wakeAt, acquireBy>>

RefreshRefused(p) ==
    /\ Answered(p, "refresh")
    /\ conn[p].outcome = "refused"
    /\ FailLocked(p)

-----------------------------------------------------------------------------
(* Either call: the clocks disagree too much, or the call does not come    *)
(* back in time, is cancelled or breaks.  A statement that was sent may    *)
(* then be lost, or be executed all the same.                              *)
SkewReported(p) ==
    /\ \E position \in {"acquire", "refresh"} : Answered(p, position)
    /\ conn[p].outcome = "skew"
    /\ FailLocked(p)

(* Slips: a refresh without an answer is taken to have succeeded; a store  *)
(* call has no timeout.                                                    *)
RequestFailsOpen(p) ==
    /\ pc[p] = "refresh"
    /\ lease' = [lease EXCEPT ![p].fence = conn[p].fence]
    /\ Return(p)
    /\ conn' = [conn EXCEPT ![p] = NoRequest]
    /\ UNCHANGED <<lifecycle, gen, issued>>
    /\ Outside(p)

RequestFailsOnAnswer(p) ==
    /\ pc[p] \in {"acquire", "refresh"}
    /\ conn[p].phase = "done"
    /\ FailLocked(p)
    /\ conn' = [conn EXCEPT ![p] = NoRequest]
    /\ UNCHANGED issued
    /\ Outside(p)

RequestFails(p) ==
    /\ pc[p] \in {"acquire", "refresh"}
    /\ FailLocked(p)
    /\ \/ conn' = [conn EXCEPT ![p] = NoRequest]
       \/ conn[p].phase # "done" /\ UNCHANGED conn
    /\ UNCHANGED issued
    /\ Outside(p)

(* The database: a statement starts, then writes or finds it must not.     *)
(* Requests with a local clock of zero are rejected before they are sent.  *)
Begin(p) ==
    /\ conn[p].phase = "sent"
    /\ conn[p].localNow > 0
    /\ conn' = [conn EXCEPT ![p] =
                   [@ EXCEPT !.phase = "begun", !.dbNow = dbClock, !.seen = row]]
    /\ UNCHANGED <<memory, issued>>
    /\ Outside(p)

(* The answer, if somebody still waits for it.  A grant returns the fence; *)
(* a refusal the row as the statement's snapshot showed it.                *)
Finish(p, outcome, answer) ==
    conn' = [conn EXCEPT ![p] =
        IF pc[p] \in {"acquire", "refresh"}
        THEN [answer EXCEPT !.phase = "done", !.outcome = outcome]
        ELSE NoRequest]

GrantAnswer(p, fence) ==
    Finish(p, "granted", [conn[p] EXCEPT !.fence = fence, !.dbNow = 0, !.seen = NoRow])

ExecuteAcquire(p) ==
    LET r == conn[p]
        new == Leased(row, OwnerOf[p], r.dbNow, r.fence)
    IN
    /\ r.phase = "begun"
    /\ r.op = "acquire"
    /\ MayAcquire(row, OwnerOf[p], r.localNow, r.dbNow)
    /\ row' = new
    /\ granted' = [granted EXCEPT ![p] = [floor |-> r.localNow, fence |-> new.fence]]
    /\ GrantAnswer(p, new.fence)
    /\ UNCHANGED <<memory, clocks, issued>>

ExecuteRefresh(p) ==
    LET r == conn[p]
        new == Leased(row, OwnerOf[p], r.dbNow, r.fence)
    IN
    /\ r.phase = "begun"
    /\ r.op = "refresh"
    /\ MayRefresh(r.seen, OwnerOf[p], r.localNow, r.dbNow)
    /\ MayRefresh(row, OwnerOf[p], r.localNow, r.dbNow)
    /\ row' = new
    /\ granted' = [granted EXCEPT ![p] = [floor |-> @.floor, fence |-> new.fence]]
    /\ GrantAnswer(p, new.fence)
    /\ UNCHANGED <<memory, clocks, issued>>

ExecuteNothing(p) ==
    LET r == conn[p] IN
    /\ r.phase = "begun"
    /\ IF r.op = "acquire"
       THEN ~MayAcquire(row, OwnerOf[p], r.localNow, r.dbNow)
       ELSE ~(/\ MayRefresh(r.seen, OwnerOf[p], r.localNow, r.dbNow)
              /\ MayRefresh(row, OwnerOf[p], r.localNow, r.dbNow))
    /\ Finish(p, IF ClockOk(r.localNow, r.dbNow) THEN "refused" ELSE "skew", r)
    /\ UNCHANGED <<memory, issued>>
    /\ Outside(p)

-----------------------------------------------------------------------------
(* Next, up to the generator: ensureReadyLocked.                           *)
TotalIssued == MapThenSumSet(LAMBDA q : Len(issued[q]), Procs)

NeedsRefresh(p) ==
    \/ lease[p].deadline - mono <= RefreshInterval
    \/ lease[p].fence <= wall[p] + RefreshInterval

CallNext(p) ==
    /\ Idle(p)
    /\ TotalIssued < MaxIssued
    /\ \/ /\ Expired(p)
          /\ FailLocked(p)
          /\ UNCHANGED conn
       \/ /\ ~Expired(p)
          /\ wall[p] < lease[p].floor
          /\ FailLocked(p)
          /\ UNCHANGED conn
       \/ /\ ~Expired(p)
          /\ wall[p] >= lease[p].floor
          /\ NeedsRefresh(p)
          /\ EnterRefresh(p, 1)
       \/ /\ ~Expired(p)
          /\ wall[p] >= lease[p].floor
          /\ ~NeedsRefresh(p)
          /\ pc' = [pc EXCEPT ![p] = "generate"]
          /\ attempt' = [attempt EXCEPT ![p] = 1]
          /\ UNCHANGED <<lifecycle, lease, gen, wakeAt, acquireBy, conn>>
    /\ UNCHANGED issued
    /\ Outside(p)

(* The caller's context has ended between two of Next's steps.             *)
AbandonNext(p) ==
    /\ pc[p] = "generate"
    /\ Return(p)
    /\ UNCHANGED <<lifecycle, lease, gen, conn, issued>>
    /\ Outside(p)

LeaseOf(p) == [floor |-> lease[p].floor, fence |-> lease[p].fence]

Issue(p, g) ==
    /\ Issuable(g, LeaseOf(p))
    /\ gen' = [gen EXCEPT ![p] = g]
    /\ issued' = [issued EXCEPT ![p] = Append(@, StampOf(g))]
    /\ Return(p)
    /\ UNCHANGED <<lifecycle, lease, conn>>

(* The generator refuses the stamp.  A fence reached is answered by one    *)
(* refresh; everything else, and a second refusal, is terminal.            *)
RefuseStamp(p, g) ==
    /\ UNCHANGED issued
    /\ \/ /\ BelowFloor(g, LeaseOf(p))
          /\ FailLocked(p)
          /\ UNCHANGED conn
       \/ /\ ~BelowFloor(g, LeaseOf(p))
          /\ FenceReached(g, LeaseOf(p))
          /\ attempt[p] = 1
          /\ EnterRefresh(p, 2)
       \/ /\ ~BelowFloor(g, LeaseOf(p))
          /\ FenceReached(g, LeaseOf(p))
          /\ attempt[p] = 2
          /\ FailLocked(p)
          /\ UNCHANGED conn
       \/ /\ ~BelowFloor(g, LeaseOf(p))
          /\ ~FenceReached(g, LeaseOf(p))
          /\ OutOfRange(g)
          /\ FailLocked(p)
          /\ UNCHANGED conn

Settle(p, g) == Issue(p, SkipZero(g)) \/ RefuseStamp(p, SkipZero(g))

(* NextWithin on p's generator; see Generator.tla for the calls of Next    *)
(* that share one.  A sleep's length is fixed by the same clock reading.   *)
RejectClock(p) ==
    /\ pc[p] = "generate"
    /\ IF Behind(gen[p], wall[p]) THEN RollbackTooLarge(gen[p], wall[p])
                                  ELSE wall[p] < EpochMillis
    /\ FailLocked(p)
    /\ UNCHANGED <<conn, issued>>
    /\ Outside(p)

SleepUntil(p, why, target) ==
    /\ Wait(p, why, mono + (target - wall[p]))
    /\ UNCHANGED <<lifecycle, lease, gen, attempt, acquireBy, conn, issued>>
    /\ Outside(p)

WaitForRollback(p) ==
    /\ pc[p] = "generate"
    /\ Behind(gen[p], wall[p])
    /\ ~RollbackTooLarge(gen[p], wall[p])
    /\ SleepUntil(p, "rollback", gen[p].lastMillis)

WaitForNextMillis(p) ==
    /\ pc[p] = "generate"
    /\ ~Behind(gen[p], wall[p])
    /\ wall[p] >= EpochMillis
    /\ Exhausted(CatchUp(gen[p], wall[p]), wall[p])
    /\ SleepUntil(p, "overflow", gen[p].lastMillis + 1)

IssueAtOnce(p) ==
    /\ pc[p] = "generate"
    /\ ~Behind(gen[p], wall[p])
    /\ wall[p] >= EpochMillis
    /\ ~Exhausted(CatchUp(gen[p], wall[p]), wall[p])
    /\ Settle(p, Advance(CatchUp(gen[p], wall[p]), wall[p]))
    /\ Outside(p)

Woken(p, why) == pc[p] = why /\ mono >= wakeAt[p]

StillBehind(p) ==
    /\ \/ Woken(p, "rollback") /\ wall[p] < gen[p].lastMillis
       \/ Woken(p, "overflow") /\ wall[p] <= gen[p].lastMillis
    /\ FailLocked(p)
    /\ UNCHANGED <<conn, issued>>
    /\ Outside(p)

WaitAgain(p) ==
    /\ Woken(p, "rollback")
    /\ wall[p] >= gen[p].lastMillis
    /\ Exhausted(gen[p], wall[p])
    /\ SleepUntil(p, "overflow", gen[p].lastMillis + 1)

IssueAfterRollback(p) ==
    /\ Woken(p, "rollback")
    /\ wall[p] >= gen[p].lastMillis
    /\ ~Exhausted(gen[p], wall[p])
    /\ Settle(p, Advance(gen[p], wall[p]))
    /\ Outside(p)

(* Slip: the clock is not compared again after the sleep.                  *)
IssueAfterOverflowUnchecked(p) ==
    /\ Woken(p, "overflow")
    /\ Settle(p, Restart(wall[p]))
    /\ Outside(p)

IssueAfterOverflow(p) ==
    /\ Woken(p, "overflow")
    /\ wall[p] > gen[p].lastMillis
    /\ Settle(p, Restart(wall[p]))
    /\ Outside(p)

(* A cancelled sleep is the caller's own doing and not terminal.           *)
CancelSleep(p) ==
    /\ pc[p] \in {"rollback", "overflow"}
    /\ Return(p)
    /\ UNCHANGED <<lifecycle, lease, gen, conn, issued>>
    /\ Outside(p)

-----------------------------------------------------------------------------
(* Ready and Snapshot, which only look, end a process whose lease has run  *)
(* out or whose clock is below its floor.                                  *)
Ready(p) ==
    /\ Idle(p)
    /\ Expired(p) \/ wall[p] < lease[p].floor
    /\ FailLocked(p)
    /\ UNCHANGED <<conn, issued>>
    /\ Outside(p)

(* Close; the Release statement it sends does not change owner, lease or   *)
(* fence of the row.                                                       *)
Close(p) ==
    /\ pc[p] = "idle"
    /\ lifecycle[p] # "over"
    /\ End(p)
    /\ UNCHANGED <<conn, issued>>
    /\ Outside(p)

(* The process is gone, with its memory; a statement it sent may yet run.  *)
Crash(p) ==
    /\ lifecycle[p] = "active" \/ pc[p] # "idle"
    /\ End(p)
    /\ \/ conn' = [conn EXCEPT ![p] = NoRequest]
       \/ conn[p].phase \in {"sent", "begun"} /\ UNCHANGED conn
    /\ UNCHANGED issued
    /\ Outside(p)

(* Time, past MaxMono only as long as a sleep needs it.                    *)
Tick ==
    /\ mono < MaxMono \/ \E p \in Procs : mono < wakeAt[p]
    /\ mono' = mono + 1
    /\ wall' = [p \in Procs |-> wall[p] + 1]
    /\ dbClock' = dbClock + 1
    /\ UNCHANGED <<memory, conn, row, adjusts, granted, issued>>

SetWallClock(p) ==
    /\ adjusts.wall < MaxAdjust
    /\ \E t \in ClockValues : wall' = [wall EXCEPT ![p] = t]
    /\ adjusts' = [adjusts EXCEPT !.wall = @ + 1]
    /\ UNCHANGED <<memory, conn, row, dbClock, mono, granted, issued>>

SetDbClock ==
    /\ adjusts.db < MaxDbAdjust
    /\ \E t \in ClockValues : dbClock' = t
    /\ adjusts' = [adjusts EXCEPT !.db = @ + 1]
    /\ UNCHANGED <<memory, conn, row, wall, mono, granted, issued>>

-----------------------------------------------------------------------------
Answer(p) ==
    \/ AcquireGranted(p) \/ AcquireRefused(p)
    \/ RefreshGranted(p) \/ RefreshRefused(p)
    \/ SkewReported(p)

Generate(p) ==
    \/ RejectClock(p) \/ WaitForRollback(p) \/ WaitForNextMillis(p) \/ IssueAtOnce(p)

Resume(p) ==
    \/ StillBehind(p) \/ WaitAgain(p) \/ IssueAfterRollback(p) \/ IssueAfterOverflow(p)
    \/ RetryAcquire(p)

Execute(p) == ExecuteAcquire(p) \/ ExecuteRefresh(p) \/ ExecuteNothing(p)

Next ==
    \/ Tick
    \/ SetDbClock
    \/ \E p \in Procs :
          \/ Acquire(p) \/ Refresh(p) \/ CallNext(p) \/ Ready(p) \/ Close(p)
          \/ Answer(p) \/ RequestFails(p)
          \/ Generate(p) \/ Resume(p)
          \/ AbandonNext(p) \/ CancelSleep(p) \/ CancelBackoff(p)
          \/ Begin(p) \/ Execute(p)
          \/ Crash(p) \/ SetWallClock(p)

Spec == Init /\ [][Next]_vars

(* Time passes and timers fire.  Every store call has an operation timeout *)
(* (LeaseManager.operationContext), so it is answered or it fails; Next    *)
(* goes on by itself.  Nothing obliges the database or a caller to act.    *)
Fairness ==
    /\ WF_vars(Tick)
    /\ \A p \in Procs :
           WF_vars(Answer(p) \/ RequestFails(p)) /\ WF_vars(Generate(p)) /\ WF_vars(Resume(p))

FairSpec == Spec /\ Fairness

-----------------------------------------------------------------------------
(* No two processes that share the node_id ever return the same ID, and    *)
(* none returns one twice: across crashes, takeovers, stale answers, late  *)
(* statements and any movement of any clock (LeasedGenerator.Next).        *)
UniqueIDs ==
    \A p, q \in Procs : \A i \in 1..Len(issued[p]), j \in 1..Len(issued[q]) :
        issued[p][i] = issued[q][j] => p = q /\ i = j

(* The windows the database has granted never overlap, although a process  *)
(* may still issue from its window after another one has taken over        *)
(* (PGLeaseStore.TryAcquire, Refresh).                                     *)
DisjointGrants ==
    \A p, q \in Procs :
        p # q /\ granted[p] # NoWindow /\ granted[q] # NoWindow =>
            \/ granted[p].fence <= granted[q].floor
            \/ granted[q].fence <= granted[p].floor

(* What a process issues, or believes it may issue, was durable first: a   *)
(* lost answer, a stale one or a crash never leaves it with more than the  *)
(* row records (installStateLocked).                                       *)
DurableBeforeUse ==
    \A p \in Procs :
        /\ granted[p].fence <= row.fence
        /\ lifecycle[p] = "active" =>
              /\ lease[p].floor = granted[p].floor
              /\ lease[p].fence <= granted[p].fence
              /\ ValidWindow([floor |-> lease[p].floor, fence |-> lease[p].fence])
        /\ \A i \in 1..Len(issued[p]) :
              /\ granted[p].floor <= issued[p][i].ts
              /\ issued[p][i].ts < granted[p].fence

(* p would still act on its lease: ensureActiveLocked lets it through.     *)
Live(p) == lifecycle[p] = "active" /\ ~Expired(p)

(* As long as nobody sets the database clock, at most one process regards  *)
(* the lease as its own: deadlines count from the request and on the       *)
(* monotonic clock, so they pass before the database lets another one in.  *)
LeaseExclusive == \A p, q \in Procs : Live(p) /\ Live(q) => p = q

(* One refresh makes room: on a fence a whole FenceWindow ahead of the     *)
(* wall clock, the second NextWithin of LeasedGenerator.Next is not refused*)
(* by the fence again, which would be terminal.  Needs OverCostCount below *)
(* FenceWindow, and wall clocks that are not set back.                     *)
RefreshMakesRoom ==
    \A p \in Procs :
        LET g == CatchUp(gen[p], wall[p]) IN
        /\ pc[p] = "generate" /\ attempt[p] = 2
        /\ lease[p].fence >= wall[p] + FenceWindow
        /\ ~Exhausted(g, wall[p])
        => ~FenceReached(SkipZero(Advance(g, wall[p])), LeaseOf(p))

(* Every call returns, also Acquire, which retries with the mutex held.    *)
CallsReturn == \A p \in Procs : pc[p] # "idle" ~> pc[p] = "idle"

(* Crashes, clocks and lost messages implement the abstract grants.        *)
Grants == INSTANCE FencedGrants WITH
              Holders <- Procs, windows <- granted, stamps <- issued
ImplementsFencedGrants == Grants!GrantsSpec
=============================================================================
