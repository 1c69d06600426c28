----------------------------- MODULE Telemetry ------------------------------
(***************************************************************************)
(* Telemetry: what the LeasedGenerators that share one report to it while  *)
(* they hold their mutex, its counters and its bounded event channel; and  *)
(* RunReporter, which polls the Snapshot of one of them and forwards the   *)
(* events until its context ends.                                          *)
(*                                                                         *)
(* A callback is the list of atomic operations it consists of.  A counter  *)
(* is named after the total or the class it counts.  An error is the set   *)
(* of sentinels errors.Is finds in it, and nil is {}.                      *)
(***************************************************************************)
EXTENDS Naturals, Sequences, FiniteSets, FiniteSetsExt

CONSTANTS
    Managers,      \* the LeasedGenerators that share the Telemetry
    Source,        \* the one RunReporter polls
    BufferSize,
    FailErrors,    \* the errors an operation may fail with
    ReadyErrors,   \* those of the readiness check
    CloseErrors,   \* those of a release
    MaxCounted     \* bound: how many IDs and refreshes are counted

ASSUME TelemetryAssumption ==
    /\ Source \in Managers
    /\ BufferSize \in Nat \ {0}
    /\ {} \notin FailErrors \cup ReadyErrors \cup CloseErrors
    /\ MaxCounted \in Nat

VARIABLES
    lifecycle, terminalErr, \* of each manager
    closing,     \* its Close: "no", "releasing", "told"
    todo,        \* what the callback that runs under its mutex has yet to do
    count, lastErrorClass,
    events,      \* the channel
    reporter,    \* where RunReporter is
    ended,       \* whether its context has ended
    previous,    \* its last Snapshot
    sampled,     \* the Snapshot it is taking
    delivered,   \* history: the events onEvent got
    emitted,     \* history: the events given to emit
    lost,        \* history: which of them it dropped, by their places in emitted
    endedAt,     \* history: how many were emitted when the context ended
    windows      \* history: the sum of all GeneratedDelta

managerVars == <<lifecycle, terminalErr, closing>>
telemetryVars == <<count, lastErrorClass, events, emitted, lost>>
reporterVars == <<reporter, ended, previous, sampled, delivered, endedAt, windows>>
vars == <<managerVars, todo, telemetryVars, reporterVars>>

-----------------------------------------------------------------------------
(* ClassifyError: the first class that matches.                            *)
ClassOrder == <<
    [class |-> "canceled",       errors |-> {"Canceled", "DeadlineExceeded"}],
    [class |-> "clock_rollback", errors |-> {"ClockRollback", "BelowFloor", "BeforeEpoch"}],
    [class |-> "clock_skew",     errors |-> {"ClockSkew"}],
    [class |-> "fence_ahead",    errors |-> {"FenceAhead", "FenceReached"}],
    [class |-> "lease_busy",     errors |-> {"LeaseUnavailable", "LeaseAlreadyAcquired"}],
    [class |-> "lease_lost",     errors |-> {"LeaseLost", "LeaseNotAcquired"}],
    [class |-> "closed",         errors |-> {"GeneratorClosed"}],
    [class |-> "store_failure",  errors |-> {"LeaseStore"}] >>

Classes == {ClassOrder[i].class : i \in DOMAIN ClassOrder} \cup {"unknown"}

ClassifyError(e) ==
    LET matching == {i \in DOMAIN ClassOrder : ClassOrder[i].errors \cap e # {}}
    IN  IF e = {} THEN "none"
        ELSE IF matching = {} THEN "unknown"
        ELSE ClassOrder[Min(matching)].class

Totals == {"generated", "acquired", "refreshed", "refreshFailed", "failures", "closes", "dropped"}

Count(name) == [do |-> "count", what |-> name]
Remember(class) == [do |-> "remember", what |-> class]
Emit(kind, m, class) == [do |-> "emit", what |-> [kind |-> kind, node |-> m, class |-> class]]

RecordFailure(class) == <<Count("failures"), Remember(class), Count(class)>>

ObserveAcquired(m) == <<Count("acquired"), Emit("acquired", m, "none")>>

ObserveFailed(m, e) ==
    RecordFailure(ClassifyError(e)) \o <<Emit("failed", m, ClassifyError(e))>>

ObserveClosed(m, e) ==
    IF e = {}
    THEN <<Count("closes"), Emit("closed", m, "closed")>>
    ELSE <<Count("closes")>> \o RecordFailure(ClassifyError(e))
             \o <<Emit("close_failed", m, ClassifyError(e))>>

-----------------------------------------------------------------------------
Zero == [n \in Totals \cup Classes |-> 0]

NoSnapshot == [lifecycle |-> "new", count |-> Zero, last |-> "none"]

Init ==
    /\ lifecycle = [m \in Managers |-> "new"]
    /\ terminalErr = [m \in Managers |-> {}]
    /\ closing = [m \in Managers |-> "no"]
    /\ todo = [m \in Managers |-> <<>>]
    /\ count = Zero
    /\ lastErrorClass = "none"
    /\ events = <<>>
    /\ reporter = "off"
    /\ ended = FALSE
    /\ previous = NoSnapshot
    /\ sampled = NoSnapshot
    /\ delivered = <<>>
    /\ emitted = <<>>
    /\ lost = {}
    /\ endedAt = 0
    /\ windows = 0

(* The mutex of a manager is free when no callback runs under it and the   *)
(* reporter is not in the middle of its Snapshot.                          *)
(* Slip: the mutex is let go between the totals and the classes.           *)
SamplingTotals == {"totals"}

Sampling == {"totals", "classes"}

Free(m) == todo[m] = <<>> /\ ~(m = Source /\ reporter \in Sampling)

Callback(m, steps) == todo' = [todo EXCEPT ![m] = steps]

-----------------------------------------------------------------------------
(* The manager's operations, as far as they call the observer.             *)
BecomeFailed(m, e) ==
    /\ lifecycle' = [lifecycle EXCEPT ![m] = "failed"]
    /\ terminalErr' = [terminalErr EXCEPT ![m] = e]
    /\ UNCHANGED closing

Acquired(m) ==
    /\ Free(m) /\ lifecycle[m] = "new"
    /\ lifecycle' = [lifecycle EXCEPT ![m] = "active"]
    /\ Callback(m, ObserveAcquired(m))
    /\ UNCHANGED <<terminalErr, closing, telemetryVars, reporterVars>>

Generated(m) ==
    /\ Free(m) /\ lifecycle[m] = "active" /\ count["generated"] < MaxCounted
    /\ Callback(m, <<Count("generated")>>)
    /\ UNCHANGED <<managerVars, telemetryVars, reporterVars>>

Refreshed(m) ==
    /\ Free(m) /\ lifecycle[m] = "active" /\ count["refreshed"] < MaxCounted
    /\ Callback(m, <<Count("refreshed")>>)
    /\ UNCHANGED <<managerVars, telemetryVars, reporterVars>>

RefreshFailed(m) ==
    /\ Free(m) /\ lifecycle[m] = "active"
    /\ \E e \in FailErrors :
          /\ BecomeFailed(m, e)
          /\ Callback(m, <<Count("refreshFailed")>> \o ObserveFailed(m, e))
    /\ UNCHANGED <<telemetryVars, reporterVars>>

(* Acquire, the lease check or an ID failed.                               *)
Failed(m) ==
    /\ Free(m) /\ lifecycle[m] \in {"new", "active"}
    /\ \E e \in FailErrors :
          /\ BecomeFailed(m, e)
          /\ Callback(m, ObserveFailed(m, e))
    /\ UNCHANGED <<telemetryVars, reporterVars>>

BeginClose(m) ==
    /\ Free(m) /\ lifecycle[m] # "closed"
    /\ lifecycle' = [lifecycle EXCEPT ![m] = "closed"]
    /\ terminalErr' = [terminalErr EXCEPT ![m] = {"GeneratorClosed"}]
    /\ closing' = [closing EXCEPT ![m] = "releasing"]
    /\ UNCHANGED <<todo, telemetryVars, reporterVars>>

FinishClose(m) ==
    /\ Free(m) /\ closing[m] = "releasing"
    /\ closing' = [closing EXCEPT ![m] = "told"]
    /\ \E e \in CloseErrors \cup {{}} : Callback(m, ObserveClosed(m, e))
    /\ UNCHANGED <<lifecycle, terminalErr, telemetryVars, reporterVars>>

-----------------------------------------------------------------------------
(* One operation of a running callback.                                    *)
Plus(name) == [count EXCEPT ![name] = @ + 1]

(* Slip: the channel holds one event more than it was made for.            *)
FullLate == Len(events) > BufferSize

Full == Len(events) = BufferSize

(* Slip: what does not fit is dropped without being counted.               *)
PutOrForget(e) ==
    IF Full
    THEN /\ lost' = lost \cup {Len(emitted) + 1}
         /\ UNCHANGED <<events, count>>
    ELSE /\ events' = Append(events, e)
         /\ UNCHANGED <<lost, count>>

(* Slip: the callback waits for room in the channel.                       *)
PutOrWait(e) ==
    /\ ~Full
    /\ events' = Append(events, e)
    /\ UNCHANGED <<lost, count>>

PutOrDrop(e) ==
    IF Full
    THEN /\ lost' = lost \cup {Len(emitted) + 1}
         /\ count' = Plus("dropped")
         /\ UNCHANGED events
    ELSE /\ events' = Append(events, e)
         /\ UNCHANGED <<lost, count>>

Perform(step) ==
    \/ /\ step.do = "count"
       /\ count' = Plus(step.what)
       /\ UNCHANGED <<lastErrorClass, events, emitted, lost>>
    \/ /\ step.do = "remember"
       /\ lastErrorClass' = step.what
       /\ UNCHANGED <<count, events, emitted, lost>>
    \/ /\ step.do = "emit"
       /\ PutOrDrop(step.what)
       /\ emitted' = Append(emitted, step.what)
       /\ UNCHANGED lastErrorClass

Observe(m) ==
    /\ todo[m] # <<>>
    /\ Perform(Head(todo[m]))
    /\ Callback(m, Tail(todo[m]))
    /\ UNCHANGED <<managerVars, reporterVars>>

-----------------------------------------------------------------------------
(* RunReporter.  In "poll" it waits for the mutex of the source.           *)
StartReporter ==
    /\ reporter = "off"
    /\ reporter' = "poll"
    /\ UNCHANGED <<managerVars, todo, telemetryVars, ended, previous, sampled, delivered, endedAt, windows>>

(* Snapshot takes the mutex and checks readiness, which may be what makes  *)
(* the manager fail; then the callback runs before anything is read.       *)
BeginSnapshot ==
    /\ reporter = "poll" /\ Free(Source)
    /\ reporter' = "totals"
    /\ \/ UNCHANGED <<managerVars, todo>>
       \/ /\ lifecycle[Source] = "active"
          /\ \E e \in ReadyErrors :
                /\ BecomeFailed(Source, e)
                /\ Callback(Source, ObserveFailed(Source, e))
    /\ UNCHANGED <<telemetryVars, ended, previous, sampled, delivered, endedAt, windows>>

(* counterSnapshot: the totals and the last class, then the classes.       *)
LoadTotals ==
    /\ reporter = "totals" /\ todo[Source] = <<>>
    /\ reporter' = "classes"
    /\ sampled' =
          [lifecycle |-> lifecycle[Source],
           count |-> [n \in Totals \cup Classes |-> IF n \in Totals THEN count[n] ELSE 0],
           last |-> IF lastErrorClass = "none" THEN ClassifyError(terminalErr[Source])
                    ELSE lastErrorClass]
    /\ UNCHANGED <<managerVars, todo, telemetryVars, ended, previous, delivered, endedAt, windows>>

LoadClasses(s) == [s EXCEPT !.count = [n \in Totals \cup Classes |->
                      IF n \in Classes THEN count[n] ELSE s.count[n]]]

(* buildStatusReport.                                                      *)
GeneratedDelta(new) ==
    IF new.count["generated"] >= previous.count["generated"]
    THEN new.count["generated"] - previous.count["generated"]
    ELSE new.count["generated"]

(* The first report carries the snapshot only; windows counts it whole.    *)
FinishSnapshot ==
    /\ reporter = "classes"
    /\ reporter' = "select"
    /\ sampled' = LoadClasses(sampled)
    /\ windows' = windows + GeneratedDelta(LoadClasses(sampled))
    /\ previous' = LoadClasses(sampled)
    /\ UNCHANGED <<managerVars, todo, telemetryVars, ended, delivered, endedAt>>

FireTicker ==
    /\ reporter = "select"
    /\ reporter' = "poll"
    /\ UNCHANGED <<managerVars, todo, telemetryVars, ended, previous, sampled, delivered, endedAt, windows>>

ReceiveEvent ==
    /\ reporter \in {"select", "drain"} /\ events # <<>>
    /\ delivered' = Append(delivered, Head(events))
    /\ events' = Tail(events)
    /\ UNCHANGED <<managerVars, todo, count, lastErrorClass, emitted, lost,
                   reporter, ended, previous, sampled, endedAt, windows>>

EndContext ==
    /\ ~ended
    /\ ended' = TRUE
    /\ endedAt' = Len(emitted)
    /\ UNCHANGED <<managerVars, todo, telemetryVars, reporter, previous, sampled, delivered, windows>>

BeginDrain ==
    /\ reporter = "select" /\ ended
    /\ reporter' = "drain"
    /\ UNCHANGED <<managerVars, todo, telemetryVars, ended, previous, sampled, delivered, endedAt, windows>>

(* Slip: the drain is a single receive.                                    *)
Drained == delivered # <<>> \/ events = <<>>

NothingLeft == events = <<>>

ReturnReporter ==
    /\ reporter = "drain" /\ NothingLeft
    /\ reporter' = "returned"
    /\ UNCHANGED <<managerVars, todo, telemetryVars, ended, previous, sampled, delivered, endedAt, windows>>

-----------------------------------------------------------------------------
ManagerSteps(m) ==
    \/ Acquired(m) \/ Generated(m) \/ Refreshed(m) \/ RefreshFailed(m) \/ Failed(m)
    \/ BeginClose(m) \/ FinishClose(m)

Next ==
    \/ \E m \in Managers : ManagerSteps(m) \/ Observe(m)
    \/ StartReporter \/ BeginSnapshot \/ LoadTotals \/ FinishSnapshot
    \/ FireTicker \/ ReceiveEvent \/ EndContext \/ BeginDrain \/ ReturnReporter

Spec == Init /\ [][Next]_vars

(* A callback goes on by itself and so does the reporter; the mutex comes  *)
(* to who waits for it; select chooses at random among what is ready.      *)
Fairness ==
    /\ \A m \in Managers : WF_vars(Observe(m))
    /\ SF_vars(BeginSnapshot)
    /\ WF_vars(LoadTotals \/ FinishSnapshot)
    /\ SF_vars(BeginDrain)
    /\ WF_vars(reporter = "drain" /\ (ReceiveEvent \/ ReturnReporter))

FairSpec == Spec /\ Fairness

-----------------------------------------------------------------------------
Kinds == {"acquired", "failed", "closed", "close_failed"}
Event == [kind : Kinds, node : Managers, class : Classes \cup {"none"}]
Counters == [Totals \cup Classes -> Nat]
SnapshotType == [lifecycle : {"new", "active", "failed", "closed"}, count : Counters,
                 last : Classes \cup {"none"}]

TypeOK ==
    /\ lifecycle \in [Managers -> {"new", "active", "failed", "closed"}]
    /\ closing \in [Managers -> {"no", "releasing", "told"}]
    /\ count \in Counters
    /\ lastErrorClass \in Classes \cup {"none"}
    /\ {events, delivered, emitted} \subseteq Seq(Event)
    /\ lost \subseteq 1..Len(emitted)
    /\ Len(events) <= BufferSize
    /\ reporter \in {"off", "poll", "totals", "classes", "select", "drain", "returned"}
    /\ ended \in BOOLEAN
    /\ {previous, sampled} \subseteq SnapshotType
    /\ {endedAt, windows} \subseteq Nat

(* What the reporter got or will get, and the place there of an event that *)
(* was not dropped.                                                        *)
Received == delivered \o events
Place(i) == Cardinality((1..i) \ lost)

(* Every event is delivered once, in the order of the emits, or is counted *)
(* as dropped, or still lies in the channel.                               *)
NothingUnaccounted ==
    /\ Len(Received) = Place(Len(emitted))
    /\ \A i \in (1..Len(emitted)) \ lost : Received[Place(i)] = emitted[i]
    /\ count["dropped"] = Cardinality(lost)

(* When RunReporter returns it has forwarded all events, up to those it    *)
(* dropped, that were emitted before its context ended, the last one, of   *)
(* Close, included.                                                        *)
DrainedBeforeReturn ==
    reporter = "returned" =>
        \A i \in (1..endedAt) \ lost :
            Place(i) <= Len(delivered) /\ delivered[Place(i)] = emitted[i]

Others == Managers \ {Source}

SumOfClasses(c) ==
    c["canceled"] + c["clock_rollback"] + c["clock_skew"] + c["fence_ahead"] + c["lease_busy"]
        + c["lease_lost"] + c["closed"] + c["store_failure"] + c["unknown"]

(* A Snapshot fits together although the counters are read one by one: the *)
(* classes add up to the total, the last class is one that was counted,    *)
(* and the lifecycle agrees with what was counted.  That takes the mutex,  *)
(* and a Telemetry that no other generator uses.                           *)
SnapshotFits ==
    (reporter \notin Sampling /\ \A m \in Others : lifecycle[m] = "new" /\ todo[m] = <<>>) =>
        /\ sampled.count["failures"] = SumOfClasses(sampled.count)
        /\ sampled.count["failures"] > 0 => sampled.count[sampled.last] > 0
        /\ sampled.lifecycle = "active" => sampled.count["acquired"] = 1
                                            /\ sampled.count["failures"] = 0
        /\ sampled.lifecycle = "failed" => sampled.count["failures"] = 1
        /\ sampled.count["closes"] > 0 => sampled.lifecycle = "closed"

(* The windows of the reports neither overlap nor leave a gap: what they   *)
(* count, the first snapshot included, is what was generated.              *)
WindowsAddUp == reporter \notin Sampling => windows = sampled.count["generated"]

(* What RunReporter hands to onReport is consistent, within a report and   *)
(* from one to the next, while the generator it polls goes on working.     *)
ReportsFit == SnapshotFits /\ WindowsAddUp

(* Nobody who reports to the Telemetry waits for the reporter, not even    *)
(* the reporter itself, whose Snapshot may make the manager fail.          *)
CallbacksReturn == \A m \in Managers : todo[m] # <<>> ~> todo[m] = <<>>

(* RunReporter returns when its context has ended.                         *)
ReporterReturns == (ended /\ reporter # "off") ~> reporter = "returned"

=============================================================================
