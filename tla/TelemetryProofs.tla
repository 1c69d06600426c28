-------------------------- MODULE TelemetryProofs ---------------------------
(***************************************************************************)
(* Theorems about Telemetry for any number of generators that share one,   *)
(* any size of its channel and any errors: its types, that each event is   *)
(* delivered, dropped or still to come, that RunReporter does not return   *)
(* on events emitted before its context ended, and that what it reports    *)
(* fits together.                                                          *)
(***************************************************************************)
EXTENDS Telemetry, SequenceTheorems, FiniteSetTheorems, TLAPS

(* The atomic operations a callback consists of.  Only emit counts what it *)
(* drops.                                                                  *)
Counted == (Totals \ {"dropped"}) \cup Classes

CountStep == [do : {"count"}, what : Counted]
RememberStep == [do : {"remember"}, what : Classes \cup {"none"}]
EmitStep == [do : {"emit"}, what : Event]
Step == CountStep \cup RememberStep \cup EmitStep

TodoOK == todo \in [Managers -> Seq(Step)]

(* The reporter drains only once its context has ended.                    *)
EndIsPast ==
    /\ endedAt <= Len(emitted)
    /\ reporter \in {"drain", "returned"} => ended

IndInv == TypeOK /\ TodoOK /\ NothingUnaccounted /\ EndIsPast /\ DrainedBeforeReturn

-----------------------------------------------------------------------------
(* ClassifyError knows a class for every error.                            *)
LEMMA LeastOfClasses ==
    ASSUME NEW S \in SUBSET (1..8), S # {}
    PROVE  Min(S) \in S
<1>1. \E x \in S : \A y \in S : x <= y
  <2>1. CASE 1 \in S
    BY <2>1
  <2>2. CASE 1 \notin S /\ 2 \in S
    BY <2>2
  <2>3. CASE 1 \notin S /\ 2 \notin S /\ 3 \in S
    BY <2>3
  <2>4. CASE 1 \notin S /\ 2 \notin S /\ 3 \notin S /\ 4 \in S
    BY <2>4
  <2>5. CASE 1 \notin S /\ 2 \notin S /\ 3 \notin S /\ 4 \notin S /\ 5 \in S
    BY <2>5
  <2>6. CASE 1 \notin S /\ 2 \notin S /\ 3 \notin S /\ 4 \notin S /\ 5 \notin S /\ 6 \in S
    BY <2>6
  <2>7. CASE /\ 1 \notin S /\ 2 \notin S /\ 3 \notin S /\ 4 \notin S /\ 5 \notin S
             /\ 6 \notin S /\ 7 \in S
    BY <2>7
  <2>8. CASE /\ 1 \notin S /\ 2 \notin S /\ 3 \notin S /\ 4 \notin S /\ 5 \notin S
             /\ 6 \notin S /\ 7 \notin S
    <3>1. \A x \in S : x = 8
      BY <2>8
    <3>2. 8 \in S
      BY <3>1
    <3> QED
      BY <3>1, <3>2
  <2> QED
    BY <2>1, <2>2, <2>3, <2>4, <2>5, <2>6, <2>7, <2>8
<1> QED
  BY <1>1 DEF Min

LEMMA ErrorHasClass ==
    ASSUME NEW e
    PROVE  /\ ClassifyError(e) \in Classes \cup {"none"}
           /\ e # {} => ClassifyError(e) \in Classes
<1> DEFINE matching == {i \in DOMAIN ClassOrder : ClassOrder[i].errors \cap e # {}}
<1>1. DOMAIN ClassOrder = 1..8
  BY DEF ClassOrder
<1>2. matching \in SUBSET (1..8)
  BY <1>1
<1>3. matching # {} => Min(matching) \in DOMAIN ClassOrder
  BY <1>1, <1>2, LeastOfClasses
<1>4. \A i \in DOMAIN ClassOrder : ClassOrder[i].class \in Classes
  BY DEF Classes
<1>5. "unknown" \in Classes
  BY DEF Classes
<1>6. ClassifyError(e) = IF e = {} THEN "none"
                         ELSE IF matching = {} THEN "unknown"
                         ELSE ClassOrder[Min(matching)].class
  BY DEF ClassifyError
<1> HIDE DEF matching
<1> QED
  BY <1>3, <1>4, <1>5, <1>6

-----------------------------------------------------------------------------
(* Callbacks consist of well-formed operations.                            *)
LEMMA StepTypes ==
    /\ \A n \in Counted : Count(n) \in Step
    /\ \A c \in Classes \cup {"none"} : Remember(c) \in Step
    /\ \A k \in Kinds, m \in Managers, c \in Classes \cup {"none"} : Emit(k, m, c) \in Step
PROOF BY DEF Step, CountStep, RememberStep, EmitStep, Count, Remember, Emit, Event

LEMMA OneStep == ASSUME NEW S, NEW a \in S PROVE <<a>> \in Seq(S)
OBVIOUS

LEMMA TwoSteps == ASSUME NEW S, NEW a \in S, NEW b \in S PROVE <<a, b>> \in Seq(S)
OBVIOUS

LEMMA ThreeSteps ==
    ASSUME NEW S, NEW a \in S, NEW b \in S, NEW c \in S PROVE <<a, b, c>> \in Seq(S)
OBVIOUS

LEMMA Joined == ASSUME NEW S, NEW s \in Seq(S), NEW t \in Seq(S) PROVE s \o t \in Seq(S)
OBVIOUS

LEMMA CallbackTypes ==
    ASSUME NEW m \in Managers, NEW e
    PROVE  /\ ObserveAcquired(m) \in Seq(Step)
           /\ e # {} => ObserveFailed(m, e) \in Seq(Step)
           /\ ObserveClosed(m, e) \in Seq(Step)
           /\ <<Count("generated")>> \in Seq(Step)
           /\ <<Count("refreshed")>> \in Seq(Step)
           /\ e # {} => <<Count("refreshFailed")>> \o ObserveFailed(m, e) \in Seq(Step)
<1>1. /\ {"acquired", "generated", "refreshed", "refreshFailed", "failures", "closes"}
             \subseteq Counted
      /\ {"acquired", "failed", "closed", "close_failed"} \subseteq Kinds
      /\ "none" \in Classes \cup {"none"}
  BY DEF Counted, Totals, Kinds
<1>2. "closed" \in Classes \cup {"none"}
  <2>1. 7 \in DOMAIN ClassOrder /\ ClassOrder[7].class = "closed"
    BY DEF ClassOrder
  <2> QED
    BY <2>1 DEF Classes
<1>3. ObserveAcquired(m) \in Seq(Step)
  BY <1>1, StepTypes, TwoSteps DEF ObserveAcquired
<1>4. ASSUME e # {} PROVE RecordFailure(ClassifyError(e)) \in Seq(Step)
  <2>1. ClassifyError(e) \in Classes /\ ClassifyError(e) \in Counted
        /\ ClassifyError(e) \in Classes \cup {"none"}
    BY <1>4, ErrorHasClass DEF Counted
  <2> QED
    BY <1>1, <2>1, StepTypes, ThreeSteps DEF RecordFailure
<1>5. e # {} => ObserveFailed(m, e) \in Seq(Step)
  <2>1. <<Emit("failed", m, ClassifyError(e))>> \in Seq(Step)
    BY <1>1, StepTypes, ErrorHasClass, OneStep
  <2> QED
    BY <1>4, <2>1, Joined DEF ObserveFailed
<1>6. ObserveClosed(m, e) \in Seq(Step)
  <2>1. <<Count("closes"), Emit("closed", m, "closed")>> \in Seq(Step)
    BY <1>1, <1>2, StepTypes, TwoSteps
  <2>2. /\ <<Count("closes")>> \in Seq(Step)
        /\ <<Emit("close_failed", m, ClassifyError(e))>> \in Seq(Step)
    BY <1>1, StepTypes, ErrorHasClass, OneStep
  <2>3. CASE e = {}
    BY <2>1, <2>3 DEF ObserveClosed
  <2>4. CASE e # {}
    <3>1. <<Count("closes")>> \o RecordFailure(ClassifyError(e)) \in Seq(Step)
      BY <1>4, <2>2, <2>4, Joined
    <3> QED
      BY <2>2, <2>4, <3>1, Joined DEF ObserveClosed
  <2> QED
    BY <2>3, <2>4
<1>7. /\ <<Count("generated")>> \in Seq(Step) /\ <<Count("refreshed")>> \in Seq(Step)
      /\ <<Count("refreshFailed")>> \in Seq(Step)
  BY <1>1, StepTypes, OneStep
<1> QED
  BY <1>3, <1>5, <1>6, <1>7, Joined

-----------------------------------------------------------------------------
(* The places of the events that were not dropped: one more with each      *)
(* event that is kept, and none changes afterwards.                        *)
LEMMA KeptFinite ==
    ASSUME NEW L, NEW i \in Nat
    PROVE  IsFiniteSet((1..i) \ L) /\ Cardinality((1..i) \ L) \in Nat
<1>1. IsFiniteSet(1..i)
  BY FS_Interval
<1>2. IsFiniteSet((1..i) \ L)
  BY <1>1, FS_Difference
<1> QED
  BY <1>2, FS_CardinalityType

LEMMA PlaceMono ==
    ASSUME NEW L, NEW i \in Nat, NEW j \in Nat, i <= j
    PROVE  Cardinality((1..i) \ L) <= Cardinality((1..j) \ L)
<1>1. (1..i) \ L \subseteq (1..j) \ L
  OBVIOUS
<1> QED
  BY <1>1, KeptFinite, FS_Subset

LEMMA PlacePositive ==
    ASSUME NEW L, NEW i \in Nat \ {0}, i \notin L
    PROVE  Cardinality((1..i) \ L) >= 1
<1>1. i \in (1..i) \ L
  OBVIOUS
<1>2. Cardinality((1..i) \ L) # 0
  BY <1>1, KeptFinite, FS_EmptySet
<1> QED
  BY <1>2, KeptFinite

LEMMA PlaceKept ==
    ASSUME NEW n \in Nat, NEW L \in SUBSET (1..n), NEW i \in 0..n
    PROVE  Cardinality((1..i) \ (L \cup {n + 1})) = Cardinality((1..i) \ L)
<1>1. (1..i) \ (L \cup {n + 1}) = (1..i) \ L
  OBVIOUS
<1> QED
  BY <1>1

LEMMA PlaceNext ==
    ASSUME NEW n \in Nat, NEW L \in SUBSET (1..n)
    PROVE  /\ Cardinality((1..(n + 1)) \ L) = Cardinality((1..n) \ L) + 1
           /\ Cardinality((1..(n + 1)) \ (L \cup {n + 1})) = Cardinality((1..n) \ L)
           /\ IsFiniteSet(L) /\ Cardinality(L) \in Nat
           /\ Cardinality(L \cup {n + 1}) = Cardinality(L) + 1
<1>1. /\ (1..(n + 1)) \ L = ((1..n) \ L) \cup {n + 1}
      /\ n + 1 \notin (1..n) \ L /\ n + 1 \notin L
      /\ (1..(n + 1)) \ (L \cup {n + 1}) = (1..n) \ L
  OBVIOUS
<1>2. IsFiniteSet((1..n) \ L)
  BY KeptFinite
<1>3. IsFiniteSet(L)
  <2>1. IsFiniteSet(1..n)
    BY FS_Interval
  <2> QED
    BY <2>1, FS_Subset
<1> QED
  BY <1>1, <1>2, <1>3, FS_AddElement, FS_CardinalityType

LEMMA JoinAppended ==
    ASSUME NEW S, NEW d \in Seq(S), NEW s \in Seq(S), NEW e \in S
    PROVE  d \o Append(s, e) = Append(d \o s, e)
OBVIOUS

LEMMA JoinMoved ==
    ASSUME NEW S, NEW d \in Seq(S), NEW s \in Seq(S), s # <<>>
    PROVE  Append(d, Head(s)) \o Tail(s) = d \o s
OBVIOUS

-----------------------------------------------------------------------------
LEMMA InitIndInv == Init => IndInv
<1> SUFFICES ASSUME Init PROVE IndInv
  OBVIOUS
<1>1. Zero \in Counters /\ NoSnapshot \in SnapshotType
  BY DEF Zero, Counters, NoSnapshot, SnapshotType
<1>2. TypeOK
  <2>1. /\ lifecycle \in [Managers -> {"new", "active", "failed", "closed"}]
        /\ closing \in [Managers -> {"no", "releasing", "told"}]
    BY DEF Init
  <2>2. /\ lastErrorClass \in Classes \cup {"none"} /\ ended \in BOOLEAN
        /\ reporter \in {"off", "poll", "totals", "classes", "select", "drain", "returned"}
    BY DEF Init
  <2>3. /\ {events, delivered, emitted} \subseteq Seq(Event) /\ lost \subseteq 1..Len(emitted)
        /\ Len(events) <= BufferSize /\ {endedAt, windows} \subseteq Nat
    BY TelemetryAssumption DEF Init, TelemetryAssumption
  <2>4. count \in Counters /\ {previous, sampled} \subseteq SnapshotType
    BY <1>1 DEF Init
  <2> QED
    BY <2>1, <2>2, <2>3, <2>4 DEF TypeOK
<1>3. TodoOK /\ EndIsPast /\ DrainedBeforeReturn
  BY DEF Init, TodoOK, EndIsPast, DrainedBeforeReturn
<1>4. NothingUnaccounted
  <2>1. /\ delivered \o events = <<>> /\ Len(emitted) = 0 /\ (1..0) \ lost = {} /\ lost = {}
        /\ count["dropped"] = 0
    BY DEF Init, Zero, Totals
  <2> QED
    BY <2>1, FS_EmptySet DEF NothingUnaccounted, Received, Place
<1> QED
  BY <1>2, <1>3, <1>4 DEF IndInv

(* The steps of a manager start a callback and touch nothing the others    *)
(* read.                                                                   *)
LEMMA CallbackKeeps ==
    ASSUME IndInv, NEW m \in Managers, NEW steps \in Seq(Step), Callback(m, steps),
           lifecycle' \in [Managers -> {"new", "active", "failed", "closed"}],
           closing' \in [Managers -> {"no", "releasing", "told"}],
           UNCHANGED <<telemetryVars, reporterVars>>
    PROVE  IndInv'
<1>1. TypeOK' /\ TodoOK'
  BY DEF IndInv, TypeOK, TodoOK, Callback, telemetryVars, reporterVars
<1>2. NothingUnaccounted' /\ EndIsPast' /\ DrainedBeforeReturn'
  BY DEF IndInv, NothingUnaccounted, Received, Place, EndIsPast, DrainedBeforeReturn,
         telemetryVars, reporterVars
<1> QED
  BY <1>1, <1>2 DEF IndInv

LEMMA ManagerKeeps ==
    ASSUME IndInv, NEW m \in Managers, ManagerSteps(m)
    PROVE  IndInv'
<1>1. /\ lifecycle \in [Managers -> {"new", "active", "failed", "closed"}]
      /\ closing \in [Managers -> {"no", "releasing", "told"}]
      /\ todo \in [Managers -> Seq(Step)]
  BY DEF IndInv, TypeOK, TodoOK
<1>2. CASE Acquired(m)
  BY <1>1, <1>2, CallbackTypes, CallbackKeeps DEF Acquired
<1>3. CASE Generated(m) \/ Refreshed(m)
  BY <1>1, <1>3, CallbackTypes, CallbackKeeps DEF Generated, Refreshed, managerVars
<1>4. CASE RefreshFailed(m)
  <2>1. PICK e \in FailErrors : /\ BecomeFailed(m, e)
                                /\ Callback(m, <<Count("refreshFailed")>> \o ObserveFailed(m, e))
    BY <1>4 DEF RefreshFailed
  <2>2. <<Count("refreshFailed")>> \o ObserveFailed(m, e) \in Seq(Step)
    BY CallbackTypes, TelemetryAssumption DEF TelemetryAssumption
  <2> QED
    BY <1>1, <1>4, <2>1, <2>2, CallbackKeeps DEF RefreshFailed, BecomeFailed
<1>5. CASE Failed(m)
  <2>1. PICK e \in FailErrors : BecomeFailed(m, e) /\ Callback(m, ObserveFailed(m, e))
    BY <1>5 DEF Failed
  <2>2. ObserveFailed(m, e) \in Seq(Step)
    BY CallbackTypes, TelemetryAssumption DEF TelemetryAssumption
  <2> QED
    BY <1>1, <1>5, <2>1, <2>2, CallbackKeeps DEF Failed, BecomeFailed
<1>6. CASE BeginClose(m)
  <2>1. todo[m] \in Seq(Step) /\ Callback(m, todo[m])
    BY <1>1, <1>6 DEF BeginClose, Callback
  <2> QED
    BY <1>1, <1>6, <2>1, CallbackKeeps DEF BeginClose
<1>7. CASE FinishClose(m)
  <2>1. PICK e \in CloseErrors \cup {{}} : Callback(m, ObserveClosed(m, e))
    BY <1>7 DEF FinishClose
  <2>2. ObserveClosed(m, e) \in Seq(Step)
    BY CallbackTypes
  <2> QED
    BY <1>1, <1>7, <2>1, <2>2, CallbackKeeps DEF FinishClose
<1> QED
  BY <1>2, <1>3, <1>4, <1>5, <1>6, <1>7 DEF ManagerSteps

-----------------------------------------------------------------------------
(* One operation of a callback.                                            *)
LEMMA CountTypes ==
    ASSUME count \in Counters, NEW n \in Totals \cup Classes
    PROVE  Plus(n) \in Counters
PROOF BY DEF Counters, Plus

LEMMA Appended ==
    ASSUME NEW S, NEW s \in Seq(S), NEW e \in S, NEW t, t = Append(s, e)
    PROVE  /\ t \in Seq(S)
           /\ Len(t) = Len(s) + 1 /\ Len(s) \in Nat
           /\ \A i \in 1..Len(s) : t[i] = s[i]
           /\ t[Len(s) + 1] = e
OBVIOUS

(* What was emitted before the end of the context keeps its place.        *)
LEMMA EmitKeepsEnd ==
    ASSUME TypeOK, EndIsPast, DrainedBeforeReturn, NEW e \in Event,
           emitted' = Append(emitted, e),
           lost' = lost \/ lost' = lost \cup {Len(emitted) + 1},
           UNCHANGED reporterVars
    PROVE  EndIsPast' /\ DrainedBeforeReturn'
<1>0. PICK n \in Nat : n = Len(emitted)
  BY DEF TypeOK
<1>1. /\ emitted \in Seq(Event) /\ endedAt \in Nat /\ lost \subseteq 1..Len(emitted)
      /\ delivered' = delivered /\ endedAt' = endedAt /\ reporter' = reporter /\ ended' = ended
      /\ endedAt <= Len(emitted)
  BY DEF TypeOK, EndIsPast, reporterVars
<1>2. /\ Len(emitted') = Len(emitted) + 1 /\ Len(emitted) \in Nat
      /\ \A i \in 1..Len(emitted) : emitted'[i] = emitted[i]
  BY <1>1, Appended
<1>3. EndIsPast'
  BY <1>1, <1>2 DEF EndIsPast
<1>4. ASSUME reporter = "returned", NEW i \in (1..endedAt) \ lost'
      PROVE  Place(i)' <= Len(delivered) /\ delivered[Place(i)'] = emitted'[i]
  <2>1. i \in (1..endedAt) \ lost /\ i \in 0..n /\ i \in 1..Len(emitted)
    BY <1>0, <1>1, <1>2
  <2>2. Place(i)' = Place(i)
    <3>1. lost \in SUBSET (1..n)
      BY <1>0, <1>1
    <3>2. Cardinality((1..i) \ (lost \cup {n + 1})) = Cardinality((1..i) \ lost)
      BY <2>1, <3>1, PlaceKept
    <3>3. lost' = lost \/ lost' = lost \cup {n + 1}
      BY <1>0
    <3> QED
      BY <3>2, <3>3 DEF Place
  <2> QED
    BY <1>2, <1>4, <2>1, <2>2 DEF DrainedBeforeReturn
<1>5. DrainedBeforeReturn'
  BY <1>1, <1>4 DEF DrainedBeforeReturn
<1> QED
  BY <1>3, <1>5

(* An event is accounted for as soon as it is emitted, and what was stays  *)
(* so.                                                                     *)
LEMMA EmitKeeps ==
    ASSUME TypeOK, NothingUnaccounted, EndIsPast, DrainedBeforeReturn, NEW e \in Event,
           PutOrDrop(e), emitted' = Append(emitted, e),
           UNCHANGED <<lifecycle, closing, lastErrorClass, reporterVars>>
    PROVE  TypeOK' /\ NothingUnaccounted' /\ EndIsPast' /\ DrainedBeforeReturn'
<1>0. PICK n \in Nat : n = Len(emitted)
  BY DEF TypeOK
<1>1. /\ events \in Seq(Event) /\ emitted \in Seq(Event) /\ delivered \in Seq(Event)
      /\ delivered' = delivered /\ endedAt' = endedAt /\ reporter' = reporter /\ ended' = ended
      /\ endedAt \in Nat /\ lost \subseteq 1..n /\ count \in Counters
  BY <1>0 DEF TypeOK, reporterVars
<1>2. /\ emitted' \in Seq(Event) /\ Len(emitted') = n + 1 /\ n \in Nat
      /\ \A i \in 1..n : emitted'[i] = emitted[i]
      /\ emitted'[n + 1] = e
  BY <1>0, <1>1, Appended
<1>3. "dropped" \in Totals \cup Classes
  BY DEF Totals
<1>4. CASE Full
  <2>1. /\ lost' = lost \cup {n + 1} /\ events' = events /\ count' = Plus("dropped")
    BY <1>0, <1>4 DEF PutOrDrop
  <2>2. TypeOK'
    <3>1. count' \in Counters
      BY <1>1, <1>3, <2>1, CountTypes
    <3>2. lost' \subseteq 1..Len(emitted')
      <4>1. 1..n \cup {n + 1} \subseteq 1..(n + 1)
        OBVIOUS
      <4> QED
        BY <1>1, <1>2, <2>1, <4>1
    <3> QED
      BY <1>1, <1>2, <2>1, <3>1, <3>2 DEF TypeOK, reporterVars
  <2>3. NothingUnaccounted'
    <3>1. /\ Received' = Received /\ Len(Received) = Place(n)
          /\ \A i \in (1..n) \ lost : Received[Place(i)] = emitted[i]
          /\ count["dropped"] = Cardinality(lost)
      BY <1>0, <1>1, <2>1 DEF NothingUnaccounted, Received
    <3>2. \A i \in 0..n : Place(i)' = Place(i)
      BY <1>1, <1>2, <2>1, PlaceKept DEF Place
    <3>3. Place(n + 1)' = Place(n) /\ Cardinality(lost') = Cardinality(lost) + 1
      BY <1>1, <1>2, <2>1, PlaceNext DEF Place
    <3>4. ASSUME NEW i \in (1..(n + 1)) \ lost' PROVE Received'[Place(i)'] = emitted'[i]
      <4>1. i \in (1..n) \ lost /\ i \in 0..n
        BY <1>2, <2>1
      <4> QED
        BY <1>2, <3>1, <3>2, <4>1
    <3>5. count'["dropped"] = count["dropped"] + 1
      BY <1>1, <1>3, <2>1 DEF Plus, Counters
    <3> QED
      BY <1>2, <3>1, <3>3, <3>4, <3>5 DEF NothingUnaccounted
  <2> QED
    BY <1>0, <1>1, <1>2, <2>1, <2>2, <2>3, EmitKeepsEnd
<1>5. CASE ~Full
  <2>1. lost' = lost /\ events' = Append(events, e) /\ count' = count
    BY <1>5 DEF PutOrDrop
  <2>2. TypeOK'
    <3>1. Len(events) < BufferSize /\ Len(events) \in Nat /\ BufferSize \in Nat
      BY <1>1, <1>5, TelemetryAssumption DEF Full, TypeOK, TelemetryAssumption
    <3>2. events' \in Seq(Event) /\ Len(events') <= BufferSize
      BY <1>1, <2>1, <3>1, Appended
    <3>3. lost' \subseteq 1..Len(emitted')
      BY <1>1, <1>2, <2>1
    <3> QED
      BY <1>1, <1>2, <2>1, <3>2, <3>3 DEF TypeOK, reporterVars
  <2>3. NothingUnaccounted'
    <3>1. /\ Received' = Append(Received, e) /\ Received \in Seq(Event)
      BY <1>1, <2>1, JoinAppended, Joined DEF Received
    <3>2. /\ Len(Received) = Place(n)
          /\ \A i \in (1..n) \ lost : Received[Place(i)] = emitted[i]
          /\ count["dropped"] = Cardinality(lost)
      BY <1>0 DEF NothingUnaccounted
    <3>3. \A i \in Nat : Place(i)' = Place(i)
      BY <2>1 DEF Place
    <3>4. Place(n + 1) = Place(n) + 1
      <4>1. lost \in SUBSET (1..n)
        BY <1>1
      <4> QED
        BY <4>1, PlaceNext DEF Place
    <3>5. /\ Len(Received') = Len(Received) + 1 /\ Len(Received) \in Nat
          /\ \A i \in 1..Len(Received) : Received'[i] = Received[i]
          /\ Received'[Len(Received) + 1] = e
      BY <3>1, Appended
    <3>6. ASSUME NEW i \in (1..(n + 1)) \ lost PROVE Received'[Place(i)'] = emitted'[i]
      <4>1. CASE i = n + 1
        <5>1. n + 1 \in Nat
          OBVIOUS
        <5> QED
          BY <1>2, <3>2, <3>3, <3>4, <3>5, <4>1, <5>1
      <4>2. CASE i # n + 1
        <5>1. i \in (1..n) \ lost /\ i \in Nat /\ i \in Nat \ {0} /\ i <= n
          BY <1>2, <4>2
        <5>2. Place(i) >= 1 /\ Place(i) <= Place(n) /\ Place(i) \in Nat /\ Place(n) \in Nat
          BY <1>2, <5>1, PlacePositive, PlaceMono, KeptFinite DEF Place
        <5>3. Place(i) \in 1..Len(Received)
          BY <3>2, <5>2
        <5> QED
          BY <1>2, <3>2, <3>3, <3>5, <5>1, <5>3
      <4> QED
        BY <4>1, <4>2
    <3>7. Len(Received') = Place(n + 1)'
      <4>1. n + 1 \in Nat
        OBVIOUS
      <4> QED
        BY <3>2, <3>3, <3>4, <3>5, <4>1
    <3> QED
      BY <1>2, <2>1, <3>2, <3>6, <3>7 DEF NothingUnaccounted
  <2> QED
    BY <1>0, <1>1, <1>2, <2>1, <2>2, <2>3, EmitKeepsEnd
<1> QED
  BY <1>4, <1>5

LEMMA DroppedIsNotCounted == "dropped" \in Totals \cup Classes /\ "dropped" \notin Counted
<1>1. \A i \in DOMAIN ClassOrder : ClassOrder[i].class # "dropped"
  BY DEF ClassOrder
<1> QED
  BY <1>1 DEF Counted, Totals, Classes

LEMMA ObserveKeeps ==
    ASSUME IndInv, NEW m \in Managers, Observe(m)
    PROVE  IndInv'
<1> DEFINE step == Head(todo[m])
<1>1. todo \in [Managers -> Seq(Step)] /\ todo[m] \in Seq(Step) /\ todo[m] # <<>>
  BY DEF IndInv, TodoOK, Observe
<1>2. step \in Step /\ Tail(todo[m]) \in Seq(Step)
  BY <1>1
<1>3. /\ Perform(step) /\ Callback(m, Tail(todo[m]))
      /\ UNCHANGED <<lifecycle, closing, reporterVars>>
  BY DEF Observe, managerVars
<1>4. TodoOK'
  BY <1>1, <1>2, <1>3 DEF TodoOK, Callback
<1> HIDE DEF step
<1>5. CASE step.do = "count" /\ count' = Plus(step.what)
           /\ UNCHANGED <<lastErrorClass, events, emitted, lost>>
  <2>1. count' \in Counters
    <3>1. step.what \in Totals \cup Classes
      BY <1>2, <1>5 DEF Step, CountStep, RememberStep, EmitStep, Counted
    <3> QED
      BY <1>5, <3>1, CountTypes DEF IndInv, TypeOK
  <2>2. TypeOK'
    BY <1>3, <1>5, <2>1 DEF IndInv, TypeOK, reporterVars
  <2>3. count'["dropped"] = count["dropped"]
    <3>1. step.what # "dropped"
      BY <1>2, <1>5, DroppedIsNotCounted DEF Step, CountStep, RememberStep, EmitStep
    <3> QED
      BY <1>5, <3>1, DroppedIsNotCounted DEF IndInv, TypeOK, Counters, Plus
  <2> QED
    BY <1>3, <1>4, <1>5, <2>2, <2>3
    DEF IndInv, NothingUnaccounted, Received, Place, EndIsPast, DrainedBeforeReturn, reporterVars
<1>6. CASE step.do = "remember" /\ lastErrorClass' = step.what
           /\ UNCHANGED <<count, events, emitted, lost>>
  <2>1. step.what \in Classes \cup {"none"}
    BY <1>2, <1>6 DEF Step, CountStep, RememberStep, EmitStep
  <2>2. TypeOK'
    BY <1>3, <1>6, <2>1 DEF IndInv, TypeOK, reporterVars
  <2> QED
    BY <1>3, <1>4, <1>6, <2>2
    DEF IndInv, NothingUnaccounted, Received, Place, EndIsPast, DrainedBeforeReturn, reporterVars
<1>7. CASE step.do = "emit" /\ PutOrDrop(step.what) /\ emitted' = Append(emitted, step.what)
           /\ UNCHANGED lastErrorClass
  <2>1. step.what \in Event
    BY <1>2, <1>7 DEF Step, CountStep, RememberStep, EmitStep
  <2>2. TypeOK' /\ NothingUnaccounted' /\ EndIsPast' /\ DrainedBeforeReturn'
    BY <1>3, <1>7, <2>1, EmitKeeps DEF IndInv
  <2> QED
    BY <1>4, <2>2 DEF IndInv
<1> QED
  BY <1>3, <1>5, <1>6, <1>7 DEF Perform

-----------------------------------------------------------------------------
(* The steps of the reporter that leave the counters, the channel and its  *)
(* own record of events alone.                                             *)
LEMMA ReporterMoves ==
    ASSUME IndInv,
           TodoOK', lifecycle' \in [Managers -> {"new", "active", "failed", "closed"}],
           NEW where \in {"off", "poll", "totals", "classes", "select", "drain"},
           reporter' = where, where = "drain" => ended',
           ended' = ended,
           previous' \in SnapshotType, sampled' \in SnapshotType, windows' \in Nat,
           UNCHANGED <<closing, telemetryVars, delivered, endedAt>>
    PROVE  IndInv'
<1>1. TypeOK'
  BY DEF IndInv, TypeOK, telemetryVars
<1>2. NothingUnaccounted'
  BY DEF IndInv, NothingUnaccounted, Received, Place, telemetryVars
<1>3. EndIsPast' /\ DrainedBeforeReturn'
  BY DEF IndInv, EndIsPast, DrainedBeforeReturn, Place, telemetryVars
<1> QED
  BY <1>1, <1>2, <1>3 DEF IndInv

LEMMA BeginSnapshotKeeps == IndInv /\ BeginSnapshot => IndInv'
<1> SUFFICES ASSUME IndInv, BeginSnapshot PROVE IndInv'
  OBVIOUS
<1>1. /\ lifecycle \in [Managers -> {"new", "active", "failed", "closed"}]
      /\ todo \in [Managers -> Seq(Step)] /\ Source \in Managers
      /\ previous \in SnapshotType /\ sampled \in SnapshotType /\ windows \in Nat
  BY TelemetryAssumption DEF IndInv, TypeOK, TodoOK, TelemetryAssumption
<1>2. /\ TodoOK' /\ lifecycle' \in [Managers -> {"new", "active", "failed", "closed"}]
      /\ closing' = closing
  <2>1. CASE UNCHANGED <<managerVars, todo>>
    BY <1>1, <2>1 DEF managerVars, TodoOK
  <2>2. CASE \E e \in ReadyErrors : BecomeFailed(Source, e)
                                    /\ Callback(Source, ObserveFailed(Source, e))
    <3>1. PICK e \in ReadyErrors : BecomeFailed(Source, e)
                                   /\ Callback(Source, ObserveFailed(Source, e))
      BY <2>2
    <3>2. ObserveFailed(Source, e) \in Seq(Step)
      BY <1>1, CallbackTypes, TelemetryAssumption DEF TelemetryAssumption
    <3> QED
      BY <1>1, <3>1, <3>2 DEF BecomeFailed, Callback, TodoOK
  <2> QED
    BY <2>1, <2>2 DEF BeginSnapshot
<1> QED
  BY <1>1, <1>2, ReporterMoves DEF BeginSnapshot

LEMMA SnapshotTypes ==
    ASSUME TypeOK
    PROVE  /\ LoadTotals => sampled' \in SnapshotType
           /\ LoadClasses(sampled) \in SnapshotType
           /\ GeneratedDelta(LoadClasses(sampled)) \in Nat
<1>1. /\ count \in Counters /\ Source \in Managers
      /\ lifecycle[Source] \in {"new", "active", "failed", "closed"}
      /\ lastErrorClass \in Classes \cup {"none"}
      /\ sampled \in SnapshotType /\ previous \in SnapshotType
  BY TelemetryAssumption DEF TypeOK, TelemetryAssumption
<1>2. ASSUME LoadTotals PROVE sampled' \in SnapshotType
  <2> DEFINE c == [n \in Totals \cup Classes |-> IF n \in Totals THEN count[n] ELSE 0]
             l == IF lastErrorClass = "none" THEN ClassifyError(terminalErr[Source])
                  ELSE lastErrorClass
  <2>1. c \in Counters
    BY <1>1 DEF Counters
  <2>2. l \in Classes \cup {"none"}
    BY <1>1, ErrorHasClass
  <2>3. sampled' = [lifecycle |-> lifecycle[Source], count |-> c, last |-> l]
    BY <1>2 DEF LoadTotals
  <2> HIDE DEF c, l
  <2> QED
    BY <1>1, <2>1, <2>2, <2>3 DEF SnapshotType
<1>3. LoadClasses(sampled) \in SnapshotType
  <2> DEFINE c == [n \in Totals \cup Classes |-> IF n \in Classes THEN count[n]
                                                 ELSE sampled.count[n]]
  <2>1. c \in Counters
    BY <1>1 DEF Counters, SnapshotType
  <2>2. LoadClasses(sampled) = [sampled EXCEPT !.count = c]
    BY DEF LoadClasses
  <2> HIDE DEF c
  <2> QED
    BY <1>1, <2>1, <2>2 DEF SnapshotType
<1>4. GeneratedDelta(LoadClasses(sampled)) \in Nat
  <2> DEFINE s == LoadClasses(sampled)
  <2>1. "generated" \in Totals \cup Classes
    BY DEF Totals
  <2>2. s.count["generated"] \in Nat /\ previous.count["generated"] \in Nat
    BY <1>1, <1>3, <2>1 DEF SnapshotType, Counters
  <2> HIDE DEF s
  <2> QED
    BY <2>2 DEF GeneratedDelta, s
<1> QED
  BY <1>2, <1>3, <1>4

LEMMA ReceiveKeeps == IndInv /\ ReceiveEvent => IndInv'
<1> SUFFICES ASSUME IndInv, ReceiveEvent PROVE IndInv'
  OBVIOUS
<1>1. /\ events \in Seq(Event) /\ delivered \in Seq(Event) /\ events # <<>>
      /\ delivered' = Append(delivered, Head(events)) /\ events' = Tail(events)
      /\ reporter' = reporter /\ reporter # "returned"
  BY DEF IndInv, TypeOK, ReceiveEvent
<1>2. /\ Head(events) \in Event /\ Tail(events) \in Seq(Event)
      /\ Len(Tail(events)) <= Len(events) /\ Len(events) \in Nat /\ Len(Tail(events)) \in Nat
  BY <1>1
<1>3. delivered' \in Seq(Event)
  BY <1>1, <1>2, Appended
<1>4. TypeOK' /\ TodoOK'
  <2>1. Len(events') <= BufferSize
    BY <1>1, <1>2, TelemetryAssumption DEF IndInv, TypeOK, TelemetryAssumption
  <2> QED
    BY <1>1, <1>2, <1>3, <2>1 DEF IndInv, TypeOK, TodoOK, ReceiveEvent, managerVars
<1>5. Received' = Received
  BY <1>1, JoinMoved DEF Received
<1>6. NothingUnaccounted' /\ EndIsPast' /\ DrainedBeforeReturn'
  BY <1>1, <1>5 DEF IndInv, NothingUnaccounted, Place, EndIsPast, DrainedBeforeReturn, ReceiveEvent
<1> QED
  BY <1>4, <1>6 DEF IndInv

(* The reporter returns on an empty channel: what was emitted before its   *)
(* context ended has been delivered or dropped.                            *)
LEMMA ReturnKeeps == IndInv /\ ReturnReporter => IndInv'
<1> SUFFICES ASSUME IndInv, ReturnReporter PROVE IndInv'
  OBVIOUS
<1>1. /\ events = <<>> /\ reporter = "drain" /\ reporter' = "returned"
      /\ UNCHANGED <<managerVars, todo, telemetryVars, ended, previous, sampled,
                     delivered, endedAt, windows>>
  BY DEF ReturnReporter, NothingLeft
<1>2. TypeOK' /\ TodoOK' /\ NothingUnaccounted' /\ EndIsPast'
  BY <1>1 DEF IndInv, TypeOK, TodoOK, NothingUnaccounted, Received, Place, EndIsPast,
              managerVars, telemetryVars
<1>3. DrainedBeforeReturn'
  <2>1. /\ emitted \in Seq(Event) /\ delivered \in Seq(Event) /\ endedAt \in Nat
        /\ endedAt <= Len(emitted) /\ Len(emitted) \in Nat
    BY DEF IndInv, TypeOK, EndIsPast
  <2>2. Received = delivered
    BY <1>1, <2>1 DEF Received
  <2>3. ASSUME NEW i \in (1..endedAt) \ lost
        PROVE  Place(i) <= Len(delivered) /\ delivered[Place(i)] = emitted[i]
    <3>1. i \in (1..Len(emitted)) \ lost /\ i \in Nat /\ i <= Len(emitted)
      BY <2>1
    <3>2. Place(i) <= Place(Len(emitted))
      BY <2>1, <3>1, PlaceMono DEF Place
    <3> QED
      BY <2>2, <3>1, <3>2 DEF IndInv, NothingUnaccounted
  <2> QED
    BY <1>1, <2>3 DEF DrainedBeforeReturn, Place, telemetryVars
<1> QED
  BY <1>2, <1>3 DEF IndInv

LEMMA EndContextKeeps == IndInv /\ EndContext => IndInv'
<1> SUFFICES ASSUME IndInv, EndContext PROVE IndInv'
  OBVIOUS
<1>1. /\ ended' = TRUE /\ endedAt' = Len(emitted) /\ ended = FALSE
      /\ UNCHANGED <<managerVars, todo, telemetryVars, reporter, previous, sampled,
                     delivered, windows>>
      /\ emitted \in Seq(Event)
  BY DEF EndContext, IndInv, TypeOK
<1>2. reporter # "returned"
  BY <1>1 DEF IndInv, EndIsPast
<1>3. TypeOK' /\ TodoOK' /\ NothingUnaccounted'
  <2>1. endedAt' \in Nat
    BY <1>1
  <2> QED
    BY <1>1, <2>1 DEF IndInv, TypeOK, TodoOK, NothingUnaccounted, Received, Place,
                      managerVars, telemetryVars
<1>4. EndIsPast' /\ DrainedBeforeReturn'
  BY <1>1, <1>2 DEF EndIsPast, DrainedBeforeReturn, telemetryVars
<1> QED
  BY <1>3, <1>4 DEF IndInv

LEMMA StepKeeps == IndInv /\ [Next]_vars => IndInv'
<1> SUFFICES ASSUME IndInv, [Next]_vars PROVE IndInv'
  OBVIOUS
<1>1. ASSUME NEW m \in Managers, ManagerSteps(m) \/ Observe(m) PROVE IndInv'
  BY <1>1, ManagerKeeps, ObserveKeeps
<1>2. CASE BeginSnapshot
  BY <1>2, BeginSnapshotKeeps
<1>3. CASE StartReporter \/ FireTicker \/ BeginDrain
  <2>1. /\ TodoOK' /\ lifecycle' \in [Managers -> {"new", "active", "failed", "closed"}]
        /\ previous' \in SnapshotType /\ sampled' \in SnapshotType /\ windows' \in Nat
    BY <1>3 DEF StartReporter, FireTicker, BeginDrain, managerVars, IndInv, TypeOK, TodoOK
  <2> QED
    BY <1>3, <2>1, ReporterMoves DEF StartReporter, FireTicker, BeginDrain, managerVars
<1>4. CASE LoadTotals
  <2>1. /\ TodoOK' /\ lifecycle' \in [Managers -> {"new", "active", "failed", "closed"}]
        /\ previous' \in SnapshotType /\ sampled' \in SnapshotType /\ windows' \in Nat
    BY <1>4, SnapshotTypes DEF LoadTotals, managerVars, IndInv, TypeOK, TodoOK
  <2> QED
    BY <1>4, <2>1, ReporterMoves DEF LoadTotals, managerVars
<1>5. CASE FinishSnapshot
  <2>1. windows \in Nat /\ windows' = windows + GeneratedDelta(LoadClasses(sampled))
    BY <1>5 DEF FinishSnapshot, IndInv, TypeOK
  <2>2. /\ TodoOK' /\ lifecycle' \in [Managers -> {"new", "active", "failed", "closed"}]
        /\ previous' \in SnapshotType /\ sampled' \in SnapshotType
    BY <1>5, SnapshotTypes DEF FinishSnapshot, managerVars, IndInv, TypeOK, TodoOK
  <2>3. windows' \in Nat
    BY <2>1, SnapshotTypes DEF IndInv
  <2> QED
    BY <1>5, <2>2, <2>3, ReporterMoves DEF FinishSnapshot, managerVars
<1>6. CASE ReceiveEvent
  BY <1>6, ReceiveKeeps
<1>7. CASE EndContext
  BY <1>7, EndContextKeeps
<1>8. CASE ReturnReporter
  BY <1>8, ReturnKeeps
<1>9. CASE UNCHANGED vars
  BY <1>9 DEF vars, managerVars, telemetryVars, reporterVars, IndInv, TypeOK, TodoOK,
              NothingUnaccounted, Received, Place, EndIsPast, DrainedBeforeReturn
<1> QED
  BY <1>1, <1>2, <1>3, <1>4, <1>5, <1>6, <1>7, <1>8, <1>9 DEF Next

-----------------------------------------------------------------------------
THEOREM TelemetryInvariant == Spec => []IndInv
<1> QED
  BY InitIndInv, StepKeeps, PTL DEF Spec

(* The state of Telemetry and of its reporter keeps its types: every error *)
(* has a class, and the channel never holds more than its size.            *)
THEOREM TelemetryTypeOK == Spec => []TypeOK
<1>1. IndInv => TypeOK
  BY DEF IndInv
<1> QED
  BY <1>1, TelemetryInvariant, PTL

(* Whatever the size of the channel, and however many generators report to *)
(* it, each event is delivered once and in order, or counted as dropped,   *)
(* or still in the channel (emit).                                         *)
THEOREM TelemetryNothingUnaccounted == Spec => []NothingUnaccounted
<1>1. IndInv => NothingUnaccounted
  BY DEF IndInv
<1> QED
  BY <1>1, TelemetryInvariant, PTL

(* Whatever the size of the channel, and however many generators report to *)
(* it, RunReporter returns only when each event emitted before its context *)
(* ended has been forwarded or dropped.                                    *)
THEOREM TelemetryDrainedBeforeReturn == Spec => []DrainedBeforeReturn
<1>1. IndInv => DrainedBeforeReturn
  BY DEF IndInv
<1> QED
  BY <1>1, TelemetryInvariant, PTL

-----------------------------------------------------------------------------
(* The windows of the reports meet: each begins at the snapshot that ended *)
(* the one before, and the total they are cut from never falls.            *)
WindowsMeet ==
    /\ windows = previous.count["generated"]
    /\ previous.count["generated"] <= count["generated"]
    /\ reporter = "classes" =>
          /\ previous.count["generated"] <= sampled.count["generated"]
          /\ sampled.count["generated"] <= count["generated"]
    /\ reporter \notin Sampling => sampled = previous

LEMMA GeneratedIsNoClass ==
    "generated" \in Totals \cup Classes /\ "generated" \in Totals /\ "generated" \notin Classes
<1>1. \A i \in DOMAIN ClassOrder : ClassOrder[i].class # "generated"
  BY DEF ClassOrder
<1> QED
  BY <1>1 DEF Totals, Classes

LEMMA GeneratedTypes ==
    ASSUME TypeOK
    PROVE  /\ count["generated"] \in Nat /\ previous.count["generated"] \in Nat
           /\ sampled.count["generated"] \in Nat /\ windows \in Nat
           /\ LoadClasses(sampled).count["generated"] = sampled.count["generated"]
<1>1. /\ count["generated"] \in Nat /\ previous.count["generated"] \in Nat
      /\ sampled.count["generated"] \in Nat /\ windows \in Nat
  BY GeneratedIsNoClass DEF TypeOK, SnapshotType, Counters
<1>2. LoadClasses(sampled).count["generated"] = sampled.count["generated"]
  <2> DEFINE c == [n \in Totals \cup Classes |-> IF n \in Classes THEN count[n]
                                                 ELSE sampled.count[n]]
  <2>1. c["generated"] = sampled.count["generated"]
    BY GeneratedIsNoClass
  <2>2. LoadClasses(sampled) = [sampled EXCEPT !.count = c] /\ sampled \in SnapshotType
    BY DEF LoadClasses, TypeOK
  <2> HIDE DEF c
  <2> QED
    BY <2>1, <2>2 DEF SnapshotType
<1> QED
  BY <1>1, <1>2

(* Counters only grow.                                                     *)
LEMMA ObserveCounts ==
    ASSUME TypeOK, NEW m \in Managers, Observe(m)
    PROVE  count'["generated"] >= count["generated"]
<1>1. count \in Counters /\ count["generated"] \in Nat
  BY GeneratedTypes DEF TypeOK
<1>2. ASSUME NEW n PROVE Plus(n)["generated"] >= count["generated"]
  BY <1>1, GeneratedIsNoClass DEF Plus, Counters
<1>3. count' = count \/ \E n : count' = Plus(n)
  BY DEF Observe, Perform, PutOrDrop
<1> QED
  BY <1>1, <1>2, <1>3

LEMMA StepKeepsWindows ==
    ASSUME TypeOK, TypeOK', WindowsMeet, [Next]_vars
    PROVE  WindowsMeet'
<1>1. ASSUME NEW m \in Managers, ManagerSteps(m) PROVE WindowsMeet'
  BY <1>1 DEF ManagerSteps, Acquired, Generated, Refreshed, RefreshFailed, Failed, BeginClose,
              FinishClose, telemetryVars, reporterVars, WindowsMeet
<1>2. ASSUME NEW m \in Managers, Observe(m) PROVE WindowsMeet'
  <2>1. /\ count'["generated"] >= count["generated"] /\ count'["generated"] \in Nat
        /\ UNCHANGED reporterVars
    BY <1>2, ObserveCounts, GeneratedIsNoClass DEF Observe, TypeOK, Counters
  <2> QED
    BY <2>1, GeneratedTypes DEF WindowsMeet, reporterVars
<1>3. CASE LoadTotals
  <2>1. sampled'.count["generated"] = count["generated"]
    <3> DEFINE c == [n \in Totals \cup Classes |-> IF n \in Totals THEN count[n] ELSE 0]
    <3>1. c["generated"] = count["generated"]
      BY GeneratedIsNoClass
    <3>2. sampled'.count = c
      BY <1>3 DEF LoadTotals
    <3> QED
      BY <3>1, <3>2
  <2>2. reporter' = "classes" /\ UNCHANGED <<windows, previous, count>>
    BY <1>3 DEF LoadTotals, telemetryVars
  <2> QED
    BY <2>1, <2>2, GeneratedTypes DEF WindowsMeet, Sampling
<1>4. CASE FinishSnapshot
  <2> DEFINE s == LoadClasses(sampled)
  <2>1. /\ reporter = "classes" /\ reporter' = "select" /\ count' = count
        /\ sampled' = s /\ previous' = s /\ windows' = windows + GeneratedDelta(s)
    BY <1>4 DEF FinishSnapshot, telemetryVars
  <2>2. s.count["generated"] = sampled.count["generated"]
    BY GeneratedTypes
  <2> HIDE DEF s
  <2>3. /\ s.count["generated"] >= previous.count["generated"]
        /\ s.count["generated"] <= count["generated"]
        /\ s.count["generated"] \in Nat /\ previous.count["generated"] \in Nat
        /\ windows = previous.count["generated"]
    BY <2>1, <2>2, GeneratedTypes DEF WindowsMeet
  <2>4. windows' = s.count["generated"]
    BY <2>1, <2>3 DEF GeneratedDelta
  <2> QED
    BY <2>1, <2>3, <2>4 DEF WindowsMeet
<1>5. CASE \/ StartReporter \/ BeginSnapshot \/ FireTicker \/ ReceiveEvent \/ EndContext
           \/ BeginDrain \/ ReturnReporter \/ UNCHANGED vars
  <2>1. UNCHANGED <<count, windows, previous, sampled>>
    BY <1>5 DEF StartReporter, BeginSnapshot, FireTicker, ReceiveEvent, EndContext, BeginDrain,
                ReturnReporter, vars, telemetryVars, reporterVars
  <2>2. reporter' # "classes" \/ reporter' = reporter
    BY <1>5 DEF StartReporter, BeginSnapshot, FireTicker, ReceiveEvent, EndContext, BeginDrain,
                ReturnReporter, vars, reporterVars
  <2>3. reporter' \notin Sampling => reporter \notin Sampling
    BY <1>5 DEF StartReporter, BeginSnapshot, FireTicker, ReceiveEvent, EndContext, BeginDrain,
                ReturnReporter, vars, reporterVars, Sampling
  <2> QED
    BY <2>1, <2>2, <2>3 DEF WindowsMeet
<1> QED
  BY <1>1, <1>2, <1>3, <1>4, <1>5 DEF Next

(* The reports neither lose an ID between two of their windows nor count   *)
(* one twice, however many generators count on while a Snapshot is taken   *)
(* (buildStatusReport).                                                    *)
THEOREM TelemetryWindowsAddUp == Spec => []WindowsAddUp
<1>1. Init => WindowsMeet
  BY GeneratedIsNoClass DEF Init, Zero, NoSnapshot, WindowsMeet
<1>2. TypeOK /\ TypeOK' /\ WindowsMeet /\ [Next]_vars => WindowsMeet'
  BY StepKeepsWindows
<1>3. WindowsMeet => WindowsAddUp
  BY DEF WindowsMeet, WindowsAddUp
<1> QED
  BY <1>1, <1>2, <1>3, TelemetryTypeOK, PTL DEF Spec
-----------------------------------------------------------------------------
(* The counters with what the running callback of the source still owes    *)
(* them.                                                                   *)
Owes(steps, s) == \E i \in 1..Len(steps) : steps[i] = s

Due == [n \in Counted |->
           IF Owes(todo[Source], Count(n)) THEN count[n] + 1 ELSE count[n]]

(* A callback repeats no operation and counts the class it remembers next. *)
WellOrdered(steps) ==
    /\ \A i, j \in 1..Len(steps) : i # j => steps[i] # steps[j]
    /\ \A i \in 1..Len(steps) :
          steps[i].do = "remember" =>
              /\ steps[i].what \in Classes
              /\ i < Len(steps)
              /\ steps[i + 1] = Count(steps[i].what)

Quiet == \A m \in Others : lifecycle[m] = "new"

(* What the source has counted so far tells where it is in its life.       *)
Tally ==
    /\ Due["failures"] = SumOfClasses(Due)
    /\ lifecycle[Source] = "new" => Due["failures"] = 0 /\ Due["acquired"] = 0
    /\ lifecycle[Source] = "active" => Due["failures"] = 0 /\ Due["acquired"] = 1
    /\ lifecycle[Source] = "failed" => Due["failures"] = 1
    /\ lifecycle[Source] # "closed" => Due["closes"] = 0
    /\ Due["failures"] > 0 =>
          \/ \E i \in 1..Len(todo[Source]) : todo[Source][i].do = "remember"
          \/ lastErrorClass \in Classes /\ Due[lastErrorClass] > 0

Idle ==
    /\ \A m \in Managers : lifecycle[m] = "new" => todo[m] = <<>>
    /\ \A m \in Managers : closing[m] # "no" => lifecycle[m] = "closed"
    /\ reporter = "classes" => todo[Source] = <<>>

(* Between the two halves of a Snapshot its first half stays true.         *)
HalfFits ==
    reporter = "classes" =>
        /\ sampled.lifecycle = lifecycle[Source]
        /\ \A n \in Totals : sampled.count[n] = count[n]
        /\ lastErrorClass # "none" => sampled.last = lastErrorClass

Fits(s) ==
    /\ s.count["failures"] = SumOfClasses(s.count)
    /\ s.count["failures"] > 0 => s.count[s.last] > 0
    /\ s.lifecycle = "active" => s.count["acquired"] = 1 /\ s.count["failures"] = 0
    /\ s.lifecycle = "failed" => s.count["failures"] = 1
    /\ s.count["closes"] > 0 => s.lifecycle = "closed"

SnapshotInv ==
    /\ Idle
    /\ Quiet => /\ WellOrdered(todo[Source]) /\ Tally /\ HalfFits
                /\ reporter \notin Sampling => Fits(sampled)

-----------------------------------------------------------------------------
(* Names of counters.                                                      *)
LEMMA CounterNames ==
    /\ Classes = {"canceled", "clock_rollback", "clock_skew", "fence_ahead", "lease_busy",
                  "lease_lost", "closed", "store_failure", "unknown"}
    /\ Classes \subseteq Counted
    /\ {"acquired", "generated", "refreshed", "refreshFailed", "failures", "closes"} \subseteq Counted
    /\ Counted \subseteq Totals \cup Classes
    /\ {"acquired", "generated", "refreshed", "refreshFailed", "failures", "closes", "none"}
           \cap Classes = {}
<1>1. DOMAIN ClassOrder = 1..8
  BY DEF ClassOrder
<1>2. {ClassOrder[i].class : i \in 1..8}
      = {"canceled", "clock_rollback", "clock_skew", "fence_ahead", "lease_busy",
         "lease_lost", "closed", "store_failure"}
  <2>1. 1..8 = {1, 2, 3, 4, 5, 6, 7, 8}
    OBVIOUS
  <2>2. /\ ClassOrder[1].class = "canceled" /\ ClassOrder[2].class = "clock_rollback"
        /\ ClassOrder[3].class = "clock_skew" /\ ClassOrder[4].class = "fence_ahead"
        /\ ClassOrder[5].class = "lease_busy" /\ ClassOrder[6].class = "lease_lost"
        /\ ClassOrder[7].class = "closed" /\ ClassOrder[8].class = "store_failure"
    BY DEF ClassOrder
  <2> QED
    BY <2>1, <2>2
<1>3. Classes = {"canceled", "clock_rollback", "clock_skew", "fence_ahead", "lease_busy",
                 "lease_lost", "closed", "store_failure", "unknown"}
  BY <1>1, <1>2 DEF Classes
<1> QED
  BY <1>3 DEF Counted, Totals

(* What is owed when a callback begins, and what is left after a step.     *)
LEMMA OwesConcrete ==
    ASSUME NEW s, NEW a, NEW b, NEW c, NEW d, NEW e
    PROVE  /\ ~Owes(<<>>, s)
           /\ Owes(<<a>>, s) <=> s = a
           /\ Owes(<<a, b>>, s) <=> s \in {a, b}
           /\ Owes(<<a, b, c, d>>, s) <=> s \in {a, b, c, d}
           /\ Owes(<<a, b, c, d, e>>, s) <=> s \in {a, b, c, d, e}
<1>1. ~Owes(<<>>, s)
  BY DEF Owes
<1>2. Owes(<<a>>, s) <=> s = a
  BY DEF Owes
<1>3. Owes(<<a, b>>, s) <=> s \in {a, b}
  BY DEF Owes
<1>4. Owes(<<a, b, c, d>>, s) <=> s \in {a, b, c, d}
  <2> DEFINE t == <<a, b, c, d>>
  <2>1. Len(t) = 4 /\ t[1] = a /\ t[2] = b /\ t[3] = c /\ t[4] = d
    OBVIOUS
  <2> HIDE DEF t
  <2>2. Owes(t, s) <=> s \in {a, b, c, d}
    BY <2>1 DEF Owes
  <2> QED
    BY <2>2 DEF t
<1>5. Owes(<<a, b, c, d, e>>, s) <=> s \in {a, b, c, d, e}
  <2> DEFINE t == <<a, b, c, d, e>>
  <2>1. Len(t) = 5 /\ t[1] = a /\ t[2] = b /\ t[3] = c /\ t[4] = d /\ t[5] = e
    OBVIOUS
  <2> HIDE DEF t
  <2>2. Owes(t, s) <=> s \in {a, b, c, d, e}
    BY <2>1 DEF Owes
  <2> QED
    BY <2>2 DEF t
<1> QED
  BY <1>1, <1>2, <1>3, <1>4, <1>5

LEMMA TailFacts ==
    ASSUME NEW S, NEW t \in Seq(S), t # <<>>
    PROVE  /\ Tail(t) \in Seq(S) /\ Len(t) \in Nat /\ Len(Tail(t)) = Len(t) - 1
           /\ Head(t) = t[1] /\ 1 \in 1..Len(t)
           /\ \A i \in 1..Len(Tail(t)) : Tail(t)[i] = t[i + 1] /\ i + 1 \in 1..Len(t)
<1>1. Len(Tail(t)) = Len(t) - 1 /\ Len(t) \in Nat /\ Len(t) # 0
  BY HeadTailProperties, EmptySeq
<1> QED
  BY <1>1, HeadTailProperties

LEMMA OwesTail ==
    ASSUME NEW t \in Seq(Step), t # <<>>, WellOrdered(t), NEW s
    PROVE  Owes(Tail(t), s) <=> Owes(t, s) /\ s # Head(t)
<1>1. /\ Len(Tail(t)) = Len(t) - 1 /\ Len(t) \in Nat
      /\ Head(t) = t[1] /\ 1 \in 1..Len(t)
      /\ \A i \in 1..Len(Tail(t)) : Tail(t)[i] = t[i + 1] /\ i + 1 \in 1..Len(t)
  BY TailFacts
<1>2. ASSUME NEW i \in 1..Len(Tail(t)), Tail(t)[i] = s
      PROVE  Owes(t, s) /\ s # Head(t)
  <2>1. t[i + 1] = s /\ i + 1 \in 1..Len(t) /\ i + 1 # 1
    BY <1>1, <1>2
  <2> QED
    BY <1>1, <2>1 DEF Owes, WellOrdered
<1>3. ASSUME NEW i \in 1..Len(t), t[i] = s, s # Head(t)
      PROVE  Owes(Tail(t), s)
  <2>1. i # 1
    BY <1>1, <1>3
  <2>2. i - 1 \in 1..Len(Tail(t)) /\ (i - 1) + 1 = i
    BY <1>1, <2>1
  <2>3. Tail(t)[i - 1] = s
    BY <1>1, <1>3, <2>2
  <2> QED
    BY <2>2, <2>3 DEF Owes
<1> QED
  BY <1>2, <1>3 DEF Owes

LEMMA WellOrderedTail ==
    ASSUME NEW t \in Seq(Step), t # <<>>, WellOrdered(t)
    PROVE  WellOrdered(Tail(t))
<1> DEFINE u == Tail(t)
<1>1. /\ Len(u) = Len(t) - 1 /\ Len(t) \in Nat
      /\ \A i \in 1..Len(u) : u[i] = t[i + 1] /\ i + 1 \in 1..Len(t)
  BY TailFacts
<1> HIDE DEF u
<1>2. ASSUME NEW i \in 1..Len(u), NEW j \in 1..Len(u), i # j PROVE u[i] # u[j]
  <2>1. i + 1 # j + 1
    BY <1>1, <1>2
  <2> QED
    BY <1>1, <2>1 DEF WellOrdered
<1>3. ASSUME NEW i \in 1..Len(u), u[i].do = "remember"
      PROVE  u[i].what \in Classes /\ i < Len(u) /\ u[i + 1] = Count(u[i].what)
  <2>1. /\ t[i + 1].what \in Classes /\ i + 1 < Len(t)
        /\ t[(i + 1) + 1] = Count(t[i + 1].what) /\ u[i] = t[i + 1]
    BY <1>1, <1>3 DEF WellOrdered
  <2>2. i < Len(u) /\ i + 1 \in 1..Len(u)
    BY <1>1, <2>1
  <2> QED
    BY <1>1, <2>1, <2>2
<1> QED
  BY <1>2, <1>3 DEF WellOrdered, u

(* A callback put together from two that share no operation.               *)
LEMMA OwesJoin ==
    ASSUME NEW S, NEW t \in Seq(S), NEW u \in Seq(S), NEW s
    PROVE  Owes(t \o u, s) <=> Owes(t, s) \/ Owes(u, s)
<1> DEFINE v == t \o u
<1>1. /\ Len(v) = Len(t) + Len(u) /\ Len(t) \in Nat /\ Len(u) \in Nat
      /\ \A i \in 1..(Len(t) + Len(u)) : v[i] = IF i <= Len(t) THEN t[i] ELSE u[i - Len(t)]
  BY ConcatProperties
<1> HIDE DEF v
<1>2. ASSUME NEW i \in 1..Len(t), t[i] = s PROVE Owes(v, s)
  <2>1. i \in 1..Len(v) /\ v[i] = s
    BY <1>1, <1>2
  <2> QED
    BY <2>1 DEF Owes
<1>3. ASSUME NEW i \in 1..Len(u), u[i] = s PROVE Owes(v, s)
  <2>1. /\ i + Len(t) \in 1..Len(v) /\ ~(i + Len(t) <= Len(t))
        /\ (i + Len(t)) - Len(t) = i
    BY <1>1
  <2>2. v[i + Len(t)] = s
    BY <1>1, <1>3, <2>1
  <2> QED
    BY <2>1, <2>2 DEF Owes
<1>4. ASSUME NEW i \in 1..Len(v), v[i] = s PROVE Owes(t, s) \/ Owes(u, s)
  <2>1. CASE i <= Len(t)
    <3>1. i \in 1..Len(t) /\ t[i] = s
      BY <1>1, <1>4, <2>1
    <3> QED
      BY <3>1 DEF Owes
  <2>2. CASE ~(i <= Len(t))
    <3>1. i - Len(t) \in 1..Len(u) /\ u[i - Len(t)] = s
      BY <1>1, <1>4, <2>2
    <3> QED
      BY <3>1 DEF Owes
  <2> QED
    BY <2>1, <2>2
<1>5. Owes(v, s) <=> Owes(t, s) \/ Owes(u, s)
  BY <1>2, <1>3, <1>4 DEF Owes
<1> QED
  BY <1>5 DEF v

LEMMA WellOrderedJoin ==
    ASSUME NEW S, NEW t \in Seq(S), NEW u \in Seq(S), WellOrdered(t), WellOrdered(u),
           \A s : ~(Owes(t, s) /\ Owes(u, s))
    PROVE  WellOrdered(t \o u)
<1> DEFINE v == t \o u
<1>1. /\ Len(v) = Len(t) + Len(u) /\ Len(t) \in Nat /\ Len(u) \in Nat
      /\ \A i \in 1..(Len(t) + Len(u)) : v[i] = IF i <= Len(t) THEN t[i] ELSE u[i - Len(t)]
  BY ConcatProperties
<1> HIDE DEF v
<1>2. ASSUME NEW i \in 1..Len(v)
      PROVE  \/ i \in 1..Len(t) /\ v[i] = t[i]
             \/ i - Len(t) \in 1..Len(u) /\ v[i] = u[i - Len(t)] /\ i > Len(t)
  BY <1>1
<1>3. \A i \in 1..Len(t), j \in 1..Len(u) : t[i] # u[j]
  BY DEF Owes
<1>4. ASSUME NEW i \in 1..Len(v), NEW j \in 1..Len(v), i # j PROVE v[i] # v[j]
  <2>1. CASE i \in 1..Len(t) /\ v[i] = t[i] /\ j \in 1..Len(t) /\ v[j] = t[j]
    BY <1>4, <2>1 DEF WellOrdered
  <2>2. CASE /\ i - Len(t) \in 1..Len(u) /\ v[i] = u[i - Len(t)]
             /\ j - Len(t) \in 1..Len(u) /\ v[j] = u[j - Len(t)]
    <3>1. i - Len(t) # j - Len(t)
      BY <1>1, <1>4
    <3> QED
      BY <2>2, <3>1 DEF WellOrdered
  <2> QED
    BY <1>2, <1>3, <2>1, <2>2
<1>5. ASSUME NEW i \in 1..Len(v), v[i].do = "remember"
      PROVE  v[i].what \in Classes /\ i < Len(v) /\ v[i + 1] = Count(v[i].what)
  <2>1. CASE i \in 1..Len(t) /\ v[i] = t[i]
    <3>1. t[i].what \in Classes /\ i < Len(t) /\ t[i + 1] = Count(t[i].what)
      BY <1>5, <2>1 DEF WellOrdered
    <3>2. i + 1 \in 1..(Len(t) + Len(u)) /\ i + 1 <= Len(t) /\ i < Len(v)
      BY <1>1, <2>1, <3>1
    <3> QED
      BY <1>1, <2>1, <3>1, <3>2
  <2>2. CASE i - Len(t) \in 1..Len(u) /\ v[i] = u[i - Len(t)] /\ i > Len(t)
    <3>1. /\ u[i - Len(t)].what \in Classes /\ i - Len(t) < Len(u)
          /\ u[(i - Len(t)) + 1] = Count(u[i - Len(t)].what)
      BY <1>5, <2>2 DEF WellOrdered
    <3>2. /\ i + 1 \in 1..(Len(t) + Len(u)) /\ ~(i + 1 <= Len(t)) /\ i < Len(v)
          /\ (i + 1) - Len(t) = (i - Len(t)) + 1
      BY <1>1, <2>2, <3>1
    <3> QED
      BY <1>1, <2>2, <3>1, <3>2
  <2> QED
    BY <1>2, <2>1, <2>2
<1>6. WellOrdered(v)
  BY <1>4, <1>5 DEF WellOrdered
<1> QED
  BY <1>6 DEF v

LEMMA StepsDiffer ==
    ASSUME NEW n1, NEW n2, NEW c, NEW k, NEW m
    PROVE  /\ Count(n1) = Count(n2) <=> n1 = n2
           /\ Count(n1) # Remember(c) /\ Remember(c) # Count(n1)
           /\ Count(n1) # Emit(k, m, c) /\ Emit(k, m, c) # Count(n1)
           /\ Remember(n1) # Emit(k, m, c)
           /\ Count(n1).do # "remember" /\ Emit(k, m, c).do # "remember"
           /\ Remember(c).do = "remember" /\ Remember(c).what = c
           /\ Count(n1).do = "count" /\ Count(n1).what = n1
PROOF BY DEF Count, Remember, Emit

LEMMA OrderedPlain ==
    ASSUME NEW n, NEW k, NEW m, NEW c
    PROVE  /\ WellOrdered(<<>>)
           /\ WellOrdered(<<Count(n)>>)
           /\ WellOrdered(<<Emit(k, m, c)>>)
           /\ WellOrdered(<<Count(n), Emit(k, m, c)>>)
<1>1. WellOrdered(<<>>)
  BY DEF WellOrdered
<1>2. WellOrdered(<<Count(n)>>) /\ WellOrdered(<<Emit(k, m, c)>>)
  BY StepsDiffer DEF WellOrdered
<1>3. WellOrdered(<<Count(n), Emit(k, m, c)>>)
  <2> DEFINE t == <<Count(n), Emit(k, m, c)>>
  <2>1. Len(t) = 2 /\ t[1] = Count(n) /\ t[2] = Emit(k, m, c)
    OBVIOUS
  <2>2. 1..2 = {1, 2}
    OBVIOUS
  <2> HIDE DEF t
  <2>3. WellOrdered(t)
    BY <2>1, <2>2, StepsDiffer DEF WellOrdered
  <2> QED
    BY <2>3 DEF t
<1> QED
  BY <1>1, <1>2, <1>3

(* What a callback that records a failure consists of.                     *)
LEMMA FailureSteps ==
    ASSUME NEW c \in Classes
    PROVE  /\ RecordFailure(c) \in Seq(Step)
           /\ WellOrdered(RecordFailure(c))
           /\ \A s : Owes(RecordFailure(c), s)
                        <=> s \in {Count("failures"), Remember(c), Count(c)}
<1>1. c \in Counted /\ "failures" \in Counted /\ c # "failures" /\ c \in Classes \cup {"none"}
  BY CounterNames
<1>2. RecordFailure(c) \in Seq(Step)
  BY <1>1, StepTypes, ThreeSteps DEF RecordFailure
<1> DEFINE t == <<Count("failures"), Remember(c), Count(c)>>
<1>3. /\ Len(t) = 3 /\ t[1] = Count("failures") /\ t[2] = Remember(c) /\ t[3] = Count(c)
  OBVIOUS
<1>4. 1..3 = {1, 2, 3}
  OBVIOUS
<1> HIDE DEF t
<1>5. \A i, j \in 1..Len(t) : i # j => t[i] # t[j]
  BY <1>1, <1>3, <1>4, StepsDiffer
<1>6. \A i \in 1..Len(t) : t[i].do = "remember" => i = 2
  BY <1>3, <1>4, StepsDiffer
<1>7. WellOrdered(t)
  BY <1>3, <1>5, <1>6, StepsDiffer DEF WellOrdered
<1>8. \A s : Owes(t, s) <=> s \in {Count("failures"), Remember(c), Count(c)}
  BY <1>3, <1>4 DEF Owes
<1> QED
  BY <1>2, <1>7, <1>8 DEF RecordFailure, t

LEMMA CallbackSteps ==
    ASSUME NEW m \in Managers, NEW e, e # {}
    PROVE  LET c == ClassifyError(e)
               failed == {Count("failures"), Remember(c), Count(c), Emit("failed", m, c)}
           IN  /\ c \in Classes
               /\ WellOrdered(ObserveFailed(m, e))
               /\ \A s : Owes(ObserveFailed(m, e), s) <=> s \in failed
               /\ WellOrdered(<<Count("refreshFailed")>> \o ObserveFailed(m, e))
               /\ \A s : Owes(<<Count("refreshFailed")>> \o ObserveFailed(m, e), s)
                             <=> s \in failed \cup {Count("refreshFailed")}
               /\ WellOrdered(ObserveClosed(m, e))
               /\ \A s : Owes(ObserveClosed(m, e), s)
                             <=> s \in {Count("closes"), Count("failures"), Remember(c), Count(c),
                                        Emit("close_failed", m, c)}
<1> DEFINE c == ClassifyError(e)
<1>1. c \in Classes /\ c \notin {"closes", "refreshFailed", "failures"}
  BY ErrorHasClass, CounterNames
<1>2. /\ {"closes", "refreshFailed", "failures"} \subseteq Counted
      /\ {"failed", "close_failed"} \subseteq Kinds /\ c \in Classes \cup {"none"}
  BY <1>1, CounterNames DEF Kinds
<1> HIDE DEF c
<1> DEFINE r == RecordFailure(c)
           one(s) == <<s>>
<1>3. /\ r \in Seq(Step) /\ WellOrdered(r)
      /\ \A s : Owes(r, s) <=> s \in {Count("failures"), Remember(c), Count(c)}
  BY <1>1, FailureSteps
<1> HIDE DEF r
<1>4. \A s \in Step : one(s) \in Seq(Step) /\ \A x : Owes(one(s), x) <=> x = s
  BY OneStep, OwesConcrete
<1>5. /\ \A n \in {"closes", "refreshFailed"} : Count(n) \in Step /\ WellOrdered(one(Count(n)))
      /\ \A k \in {"failed", "close_failed"} :
            Emit(k, m, c) \in Step /\ WellOrdered(one(Emit(k, m, c)))
  BY <1>2, StepTypes, OrderedPlain
<1> HIDE DEF one
<1>6. ASSUME NEW k \in {"failed", "close_failed"}
      PROVE  /\ r \o one(Emit(k, m, c)) \in Seq(Step)
             /\ WellOrdered(r \o one(Emit(k, m, c)))
             /\ \A s : Owes(r \o one(Emit(k, m, c)), s)
                    <=> s \in {Count("failures"), Remember(c), Count(c), Emit(k, m, c)}
  <2> DEFINE u == one(Emit(k, m, c))
  <2>1. u \in Seq(Step) /\ WellOrdered(u) /\ \A s : Owes(u, s) <=> s = Emit(k, m, c)
    BY <1>4, <1>5
  <2> HIDE DEF u
  <2>2. \A s : Owes(r \o u, s) <=> Owes(r, s) \/ Owes(u, s)
    BY <1>3, <2>1, OwesJoin
  <2>3. \A s : ~(Owes(r, s) /\ Owes(u, s))
    BY <1>3, <2>1, StepsDiffer
  <2>4. r \o u \in Seq(Step) /\ WellOrdered(r \o u)
    BY <1>3, <2>1, <2>3, WellOrderedJoin, Joined
  <2> QED
    BY <1>3, <2>1, <2>2, <2>4 DEF u
<1>7. ASSUME NEW n \in {"closes", "refreshFailed"}, NEW t \in Seq(Step), WellOrdered(t),
             \A s : Owes(t, s) => s # Count(n)
      PROVE  /\ one(Count(n)) \o t \in Seq(Step)
             /\ WellOrdered(one(Count(n)) \o t)
             /\ \A s : Owes(one(Count(n)) \o t, s) <=> Owes(t, s) \/ s = Count(n)
  <2>1. \A s : ~(Owes(one(Count(n)), s) /\ Owes(t, s))
    BY <1>4, <1>5, <1>7
  <2> QED
    BY <1>4, <1>5, <1>7, <2>1, WellOrderedJoin, OwesJoin, Joined
<1>8. \A n \in {"closes", "refreshFailed"} :
         Count(n) \notin {Count("failures"), Remember(c), Count(c)}
  BY <1>1, StepsDiffer
<1>9. \A n \in {"closes", "refreshFailed"}, k \in {"failed", "close_failed"} :
         Count(n) # Emit(k, m, c)
  BY StepsDiffer
<1>10. ObserveFailed(m, e) = r \o one(Emit("failed", m, c))
  BY DEF ObserveFailed, r, one, c
<1>11. ObserveClosed(m, e) = (one(Count("closes")) \o r) \o one(Emit("close_failed", m, c))
  BY DEF ObserveClosed, r, one, c
<1>12. <<Count("refreshFailed")>> = one(Count("refreshFailed"))
  BY DEF one
<1>13. /\ WellOrdered(ObserveFailed(m, e))
       /\ \A s : Owes(ObserveFailed(m, e), s)
             <=> s \in {Count("failures"), Remember(c), Count(c), Emit("failed", m, c)}
  BY <1>6, <1>10
<1>14. /\ WellOrdered(<<Count("refreshFailed")>> \o ObserveFailed(m, e))
       /\ \A s : Owes(<<Count("refreshFailed")>> \o ObserveFailed(m, e), s)
             <=> s \in {Count("failures"), Remember(c), Count(c), Emit("failed", m, c)}
                          \cup {Count("refreshFailed")}
  <2>1. ObserveFailed(m, e) \in Seq(Step)
    BY <1>6, <1>10
  <2>2. \A s : Owes(ObserveFailed(m, e), s) => s # Count("refreshFailed")
    BY <1>8, <1>9, <1>13
  <2> QED
    BY <1>7, <1>12, <1>13, <2>1, <2>2
<1>15. /\ WellOrdered(ObserveClosed(m, e))
       /\ \A s : Owes(ObserveClosed(m, e), s)
             <=> s \in {Count("closes"), Count("failures"), Remember(c), Count(c),
                        Emit("close_failed", m, c)}
  <2> DEFINE t == one(Count("closes")) \o r
  <2>1. \A s : Owes(r, s) => s # Count("closes")
    BY <1>3, <1>8
  <2>2. /\ t \in Seq(Step) /\ WellOrdered(t)
        /\ \A s : Owes(t, s) <=> s \in {Count("closes"), Count("failures"), Remember(c), Count(c)}
    BY <1>3, <1>7, <2>1
  <2> HIDE DEF t
  <2>3. /\ one(Emit("close_failed", m, c)) \in Seq(Step)
        /\ WellOrdered(one(Emit("close_failed", m, c)))
        /\ \A s : Owes(one(Emit("close_failed", m, c)), s) <=> s = Emit("close_failed", m, c)
    BY <1>4, <1>5
  <2>4. \A s : ~(Owes(t, s) /\ Owes(one(Emit("close_failed", m, c)), s))
    BY <2>2, <2>3, StepsDiffer
  <2>5. ObserveClosed(m, e) = t \o one(Emit("close_failed", m, c))
    BY <1>11 DEF t
  <2> QED
    BY <2>2, <2>3, <2>4, <2>5, WellOrderedJoin, OwesJoin
<1> QED
  BY <1>1, <1>13, <1>14, <1>15 DEF c

(* The sum of the classes moves with one of them.                          *)
LEMMA SumMoves ==
    ASSUME NEW f, NEW g, NEW c \in Classes, \A n \in Classes : f[n] \in Nat,
           \A n \in Classes : g[n] = IF n = c THEN f[n] + 1 ELSE f[n]
    PROVE  SumOfClasses(g) = SumOfClasses(f) + 1
<1>1. c \in {"canceled", "clock_rollback", "clock_skew", "fence_ahead", "lease_busy",
             "lease_lost", "closed", "store_failure", "unknown"}
  BY CounterNames
<1>2. \A n \in {"canceled", "clock_rollback", "clock_skew", "fence_ahead", "lease_busy",
                "lease_lost", "closed", "store_failure", "unknown"} :
         f[n] \in Nat /\ g[n] = IF n = c THEN f[n] + 1 ELSE f[n]
  BY CounterNames
<1> QED
  BY <1>1, <1>2 DEF SumOfClasses

LEMMA SumStays ==
    ASSUME NEW f, NEW g, \A n \in Classes : g[n] = f[n]
    PROVE  SumOfClasses(g) = SumOfClasses(f)
PROOF BY CounterNames DEF SumOfClasses
-----------------------------------------------------------------------------
(* The counters a callback increments.                                     *)
LEMMA PlainCounts ==
    ASSUME NEW name, NEW k, NEW m, NEW c
    PROVE  /\ \A n : Owes(<<Count(name)>>, Count(n)) <=> n = name
           /\ \A n : Owes(<<Count(name), Emit(k, m, c)>>, Count(n)) <=> n = name
<1>1. ASSUME NEW n PROVE Owes(<<Count(name)>>, Count(n)) <=> n = name
  <2>1. Owes(<<Count(name)>>, Count(n)) <=> Count(n) = Count(name)
    BY DEF Owes
  <2> QED
    BY <2>1, StepsDiffer
<1>2. ASSUME NEW n PROVE Owes(<<Count(name), Emit(k, m, c)>>, Count(n)) <=> n = name
  <2>1. Owes(<<Count(name), Emit(k, m, c)>>, Count(n))
           <=> Count(n) \in {Count(name), Emit(k, m, c)}
    BY OwesConcrete
  <2> QED
    BY <2>1, StepsDiffer
<1> QED
  BY <1>1, <1>2

LEMMA FailureCounts ==
    ASSUME NEW steps, NEW c, NEW more, NEW k, NEW m,
           \/ \A s : Owes(steps, s) <=>
                 s \in {Count(more), Count("failures"), Remember(c), Count(c), Emit(k, m, c)}
           \/ \A s : Owes(steps, s) <=>
                 s \in {Count("failures"), Remember(c), Count(c), Emit(k, m, c)}
                          \cup {Count(more)}
    PROVE  /\ Owes(steps, Remember(c))
           /\ \A n : Owes(steps, Count(n)) <=> n \in {more} \cup {"failures", c}
<1>1. \A s : Owes(steps, s) <=>
         s \in {Count(more), Count("failures"), Remember(c), Count(c), Emit(k, m, c)}
  OBVIOUS
<1>2. Owes(steps, Remember(c))
  BY <1>1
<1>3. ASSUME NEW n PROVE Owes(steps, Count(n)) <=> n \in {more} \cup {"failures", c}
  BY <1>1, StepsDiffer
<1> QED
  BY <1>2, <1>3

LEMMA DueTypes ==
    ASSUME TypeOK
    PROVE  /\ \A n \in Counted : count[n] \in Nat /\ Due[n] \in Nat
           /\ \A n \in Classes : Due[n] \in Nat
           /\ todo[Source] = <<>> => \A n \in Counted : Due[n] = count[n]
<1>1. \A n \in Counted : count[n] \in Nat
  BY CounterNames DEF TypeOK, Counters
<1>2. todo[Source] = <<>> => \A n \in Counted : ~Owes(todo[Source], Count(n))
  BY DEF Owes
<1>3. \A n \in Counted : Due[n] \in Nat
  BY <1>1 DEF Due
<1>4. todo[Source] = <<>> => \A n \in Counted : Due[n] = count[n]
  BY <1>2 DEF Due
<1> QED
  BY <1>1, <1>3, <1>4, CounterNames

(* A callback that begins owes exactly what it consists of.                *)
LEMMA DueBegins ==
    ASSUME TypeOK, TodoOK, todo[Source] = <<>>, NEW steps, Callback(Source, steps),
           UNCHANGED count
    PROVE  /\ todo'[Source] = steps
           /\ \A n \in Counted :
                 Due'[n] = IF Owes(steps, Count(n)) THEN Due[n] + 1 ELSE Due[n]
<1>1. todo'[Source] = steps
  BY TelemetryAssumption DEF Callback, TodoOK, TelemetryAssumption
<1>2. \A n \in Counted : Due[n] = count[n]
  BY DueTypes
<1> QED
  BY <1>1, <1>2 DEF Due

LEMMA FailureBegins ==
    ASSUME TypeOK, TodoOK, todo[Source] = <<>>, NEW steps, Callback(Source, steps),
           UNCHANGED count, NEW c \in Classes, NEW more \in SUBSET {"refreshFailed", "closes"},
           Owes(steps, Remember(c)),
           \A n \in Counted : Owes(steps, Count(n)) <=> n \in more \cup {"failures", c}
    PROVE  /\ Due'["failures"] = Due["failures"] + 1
           /\ SumOfClasses(Due') = SumOfClasses(Due) + 1
           /\ "closes" \notin more => Due'["closes"] = Due["closes"]
           /\ Due'["acquired"] = Due["acquired"]
           /\ \E i \in 1..Len(todo'[Source]) : todo'[Source][i].do = "remember"
<1>1. /\ todo'[Source] = steps
      /\ \A n \in Counted :
            Due'[n] = IF n \in more \cup {"failures", c} THEN Due[n] + 1 ELSE Due[n]
  BY DueBegins
<1>2. /\ Due'["failures"] = Due["failures"] + 1
      /\ "closes" \notin more => Due'["closes"] = Due["closes"]
      /\ Due'["acquired"] = Due["acquired"]
  BY <1>1, CounterNames
<1>3. \A n \in Classes : Due'[n] = IF n = c THEN Due[n] + 1 ELSE Due[n]
  BY <1>1, CounterNames
<1>4. SumOfClasses(Due') = SumOfClasses(Due) + 1
  BY <1>3, DueTypes, SumMoves
<1>5. \E i \in 1..Len(todo'[Source]) : todo'[Source][i].do = "remember"
  <2>1. PICK i \in 1..Len(steps) : steps[i] = Remember(c)
    BY DEF Owes
  <2>2. steps[i].do = "remember"
    BY <2>1 DEF Remember
  <2> QED
    BY <1>1, <2>2
<1> QED
  BY <1>2, <1>4, <1>5

(* Any other callback of the source counts no failure.                     *)
LEMMA OtherBegins ==
    ASSUME TypeOK, TodoOK, Tally, todo[Source] = <<>>, NEW steps, Callback(Source, steps),
           UNCHANGED <<count, lastErrorClass>>,
           NEW name \in {"acquired", "generated", "refreshed", "closes"},
           \A n \in Counted : Owes(steps, Count(n)) <=> n = name
    PROVE  /\ Due'[name] = Due[name] + 1
           /\ \A n \in {"acquired", "closes", "failures"} : n # name => Due'[n] = Due[n]
           /\ Due'["failures"] = SumOfClasses(Due')
           /\ Due'["failures"] > 0 => lastErrorClass' \in Classes /\ Due'[lastErrorClass'] > 0
<1>1. \A n \in Counted : Due'[n] = IF n = name THEN Due[n] + 1 ELSE Due[n]
  BY DueBegins
<1>2. /\ name \in Counted /\ name \notin Classes
      /\ {"acquired", "closes", "failures"} \subseteq Counted /\ name # "failures"
      /\ "failures" \notin Classes
  BY CounterNames
<1>3. /\ Due'[name] = Due[name] + 1
      /\ \A n \in {"acquired", "closes", "failures"} : n # name => Due'[n] = Due[n]
      /\ \A n \in Classes : Due'[n] = Due[n]
  BY <1>1, <1>2, CounterNames
<1>4. SumOfClasses(Due') = SumOfClasses(Due)
  BY <1>3, SumStays
<1>5. ~\E i \in 1..Len(todo[Source]) : todo[Source][i].do = "remember"
  OBVIOUS
<1> QED
  BY <1>2, <1>3, <1>4, <1>5 DEF Tally

-----------------------------------------------------------------------------
(* A step of another generator ends the quiet.                             *)
LEMMA OthersAreLoud ==
    ASSUME IndInv, Idle, NEW m \in Others, ManagerSteps(m) \/ Observe(m)
    PROVE  ~Quiet'
<1>1. /\ m \in Managers /\ lifecycle \in [Managers -> {"new", "active", "failed", "closed"}]
  BY DEF Others, IndInv, TypeOK
<1>2. lifecycle'[m] # "new"
  <2>1. CASE Acquired(m) \/ BeginClose(m)
    BY <1>1, <2>1 DEF Acquired, BeginClose
  <2>2. CASE Generated(m) \/ Refreshed(m)
    BY <1>1, <2>2 DEF Generated, Refreshed, managerVars
  <2>3. CASE RefreshFailed(m) \/ Failed(m)
    BY <1>1, <2>3 DEF RefreshFailed, Failed, BecomeFailed
  <2>4. CASE FinishClose(m)
    BY <1>1, <2>4 DEF FinishClose, Idle
  <2>5. CASE Observe(m)
    BY <1>1, <2>5 DEF Observe, managerVars, Idle
  <2> QED
    BY <2>1, <2>2, <2>3, <2>4, <2>5 DEF ManagerSteps
<1> QED
  BY <1>2 DEF Quiet

(* Who is new has called nothing, and who closes is closed.                *)
LEMMA IdleKept ==
    ASSUME IndInv, Idle, NEW m \in Managers, ManagerSteps(m) \/ Observe(m)
    PROVE  Idle'
<1>1. /\ lifecycle \in [Managers -> {"new", "active", "failed", "closed"}]
      /\ closing \in [Managers -> {"no", "releasing", "told"}]
      /\ todo \in [Managers -> Seq(Step)]
  BY DEF IndInv, TypeOK, TodoOK
<1>2. UNCHANGED reporter
  BY DEF ManagerSteps, Acquired, Generated, Refreshed, RefreshFailed, Failed, BeginClose,
         FinishClose, Observe, reporterVars
<1>3. ASSUME reporter = "classes" PROVE todo'[Source] = <<>>
  <2>1. todo[Source] = <<>>
    BY <1>3 DEF Idle
  <2>2. CASE m = Source
    <3>1. ~Free(m) /\ ~Observe(m)
      BY <1>3, <2>1, <2>2 DEF Free, Observe, Sampling
    <3> QED
      BY <3>1 DEF ManagerSteps, Acquired, Generated, Refreshed, RefreshFailed, Failed, BeginClose,
                  FinishClose
  <2>3. CASE m # Source
    <3>1. Source \in Managers
      BY TelemetryAssumption DEF TelemetryAssumption
    <3>2. UNCHANGED todo \/ \E s : Callback(m, s)
      BY DEF ManagerSteps, Acquired, Generated, Refreshed, RefreshFailed, Failed, BeginClose,
             FinishClose, Observe
    <3> QED
      BY <1>1, <2>1, <2>3, <3>1, <3>2 DEF Callback
  <2> QED
    BY <2>2, <2>3
<1>4. \A n \in Managers : lifecycle'[n] = "new" => todo'[n] = <<>>
  <2>1. CASE Acquired(m)
    BY <1>1, <2>1 DEF Acquired, Callback, Idle
  <2>2. CASE Generated(m) \/ Refreshed(m)
    BY <1>1, <2>2 DEF Generated, Refreshed, Callback, managerVars, Idle
  <2>3. CASE RefreshFailed(m) \/ Failed(m)
    <3>1. \E s : Callback(m, s)
      BY <2>3 DEF RefreshFailed, Failed
    <3>2. lifecycle' = [lifecycle EXCEPT ![m] = "failed"]
      BY <2>3 DEF RefreshFailed, Failed, BecomeFailed
    <3> QED
      BY <1>1, <3>1, <3>2 DEF Callback, Idle
  <2>4. CASE BeginClose(m)
    BY <1>1, <2>4 DEF BeginClose, Idle
  <2>5. CASE FinishClose(m)
    <3>1. \E s : Callback(m, s)
      BY <2>5 DEF FinishClose
    <3>2. lifecycle[m] # "new" /\ lifecycle' = lifecycle
      BY <2>5 DEF FinishClose, Idle
    <3> QED
      BY <1>1, <3>1, <3>2 DEF Callback, Idle
  <2>6. CASE Observe(m)
    BY <1>1, <2>6 DEF Observe, Callback, managerVars, Idle
  <2> QED
    BY <2>1, <2>2, <2>3, <2>4, <2>5, <2>6 DEF ManagerSteps
<1>5. \A n \in Managers : closing'[n] # "no" => lifecycle'[n] = "closed"
  <2>1. CASE Acquired(m) \/ RefreshFailed(m) \/ Failed(m)
    BY <1>1, <2>1 DEF Acquired, RefreshFailed, Failed, BecomeFailed, Idle
  <2>2. CASE Generated(m) \/ Refreshed(m) \/ Observe(m)
    BY <2>2 DEF Generated, Refreshed, Observe, managerVars, Idle
  <2>3. CASE BeginClose(m)
    BY <1>1, <2>3 DEF BeginClose, Idle
  <2>4. CASE FinishClose(m)
    BY <1>1, <2>4 DEF FinishClose, Idle
  <2> QED
    BY <2>1, <2>2, <2>3, <2>4 DEF ManagerSteps
<1> QED
  BY <1>2, <1>3, <1>4, <1>5 DEF Idle
-----------------------------------------------------------------------------
(* The steps of the source that begin a callback.                          *)
LEMMA FailureKeepsTally ==
    ASSUME TypeOK, TodoOK, Tally, todo[Source] = <<>>, UNCHANGED <<count, lastErrorClass>>,
           NEW e, e # {}, BecomeFailed(Source, e), Callback(Source, ObserveFailed(Source, e)),
           lifecycle[Source] \in {"new", "active"}
    PROVE  Tally' /\ WellOrdered(todo[Source])'
<1> DEFINE steps == ObserveFailed(Source, e)
           c == ClassifyError(e)
<1>1. Source \in Managers /\ lifecycle'[Source] = "failed"
  BY TelemetryAssumption DEF TelemetryAssumption, BecomeFailed, TypeOK
<1>2. /\ c \in Classes /\ WellOrdered(steps) /\ Owes(steps, Remember(c))
      /\ \A n \in Counted : Owes(steps, Count(n)) <=> n \in {} \cup {"failures", c}
  BY <1>1, CallbackSteps, StepsDiffer
<1>3. Callback(Source, steps)
  OBVIOUS
<1> HIDE DEF steps, c
<1>4. /\ todo'[Source] = steps
      /\ Due'["failures"] = Due["failures"] + 1
      /\ SumOfClasses(Due') = SumOfClasses(Due) + 1
      /\ Due'["closes"] = Due["closes"]
      /\ \E i \in 1..Len(todo'[Source]) : todo'[Source][i].do = "remember"
  BY <1>2, <1>3, DueBegins, FailureBegins
<1> QED
  BY <1>1, <1>2, <1>4 DEF Tally

LEMMA SourceKeepsTally ==
    ASSUME IndInv, Idle, Tally, ManagerSteps(Source)
    PROVE  Tally' /\ WellOrdered(todo[Source])'
<1>1. /\ lifecycle \in [Managers -> {"new", "active", "failed", "closed"}] /\ Source \in Managers
      /\ todo \in [Managers -> Seq(Step)] /\ TypeOK /\ TodoOK
  BY TelemetryAssumption DEF IndInv, TypeOK, TodoOK, TelemetryAssumption
<1>2. todo[Source] = <<>> /\ UNCHANGED <<count, lastErrorClass>>
  BY DEF ManagerSteps, Acquired, Generated, Refreshed, RefreshFailed, Failed, BeginClose,
         FinishClose, Free, telemetryVars
<1>3. {} \notin FailErrors
  BY TelemetryAssumption DEF TelemetryAssumption
<1>4. CASE Acquired(Source)
  <2> DEFINE steps == ObserveAcquired(Source)
  <2>1. /\ Callback(Source, steps) /\ lifecycle[Source] = "new" /\ lifecycle'[Source] = "active"
    BY <1>1, <1>4 DEF Acquired
  <2>2. WellOrdered(steps) /\ \A n \in Counted : Owes(steps, Count(n)) <=> n = "acquired"
    BY OrderedPlain, PlainCounts DEF ObserveAcquired
  <2> HIDE DEF steps
  <2>3. /\ todo'[Source] = steps
        /\ Due'["acquired"] = Due["acquired"] + 1
        /\ \A n \in {"closes", "failures"} : Due'[n] = Due[n]
        /\ Due'["failures"] = SumOfClasses(Due')
        /\ Due'["failures"] > 0 => lastErrorClass' \in Classes /\ Due'[lastErrorClass'] > 0
    BY <1>1, <1>2, <2>1, <2>2, DueBegins, OtherBegins
  <2> QED
    BY <2>1, <2>2, <2>3 DEF Tally
<1>5. CASE Generated(Source) \/ Refreshed(Source)
  <2>1. PICK name \in {"generated", "refreshed"} : Callback(Source, <<Count(name)>>)
    BY <1>5 DEF Generated, Refreshed
  <2>2. lifecycle' = lifecycle /\ lifecycle[Source] = "active"
    BY <1>5 DEF Generated, Refreshed, managerVars
  <2> DEFINE steps == <<Count(name)>>
  <2>3. WellOrdered(steps) /\ \A n \in Counted : Owes(steps, Count(n)) <=> n = name
    BY OrderedPlain, PlainCounts
  <2>4. Callback(Source, steps)
    BY <2>1
  <2> HIDE DEF steps
  <2>5. /\ todo'[Source] = steps
        /\ \A n \in {"acquired", "closes", "failures"} : Due'[n] = Due[n]
        /\ Due'["failures"] = SumOfClasses(Due')
        /\ Due'["failures"] > 0 => lastErrorClass' \in Classes /\ Due'[lastErrorClass'] > 0
    BY <1>1, <1>2, <2>3, <2>4, DueBegins, OtherBegins
  <2> QED
    BY <2>2, <2>3, <2>5 DEF Tally
<1>6. CASE RefreshFailed(Source)
  <2>1. PICK e \in FailErrors :
           /\ BecomeFailed(Source, e)
           /\ Callback(Source, <<Count("refreshFailed")>> \o ObserveFailed(Source, e))
    BY <1>6 DEF RefreshFailed
  <2>2. lifecycle'[Source] = "failed" /\ lifecycle[Source] = "active"
    BY <1>1, <1>6, <2>1 DEF RefreshFailed, BecomeFailed
  <2> DEFINE steps == <<Count("refreshFailed")>> \o ObserveFailed(Source, e)
             c == ClassifyError(e)
  <2>3. /\ c \in Classes /\ WellOrdered(steps)
        /\ \A s : Owes(steps, s) <=>
              s \in {Count("failures"), Remember(c), Count(c), Emit("failed", Source, c)}
                       \cup {Count("refreshFailed")}
    BY <1>1, <1>3, CallbackSteps
  <2>4. Callback(Source, steps)
    BY <2>1
  <2> HIDE DEF steps, c
  <2>5. /\ Owes(steps, Remember(c))
        /\ \A n \in Counted : Owes(steps, Count(n)) <=> n \in {"refreshFailed"} \cup {"failures", c}
        /\ {"refreshFailed"} \in SUBSET {"refreshFailed", "closes"}
        /\ "closes" \notin {"refreshFailed"}
    BY <2>3, FailureCounts
  <2>6. todo'[Source] = steps
    BY <1>1, <1>2, <2>4, DueBegins
  <2>7. /\ Due'["failures"] = Due["failures"] + 1
        /\ SumOfClasses(Due') = SumOfClasses(Due) + 1
        /\ Due'["closes"] = Due["closes"]
        /\ \E i \in 1..Len(todo'[Source]) : todo'[Source][i].do = "remember"
    <3> DEFINE more == {"refreshFailed"}
    <3>1. /\ more \in SUBSET {"refreshFailed", "closes"} /\ "closes" \notin more
          /\ \A n \in Counted : Owes(steps, Count(n)) <=> n \in more \cup {"failures", c}
      BY <2>5
    <3> HIDE DEF more
    <3>2. /\ TypeOK /\ TodoOK /\ todo[Source] = <<>> /\ UNCHANGED count
          /\ Callback(Source, steps) /\ c \in Classes /\ Owes(steps, Remember(c))
      BY <1>1, <1>2, <2>3, <2>4, <2>5
    <3>3. /\ Due'["failures"] = Due["failures"] + 1
          /\ SumOfClasses(Due') = SumOfClasses(Due) + 1
          /\ "closes" \notin more => Due'["closes"] = Due["closes"]
          /\ \E i \in 1..Len(todo'[Source]) : todo'[Source][i].do = "remember"
      BY <3>1, <3>2, FailureBegins
    <3> QED
      BY <3>1, <3>3
  <2> QED
    BY <2>2, <2>3, <2>6, <2>7 DEF Tally
<1>7. CASE Failed(Source)
  <2>1. PICK e \in FailErrors :
           BecomeFailed(Source, e) /\ Callback(Source, ObserveFailed(Source, e))
    BY <1>7 DEF Failed
  <2> QED
    BY <1>1, <1>2, <1>3, <1>7, <2>1, FailureKeepsTally DEF Failed
<1>8. CASE BeginClose(Source)
  <2>1. lifecycle'[Source] = "closed" /\ UNCHANGED todo
    BY <1>1, <1>8 DEF BeginClose
  <2>2. Due' = Due
    BY <1>2, <2>1 DEF Due
  <2>3. WellOrdered(todo[Source])'
    BY <1>2, <2>1, OrderedPlain
  <2> QED
    BY <1>2, <2>1, <2>2, <2>3 DEF Tally
<1>9. CASE FinishClose(Source)
  <2>1. PICK e \in CloseErrors \cup {{}} : Callback(Source, ObserveClosed(Source, e))
    BY <1>9 DEF FinishClose
  <2>2. lifecycle' = lifecycle /\ lifecycle[Source] = "closed"
    BY <1>1, <1>9 DEF FinishClose, Idle
  <2> DEFINE steps == ObserveClosed(Source, e)
             c == ClassifyError(e)
  <2>3. CASE e = {}
    <3>1. WellOrdered(steps) /\ \A n \in Counted : Owes(steps, Count(n)) <=> n = "closes"
      BY <2>3, OrderedPlain, PlainCounts DEF ObserveClosed
    <3> HIDE DEF steps
    <3>2. /\ todo'[Source] = steps
          /\ Due'["failures"] = SumOfClasses(Due')
          /\ Due'["failures"] > 0 => lastErrorClass' \in Classes /\ Due'[lastErrorClass'] > 0
      BY <1>1, <1>2, <2>1, <3>1, DueBegins, OtherBegins DEF steps
    <3> QED
      BY <2>2, <3>1, <3>2 DEF Tally
  <2>4. CASE e # {}
    <3>1. /\ c \in Classes /\ WellOrdered(steps)
          /\ \A s : Owes(steps, s) <=>
                s \in {Count("closes"), Count("failures"), Remember(c), Count(c),
                       Emit("close_failed", Source, c)}
      BY <1>1, <2>4, CallbackSteps
    <3>2. Callback(Source, steps)
      BY <2>1
    <3> HIDE DEF steps, c
    <3>3. /\ Owes(steps, Remember(c))
          /\ \A n : Owes(steps, Count(n)) <=> n \in {"closes"} \cup {"failures", c}
      BY <3>1, FailureCounts
    <3>4. todo'[Source] = steps
      BY <1>1, <1>2, <3>2, DueBegins
    <3>5. /\ Due'["failures"] = Due["failures"] + 1
          /\ SumOfClasses(Due') = SumOfClasses(Due) + 1
          /\ \E i \in 1..Len(todo'[Source]) : todo'[Source][i].do = "remember"
      BY <1>1, <1>2, <3>1, <3>2, <3>3, FailureBegins
    <3> QED
      BY <2>2, <3>1, <3>4, <3>5 DEF Tally
  <2> QED
    BY <2>3, <2>4
<1> QED
  BY <1>4, <1>5, <1>6, <1>7, <1>8, <1>9 DEF ManagerSteps
-----------------------------------------------------------------------------
(* An operation of the callback pays what was owed.                        *)
LEMMA ObservePays ==
    ASSUME IndInv, WellOrdered(todo[Source]), Observe(Source)
    PROVE  /\ \A n \in Counted : Due'[n] = Due[n]
           /\ WellOrdered(todo[Source])'
<1> DEFINE step == Head(todo[Source])
<1>1. /\ todo \in [Managers -> Seq(Step)] /\ Source \in Managers /\ TypeOK
      /\ todo[Source] \in Seq(Step) /\ todo[Source] # <<>>
  BY TelemetryAssumption DEF IndInv, TodoOK, TelemetryAssumption, Observe
<1>2. /\ step \in Step /\ todo'[Source] = Tail(todo[Source]) /\ Perform(step)
  BY <1>1 DEF Observe, Callback
<1>3. WellOrdered(todo[Source])'
  BY <1>1, <1>2, WellOrderedTail
<1>4. \A n : Owes(todo'[Source], Count(n))
               <=> Owes(todo[Source], Count(n)) /\ Count(n) # step
  BY <1>1, <1>2, OwesTail
<1>5. Owes(todo[Source], step)
  BY <1>1, TailFacts DEF Owes
<1> HIDE DEF step
<1>6. ASSUME NEW n \in Counted PROVE Due'[n] = Due[n]
  <2>1. /\ count \in Counters /\ n \in Totals \cup Classes /\ n # "dropped" /\ count[n] \in Nat
    BY <1>1, CounterNames, DroppedIsNotCounted DEF TypeOK, Counters
  <2>2. CASE step.do = "count" /\ count' = Plus(step.what)
    <3>1. step.do = "count" /\ step = Count(step.what) /\ step.what \in Totals \cup Classes
      BY <1>2, <2>2, CounterNames DEF Step, CountStep, RememberStep, EmitStep, Count
    <3>2. CASE n = step.what
      <4>1. count'[n] = count[n] + 1
        BY <2>1, <2>2, <3>2 DEF Plus, Counters
      <4>2. Owes(todo[Source], Count(n)) /\ ~Owes(todo'[Source], Count(n))
        BY <1>4, <1>5, <3>1, <3>2
      <4> QED
        BY <4>1, <4>2 DEF Due
    <3>3. CASE n # step.what
      <4>1. count'[n] = count[n]
        BY <2>1, <2>2, <3>3 DEF Plus, Counters
      <4>2. Owes(todo[Source], Count(n)) <=> Owes(todo'[Source], Count(n))
        BY <1>4, <3>1, <3>3, StepsDiffer
      <4> QED
        BY <4>1, <4>2 DEF Due
    <3> QED
      BY <3>2, <3>3
  <2>3. CASE step.do # "count" /\ count'[n] = count[n]
    <3>1. Count(n) # step
      BY <2>3 DEF Count
    <3> QED
      BY <1>4, <2>3, <3>1 DEF Due
  <2>4. step.do # "count" => count'[n] = count[n]
    BY <1>2, <2>1 DEF Perform, PutOrDrop, Plus, Counters
  <2>5. step.do = "count" => count' = Plus(step.what)
    BY <1>2 DEF Perform
  <2> QED
    BY <2>2, <2>3, <2>4, <2>5
<1> QED
  BY <1>3, <1>6

LEMMA ObserveKeepsTally ==
    ASSUME IndInv, WellOrdered(todo[Source]), Tally, Observe(Source)
    PROVE  Tally'
<1> DEFINE step == Head(todo[Source])
<1>1. /\ todo \in [Managers -> Seq(Step)] /\ Source \in Managers /\ TypeOK
      /\ todo[Source] \in Seq(Step) /\ todo[Source] # <<>>
  BY TelemetryAssumption DEF IndInv, TodoOK, TelemetryAssumption, Observe
<1>2. /\ todo'[Source] = Tail(todo[Source]) /\ Perform(step) /\ lifecycle' = lifecycle
  BY <1>1 DEF Observe, Callback, managerVars
<1>3. \A n \in Counted : Due'[n] = Due[n]
  BY ObservePays
<1>4. SumOfClasses(Due') = SumOfClasses(Due)
  BY <1>3, CounterNames, SumStays
<1>5. /\ Due'["failures"] = Due["failures"] /\ Due'["acquired"] = Due["acquired"]
      /\ Due'["closes"] = Due["closes"]
  BY <1>3, CounterNames
<1>6. /\ Len(Tail(todo[Source])) = Len(todo[Source]) - 1 /\ Len(todo[Source]) \in Nat
      /\ step = todo[Source][1] /\ 1 \in 1..Len(todo[Source])
      /\ \A i \in 1..Len(Tail(todo[Source])) : Tail(todo[Source])[i] = todo[Source][i + 1]
  BY <1>1, TailFacts
<1> HIDE DEF step
<1>7. ASSUME Due["failures"] > 0
      PROVE  \/ \E i \in 1..Len(todo'[Source]) : todo'[Source][i].do = "remember"
             \/ lastErrorClass' \in Classes /\ Due'[lastErrorClass'] > 0
  <2>1. CASE step.do = "remember"
    <3>1. /\ step.what \in Classes /\ 1 < Len(todo[Source])
          /\ todo[Source][1 + 1] = Count(step.what)
      BY <1>6, <2>1 DEF WellOrdered
    <3>2. Owes(todo[Source], Count(step.what)) /\ step.what \in Counted
      <4>1. 1 + 1 \in 1..Len(todo[Source])
        BY <1>6, <3>1
      <4> QED
        BY <3>1, <4>1, CounterNames DEF Owes
    <3>3. Due[step.what] > 0
      BY <1>1, <3>2, DueTypes DEF Due
    <3>4. lastErrorClass' = step.what
      BY <1>2, <2>1 DEF Perform
    <3> QED
      BY <1>3, <3>1, <3>2, <3>3, <3>4
  <2>2. CASE step.do # "remember" /\ \E i \in 1..Len(todo[Source]) : todo[Source][i].do = "remember"
    <3>1. PICK i \in 1..Len(todo[Source]) : todo[Source][i].do = "remember"
      BY <2>2
    <3>2. i # 1
      BY <1>6, <2>2, <3>1
    <3>3. i - 1 \in 1..Len(Tail(todo[Source])) /\ (i - 1) + 1 = i
      BY <1>6, <3>2
    <3>4. Tail(todo[Source])[i - 1].do = "remember"
      BY <1>6, <3>1, <3>3
    <3> QED
      BY <1>2, <3>3, <3>4
  <2>3. CASE step.do # "remember" /\ lastErrorClass \in Classes /\ Due[lastErrorClass] > 0
    <3>1. lastErrorClass' = lastErrorClass
      BY <1>2, <2>3 DEF Perform
    <3> QED
      BY <1>3, <2>3, <3>1, CounterNames
  <2> QED
    BY <1>7, <2>1, <2>2, <2>3 DEF Tally
<1> QED
  BY <1>2, <1>4, <1>5, <1>7 DEF Tally

-----------------------------------------------------------------------------
(* The reporter.                                                           *)
LEMMA LoadTotalsHalfFits ==
    ASSUME IndInv, LoadTotals PROVE HalfFits'
<1>1. \A n \in Totals : sampled'.count[n] = count[n]
  <2> DEFINE c == [n \in Totals \cup Classes |-> IF n \in Totals THEN count[n] ELSE 0]
  <2>1. sampled'.count = c
    BY DEF LoadTotals
  <2>2. \A n \in Totals : c[n] = count[n]
    OBVIOUS
  <2> HIDE DEF c
  <2> QED
    BY <2>1, <2>2
<1>2. /\ sampled'.lifecycle = lifecycle[Source]
      /\ lastErrorClass # "none" => sampled'.last = lastErrorClass
  BY DEF LoadTotals
<1> QED
  BY <1>1, <1>2 DEF HalfFits, LoadTotals, managerVars, telemetryVars

LEMMA FinishSnapshotFits ==
    ASSUME IndInv, Idle, Tally, HalfFits, FinishSnapshot PROVE Fits(sampled')
<1> DEFINE s == LoadClasses(sampled)
<1>1. reporter = "classes" /\ todo[Source] = <<>> /\ sampled' = s /\ TypeOK
  BY DEF FinishSnapshot, Idle, IndInv
<1>2. /\ sampled.lifecycle = lifecycle[Source]
      /\ \A n \in Totals : sampled.count[n] = count[n]
      /\ lastErrorClass # "none" => sampled.last = lastErrorClass
  BY <1>1 DEF HalfFits
<1>3. /\ \A n \in Counted : Due[n] = count[n] /\ count[n] \in Nat
  BY <1>1, DueTypes
<1>4. /\ \A n \in Totals \cup Classes : s.count[n] = count[n]
      /\ s.lifecycle = sampled.lifecycle /\ s.last = sampled.last
  <2> DEFINE c == [n \in Totals \cup Classes |-> IF n \in Classes THEN count[n]
                                                 ELSE sampled.count[n]]
  <2>1. \A n \in Totals \cup Classes : c[n] = count[n]
    BY <1>2
  <2>2. s = [sampled EXCEPT !.count = c] /\ sampled \in SnapshotType
    BY <1>1 DEF LoadClasses, TypeOK
  <2> HIDE DEF c, s
  <2> QED
    BY <2>1, <2>2 DEF SnapshotType
<1> HIDE DEF s
<1>5. /\ s.count["failures"] = Due["failures"] /\ s.count["acquired"] = Due["acquired"]
      /\ s.count["closes"] = Due["closes"] /\ Due["closes"] \in Nat
  BY <1>3, <1>4, CounterNames
<1>6. SumOfClasses(s.count) = SumOfClasses(Due)
  <2>1. \A n \in Classes : s.count[n] = Due[n]
    BY <1>3, <1>4, CounterNames
  <2> QED
    BY <2>1, SumStays
<1>7. Due["failures"] > 0 => s.count[s.last] > 0
  <2> SUFFICES ASSUME Due["failures"] > 0 PROVE s.count[s.last] > 0
    OBVIOUS
  <2>1. ~\E i \in 1..Len(todo[Source]) : todo[Source][i].do = "remember"
    BY <1>1
  <2>2. lastErrorClass \in Classes /\ Due[lastErrorClass] > 0
    BY <2>1 DEF Tally
  <2>3. s.last = lastErrorClass
    BY <1>2, <1>4, <2>2, CounterNames
  <2> QED
    BY <1>3, <1>4, <2>2, <2>3, CounterNames
<1>8. Fits(s)
  BY <1>1, <1>2, <1>3, <1>4, <1>5, <1>6, <1>7 DEF Fits, Tally
<1> QED
  BY <1>1, <1>8

LEMMA QuietBefore ==
    ASSUME IndInv, [Next]_vars, Quiet' PROVE Quiet \/ ~Idle
<1> SUFFICES ASSUME Idle PROVE Quiet
  OBVIOUS
<1>1. ASSUME NEW m \in Others, ManagerSteps(m) \/ Observe(m) PROVE FALSE
  BY <1>1, OthersAreLoud
<1>2. CASE /\ \A m \in Others : ~(ManagerSteps(m) \/ Observe(m))
           /\ \E m \in Managers : ManagerSteps(m) \/ Observe(m)
  <2>1. ManagerSteps(Source) \/ Observe(Source)
    BY <1>2 DEF Others
  <2>2. \A m \in Others : lifecycle'[m] = lifecycle[m]
    <3>1. lifecycle \in [Managers -> {"new", "active", "failed", "closed"}]
      BY DEF IndInv, TypeOK
    <3>2. \/ lifecycle' = lifecycle
          \/ \E l : lifecycle' = [lifecycle EXCEPT ![Source] = l]
      BY <2>1 DEF ManagerSteps, Acquired, Generated, Refreshed, RefreshFailed, Failed, BeginClose,
                  FinishClose, Observe, BecomeFailed, managerVars
    <3> QED
      BY <3>1, <3>2 DEF Others
  <2> QED
    BY <2>2 DEF Quiet
<1>3. CASE ~\E m \in Managers : ManagerSteps(m) \/ Observe(m)
  <2>1. \/ lifecycle' = lifecycle
        \/ \E l : lifecycle' = [lifecycle EXCEPT ![Source] = l]
    BY <1>3 DEF Next, StartReporter, BeginSnapshot, LoadTotals, FinishSnapshot, FireTicker,
                ReceiveEvent, EndContext, BeginDrain, ReturnReporter, BecomeFailed, vars, managerVars
  <2>2. lifecycle \in [Managers -> {"new", "active", "failed", "closed"}]
    BY DEF IndInv, TypeOK
  <2> QED
    BY <2>1, <2>2 DEF Quiet, Others
<1> QED
  BY <1>1, <1>2, <1>3
(* What the steps of the reporter leave alone keeps the tally.             *)
LEMMA TallyLeft ==
    ASSUME Tally, UNCHANGED <<lifecycle, todo, count, lastErrorClass>>
    PROVE  Tally'
<1>1. Due' = Due
  BY DEF Due
<1> QED
  BY <1>1 DEF Tally

LEMMA InitSnapshotInv == Init => SnapshotInv
<1> SUFFICES ASSUME Init PROVE SnapshotInv
  OBVIOUS
<1>1. Source \in Managers /\ todo[Source] = <<>> /\ lifecycle[Source] = "new" /\ count = Zero
  BY TelemetryAssumption DEF Init, TelemetryAssumption
<1>2. \A n \in Totals \cup Classes : Zero[n] = 0
  BY DEF Zero
<1>3. \A n \in Counted : Due[n] = 0
  BY <1>1, <1>2, CounterNames DEF Due, Owes
<1>4. SumOfClasses(Due) = 0 /\ SumOfClasses(Zero) = 0
  BY <1>2, <1>3, CounterNames DEF SumOfClasses
<1>5. /\ Due["failures"] = 0 /\ Due["acquired"] = 0 /\ Due["closes"] = 0
      /\ Zero["failures"] = 0 /\ Zero["closes"] = 0
  BY <1>2, <1>3, CounterNames
<1>6. Tally
  BY <1>1, <1>4, <1>5 DEF Tally
<1>7. Idle /\ HalfFits /\ WellOrdered(todo[Source])
  BY <1>1, OrderedPlain DEF Init, Idle, HalfFits
<1>8. Fits(sampled)
  BY <1>4, <1>5 DEF Init, NoSnapshot, Fits
<1> QED
  BY <1>6, <1>7, <1>8 DEF SnapshotInv

LEMMA StepKeepsSnapshotInv ==
    ASSUME IndInv, SnapshotInv, [Next]_vars
    PROVE  SnapshotInv'
<1>1. /\ Idle
      /\ Quiet => /\ WellOrdered(todo[Source]) /\ Tally /\ HalfFits
                  /\ reporter \notin Sampling => Fits(sampled)
      /\ TypeOK /\ TodoOK /\ Source \in Managers
  BY TelemetryAssumption DEF SnapshotInv, IndInv, TelemetryAssumption
<1>2. Quiet' => Quiet
  BY <1>1, QuietBefore
<1>3. ASSUME NEW m \in Others, ManagerSteps(m) \/ Observe(m) PROVE SnapshotInv'
  <2>1. ~Quiet' /\ Idle'
    BY <1>1, <1>3, OthersAreLoud, IdleKept DEF Others
  <2> QED
    BY <1>1, <2>1 DEF SnapshotInv
<1>4. CASE ManagerSteps(Source)
  <2>1. Idle' /\ (Quiet => Tally' /\ WellOrdered(todo[Source])')
    BY <1>1, <1>4, IdleKept, SourceKeepsTally
  <2>2. UNCHANGED <<reporter, sampled>>
    BY <1>4 DEF ManagerSteps, Acquired, Generated, Refreshed, RefreshFailed, Failed, BeginClose,
                FinishClose, reporterVars
  <2>3. reporter # "classes"
    BY <1>4 DEF ManagerSteps, Acquired, Generated, Refreshed, RefreshFailed, Failed, BeginClose,
                FinishClose, Free, Sampling
  <2> QED
    BY <1>1, <1>2, <2>1, <2>2, <2>3 DEF SnapshotInv, HalfFits
<1>5. CASE Observe(Source)
  <2>1. Idle' /\ (Quiet => Tally' /\ WellOrdered(todo[Source])')
    BY <1>1, <1>5, IdleKept, ObservePays, ObserveKeepsTally
  <2>2. /\ reporter # "classes" /\ UNCHANGED <<reporter, sampled>>
    BY <1>1, <1>5 DEF Idle, Observe, reporterVars
  <2> QED
    BY <1>1, <1>2, <2>1, <2>2 DEF SnapshotInv, HalfFits
<1>6. CASE BeginSnapshot
  <2>1. todo[Source] = <<>> /\ reporter' = "totals" /\ UNCHANGED <<count, lastErrorClass>>
    BY <1>6 DEF BeginSnapshot, Free, telemetryVars
  <2>2. CASE UNCHANGED <<managerVars, todo>>
    <3>1. Idle' /\ (Quiet => Tally' /\ WellOrdered(todo[Source])')
      BY <1>1, <2>1, <2>2, TallyLeft DEF Idle, managerVars
    <3> QED
      BY <1>1, <1>2, <2>1, <3>1 DEF SnapshotInv, HalfFits, Sampling
  <2>3. CASE \E e \in ReadyErrors : BecomeFailed(Source, e)
                                    /\ Callback(Source, ObserveFailed(Source, e))
    <3>1. PICK e \in ReadyErrors : BecomeFailed(Source, e)
                                   /\ Callback(Source, ObserveFailed(Source, e))
      BY <2>3
    <3>2. \/ e # {} /\ lifecycle[Source] = "active"
          \/ UNCHANGED <<managerVars, todo>>
      BY <1>6, <3>1, TelemetryAssumption DEF BeginSnapshot, TelemetryAssumption
    <3>3. CASE lifecycle[Source] = "active"
      <4>1. Quiet => Tally' /\ WellOrdered(todo[Source])'
        BY <1>1, <2>1, <3>1, <3>3, FailureKeepsTally, TelemetryAssumption DEF TelemetryAssumption
      <4>2. Idle'
        BY <1>1, <2>1, <3>1, <3>3 DEF Idle, BecomeFailed, Callback, IndInv, TypeOK, TodoOK
      <4> QED
        BY <1>1, <1>2, <2>1, <4>1, <4>2 DEF SnapshotInv, HalfFits, Sampling
    <3> QED
      BY <2>2, <3>2, <3>3
  <2> QED
    BY <1>6, <2>2, <2>3 DEF BeginSnapshot
<1>7. CASE LoadTotals
  <2>1. /\ reporter' = "classes" /\ todo[Source] = <<>>
        /\ UNCHANGED <<managerVars, todo, count, lastErrorClass>>
    BY <1>7 DEF LoadTotals, telemetryVars
  <2>2. Idle' /\ (Quiet => Tally' /\ WellOrdered(todo[Source])')
    BY <1>1, <2>1, TallyLeft DEF Idle, managerVars
  <2>3. HalfFits'
    BY <1>7, LoadTotalsHalfFits
  <2> QED
    BY <1>2, <2>1, <2>2, <2>3 DEF SnapshotInv, Sampling
<1>8. CASE FinishSnapshot
  <2>1. /\ reporter' = "select" /\ UNCHANGED <<managerVars, todo, count, lastErrorClass>>
    BY <1>8 DEF FinishSnapshot, telemetryVars
  <2>2. Idle' /\ (Quiet => Tally' /\ WellOrdered(todo[Source])')
    BY <1>1, <2>1, TallyLeft DEF Idle, managerVars
  <2>3. Quiet => Fits(sampled')
    BY <1>1, <1>8, FinishSnapshotFits
  <2> QED
    BY <1>2, <2>1, <2>2, <2>3 DEF SnapshotInv, HalfFits
<1>9. CASE \/ StartReporter \/ FireTicker \/ ReceiveEvent \/ EndContext \/ BeginDrain
           \/ ReturnReporter \/ UNCHANGED vars
  <2>1. UNCHANGED <<managerVars, todo, count, lastErrorClass, sampled>>
    BY <1>9 DEF StartReporter, FireTicker, ReceiveEvent, EndContext, BeginDrain, ReturnReporter,
                vars, telemetryVars, reporterVars
  <2>2. /\ reporter' # "classes" \/ reporter' = reporter
        /\ reporter' \notin Sampling => reporter \notin Sampling
    BY <1>9 DEF StartReporter, FireTicker, ReceiveEvent, EndContext, BeginDrain, ReturnReporter,
                vars, reporterVars, Sampling
  <2>3. Idle' /\ (Quiet => Tally' /\ WellOrdered(todo[Source])')
    BY <1>1, <2>1, <2>2, TallyLeft DEF Idle, managerVars
  <2>4. Quiet => HalfFits' /\ (reporter' \notin Sampling => Fits(sampled'))
    BY <1>1, <2>1, <2>2 DEF HalfFits, managerVars
  <2> QED
    BY <1>2, <2>3, <2>4 DEF SnapshotInv
<1> QED
  BY <1>3, <1>4, <1>5, <1>6, <1>7, <1>8, <1>9 DEF Next, Others

(* What RunReporter hands to onReport is consistent: the classes add up to *)
(* the failures, the last class is among them and the lifecycle agrees     *)
(* with what was counted, although the counters are atomics read one by    *)
(* one while the generator works on (counterSnapshot); and from report to  *)
(* report no ID is lost or counted twice.                                  *)
THEOREM TelemetryReportsFit == Spec => []ReportsFit
<1>1. Init => SnapshotInv
  BY InitSnapshotInv
<1>2. IndInv /\ SnapshotInv /\ [Next]_vars => SnapshotInv'
  BY StepKeepsSnapshotInv
<1>3. SnapshotInv => SnapshotFits
  BY DEF SnapshotInv, SnapshotFits, Quiet, Fits
<1>4. SnapshotFits /\ WindowsAddUp => ReportsFit
  BY DEF ReportsFit
<1> QED
  BY <1>1, <1>2, <1>3, <1>4, TelemetryInvariant, TelemetryWindowsAddUp, PTL DEF Spec
=============================================================================
