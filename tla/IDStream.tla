------------------------------ MODULE IDStream ------------------------------
(***************************************************************************)
(* What a generator promises its callers, without mutex, sleeps or         *)
(* sequence: a stream of ever growing stamps that runs ahead of the        *)
(* highest clock reading there has been by a bounded lead, whatever the    *)
(* clock does in between.                                                  *)
(***************************************************************************)
EXTENDS Naturals, Sequences

CONSTANT Lead   \* how far a stamp may be ahead of the clock

VARIABLES
    stream,     \* the stamps handed out so far
    horizon     \* the highest clock value so far

streamVars == <<stream, horizon>>

Earlier(a, b) == a.ts < b.ts \/ (a.ts = b.ts /\ a.seq < b.seq)

StreamInit == stream = <<>> /\ horizon \in Nat

(* The next stamp is later than the newest one.                            *)
Emit(s) ==
    /\ s \in [ts : Nat, seq : Nat]
    /\ stream # <<>> => Earlier(stream[Len(stream)], s)
    /\ s.ts <= horizon + Lead
    /\ stream' = Append(stream, s)
    /\ UNCHANGED horizon

(* The clock reaches a new maximum.                                        *)
Observe ==
    /\ horizon' \in Nat
    /\ horizon' > horizon
    /\ UNCHANGED stream

(* The stamp emitted is one of those in the longer stream.                 *)
StreamNext == Observe \/ \E i \in DOMAIN stream' : Emit(stream'[i])

StreamSpec == StreamInit /\ [][StreamNext]_streamVars

(* What callers rely on: any two stamps come in their order, no matter how *)
(* many came between, and none has run further ahead than the lead of the  *)
(* highest clock reading (Generator.Next with AllowInMemoryOverCost).      *)
OrderedWithinLead ==
    /\ \A i, j \in 1..Len(stream) : i < j => Earlier(stream[i], stream[j])
    /\ \A i \in 1..Len(stream) : stream[i].ts <= horizon + Lead
=============================================================================
