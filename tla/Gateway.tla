------------------------------- MODULE Gateway -------------------------------
(***************************************************************************)
(* From the transaction that applies an event to the receiver that hears   *)
(* of it: OrderStore writes the outbox, several entries at once when it    *)
(* drains the buffer, and Dispatcher delivers what is there, while the     *)
(* next transactions commit.  The receiver keeps what scripts/             *)
(* webhook_sink.py does: which keys it has accepted, and in which order.   *)
(***************************************************************************)
EXTENDS OrderStore, Dispatcher

CONSTANT Requests   \* the events that the consumer persists

(* The outbox of the one is the outbox of the other. *)
ASSUME AggregatesAssumption == Aggregates = Orders
ASSUME RequestsAssumption   == Requests \subseteq Event

VARIABLE story   \* story[o]: the entries of o, in the order of their first acceptance

allVars == <<vars, storeVars, story>>

GatewayInit == Init /\ StoreInit /\ story = [o \in Orders |-> <<>>]

-----------------------------------------------------------------------------
(* The event of entry k of the outbox table: its payload. *)
Payload(k) ==
    LET o == rows[k].order
    IN outbox[o][Cardinality({j \in 1..k : rows[j].order = o})]

(* Mutant: only the event at hand is notified of, not those it drains. *)
OneRow(o) == IF outbox'[o] = outbox[o] THEN <<>> ELSE <<NewRow(o)>>

(* The entries that the transaction has added for o. *)
NewRows(o) == [i \in 1..(Len(outbox'[o]) - Len(outbox[o])) |-> NewRow(o)]

(* A transaction commits, and its outbox entries with it. *)
Persist(e) ==
    /\ \/ e \in SeqEvent   /\ ApplyEvent(e)
       \/ e \in AbortEvent /\ AbortPlan(e)
    /\ rows' = rows \o NewRows(e.order)
    /\ Len(rows') <= MaxRows
    /\ UNCHANGED <<mode, breaker, task, accepted, wire, faults, story>>

(* The sweeper takes events out of the buffer. *)
Expire ==
    /\ \E keys \in SUBSET Buffered : keys # {} /\ ExpirePending(keys)
    /\ UNCHANGED <<vars, story>>

(* State.handle: an Idempotency-Key that it has not accepted before. *)
HearFirst(k) == story' = [story EXCEPT ![rows[k].order] = Append(@, k)]

DispatchAndHear ==
    /\ Dispatch
    /\ IF accepted' = accepted THEN UNCHANGED story ELSE \E k \in accepted' \ accepted : HearFirst(k)
    /\ UNCHANGED storeVars

GatewayNext ==
    \/ \E e \in Requests : Persist(e)
    \/ Expire
    \/ DispatchAndHear

GatewaySpec == GatewayInit /\ [][GatewayNext]_allVars /\ Fairness

-----------------------------------------------------------------------------
(* Type invariant: one entry of the table for every one of OrderStore. *)
GatewayTypeOK ==
    /\ TypeOK
    /\ \A o \in Orders :
          /\ Len(outbox[o]) = Cardinality({k \in DOMAIN rows : rows[k].order = o})
          /\ \A i \in DOMAIN story[o] : story[o][i] \in accepted /\ rows[story[o][i]].order = o

(* What the receiver hears of an order, duplicates aside, is its plan: the   *)
(* events 1, 2, 3, ... of one plan and an abort at the end, in this order    *)
(* and without a gap, dead letters excepted, however they were drained,      *)
(* retried, delayed or sent again.                                           *)
HearsThePlan ==
    \A o \in Orders : \A i \in DOMAIN story[o] :
       LET k == story[o][i]
           e == Payload(k)
           before == {Payload(story[o][j]) : j \in 1..(i - 1)}
           dead   == {Payload(j) : j \in {j \in DOMAIN rows : rows[j].order = o /\ rows[j].dead}}
       IN ~rows[k].dead =>
             /\ e.planID = orders[o].planID
             /\ \A s \in 1..(IF e.type = "ABORT_PLAN" THEN orders[o].lastSeq ELSE e.seqID - 1) :
                   \E f \in before \cup dead : f.seqID = s /\ f.planID = e.planID
             /\ \A f \in before \ dead : f.type # "ABORT_PLAN" /\ (f.seqID < e.seqID \/ e.seqID = 0)
=============================================================================
