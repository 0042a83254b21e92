----------------------------- MODULE OrderStore -----------------------------
(***************************************************************************)
(* The repository of server/internal/db/postgres.go: the tables orders,    *)
(* pending_events and outbox, and one action per transaction and outcome.  *)
(* Every transaction on an order holds that order's advisory lock from its *)
(* first statement to its commit (lockOrder), so each is one atomic step   *)
(* here.  A transaction that fails leaves no trace: its steps are the ones *)
(* that leave the tables UNCHANGED.  Who calls the repository, and what a  *)
(* failed call leads to, is Consumer.                                      *)
(***************************************************************************)
EXTENDS Sequencing, Sequences

CONSTANTS
    Orders,   \* the order ids
    Plans,    \* the plan ids
    Types,    \* the sequenced event types in use
    Data,     \* the payload classes in use, see DataClass
    MaxInt,   \* the largest value of a Postgres INTEGER (2^31 - 1 in the code)
    NoRow     \* no pending_events row has this key

(* What the columns make of a payload.  "amount": total_amount overflows     *)
(* DECIMAL(10, 2), so orders rejects it and the JSONB of pending_events does *)
(* not.  "nul": user_id holds U+0000, which neither text nor JSONB stores.   *)
DataClass == {"plain", "amount", "nul"}

SeqEvent   == [order : Orders, planID : Plans, type : Types, seqID : 1..(MaxInt + 1), data : Data]
AbortEvent == [order : Orders, planID : Plans, type : {AbortType}, seqID : {0}, data : Data]
Event      == SeqEvent \cup AbortEvent

ASSUME MaxIntAssumption == MaxInt \in Nat \ {0}
ASSUME TypesAssumption  == Types \subseteq SequencedType
ASSUME DataAssumption   == Data \subseteq DataClass
ASSUME NoRowAssumption  == NoRow \notin Event

VARIABLES
    orders,   \* orders[o]: the OrderState of o, NoOrder without a row
    pending,  \* pending[o][p][s]: the buffered event with that key, or NoRow
    outbox    \* outbox[o]: the notifications of o, by position

storeVars == <<orders, pending, outbox>>

StoreInit ==
    /\ orders  = [o \in Orders |-> NoOrder]
    /\ pending = [o \in Orders |-> [p \in Plans |-> [s \in 1..MaxInt |-> NoRow]]]
    /\ outbox  = [o \in Orders |-> <<>>]

-----------------------------------------------------------------------------
(* Helpers. *)

Row(e, s)     == pending[e.order][e.planID][s]
Applicable(e) == e.data = "plain"                \* orders stores its columns
Storable(e)   == e.data \in {"plain", "amount"}  \* text and JSONB columns store it

SeqOutcome(e)   == Decide(orders[e.order], e.planID, e.seqID)
AbortOutcome(e) == DecideAbort(orders[e.order], e.planID)

(* The rows after e up to number m are all buffered and orders stores them. *)
DrainableTo(e, m) == \A s \in (e.seqID + 1)..m : Row(e, s) # NoRow /\ Applicable(Row(e, s))

(* The events that one transaction applies: e and the buffered ones up to m. *)
Batch(e, m) == <<e>> \o [i \in 1..(m - e.seqID) |-> Row(e, e.seqID + i)]

(* pending_events of o and p without the rows whose number is in S. *)
Without(o, p, S) == [s \in 1..MaxInt |-> IF s \in S THEN NoRow ELSE pending[o][p][s]]

(* DELETE FROM pending_events ... for these numbers. *)
DeletePending(o, p, S) == pending' = [pending EXCEPT ![o][p] = Without(o, p, S)]

(* drainPending stops at the first number without a row. *)
DrainEnd(e, m) == Row(e, m + 1) = NoRow

(* The numbers whose rows a drain deletes. *)
DrainedRows(e, m) == (e.seqID + 1)..m

-----------------------------------------------------------------------------
(* ApplyEvent, outcome APPLY: the event and every buffered successor without *)
(* a gap go to orders and the outbox, and leave the buffer.  drainPending    *)
(* asks for the number after the last one it applied, which must itself be   *)
(* an INTEGER: m + 1 <= MaxInt.                                              *)
ApplyAndDrain(e) ==
    /\ SeqOutcome(e) = "APPLY"
    /\ Applicable(e)
    /\ \E m \in e.seqID..(MaxInt - 1) :
          /\ DrainableTo(e, m)
          /\ DrainEnd(e, m)
          /\ orders' = [orders EXCEPT ![e.order] =
                [exists  |-> TRUE,
                 planID  |-> e.planID,
                 lastSeq |-> m,
                 status  |-> StatusFromEventType(
                                IF m = e.seqID THEN e.type ELSE Row(e, m).type)]]
          /\ outbox' = [outbox EXCEPT ![e.order] = @ \o Batch(e, m)]
          /\ DeletePending(e.order, e.planID, DrainedRows(e, m))

(* ApplyEvent, outcome BUFFER; ON CONFLICT DO NOTHING: the first one stays. *)
BufferEvent(e) ==
    /\ SeqOutcome(e) = "BUFFER"
    /\ e.seqID <= MaxInt
    /\ Storable(e)
    /\ pending' = [pending EXCEPT ![e.order][e.planID][e.seqID] = IF @ = NoRow THEN e ELSE @]
    /\ UNCHANGED <<orders, outbox>>

(* ApplyEvent, the outcomes that write nothing. *)
IgnoreEvent(e) ==
    /\ SeqOutcome(e) \in {"DUPLICATE", "DISCARD"}
    /\ UNCHANGED storeVars

(* Mutant: an abort that leaves the buffered events of its plan where they are. *)
AbortKeepsPending(e) == pending' = pending

(* DELETE FROM pending_events of the aborted plan. *)
DiscardPending(e) == DeletePending(e.order, e.planID, 1..MaxInt)

(* AbortPlan, outcome APPLY: downstream hears of the abort, whose amount no   *)
(* column reads.                                                              *)
AbortOrder(e) ==
    /\ AbortOutcome(e) = "APPLY"
    /\ Storable(e)
    /\ orders' = [orders EXCEPT ![e.order].status = "aborted"]
    /\ outbox' = [outbox EXCEPT ![e.order] = Append(@, e)]
    /\ DiscardPending(e)

(* AbortPlan, outcome TOMBSTONE: downstream never heard of the order. *)
TombstoneOrder(e) ==
    /\ AbortOutcome(e) = "TOMBSTONE"
    /\ Storable(e)
    /\ orders' = [orders EXCEPT ![e.order] =
          [exists |-> TRUE, planID |-> e.planID, lastSeq |-> 0, status |-> "aborted"]]
    /\ DiscardPending(e)
    /\ UNCHANGED outbox

(* AbortPlan, the outcomes that write nothing. *)
IgnoreAbort(e) ==
    /\ AbortOutcome(e) \in {"DUPLICATE", "DISCARD"}
    /\ UNCHANGED storeVars

-----------------------------------------------------------------------------
(* What else a call can return; the tables stay as they are. *)

(* The outcome PLAN_MISMATCH, of either kind of event. *)
Mismatch(e) == \/ e \in SeqEvent   /\ SeqOutcome(e) = "PLAN_MISMATCH"
               \/ e \in AbortEvent /\ AbortOutcome(e) = "PLAN_MISMATCH"

(* An error of SQLSTATE class 22, which IsPermanent tells apart: the event   *)
(* itself, or a buffered successor that the same transaction drains.         *)
Rejected(e) ==
    \/ /\ e \in SeqEvent /\ SeqOutcome(e) = "APPLY"
       /\ \/ ~Applicable(e)
          \/ \E m \in (e.seqID + 1)..MaxInt :
                DrainableTo(e, m - 1) /\ Row(e, m) # NoRow /\ ~Applicable(Row(e, m))
    \/ e \in SeqEvent /\ SeqOutcome(e) = "BUFFER" /\ e.seqID <= MaxInt /\ ~Storable(e)
    \/ e \in AbortEvent /\ AbortOutcome(e) \in {"APPLY", "TOMBSTONE"} /\ ~Storable(e)

(* An error of the driver, which cannot encode a number above MaxInt as an   *)
(* INTEGER parameter: not a PgError, so IsPermanent takes it for transient.  *)
Unencodable(e) ==
    \/ e \in SeqEvent /\ SeqOutcome(e) = "BUFFER" /\ e.seqID > MaxInt
    \/ e \in SeqEvent /\ SeqOutcome(e) = "APPLY" /\ Applicable(e) /\ DrainableTo(e, MaxInt)

(* The transaction did not commit, or had nothing to write. *)
Refuse(e) == (Mismatch(e) \/ Rejected(e) \/ Unencodable(e)) /\ UNCHANGED storeVars

-----------------------------------------------------------------------------
(* The keys of pending_events. *)
Buffered == {k \in Orders \X Plans \X (1..MaxInt) : pending[k[1]][k[2]][k[3]] # NoRow}

(* ExpirePending that commits: the rows are gone.  received_at is not        *)
(* modelled, so any rows may be old enough, and FOR UPDATE SKIP LOCKED may   *)
(* leave any of them for the next sweep.                                     *)
ExpirePending(rows) ==
    /\ rows \subseteq Buffered
    /\ pending' = [o \in Orders |-> [p \in Plans |->
                      Without(o, p, {s \in 1..MaxInt : <<o, p, s>> \in rows})]]
    /\ UNCHANGED <<orders, outbox>>

ApplyEvent(e) == ApplyAndDrain(e) \/ BufferEvent(e) \/ IgnoreEvent(e)
AbortPlan(e)  == AbortOrder(e) \/ TombstoneOrder(e) \/ IgnoreAbort(e)

(* Any caller, with any event, in any order. *)
StoreNext ==
    \/ \E e \in SeqEvent : ApplyEvent(e)
    \/ \E e \in AbortEvent : AbortPlan(e)
    \/ \E e \in Event : Refuse(e)
    \/ \E rows \in SUBSET Buffered : ExpirePending(rows)

StoreSpec == StoreInit /\ [][StoreNext]_storeVars

-----------------------------------------------------------------------------
OrderState == [exists : BOOLEAN, planID : Plans \cup {""}, lastSeq : 0..MaxInt,
               status : Status \cup {""}]

(* Type invariant: every table holds rows of its type, and an order that     *)
(* exists has an owner and a status from the CHECK list (init.sql).          *)
TypeOK ==
    /\ orders  \in [Orders -> OrderState]
    /\ pending \in [Orders -> [Plans -> [1..MaxInt -> SeqEvent \cup {NoRow}]]]
    /\ outbox  \in [Orders -> Seq(Event)]
    /\ \A o \in Orders : orders[o].exists => orders[o].planID \in Plans
                                             /\ orders[o].status \in Status

(* The log that downstream is notified from tells the story of the order     *)
(* row: its first last_seq entries are the owner plan's events 1, 2, 3, ...  *)
(* each exactly once; after them there is one ABORT_PLAN if and only if a    *)
(* started order was aborted; and the status is that of the last entry.      *)
LogTells(s, log) ==
    /\ \A i \in 1..s.lastSeq : /\ i \in DOMAIN log
                               /\ log[i] \in SeqEvent
                               /\ log[i].planID = s.planID
                               /\ log[i].seqID = i
    /\ IF Aborted(s) /\ s.lastSeq > 0
       THEN /\ Len(log) = s.lastSeq + 1
            /\ log[Len(log)] \in AbortEvent
            /\ log[Len(log)].planID = s.planID
       ELSE Len(log) = s.lastSeq
    /\ s.exists /\ ~Aborted(s) =>
          s.lastSeq > 0 /\ s.status = StatusFromEventType(log[s.lastSeq].type)
    /\ ~s.exists => s.lastSeq = 0

LogTellsOrder == \A o \in Orders : LogTells(orders[o], outbox[o])

(* Nothing waits in the buffer for a predecessor that is already there: no   *)
(* event of the owner plan is buffered at or right after last_seq, an order  *)
(* without a row has no event 1 waiting, and an aborted order no event of    *)
(* its plan at all.  An event that broke this would sit until its timeout.   *)
NoStalledSuccessor ==
    \A o \in Orders, p \in Plans, s \in 1..MaxInt :
       pending[o][p][s] # NoRow =>
          /\ ~orders[o].exists => s > 1
          /\ Owns(orders[o], p) => ~Aborted(orders[o]) /\ s > orders[o].lastSeq + 1

(* The store keeps the ledger's promise: an order's log only grows, by the   *)
(* next events of its owner, and an abort closes it.  This is what           *)
(* ApplyEvent and AbortPlan guarantee to any sequence of callers.            *)
Ledger == INSTANCE OrderLedger WITH
             log    <- outbox,
             owner  <- [o \in Orders |-> orders[o].planID],
             closed <- [o \in Orders |-> Aborted(orders[o])]

KeepsLedger == Ledger!Spec
=============================================================================
