------------------------------- MODULE OrderTx -------------------------------
(***************************************************************************)
(* The transactions of OrderStore statement by statement, as Postgres runs *)
(* them at READ COMMITTED: a statement reads what is committed and what    *)
(* its own transaction wrote, waits for the row locks of the others, and   *)
(* what it writes is theirs to see after the commit.  The tables of        *)
(* OrderStore are the committed ones.  lockOrder takes the advisory lock   *)
(* of the TEXT of an order id, every other statement the uuid it stands    *)
(* for, and Validate accepts every text that uuid.Parse does.              *)
(***************************************************************************)
EXTENDS OrderStore

CONSTANTS
    Txns,      \* the connections that run a transaction on an order
    Texts,     \* the spellings of an order id in use
    Requests   \* the events they are asked to persist, a subset of Event

ASSUME RequestsAssumption == Requests \subseteq Event

VARIABLES
    tx,     \* tx[w]: the transaction open on connection w, or NoTx
    swept   \* the rows some open transaction of ExpirePending has locked

txVars == <<storeVars, tx, swept>>

NoText    == "none"
Unwritten == NoOrder   \* the row of a transaction that has not written it

(* state: what lockOrder read; row, log, taken, put: what the transaction    *)
(* wrote, the order row, outbox entries, rows of pending_events it deleted   *)
(* and whether it inserted its own event there.                              *)
NoTx == [stage |-> "idle", event |-> NoRow, text |-> NoText, state |-> NoOrder,
         row |-> Unwritten, log |-> <<>>, taken |-> {}, put |-> FALSE]

TxInit == StoreInit /\ tx = [w \in Txns |-> NoTx] /\ swept = {}

-----------------------------------------------------------------------------
OfOrder(o) == {w \in Txns : tx[w].stage # "idle" /\ tx[w].event.order = o}
Others(w)  == OfOrder(tx[w].event.order) \ {w}

(* The connections with a transaction that deleted this row, or inserted it. *)
Deleters(k)  == {w \in OfOrder(k[1]) : tx[w].event.planID = k[2] /\ k[3] \in tx[w].taken}
Inserters(k) == {w \in OfOrder(k[1]) : /\ tx[w].event.planID = k[2]
                                       /\ tx[w].event.seqID = k[3] /\ tx[w].put}

(* No one else holds the row of the order, or has inserted it. *)
RowFree(w) == \A v \in Others(w) : tx[v].row = Unwritten

(* INSERT INTO orders meets the row of another transaction: SQLSTATE 23505. *)
KeyTaken(w) == ~tx[w].state.exists /\ orders[tx[w].event.order].exists

(* No one else holds this row of pending_events. *)
Deletable(w, k) == k \notin swept /\ Deleters(k) \subseteq {w}

(* The next statement of w, after what this one wrote. *)
Proceed(w, t)  == tx' = [tx EXCEPT ![w] = t] /\ UNCHANGED <<storeVars, swept>>
Failed(t)      == [t EXCEPT !.stage = "failed"]

(* What w writes for event e of its plan: the row and the outbox entry. *)
Applied(t, e) ==
    [t EXCEPT !.stage = "drain",
              !.row = [exists |-> TRUE, planID |-> e.planID, lastSeq |-> e.seqID,
                       status |-> StatusFromEventType(e.type)],
              !.log = Append(@, e)]

-----------------------------------------------------------------------------
(* Mutant: no lock at all. *)
LockFreeAlways(e, text) == TRUE

(* pg_advisory_xact_lock(hashtextextended(text)). *)
LockFree(e, text) == \A w \in OfOrder(e.order) : tx[w].text # text

LockOrder(w, e, text) ==
    /\ tx[w] = NoTx
    /\ LockFree(e, text)
    /\ Proceed(w, [NoTx EXCEPT !.stage = "locked", !.event = e, !.text = text])

(* What the outcome makes of the transaction. *)
NextStage(e, s) ==
    IF e \in SeqEvent
    THEN LET outcome == Decide(s, e.planID, e.seqID) IN
         IF outcome = "APPLY" THEN "apply" ELSE IF outcome = "BUFFER" THEN "buffer" ELSE "done"
    ELSE LET outcome == DecideAbort(s, e.planID) IN
         IF outcome = "APPLY" THEN "abort" ELSE IF outcome = "TOMBSTONE" THEN "tombstone" ELSE "done"

(* SELECT ... FROM orders, and the decision. *)
ReadOrder(w) ==
    /\ tx[w].stage = "locked"
    /\ LET s == orders[tx[w].event.order] IN
       Proceed(w, [tx[w] EXCEPT !.state = s, !.stage = NextStage(tx[w].event, s)])

(* applyEvent of the event itself. *)
WriteOrder(w) ==
    /\ tx[w].stage = "apply" /\ RowFree(w)
    /\ Proceed(w, IF KeyTaken(w) \/ ~Applicable(tx[w].event) THEN Failed(tx[w])
                  ELSE Applied(tx[w], tx[w].event))

(* One turn of the loop of drainPending. *)
DrainNext(w) ==
    LET t == tx[w]
        s == t.row.lastSeq + 1
        r == Row(t.event, s)
    IN /\ t.stage = "drain"
       /\ s <= MaxInt => Deletable(w, <<t.event.order, t.event.planID, s>>)
       /\ Proceed(w, IF s > MaxInt THEN Failed(t)
                     ELSE IF r = NoRow THEN [t EXCEPT !.stage = "done"]
                     ELSE IF ~Applicable(r) THEN Failed(t)
                     ELSE [Applied(t, r) EXCEPT !.taken = @ \cup {s}])

(* INSERT ... ON CONFLICT DO NOTHING waits for an insert or a deletion of the *)
(* same key to commit or roll back, and not for a lock.                      *)
BufferRow(w) ==
    LET t == tx[w]
        k == <<t.event.order, t.event.planID, t.event.seqID>>
    IN /\ t.stage = "buffer"
       /\ Deleters(k) \cup Inserters(k) \subseteq {w}
       /\ Proceed(w, IF t.event.seqID > MaxInt \/ ~Storable(t.event) THEN Failed(t)
                     ELSE [t EXCEPT !.stage = "done", !.put = Row(t.event, t.event.seqID) = NoRow])

(* UPDATE orders and insertOutbox, or INSERT INTO orders. *)
AbortRow(w) ==
    LET t == tx[w] IN
    /\ t.stage = "abort" /\ RowFree(w)
    /\ Proceed(w, IF ~Storable(t.event) THEN Failed(t)
                  ELSE [t EXCEPT !.stage = "discard", !.log = <<t.event>>,
                                 !.row = [orders[t.event.order] EXCEPT !.status = "aborted"]])

TombstoneRow(w) ==
    LET t == tx[w] IN
    /\ t.stage = "tombstone" /\ RowFree(w)
    /\ Proceed(w, IF KeyTaken(w) \/ ~Storable(t.event) THEN Failed(t)
                  ELSE [t EXCEPT !.stage = "discard",
                                 !.row = [exists |-> TRUE, planID |-> t.event.planID,
                                          lastSeq |-> 0, status |-> "aborted"]])

(* DELETE FROM pending_events of the plan, once no row of it is locked. *)
DiscardRows(w) ==
    LET t == tx[w]
        present == {s \in 1..MaxInt : Row(t.event, s) # NoRow}
    IN /\ t.stage = "discard"
       /\ \A s \in present : Deletable(w, <<t.event.order, t.event.planID, s>>)
       /\ Proceed(w, [t EXCEPT !.stage = "done", !.taken = present])

-----------------------------------------------------------------------------
Commit(w) ==
    LET t == tx[w]
        e == tx[w].event
    IN /\ t.stage = "done"
       /\ orders'  = IF t.row = Unwritten THEN orders ELSE [orders EXCEPT ![e.order] = t.row]
       /\ outbox'  = [outbox EXCEPT ![e.order] = @ \o t.log]
       /\ pending' = [pending EXCEPT ![e.order][e.planID] =
                         [s \in 1..MaxInt |-> IF t.put /\ s = e.seqID THEN e
                                              ELSE Without(e.order, e.planID, t.taken)[s]]]
       /\ tx' = [tx EXCEPT ![w] = NoTx]
       /\ UNCHANGED swept

(* BeginFunc rolls back after an error; the server may crash, the connection *)
(* break or the context be cancelled before any statement.                   *)
Rollback(w) == tx[w] # NoTx /\ Proceed(w, NoTx)

(* Mutant: FOR UPDATE of the rows a drain or an abort has deleted already. *)
Unlocked == Buffered \ swept

(* FOR UPDATE SKIP LOCKED finds the rows that nobody has locked or deleted. *)
Selectable == {k \in Buffered \ swept : Deleters(k) = {}}

SweepSelect ==
    /\ \E rows \in SUBSET Selectable : rows # {} /\ swept' = swept \cup rows
    /\ UNCHANGED <<storeVars, tx>>

(* The rows of one of those transactions: it commits, or rolls back. *)
SweepEnd ==
    /\ \E rows \in SUBSET swept :
          /\ rows # {}
          /\ swept' = swept \ rows
          /\ ExpirePending(rows) \/ UNCHANGED storeVars
    /\ UNCHANGED tx

TxNext ==
    \/ \E w \in Txns :
          \/ \E e \in Requests, text \in Texts : LockOrder(w, e, text)
          \/ ReadOrder(w) \/ WriteOrder(w) \/ DrainNext(w) \/ BufferRow(w)
          \/ AbortRow(w) \/ TombstoneRow(w) \/ DiscardRows(w)
          \/ Commit(w) \/ Rollback(w)
    \/ SweepSelect \/ SweepEnd

TxSpec == TxInit /\ [][TxNext]_txVars

-----------------------------------------------------------------------------
(* Type invariant: what a transaction has written is fit to be committed. *)
TxTypeOK ==
    /\ \A w \in Txns :
          LET t == tx[w] IN
          /\ t.stage \in {"idle", "locked", "apply", "buffer", "abort", "tombstone",
                         "drain", "discard", "done", "failed"}
          /\ IF t.stage = "idle" THEN t = NoTx ELSE t.event \in Requests /\ t.text \in Texts
          /\ t.state \in OrderState
          /\ t.row # Unwritten => t.row.planID = t.event.planID /\ t.row.status \in Status
          /\ t.taken \subseteq 1..MaxInt /\ t.put \in BOOLEAN
    /\ swept \subseteq Orders \X Plans \X (1..MaxInt)

(* "returns the order's current state" (postgres.go:210): what a transaction *)
(* has read and decided on is still what the table says when it writes, and  *)
(* when it commits, for all that the others have done in between.            *)
ReadStaysTrue ==
    \A w \in Txns : tx[w].stage \notin {"idle", "locked", "failed"} =>
                      tx[w].state = orders[tx[w].event.order]

(* A buffered row has one fate: those that a transaction has deleted are     *)
(* still there for it to commit, and no sweep holds them or has expired them *)
(* meanwhile; those of a sweep are there until it ends.                      *)
RowLocksHold ==
    /\ swept \subseteq Buffered
    /\ \A w \in Txns : LET e == tx[w].event IN
          \A s \in tx[w].taken : <<e.order, e.planID, s>> \in Buffered \ swept

(* "lockOrder serializes every writer of orderID for the rest of the         *)
(* transaction" (postgres.go:209): whatever the statements of two            *)
(* transactions and of the sweeper do between each other, the committed      *)
(* tables take only the steps of OrderStore, each of them a whole            *)
(* transaction.                                                              *)
TransactionsAreAtomic == StoreSpec
=============================================================================
