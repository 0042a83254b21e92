---------------------------- MODULE OrderTxProofs ----------------------------
(***************************************************************************)
(* With one spelling of every order id, the transactions of OrderTx are    *)
(* those of OrderStore: for any connections, orders, plans, payloads and   *)
(* INTEGER width.  The invariant says of every open transaction that what  *)
(* it has read is still true and that what it has written is, up to here,  *)
(* what the whole transaction of OrderStore writes.                        *)
(***************************************************************************)
EXTENDS OrderTx, OrderStoreProofs

OneSpelling == \A a, b \in Texts : a = b

Stage == {"idle", "locked", "apply", "buffer", "abort", "tombstone",
          "drain", "discard", "done", "failed"}

TxRow == [exists : BOOLEAN, planID : Plans \cup {""}, lastSeq : Nat, status : Status \cup {""}]

TxRecord == [stage : Stage, event : Event \cup {NoRow}, text : Texts \cup {NoText},
             state : OrderState, row : TxRow, log : Seq(Event),
             taken : SUBSET (1..MaxInt), put : BOOLEAN]

-----------------------------------------------------------------------------
(* What transaction t has written, on an order in state s whose plan has     *)
(* these rows in the buffer.                                                 *)

Clean(t) == t.row = Unwritten /\ t.log = <<>> /\ t.taken = {} /\ ~t.put

Present(rows) == {n \in 1..MaxInt : rows[n] # NoRow}

(* Batch of event e, up to number m. *)
Chain(e, rows, m) == <<e>> \o [i \in 1..(m - e.seqID) |-> rows[e.seqID + i]]

(* ApplyAndDrain, up to the number of its row. *)
Drained(t, s, rows) ==
    LET e == t.event
        m == t.row.lastSeq
    IN /\ e \in SeqEvent /\ Decide(s, e.planID, e.seqID) = "APPLY" /\ Applicable(e)
       /\ m \in Nat /\ m >= e.seqID /\ (m = e.seqID \/ m <= MaxInt)
       /\ \A n \in (e.seqID + 1)..m : rows[n] # NoRow /\ Applicable(rows[n])
       /\ t.row = [exists |-> TRUE, planID |-> e.planID, lastSeq |-> m,
                   status |-> StatusFromEventType(IF m = e.seqID THEN e.type ELSE rows[m].type)]
       /\ t.log = Chain(e, rows, m)
       /\ t.taken = (e.seqID + 1)..m
       /\ ~t.put

(* AbortOrder or TombstoneOrder, but for the rows of the buffer. *)
Closing(t, s) ==
    LET e == t.event IN
    /\ e \in AbortEvent /\ Storable(e) /\ ~t.put
    /\ \/ /\ DecideAbort(s, e.planID) = "APPLY"
          /\ t.row = [s EXCEPT !.status = "aborted"] /\ t.log = <<e>>
       \/ /\ DecideAbort(s, e.planID) = "TOMBSTONE"
          /\ t.row = [exists |-> TRUE, planID |-> e.planID, lastSeq |-> 0, status |-> "aborted"]
          /\ t.log = <<>>

(* BufferEvent that inserts. *)
Buffering(t, s, rows) ==
    LET e == t.event IN
    /\ e \in SeqEvent /\ Decide(s, e.planID, e.seqID) = "BUFFER"
    /\ e.seqID <= MaxInt /\ Storable(e) /\ rows[e.seqID] = NoRow
    /\ t.row = Unwritten /\ t.log = <<>> /\ t.taken = {} /\ t.put

(* A transaction that has done its last statement. *)
Whole(t, s, rows) ==
    \/ Clean(t)
    \/ Drained(t, s, rows) /\ t.row.lastSeq < MaxInt /\ rows[t.row.lastSeq + 1] = NoRow
    \/ Closing(t, s) /\ t.taken = Present(rows)
    \/ Buffering(t, s, rows)

(* What each stage says of it. *)
Ready(t, s, rows) ==
    LET e == t.event IN
    /\ t.stage \in {"locked", "apply", "buffer", "abort", "tombstone"} => Clean(t)
    /\ t.stage = "apply"     => e \in SeqEvent /\ Decide(s, e.planID, e.seqID) = "APPLY"
    /\ t.stage = "buffer"    => e \in SeqEvent /\ Decide(s, e.planID, e.seqID) = "BUFFER"
    /\ t.stage = "abort"     => e \in AbortEvent /\ DecideAbort(s, e.planID) = "APPLY"
    /\ t.stage = "tombstone" => e \in AbortEvent /\ DecideAbort(s, e.planID) = "TOMBSTONE"
    /\ t.stage = "drain"     => Drained(t, s, rows)
    /\ t.stage = "discard"   => Closing(t, s) /\ t.taken = {}
    /\ t.stage = "done"      => Whole(t, s, rows)

(* An open transaction: its request, its state, its rows and what it wrote. *)
GoodTx(t) ==
    LET e == t.event
        rows == pending[e.order][e.planID]
    IN /\ e \in Requests /\ t.text \in Texts
       /\ t.row # Unwritten => t.row.planID = e.planID /\ t.row.status \in Status
       /\ t.stage \notin {"locked", "failed"} => t.state = orders[e.order]
       /\ \A n \in t.taken : rows[n] # NoRow /\ <<e.order, e.planID, n>> \notin swept
       /\ Ready(t, orders[e.order], rows)

(* The advisory lock: one transaction at a time on an order. *)
Alone == \A v, w \in Txns :
            /\ tx[v].stage # "idle" /\ tx[w].stage # "idle"
            /\ tx[v].event.order = tx[w].event.order
            => v = w

TxInv ==
    /\ Inv
    /\ tx \in [Txns -> TxRecord]
    /\ swept \subseteq Buffered
    /\ Alone
    /\ \A w \in Txns : IF tx[w].stage = "idle" THEN tx[w] = NoTx ELSE GoodTx(tx[w])

-----------------------------------------------------------------------------
(* The record of a connection without a transaction. *)
LEMMA NoTxType == NoTx \in TxRecord /\ NoTx.stage = "idle" /\ Clean(NoTx)
  <1>1. NoOrder \in TxRow /\ NoOrder \in OrderState
    BY NoOrderIsOrderState DEF NoOrder, TxRow
  <1>2. <<>> \in Seq(Event) /\ {} \in SUBSET (1..MaxInt)
    OBVIOUS
  <1> QED
    BY <1>1, <1>2 DEF NoTx, TxRecord, Stage, Clean, Unwritten

(* A statement of one transaction leaves the others as they are. *)
LEMMA ProceedInv ==
    ASSUME TxInv, NEW w \in Txns, NEW t \in TxRecord, Proceed(w, t),
           IF t.stage = "idle" THEN t = NoTx ELSE GoodTx(t),
           t.stage # "idle" => \A v \in Txns : tx[v].stage # "idle"
                                               /\ tx[v].event.order = t.event.order => v = w
    PROVE  TxInv'
  <1>1. /\ tx' = [tx EXCEPT ![w] = t] /\ orders' = orders /\ pending' = pending
        /\ outbox' = outbox /\ swept' = swept /\ tx \in [Txns -> TxRecord]
    BY DEF Proceed, storeVars, TxInv
  <1>2. /\ tx' \in [Txns -> TxRecord] /\ tx'[w] = t
        /\ \A v \in Txns : v # w => tx'[v] = tx[v]
    BY <1>1
  <1>3. Inv'
    BY <1>1 DEF TxInv, Inv, TypeOK, LogTellsOrder, NoStalledSuccessor, RowMatchesKey
  <1>4. (swept \subseteq Buffered)'
    BY <1>1 DEF TxInv, Buffered
  <1>5. Alone'
    BY <1>2 DEF TxInv, Alone
  <1>6. (\A v \in Txns : IF tx[v].stage = "idle" THEN tx[v] = NoTx ELSE GoodTx(tx[v]))'
    <2> SUFFICES ASSUME NEW v \in Txns
                 PROVE  (IF tx[v].stage = "idle" THEN tx[v] = NoTx ELSE GoodTx(tx[v]))'
      OBVIOUS
    <2>1. CASE v = w
      BY <2>1, <1>1, <1>2 DEF GoodTx
    <2>2. CASE v # w
      BY <2>2, <1>1, <1>2, SMTT(30) DEF GoodTx, TxInv
    <2> QED
      BY <2>1, <2>2
  <1> QED
    BY <1>2, <1>3, <1>4, <1>5, <1>6 DEF TxInv
(* What the transaction of w has, in the invariant. *)
LEMMA OpenTx ==
    ASSUME TxInv, NEW w \in Txns, tx[w].stage # "idle"
    PROVE  /\ tx[w] \in TxRecord /\ GoodTx(tx[w])
           /\ tx[w].event \in Requests /\ tx[w].event \in Event
           /\ tx[w].event.order \in Orders /\ tx[w].event.planID \in Plans
           /\ \A v \in Txns : tx[v].stage # "idle"
                               /\ tx[v].event.order = tx[w].event.order => v = w
  <1>1. tx[w] \in TxRecord /\ GoodTx(tx[w])
    BY DEF TxInv
  <1>2. tx[w].event \in Requests /\ tx[w].event \in Event
    BY <1>1, RequestsAssumption DEF GoodTx
  <1>3. tx[w].event.order \in Orders /\ tx[w].event.planID \in Plans
    BY <1>2 DEF Event, SeqEvent, AbortEvent
  <1> QED
    BY <1>1, <1>2, <1>3 DEF TxInv, Alone

(* lockOrder: the lock is free, so no other transaction is on the order. *)
LEMMA LockOrderInv ==
    ASSUME OneSpelling, TxInv, NEW w \in Txns, NEW e \in Requests, NEW text \in Texts,
           LockOrder(w, e, text)
    PROVE  TxInv'
  <1> DEFINE t == [NoTx EXCEPT !.stage = "locked", !.event = e, !.text = text]
  <1>1. tx[w] = NoTx /\ LockFree(e, text) /\ Proceed(w, t)
    BY DEF LockOrder
  <1>2. e \in Event
    BY RequestsAssumption
  <1>3. /\ t.stage = "locked" /\ t.event = e /\ t.text = text /\ t.state = NoTx.state
        /\ t.row = NoTx.row /\ t.log = NoTx.log /\ t.taken = NoTx.taken /\ t.put = NoTx.put
    BY DEF NoTx
  <1>4. t \in TxRecord
    BY <1>2, NoTxType DEF TxRecord, Stage
  <1> HIDE DEF t
  <1>5. Clean(t)
    BY <1>3, NoTxType DEF Clean
  <1>6. GoodTx(t)
    BY <1>3, <1>5 DEF GoodTx, Ready, Clean
  <1>7. \A v \in Txns : tx[v].stage # "idle" => tx[v].event.order # e.order
    <2> SUFFICES ASSUME NEW v \in Txns, tx[v].stage # "idle", tx[v].event.order = e.order
                 PROVE  FALSE
      OBVIOUS
    <2>1. tx[v].text \in Texts
      BY DEF TxInv, GoodTx
    <2>2. tx[v].text # text
      BY <1>1 DEF LockFree, OfOrder
    <2> QED
      BY <2>1, <2>2 DEF OneSpelling
  <1> QED
    BY <1>1, <1>3, <1>4, <1>6, <1>7, ProceedInv

(* A statement of w that the invariant allows. *)
LEMMA StatementInv ==
    ASSUME TxInv, NEW w \in Txns, tx[w].stage # "idle", NEW t \in TxRecord, Proceed(w, t),
           t.event = tx[w].event, t.stage # "idle", GoodTx(t)
    PROVE  TxInv'
  BY OpenTx, ProceedInv

(* A statement that fails: the transaction can only be rolled back. *)
LEMMA FailedInv ==
    ASSUME TxInv, NEW w \in Txns, tx[w].stage # "idle", Proceed(w, Failed(tx[w]))
    PROVE  TxInv'
  <1> DEFINE t == Failed(tx[w])
  <1>1. tx[w] \in TxRecord /\ GoodTx(tx[w])
    BY OpenTx
  <1>2. /\ t \in TxRecord /\ t.stage = "failed" /\ t.event = tx[w].event
        /\ t.text = tx[w].text /\ t.row = tx[w].row /\ t.taken = tx[w].taken
    BY <1>1 DEF Failed, TxRecord, Stage
  <1> HIDE DEF t
  <1>3. GoodTx(t)
    BY <1>1, <1>2 DEF GoodTx, Ready
  <1> QED
    BY <1>2, <1>3, StatementInv DEF t

(* lockOrder reads the order, and the outcome follows. *)
LEMMA ReadOrderInv ==
    ASSUME TxInv, NEW w \in Txns, ReadOrder(w)
    PROVE  TxInv'
  <1> DEFINE e == tx[w].event
             s == orders[e.order]
             t == [tx[w] EXCEPT !.state = s, !.stage = NextStage(e, s)]
  <1>1. tx[w].stage = "locked" /\ Proceed(w, t)
    BY DEF ReadOrder
  <1>2. tx[w] \in TxRecord /\ GoodTx(tx[w]) /\ e \in Event /\ e.order \in Orders
    BY <1>1, OpenTx
  <1>3. s \in OrderState
    BY <1>2 DEF TxInv, Inv, TypeOK
  <1> DEFINE g == NextStage(e, s)
  <1>4. /\ g \in {"apply", "buffer", "abort", "tombstone", "done"}
        /\ g = "apply"     => e \in SeqEvent /\ Decide(s, e.planID, e.seqID) = "APPLY"
        /\ g = "buffer"    => e \in SeqEvent /\ Decide(s, e.planID, e.seqID) = "BUFFER"
        /\ g = "abort"     => e \in AbortEvent /\ DecideAbort(s, e.planID) = "APPLY"
        /\ g = "tombstone" => e \in AbortEvent /\ DecideAbort(s, e.planID) = "TOMBSTONE"
    BY <1>2 DEF NextStage, Event
  <1> HIDE DEF g
  <1>5. /\ t \in TxRecord /\ t.stage = g /\ t.event = e /\ t.state = s
        /\ t.text = tx[w].text /\ t.row = tx[w].row /\ t.log = tx[w].log
        /\ t.taken = tx[w].taken /\ t.put = tx[w].put
    BY <1>2, <1>3, <1>4 DEF TxRecord, Stage, g
  <1> HIDE DEF t
  <1>6. Clean(t) /\ Clean(tx[w])
    BY <1>1, <1>2, <1>5 DEF GoodTx, Ready, Clean
  <1>7. Ready(t, s, pending[e.order][e.planID])
    BY <1>4, <1>5, <1>6 DEF Ready, Whole
  <1>8. GoodTx(t)
    BY <1>2, <1>5, <1>6, <1>7 DEF GoodTx, Clean
  <1> QED
    BY <1>1, <1>4, <1>5, <1>8, StatementInv
(* The fields of a transaction after it has applied event x.                 *)
LEMMA AppliedFields ==
    ASSUME NEW t \in TxRecord, NEW x \in SeqEvent
    PROVE  LET u == Applied(t, x)
               st == StatusFromEventType(x.type)
           IN /\ u \in TxRecord /\ u.stage = "drain" /\ u.log = Append(t.log, x)
              /\ u.row = [exists |-> TRUE, planID |-> x.planID, lastSeq |-> x.seqID, status |-> st]
              /\ st \in Status
              /\ u.event = t.event /\ u.text = t.text /\ u.state = t.state
              /\ u.taken = t.taken /\ u.put = t.put
  <1> DEFINE st == StatusFromEventType(x.type)
             r  == [exists |-> TRUE, planID |-> x.planID, lastSeq |-> x.seqID, status |-> st]
  <1>1. x.planID \in Plans /\ x.seqID \in Nat /\ x.type \in SequencedType /\ x \in Event
    BY MaxIntAssumption, TypesAssumption DEF SeqEvent, Event
  <1>2. st \in Status
    BY <1>1, StatusOfType
  <1>3. r \in TxRow
    BY <1>1, <1>2 DEF TxRow
  <1>4. Append(t.log, x) \in Seq(Event)
    BY <1>1 DEF TxRecord
  <1> HIDE DEF r, st
  <1>5. Applied(t, x) = [t EXCEPT !.stage = "drain", !.row = r, !.log = Append(t.log, x)]
    BY DEF Applied, r, st
  <1> DEFINE u == [t EXCEPT !.stage = "drain", !.row = r, !.log = Append(t.log, x)]
  <1>6. /\ u \in TxRecord /\ u.stage = "drain" /\ u.log = Append(t.log, x) /\ u.row = r
        /\ u.event = t.event /\ u.text = t.text /\ u.state = t.state
        /\ u.taken = t.taken /\ u.put = t.put
    BY <1>3, <1>4 DEF TxRecord, Stage
  <1> QED
    BY <1>2, <1>5, <1>6 DEF r, st

(* applyEvent: a batch of one.                                               *)
LEMMA WriteOrderInv ==
    ASSUME TxInv, NEW w \in Txns, WriteOrder(w)
    PROVE  TxInv'
  <1> DEFINE e == tx[w].event
             s == orders[e.order]
             rows == pending[e.order][e.planID]
             t == Applied(tx[w], e)
  <1>1. tx[w].stage = "apply"
    BY DEF WriteOrder
  <1>2. tx[w] \in TxRecord /\ GoodTx(tx[w])
    BY <1>1, OpenTx
  <1>3. e \in SeqEvent /\ Decide(s, e.planID, e.seqID) = "APPLY" /\ Clean(tx[w])
    BY <1>1, <1>2 DEF GoodTx, Ready
  <1>4. CASE Proceed(w, Failed(tx[w]))
    BY <1>1, <1>4, FailedInv
  <1>5. CASE Proceed(w, t) /\ Applicable(e)
    <2>1. /\ t \in TxRecord /\ t.stage = "drain" /\ t.log = Append(tx[w].log, e)
          /\ t.row = [exists |-> TRUE, planID |-> e.planID, lastSeq |-> e.seqID,
                      status |-> StatusFromEventType(e.type)]
          /\ StatusFromEventType(e.type) \in Status
          /\ t.event = e /\ t.text = tx[w].text /\ t.state = tx[w].state
          /\ t.taken = tx[w].taken /\ t.put = tx[w].put
      BY <1>2, <1>3, AppliedFields
    <2> HIDE DEF t
    <2>2. e.seqID \in Nat
      BY <1>3, MaxIntAssumption DEF SeqEvent
    <2>3. t.log = Chain(e, rows, e.seqID)
      <3>1. [i \in 1..(e.seqID - e.seqID) |-> rows[e.seqID + i]] = <<>>
        BY <2>2
      <3>2. t.log = <<e>>
        BY <2>1, <1>3 DEF Clean
      <3>3. <<e>> \o <<>> = <<e>>
        OBVIOUS
      <3> QED
        BY <3>1, <3>2, <3>3 DEF Chain
    <2>4. t.taken = {} /\ (e.seqID + 1)..e.seqID = {}
      BY <2>1, <2>2, <1>3 DEF Clean
    <2>5. Drained(t, s, rows)
      <3> DEFINE m == t.row.lastSeq
      <3>1. m = e.seqID
        BY <2>1
      <3>2. ~t.put
        BY <1>3, <2>1 DEF Clean
      <3>3. t.row = [exists |-> TRUE, planID |-> e.planID, lastSeq |-> m,
                     status |-> StatusFromEventType(IF m = e.seqID THEN e.type ELSE rows[m].type)]
        BY <2>1, <3>1
      <3>4. /\ t.taken = (e.seqID + 1)..m
            /\ \A n \in (e.seqID + 1)..m : rows[n] # NoRow /\ Applicable(rows[n])
            /\ t.log = Chain(e, rows, m)
        BY <2>3, <2>4, <3>1
      <3>5. m \in Nat /\ m >= e.seqID /\ (m = e.seqID \/ m <= MaxInt)
        BY <2>2, <3>1
      <3> HIDE DEF m
      <3> QED
        BY <1>3, <1>5, <2>1, <3>2, <3>3, <3>4, <3>5 DEF Drained, m
    <2>6. GoodTx(t)
      <3>1. Ready(t, s, rows)
        BY <2>1, <2>5 DEF Ready
      <3> QED
        BY <1>1, <1>2, <2>1, <2>4, <3>1, SMTT(30) DEF GoodTx
    <2> QED
      BY <1>1, <1>5, <2>1, <2>6, StatementInv
  <1> QED
    BY <1>4, <1>5 DEF WriteOrder

(* One more row at the end of a batch.                                       *)
LEMMA ChainGrows ==
    ASSUME NEW e, NEW rows, NEW m \in Nat, e.seqID \in Nat, m >= e.seqID, NEW n, n = m + 1
    PROVE  Append(Chain(e, rows, m), rows[n]) = Chain(e, rows, n)
  <1> DEFINE k == e.seqID
             a == [i \in 1..(m - k) |-> rows[k + i]]
             b == [i \in 1..(n - k) |-> rows[k + i]]
             S == {e} \cup {rows[i] : i \in Nat}
             y == rows[n]
             l == m - k
  <1>1. a \in Seq(S) /\ Len(a) = m - k
    BY SMTT(30)
  <1>2. b \in Seq(S) /\ Len(b) = n - k
    OBVIOUS
  <1>3. \A i \in 1..(m - k) : a[i] = b[i]
    OBVIOUS
  <1>4. b[n - k] = y
    OBVIOUS
  <1>5. e \in S /\ y \in S
    OBVIOUS
  <1>6. l \in Nat /\ l + 1 = n - k
    OBVIOUS
  <1> HIDE DEF a, b, S, y, l
  <1>7. Append(a, y) = b
    BY <1>1, <1>2, <1>3, <1>4, <1>5, <1>6 DEF l
  <1>8. Append(<<e>> \o a, y) = <<e>> \o Append(a, y)
    BY <1>1, <1>5
  <1> QED
    BY <1>7, <1>8 DEF a, b, y, Chain

(* drainPending: the batch ends, fails, or has one event more.               *)
LEMMA DrainNextInv ==
    ASSUME TxInv, NEW w \in Txns, DrainNext(w)
    PROVE  TxInv'
  <1> DEFINE t == tx[w]
             e == t.event
             s == orders[e.order]
             rows == pending[e.order][e.planID]
             m == t.row.lastSeq
             r == Row(e, m + 1)
             end == [t EXCEPT !.stage = "done"]
             u == Applied(t, r)
             more == [u EXCEPT !.taken = @ \cup {m + 1}]
  <1>1. /\ t.stage = "drain"
        /\ m + 1 <= MaxInt => Deletable(w, <<e.order, e.planID, m + 1>>)
        /\ Proceed(w, IF m + 1 > MaxInt THEN Failed(t)
                      ELSE IF r = NoRow THEN end
                      ELSE IF ~Applicable(r) THEN Failed(t) ELSE more)
    BY DEF DrainNext
  <1>2. t \in TxRecord /\ GoodTx(t)
    BY <1>1, OpenTx
  <1>3. Drained(t, s, rows)
    BY <1>1, <1>2 DEF GoodTx, Ready
  <1>4. e \in SeqEvent /\ e.seqID \in Nat /\ m \in Nat /\ m >= e.seqID /\ MaxInt \in Nat
    <2>1. e \in SeqEvent /\ m \in Nat /\ m >= e.seqID
      BY <1>3 DEF Drained
    <2>2. e.seqID \in 1..(MaxInt + 1)
      BY <2>1 DEF SeqEvent
    <2> QED
      BY <2>1, <2>2, MaxIntAssumption
  <1>5. CASE Proceed(w, Failed(t))
    BY <1>1, <1>5, FailedInv
  <1>6. CASE Proceed(w, end) /\ m + 1 <= MaxInt /\ r = NoRow
    <2>1. /\ end \in TxRecord /\ end.stage = "done" /\ end.event = e /\ end.text = t.text
          /\ end.state = t.state /\ end.row = t.row /\ end.log = t.log
          /\ end.taken = t.taken /\ end.put = t.put
      BY <1>2 DEF TxRecord, Stage
    <2> HIDE DEF end
    <2>2. Drained(end, s, rows)
      BY <1>3, <2>1 DEF Drained
    <2>3. rows[m + 1] = NoRow /\ m < MaxInt
      BY <1>4, <1>6 DEF Row
    <2>4. Ready(end, s, rows)
      BY <2>1, <2>2, <2>3 DEF Ready, Whole
    <2>5. GoodTx(end)
      BY <1>1, <1>2, <2>1, <2>4 DEF GoodTx
    <2> QED
      BY <1>1, <1>6, <2>1, <2>5, StatementInv
  <1>7. CASE Proceed(w, more) /\ m + 1 <= MaxInt /\ r # NoRow /\ Applicable(r)
    <2>1. m + 1 \in 1..MaxInt
      BY <1>4, <1>7
    <2>2. r \in SeqEvent /\ r.planID = e.planID /\ r.seqID = m + 1 /\ r = rows[m + 1]
      <3>1. TypeOK /\ RowMatchesKey
        BY DEF TxInv, Inv
      <3>2. r = rows[m + 1]
        BY DEF Row
      <3> QED
        BY <1>4, <1>7, <2>1, <3>1, <3>2, RowType
    <2> DEFINE st == StatusFromEventType(r.type)
    <2>3. /\ u \in TxRecord /\ u.stage = "drain" /\ u.log = Append(t.log, r)
          /\ u.row = [exists |-> TRUE, planID |-> r.planID, lastSeq |-> r.seqID, status |-> st]
          /\ st \in Status
          /\ u.event = e /\ u.text = t.text /\ u.state = t.state
          /\ u.taken = t.taken /\ u.put = t.put
      BY <1>2, <2>2, AppliedFields
    <2> HIDE DEF u, st
    <2>4. /\ more \in TxRecord /\ more.stage = "drain" /\ more.log = u.log /\ more.row = u.row
          /\ more.event = e /\ more.text = t.text /\ more.state = t.state
          /\ more.taken = t.taken \cup {m + 1} /\ more.put = t.put
      BY <2>1, <2>3 DEF TxRecord
    <2> HIDE DEF more
    <2> DEFINE n == more.row.lastSeq
    <2>5. n = m + 1 /\ n # e.seqID
      BY <1>4, <2>2, <2>3, <2>4, SMTT(30)
    <2>6. more.row = [exists |-> TRUE, planID |-> e.planID, lastSeq |-> n,
                      status |-> StatusFromEventType(IF n = e.seqID THEN e.type ELSE rows[n].type)]
      <3>1. st = StatusFromEventType(IF n = e.seqID THEN e.type ELSE rows[n].type)
        BY <2>2, <2>5 DEF st
      <3> QED
        BY <2>2, <2>3, <2>4, <2>5, <3>1
    <2>7. more.log = Chain(e, rows, n)
      <3>1. more.log = Append(Chain(e, rows, m), rows[n])
        BY <1>3, <2>2, <2>3, <2>4, <2>5 DEF Drained
      <3> HIDE DEF rows, m, n
      <3> QED
        BY <1>4, <2>5, <3>1, ChainGrows
    <2>8. /\ more.taken = (e.seqID + 1)..n
          /\ \A x \in (e.seqID + 1)..n : rows[x] # NoRow /\ Applicable(rows[x])
      <3>1. /\ t.taken = (e.seqID + 1)..m
            /\ \A x \in (e.seqID + 1)..m : rows[x] # NoRow /\ Applicable(rows[x])
        BY <1>3 DEF Drained
      <3>2. rows[m + 1] # NoRow /\ Applicable(rows[m + 1])
        BY <1>7, <2>2
      <3>3. (e.seqID + 1)..n = ((e.seqID + 1)..m) \cup {m + 1}
        BY <1>4, <2>5
      <3> HIDE DEF rows, m, n
      <3> QED
        BY <2>4, <3>1, <3>2, <3>3
    <2>9. Drained(more, s, rows)
      <3>1. n \in Nat /\ n >= e.seqID /\ n <= MaxInt
        BY <1>4, <1>7, <2>5
      <3> HIDE DEF n, rows
      <3> QED
        BY <1>3, <2>4, <2>6, <2>7, <2>8, <3>1 DEF Drained, n
    <2>10. GoodTx(more)
      <3>1. Ready(more, s, rows)
        BY <2>4, <2>9 DEF Ready
      <3>2. more.row.planID = e.planID /\ more.row.status \in Status
        BY <2>2, <2>3, <2>4, SMTT(30)
      <3>3. <<e.order, e.planID, m + 1>> \notin swept /\ rows[m + 1] # NoRow
        BY <1>1, <1>7, <2>2 DEF Deletable
      <3>4. \A x \in more.taken : rows[x] # NoRow /\ <<e.order, e.planID, x>> \notin swept
        BY <1>2, <2>4, <3>3 DEF GoodTx
      <3> QED
        BY <1>1, <1>2, <2>4, <3>1, <3>2, <3>4 DEF GoodTx
    <2> QED
      BY <1>1, <1>7, <2>4, <2>10, StatementInv
  <1> QED
    <2>1. ~(m + 1 > MaxInt) => m + 1 <= MaxInt
      BY <1>4
    <2> QED
      BY <1>1, <1>5, <1>6, <1>7, <2>1
(* bufferEvent: a row that was there already stays.                          *)
LEMMA BufferRowInv ==
    ASSUME TxInv, NEW w \in Txns, BufferRow(w)
    PROVE  TxInv'
  <1> DEFINE t == tx[w]
             e == t.event
             s == orders[e.order]
             rows == pending[e.order][e.planID]
             put == Row(e, e.seqID) = NoRow
             u == [t EXCEPT !.stage = "done", !.put = put]
  <1>1. /\ t.stage = "buffer"
        /\ Proceed(w, IF e.seqID > MaxInt \/ ~Storable(e) THEN Failed(t) ELSE u)
    BY DEF BufferRow
  <1>2. t \in TxRecord /\ GoodTx(t)
    BY <1>1, OpenTx
  <1>3. e \in SeqEvent /\ Decide(s, e.planID, e.seqID) = "BUFFER" /\ Clean(t)
    BY <1>1, <1>2 DEF GoodTx, Ready
  <1>4. CASE Proceed(w, Failed(t))
    BY <1>1, <1>4, FailedInv
  <1>5. CASE Proceed(w, u) /\ ~(e.seqID > MaxInt) /\ Storable(e)
    <2>1. e.seqID <= MaxInt
      BY <1>3, <1>5, MaxIntAssumption DEF SeqEvent
    <2>2. put \in BOOLEAN
      OBVIOUS
    <2> HIDE DEF put
    <2>3. /\ u \in TxRecord /\ u.stage = "done" /\ u.event = e /\ u.text = t.text
          /\ u.state = t.state /\ u.row = t.row /\ u.log = t.log /\ u.taken = t.taken
      BY <1>2, <2>2 DEF TxRecord, Stage
    <2>4. u.put = put
      BY <1>2, <2>2 DEF TxRecord
    <2> HIDE DEF u
    <2>5. Whole(u, s, rows)
      <3>1. CASE put
        <4>1. rows[e.seqID] = NoRow /\ u.put
          BY <2>4, <3>1 DEF put, Row
        <4>2. Buffering(u, s, rows)
          BY <1>3, <1>5, <2>1, <2>3, <4>1 DEF Buffering, Clean
        <4> QED
          BY <4>2 DEF Whole
      <3>2. CASE ~put
        BY <1>3, <2>3, <2>4, <3>2 DEF Whole, Clean
      <3> QED
        BY <3>1, <3>2
    <2>6. Ready(u, s, rows)
      BY <2>3, <2>5 DEF Ready
    <2>7. GoodTx(u)
      BY <1>1, <1>2, <2>3, <2>6 DEF GoodTx
    <2> QED
      BY <1>1, <1>5, <2>3, <2>7, StatementInv
  <1> QED
    BY <1>1, <1>4, <1>5

(* The order row of an abort, and the fields of its transaction.             *)
LEMMA ClosingInv ==
    ASSUME TxInv, NEW w \in Txns, tx[w].stage \in {"abort", "tombstone"},
           NEW r \in TxRow, NEW log \in Seq(Event),
           LET e == tx[w].event IN
             /\ Storable(e) /\ r.planID = e.planID /\ r.status = "aborted"
             /\ \/ /\ tx[w].stage = "abort" /\ log = <<e>>
                   /\ r = [orders[e.order] EXCEPT !.status = "aborted"]
                \/ /\ tx[w].stage = "tombstone" /\ log = <<>>
                   /\ r = [exists |-> TRUE, planID |-> e.planID, lastSeq |-> 0, status |-> "aborted"],
           Proceed(w, [tx[w] EXCEPT !.stage = "discard", !.log = log, !.row = r])
    PROVE  TxInv'
  <1> DEFINE t == tx[w]
             e == t.event
             s == orders[e.order]
             u == [t EXCEPT !.stage = "discard", !.log = log, !.row = r]
  <1>1. t \in TxRecord /\ GoodTx(t)
    BY OpenTx
  <1>2. /\ u \in TxRecord /\ u.stage = "discard" /\ u.log = log /\ u.row = r /\ u.event = e
        /\ u.text = t.text /\ u.state = t.state /\ u.taken = t.taken /\ u.put = t.put
    BY <1>1 DEF TxRecord, Stage
  <1> HIDE DEF u
  <1>3. /\ Clean(t) /\ e \in AbortEvent
        /\ t.stage = "abort" => DecideAbort(s, e.planID) = "APPLY"
        /\ t.stage = "tombstone" => DecideAbort(s, e.planID) = "TOMBSTONE"
    BY <1>1 DEF GoodTx, Ready
  <1>4. Closing(u, s) /\ u.taken = {}
    BY <1>2, <1>3 DEF Closing, Clean
  <1>5. Ready(u, s, pending[e.order][e.planID])
    BY <1>2, <1>4 DEF Ready
  <1>6. r.status \in Status
    BY DEF Status
  <1>7. GoodTx(u)
    BY <1>1, <1>2, <1>4, <1>5, <1>6 DEF GoodTx
  <1> QED
    BY <1>2, <1>7, StatementInv DEF u

LEMMA AbortRowInv ==
    ASSUME TxInv, NEW w \in Txns, AbortRow(w)
    PROVE  TxInv'
  <1> DEFINE t == tx[w]
             e == t.event
             s == orders[e.order]
             r == [s EXCEPT !.status = "aborted"]
             log == <<e>>
  <1>1. t.stage = "abort"
    BY DEF AbortRow
  <1>2. CASE Proceed(w, Failed(t))
    BY <1>1, <1>2, FailedInv
  <1>3. CASE Storable(e) /\ Proceed(w, [t EXCEPT !.stage = "discard", !.log = log, !.row = r])
    <2>1. GoodTx(t) /\ e \in Event /\ e.order \in Orders
      BY <1>1, OpenTx
    <2>2. e \in AbortEvent /\ DecideAbort(s, e.planID) = "APPLY"
      BY <1>1, <2>1 DEF GoodTx, Ready
    <2>3. s \in OrderState
      BY <2>1 DEF TxInv, Inv, TypeOK
    <2>4. s.planID = e.planID
      <3>1. s.exists \in BOOLEAN
        BY <2>3 DEF OrderState
      <3> QED
        BY <2>2, <3>1, DecideAbortCases DEF Owns
    <2>5. s.lastSeq \in Nat
      BY <2>3, OrderStateFields
    <2>6. r \in TxRow /\ r.planID = e.planID /\ r.status = "aborted"
      BY <2>3, <2>4, <2>5 DEF OrderState, TxRow, Status
    <2>7. log \in Seq(Event)
      BY <2>1
    <2> QED
      BY <1>1, <1>3, <2>6, <2>7, ClosingInv
  <1> QED
    BY <1>2, <1>3 DEF AbortRow

LEMMA TombstoneRowInv ==
    ASSUME TxInv, NEW w \in Txns, TombstoneRow(w)
    PROVE  TxInv'
  <1> DEFINE t == tx[w]
             e == t.event
             r == [exists |-> TRUE, planID |-> e.planID, lastSeq |-> 0, status |-> "aborted"]
             log == <<>>
             u == [t EXCEPT !.stage = "discard", !.log = log, !.row = r]
  <1>1. t.stage = "tombstone"
    BY DEF TombstoneRow
  <1>2. t \in TxRecord /\ GoodTx(t) /\ e \in Event /\ e.planID \in Plans
    BY <1>1, OpenTx
  <1>3. CASE Proceed(w, Failed(t))
    BY <1>1, <1>3, FailedInv
  <1>4. CASE Storable(e) /\ Proceed(w, [t EXCEPT !.stage = "discard", !.row = r])
    <2>1. t.log = log
      BY <1>1, <1>2 DEF GoodTx, Ready, Clean
    <2>2. r \in TxRow /\ r.planID = e.planID /\ r.status = "aborted" /\ log \in Seq(Event)
      <3>1. "aborted" \in Status /\ 0 \in Nat
        BY DEF Status
      <3>2. r \in TxRow
        BY <1>2, <3>1 DEF TxRow
      <3>3. log \in Seq(Event)
        OBVIOUS
      <3> QED
        BY <3>2, <3>3
    <2> HIDE DEF r, log
    <2>3. u = [t EXCEPT !.stage = "discard", !.row = r]
      BY <1>2, <2>1 DEF TxRecord
    <2> QED
      BY <1>1, <1>4, <2>2, <2>3, ClosingInv DEF r, log
  <1> QED
    BY <1>3, <1>4 DEF TombstoneRow

(* The abort deletes all rows of its plan, which nobody else holds.          *)
LEMMA DiscardRowsInv ==
    ASSUME TxInv, NEW w \in Txns, DiscardRows(w)
    PROVE  TxInv'
  <1> DEFINE t == tx[w]
             e == t.event
             s == orders[e.order]
             rows == pending[e.order][e.planID]
             u == [t EXCEPT !.stage = "done", !.taken = Present(rows)]
  <1>1. /\ t.stage = "discard" /\ Proceed(w, u)
        /\ \A n \in Present(rows) : Deletable(w, <<e.order, e.planID, n>>)
    BY DEF DiscardRows, Present, Row
  <1>2. t \in TxRecord /\ GoodTx(t)
    BY <1>1, OpenTx
  <1>3. Present(rows) \in SUBSET (1..MaxInt)
    BY DEF Present
  <1>4. /\ u \in TxRecord /\ u.stage = "done" /\ u.event = e /\ u.text = t.text
        /\ u.state = t.state /\ u.row = t.row /\ u.log = t.log
        /\ u.taken = Present(rows) /\ u.put = t.put
    BY <1>2, <1>3 DEF TxRecord, Stage
  <1> HIDE DEF u
  <1>5. Closing(t, s)
    BY <1>1, <1>2 DEF GoodTx, Ready
  <1>6. Closing(u, s)
    BY <1>4, <1>5 DEF Closing
  <1>7. Ready(u, s, rows)
    BY <1>4, <1>6 DEF Ready, Whole
  <1>8. \A n \in u.taken : rows[n] # NoRow /\ <<e.order, e.planID, n>> \notin swept
    BY <1>1, <1>4 DEF Present, Deletable
  <1>9. GoodTx(u)
    BY <1>1, <1>2, <1>4, <1>7, <1>8 DEF GoodTx
  <1> QED
    BY <1>1, <1>4, <1>9, StatementInv

LEMMA RollbackInv ==
    ASSUME TxInv, NEW w \in Txns, Rollback(w)
    PROVE  TxInv'
  BY NoTxType, ProceedInv DEF Rollback
(* A sweep locks only rows that no transaction has deleted.                  *)
LEMMA SweepSelectInv ==
    ASSUME TxInv, SweepSelect
    PROVE  TxInv'
  <1>1. PICK rows \in SUBSET Selectable : swept' = swept \cup rows
    BY DEF SweepSelect
  <1>2. orders' = orders /\ pending' = pending /\ outbox' = outbox /\ tx' = tx
    BY DEF SweepSelect, storeVars
  <1>3. Inv'
    BY <1>2 DEF TxInv, Inv, TypeOK, LogTellsOrder, NoStalledSuccessor, RowMatchesKey
  <1>4. (swept \subseteq Buffered)'
    BY <1>1, <1>2 DEF TxInv, Buffered, Selectable
  <1>5. (tx \in [Txns -> TxRecord])' /\ Alone'
    BY <1>2 DEF TxInv, Alone
  <1>6. ASSUME NEW w \in Txns, tx[w].stage # "idle"
        PROVE  GoodTx(tx[w])'
    <2> DEFINE t == tx[w]
               e == t.event
    <2>1. GoodTx(t)
      BY <1>6, OpenTx
    <2>2. ASSUME NEW n \in t.taken, <<e.order, e.planID, n>> \in rows
          PROVE  FALSE
      <3>1. Deleters(<<e.order, e.planID, n>>) = {}
        BY <2>2 DEF Selectable
      <3>2. w \in Deleters(<<e.order, e.planID, n>>)
        BY <1>6, <2>2 DEF Deleters, OfOrder
      <3> QED
        BY <3>1, <3>2
    <2>3. \A n \in t.taken : <<e.order, e.planID, n>> \notin swept'
      BY <1>1, <2>1, <2>2 DEF GoodTx
    <2> QED
      BY <1>2, <2>1, <2>3 DEF GoodTx
  <1>7. (\A w \in Txns : IF tx[w].stage = "idle" THEN tx[w] = NoTx ELSE GoodTx(tx[w]))'
    BY <1>2, <1>6 DEF TxInv
  <1> QED
    BY <1>3, <1>4, <1>5, <1>7 DEF TxInv

(* What a transaction has written stays right when rows of the buffer that   *)
(* it has not deleted go.                                                    *)
LEMMA DrainedStays ==
    ASSUME NEW t, NEW s, NEW rows, NEW kept, Drained(t, s, rows),
           \A n \in t.taken : kept[n] = rows[n]
    PROVE  Drained(t, s, kept)
  <1> DEFINE e == t.event
             m == t.row.lastSeq
  <1>1. /\ e \in SeqEvent /\ m \in Nat /\ m >= e.seqID /\ t.taken = (e.seqID + 1)..m
        /\ t.log = Chain(e, rows, m)
    BY DEF Drained
  <1>2. e.seqID \in Nat
    BY <1>1, MaxIntAssumption DEF SeqEvent
  <1>3. \A n \in (e.seqID + 1)..m : kept[n] = rows[n]
    BY <1>1
  <1>4. \A i \in 1..(m - e.seqID) : kept[e.seqID + i] = rows[e.seqID + i]
    BY <1>1, <1>2, <1>3
  <1>5. Chain(e, kept, m) = Chain(e, rows, m)
    BY <1>4 DEF Chain
  <1>6. (IF m = e.seqID THEN e.type ELSE kept[m].type) = (IF m = e.seqID THEN e.type ELSE rows[m].type)
    BY <1>1, <1>2, <1>3
  <1> QED
    BY <1>3, <1>5, <1>6 DEF Drained

LEMMA ReadyStays ==
    ASSUME NEW t \in TxRecord, NEW s, NEW rows, NEW kept, Ready(t, s, rows),
           \A n \in t.taken : kept[n] = rows[n],
           \A n \in 1..MaxInt : kept[n] = rows[n] \/ kept[n] = NoRow
    PROVE  Ready(t, s, kept)
  <1>1. Drained(t, s, rows) => Drained(t, s, kept)
    BY DrainedStays
  <1>2. ASSUME Drained(t, s, rows), t.row.lastSeq < MaxInt, rows[t.row.lastSeq + 1] = NoRow
        PROVE  kept[t.row.lastSeq + 1] = NoRow
    <2>1. t.row.lastSeq \in Nat
      BY <1>2 DEF Drained
    <2>2. t.row.lastSeq + 1 \in 1..MaxInt
      BY <1>2, <2>1, MaxIntAssumption
    <2> QED
      BY <1>2, <2>2
  <1>3. t.taken = Present(rows) => t.taken = Present(kept)
    BY DEF Present
  <1>4. Buffering(t, s, rows) => Buffering(t, s, kept)
    BY MaxIntAssumption DEF Buffering, SeqEvent
  <1>5. Whole(t, s, rows) => Whole(t, s, kept)
    BY <1>1, <1>2, <1>3, <1>4 DEF Whole
  <1> QED
    BY <1>1, <1>5 DEF Ready

(* A sweep deletes rows that it holds, and so no transaction has.            *)
LEMMA SweepEndInv ==
    ASSUME TxInv, SweepEnd
    PROVE  TxInv' /\ [StoreNext]_storeVars
  <1>1. PICK rows \in SUBSET swept :
          swept' = swept \ rows /\ (ExpirePending(rows) \/ UNCHANGED storeVars)
    BY DEF SweepEnd
  <1>2. tx' = tx /\ orders' = orders /\ outbox' = outbox
    BY <1>1 DEF SweepEnd, ExpirePending, storeVars
  <1>3. [StoreNext]_storeVars
    BY <1>1 DEF TxInv, StoreNext
  <1>4. Inv'
    BY <1>3, NextInv DEF TxInv
  <1>5. \A o \in Orders, p \in Plans, n \in 1..MaxInt :
          /\ <<o, p, n>> \notin rows => pending'[o][p][n] = pending[o][p][n]
          /\ pending'[o][p][n] = pending[o][p][n] \/ pending'[o][p][n] = NoRow
    <2> SUFFICES ASSUME NEW o \in Orders, NEW p \in Plans, NEW n \in 1..MaxInt
                 PROVE  /\ <<o, p, n>> \notin rows => pending'[o][p][n] = pending[o][p][n]
                        /\ pending'[o][p][n] = pending[o][p][n] \/ pending'[o][p][n] = NoRow
      OBVIOUS
    <2>1. CASE UNCHANGED storeVars
      BY <2>1 DEF storeVars
    <2>2. CASE ExpirePending(rows)
      <3> DEFINE S == {x \in 1..MaxInt : <<o, p, x>> \in rows}
      <3>1. pending'[o][p] = Without(o, p, S)
        BY <2>2 DEF ExpirePending
      <3> HIDE DEF S
      <3>2. pending'[o][p][n] = IF n \in S THEN NoRow ELSE pending[o][p][n]
        BY <3>1 DEF Without
      <3> QED
        BY <3>2 DEF S
    <2> QED
      BY <1>1, <2>1, <2>2
  <1>6. (swept \subseteq Buffered)'
    <2> SUFFICES ASSUME NEW k \in swept' PROVE k \in Buffered'
      OBVIOUS
    <2>1. k \in Buffered /\ k \notin rows
      BY <1>1 DEF TxInv
    <2>2. /\ k = <<k[1], k[2], k[3]>> /\ k[1] \in Orders /\ k[2] \in Plans /\ k[3] \in 1..MaxInt
          /\ pending[k[1]][k[2]][k[3]] # NoRow /\ k \in Orders \X Plans \X (1..MaxInt)
      BY <2>1 DEF Buffered
    <2> QED
      BY <1>5, <2>1, <2>2 DEF Buffered
  <1>7. (tx \in [Txns -> TxRecord])' /\ Alone'
    BY <1>2 DEF TxInv, Alone
  <1>8. ASSUME NEW w \in Txns, tx[w].stage # "idle"
        PROVE  GoodTx(tx[w])'
    <2> DEFINE t == tx[w]
               e == t.event
               now == pending[e.order][e.planID]
               next == pending'[e.order][e.planID]
    <2>1. t \in TxRecord /\ GoodTx(t) /\ e.order \in Orders /\ e.planID \in Plans
      BY <1>8, OpenTx
    <2>2. t.taken \subseteq 1..MaxInt
      BY <2>1 DEF TxRecord
    <2>3. \A n \in t.taken : next[n] = now[n]
      BY <1>1, <1>5, <2>1, <2>2 DEF GoodTx
    <2>4. \A n \in 1..MaxInt : next[n] = now[n] \/ next[n] = NoRow
      BY <1>5, <2>1
    <2>5. Ready(t, orders[e.order], now)
      BY <2>1 DEF GoodTx
    <2> HIDE DEF t, now, next
    <2>6. Ready(t, orders[e.order], next)
      BY <2>1, <2>3, <2>4, <2>5, ReadyStays
    <2> QED
      BY <1>1, <1>2, <2>1, <2>3, <2>6 DEF GoodTx, t, now, next
  <1>9. (\A w \in Txns : IF tx[w].stage = "idle" THEN tx[w] = NoTx ELSE GoodTx(tx[w]))'
    BY <1>2, <1>8 DEF TxInv
  <1> QED
    BY <1>3, <1>4, <1>6, <1>7, <1>9 DEF TxInv
(* What a commit makes of the rows of its plan.                              *)
LEMMA CommitRows ==
    ASSUME TxInv, NEW w \in Txns, Commit(w)
    PROVE  LET t == tx[w]
               e == t.event
           IN /\ t \in TxRecord /\ GoodTx(t) /\ e.order \in Orders /\ e.planID \in Plans
              /\ Whole(t, orders[e.order], pending[e.order][e.planID])
              /\ \A o \in Orders, p \in Plans, n \in 1..MaxInt :
                    pending'[o][p][n] =
                       IF o = e.order /\ p = e.planID
                       THEN IF t.put /\ n = e.seqID THEN e
                            ELSE IF n \in t.taken THEN NoRow ELSE pending[o][p][n]
                       ELSE pending[o][p][n]
              /\ \A o \in Orders : o # e.order => pending'[o] = pending[o] /\ orders'[o] = orders[o]
  <1> DEFINE t == tx[w]
             e == t.event
             f == [n \in 1..MaxInt |-> IF t.put /\ n = e.seqID THEN e
                                       ELSE Without(e.order, e.planID, t.taken)[n]]
  <1>1. /\ t.stage = "done"
        /\ orders' = IF t.row = Unwritten THEN orders ELSE [orders EXCEPT ![e.order] = t.row]
        /\ pending' = [pending EXCEPT ![e.order][e.planID] = f]
    BY DEF Commit
  <1>2. t \in TxRecord /\ GoodTx(t) /\ e.order \in Orders /\ e.planID \in Plans
    BY <1>1, OpenTx
  <1>3. Whole(t, orders[e.order], pending[e.order][e.planID])
    BY <1>1, <1>2 DEF GoodTx, Ready
  <1>4. /\ orders \in [Orders -> OrderState]
        /\ pending \in [Orders -> [Plans -> [1..MaxInt -> SeqEvent \cup {NoRow}]]]
    BY DEF TxInv, Inv, TypeOK
  <1>5. \A n \in 1..MaxInt : f[n] = IF t.put /\ n = e.seqID THEN e
                                    ELSE IF n \in t.taken THEN NoRow ELSE pending[e.order][e.planID][n]
    BY DEF Without
  <1> HIDE DEF f
  <1>6. \A o \in Orders : o # e.order => pending'[o] = pending[o] /\ orders'[o] = orders[o]
    BY <1>1, <1>2, <1>4
  <1>7. \A p \in Plans : pending'[e.order][p] = IF p = e.planID THEN f ELSE pending[e.order][p]
    BY <1>1, <1>2, <1>4
  <1>8. \A o \in Orders, p \in Plans, n \in 1..MaxInt :
           pending'[o][p][n] = IF o = e.order /\ p = e.planID
                               THEN IF t.put /\ n = e.seqID THEN e
                                    ELSE IF n \in t.taken THEN NoRow ELSE pending[o][p][n]
                               ELSE pending[o][p][n]
    BY <1>5, <1>6, <1>7
  <1> QED
    BY <1>2, <1>3, <1>6, <1>8

(* Once the tables are known to be those of a step of OrderStore, the rest   *)
(* of the invariant follows: the other transactions are on other orders.     *)
LEMMA CommitKeeps ==
    ASSUME TxInv, NEW w \in Txns, Commit(w), [StoreNext]_storeVars
    PROVE  TxInv'
  <1> DEFINE t == tx[w]
             e == t.event
  <1>1. /\ t \in TxRecord /\ GoodTx(t) /\ e.order \in Orders /\ e.planID \in Plans
        /\ \A o \in Orders, p \in Plans, n \in 1..MaxInt :
              pending'[o][p][n] = IF o = e.order /\ p = e.planID
                                  THEN IF t.put /\ n = e.seqID THEN e
                                       ELSE IF n \in t.taken THEN NoRow ELSE pending[o][p][n]
                                  ELSE pending[o][p][n]
        /\ \A o \in Orders : o # e.order => pending'[o] = pending[o] /\ orders'[o] = orders[o]
    BY CommitRows
  <1>2. t.stage = "done" /\ tx' = [tx EXCEPT ![w] = NoTx] /\ swept' = swept
    BY DEF Commit
  <1>3. /\ tx' \in [Txns -> TxRecord] /\ tx'[w] = NoTx
        /\ \A v \in Txns : v # w => tx'[v] = tx[v]
    BY <1>2, NoTxType DEF TxInv
  <1>4. Inv'
    BY NextInv DEF TxInv
  <1>5. (swept \subseteq Buffered)'
    <2> SUFFICES ASSUME NEW k \in swept PROVE k \in Buffered'
      BY <1>2
    <2>1. /\ k = <<k[1], k[2], k[3]>> /\ k[1] \in Orders /\ k[2] \in Plans /\ k[3] \in 1..MaxInt
          /\ pending[k[1]][k[2]][k[3]] # NoRow /\ k \in Orders \X Plans \X (1..MaxInt)
      BY DEF TxInv, Buffered
    <2>2. k[1] = e.order /\ k[2] = e.planID => k[3] \notin t.taken
      <3> SUFFICES ASSUME k[1] = e.order, k[2] = e.planID, k[3] \in t.taken PROVE FALSE
        OBVIOUS
      <3>1. <<e.order, e.planID, k[3]>> \notin swept
        BY <1>1 DEF GoodTx
      <3>2. k = <<e.order, e.planID, k[3]>>
        BY <2>1
      <3> QED
        BY <3>1, <3>2
    <2>3. e # NoRow
      BY <1>1, RequestsAssumption, NoRowAssumption DEF GoodTx
    <2>4. pending'[k[1]][k[2]][k[3]] # NoRow
      BY <1>1, <2>1, <2>2, <2>3
    <2> QED
      BY <2>1, <2>4 DEF Buffered
  <1>6. Alone'
    BY <1>3, NoTxType DEF TxInv, Alone
  <1>7. ASSUME NEW v \in Txns, v # w, tx[v].stage # "idle"
        PROVE  GoodTx(tx[v])'
    <2>1. GoodTx(tx[v]) /\ tx[v].event.order \in Orders
      BY <1>7, OpenTx
    <2>2. tx[v].event.order # e.order
      BY <1>2, <1>7 DEF TxInv, Alone
    <2>3. /\ pending'[tx[v].event.order] = pending[tx[v].event.order]
          /\ orders'[tx[v].event.order] = orders[tx[v].event.order]
      BY <1>1, <2>1, <2>2
    <2> QED
      BY <1>2, <1>3, <1>7, <2>1, <2>3 DEF GoodTx
  <1>8. (\A v \in Txns : IF tx[v].stage = "idle" THEN tx[v] = NoTx ELSE GoodTx(tx[v]))'
    BY <1>3, <1>7, NoTxType DEF TxInv
  <1> QED
    BY <1>3, <1>4, <1>5, <1>6, <1>8 DEF TxInv
(* A row that exists, or that is aborted, has been written.                  *)
LEMMA WrittenRow ==
    ASSUME NEW r, r.exists \/ r.status = "aborted"
    PROVE  r # Unwritten
  <1>1. ~Unwritten.exists
    BY DEF Unwritten, NoOrder
  <1>2. Unwritten.status # "aborted"
    BY DEF Unwritten, NoOrder
  <1> QED
    BY <1>1, <1>2

(* The rows of a plan after a transaction that inserted none.                *)
LEMMA CommitDeletes ==
    ASSUME TxInv, NEW w \in Txns, Commit(w), ~tx[w].put,
           NEW S, S \cap (1..MaxInt) \subseteq tx[w].taken \cup
                     {n \in 1..MaxInt : Row(tx[w].event, n) = NoRow},
           tx[w].taken \subseteq S
    PROVE  DeletePending(tx[w].event.order, tx[w].event.planID, S)
  <1> DEFINE t == tx[w]
             e == t.event
             rows == pending[e.order][e.planID]
             f == [n \in 1..MaxInt |-> IF t.put /\ n = e.seqID THEN e
                                       ELSE Without(e.order, e.planID, t.taken)[n]]
             g == Without(e.order, e.planID, S)
  <1>1. pending' = [pending EXCEPT ![e.order][e.planID] = f]
    BY DEF Commit
  <1>2. \A n \in 1..MaxInt : (IF t.put /\ n = e.seqID THEN e
                              ELSE Without(e.order, e.planID, t.taken)[n])
                             = IF n \in S THEN NoRow ELSE rows[n]
    <2> SUFFICES ASSUME NEW n \in 1..MaxInt
                 PROVE  (IF n \in t.taken THEN NoRow ELSE rows[n]) = IF n \in S THEN NoRow ELSE rows[n]
      BY DEF Without
    <2> QED
      BY DEF Row
  <1>3. f = g
    BY <1>2 DEF Without
  <1> QED
    BY <1>1, <1>3 DEF DeletePending

(* A transaction that wrote nothing.                                         *)
LEMMA CommitClean ==
    ASSUME TxInv, NEW w \in Txns, Commit(w), Clean(tx[w])
    PROVE  UNCHANGED storeVars
  <1> DEFINE e == tx[w].event
  <1>1. orders' = orders /\ outbox' = [outbox EXCEPT ![e.order] = @ \o <<>>]
    BY DEF Commit, Clean
  <1>2. e.order \in Orders /\ outbox \in [Orders -> Seq(Event)]
        /\ pending \in [Orders -> [Plans -> [1..MaxInt -> SeqEvent \cup {NoRow}]]]
    BY CommitRows DEF TxInv, Inv, TypeOK
  <1>3. outbox' = outbox
    <2>1. outbox[e.order] \o <<>> = outbox[e.order]
      BY <1>2
    <2> QED
      BY <1>1, <1>2, <2>1
  <1>4. DeletePending(e.order, e.planID, {})
    BY CommitDeletes DEF Clean
  <1>5. e.planID \in Plans
    BY CommitRows
  <1>6. Without(e.order, e.planID, {}) = pending[e.order][e.planID]
    BY <1>2, <1>5 DEF Without
  <1>7. pending' = pending
    BY <1>2, <1>4, <1>5, <1>6 DEF DeletePending
  <1> QED
    BY <1>1, <1>3, <1>7 DEF storeVars

(* The whole of ApplyEvent, outcome APPLY.                                   *)
LEMMA CommitDrained ==
    ASSUME TxInv, NEW w \in Txns, Commit(w),
           LET t == tx[w]
               e == t.event
               rows == pending[e.order][e.planID]
           IN Drained(t, orders[e.order], rows) /\ t.row.lastSeq < MaxInt
              /\ rows[t.row.lastSeq + 1] = NoRow
    PROVE  tx[w].event \in SeqEvent /\ ApplyAndDrain(tx[w].event)
  <1> DEFINE t == tx[w]
             e == t.event
             m == t.row.lastSeq
             rows == pending[e.order][e.planID]
             r == [exists |-> TRUE, planID |-> e.planID, lastSeq |-> m,
                   status |-> StatusFromEventType(IF m = e.seqID THEN e.type ELSE Row(e, m).type)]
  <1>1. /\ e \in SeqEvent /\ Decide(orders[e.order], e.planID, e.seqID) = "APPLY" /\ Applicable(e)
        /\ m \in Nat /\ m >= e.seqID
        /\ \A n \in (e.seqID + 1)..m : rows[n] # NoRow /\ Applicable(rows[n])
        /\ t.log = Chain(e, rows, m) /\ t.taken = (e.seqID + 1)..m /\ ~t.put
    BY DEF Drained
  <1>2. e.seqID \in Nat /\ m \in e.seqID..(MaxInt - 1)
    <2>1. m < MaxInt
      OBVIOUS
    <2>2. e.seqID \in 1..(MaxInt + 1)
      BY <1>1 DEF SeqEvent
    <2>3. m \in Nat /\ m >= e.seqID
      BY <1>1
    <2> HIDE DEF m, e
    <2> QED
      BY <2>1, <2>2, <2>3, MaxIntAssumption, SMTT(30)
  <1>3. t.row = r
    BY DEF Drained, Row
  <1>4. t.row # Unwritten
    <2>1. r.exists
      OBVIOUS
    <2> QED
      BY <1>3, <2>1, WrittenRow
  <1>5. orders' = [orders EXCEPT ![e.order] = r]
    BY <1>3, <1>4 DEF Commit
  <1>6. outbox' = [outbox EXCEPT ![e.order] = @ \o Batch(e, m)]
    <2>1. Batch(e, m) = t.log
      BY <1>1 DEF Batch, Chain, Row
    <2> QED
      BY <2>1 DEF Commit
  <1>7. DeletePending(e.order, e.planID, DrainedRows(e, m))
    BY <1>1, CommitDeletes DEF DrainedRows
  <1>8. DrainableTo(e, m) /\ DrainEnd(e, m)
    BY <1>1 DEF DrainableTo, DrainEnd, Row
  <1> QED
    BY <1>1, <1>2, <1>5, <1>6, <1>7, <1>8 DEF ApplyAndDrain, SeqOutcome

(* The whole of ApplyEvent, outcome BUFFER, of an event that was not there.  *)
LEMMA CommitBuffering ==
    ASSUME TxInv, NEW w \in Txns, Commit(w),
           Buffering(tx[w], orders[tx[w].event.order],
                     pending[tx[w].event.order][tx[w].event.planID])
    PROVE  tx[w].event \in SeqEvent /\ BufferEvent(tx[w].event)
  <1> DEFINE t == tx[w]
             e == t.event
             o == e.order
             p == e.planID
             rows == pending[o][p]
             f == [n \in 1..MaxInt |-> IF t.put /\ n = e.seqID THEN e
                                       ELSE Without(o, p, t.taken)[n]]
  <1>1. /\ e \in SeqEvent /\ Decide(orders[o], p, e.seqID) = "BUFFER"
        /\ e.seqID <= MaxInt /\ Storable(e) /\ rows[e.seqID] = NoRow
        /\ t.row = Unwritten /\ t.log = <<>> /\ t.taken = {} /\ t.put
    BY DEF Buffering
  <1>2. /\ o \in Orders /\ p \in Plans /\ outbox \in [Orders -> Seq(Event)]
        /\ pending \in [Orders -> [Plans -> [1..MaxInt -> SeqEvent \cup {NoRow}]]]
    BY CommitRows DEF TxInv, Inv, TypeOK
  <1>3. orders' = orders /\ outbox' = [outbox EXCEPT ![o] = @ \o <<>>]
        /\ pending' = [pending EXCEPT ![o][p] = f]
    BY <1>1 DEF Commit
  <1>4. outbox' = outbox
    <2>1. outbox[o] \o <<>> = outbox[o]
      BY <1>2
    <2> QED
      BY <1>2, <1>3, <2>1
  <1>5. f = [rows EXCEPT ![e.seqID] = IF @ = NoRow THEN e ELSE @]
    <2>1. rows \in [1..MaxInt -> SeqEvent \cup {NoRow}]
      BY <1>2
    <2>2. \A n \in 1..MaxInt : (IF t.put /\ n = e.seqID THEN e ELSE Without(o, p, t.taken)[n])
                               = IF n = e.seqID THEN e ELSE rows[n]
      BY <1>1 DEF Without
    <2> HIDE DEF rows
    <2> QED
      BY <1>1, <2>1, <2>2
  <1>6. pending' = [pending EXCEPT ![o][p][e.seqID] = IF @ = NoRow THEN e ELSE @]
    BY <1>3, <1>5
  <1> QED
    BY <1>1, <1>3, <1>4, <1>6 DEF BufferEvent, SeqOutcome

(* The whole of AbortPlan.                                                   *)
LEMMA CommitClosing ==
    ASSUME TxInv, NEW w \in Txns, Commit(w),
           LET t == tx[w]
               e == t.event
           IN Closing(t, orders[e.order]) /\ t.taken = Present(pending[e.order][e.planID])
    PROVE  /\ tx[w].event \in AbortEvent
           /\ AbortOrder(tx[w].event) \/ TombstoneOrder(tx[w].event)
  <1> DEFINE t == tx[w]
             e == t.event
             o == e.order
             s == orders[o]
  <1>1. e \in AbortEvent /\ Storable(e) /\ ~t.put
    BY DEF Closing
  <1>2. o \in Orders /\ outbox \in [Orders -> Seq(Event)] /\ outbox[o] \in Seq(Event) /\ e \in Event
    BY <1>1, CommitRows DEF TxInv, Inv, TypeOK, Event
  <1>3. DiscardPending(e)
    <2>1. t.taken = Present(pending[o][e.planID])
      OBVIOUS
    <2> QED
      BY <1>1, <2>1, CommitDeletes DEF DiscardPending, Present, Row
  <1>4. CASE /\ DecideAbort(s, e.planID) = "APPLY"
             /\ t.row = [s EXCEPT !.status = "aborted"] /\ t.log = <<e>>
    <2>1. s \in OrderState
      BY <1>2 DEF TxInv, Inv, TypeOK
    <2>2. t.row.status = "aborted"
      BY <1>4, <2>1 DEF OrderState
    <2>3. t.row # Unwritten
      BY <2>2, WrittenRow
    <2>4. orders' = [orders EXCEPT ![o].status = "aborted"]
      BY <1>4, <2>3 DEF Commit
    <2>5. outbox[o] \o <<e>> = Append(outbox[o], e)
      BY <1>2, SMTT(30)
    <2>6. outbox' = [outbox EXCEPT ![o] = Append(@, e)]
      BY <1>4, <2>5 DEF Commit
    <2>7. AbortOrder(e)
      BY <1>1, <1>3, <1>4, <2>4, <2>6 DEF AbortOrder, AbortOutcome
    <2> QED
      BY <1>1, <2>7
  <1>5. CASE /\ DecideAbort(s, e.planID) = "TOMBSTONE" /\ t.log = <<>>
             /\ t.row = [exists |-> TRUE, planID |-> e.planID, lastSeq |-> 0, status |-> "aborted"]
    <2>1. t.row # Unwritten
      <3>1. t.row.status = "aborted"
        BY <1>5
      <3> QED
        BY <3>1, WrittenRow
    <2>2. orders' = [orders EXCEPT ![o] =
              [exists |-> TRUE, planID |-> e.planID, lastSeq |-> 0, status |-> "aborted"]]
      BY <1>5, <2>1 DEF Commit
    <2>3. outbox[o] \o <<>> = outbox[o]
      BY <1>2
    <2>4. outbox' = outbox
      BY <1>2, <1>5, <2>3 DEF Commit
    <2>5. TombstoneOrder(e)
      BY <1>1, <1>3, <1>5, <2>2, <2>4 DEF TombstoneOrder, AbortOutcome
    <2> QED
      BY <1>1, <2>5
  <1> QED
    BY <1>4, <1>5 DEF Closing
(* A commit is a transaction of OrderStore, or writes nothing.               *)
LEMMA CommitIsStep ==
    ASSUME TxInv, NEW w \in Txns, Commit(w)
    PROVE  [StoreNext]_storeVars
  <1> DEFINE e == tx[w].event
  <1>1. Whole(tx[w], orders[e.order], pending[e.order][e.planID])
    BY CommitRows
  <1>2. CASE Clean(tx[w])
    BY <1>2, CommitClean
  <1>3. ASSUME e \in SeqEvent, ApplyAndDrain(e) \/ BufferEvent(e) PROVE StoreNext
    BY <1>3 DEF StoreNext, ApplyEvent
  <1>4. ASSUME e \in AbortEvent, AbortOrder(e) \/ TombstoneOrder(e) PROVE StoreNext
    BY <1>4 DEF StoreNext, AbortPlan
  <1> QED
    BY <1>1, <1>2, <1>3, <1>4, CommitDrained, CommitBuffering, CommitClosing DEF Whole

-----------------------------------------------------------------------------
LEMMA TxInitInv == TxInit => TxInv
  <1> SUFFICES ASSUME TxInit PROVE TxInv
    OBVIOUS
  <1>1. Inv
    BY InitInv DEF TxInit
  <1>2. tx = [w \in Txns |-> NoTx] /\ swept = {}
    BY DEF TxInit
  <1> QED
    BY <1>1, <1>2, NoTxType DEF TxInv, Alone

(* Every statement, commit, rollback and sweep keeps the invariant, and      *)
(* takes the committed tables through a step of OrderStore or leaves them.   *)
LEMMA TxNextInv == OneSpelling /\ TxInv /\ [TxNext]_txVars => TxInv' /\ [StoreNext]_storeVars
  <1> SUFFICES ASSUME OneSpelling, TxInv, [TxNext]_txVars
               PROVE  TxInv' /\ [StoreNext]_storeVars
    OBVIOUS
  <1>1. ASSUME NEW w \in Txns, NEW t, Proceed(w, t) PROVE UNCHANGED storeVars
    BY <1>1 DEF Proceed
  <1>2. ASSUME NEW w \in Txns, NEW e \in Requests, NEW text \in Texts, LockOrder(w, e, text)
        PROVE  TxInv' /\ UNCHANGED storeVars
    BY <1>2, LockOrderInv DEF LockOrder, Proceed
  <1>3. ASSUME NEW w \in Txns, ReadOrder(w) \/ WriteOrder(w) \/ DrainNext(w) \/ BufferRow(w)
        PROVE  TxInv' /\ UNCHANGED storeVars
    <2>1. TxInv'
      BY <1>3, ReadOrderInv, WriteOrderInv, DrainNextInv, BufferRowInv
    <2>2. UNCHANGED storeVars
      BY <1>3 DEF ReadOrder, WriteOrder, DrainNext, BufferRow, Proceed
    <2> QED
      BY <2>1, <2>2
  <1>4. ASSUME NEW w \in Txns, AbortRow(w) \/ TombstoneRow(w) \/ DiscardRows(w) \/ Rollback(w)
        PROVE  TxInv' /\ UNCHANGED storeVars
    <2>1. TxInv'
      BY <1>4, AbortRowInv, TombstoneRowInv, DiscardRowsInv, RollbackInv
    <2>2. UNCHANGED storeVars
      BY <1>4 DEF AbortRow, TombstoneRow, DiscardRows, Rollback, Proceed
    <2> QED
      BY <2>1, <2>2
  <1>5. ASSUME NEW w \in Txns, Commit(w) PROVE TxInv' /\ [StoreNext]_storeVars
    BY <1>5, CommitIsStep, CommitKeeps
  <1>6. ASSUME SweepSelect PROVE TxInv' /\ UNCHANGED storeVars
    BY <1>6, SweepSelectInv DEF SweepSelect
  <1>7. ASSUME SweepEnd PROVE TxInv' /\ [StoreNext]_storeVars
    BY <1>7, SweepEndInv
  <1>8. ASSUME UNCHANGED txVars PROVE TxInv' /\ UNCHANGED storeVars
    <2>1. orders' = orders /\ pending' = pending /\ outbox' = outbox /\ tx' = tx /\ swept' = swept
      BY <1>8 DEF txVars, storeVars
    <2>2. Inv'
      BY <2>1 DEF TxInv, Inv, TypeOK, LogTellsOrder, NoStalledSuccessor, RowMatchesKey
    <2> QED
      BY <2>1, <2>2 DEF TxInv, Alone, Buffered, GoodTx, storeVars
  <1> QED
    BY <1>2, <1>3, <1>4, <1>5, <1>6, <1>7, <1>8 DEF TxNext

(* The parts of the invariant that the runs check.                           *)
LEMMA TxInvParts == TxInv => TxTypeOK /\ ReadStaysTrue /\ RowLocksHold
  <1> SUFFICES ASSUME TxInv PROVE TxTypeOK /\ ReadStaysTrue /\ RowLocksHold
    OBVIOUS
  <1>1. ASSUME NEW w \in Txns, tx[w].stage # "idle"
        PROVE  tx[w] \in TxRecord /\ GoodTx(tx[w])
               /\ tx[w].event.order \in Orders /\ tx[w].event.planID \in Plans
    BY <1>1, OpenTx
  <1>2. \A w \in Txns : tx[w] \in TxRecord /\ (tx[w].stage = "idle" => tx[w] = NoTx)
    BY DEF TxInv
  <1>3. TxTypeOK
    <2>1. swept \subseteq Orders \X Plans \X (1..MaxInt)
      BY DEF TxInv, Buffered
    <2>2. ASSUME NEW w \in Txns
          PROVE  LET t == tx[w] IN
                 /\ t.stage \in {"idle", "locked", "apply", "buffer", "abort", "tombstone",
                                "drain", "discard", "done", "failed"}
                 /\ IF t.stage = "idle" THEN t = NoTx ELSE t.event \in Requests /\ t.text \in Texts
                 /\ t.state \in OrderState
                 /\ t.row # Unwritten => t.row.planID = t.event.planID /\ t.row.status \in Status
                 /\ t.taken \subseteq 1..MaxInt /\ t.put \in BOOLEAN
      <3>1. /\ tx[w].stage \in Stage /\ tx[w].state \in OrderState
            /\ tx[w].taken \subseteq 1..MaxInt /\ tx[w].put \in BOOLEAN
        BY <1>2 DEF TxRecord
      <3>2. CASE tx[w].stage = "idle"
        BY <1>2, <3>1, <3>2, NoTxType DEF Clean, Stage
      <3>3. CASE tx[w].stage # "idle"
        BY <1>1, <3>1, <3>3 DEF GoodTx, Stage
      <3> QED
        BY <3>2, <3>3
    <2> QED
      BY <2>1, <2>2 DEF TxTypeOK
  <1>4. ReadStaysTrue
    BY <1>1 DEF ReadStaysTrue, GoodTx
  <1>5. RowLocksHold
    <2> SUFFICES ASSUME NEW w \in Txns, NEW n \in tx[w].taken
                 PROVE  LET e == tx[w].event IN <<e.order, e.planID, n>> \in Buffered \ swept
      BY DEF RowLocksHold, TxInv
    <2>1. tx[w].stage # "idle"
      BY <1>2, NoTxType DEF Clean
    <2>2. n \in 1..MaxInt
      BY <1>2 DEF TxRecord
    <2> QED
      BY <1>1, <2>1, <2>2 DEF GoodTx, Buffered
  <1> QED
    BY <1>3, <1>4, <1>5

(* The inductive core: with one spelling of every id, open transactions are  *)
(* alone on their order, and the committed tables are those of OrderStore.   *)
THEOREM TxInvariant == ASSUME OneSpelling PROVE TxSpec => []TxInv
  <1>1. TxInv /\ [TxNext]_txVars => TxInv'
    BY TxNextInv
  <1> QED
    BY <1>1, TxInitInv, PTL DEF TxSpec

(* With one spelling of every id, the tables that the statements of          *)
(* concurrent transactions and sweeps leave behind change by whole           *)
(* transactions of OrderStore only.                                          *)
THEOREM TransactionsImplementStore == ASSUME OneSpelling PROVE TxSpec => TransactionsAreAtomic
  <1>1. TxInv /\ [TxNext]_txVars => [StoreNext]_storeVars
    BY TxNextInv
  <1>2. TxInit => StoreInit
    BY DEF TxInit
  <1> QED
    BY <1>1, <1>2, TxInvariant, PTL DEF TxSpec, StoreSpec, TransactionsAreAtomic

(* What a transaction has read is true until it ends (postgres.go:209-210).  *)
THEOREM ReadsStayTrue == ASSUME OneSpelling PROVE TxSpec => []ReadStaysTrue
  BY TxInvariant, TxInvParts, PTL

(* A buffered row that a drain, an abort or a sweep has taken is its own     *)
(* until the end of the transaction.                                         *)
THEOREM RowLocksAreKept == ASSUME OneSpelling PROVE TxSpec => []RowLocksHold
  BY TxInvariant, TxInvParts, PTL

(* The types of what transactions have read and written.                     *)
THEOREM TxTypeCorrect == ASSUME OneSpelling PROVE TxSpec => []TxTypeOK
  BY TxInvariant, TxInvParts, PTL

(* Two deliveries of a plan's events at once notify as one delivery in order *)
(* would, whatever their statements do between each other.                   *)
THEOREM ConcurrentlyInOrder == ASSUME OneSpelling PROVE TxSpec => []LogTellsOrder
  BY TxInvariant, PTL DEF TxInv, Inv
=============================================================================
