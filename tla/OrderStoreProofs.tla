-------------------------- MODULE OrderStoreProofs --------------------------
(***************************************************************************)
(* Theorems about OrderStore, for any orders, plans, payloads and width of *)
(* INTEGER, and any callers.  The invariant Inv is what TLC checks of the  *)
(* small instance, with RowMatchesKey added; it is inductive, one lemma    *)
(* per action.  Before it: what the decisions of Sequencing say, and what  *)
(* appending a drained batch makes of an order's log.  After it: the store *)
(* implements OrderLedger.                                                 *)
(***************************************************************************)
EXTENDS OrderStore, SequenceTheorems, TLAPS

(* Decide says APPLY of exactly two events: the first of an order without a  *)
(* row, and the next one of the plan that owns a live order.                 *)
LEMMA DecideApplyCases ==
    ASSUME NEW s, s.exists \in BOOLEAN, s.lastSeq \in Int, NEW p, NEW n \in Int,
           Decide(s, p, n) = "APPLY"
    PROVE  \/ ~s.exists /\ n = 1
           \/ Owns(s, p) /\ ~Aborted(s) /\ n = s.lastSeq + 1
  BY DEF Decide, Owns, Aborted

(* Decide says BUFFER only of an event that leaves a gap: not the first of an*)
(* order without a row, and beyond the next one of a live order's owner.     *)
LEMMA DecideBufferCases ==
    ASSUME NEW s, s.exists \in BOOLEAN, s.lastSeq \in Int, NEW p, NEW n \in Int,
           Decide(s, p, n) = "BUFFER"
    PROVE  \/ ~s.exists /\ n # 1
           \/ Owns(s, p) /\ ~Aborted(s) /\ n > s.lastSeq + 1
  BY DEF Decide, Owns, Aborted

(* DecideAbort aborts only an order that its plan owns and that is neither   *)
(* aborted nor complete, and leaves a tombstone only where there is no row.  *)
LEMMA DecideAbortCases ==
    ASSUME NEW s, s.exists \in BOOLEAN, NEW p
    PROVE  /\ DecideAbort(s, p) = "APPLY" =>
                 Owns(s, p) /\ s.status \notin {"aborted", "completed"}
           /\ DecideAbort(s, p) = "TOMBSTONE" => ~s.exists
  BY DEF DecideAbort, Owns, Aborted

(* Every sequenced event type has a status that orders accepts, and none of  *)
(* them is that of an abort.                                                 *)
LEMMA StatusOfType ==
    ASSUME NEW t \in SequencedType
    PROVE  StatusFromEventType(t) \in Status \ {"aborted"}
  BY DEF StatusFromEventType, SequencedType, Status, AbortType

(* The fields of an order row that the decisions read.                       *)
LEMMA OrderStateFields ==
    ASSUME NEW s \in OrderState
    PROVE  /\ s.exists \in BOOLEAN
           /\ s.lastSeq \in Nat /\ s.lastSeq \in 0..MaxInt
  <1>1. s.exists \in BOOLEAN /\ s.lastSeq \in 0..MaxInt
    BY DEF OrderState
  <1> QED
    BY <1>1

(* The row that applyEvent writes is an order row, and not an aborted one.   *)
LEMMA LiveOrderState ==
    ASSUME NEW p \in Plans, NEW m \in 0..MaxInt, NEW st \in Status \ {"aborted"}
    PROVE  LET s == [exists |-> TRUE, planID |-> p, lastSeq |-> m, status |-> st] IN
           s \in OrderState /\ ~Aborted(s)
  BY DEF OrderState, Aborted

(* The zero OrderState of lockOrder (no row) is a state Decide can be given. *)
LEMMA NoOrderIsOrderState == NoOrder \in OrderState /\ ~NoOrder.exists /\ NoOrder.lastSeq = 0
  <1>1. MaxInt \in Nat
    BY MaxIntAssumption
  <1> QED
    BY <1>1 DEF NoOrder, OrderState

(* One entry in front of a sequence. *)
LEMMA PrependProperties ==
    ASSUME NEW S, NEW e \in S, NEW t \in Seq(S)
    PROVE  /\ <<e>> \o t \in Seq(S)
           /\ Len(<<e>> \o t) = Len(t) + 1
           /\ \A i \in 1..(Len(t) + 1) : (<<e>> \o t)[i] = IF i = 1 THEN e ELSE t[i - 1]
  <1> DEFINE one == <<e>>
  <1>1. one \in Seq(S) /\ Len(one) = 1 /\ one[1] = e
    OBVIOUS
  <1> HIDE DEF one
  <1>2. /\ one \o t \in Seq(S)
        /\ Len(one \o t) = Len(one) + Len(t)
        /\ \A i \in 1..(Len(one) + Len(t)) :
              (one \o t)[i] = IF i <= Len(one) THEN one[i] ELSE t[i - Len(one)]
    BY <1>1, ConcatProperties, Zenon
  <1>3. Len(t) \in Nat
    BY LenProperties
  <1>4. ASSUME NEW i \in 1..(Len(t) + 1)
        PROVE  (one \o t)[i] = IF i = 1 THEN e ELSE t[i - 1]
    <2>1. i \in 1..(Len(one) + Len(t))
      BY <1>1, <1>3
    <2>2. (one \o t)[i] = IF i <= Len(one) THEN one[i] ELSE t[i - Len(one)]
      BY <1>2, <2>1
    <2> QED
      BY <1>1, <1>3, <2>2
  <1>5. Len(one \o t) = Len(t) + 1
    BY <1>1, <1>2, <1>3
  <1> QED
    BY <1>2, <1>4, <1>5 DEF one

(* The strengthening: a buffered row is the event of its own key, and        *)
(* pending_events stored it (bufferEvent's columns and primary key).         *)
RowMatchesKey ==
    \A o \in Orders, p \in Plans, s \in 1..MaxInt :
       LET e == pending[o][p][s] IN
       e # NoRow => e.order = o /\ e.planID = p /\ e.seqID = s /\ Storable(e)

(* What drainPending takes from the buffer after event e is an event of the  *)
(* same order and plan, with the number it asked for.                        *)
LEMMA RowType ==
    ASSUME TypeOK, RowMatchesKey, NEW e \in SeqEvent, NEW s \in 1..MaxInt, Row(e, s) # NoRow
    PROVE  /\ Row(e, s) \in SeqEvent
           /\ Row(e, s).order = e.order /\ Row(e, s).planID = e.planID /\ Row(e, s).seqID = s
  <1>1. e.order \in Orders /\ e.planID \in Plans
    BY DEF SeqEvent
  <1>2. pending \in [Orders -> [Plans -> [1..MaxInt -> SeqEvent \cup {NoRow}]]]
    BY DEF TypeOK
  <1>3. pending[e.order][e.planID][s] \in SeqEvent \cup {NoRow}
    <2>1. pending[e.order] \in [Plans -> [1..MaxInt -> SeqEvent \cup {NoRow}]]
      BY <1>1, <1>2
    <2>2. pending[e.order][e.planID] \in [1..MaxInt -> SeqEvent \cup {NoRow}]
      BY <1>1, <2>1
    <2> QED
      BY <2>2
  <1> QED
    BY <1>1, <1>3 DEF RowMatchesKey, Row

(* The events that one ApplyEvent writes to the outbox: e, then its buffered *)
(* successors, numbered without a gap, the last of them being number m.      *)
LEMMA BatchProperties ==
    ASSUME TypeOK, RowMatchesKey, NEW e \in SeqEvent, NEW m \in e.seqID..(MaxInt - 1),
           DrainableTo(e, m)
    PROVE  /\ Batch(e, m) \in Seq(SeqEvent)
           /\ Len(Batch(e, m)) = m - e.seqID + 1
           /\ \A i \in 1..(m - e.seqID + 1) :
                 /\ Batch(e, m)[i] \in SeqEvent
                 /\ Batch(e, m)[i].order = e.order
                 /\ Batch(e, m)[i].planID = e.planID
                 /\ Batch(e, m)[i].seqID = e.seqID + i - 1
           /\ Batch(e, m)[m - e.seqID + 1] = IF m = e.seqID THEN e ELSE Row(e, m)
  <1> DEFINE n    == m - e.seqID
             tail == [i \in 1..n |-> Row(e, e.seqID + i)]
  <1>1. e.seqID \in Nat /\ e.seqID >= 1 /\ m \in Nat /\ n \in Nat /\ MaxInt \in Nat
    BY MaxIntAssumption DEF SeqEvent
  <1>2. \A i \in 1..n : /\ e.seqID + i \in 1..MaxInt
                        /\ Row(e, e.seqID + i) # NoRow
    BY <1>1 DEF DrainableTo
  <1>3. \A i \in 1..n : /\ Row(e, e.seqID + i) \in SeqEvent
                        /\ Row(e, e.seqID + i).order = e.order
                        /\ Row(e, e.seqID + i).planID = e.planID
                        /\ Row(e, e.seqID + i).seqID = e.seqID + i
    BY <1>2, RowType
  <1>4. tail \in Seq(SeqEvent) /\ Len(tail) = n /\ \A i \in 1..n : tail[i] = Row(e, e.seqID + i)
    <2>1. tail \in [1..n -> SeqEvent]
      BY <1>3
    <2> QED
      BY <2>1, <1>1 
  <1> HIDE DEF tail
  <1>6. /\ <<e>> \o tail \in Seq(SeqEvent)
        /\ Len(<<e>> \o tail) = n + 1
        /\ \A i \in 1..(n + 1) : (<<e>> \o tail)[i] = IF i = 1 THEN e ELSE tail[i - 1]
    <2>1. /\ <<e>> \o tail \in Seq(SeqEvent)
          /\ Len(<<e>> \o tail) = Len(tail) + 1
          /\ \A i \in 1..(Len(tail) + 1) :
                (<<e>> \o tail)[i] = IF i = 1 THEN e ELSE tail[i - 1]
      <3>1. tail \in Seq(SeqEvent)
        BY <1>4
      <3> QED
        BY <3>1, PrependProperties
    <2> QED
      BY <2>1, <1>4
  <1>7. Batch(e, m) = <<e>> \o tail
    BY DEF Batch, tail
  <1>8. \A i \in 1..(n + 1) :
           Batch(e, m)[i] = IF i = 1 THEN e ELSE Row(e, e.seqID + (i - 1))
    <2> TAKE i \in 1..(n + 1)
    <2>1. Batch(e, m)[i] = IF i = 1 THEN e ELSE tail[i - 1]
      BY <1>6, <1>7
    <2>2. CASE i = 1
      BY <2>1, <2>2
    <2>3. CASE i # 1
      <3>1. i - 1 \in 1..n
        BY <2>3, <1>1
      <3> QED
        BY <3>1, <2>1, <2>3, <1>4
    <2> QED
      BY <2>2, <2>3
  <1>9. \A i \in 1..(n + 1) : 
                 /\ Batch(e, m)[i] \in SeqEvent
                 /\ Batch(e, m)[i].order = e.order
                 /\ Batch(e, m)[i].planID = e.planID
                 /\ Batch(e, m)[i].seqID = e.seqID + i - 1
    <2> TAKE i \in 1..(n + 1)
    <2>1. CASE i = 1
      BY <2>1, <1>8, <1>1
    <2>2. CASE i # 1
      <3>1. i - 1 \in 1..n 
        BY <2>2, <1>1
      <3> QED BY <3>1, <2>2, <1>8, <1>3, <1>1
    <2> QED BY <2>1, <2>2
  <1>10. Batch(e, m)[n + 1] = IF m = e.seqID THEN e ELSE Row(e, m)
    BY <1>1, <1>8
  <1> QED
    BY <1>6, <1>7, <1>9, <1>10
-----------------------------------------------------------------------------
(* The inductive invariant: what the runs check, taken together.  None of    *)
(* its parts is inductive alone: the log stays gap-free because the drained  *)
(* rows carry the numbers of their keys (RowMatchesKey), and nothing is      *)
(* left stalled because no drained row was below the event (TypeOK and       *)
(* NoStalledSuccessor before the step).                                      *)
Inv == TypeOK /\ LogTellsOrder /\ NoStalledSuccessor /\ RowMatchesKey

(* The empty tables satisfy the invariant.                                   *)
THEOREM InitInv == StoreInit => Inv
  <1> SUFFICES ASSUME StoreInit PROVE Inv
    OBVIOUS
  <1> USE DEF StoreInit
  <1>1. MaxInt \in Nat
    BY MaxIntAssumption
  <1>2. TypeOK
    <2>1. NoOrder \in OrderState /\ ~NoOrder.exists
      BY NoOrderIsOrderState
    <2>2. pending \in [Orders -> [Plans -> [1..MaxInt -> SeqEvent \cup {NoRow}]]]
      OBVIOUS
    <2>3. outbox \in [Orders -> Seq(Event)]
      OBVIOUS
    <2> QED
      BY <2>1, <2>2, <2>3 DEF TypeOK
  <1>3. LogTellsOrder
    <2>1. LogTells(NoOrder, <<>>)
      BY NoOrderIsOrderState DEF LogTells, Aborted
    <2> QED
      BY <2>1 DEF LogTellsOrder
  <1>4. NoStalledSuccessor /\ RowMatchesKey
    BY DEF NoStalledSuccessor, RowMatchesKey
  <1> QED
    BY <1>2, <1>3, <1>4 DEF Inv

(* What the invariant says of the order that an event is applied to: its log *)
(* has every earlier number, and nothing else.                               *)
LEMMA LogBeforeApply ==
    ASSUME Inv, NEW e \in SeqEvent, SeqOutcome(e) = "APPLY"
    PROVE  /\ e.order \in Orders /\ e.planID \in Plans /\ e.seqID \in 1..(MaxInt + 1)
           /\ outbox[e.order] \in Seq(Event)
           /\ Len(outbox[e.order]) = e.seqID - 1
           /\ \A i \in 1..(e.seqID - 1) : /\ outbox[e.order][i] \in SeqEvent
                                          /\ outbox[e.order][i].planID = e.planID
                                          /\ outbox[e.order][i].seqID = i
           /\ ~Aborted(orders[e.order])
           /\ orders[e.order].exists => orders[e.order].planID = e.planID
           /\ \A s \in 1..e.seqID : s <= MaxInt => pending[e.order][e.planID][s] = NoRow
  <1> DEFINE o == e.order
             s == orders[o]
  <1>1. o \in Orders /\ e.planID \in Plans /\ e.seqID \in 1..(MaxInt + 1)
    BY DEF SeqEvent
  <1>2. MaxInt \in Nat /\ e.seqID \in Nat /\ e.seqID >= 1
    BY <1>1, MaxIntAssumption
  <1>3. s \in OrderState /\ outbox[o] \in Seq(Event)
    BY <1>1 DEF Inv, TypeOK
  <1>4. s.exists \in BOOLEAN /\ s.lastSeq \in Nat
    BY <1>3, OrderStateFields
  <1>5. \/ ~s.exists /\ e.seqID = 1
        \/ Owns(s, e.planID) /\ ~Aborted(s) /\ e.seqID = s.lastSeq + 1
    BY <1>2, <1>4, DecideApplyCases DEF SeqOutcome
  <1>6. ~Aborted(s) /\ e.seqID = s.lastSeq + 1 /\ (s.exists => s.planID = e.planID)
    BY <1>1, <1>4, <1>5 DEF Inv, LogTellsOrder, LogTells, Owns, Aborted
  <1>7. Len(outbox[o]) = s.lastSeq
    BY <1>1, <1>6 DEF Inv, LogTellsOrder, LogTells
  <1>8. \A i \in 1..s.lastSeq : outbox[o][i] \in SeqEvent /\ outbox[o][i].planID = s.planID
                                /\ outbox[o][i].seqID = i
    BY <1>1 DEF Inv, LogTellsOrder, LogTells
  <1>9. \A i \in 1..(e.seqID - 1) : outbox[o][i] \in SeqEvent
             /\ outbox[o][i].planID = e.planID /\ outbox[o][i].seqID = i
    <2>1. CASE s.exists
      BY <2>1, <1>4, <1>6, <1>8
    <2>2. CASE ~s.exists
      BY <2>2, <1>2, <1>5 DEF Owns
    <2> QED
      BY <2>1, <2>2
  <1>10. ASSUME NEW k \in 1..e.seqID, k <= MaxInt, pending[o][e.planID][k] # NoRow
         PROVE  FALSE
    <2>1. k \in 1..MaxInt
      BY <1>10, <1>2
    <2>2. /\ ~s.exists => k > 1
          /\ Owns(s, e.planID) => k > s.lastSeq + 1
      BY <2>1, <1>1, <1>10 DEF Inv, NoStalledSuccessor
    <2> QED
      BY <2>2, <1>2, <1>4, <1>5, <1>10
  <1> QED
    BY <1>1, <1>2, <1>3, <1>4, <1>6, <1>7, <1>9, <1>10, SMTT(30)

(* The entries of a sequence that another one is appended to.                *)
LEMMA ConcatEntries ==
    ASSUME NEW S, NEW a \in Seq(S), NEW b \in Seq(S)
    PROVE  /\ a \o b \in Seq(S)
           /\ Len(a \o b) = Len(a) + Len(b)
           /\ \A i \in 1..Len(a) : (a \o b)[i] = a[i]
           /\ \A i \in (Len(a) + 1)..(Len(a) + Len(b)) : (a \o b)[i] = b[i - Len(a)]
  <1>1. /\ a \o b \in Seq(S)
        /\ Len(a \o b) = Len(a) + Len(b)
        /\ \A i \in 1..(Len(a) + Len(b)) :
              (a \o b)[i] = IF i <= Len(a) THEN a[i] ELSE b[i - Len(a)]
    BY ConcatProperties, Zenon
  <1>2. Len(a) \in Nat /\ Len(b) \in Nat
    BY LenProperties
  <1> DEFINE c == a \o b
  <1>3. \A i \in 1..(Len(a) + Len(b)) : c[i] = IF i <= Len(a) THEN a[i] ELSE b[i - Len(a)]
    BY <1>1
  <1> HIDE DEF c
  <1>4. \A i \in 1..Len(a) : c[i] = a[i]
    BY <1>2, <1>3
  <1>5. \A i \in (Len(a) + 1)..(Len(a) + Len(b)) : c[i] = b[i - Len(a)]
    BY <1>2, <1>3
  <1> QED
    BY <1>1, <1>4, <1>5 DEF c

(* The log after a transaction that applied e and drained up to m.           *)
LEMMA LogAfterApply ==
    ASSUME Inv, NEW e \in SeqEvent, SeqOutcome(e) = "APPLY",
           NEW m \in e.seqID..(MaxInt - 1), DrainableTo(e, m)
    PROVE  LET log == outbox[e.order] \o Batch(e, m) IN
           /\ log \in Seq(Event)
           /\ Len(log) = m
           /\ \A i \in 1..m : log[i] \in SeqEvent /\ log[i].planID = e.planID /\ log[i].seqID = i
           /\ log[m] = IF m = e.seqID THEN e ELSE Row(e, m)
           /\ \A i \in 1..Len(outbox[e.order]) : log[i] = outbox[e.order][i]
           /\ \A i \in e.seqID..m : log[i].order = e.order
  <1> DEFINE old == outbox[e.order]
             new == Batch(e, m)
             log == old \o new
             k   == e.seqID
  <1>1. k \in Nat /\ k >= 1 /\ m \in Nat /\ m >= k /\ MaxInt \in Nat
    BY LogBeforeApply, MaxIntAssumption
  <1>2. /\ old \in Seq(Event) /\ Len(old) = k - 1
        /\ \A i \in 1..(k - 1) : old[i] \in SeqEvent /\ old[i].planID = e.planID /\ old[i].seqID = i
    BY LogBeforeApply
  <1>3. /\ new \in Seq(SeqEvent) /\ Len(new) = m - k + 1
        /\ \A i \in 1..(m - k + 1) : new[i] \in SeqEvent /\ new[i].planID = e.planID
                                     /\ new[i].seqID = k + i - 1 /\ new[i].order = e.order
        /\ new[m - k + 1] = IF m = k THEN e ELSE Row(e, m)
    BY BatchProperties DEF Inv
  <1>4. new \in Seq(Event)
    BY <1>3 DEF Event
  <1> HIDE DEF old, new, k
  <1>5. /\ old \o new \in Seq(Event)
        /\ Len(old \o new) = Len(old) + Len(new)
        /\ \A i \in 1..Len(old) : (old \o new)[i] = old[i]
        /\ \A i \in (Len(old) + 1)..(Len(old) + Len(new)) : (old \o new)[i] = new[i - Len(old)]
    BY <1>2, <1>4, ConcatEntries, Zenon
  <1>6. /\ log \in Seq(Event) /\ Len(log) = m
        /\ \A i \in 1..(k - 1) : log[i] = old[i]
        /\ \A i \in k..m : log[i] = new[i - k + 1]
    <2>1. Len(old) + 1 = k /\ Len(old) + Len(new) = m
      BY <1>1, <1>2, <1>3
    <2>2. \A i \in k..m : i - Len(old) = i - k + 1
      BY <1>1, <1>2
    <2> QED
      BY <1>5, <1>2, <2>1, <2>2
  <1> HIDE DEF log
  <1>7. ASSUME NEW i \in 1..m
        PROVE  log[i] \in SeqEvent /\ log[i].planID = e.planID /\ log[i].seqID = i
    <2>1. CASE i < k
      <3>1. i \in 1..(k - 1)
        BY <2>1, <1>1
      <3> QED
        BY <3>1, <1>2, <1>6
    <2>2. CASE i >= k
      <3> DEFINE j == i - k + 1
      <3>1. i \in k..m /\ j \in 1..(m - k + 1) /\ k + j - 1 = i
        BY <2>2, <1>1
      <3>2. log[i] = new[j]
        BY <3>1, <1>6
      <3> HIDE DEF j
      <3> QED
        BY <3>1, <3>2, <1>3
    <2> QED
      BY <2>1, <2>2, <1>1
  <1>8. log[m] = IF m = k THEN e ELSE Row(e, m)
    <2>1. m \in k..m
      BY <1>1
    <2> QED
      BY <2>1, <1>3, <1>6
  <1>9. \A i \in 1..Len(old) : log[i] = old[i]
    BY <1>2, <1>6
  <1>10. \A i \in k..m : log[i].order = e.order
    <2>1. \A i \in k..m : i - k + 1 \in 1..(m - k + 1)
      BY <1>1
    <2> QED
      BY <2>1, <1>3, <1>6
  <1> QED
    BY <1>6, <1>7, <1>8, <1>9, <1>10 DEF log, old, new, k
-----------------------------------------------------------------------------
(* One lemma per action. *)

(* Deleting rows of pending_events leaves rows of the same type.             *)
LEMMA WithoutType ==
    ASSUME TypeOK, NEW o \in Orders, NEW p \in Plans, NEW S
    PROVE  Without(o, p, S) \in [1..MaxInt -> SeqEvent \cup {NoRow}]
  <1>1. pending \in [Orders -> [Plans -> [1..MaxInt -> SeqEvent \cup {NoRow}]]]
    BY DEF TypeOK
  <1>2. pending[o][p] \in [1..MaxInt -> SeqEvent \cup {NoRow}]
    BY <1>1
  <1> QED
    BY <1>2 DEF Without

(* A step that changes pending_events of one order and plan, where it only    *)
(* empties keys, keeps the rows of their type and on their key.               *)
LEMMA RowsAfterDelete ==
    ASSUME Inv, NEW o \in Orders, NEW p \in Plans, NEW S,
           DeletePending(o, p, S)
    PROVE  /\ pending' \in [Orders -> [Plans -> [1..MaxInt -> SeqEvent \cup {NoRow}]]]
           /\ RowMatchesKey'
           /\ \A x \in Orders, q \in Plans, s \in 1..MaxInt :
                 pending'[x][q][s] = IF x = o /\ q = p /\ s \in S THEN NoRow ELSE pending[x][q][s]
  <1>1. pending \in [Orders -> [Plans -> [1..MaxInt -> SeqEvent \cup {NoRow}]]]
    BY DEF Inv, TypeOK
  <1>2. Without(o, p, S) \in [1..MaxInt -> SeqEvent \cup {NoRow}]
    BY WithoutType DEF Inv
  <1>3. pending' \in [Orders -> [Plans -> [1..MaxInt -> SeqEvent \cup {NoRow}]]]
    BY <1>1, <1>2 DEF DeletePending
  <1>4. ASSUME NEW x \in Orders, NEW q \in Plans, NEW s \in 1..MaxInt
        PROVE  pending'[x][q][s] = IF x = o /\ q = p /\ s \in S THEN NoRow ELSE pending[x][q][s]
    <2>1. pending'[x][q] = IF x = o /\ q = p THEN Without(o, p, S) ELSE pending[x][q]
      BY <1>1 DEF DeletePending
    <2>2. Without(o, p, S)[s] = IF s \in S THEN NoRow ELSE pending[o][p][s]
      BY DEF Without
    <2>3. CASE x = o /\ q = p
      BY <2>1, <2>2, <2>3
    <2>4. CASE ~(x = o /\ q = p)
      BY <2>1, <2>4
    <2> QED
      BY <2>3, <2>4
  <1>5. RowMatchesKey'
    BY <1>4 DEF Inv, RowMatchesKey, Storable
  <1> QED
    BY <1>3, <1>4, <1>5

(* ApplyEvent, outcome APPLY: the log is extended without a gap, and the first*)
(* number the drain did not find has no row that could be left behind.       *)
LEMMA ApplyAndDrainInv ==
    ASSUME Inv, NEW e \in SeqEvent, ApplyAndDrain(e)
    PROVE  Inv'
  <1> DEFINE o == e.order
             p == e.planID
  <1>1. SeqOutcome(e) = "APPLY"
    BY DEF ApplyAndDrain
  <1>2. PICK m \in e.seqID..(MaxInt - 1) :
          /\ DrainableTo(e, m)
          /\ DrainEnd(e, m)
          /\ orders' = [orders EXCEPT ![o] =
                [exists  |-> TRUE,
                 planID  |-> p,
                 lastSeq |-> m,
                 status  |-> StatusFromEventType(
                                IF m = e.seqID THEN e.type ELSE Row(e, m).type)]]
          /\ outbox' = [outbox EXCEPT ![o] = @ \o Batch(e, m)]
          /\ DeletePending(o, p, DrainedRows(e, m))
    BY DEF ApplyAndDrain
  <1> DEFINE log == outbox[o] \o Batch(e, m)
             st  == StatusFromEventType(IF m = e.seqID THEN e.type ELSE Row(e, m).type)
             new == [exists |-> TRUE, planID |-> p, lastSeq |-> m, status |-> st]
  <1>3. /\ o \in Orders /\ p \in Plans /\ e.seqID \in Nat /\ e.seqID >= 1
        /\ m \in Nat /\ m >= e.seqID /\ m + 1 \in 1..MaxInt /\ m \in 1..MaxInt
    BY <1>1, LogBeforeApply, MaxIntAssumption
  <1>4. /\ log \in Seq(Event) /\ Len(log) = m
        /\ \A i \in 1..m : log[i] \in SeqEvent /\ log[i].planID = p /\ log[i].seqID = i
        /\ log[m] = IF m = e.seqID THEN e ELSE Row(e, m)
    BY <1>1, <1>2, LogAfterApply
  <1>5. st = StatusFromEventType(log[m].type) /\ st \in Status \ {"aborted"}
    <2>1. log[m] \in SeqEvent /\ m \in 1..m
      BY <1>3, <1>4
    <2>2. st = StatusFromEventType(log[m].type)
      BY <1>4
    <2>3. log[m].type \in SequencedType
      BY <2>1, TypesAssumption DEF SeqEvent
    <2> QED
      BY <2>2, <2>3, StatusOfType
  <1> HIDE DEF log, st
  <1>6. new \in OrderState /\ ~Aborted(new)
    <2>1. m \in 0..MaxInt
      BY <1>3
    <2> QED
      BY <2>1, <1>3, <1>5, LiveOrderState
  <1>7. orders' \in [Orders -> OrderState] /\ orders'[o] = new
        /\ \A x \in Orders : x # o => orders'[x] = orders[x]
    <2>1. orders \in [Orders -> OrderState] /\ orders' = [orders EXCEPT ![o] = new]
      BY <1>2 DEF Inv, TypeOK, st
    <2> HIDE DEF new
    <2> QED
      BY <2>1, <1>3, <1>6
  <1>8. outbox' \in [Orders -> Seq(Event)] /\ outbox'[o] = log
        /\ \A x \in Orders : x # o => outbox'[x] = outbox[x]
    <2>1. outbox \in [Orders -> Seq(Event)] /\ outbox' = [outbox EXCEPT ![o] = log]
      BY <1>2 DEF Inv, TypeOK, log
    <2> QED
      BY <2>1, <1>3, <1>4
  <1>9. /\ pending' \in [Orders -> [Plans -> [1..MaxInt -> SeqEvent \cup {NoRow}]]]
        /\ RowMatchesKey'
        /\ \A x \in Orders, q \in Plans, s \in 1..MaxInt :
              pending'[x][q][s] = IF x = o /\ q = p /\ s \in DrainedRows(e, m)
                                  THEN NoRow ELSE pending[x][q][s]
    BY <1>2, <1>3, RowsAfterDelete
  <1>10. TypeOK'
    <2>1. \A x \in Orders : orders'[x].exists => orders'[x].planID \in Plans
                                                 /\ orders'[x].status \in Status
      <3>1. orders'[o].planID = p /\ orders'[o].status = st
        BY <1>7
      <3>2. orders'[o].planID \in Plans /\ orders'[o].status \in Status
        BY <3>1, <1>3, <1>5
      <3>3. \A x \in Orders : orders[x].exists => orders[x].planID \in Plans
                                                  /\ orders[x].status \in Status
        BY DEF Inv, TypeOK
      <3> QED
        BY <3>2, <3>3, <1>7
    <2> QED
      BY <2>1, <1>7, <1>8, <1>9 DEF TypeOK, OrderState
  <1>11. LogTellsOrder'
    <2>1. LogTells(new, log)
      <3>1. DOMAIN log = 1..m
        BY <1>4, LenProperties
      <3> QED
        BY <1>3, <1>4, <1>5, <1>6, <3>1 DEF LogTells
    <2>2. \A x \in Orders : x # o => LogTells(orders'[x], outbox'[x])
      BY <1>7, <1>8 DEF Inv, LogTellsOrder
    <2> QED
      BY <2>1, <2>2, <1>7, <1>8 DEF LogTellsOrder
  <1>12. NoStalledSuccessor'
    <2> SUFFICES ASSUME NEW x \in Orders, NEW q \in Plans, NEW s \in 1..MaxInt,
                        pending'[x][q][s] # NoRow
                 PROVE  /\ ~orders'[x].exists => s > 1
                        /\ Owns(orders'[x], q) => ~Aborted(orders'[x]) /\ s > orders'[x].lastSeq + 1
      BY DEF NoStalledSuccessor
    <2>1. pending[x][q][s] # NoRow
      BY <1>9
    <2>2. CASE x # o
      BY <2>1, <2>2, <1>7 DEF Inv, NoStalledSuccessor
    <2>3. CASE x = o /\ q # p
      BY <2>3, <1>7 DEF Owns
    <2>4. CASE x = o /\ q = p
      <3>1. s \notin DrainedRows(e, m)
        BY <2>4, <1>9
      <3>2. s # m + 1
        BY <2>1, <2>4, <1>2 DEF DrainEnd, Row
      <3>3. ~(s \in 1..e.seqID)
        BY <2>1, <2>4, <1>1, LogBeforeApply
      <3>4. s > m + 1
        BY <3>1, <3>2, <3>3, <1>3 DEF DrainedRows
      <3> QED
        BY <3>4, <2>4, <1>6, <1>7
    <2> QED
      BY <2>2, <2>3, <2>4
  <1> QED
    BY <1>9, <1>10, <1>11, <1>12 DEF Inv

(* ApplyEvent, outcome BUFFER: a buffered event never is the next one.       *)
LEMMA BufferEventInv ==
    ASSUME Inv, NEW e \in SeqEvent, BufferEvent(e)
    PROVE  Inv'
  <1> DEFINE o == e.order
             p == e.planID
             k == e.seqID
             st == orders[o]
  <1>1. /\ Decide(st, p, k) = "BUFFER" /\ k <= MaxInt /\ Storable(e)
        /\ pending' = [pending EXCEPT ![o][p][k] = IF @ = NoRow THEN e ELSE @]
        /\ orders' = orders /\ outbox' = outbox
    BY DEF BufferEvent, SeqOutcome
  <1>2. o \in Orders /\ p \in Plans /\ k \in 1..MaxInt /\ k \in Int
    BY <1>1, MaxIntAssumption DEF SeqEvent
  <1>3. st \in OrderState
    BY <1>2 DEF Inv, TypeOK
  <1>4. \/ ~st.exists /\ k # 1
        \/ Owns(st, p) /\ ~Aborted(st) /\ k > st.lastSeq + 1
    BY <1>1, <1>2, <1>3, OrderStateFields, DecideBufferCases
  <1> HIDE DEF st
  <1>5. pending \in [Orders -> [Plans -> [1..MaxInt -> SeqEvent \cup {NoRow}]]]
    BY DEF Inv, TypeOK
  <1> DEFINE v == IF pending[o][p][k] = NoRow THEN e ELSE pending[o][p][k]
  <1>5a. v \in SeqEvent \cup {NoRow}
    <2>1. pending[o] \in [Plans -> [1..MaxInt -> SeqEvent \cup {NoRow}]]
      BY <1>2, <1>5
    <2>2. pending[o][p] \in [1..MaxInt -> SeqEvent \cup {NoRow}]
      BY <1>2, <2>1
    <2>3. pending[o][p][k] \in SeqEvent \cup {NoRow}
      BY <1>2, <2>2
    <2> QED
      BY <2>3
  <1>5b. pending' = [pending EXCEPT ![o][p][k] = v]
    BY <1>1
  <1>5c. e.order = o /\ e.planID = p /\ e.seqID = k
    OBVIOUS
  <1> HIDE DEF o, p, k
  <1>6. \A x \in Orders, q \in Plans, s \in 1..MaxInt :
           pending'[x][q][s] = IF x = o /\ q = p /\ s = k /\ pending[x][q][s] = NoRow
                               THEN e ELSE pending[x][q][s]
    BY <1>5b, <1>2, <1>5
  <1> HIDE DEF v
  <1>7. pending' \in [Orders -> [Plans -> [1..MaxInt -> SeqEvent \cup {NoRow}]]]
    BY <1>5b, <1>5a, <1>2, <1>5
  <1>8. TypeOK'
    BY <1>1, <1>7 DEF Inv, TypeOK, OrderState
  <1>9. LogTellsOrder'
    BY <1>1 DEF Inv, LogTellsOrder
  <1>10. RowMatchesKey'
    <2> SUFFICES ASSUME NEW x \in Orders, NEW q \in Plans, NEW s \in 1..MaxInt,
                        pending'[x][q][s] # NoRow
                 PROVE  /\ pending'[x][q][s].order = x /\ pending'[x][q][s].planID = q
                        /\ pending'[x][q][s].seqID = s /\ Storable(pending'[x][q][s])
      BY DEF RowMatchesKey, Storable
    <2>1. CASE pending[x][q][s] # NoRow
      BY <2>1, <1>6 DEF Inv, RowMatchesKey
    <2>2. CASE pending[x][q][s] = NoRow
      <3>1. x = o /\ q = p /\ s = k /\ pending'[x][q][s] = e
        BY <2>2, <1>6
      <3> QED
        BY <3>1, <1>1, <1>5c
    <2> QED
      BY <2>1, <2>2
  <1>11. NoStalledSuccessor'
    <2> SUFFICES ASSUME NEW x \in Orders, NEW q \in Plans, NEW s \in 1..MaxInt,
                        pending'[x][q][s] # NoRow
                 PROVE  /\ ~orders[x].exists => s > 1
                        /\ Owns(orders[x], q) => ~Aborted(orders[x]) /\ s > orders[x].lastSeq + 1
      BY <1>1 DEF NoStalledSuccessor
    <2>1. CASE pending[x][q][s] # NoRow
      BY <2>1 DEF Inv, NoStalledSuccessor
    <2>2. CASE pending[x][q][s] = NoRow
      <3>1. x = o /\ q = p /\ s = k
        BY <2>2, <1>6
      <3> QED
        BY <3>1, <1>2, <1>4 DEF st, Owns
    <2> QED
      BY <2>1, <2>2
  <1> QED
    BY <1>8, <1>9, <1>10, <1>11 DEF Inv

(* ExpirePending only empties keys, so nothing it leaves can become stalled. *)
LEMMA ExpirePendingInv ==
    ASSUME Inv, NEW rows, ExpirePending(rows)
    PROVE  Inv'
  <1>1. /\ pending' = [o \in Orders |-> [p \in Plans |->
                          Without(o, p, {s \in 1..MaxInt : <<o, p, s>> \in rows})]]
        /\ orders' = orders /\ outbox' = outbox
    BY DEF ExpirePending
  <1>2. pending' \in [Orders -> [Plans -> [1..MaxInt -> SeqEvent \cup {NoRow}]]]
    BY <1>1, WithoutType DEF Inv
  <1>3. \A x \in Orders, q \in Plans, s \in 1..MaxInt :
           pending'[x][q][s] \in {NoRow, pending[x][q][s]}
    BY <1>1 DEF Without
  <1>4. TypeOK'
    BY <1>1, <1>2 DEF Inv, TypeOK, OrderState
  <1>5. LogTellsOrder'
    BY <1>1 DEF Inv, LogTellsOrder
  <1>6. RowMatchesKey'
    BY <1>3 DEF Inv, RowMatchesKey, Storable
  <1>7. NoStalledSuccessor'
    BY <1>1, <1>3 DEF Inv, NoStalledSuccessor
  <1> QED
    BY <1>4, <1>5, <1>6, <1>7 DEF Inv

(* What both kinds of effective abort leave in the buffer. *)
LEMMA NothingStalledAfterAbort ==
    ASSUME Inv, NEW o \in Orders, NEW p \in Plans, DeletePending(o, p, 1..MaxInt),
           orders' \in [Orders -> OrderState],
           Owns(orders'[o], p), \A x \in Orders : x # o => orders'[x] = orders[x]
    PROVE  NoStalledSuccessor' /\ RowMatchesKey'
           /\ pending' \in [Orders -> [Plans -> [1..MaxInt -> SeqEvent \cup {NoRow}]]]
  <1>1. /\ pending' \in [Orders -> [Plans -> [1..MaxInt -> SeqEvent \cup {NoRow}]]]
        /\ RowMatchesKey'
        /\ \A x \in Orders, q \in Plans, s \in 1..MaxInt :
              pending'[x][q][s] = IF x = o /\ q = p THEN NoRow ELSE pending[x][q][s]
    <2> DEFINE S == 1..MaxInt
    <2>1. DeletePending(o, p, S)
      OBVIOUS
    <2> HIDE DEF S
    <2>2. /\ pending' \in [Orders -> [Plans -> [1..MaxInt -> SeqEvent \cup {NoRow}]]]
          /\ RowMatchesKey'
          /\ \A x \in Orders, q \in Plans, s \in 1..MaxInt :
                pending'[x][q][s] = IF x = o /\ q = p /\ s \in S THEN NoRow ELSE pending[x][q][s]
      BY <2>1, RowsAfterDelete
    <2> QED
      BY <2>2 DEF S
  <1>2. NoStalledSuccessor'
    <2> SUFFICES ASSUME NEW x \in Orders, NEW q \in Plans, NEW s \in 1..MaxInt,
                        pending'[x][q][s] # NoRow
                 PROVE  /\ ~orders'[x].exists => s > 1
                        /\ Owns(orders'[x], q) => ~Aborted(orders'[x]) /\ s > orders'[x].lastSeq + 1
      BY DEF NoStalledSuccessor
    <2>1. CASE x = o
      BY <2>1, <1>1 DEF Owns
    <2>2. CASE x # o
      BY <2>2, <1>1 DEF Inv, NoStalledSuccessor
    <2> QED
      BY <2>1, <2>2
  <1> QED
    BY <1>1, <1>2

(* AbortPlan, outcome TOMBSTONE: the order is closed with an empty log.      *)
LEMMA TombstoneOrderInv ==
    ASSUME Inv, NEW e \in AbortEvent, TombstoneOrder(e)
    PROVE  Inv'
  <1> DEFINE o == e.order
             p == e.planID
             new == [exists |-> TRUE, planID |-> p, lastSeq |-> 0, status |-> "aborted"]
  <1>1. /\ DecideAbort(orders[o], p) = "TOMBSTONE"
        /\ orders' = [orders EXCEPT ![o] = new]
        /\ DeletePending(o, p, 1..MaxInt)
        /\ outbox' = outbox
    BY DEF TombstoneOrder, AbortOutcome, DiscardPending
  <1>2. o \in Orders /\ p \in Plans
    BY DEF AbortEvent
  <1>3. orders \in [Orders -> OrderState] /\ outbox \in [Orders -> Seq(Event)]
    BY DEF Inv, TypeOK
  <1>4. ~orders[o].exists
    BY <1>1, <1>2, <1>3, OrderStateFields, DecideAbortCases
  <1>5. new \in OrderState /\ Aborted(new) /\ Owns(new, p) /\ new.lastSeq = 0 /\ new.exists
    <2>1. 0 \in 0..MaxInt
      BY MaxIntAssumption
    <2>2. new \in OrderState
      BY <2>1, <1>2 DEF OrderState, Status
    <2> QED
      BY <2>2 DEF Aborted, Owns
  <1>6. new.planID \in Plans /\ new.status \in Status
    BY <1>2 DEF Status
  <1> HIDE DEF new
  <1>7. orders' \in [Orders -> OrderState] /\ orders'[o] = new
        /\ \A x \in Orders : x # o => orders'[x] = orders[x]
    BY <1>1, <1>2, <1>3, <1>5
  <1>8. NoStalledSuccessor' /\ RowMatchesKey'
        /\ pending' \in [Orders -> [Plans -> [1..MaxInt -> SeqEvent \cup {NoRow}]]]
    BY <1>1, <1>2, <1>5, <1>7, NothingStalledAfterAbort
  <1>9. TypeOK'
    BY <1>1, <1>3, <1>6, <1>7, <1>8 DEF Inv, TypeOK, OrderState
  <1>10. LogTellsOrder'
    <2>1. Len(outbox[o]) = 0
      BY <1>2, <1>4 DEF Inv, LogTellsOrder, LogTells, Aborted
    <2>2. LogTells(new, outbox[o])
      BY <2>1, <1>5 DEF LogTells
    <2> QED
      BY <2>2, <1>1, <1>7 DEF Inv, LogTellsOrder
  <1> QED
    BY <1>8, <1>9, <1>10 DEF Inv

(* AbortPlan, outcome APPLY: one ABORT_PLAN after the last event of the order.*)
LEMMA AbortOrderInv ==
    ASSUME Inv, NEW e \in AbortEvent, AbortOrder(e)
    PROVE  Inv'
  <1> DEFINE o == e.order
             p == e.planID
             old == orders[o]
             log == outbox[o]
  <1>1. /\ DecideAbort(old, p) = "APPLY"
        /\ orders' = [orders EXCEPT ![o].status = "aborted"]
        /\ outbox' = [outbox EXCEPT ![o] = Append(log, e)]
        /\ DeletePending(o, p, 1..MaxInt)
    BY DEF AbortOrder, AbortOutcome, DiscardPending
  <1>2. o \in Orders /\ p \in Plans /\ e \in Event /\ e.planID = p
    BY DEF AbortEvent, Event
  <1>3. orders \in [Orders -> OrderState] /\ outbox \in [Orders -> Seq(Event)]
    BY DEF Inv, TypeOK
  <1>4. old \in OrderState /\ log \in Seq(Event) /\ old.exists \in BOOLEAN /\ old.lastSeq \in Nat
    BY <1>2, <1>3, OrderStateFields
  <1>5. Owns(old, p) /\ ~Aborted(old)
    BY <1>1, <1>4, DecideAbortCases DEF Aborted
  <1> DEFINE new == [old EXCEPT !.status = "aborted"]
  <1>6. new \in OrderState /\ Aborted(new) /\ Owns(new, p) /\ new.exists
        /\ new.lastSeq = old.lastSeq /\ new.planID = old.planID
    BY <1>2, <1>4, <1>5 DEF OrderState, Aborted, Owns, Status
  <1>7. new.planID \in Plans /\ new.status \in Status
    BY <1>2, <1>5, <1>6 DEF Status, Owns, Aborted
  <1>8. orders' = [orders EXCEPT ![o] = new]
    BY <1>1, <1>2, <1>3
  <1> HIDE DEF new, old
  <1>9. orders' \in [Orders -> OrderState] /\ orders'[o] = new
        /\ \A x \in Orders : x # o => orders'[x] = orders[x]
    BY <1>8, <1>2, <1>3, <1>6
  <1>10. NoStalledSuccessor' /\ RowMatchesKey'
        /\ pending' \in [Orders -> [Plans -> [1..MaxInt -> SeqEvent \cup {NoRow}]]]
    BY <1>1, <1>2, <1>6, <1>9, NothingStalledAfterAbort
  <1>11. /\ Append(log, e) \in Seq(Event)
         /\ Len(Append(log, e)) = Len(log) + 1
         /\ Append(log, e)[Len(log) + 1] = e
         /\ \A i \in 1..Len(log) : Append(log, e)[i] = log[i]
         /\ DOMAIN Append(log, e) = 1..(Len(log) + 1)
    BY <1>2, <1>4, AppendProperties
  <1>12. outbox' \in [Orders -> Seq(Event)] /\ outbox'[o] = Append(log, e)
         /\ \A x \in Orders : x # o => outbox'[x] = outbox[x]
    BY <1>1, <1>2, <1>3, <1>11
  <1>13. TypeOK'
    BY <1>7, <1>9, <1>10, <1>12 DEF Inv, TypeOK, OrderState
  <1>14. LogTellsOrder'
    <2>1. LogTells(old, log)
      BY <1>2 DEF Inv, LogTellsOrder, old
    <2>2. Len(log) = old.lastSeq /\ old.lastSeq > 0
      BY <2>1, <1>4, <1>5 DEF LogTells, Owns
    <2>3. \A i \in 1..old.lastSeq : log[i] \in SeqEvent /\ log[i].planID = old.planID
                                    /\ log[i].seqID = i
      BY <2>1 DEF LogTells
    <2> HIDE DEF log
    <2>4. \A i \in 1..new.lastSeq :
             /\ i \in DOMAIN Append(log, e)
             /\ Append(log, e)[i] \in SeqEvent
             /\ Append(log, e)[i].planID = new.planID
             /\ Append(log, e)[i].seqID = i
      BY <2>2, <2>3, <1>4, <1>6, <1>11
    <2>5. LogTells(new, Append(log, e))
      BY <2>2, <2>4, <1>2, <1>5, <1>6, <1>11 DEF LogTells, Owns
    <2>6. \A x \in Orders : x # o => LogTells(orders'[x], outbox'[x])
      BY <1>9, <1>12 DEF Inv, LogTellsOrder
    <2> QED
      BY <2>5, <2>6, <1>9, <1>12 DEF LogTellsOrder
  <1> QED
    BY <1>10, <1>13, <1>14 DEF Inv
(* Every step of the store keeps the invariant, whoever calls it. *)
THEOREM NextInv == Inv /\ [StoreNext]_storeVars => Inv'
  <1> SUFFICES ASSUME Inv, [StoreNext]_storeVars PROVE Inv'
    OBVIOUS
  <1>1. ASSUME UNCHANGED storeVars PROVE Inv'
    <2>1. orders' = orders /\ pending' = pending /\ outbox' = outbox
      BY <1>1 DEF storeVars
    <2>2. TypeOK'
      BY <2>1 DEF Inv, TypeOK, OrderState
    <2>3. LogTellsOrder'
      BY <2>1 DEF Inv, LogTellsOrder
    <2>4. NoStalledSuccessor'
      BY <2>1 DEF Inv, NoStalledSuccessor
    <2>5. RowMatchesKey'
      BY <2>1 DEF Inv, RowMatchesKey, Storable
    <2> QED
      BY <2>2, <2>3, <2>4, <2>5 DEF Inv
  <1>2. ASSUME NEW e \in SeqEvent, ApplyEvent(e) PROVE Inv'
    BY <1>1, <1>2, ApplyAndDrainInv, BufferEventInv DEF ApplyEvent, IgnoreEvent
  <1>3. ASSUME NEW e \in AbortEvent, AbortPlan(e) PROVE Inv'
    BY <1>1, <1>3, AbortOrderInv, TombstoneOrderInv DEF AbortPlan, IgnoreAbort
  <1>4. ASSUME NEW e \in Event, Refuse(e) PROVE Inv'
    BY <1>1, <1>4 DEF Refuse
  <1>5. ASSUME NEW rows \in SUBSET Buffered, ExpirePending(rows) PROVE Inv'
    BY <1>5, ExpirePendingInv
  <1> QED
    BY <1>1, <1>2, <1>3, <1>4, <1>5 DEF StoreNext

(* The invariant holds in every state the store can reach, with any callers. *)
THEOREM StoreInvariant == StoreSpec => []Inv
  BY InitInv, NextInv, PTL DEF StoreSpec

(* The tables keep their types, for any orders, plans, payloads and width of *)
(* INTEGER: an order that exists has an owner and a status of init.sql's     *)
(* CHECK list (applyEvent, AbortPlan).                                       *)
THEOREM TypeCorrect == StoreSpec => []TypeOK
  BY StoreInvariant, PTL DEF Inv

(* Effectively once, and in order: what downstream is told of an order is    *)
(* its plan's events 1 .. last_seq, each once, and one abort after them if   *)
(* and only if the started order was aborted (ApplyEvent, AbortPlan).        *)
THEOREM NotifiedOnceInOrder == StoreSpec => []LogTellsOrder
  BY StoreInvariant, PTL DEF Inv

(* No event waits for a predecessor that was applied, nor for an order that  *)
(* was aborted: drainPending and the abort's DELETE leave none behind.       *)
THEOREM NeverStalled == StoreSpec => []NoStalledSuccessor
  BY StoreInvariant, PTL DEF Inv

-----------------------------------------------------------------------------
(* The store implements the ledger: ApplyEvent with outcome APPLY extends    *)
(* the log of its order by the next events of its plan, an effective         *)
(* AbortPlan closes it, and every other transaction is a stutter.            *)

(* An order without a row belongs to nobody (lockOrder's zero state).        *)
NobodyOwns == \A o \in Orders : ~orders[o].exists => orders[o].planID = ""

LInv == Inv /\ NobodyOwns

(* The row of one order changes, to one that exists. *)
LEMMA NobodyOwnsStep ==
    ASSUME NobodyOwns, orders \in [Orders -> OrderState], NEW o \in Orders, NEW s, s.exists,
           orders' = [orders EXCEPT ![o] = s]
    PROVE  NobodyOwns'
  <1>1. \A x \in Orders : orders'[x] = IF x = o THEN s ELSE orders[x]
    OBVIOUS
  <1> QED
    BY <1>1 DEF NobodyOwns

(* Every transaction that writes an order row writes its owner with it.      *)
LEMMA NobodyOwnsNext == LInv /\ [StoreNext]_storeVars => NobodyOwns'
  <1> SUFFICES ASSUME LInv, [StoreNext]_storeVars PROVE NobodyOwns'
    OBVIOUS
  <1>1. NobodyOwns /\ Inv /\ orders \in [Orders -> OrderState]
    BY DEF LInv, Inv, TypeOK
  <1>2. ASSUME orders' = orders PROVE NobodyOwns'
    BY <1>1, <1>2 DEF NobodyOwns
  <1>3. ASSUME NEW e \in SeqEvent, ApplyAndDrain(e) PROVE NobodyOwns'
    <2>1. PICK s : s.exists /\ orders' = [orders EXCEPT ![e.order] = s]
      BY <1>3 DEF ApplyAndDrain
    <2>2. e.order \in Orders
      BY DEF SeqEvent
    <2> QED
      BY <2>1, <2>2, <1>1, NobodyOwnsStep
  <1>4. ASSUME NEW e \in AbortEvent, TombstoneOrder(e) PROVE NobodyOwns'
    <2>1. PICK s : s.exists /\ orders' = [orders EXCEPT ![e.order] = s]
      BY <1>4 DEF TombstoneOrder
    <2>2. e.order \in Orders
      BY DEF AbortEvent
    <2> QED
      BY <2>1, <2>2, <1>1, NobodyOwnsStep
  <1>5. ASSUME NEW e \in AbortEvent, AbortOrder(e) PROVE NobodyOwns'
    <2>1. e.order \in Orders /\ orders[e.order] \in OrderState
      BY <1>1 DEF AbortEvent
    <2>2. DecideAbort(orders[e.order], e.planID) = "APPLY"
      BY <1>5 DEF AbortOrder, AbortOutcome
    <2>3. orders[e.order].exists
      BY <2>1, <2>2, OrderStateFields, DecideAbortCases DEF Owns
    <2> DEFINE s == [orders[e.order] EXCEPT !.status = "aborted"]
    <2>4. s.exists /\ orders' = [orders EXCEPT ![e.order] = s]
      BY <1>5, <2>1, <2>3 DEF AbortOrder, OrderState
    <2> HIDE DEF s
    <2> QED
      BY <2>4, <2>1, <1>1, NobodyOwnsStep
  <1>6. ASSUME NEW e, \/ BufferEvent(e) \/ IgnoreEvent(e) \/ IgnoreAbort(e)
                      \/ Refuse(e) \/ ExpirePending(e)
        PROVE  orders' = orders
    BY <1>6 DEF BufferEvent, IgnoreEvent, IgnoreAbort, Refuse, ExpirePending, storeVars
  <1>7. ASSUME UNCHANGED storeVars PROVE orders' = orders
    BY <1>7 DEF storeVars
  <1> QED
    BY <1>2, <1>3, <1>4, <1>5, <1>6, <1>7 DEF StoreNext, ApplyEvent, AbortPlan

(* The strengthened invariant holds in every reachable state. *)
LEMMA LedgerInvariant == StoreSpec => []LInv
  <1>1. StoreInit => NobodyOwns
    <2>1. NoOrder.planID = ""
      BY DEF NoOrder
    <2> QED
      BY <2>1 DEF StoreInit, NobodyOwns
  <1>2. LInv /\ [StoreNext]_storeVars => LInv'
    BY NextInv, NobodyOwnsNext DEF LInv
  <1> QED
    BY <1>1, <1>2, InitInv, PTL DEF StoreSpec, LInv

-----------------------------------------------------------------------------
(* The step that applies an event writes the owner and ends nothing.         *)
LEMMA ExtendsLedger ==
    ASSUME LInv, NEW e \in SeqEvent, ApplyAndDrain(e)
    PROVE  Ledger!Extend(e.order, e.planID)
  <1> DEFINE o == e.order
             p == e.planID
  <1>1. SeqOutcome(e) = "APPLY" /\ Inv /\ NobodyOwns
    BY DEF ApplyAndDrain, LInv
  <1>2. PICK m \in e.seqID..(MaxInt - 1) :
          /\ DrainableTo(e, m)
          /\ orders' = [orders EXCEPT ![o] =
                [exists  |-> TRUE,
                 planID  |-> p,
                 lastSeq |-> m,
                 status  |-> StatusFromEventType(
                                IF m = e.seqID THEN e.type ELSE Row(e, m).type)]]
          /\ outbox' = [outbox EXCEPT ![o] = @ \o Batch(e, m)]
    BY DEF ApplyAndDrain
  <1> DEFINE log == outbox[o] \o Batch(e, m)
             st  == StatusFromEventType(IF m = e.seqID THEN e.type ELSE Row(e, m).type)
             new == [exists |-> TRUE, planID |-> p, lastSeq |-> m, status |-> st]
  <1>3. /\ o \in Orders /\ p \in Plans /\ e.seqID \in Nat /\ e.seqID >= 1
        /\ m \in Nat /\ m >= e.seqID
        /\ Len(outbox[o]) = e.seqID - 1
        /\ ~Aborted(orders[o]) /\ (orders[o].exists => orders[o].planID = p)
    BY <1>1, LogBeforeApply, MaxIntAssumption
  <1>4. /\ Len(log) = m
        /\ \A i \in 1..m : log[i] \in SeqEvent /\ log[i].planID = p /\ log[i].seqID = i
        /\ log[m] = IF m = e.seqID THEN e ELSE Row(e, m)
        /\ \A i \in 1..Len(outbox[o]) : log[i] = outbox[o][i]
    BY <1>1, <1>2, LogAfterApply
  <1>5. st # "aborted"
    <2>1. log[m] \in SeqEvent /\ st = StatusFromEventType(log[m].type)
      BY <1>3, <1>4
    <2>2. log[m].type \in SequencedType
      BY <2>1, TypesAssumption DEF SeqEvent
    <2> QED
      BY <2>1, <2>2, StatusOfType
  <1>6. orders \in [Orders -> OrderState] /\ outbox \in [Orders -> Seq(Event)]
    BY <1>1 DEF Inv, TypeOK
  <1>7. orders[o].planID \in {"", p}
    <2>1. orders[o].exists \in BOOLEAN
      BY <1>3, <1>6, OrderStateFields
    <2> QED
      BY <2>1, <1>1, <1>3 DEF NobodyOwns
  <1>8. outbox' = [outbox EXCEPT ![o] = log] /\ orders' = [orders EXCEPT ![o] = new]
    BY <1>2
  <1>9. new.planID = p /\ ~Aborted(new)
    BY <1>5 DEF Aborted
  <1> HIDE DEF log, st, new
  <1>10. outbox'[o] = log /\ outbox' = [outbox EXCEPT ![o] = outbox'[o]]
    BY <1>3, <1>6, <1>8
  <1>11. \A x \in Orders : orders'[x] = IF x = o THEN new ELSE orders[x]
    BY <1>3, <1>6, <1>8
  <1>12. [x \in Orders |-> orders'[x].planID]
             = [[x \in Orders |-> orders[x].planID] EXCEPT ![o] = p]
    BY <1>9, <1>11
  <1>13. [x \in Orders |-> Aborted(orders'[x])] = [x \in Orders |-> Aborted(orders[x])]
    <2>1. \A x \in Orders : Aborted(orders'[x]) <=> Aborted(orders[x])
      BY <1>3, <1>9, <1>11
    <2>2. \A x \in Orders : Aborted(orders'[x]) \in BOOLEAN /\ Aborted(orders[x]) \in BOOLEAN
      BY DEF Aborted
    <2>3. \A x \in Orders : Aborted(orders'[x]) = Aborted(orders[x])
      BY <2>1, <2>2
    <2> QED
      BY <2>3
  <1>14. Len(outbox'[o]) > Len(outbox[o])
    BY <1>3, <1>4, <1>10
  <1>15. \A i \in (Len(outbox[o]) + 1)..Len(outbox'[o]) :
            outbox'[o][i] \in SeqEvent /\ outbox'[o][i].planID = p /\ outbox'[o][i].seqID = i
    <2>1. \A i \in (Len(outbox[o]) + 1)..Len(outbox'[o]) : i \in 1..m
      BY <1>3, <1>4, <1>10
    <2> QED
      BY <2>1, <1>4, <1>10
  <1>16. Ledger!MayWrite(o, p)
    BY <1>3, <1>7 DEF Ledger!MayWrite, Ledger!NoPlan
  <1> QED
    BY <1>3, <1>4, <1>10, <1>12, <1>13, <1>14, <1>15, <1>16 DEF Ledger!Extend, Ledger!IsEntry

(* An abort that ends an order writes its owner and its end, and the rest of *)
(* the mapped state stays: what both outcomes of AbortPlan have in common.   *)
LEMMA EndsOrder ==
    ASSUME orders \in [Orders -> OrderState], NEW o \in Orders, NEW p, NEW new,
           orders' = [orders EXCEPT ![o] = new], new.planID = p, Aborted(new)
    PROVE  /\ [x \in Orders |-> orders'[x].planID]
                 = [[x \in Orders |-> orders[x].planID] EXCEPT ![o] = p]
           /\ [x \in Orders |-> Aborted(orders'[x])]
                 = [[x \in Orders |-> Aborted(orders[x])] EXCEPT ![o] = TRUE]
  <1>1. \A x \in Orders : orders'[x] = IF x = o THEN new ELSE orders[x]
    OBVIOUS
  <1>2. \A x \in Orders : Aborted(orders'[x]) \in BOOLEAN /\ Aborted(orders[x]) \in BOOLEAN
    BY DEF Aborted
  <1>3. \A x \in Orders : Aborted(orders'[x]) <=> (x = o \/ Aborted(orders[x]))
    BY <1>1
  <1>4. \A x \in Orders : Aborted(orders'[x]) = IF x = o THEN TRUE ELSE Aborted(orders[x])
    BY <1>2, <1>3
  <1>5. [x \in Orders |-> Aborted(orders'[x])]
           = [x \in Orders |-> IF x = o THEN TRUE ELSE Aborted(orders[x])]
    BY <1>4
  <1>6. [[x \in Orders |-> Aborted(orders[x])] EXCEPT ![o] = TRUE]
           = [x \in Orders |-> IF x = o THEN TRUE ELSE Aborted(orders[x])]
    OBVIOUS
  <1> QED
    BY <1>1, <1>5, <1>6

(* AbortPlan, outcome APPLY: the log of a started order ends with the abort. *)
LEMMA AbortCloses ==
    ASSUME LInv, NEW e \in AbortEvent, AbortOrder(e)
    PROVE  Ledger!Close(e.order, e.planID)
  <1> DEFINE o == e.order
             p == e.planID
             old == orders[o]
             log == outbox[o]
             new == [old EXCEPT !.status = "aborted"]
  <1>1. /\ DecideAbort(old, p) = "APPLY"
        /\ orders' = [orders EXCEPT ![o].status = "aborted"]
        /\ outbox' = [outbox EXCEPT ![o] = Append(@, e)]
    BY DEF AbortOrder, AbortOutcome
  <1>2. o \in Orders /\ orders \in [Orders -> OrderState] /\ outbox \in [Orders -> Seq(Event)]
    BY DEF LInv, Inv, TypeOK, AbortEvent
  <1>3. old \in OrderState /\ log \in Seq(Event) /\ old.exists \in BOOLEAN /\ old.lastSeq \in Nat
    BY <1>2, OrderStateFields
  <1>4. Owns(old, p) /\ ~Aborted(old) /\ old.status # "completed"
    BY <1>1, <1>3, DecideAbortCases DEF Aborted
  <1>5. LogTells(old, log)
    BY <1>2 DEF LInv, Inv, LogTellsOrder
  <1>6. /\ old.lastSeq > 0 /\ Len(log) = old.lastSeq
        /\ old.status = StatusFromEventType(log[Len(log)].type)
    BY <1>3, <1>4, <1>5 DEF LogTells, Owns
  <1>7. log[Len(log)].type # "OrderCompleted"
    <2>1. StatusFromEventType("OrderCompleted") = "completed"
      BY DEF StatusFromEventType, AbortType
    <2> QED
      BY <2>1, <1>4, <1>6
  <1>8. log # <<>>
    BY <1>6
  <1>9. new.planID = p /\ Aborted(new) /\ orders' = [orders EXCEPT ![o] = new]
    BY <1>1, <1>2, <1>3, <1>4 DEF OrderState, Owns, Aborted
  <1>10. Ledger!MayWrite(o, p)
    BY <1>2, <1>4 DEF Ledger!MayWrite, Owns
  <1> HIDE DEF new
  <1>11. /\ [x \in Orders |-> orders'[x].planID]
                 = [[x \in Orders |-> orders[x].planID] EXCEPT ![o] = p]
         /\ [x \in Orders |-> Aborted(orders'[x])]
                 = [[x \in Orders |-> Aborted(orders[x])] EXCEPT ![o] = TRUE]
    BY <1>2, <1>9, EndsOrder
  <1> QED
    BY <1>1, <1>7, <1>8, <1>10, <1>11 DEF Ledger!Close

(* AbortPlan, outcome TOMBSTONE: an order without a row has no log to end.   *)
LEMMA TombstoneCloses ==
    ASSUME LInv, NEW e \in AbortEvent, TombstoneOrder(e)
    PROVE  Ledger!Close(e.order, e.planID)
  <1> DEFINE o == e.order
             p == e.planID
             new == [exists |-> TRUE, planID |-> p, lastSeq |-> 0, status |-> "aborted"]
  <1>1. /\ DecideAbort(orders[o], p) = "TOMBSTONE"
        /\ orders' = [orders EXCEPT ![o] = new]
        /\ outbox' = outbox
    BY DEF TombstoneOrder, AbortOutcome
  <1>2. o \in Orders /\ orders \in [Orders -> OrderState] /\ outbox \in [Orders -> Seq(Event)]
    BY DEF LInv, Inv, TypeOK, AbortEvent
  <1>3. ~orders[o].exists
    BY <1>1, <1>2, OrderStateFields, DecideAbortCases
  <1>4. orders[o].planID = ""
    BY <1>2, <1>3 DEF LInv, NobodyOwns
  <1>5. outbox[o] = <<>>
    <2>1. Len(outbox[o]) = 0
      BY <1>2, <1>3 DEF LInv, Inv, LogTellsOrder, LogTells, Aborted
    <2> QED
      BY <2>1, <1>2, EmptySeq
  <1>6. new.planID = p /\ Aborted(new)
    BY DEF Aborted
  <1>7. Ledger!MayWrite(o, p)
    BY <1>2, <1>3, <1>4 DEF Ledger!MayWrite, Ledger!NoPlan, Aborted
  <1> HIDE DEF new
  <1>8. /\ [x \in Orders |-> orders'[x].planID]
                 = [[x \in Orders |-> orders[x].planID] EXCEPT ![o] = p]
        /\ [x \in Orders |-> Aborted(orders'[x])]
                 = [[x \in Orders |-> Aborted(orders[x])] EXCEPT ![o] = TRUE]
    BY <1>1, <1>2, <1>6, EndsOrder
  <1> QED
    BY <1>1, <1>5, <1>7, <1>8 DEF Ledger!Close

-----------------------------------------------------------------------------
(* The empty tables are an empty ledger.                                     *)
LEMMA InitLedger == StoreInit => Ledger!Init
  <1> SUFFICES ASSUME StoreInit PROVE Ledger!Init
    OBVIOUS
  <1>1. NoOrder.planID = "" /\ ~NoOrder.exists
    BY DEF NoOrder
  <1>2. Aborted(NoOrder) = FALSE
    BY <1>1 DEF Aborted
  <1>3. \A o \in Orders : orders[o].planID = "" /\ Aborted(orders[o]) = FALSE
    BY <1>1, <1>2 DEF StoreInit
  <1> QED
    BY <1>3 DEF StoreInit, Ledger!Init, Ledger!NoPlan

(* Every step of the store extends the ledger, closes it or leaves it alone. *)
LEMMA NextLedger == LInv /\ [StoreNext]_storeVars => [Ledger!Next]_Ledger!ledger
  <1> SUFFICES ASSUME LInv, [StoreNext]_storeVars PROVE [Ledger!Next]_Ledger!ledger
    OBVIOUS
  <1>1. ASSUME orders' = orders, outbox' = outbox PROVE UNCHANGED Ledger!ledger
    BY <1>1 DEF Ledger!ledger
  <1>2. ASSUME NEW e \in SeqEvent, ApplyAndDrain(e) PROVE Ledger!Next
    BY <1>2, ExtendsLedger DEF Ledger!Next, SeqEvent
  <1>3. ASSUME NEW e \in AbortEvent, AbortOrder(e) \/ TombstoneOrder(e) PROVE Ledger!Next
    BY <1>3, AbortCloses, TombstoneCloses DEF Ledger!Next, AbortEvent
  <1>4. ASSUME NEW e, \/ BufferEvent(e) \/ IgnoreEvent(e) \/ IgnoreAbort(e)
                      \/ Refuse(e) \/ ExpirePending(e)
        PROVE  orders' = orders /\ outbox' = outbox
    BY <1>4 DEF BufferEvent, IgnoreEvent, IgnoreAbort, Refuse, ExpirePending, storeVars
  <1>5. ASSUME UNCHANGED storeVars PROVE orders' = orders /\ outbox' = outbox
    BY <1>5 DEF storeVars
  <1> QED
    BY <1>1, <1>2, <1>3, <1>4, <1>5 DEF StoreNext, ApplyEvent, AbortPlan

(* The store implements the ledger, for any orders, plans, payloads and      *)
(* width of INTEGER: whatever sequence of ApplyEvent, AbortPlan and          *)
(* ExpirePending its callers make, the outbox of an order only grows, by the *)
(* next events of the plan that owns it, and an abort ends it.               *)
THEOREM ImplementsLedger == StoreSpec => KeepsLedger
  BY LedgerInvariant, InitLedger, NextLedger, PTL DEF StoreSpec, KeepsLedger, Ledger!Spec
=============================================================================
