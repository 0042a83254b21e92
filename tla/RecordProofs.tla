---------------------------- MODULE RecordProofs ----------------------------
(***************************************************************************)
(* Theorems about Consumer that follow one record through the system, for  *)
(* any number of workers, any records and any number of faults: the rows   *)
(* that a sweeper has locked stay its own, a record that was refused for   *)
(* its plan never has an effect, and no settled record is ever lost.       *)
(* First what every transaction of the store leaves as it was, then one    *)
(* invariant upon the other.                                               *)
(***************************************************************************)
EXTENDS ConsumerProofs

(* Every entry of an order's log is an event of that order. *)
OfItsOrder == \A o \in Orders : \A i \in 1..Len(outbox[o]) : outbox[o][i].order = o

StoryInv == LInv /\ OfItsOrder

(* No transaction takes back what an order's log tells, its owner, its end.  *)
HistoryStays ==
    \A o \in Orders :
       /\ orders[o].exists => orders'[o].exists /\ orders'[o].planID = orders[o].planID
       /\ Aborted(orders[o]) => Aborted(orders'[o])
       /\ \A i \in 1..Len(outbox[o]) : i \in 1..Len(outbox'[o]) /\ outbox'[o][i] = outbox[o][i]

(* The log of o has event number s of plan p. *)
Told(o, p, s) ==
    \E i \in 1..Len(outbox[o]) : /\ outbox[o][i] \in Event /\ outbox[o][i].order = o
                                 /\ outbox[o][i].planID = p /\ outbox[o][i].seqID = s

(* Plan p owns o and has aborted it. *)
Overruled(o, p) == Owns(orders[o], p) /\ Aborted(orders[o])

(* A buffered row that a step takes away is in the log, or overruled. *)
RowsStayOrAreTold ==
    \A o \in Orders, p \in Plans, s \in 1..MaxInt :
       pending[o][p][s] # NoRow =>
          pending'[o][p][s] = pending[o][p][s] \/ Told(o, p, s)' \/ Overruled(o, p)'

(* The tables of one order that exist and what they hold, by their types.    *)
LEMMA TableTypes ==
    ASSUME StoryInv
    PROVE  /\ orders \in [Orders -> OrderState] /\ outbox \in [Orders -> Seq(Event)]
           /\ pending \in [Orders -> [Plans -> [1..MaxInt -> SeqEvent \cup {NoRow}]]]
           /\ Inv /\ MaxInt \in Nat
  BY MaxIntAssumption DEF StoryInv, LInv, Inv, TypeOK

(* ApplyEvent, outcome APPLY: the log of the order has the event and every   *)
(* row that the drain has deleted.                                           *)
LEMMA ApplyTells ==
    ASSUME StoryInv, NEW e \in SeqEvent, ApplyAndDrain(e)
    PROVE  HistoryStays /\ RowsStayOrAreTold /\ OfItsOrder' /\ Told(e.order, e.planID, e.seqID)'
  <1> DEFINE o == e.order
             p == e.planID
  <1>1. SeqOutcome(e) = "APPLY" /\ Inv
    BY TableTypes DEF ApplyAndDrain
  <1>2. PICK m \in e.seqID..(MaxInt - 1) :
          /\ DrainableTo(e, m)
          /\ orders' = [orders EXCEPT ![o] =
                [exists  |-> TRUE,
                 planID  |-> p,
                 lastSeq |-> m,
                 status  |-> StatusFromEventType(
                                IF m = e.seqID THEN e.type ELSE Row(e, m).type)]]
          /\ outbox' = [outbox EXCEPT ![o] = @ \o Batch(e, m)]
          /\ DeletePending(o, p, DrainedRows(e, m))
    BY DEF ApplyAndDrain
  <1> DEFINE log == outbox[o] \o Batch(e, m)
             st  == StatusFromEventType(IF m = e.seqID THEN e.type ELSE Row(e, m).type)
             new == [exists |-> TRUE, planID |-> p, lastSeq |-> m, status |-> st]
  <1>3. /\ o \in Orders /\ p \in Plans /\ e.seqID \in Nat /\ e.seqID >= 1
        /\ m \in Nat /\ m >= e.seqID
        /\ Len(outbox[o]) = e.seqID - 1
        /\ ~Aborted(orders[o]) /\ (orders[o].exists => orders[o].planID = p)
    BY <1>1, LogBeforeApply, MaxIntAssumption
  <1>4. /\ Len(log) = m
        /\ \A i \in 1..m : log[i] \in SeqEvent /\ log[i].planID = p /\ log[i].seqID = i
        /\ \A i \in 1..Len(outbox[o]) : log[i] = outbox[o][i]
        /\ \A i \in e.seqID..m : log[i].order = o
    BY <1>1, <1>2, LogAfterApply
  <1>5. outbox' = [outbox EXCEPT ![o] = log] /\ orders' = [orders EXCEPT ![o] = new]
    BY <1>2
  <1>6. new.exists /\ new.planID = p
    OBVIOUS
  <1> HIDE DEF log, st, new
  <1>7. /\ \A x \in Orders : outbox'[x] = IF x = o THEN log ELSE outbox[x]
        /\ \A x \in Orders : orders'[x] = IF x = o THEN new ELSE orders[x]
    BY <1>5, <1>3, TableTypes
  <1>8. HistoryStays
    <2>1. \A i \in 1..Len(outbox[o]) : i \in 1..Len(log) /\ log[i] = outbox[o][i]
      BY <1>3, <1>4
    <2> QED
      BY <2>1, <1>3, <1>6, <1>7 DEF HistoryStays
  <1>9. ASSUME NEW s \in e.seqID..m PROVE Told(o, p, s)'
    <2>1. s \in 1..Len(outbox'[o]) /\ outbox'[o] = log
      BY <1>3, <1>4, <1>7
    <2>2. log[s] \in Event /\ log[s].order = o /\ log[s].planID = p /\ log[s].seqID = s
      BY <2>1, <1>4 DEF Event
    <2> QED
      BY <2>1, <2>2 DEF Told
  <1>10. RowsStayOrAreTold
    <2>1. \A x \in Orders, q \in Plans, s \in 1..MaxInt :
             pending'[x][q][s] = IF x = o /\ q = p /\ s \in DrainedRows(e, m)
                                 THEN NoRow ELSE pending[x][q][s]
      BY <1>1, <1>2, <1>3, RowsAfterDelete
    <2>2. \A s \in DrainedRows(e, m) : s \in e.seqID..m
      BY <1>3 DEF DrainedRows
    <2> QED
      BY <2>1, <2>2, <1>9 DEF RowsStayOrAreTold
  <1>11. OfItsOrder'
    <2>1. ASSUME NEW i \in 1..Len(log) PROVE log[i].order = o
      <3>1. CASE i \in 1..Len(outbox[o])
        BY <3>1, <1>3, <1>4 DEF StoryInv, OfItsOrder
      <3>2. CASE i \notin 1..Len(outbox[o])
        <4>1. i \in e.seqID..m
          BY <3>2, <1>3, <1>4
        <4> QED
          BY <4>1, <1>4
      <3> QED
        BY <3>1, <3>2
    <2> QED
      BY <2>1, <1>7 DEF StoryInv, OfItsOrder
  <1>12. Told(o, p, e.seqID)'
    BY <1>3, <1>9
  <1> QED
    BY <1>8, <1>10, <1>11, <1>12

(* ApplyEvent, outcome BUFFER: a row that is there stays, and afterwards     *)
(* there is one with the key of the event.                                   *)
LEMMA BufferKeepsRows ==
    ASSUME StoryInv, NEW e \in SeqEvent, BufferEvent(e)
    PROVE  /\ HistoryStays /\ RowsStayOrAreTold /\ OfItsOrder'
           /\ e.seqID \in 1..MaxInt /\ pending'[e.order][e.planID][e.seqID] # NoRow
           /\ \A o \in Orders, p \in Plans, s \in 1..MaxInt :
                 pending[o][p][s] # NoRow => pending'[o][p][s] = pending[o][p][s]
  <1> DEFINE o == e.order
             p == e.planID
             row == IF pending[o][p][e.seqID] = NoRow THEN e ELSE pending[o][p][e.seqID]
  <1>1. /\ o \in Orders /\ p \in Plans /\ e.seqID \in 1..MaxInt /\ e # NoRow
        /\ orders' = orders /\ outbox' = outbox
        /\ pending' = [pending EXCEPT ![o][p][e.seqID] = row]
    BY TableTypes, NoRowAssumption DEF BufferEvent, SeqEvent, Event
  <1>2. \A x \in Orders, q \in Plans, s \in 1..MaxInt :
           pending'[x][q][s] = IF x = o /\ q = p /\ s = e.seqID THEN row ELSE pending[x][q][s]
    BY <1>1, TableTypes
  <1>3. pending'[o][p][e.seqID] # NoRow
    BY <1>1, <1>2, SMTT(30)
  <1>4. \A x \in Orders, q \in Plans, s \in 1..MaxInt :
           pending[x][q][s] # NoRow => pending'[x][q][s] = pending[x][q][s]
    BY <1>2
  <1> QED
    BY <1>1, <1>3, <1>4 DEF HistoryStays, RowsStayOrAreTold, StoryInv, OfItsOrder

(* AbortPlan, when it writes: the plan owns the order and has aborted it, so *)
(* all that was buffered of it is overruled.                                 *)
LEMMA AbortOverrules ==
    ASSUME StoryInv, NEW e \in AbortEvent, AbortOrder(e) \/ TombstoneOrder(e)
    PROVE  HistoryStays /\ RowsStayOrAreTold /\ OfItsOrder' /\ Overruled(e.order, e.planID)'
  <1> DEFINE o == e.order
             p == e.planID
  <1>1. o \in Orders /\ p \in Plans /\ orders[o] \in OrderState /\ orders[o].exists \in BOOLEAN
        /\ outbox[o] \in Seq(Event) /\ e \in Event
    BY TableTypes, OrderStateFields DEF AbortEvent, Event
  <1>2. PICK new : /\ orders' = [orders EXCEPT ![o] = new]
                   /\ new.exists /\ new.planID = p /\ Aborted(new)
                   /\ orders[o].exists => orders[o].planID = p
    <2>1. CASE AbortOrder(e)
      <3> DEFINE s == [orders[o] EXCEPT !.status = "aborted"]
      <3>1. Owns(orders[o], p)
        BY <2>1, <1>1, DecideAbortCases DEF AbortOrder, AbortOutcome
      <3>2. orders' = [orders EXCEPT ![o] = s] /\ s.exists /\ s.planID = p /\ s.status = "aborted"
        BY <2>1, <3>1, <1>1 DEF AbortOrder, OrderState, Owns
      <3> HIDE DEF s
      <3> QED
        BY <3>1, <3>2 DEF Owns, Aborted
    <2>2. CASE TombstoneOrder(e)
      <3> DEFINE s == [exists |-> TRUE, planID |-> p, lastSeq |-> 0, status |-> "aborted"]
      <3>1. ~orders[o].exists
        BY <2>2, <1>1, DecideAbortCases DEF TombstoneOrder, AbortOutcome
      <3>2. orders' = [orders EXCEPT ![o] = s] /\ s.exists /\ s.planID = p /\ s.status = "aborted"
        BY <2>2 DEF TombstoneOrder
      <3> HIDE DEF s
      <3> QED
        BY <3>1, <3>2 DEF Aborted
    <2> QED
      BY <2>1, <2>2
  <1>3. PICK log : /\ outbox' = [outbox EXCEPT ![o] = log]
                   /\ \A i \in 1..Len(outbox[o]) : i \in 1..Len(log) /\ log[i] = outbox[o][i]
                   /\ \A i \in 1..Len(log) : i \in 1..Len(outbox[o]) \/ log[i] = e
    <2>1. CASE AbortOrder(e)
      <3>1. outbox' = [outbox EXCEPT ![o] = Append(outbox[o], e)]
        BY <2>1, <1>1 DEF AbortOrder
      <3>2. /\ \A i \in 1..Len(outbox[o]) : i \in 1..Len(Append(outbox[o], e))
                                            /\ Append(outbox[o], e)[i] = outbox[o][i]
            /\ \A i \in 1..Len(Append(outbox[o], e)) :
                  i \in 1..Len(outbox[o]) \/ Append(outbox[o], e)[i] = e
        BY <1>1
      <3> QED
        BY <3>1, <3>2
    <2>2. CASE TombstoneOrder(e)
      <3>1. outbox' = [outbox EXCEPT ![o] = outbox[o]]
        BY <2>2, TableTypes DEF TombstoneOrder
      <3> QED
        BY <3>1
    <2> QED
      BY <2>1, <2>2
  <1>4. /\ \A x \in Orders : orders'[x] = IF x = o THEN new ELSE orders[x]
        /\ \A x \in Orders : outbox'[x] = IF x = o THEN log ELSE outbox[x]
    BY <1>1, <1>2, <1>3, TableTypes
  <1>5. HistoryStays
    BY <1>2, <1>3, <1>4 DEF HistoryStays
  <1>6. Overruled(o, p)'
    BY <1>1, <1>2, <1>4 DEF Overruled, Owns
  <1>7. RowsStayOrAreTold
    <2> DEFINE S == 1..MaxInt
    <2>1. DeletePending(o, p, S)
      BY DEF AbortOrder, TombstoneOrder, DiscardPending
    <2>2. \A x \in Orders, q \in Plans, s \in 1..MaxInt :
             pending'[x][q][s] = IF x = o /\ q = p /\ s \in S THEN NoRow ELSE pending[x][q][s]
      <3> HIDE DEF S
      <3> QED
        BY <2>1, <1>1, TableTypes, RowsAfterDelete
    <2> QED
      BY <2>2, <1>6 DEF RowsStayOrAreTold
  <1>8. OfItsOrder'
    BY <1>3, <1>4 DEF StoryInv, OfItsOrder
  <1> QED
    BY <1>5, <1>6, <1>7, <1>8

(* ExpirePending takes the rows it is given and nothing else. *)
LEMMA ExpireTakesRows ==
    ASSUME StoryInv, NEW rows, ExpirePending(rows)
    PROVE  /\ HistoryStays /\ OfItsOrder'
           /\ \A o \in Orders, p \in Plans, s \in 1..MaxInt :
                 pending'[o][p][s] = IF <<o, p, s>> \in rows THEN NoRow ELSE pending[o][p][s]
  BY DEF ExpirePending, Without, HistoryStays, StoryInv, OfItsOrder

(* A step that leaves the tables alone. *)
LEMMA TablesStay ==
    ASSUME StoryInv, UNCHANGED storeVars
    PROVE  HistoryStays /\ RowsStayOrAreTold /\ OfItsOrder'
  BY DEF storeVars, HistoryStays, RowsStayOrAreTold, StoryInv, OfItsOrder

(* Whatever a transaction does, history stays and no row gets lost, unless   *)
(* it is a sweep's.                                                          *)
LEMMA EventHistory ==
    ASSUME StoryInv, NEW e, \/ e \in SeqEvent /\ ApplyEvent(e)
                            \/ e \in AbortEvent /\ AbortPlan(e)
    PROVE  HistoryStays /\ RowsStayOrAreTold /\ OfItsOrder'
  BY ApplyTells, BufferKeepsRows, AbortOverrules, TablesStay
     DEF ApplyEvent, AbortPlan, IgnoreEvent, IgnoreAbort

LEMMA StoreHistory ==
    ASSUME StoryInv, [StoreNext]_storeVars
    PROVE  HistoryStays /\ OfItsOrder'
  BY EventHistory, ExpireTakesRows, TablesStay DEF StoreNext, Refuse

LEMMA StoryInvariant == Spec => []StoryInv
  <1>1. Spec => []LInv
    BY UsesStore, LedgerInvariant, PTL
  <1>2. Init => OfItsOrder
    BY DEF Init, StoreInit, OfItsOrder
  <1>3. LInv /\ OfItsOrder /\ [Next]_vars => OfItsOrder'
    BY StepUsesStore, StoreHistory DEF StoryInv
  <1> QED
    BY <1>1, <1>2, <1>3, PTL DEF Spec, StoryInv

-----------------------------------------------------------------------------
(* The sweeper's row locks. *)

Key == Orders \X Plans \X (1..MaxInt)

RowAt(k) == pending[k[1]][k[2]][k[3]]

(* The strengthening of LockedRowsStay: a row that the sweeper has ticked    *)
(* off is a dead letter, and still the row that was sent.                    *)
SentRows == \A c \in Workers : \A k \in sweep[c].rows \ sweep[c].left :
               <<RowAt(k), "BUFFER_TIMEOUT">> \in dlq

SweepInv ==
    /\ sweep \in [Workers -> [rows : SUBSET Key, left : SUBSET Key]]
    /\ \A c \in Workers : sweep[c].left \subseteq sweep[c].rows
    /\ LockedRowsStay
    /\ SentRows

(* The transactions of the consumer touch no row that a sweeper has locked:  *)
(* they wait for it.                                                         *)
LEMMA LockedUntouched ==
    ASSUME StoryInv, NEW e, ~Waits(e),
           \/ e \in SeqEvent /\ ApplyEvent(e)
           \/ e \in AbortEvent /\ AbortPlan(e),
           NEW o \in Orders, NEW p \in Plans, NEW s \in 1..MaxInt,
           <<o, p, s>> \in Locked, pending[o][p][s] # NoRow
    PROVE  pending'[o][p][s] = pending[o][p][s]
  <1>1. CASE UNCHANGED storeVars
    BY <1>1 DEF storeVars
  <1>2. CASE e \in SeqEvent /\ BufferEvent(e)
    BY <1>2, BufferKeepsRows
  <1>3. CASE e \in SeqEvent /\ ApplyAndDrain(e)
    <2>1. SeqOutcome(e) = "APPLY" /\ Applicable(e) /\ e.order \in Orders /\ e.planID \in Plans
          /\ e.seqID \in Nat
      BY <1>3 DEF ApplyAndDrain, SeqEvent
    <2>2. PICK m \in e.seqID..(MaxInt - 1) :
             DrainableTo(e, m) /\ DeletePending(e.order, e.planID, DrainedRows(e, m))
      BY <1>3 DEF ApplyAndDrain
    <2>3. pending'[o][p][s] = IF o = e.order /\ p = e.planID /\ s \in DrainedRows(e, m)
                              THEN NoRow ELSE pending[o][p][s]
      BY <2>1, <2>2, TableTypes, RowsAfterDelete
    <2>4. ASSUME s \in DrainedRows(e, m), o = e.order, p = e.planID PROVE FALSE
      <3>1. s \in (e.seqID + 1)..m /\ s \in Int /\ m \in Int /\ s \in (e.seqID + 1)..MaxInt
        BY <2>1, <2>4, TableTypes DEF DrainedRows
      <3>2. DrainableTo(e, s - 1)
        BY <3>1, <2>1, <2>2 DEF DrainableTo
      <3> QED
        BY <1>3, <3>1, <3>2, <2>1, <2>4 DEF Waits
    <2> QED
      BY <2>3, <2>4
  <1>4. CASE e \in AbortEvent /\ (AbortOrder(e) \/ TombstoneOrder(e))
    <2> DEFINE S == 1..MaxInt
    <2>1. e.order \in Orders /\ e.planID \in Plans /\ DeletePending(e.order, e.planID, S)
          /\ AbortOutcome(e) \in {"APPLY", "TOMBSTONE"} /\ Storable(e)
      BY <1>4 DEF AbortOrder, TombstoneOrder, DiscardPending, AbortEvent
    <2>2. ~(o = e.order /\ p = e.planID)
      BY <1>4, <2>1 DEF Waits
    <2>3. pending'[o][p][s] = IF o = e.order /\ p = e.planID /\ s \in S
                              THEN NoRow ELSE pending[o][p][s]
      <3> HIDE DEF S
      <3> QED
        BY <2>1, TableTypes, RowsAfterDelete
    <2> QED
      BY <2>2, <2>3
  <1> QED
    BY <1>1, <1>2, <1>3, <1>4 DEF ApplyEvent, AbortPlan, IgnoreEvent, IgnoreAbort

(* The same, for the rows as the sweeps know them. *)
LEMMA SweptUntouched ==
    ASSUME StoryInv, SweepInv, NEW e, ~Waits(e),
           \/ e \in SeqEvent /\ ApplyEvent(e)
           \/ e \in AbortEvent /\ AbortPlan(e)
    PROVE  \A c \in Workers : \A k \in sweep[c].rows : RowAt(k)' = RowAt(k)
  <1> SUFFICES ASSUME NEW c \in Workers, NEW k \in sweep[c].rows PROVE RowAt(k)' = RowAt(k)
    OBVIOUS
  <1>1. k \in Buffered /\ k \in Locked
    BY DEF SweepInv, LockedRowsStay, Locked
  <1>2. PICK o \in Orders, p \in Plans, s \in 1..MaxInt : k = <<o, p, s>>
    BY <1>1 DEF Buffered
  <1>3. pending[o][p][s] # NoRow
    BY <1>1, <1>2 DEF Buffered
  <1> QED
    BY <1>1, <1>2, <1>3, LockedUntouched DEF RowAt

(* Sweeps that stay as they are, and so do their rows. *)
LEMMA SweepsStay ==
    ASSUME SweepInv, sweep' = sweep, dlq \subseteq dlq',
           \A c \in Workers : \A k \in sweep[c].rows : RowAt(k)' = RowAt(k)
    PROVE  SweepInv'
  <1>1. \A c \in Workers : sweep[c].rows \subseteq Key /\ sweep[c].rows \subseteq Buffered
    BY DEF SweepInv, LockedRowsStay, Buffered, Key
  <1>2. \A c \in Workers : sweep[c].rows \subseteq Buffered'
    <2> SUFFICES ASSUME NEW c \in Workers, NEW k \in sweep[c].rows PROVE k \in Buffered'
      OBVIOUS
    <2>1. k \in Orders \X Plans \X (1..MaxInt) /\ RowAt(k) # NoRow
      BY <1>1 DEF Buffered, RowAt
    <2> QED
      BY <2>1 DEF Buffered, RowAt
  <1>3. SentRows'
    BY DEF SweepInv, SentRows
  <1> QED
    BY <1>2, <1>3 DEF SweepInv, LockedRowsStay

(* A sweep ends, and of its rows none is another's: the others stay.         *)
LEMMA SweepEnds ==
    ASSUME SweepInv, NEW c \in Workers, sweep' = [sweep EXCEPT ![c] = NoSweep],
           dlq \subseteq dlq',
           \A d \in Workers \ {c} : \A k \in sweep[d].rows : RowAt(k)' = RowAt(k)
    PROVE  SweepInv'
  <1>1. /\ sweep'[c].rows = {} /\ sweep'[c].left = {}
        /\ \A d \in Workers \ {c} : sweep'[d] = sweep[d]
        /\ sweep' \in [Workers -> [rows : SUBSET Key, left : SUBSET Key]]
    BY DEF SweepInv, NoSweep
  <1>2. \A d \in Workers : sweep'[d].rows \subseteq Buffered'
    <2> SUFFICES ASSUME NEW d \in Workers \ {c}, NEW k \in sweep[d].rows PROVE k \in Buffered'
      BY <1>1
    <2>1. k \in Orders \X Plans \X (1..MaxInt) /\ RowAt(k) # NoRow
      BY DEF SweepInv, LockedRowsStay, Buffered, RowAt
    <2> QED
      BY <2>1 DEF Buffered, RowAt
  <1>3. \A b, d \in Workers : b # d => sweep'[b].rows \cap sweep'[d].rows = {}
    BY <1>1 DEF SweepInv, LockedRowsStay
  <1>4. SentRows'
    BY <1>1 DEF SweepInv, SentRows
  <1> QED
    BY <1>1, <1>2, <1>3, <1>4 DEF SweepInv, LockedRowsStay

(* SELECT ... FOR UPDATE SKIP LOCKED: buffered rows that are nobody's.       *)
LEMMA SelectLocks ==
    ASSUME SweepInv, NEW c \in Workers, SweepSelect(c)
    PROVE  SweepInv'
  <1>1. PICK rows \in SUBSET (Buffered \ Locked) :
           sweep' = [sweep EXCEPT ![c] = [rows |-> rows, left |-> rows]]
    BY DEF SweepSelect
  <1>2. /\ sweep[c] = NoSweep /\ dlq' = dlq /\ pending' = pending
    BY DEF SweepSelect, storeVars
  <1>3. /\ sweep'[c].rows = rows /\ sweep'[c].left = rows
        /\ \A d \in Workers \ {c} : sweep'[d] = sweep[d]
        /\ sweep' \in [Workers -> [rows : SUBSET Key, left : SUBSET Key]]
    BY <1>1 DEF SweepInv, Buffered, Key
  <1>4. \A d \in Workers \ {c} : rows \cap sweep[d].rows = {}
    BY <1>1 DEF Locked
  <1>5. Buffered' = Buffered /\ \A k : RowAt(k)' = RowAt(k)
    BY <1>2 DEF Buffered, RowAt
  <1>6. LockedRowsStay'
    BY <1>1, <1>3, <1>4, <1>5 DEF SweepInv, LockedRowsStay
  <1>7. SentRows'
    BY <1>2, <1>3, <1>5 DEF SweepInv, SentRows
  <1> QED
    BY <1>3, <1>6, <1>7 DEF SweepInv

(* The broker has acknowledged one more row of the sweep. *)
LEMMA SendTicksOff ==
    ASSUME SweepInv, NEW c \in Workers, SweepSend(c)
    PROVE  SweepInv'
  <1>1. PICK k \in sweep[c].left :
           /\ dlq' = dlq \cup {<<RowAt(k), "BUFFER_TIMEOUT">>}
           /\ sweep' = [sweep EXCEPT ![c].left = @ \ {k}]
    BY DEF SweepSend, RowAt
  <1>2. pending' = pending
    BY DEF SweepSend, storeVars
  <1>3. /\ sweep'[c].rows = sweep[c].rows /\ sweep'[c].left = sweep[c].left \ {k}
        /\ \A d \in Workers \ {c} : sweep'[d] = sweep[d]
        /\ sweep' \in [Workers -> [rows : SUBSET Key, left : SUBSET Key]]
    BY <1>1 DEF SweepInv
  <1>4. Buffered' = Buffered /\ \A j : RowAt(j)' = RowAt(j)
    BY <1>2 DEF Buffered, RowAt
  <1>5. LockedRowsStay'
    BY <1>3, <1>4 DEF SweepInv, LockedRowsStay
  <1>6. SentRows'
    BY <1>1, <1>3, <1>4 DEF SweepInv, SentRows
  <1>7. \A d \in Workers : sweep'[d].left \subseteq sweep'[d].rows
    BY <1>3 DEF SweepInv
  <1> QED
    BY <1>3, <1>5, <1>6, <1>7 DEF SweepInv

(* Every step of the consumer respects the row locks. *)
LEMMA SweepInvNext == StoryInv /\ SweepInv /\ [Next]_vars => SweepInv'
  <1> SUFFICES ASSUME StoryInv, SweepInv, [Next]_vars PROVE SweepInv'
    OBVIOUS
  <1>1. ASSUME pending' = pending, sweep' = sweep, dlq \subseteq dlq' PROVE SweepInv'
    BY <1>1, SweepsStay DEF RowAt
  <1>2. ASSUME NEW c \in Workers, HandleEvent(c) \/ LoseAnswer(c) PROVE SweepInv'
    <2>1. sweep' = sweep /\ dlq' = dlq
      BY <1>2 DEF HandleEvent, LoseAnswer
    <2>2. CASE UNCHANGED storeVars
      BY <2>1, <2>2, <1>1 DEF storeVars
    <2>3. CASE ~ UNCHANGED storeVars
      <3>1. ~Waits(Current(c)) /\ \/ Current(c) \in SeqEvent /\ ApplyEvent(Current(c))
                                  \/ Current(c) \in AbortEvent /\ AbortPlan(Current(c))
        BY <1>2, <2>3 DEF HandleEvent, LoseAnswer
      <3> QED
        BY <2>1, <3>1, SweptUntouched, SweepsStay
    <2> QED
      BY <2>2, <2>3
  <1>3. ASSUME NEW c \in Workers, SweepSelect(c) \/ SweepSend(c) PROVE SweepInv'
    BY <1>3, SelectLocks, SendTicksOff
  <1>4. ASSUME NEW c \in Workers, SweepCommit(c) PROVE SweepInv'
    <2>1. ExpirePending(sweep[c].rows) /\ sweep' = [sweep EXCEPT ![c] = NoSweep] /\ dlq' = dlq
      BY <1>4 DEF SweepCommit
    <2>2. ASSUME NEW d \in Workers \ {c}, NEW k \in sweep[d].rows PROVE RowAt(k)' = RowAt(k)
      <3>1. PICK o \in Orders, p \in Plans, s \in 1..MaxInt : k = <<o, p, s>>
        BY <2>2 DEF SweepInv, LockedRowsStay, Buffered
      <3>2. k \notin sweep[c].rows
        BY <2>2 DEF SweepInv, LockedRowsStay
      <3>3. pending'[o][p][s] = pending[o][p][s]
        BY <2>1, <3>1, <3>2, ExpireTakesRows
      <3> QED
        BY <3>1, <3>3 DEF RowAt
    <2> QED
      BY <2>1, <2>2, SweepEnds
  <1>5. ASSUME NEW c \in Workers, SweepFail(c) \/ Crash(c) PROVE SweepInv'
    BY <1>5, SweepEnds DEF SweepFail, Crash, storeVars, RowAt
  <1>6. ASSUME NEW c \in Workers, \/ Assign(c) \/ Revoke(c) \/ PollFetches(c) \/ HandleMalformed(c)
                                  \/ RetryForever(c) \/ SendAcked(c) \/ SendFailed(c)
        PROVE  SweepInv'
    BY <1>6, <1>1 DEF Assign, Revoke, PollFetches, HandleMalformed, RetryForever, SendAcked,
                      SendFailed, RetryUnsent, storeVars, vars, consumerVars
  <1>7. ASSUME NEW c \in Workers, CommitRecords(c) \/ Shutdown(c) \/ Break(c) \/ Exit(c) \/ Restart(c)
        PROVE  SweepInv'
    BY <1>7, <1>1 DEF CommitRecords, Shutdown, Break, Exit, Restart, storeVars
  <1>8. ASSUME \/ \E r \in Inputs : Produce(r)
               \/ AwaitRecords
               \/ UNCHANGED vars
        PROVE  SweepInv'
    BY <1>8, <1>1 DEF Produce, AwaitRecords, vars, consumerVars, storeVars
  <1> QED
    BY <1>2, <1>3, <1>4, <1>5, <1>6, <1>7, <1>8 DEF Next, ProcessStep

LEMMA SweepInvariant == Spec => []SweepInv
  <1>1. Init => SweepInv
    BY DEF Init, NoSweep, SweepInv, LockedRowsStay, SentRows
  <1> QED
    BY <1>1, SweepInvNext, StoryInvariant, PTL DEF Spec

(* Row locks (FOR UPDATE SKIP LOCKED in ExpirePending), for any number of    *)
(* processes: the rows a sweeper has selected are its alone, and stay in the *)
(* buffer until it commits, whatever drains, aborts, crashes and other       *)
(* sweepers do meanwhile.                                                    *)
THEOREM SweptRowsStay == Spec => []LockedRowsStay
  BY SweepInvariant, PTL DEF SweepInv

-----------------------------------------------------------------------------
(* The types of the consumer's own state. *)

Worker == [mode : {"running", "stopping", "down"}, holds : BOOLEAN,
           next : 0..MaxLog, from : 0..MaxLog, at : 0..MaxLog, to : 0..MaxLog,
           code : Code \cup {NoCode}]

(* A worker's offsets lie within the topic, and it waits for a dead letter   *)
(* only while it has a record.                                               *)
WorkerOK(w, length) ==
    /\ w \in Worker
    /\ w.from <= w.at /\ w.at <= w.to /\ w.to <= length /\ w.next <= length
    /\ w.code # NoCode => w.at < w.to

TopicInv ==
    /\ topic \in Seq(Record) /\ Len(topic) <= MaxLog
    /\ committed \in 0..Len(topic)
    /\ worker \in [Workers -> Worker]
    /\ \A c \in Workers : WorkerOK(worker[c], Len(topic))
    /\ dlq \subseteq Record \X Code
    /\ settled \subseteq 1..Len(topic)

(* The record at hand is one of the topic. *)
LEMMA CurrentType ==
    ASSUME TopicInv, NEW c \in Workers, worker[c].at < worker[c].to
    PROVE  /\ Current(c) \in Record /\ worker[c].at + 1 \in 1..Len(topic)
           /\ worker[c].at + 1 \in 0..MaxLog /\ worker[c].at + 1 <= worker[c].to
  <1>1. worker[c].at \in Nat /\ worker[c].to \in Nat /\ worker[c].to <= Len(topic)
        /\ Len(topic) \in Nat /\ Len(topic) <= MaxLog /\ topic \in Seq(Record) /\ MaxLog \in Nat
    BY BoundsAssumption DEF TopicInv, WorkerOK, Worker
  <1>2. worker[c].at + 1 \in 1..Len(topic)
    BY <1>1
  <1> QED
    BY <1>1, <1>2 DEF Current

(* A step that changes no worker but c, and leaves the topic as it is.       *)
LEMMA WorkerStep ==
    ASSUME TopicInv, NEW c \in Workers, NEW w, worker' = [worker EXCEPT ![c] = w],
           WorkerOK(w, Len(topic)), topic' = topic, committed' \in 0..Len(topic),
           dlq' \subseteq Record \X Code, settled' \subseteq 1..Len(topic)
    PROVE  TopicInv'
  <1>1. \A d \in Workers : worker'[d] = IF d = c THEN w ELSE worker[d]
    BY DEF TopicInv
  <1>2. worker' \in [Workers -> Worker]
    BY DEF TopicInv, WorkerOK
  <1>3. \A d \in Workers : WorkerOK(worker'[d], Len(topic'))
    BY <1>1 DEF TopicInv, WorkerOK
  <1> QED
    BY <1>2, <1>3 DEF TopicInv

(* The same, when the commit, the dead letters and the settled stay too.     *)
LEMMA WorkerOnly ==
    ASSUME TopicInv, NEW c \in Workers, NEW w, worker' = [worker EXCEPT ![c] = w],
           WorkerOK(w, Len(topic)), topic' = topic, committed' = committed, dlq' = dlq, settled' = settled
    PROVE  TopicInv'
  BY WorkerStep DEF TopicInv

(* No worker moves. *)
LEMMA NoWorkerMoves ==
    ASSUME TopicInv, worker' = worker, topic' = topic, committed' = committed,
           dlq' \subseteq Record \X Code, settled' = settled
    PROVE  TopicInv'
  <1>1. \A d \in Workers : WorkerOK(worker'[d], Len(topic'))
    BY DEF TopicInv, WorkerOK
  <1> QED
    BY <1>1 DEF TopicInv

(* The topic grows by a record of the producers. *)
LEMMA ProduceTypes ==
    ASSUME TopicInv, NEW r \in Record, Len(topic) < MaxLog, topic' = Append(topic, r),
           worker' = worker, committed' = committed, dlq' = dlq, settled' = settled
    PROVE  TopicInv'
  <1>1. topic' \in Seq(Record) /\ Len(topic') = Len(topic) + 1 /\ Len(topic) \in Nat /\ MaxLog \in Nat
    BY BoundsAssumption DEF TopicInv
  <1>2. \A d \in Workers : WorkerOK(worker'[d], Len(topic'))
    <2> SUFFICES ASSUME NEW d \in Workers PROVE WorkerOK(worker[d], Len(topic'))
      OBVIOUS
    <2>1. worker[d].to \in Nat /\ worker[d].next \in Nat /\ WorkerOK(worker[d], Len(topic))
      BY DEF TopicInv, WorkerOK, Worker
    <2> QED
      BY <1>1, <2>1 DEF WorkerOK
  <1>3. committed' \in 0..Len(topic') /\ settled' \subseteq 1..Len(topic')
    BY <1>1 DEF TopicInv
  <1>4. Len(topic') <= MaxLog
    BY <1>1
  <1> QED
    BY <1>1, <1>2, <1>3, <1>4 DEF TopicInv

(* Record at + 1 is settled, its dead letter acknowledged or not needed.     *)
LEMMA SettleTypes ==
    ASSUME TopicInv, NEW c \in Workers, worker[c].at < worker[c].to, Settle(c),
           topic' = topic, committed' = committed, dlq' \subseteq Record \X Code
    PROVE  TopicInv'
  <1> DEFINE w == [worker[c] EXCEPT !.at = worker[c].at + 1, !.code = NoCode]
  <1>1. worker' = [worker EXCEPT ![c] = w] /\ settled' = settled \cup {worker[c].at + 1}
    BY DEF Settle, TopicInv
  <1>2. WorkerOK(worker[c], Len(topic)) /\ MaxLog \in Nat
    BY BoundsAssumption DEF TopicInv
  <1>3. worker[c].at + 1 \in 0..MaxLog /\ worker[c].at + 1 \in 1..Len(topic)
        /\ worker[c].at + 1 <= worker[c].to
    BY CurrentType
  <1>4. w \in Worker
    BY <1>2, <1>3 DEF WorkerOK, Worker
  <1>5. /\ w.next = worker[c].next /\ w.from = worker[c].from /\ w.at = worker[c].at + 1
        /\ w.to = worker[c].to /\ w.code = NoCode
    BY <1>2 DEF WorkerOK, Worker
  <1>6. worker[c].from <= worker[c].at + 1
    BY <1>2, <1>3 DEF WorkerOK, Worker
  <1>7. WorkerOK(w, Len(topic))
    BY <1>2, <1>3, <1>4, <1>5, <1>6 DEF WorkerOK
  <1> HIDE DEF w
  <1> QED
    BY <1>1, <1>3, <1>7, WorkerStep DEF TopicInv

(* Record at + 1 waits for its dead letter, or for nothing any more.         *)
LEMMA DivertTypes ==
    ASSUME TopicInv, NEW c \in Workers, worker[c].at < worker[c].to,
           NEW code \in Code \cup {NoCode}, Divert(c, code),
           topic' = topic, committed' = committed, dlq' \subseteq Record \X Code
    PROVE  TopicInv'
  <1> DEFINE w == [worker[c] EXCEPT !.code = code]
  <1>1. worker' = [worker EXCEPT ![c] = w] /\ settled' = settled
    BY DEF Divert, TopicInv
  <1>2. WorkerOK(w, Len(topic))
    BY DEF TopicInv, WorkerOK, Worker
  <1> HIDE DEF w
  <1> QED
    BY <1>1, <1>2, WorkerStep DEF TopicInv

(* The steps of handleRecord and of the dead-letter producer. *)
LEMMA HandleTypes ==
    ASSUME TopicInv, NEW c \in Workers,
           HandleMalformed(c) \/ HandleEvent(c) \/ SendAcked(c) \/ SendFailed(c)
    PROVE  TopicInv'
  <1>1. worker[c].at < worker[c].to /\ topic' = topic /\ committed' = committed
        /\ dlq \subseteq Record \X Code /\ worker[c].code \in Code \cup {NoCode}
    BY DEF HandleMalformed, HandleEvent, SendAcked, SendFailed, Busy, TopicInv, Worker
  <1>2. {"PARSE_ERROR", "INVALID_EVENT", "PLAN_MISMATCH", "DB_REJECTED", NoCode}
           \subseteq Code \cup {NoCode}
    BY DEF Code
  <1>3. CASE HandleMalformed(c)
    BY <1>1, <1>2, <1>3, DivertTypes DEF HandleMalformed
  <1>4. CASE HandleEvent(c)
    <2>1. dlq' = dlq /\ (Settle(c) \/ Divert(c, "PLAN_MISMATCH") \/ Divert(c, "DB_REJECTED"))
      BY <1>4 DEF HandleEvent
    <2> QED
      BY <1>1, <1>2, <2>1, SettleTypes, DivertTypes
  <1>5. <<Current(c), worker[c].code>> \in Record \X Code \/ worker[c].code = NoCode
    BY <1>1, CurrentType
  <1>6. CASE SendAcked(c)
    <2>1. dlq' \subseteq Record \X Code /\ Settle(c)
      BY <1>1, <1>5, <1>6 DEF SendAcked
    <2> QED
      BY <1>1, <2>1, SettleTypes
  <1>7. CASE SendFailed(c)
    <2>1. dlq' \subseteq Record \X Code /\ Divert(c, NoCode)
      BY <1>1, <1>5, <1>7 DEF SendFailed, RetryUnsent
    <2> QED
      BY <1>1, <1>2, <2>1, DivertTypes
  <1> QED
    BY <1>3, <1>4, <1>6, <1>7

(* The steps of the group and of the process. *)
LEMMA GroupTypes ==
    ASSUME TopicInv, NEW c \in Workers,
           \/ Assign(c) \/ Revoke(c) \/ PollFetches(c) \/ CommitRecords(c)
           \/ Shutdown(c) \/ Break(c) \/ Exit(c) \/ Crash(c) \/ Restart(c)
    PROVE  TopicInv'
  <1>1. /\ worker \in [Workers -> Worker] /\ WorkerOK(worker[c], Len(topic)) /\ worker[c] \in Worker
        /\ MaxLog \in Nat /\ committed \in 0..Len(topic) /\ Len(topic) \in Nat /\ Len(topic) <= MaxLog
    BY BoundsAssumption DEF TopicInv
  <1>2. \A mode \in {"running", "down"} : WorkerOK(Idle(mode), Len(topic))
    BY <1>1 DEF Idle, WorkerOK, Worker
  <1>3. CASE Exit(c) \/ Crash(c) \/ Restart(c)
    BY <1>2, <1>3, WorkerOnly DEF Exit, Crash, Restart
  <1>4. CASE Assign(c)
    <2> DEFINE w == [worker[c] EXCEPT !.holds = TRUE, !.next = committed]
    <2>1. worker' = [worker EXCEPT ![c] = w] /\ topic' = topic /\ committed' = committed
          /\ dlq' = dlq /\ settled' = settled
      BY <1>1, <1>4 DEF Assign, FetchStart
    <2>2. WorkerOK(w, Len(topic))
      <3>1. committed \in 0..MaxLog /\ committed <= Len(topic)
        BY <1>1
      <3>2. w \in Worker
        BY <1>1, <3>1 DEF Worker
      <3>3. /\ w.next = committed /\ w.from = worker[c].from /\ w.at = worker[c].at
            /\ w.to = worker[c].to /\ w.code = worker[c].code
        BY <1>1 DEF Worker
      <3> QED
        BY <1>1, <3>1, <3>2, <3>3 DEF WorkerOK
    <2> HIDE DEF w
    <2> QED
      BY <2>1, <2>2, WorkerOnly
  <1>5. CASE Revoke(c)
    <2> DEFINE w == [worker[c] EXCEPT !.holds = FALSE]
    <2>1. worker' = [worker EXCEPT ![c] = w] /\ topic' = topic /\ committed' = committed
          /\ dlq' = dlq /\ settled' = settled
      BY <1>1, <1>5 DEF Revoke
    <2>2. WorkerOK(w, Len(topic))
      BY <1>1 DEF WorkerOK, Worker
    <2> HIDE DEF w
    <2> QED
      BY <2>1, <2>2, WorkerOnly
  <1>6. CASE PollFetches(c)
    <2>1. PICK n \in (worker[c].next + 1)..Len(topic) :
             worker' = [worker EXCEPT ![c] = [worker[c] EXCEPT
                          !.from = worker[c].next, !.at = worker[c].next, !.to = n, !.next = n]]
      BY <1>1, <1>6, ZenonT(30) DEF PollFetches
    <2> DEFINE w == [worker[c] EXCEPT !.from = worker[c].next, !.at = worker[c].next,
                                      !.to = n, !.next = n]
    <2>2. topic' = topic /\ committed' = committed /\ dlq' = dlq /\ settled' = settled
          /\ worker[c].from = worker[c].to
      BY <1>6 DEF PollFetches
    <2>3. worker[c].next \in 0..MaxLog /\ worker[c].next < n /\ n \in 0..MaxLog
          /\ n <= Len(topic)
      BY <1>1 DEF Worker
    <2>4. worker[c].code = NoCode
      BY <1>1, <2>2 DEF WorkerOK, Worker
    <2>5. WorkerOK(w, Len(topic))
      <3>1. w \in Worker
        BY <1>1, <2>3 DEF Worker
      <3>2. /\ w.next = n /\ w.from = worker[c].next /\ w.at = worker[c].next
            /\ w.to = n /\ w.code = worker[c].code
        BY <1>1 DEF Worker
      <3> QED
        BY <2>3, <2>4, <3>1, <3>2 DEF WorkerOK
    <2> HIDE DEF w
    <2> QED
      BY <2>1, <2>2, <2>5, WorkerOnly DEF w
  <1>7. CASE CommitRecords(c)
    <2> DEFINE w == [worker[c] EXCEPT !.from = worker[c].at]
    <2>1. worker' = [worker EXCEPT ![c] = w] /\ topic' = topic
          /\ committed' \in {committed, worker[c].at} /\ dlq' = dlq /\ settled' = settled
      BY <1>1, <1>7 DEF CommitRecords, CommitOffset
    <2>2. worker[c].at \in 0..Len(topic) /\ worker[c].at \in 0..MaxLog
      BY <1>1 DEF WorkerOK, Worker
    <2>3. WorkerOK(w, Len(topic))
      <3>1. w \in Worker
        BY <1>1, <2>2 DEF Worker
      <3>2. /\ w.next = worker[c].next /\ w.from = worker[c].at /\ w.at = worker[c].at
            /\ w.to = worker[c].to /\ w.code = worker[c].code
        BY <1>1 DEF Worker
      <3> QED
        BY <1>1, <2>2, <3>1, <3>2 DEF WorkerOK
    <2> HIDE DEF w
    <2> QED
      BY <1>1, <2>1, <2>2, <2>3, WorkerStep DEF TopicInv
  <1>8. CASE Shutdown(c)
    <2> DEFINE w == [worker[c] EXCEPT !.mode = "stopping"]
    <2>1. worker' = [worker EXCEPT ![c] = w] /\ topic' = topic /\ committed' = committed
          /\ dlq' = dlq /\ settled' = settled
      BY <1>1, <1>8 DEF Shutdown
    <2>2. WorkerOK(w, Len(topic))
      BY <1>1 DEF WorkerOK, Worker
    <2> HIDE DEF w
    <2> QED
      BY <2>1, <2>2, WorkerOnly
  <1>9. CASE Break(c)
    <2> DEFINE w == [worker[c] EXCEPT !.to = worker[c].at, !.code = NoCode]
    <2>1. worker' = [worker EXCEPT ![c] = w] /\ topic' = topic /\ committed' = committed
          /\ dlq' = dlq /\ settled' = settled
      BY <1>1, <1>9 DEF Break
    <2>2. WorkerOK(w, Len(topic))
      <3>1. worker[c].at \in 0..MaxLog /\ worker[c].at <= Len(topic)
        BY <1>1 DEF WorkerOK, Worker
      <3>2. w \in Worker
        BY <1>1, <3>1 DEF Worker
      <3>3. /\ w.next = worker[c].next /\ w.from = worker[c].from /\ w.at = worker[c].at
            /\ w.to = worker[c].at /\ w.code = NoCode
        BY <1>1 DEF Worker
      <3> QED
        BY <1>1, <3>1, <3>2, <3>3 DEF WorkerOK
    <2> HIDE DEF w
    <2> QED
      BY <2>1, <2>2, WorkerOnly
  <1> QED
    BY <1>3, <1>4, <1>5, <1>6, <1>7, <1>8, <1>9

(* Every step of the consumer keeps its types. *)
LEMMA TopicInvNext == StoryInv /\ SweepInv /\ TopicInv /\ [Next]_vars => TopicInv'
  <1> SUFFICES ASSUME StoryInv, SweepInv, TopicInv, [Next]_vars PROVE TopicInv'
    OBVIOUS
  <1>1. dlq \subseteq Record \X Code
    BY DEF TopicInv
  <1>2. ASSUME NEW r \in Inputs, Produce(r) PROVE TopicInv'
    BY <1>2, ProduceTypes, InputsAssumption DEF Produce
  <1>3. ASSUME NEW c \in Workers, SweepSend(c) PROVE TopicInv'
    <2>1. PICK k \in sweep[c].left : dlq' = dlq \cup {<<RowAt(k), "BUFFER_TIMEOUT">>}
      BY <1>3 DEF SweepSend, RowAt
    <2>2. k \in Buffered
      BY DEF SweepInv, LockedRowsStay
    <2>3. RowAt(k) \in SeqEvent
      BY <2>2, TableTypes DEF Buffered, RowAt
    <2>4. dlq' \subseteq Record \X Code
      BY <1>1, <2>1, <2>3 DEF Record, Event, Code
    <2> QED
      BY <1>3, <2>4, NoWorkerMoves DEF SweepSend
  <1>4. ASSUME \/ \E c \in Workers : \/ RetryForever(c) \/ LoseAnswer(c) \/ SweepSelect(c)
                                     \/ SweepCommit(c) \/ SweepFail(c)
               \/ AwaitRecords
               \/ UNCHANGED vars
        PROVE  TopicInv'
    <2>1. worker' = worker /\ topic' = topic /\ committed' = committed /\ dlq' = dlq
          /\ settled' = settled
      BY <1>4 DEF RetryForever, LoseAnswer, SweepSelect, SweepCommit, SweepFail, AwaitRecords,
                  vars, consumerVars
    <2> QED
      BY <1>1, <2>1, NoWorkerMoves
  <1>5. ASSUME NEW c \in Workers,
               \/ HandleMalformed(c) \/ HandleEvent(c) \/ SendAcked(c) \/ SendFailed(c)
               \/ Assign(c) \/ Revoke(c) \/ PollFetches(c) \/ CommitRecords(c)
               \/ Shutdown(c) \/ Break(c) \/ Exit(c) \/ Crash(c) \/ Restart(c)
        PROVE  TopicInv'
    BY <1>5, HandleTypes, GroupTypes
  <1> QED
    BY <1>2, <1>3, <1>4, <1>5 DEF Next, ProcessStep

LEMMA TopicInvariant == Spec => []TopicInv
  <1>1. Init => TopicInv
    <2>1. MaxLog \in Nat
      BY BoundsAssumption
    <2> QED
      BY <2>1 DEF Init, Idle, TopicInv, WorkerOK, Worker
  <1> QED
    BY <1>1, TopicInvNext, StoryInvariant, SweepInvariant, PTL DEF Spec

(* The consumer's state keeps its types, for any number of workers and any   *)
(* records: offsets stay within the topic and in their order, whatever       *)
(* crashes and rebalances do, and only records become dead letters.          *)
THEOREM ConsumerTypeCorrect == Spec => []ConsumerTypeOK
  <1>1. TopicInv /\ SweepInv => ConsumerTypeOK
    BY DEF TopicInv, WorkerOK, Worker, SweepInv, ConsumerTypeOK
  <1> QED
    BY <1>1, TopicInvariant, SweepInvariant, PTL

-----------------------------------------------------------------------------
(* Records of a plan that does not own the order. *)

Foreign(r) == r \in Event /\ orders[r.order].exists /\ orders[r.order].planID # r.planID

(* The strengthening of MismatchNeverApplied: what is refused for its plan,  *)
(* or about to be, names an order that exists and that another plan owns.    *)
MismatchIsForeign ==
    /\ \A letter \in dlq : letter[2] = "PLAN_MISMATCH" => Foreign(letter[1])
    /\ \A c \in Workers : worker[c].code = "PLAN_MISMATCH" => Foreign(Current(c))

(* Owners do not change: what is foreign stays foreign. *)
LEMMA ForeignStays ==
    ASSUME HistoryStays, NEW r, Foreign(r)
    PROVE  Foreign(r)'
  <1>1. r.order \in Orders
    BY DEF Foreign, Event, SeqEvent, AbortEvent
  <1> QED
    BY <1>1 DEF Foreign, HistoryStays

(* Whoever gets the outcome PLAN_MISMATCH is foreign. *)
LEMMA MismatchForeign ==
    ASSUME StoryInv, NEW e, Mismatch(e)
    PROVE  Foreign(e)
  <1>1. e \in Event /\ e.order \in Orders /\ orders[e.order].exists \in BOOLEAN
    BY TableTypes, OrderStateFields DEF Mismatch, Event, SeqEvent, AbortEvent
  <1> QED
    BY <1>1 DEF Mismatch, SeqOutcome, AbortOutcome, Decide, DecideAbort, Foreign

(* No worker starts to wait for a PLAN_MISMATCH, none that does moves on to  *)
(* another record, and there is no new dead letter with that code but its own.*)
LEMMA MismatchStays ==
    ASSUME TopicInv, HistoryStays, MismatchIsForeign,
           \A letter \in dlq' : letter[2] = "PLAN_MISMATCH" =>
              letter \in dlq \/ Foreign(letter[1]),
           \A c \in Workers : worker'[c].code = "PLAN_MISMATCH" =>
              (worker[c].code = "PLAN_MISMATCH" \/ Foreign(Current(c)))
              /\ Current(c)' = Current(c)
    PROVE  MismatchIsForeign'
  <1>1. ASSUME NEW letter \in dlq', letter[2] = "PLAN_MISMATCH" PROVE Foreign(letter[1])'
    <2>1. Foreign(letter[1])
      BY <1>1 DEF MismatchIsForeign
    <2> QED
      BY <2>1, ForeignStays
  <1>2. ASSUME NEW c \in Workers, worker'[c].code = "PLAN_MISMATCH" PROVE Foreign(Current(c))'
    <2>1. Foreign(Current(c)) /\ Current(c)' = Current(c)
      BY <1>2 DEF MismatchIsForeign
    <2>2. PICK r : r = Current(c)
      OBVIOUS
    <2>3. Foreign(r)'
      BY <2>1, <2>2, ForeignStays
    <2> QED
      BY <2>1, <2>2, <2>3 DEF Foreign
  <1> QED
    BY <1>1, <1>2 DEF MismatchIsForeign

(* How a step may change the worker c that takes it: it waits for no dead    *)
(* letter of a mismatch, or stays at a record that is foreign.               *)
LEMMA OthersWait ==
    ASSUME TopicInv, NEW c \in Workers, NEW w, worker' = [worker EXCEPT ![c] = w],
           w.code = "PLAN_MISMATCH" =>
              /\ w.at = worker[c].at
              /\ worker[c].code = "PLAN_MISMATCH" \/ Foreign(Current(c)),
           topic' = topic
    PROVE  \A d \in Workers : worker'[d].code = "PLAN_MISMATCH" =>
              /\ worker[d].code = "PLAN_MISMATCH" \/ Foreign(Current(d))
              /\ Current(d)' = Current(d)
  <1>1. \A d \in Workers : worker'[d] = IF d = c THEN w ELSE worker[d]
    BY DEF TopicInv
  <1> QED
    BY <1>1 DEF Current

(* Appending to the topic moves no record that a worker waits with.          *)
LEMMA AppendKeepsCurrent ==
    ASSUME TopicInv, NEW r, topic' = Append(topic, r), worker' = worker
    PROVE  \A d \in Workers : worker'[d].code = "PLAN_MISMATCH" =>
              worker[d].code = "PLAN_MISMATCH" /\ Current(d)' = Current(d)
  <1> SUFFICES ASSUME NEW d \in Workers, worker[d].code = "PLAN_MISMATCH"
               PROVE  Current(d)' = Current(d)
    OBVIOUS
  <1>1. worker[d].at < worker[d].to
    BY DEF TopicInv, WorkerOK, NoCode
  <1>2. worker[d].at + 1 \in 1..Len(topic) /\ topic \in Seq(Record)
    BY <1>1, CurrentType DEF TopicInv
  <1>3. \A i \in 1..Len(topic) : Append(topic, r)[i] = topic[i]
    BY <1>2
  <1> QED
    BY <1>2, <1>3 DEF Current

(* handleRecord: the only place where a worker comes to wait for the dead    *)
(* letter of a mismatch.                                                     *)
LEMMA HandleForeign ==
    ASSUME StoryInv, TopicInv, NEW c \in Workers, HandleMalformed(c) \/ HandleEvent(c)
    PROVE  /\ dlq' = dlq
           /\ \A d \in Workers : worker'[d].code = "PLAN_MISMATCH" =>
                 /\ worker[d].code = "PLAN_MISMATCH" \/ Foreign(Current(d))
                 /\ Current(d)' = Current(d)
  <1>1. dlq' = dlq /\ topic' = topic /\ worker[c] \in Worker
    BY DEF HandleMalformed, HandleEvent, TopicInv
  <1>2. PICK w : /\ worker' = [worker EXCEPT ![c] = w]
                 /\ w.code = "PLAN_MISMATCH" => w.at = worker[c].at /\ Foreign(Current(c))
    <2>1. CASE Settle(c)
      <3> DEFINE w == [worker[c] EXCEPT !.at = @ + 1, !.code = NoCode]
      <3>1. worker' = [worker EXCEPT ![c] = w] /\ w.code = NoCode
        BY <1>1, <2>1 DEF Settle, Worker
      <3> HIDE DEF w
      <3> QED
        BY <3>1 DEF NoCode
    <2>2. ASSUME NEW code, Divert(c, code),
                 code = "PLAN_MISMATCH" => Foreign(Current(c))
          PROVE  \E w : /\ worker' = [worker EXCEPT ![c] = w]
                        /\ w.code = "PLAN_MISMATCH" => w.at = worker[c].at /\ Foreign(Current(c))
      <3> DEFINE w == [worker[c] EXCEPT !.code = code]
      <3>1. worker' = [worker EXCEPT ![c] = w] /\ w.code = code /\ w.at = worker[c].at
        BY <1>1, <2>2 DEF Divert, Worker
      <3> HIDE DEF w
      <3> QED
        BY <2>2, <3>1
    <2>3. CASE HandleMalformed(c)
      BY <2>2, <2>3 DEF HandleMalformed
    <2>4. CASE HandleEvent(c) /\ ~Settle(c)
      <3>1. (Mismatch(Current(c)) /\ Divert(c, "PLAN_MISMATCH")) \/ Divert(c, "DB_REJECTED")
        BY <2>4 DEF HandleEvent
      <3> QED
        BY <2>2, <3>1, MismatchForeign
    <2> QED
      BY <2>1, <2>3, <2>4
  <1> QED
    BY <1>1, <1>2, OthersWait

(* The dead-letter producer sends what the worker waits with.                *)
LEMMA SendForeign ==
    ASSUME TopicInv, MismatchIsForeign, NEW c \in Workers, SendAcked(c) \/ SendFailed(c)
    PROVE  /\ \A letter \in dlq' : letter[2] = "PLAN_MISMATCH" =>
                 letter \in dlq \/ Foreign(letter[1])
           /\ \A d \in Workers : worker'[d].code = "PLAN_MISMATCH" =>
                 /\ worker[d].code = "PLAN_MISMATCH" \/ Foreign(Current(d))
                 /\ Current(d)' = Current(d)
  <1>1. dlq' \subseteq dlq \cup {<<Current(c), worker[c].code>>} /\ topic' = topic
        /\ (Settle(c) \/ Divert(c, NoCode)) /\ worker[c] \in Worker
    BY DEF SendAcked, SendFailed, RetryUnsent, TopicInv
  <1>2. worker[c].code = "PLAN_MISMATCH" => Foreign(Current(c))
    BY DEF MismatchIsForeign
  <1>3. PICK w : worker' = [worker EXCEPT ![c] = w] /\ w.code = NoCode
    <2>1. CASE Settle(c)
      <3> DEFINE w == [worker[c] EXCEPT !.at = @ + 1, !.code = NoCode]
      <3>1. worker' = [worker EXCEPT ![c] = w] /\ w.code = NoCode
        BY <1>1, <2>1 DEF Settle, Worker
      <3> QED
        BY <3>1
    <2>2. CASE Divert(c, NoCode)
      <3> DEFINE w == [worker[c] EXCEPT !.code = NoCode]
      <3>1. worker' = [worker EXCEPT ![c] = w] /\ w.code = NoCode
        BY <1>1, <2>2 DEF Divert, Worker
      <3> QED
        BY <3>1
    <2> QED
      BY <1>1, <2>1, <2>2
  <1>4. w.code # "PLAN_MISMATCH"
    BY <1>3 DEF NoCode
  <1>5. \A letter \in dlq' : letter[2] = "PLAN_MISMATCH" => letter \in dlq \/ Foreign(letter[1])
    BY <1>1, <1>2
  <1> QED
    BY <1>1, <1>3, <1>4, <1>5, OthersWait

(* The group's and the process's steps send no dead letter, settle nothing,  *)
(* and only forget what a worker waits for.                                  *)
LEMMA GroupCode ==
    ASSUME TopicInv, NEW c \in Workers,
           \/ Assign(c) \/ Revoke(c) \/ PollFetches(c) \/ CommitRecords(c)
           \/ Shutdown(c) \/ Break(c) \/ Exit(c) \/ Crash(c) \/ Restart(c)
    PROVE  /\ UNCHANGED storeVars /\ topic' = topic /\ dlq' = dlq /\ settled' = settled
           /\ \E w : /\ worker' = [worker EXCEPT ![c] = w]
                     /\ w.code \in {NoCode, worker[c].code}
                     /\ w.code # NoCode => w.at = worker[c].at
  <1>0. UNCHANGED storeVars /\ topic' = topic /\ dlq' = dlq /\ settled' = settled
    BY DEF Assign, Revoke, PollFetches, CommitRecords, Shutdown, Break, Exit, Crash, Restart
  <1>1. worker[c] \in Worker
    BY DEF TopicInv
  <1> SUFFICES \E w : /\ worker' = [worker EXCEPT ![c] = w]
                      /\ w.code \in {NoCode, worker[c].code}
                      /\ w.code # NoCode => w.at = worker[c].at
    BY <1>0
  <1>2. CASE Exit(c) \/ Crash(c) \/ Restart(c)
    <2>1. PICK mode : worker' = [worker EXCEPT ![c] = Idle(mode)]
      BY <1>2 DEF Exit, Crash, Restart
    <2>2. Idle(mode).code = NoCode
      BY DEF Idle
    <2> QED
      BY <2>1, <2>2
  <1>3. CASE Break(c)
    <2> DEFINE w == [worker[c] EXCEPT !.to = worker[c].at, !.code = NoCode]
    <2>1. worker' = [worker EXCEPT ![c] = w] /\ w.code = NoCode
      BY <1>1, <1>3 DEF Break, Worker
    <2> QED
      BY <2>1
  <1>4. CASE PollFetches(c)
    <2>1. PICK n : worker' = [worker EXCEPT ![c].from = worker[c].next, ![c].at = worker[c].next,
                                            ![c].to = n, ![c].next = n]
      BY <1>4 DEF PollFetches
    <2> DEFINE w == [worker[c] EXCEPT !.from = worker[c].next, !.at = worker[c].next,
                                      !.to = n, !.next = n]
    <2>2. worker' = [worker EXCEPT ![c] = w] /\ w.code = worker[c].code
      BY <1>1, <2>1 DEF Worker
    <2> HIDE DEF w
    <2>3. /\ worker[c].from = worker[c].to /\ worker[c].from <= worker[c].at
          /\ worker[c].code # NoCode => worker[c].at < worker[c].to
      BY <1>4 DEF PollFetches, TopicInv, WorkerOK
    <2>4. worker[c].from \in Int /\ worker[c].at \in Int /\ worker[c].to \in Int
      BY <1>1 DEF Worker
    <2>5. worker[c].code = NoCode
      BY <2>3, <2>4
    <2> QED
      BY <2>2, <2>5
  <1>5. CASE Assign(c)
    <2> DEFINE w == [worker[c] EXCEPT !.holds = TRUE, !.next = FetchStart]
    <2>1. worker' = [worker EXCEPT ![c] = w] /\ w.code = worker[c].code /\ w.at = worker[c].at
      BY <1>1, <1>5 DEF Assign, Worker
    <2> QED
      BY <2>1
  <1>6. CASE Revoke(c)
    <2> DEFINE w == [worker[c] EXCEPT !.holds = FALSE]
    <2>1. worker' = [worker EXCEPT ![c] = w] /\ w.code = worker[c].code /\ w.at = worker[c].at
      BY <1>1, <1>6 DEF Revoke, Worker
    <2> QED
      BY <2>1
  <1>7. CASE CommitRecords(c)
    <2> DEFINE w == [worker[c] EXCEPT !.from = worker[c].at]
    <2>1. worker' = [worker EXCEPT ![c] = w] /\ w.code = worker[c].code /\ w.at = worker[c].at
      BY <1>1, <1>7 DEF CommitRecords, Worker
    <2> QED
      BY <2>1
  <1>8. CASE Shutdown(c)
    <2> DEFINE w == [worker[c] EXCEPT !.mode = "stopping"]
    <2>1. worker' = [worker EXCEPT ![c] = w] /\ w.code = worker[c].code /\ w.at = worker[c].at
      BY <1>1, <1>8 DEF Shutdown, Worker
    <2> QED
      BY <2>1
  <1> QED
    BY <1>2, <1>3, <1>4, <1>5, <1>6, <1>7, <1>8

(* The group's and the process's steps wait for no new dead letter.          *)
LEMMA GroupForeign ==
    ASSUME TopicInv, NEW c \in Workers,
           \/ Assign(c) \/ Revoke(c) \/ PollFetches(c) \/ CommitRecords(c)
           \/ Shutdown(c) \/ Break(c) \/ Exit(c) \/ Crash(c) \/ Restart(c)
    PROVE  /\ dlq' = dlq
           /\ \A d \in Workers : worker'[d].code = "PLAN_MISMATCH" =>
                 /\ worker[d].code = "PLAN_MISMATCH" \/ Foreign(Current(d))
                 /\ Current(d)' = Current(d)
  <1>1. dlq' = dlq /\ topic' = topic
    BY GroupCode
  <1>2. PICK w : /\ worker' = [worker EXCEPT ![c] = w]
                 /\ w.code \in {NoCode, worker[c].code}
                 /\ w.code # NoCode => w.at = worker[c].at
    BY GroupCode
  <1>3. w.code = "PLAN_MISMATCH" => w.at = worker[c].at /\ worker[c].code = "PLAN_MISMATCH"
    BY <1>2 DEF NoCode
  <1> QED
    BY <1>1, <1>2, <1>3, OthersWait

LEMMA MismatchNext ==
    StoryInv /\ TopicInv /\ MismatchIsForeign /\ [Next]_vars => MismatchIsForeign'
  <1> SUFFICES ASSUME StoryInv, TopicInv, MismatchIsForeign, [Next]_vars
               PROVE  MismatchIsForeign'
    OBVIOUS
  <1>1. HistoryStays
    BY StepUsesStore, StoreHistory
  <1>2. ASSUME NEW c \in Workers,
               \/ HandleMalformed(c) \/ HandleEvent(c) \/ SendAcked(c) \/ SendFailed(c)
               \/ Assign(c) \/ Revoke(c) \/ PollFetches(c) \/ CommitRecords(c)
               \/ Shutdown(c) \/ Break(c) \/ Exit(c) \/ Crash(c) \/ Restart(c)
        PROVE  MismatchIsForeign'
    BY <1>1, <1>2, HandleForeign, SendForeign, GroupForeign, MismatchStays
  <1>3. ASSUME NEW r, Produce(r) PROVE MismatchIsForeign'
    <2>1. topic' = Append(topic, r) /\ worker' = worker /\ dlq' = dlq
      BY <1>3 DEF Produce
    <2> QED
      BY <1>1, <2>1, AppendKeepsCurrent, MismatchStays
  <1>4. ASSUME \/ \E c \in Workers : \/ RetryForever(c) \/ LoseAnswer(c) \/ SweepSelect(c)
                                     \/ SweepSend(c) \/ SweepCommit(c) \/ SweepFail(c)
               \/ AwaitRecords
               \/ UNCHANGED vars
        PROVE  MismatchIsForeign'
    <2>1. worker' = worker /\ topic' = topic /\
          \A letter \in dlq' : letter \in dlq \/ letter[2] = "BUFFER_TIMEOUT"
      BY <1>4 DEF RetryForever, LoseAnswer, SweepSelect, SweepSend, SweepCommit, SweepFail,
                  AwaitRecords, vars, consumerVars
    <2>2. \A c \in Workers : Current(c)' = Current(c)
      BY <2>1 DEF Current
    <2> QED
      BY <1>1, <2>1, <2>2, MismatchStays
  <1> QED
    BY <1>2, <1>3, <1>4 DEF Next, ProcessStep

LEMMA MismatchInvariant == Spec => []MismatchIsForeign
  <1>1. Init => MismatchIsForeign
    BY DEF Init, Idle, NoCode, MismatchIsForeign
  <1> QED
    BY <1>1, MismatchNext, StoryInvariant, TopicInvariant, PTL DEF Spec

(* A record that was refused because another plan owns its order             *)
(* (handleSequenced, handleAbort: PLAN_MISMATCH) never had an effect, before *)
(* or after: the log of the order does not hold it, for any number of        *)
(* workers that crash, lose answers and handle it again.                     *)
THEOREM RefusedHasNoEffect == Spec => []MismatchNeverApplied
  <1>1. ASSUME StoryInv, MismatchIsForeign PROVE MismatchNeverApplied
    <2> SUFFICES ASSUME NEW letter \in dlq, letter[2] = "PLAN_MISMATCH",
                        NEW i \in 1..Len(outbox[letter[1].order])
                 PROVE  outbox[letter[1].order][i] # letter[1]
      BY DEF MismatchNeverApplied
    <2> DEFINE o == letter[1].order
    <2>1. Foreign(letter[1]) /\ o \in Orders
      BY <1>1 DEF MismatchIsForeign, Foreign, Event, SeqEvent, AbortEvent
    <2>2. LogTells(orders[o], outbox[o]) /\ orders[o].lastSeq \in Nat /\ outbox[o] \in Seq(Event)
      BY <1>1, <2>1, TableTypes, OrderStateFields DEF Inv, LogTellsOrder
    <2>3. outbox[o][i].planID = orders[o].planID
      BY <2>2 DEF LogTells
    <2> QED
      BY <2>1, <2>3 DEF Foreign
  <1> QED
    BY <1>1, StoryInvariant, MismatchInvariant, PTL

-----------------------------------------------------------------------------
(* Where a settled record is to be found. *)

(* A row that a step takes away is in the log, overruled, or a dead letter.  *)
RowsAccountedFor ==
    \A o \in Orders, p \in Plans, s \in 1..MaxInt :
       pending[o][p][s] # NoRow =>
          \/ pending'[o][p][s] = pending[o][p][s]
          \/ Told(o, p, s)' \/ Overruled(o, p)'
          \/ <<pending[o][p][s], "BUFFER_TIMEOUT">> \in dlq'

(* A sequenced event and an abort are told apart by their type.              *)
LEMMA KindsApart == SeqEvent \cap AbortEvent = {} /\ Event \cap {Unparsable, Invalid} = {}
  <1>1. \A e \in SeqEvent : e.type # AbortType
    BY TypesAssumption DEF SeqEvent, SequencedType, AbortType
  <1>2. \A e \in AbortEvent : e.type = AbortType
    BY DEF AbortEvent
  <1> QED
    BY <1>1, <1>2, RecordsAssumption

(* A record that is accounted for remains so, if history stays and no row    *)
(* gets lost.                                                                *)
LEMMA AccountedStays ==
    ASSUME StoryInv, HistoryStays, RowsAccountedFor, dlq \subseteq dlq', NEW r, Accounted(r)
    PROVE  Accounted(r)'
  <1>1. CASE r \notin Event
    BY <1>1 DEF Accounted, Event
  <1>2. ASSUME r \in Event, InDLQ(r) PROVE InDLQ(r)'
    BY <1>2 DEF InDLQ, SameKey
  <1>3. r \in Event => r.order \in Orders /\ r.planID \in Plans
    BY DEF Event, SeqEvent, AbortEvent
  <1>4. ASSUME r \in Event, PlanAborted(r) PROVE PlanAborted(r)'
    BY <1>3, <1>4 DEF PlanAborted, Owns, HistoryStays
  <1>5. ASSUME r \in Event, InLog(r) PROVE InLog(r)'
    BY <1>3, <1>5 DEF InLog, SameKey, HistoryStays
  <1>6. ASSUME r \in Event, WasCompleted(r) PROVE WasCompleted(r)'
    BY <1>3, <1>6 DEF WasCompleted, HistoryStays
  <1>7. ASSUME r \in SeqEvent, IsBuffered(r)
        PROVE  InLog(r)' \/ IsBuffered(r)' \/ InDLQ(r)' \/ PlanAborted(r)'
    <2> DEFINE o == r.order
               p == r.planID
               s == r.seqID
               row == pending[o][p][s]
    <2>1. o \in Orders /\ p \in Plans /\ s \in 1..MaxInt /\ row # NoRow
      BY <1>7 DEF SeqEvent, IsBuffered, Row
    <2>2. row \in Event /\ row.order = o /\ row.planID = p /\ row.seqID = s
      <3>1. row \in SeqEvent
        BY <2>1, TableTypes
      <3> QED
        BY <2>1, <3>1, TableTypes DEF Inv, RowMatchesKey, Event
    <2>3. CASE pending'[o][p][s] = row
      BY <2>1, <2>3 DEF IsBuffered, Row
    <2>4. CASE Told(o, p, s)'
      BY <2>4 DEF Told, InLog, SameKey
    <2>5. CASE Overruled(o, p)'
      BY <2>5 DEF Overruled, PlanAborted
    <2>6. CASE <<row, "BUFFER_TIMEOUT">> \in dlq'
      <3>1. SameKey(r, row)
        BY <2>2 DEF SameKey
      <3>2. \E letter \in dlq' : letter[1] = row
        BY <2>6
      <3> QED
        BY <3>1, <3>2 DEF InDLQ, SameKey
    <2> HIDE DEF row
    <2> QED
      BY <2>1, <2>3, <2>4, <2>5, <2>6 DEF RowsAccountedFor, row
  <1>8. CASE r \in SeqEvent
    BY <1>2, <1>4, <1>5, <1>7, <1>8, KindsApart DEF Accounted, Event
  <1>9. CASE r \in AbortEvent
    BY <1>2, <1>4, <1>6, <1>9, KindsApart DEF Accounted, Event
  <1> QED
    BY <1>1, <1>8, <1>9 DEF Event

(* ApplyEvent accounts for its event, whatever the outcome.                  *)
LEMMA ApplyAccounts ==
    ASSUME StoryInv, NEW e \in SeqEvent, ApplyEvent(e)
    PROVE  Accounted(e)'
  <1> DEFINE o == e.order
             p == e.planID
             n == e.seqID
  <1>1. o \in Orders /\ p \in Plans /\ n \in Nat /\ n >= 1 /\ e \in Event
        /\ orders[o].exists \in BOOLEAN /\ orders[o].lastSeq \in Nat
    BY TableTypes, OrderStateFields DEF SeqEvent, Event
  <1>2. SUFFICES (InLog(e) \/ IsBuffered(e) \/ PlanAborted(e))'
    BY DEF Accounted
  <1>3. CASE ApplyAndDrain(e)
    BY <1>3, ApplyTells DEF Told, InLog, SameKey
  <1>4. CASE BufferEvent(e)
    BY <1>4, BufferKeepsRows DEF IsBuffered, Row
  <1>5. CASE IgnoreEvent(e) /\ SeqOutcome(e) = "DISCARD"
    <2>1. PlanAborted(e)
      BY <1>1, <1>5 DEF SeqOutcome, Decide, PlanAborted, Owns, Aborted
    <2> QED
      BY <1>5, <2>1 DEF IgnoreEvent, storeVars, PlanAborted
  <1>6. CASE IgnoreEvent(e) /\ SeqOutcome(e) = "DUPLICATE"
    <2>1. orders[o].planID = p /\ n \in 1..orders[o].lastSeq
      BY <1>1, <1>6 DEF SeqOutcome, Decide
    <2>2. LogTells(orders[o], outbox[o]) /\ outbox[o] \in Seq(Event)
      BY <1>1, TableTypes DEF Inv, LogTellsOrder
    <2>3. n \in 1..Len(outbox[o]) /\ outbox[o][n] \in SeqEvent
          /\ outbox[o][n].planID = p /\ outbox[o][n].seqID = n
      BY <2>1, <2>2 DEF LogTells
    <2>4. outbox[o][n].order = o
      BY <1>1, <2>3 DEF StoryInv, OfItsOrder
    <2>5. InLog(e)
      BY <2>3, <2>4 DEF InLog, SameKey, Event
    <2> QED
      BY <1>6, <2>5 DEF IgnoreEvent, storeVars, InLog
  <1> QED
    BY <1>3, <1>4, <1>5, <1>6 DEF ApplyEvent, IgnoreEvent

(* The status of a live order is that of the last event of its log: only an  *)
(* OrderCompleted makes it completed.                                        *)
LEMMA CompletedWasTold ==
    ASSUME StoryInv, NEW o \in Orders, orders[o].exists, orders[o].status = "completed"
    PROVE  \E i \in 1..Len(outbox[o]) : outbox[o][i].type = "OrderCompleted"
  <1>1. LogTells(orders[o], outbox[o]) /\ ~Aborted(orders[o]) /\ orders[o].lastSeq \in Nat
        /\ outbox[o] \in Seq(Event)
    BY TableTypes, OrderStateFields DEF Inv, LogTellsOrder, Aborted
  <1>2. /\ orders[o].lastSeq \in 1..Len(outbox[o])
        /\ StatusFromEventType(outbox[o][orders[o].lastSeq].type) = "completed"
    BY <1>1 DEF LogTells
  <1>3. ASSUME NEW type, StatusFromEventType(type) = "completed" PROVE type = "OrderCompleted"
    BY <1>3 DEF StatusFromEventType, AbortType
  <1> QED
    BY <1>2, <1>3

(* AbortPlan accounts for the abort, whatever the outcome.                   *)
LEMMA AbortAccounts ==
    ASSUME StoryInv, NEW e \in AbortEvent, AbortPlan(e)
    PROVE  Accounted(e)'
  <1>1. e.order \in Orders /\ orders[e.order].exists \in BOOLEAN
    BY TableTypes, OrderStateFields DEF AbortEvent
  <1>2. SUFFICES (PlanAborted(e) \/ WasCompleted(e))'
    BY DEF Accounted
  <1>3. CASE AbortOrder(e) \/ TombstoneOrder(e)
    BY <1>3, AbortOverrules DEF Overruled, PlanAborted
  <1>4. CASE IgnoreAbort(e)
    <2>1. PlanAborted(e) \/ WasCompleted(e)
      BY <1>1, <1>4, CompletedWasTold
         DEF IgnoreAbort, AbortOutcome, DecideAbort, PlanAborted, Owns, Aborted, WasCompleted
    <2> QED
      BY <1>4, <2>1 DEF IgnoreAbort, storeVars, PlanAborted, WasCompleted
  <1> QED
    BY <1>3, <1>4 DEF AbortPlan

(* NothingLost, told of the records and not of their offsets. *)
SettledAccounted == \A r \in Record : (\E i \in settled : topic[i] = r) => Accounted(r)

(* A step that keeps what is accounted for, and settles only what is.        *)
LEMMA SettledAccountedStep ==
    ASSUME StoryInv, TopicInv, SettledAccounted, HistoryStays, RowsAccountedFor,
           dlq \subseteq dlq',
           \A i \in 1..Len(topic) : topic'[i] = topic[i],
           \A i \in settled' \ settled : i \in 1..Len(topic),
           \A r \in Record : (\E i \in settled' \ settled : topic[i] = r) => Accounted(r)'
    PROVE  SettledAccounted'
  <1> SUFFICES ASSUME NEW r \in Record, NEW i \in settled', topic'[i] = r PROVE Accounted(r)'
    BY DEF SettledAccounted
  <1>1. topic[i] = r
    BY DEF TopicInv
  <1>2. CASE i \in settled
    BY <1>1, <1>2, AccountedStays DEF SettledAccounted
  <1>3. CASE i \notin settled
    BY <1>1, <1>3
  <1> QED
    BY <1>2, <1>3

(* The record at hand is settled, and accounted for. *)
LEMMA SettleAccounted ==
    ASSUME StoryInv, TopicInv, SettledAccounted, HistoryStays, RowsAccountedFor,
           dlq \subseteq dlq', topic' = topic,
           NEW c \in Workers, worker[c].at < worker[c].to, Settle(c),
           NEW e, e = Current(c), Accounted(e)'
    PROVE  SettledAccounted'
  <1>1. worker[c].at + 1 \in 1..Len(topic) /\ topic[worker[c].at + 1] = e
    BY CurrentType DEF Current
  <1>2. settled' = settled \cup {worker[c].at + 1}
    BY DEF Settle
  <1> QED
    BY <1>1, <1>2, SettledAccountedStep

(* Nothing is settled. *)
LEMMA NothingSettled ==
    ASSUME StoryInv, TopicInv, SettledAccounted, HistoryStays, RowsAccountedFor,
           dlq \subseteq dlq', \A i \in 1..Len(topic) : topic'[i] = topic[i], settled' = settled
    PROVE  SettledAccounted'
  BY SettledAccountedStep

(* A transaction, or none, that no sweep is part of. *)
LEMMA TransactionRows ==
    ASSUME StoryInv, NEW e, \/ e \in SeqEvent /\ ApplyEvent(e)
                            \/ e \in AbortEvent /\ AbortPlan(e)
                            \/ UNCHANGED storeVars
    PROVE  HistoryStays /\ RowsAccountedFor
  <1>1. HistoryStays /\ RowsStayOrAreTold
    BY EventHistory, TablesStay
  <1> QED
    BY <1>1 DEF RowsStayOrAreTold, RowsAccountedFor

(* handleRecord settles what the transaction has accounted for. *)
LEMMA HandleAccounts ==
    ASSUME StoryInv, TopicInv, SettledAccounted, NEW c \in Workers, HandleEvent(c)
    PROVE  SettledAccounted'
  <1> DEFINE e == Current(c)
  <1>1. worker[c].at < worker[c].to /\ topic' = topic /\ dlq' = dlq
    BY DEF HandleEvent, Busy
  <1>2. CASE e \in SeqEvent /\ ApplyEvent(e) /\ Settle(c)
    BY <1>1, <1>2, ApplyAccounts, TransactionRows, SettleAccounted
  <1>3. CASE e \in AbortEvent /\ AbortPlan(e) /\ Settle(c)
    BY <1>1, <1>3, AbortAccounts, TransactionRows, SettleAccounted
  <1>4. CASE settled' = settled /\ UNCHANGED storeVars
    BY <1>1, <1>4, TransactionRows, NothingSettled
  <1> QED
    BY <1>2, <1>3, <1>4 DEF HandleEvent, Divert

(* What the broker has acknowledged is a dead letter. *)
LEMMA AckAccounts ==
    ASSUME StoryInv, TopicInv, SettledAccounted, NEW c \in Workers, SendAcked(c)
    PROVE  SettledAccounted'
  <1> DEFINE e == Current(c)
             code == worker[c].code
  <1>1. /\ worker[c].at < worker[c].to /\ topic' = topic /\ Settle(c) /\ UNCHANGED storeVars
        /\ dlq' = dlq \cup {<<e, code>>} /\ code # NoCode
    BY DEF SendAcked, Busy
  <1>2. e \in Record /\ code \in Code
    BY <1>1, CurrentType DEF TopicInv, Worker
  <1>3. <<e, code>> \in dlq' /\ dlq \subseteq dlq'
    BY <1>1
  <1> HIDE DEF e, code
  <1>4. PICK r : r = e
    OBVIOUS
  <1>5. Accounted(r)'
    <2>1. CASE r \in Event
      <3>1. InDLQ(r)'
        BY <1>3, <1>4, <2>1 DEF InDLQ, SameKey
      <3> QED
        BY <2>1, <3>1 DEF Accounted, Event
    <2>2. CASE r \notin Event
      BY <1>2, <1>3, <1>4, <2>2 DEF Accounted
    <2> QED
      BY <2>1, <2>2
  <1> QED
    BY <1>1, <1>3, <1>4, <1>5, TransactionRows, SettleAccounted DEF e

(* The sweep that commits has sent every row that it deletes. *)
LEMMA CommitAccounts ==
    ASSUME StoryInv, SweepInv, TopicInv, SettledAccounted, NEW c \in Workers, SweepCommit(c)
    PROVE  SettledAccounted'
  <1>1. /\ ExpirePending(sweep[c].rows) /\ sweep[c].left = {}
        /\ dlq' = dlq /\ topic' = topic /\ settled' = settled
    BY DEF SweepCommit, AllSent
  <1>2. HistoryStays
    BY <1>1, ExpireTakesRows
  <1>3. RowsAccountedFor
    <2> SUFFICES ASSUME NEW o \in Orders, NEW p \in Plans, NEW s \in 1..MaxInt
                 PROVE  \/ pending'[o][p][s] = pending[o][p][s]
                        \/ <<pending[o][p][s], "BUFFER_TIMEOUT">> \in dlq'
      BY DEF RowsAccountedFor
    <2>1. CASE <<o, p, s>> \notin sweep[c].rows
      BY <1>1, <2>1, ExpireTakesRows
    <2>2. CASE <<o, p, s>> \in sweep[c].rows
      <3>1. <<RowAt(<<o, p, s>>), "BUFFER_TIMEOUT">> \in dlq
        BY <1>1, <2>2 DEF SweepInv, SentRows
      <3> QED
        BY <1>1, <3>1 DEF RowAt
    <2> QED
      BY <2>1, <2>2
  <1> QED
    BY <1>1, <1>2, <1>3, NothingSettled

LEMMA SettledAccountedNext ==
    StoryInv /\ SweepInv /\ TopicInv /\ SettledAccounted /\ [Next]_vars => SettledAccounted'
  <1> SUFFICES ASSUME StoryInv, SweepInv, TopicInv, SettledAccounted, [Next]_vars
               PROVE  SettledAccounted'
    OBVIOUS
  <1>1. ASSUME NEW c \in Workers, HandleEvent(c) \/ SendAcked(c) \/ SweepCommit(c)
        PROVE  SettledAccounted'
    BY <1>1, HandleAccounts, AckAccounts, CommitAccounts
  <1>2. ASSUME NEW c \in Workers, LoseAnswer(c) PROVE SettledAccounted'
    <2>1. topic' = topic /\ dlq' = dlq /\ settled' = settled
      BY <1>2 DEF LoseAnswer
    <2>2. HistoryStays /\ RowsAccountedFor
      BY <1>2, TransactionRows DEF LoseAnswer
    <2> QED
      BY <2>1, <2>2, NothingSettled
  <1>3. ASSUME UNCHANGED storeVars, topic' = topic, settled' = settled, dlq \subseteq dlq'
        PROVE  SettledAccounted'
    BY <1>3, TransactionRows, NothingSettled
  <1>4. ASSUME NEW r \in Inputs, Produce(r) PROVE SettledAccounted'
    <2>1. topic' = Append(topic, r) /\ UNCHANGED storeVars /\ dlq' = dlq /\ settled' = settled
      BY <1>4 DEF Produce
    <2>2. \A i \in 1..Len(topic) : topic'[i] = topic[i]
      BY <2>1 DEF TopicInv
    <2> QED
      BY <2>1, <2>2, TransactionRows, NothingSettled
  <1>5. ASSUME NEW c \in Workers, \/ Assign(c) \/ Revoke(c) \/ PollFetches(c) \/ HandleMalformed(c)
                                  \/ RetryForever(c) \/ SendFailed(c) \/ CommitRecords(c)
        PROVE  SettledAccounted'
    BY <1>5, <1>3 DEF Assign, Revoke, PollFetches, HandleMalformed, RetryForever, SendFailed,
                      RetryUnsent, Divert, CommitRecords, vars, consumerVars
  <1>6. ASSUME NEW c \in Workers, \/ Shutdown(c) \/ Break(c) \/ Exit(c) \/ Crash(c) \/ Restart(c)
                                  \/ SweepSelect(c) \/ SweepSend(c) \/ SweepFail(c)
        PROVE  SettledAccounted'
    BY <1>6, <1>3 DEF Shutdown, Break, Exit, Crash, Restart, SweepSelect, SweepSend, SweepFail
  <1>7. ASSUME AwaitRecords \/ UNCHANGED vars PROVE SettledAccounted'
    BY <1>7, <1>3 DEF AwaitRecords, vars, consumerVars
  <1> QED
    BY <1>1, <1>2, <1>4, <1>5, <1>6, <1>7 DEF Next, ProcessStep

(* "nenhuma mensagem some sem registro" (docs/blueprint-arquitetura.md:203),  *)
(* for any workers, records and number of faults: a settled record is at     *)
(* every later moment in the log of its order, in the buffer, among the dead *)
(* letters, or overruled by an abort of its plan.                            *)
THEOREM NoRecordIsLost == Spec => []NothingLost
  <1>1. Init => SettledAccounted
    BY DEF Init, SettledAccounted
  <1>2. Spec => []SettledAccounted
    BY <1>1, SettledAccountedNext, StoryInvariant, SweepInvariant, TopicInvariant, PTL DEF Spec
  <1>3. TopicInv /\ SettledAccounted => NothingLost
    BY DEF TopicInv, SettledAccounted, NothingLost
  <1> QED
    BY <1>2, <1>3, TopicInvariant, PTL
=============================================================================
