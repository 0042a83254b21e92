---------------------------- MODULE GatewayProofs ----------------------------
(***************************************************************************)
(* Theorems about Gateway, for any orders, plans, requests and processes   *)
(* and for any settings.  The store's invariant says what is in an order's *)
(* log, the dispatcher's in which order entries are accepted; here the     *)
(* entries of the table are matched with the log, and what the receiver    *)
(* hears with both.  HearsInTurn holds of every run; HearsThePlan, which   *)
(* says more, of those in which no lease ends before its holder is         *)
(* through, the premise []LeaseCovers of DispatcherProofs.                 *)
(***************************************************************************)
EXTENDS Gateway, OrderStoreProofs, DispatcherProofs

(* The entries of o, and the place of an entry among those of its order. *)
EntriesOf(o) == {k \in DOMAIN rows : rows[k].order = o}
Upto(k)      == {j \in 1..k : rows[j].order = rows[k].order}
Place(k)     == Cardinality(Upto(k))

(* The table holds one entry for every event of a log, and in its order. *)
EntriesMatch ==
    \A o \in Orders :
       /\ Len(outbox[o]) = Cardinality(EntriesOf(o))
       /\ \A i \in 1..Len(outbox[o]) : \E k \in EntriesOf(o) : Place(k) = i

(* A story tells every accepted entry of its order, and once. *)
StoryTypes == /\ story \in [Orders -> Seq(1..MaxRows)]
              /\ \A o \in Orders : \A i \in 1..Len(story[o]) :
                    story[o][i] \in accepted /\ rows[story[o][i]].order = o
ToldAll    == \A o \in Orders : \A k \in accepted : rows[k].order = o =>
                 \E i \in 1..Len(story[o]) : story[o][i] = k
ToldOnce   == \A o \in Orders : \A i, j \in 1..Len(story[o]) :
                 story[o][i] = story[o][j] => i = j

(* Each is told after all the earlier ones of the order, X excepted: *)
ToldPast(X) == \A o \in Orders : \A i \in 1..Len(story[o]) : \A j \in 1..(story[o][i] - 1) :
                  rows[j].order = o => j \in X \/ \E h \in 1..(i - 1) : story[o][h] = j

(* those that have been tried, in every run; *)
Tried     == {j \in DOMAIN rows : rows[j].attempts > 0}
ToldTried == ToldPast(Tried)

(* the dead letters alone, where no lease ends too early. *)
Dead      == {j \in DOMAIN rows : rows[j].dead}
ToldAfter == ToldPast(Dead)

StoryOK == StoryTypes /\ ToldAll /\ ToldOnce /\ ToldTried

GatewayInv == Inv /\ TurnsInv /\ EntriesMatch /\ StoryOK

OrderlyInv == GatewayInv /\ DispatchInv /\ ToldAfter

-----------------------------------------------------------------------------
(* A step of the store, or none. *)
LEMMA StepsOfTheStore == [GatewayNext]_allVars => [StoreNext]_storeVars
  <1> SUFFICES ASSUME [GatewayNext]_allVars PROVE [StoreNext]_storeVars
    OBVIOUS
  <1>1. ASSUME NEW e \in Requests, Persist(e) PROVE StoreNext
    BY <1>1 DEF Persist, StoreNext
  <1>2. CASE Expire
    BY <1>2 DEF Expire, StoreNext
  <1>3. CASE DispatchAndHear \/ UNCHANGED allVars
    BY <1>3 DEF DispatchAndHear, allVars
  <1> QED
    BY <1>1, <1>2, <1>3 DEF GatewayNext

(* The gateway writes its orders as the store alone does. *)
THEOREM GatewayUsesStore == GatewaySpec => StoreSpec
  BY StepsOfTheStore, PTL DEF GatewaySpec, GatewayInit, StoreSpec

-----------------------------------------------------------------------------
(* The logs only grow, and only that of the order at hand. *)
LEMMA LogsGrow ==
    ASSUME Inv, Inv', NEW e \in Requests, Persist(e)
    PROVE  /\ e.order \in Orders
           /\ \A o \in Orders : /\ Len(outbox[o]) \in Nat /\ Len(outbox'[o]) \in Nat
                                /\ o # e.order => outbox'[o] = outbox[o]
           /\ Len(outbox'[e.order]) >= Len(outbox[e.order])
  <1> DEFINE o == e.order
  <1>1. e \in SeqEvent \cup AbortEvent /\ o \in Orders
    BY DEF Persist, SeqEvent, AbortEvent
  <1>2. outbox \in [Orders -> Seq(Event)] /\ outbox' \in [Orders -> Seq(Event)]
    BY DEF Inv, TypeOK
  <1>3. \A p \in Orders : Len(outbox[p]) \in Nat /\ Len(outbox'[p]) \in Nat
    <2> TAKE p \in Orders
    <2>1. outbox[p] \in Seq(Event) /\ outbox'[p] \in Seq(Event)
      BY <1>2
    <2> QED
      BY <2>1, LenProperties
  <1>4. CASE outbox' = outbox
    BY <1>1, <1>3, <1>4
  <1>5. ASSUME e \in SeqEvent, ApplyAndDrain(e)
        PROVE  /\ Len(outbox'[o]) >= Len(outbox[o])
               /\ \A p \in Orders : p # o => outbox'[p] = outbox[p]
    <2>1. PICK m \in e.seqID..(MaxInt - 1) :
             /\ DrainableTo(e, m)
             /\ outbox' = [outbox EXCEPT ![e.order] = @ \o Batch(e, m)]
      BY <1>5 DEF ApplyAndDrain
    <2>2. Batch(e, m) \in Seq(SeqEvent) /\ Batch(e, m) \in Seq(Event)
      <3>1. Batch(e, m) \in Seq(SeqEvent)
        BY <1>5, <2>1, BatchProperties DEF Inv
      <3> QED
        BY <3>1, SeqMonotonic DEF Event
    <2>3. outbox'[o] = outbox[o] \o Batch(e, m) /\ outbox[o] \in Seq(Event)
      BY <1>1, <1>2, <2>1
    <2>4. Len(outbox'[o]) = Len(outbox[o]) + Len(Batch(e, m)) /\ Len(Batch(e, m)) \in Nat
      BY <2>2, <2>3, ConcatProperties, LenProperties
    <2> QED
      BY <1>1, <1>2, <1>3, <2>1, <2>4
  <1>6. ASSUME e \in AbortEvent, AbortOrder(e)
        PROVE  /\ Len(outbox'[o]) >= Len(outbox[o])
               /\ \A p \in Orders : p # o => outbox'[p] = outbox[p]
    <2>1. outbox' = [outbox EXCEPT ![e.order] = Append(@, e)]
      BY <1>6 DEF AbortOrder
    <2>2. outbox'[o] = Append(outbox[o], e) /\ outbox[o] \in Seq(Event) /\ e \in Event
      BY <1>1, <1>2, <2>1 DEF Event
    <2>3. Len(outbox'[o]) = Len(outbox[o]) + 1
      BY <2>2, AppendProperties
    <2> QED
      BY <1>1, <1>2, <1>3, <2>1, <2>3
  <1>7. \/ outbox' = outbox
        \/ e \in SeqEvent /\ ApplyAndDrain(e)
        \/ e \in AbortEvent /\ AbortOrder(e)
    BY DEF Persist, ApplyEvent, AbortPlan, BufferEvent, IgnoreEvent, TombstoneOrder, IgnoreAbort,
           storeVars
  <1> QED
    BY <1>1, <1>3, <1>4, <1>5, <1>6, <1>7

(* The table with what a transaction has added to it. *)
LEMMA TableGrows ==
    ASSUME Inv, Inv', TurnsInv, NEW e \in Requests, Persist(e)
    PROVE  LET L == Len(rows)
               n == Len(outbox'[e.order]) - Len(outbox[e.order])
           IN /\ L \in Nat /\ n \in Nat /\ DOMAIN rows = 1..L /\ DOMAIN rows' = 1..(L + n)
              /\ \A k \in 1..L : rows'[k] = rows[k]
              /\ \A k \in (L + 1)..(L + n) : rows'[k].order = e.order
              /\ TurnsInv'
  <1> DEFINE L   == Len(rows)
             o   == e.order
             n   == Len(outbox'[o]) - Len(outbox[o])
             new == NewRows(o)
  <1>1. o \in Aggregates /\ n \in Nat
    BY LogsGrow, AggregatesAssumption
  <1>2. /\ NewRow(o) \in AnyEntry /\ NewRow(o).order = o
        /\ ~NewRow(o).processed /\ ~NewRow(o).dead
    BY <1>1, NewRowIsAny DEF NewRow
  <1>3. PICK r : r = NewRow(o)
    OBVIOUS
  <1>4. new = [i \in 1..n |-> r]
    BY <1>3 DEF NewRows
  <1>5. new \in [1..n -> AnyEntry]
    BY <1>2, <1>3, <1>4
  <1>6. new \in Seq(AnyEntry) /\ Len(new) = n
    BY <1>1, <1>5, TableIsSeq
  <1>7. \A i \in 1..n : new[i] = r
    BY <1>4
  <1>8. rows' = rows \o new /\ UNCHANGED <<task, accepted, wire>>
    BY DEF Persist
  <1>9. \A i \in 1..Len(new) : ~new[i].processed /\ ~new[i].dead
    BY <1>2, <1>3, <1>6, <1>7
  <1>10. TurnsInv'
    BY <1>6, <1>8, <1>9, NewEntriesTurns
  <1>11. rows \in Seq(AnyEntry) /\ L \in Nat /\ DOMAIN rows = 1..L
    BY AnyRowTypes DEF TurnsInv, ShapeOK
  <1> HIDE DEF new
  <1>12. /\ rows' \in Seq(AnyEntry) /\ Len(rows') = L + n
         /\ \A k \in 1..(L + n) : rows'[k] = IF k <= L THEN rows[k] ELSE new[k - L]
    <2>1. /\ rows \o new \in Seq(AnyEntry) /\ Len(rows \o new) = L + Len(new)
          /\ \A k \in 1..(L + Len(new)) :
                (rows \o new)[k] = IF k <= L THEN rows[k] ELSE new[k - L]
      BY <1>6, <1>11, ConcatProperties
    <2> QED
      BY <1>6, <1>8, <2>1
  <1>13. DOMAIN rows' = 1..(L + n)
    BY <1>12, LenProperties
  <1>14. \A k \in 1..L : rows'[k] = rows[k]
    BY <1>1, <1>11, <1>12
  <1>15. ASSUME NEW k \in (L + 1)..(L + n) PROVE rows'[k].order = o
    <2>1. k \in Nat /\ k <= L + n /\ k > L /\ k \in 1..(L + n) /\ k - L \in 1..n
      BY <1>1, <1>11
    <2>2. rows'[k] = new[k - L]
      BY <1>11, <1>12, <2>1
    <2> QED
      BY <1>2, <1>3, <1>7, <2>1, <2>2
  <1> QED
    BY <1>1, <1>10, <1>11, <1>13, <1>14, <1>15

LEMMA PersistKeepsDispatch ==
    ASSUME Inv, Inv', DispatchInv, NEW e \in Requests, Persist(e)
    PROVE  DispatchInv'
  <1> DEFINE o   == e.order
             n   == Len(outbox'[o]) - Len(outbox[o])
             new == NewRows(o)
  <1>1. o \in Aggregates /\ n \in Nat
    BY LogsGrow, AggregatesAssumption
  <1>2. NewRow(o) \in Entry /\ ~NewRow(o).processed /\ NewRow(o).attempts = 0
    BY <1>1, NewRowTypes
  <1>3. PICK r : r = NewRow(o)
    OBVIOUS
  <1>4. new = [i \in 1..n |-> r]
    BY <1>3 DEF NewRows
  <1>5. new \in [1..n -> Entry]
    BY <1>2, <1>3, <1>4
  <1>6. new \in Seq(Entry) /\ Len(new) = n
    BY <1>1, <1>5, TableIsSeq
  <1>7. \A i \in 1..Len(new) : ~new[i].processed /\ new[i].attempts = 0
    BY <1>2, <1>3, <1>4, <1>6
  <1>8. rows' = rows \o new /\ Len(rows') <= MaxRows
        /\ UNCHANGED <<mode, breaker, task, accepted, wire>>
    BY DEF Persist
  <1> QED
    BY <1>6, <1>7, <1>8, InsertKeepsInv DEF KeepsInv

-----------------------------------------------------------------------------
(* Counting entries. *)
LEMMA DisjointUnion ==
    ASSUME NEW S, NEW T, IsFiniteSet(S), IsFiniteSet(T), S \cap T = {}
    PROVE  /\ Cardinality(S) \in Nat /\ Cardinality(T) \in Nat
           /\ Cardinality(S \cup T) = Cardinality(S) + Cardinality(T)
  <1>1. Cardinality(S) \in Nat /\ Cardinality(T) \in Nat
    BY FS_CardinalityType
  <1>2. Cardinality(S \cap T) = 0
    BY FS_EmptySet
  <1>3. Cardinality(S \cup T) = Cardinality(S) + Cardinality(T) - Cardinality(S \cap T)
    BY FS_Union
  <1> QED
    BY <1>1, <1>2, <1>3

LEMMA IntervalAfter ==
    ASSUME NEW i \in Nat, NEW m \in Nat
    PROVE  IsFiniteSet((i + 1)..(i + m)) /\ Cardinality((i + 1)..(i + m)) = m
  <1>1. i + 1 \in Int /\ i + m \in Int
    OBVIOUS
  <1>2. /\ IsFiniteSet((i + 1)..(i + m))
        /\ Cardinality((i + 1)..(i + m)) = IF i + 1 > i + m THEN 0 ELSE (i + m) - (i + 1) + 1
    BY <1>1, FS_Interval
  <1> QED
    BY <1>2

LEMMA PlaceTypes ==
    ASSUME ShapeOK, NEW o
    PROVE  /\ IsFiniteSet(EntriesOf(o))
           /\ \A k \in DOMAIN rows : /\ k \in Nat /\ IsFiniteSet(Upto(k)) /\ Place(k) \in Nat
                                     /\ rows[k].order = o => Upto(k) \in SUBSET EntriesOf(o)
  <1>1. Len(rows) \in Nat /\ DOMAIN rows = 1..Len(rows)
    BY AnyRowTypes
  <1>2. IsFiniteSet(DOMAIN rows)
    BY <1>1, FS_Interval
  <1>3. IsFiniteSet(EntriesOf(o))
    BY <1>2, FS_Subset DEF EntriesOf
  <1>4. ASSUME NEW k \in DOMAIN rows
        PROVE  /\ k \in Nat /\ IsFiniteSet(Upto(k)) /\ Place(k) \in Nat
               /\ rows[k].order = o => Upto(k) \in SUBSET EntriesOf(o)
    <2>1. k \in Nat /\ Upto(k) \in SUBSET (DOMAIN rows)
      BY <1>1 DEF Upto
    <2>2. IsFiniteSet(Upto(k))
      BY <1>2, <2>1, FS_Subset
    <2>3. rows[k].order = o => Upto(k) \in SUBSET EntriesOf(o)
      BY <2>1 DEF Upto, EntriesOf
    <2> QED
      BY <2>1, <2>2, <2>3, FS_CardinalityType DEF Place
  <1> QED
    BY <1>3, <1>4

(* A later entry of an order has a later place. *)
LEMMA PlacesAscend ==
    ASSUME ShapeOK, NEW j \in DOMAIN rows, NEW k \in DOMAIN rows, j < k,
           rows[j].order = rows[k].order
    PROVE  Place(j) < Place(k)
  <1>1. j \in Nat /\ k \in Nat /\ IsFiniteSet(Upto(k)) /\ Place(j) \in Nat /\ Place(k) \in Nat
    BY PlaceTypes
  <1>2. k \in Upto(k) /\ k \notin Upto(j) /\ Upto(j) \in SUBSET Upto(k)
    <2>1. Len(rows) \in Nat /\ DOMAIN rows = 1..Len(rows)
      BY AnyRowTypes
    <2> QED
      BY <1>1, <2>1 DEF Upto
  <1> QED
    BY <1>1, <1>2, FS_Subset DEF Place

(* What a transaction adds to the log it adds to the table. *)
LEMMA PersistKeepsMatch ==
    ASSUME Inv, Inv', TurnsInv, EntriesMatch, NEW e \in Requests, Persist(e)
    PROVE  EntriesMatch'
  <1> DEFINE L     == Len(rows)
             o     == e.order
             n     == Len(outbox'[o]) - Len(outbox[o])
             added == (L + 1)..(L + n)
  <1>1. /\ L \in Nat /\ n \in Nat /\ DOMAIN rows = 1..L /\ DOMAIN rows' = 1..(L + n)
        /\ \A k \in 1..L : rows'[k] = rows[k]
        /\ \A k \in added : rows'[k].order = o
    BY TableGrows
  <1>2. /\ o \in Orders
        /\ \A p \in Orders : /\ Len(outbox[p]) \in Nat /\ Len(outbox'[p]) \in Nat
                             /\ p # o => outbox'[p] = outbox[p]
    BY LogsGrow
  <1>3. Len(outbox'[o]) = Len(outbox[o]) + n
    BY <1>1, <1>2
  <1> HIDE DEF n, L
  <1>4. \A p : EntriesOf(p)' = IF p = o THEN EntriesOf(p) \cup added ELSE EntriesOf(p)
    <2> TAKE p
    <2>1. \A k \in 1..(L + n) : k \in 1..L \/ k \in added
      BY <1>1
    <2>2. \A k \in added : k \in 1..(L + n) /\ k \notin 1..L
      BY <1>1
    <2>3. \A k \in 1..L : k \in 1..(L + n)
      BY <1>1
    <2> QED
      BY <1>1, <2>1, <2>2, <2>3 DEF EntriesOf
  <1>5. \A k \in 1..L : Place(k)' = Place(k)
    <2> TAKE k \in 1..L
    <2>1. \A j \in 1..k : rows'[j] = rows[j]
      BY <1>1
    <2>2. Upto(k)' = Upto(k)
      BY <1>1, <2>1 DEF Upto
    <2> QED
      BY <2>2 DEF Place
  <1>6. ASSUME NEW k \in added
        PROVE  Place(k)' = Cardinality(EntriesOf(o)) + (k - L)
    <2>1. k \in Nat /\ k > L /\ k <= L + n /\ k \in 1..(L + n) /\ rows'[k].order = o
      BY <1>1
    <2>2. Upto(k)' = EntriesOf(o) \cup ((L + 1)..k)
      <3>1. \A j \in 1..k : IF j \in 1..L THEN j \notin (L + 1)..k /\ rows'[j] = rows[j]
                            ELSE j \in (L + 1)..k /\ rows'[j].order = o
        BY <1>1, <2>1
      <3>2. \A j \in (L + 1)..k : j \in 1..k /\ j \notin 1..L
        BY <1>1, <2>1
      <3>3. \A j \in 1..L : j \in 1..k
        BY <1>1, <2>1
      <3> QED
        BY <1>1, <2>1, <3>1, <3>2, <3>3 DEF Upto, EntriesOf
    <2>3. IsFiniteSet((L + 1)..k) /\ Cardinality((L + 1)..k) = k - L
      BY <1>1, <2>1, FS_Interval
    <2>4. EntriesOf(o) \cap ((L + 1)..k) = {}
      BY <1>1 DEF EntriesOf
    <2>5. IsFiniteSet(EntriesOf(o))
      BY PlaceTypes DEF TurnsInv
    <2>6. Cardinality(EntriesOf(o) \cup ((L + 1)..k))
            = Cardinality(EntriesOf(o)) + Cardinality((L + 1)..k)
      BY <2>3, <2>4, <2>5, DisjointUnion
    <2> QED
      BY <2>2, <2>3, <2>6 DEF Place
  <1>7. ASSUME NEW p \in Orders, p # o
        PROVE  /\ Len(outbox'[p]) = Cardinality(EntriesOf(p)')
               /\ \A i \in 1..Len(outbox'[p]) : \E k \in EntriesOf(p)' : Place(k)' = i
    <2>1. \A k \in EntriesOf(p) : k \in 1..L
      BY <1>1 DEF EntriesOf
    <2> QED
      BY <1>2, <1>4, <1>5, <1>7, <2>1 DEF EntriesMatch
  <1>8. Len(outbox'[o]) = Cardinality(EntriesOf(o)')
    <2>1. IsFiniteSet(added) /\ Cardinality(added) = n
      BY <1>1, IntervalAfter
    <2>2. EntriesOf(o) \cap added = {}
      BY <1>1 DEF EntriesOf
    <2>3. IsFiniteSet(EntriesOf(o))
      BY PlaceTypes DEF TurnsInv
    <2>4. Cardinality(EntriesOf(o) \cup added) = Cardinality(EntriesOf(o)) + Cardinality(added)
      BY <2>1, <2>2, <2>3, DisjointUnion
    <2>5. Len(outbox[o]) = Cardinality(EntriesOf(o))
      BY <1>2 DEF EntriesMatch
    <2>6. EntriesOf(o)' = EntriesOf(o) \cup added
      BY <1>4
    <2> QED
      BY <1>3, <2>1, <2>4, <2>5, <2>6
  <1>9. ASSUME NEW i \in 1..Len(outbox'[o])
        PROVE  \E k \in EntriesOf(o)' : Place(k)' = i
    <2>1. Len(outbox[o]) = Cardinality(EntriesOf(o)) /\ Len(outbox[o]) \in Nat
      BY <1>2 DEF EntriesMatch
    <2>2. CASE i \in 1..Len(outbox[o])
      <3>1. PICK k \in EntriesOf(o) : Place(k) = i
        BY <1>2, <2>2 DEF EntriesMatch
      <3>2. k \in 1..L
        BY <1>1 DEF EntriesOf
      <3> QED
        BY <1>4, <1>5, <3>1, <3>2
    <2>3. CASE i \notin 1..Len(outbox[o])
      <3>1. PICK k \in Int : k = L + (i - Len(outbox[o]))
        BY <1>1, <2>1
      <3>2. k \in added /\ Place(k)' = i
        <4>1. k \in added
          BY <1>1, <1>3, <2>1, <2>3, <3>1
        <4> QED
          BY <1>1, <1>6, <2>1, <3>1, <4>1
      <3> QED
        BY <1>4, <3>2
    <2> QED
      BY <2>2, <2>3
  <1> QED
    BY <1>7, <1>8, <1>9 DEF EntriesMatch

-----------------------------------------------------------------------------
(* Entries that are new are in no story. *)
LEMMA PersistTellsNothing ==
    ASSUME Inv, Inv', TurnsInv, StoryTypes, NEW e \in Requests, Persist(e)
    PROVE  /\ story' = story /\ accepted' = accepted /\ accepted \subseteq DOMAIN rows
           /\ \A k \in DOMAIN rows : k \in DOMAIN rows' /\ rows'[k] = rows[k]
           /\ \A o \in Orders : \A i \in 1..Len(story[o]) :
                 1..(story[o][i] - 1) \subseteq DOMAIN rows
  <1>1. Len(rows) \in Nat /\ DOMAIN rows = 1..Len(rows)
        /\ \A k \in DOMAIN rows : k \in DOMAIN rows' /\ rows'[k] = rows[k]
    <2>1. PICK n : /\ Len(rows) \in Nat /\ n \in Nat /\ DOMAIN rows = 1..Len(rows)
                   /\ DOMAIN rows' = 1..(Len(rows) + n)
                   /\ \A k \in 1..Len(rows) : rows'[k] = rows[k]
      BY TableGrows
    <2> QED
      BY <2>1
  <1>2. story' = story /\ accepted' = accepted /\ accepted \subseteq DOMAIN rows
    BY DEF Persist, TurnsInv, ShapeOK
  <1>3. ASSUME NEW o \in Orders, NEW i \in 1..Len(story[o])
        PROVE  1..(story[o][i] - 1) \subseteq DOMAIN rows
    <2>1. story[o][i] \in 1..Len(rows)
      BY <1>1, <1>2 DEF StoryTypes
    <2> QED
      BY <1>1, <2>1
  <1> QED
    BY <1>1, <1>2, <1>3

LEMMA PersistKeepsPast ==
    ASSUME Inv, Inv', TurnsInv, StoryTypes, NEW e \in Requests, Persist(e),
           NEW X, ToldPast(X)
    PROVE  ToldPast(X)'
  BY PersistTellsNothing DEF ToldPast

LEMMA PersistKeepsStory ==
    ASSUME Inv, Inv', TurnsInv, StoryOK, NEW e \in Requests, Persist(e)
    PROVE  StoryOK'
  <1>1. /\ story' = story /\ accepted' = accepted /\ accepted \subseteq DOMAIN rows
        /\ \A k \in DOMAIN rows : k \in DOMAIN rows' /\ rows'[k] = rows[k]
    BY PersistTellsNothing DEF StoryOK
  <1>2. StoryTypes'
    BY <1>1 DEF StoryOK, StoryTypes
  <1>3. ToldAll' /\ ToldOnce'
    BY <1>1 DEF StoryOK, ToldAll, ToldOnce
  <1>4. ToldTried'
    <2>1. PICK X : X = Tried
      OBVIOUS
    <2>2. ToldPast(X)'
      BY <2>1, PersistKeepsPast DEF StoryOK, ToldTried
    <2>3. X \subseteq Tried'
      BY <1>1, <2>1 DEF Tried
    <2> QED
      BY <2>2, <2>3 DEF ToldTried, ToldPast
  <1> QED
    BY <1>2, <1>3, <1>4 DEF StoryOK

(* A step of the dispatcher has at most one entry accepted. *)
LEMMA AcceptsOne ==
    ASSUME Dispatch
    PROVE  accepted \subseteq accepted' /\ \A j, k \in accepted' \ accepted : j = k
  <1>1. ASSUME NEW d \in Procs, NEW k \in 1..MaxRows, Deliver(d, k)
        PROVE  accepted' = accepted \/ accepted' = accepted \cup {k}
    BY <1>1
    DEF Deliver, Send, Skip, SendCancelled, Receive, Respond, NoResponse, Record, RecordLost
  <1>2. ASSUME NEW k \in 1..MaxRows, ArriveLate(k) PROVE accepted' = accepted \cup {k}
    BY <1>2 DEF ArriveLate
  <1>3. ASSUME NEW d \in Procs, \/ Claim(d) \/ ClaimLost(d) \/ Shutdown(d) \/ Exit(d)
                                \/ Crash(d) \/ Restart(d) \/ ProbeAgain(d)
        PROVE  accepted' = accepted
    BY <1>3 DEF Claim, ClaimLost, Shutdown, Exit, Crash, Restart, ProbeAgain
  <1>4. ASSUME NEW k \in DOMAIN rows, BackoffEnds(k) PROVE accepted' = accepted
    BY <1>4 DEF BackoffEnds
  <1>5. ASSUME Tick \/ PollNothing PROVE accepted' = accepted
    BY <1>5 DEF Tick, PollNothing, vars
  <1>6. accepted' = accepted \/ \E k : accepted' = accepted \cup {k}
    BY <1>1, <1>2, <1>3, <1>4, <1>5 DEF Dispatch
  <1> QED
    BY <1>6

(* No entry loses its place or an attempt. *)
LEMMA PlacesStay ==
    ASSUME TurnsInv, Dispatch
    PROVE  KeepsPlaces /\ \A k \in DOMAIN rows : rows[k].attempts > 0 => rows'[k].attempts > 0
  <1>1. \A k \in DOMAIN rows : rows[k].attempts \in Nat
    BY AnyRowTypes DEF TurnsInv
  <1>2. CASE rows' = rows
    BY <1>2 DEF KeepsPlaces
  <1>3. CASE RowsSucceed
    <2>1. \A k \in DOMAIN rows : /\ rows'[k].order = rows[k].order /\ rows'[k].attempts \in Nat
                                 /\ rows'[k].attempts >= rows[k].attempts
      BY <1>3 DEF RowsSucceed, Succeeds, AnyEntry
    <2> QED
      BY <1>1, <1>3, <2>1 DEF KeepsPlaces, RowsSucceed
  <1> QED
    BY <1>2, <1>3, DispatchSucceeds

(* The story goes on with the entry that is accepted for the first time. *)
GoesOn(k) ==
    LET p == rows[k].order
        n == Len(story[p])
    IN /\ k \in accepted' \ accepted /\ accepted' = accepted \cup {k}
       /\ k \in DOMAIN rows /\ k \in Nat /\ p \in Orders /\ n \in Nat
       /\ story' \in [Orders -> Seq(1..MaxRows)]
       /\ \A o \in Orders : o # p => story'[o] = story[o]
       /\ Len(story'[p]) = n + 1 /\ story'[p][n + 1] = k
       /\ \A i \in 1..n : story'[p][i] = story[p][i]

LEMMA StoryGoesOn ==
    ASSUME TurnsInv, StoryTypes, DispatchAndHear
    PROVE  UNCHANGED <<story, accepted>> \/ \E k : GoesOn(k)
  <1>1. Dispatch /\ accepted \subseteq accepted' /\ \A j, k \in accepted' \ accepted : j = k
    BY AcceptsOne DEF DispatchAndHear
  <1>2. CASE accepted' = accepted
    BY <1>2 DEF DispatchAndHear
  <1>3. CASE accepted' # accepted
    <2>1. PICK k \in accepted' \ accepted : HearFirst(k)
      BY <1>3 DEF DispatchAndHear
    <2>2. accepted' = accepted \cup {k}
      BY <1>1, <2>1
    <2>3. PICK p : p = rows[k].order
      OBVIOUS
    <2>4. PICK n : n = Len(story[p])
      OBVIOUS
    <2>5. k \in 1..MaxRows /\ k \in DOMAIN rows /\ k \in Nat /\ p \in Orders
      <3>1. k \in 1..MaxRows /\ k \in DOMAIN rows
        BY <1>1, <2>1, AcceptedInTurn
      <3>2. rows[k] \in AnyEntry
        BY <3>1, AnyRowTypes DEF TurnsInv
      <3> QED
        BY <2>3, <3>1, <3>2, AggregatesAssumption, Sizes DEF AnyEntry
    <2>6. story[p] \in Seq(1..MaxRows) /\ n \in Nat
      BY <2>4, <2>5, LenProperties DEF StoryTypes
    <2>7. PICK t : t = Append(story[p], k)
      OBVIOUS
    <2>8. /\ t \in Seq(1..MaxRows) /\ Len(t) = n + 1 /\ t[n + 1] = k
          /\ \A i \in 1..n : t[i] = story[p][i]
      BY <2>4, <2>5, <2>6, <2>7, AppendProperties
    <2>9. story' = [story EXCEPT ![p] = t]
      BY <2>1, <2>3, <2>7 DEF HearFirst
    <2>10. /\ story' \in [Orders -> Seq(1..MaxRows)] /\ story'[p] = t
           /\ \A o \in Orders : o # p => story'[o] = story[o]
      BY <2>5, <2>8, <2>9 DEF StoryTypes
    <2>11. GoesOn(k)
      BY <2>1, <2>2, <2>3, <2>4, <2>5, <2>6, <2>8, <2>10 DEF GoesOn
    <2> QED
      BY <2>11
  <1> QED
    BY <1>2, <1>3

(* What has been told stays told, and is told of all that is accepted. *)
LEMMA DispatchKeepsTold ==
    ASSUME TurnsInv, StoryTypes, ToldAll, ToldOnce, DispatchAndHear
    PROVE  StoryTypes' /\ ToldAll' /\ ToldOnce'
  <1>1. KeepsPlaces /\ accepted \subseteq DOMAIN rows
    BY PlacesStay DEF DispatchAndHear, TurnsInv, ShapeOK
  <1>2. \A k \in DOMAIN rows : rows'[k].order = rows[k].order
    BY <1>1 DEF KeepsPlaces
  <1>3. CASE UNCHANGED <<story, accepted>>
    BY <1>1, <1>2, <1>3 DEF StoryTypes, ToldAll, ToldOnce
  <1>4. ASSUME NEW k, GoesOn(k)
        PROVE  StoryTypes' /\ ToldAll' /\ ToldOnce'
    <2>1. PICK p : p = rows[k].order
      OBVIOUS
    <2>2. PICK n : n = Len(story[p])
      OBVIOUS
    <2>3. /\ k \in accepted' \ accepted /\ accepted' = accepted \cup {k}
          /\ k \in DOMAIN rows /\ p \in Orders /\ n \in Nat
          /\ story' \in [Orders -> Seq(1..MaxRows)]
          /\ \A o \in Orders : o # p => story'[o] = story[o]
          /\ Len(story'[p]) = n + 1 /\ story'[p][n + 1] = k
          /\ \A i \in 1..n : story'[p][i] = story[p][i]
      BY <1>4, <2>1, <2>2 DEF GoesOn
    <2>4. \A i \in 1..(n + 1) : i \in 1..n \/ i = n + 1
      BY <2>3
    <2>5. \A i \in 1..n : /\ i \in 1..(n + 1) /\ story[p][i] \in accepted
                          /\ rows[story[p][i]].order = p
      BY <2>2, <2>3 DEF StoryTypes
    <2>6. n + 1 \in 1..(n + 1)
      BY <2>3
    <2>7. StoryTypes'
      <3>1. ASSUME NEW i \in 1..(n + 1)
            PROVE  story'[p][i] \in accepted' /\ rows'[story'[p][i]].order = p
        BY <1>1, <1>2, <2>1, <2>3, <2>4, <2>5
      <3>2. ASSUME NEW o \in Orders, o # p, NEW i \in 1..Len(story'[o])
            PROVE  story'[o][i] \in accepted' /\ rows'[story'[o][i]].order = o
        BY <1>1, <1>2, <2>3, <3>2 DEF StoryTypes
      <3> QED
        BY <2>3, <3>1, <3>2 DEF StoryTypes
    <2>8. ToldAll'
      <3>1. ASSUME NEW j \in accepted', rows'[j].order = p
            PROVE  \E i \in 1..(n + 1) : story'[p][i] = j
        <4>1. CASE j = k
          BY <2>3, <2>6, <4>1
        <4>2. CASE j \in accepted
          <5>1. rows[j].order = p
            BY <1>1, <1>2, <3>1, <4>2
          <5>2. PICK i \in 1..n : story[p][i] = j
            BY <2>2, <2>3, <4>2, <5>1 DEF ToldAll
          <5> QED
            BY <2>3, <2>5, <5>2
        <4> QED
          BY <2>3, <3>1, <4>1, <4>2
      <3>2. ASSUME NEW o \in Orders, o # p, NEW j \in accepted', rows'[j].order = o
            PROVE  \E i \in 1..Len(story'[o]) : story'[o][i] = j
        <4>1. j \in accepted /\ rows[j].order = o
          BY <1>1, <1>2, <2>1, <2>3, <3>2
        <4> QED
          BY <2>3, <3>2, <4>1 DEF ToldAll
      <3> QED
        BY <2>3, <3>1, <3>2 DEF ToldAll
    <2>9. ToldOnce'
      <3>1. ASSUME NEW i \in 1..(n + 1), NEW j \in 1..(n + 1), story'[p][i] = story'[p][j]
            PROVE  i = j
        <4>1. \A h \in 1..n : story'[p][h] # k
          BY <2>3, <2>5
        <4>2. \A g, h \in 1..n : story[p][g] = story[p][h] => g = h
          BY <2>2, <2>3 DEF ToldOnce
        <4> QED
          BY <2>3, <2>4, <3>1, <4>1, <4>2
      <3>2. \A o \in Orders : o # p => \A i, j \in 1..Len(story'[o]) :
                                          story'[o][i] = story'[o][j] => i = j
        BY <2>3 DEF ToldOnce
      <3> QED
        BY <2>3, <3>1, <3>2 DEF ToldOnce
    <2> QED
      BY <2>7, <2>8, <2>9
  <1> QED
    BY <1>3, <1>4, StoryGoesOn

(* If the entry that is accepted had all the earlier ones of its order       *)
(* accepted, X excepted, so has it in the story; and X may only grow.        *)
LEMMA DispatchKeepsPast ==
    ASSUME TurnsInv, StoryTypes, ToldAll, DispatchAndHear,
           NEW X, NEW Y, X \subseteq Y, ToldPast(X),
           \A k \in accepted' \ accepted : \A j \in 1..(k - 1) :
              rows[j].order = rows[k].order => j \in accepted \/ j \in X
    PROVE  ToldPast(Y)'
  <1>1. KeepsPlaces /\ accepted \subseteq DOMAIN rows /\ Len(rows) \in Nat /\ DOMAIN rows = 1..Len(rows)
    BY PlacesStay, AnyRowTypes DEF DispatchAndHear, TurnsInv, ShapeOK
  <1>2. \A k \in DOMAIN rows : /\ rows'[k].order = rows[k].order
                               /\ 1..(k - 1) \subseteq DOMAIN rows
    BY <1>1 DEF KeepsPlaces
  <1>3. ASSUME NEW o \in Orders, NEW i \in 1..Len(story[o]), NEW j \in 1..(story[o][i] - 1),
               rows'[j].order = o
        PROVE  j \in Y \/ \E h \in 1..(i - 1) : story[o][h] = j
    <2>1. story[o][i] \in DOMAIN rows
      BY <1>1 DEF StoryTypes
    <2>2. j \in DOMAIN rows
      BY <1>2, <2>1
    <2>3. rows[j].order = o
      BY <1>2, <1>3, <2>2
    <2>4. j \in X \/ \E h \in 1..(i - 1) : story[o][h] = j
      BY <2>3 DEF ToldPast
    <2> QED
      BY <2>4
  <1>4. CASE UNCHANGED <<story, accepted>>
    BY <1>3, <1>4 DEF ToldPast
  <1>5. ASSUME NEW k, GoesOn(k) PROVE ToldPast(Y)'
    <2>1. PICK p : p = rows[k].order
      OBVIOUS
    <2>2. PICK n : n = Len(story[p])
      OBVIOUS
    <2>3. /\ k \in accepted' \ accepted /\ k \in DOMAIN rows /\ p \in Orders /\ n \in Nat
          /\ \A o \in Orders : o # p => story'[o] = story[o]
          /\ Len(story'[p]) = n + 1 /\ story'[p][n + 1] = k
          /\ \A i \in 1..n : story'[p][i] = story[p][i]
      BY <1>5, <2>1, <2>2 DEF GoesOn
    <2>4. ASSUME NEW j \in 1..(k - 1), rows'[j].order = p
          PROVE  j \in Y \/ \E h \in 1..n : story'[p][h] = j
      <3>1. j \in DOMAIN rows
        BY <1>2, <2>3
      <3>2. rows[j].order = p
        BY <1>2, <2>4, <3>1
      <3>3. j \in accepted \/ j \in X
        BY <2>1, <2>3, <3>2
      <3>4. CASE j \in accepted
        <4>1. PICK h \in 1..n : story[p][h] = j
          BY <2>2, <2>3, <3>2, <3>4 DEF ToldAll
        <4> QED
          BY <2>3, <4>1
      <3> QED
        BY <3>3, <3>4
    <2>5. ASSUME NEW i \in 1..(n + 1), NEW j \in 1..(story'[p][i] - 1), rows'[j].order = p
          PROVE  j \in Y \/ \E h \in 1..(i - 1) : story'[p][h] = j
      <3>1. CASE i \in 1..n
        <4>1. story'[p][i] = story[p][i]
          BY <2>3, <3>1
        <4>2. j \in Y \/ \E h \in 1..(i - 1) : story[p][h] = j
          BY <1>3, <2>2, <2>3, <2>5, <3>1, <4>1
        <4>3. \A h \in 1..(i - 1) : h \in 1..n
          BY <2>3, <3>1
        <4> QED
          BY <2>3, <4>2, <4>3
      <3>2. CASE i = n + 1
        <4>1. story'[p][i] = k /\ i - 1 = n
          BY <2>3, <3>2
        <4> QED
          BY <2>4, <2>5, <4>1
      <3>3. i \in 1..n \/ i = n + 1
        BY <2>3
      <3> QED
        BY <3>1, <3>2, <3>3
    <2>6. ASSUME NEW o \in Orders, o # p, NEW i \in 1..Len(story'[o]),
                 NEW j \in 1..(story'[o][i] - 1), rows'[j].order = o
          PROVE  j \in Y \/ \E h \in 1..(i - 1) : story'[o][h] = j
      <3>1. story'[o] = story[o]
        BY <2>3, <2>6
      <3> QED
        BY <1>3, <2>6, <3>1
    <2> QED
      BY <2>3, <2>5, <2>6 DEF ToldPast
  <1> QED
    BY <1>4, <1>5, StoryGoesOn

LEMMA DispatchKeepsStory ==
    ASSUME TurnsInv, StoryOK, DispatchAndHear
    PROVE  StoryOK'
  <1>1. StoryTypes /\ ToldAll /\ ToldOnce /\ ToldTried /\ Dispatch
    BY DEF StoryOK, DispatchAndHear
  <1>2. PICK X : X = Tried
    OBVIOUS
  <1>3. PICK Y : Y = Tried'
    OBVIOUS
  <1>4. X \subseteq Y
    BY <1>1, <1>2, <1>3, PlacesStay DEF Tried, KeepsPlaces
  <1>5. ASSUME NEW k \in accepted' \ accepted, NEW j \in 1..(k - 1), rows[j].order = rows[k].order
        PROVE  j \in accepted \/ j \in X
    <2>1. k \in DOMAIN rows /\ EarlierTried(k)
      BY <1>1, AcceptedInTurn
    <2>2. j \in DOMAIN rows
      <3>1. Len(rows) \in Nat /\ DOMAIN rows = 1..Len(rows)
        BY AnyRowTypes DEF TurnsInv
      <3> QED
        BY <2>1, <3>1
    <2> QED
      BY <1>2, <1>5, <2>1, <2>2 DEF EarlierTried, Tried
  <1>6. ToldPast(X)
    BY <1>1, <1>2 DEF ToldTried
  <1>7. ToldPast(Y)'
    BY <1>1, <1>4, <1>5, <1>6, DispatchKeepsPast
  <1>8. ToldTried'
    BY <1>3, <1>7 DEF ToldTried, ToldPast
  <1> QED
    BY <1>1, <1>8, DispatchKeepsTold DEF StoryOK

(* Where no lease ends too early. *)
LEMMA DispatchKeepsAfter ==
    ASSUME TurnsInv, DispatchInv, StoryOK, ToldAfter, DispatchAndHear
    PROVE  ToldAfter'
  <1>1. StoryTypes /\ ToldAll /\ KeepsOutcomes /\ KeepsPlaces /\ AcceptsInOrder
    BY DispatchKeepsOutcomes, DispatchAcceptsInOrder DEF StoryOK, DispatchAndHear
  <1>2. PICK X : X = Dead
    OBVIOUS
  <1>3. PICK Y : Y = Dead'
    OBVIOUS
  <1>4. X \subseteq Y
    BY <1>1, <1>2, <1>3 DEF Dead, KeepsOutcomes, KeepsPlaces, Done
  <1>5. ASSUME NEW k \in accepted' \ accepted, NEW j \in 1..(k - 1), rows[j].order = rows[k].order
        PROVE  j \in accepted \/ j \in X
    <2>1. k \in DOMAIN rows
      BY AcceptedInTurn DEF DispatchAndHear
    <2>2. j \in DOMAIN rows
      <3>1. Len(rows) \in Nat /\ DOMAIN rows = 1..Len(rows)
        BY AnyRowTypes DEF TurnsInv
      <3> QED
        BY <2>1, <3>1
    <2> QED
      BY <1>1, <1>2, <1>5, <2>2 DEF AcceptsInOrder, Dead
  <1>6. ToldPast(X)
    BY <1>2 DEF ToldAfter
  <1>7. ToldPast(Y)'
    BY <1>1, <1>4, <1>5, <1>6, DispatchKeepsPast
  <1> QED
    BY <1>3, <1>7 DEF ToldAfter, ToldPast

-----------------------------------------------------------------------------
(* The inductive invariant. *)
LEMMA GatewayInitInv == GatewayInit => GatewayInv
  <1> SUFFICES ASSUME GatewayInit PROVE GatewayInv
    OBVIOUS
  <1>1. Inv /\ TurnsInv
    BY InitInv, InitIsTurnsInv DEF GatewayInit
  <1>2. rows = <<>> /\ accepted = {}
    BY DEF GatewayInit, Init
  <1>3. \A o \in Orders : outbox[o] = <<>> /\ story[o] = <<>>
    BY DEF GatewayInit, StoreInit
  <1>4. <<>> \in Seq(1..MaxRows) /\ Len(<<>>) = 0
    BY EmptySeq
  <1>5. EntriesMatch
    <2>1. \A o : EntriesOf(o) = {}
      BY <1>2 DEF EntriesOf
    <2>2. Cardinality({}) = 0
      BY FS_EmptySet
    <2>3. ASSUME NEW o \in Orders
          PROVE  Len(outbox[o]) = Cardinality(EntriesOf(o)) /\ Len(outbox[o]) = 0
      BY <1>3, <1>4, <2>1, <2>2
    <2>4. \A i \in 1..0 : FALSE
      OBVIOUS
    <2> QED
      BY <2>3, <2>4 DEF EntriesMatch
  <1>6. StoryOK
    <2>1. StoryTypes
      BY <1>3, <1>4 DEF GatewayInit, StoryTypes
    <2>2. ToldAll /\ ToldOnce /\ ToldTried
      BY <1>2, <1>3, <1>4 DEF ToldAll, ToldOnce, ToldTried, ToldPast
    <2> QED
      BY <2>1, <2>2 DEF StoryOK
  <1> QED
    BY <1>1, <1>5, <1>6 DEF GatewayInv

LEMMA GatewayStepKeepsInv ==
    ASSUME GatewayInv, [GatewayNext]_allVars
    PROVE  GatewayInv'
  <1>1. Inv /\ Inv' /\ TurnsInv /\ EntriesMatch /\ StoryOK
    BY StepsOfTheStore, NextInv DEF GatewayInv
  <1>2. ASSUME NEW e \in Requests, Persist(e) PROVE GatewayInv'
    <2>1. TurnsInv'
      BY <1>1, <1>2, TableGrows
    <2> QED
      BY <1>1, <1>2, <2>1, PersistKeepsMatch, PersistKeepsStory DEF GatewayInv
  <1>3. CASE DispatchAndHear
    <2>1. TurnsInv'
      BY <1>1, <1>3, StepKeepsTurns DEF DispatchAndHear, Next
    <2>2. StoryOK'
      BY <1>1, <1>3, DispatchKeepsStory
    <2>3. KeepsPlaces /\ outbox' = outbox
      BY <1>1, <1>3, PlacesStay DEF DispatchAndHear, storeVars
    <2>4. Len(rows) \in Nat /\ DOMAIN rows = 1..Len(rows)
      BY <1>1, AnyRowTypes DEF TurnsInv
    <2>5. \A o : EntriesOf(o)' = EntriesOf(o)
      BY <2>3 DEF KeepsPlaces, EntriesOf
    <2>6. ASSUME NEW k \in DOMAIN rows PROVE Place(k)' = Place(k)
      <3>1. \A j \in 1..k : j \in DOMAIN rows
        BY <2>4
      <3>2. Upto(k)' = Upto(k)
        BY <2>3, <3>1 DEF KeepsPlaces, Upto
      <3> QED
        BY <3>2 DEF Place
    <2>7. \A o : \A k \in EntriesOf(o) : k \in DOMAIN rows
      BY DEF EntriesOf
    <2>8. EntriesMatch'
      BY <1>1, <2>3, <2>5, <2>6, <2>7 DEF EntriesMatch
    <2> QED
      BY <1>1, <2>1, <2>2, <2>8 DEF GatewayInv
  <1>4. CASE Expire \/ UNCHANGED allVars
    <2>1. UNCHANGED vars /\ UNCHANGED <<rows, accepted, story, outbox>>
      BY <1>4 DEF Expire, ExpirePending, allVars, vars, storeVars
    <2>2. TurnsInv'
      BY <1>1, <2>1, StepKeepsTurns
    <2>3. EntriesMatch'
      BY <1>1, <2>1 DEF EntriesMatch, EntriesOf, Place, Upto
    <2>4. StoryOK'
      BY <1>1, <2>1 DEF StoryOK, StoryTypes, ToldAll, ToldOnce, ToldTried, ToldPast, Tried
    <2> QED
      BY <1>1, <2>2, <2>3, <2>4 DEF GatewayInv
  <1> QED
    BY <1>2, <1>3, <1>4 DEF GatewayNext

(* What every run keeps: the two parts on one table, the entries matched     *)
(* with the log, and the receiver's stories (insertOutbox, dispatchBatch,    *)
(* State.handle).                                                            *)
THEOREM GatewayInvariant == GatewaySpec => []GatewayInv
  BY GatewayInitInv, GatewayStepKeepsInv, PTL DEF GatewaySpec

(* What the runs keep in which no lease ends before its holder is through. *)
LEMMA OrderlyInit == GatewayInit => OrderlyInv
  <1> SUFFICES ASSUME GatewayInit PROVE OrderlyInv
    OBVIOUS
  <1>1. DispatchInv
    BY InitIsDispatchInv DEF GatewayInit
  <1>2. \A o \in Orders : story[o] = <<>>
    BY DEF GatewayInit
  <1>3. Len(<<>>) = 0
    BY EmptySeq
  <1>4. ToldAfter
    BY <1>2, <1>3 DEF ToldAfter, ToldPast
  <1> QED
    BY <1>1, <1>4, GatewayInitInv DEF OrderlyInv

LEMMA OrderlyStep ==
    ASSUME OrderlyInv, [GatewayNext]_allVars, LeaseCovers'
    PROVE  OrderlyInv'
  <1>1. /\ GatewayInv /\ GatewayInv' /\ Inv /\ Inv' /\ TurnsInv /\ StoryOK /\ StoryTypes
        /\ DispatchInv /\ ToldAfter
    BY GatewayStepKeepsInv DEF OrderlyInv, GatewayInv, StoryOK
  <1>2. ASSUME NEW e \in Requests, Persist(e) PROVE DispatchInv' /\ ToldAfter'
    <2>1. DispatchInv'
      BY <1>1, <1>2, PersistKeepsDispatch
    <2>2. \A k \in DOMAIN rows : k \in DOMAIN rows' /\ rows'[k] = rows[k]
      BY <1>1, <1>2, PersistTellsNothing
    <2>3. PICK X : X = Dead
      OBVIOUS
    <2>4. ToldPast(X)'
      BY <1>1, <1>2, <2>3, PersistKeepsPast DEF ToldAfter
    <2>5. X \subseteq Dead'
      BY <2>2, <2>3 DEF Dead
    <2> QED
      BY <2>1, <2>4, <2>5 DEF ToldAfter, ToldPast
  <1>3. CASE DispatchAndHear
    <2>1. Dispatch /\ (Tick => LeasesLast)
      BY <1>1, <1>3, CoveredLast DEF DispatchAndHear
    <2>2. DispatchInv'
      BY <1>1, <2>1, DispatchKeepsInv DEF KeepsInv
    <2> QED
      BY <1>1, <1>3, <2>2, DispatchKeepsAfter DEF OrderlyInv
  <1>4. CASE Expire \/ UNCHANGED allVars
    <2>1. UNCHANGED vars /\ UNCHANGED <<rows, story>>
      BY <1>4 DEF Expire, allVars, vars
    <2>2. DispatchInv'
      BY <1>1, <2>1, UnchangedKeepsInv DEF KeepsInv
    <2>3. ToldAfter'
      BY <1>1, <2>1 DEF ToldAfter, ToldPast, Dead
    <2> QED
      BY <1>1, <2>2, <2>3 DEF OrderlyInv
  <1> QED
    BY <1>1, <1>2, <1>3, <1>4 DEF GatewayNext, OrderlyInv

LEMMA OrderlyRuns == GatewaySpec /\ []LeaseCovers => []OrderlyInv
  BY OrderlyInit, OrderlyStep, PTL DEF GatewaySpec

(* Types, and one entry of the table for every event of a log: none of those *)
(* that a transaction drains goes without (insertOutbox), whatever commits   *)
(* meanwhile.                                                                *)
THEOREM GatewayTypeCorrect == GatewaySpec => []GatewayTypeOK
  <1>1. GatewayInv => GatewayTypeOK
    <2> SUFFICES ASSUME GatewayInv PROVE GatewayTypeOK
      OBVIOUS
    <2>1. ASSUME NEW o \in Orders PROVE DOMAIN story[o] = 1..Len(story[o])
      <3>1. story[o] \in Seq(1..MaxRows)
        BY DEF GatewayInv, StoryOK, StoryTypes
      <3> QED
        BY <3>1, LenProperties
    <2> QED
      BY <2>1 DEF GatewayInv, Inv, EntriesMatch, EntriesOf, StoryOK, StoryTypes, GatewayTypeOK
  <1> QED
    BY <1>1, GatewayInvariant, PTL

-----------------------------------------------------------------------------
(* The payload of an entry is the event of the log at its place. *)
LEMMA PayloadOfEntry ==
    ASSUME GatewayInv, NEW o \in Orders, NEW k \in EntriesOf(o)
    PROVE  LET e == Payload(k)
               s == orders[o]
           IN /\ Place(k) \in Nat /\ Place(k) >= 1 /\ s.lastSeq \in Nat
              /\ Place(k) <= Len(outbox[o]) /\ e.planID = s.planID
              /\ IF Place(k) <= s.lastSeq
                 THEN e.seqID = Place(k) /\ e.type # AbortType
                 ELSE Place(k) = s.lastSeq + 1 /\ e.seqID = 0 /\ e.type = AbortType
  <1>1. Inv /\ ShapeOK /\ EntriesMatch
    BY DEF GatewayInv, TurnsInv
  <1>2. k \in DOMAIN rows /\ rows[k].order = o
    BY DEF EntriesOf
  <1>3. /\ IsFiniteSet(EntriesOf(o)) /\ k \in Nat /\ IsFiniteSet(Upto(k)) /\ Place(k) \in Nat
        /\ Upto(k) \in SUBSET EntriesOf(o)
    BY <1>1, <1>2, PlaceTypes
  <1>4. k \in Upto(k)
    <2>1. Len(rows) \in Nat /\ DOMAIN rows = 1..Len(rows)
      BY <1>1, AnyRowTypes
    <2> QED
      BY <1>2, <2>1 DEF Upto
  <1>5. Place(k) >= 1
    BY <1>3, <1>4, FS_EmptySet DEF Place
  <1>6. Len(outbox[o]) = Cardinality(EntriesOf(o))
    BY <1>1 DEF EntriesMatch
  <1>7. Place(k) <= Len(outbox[o])
    BY <1>3, <1>6, FS_Subset DEF Place
  <1>8. PICK log : log = outbox[o]
    OBVIOUS
  <1>9. PICK s : s = orders[o]
    OBVIOUS
  <1>10. log \in Seq(Event) /\ s \in OrderState /\ LogTells(s, log)
    BY <1>1, <1>8, <1>9 DEF Inv, TypeOK, LogTellsOrder
  <1>11. Len(log) \in Nat /\ s.lastSeq \in Nat
    <2>1. s.lastSeq \in 0..MaxInt
      BY <1>10 DEF OrderState
    <2> QED
      BY <1>10, <2>1, LenProperties, MaxIntAssumption
  <1>12. Payload(k) = log[Place(k)]
    BY <1>2, <1>8 DEF Payload, Place, Upto
  <1>13. CASE Place(k) <= s.lastSeq
    <2>1. Place(k) \in 1..s.lastSeq
      BY <1>3, <1>5, <1>11, <1>13
    <2>2. log[Place(k)] \in SeqEvent /\ log[Place(k)].planID = s.planID
          /\ log[Place(k)].seqID = Place(k)
      BY <1>10, <2>1 DEF LogTells
    <2>3. log[Place(k)].type # AbortType
      BY <2>2, TypesAssumption DEF SeqEvent, SequencedType, AbortType
    <2> QED
      BY <1>3, <1>5, <1>7, <1>8, <1>9, <1>11, <1>12, <1>13, <2>2, <2>3
  <1>14. CASE ~(Place(k) <= s.lastSeq)
    <2>1. Len(log) # s.lastSeq
      BY <1>3, <1>7, <1>8, <1>11, <1>14
    <2>2. Len(log) = s.lastSeq + 1 /\ log[Len(log)] \in AbortEvent
          /\ log[Len(log)].planID = s.planID
      BY <1>10, <2>1 DEF LogTells
    <2>3. Place(k) = Len(log)
      BY <1>3, <1>7, <1>8, <1>11, <1>14, <2>2
    <2>4. log[Place(k)].seqID = 0 /\ log[Place(k)].type = AbortType
      BY <2>2, <2>3 DEF AbortEvent
    <2> QED
      BY <1>3, <1>5, <1>7, <1>8, <1>9, <1>11, <1>12, <1>14, <2>2, <2>3, <2>4
  <1> QED
    BY <1>13, <1>14

(* An entry that is told has all the earlier places of its order behind it,  *)
(* each of them told before it, or in X.                                     *)
LEMMA ToldBefore ==
    ASSUME GatewayInv, NEW X, ToldPast(X),
           NEW o \in Orders, NEW i \in 1..Len(story[o]), NEW p \in Nat,
           1 <= p, p < Place(story[o][i])
    PROVE  \E j \in EntriesOf(o) : /\ Place(j) = p
                                   /\ j \in X \/ \E h \in 1..(i - 1) : story[o][h] = j
  <1>1. ShapeOK /\ EntriesMatch /\ StoryTypes
    BY DEF GatewayInv, StoryOK, TurnsInv
  <1>2. PICK k : k = story[o][i]
    OBVIOUS
  <1>3. k \in EntriesOf(o)
    BY <1>1, <1>2 DEF StoryTypes, EntriesOf, ShapeOK
  <1>4. Place(k) \in Nat /\ Place(k) <= Len(outbox[o])
    BY <1>3, PayloadOfEntry
  <1>5. Len(outbox[o]) \in Nat
    <2>1. outbox[o] \in Seq(Event)
      BY DEF GatewayInv, Inv, TypeOK
    <2> QED
      BY <2>1, LenProperties
  <1>6. p \in 1..Len(outbox[o])
    BY <1>2, <1>4, <1>5
  <1>7. PICK j \in EntriesOf(o) : Place(j) = p
    BY <1>1, <1>6 DEF EntriesMatch
  <1>8. j \in Nat /\ k \in Nat /\ j >= 1 /\ j \in DOMAIN rows /\ k \in DOMAIN rows
        /\ rows[j].order = o /\ rows[k].order = o
    <2>1. Len(rows) \in Nat /\ DOMAIN rows = 1..Len(rows)
      BY <1>1, AnyRowTypes
    <2> QED
      BY <1>3, <1>7, <2>1 DEF EntriesOf
  <1>9. j < k
    <2>1. CASE k < j
      <3>1. Place(k) < Place(j)
        BY <1>1, <1>8, <2>1, PlacesAscend
      <3> QED
        BY <1>2, <1>4, <1>7, <3>1
    <2>2. j # k
      BY <1>2, <1>4, <1>7
    <2> QED
      BY <1>8, <2>1, <2>2
  <1>10. j \in 1..(k - 1)
    BY <1>8, <1>9
  <1> QED
    BY <1>1, <1>2, <1>7, <1>8, <1>10 DEF ToldPast

(* The payload of an entry with an earlier place. *)
LEMMA PayloadBefore ==
    ASSUME GatewayInv, NEW o \in Orders, NEW k \in EntriesOf(o), NEW j \in EntriesOf(o),
           Place(j) < Place(k)
    PROVE  /\ Payload(j).seqID = Place(j) /\ Payload(j).planID = orders[o].planID
           /\ Payload(j).type # AbortType /\ Place(j) \in Nat
  <1>1. /\ Place(j) \in Nat /\ Payload(j).planID = orders[o].planID /\ orders[o].lastSeq \in Nat
        /\ Place(j) <= orders[o].lastSeq =>
              Payload(j).seqID = Place(j) /\ Payload(j).type # AbortType
    BY PayloadOfEntry
  <1>2. Place(k) \in Nat /\ Place(k) <= orders[o].lastSeq + 1
    <2>1. /\ Place(k) \in Nat /\ orders[o].lastSeq \in Nat
          /\ Place(k) <= orders[o].lastSeq \/ Place(k) = orders[o].lastSeq + 1
      BY PayloadOfEntry
    <2> QED
      BY <2>1
  <1>3. Place(j) <= orders[o].lastSeq
    BY <1>1, <1>2
  <1> QED
    BY <1>1, <1>3

(* The events of the plan that a told event comes after: all those before it, *)
(* and for an abort all of them.                                              *)
Before(o, e) == 1..(IF e.type = "ABORT_PLAN" THEN orders[o].lastSeq ELSE e.seqID - 1)

LEMMA BeforeIsTold ==
    ASSUME GatewayInv, NEW X, ToldPast(X),
           NEW o \in Orders, NEW i \in 1..Len(story[o]),
           NEW s \in Before(o, Payload(story[o][i]))
    PROVE  \E j \in EntriesOf(o) :
              /\ Payload(j).seqID = s /\ Payload(j).planID = orders[o].planID
              /\ j \in X \/ \E h \in 1..(i - 1) : story[o][h] = j
  <1>1. PICK k : k = story[o][i]
    OBVIOUS
  <1>2. PICK e : e = Payload(k)
    OBVIOUS
  <1>3. k \in EntriesOf(o)
    BY <1>1 DEF GatewayInv, StoryOK, StoryTypes, EntriesOf, TurnsInv, ShapeOK
  <1>4. /\ Place(k) \in Nat /\ orders[o].lastSeq \in Nat
        /\ IF Place(k) <= orders[o].lastSeq THEN e.seqID = Place(k) /\ e.type # AbortType
           ELSE Place(k) = orders[o].lastSeq + 1 /\ e.seqID = 0 /\ e.type = AbortType
    BY <1>2, <1>3, PayloadOfEntry
  <1>5. s \in Nat /\ 1 <= s /\ s < Place(k)
    <2>1. s \in 1..(IF e.type = "ABORT_PLAN" THEN orders[o].lastSeq ELSE e.seqID - 1)
      BY <1>1, <1>2 DEF Before
    <2>2. CASE e.type = "ABORT_PLAN"
      BY <1>4, <2>1, <2>2 DEF AbortType
    <2>3. CASE e.type # "ABORT_PLAN"
      BY <1>4, <2>1, <2>3 DEF AbortType
    <2> QED
      BY <2>2, <2>3
  <1>6. PICK j \in EntriesOf(o) : /\ Place(j) = s
                                  /\ j \in X \/ \E h \in 1..(i - 1) : story[o][h] = j
    BY <1>1, <1>5, ToldBefore
  <1>7. Payload(j).seqID = s /\ Payload(j).planID = orders[o].planID
    BY <1>3, <1>5, <1>6, PayloadBefore
  <1> QED
    BY <1>6, <1>7

(* What the receiver hears of an order in any run and with any settings, the *)
(* shipped ones included: events of the order's plan, each once, and none    *)
(* before every earlier one of the plan has been told or at least tried; an  *)
(* abort after all of them.                                                  *)
HearsInTurn ==
    \A o \in Orders : \A i \in DOMAIN story[o] :
       LET e == Payload(story[o][i])
       IN /\ e.planID = orders[o].planID
          /\ \A s \in Before(o, e) : \E j \in EntriesOf(o) :
                /\ Payload(j).seqID = s /\ Payload(j).planID = e.planID
                /\ rows[j].attempts > 0 \/ \E h \in 1..(i - 1) : story[o][h] = j
          /\ \A h \in DOMAIN story[o] : story[o][h] = story[o][i] => h = i

(* From the transactions of the store, through claims, lost leases, crashes  *)
(* and late arrivals, to the sink's first acceptance of each key             *)
(* (insertOutbox, ClaimOutbox, State.handle).                                *)
THEOREM HeardInTurn == GatewaySpec => []HearsInTurn
  <1>1. GatewayInv => HearsInTurn
    <2> SUFFICES ASSUME GatewayInv PROVE HearsInTurn
      OBVIOUS
    <2>1. StoryTypes /\ ToldOnce /\ ToldTried
      BY DEF GatewayInv, StoryOK
    <2>2. PICK X : X = Tried
      OBVIOUS
    <2>3. ToldPast(X)
      BY <2>1, <2>2 DEF ToldTried
    <2>4. ASSUME NEW o \in Orders, NEW i \in DOMAIN story[o]
          PROVE  LET e == Payload(story[o][i])
                 IN /\ e.planID = orders[o].planID
                    /\ \A s \in Before(o, e) : \E j \in EntriesOf(o) :
                          /\ Payload(j).seqID = s /\ Payload(j).planID = e.planID
                          /\ rows[j].attempts > 0 \/ \E h \in 1..(i - 1) : story[o][h] = j
                    /\ \A h \in DOMAIN story[o] : story[o][h] = story[o][i] => h = i
      <3>1. DOMAIN story[o] = 1..Len(story[o])
        <4>1. story[o] \in Seq(1..MaxRows)
          BY <2>1 DEF StoryTypes
        <4> QED
          BY <4>1, LenProperties
      <3>2. story[o][i] \in EntriesOf(o)
        BY <2>1, <3>1 DEF StoryTypes, EntriesOf, GatewayInv, TurnsInv, ShapeOK
      <3>3. Payload(story[o][i]).planID = orders[o].planID
        BY <3>2, PayloadOfEntry
      <3>4. ASSUME NEW s \in Before(o, Payload(story[o][i]))
            PROVE  \E j \in EntriesOf(o) :
                      /\ Payload(j).seqID = s /\ Payload(j).planID = orders[o].planID
                      /\ rows[j].attempts > 0 \/ \E h \in 1..(i - 1) : story[o][h] = j
        <4>1. PICK j \in EntriesOf(o) :
                 /\ Payload(j).seqID = s /\ Payload(j).planID = orders[o].planID
                 /\ j \in X \/ \E h \in 1..(i - 1) : story[o][h] = j
          BY <2>3, <3>1, BeforeIsTold
        <4> QED
          BY <2>2, <4>1 DEF Tried
      <3> QED
        BY <2>1, <3>1, <3>3, <3>4 DEF ToldOnce
    <2> QED
      BY <2>4 DEF HearsInTurn
  <1> QED
    BY <1>1, GatewayInvariant, PTL

LEMMA InvMeansHearsThePlan == OrderlyInv => HearsThePlan
  <1> SUFFICES ASSUME OrderlyInv, NEW o \in Orders, NEW i \in DOMAIN story[o],
                      ~rows[story[o][i]].dead
               PROVE  LET k == story[o][i]
                          e == Payload(k)
                          before == {Payload(story[o][j]) : j \in 1..(i - 1)}
                          dead == {Payload(j) : j \in {j \in DOMAIN rows :
                                                          rows[j].order = o /\ rows[j].dead}}
                      IN /\ e.planID = orders[o].planID
                         /\ \A s \in 1..(IF e.type = "ABORT_PLAN" THEN orders[o].lastSeq
                                                                  ELSE e.seqID - 1) :
                               \E f \in before \cup dead : f.seqID = s /\ f.planID = e.planID
                         /\ \A f \in before \ dead :
                               f.type # "ABORT_PLAN" /\ (f.seqID < e.seqID \/ e.seqID = 0)
    BY DEF HearsThePlan
  <1> DEFINE before == {Payload(story[o][j]) : j \in 1..(i - 1)}
             dead   == {Payload(j) : j \in {j \in DOMAIN rows : rows[j].order = o /\ rows[j].dead}}
             last   == orders[o].lastSeq
  <1>1. GatewayInv /\ ShapeOK /\ StoryTypes /\ ToldOnce /\ ToldAfter
    BY DEF OrderlyInv, GatewayInv, StoryOK, TurnsInv
  <1>2. DOMAIN story[o] = 1..Len(story[o]) /\ Len(story[o]) \in Nat
    <2>1. story[o] \in Seq(1..MaxRows)
      BY <1>1 DEF StoryTypes
    <2> QED
      BY <2>1, LenProperties
  <1>3. PICK k : k = story[o][i]
    OBVIOUS
  <1>4. PICK e : e = Payload(k)
    OBVIOUS
  <1>5. \A h \in 1..Len(story[o]) : story[o][h] \in EntriesOf(o)
    BY <1>1 DEF StoryTypes, EntriesOf, ShapeOK
  <1>6. /\ k \in EntriesOf(o) /\ Place(k) \in Nat /\ last \in Nat
        /\ e.planID = orders[o].planID
        /\ IF Place(k) <= last THEN e.seqID = Place(k) /\ e.type # AbortType
                               ELSE Place(k) = last + 1 /\ e.seqID = 0 /\ e.type = AbortType
    <2>1. k \in EntriesOf(o)
      BY <1>2, <1>3, <1>5
    <2> QED
      BY <1>1, <1>4, <2>1, PayloadOfEntry
  <1>7. \A j \in EntriesOf(o) : j \in Nat /\ j >= 1 /\ j \in DOMAIN rows /\ rows[j].order = o
    <2>1. Len(rows) \in Nat /\ DOMAIN rows = 1..Len(rows)
      BY <1>1, AnyRowTypes
    <2> QED
      BY <2>1 DEF EntriesOf
  <1>8. ASSUME NEW j \in EntriesOf(o), Place(j) < Place(k)
        PROVE  /\ Payload(j).seqID = Place(j) /\ Payload(j).planID = orders[o].planID
               /\ Payload(j).type # AbortType /\ Place(j) \in Nat
    BY <1>1, <1>6, <1>8, PayloadBefore
  <1>9. ASSUME NEW s \in 1..(IF e.type = "ABORT_PLAN" THEN last ELSE e.seqID - 1)
        PROVE  \E f \in before \cup dead : f.seqID = s /\ f.planID = e.planID
    <2>1. PICK X : X = Dead
      OBVIOUS
    <2>2. ToldPast(X)
      BY <1>1, <2>1 DEF ToldAfter
    <2>3. s \in Before(o, Payload(story[o][i])) /\ i \in 1..Len(story[o])
      BY <1>2, <1>3, <1>4 DEF Before
    <2>4. PICK j \in EntriesOf(o) : /\ Payload(j).seqID = s /\ Payload(j).planID = orders[o].planID
                                    /\ j \in X \/ \E h \in 1..(i - 1) : story[o][h] = j
      BY <1>1, <2>2, <2>3, BeforeIsTold
    <2>5. Payload(j) \in before \cup dead
      BY <1>7, <2>1, <2>4 DEF Dead
    <2> QED
      BY <1>6, <2>4, <2>5
  <1>10. ASSUME NEW f \in before \ dead
         PROVE  f.type # "ABORT_PLAN" /\ (f.seqID < e.seqID \/ e.seqID = 0)
    <2>1. PICK h \in 1..(i - 1) : f = Payload(story[o][h])
      OBVIOUS
    <2>2. PICK j : j = story[o][h]
      OBVIOUS
    <2>3. h \in 1..Len(story[o]) /\ h # i /\ h \in Nat /\ i \in Nat /\ h < i
      BY <1>2, <2>1
    <2>4. j \in EntriesOf(o) /\ j \in Nat /\ k \in Nat /\ k >= 1 /\ ~rows[k].dead
      BY <1>3, <1>5, <1>6, <1>7, <2>2, <2>3
    <2>5. j # k
      BY <1>1, <1>2, <1>3, <2>2, <2>3 DEF ToldOnce
    <2>6. ~(k < j)
      <3> SUFFICES ASSUME k < j PROVE FALSE
        OBVIOUS
      <3>1. k \in 1..(story[o][h] - 1) /\ rows[k].order = o
        BY <1>6, <1>7, <2>2, <2>4
      <3>2. PICK g \in 1..(h - 1) : story[o][g] = k
        BY <1>1, <2>3, <2>4, <3>1, SMTT(30) DEF ToldAfter, ToldPast, Dead
      <3>3. g \in 1..Len(story[o]) /\ g # i
        BY <1>2, <2>3, <3>2
      <3> QED
        BY <1>1, <1>2, <1>3, <3>2, <3>3 DEF ToldOnce
    <2>7. Place(j) < Place(k)
      BY <1>1, <1>6, <1>7, <2>4, <2>5, <2>6, PlacesAscend
    <2>8. f.seqID = Place(j) /\ f.type # AbortType /\ Place(j) \in Nat
      BY <1>8, <2>1, <2>2, <2>4, <2>7
    <2> QED
      BY <1>6, <2>7, <2>8 DEF AbortType
  <1> QED
    BY <1>3, <1>4, <1>6, <1>9, <1>10

(* What the receiver hears of an order, duplicates aside, is its plan: from  *)
(* the transactions of the store (insertOutbox), through claims, retries,    *)
(* crashes and late arrivals, to the sink's first acceptance of each key,    *)
(* the events 1, 2, 3, ... of one plan and its abort at the end, in this     *)
(* order and without a gap, dead letters excepted, as long as no lease ends  *)
(* before its holder is through.                                             *)
THEOREM ReceiverHearsThePlan == GatewaySpec /\ []LeaseCovers => []HearsThePlan
  BY InvMeansHearsThePlan, OrderlyRuns, PTL
=============================================================================
