-------------------------- MODULE DispatcherProofs --------------------------
(***************************************************************************)
(* Theorems about Dispatcher, for any number of processes, slots, entries, *)
(* attempts and faults and for any settings.  That one process alone has   *)
(* an entry, that outcomes are final and earned, and that the receiver     *)
(* gets the entries of an order in order, holds of the runs in which no    *)
(* lease ends before its holder is through: the premise []LeaseCovers.     *)
(* Nothing in the code ensures it, and the run dispatcher_zombie shows     *)
(* what happens without it.  The types and TurnsAreTaken hold of every     *)
(* run.  BatchFits is a sizing that makes the premise true: the inductive  *)
(* invariant of that part, Rounds, ties the time that a batch has taken,   *)
(* which the lease of its entries tells, to how many of its entries have   *)
(* had their turn.                                                         *)
(***************************************************************************)
EXTENDS Dispatcher, FiniteSetTheorems, SequenceTheorems, TLAPS

(* The ticks that a slot can be taken by one entry. *)
Duration == IF RequestLimit > Bookkeeping THEN RequestLimit ELSE Bookkeeping + 1

(* So many rounds as a batch needs, of that duration each, fit in a lease. *)
BatchFits == \E m \in Nat : m * Slots >= BatchSize /\ m * Duration < Lease

Entry == [order : Aggregates, processed : BOOLEAN, dead : BOOLEAN,
          attempts : 0..MaxAttempts, due : BOOLEAN, lease : 0..Lease]

Task == [stage : {"none", "waiting", "sending", "received", "answered"}, age : 0..Duration,
         answer : {"none", "ok", "retry", "reject", "error", "skipped"},
         attempts : 0..MaxAttempts, fresh : BOOLEAN]

TablesOK ==
    /\ rows \in Seq(Entry) /\ Len(rows) <= MaxRows
    /\ mode \in [Procs -> {"running", "stopping", "down"}]
    /\ breaker \in [Procs -> Breaker]
    /\ task \in [Procs -> [1..MaxRows -> Task]]
    /\ accepted \subseteq DOMAIN rows /\ wire \subseteq DOMAIN rows

(* An entry that is not done has an attempt left; one is marked as delivered *)
(* because the receiver has accepted it.                                     *)
RowsOK ==
    \A k \in DOMAIN rows : /\ Pending(k) => rows[k].attempts < MaxAttempts
                           /\ rows[k].processed => k \in accepted

EarlierDone(k) == \A j \in 1..(k - 1) : rows[j].order = rows[k].order => Done(j)

(* The entries that d has claimed and is not through with. *)
Held(d) == {k \in 1..MaxRows : task[d][k].stage # "none"}

(* What d believes of an entry that it holds is true, and its lease runs.    *)
TaskOK(d, k) ==
    /\ k \in DOMAIN rows /\ Up(d)
    /\ Pending(k) /\ rows[k].lease > 0 /\ EarlierDone(k)
    /\ task[d][k].attempts = rows[k].attempts
    /\ task[d][k].answer = "ok" => k \in accepted
    /\ task[d][k].stage = "waiting" => task[d][k].age = 0
    /\ Sending(task[d][k]) => task[d][k].age <= RequestLimit

TasksOK == \A d \in Procs : \A k \in Held(d) : TaskOK(d, k)

Alone == \A c, d \in Procs : c # d => Held(c) \cap Held(d) = {}

WireOK == \A k \in wire : EarlierDone(k)

(* The ticks since entry k was claimed. *)
Elapsed(k) == Lease - rows[k].lease

(* The entries d holds that had not begun when round i, counted from 0, was  *)
(* one tick old; Duration is added so that no number is negative.            *)
Late(d, i) == {k \in Held(d) :
                  \/ task[d][k].stage = "waiting"
                  \/ Elapsed(k) - task[d][k].age + Duration > i * Duration}

OneLease == \A d \in Procs : \A j, k \in Held(d) : rows[j].lease = rows[k].lease

(* Every round lets Slots entries of a batch begin, or all that are left.    *)
RoundsOK ==
    \A d \in Procs : \A k \in Held(d) : \A i \in Nat :
       Elapsed(k) + Duration > i * Duration =>
          Late(d, i) = {} \/ Cardinality(Late(d, i)) + i * Slots <= BatchSize

DispatchInv == TablesOK /\ RowsOK /\ TasksOK /\ Alone /\ WireOK

Rounds == OneLease /\ RoundsOK

-----------------------------------------------------------------------------
(* What the constants are. *)
LEMMA Sizes ==
    /\ Slots \in Nat /\ Slots >= 1 /\ BatchSize \in Nat /\ BatchSize >= 1
    /\ MaxAttempts \in Nat /\ MaxAttempts >= 1 /\ Lease \in Nat /\ Lease >= 1
    /\ RequestTimeout \in Nat /\ Bookkeeping \in Nat /\ Bookkeeping >= 1
    /\ MaxRows \in Nat
    /\ RequestLimit \in Nat /\ Duration \in Nat
    /\ RequestLimit <= Duration /\ Bookkeeping + 1 <= Duration
  <1>1. /\ Slots \in Nat /\ Slots >= 1 /\ BatchSize \in Nat /\ BatchSize >= 1
        /\ MaxAttempts \in Nat /\ MaxAttempts >= 1 /\ Lease \in Nat /\ Lease >= 1
        /\ RequestTimeout \in Nat /\ Bookkeeping \in Nat /\ Bookkeeping >= 1
        /\ MaxRows \in Nat
    BY SizesAssumption, BoundsAssumption
  <1>2. RequestLimit \in Nat
    BY <1>1 DEF RequestLimit
  <1> QED
    BY <1>1, <1>2 DEF Duration

(* A function on an initial segment of the positions is a sequence. *)
LEMMA TableIsSeq ==
    ASSUME NEW S, NEW n \in Nat, NEW f \in [1..n -> S]
    PROVE  f \in Seq(S) /\ Len(f) = n /\ DOMAIN f = 1..n
  <1>1. f \in Seq(S)
    BY SeqDef
  <1>2. DOMAIN f = 1..n
    OBVIOUS
  <1>3. Len(f) \in Nat /\ DOMAIN f = 1..Len(f)
    BY <1>1, LenProperties
  <1> QED
    BY <1>1, <1>2, <1>3

(* The table as a function of the position. *)
LEMMA RowTypes ==
    ASSUME TablesOK
    PROVE  /\ Len(rows) \in Nat /\ DOMAIN rows = 1..Len(rows) /\ rows \in [1..Len(rows) -> Entry]
           /\ DOMAIN rows \subseteq 1..MaxRows
           /\ \A k \in DOMAIN rows :
                 /\ rows[k] \in Entry /\ rows[k].lease \in 0..Lease
                 /\ rows[k].attempts \in 0..MaxAttempts
                 /\ rows[k].processed \in BOOLEAN /\ rows[k].dead \in BOOLEAN
  <1>1. Len(rows) \in Nat /\ DOMAIN rows = 1..Len(rows) /\ rows \in [1..Len(rows) -> Entry]
    BY LenProperties DEF TablesOK
  <1>2. DOMAIN rows \subseteq 1..MaxRows
    BY <1>1, Sizes DEF TablesOK
  <1>3. ASSUME NEW k \in DOMAIN rows
        PROVE  /\ rows[k] \in Entry /\ rows[k].lease \in 0..Lease
               /\ rows[k].attempts \in 0..MaxAttempts
               /\ rows[k].processed \in BOOLEAN /\ rows[k].dead \in BOOLEAN
    <2>1. rows[k] \in Entry
      BY <1>1
    <2> QED
      BY <2>1 DEF Entry
  <1> QED
    BY <1>1, <1>2, <1>3

(* What the breaker becomes is a breaker. *)
LEMMA BreakerTypes ==
    ASSUME NEW b \in Breaker
    PROVE  /\ Succeed(b) \in Breaker /\ Fail(b) \in Breaker
           /\ Admits(b) => Admit(b) \in Breaker
           /\ Circuit("closed") \in Breaker /\ Circuit("half-open") \in Breaker
  <1>1. /\ FailureThreshold \in Nat /\ FailureThreshold >= 1
        /\ SuccessThreshold \in Nat /\ SuccessThreshold >= 1
    BY ThresholdsAssumption
  <1>2. \A state \in {"closed", "open", "half-open"} : Circuit(state) \in Breaker
    BY <1>1 DEF Circuit, Breaker
  <1>3. Admits(b) => Admit(b) \in Breaker
    BY <1>1 DEF Admits, Admit, Breaker
  <1>4. Fail(b) \in Breaker
    BY <1>1, <1>2 DEF Fail, Breaker
  <1>5. Succeed(b) \in Breaker
    BY <1>1, <1>2 DEF Succeed, Breaker
  <1> QED
    BY <1>2, <1>3, <1>4, <1>5

-----------------------------------------------------------------------------
(* Counting. *)

(* Sets of positions are finite. *)
LEMMA PositionsFinite ==
    ASSUME NEW S \in SUBSET (1..MaxRows)
    PROVE  IsFiniteSet(S) /\ Cardinality(S) \in Nat
  <1>1. IsFiniteSet(1..MaxRows)
    BY FS_Interval, Sizes
  <1>2. IsFiniteSet(S)
    BY <1>1, FS_Subset
  <1> QED
    BY <1>2, FS_CardinalityType

LEMMA FewerPositions ==
    ASSUME NEW S \in SUBSET (1..MaxRows), NEW T \in SUBSET S
    PROVE  /\ Cardinality(T) \in Nat /\ Cardinality(S) \in Nat /\ Cardinality(T) <= Cardinality(S)
           /\ Cardinality(S) = 0 => S = {}
  <1>1. IsFiniteSet(S) /\ Cardinality(S) \in Nat
    BY PositionsFinite
  <1>2. T \in SUBSET (1..MaxRows)
    OBVIOUS
  <1>3. Cardinality(T) \in Nat
    BY <1>2, PositionsFinite
  <1> QED
    BY <1>1, <1>3, FS_Subset, FS_EmptySet

(* A claim takes no more than a batch: no two of its entries have as many    *)
(* eligible ones before them.                                                *)
LEMMA ClaimIsABatch ==
    ASSUME TablesOK
    PROVE  Claimed \in SUBSET (1..MaxRows) /\ Cardinality(Claimed) <= BatchSize
  <1> DEFINE Before(k) == {j \in Eligible : j < k}
             f == [k \in Claimed |-> Cardinality(Before(k))]
  <1>1. Eligible \in SUBSET (1..MaxRows) /\ Claimed \in SUBSET (1..MaxRows)
        /\ Claimed \in SUBSET Eligible
    BY RowTypes DEF Eligible, Claimed
  <1>2. ASSUME NEW k \in Claimed
        PROVE  Before(k) \in SUBSET (1..MaxRows) /\ f[k] = Cardinality(Before(k)) /\ f[k] \in 0..(BatchSize - 1)
    <2>1. Before(k) \in SUBSET (1..MaxRows)
      BY <1>1
    <2>2. Cardinality(Before(k)) \in Nat
      BY <2>1, PositionsFinite
    <2>3. Cardinality(Before(k)) < BatchSize
      BY DEF Claimed
    <2> QED
      BY <2>1, <2>2, <2>3, Sizes
  <1>3. ASSUME NEW x \in Claimed, NEW y \in Claimed, x < y
        PROVE  f[x] # f[y]
    <2>0. x \in Eligible /\ y \in Eligible /\ \A j \in Eligible : j \in Int
      BY <1>1, Sizes
    <2>1. x \in Before(y) \ Before(x) /\ Before(x) \in SUBSET Before(y)
      BY <1>3, <2>0
    <2>2. Before(x) # Before(y)
      BY <2>1
    <2>3. IsFiniteSet(Before(y))
      BY <1>2, PositionsFinite
    <2>4. Cardinality(Before(x)) # Cardinality(Before(y))
      BY <2>1, <2>2, <2>3, FS_Subset
    <2> QED
      BY <1>2, <2>4
  <1>4. f \in [Claimed -> 0..(BatchSize - 1)]
    BY <1>2
  <1>5. IsFiniteSet(0..(BatchSize - 1)) /\ Cardinality(0..(BatchSize - 1)) = BatchSize
    BY FS_Interval, Sizes
  <1>6. IsFiniteSet(Claimed) /\ Cardinality(Claimed) \in Nat
    BY <1>1, PositionsFinite
  <1>7. \A x, y \in Claimed : x # y => f[x] # f[y]
    <2>1. \A x, y \in Claimed : x # y => x < y \/ y < x
      BY <1>1
    <2> QED
      BY <1>3, <2>1
  <1> HIDE DEF f
  <1>8. ~ (Cardinality(0..(BatchSize - 1)) < Cardinality(Claimed))
    BY <1>4, <1>5, <1>6, <1>7, FS_PigeonHole
  <1> QED
    BY <1>1, <1>5, <1>6, <1>8, Sizes

-----------------------------------------------------------------------------
(* Most steps begin no batch and are no tick. *)

(* What d has in hand of entry k after a step, it had in hand before. *)
Follows(d, k) ==
    /\ task[d][k].stage # "none"
    /\ task'[d][k].age = task[d][k].age /\ task'[d][k].attempts = task[d][k].attempts
    /\ task'[d][k].answer = "ok" => task[d][k].answer = "ok" \/ k \in accepted'
    /\ task'[d][k].stage = "waiting" => task[d][k].stage = "waiting"
    /\ task'[d][k].stage \in {"sending", "received"} =>
          task[d][k].stage \in {"waiting", "sending", "received"}

(* A step that claims nothing, takes no time, and changes no entry in the    *)
(* hands of somebody who has it in hand afterwards, except that it is due.   *)
Quiet ==
    /\ \A k \in DOMAIN rows : /\ k \in DOMAIN rows' /\ rows'[k].order = rows[k].order
                              /\ Done(k) => rows'[k].processed \/ rows'[k].dead
    /\ accepted \subseteq accepted'
    /\ \A d \in Procs, k \in 1..MaxRows : task'[d][k].stage # "none" =>
          /\ Follows(d, k) /\ mode'[d] \in {"running", "stopping"}
          /\ rows'[k].lease = rows[k].lease /\ rows'[k].attempts = rows[k].attempts
          /\ rows'[k].processed = rows[k].processed /\ rows'[k].dead = rows[k].dead
    /\ \A k \in wire' : k \in wire \/ \E d \in Procs : k \in Held(d)

(* The earlier entries of an aggregate stay done. *)
LEMMA EarlierStaysDone ==
    ASSUME TablesOK, NEW k \in DOMAIN rows, EarlierDone(k),
           \A j \in DOMAIN rows : /\ rows'[j].order = rows[j].order
                                  /\ Done(j) => rows'[j].processed \/ rows'[j].dead
    PROVE  EarlierDone(k)'
  <1>1. ASSUME NEW j \in 1..(k - 1), rows'[j].order = rows'[k].order
        PROVE  rows'[j].processed \/ rows'[j].dead
    <2>1. j \in DOMAIN rows
      BY RowTypes
    <2> QED
      BY <1>1, <2>1 DEF EarlierDone
  <1> QED
    BY <1>1 DEF EarlierDone, Done

(* A step keeps the invariant, and the rounds where they are kept so far. *)
KeepsInv == DispatchInv' /\ (Rounds => Rounds')

LEMMA QuietKeepsInv ==
    ASSUME DispatchInv, Quiet, TablesOK', RowsOK'
    PROVE  KeepsInv
  <1>1. TablesOK /\ TasksOK /\ Alone /\ WireOK
    BY DEF DispatchInv
  <1>2. ASSUME NEW d \in Procs, NEW k \in Held(d)'
        PROVE  /\ k \in 1..MaxRows /\ k \in Held(d) /\ TaskOK(d, k) /\ k \in DOMAIN rows'
               /\ Follows(d, k) /\ mode'[d] \in {"running", "stopping"}
               /\ rows'[k].lease = rows[k].lease /\ rows'[k].attempts = rows[k].attempts
               /\ rows'[k].processed = rows[k].processed /\ rows'[k].dead = rows[k].dead
    <2>1. k \in 1..MaxRows /\ task'[d][k].stage # "none"
      BY DEF Held
    <2>2. Follows(d, k) /\ k \in Held(d)
      BY <2>1 DEF Quiet, Follows, Held
    <2>3. TaskOK(d, k) /\ k \in DOMAIN rows'
      BY <1>1, <2>2 DEF TasksOK, TaskOK, Quiet
    <2> QED
      BY <2>1, <2>2, <2>3 DEF Quiet
  <1>3. \A k \in DOMAIN rows : EarlierDone(k) => EarlierDone(k)'
    BY <1>1, EarlierStaysDone DEF Quiet
  <1>4. TasksOK'
    <2>1. ASSUME NEW d \in Procs, NEW k \in Held(d)' PROVE TaskOK(d, k)'
      <3>1. k \in DOMAIN rows' /\ mode'[d] \in {"running", "stopping"}
        BY <1>2
      <3>2. ~rows'[k].processed /\ ~rows'[k].dead /\ rows'[k].lease > 0
        BY <1>2 DEF TaskOK, Pending
      <3>3. EarlierDone(k)'
        BY <1>2, <1>3 DEF TaskOK
      <3>4. task'[d][k].attempts = rows'[k].attempts
        BY <1>2 DEF TaskOK, Follows
      <3>5. task'[d][k].answer = "ok" => k \in accepted'
        BY <1>2 DEF TaskOK, Follows, Quiet
      <3>6. task'[d][k].stage = "waiting" => task'[d][k].age = 0
        BY <1>2 DEF TaskOK, Follows
      <3>7. task'[d][k].stage \in {"sending", "received"} => task'[d][k].age <= RequestLimit
        BY <1>2, Sizes DEF TaskOK, Follows, Sending
      <3> QED
        BY <3>1, <3>2, <3>3, <3>4, <3>5, <3>6, <3>7 DEF TaskOK, Up, Pending, Sending
    <2> QED
      BY <2>1 DEF TasksOK
  <1>5. Alone'
    BY <1>1, <1>2 DEF Alone
  <1>6. WireOK'
    <2>1. ASSUME NEW k \in wire' PROVE k \in DOMAIN rows /\ EarlierDone(k)
      <3>1. CASE k \in wire
        BY <1>1, <3>1 DEF TablesOK, WireOK
      <3>2. CASE \E d \in Procs : k \in Held(d)
        BY <1>1, <3>2 DEF TasksOK, TaskOK
      <3> QED
        BY <3>1, <3>2 DEF Quiet
    <2> QED
      BY <1>3, <2>1 DEF WireOK
  <1>7. ASSUME Rounds PROVE OneLease'
    BY <1>2, <1>7 DEF Rounds, OneLease
  <1>8. ASSUME Rounds PROVE RoundsOK'
    <2>1. ASSUME NEW d \in Procs, NEW k \in Held(d)', NEW i \in Nat,
                 (Elapsed(k) + Duration > i * Duration)'
          PROVE  (Late(d, i) = {} \/ Cardinality(Late(d, i)) + i * Slots <= BatchSize)'
      <3>1. Elapsed(k) + Duration > i * Duration /\ k \in Held(d)
        BY <1>2, <2>1 DEF Elapsed
      <3>2. Late(d, i)' \subseteq Late(d, i)
        <4>1. ASSUME NEW j \in Late(d, i)' PROVE j \in Late(d, i)
          <5>1. j \in Held(d)'
            BY DEF Late
          <5>2. CASE task'[d][j].stage = "waiting"
            BY <1>2, <5>1, <5>2 DEF Late, Follows
          <5>3. CASE (Elapsed(j) - task[d][j].age + Duration > i * Duration)'
            BY <1>2, <5>1, <5>3 DEF Late, Follows, Elapsed
          <5> QED
            BY <5>2, <5>3 DEF Late
        <4> QED
          BY <4>1
      <3>3. Late(d, i) = {} \/ Cardinality(Late(d, i)) + i * Slots <= BatchSize
        BY <1>8, <3>1 DEF Rounds, RoundsOK
      <3>4. Late(d, i) \in SUBSET (1..MaxRows)
        BY DEF Late, Held
      <3>5. Cardinality(Late(d, i)') \in Nat /\ Cardinality(Late(d, i)) \in Nat
            /\ Cardinality(Late(d, i)') <= Cardinality(Late(d, i))
        BY <3>2, <3>4, FewerPositions
      <3>6. i * Slots \in Nat
        BY Sizes
      <3>7. CASE Late(d, i) = {}
        BY <3>2, <3>7
      <3>8. CASE Cardinality(Late(d, i)) + i * Slots <= BatchSize
        BY <3>5, <3>6, <3>8, Sizes
      <3> QED
        BY <3>3, <3>7, <3>8
    <2> QED
      BY <2>1 DEF RoundsOK
  <1> QED
    BY <1>4, <1>5, <1>6, <1>7, <1>8 DEF DispatchInv, Rounds, KeepsInv

-----------------------------------------------------------------------------
(* deliver: the steps of one entry. *)

(* Of all other entries in hand only the breaker's interest may change. *)
OthersStay(d, k) ==
    \A c \in Procs, j \in 1..MaxRows : c # d \/ j # k =>
       /\ task'[c][j].stage = task[c][j].stage /\ task'[c][j].age = task[c][j].age
       /\ task'[c][j].answer = task[c][j].answer /\ task'[c][j].attempts = task[c][j].attempts

LEMMA HandlingKeepsInv ==
    ASSUME DispatchInv, NEW d \in Procs, NEW k \in 1..MaxRows, task[d][k].stage # "none",
           rows' = rows, mode' = mode, TablesOK', accepted \subseteq accepted',
           Follows(d, k), OthersStay(d, k), \A j \in wire' : j \in wire \/ j = k
    PROVE  KeepsInv
  <1>1. RowsOK'
    BY DEF DispatchInv, RowsOK, Pending
  <1>2. ASSUME NEW c \in Procs, NEW j \in 1..MaxRows, task'[c][j].stage # "none"
        PROVE  Follows(c, j) /\ mode'[c] \in {"running", "stopping"}
    <2>1. Follows(c, j) /\ task[c][j].stage # "none"
      BY <1>2 DEF Follows, OthersStay
    <2>2. TaskOK(c, j)
      BY <2>1 DEF DispatchInv, TasksOK, Held
    <2> QED
      BY <2>1, <2>2 DEF TaskOK, Up
  <1>3. k \in Held(d)
    BY DEF Held
  <1>4. Quiet
    BY <1>2, <1>3 DEF Quiet, Done
  <1> QED
    BY <1>1, <1>4, QuietKeepsInv

(* What is in hand, by its type. *)
LEMMA TaskTypes ==
    ASSUME TablesOK, NEW d \in Procs, NEW k \in 1..MaxRows
    PROVE  /\ task[d] \in [1..MaxRows -> Task] /\ task[d][k] \in Task /\ breaker[d] \in Breaker
           /\ task[d][k].stage \in {"none", "waiting", "sending", "received", "answered"}
           /\ task[d][k].age \in 0..Duration /\ task[d][k].attempts \in 0..MaxAttempts
           /\ task[d][k].answer \in {"none", "ok", "retry", "reject", "error", "skipped"}
           /\ task[d][k].fresh \in BOOLEAN
  BY ZenonT(30) DEF TablesOK, Task

(* What deliver changes of it. *)
Unheard(t)               == [t EXCEPT !.fresh = FALSE]
Begun(t)                 == [t EXCEPT !.stage = "sending", !.fresh = TRUE]
Advanced(t, stage, answer) == [t EXCEPT !.stage = stage, !.answer = answer]
Settled(t, answer)       == [t EXCEPT !.stage = "answered", !.answer = answer, !.fresh = FALSE]

LEMMA UnheardTypes ==
    ASSUME NEW t \in Task
    PROVE  /\ Unheard(t) \in Task /\ Unheard(t).stage = t.stage /\ Unheard(t).age = t.age
           /\ Unheard(t).answer = t.answer /\ Unheard(t).attempts = t.attempts
  BY DEF Task, Unheard

LEMMA BegunTypes ==
    ASSUME NEW t \in Task
    PROVE  /\ Begun(t) \in Task /\ Begun(t).stage = "sending" /\ Begun(t).age = t.age
           /\ Begun(t).answer = t.answer /\ Begun(t).attempts = t.attempts
  BY DEF Task, Begun

LEMMA AdvancedTypes ==
    ASSUME NEW t \in Task, NEW stage \in {"received", "answered"},
           NEW answer \in {"none", "ok", "retry", "reject", "error", "skipped"}
    PROVE  LET u == Advanced(t, stage, answer) IN
           /\ u \in Task /\ u.stage = stage /\ u.age = t.age
           /\ u.answer = answer /\ u.attempts = t.attempts
  BY DEF Task, Advanced

LEMMA SettledTypes ==
    ASSUME NEW t \in Task, NEW answer \in {"none", "ok", "retry", "reject", "error", "skipped"}
    PROVE  LET u == Settled(t, answer) IN
           /\ u \in Task /\ u.stage = "answered" /\ u.age = t.age
           /\ u.answer = answer /\ u.attempts = t.attempts
  BY DEF Task, Settled

(* One entry in hand changes. *)
LEMMA OneTaskChanges ==
    ASSUME TablesOK, NEW d \in Procs, NEW k \in 1..MaxRows, NEW t \in Task,
           task' = [task EXCEPT ![d] = [task[d] EXCEPT ![k] = t]]
    PROVE  /\ task' \in [Procs -> [1..MaxRows -> Task]] /\ task'[d][k] = t /\ OthersStay(d, k)
  <1>1. task \in [Procs -> [1..MaxRows -> Task]]
    BY DEF TablesOK
  <1>2. [task[d] EXCEPT ![k] = t] \in [1..MaxRows -> Task]
    BY <1>1
  <1>3. task' \in [Procs -> [1..MaxRows -> Task]]
    BY <1>1, <1>2
  <1>4. task'[d] = [task[d] EXCEPT ![k] = t] /\ \A c \in Procs : c # d => task'[c] = task[c]
    BY <1>1
  <1>5. task'[d][k] = t /\ \A j \in 1..MaxRows : j # k => task'[d][j] = task[d][j]
    BY <1>1, <1>4
  <1> QED
    BY <1>3, <1>4, <1>5 DEF OthersStay

LEMMA SendKeepsInv ==
    ASSUME DispatchInv, NEW d \in Procs, NEW k \in 1..MaxRows, Send(d, k)
    PROVE  KeepsInv
  <1> DEFINE t == Begun(task[d][k])
  <1>1. TablesOK
    BY DEF DispatchInv
  <1>2. task[d][k].stage = "waiting" /\ Admits(breaker[d])
    BY DEF Send, CanStart
  <1>3. t \in Task
    BY <1>1, TaskTypes, BegunTypes
  <1>4. task' = [task EXCEPT ![d] = [task[d] EXCEPT ![k] = t]]
    BY <1>1, TaskTypes DEF Send, TablesOK, Begun
  <1>5. t.stage = "sending" /\ t.age = task[d][k].age /\ t.answer = task[d][k].answer
        /\ t.attempts = task[d][k].attempts
    BY <1>1, TaskTypes, BegunTypes
  <1> HIDE DEF t
  <1>6. task' \in [Procs -> [1..MaxRows -> Task]] /\ task'[d][k] = t /\ OthersStay(d, k)
    BY <1>1, <1>3, <1>4, OneTaskChanges
  <1>7. breaker' \in [Procs -> Breaker]
    BY <1>1, <1>2, TaskTypes, BreakerTypes DEF Send, TablesOK
  <1>8. TablesOK'
    BY <1>1, <1>6, <1>7 DEF Send, TablesOK
  <1>9. Follows(d, k)
    BY <1>2, <1>5, <1>6 DEF Follows
  <1> QED
    BY <1>2, <1>6, <1>8, <1>9, HandlingKeepsInv DEF Send

LEMMA SkipKeepsInv ==
    ASSUME DispatchInv, NEW d \in Procs, NEW k \in 1..MaxRows, Skip(d, k)
    PROVE  KeepsInv
  <1> DEFINE t == Advanced(task[d][k], "answered", "skipped")
  <1>1. TablesOK
    BY DEF DispatchInv
  <1>2. task[d][k].stage = "waiting"
    BY DEF Skip, CanStart
  <1>3. t \in Task
    BY <1>1, TaskTypes, AdvancedTypes
  <1>4. task' = [task EXCEPT ![d] = [task[d] EXCEPT ![k] = t]]
    BY <1>1, TaskTypes DEF Skip, TablesOK, Advanced
  <1>5. t.stage = "answered" /\ t.age = task[d][k].age /\ t.answer = "skipped"
        /\ t.attempts = task[d][k].attempts
    BY <1>1, TaskTypes, AdvancedTypes
  <1> HIDE DEF t
  <1>6. task' \in [Procs -> [1..MaxRows -> Task]] /\ task'[d][k] = t /\ OthersStay(d, k)
    BY <1>1, <1>3, <1>4, OneTaskChanges
  <1>7. TablesOK'
    BY <1>1, <1>6 DEF Skip, TablesOK
  <1>8. Follows(d, k)
    BY <1>2, <1>5, <1>6 DEF Follows
  <1> QED
    BY <1>2, <1>6, <1>7, <1>8, HandlingKeepsInv DEF Skip

LEMMA ReceiveKeepsInv ==
    ASSUME DispatchInv, NEW d \in Procs, NEW k \in 1..MaxRows, Receive(d, k)
    PROVE  KeepsInv
  <1>1. TablesOK
    BY DEF DispatchInv
  <1>2. task[d][k].stage = "sending" /\ k \in Held(d)
    BY DEF Receive, Held
  <1>3. PICK verdict \in {"ok", "retry", "reject"} :
          /\ task' = [task EXCEPT ![d][k].stage = "received", ![d][k].answer = verdict]
          /\ accepted' = IF verdict = "ok" THEN accepted \cup {k} ELSE accepted
    BY DEF Receive
  <1> DEFINE t == Advanced(task[d][k], "received", verdict)
  <1>4. t \in Task
    BY <1>1, TaskTypes, AdvancedTypes
  <1>5. task' = [task EXCEPT ![d] = [task[d] EXCEPT ![k] = t]]
    BY <1>1, <1>3, TaskTypes DEF TablesOK, Advanced
  <1>6. t.stage = "received" /\ t.age = task[d][k].age /\ t.answer = verdict
        /\ t.attempts = task[d][k].attempts
    BY <1>1, TaskTypes, AdvancedTypes
  <1> HIDE DEF t
  <1>7. task' \in [Procs -> [1..MaxRows -> Task]] /\ task'[d][k] = t /\ OthersStay(d, k)
    BY <1>1, <1>4, <1>5, OneTaskChanges
  <1>8. k \in DOMAIN rows
    BY <1>2 DEF DispatchInv, TasksOK, TaskOK
  <1>9. accepted \subseteq accepted' /\ accepted' \subseteq DOMAIN rows /\ wire' \subseteq wire
    BY <1>1, <1>3, <1>8 DEF TablesOK, Receive
  <1>10. TablesOK'
    BY <1>1, <1>7, <1>9 DEF Receive, TablesOK
  <1>11. Follows(d, k)
    BY <1>2, <1>3, <1>6, <1>7 DEF Follows
  <1> QED
    BY <1>2, <1>7, <1>9, <1>10, <1>11, HandlingKeepsInv DEF Receive

(* An entry ends with this, and the requests under way may become stale. *)
Ends(d, k, t, stale) ==
    task' = [task EXCEPT ![d] =
       [j \in 1..MaxRows |-> IF j = k THEN t
                             ELSE IF stale THEN [@[j] EXCEPT !.fresh = FALSE] ELSE @[j]]]

LEMMA EndsTypes ==
    ASSUME TablesOK, NEW d \in Procs, NEW k \in 1..MaxRows, NEW t \in Task,
           NEW stale \in BOOLEAN, Ends(d, k, t, stale)
    PROVE  task' \in [Procs -> [1..MaxRows -> Task]] /\ task'[d][k] = t /\ OthersStay(d, k)
  <1>1. PICK f : f = [j \in 1..MaxRows |-> IF j = k THEN t
                        ELSE IF stale THEN Unheard(task[d][j]) ELSE task[d][j]]
    OBVIOUS
  <1>2. task' = [task EXCEPT ![d] = f]
    BY <1>1 DEF Ends, TablesOK, Unheard
  <1>3. ASSUME NEW j \in 1..MaxRows, j # k
        PROVE  /\ f[j] \in Task /\ f[j].stage = task[d][j].stage /\ f[j].age = task[d][j].age
               /\ f[j].answer = task[d][j].answer /\ f[j].attempts = task[d][j].attempts
    <2>1. task[d][j] \in Task
      BY TaskTypes
    <2>2. f[j] = IF stale THEN Unheard(task[d][j]) ELSE task[d][j]
      BY <1>1, <1>3
    <2> QED
      BY <2>1, <2>2, UnheardTypes
  <1>4. f[k] = t /\ DOMAIN f = 1..MaxRows /\ f = [j \in DOMAIN f |-> f[j]]
    BY <1>1
  <1>5. f \in [1..MaxRows -> Task]
    BY <1>3, <1>4
  <1>6. task' \in [Procs -> [1..MaxRows -> Task]]
        /\ task'[d] = f /\ \A c \in Procs : c # d => task'[c] = task[c]
    BY <1>2, <1>5 DEF TablesOK
  <1> QED
    BY <1>3, <1>4, <1>6, ZenonT(30) DEF OthersStay

LEMMA EndOfTask ==
    ASSUME DispatchInv, NEW d \in Procs, NEW k \in 1..MaxRows, NEW b \in Breaker,
           NEW stale \in BOOLEAN, NEW t \in Task, task[d][k].stage # "none",
           t.stage = "answered", t.age = task[d][k].age, t.attempts = task[d][k].attempts,
           t.answer = "ok" => task[d][k].answer = "ok",
           breaker' = [breaker EXCEPT ![d] = b], Ends(d, k, t, stale),
           rows' = rows, mode' = mode, accepted' = accepted,
           \A j \in wire' : j \in wire \/ j = k
    PROVE  KeepsInv
  <1>1. TablesOK
    BY DEF DispatchInv
  <1>2. task' \in [Procs -> [1..MaxRows -> Task]] /\ task'[d][k] = t /\ OthersStay(d, k)
    BY <1>1, EndsTypes
  <1>3. breaker' \in [Procs -> Breaker]
    BY <1>1 DEF TablesOK
  <1>4. k \in DOMAIN rows
    BY DEF DispatchInv, TasksOK, TaskOK, Held
  <1>5. TablesOK'
    BY <1>1, <1>2, <1>3, <1>4 DEF TablesOK
  <1>6. Follows(d, k)
    BY <1>2 DEF Follows
  <1> QED
    BY <1>2, <1>5, <1>6, HandlingKeepsInv

(* Settle ends an entry: the breaker hears of it, or not. *)
LEMMA SettleEnds ==
    ASSUME TablesOK, NEW d \in Procs, NEW k \in 1..MaxRows,
           NEW answer \in {"none", "ok", "retry", "reject", "error", "skipped"}, Settle(d, k, answer)
    PROVE  \E b \in Breaker, stale \in BOOLEAN, t \in Task :
              /\ t.stage = "answered" /\ t.age = task[d][k].age
              /\ t.attempts = task[d][k].attempts /\ t.answer = answer
              /\ breaker' = [breaker EXCEPT ![d] = b] /\ Ends(d, k, t, stale)
  <1>1. PICK b : b = IF ~task[d][k].fresh THEN breaker[d]
                     ELSE IF Retryable(answer) THEN Fail(breaker[d]) ELSE Succeed(breaker[d])
    OBVIOUS
  <1>2. PICK t : t = Settled(task[d][k], answer)
    OBVIOUS
  <1>3. PICK stale \in BOOLEAN : stale = (b.state # breaker[d].state)
    OBVIOUS
  <1>4. b \in Breaker
    BY <1>1, TaskTypes, BreakerTypes
  <1>5. t \in Task /\ t.stage = "answered" /\ t.age = task[d][k].age
        /\ t.attempts = task[d][k].attempts /\ t.answer = answer
    BY <1>2, TaskTypes, SettledTypes
  <1>6. breaker' = [breaker EXCEPT ![d] = b]
    BY <1>1 DEF Settle
  <1>7. Ends(d, k, t, stale)
    BY <1>1, <1>2, <1>3 DEF Settle, Ends, TablesOK, Settled
  <1> QED
    BY <1>4, <1>5, <1>6, <1>7

LEMMA SendCancelledKeepsInv ==
    ASSUME DispatchInv, NEW d \in Procs, NEW k \in 1..MaxRows, SendCancelled(d, k)
    PROVE  KeepsInv
  <1>1. TablesOK
    BY DEF DispatchInv
  <1>2. task[d][k].stage = "waiting" /\ Admits(breaker[d])
    BY DEF SendCancelled, CanStart
  <1>3. PICK b : b = Fail(Admit(breaker[d]))
    OBVIOUS
  <1>4. PICK t : t = Advanced(task[d][k], "answered", "error")
    OBVIOUS
  <1>5. PICK stale \in BOOLEAN : stale = (b.state # breaker[d].state)
    OBVIOUS
  <1>6. Admit(breaker[d]) \in Breaker
    BY <1>1, <1>2, TaskTypes, BreakerTypes
  <1>7. b \in Breaker
    BY <1>3, <1>6, BreakerTypes
  <1>8. t \in Task /\ t.stage = "answered" /\ t.age = task[d][k].age
        /\ t.attempts = task[d][k].attempts /\ t.answer = "error"
    BY <1>1, <1>4, TaskTypes, AdvancedTypes
  <1>9. breaker' = [breaker EXCEPT ![d] = b]
    BY <1>3 DEF SendCancelled
  <1>10. Ends(d, k, t, stale)
    BY <1>1, <1>3, <1>4, <1>5 DEF SendCancelled, Ends, TablesOK, Advanced
  <1> QED
    BY <1>2, <1>7, <1>8, <1>9, <1>10, EndOfTask DEF SendCancelled

LEMMA RespondKeepsInv ==
    ASSUME DispatchInv, NEW d \in Procs, NEW k \in 1..MaxRows, Respond(d, k)
    PROVE  KeepsInv
  <1>1. TablesOK /\ task[d][k].stage = "received"
    BY DEF DispatchInv, Respond
  <1>2. PICK answer \in {"none", "ok", "retry", "reject", "error", "skipped"} :
           answer = task[d][k].answer
    BY <1>1, TaskTypes
  <1>3. Settle(d, k, answer)
    BY <1>2 DEF Respond
  <1>4. PICK b \in Breaker, stale \in BOOLEAN, t \in Task :
            /\ t.stage = "answered" /\ t.age = task[d][k].age
            /\ t.attempts = task[d][k].attempts /\ t.answer = answer
            /\ breaker' = [breaker EXCEPT ![d] = b] /\ Ends(d, k, t, stale)
    BY <1>1, <1>3, SettleEnds
  <1> QED
    BY <1>1, <1>2, <1>4, EndOfTask DEF Respond

LEMMA NoResponseKeepsInv ==
    ASSUME DispatchInv, NEW d \in Procs, NEW k \in 1..MaxRows, NoResponse(d, k)
    PROVE  KeepsInv
  <1>1. TablesOK /\ task[d][k].stage # "none" /\ Settle(d, k, "error")
    BY DEF DispatchInv, NoResponse, Sending
  <1>2. PICK b \in Breaker, stale \in BOOLEAN, t \in Task :
            /\ t.stage = "answered" /\ t.age = task[d][k].age
            /\ t.attempts = task[d][k].attempts /\ t.answer = "error"
            /\ breaker' = [breaker EXCEPT ![d] = b] /\ Ends(d, k, t, stale)
    BY <1>1, SettleEnds
  <1>3. \A j \in wire' : j \in wire \/ j = k
    BY DEF NoResponse
  <1> QED
    BY <1>1, <1>2, <1>3, EndOfTask DEF NoResponse

-----------------------------------------------------------------------------
(* What ends, stops or starts a process, and what it may find then. *)

(* No entry changes, and what is in hand afterwards is as it was before, but *)
(* for the breaker's interest.                                               *)
LEMMA RestKeepsInv ==
    ASSUME DispatchInv, TablesOK', rows' = rows, accepted \subseteq accepted',
           \A d \in Procs, k \in 1..MaxRows : task'[d][k].stage # "none" =>
              /\ mode'[d] \in {"running", "stopping"}
              /\ task'[d][k].stage = task[d][k].stage /\ task'[d][k].age = task[d][k].age
              /\ task'[d][k].answer = task[d][k].answer
              /\ task'[d][k].attempts = task[d][k].attempts,
           \A k \in wire' : k \in wire \/ \E d \in Procs : k \in Held(d)
    PROVE  KeepsInv
  <1>1. RowsOK'
    BY DEF DispatchInv, RowsOK, Pending
  <1>2. Quiet
    BY DEF Quiet, Follows, Done
  <1> QED
    BY <1>1, <1>2, QuietKeepsInv

LEMMA HoldersUp ==
    ASSUME DispatchInv, NEW d \in Procs, NEW k \in 1..MaxRows, task[d][k].stage # "none"
    PROVE  k \in Held(d) /\ TaskOK(d, k) /\ mode[d] \in {"running", "stopping"}
  BY DEF DispatchInv, TasksOK, TaskOK, Held, Up

LEMMA NoTaskTypes ==
    /\ NoTask \in Task /\ NoTask.stage = "none"
    /\ NoTasks \in [1..MaxRows -> Task] /\ \A k \in 1..MaxRows : NoTasks[k].stage = "none"
  <1>1. NoTask \in Task /\ NoTask.stage = "none"
    BY Sizes DEF NoTask, Task
  <1> QED
    BY <1>1 DEF NoTasks

LEMMA ArriveLateKeepsInv ==
    ASSUME DispatchInv, NEW k \in 1..MaxRows, ArriveLate(k)
    PROVE  KeepsInv
  <1>1. TablesOK' /\ accepted \subseteq accepted' /\ wire' \subseteq wire
    BY DEF DispatchInv, TablesOK, ArriveLate
  <1>2. \A d \in Procs, j \in 1..MaxRows : task[d][j].stage # "none" =>
           mode'[d] \in {"running", "stopping"}
    BY HoldersUp DEF ArriveLate
  <1> QED
    BY <1>1, <1>2, RestKeepsInv DEF ArriveLate

LEMMA RecordLostKeepsInv ==
    ASSUME DispatchInv, NEW d \in Procs, NEW k \in 1..MaxRows, RecordLost(d, k)
    PROVE  KeepsInv
  <1>1. TablesOK
    BY DEF DispatchInv
  <1>2. task' = [task EXCEPT ![d] = [task[d] EXCEPT ![k] = NoTask]]
    BY <1>1 DEF RecordLost, Forget, TablesOK
  <1>3. task' \in [Procs -> [1..MaxRows -> Task]] /\ task'[d][k] = NoTask /\ OthersStay(d, k)
    BY <1>1, <1>2, NoTaskTypes, OneTaskChanges
  <1>4. TablesOK'
    BY <1>1, <1>3 DEF TablesOK, RecordLost
  <1>5. \A c \in Procs, j \in 1..MaxRows : task'[c][j].stage # "none" =>
           /\ c # d \/ j # k
           /\ mode'[c] \in {"running", "stopping"}
    BY <1>3, NoTaskTypes, HoldersUp DEF RecordLost, OthersStay
  <1> QED
    BY <1>3, <1>4, <1>5, RestKeepsInv DEF RecordLost, OthersStay

LEMMA ShutdownKeepsInv ==
    ASSUME DispatchInv, NEW d \in Procs, Shutdown(d)
    PROVE  KeepsInv
  <1>1. TablesOK'
    BY DEF DispatchInv, TablesOK, Shutdown
  <1>2. \A c \in Procs, j \in 1..MaxRows : task[c][j].stage # "none" =>
           mode'[c] \in {"running", "stopping"}
    BY HoldersUp DEF Shutdown, DispatchInv, TablesOK
  <1> QED
    BY <1>1, <1>2, RestKeepsInv DEF Shutdown

LEMMA ExitKeepsInv ==
    ASSUME DispatchInv, NEW d \in Procs, Exit(d)
    PROVE  KeepsInv
  <1>1. TablesOK'
    BY DEF DispatchInv, TablesOK, Exit
  <1>2. \A c \in Procs, j \in 1..MaxRows : task[c][j].stage # "none" =>
           mode'[c] \in {"running", "stopping"}
    BY HoldersUp, NoTaskTypes DEF Exit, DispatchInv, TablesOK
  <1> QED
    BY <1>1, <1>2, RestKeepsInv DEF Exit

LEMMA CrashKeepsInv ==
    ASSUME DispatchInv, NEW d \in Procs, Crash(d)
    PROVE  KeepsInv
  <1>1. TablesOK
    BY DEF DispatchInv
  <1>2. \A k \in 1..MaxRows : task[d][k].stage = "sending" => k \in Held(d) /\ k \in DOMAIN rows
    BY HoldersUp DEF TaskOK
  <1>3. \A k \in wire' : k \in DOMAIN rows /\ (k \in wire \/ k \in Held(d))
    BY <1>1, <1>2 DEF Crash, TablesOK
  <1>4. task' \in [Procs -> [1..MaxRows -> Task]] /\ mode' \in [Procs -> {"running", "stopping", "down"}]
    BY <1>1, NoTaskTypes DEF Crash, TablesOK
  <1>5. TablesOK'
    BY <1>1, <1>3, <1>4 DEF Crash, TablesOK
  <1>6. ASSUME NEW c \in Procs, NEW j \in 1..MaxRows, task'[c][j].stage # "none"
        PROVE  c # d /\ task'[c] = task[c] /\ mode'[c] \in {"running", "stopping"}
    <2>1. c # d
      BY <1>1, <1>6, NoTaskTypes DEF Crash, TablesOK
    <2>2. task'[c] = task[c] /\ mode'[c] = mode[c]
      BY <1>1, <2>1 DEF Crash, TablesOK
    <2> QED
      BY <1>6, <2>1, <2>2, HoldersUp
  <1> QED
    BY <1>3, <1>5, <1>6, RestKeepsInv DEF Crash

LEMMA RestartKeepsInv ==
    ASSUME DispatchInv, NEW d \in Procs, Restart(d)
    PROVE  KeepsInv
  <1>1. TablesOK
    BY DEF DispatchInv
  <1>2. Circuit("closed") \in Breaker
    BY <1>1, TaskTypes, BreakerTypes DEF TablesOK
  <1>3. TablesOK'
    BY <1>1, <1>2 DEF TablesOK, Restart
  <1>4. \A c \in Procs, j \in 1..MaxRows : task[c][j].stage # "none" =>
           mode'[c] \in {"running", "stopping"}
    BY HoldersUp DEF Restart, DispatchInv, TablesOK
  <1> QED
    BY <1>3, <1>4, RestKeepsInv DEF Restart

LEMMA ProbeAgainKeepsInv ==
    ASSUME DispatchInv, NEW d \in Procs, ProbeAgain(d)
    PROVE  KeepsInv
  <1>1. TablesOK
    BY DEF DispatchInv
  <1>2. Circuit("half-open") \in Breaker
    BY <1>1, BreakerTypes DEF TablesOK
  <1>3. task' = [task EXCEPT ![d] = [j \in 1..MaxRows |-> Unheard(task[d][j])]]
    BY <1>1 DEF ProbeAgain, Unheard, TablesOK
  <1>4. \A j \in 1..MaxRows : /\ Unheard(task[d][j]) \in Task
                              /\ Unheard(task[d][j]).stage = task[d][j].stage
                              /\ Unheard(task[d][j]).age = task[d][j].age
                              /\ Unheard(task[d][j]).answer = task[d][j].answer
                              /\ Unheard(task[d][j]).attempts = task[d][j].attempts
    BY <1>1, TaskTypes, UnheardTypes
  <1>5. task' \in [Procs -> [1..MaxRows -> Task]]
    BY <1>1, <1>3, <1>4 DEF TablesOK
  <1>6. TablesOK'
    BY <1>1, <1>2, <1>5 DEF TablesOK, ProbeAgain
  <1>7. \A c \in Procs, j \in 1..MaxRows :
              /\ task'[c][j].stage = task[c][j].stage /\ task'[c][j].age = task[c][j].age
              /\ task'[c][j].answer = task[c][j].answer
              /\ task'[c][j].attempts = task[c][j].attempts
    BY <1>1, <1>3, <1>4 DEF TablesOK
  <1>8. \A c \in Procs, j \in 1..MaxRows : task'[c][j].stage # "none" =>
           mode'[c] \in {"running", "stopping"}
    BY <1>7, HoldersUp DEF ProbeAgain
  <1> QED
    BY <1>6, <1>7, <1>8, RestKeepsInv DEF ProbeAgain

-----------------------------------------------------------------------------
(* The statements about an entry. *)
Delivered(r)         == [r EXCEPT !.processed = TRUE, !.attempts = @ + 1, !.lease = 0]
Failed(r, due, dead) == [r EXCEPT !.attempts = @ + 1, !.lease = 0, !.due = due, !.dead = dead]
Released(r)          == [r EXCEPT !.lease = 0]

LEMMA RowEdits ==
    ASSUME NEW r \in Entry, r.attempts < MaxAttempts, NEW due \in BOOLEAN, NEW dead \in BOOLEAN
    PROVE  /\ Delivered(r) \in Entry /\ Delivered(r).order = r.order /\ Delivered(r).processed
           /\ Failed(r, due, dead) \in Entry /\ Failed(r, due, dead).order = r.order
           /\ Failed(r, due, dead).processed = r.processed
           /\ Failed(r, due, dead).attempts = r.attempts + 1 /\ Failed(r, due, dead).dead = dead
           /\ Released(r) \in Entry /\ Released(r).order = r.order
           /\ Released(r).processed = r.processed /\ Released(r).attempts = r.attempts
           /\ Released(r).dead = r.dead
  <1>1. /\ r.attempts \in 0..MaxAttempts /\ r.attempts + 1 \in 0..MaxAttempts
        /\ 0 \in 0..Lease /\ r.due \in BOOLEAN /\ r.processed \in BOOLEAN /\ r.dead \in BOOLEAN
    BY Sizes DEF Entry
  <1>2. Delivered(r) \in Entry /\ Delivered(r).order = r.order /\ Delivered(r).processed
    BY <1>1 DEF Entry, Delivered
  <1>3. /\ Failed(r, due, dead) \in Entry /\ Failed(r, due, dead).order = r.order
        /\ Failed(r, due, dead).processed = r.processed
        /\ Failed(r, due, dead).attempts = r.attempts + 1 /\ Failed(r, due, dead).dead = dead
    BY <1>1 DEF Entry, Failed
  <1>4. /\ Released(r) \in Entry /\ Released(r).order = r.order
        /\ Released(r).processed = r.processed /\ Released(r).attempts = r.attempts
        /\ Released(r).dead = r.dead
    BY <1>1 DEF Entry, Released
  <1> QED
    BY <1>2, <1>3, <1>4

(* One entry of the table changes. *)
LEMMA OneRowChanges ==
    ASSUME TablesOK, NEW k \in DOMAIN rows, NEW r \in Entry, rows' = [rows EXCEPT ![k] = r]
    PROVE  /\ rows' \in Seq(Entry) /\ Len(rows') = Len(rows) /\ DOMAIN rows' = DOMAIN rows
           /\ rows'[k] = r /\ \A j \in DOMAIN rows : j # k => rows'[j] = rows[j]
  <1>1. rows \in Seq(Entry) /\ k \in 1..Len(rows) /\ DOMAIN rows = 1..Len(rows)
    BY RowTypes DEF TablesOK
  <1> QED
    BY <1>1, ExceptSeq

(* What Record makes of the entry: done, or to be tried again. *)
LEMMA RecordedRow ==
    ASSUME DispatchInv, NEW d \in Procs, NEW k \in 1..MaxRows, Record(d, k)
    PROVE  \E r \in Entry :
              /\ rows' = [rows EXCEPT ![k] = r] /\ r.order = rows[k].order
              /\ r.processed \/ r.dead \/ r.attempts < MaxAttempts
              /\ r.processed => k \in accepted
  <1>1. TablesOK /\ k \in DOMAIN rows /\ rows[k] \in Entry /\ TaskOK(d, k)
    BY HoldersUp, RowTypes DEF DispatchInv, Record, TaskOK
  <1>2. rows[k].attempts < MaxAttempts /\ ~rows[k].processed /\ ~rows[k].dead
    BY <1>1 DEF DispatchInv, RowsOK, TaskOK, Pending
  <1>3. task[d][k].attempts = rows[k].attempts /\ rows[k].attempts \in 0..MaxAttempts
    BY <1>1, RowTypes DEF TaskOK
  <1>4. CASE task[d][k].answer = "ok" /\ MarkDelivered(k)
    <2>1. rows' = [rows EXCEPT ![k] = Delivered(rows[k])]
      BY <1>1, <1>4 DEF MarkDelivered, Delivered, TablesOK
    <2>2. k \in accepted
      BY <1>1, <1>4 DEF TaskOK
    <2> QED
      BY <1>1, <1>2, <2>1, <2>2, RowEdits
  <1>5. CASE Release(k)
    <2>1. rows' = [rows EXCEPT ![k] = Released(rows[k])]
      BY <1>1, <1>5 DEF Release, Released, TablesOK
    <2>2. PICK r : r = Released(rows[k])
      OBVIOUS
    <2>3. r \in Entry /\ r.order = rows[k].order /\ ~r.processed /\ r.attempts < MaxAttempts
      BY <1>1, <1>2, <2>2, RowEdits
    <2> QED
      BY <2>1, <2>2, <2>3
  <1>6. ASSUME NEW due \in BOOLEAN, NEW dead \in BOOLEAN, MarkFailed(k, due, dead),
               dead \/ ~Exhausted(task[d][k])
        PROVE  \E r \in Entry :
                  /\ rows' = [rows EXCEPT ![k] = r] /\ r.order = rows[k].order
                  /\ r.processed \/ r.dead \/ r.attempts < MaxAttempts
                  /\ r.processed => k \in accepted
    <2>1. rows' = [rows EXCEPT ![k] = Failed(rows[k], due, dead)]
      BY <1>1, <1>6 DEF MarkFailed, Failed, TablesOK
    <2>2. dead \/ rows[k].attempts + 1 < MaxAttempts
      BY <1>3, <1>6, Sizes DEF Exhausted
    <2>3. PICK r : r = Failed(rows[k], due, dead)
      OBVIOUS
    <2>4. /\ r \in Entry /\ r.order = rows[k].order /\ r.processed = rows[k].processed
          /\ r.attempts = rows[k].attempts + 1 /\ r.dead = dead
      BY <1>1, <1>2, <2>3, RowEdits
    <2> QED
      BY <1>2, <2>1, <2>2, <2>3, <2>4
  <1>7. CASE MarkFailed(k, FALSE, Exhausted(task[d][k]))
    <2>1. Exhausted(task[d][k]) \in BOOLEAN
      BY DEF Exhausted
    <2> QED
      BY <1>6, <1>7, <2>1
  <1>8. CASE MarkFailed(k, TRUE, TRUE)
    BY <1>6, <1>8
  <1> QED
    BY <1>4, <1>5, <1>7, <1>8 DEF Record

LEMMA RecordKeepsInv ==
    ASSUME DispatchInv, NEW d \in Procs, NEW k \in 1..MaxRows, Record(d, k)
    PROVE  KeepsInv
  <1>1. TablesOK /\ k \in Held(d) /\ TaskOK(d, k)
    BY HoldersUp DEF DispatchInv, Record
  <1>2. k \in DOMAIN rows /\ Pending(k)
    BY <1>1 DEF TaskOK
  <1>3. PICK r \in Entry :
              /\ rows' = [rows EXCEPT ![k] = r] /\ r.order = rows[k].order
              /\ r.processed \/ r.dead \/ r.attempts < MaxAttempts
              /\ r.processed => k \in accepted
    BY RecordedRow
  <1>4. /\ rows' \in Seq(Entry) /\ Len(rows') = Len(rows) /\ DOMAIN rows' = DOMAIN rows
        /\ rows'[k] = r /\ \A j \in DOMAIN rows : j # k => rows'[j] = rows[j]
    BY <1>1, <1>2, <1>3, OneRowChanges
  <1>5. task' = [task EXCEPT ![d] = [task[d] EXCEPT ![k] = NoTask]]
    BY <1>1 DEF Record, Forget, TablesOK
  <1>6. task' \in [Procs -> [1..MaxRows -> Task]] /\ task'[d][k] = NoTask /\ OthersStay(d, k)
    BY <1>1, <1>5, NoTaskTypes, OneTaskChanges
  <1>7. TablesOK'
    BY <1>1, <1>4, <1>6 DEF TablesOK, Record
  <1>8. RowsOK'
    <2>1. ASSUME NEW j \in DOMAIN rows'
          PROVE  /\ ~rows'[j].processed /\ ~rows'[j].dead => rows'[j].attempts < MaxAttempts
                 /\ rows'[j].processed => j \in accepted'
      <3>1. CASE j = k
        BY <1>3, <1>4, <3>1 DEF Record
      <3>2. CASE j # k
        BY <1>4, <3>2 DEF Record, DispatchInv, RowsOK, Pending
      <3> QED
        BY <3>1, <3>2
    <2> QED
      BY <2>1 DEF RowsOK, Pending
  <1>9. ASSUME NEW j \in DOMAIN rows
        PROVE  /\ j \in DOMAIN rows' /\ rows'[j].order = rows[j].order
               /\ Done(j) => rows'[j].processed \/ rows'[j].dead
    BY <1>2, <1>3, <1>4 DEF Pending, Done
  <1>10. ASSUME NEW c \in Procs, NEW j \in 1..MaxRows, task'[c][j].stage # "none"
         PROVE  /\ Follows(c, j) /\ mode'[c] \in {"running", "stopping"}
                /\ rows'[j].lease = rows[j].lease /\ rows'[j].attempts = rows[j].attempts
                /\ rows'[j].processed = rows[j].processed /\ rows'[j].dead = rows[j].dead
    <2>1. c # d \/ j # k
      BY <1>6, <1>10, NoTaskTypes
    <2>2. task[c][j].stage # "none" /\ Follows(c, j)
      BY <1>10, <2>1, <1>6 DEF OthersStay, Follows
    <2>3. j \in Held(c) /\ TaskOK(c, j) /\ mode[c] \in {"running", "stopping"}
      BY <2>2, HoldersUp
    <2>4. j # k
      BY <1>1, <2>1, <2>3 DEF DispatchInv, Alone
    <2> QED
      BY <1>4, <2>2, <2>3, <2>4 DEF TaskOK, Record
  <1>11. accepted' = accepted /\ wire' = wire
    BY DEF Record
  <1>12. Quiet
    BY <1>9, <1>10, <1>11 DEF Quiet
  <1> QED
    BY <1>7, <1>8, <1>12, QuietKeepsInv

-----------------------------------------------------------------------------
(* The table grows, an entry becomes due, entries are leased. *)
Due(r)    == [r EXCEPT !.due = TRUE]
Leased(r) == [r EXCEPT !.lease = Lease]

LEMMA DueTypes ==
    ASSUME NEW r \in Entry
    PROVE  /\ Due(r) \in Entry /\ Due(r).order = r.order /\ Due(r).processed = r.processed
           /\ Due(r).dead = r.dead /\ Due(r).attempts = r.attempts /\ Due(r).lease = r.lease
  BY DEF Entry, Due

LEMMA LeasedTypes ==
    ASSUME NEW r \in Entry
    PROVE  /\ Leased(r) \in Entry /\ Leased(r).order = r.order /\ Leased(r).processed = r.processed
           /\ Leased(r).dead = r.dead /\ Leased(r).attempts = r.attempts
           /\ Leased(r).lease = Lease
  <1>1. Lease \in 0..Lease
    BY Sizes
  <1> QED
    BY <1>1 DEF Entry, Leased

(* Whatever a transaction appends to the table: entries that are new. *)
LEMMA InsertKeepsInv ==
    ASSUME DispatchInv, NEW new \in Seq(Entry),
           \A i \in 1..Len(new) : ~new[i].processed /\ new[i].attempts = 0,
           rows' = rows \o new, Len(rows') <= MaxRows,
           UNCHANGED <<mode, breaker, task, accepted, wire>>
    PROVE  KeepsInv
  <1>1. TablesOK
    BY DEF DispatchInv
  <1>2. /\ rows \in Seq(Entry) /\ Len(rows) \in Nat /\ DOMAIN rows = 1..Len(rows)
        /\ Len(new) \in Nat
    BY <1>1, RowTypes, LenProperties DEF TablesOK
  <1>3. /\ rows' \in Seq(Entry) /\ Len(rows') = Len(rows) + Len(new)
        /\ \A i \in 1..(Len(rows) + Len(new)) :
              rows'[i] = IF i <= Len(rows) THEN rows[i] ELSE new[i - Len(rows)]
    BY <1>2, ConcatProperties
  <1>4. DOMAIN rows' = 1..(Len(rows) + Len(new))
    BY <1>3, LenProperties
  <1>5. \A j \in DOMAIN rows : j \in DOMAIN rows' /\ rows'[j] = rows[j]
    BY <1>2, <1>3, <1>4
  <1>6. TablesOK'
    BY <1>1, <1>3, <1>5 DEF TablesOK
  <1>7. RowsOK'
    <2>1. ASSUME NEW j \in DOMAIN rows'
          PROVE  /\ ~rows'[j].processed /\ ~rows'[j].dead => rows'[j].attempts < MaxAttempts
                 /\ rows'[j].processed => j \in accepted'
      <3>1. CASE j \in DOMAIN rows
        BY <1>5, <3>1 DEF DispatchInv, RowsOK, Pending
      <3>2. CASE j \notin DOMAIN rows
        <4>1. rows'[j] = new[j - Len(rows)] /\ j - Len(rows) \in 1..Len(new)
          BY <1>2, <1>3, <1>4, <3>2
        <4> QED
          BY <4>1, Sizes
      <3> QED
        BY <3>1, <3>2
    <2> QED
      BY <2>1 DEF RowsOK, Pending
  <1>8. ASSUME NEW c \in Procs, NEW j \in 1..MaxRows, task'[c][j].stage # "none"
        PROVE  /\ Follows(c, j) /\ mode'[c] \in {"running", "stopping"} /\ rows'[j] = rows[j]
    <2>1. TaskOK(c, j) /\ mode[c] \in {"running", "stopping"}
      BY <1>8, HoldersUp
    <2> QED
      BY <1>5, <1>8, <2>1 DEF TaskOK, Follows
  <1>9. Quiet
    BY <1>5, <1>8 DEF Quiet, Done
  <1> QED
    BY <1>6, <1>7, <1>9, QuietKeepsInv

(* The fields that an entry keeps when only its lease or its due date change. *)
LEMMA TouchKeepsInv ==
    ASSUME DispatchInv, rows' \in Seq(Entry), Len(rows') = Len(rows), DOMAIN rows' = DOMAIN rows,
           \A k \in DOMAIN rows :
              /\ rows'[k].order = rows[k].order /\ rows'[k].processed = rows[k].processed
              /\ rows'[k].dead = rows[k].dead /\ rows'[k].attempts = rows[k].attempts,
           \A d \in Procs : \A k \in Held(d) : rows'[k].lease = rows[k].lease,
           UNCHANGED <<mode, breaker, task, accepted, wire>>
    PROVE  KeepsInv
  <1>1. TablesOK'
    BY DEF DispatchInv, TablesOK
  <1>2. RowsOK'
    BY DEF DispatchInv, RowsOK, Pending
  <1>3. ASSUME NEW c \in Procs, NEW j \in 1..MaxRows, task'[c][j].stage # "none"
        PROVE  /\ Follows(c, j) /\ mode'[c] \in {"running", "stopping"} /\ j \in DOMAIN rows
               /\ rows'[j].lease = rows[j].lease
    <2>1. TaskOK(c, j) /\ mode[c] \in {"running", "stopping"} /\ j \in Held(c)
      BY <1>3, HoldersUp
    <2> QED
      BY <1>3, <2>1 DEF TaskOK, Follows
  <1>4. Quiet
    BY <1>3 DEF Quiet, Done
  <1> QED
    BY <1>1, <1>2, <1>4, QuietKeepsInv

LEMMA BackoffEndsKeepsInv ==
    ASSUME DispatchInv, NEW k \in DOMAIN rows, BackoffEnds(k)
    PROVE  KeepsInv
  <1>1. TablesOK
    BY DEF DispatchInv
  <1>2. rows' = [rows EXCEPT ![k] = Due(rows[k])]
    BY <1>1 DEF BackoffEnds, Due, TablesOK
  <1>3. PICK r : r = Due(rows[k])
    OBVIOUS
  <1>4. /\ r \in Entry /\ r.order = rows[k].order /\ r.processed = rows[k].processed
        /\ r.dead = rows[k].dead /\ r.attempts = rows[k].attempts /\ r.lease = rows[k].lease
    BY <1>1, <1>3, RowTypes, DueTypes
  <1>5. /\ rows' \in Seq(Entry) /\ Len(rows') = Len(rows) /\ DOMAIN rows' = DOMAIN rows
        /\ rows'[k] = r /\ \A j \in DOMAIN rows : j # k => rows'[j] = rows[j]
    BY <1>1, <1>2, <1>3, <1>4, OneRowChanges
  <1>6. \A d \in Procs : \A j \in Held(d) : j \in DOMAIN rows
    BY DEF DispatchInv, TasksOK, TaskOK
  <1> QED
    BY <1>4, <1>5, <1>6, TouchKeepsInv DEF BackoffEnds

LEMMA LeaseRowsTypes ==
    ASSUME TablesOK, LeaseRows
    PROVE  /\ rows' \in Seq(Entry) /\ Len(rows') = Len(rows) /\ DOMAIN rows' = DOMAIN rows
           /\ \A k \in DOMAIN rows :
                 /\ rows'[k].order = rows[k].order /\ rows'[k].processed = rows[k].processed
                 /\ rows'[k].dead = rows[k].dead /\ rows'[k].attempts = rows[k].attempts
                 /\ rows'[k].lease = IF k \in Claimed THEN Lease ELSE rows[k].lease
  <1>1. rows' = [k \in DOMAIN rows |-> IF k \in Claimed THEN Leased(rows[k]) ELSE rows[k]]
    BY DEF LeaseRows, Leased
  <1>2. ASSUME NEW k \in DOMAIN rows
        PROVE  /\ rows'[k] \in Entry
               /\ rows'[k].order = rows[k].order /\ rows'[k].processed = rows[k].processed
               /\ rows'[k].dead = rows[k].dead /\ rows'[k].attempts = rows[k].attempts
               /\ rows'[k].lease = IF k \in Claimed THEN Lease ELSE rows[k].lease
    <2>1. rows[k] \in Entry
      BY RowTypes
    <2>2. rows'[k] = IF k \in Claimed THEN Leased(rows[k]) ELSE rows[k]
      BY <1>1
    <2> QED
      BY <2>1, <2>2, LeasedTypes
  <1>3. Len(rows) \in Nat /\ DOMAIN rows = 1..Len(rows)
    BY RowTypes
  <1>4. rows' \in [1..Len(rows) -> Entry]
    BY <1>1, <1>2, <1>3
  <1>5. rows' \in Seq(Entry) /\ Len(rows') = Len(rows) /\ DOMAIN rows' = 1..Len(rows)
    BY <1>3, <1>4, TableIsSeq
  <1> QED
    BY <1>2, <1>3, <1>5

(* Nobody has in hand what a claim takes. *)
LEMMA ClaimedAreFree ==
    ASSUME DispatchInv, NEW d \in Procs
    PROVE  Held(d) \cap Claimed = {}
  <1>1. \A k \in Held(d) : rows[k].lease # 0
    BY RowTypes DEF DispatchInv, TasksOK, TaskOK
  <1> QED
    BY <1>1 DEF Claimed, Eligible

LEMMA ClaimLostKeepsInv ==
    ASSUME DispatchInv, NEW d \in Procs, ClaimLost(d)
    PROVE  KeepsInv
  <1>1. TablesOK /\ LeaseRows
    BY DEF DispatchInv, ClaimLost
  <1>2. \A c \in Procs : \A k \in Held(c) : k \in DOMAIN rows /\ k \notin Claimed
    BY ClaimedAreFree DEF DispatchInv, TasksOK, TaskOK
  <1> QED
    BY <1>1, <1>2, LeaseRowsTypes, TouchKeepsInv DEF ClaimLost

-----------------------------------------------------------------------------
(* A batch begins. *)
LEMMA Multiples ==
    ASSUME NEW i \in Nat, NEW n \in Nat
    PROVE  /\ i * n \in Nat /\ 0 * n = 0
           /\ i >= 1 => i - 1 \in Nat /\ (i - 1) * n = i * n - n /\ i * n >= n
  <1>1. i * n \in Nat /\ 0 * n = 0
    OBVIOUS
  <1>2. CASE i >= 1
    <2>1. i - 1 \in Nat /\ (i - 1) * n \in Nat
      BY <1>2
    <2>2. (i - 1) * n = i * n - n
      BY <1>2
    <2> QED
      BY <1>1, <2>1, <2>2
  <1> QED
    BY <1>1, <1>2

ClaimedTask(n) == [NoTask EXCEPT !.stage = "waiting", !.attempts = n]

LEMMA ClaimedTaskTypes ==
    ASSUME NEW n \in 0..MaxAttempts
    PROVE  /\ ClaimedTask(n) \in Task /\ ClaimedTask(n).stage = "waiting"
           /\ ClaimedTask(n).age = 0 /\ ClaimedTask(n).answer = "none"
           /\ ClaimedTask(n).attempts = n
  <1>1. NoTask \in Task /\ NoTask.age = 0 /\ NoTask.answer = "none"
    BY NoTaskTypes DEF NoTask
  <1> QED
    BY <1>1 DEF ClaimedTask, Task

LEMMA ClaimTypes ==
    ASSUME DispatchInv, NEW d \in Procs, Claim(d)
    PROVE  /\ task' \in [Procs -> [1..MaxRows -> Task]]
           /\ \A c \in Procs : c # d => task'[c] = task[c]
           /\ Held(d) = {}
           /\ \A k \in 1..MaxRows :
                 IF k \in Claimed
                 THEN /\ k \in DOMAIN rows /\ task'[d][k].stage = "waiting" /\ task'[d][k].age = 0
                      /\ task'[d][k].answer = "none" /\ task'[d][k].attempts = rows[k].attempts
                 ELSE task'[d][k].stage = "none"
  <1>1. TablesOK
    BY DEF DispatchInv
  <1>2. PICK f : f = [k \in 1..MaxRows |-> IF k \in Claimed THEN ClaimedTask(rows[k].attempts) ELSE NoTask]
    OBVIOUS
  <1>3. task' = [task EXCEPT ![d] = f]
    BY <1>2 DEF Claim, ClaimedTask
  <1>4. ASSUME NEW k \in 1..MaxRows
        PROVE  f[k] \in Task /\
                 IF k \in Claimed
                 THEN /\ k \in DOMAIN rows /\ f[k].stage = "waiting" /\ f[k].age = 0
                      /\ f[k].answer = "none" /\ f[k].attempts = rows[k].attempts
                 ELSE f[k].stage = "none"
    <2>1. CASE k \in Claimed
      <3>1. k \in DOMAIN rows
        BY <2>1 DEF Claimed, Eligible
      <3>2. rows[k].attempts \in 0..MaxAttempts
        BY <1>1, <3>1, RowTypes
      <3>3. f[k] = ClaimedTask(rows[k].attempts)
        BY <1>2, <2>1
      <3> QED
        BY <2>1, <3>1, <3>2, <3>3, ClaimedTaskTypes
    <2>2. CASE k \notin Claimed
      <3>1. f[k] = NoTask
        BY <1>2, <2>2
      <3> QED
        BY <2>2, <3>1, NoTaskTypes
    <2> QED
      BY <2>1, <2>2
  <1>5. f = [k \in 1..MaxRows |-> f[k]]
    BY <1>2
  <1>6. f \in [1..MaxRows -> Task]
    BY <1>4, <1>5
  <1>7. /\ task' \in [Procs -> [1..MaxRows -> Task]] /\ task'[d] = f
        /\ \A c \in Procs : c # d => task'[c] = task[c]
    BY <1>1, <1>3, <1>6 DEF TablesOK
  <1>8. Held(d) = {}
    BY NoTaskTypes DEF Claim, Held
  <1> QED
    BY <1>4, <1>7, <1>8

LEMMA ClaimKeepsInv ==
    ASSUME DispatchInv, NEW d \in Procs, Claim(d)
    PROVE  KeepsInv
  <1>1. TablesOK /\ LeaseRows /\ mode[d] = "running"
        /\ UNCHANGED <<mode, breaker, accepted, wire, faults>>
    BY DEF DispatchInv, Claim
  <1>2. /\ rows' \in Seq(Entry) /\ Len(rows') = Len(rows) /\ DOMAIN rows' = DOMAIN rows
        /\ \A k \in DOMAIN rows :
              /\ rows'[k].order = rows[k].order /\ rows'[k].processed = rows[k].processed
              /\ rows'[k].dead = rows[k].dead /\ rows'[k].attempts = rows[k].attempts
              /\ rows'[k].lease = IF k \in Claimed THEN Lease ELSE rows[k].lease
    BY <1>1, LeaseRowsTypes
  <1>3. /\ task' \in [Procs -> [1..MaxRows -> Task]]
        /\ \A c \in Procs : c # d => task'[c] = task[c]
        /\ \A k \in 1..MaxRows :
              IF k \in Claimed
              THEN /\ k \in DOMAIN rows /\ task'[d][k].stage = "waiting" /\ task'[d][k].age = 0
                   /\ task'[d][k].answer = "none" /\ task'[d][k].attempts = rows[k].attempts
              ELSE task'[d][k].stage = "none"
    BY ClaimTypes
  <1>4. Claimed \in SUBSET (1..MaxRows) /\ Cardinality(Claimed) <= BatchSize
    BY <1>1, ClaimIsABatch
  <1>5. Held(d)' = Claimed /\ \A c \in Procs : c # d => Held(c)' = Held(c)
    BY <1>3, <1>4 DEF Held
  <1>6. ASSUME NEW c \in Procs, c # d, NEW k \in Held(c)
        PROVE  k \in DOMAIN rows /\ k \notin Claimed /\ rows'[k].lease = rows[k].lease
    BY <1>2, <1>6, ClaimedAreFree DEF DispatchInv, TasksOK, TaskOK
  <1>7. TablesOK'
    BY <1>1, <1>2, <1>3 DEF TablesOK
  <1>8. RowsOK'
    BY <1>1, <1>2 DEF DispatchInv, RowsOK, Pending
  <1>9. \A k \in DOMAIN rows : EarlierDone(k) => EarlierDone(k)'
    BY <1>1, <1>2, EarlierStaysDone DEF Done
  <1>10. TasksOK'
    <2>1. ASSUME NEW k \in Claimed PROVE TaskOK(d, k)'
      <3>1. k \in DOMAIN rows /\ Pending(k) /\ EarlierDone(k)
        <4>1. k \in DOMAIN rows /\ IsHead(k)
          BY DEF Claimed, Eligible
        <4>2. ASSUME NEW j \in 1..(k - 1), rows[j].order = rows[k].order PROVE Done(j)
          BY <4>1, <4>2 DEF IsHead, Pending, Done
        <4> QED
          BY <4>1, <4>2 DEF IsHead, EarlierDone
      <3>2. k \in DOMAIN rows' /\ mode'[d] = "running" /\ EarlierDone(k)'
        BY <1>1, <1>2, <1>9, <3>1
      <3>3. ~rows'[k].processed /\ ~rows'[k].dead /\ rows'[k].lease > 0
        BY <1>2, <3>1, Sizes DEF Pending
      <3>4. /\ task'[d][k].attempts = rows'[k].attempts /\ task'[d][k].answer = "none"
            /\ task'[d][k].stage = "waiting" /\ task'[d][k].age = 0
        BY <1>2, <1>3, <1>4, <3>1
      <3> QED
        BY <3>2, <3>3, <3>4 DEF TaskOK, Up, Pending, Sending
    <2>2. ASSUME NEW c \in Procs, c # d, NEW k \in Held(c) PROVE TaskOK(c, k)'
      <3>1. TaskOK(c, k) /\ task'[c] = task[c]
        BY <1>3, <2>2 DEF DispatchInv, TasksOK
      <3>2. k \in DOMAIN rows' /\ mode'[c] = mode[c] /\ EarlierDone(k)' /\ accepted' = accepted
        BY <1>1, <1>2, <1>9, <3>1 DEF TaskOK
      <3>3. /\ rows'[k].lease = rows[k].lease /\ rows'[k].attempts = rows[k].attempts
            /\ rows'[k].processed = rows[k].processed /\ rows'[k].dead = rows[k].dead
        BY <1>2, <1>6, <2>2
      <3> QED
        BY <3>1, <3>2, <3>3 DEF TaskOK, Up, Pending, Sending
    <2> QED
      BY <1>5, <2>1, <2>2 DEF TasksOK
  <1>11. Alone'
    BY <1>5, ClaimedAreFree DEF DispatchInv, Alone
  <1>12. WireOK'
    BY <1>1, <1>9 DEF DispatchInv, TablesOK, WireOK
  <1>13. ASSUME Rounds PROVE OneLease'
    <2>1. \A k \in Claimed : rows'[k].lease = Lease
      BY <1>2 DEF Claimed, Eligible
    <2>2. \A c \in Procs : c # d => \A j, k \in Held(c) : rows'[j].lease = rows'[k].lease
      BY <1>6, <1>13 DEF Rounds, OneLease
    <2> QED
      BY <1>5, <2>1, <2>2 DEF OneLease
  <1>14. ASSUME Rounds PROVE RoundsOK'
    <2>1. ASSUME NEW k \in Claimed, NEW i \in Nat, (Elapsed(k) + Duration > i * Duration)'
          PROVE  (Late(d, i) = {} \/ Cardinality(Late(d, i)) + i * Slots <= BatchSize)'
      <3>1. rows'[k].lease = Lease
        BY <1>2 DEF Claimed, Eligible
      <3>2. Duration > i * Duration
        BY <2>1, <3>1, Sizes DEF Elapsed
      <3>3. i = 0
        BY <3>2, Sizes, Multiples
      <3>4. Late(d, i)' \in SUBSET Claimed
        BY <1>5 DEF Late
      <3>5. Cardinality(Late(d, i)') \in Nat /\ Cardinality(Claimed) \in Nat
            /\ Cardinality(Late(d, i)') <= Cardinality(Claimed)
        BY <1>4, <3>4, FewerPositions
      <3>6. i * Slots = 0
        BY <3>3, Sizes
      <3> QED
        BY <1>4, <3>5, <3>6, Sizes
    <2>2. ASSUME NEW c \in Procs, c # d, NEW k \in Held(c), NEW i \in Nat,
                 (Elapsed(k) + Duration > i * Duration)'
          PROVE  (Late(c, i) = {} \/ Cardinality(Late(c, i)) + i * Slots <= BatchSize)'
      <3>1. Elapsed(k) + Duration > i * Duration
        BY <1>6, <2>2 DEF Elapsed
      <3>2. Late(c, i)' = Late(c, i)
        BY <1>3, <1>5, <1>6, <2>2 DEF Late, Elapsed
      <3> QED
        BY <1>14, <2>2, <3>1, <3>2 DEF Rounds, RoundsOK
    <2> QED
      BY <1>5, <2>1, <2>2 DEF RoundsOK
  <1> QED
    BY <1>7, <1>8, <1>10, <1>11, <1>12, <1>13, <1>14 DEF DispatchInv, Rounds, KeepsInv

-----------------------------------------------------------------------------
(* A tick. *)
Ticked(r) == [r EXCEPT !.lease = LeaseLeft(@)]
Aged(t)   == [t EXCEPT !.age = @ + 1]

LEMMA TickedTypes ==
    ASSUME NEW r \in Entry
    PROVE  /\ Ticked(r) \in Entry /\ Ticked(r).order = r.order /\ Ticked(r).processed = r.processed
           /\ Ticked(r).dead = r.dead /\ Ticked(r).attempts = r.attempts
           /\ Ticked(r).lease = IF r.lease > 0 THEN r.lease - 1 ELSE 0
  <1>1. r.lease \in 0..Lease
    BY DEF Entry
  <1>2. LeaseLeft(r.lease) \in 0..Lease
    BY <1>1, Sizes DEF LeaseLeft
  <1>3. LeaseLeft(r.lease) = IF r.lease > 0 THEN r.lease - 1 ELSE 0
    BY DEF LeaseLeft
  <1> QED
    BY <1>2, <1>3 DEF Entry, Ticked

LEMMA AgedTypes ==
    ASSUME NEW t \in Task, t.age + 1 \in 0..Duration
    PROVE  /\ Aged(t) \in Task /\ Aged(t).stage = t.stage /\ Aged(t).age = t.age + 1
           /\ Aged(t).answer = t.answer /\ Aged(t).attempts = t.attempts
  BY DEF Task, Aged

(* Who is not urgent has time left. *)
LEMMA TimeLeft ==
    ASSUME DispatchInv, NEW d \in Procs, NEW k \in 1..MaxRows, ~Urgent(d, k)
    PROVE  /\ Active(task[d][k]) => task[d][k].age < Duration
           /\ Sending(task[d][k]) => task[d][k].age < RequestLimit
           /\ task[d][k].age \in Nat
  <1>1. task[d][k].age \in Nat /\ TablesOK
    BY TaskTypes, Sizes DEF DispatchInv
  <1>2. Sending(task[d][k]) => task[d][k].age < RequestLimit
    BY <1>1, Sizes DEF Urgent
  <1>3. task[d][k].stage = "answered" => task[d][k].age <= Bookkeeping
    BY <1>1, Sizes DEF Urgent
  <1> QED
    BY <1>1, <1>2, <1>3, Sizes DEF Active, Sending

(* The lease of an entry in hand outlasts the tick, if the rounds of its     *)
(* batch fit in the lease.                                                   *)
LEMMA LeaseOutlasts ==
    ASSUME BatchFits, DispatchInv, Rounds, NEW d \in Procs, NEW k \in Held(d), ~Urgent(d, k)
    PROVE  rows[k].lease \in 2..Lease
  <1>1. k \in 1..MaxRows /\ TablesOK /\ TaskOK(d, k) /\ task[d][k].stage # "none"
    BY DEF DispatchInv, TasksOK, Held
  <1>2. rows[k].lease \in 1..Lease
    BY <1>1, RowTypes, Sizes DEF TaskOK
  <1>3. SUFFICES ASSUME rows[k].lease = 1 PROVE FALSE
    BY <1>2, Sizes
  <1>4. PICK m \in Nat : m * Slots >= BatchSize /\ m * Duration < Lease
    BY DEF BatchFits
  <1>5. m * Slots \in Nat /\ m * Duration \in Nat
    BY <1>4, Sizes, Multiples
  <1>6. Elapsed(k) = Lease - 1 /\ Elapsed(k) >= m * Duration
    BY <1>3, <1>4, <1>5, Sizes DEF Elapsed
  <1>7. Elapsed(k) + Duration > m * Duration
    BY <1>5, <1>6, Sizes
  <1>8. Late(d, m) = {} \/ Cardinality(Late(d, m)) + m * Slots <= BatchSize
    BY <1>4, <1>7 DEF Rounds, RoundsOK
  <1>9. Late(d, m) \in SUBSET (1..MaxRows)
    BY DEF Late, Held
  <1>10. Late(d, m) = {}
    <2>1. Cardinality(Late(d, m)) \in Nat /\ (Cardinality(Late(d, m)) = 0 => Late(d, m) = {})
      BY <1>9, FewerPositions
    <2> QED
      BY <1>4, <1>5, <1>8, <2>1, Sizes
  <1>11. /\ task[d][k].stage # "waiting"
         /\ ~ (Elapsed(k) - task[d][k].age + Duration > m * Duration)
    BY <1>10 DEF Late
  <1>12. Active(task[d][k])
    BY <1>1, <1>11, TaskTypes DEF Active
  <1>13. task[d][k].age \in Nat /\ task[d][k].age < Duration
    BY <1>1, <1>12, TimeLeft
  <1> QED
    BY <1>5, <1>6, <1>11, <1>13, Sizes

LEMMA TickTypes ==
    ASSUME DispatchInv, Tick
    PROVE  /\ rows' \in Seq(Entry) /\ Len(rows') = Len(rows) /\ DOMAIN rows' = DOMAIN rows
           /\ \A k \in DOMAIN rows :
                 /\ rows'[k].order = rows[k].order /\ rows'[k].processed = rows[k].processed
                 /\ rows'[k].dead = rows[k].dead /\ rows'[k].attempts = rows[k].attempts
                 /\ rows'[k].lease = IF rows[k].lease > 0 THEN rows[k].lease - 1 ELSE 0
           /\ task' \in [Procs -> [1..MaxRows -> Task]]
           /\ \A d \in Procs, k \in 1..MaxRows :
                 /\ task'[d][k].stage = task[d][k].stage /\ task'[d][k].answer = task[d][k].answer
                 /\ task'[d][k].attempts = task[d][k].attempts
                 /\ task'[d][k].age = IF Active(task[d][k]) THEN task[d][k].age + 1
                                                           ELSE task[d][k].age
  <1>1. TablesOK
    BY DEF DispatchInv
  <1>2. rows' = [k \in DOMAIN rows |-> Ticked(rows[k])]
    BY DEF Tick, Ticked
  <1>3. ASSUME NEW k \in DOMAIN rows
        PROVE  /\ rows'[k] \in Entry
               /\ rows'[k].order = rows[k].order /\ rows'[k].processed = rows[k].processed
               /\ rows'[k].dead = rows[k].dead /\ rows'[k].attempts = rows[k].attempts
               /\ rows'[k].lease = IF rows[k].lease > 0 THEN rows[k].lease - 1 ELSE 0
    <2>1. rows[k] \in Entry /\ rows'[k] = Ticked(rows[k])
      BY <1>1, <1>2, RowTypes
    <2> QED
      BY <2>1, TickedTypes
  <1>4. Len(rows) \in Nat /\ DOMAIN rows = 1..Len(rows)
    BY <1>1, RowTypes
  <1>5. rows' \in [1..Len(rows) -> Entry]
    BY <1>2, <1>3, <1>4
  <1>6. rows' \in Seq(Entry) /\ Len(rows') = Len(rows) /\ DOMAIN rows' = DOMAIN rows
    BY <1>4, <1>5, TableIsSeq
  <1>7. task' = [d \in Procs |-> [k \in 1..MaxRows |->
                    IF Active(task[d][k]) THEN Aged(task[d][k]) ELSE task[d][k]]]
    BY DEF Tick, Aged
  <1>8. ASSUME NEW d \in Procs, NEW k \in 1..MaxRows
        PROVE  /\ task'[d][k] \in Task
               /\ task'[d][k].stage = task[d][k].stage /\ task'[d][k].answer = task[d][k].answer
               /\ task'[d][k].attempts = task[d][k].attempts
               /\ task'[d][k].age = IF Active(task[d][k]) THEN task[d][k].age + 1
                                                         ELSE task[d][k].age
    <2>1. task[d][k] \in Task
      BY <1>1, TaskTypes
    <2>2. task'[d][k] = IF Active(task[d][k]) THEN Aged(task[d][k]) ELSE task[d][k]
      BY <1>7
    <2>3. CASE Active(task[d][k])
      <3>1. task[d][k].age + 1 \in 0..Duration
        <4>1. ~Urgent(d, k)
          BY DEF Tick
        <4>2. task[d][k].age \in Nat /\ task[d][k].age < Duration
          BY <2>3, <4>1, TimeLeft
        <4> QED
          BY <4>2, Sizes
      <3> QED
        BY <2>1, <2>2, <2>3, <3>1, AgedTypes
    <2>4. CASE ~Active(task[d][k])
      BY <2>1, <2>2, <2>4
    <2> QED
      BY <2>3, <2>4
  <1>9. task' \in [Procs -> [1..MaxRows -> Task]]
    <2>1. ASSUME NEW d \in Procs PROVE task'[d] \in [1..MaxRows -> Task]
      <3>1. PICK f : f = [k \in 1..MaxRows |->
                             IF Active(task[d][k]) THEN Aged(task[d][k]) ELSE task[d][k]]
        OBVIOUS
      <3>2. task'[d] = f
        BY <1>7, <3>1
      <3>3. f = [k \in 1..MaxRows |-> f[k]]
        BY <3>1
      <3> QED
        BY <1>8, <3>2, <3>3
    <2>2. task' = [d \in Procs |-> task'[d]]
      BY <1>7
    <2> QED
      BY <2>1, <2>2
  <1> QED
    BY <1>3, <1>6, <1>8, <1>9

(* A tick that begins a round finds either nobody waiting or all slots taken.*)
LEMMA RoundBegins ==
    ASSUME DispatchInv, Rounds, Tick, NEW d \in Procs, NEW k \in Held(d), NEW i \in Nat,
           Elapsed(k) + Duration <= i * Duration,
           Elapsed(k) + 1 + Duration > i * Duration
    PROVE  LET W == {j \in Held(d) : task[d][j].stage = "waiting"} IN
           /\ Elapsed(k) + Duration = i * Duration
           /\ W = {} \/ Cardinality(W) + i * Slots <= BatchSize
  <1> DEFINE W == {j \in Held(d) : task[d][j].stage = "waiting"}
             A == {j \in 1..MaxRows : Active(task[d][j])}
  <1>1. TablesOK /\ k \in 1..MaxRows /\ TaskOK(d, k)
    BY DEF DispatchInv, TasksOK, Held
  <1>2. k \in DOMAIN rows /\ rows[k].lease \in 0..Lease
    BY <1>1, RowTypes DEF TaskOK
  <1>3. Elapsed(k) \in Nat
    BY <1>2, Sizes DEF Elapsed
  <1>4. i * Duration \in Nat
    BY Sizes, Multiples
  <1>5. Elapsed(k) + Duration = i * Duration
    BY <1>3, <1>4, Sizes
  <1>6. i # 0
    BY <1>3, <1>5, Sizes
  <1>7. i - 1 \in Nat /\ (i - 1) * Duration = Elapsed(k) /\ (i - 1) * Slots = i * Slots - Slots
        /\ i * Slots \in Nat
    <2>1. i >= 1
      BY <1>6
    <2>2. i - 1 \in Nat /\ (i - 1) * Duration = i * Duration - Duration
      BY <2>1, Sizes, Multiples
    <2>3. (i - 1) * Slots = i * Slots - Slots /\ i * Slots \in Nat
      BY <2>1, Sizes, Multiples
    <2> QED
      BY <1>3, <1>4, <1>5, <2>2, <2>3, Sizes
  <1>8. Late(d, i - 1) = Held(d)
    <2>1. ASSUME NEW j \in Held(d), task[d][j].stage # "waiting"
          PROVE  Elapsed(j) - task[d][j].age + Duration > (i - 1) * Duration
      <3>1. j \in 1..MaxRows /\ Active(task[d][j])
        BY <1>1, <2>1, TaskTypes DEF Held, Active
      <3>2. task[d][j].age \in Nat /\ task[d][j].age < Duration
        BY <3>1, TimeLeft DEF Tick
      <3>3. Elapsed(j) = Elapsed(k)
        BY DEF Rounds, OneLease, Elapsed
      <3> QED
        BY <1>3, <1>7, <3>2, <3>3, Sizes
    <2> QED
      BY <2>1 DEF Late
  <1>9. Cardinality(Held(d)) + (i - 1) * Slots <= BatchSize
    <2>1. Elapsed(k) + Duration > (i - 1) * Duration
      BY <1>3, <1>7, Sizes
    <2> QED
      BY <1>7, <1>8, <2>1 DEF Rounds, RoundsOK
  <1>10. CASE W = {}
    BY <1>5, <1>10
  <1>11. CASE W # {}
    <2>1. PICK j \in W : TRUE
      BY <1>11
    <2>2. j \in 1..MaxRows /\ task[d][j].stage = "waiting" /\ Up(d)
      BY <2>1 DEF Held, DispatchInv, TasksOK, TaskOK
    <2>3. ~SlotFree(d)
      BY <2>2 DEF Tick, Urgent, CanStart
    <2>4. A \in SUBSET (1..MaxRows) /\ A \in SUBSET Held(d) /\ W = Held(d) \ A
      BY <1>1, TaskTypes DEF Held, Active
    <2>5. Held(d) \in SUBSET (1..MaxRows)
      BY DEF Held
    <2>6. /\ Cardinality(A) \in Nat /\ Cardinality(Held(d)) \in Nat
          /\ Cardinality(A) <= Cardinality(Held(d)) /\ IsFiniteSet(Held(d))
      BY <2>4, <2>5, FewerPositions, PositionsFinite
    <2>7. Cardinality(A) >= Slots
      BY <2>3, <2>6, Sizes DEF SlotFree
    <2>8. Held(d) \cap A = A
      BY <2>4
    <2>9. Cardinality(W) = Cardinality(Held(d)) - Cardinality(A)
      BY <2>4, <2>6, <2>8, FS_Difference
    <2>10. Cardinality(W) + i * Slots <= BatchSize
      BY <1>7, <1>9, <2>6, <2>7, <2>9, Sizes
    <2> QED
      BY <1>5, <2>10
  <1> QED
    BY <1>10, <1>11

(* No lease of an entry in hand ends with the next tick. *)
LeasesLast == \A d \in Procs : \A k \in Held(d) : rows[k].lease > 1

LEMMA TickKeepsInv ==
    ASSUME DispatchInv, Tick, LeasesLast
    PROVE  KeepsInv
  <1>1. TablesOK /\ UNCHANGED <<mode, breaker, accepted, wire, faults>>
    BY DEF DispatchInv, Tick
  <1>2. /\ rows' \in Seq(Entry) /\ Len(rows') = Len(rows) /\ DOMAIN rows' = DOMAIN rows
        /\ \A k \in DOMAIN rows :
              /\ rows'[k].order = rows[k].order /\ rows'[k].processed = rows[k].processed
              /\ rows'[k].dead = rows[k].dead /\ rows'[k].attempts = rows[k].attempts
              /\ rows'[k].lease = IF rows[k].lease > 0 THEN rows[k].lease - 1 ELSE 0
    BY TickTypes
  <1>3. /\ task' \in [Procs -> [1..MaxRows -> Task]]
        /\ \A d \in Procs, k \in 1..MaxRows :
              /\ task'[d][k].stage = task[d][k].stage /\ task'[d][k].answer = task[d][k].answer
              /\ task'[d][k].attempts = task[d][k].attempts
              /\ task'[d][k].age = IF Active(task[d][k]) THEN task[d][k].age + 1
                                                        ELSE task[d][k].age
    BY TickTypes
  <1>4. \A d \in Procs : Held(d)' = Held(d)
    BY <1>3 DEF Held
  <1>5. ASSUME NEW d \in Procs, NEW k \in Held(d)
        PROVE  /\ k \in 1..MaxRows /\ k \in DOMAIN rows /\ TaskOK(d, k)
               /\ rows[k].lease \in 2..Lease /\ rows'[k].lease = rows[k].lease - 1
               /\ task[d][k].age \in Nat
               /\ Sending(task[d][k]) => task[d][k].age < RequestLimit
    <2>1. k \in 1..MaxRows /\ ~Urgent(d, k)
      BY DEF Held, Tick
    <2>2. TaskOK(d, k) /\ k \in DOMAIN rows
      BY DEF DispatchInv, TasksOK, TaskOK
    <2>3. rows[k].lease \in 2..Lease
      <3>1. rows[k].lease \in 0..Lease
        BY <1>1, <2>2, RowTypes
      <3> QED
        BY <3>1, Sizes DEF LeasesLast
    <2>4. rows'[k].lease = rows[k].lease - 1
      BY <1>2, <2>2, <2>3, Sizes
    <2> QED
      BY <2>1, <2>2, <2>3, <2>4, TimeLeft
  <1>6. TablesOK'
    BY <1>1, <1>2, <1>3 DEF TablesOK
  <1>7. RowsOK'
    BY <1>1, <1>2 DEF DispatchInv, RowsOK, Pending
  <1>8. \A k \in DOMAIN rows : EarlierDone(k) => EarlierDone(k)'
    BY <1>1, <1>2, EarlierStaysDone DEF Done
  <1>9. TasksOK'
    <2>1. ASSUME NEW d \in Procs, NEW k \in Held(d) PROVE TaskOK(d, k)'
      <3>1. k \in DOMAIN rows' /\ mode'[d] = mode[d] /\ EarlierDone(k)' /\ accepted' = accepted
            /\ TaskOK(d, k)
        BY <1>1, <1>2, <1>5, <1>8 DEF TaskOK
      <3>2. /\ ~rows'[k].processed /\ ~rows'[k].dead /\ rows'[k].attempts = rows[k].attempts
        BY <1>2, <1>5 DEF TaskOK, Pending
      <3>3. rows'[k].lease > 0
        BY <1>5, Sizes
      <3>4. /\ task'[d][k].stage = task[d][k].stage /\ task'[d][k].answer = task[d][k].answer
            /\ task'[d][k].attempts = task[d][k].attempts
        BY <1>3, <1>5
      <3>5. task'[d][k].stage = "waiting" => task'[d][k].age = 0
        BY <1>3, <1>5, <3>1 DEF TaskOK, Active
      <3>6. Sending(task'[d][k]) => task'[d][k].age <= RequestLimit
        <4>1. ASSUME Sending(task'[d][k]) PROVE task'[d][k].age <= RequestLimit
          <5>1. Sending(task[d][k]) /\ Active(task[d][k])
            BY <3>4, <4>1 DEF Sending, Active
          <5>2. task'[d][k].age = task[d][k].age + 1
            BY <1>3, <1>5, <5>1
          <5> QED
            BY <1>5, <5>1, <5>2, Sizes
        <4> QED
          BY <4>1
      <3> QED
        BY <3>1, <3>2, <3>3, <3>4, <3>5, <3>6 DEF TaskOK, Up, Pending
    <2> QED
      BY <1>4, <2>1 DEF TasksOK
  <1>10. Alone'
    BY <1>4 DEF DispatchInv, Alone
  <1>11. WireOK'
    BY <1>1, <1>8 DEF DispatchInv, TablesOK, WireOK
  <1>12. ASSUME Rounds PROVE OneLease'
    BY <1>4, <1>5, <1>12 DEF Rounds, OneLease
  <1>13. ASSUME Rounds PROVE RoundsOK'
    <2>1. ASSUME NEW d \in Procs, NEW k \in Held(d), NEW i \in Nat,
                 (Elapsed(k) + Duration > i * Duration)'
          PROVE  (Late(d, i) = {} \/ Cardinality(Late(d, i)) + i * Slots <= BatchSize)'
      <3> DEFINE W == {j \in Held(d) : task[d][j].stage = "waiting"}
      <3>1. Elapsed(k)' = Elapsed(k) + 1 /\ Elapsed(k) \in Nat /\ i * Duration \in Nat
        <4>1. i * Duration \in Nat
          BY Sizes, Multiples
        <4> QED
          BY <1>5, <4>1, Sizes DEF Elapsed
      <3>2. ASSUME NEW j \in Held(d), task[d][j].stage # "waiting"
            PROVE  /\ Elapsed(j)' = Elapsed(k) + 1 /\ Elapsed(j) = Elapsed(k)
                   /\ task[d][j].age \in Nat /\ task'[d][j].age = task[d][j].age + 1
        <4>1. Active(task[d][j]) /\ j \in 1..MaxRows
          BY <1>1, <3>2, TaskTypes DEF Active, Held
        <4>2. task'[d][j].age = task[d][j].age + 1 /\ task[d][j].age \in Nat
          BY <1>3, <1>5, <4>1
        <4>3. Elapsed(j) = Elapsed(k)
          BY <1>13 DEF Rounds, OneLease, Elapsed
        <4>4. Elapsed(j)' = Elapsed(j) + 1
          BY <1>5, Sizes DEF Elapsed
        <4> QED
          BY <4>2, <4>3, <4>4
      <3>3. CASE Elapsed(k) + Duration > i * Duration
        <4>1. ASSUME NEW j \in Late(d, i)' PROVE j \in Late(d, i)
          <5>1. j \in Held(d)
            BY <1>4 DEF Late
          <5>2. CASE task[d][j].stage = "waiting"
            BY <5>1, <5>2 DEF Late
          <5>3. CASE task[d][j].stage # "waiting"
            <6>1. Elapsed(j)' - task'[d][j].age + Duration > i * Duration
              BY <1>3, <5>1, <5>3 DEF Late, Held
            <6>2. Elapsed(j) - task[d][j].age + Duration > i * Duration
              BY <3>1, <3>2, <5>1, <5>3, <6>1, Sizes
            <6> QED
              BY <5>1, <6>2 DEF Late
          <5> QED
            BY <5>2, <5>3
        <4>2. Late(d, i) \in SUBSET (1..MaxRows) /\ Late(d, i)' \in SUBSET Late(d, i)
          BY <4>1 DEF Late, Held
        <4>3. /\ Cardinality(Late(d, i)') \in Nat /\ Cardinality(Late(d, i)) \in Nat
              /\ Cardinality(Late(d, i)') <= Cardinality(Late(d, i))
          BY <4>2, FewerPositions
        <4>4. Late(d, i) = {} \/ Cardinality(Late(d, i)) + i * Slots <= BatchSize
          BY <1>13, <3>3 DEF Rounds, RoundsOK
        <4>5. i * Slots \in Nat
          BY Sizes, Multiples
        <4>6. CASE Late(d, i) = {}
          BY <4>2, <4>6
        <4>7. CASE Cardinality(Late(d, i)) + i * Slots <= BatchSize
          BY <4>3, <4>5, <4>7, Sizes
        <4> QED
          BY <4>4, <4>6, <4>7
      <3>4. CASE ~ (Elapsed(k) + Duration > i * Duration)
        <4>1. /\ Elapsed(k) + Duration <= i * Duration
              /\ Elapsed(k) + 1 + Duration > i * Duration
          BY <2>1, <3>1, <3>4, Sizes
        <4>2. /\ Elapsed(k) + Duration = i * Duration
              /\ W = {} \/ Cardinality(W) + i * Slots <= BatchSize
          BY <1>13, <4>1, RoundBegins
        <4>3. Late(d, i)' = W
          <5>1. ASSUME NEW j \in Held(d), task[d][j].stage # "waiting"
                PROVE  ~ (Elapsed(j)' - task'[d][j].age + Duration > i * Duration)
            BY <3>1, <3>2, <4>2, <5>1, Sizes
          <5> QED
            BY <1>3, <1>4, <5>1 DEF Late, Held
        <4> QED
          BY <4>2, <4>3
      <3> QED
        BY <3>3, <3>4
    <2> QED
      BY <1>4, <2>1 DEF RoundsOK
  <1> QED
    BY <1>6, <1>7, <1>9, <1>10, <1>11, <1>12, <1>13 DEF DispatchInv, Rounds, KeepsInv

-----------------------------------------------------------------------------
(* Every step. *)
LEMMA DeliverKeepsInv ==
    ASSUME DispatchInv, NEW d \in Procs, NEW k \in 1..MaxRows, Deliver(d, k)
    PROVE  KeepsInv
  BY SendKeepsInv, SkipKeepsInv, SendCancelledKeepsInv, ReceiveKeepsInv, RespondKeepsInv,
     NoResponseKeepsInv, RecordKeepsInv, RecordLostKeepsInv DEF Deliver

LEMMA UnchangedKeepsInv ==
    ASSUME DispatchInv, UNCHANGED vars
    PROVE  KeepsInv
  <1>1. TablesOK' /\ UNCHANGED <<rows, mode, task, accepted, wire>>
    BY DEF DispatchInv, TablesOK, vars
  <1>2. \A d \in Procs, k \in 1..MaxRows : task[d][k].stage # "none" =>
           mode[d] \in {"running", "stopping"}
    BY HoldersUp
  <1> QED
    BY <1>1, <1>2, RestKeepsInv

LEMMA DispatchKeepsInv ==
    ASSUME DispatchInv, Dispatch, Tick => LeasesLast
    PROVE  KeepsInv
  <1>1. CASE \E d \in Procs : \/ Claim(d) \/ ClaimLost(d) \/ Shutdown(d) \/ Exit(d)
                              \/ Crash(d) \/ Restart(d) \/ ProbeAgain(d)
    BY <1>1, ClaimKeepsInv, ClaimLostKeepsInv, ShutdownKeepsInv, ExitKeepsInv, CrashKeepsInv,
       RestartKeepsInv, ProbeAgainKeepsInv
  <1>2. CASE \E d \in Procs, k \in 1..MaxRows : Deliver(d, k)
    BY <1>2, DeliverKeepsInv
  <1>3. CASE \E k \in 1..MaxRows : ArriveLate(k)
    BY <1>3, ArriveLateKeepsInv
  <1>4. CASE \E k \in DOMAIN rows : BackoffEnds(k)
    BY <1>4, BackoffEndsKeepsInv
  <1>5. CASE Tick
    BY <1>5, TickKeepsInv
  <1>6. CASE PollNothing
    BY <1>6, UnchangedKeepsInv DEF PollNothing
  <1> QED
    BY <1>1, <1>2, <1>3, <1>4, <1>5, <1>6 DEF Dispatch

LEMMA NewRowTypes ==
    ASSUME NEW o \in Aggregates
    PROVE  NewRow(o) \in Entry /\ NewRow(o).order = o /\ ~NewRow(o).processed /\ NewRow(o).attempts = 0
  <1>1. 0 \in 0..MaxAttempts /\ 0 \in 0..Lease
    BY Sizes
  <1> QED
    BY <1>1 DEF NewRow, Entry

LEMMA InsertsNewRow ==
    ASSUME DispatchInv, NEW o \in Aggregates, Insert(o)
    PROVE  KeepsInv /\ \A k \in DOMAIN rows : rows'[k] = rows[k]
  <1>1. rows \in Seq(Entry) /\ Len(rows) \in Nat /\ DOMAIN rows = 1..Len(rows)
    BY RowTypes DEF DispatchInv, TablesOK
  <1>2. PICK r : r = NewRow(o)
    OBVIOUS
  <1>3. r \in Entry /\ ~r.processed /\ r.attempts = 0
    BY <1>2, NewRowTypes
  <1>4. PICK new : new = <<r>>
    OBVIOUS
  <1>5. new \in Seq(Entry) /\ Len(new) = 1 /\ new[1] = r
    BY <1>3, <1>4
  <1>6. rows' = rows \o new
    <2>1. rows' = Append(rows, r)
      BY <1>2 DEF Insert
    <2> QED
      BY <1>1, <1>3, <1>4, <2>1, AppendIsConcat
  <1>7. Len(rows') <= MaxRows
    <2>1. Len(rows') = Len(rows) + 1 /\ Len(rows) < MaxRows
      BY <1>1, <1>5, <1>6, ConcatProperties, SMTT(30) DEF Insert
    <2> QED
      BY <1>1, <2>1, Sizes
  <1>8. \A k \in DOMAIN rows : rows'[k] = rows[k]
    BY <1>1, <1>5, <1>6, ConcatProperties
  <1>9. \A i \in 1..Len(new) : ~new[i].processed /\ new[i].attempts = 0
    BY <1>3, <1>5
  <1>10. KeepsInv
    BY <1>5, <1>6, <1>7, <1>9, InsertKeepsInv DEF Insert
  <1> QED
    BY <1>8, <1>10

LEMMA InitIsDispatchInv == Init => DispatchInv /\ Rounds
  <1> SUFFICES ASSUME Init PROVE DispatchInv /\ Rounds
    OBVIOUS
  <1>1. rows = <<>> /\ rows \in Seq(Entry) /\ Len(rows) = 0 /\ DOMAIN rows = {}
    BY EmptySeq DEF Init
  <1>2. Circuit("closed") \in Breaker
    BY ThresholdsAssumption DEF Circuit, Breaker
  <1>3. TablesOK
    BY <1>1, <1>2, NoTaskTypes, Sizes DEF Init, TablesOK
  <1>4. \A d \in Procs : Held(d) = {}
    BY NoTaskTypes DEF Init, Held
  <1> QED
    BY <1>1, <1>3, <1>4
    DEF Init, DispatchInv, RowsOK, TasksOK, Alone, WireOK, Rounds, OneLease, RoundsOK

LEMMA StepKeepsInv ==
    ASSUME DispatchInv, [Next]_vars, Tick => LeasesLast
    PROVE  KeepsInv
  BY DispatchKeepsInv, InsertsNewRow, UnchangedKeepsInv DEF Next

(* A lease that still runs after a tick did not end with it. *)
LEMMA CoveredLast ==
    ASSUME DispatchInv, Tick, LeaseCovers'
    PROVE  LeasesLast
  <1>1. ASSUME NEW d \in Procs, NEW k \in Held(d) PROVE rows[k].lease > 1
    <2>1. k \in 1..MaxRows /\ k \in DOMAIN rows /\ rows[k].lease \in 0..Lease
      BY RowTypes DEF DispatchInv, TasksOK, TaskOK, Held
    <2>2. task'[d][k].stage # "none"
      BY <2>1, TickTypes DEF Held
    <2>3. rows'[k].lease > 0 /\ rows'[k].lease = IF rows[k].lease > 0 THEN rows[k].lease - 1 ELSE 0
      BY <2>1, <2>2, TickTypes DEF LeaseCovers
    <2> QED
      BY <2>1, <2>3, Sizes
  <1> QED
    BY <1>1 DEF LeasesLast

(* What holds at every moment of a run in which no lease ends before its     *)
(* holder is through: a process that has an entry in hand is the only one,   *)
(* the entry is not done, and everything before it is.                       *)
THEOREM DispatchInvariant == Spec /\ []LeaseCovers => []DispatchInv
  <1>1. DispatchInv /\ [Next]_vars /\ LeaseCovers' => DispatchInv'
    BY StepKeepsInv, CoveredLast DEF KeepsInv
  <1> QED
    BY <1>1, InitIsDispatchInv, PTL DEF Spec

(* "duas instancias nao entreguem a mesma notificacao ao mesmo tempo"        *)
(* (README.md:102), for any number of processes, slots and faults and any    *)
(* settings, as long as no lease ends before its holder is through.          *)
THEOREM OneSender == Spec /\ []LeaseCovers => []OneSenderAtATime
  <1>1. DispatchInv => OneSenderAtATime
    BY DEF DispatchInv, Alone, Held, Active, OneSenderAtATime
  <1> QED
    BY <1>1, DispatchInvariant, PTL

(* Settings under which that premise holds in every run: so many rounds of   *)
(* the slots as a batch needs fit in a lease.  The defaults are none.        *)
THEOREM BatchesAreCovered == ASSUME BatchFits PROVE Spec => []LeaseCovers
  <1>1. ASSUME DispatchInv, Rounds, [Next]_vars PROVE DispatchInv' /\ Rounds'
    <2>1. Tick => LeasesLast
      <3>1. ASSUME Tick, NEW d \in Procs, NEW k \in Held(d) PROVE rows[k].lease > 1
        <4>1. ~Urgent(d, k)
          BY <3>1 DEF Tick, Held
        <4>2. rows[k].lease \in 2..Lease
          BY <1>1, <4>1, LeaseOutlasts
        <4> QED
          BY <4>2, Sizes
      <3> QED
        BY <3>1 DEF LeasesLast
    <2> QED
      BY <1>1, <2>1, StepKeepsInv DEF KeepsInv
  <1>2. DispatchInv => LeaseCovers
    BY DEF DispatchInv, TasksOK, TaskOK, Held, LeaseCovers
  <1>3. DispatchInv /\ Rounds /\ [Next]_vars => DispatchInv' /\ Rounds'
    BY <1>1
  <1> QED
    BY <1>2, <1>3, InitIsDispatchInv, PTL DEF Spec

-----------------------------------------------------------------------------
(* What a step may never do. *)
KeepsOutcomes ==
    \A k \in DOMAIN rows : Done(k) =>
       /\ rows'[k].processed = rows[k].processed
       /\ rows'[k].dead = rows[k].dead
       /\ rows'[k].attempts = rows[k].attempts

AcceptsInOrder ==
    \A k \in accepted' \ accepted : \A j \in 1..(k - 1) :
       rows[j].order = rows[k].order => j \in accepted \/ rows[j].dead

KeepsPlaces ==
    DOMAIN rows' = DOMAIN rows /\ \A k \in DOMAIN rows : rows'[k].order = rows[k].order

(* Only Record changes an outcome, and of an entry that has none. *)
LEMMA DispatchKeepsOutcomes ==
    ASSUME DispatchInv, Dispatch
    PROVE  KeepsOutcomes /\ KeepsPlaces
  <1>1. TablesOK
    BY DEF DispatchInv
  <1>2. CASE rows' = rows
    BY <1>2 DEF KeepsOutcomes, KeepsPlaces
  <1>3. CASE LeaseRows
    BY <1>1, <1>3, LeaseRowsTypes DEF KeepsOutcomes, KeepsPlaces
  <1>4. CASE Tick
    BY <1>4, TickTypes DEF KeepsOutcomes, KeepsPlaces
  <1>5. ASSUME NEW k \in DOMAIN rows, BackoffEnds(k)
        PROVE  KeepsOutcomes /\ KeepsPlaces
    <2>1. rows' = [rows EXCEPT ![k] = Due(rows[k])]
      BY <1>1, <1>5 DEF BackoffEnds, Due, TablesOK
    <2>2. PICK r : r = Due(rows[k])
      OBVIOUS
    <2>3. r \in Entry /\ r.order = rows[k].order /\ r.processed = rows[k].processed /\ r.dead = rows[k].dead
          /\ r.attempts = rows[k].attempts
      BY <1>1, <2>2, RowTypes, DueTypes
    <2>4. DOMAIN rows' = DOMAIN rows /\ rows'[k] = r /\ \A j \in DOMAIN rows : j # k => rows'[j] = rows[j]
      BY <1>1, <2>1, <2>2, <2>3, OneRowChanges
    <2> QED
      BY <2>3, <2>4 DEF KeepsOutcomes, KeepsPlaces
  <1>6. ASSUME NEW d \in Procs, NEW k \in 1..MaxRows, Record(d, k)
        PROVE  KeepsOutcomes /\ KeepsPlaces
    <2>1. k \in DOMAIN rows /\ Pending(k)
      BY <1>6, HoldersUp DEF Record, TaskOK
    <2>2. PICK r \in Entry : rows' = [rows EXCEPT ![k] = r] /\ r.order = rows[k].order
      BY <1>6, RecordedRow
    <2>3. /\ DOMAIN rows' = DOMAIN rows /\ rows'[k] = r
          /\ \A j \in DOMAIN rows : j # k => rows'[j] = rows[j]
      BY <1>1, <2>1, <2>2, OneRowChanges
    <2> QED
      BY <2>1, <2>2, <2>3 DEF KeepsOutcomes, KeepsPlaces, Done, Pending
  <1>7. \/ rows' = rows \/ LeaseRows \/ Tick
        \/ \E k \in DOMAIN rows : BackoffEnds(k)
        \/ \E d \in Procs, k \in 1..MaxRows : Record(d, k)
    <2>1. ASSUME NEW d \in Procs, NEW k \in 1..MaxRows, Deliver(d, k)
          PROVE  rows' = rows \/ Record(d, k)
      BY <2>1 DEF Deliver, Send, Skip, SendCancelled, Receive, Respond, NoResponse, RecordLost
    <2>2. ASSUME NEW d \in Procs, \/ Claim(d) \/ ClaimLost(d) \/ Shutdown(d) \/ Exit(d)
                                  \/ Crash(d) \/ Restart(d) \/ ProbeAgain(d)
          PROVE  rows' = rows \/ LeaseRows
      BY <2>2 DEF Claim, ClaimLost, Shutdown, Exit, Crash, Restart, ProbeAgain
    <2>3. ASSUME NEW k \in 1..MaxRows, ArriveLate(k) PROVE rows' = rows
      BY <2>3 DEF ArriveLate
    <2>4. ASSUME PollNothing PROVE rows' = rows
      BY <2>4 DEF PollNothing, vars
    <2> QED
      BY <2>1, <2>2, <2>3, <2>4 DEF Dispatch
  <1> QED
    BY <1>2, <1>3, <1>4, <1>5, <1>6, <1>7

(* What the receiver accepts is on the wire, or somebody is sending it. *)
LEMMA NewlyAccepted ==
    ASSUME Dispatch, NEW k \in accepted' \ accepted
    PROVE  /\ k \in 1..MaxRows
           /\ k \in wire \/ \E d \in Procs : task[d][k].stage = "sending"
  <1>1. ASSUME NEW d \in Procs, NEW j \in 1..MaxRows, Deliver(d, j)
        PROVE  j = k /\ task[d][j].stage = "sending"
    BY <1>1
    DEF Deliver, Send, Skip, SendCancelled, Receive, Respond, NoResponse, Record, RecordLost
  <1>2. ASSUME NEW j \in 1..MaxRows, ArriveLate(j) PROVE j = k /\ k \in wire
    BY <1>2 DEF ArriveLate
  <1>3. ASSUME NEW d \in Procs, \/ Claim(d) \/ ClaimLost(d) \/ Shutdown(d) \/ Exit(d)
                                \/ Crash(d) \/ Restart(d) \/ ProbeAgain(d)
        PROVE  accepted' = accepted
    BY <1>3 DEF Claim, ClaimLost, Shutdown, Exit, Crash, Restart, ProbeAgain
  <1>4. ASSUME NEW j \in DOMAIN rows, BackoffEnds(j) PROVE accepted' = accepted
    BY <1>4 DEF BackoffEnds
  <1>5. ASSUME Tick \/ PollNothing PROVE accepted' = accepted
    BY <1>5 DEF Tick, PollNothing, vars
  <1> QED
    BY <1>1, <1>2, <1>3, <1>4, <1>5 DEF Dispatch

(* What may still arrive, and what is sent, has nothing undone before it;    *)
(* and what is done by delivery has been accepted.                           *)
LEMMA DispatchAcceptsInOrder ==
    ASSUME DispatchInv, Dispatch
    PROVE  AcceptsInOrder
  <1>1. TablesOK /\ RowsOK
    BY DEF DispatchInv
  <1>2. ASSUME NEW k \in accepted' \ accepted
        PROVE  k \in DOMAIN rows /\ EarlierDone(k)
    <2>1. k \in 1..MaxRows /\ (k \in wire \/ \E d \in Procs : task[d][k].stage = "sending")
      BY <1>2, NewlyAccepted
    <2>2. CASE k \in wire
      BY <1>1, <2>2 DEF DispatchInv, WireOK, TablesOK
    <2>3. CASE \E d \in Procs : task[d][k].stage = "sending"
      BY <2>1, <2>3, HoldersUp DEF TaskOK
    <2> QED
      BY <2>1, <2>2, <2>3
  <1>3. ASSUME NEW k \in accepted' \ accepted, NEW j \in 1..(k - 1), rows[j].order = rows[k].order
        PROVE  j \in accepted \/ rows[j].dead
    <2>1. k \in DOMAIN rows /\ Done(j)
      BY <1>2, <1>3 DEF EarlierDone
    <2>2. j \in DOMAIN rows
      BY <1>1, <2>1, RowTypes
    <2> QED
      BY <1>1, <2>1, <2>2 DEF RowsOK, Done
  <1> QED
    BY <1>3 DEF AcceptsInOrder

LEMMA OtherStepsKeep ==
    ASSUME DispatchInv, [Next]_vars, ~Dispatch
    PROVE  KeepsOutcomes /\ AcceptsInOrder
  <1>1. ASSUME NEW o \in Aggregates, Insert(o) PROVE KeepsOutcomes /\ AcceptsInOrder
    <2>1. accepted' = accepted
      BY <1>1 DEF Insert
    <2> QED
      BY <1>1, <2>1, InsertsNewRow DEF KeepsOutcomes, AcceptsInOrder
  <1>2. CASE UNCHANGED vars
    BY <1>2 DEF vars, KeepsOutcomes, AcceptsInOrder
  <1> QED
    BY <1>1, <1>2 DEF Next

(* "A dead entry is never retried" (outbox.go:78), and a delivered one       *)
(* neither: as long as no lease ends before its holder is through, no        *)
(* outcome is ever changed, whatever a process still believes.               *)
THEOREM OutcomesAreFinal == Spec /\ []LeaseCovers => DoneIsFinal
  <1>1. DispatchInv /\ [Next]_vars => KeepsOutcomes
    BY DispatchKeepsOutcomes, OtherStepsKeep
  <1>2. DispatchInv /\ [Next]_vars =>
           [\A k \in DOMAIN rows : Done(k) =>
              /\ rows'[k].processed = rows[k].processed
              /\ rows'[k].dead = rows[k].dead
              /\ rows'[k].attempts = rows[k].attempts]_vars
    BY <1>1 DEF KeepsOutcomes
  <1> QED
    BY <1>2, DispatchInvariant, PTL DEF Spec, DoneIsFinal

(* Whatever is retried, duplicated, late or taken over, the receiver accepts *)
(* an entry for the first time after every earlier one of its order, as long *)
(* as no lease ends before its holder is through.                            *)
THEOREM ReceivedInOrder == Spec /\ []LeaseCovers => DeliveredInOrder
  <1>1. DispatchInv /\ [Next]_vars => AcceptsInOrder
    BY DispatchAcceptsInOrder, OtherStepsKeep
  <1>2. DispatchInv /\ [Next]_vars =>
           [\A k \in accepted' \ accepted : \A j \in 1..(k - 1) :
              rows[j].order = rows[k].order => j \in accepted \/ rows[j].dead]_vars
    BY <1>1 DEF AcceptsInOrder
  <1> QED
    BY <1>2, DispatchInvariant, PTL DEF Spec, DeliveredInOrder

-----------------------------------------------------------------------------
(* OutcomesAreEarned, for one entry. *)
Earned(k) ==
    /\ rows'[k].attempts # rows[k].attempts =>
          /\ rows'[k].attempts = rows[k].attempts + 1
          /\ \E d \in Procs : EndsWith(d, k, {"ok", "retry", "error", "reject"})
    /\ rows'[k].dead /\ ~rows[k].dead =>
          \/ rows'[k].attempts = MaxAttempts
          \/ \E d \in Procs : EndsWith(d, k, {"reject"})
    /\ rows'[k].attempts >= MaxAttempts => rows'[k].processed \/ rows'[k].dead
    /\ rows'[k].processed /\ ~rows[k].processed => k \in accepted
    /\ \A d \in Procs :
          /\ EndsWith(d, k, {"ok"}) => rows'[k] = rows[k] \/ rows'[k].processed
          /\ EndsWith(d, k, {"reject"}) => rows'[k] = rows[k] \/ rows'[k].dead

(* An entry whose outcome stays, while nobody ends with it or its row stays. *)
LEMMA KeptIsEarned ==
    ASSUME DispatchInv, NEW k \in DOMAIN rows,
           rows'[k].attempts = rows[k].attempts, rows'[k].dead = rows[k].dead,
           rows'[k].processed = rows[k].processed,
           \/ rows'[k] = rows[k]
           \/ \A d \in Procs : task[d][k].stage = "answered" => task'[d][k].stage = "answered"
    PROVE  Earned(k)
  <1>1. rows[k].attempts \in 0..MaxAttempts
    BY RowTypes DEF DispatchInv
  <1>2. rows[k].attempts >= MaxAttempts => rows[k].processed \/ rows[k].dead
    BY <1>1, Sizes DEF DispatchInv, RowsOK, Pending
  <1>3. ASSUME NEW d \in Procs, NEW answers, EndsWith(d, k, answers) PROVE rows'[k] = rows[k]
    BY <1>3, NoTaskTypes DEF EndsWith
  <1> QED
    BY <1>2, <1>3 DEF Earned

(* The statement about an entry says what its request came to. *)
LEMMA RecordIsEarned ==
    ASSUME DispatchInv, NEW d \in Procs, NEW k \in 1..MaxRows, Record(d, k)
    PROVE  \A j \in DOMAIN rows : Earned(j)
  <1>1. TablesOK /\ k \in DOMAIN rows /\ rows[k] \in Entry /\ TaskOK(d, k)
    BY HoldersUp, RowTypes DEF DispatchInv, Record, TaskOK
  <1>2. rows[k].attempts < MaxAttempts /\ ~rows[k].processed /\ ~rows[k].dead
    BY <1>1 DEF DispatchInv, RowsOK, TaskOK, Pending
  <1>3. task[d][k].attempts = rows[k].attempts /\ rows[k].attempts \in 0..MaxAttempts
    BY <1>1, RowTypes DEF TaskOK
  <1>4. task' = [task EXCEPT ![d] = [task[d] EXCEPT ![k] = NoTask]]
    BY <1>1 DEF Record, Forget, TablesOK
  <1>5. task'[d][k] = NoTask /\ OthersStay(d, k) /\ task[d][k].stage = "answered"
    BY <1>1, <1>4, NoTaskTypes, OneTaskChanges DEF Record
  <1>6. ASSUME NEW c \in Procs, NEW answers, EndsWith(c, k, answers) PROVE c = d
    BY <1>5, <1>6, NoTaskTypes DEF EndsWith, OthersStay
  <1>7. ASSUME NEW r \in Entry, rows' = [rows EXCEPT ![k] = r]
        PROVE  rows'[k] = r /\ \A j \in DOMAIN rows : j # k => Earned(j)
    <2>1. rows'[k] = r /\ \A j \in DOMAIN rows : j # k => rows'[j] = rows[j]
      BY <1>1, <1>7, OneRowChanges
    <2> QED
      BY <2>1, KeptIsEarned
  <1>8. CASE task[d][k].answer = "ok" /\ MarkDelivered(k)
    <2>1. PICK r : r = Delivered(rows[k])
      OBVIOUS
    <2>2. rows' = [rows EXCEPT ![k] = r]
      BY <1>1, <1>8, <2>1 DEF MarkDelivered, Delivered, TablesOK
    <2>3. r \in Entry /\ r.processed /\ r.attempts = rows[k].attempts + 1 /\ r.dead = rows[k].dead
      <3>1. r \in Entry /\ r.processed
        BY <1>1, <1>2, <2>1, RowEdits
      <3> QED
        BY <1>1, <2>1, <3>1 DEF Delivered, Entry
    <2>4. Earned(k)
      <3>1. EndsWith(d, k, {"ok", "retry", "error", "reject"}) /\ k \in accepted
        BY <1>1, <1>5, <1>8 DEF EndsWith, TaskOK
      <3>2. ~EndsWith(d, k, {"reject"})
        BY <1>8 DEF EndsWith
      <3> QED
        BY <1>2, <1>6, <1>7, <2>2, <2>3, <3>1, <3>2 DEF Earned
    <2> QED
      BY <1>7, <2>2, <2>3, <2>4
  <1>9. CASE task[d][k].answer \in {"skipped", "retry", "error"} /\ Release(k)
    <2>1. PICK r : r = Released(rows[k])
      OBVIOUS
    <2>2. rows' = [rows EXCEPT ![k] = r]
      BY <1>1, <1>9, <2>1 DEF Release, Released, TablesOK
    <2>3. /\ r \in Entry /\ r.attempts = rows[k].attempts /\ r.dead = rows[k].dead
          /\ r.processed = rows[k].processed
      BY <1>1, <1>2, <2>1, RowEdits
    <2>4. Earned(k)
      <3>1. ~EndsWith(d, k, {"reject"}) /\ ~EndsWith(d, k, {"ok"})
        BY <1>9 DEF EndsWith
      <3>2. ~ (rows[k].attempts >= MaxAttempts)
        BY <1>2, <1>3, Sizes
      <3> QED
        BY <1>2, <1>6, <1>7, <2>2, <2>3, <3>1, <3>2 DEF Earned
    <2> QED
      BY <1>7, <2>2, <2>3, <2>4
  <1>10. ASSUME NEW due \in BOOLEAN, NEW dead \in BOOLEAN, MarkFailed(k, due, dead),
                task[d][k].answer \in {"retry", "error", "reject"},
                \/ task[d][k].answer # "reject" /\ dead = Exhausted(task[d][k])
                \/ dead /\ task[d][k].answer = "reject"
         PROVE  \A j \in DOMAIN rows : Earned(j)
    <2>1. PICK r : r = Failed(rows[k], due, dead)
      OBVIOUS
    <2>2. rows' = [rows EXCEPT ![k] = r]
      BY <1>1, <1>10, <2>1 DEF MarkFailed, Failed, TablesOK
    <2>3. /\ r \in Entry /\ r.processed = rows[k].processed
          /\ r.attempts = rows[k].attempts + 1 /\ r.dead = dead
      BY <1>1, <1>2, <2>1, RowEdits
    <2>4. /\ EndsWith(d, k, {"ok", "retry", "error", "reject"}) /\ ~EndsWith(d, k, {"ok"})
          /\ EndsWith(d, k, {"reject"}) \/ dead = (rows[k].attempts + 1 >= MaxAttempts)
          /\ EndsWith(d, k, {"reject"}) => dead
      BY <1>3, <1>5, <1>10 DEF EndsWith, Exhausted
    <2>5. Earned(k)
      <3>1. ASSUME dead, ~EndsWith(d, k, {"reject"}) PROVE rows'[k].attempts = MaxAttempts
        <4>1. rows[k].attempts + 1 >= MaxAttempts
          BY <2>4, <3>1
        <4>2. rows'[k].attempts = rows[k].attempts + 1
          BY <1>7, <2>2, <2>3
        <4> QED
          BY <1>2, <1>3, <4>1, <4>2, Sizes
      <3>2. rows'[k].attempts >= MaxAttempts => dead
        BY <1>3, <1>7, <2>2, <2>3, <2>4, Sizes
      <3> QED
        BY <1>2, <1>6, <1>7, <2>2, <2>3, <2>4, <3>1, <3>2 DEF Earned
    <2> QED
      BY <1>7, <2>2, <2>3, <2>5
  <1>11. Exhausted(task[d][k]) \in BOOLEAN
    BY DEF Exhausted
  <1> QED
    BY <1>8, <1>9, <1>10, <1>11 DEF Record, Retryable

LEMMA StepIsEarned ==
    ASSUME DispatchInv, [Next]_vars
    PROVE  \A k \in DOMAIN rows : Earned(k)
  <1>1. TablesOK
    BY DEF DispatchInv
  <1>2. CASE rows' = rows
    BY <1>2, KeptIsEarned
  <1>3. ASSUME NEW d \in Procs, Claim(d) \/ ClaimLost(d)
        PROVE  \A k \in DOMAIN rows : Earned(k)
    <2>1. LeaseRows /\ \A c \in Procs : c # d => task'[c] = task[c]
      BY <1>1, <1>3, ClaimTypes DEF Claim, ClaimLost
    <2>2. \A k \in 1..MaxRows : task[d][k].stage = "none"
      BY <1>3, NoTaskTypes DEF Claim, ClaimLost
    <2>3. \A k \in DOMAIN rows : k \in 1..MaxRows
      BY <1>1, RowTypes
    <2> QED
      BY <1>1, <2>1, <2>2, <2>3, LeaseRowsTypes, KeptIsEarned
  <1>4. CASE Tick
    <2>1. \A k \in DOMAIN rows : k \in 1..MaxRows
      BY <1>1, RowTypes
    <2> QED
      BY <1>4, <2>1, TickTypes, KeptIsEarned
  <1>5. ASSUME NEW k \in DOMAIN rows, BackoffEnds(k)
        PROVE  \A j \in DOMAIN rows : Earned(j)
    <2>1. rows' = [rows EXCEPT ![k] = Due(rows[k])] /\ task' = task
      BY <1>1, <1>5 DEF BackoffEnds, Due, TablesOK
    <2>2. PICK r : r = Due(rows[k])
      OBVIOUS
    <2>3. r \in Entry /\ r.processed = rows[k].processed /\ r.dead = rows[k].dead
          /\ r.attempts = rows[k].attempts
      BY <1>1, <2>2, RowTypes, DueTypes
    <2>4. rows'[k] = r /\ \A j \in DOMAIN rows : j # k => rows'[j] = rows[j]
      BY <1>1, <2>1, <2>2, <2>3, OneRowChanges
    <2> QED
      BY <2>1, <2>3, <2>4, KeptIsEarned
  <1>6. ASSUME NEW o \in Aggregates, Insert(o)
        PROVE  \A k \in DOMAIN rows : Earned(k)
    BY <1>6, InsertsNewRow, KeptIsEarned
  <1>7. \/ rows' = rows \/ Tick
        \/ \E d \in Procs : Claim(d) \/ ClaimLost(d)
        \/ \E k \in DOMAIN rows : BackoffEnds(k)
        \/ \E d \in Procs, k \in 1..MaxRows : Record(d, k)
        \/ \E o \in Aggregates : Insert(o)
    <2>1. ASSUME NEW d \in Procs, NEW k \in 1..MaxRows, Deliver(d, k)
          PROVE  rows' = rows \/ Record(d, k)
      BY <2>1 DEF Deliver, Send, Skip, SendCancelled, Receive, Respond, NoResponse, RecordLost
    <2>2. ASSUME NEW d \in Procs,
                 Shutdown(d) \/ Exit(d) \/ Crash(d) \/ Restart(d) \/ ProbeAgain(d)
          PROVE  rows' = rows
      BY <2>2 DEF Shutdown, Exit, Crash, Restart, ProbeAgain
    <2>3. ASSUME NEW k \in 1..MaxRows, ArriveLate(k) PROVE rows' = rows
      BY <2>3 DEF ArriveLate
    <2>4. ASSUME PollNothing \/ UNCHANGED vars PROVE rows' = rows
      BY <2>4 DEF PollNothing, vars
    <2> QED
      BY <2>1, <2>2, <2>3, <2>4 DEF Next, Dispatch
  <1> QED
    BY <1>2, <1>3, <1>4, <1>5, <1>6, <1>7, RecordIsEarned

(* Attempts count answers, one each; an entry is dead exactly when they have *)
(* reached MaxAttempts or the receiver has rejected it, and processed only   *)
(* when it was accepted; no such answer is given back (dispatcher.go:241 to  *)
(* 260).  This needs that nobody records an outcome of an entry that         *)
(* somebody else has: that no lease ends before its holder is through.       *)
THEOREM OutcomesEarned == Spec /\ []LeaseCovers => OutcomesAreEarned
  <1>1. DispatchInv /\ [Next]_vars => \A k \in DOMAIN rows : Earned(k)
    BY StepIsEarned
  <1>2. DispatchInv /\ [Next]_vars =>
    [\A k \in DOMAIN rows :
          /\ rows'[k].attempts # rows[k].attempts =>
                /\ rows'[k].attempts = rows[k].attempts + 1
                /\ \E d \in Procs : EndsWith(d, k, {"ok", "retry", "error", "reject"})
          /\ rows'[k].dead /\ ~rows[k].dead =>
                \/ rows'[k].attempts = MaxAttempts
                \/ \E d \in Procs : EndsWith(d, k, {"reject"})
          /\ rows'[k].attempts >= MaxAttempts => rows'[k].processed \/ rows'[k].dead
          /\ rows'[k].processed /\ ~rows[k].processed => k \in accepted
          /\ \A d \in Procs :
                /\ EndsWith(d, k, {"ok"}) => rows'[k] = rows[k] \/ rows'[k].processed
                /\ EndsWith(d, k, {"reject"}) => rows'[k] = rows[k] \/ rows'[k].dead]_vars
    BY <1>1 DEF Earned
  <1> QED
    BY <1>2, DispatchInvariant, PTL DEF Spec, OutcomesAreEarned

-----------------------------------------------------------------------------
(* What holds in every run, where leases end before their holders too.  An  *)
(* entry may then be in the hands of several processes, be tried and counted *)
(* more often than MaxAttempts, and come back from the dead; its place in    *)
(* the order and the fact that it has been tried do not change.              *)
AnyEntry == [order : Aggregates, processed : BOOLEAN, dead : BOOLEAN,
             attempts : Nat, due : BOOLEAN, lease : 0..Lease]

AnyTask == [stage : {"none", "waiting", "sending", "received", "answered"}, age : Nat,
            answer : {"none", "ok", "retry", "reject", "error", "skipped"},
            attempts : Nat, fresh : BOOLEAN]

EarlierTried(k) ==
    \A j \in 1..(k - 1) :
       rows[j].order = rows[k].order => j \in accepted \/ rows[j].attempts > 0

ShapeOK ==
    /\ rows \in Seq(AnyEntry)
    /\ task \in [Procs -> [1..MaxRows -> AnyTask]]
    /\ accepted \subseteq DOMAIN rows

(* Whoever has claimed an entry found everything before it tried or accepted,*)
(* and what a row says of its delivery is true.                              *)
TurnsInv ==
    /\ ShapeOK
    /\ \A k \in DOMAIN rows : /\ rows[k].processed => k \in accepted
                              /\ rows[k].dead => rows[k].attempts > 0
    /\ \A d \in Procs, k \in 1..MaxRows :
          /\ task[d][k].stage # "none" => k \in DOMAIN rows /\ EarlierTried(k)
          /\ task[d][k].answer = "ok" => k \in accepted
    /\ \A k \in wire : k \in DOMAIN rows /\ EarlierTried(k)

LEMMA AnyRowTypes ==
    ASSUME ShapeOK
    PROVE  /\ Len(rows) \in Nat /\ DOMAIN rows = 1..Len(rows)
           /\ \A k \in DOMAIN rows : rows[k] \in AnyEntry /\ rows[k].attempts \in Nat
  <1>1. Len(rows) \in Nat /\ DOMAIN rows = 1..Len(rows) /\ \A k \in DOMAIN rows : rows[k] \in AnyEntry
    BY LenProperties, ElementOfSeq DEF ShapeOK
  <1> QED
    BY <1>1 DEF AnyEntry

(* A step that no entry loses its turn by: the places stay, attempts and     *)
(* acceptances are not forgotten, and a new task or request is no overtaking.*)
LEMMA TurnsStay ==
    ASSUME TurnsInv, ShapeOK',
           \A k \in DOMAIN rows : /\ k \in DOMAIN rows' /\ rows'[k].order = rows[k].order
                                  /\ rows'[k].attempts >= rows[k].attempts,
           accepted \subseteq accepted',
           \A k \in DOMAIN rows' : /\ rows'[k].processed => k \in accepted'
                                   /\ rows'[k].dead => rows'[k].attempts > 0,
           \A d \in Procs, k \in 1..MaxRows :
              /\ task'[d][k].stage # "none" =>
                    task[d][k].stage # "none" \/ (k \in DOMAIN rows /\ EarlierTried(k))
              /\ task'[d][k].answer = "ok" => task[d][k].answer = "ok" \/ k \in accepted',
           \A k \in wire' : k \in wire \/ \E d \in Procs : k \in 1..MaxRows /\ task[d][k].stage # "none"
    PROVE  TurnsInv'
  <1>1. Len(rows) \in Nat /\ DOMAIN rows = 1..Len(rows)
        /\ \A k \in DOMAIN rows : rows[k].attempts \in Nat
    BY AnyRowTypes DEF TurnsInv
  <1>2. \A k \in DOMAIN rows' : rows'[k].attempts \in Nat
    <2>1. \A k \in DOMAIN rows' : rows'[k] \in AnyEntry
      BY LenProperties, ElementOfSeq DEF ShapeOK
    <2> QED
      BY <2>1 DEF AnyEntry
  <1>3. ASSUME NEW k \in DOMAIN rows, EarlierTried(k) PROVE EarlierTried(k)'
    <2>1. ASSUME NEW j \in 1..(k - 1), rows'[j].order = rows'[k].order
          PROVE  j \in accepted' \/ rows'[j].attempts > 0
      <3>1. j \in DOMAIN rows /\ j \in DOMAIN rows'
        BY <1>1
      <3>2. rows[j].order = rows[k].order
        BY <2>1, <3>1
      <3>3. j \in accepted \/ rows[j].attempts > 0
        BY <1>3, <3>2 DEF EarlierTried
      <3> QED
        BY <1>1, <1>2, <3>1, <3>3
    <2> QED
      BY <2>1 DEF EarlierTried
  <1>4. ASSUME NEW d \in Procs, NEW k \in 1..MaxRows
        PROVE  /\ task'[d][k].stage # "none" => k \in DOMAIN rows' /\ EarlierTried(k)'
               /\ task'[d][k].answer = "ok" => k \in accepted'
    BY <1>3 DEF TurnsInv
  <1>5. ASSUME NEW k \in wire' PROVE k \in DOMAIN rows' /\ EarlierTried(k)'
    BY <1>3 DEF TurnsInv
  <1> QED
    BY <1>4, <1>5 DEF TurnsInv

(* One process changes what it has in hand. *)
LEMMA TaskTurns ==
    ASSUME TurnsInv, NEW d \in Procs, NEW f \in [1..MaxRows -> AnyTask],
           task' = [task EXCEPT ![d] = f], rows' = rows, accepted \subseteq accepted',
           accepted' \subseteq DOMAIN rows,
           \A k \in 1..MaxRows :
              /\ f[k].stage # "none" => task[d][k].stage # "none"
              /\ f[k].answer = "ok" => task[d][k].answer = "ok" \/ k \in accepted',
           \A k \in wire' : k \in wire \/ \E c \in Procs : k \in 1..MaxRows /\ task[c][k].stage # "none"
    PROVE  TurnsInv'
  <1>1. ShapeOK
    BY DEF TurnsInv
  <1>2. /\ task' \in [Procs -> [1..MaxRows -> AnyTask]] /\ task'[d] = f
        /\ \A c \in Procs : c # d => task'[c] = task[c]
    BY <1>1 DEF ShapeOK
  <1>3. ShapeOK'
    BY <1>1, <1>2 DEF ShapeOK
  <1>4. \A k \in DOMAIN rows : rows'[k].attempts >= rows[k].attempts
    BY <1>1, AnyRowTypes
  <1>5. \A c \in Procs, k \in 1..MaxRows :
           /\ task'[c][k].stage # "none" => task[c][k].stage # "none"
           /\ task'[c][k].answer = "ok" => task[c][k].answer = "ok" \/ k \in accepted'
    BY <1>2
  <1>6. \A k \in DOMAIN rows' : /\ rows'[k].processed => k \in accepted'
                                /\ rows'[k].dead => rows'[k].attempts > 0
    BY DEF TurnsInv
  <1> QED
    BY <1>3, <1>4, <1>5, <1>6, TurnsStay

(* What deliver makes of what it has in hand, whatever the numbers in it. *)
LEMMA AnyTaskEdits ==
    ASSUME NEW t \in AnyTask, NEW stage \in {"received", "answered"},
           NEW answer \in {"none", "ok", "retry", "reject", "error", "skipped"}
    PROVE  /\ Unheard(t) \in AnyTask /\ Unheard(t).stage = t.stage /\ Unheard(t).answer = t.answer
           /\ Begun(t) \in AnyTask /\ Begun(t).answer = t.answer
           /\ Advanced(t, stage, answer) \in AnyTask /\ Advanced(t, stage, answer).answer = answer
           /\ Settled(t, answer) \in AnyTask /\ Settled(t, answer).answer = answer
           /\ Aged(t) \in AnyTask /\ Aged(t).stage = t.stage /\ Aged(t).answer = t.answer
  <1>1. Unheard(t) \in AnyTask /\ Unheard(t).stage = t.stage /\ Unheard(t).answer = t.answer
    BY DEF AnyTask, Unheard
  <1>2. Begun(t) \in AnyTask /\ Begun(t).answer = t.answer
    BY DEF AnyTask, Begun
  <1>3. Advanced(t, stage, answer) \in AnyTask /\ Advanced(t, stage, answer).answer = answer
    BY DEF AnyTask, Advanced
  <1>4. Settled(t, answer) \in AnyTask /\ Settled(t, answer).answer = answer
    BY DEF AnyTask, Settled
  <1>5. Aged(t) \in AnyTask /\ Aged(t).stage = t.stage /\ Aged(t).answer = t.answer
    BY DEF AnyTask, Aged
  <1> QED
    BY <1>1, <1>2, <1>3, <1>4, <1>5

LEMMA NoTaskIsAny == NoTask \in AnyTask /\ NoTask.stage = "none" /\ NoTask.answer = "none"
  BY DEF NoTask, AnyTask

(* deliver before its last statement, for the entry that it is about. *)
LEMMA DeliverTurns ==
    ASSUME TurnsInv, NEW d \in Procs, NEW k \in 1..MaxRows,
           \/ Send(d, k) \/ Skip(d, k) \/ SendCancelled(d, k)
           \/ Receive(d, k) \/ Respond(d, k) \/ NoResponse(d, k) \/ RecordLost(d, k)
    PROVE  TurnsInv'
  <1>1. /\ ShapeOK /\ task \in [Procs -> [1..MaxRows -> AnyTask]]
        /\ task[d] \in [1..MaxRows -> AnyTask] /\ task[d][k] \in AnyTask
    BY DEF TurnsInv, ShapeOK
  <1>2. task[d][k].stage # "none" /\ k \in DOMAIN rows
    BY DEF Send, Skip, SendCancelled, Receive, Respond, NoResponse, RecordLost, CanStart, Sending,
           TurnsInv
  <1>3. rows' = rows /\ accepted \subseteq accepted' /\ accepted' \subseteq DOMAIN rows
    BY <1>1, <1>2
    DEF Send, Skip, SendCancelled, Receive, Respond, NoResponse, RecordLost, ShapeOK
  <1>4. \A j \in wire' : j \in wire \/ j = k
    BY DEF Send, Skip, SendCancelled, Receive, Respond, NoResponse, RecordLost
  <1>5. ASSUME NEW t \in AnyTask, t.answer = "ok" => task[d][k].answer = "ok" \/ k \in accepted',
               task' = [task EXCEPT ![d] = [task[d] EXCEPT ![k] = t]]
        PROVE  TurnsInv'
    <2>1. PICK f \in [1..MaxRows -> AnyTask] : f = [task[d] EXCEPT ![k] = t]
      BY <1>1
    <2>2. f[k] = t /\ \A j \in 1..MaxRows : j # k => f[j] = task[d][j]
      BY <1>1, <2>1
    <2>3. \A j \in 1..MaxRows :
             /\ f[j].stage # "none" => task[d][j].stage # "none"
             /\ f[j].answer = "ok" => task[d][j].answer = "ok" \/ j \in accepted'
      BY <1>2, <1>5, <2>2
    <2> QED
      BY <1>2, <1>3, <1>4, <1>5, <2>1, <2>3, TaskTurns
  <1>6. ASSUME NEW t \in AnyTask, t.answer = "ok" => task[d][k].answer = "ok",
               NEW stale \in BOOLEAN, Ends(d, k, t, stale)
        PROVE  TurnsInv'
    <2>1. PICK f : f = [j \in 1..MaxRows |-> IF j = k THEN t
                          ELSE IF stale THEN Unheard(task[d][j]) ELSE task[d][j]]
      OBVIOUS
    <2>2. task' = [task EXCEPT ![d] = f]
      BY <1>1, <1>6, <2>1 DEF Ends, Unheard
    <2>3. ASSUME NEW j \in 1..MaxRows
          PROVE  /\ f[j] \in AnyTask
                 /\ f[j].stage # "none" => task[d][j].stage # "none"
                 /\ f[j].answer = "ok" => task[d][j].answer = "ok"
      <3>1. task[d][j] \in AnyTask
        BY <1>1
      <3>2. f[j] = IF j = k THEN t ELSE IF stale THEN Unheard(task[d][j]) ELSE task[d][j]
        BY <2>1
      <3> QED
        BY <1>2, <1>6, <3>1, <3>2, AnyTaskEdits
    <2>4. f = [j \in 1..MaxRows |-> f[j]]
      BY <2>1
    <2>5. f \in [1..MaxRows -> AnyTask]
      BY <2>3, <2>4
    <2> QED
      BY <1>2, <1>3, <1>4, <2>2, <2>3, <2>5, TaskTurns
  <1>7. CASE Send(d, k)
    <2>1. task' = [task EXCEPT ![d] = [task[d] EXCEPT ![k] = Begun(task[d][k])]]
      BY <1>1, <1>7 DEF Send, Begun
    <2>2. PICK t : t = Begun(task[d][k])
      OBVIOUS
    <2>3. t \in AnyTask /\ t.answer = task[d][k].answer
      BY <1>1, <2>2, AnyTaskEdits
    <2> QED
      BY <1>5, <2>1, <2>2, <2>3
  <1>8. CASE Skip(d, k)
    <2>1. task' = [task EXCEPT ![d] = [task[d] EXCEPT ![k] = Advanced(task[d][k], "answered", "skipped")]]
      BY <1>1, <1>8 DEF Skip, Advanced
    <2>2. PICK t : t = Advanced(task[d][k], "answered", "skipped")
      OBVIOUS
    <2>3. t \in AnyTask /\ t.answer = "skipped"
      BY <1>1, <2>2, AnyTaskEdits
    <2> QED
      BY <1>5, <2>1, <2>2, <2>3
  <1>9. CASE Receive(d, k)
    <2>1. PICK verdict \in {"ok", "retry", "reject"} :
            /\ task' = [task EXCEPT ![d][k].stage = "received", ![d][k].answer = verdict]
            /\ accepted' = IF verdict = "ok" THEN accepted \cup {k} ELSE accepted
      BY <1>9 DEF Receive
    <2>2. PICK t : t = Advanced(task[d][k], "received", verdict)
      OBVIOUS
    <2>3. t \in AnyTask /\ t.answer = verdict
      BY <1>1, <2>2, AnyTaskEdits
    <2>4. task' = [task EXCEPT ![d] = [task[d] EXCEPT ![k] = t]]
      BY <1>1, <2>1, <2>2 DEF Advanced
    <2> QED
      BY <1>5, <2>1, <2>3, <2>4
  <1>10. CASE RecordLost(d, k)
    <2>1. task' = [task EXCEPT ![d] = [task[d] EXCEPT ![k] = NoTask]]
      BY <1>1, <1>10 DEF RecordLost, Forget
    <2> QED
      BY <1>5, <2>1, NoTaskIsAny
  <1>11. CASE SendCancelled(d, k)
    <2>1. PICK b : b = Fail(Admit(breaker[d]))
      OBVIOUS
    <2>2. PICK stale \in BOOLEAN : stale = (b.state # breaker[d].state)
      OBVIOUS
    <2>3. PICK t : t = Advanced(task[d][k], "answered", "error")
      OBVIOUS
    <2>4. Ends(d, k, t, stale)
      BY <1>1, <1>11, <2>1, <2>2, <2>3 DEF SendCancelled, Ends, Advanced
    <2>5. t \in AnyTask /\ t.answer = "error"
      BY <1>1, <2>3, AnyTaskEdits
    <2> QED
      BY <1>6, <2>4, <2>5
  <1>12. ASSUME NEW answer \in {"none", "ok", "retry", "reject", "error", "skipped"},
                answer = "ok" => task[d][k].answer = "ok", Settle(d, k, answer)
         PROVE  TurnsInv'
    <2>1. PICK b : b = IF ~task[d][k].fresh THEN breaker[d]
                       ELSE IF Retryable(answer) THEN Fail(breaker[d]) ELSE Succeed(breaker[d])
      OBVIOUS
    <2>2. PICK stale \in BOOLEAN : stale = (b.state # breaker[d].state)
      OBVIOUS
    <2>3. PICK t : t = Settled(task[d][k], answer)
      OBVIOUS
    <2>4. Ends(d, k, t, stale)
      BY <1>1, <1>12, <2>1, <2>2, <2>3 DEF Settle, Ends, Settled
    <2>5. t \in AnyTask /\ t.answer = answer
      BY <1>1, <2>3, AnyTaskEdits
    <2> QED
      BY <1>6, <1>12, <2>4, <2>5
  <1>13. CASE Respond(d, k)
    <2>1. PICK answer \in {"none", "ok", "retry", "reject", "error", "skipped"} :
             answer = task[d][k].answer
      BY <1>1 DEF AnyTask
    <2> QED
      BY <1>12, <1>13, <2>1 DEF Respond
  <1>14. CASE NoResponse(d, k)
    BY <1>12, <1>14 DEF NoResponse
  <1> QED
    BY <1>7, <1>8, <1>9, <1>10, <1>11, <1>13, <1>14

(* The statements change what an entry has gone through, and no more. *)
LEMMA AnyRowEdits ==
    ASSUME NEW r \in AnyEntry, NEW due \in BOOLEAN, NEW dead \in BOOLEAN
    PROVE  /\ Delivered(r) \in AnyEntry /\ Delivered(r).order = r.order
           /\ Delivered(r).attempts = r.attempts + 1
           /\ Failed(r, due, dead) \in AnyEntry /\ Failed(r, due, dead).order = r.order
           /\ Failed(r, due, dead).attempts = r.attempts + 1
           /\ Failed(r, due, dead).processed = r.processed
           /\ Released(r) \in AnyEntry /\ Released(r).order = r.order
           /\ Released(r).attempts = r.attempts
           /\ Released(r).processed = r.processed /\ Released(r).dead = r.dead
  <1>0. /\ r.attempts \in Nat /\ r.attempts + 1 \in Nat /\ 0 \in 0..Lease
        /\ r.due \in BOOLEAN /\ r.processed \in BOOLEAN /\ r.dead \in BOOLEAN
    BY Sizes DEF AnyEntry
  <1>1. Delivered(r) \in AnyEntry /\ Delivered(r).order = r.order
        /\ Delivered(r).attempts = r.attempts + 1
    BY <1>0 DEF AnyEntry, Delivered
  <1>2. /\ Failed(r, due, dead) \in AnyEntry /\ Failed(r, due, dead).order = r.order
        /\ Failed(r, due, dead).attempts = r.attempts + 1
        /\ Failed(r, due, dead).processed = r.processed
    BY <1>0 DEF AnyEntry, Failed
  <1>3. /\ Released(r) \in AnyEntry /\ Released(r).order = r.order
        /\ Released(r).attempts = r.attempts
        /\ Released(r).processed = r.processed /\ Released(r).dead = r.dead
    BY <1>0 DEF AnyEntry, Released
  <1> QED
    BY <1>1, <1>2, <1>3

(* A row that says what the one before it said, or that a try has ended.     *)
Succeeds(new, old) ==
    /\ new \in AnyEntry /\ new.order = old.order /\ new.attempts >= old.attempts
    /\ old.processed => new.processed
    /\ new.dead => old.dead \/ new.attempts > 0

LEMMA RowSucceeds ==
    ASSUME NEW r \in AnyEntry, NEW due \in BOOLEAN, NEW dead \in BOOLEAN
    PROVE  /\ Succeeds(r, r) /\ Succeeds(Delivered(r), r)
           /\ Succeeds(Failed(r, due, dead), r) /\ Failed(r, due, dead).processed = r.processed
           /\ Succeeds(Released(r), r) /\ Released(r).processed = r.processed
           /\ Succeeds(Due(r), r) /\ Due(r).processed = r.processed
           /\ Succeeds(Leased(r), r) /\ Leased(r).processed = r.processed
           /\ Succeeds(Ticked(r), r) /\ Ticked(r).processed = r.processed
  <1>1. r.attempts \in Nat /\ r.attempts + 1 > 0 /\ r.attempts + 1 >= r.attempts
    BY DEF AnyEntry
  <1>2. Succeeds(r, r)
    BY <1>1 DEF Succeeds
  <1>3. Succeeds(Delivered(r), r)
    <2>1. Delivered(r).processed
      BY DEF AnyEntry, Delivered
    <2> QED
      BY <1>1, <2>1, AnyRowEdits DEF Succeeds
  <1>4. Succeeds(Failed(r, due, dead), r) /\ Failed(r, due, dead).processed = r.processed
    BY <1>1, AnyRowEdits DEF Succeeds
  <1>5. Succeeds(Released(r), r) /\ Released(r).processed = r.processed
    BY <1>1, AnyRowEdits DEF Succeeds
  <1>6. Succeeds(Due(r), r) /\ Due(r).processed = r.processed
    <2>1. /\ Due(r) \in AnyEntry /\ Due(r).order = r.order /\ Due(r).attempts = r.attempts
          /\ Due(r).processed = r.processed /\ Due(r).dead = r.dead
      BY DEF AnyEntry, Due
    <2> QED
      BY <1>1, <2>1 DEF Succeeds
  <1>7. Succeeds(Leased(r), r) /\ Leased(r).processed = r.processed
    <2>1. /\ Leased(r) \in AnyEntry /\ Leased(r).order = r.order
          /\ Leased(r).attempts = r.attempts
          /\ Leased(r).processed = r.processed /\ Leased(r).dead = r.dead
      <3>1. Lease \in 0..Lease
        BY Sizes
      <3> QED
        BY <3>1 DEF AnyEntry, Leased
    <2> QED
      BY <1>1, <2>1 DEF Succeeds
  <1>8. Succeeds(Ticked(r), r) /\ Ticked(r).processed = r.processed
    <2>1. LeaseLeft(r.lease) \in 0..Lease
      BY Sizes DEF AnyEntry, LeaseLeft
    <2>2. /\ Ticked(r) \in AnyEntry /\ Ticked(r).order = r.order
          /\ Ticked(r).attempts = r.attempts
          /\ Ticked(r).processed = r.processed /\ Ticked(r).dead = r.dead
      BY <2>1 DEF AnyEntry, Ticked
    <2> QED
      BY <1>1, <2>2 DEF Succeeds
  <1> QED
    BY <1>2, <1>3, <1>4, <1>5, <1>6, <1>7, <1>8

(* A statement about entries that are there. *)
RowsSucceed ==
    /\ DOMAIN rows' = DOMAIN rows /\ rows' = [k \in DOMAIN rows |-> rows'[k]]
    /\ \A k \in DOMAIN rows : /\ Succeeds(rows'[k], rows[k])
                              /\ rows'[k].processed => rows[k].processed \/ k \in accepted

LEMMA RowsSucceedTurns ==
    ASSUME TurnsInv, RowsSucceed, task' \in [Procs -> [1..MaxRows -> AnyTask]],
           accepted' = accepted, wire' = wire,
           \A d \in Procs, k \in 1..MaxRows :
              /\ task'[d][k].stage # "none" =>
                    task[d][k].stage # "none" \/ (k \in DOMAIN rows /\ EarlierTried(k))
              /\ task'[d][k].answer = "ok" => task[d][k].answer = "ok"
    PROVE  TurnsInv'
  <1>1. ShapeOK /\ Len(rows) \in Nat /\ DOMAIN rows = 1..Len(rows)
        /\ \A k \in DOMAIN rows : rows[k].attempts \in Nat
    BY AnyRowTypes DEF TurnsInv
  <1>2. \A k \in DOMAIN rows : rows'[k] \in AnyEntry
    BY DEF RowsSucceed, Succeeds
  <1>3. rows' \in [1..Len(rows) -> AnyEntry]
    BY <1>1, <1>2 DEF RowsSucceed
  <1>4. rows' \in Seq(AnyEntry)
    BY <1>1, <1>3, TableIsSeq
  <1>5. ShapeOK'
    BY <1>1, <1>4 DEF ShapeOK, RowsSucceed
  <1>6. \A k \in DOMAIN rows : rows'[k].attempts \in Nat
    BY <1>2 DEF AnyEntry
  <1>7. ASSUME NEW k \in DOMAIN rows'
        PROVE  /\ rows'[k].processed => k \in accepted'
               /\ rows'[k].dead => rows'[k].attempts > 0
    <2>1. /\ k \in DOMAIN rows /\ Succeeds(rows'[k], rows[k])
          /\ rows'[k].processed => rows[k].processed \/ k \in accepted
      BY DEF RowsSucceed
    <2> QED
      BY <1>1, <1>6, <2>1 DEF TurnsInv, Succeeds
  <1>8. \A k \in DOMAIN rows : /\ k \in DOMAIN rows' /\ rows'[k].order = rows[k].order
                               /\ rows'[k].attempts >= rows[k].attempts
    BY DEF RowsSucceed, Succeeds
  <1> QED
    BY <1>5, <1>7, <1>8, TurnsStay

LEMMA RecordSucceeds ==
    ASSUME TurnsInv, NEW d \in Procs, NEW k \in 1..MaxRows, Record(d, k)
    PROVE  RowsSucceed
  <1>1. /\ ShapeOK /\ k \in DOMAIN rows /\ rows[k] \in AnyEntry
        /\ task[d][k].answer = "ok" => k \in accepted
    BY AnyRowTypes DEF TurnsInv, Record
  <1>2. ASSUME NEW r, Succeeds(r, rows[k]), r.processed => rows[k].processed \/ k \in accepted,
               rows' = [rows EXCEPT ![k] = r]
        PROVE  RowsSucceed
    <2>1. \A j \in DOMAIN rows : Succeeds(rows[j], rows[j])
      BY <1>1, AnyRowTypes, RowSucceeds
    <2>2. /\ DOMAIN rows' = DOMAIN rows /\ rows' = [j \in DOMAIN rows |-> rows'[j]] /\ rows'[k] = r
          /\ \A j \in DOMAIN rows : j # k => rows'[j] = rows[j]
      <3>1. rows = [j \in DOMAIN rows |-> rows[j]]
        BY <1>1, SeqDef DEF ShapeOK
      <3> QED
        BY <1>1, <1>2, <3>1
    <2> QED
      BY <1>2, <2>1, <2>2 DEF RowsSucceed
  <1>3. CASE task[d][k].answer = "ok" /\ MarkDelivered(k)
    <2>1. rows' = [rows EXCEPT ![k] = Delivered(rows[k])]
      BY <1>1, <1>3 DEF MarkDelivered, Delivered
    <2>2. Succeeds(Delivered(rows[k]), rows[k])
      BY <1>1, RowSucceeds
    <2> QED
      BY <1>1, <1>2, <1>3, <2>1, <2>2
  <1>4. CASE Release(k)
    <2>1. rows' = [rows EXCEPT ![k] = Released(rows[k])]
      BY <1>1, <1>4 DEF Release, Released
    <2>2. Succeeds(Released(rows[k]), rows[k]) /\ Released(rows[k]).processed = rows[k].processed
      BY <1>1, RowSucceeds
    <2> QED
      BY <1>2, <2>1, <2>2
  <1>5. ASSUME NEW due \in BOOLEAN, NEW dead \in BOOLEAN, MarkFailed(k, due, dead)
        PROVE  RowsSucceed
    <2>1. rows' = [rows EXCEPT ![k] = Failed(rows[k], due, dead)]
      BY <1>1, <1>5 DEF MarkFailed, Failed
    <2>2. /\ Succeeds(Failed(rows[k], due, dead), rows[k])
          /\ Failed(rows[k], due, dead).processed = rows[k].processed
      BY <1>1, RowSucceeds
    <2> QED
      BY <1>2, <2>1, <2>2
  <1>6. Exhausted(task[d][k]) \in BOOLEAN
    BY DEF Exhausted
  <1> QED
    BY <1>3, <1>4, <1>5, <1>6 DEF Record

LEMMA RecordTurns ==
    ASSUME TurnsInv, NEW d \in Procs, NEW k \in 1..MaxRows, Record(d, k)
    PROVE  TurnsInv'
  <1>1. task \in [Procs -> [1..MaxRows -> AnyTask]] /\ task[d] \in [1..MaxRows -> AnyTask]
    BY DEF TurnsInv, ShapeOK
  <1>2. PICK f : f = [task[d] EXCEPT ![k] = NoTask]
    OBVIOUS
  <1>3. task' = [task EXCEPT ![d] = f]
    BY <1>1, <1>2 DEF Record, Forget
  <1>4. /\ f \in [1..MaxRows -> AnyTask] /\ f[k] = NoTask
        /\ \A j \in 1..MaxRows : j # k => f[j] = task[d][j]
    BY <1>1, <1>2, NoTaskIsAny
  <1>5. /\ task' \in [Procs -> [1..MaxRows -> AnyTask]] /\ task'[d] = f
        /\ \A c \in Procs : c # d => task'[c] = task[c]
    BY <1>1, <1>3, <1>4
  <1>6. \A c \in Procs, j \in 1..MaxRows :
           /\ task'[c][j].stage # "none" => task[c][j].stage # "none"
           /\ task'[c][j].answer = "ok" => task[c][j].answer = "ok"
    BY <1>4, <1>5, NoTaskIsAny
  <1> QED
    BY <1>5, <1>6, RecordSucceeds, RowsSucceedTurns DEF Record

LEMMA ClaimSucceeds ==
    ASSUME TurnsInv, NEW d \in Procs, Claim(d) \/ ClaimLost(d)
    PROVE  RowsSucceed
  <1>1. \A k \in DOMAIN rows : rows[k] \in AnyEntry
    BY AnyRowTypes DEF TurnsInv
  <1>2. rows' = [k \in DOMAIN rows |-> IF k \in Claimed THEN Leased(rows[k]) ELSE rows[k]]
    BY DEF Claim, ClaimLost, LeaseRows, Leased
  <1>3. ASSUME NEW k \in DOMAIN rows
        PROVE  Succeeds(rows'[k], rows[k]) /\ rows'[k].processed = rows[k].processed
    <2>1. /\ Succeeds(rows[k], rows[k]) /\ Succeeds(Leased(rows[k]), rows[k])
          /\ Leased(rows[k]).processed = rows[k].processed
      BY <1>1, RowSucceeds
    <2>2. rows'[k] = rows[k] \/ rows'[k] = Leased(rows[k])
      BY <1>2
    <2> QED
      BY <2>1, <2>2
  <1> QED
    BY <1>2, <1>3 DEF RowsSucceed

(* A claim takes an entry when everything before it is done: tried, then, or *)
(* accepted.                                                                 *)
LEMMA ClaimTurns ==
    ASSUME TurnsInv, NEW d \in Procs, Claim(d) \/ ClaimLost(d)
    PROVE  TurnsInv'
  <1>1. ShapeOK /\ task \in [Procs -> [1..MaxRows -> AnyTask]]
        /\ \A k \in DOMAIN rows : rows[k] \in AnyEntry
    BY AnyRowTypes DEF TurnsInv, ShapeOK
  <1>2. RowsSucceed
    BY ClaimSucceeds
  <1>3. ASSUME NEW k \in Claimed PROVE k \in DOMAIN rows /\ EarlierTried(k)
    <2>1. k \in DOMAIN rows /\ IsHead(k)
      BY DEF Claimed, Eligible
    <2>2. ASSUME NEW j \in 1..(k - 1), rows[j].order = rows[k].order
          PROVE  j \in accepted \/ rows[j].attempts > 0
      <3>1. rows[j].processed \/ rows[j].dead
        BY <2>1, <2>2 DEF IsHead, Pending
      <3>2. j \in DOMAIN rows
        BY <1>1, <2>1, AnyRowTypes
      <3> QED
        BY <3>1, <3>2 DEF TurnsInv
    <2> QED
      BY <2>1, <2>2 DEF EarlierTried
  <1>4. CASE ClaimLost(d)
    BY <1>1, <1>2, <1>4, RowsSucceedTurns DEF ClaimLost
  <1>5. CASE Claim(d)
    <2>1. PICK f : f = [k \in 1..MaxRows |-> IF k \in Claimed
             THEN [NoTask EXCEPT !.stage = "waiting", !.attempts = rows[k].attempts] ELSE NoTask]
      OBVIOUS
    <2>2. task' = [task EXCEPT ![d] = f]
      BY <1>5, <2>1 DEF Claim
    <2>3. ASSUME NEW k \in 1..MaxRows
          PROVE  /\ f[k] \in AnyTask /\ f[k].answer = "none"
                 /\ f[k].stage # "none" => k \in Claimed
      <3>1. k \in Claimed => rows[k].attempts \in Nat
        BY <1>1, <1>3, AnyRowTypes
      <3> QED
        BY <2>1, <3>1 DEF NoTask, AnyTask
    <2>4. f = [k \in 1..MaxRows |-> f[k]]
      BY <2>1
    <2>5. f \in [1..MaxRows -> AnyTask]
      BY <2>3, <2>4
    <2>6. /\ task' \in [Procs -> [1..MaxRows -> AnyTask]] /\ task'[d] = f
          /\ \A c \in Procs : c # d => task'[c] = task[c]
      BY <1>1, <2>2, <2>5
    <2>7. \A c \in Procs, k \in 1..MaxRows :
             /\ task'[c][k].stage # "none" =>
                   task[c][k].stage # "none" \/ (k \in DOMAIN rows /\ EarlierTried(k))
             /\ task'[c][k].answer = "ok" => task[c][k].answer = "ok"
      BY <1>3, <2>3, <2>6
    <2> QED
      BY <1>2, <1>5, <2>6, <2>7, RowsSucceedTurns DEF Claim
  <1> QED
    BY <1>4, <1>5

(* A process that ends, begins or probes again, and what arrives late. *)
LEMMA RestTurns ==
    ASSUME TurnsInv,
           \/ \E d \in Procs : Shutdown(d) \/ Exit(d) \/ Crash(d) \/ Restart(d) \/ ProbeAgain(d)
           \/ \E k \in 1..MaxRows : ArriveLate(k)
           \/ UNCHANGED vars
    PROVE  TurnsInv'
  <1>1. ShapeOK /\ task \in [Procs -> [1..MaxRows -> AnyTask]]
    BY DEF TurnsInv, ShapeOK
  <1>2. CASE task' = task /\ rows' = rows /\ accepted' = accepted /\ wire' = wire
    BY <1>2 DEF TurnsInv, ShapeOK, EarlierTried
  <1>3. ASSUME NEW k \in 1..MaxRows, ArriveLate(k) PROVE TurnsInv'
    <2>1. /\ rows' = rows /\ task' = task /\ accepted \subseteq accepted'
          /\ accepted' \subseteq DOMAIN rows /\ wire' \subseteq wire
      BY <1>1, <1>3 DEF ArriveLate, TurnsInv, ShapeOK
    <2>2. ShapeOK'
      BY <1>1, <2>1 DEF ShapeOK
    <2>3. \A j \in DOMAIN rows : rows[j].attempts >= rows[j].attempts
      BY <1>1, AnyRowTypes
    <2>4. \A j \in DOMAIN rows : /\ rows[j].processed => j \in accepted'
                                 /\ rows[j].dead => rows[j].attempts > 0
      BY <2>1 DEF TurnsInv
    <2> QED
      BY <2>1, <2>2, <2>3, <2>4, TurnsStay
  <1>4. ASSUME NEW d \in Procs, Crash(d) PROVE TurnsInv'
    <2>1. NoTasks \in [1..MaxRows -> AnyTask] /\ \A k \in 1..MaxRows : NoTasks[k] = NoTask
      BY NoTaskIsAny DEF NoTasks
    <2>2. /\ task' = [task EXCEPT ![d] = NoTasks] /\ rows' = rows /\ accepted' = accepted
          /\ \A k \in wire' : k \in wire \/ (k \in 1..MaxRows /\ task[d][k].stage # "none")
      BY <1>4 DEF Crash
    <2> QED
      BY <1>1, <2>1, <2>2, NoTaskIsAny, TaskTurns DEF ShapeOK
  <1>5. ASSUME NEW d \in Procs, ProbeAgain(d) PROVE TurnsInv'
    <2>1. PICK f : f = [k \in 1..MaxRows |-> Unheard(task[d][k])]
      OBVIOUS
    <2>2. task' = [task EXCEPT ![d] = f]
      BY <1>1, <1>5, <2>1 DEF ProbeAgain, Unheard
    <2>3. ASSUME NEW k \in 1..MaxRows
          PROVE  /\ f[k] \in AnyTask /\ f[k].stage = task[d][k].stage
                 /\ f[k].answer = task[d][k].answer
      <3>1. task[d][k] \in AnyTask /\ f[k] = Unheard(task[d][k])
        BY <1>1, <2>1
      <3> QED
        BY <3>1, AnyTaskEdits
    <2>4. f = [k \in 1..MaxRows |-> f[k]]
      BY <2>1
    <2>5. f \in [1..MaxRows -> AnyTask]
      BY <2>3, <2>4
    <2> QED
      BY <1>1, <1>5, <2>2, <2>3, <2>5, TaskTurns DEF ProbeAgain, ShapeOK
  <1> QED
    BY <1>2, <1>3, <1>4, <1>5 DEF Shutdown, Exit, Restart, vars

(* Time passes, and backoffs end. *)
LEMMA TimeSucceeds ==
    ASSUME TurnsInv, Tick \/ \E k \in DOMAIN rows : BackoffEnds(k)
    PROVE  RowsSucceed
  <1>1. ShapeOK /\ \A k \in DOMAIN rows : rows[k] \in AnyEntry
    BY AnyRowTypes DEF TurnsInv
  <1>2. CASE Tick
    <2>1. rows' = [k \in DOMAIN rows |-> Ticked(rows[k])]
      BY <1>2 DEF Tick, Ticked
    <2> QED
      BY <1>1, <2>1, RowSucceeds DEF RowsSucceed
  <1>3. ASSUME NEW k \in DOMAIN rows, BackoffEnds(k) PROVE RowsSucceed
    <2>1. rows = [j \in DOMAIN rows |-> rows[j]]
      BY <1>1, SeqDef DEF ShapeOK
    <2>2. rows' = [j \in DOMAIN rows |-> IF j = k THEN Due(rows[j]) ELSE rows[j]]
      BY <1>3, <2>1 DEF BackoffEnds, Due
    <2>3. ASSUME NEW j \in DOMAIN rows
          PROVE  Succeeds(rows'[j], rows[j]) /\ rows'[j].processed = rows[j].processed
      <3>1. /\ Succeeds(rows[j], rows[j]) /\ Succeeds(Due(rows[j]), rows[j])
            /\ Due(rows[j]).processed = rows[j].processed
        BY <1>1, RowSucceeds
      <3> QED
        BY <2>2, <3>1
    <2> QED
      BY <2>2, <2>3 DEF RowsSucceed
  <1> QED
    BY <1>2, <1>3

LEMMA TimeTurns ==
    ASSUME TurnsInv, Tick \/ \E k \in DOMAIN rows : BackoffEnds(k)
    PROVE  TurnsInv'
  <1>1. task \in [Procs -> [1..MaxRows -> AnyTask]]
    BY DEF TurnsInv, ShapeOK
  <1>2. CASE Tick
    <2>1. task' = [d \in Procs |-> [k \in 1..MaxRows |->
                      IF Active(task[d][k]) THEN Aged(task[d][k]) ELSE task[d][k]]]
      BY <1>2 DEF Tick, Aged
    <2>2. ASSUME NEW d \in Procs, NEW k \in 1..MaxRows
          PROVE  /\ task'[d][k] \in AnyTask /\ task'[d][k].stage = task[d][k].stage
                 /\ task'[d][k].answer = task[d][k].answer
      <3>1. task[d][k] \in AnyTask
        BY <1>1
      <3>2. task'[d][k] = Aged(task[d][k]) \/ task'[d][k] = task[d][k]
        BY <2>1
      <3> QED
        BY <3>1, <3>2, AnyTaskEdits
    <2>3. task' \in [Procs -> [1..MaxRows -> AnyTask]]
      <3>1. ASSUME NEW d \in Procs PROVE task'[d] \in [1..MaxRows -> AnyTask]
        <4>1. PICK f : f = [k \in 1..MaxRows |->
                               IF Active(task[d][k]) THEN Aged(task[d][k]) ELSE task[d][k]]
          OBVIOUS
        <4>2. task'[d] = f
          BY <2>1, <4>1
        <4>3. f = [k \in 1..MaxRows |-> f[k]]
          BY <4>1
        <4> QED
          BY <2>2, <4>2, <4>3
      <3>2. task' = [d \in Procs |-> task'[d]]
        BY <2>1
      <3> QED
        BY <3>1, <3>2
    <2> QED
      BY <1>2, <2>2, <2>3, TimeSucceeds, RowsSucceedTurns DEF Tick
  <1>3. ASSUME NEW k \in DOMAIN rows, BackoffEnds(k) PROVE TurnsInv'
    BY <1>1, <1>3, TimeSucceeds, RowsSucceedTurns DEF BackoffEnds
  <1> QED
    BY <1>2, <1>3

(* Whatever a transaction appends to the table: entries that are new. *)
LEMMA NewEntriesTurns ==
    ASSUME TurnsInv, NEW new \in Seq(AnyEntry),
           \A i \in 1..Len(new) : ~new[i].processed /\ ~new[i].dead,
           rows' = rows \o new, UNCHANGED <<task, accepted, wire>>
    PROVE  TurnsInv' /\ \A k \in DOMAIN rows : rows'[k] = rows[k]
  <1>1. rows \in Seq(AnyEntry) /\ Len(rows) \in Nat /\ DOMAIN rows = 1..Len(rows) /\ Len(new) \in Nat
    BY AnyRowTypes, LenProperties DEF TurnsInv, ShapeOK
  <1>2. /\ rows' \in Seq(AnyEntry) /\ Len(rows') = Len(rows) + Len(new)
        /\ \A k \in 1..(Len(rows) + Len(new)) :
              rows'[k] = IF k <= Len(rows) THEN rows[k] ELSE new[k - Len(rows)]
    BY <1>1, ConcatProperties
  <1>3. DOMAIN rows' = 1..(Len(rows) + Len(new)) /\ DOMAIN rows \subseteq DOMAIN rows'
    BY <1>1, <1>2, LenProperties
  <1>4. \A k \in DOMAIN rows : rows'[k] = rows[k]
    BY <1>1, <1>2, <1>3
  <1>5. ShapeOK'
    BY <1>2, <1>3 DEF TurnsInv, ShapeOK
  <1>6. ASSUME NEW k \in DOMAIN rows'
        PROVE  rows'[k].processed \/ rows'[k].dead => k \in DOMAIN rows /\ rows'[k] = rows[k]
    <2>1. CASE k \in DOMAIN rows
      BY <1>4, <2>1
    <2>2. CASE k \notin DOMAIN rows
      <3>1. rows'[k] = new[k - Len(rows)] /\ k - Len(rows) \in 1..Len(new)
        BY <1>1, <1>2, <1>3, <2>2
      <3> QED
        BY <3>1
    <2> QED
      BY <2>1, <2>2
  <1>7. \A k \in DOMAIN rows' : /\ rows'[k].processed => k \in accepted'
                                /\ rows'[k].dead => rows'[k].attempts > 0
    BY <1>6 DEF TurnsInv
  <1>8. \A k \in DOMAIN rows : rows'[k].attempts >= rows[k].attempts
    BY <1>4, AnyRowTypes DEF TurnsInv
  <1> QED
    BY <1>3, <1>4, <1>5, <1>7, <1>8, TurnsStay

LEMMA NewRowIsAny ==
    ASSUME NEW o \in Aggregates
    PROVE  NewRow(o) \in AnyEntry /\ ~NewRow(o).processed /\ ~NewRow(o).dead
  BY Sizes DEF NewRow, AnyEntry

LEMMA InsertTurns ==
    ASSUME TurnsInv, NEW o \in Aggregates, Insert(o)
    PROVE  TurnsInv' /\ \A k \in DOMAIN rows : rows'[k] = rows[k]
  <1>1. PICK r : r = NewRow(o)
    OBVIOUS
  <1>2. r \in AnyEntry /\ ~r.processed /\ ~r.dead
    BY <1>1, NewRowIsAny
  <1>3. PICK new : new = <<r>>
    OBVIOUS
  <1>4. new \in Seq(AnyEntry) /\ Len(new) = 1 /\ new[1] = r
    BY <1>2, <1>3
  <1>5. rows' = rows \o new
    <2>1. rows' = Append(rows, r) /\ rows \in Seq(AnyEntry)
      BY <1>1 DEF Insert, TurnsInv, ShapeOK
    <2> QED
      BY <1>2, <1>3, <2>1, AppendIsConcat
  <1> QED
    BY <1>2, <1>4, <1>5, NewEntriesTurns DEF Insert

LEMMA InitIsTurnsInv == Init => TurnsInv
  <1> SUFFICES ASSUME Init PROVE TurnsInv
    OBVIOUS
  <1>1. rows = <<>> /\ rows \in Seq(AnyEntry) /\ DOMAIN rows = {}
    BY EmptySeq DEF Init
  <1>2. \A d \in Procs, k \in 1..MaxRows : task[d][k] = NoTask
    BY DEF Init, NoTasks
  <1>3. task \in [Procs -> [1..MaxRows -> AnyTask]]
    BY NoTaskIsAny DEF Init, NoTasks
  <1> QED
    BY <1>1, <1>2, <1>3, NoTaskIsAny DEF Init, TurnsInv, ShapeOK

LEMMA StepKeepsTurns == TurnsInv /\ [Next]_vars => TurnsInv'
  <1> SUFFICES ASSUME TurnsInv, [Next]_vars PROVE TurnsInv'
    OBVIOUS
  <1>1. ASSUME NEW d \in Procs, NEW k \in 1..MaxRows, Deliver(d, k) PROVE TurnsInv'
    BY <1>1, DeliverTurns, RecordTurns DEF Deliver
  <1>2. CASE Dispatch
    BY <1>1, <1>2, ClaimTurns, RestTurns, TimeTurns DEF Dispatch, PollNothing
  <1> QED
    BY <1>2, InsertTurns, RestTurns DEF Next

(* No row forgets an attempt or a delivery. *)
LEMMA DispatchSucceeds ==
    ASSUME TurnsInv, Dispatch
    PROVE  rows' = rows \/ RowsSucceed
  <1>1. ASSUME NEW d \in Procs, NEW j \in 1..MaxRows, Deliver(d, j)
        PROVE  rows' = rows \/ RowsSucceed
    BY <1>1, RecordSucceeds
    DEF Deliver, Send, Skip, SendCancelled, Receive, Respond, NoResponse, RecordLost
  <1>2. ASSUME \/ \E d \in Procs : Shutdown(d) \/ Exit(d) \/ Crash(d) \/ Restart(d) \/ ProbeAgain(d)
               \/ \E j \in 1..MaxRows : ArriveLate(j)
               \/ PollNothing
        PROVE  rows' = rows
    BY <1>2 DEF Shutdown, Exit, Crash, Restart, ProbeAgain, ArriveLate, PollNothing, vars
  <1> QED
    BY <1>1, <1>2, ClaimSucceeds, TimeSucceeds DEF Dispatch

LEMMA AcceptedInTurn ==
    ASSUME TurnsInv, Dispatch, NEW k \in accepted' \ accepted
    PROVE  k \in 1..MaxRows /\ k \in DOMAIN rows /\ EarlierTried(k)
  <1>1. k \in 1..MaxRows /\ (k \in wire \/ \E d \in Procs : task[d][k].stage = "sending")
    BY NewlyAccepted
  <1> QED
    BY <1>1 DEF TurnsInv

(* With any settings, the defaults among them: whatever is delivered twice,  *)
(* late, or by several processes at once, the receiver accepts no entry      *)
(* before every earlier one of its order is accepted or has been tried; and  *)
(* what is marked as delivered has been accepted, and stays marked           *)
(* (ClaimOutbox and MarkOutboxFailed, outbox.go:33 and 88).                  *)
TakesTurns ==
    [][/\ \A k \in accepted' \ accepted : EarlierTried(k)
       /\ \A k \in DOMAIN rows : rows[k].processed => k \in accepted /\ rows'[k].processed]_vars

(* It follows from how a claim takes an entry, and from nothing about leases.*)
THEOREM TurnsAreTaken == Spec => TakesTurns
  <1>1. ASSUME TurnsInv, [Next]_vars, NEW k \in accepted' \ accepted PROVE EarlierTried(k)
    <2>1. Dispatch
      BY <1>1 DEF Next, Insert, vars
    <2> QED
      BY <1>1, <2>1, AcceptedInTurn
  <1>2. ASSUME TurnsInv, [Next]_vars, NEW k \in DOMAIN rows, rows[k].processed
        PROVE  k \in accepted /\ rows'[k].processed
    <2>1. k \in accepted
      BY <1>2 DEF TurnsInv
    <2>2. CASE Dispatch
      BY <1>2, <2>1, <2>2, DispatchSucceeds DEF RowsSucceed, Succeeds
    <2>3. ASSUME NEW o \in Aggregates, Insert(o) PROVE rows'[k] = rows[k]
      BY <1>2, <2>3, InsertTurns
    <2>4. CASE UNCHANGED vars
      BY <1>2, <2>1, <2>4 DEF vars
    <2> QED
      BY <1>2, <2>1, <2>2, <2>3, <2>4 DEF Next
  <1>3. TurnsInv /\ [Next]_vars =>
           [/\ \A k \in accepted' \ accepted : EarlierTried(k)
            /\ \A k \in DOMAIN rows : rows[k].processed => k \in accepted /\ rows'[k].processed]_vars
    BY <1>1, <1>2
  <1> QED
    BY <1>3, InitIsTurnsInv, StepKeepsTurns, PTL DEF Spec, TakesTurns

-----------------------------------------------------------------------------
(* The processes, in every run. *)
ProcsOK ==
    /\ mode \in [Procs -> {"running", "stopping", "down"}]
    /\ breaker \in [Procs -> Breaker]
    /\ \A d \in Procs, k \in 1..MaxRows : task[d][k].stage # "none" => Up(d)

(* A process that is up works. *)
LEMMA WorkKeepsProcs ==
    ASSUME ProcsOK, NEW d \in Procs, Up(d), NEW b \in Breaker,
           breaker' = breaker \/ breaker' = [breaker EXCEPT ![d] = b], mode' = mode,
           \A c \in Procs : c # d => task'[c] = task[c]
    PROVE  ProcsOK'
  <1>1. breaker' \in [Procs -> Breaker] /\ mode' \in [Procs -> {"running", "stopping", "down"}]
    BY DEF ProcsOK
  <1>2. \A c \in Procs : Up(c)' = Up(c)
    BY DEF Up
  <1>3. \A c \in Procs, k \in 1..MaxRows : task'[c][k].stage # "none" => Up(c)
    BY DEF ProcsOK
  <1> QED
    BY <1>1, <1>2, <1>3 DEF ProcsOK

LEMMA DeliverKeepsProcs ==
    ASSUME TurnsInv, ProcsOK, NEW d \in Procs, NEW k \in 1..MaxRows, Deliver(d, k)
    PROVE  ProcsOK'
  <1>1. task \in [Procs -> [1..MaxRows -> AnyTask]] /\ breaker[d] \in Breaker
    BY DEF TurnsInv, ShapeOK, ProcsOK
  <1>2. Up(d) /\ mode' = mode
    BY DEF Deliver, Send, Skip, SendCancelled, Receive, Respond, NoResponse, Record, RecordLost,
           CanStart, Sending, ProcsOK
  <1>3. \A c \in Procs : c # d => task'[c] = task[c]
    BY <1>1 DEF Deliver, Send, Skip, SendCancelled, Receive, Respond, NoResponse, Record,
           RecordLost, Forget, Settle
  <1>4. CASE breaker' = breaker
    BY <1>1, <1>2, <1>3, <1>4, WorkKeepsProcs
  <1>5. CASE Send(d, k)
    <2>1. PICK b : b = Admit(breaker[d])
      OBVIOUS
    <2>2. b \in Breaker /\ breaker' = [breaker EXCEPT ![d] = b]
      BY <1>1, <1>5, <2>1, BreakerTypes DEF Send, ProcsOK
    <2> QED
      BY <1>2, <1>3, <2>2, WorkKeepsProcs
  <1>6. CASE SendCancelled(d, k)
    <2>1. PICK a : a = Admit(breaker[d])
      OBVIOUS
    <2>2. PICK b : b = Fail(a)
      OBVIOUS
    <2>3. a \in Breaker
      BY <1>1, <1>6, <2>1, BreakerTypes DEF SendCancelled
    <2>4. b \in Breaker /\ breaker' = [breaker EXCEPT ![d] = b]
      BY <1>6, <2>1, <2>2, <2>3, BreakerTypes DEF SendCancelled
    <2> QED
      BY <1>2, <1>3, <2>4, WorkKeepsProcs
  <1>7. ASSUME NEW answer, Settle(d, k, answer) PROVE ProcsOK'
    <2>1. PICK b : b = IF ~task[d][k].fresh THEN breaker[d]
                       ELSE IF Retryable(answer) THEN Fail(breaker[d]) ELSE Succeed(breaker[d])
      OBVIOUS
    <2>2. b \in Breaker
      BY <1>1, <2>1, BreakerTypes
    <2>3. breaker' = [breaker EXCEPT ![d] = b]
      BY <1>7, <2>1 DEF Settle
    <2> QED
      BY <1>2, <1>3, <2>2, <2>3, WorkKeepsProcs
  <1>8. breaker' = breaker \/ Send(d, k) \/ SendCancelled(d, k) \/ \E answer : Settle(d, k, answer)
    <2>1. CASE Respond(d, k) \/ NoResponse(d, k)
      BY <2>1 DEF Respond, NoResponse
    <2>2. CASE Skip(d, k) \/ Receive(d, k) \/ Record(d, k) \/ RecordLost(d, k)
      BY <2>2 DEF Skip, Receive, Record, RecordLost
    <2> QED
      BY <2>1, <2>2 DEF Deliver
  <1> QED
    BY <1>4, <1>5, <1>6, <1>7, <1>8

LEMMA StepKeepsProcs ==
    ASSUME TurnsInv, ProcsOK, [Next]_vars
    PROVE  ProcsOK'
  <1>1. task \in [Procs -> [1..MaxRows -> AnyTask]]
    BY DEF TurnsInv, ShapeOK
  <1>2. Circuit("closed") \in Breaker /\ Circuit("half-open") \in Breaker
    BY ThresholdsAssumption DEF Circuit, Breaker
  <1>3. ASSUME NEW d \in Procs, Claim(d) PROVE ProcsOK'
    <2>1. Up(d) /\ breaker' = breaker /\ mode' = mode /\ \A c \in Procs : c # d => task'[c] = task[c]
      BY <1>1, <1>3 DEF Claim, Up
    <2> QED
      BY <1>2, <2>1, WorkKeepsProcs
  <1>4. ASSUME NEW d \in Procs, ProbeAgain(d) PROVE ProcsOK'
    <2>1. /\ Up(d) /\ breaker' = [breaker EXCEPT ![d] = Circuit("half-open")] /\ mode' = mode
          /\ \A c \in Procs : c # d => task'[c] = task[c]
      BY <1>1, <1>4 DEF ProbeAgain
    <2> QED
      BY <1>2, <2>1, WorkKeepsProcs
  <1>5. ASSUME NEW d \in Procs, Shutdown(d) \/ Restart(d) PROVE ProcsOK'
    <2>1. /\ task' = task /\ mode'[d] \in {"running", "stopping"}
          /\ \A c \in Procs : c # d => mode'[c] = mode[c]
          /\ mode' \in [Procs -> {"running", "stopping", "down"}]
      BY <1>5 DEF Shutdown, Restart, ProcsOK
    <2>2. breaker' \in [Procs -> Breaker]
      BY <1>2, <1>5 DEF Shutdown, Restart, ProcsOK
    <2> QED
      BY <2>1, <2>2 DEF ProcsOK, Up
  <1>6. ASSUME NEW d \in Procs, Exit(d) \/ Crash(d) PROVE ProcsOK'
    <2>1. /\ mode' = [mode EXCEPT ![d] = "down"] /\ breaker' = breaker
          /\ task'[d] = NoTasks /\ \A c \in Procs : c # d => task'[c] = task[c]
      BY <1>1, <1>6 DEF Exit, Crash
    <2>2. \A k \in 1..MaxRows : NoTasks[k].stage = "none"
      BY NoTaskIsAny DEF NoTasks
    <2>3. /\ mode' \in [Procs -> {"running", "stopping", "down"}]
          /\ \A c \in Procs : c # d => mode'[c] = mode[c]
      BY <2>1 DEF ProcsOK
    <2> QED
      BY <2>1, <2>2, <2>3 DEF ProcsOK, Up
  <1>7. CASE Tick
    <2>1. mode' = mode /\ breaker' = breaker
          /\ task' = [d \in Procs |-> [k \in 1..MaxRows |->
                IF Active(task[d][k]) THEN Aged(task[d][k]) ELSE task[d][k]]]
      BY <1>7 DEF Tick, Aged
    <2>2. ASSUME NEW d \in Procs, NEW k \in 1..MaxRows
          PROVE  task'[d][k].stage = task[d][k].stage
      <3>1. task[d][k] \in AnyTask
        BY <1>1
      <3>2. task'[d][k] = Aged(task[d][k]) \/ task'[d][k] = task[d][k]
        BY <2>1
      <3> QED
        BY <3>1, <3>2, AnyTaskEdits
    <2> QED
      BY <2>1, <2>2 DEF ProcsOK, Up
  <1>8. CASE UNCHANGED <<mode, breaker, task>>
    BY <1>8 DEF ProcsOK, Up
  <1>9. \/ UNCHANGED <<mode, breaker, task>> \/ Tick
        \/ \E d \in Procs, k \in 1..MaxRows : Deliver(d, k)
        \/ \E d \in Procs : \/ Claim(d) \/ ProbeAgain(d) \/ Shutdown(d) \/ Restart(d)
                            \/ Exit(d) \/ Crash(d)
    BY DEF Next, Dispatch, Insert, ClaimLost, ArriveLate, BackoffEnds, PollNothing, vars
  <1> QED
    BY <1>3, <1>4, <1>5, <1>6, <1>7, <1>8, <1>9, DeliverKeepsProcs

(* Types of the outbox, of the breakers and of what processes have in hand,  *)
(* and a process that is down has nothing in hand: for all settings, faults  *)
(* and processes that outlive their leases.                                  *)
THEOREM DispatcherTypeCorrect == Spec => []DispatcherTypeOK
  <1>1. Init => ProcsOK
    <2>1. Circuit("closed") \in Breaker
      BY ThresholdsAssumption DEF Circuit, Breaker
    <2> QED
      BY <2>1, NoTaskIsAny DEF Init, ProcsOK, NoTasks
  <1>2. TurnsInv /\ ProcsOK /\ [Next]_vars => ProcsOK'
    BY StepKeepsProcs
  <1>3. TurnsInv /\ ProcsOK => DispatcherTypeOK
    BY DEF TurnsInv, ShapeOK, ProcsOK, AnyEntry, DispatcherTypeOK
  <1> QED
    BY <1>1, <1>2, <1>3, InitIsTurnsInv, StepKeepsTurns, PTL DEF Spec
=============================================================================
