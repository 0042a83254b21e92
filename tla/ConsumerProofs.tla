--------------------------- MODULE ConsumerProofs ---------------------------
(***************************************************************************)
(* Theorems about Consumer, for any number of workers, any records and any *)
(* number of faults.  First: the interleaved, crashing, retrying workers   *)
(* use the store only through its transactions, so what OrderStoreProofs   *)
(* proves of any caller holds of the whole consumer.  Second: an offset is *)
(* committed only when every record below it is settled.                   *)
(***************************************************************************)
EXTENDS Consumer, OrderStoreProofs

(* Every step of the consumer is a transaction of the store or leaves it.    *)
LEMMA StepUsesStore == [Next]_vars => [StoreNext]_storeVars
  <1> SUFFICES ASSUME [Next]_vars PROVE [StoreNext]_storeVars
    OBVIOUS
  <1>1. ASSUME UNCHANGED vars PROVE UNCHANGED storeVars
    BY <1>1 DEF vars
  <1>2. ASSUME NEW e \in SeqEvent, ApplyEvent(e) PROVE StoreNext
    BY <1>2 DEF StoreNext
  <1>3. ASSUME NEW e \in AbortEvent, AbortPlan(e) PROVE StoreNext
    BY <1>3 DEF StoreNext
  <1>4. ASSUME NEW c \in Workers, HandleEvent(c) PROVE [StoreNext]_storeVars
    BY <1>4, <1>2, <1>3 DEF HandleEvent
  <1>5. ASSUME NEW c \in Workers, LoseAnswer(c) PROVE [StoreNext]_storeVars
    BY <1>5, <1>2, <1>3 DEF LoseAnswer
  <1>6. ASSUME NEW c \in Workers, SweepCommit(c) PROVE StoreNext
    <2>1. ExpirePending(sweep[c].rows) /\ sweep[c].rows \subseteq Buffered
      BY <1>6 DEF SweepCommit, ExpirePending
    <2> QED
      BY <2>1 DEF StoreNext
  <1>7. ASSUME NEW c \in Workers,
               \/ Assign(c) \/ Revoke(c) \/ PollFetches(c) \/ HandleMalformed(c) \/ RetryForever(c)
               \/ SendAcked(c) \/ SendFailed(c) \/ CommitRecords(c)
        PROVE  UNCHANGED storeVars
    BY <1>7, <1>1 DEF Assign, Revoke, PollFetches, HandleMalformed, RetryForever, SendAcked,
                      SendFailed, CommitRecords
  <1>8. ASSUME NEW c \in Workers,
               \/ Shutdown(c) \/ Break(c) \/ Exit(c) \/ Crash(c) \/ Restart(c)
               \/ SweepSelect(c) \/ SweepSend(c) \/ SweepFail(c)
        PROVE  UNCHANGED storeVars
    BY <1>8 DEF Shutdown, Break, Exit, Crash, Restart, SweepSelect, SweepSend, SweepFail
  <1>9. ASSUME \/ \E r \in Inputs : Produce(r)
               \/ AwaitRecords
        PROVE  UNCHANGED storeVars
    BY <1>9, <1>1 DEF Produce, AwaitRecords
  <1> QED
    BY <1>1, <1>4, <1>5, <1>6, <1>7, <1>8, <1>9 DEF Next, ProcessStep

(* The consumer implements the store's specification: HandleEvent,           *)
(* LoseAnswer and SweepCommit are its transactions, all else a stutter.      *)
THEOREM UsesStore == Spec => StoreSpec
  <1>1. Init => StoreInit
    BY DEF Init
  <1> QED
    BY <1>1, StepUsesStore, PTL DEF Spec, StoreSpec

(* Redelivery, crashes between the two commits, lost answers, zombies of a   *)
(* rebalance and sweepers in any order: downstream is still told each order  *)
(* once and in order (consumer.go:90-93, "the Store makes replays harmless").*)
THEOREM ReplaysHarmless == Spec => []LogTellsOrder
  BY UsesStore, NotifiedOnceInOrder, PTL

(* ... and nothing is left waiting for a predecessor that was applied.       *)
THEOREM ConsumerNeverStalls == Spec => []NoStalledSuccessor
  BY UsesStore, NeverStalled, PTL

(* The consumer keeps the ledger's promise, its crashes, replays and zombies *)
(* included: an order's log only grows, by its owner's next events, until an *)
(* abort ends it (ApplyEvent, AbortPlan).                                    *)
THEOREM ConsumerKeepsLedger == Spec => KeepsLedger
  BY UsesStore, ImplementsLedger, PTL

-----------------------------------------------------------------------------
(* The offsets of a worker: its batch lies within what it fetched.           *)
OffsetsOK(w) ==
    /\ w.next \in Nat /\ w.from \in Nat /\ w.at \in Nat /\ w.to \in Nat
    /\ w.from <= w.at /\ w.at <= w.to

(* The strengthening of CommittedIsSettled: what a worker is about to commit *)
(* is in S, the settled offsets, and so is all that its next fetch skips,    *)
(* except for the rest of the batch it still works on.                       *)
SettledBehind(w, S) ==
    /\ \A i \in 1..w.at : i \in S
    /\ w.mode = "running" => \A i \in 1..w.next : i \in S \/ (w.at < i /\ i <= w.to)

OffsetInv ==
    /\ committed \in Nat
    /\ CommittedIsSettled
    /\ worker = [c \in Workers |-> worker[c]]
    /\ \A c \in Workers : OffsetsOK(worker[c]) /\ SettledBehind(worker[c], settled)

(* More settled offsets never hurt. *)
LEMMA SettledGrows ==
    ASSUME NEW w, NEW S, NEW T, S \subseteq T, SettledBehind(w, S)
    PROVE  SettledBehind(w, T)
  BY DEF SettledBehind

(* A step that only lets settled grow, and changes no worker but c. *)
LEMMA OneWorkerStep ==
    ASSUME OffsetInv, NEW c \in Workers, NEW w,
           worker' = [worker EXCEPT ![c] = w],
           settled \subseteq settled',
           OffsetsOK(w), SettledBehind(w, settled'),
           committed' \in Nat, \A i \in 1..committed' : i \in settled'
    PROVE  OffsetInv'
  <1>1. worker' = [d \in Workers |-> worker'[d]]
    BY DEF OffsetInv
  <1>2. worker'[c] = w /\ \A d \in Workers \ {c} : worker'[d] = worker[d]
    BY DEF OffsetInv
  <1>3. ASSUME NEW d \in Workers
        PROVE  OffsetsOK(worker'[d]) /\ SettledBehind(worker'[d], settled')
    BY <1>2, SettledGrows DEF OffsetInv
  <1> QED
    BY <1>1, <1>3 DEF OffsetInv, CommittedIsSettled

(* No worker has fetched anything and nothing is committed.                  *)
LEMMA OffsetInvInit == Init => OffsetInv
  BY DEF Init, Idle, OffsetInv, OffsetsOK, SettledBehind, CommittedIsSettled

(* The steps that move a worker's offsets, or only its other fields. *)

(* Assign: the next fetch starts at the committed offset, all below it settled.*)
LEMMA AssignOffsets ==
    ASSUME OffsetInv, NEW c \in Workers, Assign(c)
    PROVE  OffsetInv'
  <1> DEFINE w == [worker[c] EXCEPT !.holds = TRUE, !.next = committed]
  <1>1. worker' = [worker EXCEPT ![c] = w] /\ settled' = settled /\ committed' = committed
    BY DEF Assign, FetchStart, OffsetInv
  <1>2. OffsetsOK(w) /\ SettledBehind(w, settled')
    BY <1>1 DEF OffsetInv, OffsetsOK, SettledBehind, CommittedIsSettled
  <1> HIDE DEF w
  <1> QED
    BY <1>1, <1>2, OneWorkerStep DEF OffsetInv, CommittedIsSettled

(* PollFetches: the new batch is all that lies between what is settled and the*)
(* next fetch, because the batch before it is through.                       *)
LEMMA PollFetchesOffsets ==
    ASSUME OffsetInv, NEW c \in Workers, PollFetches(c)
    PROVE  OffsetInv'
  <1>1. PICK n \in (worker[c].next + 1)..Len(topic) :
           worker' = [worker EXCEPT ![c] = [worker[c] EXCEPT
                        !.from = worker[c].next, !.at = worker[c].next, !.to = n, !.next = n]]
    BY ZenonT(30) DEF PollFetches, OffsetInv
  <1> DEFINE w == [worker[c] EXCEPT !.from = worker[c].next, !.at = worker[c].next,
                                    !.to = n, !.next = n]
  <1>2. settled' = settled /\ committed' = committed /\ worker[c].mode = "running"
        /\ worker[c].from = worker[c].to
    BY DEF PollFetches
  <1>3. OffsetsOK(worker[c]) /\ SettledBehind(worker[c], settled)
    BY DEF OffsetInv
  <1>4. worker[c].at = worker[c].to /\ worker[c].next \in Nat /\ n \in Int /\ n > worker[c].next
    BY <1>2, <1>3 DEF OffsetsOK
  <1>5. \A i \in 1..worker[c].next : i \in settled
    BY <1>2, <1>3, <1>4 DEF SettledBehind, OffsetsOK
  <1>6. OffsetsOK(w) /\ SettledBehind(w, settled')
    BY <1>2, <1>4, <1>5 DEF OffsetsOK, SettledBehind
  <1> HIDE DEF w
  <1> QED
    BY <1>1, <1>2, <1>6, OneWorkerStep DEF w, OffsetInv, CommittedIsSettled

(* The next record is settled. *)
LEMMA SettleOffsets ==
    ASSUME OffsetInv, NEW c \in Workers, worker[c].at < worker[c].to, Settle(c),
           committed' = committed
    PROVE  OffsetInv'
  <1> DEFINE w == [worker[c] EXCEPT !.at = worker[c].at + 1, !.code = NoCode]
  <1>1. worker' = [worker EXCEPT ![c] = w] /\ settled' = settled \cup {worker[c].at + 1}
    BY DEF Settle, OffsetInv
  <1>2. OffsetsOK(worker[c]) /\ SettledBehind(worker[c], settled)
    BY DEF OffsetInv
  <1>3. OffsetsOK(w) /\ SettledBehind(w, settled')
    BY <1>1, <1>2 DEF OffsetsOK, SettledBehind
  <1> HIDE DEF w
  <1> QED
    BY <1>1, <1>3, OneWorkerStep DEF OffsetInv, CommittedIsSettled

(* Run commits what it has settled. *)
LEMMA CommitRecordsOffsets ==
    ASSUME OffsetInv, NEW c \in Workers, CommitRecords(c)
    PROVE  OffsetInv'
  <1> DEFINE w == [worker[c] EXCEPT !.from = worker[c].at]
  <1>1. worker' = [worker EXCEPT ![c] = w] /\ settled' = settled
        /\ committed' \in {committed, worker[c].at}
    BY DEF CommitRecords, CommitOffset, OffsetInv
  <1>2. OffsetsOK(worker[c]) /\ SettledBehind(worker[c], settled)
    BY DEF OffsetInv
  <1>3. OffsetsOK(w) /\ SettledBehind(w, settled')
    BY <1>1, <1>2 DEF OffsetsOK, SettledBehind
  <1>4. committed' \in Nat /\ \A i \in 1..committed' : i \in settled'
    BY <1>1, <1>2 DEF OffsetInv, CommittedIsSettled, OffsetsOK, SettledBehind
  <1> HIDE DEF w
  <1> QED
    BY <1>1, <1>3, <1>4, OneWorkerStep

(* A shutdown leaves the rest of the batch, and the next fetch, to nobody. *)
LEMMA BreakOffsets ==
    ASSUME OffsetInv, NEW c \in Workers, Break(c)
    PROVE  OffsetInv'
  <1> DEFINE w == [worker[c] EXCEPT !.to = worker[c].at, !.code = NoCode]
  <1>1. worker' = [worker EXCEPT ![c] = w] /\ settled' = settled /\ committed' = committed
        /\ worker[c].mode = "stopping"
    BY DEF Break, OffsetInv
  <1>2. OffsetsOK(worker[c]) /\ SettledBehind(worker[c], settled)
    BY DEF OffsetInv
  <1>3. OffsetsOK(w) /\ SettledBehind(w, settled')
    BY <1>1, <1>2 DEF OffsetsOK, SettledBehind
  <1> HIDE DEF w
  <1> QED
    BY <1>1, <1>3, OneWorkerStep DEF OffsetInv, CommittedIsSettled

(* A process that starts, or is down, has fetched nothing. *)
LEMMA IdleOffsets ==
    ASSUME OffsetInv, NEW c \in Workers, NEW mode,
           worker' = [worker EXCEPT ![c] = Idle(mode)],
           settled' = settled, committed' = committed
    PROVE  OffsetInv'
  <1>1. OffsetsOK(Idle(mode)) /\ SettledBehind(Idle(mode), settled')
    BY DEF Idle, OffsetsOK, SettledBehind
  <1> QED
    BY <1>1, OneWorkerStep DEF OffsetInv, CommittedIsSettled

(* Steps that touch no offset of a worker. *)
LEMMA OtherFields ==
    ASSUME OffsetInv, NEW c \in Workers, NEW w,
           worker' = [worker EXCEPT ![c] = w],
           w.next = worker[c].next, w.from = worker[c].from, w.at = worker[c].at,
           w.to = worker[c].to, w.mode = worker[c].mode \/ w.mode # "running",
           settled' = settled, committed' = committed
    PROVE  OffsetInv'
  <1>1. OffsetsOK(w) /\ SettledBehind(w, settled')
    BY DEF OffsetInv, OffsetsOK, SettledBehind
  <1> QED
    BY <1>1, OneWorkerStep DEF OffsetInv, CommittedIsSettled

(* Waiting for a dead letter's acknowledgement moves no offset.              *)
LEMMA DivertOffsets ==
    ASSUME OffsetInv, NEW c \in Workers, NEW code, Divert(c, code), committed' = committed
    PROVE  OffsetInv'
  <1> DEFINE w == [worker[c] EXCEPT !.code = code]
  <1>1. worker' = [worker EXCEPT ![c] = w] /\ settled' = settled
    BY DEF Divert, OffsetInv
  <1>2. /\ w.next = worker[c].next /\ w.from = worker[c].from /\ w.at = worker[c].at
        /\ w.to = worker[c].to /\ w.mode = worker[c].mode
    OBVIOUS
  <1> HIDE DEF w
  <1> QED
    BY <1>1, <1>2, OtherFields

(* A step that changes neither workers, nor the commit, nor what is settled. *)
LEMMA NoOffsetMoves ==
    ASSUME OffsetInv, worker' = worker, settled' = settled, committed' = committed
    PROVE  OffsetInv'
  BY DEF OffsetInv, CommittedIsSettled

(* Every step of the consumer keeps the offset invariant.                    *)
LEMMA OffsetInvNext == OffsetInv /\ [Next]_vars => OffsetInv'
  <1> SUFFICES ASSUME OffsetInv, [Next]_vars PROVE OffsetInv'
    OBVIOUS
  <1>1. ASSUME UNCHANGED vars PROVE OffsetInv'
    BY <1>1, NoOffsetMoves DEF vars, consumerVars
  <1>2. ASSUME \/ \E r \in Inputs : Produce(r)
               \/ AwaitRecords
               \/ \E c \in Workers : RetryForever(c) \/ LoseAnswer(c) \/ SweepSelect(c)
                                     \/ SweepSend(c) \/ SweepCommit(c) \/ SweepFail(c)
        PROVE  OffsetInv'
    BY <1>2, <1>1, NoOffsetMoves DEF Produce, AwaitRecords, RetryForever, LoseAnswer,
                                     SweepSelect, SweepSend, SweepCommit, SweepFail
  <1>3. ASSUME NEW c \in Workers,
               Assign(c) \/ PollFetches(c) \/ CommitRecords(c) \/ Break(c)
        PROVE  OffsetInv'
    BY <1>3, AssignOffsets, PollFetchesOffsets, CommitRecordsOffsets, BreakOffsets
  <1>4. ASSUME NEW c \in Workers, Revoke(c) PROVE OffsetInv'
    <2> DEFINE w == [worker[c] EXCEPT !.holds = FALSE]
    <2>1. worker' = [worker EXCEPT ![c] = w] /\ settled' = settled /\ committed' = committed
      BY <1>4 DEF Revoke, OffsetInv
    <2>2. /\ w.next = worker[c].next /\ w.from = worker[c].from /\ w.at = worker[c].at
          /\ w.to = worker[c].to /\ w.mode = worker[c].mode
      OBVIOUS
    <2> HIDE DEF w
    <2> QED
      BY <2>1, <2>2, OtherFields
  <1>5. ASSUME NEW c \in Workers, Shutdown(c) PROVE OffsetInv'
    <2> DEFINE w == [worker[c] EXCEPT !.mode = "stopping"]
    <2>1. worker' = [worker EXCEPT ![c] = w] /\ settled' = settled /\ committed' = committed
      BY <1>5 DEF Shutdown, OffsetInv
    <2>2. /\ w.next = worker[c].next /\ w.from = worker[c].from /\ w.at = worker[c].at
          /\ w.to = worker[c].to /\ w.mode # "running"
      BY <1>5 DEF Shutdown
    <2> HIDE DEF w
    <2> QED
      BY <2>1, <2>2, OtherFields
  <1>6. ASSUME NEW c \in Workers, Exit(c) \/ Crash(c) \/ Restart(c) PROVE OffsetInv'
    BY <1>6, IdleOffsets DEF Exit, Crash, Restart
  <1>7. ASSUME NEW c \in Workers, HandleMalformed(c) \/ SendFailed(c) PROVE OffsetInv'
    BY <1>7, DivertOffsets DEF HandleMalformed, SendFailed, RetryUnsent
  <1>8. ASSUME NEW c \in Workers, HandleEvent(c) PROVE OffsetInv'
    <2>1. worker[c].at < worker[c].to /\ committed' = committed
          /\ (Settle(c) \/ Divert(c, "PLAN_MISMATCH") \/ Divert(c, "DB_REJECTED"))
      BY <1>8 DEF HandleEvent, Busy
    <2> QED
      BY <2>1, SettleOffsets, DivertOffsets
  <1>9. ASSUME NEW c \in Workers, SendAcked(c) PROVE OffsetInv'
    BY <1>9, SettleOffsets DEF SendAcked, Busy
  <1> QED
    BY <1>1, <1>2, <1>3, <1>4, <1>5, <1>6, <1>7, <1>8, <1>9 DEF Next, ProcessStep

LEMMA OffsetInvariant == Spec => []OffsetInv
  BY OffsetInvInit, OffsetInvNext, PTL DEF Spec

(* "A record's offset is committed only once the record is settled"          *)
(* (consumer.go:90-93), for any number of workers: crashes, failed and late  *)
(* commits, rebalances in the middle of a batch and shutdowns included.      *)
THEOREM CommitsOnlySettled == Spec => []CommittedIsSettled
  BY OffsetInvariant, PTL DEF OffsetInv
=============================================================================
