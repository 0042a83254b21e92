------------------------------ MODULE Consumer ------------------------------
(***************************************************************************)
(* The Kafka side of the server: server/internal/consumer, with the topic, *)
(* the committed offset, the dead-letter topic and the consumer group as   *)
(* it uses them.  Every worker is one server process: the goroutine of Run *)
(* that settles the records of a fetched batch one by one, and the sweeper *)
(* goroutine that expires buffered events.  Workers crash, shut down, lose *)
(* the partition while they still hold a batch of it, lose the answer of a *)
(* transaction that committed, and lose the acknowledgement of a send.     *)
(* The topic has one partition: the key of a record is its order id, so    *)
(* the events of an order never meet those of another partition.           *)
(***************************************************************************)
EXTENDS OrderStore, FiniteSets

CONSTANTS
    Workers,    \* the server processes of the consumer group
    Unparsable, \* a record whose value is not JSON
    Invalid,    \* a record whose envelope Validate rejects
    Inputs,     \* the records a producer may append, a subset of Record
    MaxLog,     \* bound: records in the topic
    MaxFaults   \* bound: faults of the environment, of every kind together

Record == Event \cup {Unparsable, Invalid}

ASSUME InputsAssumption  == Inputs \subseteq Record
ASSUME BoundsAssumption  == MaxLog \in Nat /\ MaxFaults \in Nat
ASSUME RecordsAssumption == {Unparsable, Invalid} \cap (Event \cup {NoRow}) = {}

VARIABLES
    topic,      \* the records of the partition, by offset + 1
    committed,  \* the committed offset: how many records the group is past
    worker,     \* worker[c]: the state of process c, see Idle
    sweep,      \* sweep[c]: the rows its sweeper has locked, and has yet to send
    dlq,        \* the dead letters: <<record, code>>
    settled,    \* history: the offsets some worker has settled
    faults      \* how many faults there have been

consumerVars == <<topic, committed, worker, sweep, dlq, settled, faults>>
vars == <<storeVars, consumerVars>>

Code == {"PARSE_ERROR", "INVALID_EVENT", "PLAN_MISMATCH", "DB_REJECTED", "BUFFER_TIMEOUT"}

NoCode == "none"

(* A process without a batch.  holds: it believes the partition is its own;  *)
(* next: where its next fetch starts; the records at+1 .. to of the topic    *)
(* are the rest of its batch, from+1 .. at are settled and not committed;    *)
(* code: the dead letter it is waiting to see acknowledged.                  *)
Idle(mode) == [mode |-> mode, holds |-> FALSE, next |-> 0,
               from |-> 0, at |-> 0, to |-> 0, code |-> NoCode]

NoSweep == [rows |-> {}, left |-> {}]

Init ==
    /\ StoreInit
    /\ topic = <<>>
    /\ committed = 0
    /\ worker = [c \in Workers |-> Idle("running")]
    /\ sweep = [c \in Workers |-> NoSweep]
    /\ dlq = {}
    /\ settled = {}
    /\ faults = 0

-----------------------------------------------------------------------------
Up(c)      == worker[c].mode \in {"running", "stopping"}
Busy(c)    == Up(c) /\ worker[c].at < worker[c].to
Current(c) == topic[worker[c].at + 1]
Holders    == {c \in Workers : worker[c].holds}
Locked     == UNION {sweep[c].rows : c \in Workers}

Fault == faults < MaxFaults /\ faults' = faults + 1

(* Record at + 1 is settled. *)
Settle(c) ==
    /\ worker' = [worker EXCEPT ![c].at = @ + 1, ![c].code = NoCode]
    /\ settled' = settled \cup {worker[c].at + 1}

(* Record at + 1 has to reach the dead-letter topic first. *)
Divert(c, code) ==
    /\ worker' = [worker EXCEPT ![c].code = code]
    /\ UNCHANGED settled

-----------------------------------------------------------------------------
(* Mutant: a sweeper that does not lock the rows it reads. *)
WaitsForNobody(e) == FALSE

(* The transaction of e deletes a row that a sweeper holds FOR UPDATE: it     *)
(* waits for the sweeper's transaction to end.                               *)
Waits(e) ==
    \/ /\ e \in SeqEvent /\ SeqOutcome(e) = "APPLY" /\ Applicable(e)
       /\ \E s \in (e.seqID + 1)..MaxInt :
             DrainableTo(e, s - 1) /\ <<e.order, e.planID, s>> \in Locked
    \/ /\ e \in AbortEvent /\ AbortOutcome(e) \in {"APPLY", "TOMBSTONE"} /\ Storable(e)
       /\ \E s \in 1..MaxInt : <<e.order, e.planID, s>> \in Locked

-----------------------------------------------------------------------------
(* The producers append a record. *)
Produce(r) ==
    /\ Len(topic) < MaxLog
    /\ topic' = Append(topic, r)
    /\ UNCHANGED <<storeVars, committed, worker, sweep, dlq, settled, faults>>

(* Mutant: a worker that resumes where the topic ends, not at the commit. *)
FetchFromEnd == Len(topic)

(* Where a fetch starts after an assignment: at the committed offset. *)
FetchStart == committed

(* The partition is assigned to c; when another worker holds it, that one    *)
(* has not heard of the rebalance yet.                                       *)
Assign(c) ==
    /\ worker[c].mode = "running" /\ ~worker[c].holds
    /\ IF Holders = {} THEN UNCHANGED faults ELSE Fault
    /\ worker' = [worker EXCEPT ![c].holds = TRUE, ![c].next = FetchStart]
    /\ UNCHANGED <<storeVars, topic, committed, sweep, dlq, settled>>

(* c hears that the partition went to another worker; the batch it is        *)
(* processing stays with it.                                                 *)
Revoke(c) ==
    /\ worker[c].holds /\ Holders # {c}
    /\ worker' = [worker EXCEPT ![c].holds = FALSE]
    /\ UNCHANGED <<storeVars, topic, committed, sweep, dlq, settled, faults>>

(* PollFetches: the next records, as many as the fetch brings. *)
PollFetches(c) ==
    /\ worker[c].mode = "running" /\ worker[c].holds
    /\ worker[c].from = worker[c].to
    /\ \E n \in (worker[c].next + 1)..Len(topic) :
          worker' = [worker EXCEPT ![c].from = worker[c].next, ![c].at = worker[c].next,
                                   ![c].to = n, ![c].next = n]
    /\ UNCHANGED <<storeVars, topic, committed, sweep, dlq, settled, faults>>

-----------------------------------------------------------------------------
(* handleRecord, up to the transaction's answer.  An error that is neither   *)
(* permanent nor a dead letter leaves everything as it is: the record is     *)
(* retried, which is the same step again.                                    *)

HandleMalformed(c) ==
    /\ Busy(c) /\ worker[c].code = NoCode
    /\ \/ Current(c) = Unparsable /\ Divert(c, "PARSE_ERROR")
       \/ Current(c) = Invalid    /\ Divert(c, "INVALID_EVENT")
    /\ UNCHANGED <<storeVars, topic, committed, sweep, dlq, faults>>

(* handleSequenced and handleAbort. *)
HandleEvent(c) ==
    /\ Busy(c) /\ worker[c].code = NoCode
    /\ Current(c) \in Event
    /\ LET e == Current(c) IN
       /\ ~Waits(e)
       /\ \/ e \in SeqEvent   /\ ApplyEvent(e) /\ Settle(c)
          \/ e \in AbortEvent /\ AbortPlan(e)  /\ Settle(c)
          \/ Mismatch(e) /\ Divert(c, "PLAN_MISMATCH") /\ UNCHANGED storeVars
          \/ Rejected(e) /\ Divert(c, "DB_REJECTED")   /\ UNCHANGED storeVars
    /\ UNCHANGED <<topic, committed, sweep, dlq, faults>>

(* The driver's own error is transient to IsPermanent: backoff and the same   *)
(* record again, for ever.                                                    *)
RetryForever(c) ==
    /\ Busy(c) /\ worker[c].code = NoCode
    /\ Current(c) \in Event /\ Unencodable(Current(c))
    /\ UNCHANGED vars

(* The transaction commits and its answer is lost: to the worker that is a   *)
(* transient error, and it retries the record.                               *)
LoseAnswer(c) ==
    /\ Busy(c) /\ worker[c].code = NoCode
    /\ Current(c) \in Event
    /\ LET e == Current(c) IN
       /\ ~Waits(e)
       /\ \/ e \in SeqEvent   /\ ApplyEvent(e)
          \/ e \in AbortEvent /\ AbortPlan(e)
    /\ Fault
    /\ UNCHANGED <<topic, committed, worker, sweep, dlq, settled>>

(* dlq.Send: the broker acknowledged the dead letter. *)
SendAcked(c) ==
    /\ Busy(c) /\ worker[c].code # NoCode
    /\ dlq' = dlq \cup {<<Current(c), worker[c].code>>}
    /\ Settle(c)
    /\ UNCHANGED <<storeVars, topic, committed, sweep, faults>>

(* Mutant: a consumer that takes an unacknowledged dead letter for sent. *)
SettleUnsent(c) == Settle(c) /\ Fault /\ UNCHANGED dlq

(* What an unacknowledged send does: the broker has the dead letter or not,  *)
(* and the whole record is handled again.                                    *)
RetryUnsent(c) ==
    /\ dlq' \in {dlq, dlq \cup {<<Current(c), worker[c].code>>}}
    /\ Divert(c, NoCode)
    /\ Fault

SendFailed(c) ==
    /\ Busy(c) /\ worker[c].code # NoCode
    /\ RetryUnsent(c)
    /\ UNCHANGED <<storeVars, topic, committed, sweep>>

-----------------------------------------------------------------------------
(* Mutants: a consumer that commits how far it has fetched, and one that     *)
(* takes the last settled offset for the one before it.                      *)
CommitFetched(c) == worker[c].next
CommitOneMore(c) == worker[c].at + 1

(* What Run commits: the offset after the last settled record. *)
CommitOffset(c) == worker[c].at

(* commit, after the last record of a batch or after the break.  It may fail, *)
(* which is logged and forgotten; the broker takes it even when the           *)
(* partition has moved on, and even when it is lower than an earlier one.     *)
CommitRecords(c) ==
    /\ Up(c) /\ worker[c].from < worker[c].at
    /\ worker[c].at = worker[c].to
    /\ worker' = [worker EXCEPT ![c].from = worker[c].at]
    /\ \/ committed' = CommitOffset(c) /\ UNCHANGED faults
       \/ Fault /\ UNCHANGED committed
    /\ UNCHANGED <<storeVars, topic, sweep, dlq, settled>>

(* SIGTERM cancels the context of Run and of the sweeper. *)
Shutdown(c) ==
    /\ worker[c].mode = "running"
    /\ Fault
    /\ worker' = [worker EXCEPT ![c].mode = "stopping"]
    /\ UNCHANGED <<storeVars, topic, committed, sweep, dlq, settled>>

(* processWithRetry gives up on a cancelled context: this record and the     *)
(* rest of the batch stay uncommitted, what is settled is still committed.   *)
Break(c) ==
    /\ worker[c].mode = "stopping" /\ Busy(c)
    /\ worker' = [worker EXCEPT ![c].to = worker[c].at, ![c].code = NoCode]
    /\ UNCHANGED <<storeVars, topic, committed, sweep, dlq, settled, faults>>

(* Run returns once the sweeper has, and the process leaves the group. *)
Exit(c) ==
    /\ worker[c].mode = "stopping" /\ worker[c].from = worker[c].to
    /\ sweep[c] = NoSweep
    /\ worker' = [worker EXCEPT ![c] = Idle("down")]
    /\ UNCHANGED <<storeVars, topic, committed, sweep, dlq, settled, faults>>

(* The process dies between any two steps; Postgres rolls its sweep back. *)
Crash(c) ==
    /\ Up(c)
    /\ Fault
    /\ worker' = [worker EXCEPT ![c] = Idle("down")]
    /\ sweep' = [sweep EXCEPT ![c] = NoSweep]
    /\ UNCHANGED <<storeVars, topic, committed, dlq, settled>>

Restart(c) ==
    /\ worker[c].mode = "down"
    /\ worker' = [worker EXCEPT ![c] = Idle("running")]
    /\ UNCHANGED <<storeVars, topic, committed, sweep, dlq, settled, faults>>

-----------------------------------------------------------------------------
(* The sweeper: one transaction that selects rows FOR UPDATE SKIP LOCKED,    *)
(* sends each as a dead letter, and commits their deletion.                  *)

SweepSelect(c) ==
    /\ worker[c].mode = "running" /\ sweep[c] = NoSweep
    /\ \E rows \in SUBSET (Buffered \ Locked) :
          /\ rows # {}
          /\ sweep' = [sweep EXCEPT ![c] = [rows |-> rows, left |-> rows]]
    /\ UNCHANGED <<storeVars, topic, committed, worker, dlq, settled, faults>>

SweepSend(c) ==
    /\ Up(c)
    /\ \E k \in sweep[c].left :
          /\ dlq' = dlq \cup {<<pending[k[1]][k[2]][k[3]], "BUFFER_TIMEOUT">>}
          /\ sweep' = [sweep EXCEPT ![c].left = @ \ {k}]
    /\ UNCHANGED <<storeVars, topic, committed, worker, settled, faults>>

(* Mutant: a sweeper that deletes its rows before they are all sent. *)
SentSome(c) == sweep[c].rows # {}

(* Every row of the sweep has been acknowledged by the broker. *)
AllSent(c) == sweep[c].rows # {} /\ sweep[c].left = {}

(* Mutant: a sweep whose transaction always ends in the deferred rollback. *)
SweepRollsBack(c) ==
    /\ Up(c) /\ AllSent(c)
    /\ sweep' = [sweep EXCEPT ![c] = NoSweep]
    /\ UNCHANGED <<storeVars, topic, committed, worker, dlq, settled, faults>>

SweepCommit(c) ==
    /\ Up(c) /\ AllSent(c)
    /\ ExpirePending(sweep[c].rows)
    /\ sweep' = [sweep EXCEPT ![c] = NoSweep]
    /\ UNCHANGED <<topic, committed, worker, dlq, settled, faults>>

(* A send or a statement fails, or the context is cancelled: everything is   *)
(* rolled back but the dead letters the broker already has.                  *)
SweepFail(c) ==
    /\ Up(c) /\ sweep[c] # NoSweep
    /\ IF worker[c].mode = "stopping" THEN UNCHANGED faults ELSE Fault
    /\ sweep' = [sweep EXCEPT ![c] = NoSweep]
    /\ UNCHANGED <<storeVars, topic, committed, worker, dlq, settled>>

-----------------------------------------------------------------------------
(* Every process that has a batch is through with it, and the holder's       *)
(* PollFetches blocks until a record comes.  Only here may the system rest:  *)
(* any other state without a step is a deadlock.                             *)
AwaitRecords ==
    /\ Len(topic) = MaxLog
    /\ Buffered = {}
    /\ \A c \in Workers : /\ worker[c].mode = "running" /\ worker[c].from = worker[c].to
                          /\ worker[c].holds => worker[c].next = Len(topic)
    /\ UNCHANGED vars

Handle(c) == HandleMalformed(c) \/ HandleEvent(c)

(* What a server process, or its environment, may do next. *)
ProcessStep(c) ==
    \/ Assign(c) \/ Revoke(c) \/ PollFetches(c)
    \/ HandleMalformed(c) \/ HandleEvent(c) \/ RetryForever(c) \/ LoseAnswer(c)
    \/ SendAcked(c) \/ SendFailed(c)
    \/ CommitRecords(c)
    \/ Shutdown(c) \/ Break(c) \/ Exit(c) \/ Crash(c) \/ Restart(c)
    \/ SweepSelect(c) \/ SweepSend(c) \/ SweepCommit(c) \/ SweepFail(c)

Next ==
    \/ \E r \in Inputs : Produce(r)
    \/ \E c \in Workers : ProcessStep(c)
    \/ AwaitRecords

(* Run never stops polling, handling and sweeping; the coordinator assigns   *)
(* the partition; a process that went down is started again; and there are   *)
(* finitely many faults (MaxFaults), so retries are answered in the end.     *)
(* Handling waits for row locks, which sweepers take and release again and   *)
(* again: Postgres queues the waiter, hence strong fairness.                 *)
Fairness ==
    \A c \in Workers :
       /\ WF_vars(Assign(c) /\ Holders = {})
       /\ WF_vars(Revoke(c)) /\ WF_vars(PollFetches(c))
       /\ SF_vars(Handle(c)) /\ WF_vars(SendAcked(c)) /\ WF_vars(CommitRecords(c))
       /\ WF_vars(Break(c)) /\ WF_vars(Exit(c)) /\ WF_vars(Restart(c))
       /\ WF_vars(SweepSelect(c)) /\ WF_vars(SweepSend(c)) /\ WF_vars(SweepCommit(c))
       /\ WF_vars(SweepFail(c) /\ worker[c].mode = "stopping")

Spec     == Init /\ [][Next]_vars
LiveSpec == Spec /\ Fairness

-----------------------------------------------------------------------------
(* Type invariant, with the order of a batch's offsets. *)
ConsumerTypeOK ==
    /\ topic \in Seq(Record)
    /\ committed \in 0..Len(topic)
    /\ \A c \in Workers :
          /\ worker[c] \in [mode : {"running", "stopping", "down"}, holds : BOOLEAN,
                            next : 0..MaxLog, from : 0..MaxLog, at : 0..MaxLog,
                            to : 0..MaxLog, code : Code \cup {NoCode}]
          /\ worker[c].from <= worker[c].at /\ worker[c].at <= worker[c].to
          /\ worker[c].to <= Len(topic) /\ worker[c].next <= Len(topic)
          /\ sweep[c].left \subseteq sweep[c].rows
    /\ dlq \subseteq Record \X Code
    /\ settled \subseteq 1..Len(topic)

(* "A record's offset is committed only once the record is settled"          *)
(* (consumer.go:90-93): whatever crashes, rebalances and late commits of a   *)
(* worker that lost the partition do, no record below the committed offset   *)
(* is one that nobody has settled.                                           *)
CommittedIsSettled == \A i \in 1..committed : i \in settled

SameKey(e, f) == f \in Event /\ f.order = e.order /\ f.planID = e.planID /\ f.seqID = e.seqID

InLog(e)      == \E i \in 1..Len(outbox[e.order]) : SameKey(e, outbox[e.order][i])
InDLQ(e)      == \E letter \in dlq : SameKey(e, letter[1])
IsBuffered(e) == e.seqID \in 1..MaxInt /\ Row(e, e.seqID) # NoRow
PlanAborted(e) == Owns(orders[e.order], e.planID) /\ Aborted(orders[e.order])
WasCompleted(e) == \E i \in 1..Len(outbox[e.order]) : outbox[e.order][i].type = "OrderCompleted"

Accounted(r) ==
    \/ r \in SeqEvent   /\ (InLog(r) \/ IsBuffered(r) \/ InDLQ(r) \/ PlanAborted(r))
    \/ r \in AbortEvent /\ (PlanAborted(r) \/ InDLQ(r) \/ WasCompleted(r))
    \/ r \notin Event   /\ \E code \in Code : <<r, code>> \in dlq

(* "nenhuma mensagem some sem registro": a settled record is, at every later *)
(* moment, in the log of its order, in the buffer, in the dead-letter topic, *)
(* or overruled by an abort of its own plan (an abort: by completion).       *)
NothingLost == \A i \in settled : Accounted(topic[i])

(* A record that went to the dead letters for what it is, and not for its    *)
(* timing, never had an effect before or after: malformed, or of a plan that *)
(* does not own the order.                                                   *)
MismatchNeverApplied ==
    \A letter \in dlq :
       letter[2] = "PLAN_MISMATCH" =>
          \A i \in 1..Len(outbox[letter[1].order]) : outbox[letter[1].order][i] # letter[1]

(* Row locks: the rows a sweeper has selected are its alone, and stay in the *)
(* buffer until it commits, whatever drains and aborts do meanwhile.         *)
LockedRowsStay ==
    /\ \A c \in Workers : sweep[c].rows \subseteq Buffered
    /\ \A c, d \in Workers : c # d => sweep[c].rows \cap sweep[d].rows = {}

(* Every record of the topic is settled in the end. *)
EverySettled == \A i \in 1..MaxLog : (Len(topic) >= i) ~> (i \in settled)

(* The same, but for what the driver cannot encode and what comes after it.  *)
EveryEncodableSettled ==
    \A i \in 1..MaxLog :
       (Len(topic) >= i) ~> \/ i \in settled
                            \/ \E j \in DOMAIN topic : /\ j <= i /\ topic[j] \in SeqEvent
                                                       /\ topic[j].seqID >= MaxInt

(* No event waits in the buffer for ever: it is applied, discarded by an     *)
(* abort, or handed to the dead letters.                                     *)
NothingWaitsForever ==
    \A k \in Orders \X Plans \X (1..MaxInt) : (k \in Buffered) ~> (k \notin Buffered)

(* "events that can never be processed" (consumer.go:41): the database       *)
(* rejects only what does not fit its columns.  Violated: the code rejects   *)
(* an event for the buffered successor that its transaction drains.          *)
OnlyUnfitRejected ==
    \A letter \in dlq : letter[2] = "DB_REJECTED" => ~Applicable(letter[1])
=============================================================================
