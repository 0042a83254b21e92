----------------------------- MODULE Dispatcher -----------------------------
(***************************************************************************)
(* The delivery side of the server: the outbox table as                    *)
(* server/internal/db/outbox.go reads and writes it, and the processes of  *)
(* server/internal/dispatcher that claim its entries under a lease and     *)
(* send each as a webhook.  Requests and leases run against one clock,     *)
(* Tick; everything else may happen at any moment between two ticks.       *)
(* Every SQL statement is one transaction, hence one step.  The receiver   *)
(* and the network are the environment: a request is accepted, refused,    *)
(* rejected, or unanswered, and one that was given up may still arrive.    *)
(***************************************************************************)
EXTENDS CircuitBreaker, Sequences, FiniteSets

CONSTANTS
    Aggregates,      \* the ids of the orders that entries are about
    Procs,           \* the server processes that run a dispatcher
    Slots,           \* Config.Workers: requests a process sends at once
    BatchSize,       \* entries a process claims at once
    MaxAttempts,     \* failed attempts that make an entry a dead letter
    Lease,           \* ticks a claim reserves an entry
    RequestTimeout,  \* ticks a request may take, see RequestLimit
    Bookkeeping,     \* ticks deliver has to record the outcome, from its start
    MaxRows,         \* bound: entries in the outbox
    MaxFaults        \* bound: crashes, shutdowns and failed statements together

ASSUME SizesAssumption ==
    {Slots, BatchSize, MaxAttempts, Lease, RequestTimeout, Bookkeeping} \subseteq Nat \ {0}
ASSUME BoundsAssumption == MaxRows \in Nat /\ MaxFaults \in Nat

VARIABLES
    rows,      \* the outbox table, by position
    mode,      \* mode[d]: "running", "stopping" (context cancelled) or "down"
    breaker,   \* breaker[d]: the circuit breaker of d
    task,      \* task[d][k]: how far d is with entry k of its batch, or NoTask
    accepted,  \* the entries the receiver has accepted, at least once
    wire,      \* the entries not accepted yet with a request its sender gave up
    faults     \* how many faults there have been

vars == <<rows, mode, breaker, task, accepted, wire, faults>>

NewRow(o) == [order |-> o, processed |-> FALSE, dead |-> FALSE, attempts |-> 0,
              due |-> TRUE, lease |-> 0]

NoTask == [stage |-> "none", age |-> 0, answer |-> "none", attempts |-> 0, fresh |-> FALSE]
NoTasks == [k \in 1..MaxRows |-> NoTask]

Init ==
    /\ rows = <<>>
    /\ mode = [d \in Procs |-> "running"]
    /\ breaker = [d \in Procs |-> Circuit("closed")]
    /\ task = [d \in Procs |-> NoTasks]
    /\ accepted = {}
    /\ wire = {}
    /\ faults = 0

-----------------------------------------------------------------------------
Up(d)     == mode[d] \in {"running", "stopping"}
Active(t) == t.stage \in {"sending", "received", "answered"}
Sending(t) == t.stage \in {"sending", "received"}

Fault == faults < MaxFaults /\ faults' = faults + 1

(* Mutant: the request may take longer than the claim reserves its entry. *)
RequestOutlastsLease == Lease + 1

(* post: at most half a lease. *)
RequestLimit == IF RequestTimeout < Lease \div 2 THEN RequestTimeout ELSE Lease \div 2

(* Mutant: a claim that forgets dead_at IS NULL. *)
PendingOrDead(k) == ~rows[k].processed

Pending(k) == ~rows[k].processed /\ ~rows[k].dead

(* Mutant: a claim without NOT EXISTS (earlier entry of the aggregate). *)
AnyPending(k) == Pending(k)

(* The oldest pending entry of its aggregate. *)
IsHead(k) == Pending(k) /\ \A j \in 1..(k - 1) : rows[j].order = rows[k].order => ~Pending(j)

Eligible == {k \in DOMAIN rows : IsHead(k) /\ rows[k].due /\ rows[k].lease = 0}

(* ORDER BY position LIMIT. *)
Claimed == {k \in Eligible : Cardinality({j \in Eligible : j < k}) < BatchSize}

LeaseRows == rows' = [k \in DOMAIN rows |-> IF k \in Claimed THEN [rows[k] EXCEPT !.lease = Lease]
                                                             ELSE rows[k]]

(* A slot of the semaphore that a waiting entry of the batch can take. *)
SlotFree(d) == Cardinality({k \in 1..MaxRows : Active(task[d][k])}) < Slots
CanStart(d, k) == Up(d) /\ task[d][k].stage = "waiting" /\ SlotFree(d)

(* The answers that the breaker counts as failures, and that are retried. *)
Retryable(answer) == answer \in {"retry", "error"}

(* The task of k ends with this answer, and the breaker hears of it unless   *)
(* it changed its state meanwhile; when it does, the requests that are still *)
(* under way become stale.                                                   *)
Settle(d, k, answer) ==
    LET t == task[d][k]
        b == IF ~t.fresh THEN breaker[d]
             ELSE IF Retryable(answer) THEN Fail(breaker[d]) ELSE Succeed(breaker[d])
    IN /\ breaker' = [breaker EXCEPT ![d] = b]
       /\ task' = [task EXCEPT ![d] =
             [j \in 1..MaxRows |->
                IF j = k THEN [@[k] EXCEPT !.stage = "answered", !.answer = answer, !.fresh = FALSE]
                ELSE IF b.state # breaker[d].state THEN [@[j] EXCEPT !.fresh = FALSE] ELSE @[j]]]

-----------------------------------------------------------------------------
(* insertOutbox: the transactions of OrderStore, in the order they commit. *)
Insert(o) ==
    /\ Len(rows) < MaxRows
    /\ rows' = Append(rows, NewRow(o))
    /\ UNCHANGED <<mode, breaker, task, accepted, wire, faults>>

(* dispatchBatch: the next batch, once every entry of the last is through.   *)
Claim(d) ==
    /\ mode[d] = "running" /\ task[d] = NoTasks
    /\ ~IsOpen(breaker[d])
    /\ Claimed # {}
    /\ LeaseRows
    /\ task' = [task EXCEPT ![d] = [k \in 1..MaxRows |->
          IF k \in Claimed
          THEN [NoTask EXCEPT !.stage = "waiting", !.attempts = rows[k].attempts]
          ELSE NoTask]]
    /\ UNCHANGED <<mode, breaker, accepted, wire, faults>>

(* The claim commits and its answer is lost: nobody works on the entries. *)
ClaimLost(d) ==
    /\ mode[d] = "running" /\ task[d] = NoTasks
    /\ ~IsOpen(breaker[d])
    /\ Claimed # {}
    /\ LeaseRows
    /\ Fault
    /\ UNCHANGED <<mode, breaker, task, accepted, wire>>

(* deliver: the breaker lets the request through, or not. *)
Send(d, k) ==
    /\ CanStart(d, k) /\ mode[d] = "running"
    /\ Admits(breaker[d])
    /\ breaker' = [breaker EXCEPT ![d] = Admit(@)]
    /\ task' = [task EXCEPT ![d][k].stage = "sending", ![d][k].fresh = TRUE]
    /\ UNCHANGED <<rows, mode, accepted, wire, faults>>

Skip(d, k) ==
    /\ CanStart(d, k)
    /\ ~Admits(breaker[d])
    /\ task' = [task EXCEPT ![d][k].stage = "answered", ![d][k].answer = "skipped"]
    /\ UNCHANGED <<rows, mode, breaker, accepted, wire, faults>>

(* A request that begins under a cancelled context fails before it is sent. *)
SendCancelled(d, k) ==
    /\ CanStart(d, k) /\ mode[d] = "stopping"
    /\ Admits(breaker[d])
    /\ LET b == Fail(Admit(breaker[d])) IN
       /\ breaker' = [breaker EXCEPT ![d] = b]
       /\ task' = [task EXCEPT ![d] =
             [j \in 1..MaxRows |->
                IF j = k THEN [@[k] EXCEPT !.stage = "answered", !.answer = "error"]
                ELSE IF b.state # breaker[d].state THEN [@[j] EXCEPT !.fresh = FALSE] ELSE @[j]]]
    /\ UNCHANGED <<rows, mode, accepted, wire, faults>>

(* The receiver handles the request: 2xx, retryableStatus, or any other. *)
Receive(d, k) ==
    /\ task[d][k].stage = "sending"
    /\ \E verdict \in {"ok", "retry", "reject"} :
          /\ task' = [task EXCEPT ![d][k].stage = "received", ![d][k].answer = verdict]
          /\ accepted' = IF verdict = "ok" THEN accepted \cup {k} ELSE accepted
    /\ wire' = wire \ accepted'
    /\ UNCHANGED <<rows, mode, breaker, faults>>

(* post returns the status of the response. *)
Respond(d, k) ==
    /\ task[d][k].stage = "received"
    /\ Settle(d, k, task[d][k].answer)
    /\ UNCHANGED <<rows, mode, accepted, wire, faults>>

(* post returns an error: the network's, the timeout's or the shutdown's.    *)
NoResponse(d, k) ==
    /\ Sending(task[d][k])
    /\ Settle(d, k, "error")
    /\ wire' = (IF task[d][k].stage = "sending" THEN wire \cup {k} ELSE wire) \ accepted
    /\ UNCHANGED <<rows, mode, accepted, faults>>

(* A request nobody waits for reaches the receiver after all.  For an entry   *)
(* it has accepted it would change nothing: the Idempotency-Key is known.     *)
ArriveLate(k) ==
    /\ k \in wire
    /\ wire' = wire \ {k}
    /\ accepted' = accepted \cup {k}
    /\ UNCHANGED <<rows, mode, breaker, task, faults>>

-----------------------------------------------------------------------------
(* deliver, once the request is over: one statement about the entry. *)

MarkDelivered(k) ==
    rows' = [rows EXCEPT ![k].processed = TRUE, ![k].attempts = @ + 1, ![k].lease = 0]

(* dead_at is set or, by the ELSE that CASE leaves out, cleared.  due is      *)
(* next_attempt_at <= NOW().                                                  *)
MarkFailed(k, due, dead) ==
    rows' = [rows EXCEPT ![k].attempts = @ + 1, ![k].lease = 0, ![k].due = due, ![k].dead = dead]

Release(k) == rows' = [rows EXCEPT ![k].lease = 0]

(* Mutant: one attempt too many. *)
ExhaustedLate(t) == t.attempts >= MaxAttempts

(* The attempt that has just failed was the last one. *)
Exhausted(t) == t.attempts + 1 >= MaxAttempts

Forget(d, k) == task' = [task EXCEPT ![d][k] = NoTask]

Record(d, k) ==
    /\ task[d][k].stage = "answered" /\ task[d][k].age <= Bookkeeping
    /\ LET t == task[d][k] IN
       \/ t.answer = "ok" /\ MarkDelivered(k)
       \/ t.answer = "skipped" /\ Release(k)
       \/ Retryable(t.answer) /\ mode[d] = "stopping" /\ Release(k)
       \/ Retryable(t.answer) /\ mode[d] = "running" /\ MarkFailed(k, FALSE, Exhausted(t))
       \/ t.answer = "reject" /\ MarkFailed(k, TRUE, TRUE)
    /\ Forget(d, k)
    /\ UNCHANGED <<mode, breaker, accepted, wire, faults>>

(* The statement fails, for want of the database or of time: bookCtx began   *)
(* with deliver, before the request.  The error is logged and forgotten.     *)
RecordLost(d, k) ==
    /\ task[d][k].stage = "answered"
    /\ IF task[d][k].age > Bookkeeping THEN UNCHANGED faults ELSE Fault
    /\ Forget(d, k)
    /\ UNCHANGED <<rows, mode, breaker, accepted, wire>>

-----------------------------------------------------------------------------
(* SIGTERM cancels the context of Run. *)
Shutdown(d) ==
    /\ mode[d] = "running"
    /\ Fault
    /\ mode' = [mode EXCEPT ![d] = "stopping"]
    /\ UNCHANGED <<rows, breaker, task, accepted, wire>>

(* Mutant: Run does not wait for its batch. *)
ExitAtOnce(d) ==
    /\ mode[d] = "stopping"
    /\ mode' = [mode EXCEPT ![d] = "down"]
    /\ UNCHANGED <<rows, breaker, task, accepted, wire, faults>>

(* Run returns after its batch. *)
Exit(d) ==
    /\ mode[d] = "stopping" /\ task[d] = NoTasks
    /\ mode' = [mode EXCEPT ![d] = "down"]
    /\ UNCHANGED <<rows, breaker, task, accepted, wire, faults>>

Crash(d) ==
    /\ Up(d)
    /\ Fault
    /\ mode' = [mode EXCEPT ![d] = "down"]
    /\ task' = [task EXCEPT ![d] = NoTasks]
    /\ wire' = (wire \cup {k \in 1..MaxRows : task[d][k].stage = "sending"}) \ accepted
    /\ UNCHANGED <<rows, breaker, accepted>>

Restart(d) ==
    /\ mode[d] = "down"
    /\ mode' = [mode EXCEPT ![d] = "running"]
    /\ breaker' = [breaker EXCEPT ![d] = Circuit("closed")]
    /\ UNCHANGED <<rows, task, accepted, wire, faults>>

-----------------------------------------------------------------------------
(* Time. *)

(* Mutant: a lease that nothing but its holder ends. *)
LeaseStays(ticks) == ticks

LeaseLeft(ticks) == IF ticks > 0 THEN ticks - 1 ELSE 0

(* A process does at once what waits for nothing: it starts an entry while   *)
(* it has a slot, gives up a request whose time is over, and a statement     *)
(* whose context is.                                                         *)
Urgent(d, k) ==
    \/ CanStart(d, k)
    \/ Sending(task[d][k]) /\ task[d][k].age >= RequestLimit
    \/ task[d][k].stage = "answered" /\ task[d][k].age > Bookkeeping

Tick ==
    /\ \A d \in Procs, k \in 1..MaxRows : ~Urgent(d, k)
    /\ \/ \E k \in DOMAIN rows : rows[k].lease > 0
       \/ \E d \in Procs, k \in 1..MaxRows : Active(task[d][k])
    /\ rows' = [k \in DOMAIN rows |-> [rows[k] EXCEPT !.lease = LeaseLeft(@)]]
    /\ task' = [d \in Procs |-> [k \in 1..MaxRows |->
          IF Active(task[d][k]) THEN [task[d][k] EXCEPT !.age = @ + 1] ELSE task[d][k]]]
    /\ UNCHANGED <<mode, breaker, accepted, wire, faults>>

(* The backoff of entry k is over. *)
BackoffEnds(k) ==
    /\ ~rows[k].due
    /\ rows' = [rows EXCEPT ![k].due = TRUE]
    /\ UNCHANGED <<mode, breaker, task, accepted, wire, faults>>

(* The breaker has been open for OpenDuration. *)
ProbeAgain(d) ==
    /\ Up(d) /\ IsOpen(breaker[d])
    /\ breaker' = [breaker EXCEPT ![d] = Circuit("half-open")]
    /\ task' = [task EXCEPT ![d] = [k \in 1..MaxRows |-> [@[k] EXCEPT !.fresh = FALSE]]]
    /\ UNCHANGED <<rows, mode, accepted, wire, faults>>

(* Run polls an outbox with nothing left to deliver: the only place where    *)
(* the system may rest.                                                      *)
PollNothing ==
    /\ Len(rows) = MaxRows
    /\ \A k \in DOMAIN rows : ~Pending(k)
    /\ \A d \in Procs : mode[d] = "running" /\ task[d] = NoTasks
    /\ UNCHANGED vars

Deliver(d, k) ==
    \/ Send(d, k) \/ Skip(d, k) \/ SendCancelled(d, k)
    \/ Receive(d, k) \/ Respond(d, k) \/ NoResponse(d, k)
    \/ Record(d, k) \/ RecordLost(d, k)

(* All that happens to the entries that are there. *)
Dispatch ==
    \/ \E d \in Procs :
          \/ Claim(d) \/ ClaimLost(d)
          \/ \E k \in 1..MaxRows : Deliver(d, k)
          \/ Shutdown(d) \/ Exit(d) \/ Crash(d) \/ Restart(d) \/ ProbeAgain(d)
    \/ \E k \in 1..MaxRows : ArriveLate(k)
    \/ \E k \in DOMAIN rows : BackoffEnds(k)
    \/ Tick
    \/ PollNothing

Next == (\E o \in Aggregates : Insert(o)) \/ Dispatch

Spec == Init /\ [][Next]_vars

(* Time passes, Run keeps polling, a process does what nothing holds up, and *)
(* one that went down is started again.  A statement that is sent in time    *)
(* again and again is answered in time once: hence strong fairness.  Nothing *)
(* is asked of the receiver.                                                 *)
Fairness ==
    /\ WF_vars(Tick)
    /\ \A k \in 1..MaxRows : WF_vars(k \in DOMAIN rows /\ BackoffEnds(k))
    /\ \A d \in Procs :
          /\ WF_vars(Claim(d)) /\ WF_vars(ProbeAgain(d))
          /\ WF_vars(Exit(d)) /\ WF_vars(Restart(d))
          /\ \A k \in 1..MaxRows :
                /\ WF_vars(Send(d, k) \/ Skip(d, k) \/ SendCancelled(d, k))
                /\ WF_vars(NoResponse(d, k) /\ task[d][k].age >= RequestLimit)
                /\ SF_vars(Record(d, k))
                /\ WF_vars(RecordLost(d, k) /\ task[d][k].age > Bookkeeping)

LiveSpec == Spec /\ Fairness

-----------------------------------------------------------------------------
(* Type invariant.  Attempts are those that were recorded, and nothing bounds *)
(* them by itself, see OutcomesAreEarned.  A process that is down has nothing *)
(* in hand.                                                                   *)
DispatcherTypeOK ==
    /\ rows \in Seq([order : Aggregates, processed : BOOLEAN, dead : BOOLEAN,
                     attempts : Nat, due : BOOLEAN, lease : 0..Lease])
    /\ breaker \in [Procs -> Breaker]
    /\ mode \in [Procs -> {"running", "stopping", "down"}]
    /\ \A d \in Procs, k \in 1..MaxRows :
          task[d][k].stage # "none" => k \in DOMAIN rows /\ Up(d)
    /\ accepted \cup wire \subseteq DOMAIN rows

(* Every entry in hand, one that waits for a slot included, is still reserved *)
(* for its process.  Where a batch may take longer than its lease this fails  *)
(* (dispatcher.go:198 waits as long as it must), and everything below that    *)
(* rests on it with it.                                                       *)
LeaseCovers ==
    \A d \in Procs, k \in 1..MaxRows : task[d][k].stage # "none" => rows[k].lease > 0

(* "duas instancias nao entreguem a mesma notificacao ao mesmo tempo"        *)
(* (README.md:102): no entry is in the hands of two processes that have    *)
(* both begun to deliver it.                                                 *)
OneSenderAtATime ==
    \A k \in 1..MaxRows : \A c, d \in Procs :
       Active(task[c][k]) /\ Active(task[d][k]) => c = d

(* Order per aggregate, for the receiver: whatever is retried, duplicated,   *)
(* late or taken over by another process, it accepts an entry for the first  *)
(* time only after every earlier one of the order, dead letters excepted.    *)
DeliveredInOrder ==
    [][\A k \in accepted' \ accepted : \A j \in 1..(k - 1) :
          rows[j].order = rows[k].order => j \in accepted \/ rows[j].dead]_vars

(* Delivered, or a dead letter. *)
Done(k) == rows[k].processed \/ rows[k].dead

(* "A dead entry is never retried" (outbox.go:78), and a delivered one       *)
(* neither: nothing that a process still believes changes its outcome.       *)
DoneIsFinal ==
    [][\A k \in DOMAIN rows : Done(k) =>
          /\ rows'[k].processed = rows[k].processed
          /\ rows'[k].dead = rows[k].dead
          /\ rows'[k].attempts = rows[k].attempts]_vars

(* The request of d about k has got one of these answers, and d is through    *)
(* with the entry.                                                            *)
EndsWith(d, k, answers) ==
    task[d][k].stage = "answered" /\ task[d][k].answer \in answers /\ task'[d][k] = NoTask

(* What the table says of an entry is what came of its requests.  An attempt *)
(* is counted once, and only of an answer, never of a request that the       *)
(* breaker kept back; an entry is dead exactly when its recorded attempts    *)
(* have reached MaxAttempts without success or the receiver has rejected it, *)
(* and processed only when it was accepted; and an answer that settles an    *)
(* entry is never given back as if nobody had sent it: the row says so, or   *)
(* nothing was written.                                                      *)
OutcomesAreEarned ==
    [][\A k \in DOMAIN rows :
          /\ rows'[k].attempts # rows[k].attempts =>
                /\ rows'[k].attempts = rows[k].attempts + 1
                /\ \E d \in Procs : EndsWith(d, k, {"ok", "retry", "error", "reject"})
          /\ rows'[k].dead /\ ~rows[k].dead =>
                \/ rows'[k].attempts = MaxAttempts
                \/ \E d \in Procs : EndsWith(d, k, {"reject"})
          /\ rows'[k].attempts >= MaxAttempts => rows'[k].processed \/ rows'[k].dead
          /\ rows'[k].processed /\ ~rows[k].processed => k \in accepted
          /\ \A d \in Procs :
                /\ EndsWith(d, k, {"ok"}) => rows'[k] = rows[k] \/ rows'[k].processed
                /\ EndsWith(d, k, {"reject"}) => rows'[k] = rows[k] \/ rows'[k].dead]_vars

(* The first half of the sentence of DoneIsFinal alone.  Violated where a     *)
(* lease ends before its holder does: MarkOutboxFailed of a process that      *)
(* claimed the entry earlier clears the dead_at that another one has set      *)
(* (outbox.go:88).                                                            *)
DeadStaysDead ==
    [][\A k \in DOMAIN rows : rows[k].dead => rows'[k].dead]_vars

(* Every notification is delivered or becomes a dead letter in the end,      *)
(* whatever the receiver does.                                               *)
EveryNotificationEnds ==
    \A k \in 1..MaxRows : (Len(rows) >= k) ~> (Len(rows) >= k /\ Done(k))
=============================================================================
