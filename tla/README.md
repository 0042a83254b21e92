# Nexus Event Gateway: specification, model checking and proofs

The gateway takes the events of agents' plans from Kafka, applies each exactly once and in order to the
order it names (Postgres), and delivers the resulting notifications as webhooks through an outbox. This
directory holds TLA+ modules translated from the code of that path, the TLC runs that check them, and
theorems about them that TLAPS proves. Line numbers refer to the repository (`server/internal/...`).

Run a check with `tlc -config <file>.cfg <module>` and a proof with `tlapm <module>.tla`.

## 1. Inventory

| Part | State | Operations | Modelled in |
|---|---|---|---|
| Sequencing rules (`internal/sequencing`, `pkg/models`) | none, pure | `Decide`, `DecideAbort`, `StatusFromEventType`, `Validate` | `Sequencing` |
| Order store (`internal/db/postgres.go`, `init.sql`) | tables `orders`, `pending_events`, `outbox` (appended) | `ApplyEvent`, `AbortPlan`, `ExpirePending`, one transaction each | `OrderTx` by statements, `OrderStore` by transactions, abstractly `OrderLedger` |
| Consumer (`internal/consumer`) | the fetched batch, what of it is settled, retries | `Run`, `processWithRetry`, `handleRecord`, `commit`, the sweeper goroutine | `Consumer` |
| Dead-letter producer (`internal/dlq`) | none | `Send`, `SendRaw`: wait for the broker's ack | `Consumer` |
| Outbox (`internal/db/outbox.go`) | `processed`, `dead_at`, `attempts`, `next_attempt_at`, `lease_until` of each entry | `ClaimOutbox`, `MarkOutboxDelivered`, `MarkOutboxFailed`, `ReleaseOutbox` | `Dispatcher` |
| Dispatcher (`internal/dispatcher`) | the claimed batch, a semaphore, a breaker | `Run`, `dispatchBatch`, `deliver`, `post` | `Dispatcher` |
| Circuit breaker (gobreaker, as configured) | state and counts | `Execute`, `State` | `CircuitBreaker` |
| Server process (`cmd/server/main.go`) | the clients, the goroutines and their context | start, serve, SIGTERM, join, close | `Server`; what its two loops do: `Consumer`, `Dispatcher` |
| Configuration (`internal/config`, `withDefaults`) | environment, `.env` | `Load`, `loadEnv`, `validate` and the conversions after it | `Configuration`, used by `Server` |
| Agent (`agent/src`) | a plan's graph state, the report | plan, publish, confirm or give up, run again | `Agent` |
| Webhook sink (`scripts/webhook_sink.py`) | the accepted keys, the first acceptances by order | `handle` | `Gateway`; its verdicts in `Dispatcher` |
| Chaos, end-to-end and check scripts | test state | test drivers | not modelled |
| Metrics, tracing, agent settings, schemas, simulators | counters, settings | read or report only | not modelled |

How they interact. The agent produces records keyed by order id. A process of the consumer group fetches a
batch from its partition and settles the records one after another: a transaction of the store for each, or
an acknowledged dead letter; then it commits the offset. The store's transaction reads the order under an
advisory lock, decides, writes `orders` and `outbox` and drains `pending_events`. The sweeper of every
process expires buffered rows through the same table, with row locks. The dispatchers of all processes
share the outbox table and nothing else: a lease decides who sends an entry.

What is hard. Two commits that are not atomic (database, then Kafka); processes that lose their partition in
the middle of a batch; redelivery and retries of work that did happen; buffering racing with draining,
aborting and expiring; leases, request and bookkeeping deadlines that run at the same time; outcomes that
arrive late. Transactions that read what another one is about to write, and row locks of a sweep in their
middle. A producer that stops in the middle of a plan without knowing what the broker has. A shutdown that must
outlast what the workers have started, and yet end. `PROJECT.json` lists these hazards one by one, with the properties that cover each.

What makes each part correct:

* transactions: what one has read stays true until it commits, a buffered row has one fate, and the committed
  tables take whole transactions only (`ReadStaysTrue`, `RowLocksHold`, `TransactionsAreAtomic`);
* store: the log of an order (its outbox entries) has its owner's events 1, 2, 3, ... once each, and an
  abort at most once and last; nothing that could be applied stays buffered (`LogTellsOrder`,
  `NoStalledSuccessor`, `KeepsLedger`);
* consumer: an offset is committed only past settled records, a settled record never disappears, another
  plan's events never take effect, and every record and every buffered event comes to an end
  (`CommittedIsSettled`, `NothingLost`, `MismatchNeverApplied`, `LockedRowsStay`, `EveryEncodableSettled`,
  `NothingWaitsForever`);
* dispatcher: no lease ends before its holder is through, one sender at a time, the receiver accepts an order's
  entries in order, outcomes are final and earned by requests, every notification ends (`LeaseCovers`,
  `OneSenderAtATime`, `DeliveredInOrder`, `DoneIsFinal`, `OutcomesAreEarned`, `EveryNotificationEnds`);
* gateway, end to end: the receiver hears an order's plan, in order and without a gap (`HearsThePlan`);
* agent: the server never waits for an event of a plan that stopped, and the report of a plan that ended
  agrees with the order (`NothingBuffered`, `ReportAgrees`);
* process: no worker uses a client that main has closed, the shutdown ends, and the effective settings are
  what the dispatcher needs, a value of the environment before those of `.env` (`ClosedAfterUse`, `ShutdownEnds`,
  `ServerTypeOK`, `EnvironmentFirst`).

## 2. Modules

* `Sequencing`: `Decide`, `DecideAbort` and `StatusFromEventType` as operators, with the Go code's branches.
* `OrderStore` (extends `Sequencing`): the three tables as functions and one action per transaction and
  outcome. `orders[o]` is the row of order `o` (or `NoOrder`), `pending[o][p][s]` the buffered row with that
  primary key (or `NoRow`), `outbox[o]` the entries of `o` by position. `ApplyAndDrain` is the whole
  `ApplyEvent` with outcome `APPLY`: it applies the event and all consecutive rows of the buffer, up to the
  first number without a row. `BufferEvent`, `AbortOrder`, `TombstoneOrder`, the two `Ignore...` actions and
  `ExpirePending` are the other transactions; `Refuse` stands for those that roll back: `Mismatch`,
  `Rejected` (SQLSTATE 22) and `Unencodable` (the driver's own error). A transaction is one step because
  `lockOrder` holds the order's advisory lock to the commit; that this is enough is what `OrderTx` shows.
* `OrderTx` (extends `OrderStore`): the same transactions by statements, one action for each: `LockOrder` and
  `ReadOrder` are `lockOrder`, `WriteOrder` is `applyEvent`, `DrainNext` one turn of `drainPending`, `BufferRow`,
  `AbortRow`, `TombstoneRow` and `DiscardRows` the statements of the other branches; `SweepSelect` and `SweepEnd`
  are `ExpirePending`. The tables of `OrderStore` are the committed ones; `tx[w]` is what the transaction open on
  connection `w` has read and written, visible to others from `Commit` on. A statement waits for the rows that
  others hold, except `FOR UPDATE SKIP LOCKED`. Every transaction may break off at any statement (`Rollback`).
  An order id is a uuid with spellings (`Texts`): the lock is on the spelling, the rows are the uuid's.
  `TransactionsAreAtomic == StoreSpec`: it implements `OrderStore`.
* `OrderLedger`: what that means to the world, without buffers or transactions: an append-only log per order.
  `OrderStore` instantiates it (`log <- outbox`, `owner <- plan_id`, `closed <- aborted`), and
  `KeepsLedger == Ledger!Spec` is a property of `order_tx`.
* `Consumer` (extends `OrderStore`): the topic, the committed offset, the group, the dead-letter topic, and
  per process the batch (`from`, `at`, `to`, `next`) and the sweep in progress. Its actions follow `Run`
  (`PollFetches`, `CommitRecords`, `Break`, `Exit`), `handleRecord` (`HandleMalformed`, `HandleEvent`,
  `SendAcked`, `SendFailed`, `RetryForever`) and `ExpirePending` split where other processes can see it
  (`SweepSelect` takes the row locks, `SweepSend` sends one letter, `SweepCommit`, `SweepFail`). The
  environment is `Assign`, `Revoke`, `LoseAnswer`, `Crash`, `Shutdown`, `Restart` and every producer
  (`Produce`). `Waits` is the row lock: a drain or an abort that would delete a locked row is blocked.
* `CircuitBreaker`: the breaker's state as a record and gobreaker's transitions under the settings of
  `newCircuitBreaker`. The library is not in the repository and is modelled from its use (external).
* `Dispatcher` (extends `CircuitBreaker`): the outbox rows, and per process the tasks of its batch: waiting
  for a slot, sending, received, answered. One clock (`Tick`) ages leases, requests and the bookkeeping
  deadline, which starts when `deliver` does. `Claim` is `ClaimOutbox` (head of the order, due, not leased,
  by position, at most `BatchSize`); `Record` is the `switch` of `deliver`; `RecordLost` a statement that
  fails or whose context has expired; `Receive`, `NoResponse` and `ArriveLate` are the network.
* `Gateway` (extends `OrderStore` and `Dispatcher`): the two on one outbox table. `Persist` is a
  transaction of the store that adds `NewRows` to the dispatcher's rows, several at once after a drain;
  `DispatchAndHear` is a step of the dispatcher, with the sink's record of first acceptances (`story`).
* `Agent` (extends `Consumer`; the agent is its only producer, and `Inputs` are the events of its plans,
  `AgentEvents`): the graph as the events it can produce (`CreateEvent`, `AbortThePlan`, possible where a router
  looks at `status`), the runner that publishes one at a time (`Store`, `Confirm`, `PublishError`, `StoreLate`; the
  broker appends with `Consumer`'s `Produce`) and the report. A run that fails is
  followed by one with a new plan id for the same order (`AfterError`).
* `Configuration`: pure operators, `LoadEnv`, `Config`, `Valid`, `Passed` (main.go's conversions, `uint32` as
  `% Uint32Size`) and `WithDefaults`.
* `Server` (extends `Configuration`): the process. `at[u]` is what goroutine `u` does (polling, wanting a
  connection, querying, sending, ...), for the consumer, its sweeper, the dispatcher, the deliveries of its
  batch, the HTTP listener and its handlers; `main` goes from `loading` to `stopped`. `Holders` have the pool's
  connections. What a query or a message is about does not matter here. The environment and the `.env` file are
  forgotten after `Load`, which reads them once.
* `MCOrderTx`, `MCConsumer`, `MCAgent`, `MCDispatcher`, `MCGateway`, `MCServer`: the small instances for TLC.
* `OrderStoreProofs`, `OrderTxProofs`, `ConsumerProofs`, `RecordProofs`, `AgentProofs`, `DispatcherProofs`,
  `GatewayProofs`, `ServerProofs`: the theorems.

Mutants named in `PROJECT.json` stand next to the definition they change, under a comment "Mutant".

### Data

A payload is one of three classes: `plain`; `amount`, whose `total_amount` overflows `DECIMAL(10, 2)`, so
that `orders` rejects it and the JSONB of the buffer does not; and `nul`, with a U+0000 in it, which no
column stores. `MaxInt` is the largest INTEGER (2^31 - 1); the events have numbers up to `MaxInt + 1`.
A setting is a number, `Empty` or `Bad` (its parser fails), and in the environment also `Unset`: model values. The
code tells `Empty` and `Unset` apart nowhere (`Getenv`), the model does, so that it shows what becomes of each. The
settings that are texts all have a default, so `validate` never refuses them. `received_at` is not modelled: any buffered rows may be old enough for a sweep. The backoffs have no length:
a retry may come at any moment.

## 3. Runs

| Run | Bounds | Question and result |
|---|---|---|
| `order_tx` | 2 connections, sweepers, 1 order, 2 plans, 17 requests of 3 payload classes, `MaxInt` 4, one spelling | do the transactions, statement by statement, keep what they read (`ReadStaysTrue`), their rows (`RowLocksHold`) and the store's specification; and the store its log, buffer and ledger? Holds (74,000 states). |
| `order_tx_spelling` | the same, 2 events, two spellings | `LogTellsOrder` is violated (finding 1). |
| `consumer` | 2 processes, 3 different records out of a plan, its abort and a second plan, `MaxInt` 3, 2 faults | the consumer's safety properties. Holds (800,000 states). |
| `consumer_live` | 2 processes, 2 records of 7 kinds, 1 fault, fairness | `NothingLost` with records that are malformed, rejected or unencodable; `EveryEncodableSettled`, `NothingWaitsForever`. Hold (58,000 states). |
| `consumer_unfit` | 1 process, no fault | `OnlyUnfitRejected` is violated (finding 2). |
| `consumer_wide` | 1 process, no fault, fairness | `EverySettled` is violated (finding 3). |
| `agent` | 2 runs of 3 steps, one of which can fail, any publish unconfirmed, 2 processes, 1 fault of the server | `NothingBuffered`, `ReportAgrees`. Hold (1.6 million states). |
| `dispatcher` | 2 processes, 2 orders, 2 entries, 1 slot, lease 5, request 2, 1 fault | `LeaseCovers`, `OneSenderAtATime`, `DeliveredInOrder`, `DoneIsFinal`, `OutcomesAreEarned`. Hold (1.1 million states). |
| `gateway` | 1 order, 2 events in any order and an abort, 1 process, 1 slot, request 1, 1 fault, fairness | `HearsThePlan`, and `EveryNotificationEnds`, whatever the receiver does. Hold (50,000 states). |
| `dispatcher_slow` | 1 process, 1 entry, request 2, no fault, fairness | `EveryNotificationEnds` is violated (finding 4). |
| `dispatcher_zombie` | 2 processes, 2 orders, 1 slot, lease 3, request 1 | `DeadStaysDead` is violated (finding 5). |
| `server` | 2 entries, 1 HTTP request, a pool of 1 connection, `Uint32Size` 8, fairness | start to end of a process from 22 environments and 4 `.env` files, the signal at any moment: `ClosedAfterUse`, `ShutdownEnds`, the settings. Holds (18,000 states). |

Why the bounds are enough. Orders do not interact in the store: every statement names one order, so one
order that two plans claim has all cases of `Decide`. Numbers up to 4 give an event below, at, right after
and beyond `last_seq`, a drain of several rows, a gap behind it and the edge of the INTEGER. Two connections
are what a race of two transactions needs, with sweeps of any rows beside them; a third one that names the same
order waits for the same lock. In the consumer, two processes are what a zombie of a rebalance and two sweepers need; a fault is one crash,
shutdown, zombie assignment, lost answer, failed commit, failed send or failed sweep, and two of them
combine, e.g. a crash and a lost answer. In the dispatcher, two entries of one order show the order of
delivery, two of different orders the queue for a slot; a lease of 5 ticks outlasts two entries of at most
2 ticks each, so a batch is through within its lease. That is what `LeaseCovers` says, and `OneSenderAtATime`,
`DeliveredInOrder`, `DoneIsFinal` and `OutcomesAreEarned` rest on it. It is a fact about this run, not about the
defaults: with 50 entries, 4 slots, 10 s and 60 s a batch may outlast its lease, no setting of the environment changes
the first and the last of these, and `dispatcher_zombie` shows what then goes wrong. In this run too a request may
outlast the bookkeeping deadline, so attempts go unrecorded without any fault; no property bounds how often an entry
is sent (finding 4), only what is recorded of it. In the agent, a plan of three steps has
an event before, at and after the one that can fail; a publish that is not
confirmed is no fault of the server, so that every run may end with one, next to a crash or a lost answer. The gateway has one order because orders share nothing but the breaker, and
drains event 2 after event 1, so that one transaction adds two rows; with two rows, the events 1 and 2 and their
abort never stand in the table together (three rows take TLC longer than the run may), which the theorems of
`GatewayProofs` cover for any number of rows. In the server, a pool of one connection is
the tightest case of waiting, two entries and one worker (or the default of 4) leave one in the queue, and 8 is
the value that the small `uint32` loses.
`FailureThreshold` and `SuccessThreshold` are small so that the breaker opens and probes within the bounds.
Symmetry is used for processes, connections and orders, in runs without liveness only.

Named bounds: `MaxLog` (records), `NoDuplicates` (each produced once, in `consumer`
only: a redelivered record is handled as a second copy is, and `consumer_live` has copies), `MaxFaults` (faults of all kinds together), `MaxRows` (outbox entries),
`Requests`, `Runs`, `Entries` and `Clients` (what is asked, run, claimed and served), `MaxInt` and
`Uint32Size` (also constants of the code).

Deadlock is checked in every run. The only states where a system may rest are `AwaitRecords` (everything is
settled, `PollFetches` blocks), `PollNothing` (the outbox has nothing left), `Rest` (the agent has ended and the server
has nothing to do) and `Ended` (the process has), which loop.

## 4. Fairness

`Consumer!Fairness`: `Run` never stops polling, handling, committing and sweeping (weak fairness of those
actions, they are the body of its loop); handling is strongly fair because it can be blocked by row locks
that sweepers take and release, and Postgres queues the waiter; the group coordinator assigns a free
partition; a stopping process exits; and `Restart` is weakly fair. The last is an assumption about the
deployment: docker-compose.yml sets no restart policy. Nothing is asked of producers, nor of faults except
that there are finitely many.

`Dispatcher!Fairness`: time passes, backoffs end, `Run` claims, a claimed entry is started, a request is
given up at its limit, an expired statement fails. `Record` is strongly fair: if a statement can be made in
time again and again, one of them succeeds. Where it is never possible in time (`dispatcher_slow`) this asks
nothing. The receiver is not fair at all: it may never answer.

`RequestTimeout` and `Bookkeeping` are equal in `gateway` (requests end before the deadline of their record),
which is the condition under which the liveness holds, and not the default. The gateway uses this fairness and
asks nothing of the store's callers.

`Server!Fairness`: a goroutine that can go on does; queries, requests and sends end, by their deadlines or because
the HTTP client gives up. Two assumptions are strong ones: `Acquire`, because the pool serves its waiters in turn,
and `SweeperReturns`, because Go's `select` picks at random among the cases that are ready, so a sweeper whose
ticker and context are both ready takes the context in the end. No signal need ever come, and nothing is asked of
the loops' own work (polling, claiming, sweeping).

## 5. Findings

1. **Two spellings of an id take two locks** (postgres.go:213). `lockOrder` hashes the text, the statements cast it
   to uuid: two transactions apply the same event, and downstream is notified twice. Run `order_tx_spelling`.
2. **A good event is rejected for its successor** (consumer.go:310). `ApplyEvent` fails with SQLSTATE 22
   because of a buffered row that it drains; the event at hand becomes the dead letter, its offset is
   committed, and the order never starts. Run `consumer_unfit`.
3. **A large seq_id blocks its partition** (event.go:47). `Validate` accepts it, the driver cannot encode it,
   and the error counts as transient. Run `consumer_wide`.
4. **Slow answers are never recorded** (dispatcher.go:216). The 5 s for recording start before a request of
   up to 10 s. Attempts are not counted, so the limit of ten never ends it. Run `dispatcher_slow`.
5. **A late failure revives a dead entry** (outbox.go:88): `CASE WHEN $4 THEN NOW() END` clears `dead_at`. It can
   be late because a lease does not cover the wait for a slot (dispatcher.go:198): an entry is sent without
   another look at its lease. Run `dispatcher_zombie`.

A disagreement that no run shows as a violation, because the code does what it does by one condition: config.go:79
and config.go:102 say that `.env` sets what is "not already set", "not already present in environment", while
config.go:103 compares with the empty text. A variable that is present and empty is overridden. `SetIfEmpty` does the
same, and `EnvironmentFirst` states it.

A consequence that no document denies, and that `NothingLost` therefore allows: a sweep that is rolled back
(postgres.go:175) has sent dead letters for rows that stay, so an event can be a dead letter and be applied later.
Known to the authors (docs/blueprint-arquitetura.md, F8): after `OrderCompleted` the next number reopens the order.

## 6. Proofs

`OrderStoreProofs` proves, for any sets of orders and plans, any payloads and any INTEGER width:

* `TypeCorrect`: `StoreSpec => []TypeOK`;
* `NotifiedOnceInOrder`: `StoreSpec => []LogTellsOrder`;
* `NeverStalled`: `StoreSpec => []NoStalledSuccessor`.

They follow from one inductive invariant, `Inv == TypeOK /\ LogTellsOrder /\ NoStalledSuccessor /\
RowMatchesKey`. Neither of the middle two is inductive alone. The log stays gap-free when a drain appends
rows of the buffer only because a row carries the number of its key (`RowMatchesKey`, from bufferEvent's
columns); `NoStalledSuccessor` survives a drain because the drain stops at a number without a row, and
because no row was below the event before the step. The proof has one lemma per action
(`ApplyAndDrainInv`, `BufferEventInv`, `TombstoneOrderInv`, `AbortOrderInv`, `ExpirePendingInv`), resting on
what `Decide` can answer and on `LogAfterApply`, which computes the log after a drain.

The same module proves the refinement, with the same generality:

* `ImplementsLedger`: `StoreSpec => KeepsLedger`. `Inv` alone is not enough: that the first writer of an
  order finds it unowned needs `NobodyOwns` (an order without a row has the zero `OrderState`), which
  `LedgerInvariant` adds. Then `ApplyAndDrain` is an `Extend` (`ExtendsLedger`), `AbortOrder` and
  `TombstoneOrder` are a `Close` (`AbortCloses`, `TombstoneCloses`), and the other actions leave the mapped
  variables alone. `Close` forbids the end of a completed log; the code looks at `status` instead, and
  `LogTells` is what makes the two the same.

`OrderTxProofs` proves, for any number of connections and sweeps, under the premise `OneSpelling` (every order id
has one text), which each of its theorems states because the code does not ensure it (finding 1):

* `TransactionsImplementStore`: `TxSpec => TransactionsAreAtomic`. The statements implement `OrderStore`, so what is
  proved of the store holds for them (`ConcurrentlyInOrder`);
* `ReadsStayTrue`, `RowLocksAreKept`, `TxTypeCorrect`.

The inductive invariant `TxInv` has three ideas besides the store's `Inv`. A transaction that has its lock is alone
on its order (`Alone`), which makes its read true to the end. What it has written is at every stage a prefix of
what the transaction of `OrderStore` writes (`Ready`: `Drained` up to the number of its row, `Closing`,
`Buffering`), so that the commit is that transaction (`CommitIsStep`). And the rows it has deleted are present and
not a sweep's, so that a sweep that ends in between takes away nothing that the commit relies on (`ReadyStays`).
An inserting `BufferRow` that found its row there may commit after a sweep has expired it; then it writes nothing,
which is a stutter.

`ConsumerProofs` proves, for any number of processes and faults:

* `UsesStore`: `Spec => StoreSpec`. Every step of the consumer is a transaction of the store or a stutter,
  so what holds of any caller holds here: `ReplaysHarmless`, `ConsumerNeverStalls` and
  `ConsumerKeepsLedger`;
* `CommitsOnlySettled`: `Spec => []CommittedIsSettled`. The inductive invariant is `OffsetInv`: all a worker
  is about to commit is settled, and so is all that the next fetch of a running worker skips, but for the
  rest of its batch. The second half is what carries the property across a zombie: its commit may be old,
  but never beyond what is settled.

`RecordProofs` follows one record through the same system, with the same generality:

* `SweptRowsStay`: `Spec => []LockedRowsStay`;
* `RefusedHasNoEffect`: `Spec => []MismatchNeverApplied`;
* `NoRecordIsLost`: `Spec => []NothingLost`;
* `ConsumerTypeCorrect`: `Spec => []ConsumerTypeOK`.

The invariants stand on one another. `StoryInv` adds to the ledger's that a log holds events of its own order,
and from it follows what no transaction does (`StoreHistory`): take back what a log tells, an owner or an end, or
delete a buffered row that is neither in the log nor overruled by an abort. `SweepInv` strengthens `LockedRowsStay`
by `SentRows`: a row that a sweep has ticked off is already a dead letter, which is what lets `SweepCommit` delete
it without losing it. `TopicInv` bounds a worker's offsets by the topic. `MismatchIsForeign` says of a refused
record, and of one whose dead letter is not acknowledged yet, that another plan owns its order; owners never
change, so it holds for good. `SettledAccounted` says of the records what `NothingLost` says of their offsets; it stays true
because a row that a step takes away is in the log, overruled or a dead letter (`RowsAccountedFor`).

`AgentProofs` proves, for any number of runs, any plan of steps, and any number of processes and faults of the
server behind the agent:

* `AgentTypeCorrect`: `AgentSpec => []AgentTypeOK`;
* `AgentUsesConsumer`: `AgentSpec => Spec`. Every step of the agent is one of the consumer's (a `Produce` of a record
  that `Inputs` has) or a stutter, so `ConsumerProofs` and `RecordProofs` hold here;
* `AgentBuffersNothing`: `AgentSpec => []NothingBuffered`;
* `ReportsAgree`: `AgentSpec => []ReportAgrees`.

It takes two inductive invariants, both checked with TLC on the instance of `agent` first. `AgentInv` is about the
producer. `TopicInOrder`: an event stands in the topic after the one before it of its plan, and an abort after all
events of its plan, none of which completes it. That a step keeps this needs to know what of a run the topic holds
(`RunsOK`: the events confirmed, perhaps the one in flight, and nothing of later runs), and that what was given up is,
should it come late, the next of its plan and alone (`LateOK`, `PlanOK`). `ReportOK` says that a reported plan is in
the topic as reported, and that nothing more of it can come. `EffectInv` is about what the processes make of such a
topic, whatever they replay: they settle a prefix of it (`CommitsOnlySettled` and what it rests on), so at every event
the one before it has had its effect already (`SettledHaveEffect`): told, refused, or overruled by the abort of the
order, which is in the log only when everything before it was settled (`AbortedInTurn`). So `Decide` never answers
"buffer" (`NeverBuffers`). The order belongs to the plan of the first record (`OwnerIsFirst`), and the log of what was
told of it is, once everything is settled, the report's (`CompletedAgrees`, `AbortedAgrees`); any other plan is refused
as a whole (`SecondIsRefused`).

`DispatcherProofs` proves, for any number of processes, slots, entries, attempts and faults, and any settings:

* `DispatcherTypeCorrect`: `Spec => []DispatcherTypeOK`;
* `TurnsAreTaken`: `Spec => TakesTurns`;

and for the runs in which no lease ends before its holder is through:

* `OneSender`: `Spec /\ []LeaseCovers => []OneSenderAtATime`;
* `OutcomesAreFinal`: `Spec /\ []LeaseCovers => DoneIsFinal`;
* `ReceivedInOrder`: `Spec /\ []LeaseCovers => DeliveredInOrder`;
* `OutcomesEarned`: `Spec /\ []LeaseCovers => OutcomesAreEarned`.

The premise is about a run, not about settings. With the defaults it holds of the runs in which receivers answer fast
enough for a batch to be through in a minute, crashes, lost claims, retries and late arrivals included, and fails of
others; nothing in the code makes sure of it, and finding 5 is what happens without it. What the theorems say is that
nothing else can go wrong: an entry sent twice at a time, an outcome overwritten or an order overtaken has a lease that
ended too early before it. The inductive invariant `DispatchInv` says that a process that has an entry in hand is alone
with it, that the entry is pending, leased and the head of its order, and that the attempts that the process has read
are the row's. Only a `Tick` could break it, by ending a lease (`DispatchKeepsInv`), and `LeaseCovers` after the tick
says that it did not (`CoveredLast`).

`BatchesAreCovered` is a rule of sizing beside these, `BatchFits => (Spec => []LeaseCovers)`: some number of rounds of
`Slots` entries covers `BatchSize`, and that many turns of at most `Duration` ticks end before the lease does. The
instance of `dispatcher` follows it; the defaults do not, and cannot by the environment alone unless there are
slots enough or requests short enough. Its proof counts rounds: once `i` of a batch have begun, at most
`BatchSize - i * Slots` of its entries are still to begin (`RoundsOK`, `RoundBegins`, `LeaseOutlasts`).

`TurnsAreTaken` says what is left of the order of delivery under any settings, those of `dispatcher_zombie` and the
defaults included: the receiver accepts no entry before every earlier one of its order has been accepted or tried, and
an entry marked as delivered has been accepted and stays so. An earlier entry that was tried and not accepted may be
dead, or come back after its successors (finding 5). The reason is `ClaimOutbox`, not the leases: an entry is claimed when those
before it are processed or dead, a processed one was accepted, and a dead one has been tried; neither fact is ever
taken back, even by a late outcome that revives a row (`TurnsInv`, `RowsSucceed`). `TakesTurns` is stated in
`DispatcherProofs` and is no property of a run; TLC looked for a counterexample on the instance of `dispatcher_zombie`
with a fault (10 million states, not all there are) before it was proved.

`GatewayProofs` composes the two, for any orders, plans, requests, processes and settings:

* `GatewayUsesStore`: `GatewaySpec => StoreSpec`;
* `GatewayTypeCorrect`: `GatewaySpec => []GatewayTypeOK`;
* `HeardInTurn`: `GatewaySpec => []HearsInTurn`. In every run the receiver hears events of the order's plan only, each
  once, and none before every earlier one of the plan has been told or at least tried;
* `ReceiverHearsThePlan`: `GatewaySpec /\ []LeaseCovers => []HearsThePlan`.

The inductive invariant `GatewayInv` is the store's `Inv` and the dispatcher's `TurnsInv` with two more parts.
`EntriesMatch`: the entries of an order are as many as the events of its log and have their places, so `Payload` of the
`i`-th entry is the `i`-th event (`PayloadOfEntry`). `StoryOK`: the receiver's story tells every accepted entry of its
order, once, and after all earlier ones that have not been tried (`ToldTried`). Under `[]LeaseCovers`, `OrderlyInv` adds
`DispatchInv` and `ToldAfter`, where only a dead letter excuses (from the steps of `ReceivedInOrder` and
`OutcomesAreFinal`). Both properties follow the same way: the events before one of number `s` are at the places before
it (`LogTellsOrder`), hence in the story before it, or excused (`BeforeIsTold`). TLC checked `HearsInTurn` and
`ToldTried` on two processes with a lease of 3 ticks (100,000 states) before they were proved.

`ServerProofs` proves, for any environment, batch, number of requests and size of the pool:

* `NothingClosedInUse`: `LiveSpec => []ClosedAfterUse`. The inductive invariant `ServerInv` says that whom a goroutine
  has started it waits for (`ParentsWait`: `Run` for its sweeper, `dispatchBatch` for its deliveries), and that main
  closes nothing before the workers have returned (`ClientsFollowMain`);
* `ServerTypeCorrect`: `LiveSpec => []ServerTypeOK`: settings in effect are positive and thresholds are uint32s. It does
  not say that a threshold is the configured one: 2^32 + 1 becomes 1, 2^32 the default. `SettingsInv` adds that the environment and the `.env` file are
  texts of the six keys until they are read, and nothing else writes the settings (`OthersKeepSettings`);
* `EnvironmentComesFirst`: `LiveSpec => EnvironmentFirst`, for a `.env` file of any length: a variable with a value is
  never overridden, an empty one is like one that is not set. `LoadEnv` is a recursive
  function over the lines (`LoadEnvIsAfter`). After `n` of them a key has its first value that is not empty
  (`LoadEnvTakesTheFirst`): the library's induction rules take an operator and cannot be used, so the proof takes the
  least line after which it fails (`LeastNumber`, from the well-foundedness of `<` on the naturals) and finds that it
  does not (`OneLine`). `Load` is the only step of a process that is loading (`OnlyLoadWhileLoading`).

Assumptions: the named ones of the modules (`MaxInt` and the dispatcher's sizes are positive naturals, `Types`, `Data`,
`Inputs` and `Requests` are subsets of what they should be, `NoRow` is no event, the goroutines have different names,
the orders of the outbox table are the store's; of the agent, that its runs have different plan ids, that a plan ends
with its only `OrderCompleted`, and that the topic accepts its events; of the settings, that environment and file are
texts of the six keys, that a variable may be unset too and no text says so, and that a `uint32` holds the defaults).
The premises `OneSpelling`, `[]LeaseCovers` and, of the rule of sizing alone, `BatchFits` are not assumptions of a
module: the theorems that need one state it. Nothing else is assumed.

Only model-checked: liveness (`EveryEncodableSettled`, `NothingWaitsForever`, `EveryNotificationEnds`, `ShutdownEnds`),
because fairness and ENABLED are out of the prover's reach. Every other property of a passing run is the conclusion of
a theorem above.

## 7. Not modelled, and the plan

Left out on purpose: metrics, tracing, wording of errors, dashboards, scripts other than the sink's `handle`, the
legacy simulators, the agent's settings and the contents of its events. Assumed: the processes' and the database's
clocks run at one rate, a process that is up is not paused, the partition of a topic keeps its records (one
partition is modelled, because an order's events share their key), acknowledged writes of Kafka and Postgres stay,
Kafka's idempotent producer does not append an event twice. The backoffs have no length, and no property is about
their lengths.

Further work: the lengths of the backoffs, as recursive functions, if a property is found that depends on them; and a
premise under which finding 2 cannot happen (which payloads the columns of `orders` must take), as a theorem about
`Rejected`.
