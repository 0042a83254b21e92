-------------------------------- MODULE Server --------------------------------
(***************************************************************************)
(* The life of one server process, cmd/server/main.go: the configuration,  *)
(* the clients it opens, the goroutines that use them, and the shutdown    *)
(* that must not close a client while somebody uses it.  Consumer and      *)
(* Dispatcher say what a query or a message does; here it only matters who *)
(* runs, who waits for whom, and who holds a connection of the pool.       *)
(***************************************************************************)
EXTENDS Configuration, FiniteSets

CONSTANTS
    Entries,    \* bound: the outbox entries that a batch may hold
    Clients,    \* bound: the HTTP requests under way at once
    PoolSize,   \* connections of the pool
    Environs,   \* the environments the process may be started with
    DotEnvs     \* the lines of the .env files it may find

ASSUME PoolAssumption == PoolSize \in Nat \ {0}

VARIABLES
    environ,  \* the environment,
    dotenv,   \* and the .env file: read once, and forgotten here after that
    cfg,      \* the effective configuration of the dispatcher
    main,     \* how far main is
    at,       \* at[u]: what goroutine u is doing
    queue,    \* the entries of the batch that wait for a slot
    open      \* the clients that main has opened and not closed yet

vars == <<environ, dotenv, cfg, main, at, queue, open>>
loaded == <<environ, dotenv, cfg>>

Services   == {"consumer", "sweeper", "dispatcher", "http"}
Goroutines == Services \cup Entries \cup Clients

ASSUME GoroutinesAssumption ==
    Entries \cap Clients = {} /\ Services \cap (Entries \cup Clients) = {}

ASSUME TextsAssumption ==
    /\ Environs \subseteq [Keys -> Variable]
    /\ DotEnvs \subseteq Seq([key : Keys, value : Text])

NoEnviron == [key \in Keys |-> Unset]
NoConfig  == WithDefaults(Passed(Config(NoEnviron)))

Init ==
    /\ environ \in Environs /\ dotenv \in DotEnvs
    /\ cfg = NoConfig
    /\ main = "loading"
    /\ at = [u \in Goroutines |-> "none"]
    /\ queue = {}
    /\ open = {}

-----------------------------------------------------------------------------
Cancelled == main \notin {"loading", "connecting", "serving"}

(* u goes from one of these stages to another; the rest is as it was. *)
Step(u, from, to) == at[u] \in from /\ at' = [at EXCEPT ![u] = to]
Go(u, from, to)   == Step(u, from, to) /\ UNCHANGED <<loaded, main, queue, open>>

(* A sweeper keeps its transaction open while it sends. *)
Holders == {u \in Goroutines : \/ at[u] = "querying"
                               \/ u = "sweeper" /\ at[u] = "sending"}

(* A bookCtx or the context of a request is not cancelled with the process. *)
OwnContext(u) == u \in Entries \cup Clients

(* Acquire of the pool. *)
Acquire(u) ==
    /\ "pool" \in open /\ Cardinality(Holders) < PoolSize
    /\ Cancelled => OwnContext(u)
    /\ Go(u, {"wanting"}, "querying")

(* What a goroutine does after its query, and where it goes if it gets no    *)
(* connection: the context is cancelled, a bookCtx or a client gives up, or  *)
(* the pool is closed.                                                       *)
AfterQuery(u) ==
    IF u = "consumer" THEN {"wanting", "sending", "committing"}
    ELSE IF u = "sweeper" THEN {"sending", "ticking"}
    ELSE IF u = "dispatcher" THEN {"polling"}
    ELSE {"none"}

WithoutQuery(u) == IF u = "consumer" THEN "committing" ELSE IF u = "sweeper" THEN "ticking"
                   ELSE IF u = "dispatcher" THEN "polling" ELSE "none"

Queried(u) == \E to \in AfterQuery(u) : Go(u, {"querying"}, to)

GiveUp(u) ==
    /\ Cancelled \/ OwnContext(u)
    /\ Go(u, {"wanting"}, WithoutQuery(u))

-----------------------------------------------------------------------------
(* Consumer.Run: it starts the sweeper, polls, settles, commits, and returns *)
(* after the sweeper has.                                                    *)
RunConsumer ==
    /\ at["consumer"] = "starting"
    /\ at' = [at EXCEPT !["consumer"] = "polling", !["sweeper"] = "ticking"]
    /\ UNCHANGED <<loaded, main, queue, open>>

HandleRecord == \E to \in {"wanting", "sending"} : ~Cancelled /\ Go("consumer", {"polling"}, to)
DeadLetter   == \E to \in {"wanting", "committing"} : Go("consumer", {"sending"}, to)
CommitBatch  == Go("consumer", {"committing"}, "polling")
LeaveLoop    == Cancelled /\ Go("consumer", {"polling"}, "stopping")

(* Mutant: Run returns without <-sweeperDone. *)
NobodyToWaitFor == TRUE

SweeperDone == at["sweeper"] = "done"

ConsumerReturns == SweeperDone /\ Go("consumer", {"stopping"}, "done")

Sweep          == Go("sweeper", {"ticking"}, "wanting")
SweepSends     == Go("sweeper", {"sending"}, IF Cancelled THEN "ticking" ELSE "querying")
SweeperReturns == Cancelled /\ Go("sweeper", {"ticking"}, "done")

-----------------------------------------------------------------------------
(* Dispatcher.Run and dispatchBatch. *)
ClaimBatch == ~Cancelled /\ Go("dispatcher", {"polling"}, "wanting")

Claimed ==
    /\ Step("dispatcher", {"querying"}, "sending")
    /\ queue' \in SUBSET Entries \ {{}}
    /\ UNCHANGED <<loaded, main, open>>

(* sem <- struct{}{} looks at no context. *)
Delivering == {k \in Entries : at[k] # "none"}

Deliver(k) ==
    /\ k \in queue /\ Cardinality(Delivering) < cfg.workers
    /\ Step(k, {"none"}, "sending")
    /\ queue' = queue \ {k}
    /\ UNCHANGED <<loaded, main, open>>

Posted(k) == Go(k, {"sending"}, "wanting")

BatchDone == queue = {} /\ Delivering = {} /\ Go("dispatcher", {"sending"}, "polling")

DispatcherReturns == Cancelled /\ Go("dispatcher", {"polling"}, "done")

-----------------------------------------------------------------------------
(* ListenAndServe: its failure is logged and ends nothing else; Shutdown,    *)
(* which comes after the cancellation, ends it, listening or not.            *)
BeforeShutdown == main \in {"serving", "shutdown"}

Listen       == BeforeShutdown /\ Go("http", {"starting"}, "listening")
ListenFails  == Go("http", {"starting"}, "done")
ListenerEnds == Cancelled /\ Go("http", {"listening"}, "done")

(* /health pings the database, /metrics counts its backlog. *)
Request(h) == BeforeShutdown /\ at["http"] = "listening" /\ Go(h, {"none"}, "wanting")

-----------------------------------------------------------------------------
(* main. *)
Load ==
    LET c == Config(LoadEnv(environ, dotenv)) IN
    /\ main = "loading"
    /\ IF Valid(c) THEN main' = "connecting" /\ cfg' = WithDefaults(Passed(c))
                   ELSE main' = "exited" /\ UNCHANGED cfg
    /\ environ' = NoEnviron /\ dotenv' = <<>>
    /\ UNCHANGED <<at, queue, open>>

Connect ==
    /\ main = "connecting"
    /\ main' = "serving"
    /\ open' = {"pool", "dlq", "kafka"}
    /\ at' = [u \in Goroutines |-> IF u \in {"consumer", "http"} THEN "starting"
                                   ELSE IF u = "dispatcher" THEN "polling" ELSE "none"]
    /\ UNCHANGED <<loaded, queue>>

ConnectFails ==
    /\ main = "connecting"
    /\ main' = "exited"
    /\ UNCHANGED <<loaded, at, queue, open>>

Proceed(from, to) == main = from /\ main' = to /\ UNCHANGED <<loaded, at, queue, open>>

(* The signal; cancel(), and Shutdown closes the listeners. *)
Signal == Proceed("serving", "shutdown")

(* Shutdown returns when no request is under way, or after 10 s. *)
ShutdownReturns == Proceed("shutdown", "waiting")

(* wg.Wait *)
Joined == \A u \in {"consumer", "dispatcher", "http"} : at[u] = "done"
Join   == Joined /\ Proceed("waiting", "joined")

Close(client, from, to) ==
    /\ main = from /\ main' = to
    /\ open' = open \ {client}
    /\ UNCHANGED <<loaded, at, queue>>

(* Close of the pool refuses new callers and waits for those it has. *)
PoolDrained == Holders = {} /\ Proceed("draining", "stopped")

Ended == main \in {"exited", "stopped"} /\ UNCHANGED vars

ConsumerStep ==
    \/ RunConsumer \/ HandleRecord \/ DeadLetter \/ CommitBatch \/ LeaveLoop \/ ConsumerReturns
SweeperStep    == SweepSends \/ SweeperReturns
DispatcherStep == BatchDone \/ DispatcherReturns \/ \E k \in Entries : Deliver(k)
HttpStep       == Listen \/ ListenFails \/ ListenerEnds
MainStep ==
    \/ ShutdownReturns \/ Join \/ PoolDrained
    \/ Close("kafka", "joined", "closing") \/ Close("dlq", "closing", "closed")
    \/ Close("pool", "closed", "draining")

(* The network and the database answer, or u gives up. *)
Answered(u) ==
    \/ Queried(u) \/ GiveUp(u)
    \/ u = "dispatcher" /\ Claimed
    \/ u \in Entries /\ Posted(u)

Next ==
    \/ Load \/ Connect \/ ConnectFails \/ Signal \/ MainStep \/ Ended
    \/ ConsumerStep \/ SweeperStep \/ Sweep
    \/ DispatcherStep \/ ClaimBatch \/ HttpStep
    \/ \E h \in Clients : Request(h)
    \/ \E u \in Goroutines : Acquire(u) \/ Answered(u)

(* A goroutine that can go on does; a request, a query and a send end, at    *)
(* the latest by their deadlines or with the client that asked; the pool     *)
(* serves its waiters in turn; a select that finds its context done and its  *)
(* ticker ready again and again takes the context once.  No signal need come. *)
Fairness ==
    /\ WF_vars(MainStep) /\ WF_vars(HttpStep)
    /\ WF_vars(ConsumerStep) /\ WF_vars(DispatcherStep)
    /\ WF_vars(SweepSends) /\ SF_vars(SweeperReturns)
    /\ \A u \in Goroutines : SF_vars(Acquire(u)) /\ WF_vars(Answered(u))

LiveSpec == Init /\ [][Next]_vars /\ Fairness

-----------------------------------------------------------------------------
(* Type invariant.  The configuration satisfies what Dispatcher and          *)
(* CircuitBreaker assume of theirs, whatever the environment said: positive, *)
(* and a threshold a uint32.  It need not be the threshold that was asked    *)
(* for, of which only the low bits are left (main.go:87).                    *)
ServerTypeOK ==
    /\ \A field \in DOMAIN cfg : cfg[field] \in Nat \ {0}
    /\ {cfg.failureThreshold, cfg.successThreshold} \subseteq 1..(Uint32Size - 1)
    /\ open \subseteq {"pool", "dlq", "kafka"}
    /\ queue \subseteq Entries

(* The first text that is not empty of those that the environment and then   *)
(* the lines of .env give a key.                                             *)
Setting(key) ==
    LET given == [i \in 0..Len(dotenv) |-> IF i = 0 THEN Getenv(environ, key)
                                           ELSE IF dotenv[i].key = key THEN dotenv[i].value
                                           ELSE Empty]
        set == {i \in DOMAIN given : given[i] # Empty}
    IN IF set = {} THEN Empty ELSE given[CHOOSE i \in set : \A j \in set : i <= j]

(* A variable with a value is never overridden, whatever .env says, and .env *)
(* gives its first value to what it names twice.  A variable that is set to  *)
(* the empty text is overridden (config.go:103), although the comments have  *)
(* it that .env sets what is "not already set" (config.go:79) or "present in *)
(* environment" (config.go:102): empty, it does not switch a setting of .env  *)
(* off.                                                                      *)
EnvironmentFirst ==
    [][main = "loading" => LET c == Config([key \in Keys |-> Setting(key)])
                           IN IF Valid(c) THEN cfg' = WithDefaults(Passed(c)) ELSE main' = "exited"]_vars

(* The clients that a goroutine uses in its present stage. *)
InUse(u) ==
    LET doing(set) == at[u] \in set IN
    {c \in {"kafka", "dlq", "pool"} :
        \/ c = "kafka" /\ u = "consumer" /\ doing({"polling", "committing"})
        \/ c = "dlq"   /\ u \in {"consumer", "sweeper"} /\ doing({"sending"})
        \/ c = "pool"  /\ u \notin Clients /\ (doing({"wanting", "querying"}) \/ u \in Holders)}

(* "Let the workers finish ... before closing the connections they use"      *)
(* (main.go:144): whenever the signal comes, no worker, and nothing that a   *)
(* worker has started, uses a client that is closed.                         *)
ClosedAfterUse == \A u \in Goroutines : InUse(u) \subseteq open

(* A process that is told to stop stops: neither the batch that is being     *)
(* delivered through its slots, nor the waiters of the pool, nor a request   *)
(* that outlives Shutdown keep each other, or main, waiting for ever.        *)
ShutdownEnds == (main = "shutdown") ~> (main = "stopped")
=============================================================================
