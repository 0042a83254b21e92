---------------------------- MODULE ServerProofs ----------------------------
(***************************************************************************)
(* Theorems about Server, for any environment and .env file, any number of *)
(* entries and requests and a pool of any size: no client is closed while  *)
(* a worker, or anything that a worker has started, uses it; and every     *)
(* setting in effect is one that the dispatcher can work with, taken from  *)
(* the environment first and from the file after it.                       *)
(***************************************************************************)
EXTENDS Server, WellFoundedInduction, SequenceTheorems, TLAPS

Workers == {"consumer", "dispatcher", "http"}

(* What each goroutine may be doing. *)
StagesOK ==
    /\ DOMAIN at = Goroutines
    /\ at["consumer"] \in {"none", "starting", "polling", "wanting", "querying", "sending",
                           "committing", "stopping", "done"}
    /\ at["sweeper"] \in {"none", "ticking", "wanting", "querying", "sending", "done"}
    /\ at["dispatcher"] \in {"none", "polling", "wanting", "querying", "sending", "done"}
    /\ at["http"] \in {"none", "starting", "listening", "done"}

(* Whom a goroutine has started, it waits for: Run for its sweeper, and      *)
(* dispatchBatch for the entries of its batch.                               *)
ParentsWait ==
    /\ at["consumer"] = "done" => at["sweeper"] = "done"
    /\ at["dispatcher"] # "sending" => queue = {} /\ \A k \in Entries : at[k] = "none"

(* The clients are open from the start of the goroutines until the workers   *)
(* have returned, and are closed one after the other.                        *)
ClientsFollowMain ==
    /\ main \in {"loading", "connecting", "serving", "shutdown", "waiting", "joined", "closing",
                 "closed", "draining", "stopped", "exited"}
    /\ main \in {"loading", "connecting", "exited"} => \A u \in Goroutines : at[u] = "none"
    /\ main \in {"serving", "shutdown", "waiting"} => open = {"pool", "dlq", "kafka"}
    /\ main \in {"joined", "closing", "closed", "draining", "stopped"} => Joined

ServerInv == StagesOK /\ ParentsWait /\ ClientsFollowMain /\ queue \subseteq Entries

(* The goroutines are who they are. *)
LEMMA Names ==
    /\ Workers \subseteq Goroutines /\ "sweeper" \in Goroutines
    /\ Entries \subseteq Goroutines /\ Clients \subseteq Goroutines
    /\ \A u \in Entries \cup Clients : u \notin Services
    /\ \A u \in Entries : u \notin Clients
  BY GoroutinesAssumption DEF Goroutines, Services, Workers

LEMMA InvMeansClosedAfterUse == ServerInv => ClosedAfterUse
  <1> SUFFICES ASSUME ServerInv, NEW u \in Goroutines, NEW c \in InUse(u) PROVE c \in open
    BY DEF ClosedAfterUse
  <1>1. /\ c \in {"kafka", "dlq", "pool"} /\ at[u] # "none" /\ at[u] # "done"
        /\ u \notin Clients
        /\ at[u] \in {"polling", "committing", "sending", "wanting", "querying"}
        /\ at[u] \in {"polling", "committing", "sending"} => u \in {"consumer", "sweeper"}
    BY Names DEF InUse, Holders, Services
  <1>2. main \notin {"loading", "connecting", "exited"}
    BY <1>1 DEF ServerInv, ClientsFollowMain
  <1>3. u \in {"consumer", "sweeper", "dispatcher"} \cup Entries
    BY <1>1 DEF Goroutines, Services, ServerInv, StagesOK
  <1>4. ~Joined
    BY <1>1, <1>3 DEF Joined, ServerInv, ParentsWait
  <1>5. main \in {"serving", "shutdown", "waiting"}
    BY <1>2, <1>4 DEF ServerInv, ClientsFollowMain
  <1> QED
    BY <1>1, <1>5 DEF ServerInv, ClientsFollowMain

-----------------------------------------------------------------------------
(* A service moves on; what it may not leave behind, it has waited for.      *)
LEMMA ServiceSteps ==
    ASSUME ServerInv, NEW u \in Services, NEW to, at' = [at EXCEPT ![u] = to],
           at[u] \notin {"none", "done"},
           u = "consumer" => /\ to \in {"starting", "polling", "wanting", "querying", "sending",
                                        "committing", "stopping", "done"}
                             /\ to = "done" => at["sweeper"] = "done",
           u = "sweeper" => to \in {"ticking", "wanting", "querying", "sending", "done"},
           u = "dispatcher" => /\ to \in {"polling", "wanting", "querying", "sending", "done"}
                               /\ to # "sending" => queue' = {} /\ \A k \in Entries : at[k] = "none",
           u = "http" => to \in {"starting", "listening", "done"},
           queue' = queue \/ u = "dispatcher", queue' \subseteq Entries,
           main' = main, open' = open
    PROVE  ServerInv'
  <1>1. u \in Goroutines /\ \A k \in Entries : u # k
    BY Names DEF Services, Goroutines
  <1>2. /\ DOMAIN at' = Goroutines /\ at'[u] = to
        /\ \A v \in Goroutines : v # u => at'[v] = at[v]
    BY <1>1 DEF ServerInv, StagesOK
  <1>3. \A v \in Services : v \in Goroutines
    BY DEF Goroutines
  <1>4. StagesOK'
    BY <1>2, <1>3 DEF ServerInv, StagesOK, Services
  <1>5. ParentsWait'
    <2>1. at'["consumer"] = "done" => at'["sweeper"] = "done"
      BY <1>2, <1>3 DEF ServerInv, ParentsWait, Services
    <2>2. at'["dispatcher"] # "sending" => queue' = {} /\ \A k \in Entries : at[k] = "none"
      BY <1>2, <1>3 DEF ServerInv, ParentsWait, Services
    <2>3. \A k \in Entries : at'[k] = at[k]
      BY <1>1, <1>2, Names
    <2> QED
      BY <2>1, <2>2, <2>3 DEF ParentsWait
  <1>6. ~Joined
    BY DEF ServerInv, ParentsWait, Joined, Services
  <1>7. main \in {"serving", "shutdown", "waiting"}
    BY <1>1, <1>6 DEF ServerInv, ClientsFollowMain
  <1>8. ClientsFollowMain'
    BY <1>7 DEF ServerInv, ClientsFollowMain
  <1> QED
    BY <1>4, <1>5, <1>8 DEF ServerInv

(* An entry, while the dispatcher waits for its batch, or a request.         *)
LEMMA TaskSteps ==
    ASSUME ServerInv, NEW u \in Entries \cup Clients, NEW to, at' = [at EXCEPT ![u] = to],
           u \in Entries => at["dispatcher"] = "sending",
           main \notin {"loading", "connecting", "exited"},
           queue' \subseteq queue, main' = main, open' = open
    PROVE  ServerInv'
  <1>1. u \in Goroutines /\ \A v \in Services : v # u
    BY Names DEF Services, Goroutines
  <1>2. DOMAIN at' = Goroutines /\ \A v \in Goroutines : v # u => at'[v] = at[v]
    BY <1>1 DEF ServerInv, StagesOK
  <1>3. \A v \in Services : at'[v] = at[v]
    BY <1>1, <1>2 DEF Goroutines
  <1>4. StagesOK'
    BY <1>2, <1>3 DEF ServerInv, StagesOK, Services
  <1>5. \A k \in Entries : at["dispatcher"] # "sending" => at'[k] = at[k]
    BY <1>2, Names
  <1>6. ParentsWait'
    BY <1>3, <1>5 DEF ServerInv, ParentsWait, Services
  <1>7. Joined' = Joined
    BY <1>3 DEF Joined, Services
  <1>8. ClientsFollowMain'
    BY <1>7 DEF ServerInv, ClientsFollowMain
  <1> QED
    BY <1>4, <1>6, <1>8 DEF ServerInv

(* main moves on, and the goroutines stay where they are. *)
LEMMA MainSteps ==
    ASSUME ServerInv, at' = at, queue' = queue,
           \/ /\ main \in {"loading", "connecting"} /\ main' \in {"connecting", "exited"}
           \/ /\ main \in {"serving", "shutdown"} /\ main' \in {"shutdown", "waiting"}
              /\ open' = open
           \/ /\ main = "waiting" /\ Joined /\ main' = "joined"
           \/ /\ main \in {"joined", "closing", "closed", "draining"}
              /\ main' \in {"closing", "closed", "draining", "stopped"}
    PROVE  ServerInv'
  <1>1. StagesOK' /\ ParentsWait' /\ queue' \subseteq Entries /\ Joined' = Joined
    BY DEF ServerInv, StagesOK, ParentsWait, Joined
  <1>2. ClientsFollowMain'
    BY <1>1 DEF ServerInv, ClientsFollowMain
  <1> QED
    BY <1>1, <1>2 DEF ServerInv

LEMMA ConnectKeepsInv ==
    ASSUME ServerInv, Connect
    PROVE  ServerInv'
  <1>1. \A u \in Goroutines : at[u] = "none"
    BY DEF Connect, ServerInv, ClientsFollowMain
  <1>2. queue' = {}
    BY <1>1, Names DEF Connect, ServerInv, ParentsWait, Workers
  <1>3. /\ DOMAIN at' = Goroutines /\ at'["consumer"] = "starting" /\ at'["http"] = "starting"
        /\ at'["dispatcher"] = "polling" /\ at'["sweeper"] = "none"
    BY Names DEF Connect, Workers
  <1>4. \A k \in Entries : at'[k] = "none"
    BY Names DEF Connect, Services
  <1>5. StagesOK' /\ ParentsWait'
    BY <1>2, <1>3, <1>4 DEF StagesOK, ParentsWait
  <1>6. ClientsFollowMain'
    BY DEF Connect, ClientsFollowMain
  <1> QED
    BY <1>2, <1>5, <1>6 DEF ServerInv

LEMMA RunConsumerKeepsInv ==
    ASSUME ServerInv, RunConsumer
    PROVE  ServerInv'
  <1>1. /\ DOMAIN at' = Goroutines /\ at'["consumer"] = "polling" /\ at'["sweeper"] = "ticking"
        /\ \A u \in Goroutines : u \notin {"consumer", "sweeper"} => at'[u] = at[u]
    BY Names DEF RunConsumer, ServerInv, StagesOK, Workers
  <1>2. at'["dispatcher"] = at["dispatcher"] /\ at'["http"] = at["http"]
        /\ \A k \in Entries : at'[k] = at[k]
    BY <1>1, Names DEF Workers, Services
  <1>3. StagesOK' /\ ParentsWait' /\ queue' \subseteq Entries
    BY <1>1, <1>2 DEF RunConsumer, ServerInv, StagesOK, ParentsWait
  <1>4. ~Joined /\ ~(\A u \in Goroutines : at[u] = "none")
    BY Names DEF RunConsumer, Joined, Workers
  <1>5. main \in {"serving", "shutdown", "waiting"} /\ main' = main /\ open' = open
    BY <1>4 DEF RunConsumer, ServerInv, ClientsFollowMain
  <1>6. ClientsFollowMain'
    BY <1>5 DEF ServerInv, ClientsFollowMain
  <1> QED
    BY <1>3, <1>6 DEF ServerInv

(* Every goroutine that asks for a connection, gets one, or is answered.     *)
LEMMA QueriesKeepInv ==
    ASSUME ServerInv, NEW u \in Goroutines, Acquire(u) \/ Answered(u)
    PROVE  ServerInv'
  <1>1. u \in Services \/ u \in Entries \cup Clients
    BY DEF Goroutines
  <1>2. at[u] \in {"wanting", "querying", "sending"}
    BY DEF Acquire, Answered, Queried, GiveUp, Claimed, Posted, Go, Step
  <1>3. CASE u \in Entries \cup Clients
    <2>1. PICK to : at' = [at EXCEPT ![u] = to]
      BY <1>3, Names
      DEF Acquire, Answered, Queried, GiveUp, Posted, Go, Step, Services
    <2>2. queue' = queue /\ main' = main /\ open' = open
      BY <1>3, Names
      DEF Acquire, Answered, Queried, GiveUp, Posted, Go, Step, Services
    <2>3. u \in Entries => at["dispatcher"] = "sending"
      BY <1>2 DEF ServerInv, ParentsWait
    <2>4. main \notin {"loading", "connecting", "exited"}
      BY <1>2 DEF ServerInv, ClientsFollowMain
    <2> QED
      BY <1>3, <2>1, <2>2, <2>3, <2>4, TaskSteps
  <1>4. CASE u \in Services
    <2>1. u \notin Entries /\ u \notin Clients /\ u # "http"
      BY <1>2, <1>4, Names DEF ServerInv, StagesOK
    <2>2. CASE Acquire(u)
      <3>1. at' = [at EXCEPT ![u] = "querying"] /\ at[u] = "wanting"
            /\ queue' = queue /\ main' = main /\ open' = open
        BY <2>2 DEF Acquire, Go, Step
      <3>2. u = "dispatcher" => queue' = {} /\ \A k \in Entries : at[k] = "none"
        BY <3>1 DEF ServerInv, ParentsWait
      <3> QED
        BY <1>4, <2>1, <3>1, <3>2, ServiceSteps DEF ServerInv
    <2>3. CASE Queried(u) \/ GiveUp(u)
      <3>1. PICK to \in {"wanting", "sending", "committing", "ticking", "polling"} :
               /\ at' = [at EXCEPT ![u] = to] /\ at[u] \in {"wanting", "querying"}
               /\ u = "consumer" => to \in {"wanting", "sending", "committing"}
               /\ u = "sweeper" => to \in {"sending", "ticking"}
               /\ u = "dispatcher" => to = "polling"
               /\ queue' = queue /\ main' = main /\ open' = open
        BY <1>4, <2>1, <2>3 DEF Queried, GiveUp, Go, Step, AfterQuery, WithoutQuery, Services
      <3>2. u = "dispatcher" => queue' = {} /\ \A k \in Entries : at[k] = "none"
        BY <3>1 DEF ServerInv, ParentsWait
      <3> QED
        BY <1>4, <2>1, <3>1, <3>2, ServiceSteps DEF ServerInv
    <2>4. CASE u = "dispatcher" /\ Claimed
      <3>1. at' = [at EXCEPT !["dispatcher"] = "sending"] /\ at["dispatcher"] = "querying"
            /\ queue' \subseteq Entries /\ main' = main /\ open' = open
        BY <2>4 DEF Claimed, Step
      <3> QED
        BY <1>4, <2>4, <3>1, ServiceSteps
    <2> QED
      BY <2>1, <2>2, <2>3, <2>4 DEF Answered
  <1> QED
    BY <1>1, <1>3, <1>4

(* The consumer and its sweeper. *)
LEMMA ConsumerKeepsInv ==
    ASSUME ServerInv, ConsumerStep
    PROVE  ServerInv'
  <1>1. CASE RunConsumer
    BY <1>1, RunConsumerKeepsInv
  <1>2. CASE HandleRecord \/ DeadLetter \/ CommitBatch \/ LeaveLoop \/ ConsumerReturns
    <2>1. PICK to \in {"polling", "wanting", "sending", "committing", "stopping", "done"} :
             /\ at' = [at EXCEPT !["consumer"] = to]
             /\ at["consumer"] \in {"polling", "sending", "committing", "stopping"}
             /\ to = "done" => at["sweeper"] = "done"
             /\ queue' = queue /\ main' = main /\ open' = open
      BY <1>2 DEF HandleRecord, DeadLetter, CommitBatch, LeaveLoop, ConsumerReturns, SweeperDone,
                  Go, Step
    <2> QED
      BY <2>1, ServiceSteps DEF ServerInv, Services
  <1> QED
    BY <1>1, <1>2 DEF ConsumerStep

LEMMA SweeperKeepsInv ==
    ASSUME ServerInv, SweeperStep \/ Sweep
    PROVE  ServerInv'
  <1>1. PICK to \in {"ticking", "wanting", "querying", "done"} :
           /\ at' = [at EXCEPT !["sweeper"] = to]
           /\ at["sweeper"] \in {"ticking", "sending"}
           /\ queue' = queue /\ main' = main /\ open' = open
    BY DEF SweeperStep, Sweep, SweepSends, SweeperReturns, Go, Step
  <1> QED
    BY <1>1, ServiceSteps DEF ServerInv, Services

(* The dispatcher and the entries of its batch: it leaves "sending" when no  *)
(* entry is left.                                                            *)
LEMMA DispatcherKeepsInv ==
    ASSUME ServerInv, DispatcherStep \/ ClaimBatch
    PROVE  ServerInv'
  <1>1. CASE BatchDone \/ DispatcherReturns \/ ClaimBatch
    <2>1. PICK to \in {"polling", "wanting", "done"} :
             /\ at' = [at EXCEPT !["dispatcher"] = to]
             /\ at["dispatcher"] \in {"polling", "sending"}
             /\ queue' = queue /\ main' = main /\ open' = open
      BY <1>1 DEF BatchDone, DispatcherReturns, ClaimBatch, Go, Step
    <2>2. queue = {} /\ \A k \in Entries : at[k] = "none"
      BY <1>1 DEF BatchDone, Delivering, DispatcherReturns, ClaimBatch, Go, Step,
                  ServerInv, ParentsWait
    <2> QED
      BY <2>1, <2>2, ServiceSteps DEF ServerInv, Services
  <1>2. ASSUME NEW k \in Entries, Deliver(k) PROVE ServerInv'
    <2>1. at["dispatcher"] = "sending"
      BY <1>2 DEF Deliver, ServerInv, ParentsWait
    <2>2. main \notin {"loading", "connecting", "exited"}
      BY <2>1, Names DEF ServerInv, ClientsFollowMain, Workers
    <2> QED
      BY <1>2, <2>1, <2>2, TaskSteps DEF Deliver, Step
  <1> QED
    BY <1>1, <1>2 DEF DispatcherStep

(* The HTTP listener and the requests that it accepts. *)
LEMMA HttpKeepsInv ==
    ASSUME ServerInv, HttpStep \/ \E h \in Clients : Request(h)
    PROVE  ServerInv'
  <1>1. CASE HttpStep
    <2>1. PICK to \in {"listening", "done"} :
             /\ at' = [at EXCEPT !["http"] = to]
             /\ at["http"] \in {"starting", "listening"}
             /\ queue' = queue /\ main' = main /\ open' = open
      BY <1>1 DEF HttpStep, Listen, ListenFails, ListenerEnds, Go, Step
    <2> QED
      BY <2>1, ServiceSteps DEF ServerInv, Services
  <1>2. ASSUME NEW h \in Clients, Request(h) PROVE ServerInv'
    BY <1>2, Names, TaskSteps DEF Request, BeforeShutdown, Go, Step
  <1> QED
    BY <1>1, <1>2

(* main: it closes no client before it has joined the workers. *)
LEMMA MainKeepsInv ==
    ASSUME ServerInv, Load \/ Connect \/ ConnectFails \/ Signal \/ MainStep
    PROVE  ServerInv'
  <1>1. CASE Connect
    BY <1>1, ConnectKeepsInv
  <1>2. CASE Load
    <2>1. at' = at /\ queue' = queue /\ main = "loading" /\ main' \in {"connecting", "exited"}
      BY <1>2 DEF Load
    <2> QED
      BY <2>1, MainSteps
  <1>3. CASE ConnectFails
    BY <1>3, MainSteps DEF ConnectFails
  <1>4. CASE Signal \/ ShutdownReturns
    BY <1>4, MainSteps DEF Signal, ShutdownReturns, Proceed
  <1>5. CASE Join
    BY <1>5, MainSteps DEF Join, Proceed
  <1>6. CASE PoolDrained
    BY <1>6, MainSteps DEF PoolDrained, Proceed
  <1>7. CASE \/ Close("kafka", "joined", "closing") \/ Close("dlq", "closing", "closed")
             \/ Close("pool", "closed", "draining")
    BY <1>7, MainSteps DEF Close
  <1> QED
    BY <1>1, <1>2, <1>3, <1>4, <1>5, <1>6, <1>7 DEF MainStep

-----------------------------------------------------------------------------
LEMMA InitIsServerInv == Init => ServerInv
  <1> SUFFICES ASSUME Init PROVE ServerInv
    OBVIOUS
  <1>1. \A u \in Goroutines : at[u] = "none"
    BY DEF Init
  <1>2. StagesOK
    BY <1>1, Names DEF Init, StagesOK, Workers
  <1>3. ParentsWait
    BY <1>1, Names DEF Init, ParentsWait, Workers
  <1>4. ClientsFollowMain
    BY <1>1 DEF Init, ClientsFollowMain
  <1> QED
    BY <1>2, <1>3, <1>4 DEF Init, ServerInv

LEMMA StepKeepsServerInv == ServerInv /\ [Next]_vars => ServerInv'
  <1> SUFFICES ASSUME ServerInv, [Next]_vars PROVE ServerInv'
    OBVIOUS
  <1>1. CASE UNCHANGED vars \/ Ended
    BY <1>1 DEF vars, Ended, ServerInv, StagesOK, ParentsWait, ClientsFollowMain, Joined
  <1>2. CASE Load \/ Connect \/ ConnectFails \/ Signal \/ MainStep
    BY <1>2, MainKeepsInv
  <1>3. CASE ConsumerStep
    BY <1>3, ConsumerKeepsInv
  <1>4. CASE SweeperStep \/ Sweep
    BY <1>4, SweeperKeepsInv
  <1>5. CASE DispatcherStep \/ ClaimBatch
    BY <1>5, DispatcherKeepsInv
  <1>6. CASE HttpStep \/ \E h \in Clients : Request(h)
    BY <1>6, HttpKeepsInv
  <1>7. CASE \E u \in Goroutines : Acquire(u) \/ Answered(u)
    BY <1>7, QueriesKeepInv
  <1> QED
    BY <1>1, <1>2, <1>3, <1>4, <1>5, <1>6, <1>7 DEF Next

(* "Let the workers finish ... before closing the connections they use"      *)
(* (main.go:144): at whatever moment the signal comes, and wherever the      *)
(* consumer, its sweeper and each delivery of the batch are then, none of    *)
(* them uses a client that main has closed.                                  *)
THEOREM NothingClosedInUse == LiveSpec => []ClosedAfterUse
  BY InitIsServerInv, StepKeepsServerInv, InvMeansClosedAfterUse, PTL DEF LiveSpec

-----------------------------------------------------------------------------
(* The settings.  LoadEnv goes through the lines of the file one by one, so  *)
(* what is proved about it is proved about the first line for which it would *)
(* fail: a set of numbers that is not empty has a least member.              *)
LEMMA LeastNumber ==
    ASSUME NEW T, T \subseteq Nat, T # {}
    PROVE  \E n \in T : \A m \in T : n <= m
  <1> DEFINE Less == {pair \in Nat \X Nat : pair[1] < pair[2]}
  <1>1. IsWellFoundedOn(Less, Nat)
    BY NatLessThanWellFounded DEF OpToRel
  <1>2. PICK n \in T : \A m \in T : <<m, n>> \notin Less
    BY <1>1, WFMin
  <1>3. ASSUME NEW m \in T PROVE n <= m
    <2>1. n \in Nat /\ m \in Nat
      OBVIOUS
    <2>2. ~(m < n)
      BY <1>2, <2>1
    <2> QED
      BY <2>1, <2>2
  <1> QED
    BY <1>3

(* The environment after each number of lines. *)
After(f, env, file, last) ==
    f = [n \in 0..last |-> IF n = 0 THEN env ELSE SetIfEmpty(f[n - 1], file[n])]

LEMMA AfterExists ==
    ASSUME NEW env, NEW file, NEW last \in Nat
    PROVE  \E f : After(f, env, file, last)
  <1> DEFINE T == {m \in Nat : ~ \E f : After(f, env, file, m)}
  <1> SUFFICES ASSUME T # {} PROVE FALSE
    OBVIOUS
  <1>1. PICK n \in T : \A m \in T : n <= m
    BY LeastNumber
  <1>2. n # 0
    <2> DEFINE f == [m \in 0..0 |-> env]
    <2>1. After(f, env, file, 0)
      BY DEF After
    <2> QED
      BY <2>1
  <1>3. n \in Nat /\ n - 1 \in Nat /\ n - 1 \notin T
    BY <1>1, <1>2
  <1>4. PICK g : After(g, env, file, n - 1)
    BY <1>3
  <1> DEFINE f == [m \in 0..n |-> IF m = n THEN SetIfEmpty(g[n - 1], file[n]) ELSE g[m]]
  <1>5. \A m \in 0..n : f[m] = IF m = 0 THEN env ELSE SetIfEmpty(f[m - 1], file[m])
    <2> TAKE m \in 0..n
    <2>1. CASE m = n
      BY <1>2, <1>3, <2>1
    <2>2. CASE m # n
      <3>1. m \in 0..(n - 1) /\ (m # 0 => m - 1 \in 0..n /\ m - 1 # n)
        BY <1>3, <2>2
      <3>2. g[m] = IF m = 0 THEN env ELSE SetIfEmpty(g[m - 1], file[m])
        BY <1>4, <3>1 DEF After
      <3> QED
        BY <2>2, <3>1, <3>2
    <2> QED
      BY <2>1, <2>2
  <1>6. After(f, env, file, n)
    BY <1>5 DEF After
  <1> QED
    BY <1>1, <1>6

LEMMA LoadEnvIsAfter ==
    ASSUME NEW env, NEW file, Len(file) \in Nat
    PROVE  \E f : After(f, env, file, Len(file)) /\ LoadEnv(env, file) = f[Len(file)]
  <1> DEFINE after == CHOOSE f : After(f, env, file, Len(file))
  <1>1. After(after, env, file, Len(file))
    BY AfterExists
  <1>2. LoadEnv(env, file) = after[Len(file)]
    BY DEF LoadEnv, After
  <1> QED
    BY <1>1, <1>2

(* What the environment, or line n of the file, says of a key. *)
Given(env, file, key, n) ==
    IF n = 0 THEN Getenv(env, key) ELSE IF file[n].key = key THEN file[n].value ELSE Empty

(* The first of the environment and n lines that says something, says it.   *)
FirstGiven(env, file, key, n, text) ==
    /\ text = Empty => \A i \in 0..n : Given(env, file, key, i) = Empty
    /\ text # Empty => \E i \in 0..n : /\ Given(env, file, key, i) = text
                                      /\ \A j \in 0..n : j < i => Given(env, file, key, j) = Empty

LEMMA OneLine ==
    ASSUME NEW env, NEW file, NEW n \in Nat \ {0}, NEW before \in [Keys -> Variable],
           file[n] \in [key : Keys, value : Text],
           \A key \in Keys : FirstGiven(env, file, key, n - 1, Getenv(before, key))
    PROVE  LET now == SetIfEmpty(before, file[n])
           IN  /\ now \in [Keys -> Variable]
               /\ \A key \in Keys : FirstGiven(env, file, key, n, Getenv(now, key))
  <1> DEFINE now == SetIfEmpty(before, file[n])
  <1>1. now \in [Keys -> Variable]
    BY DEF SetIfEmpty, Variable
  <1>2. ASSUME NEW key \in Keys PROVE FirstGiven(env, file, key, n, Getenv(now, key))
    <2>1. Given(env, file, key, n) = IF file[n].key = key THEN file[n].value ELSE Empty
      BY DEF Given
    <2>2. Getenv(now, key) = IF Getenv(before, key) = Empty THEN Given(env, file, key, n)
                             ELSE Getenv(before, key)
      <3>1. CASE file[n].key = key /\ Getenv(before, key) = Empty
        <4>1. now[key] = file[n].value /\ now[key] # Unset
          BY <3>1, UnsetAssumption DEF SetIfEmpty
        <4> QED
          BY <2>1, <3>1, <4>1 DEF Getenv
      <3>2. CASE ~(file[n].key = key /\ Getenv(before, key) = Empty)
        <4>1. now[key] = before[key]
          BY <3>2 DEF SetIfEmpty
        <4> QED
          BY <2>1, <3>2, <4>1 DEF Getenv
      <3> QED
        BY <3>1, <3>2
    <2>3. 0..n = (0..(n - 1)) \cup {n} /\ \A i \in 0..(n - 1) : i < n /\ ~(n < i)
      OBVIOUS
    <2>4. CASE Getenv(before, key) = Empty
      <3>1. \A i \in 0..(n - 1) : Given(env, file, key, i) = Empty
        BY <2>4 DEF FirstGiven
      <3>2. \A j \in 0..n : j < n => Given(env, file, key, j) = Empty
        BY <3>1
      <3>3. n \in 0..n /\ Getenv(now, key) = Given(env, file, key, n)
        BY <2>2, <2>4
      <3> QED
        BY <2>3, <3>1, <3>2, <3>3 DEF FirstGiven
    <2>5. CASE Getenv(before, key) # Empty
      <3>1. PICK i \in 0..(n - 1) :
               /\ Given(env, file, key, i) = Getenv(before, key)
               /\ \A j \in 0..(n - 1) : j < i => Given(env, file, key, j) = Empty
        BY <2>5 DEF FirstGiven
      <3>2. i \in 0..n /\ \A j \in 0..n : j < i => Given(env, file, key, j) = Empty
        BY <2>3, <3>1
      <3>3. Getenv(now, key) = Getenv(before, key)
        BY <2>2, <2>5
      <3> QED
        BY <2>5, <3>1, <3>2, <3>3 DEF FirstGiven
    <2> QED
      BY <2>4, <2>5
  <1> QED
    BY <1>1, <1>2

(* LoadEnv keeps what the environment says, and adds the first thing that    *)
(* the file says of each other key.                                          *)
LEMMA LoadEnvTakesTheFirst ==
    ASSUME NEW env \in [Keys -> Variable], NEW file \in Seq([key : Keys, value : Text])
    PROVE  /\ LoadEnv(env, file) \in [Keys -> Variable]
           /\ \A key \in Keys :
                 FirstGiven(env, file, key, Len(file), Getenv(LoadEnv(env, file), key))
  <1>1. Len(file) \in Nat /\ \A n \in 1..Len(file) : file[n] \in [key : Keys, value : Text]
    BY ElementOfSeq, LenProperties
  <1>2. PICK f : After(f, env, file, Len(file)) /\ LoadEnv(env, file) = f[Len(file)]
    BY <1>1, LoadEnvIsAfter
  <1> DEFINE Right(n) == /\ f[n] \in [Keys -> Variable]
                         /\ \A key \in Keys : FirstGiven(env, file, key, n, Getenv(f[n], key))
             T == {n \in 0..Len(file) : ~Right(n)}
  <1>3. ASSUME T # {} PROVE FALSE
    <2> HIDE DEF Right
    <2>0. T \subseteq Nat
      BY <1>1
    <2>1. PICK n \in T : \A m \in T : n <= m
      BY ONLY <1>3, <2>0, LeastNumber
    <2>2. f[0] = env
      BY <1>1, <1>2 DEF After
    <2>3. Right(0)
      BY <2>2 DEF Right, FirstGiven, Given
    <2>4. n \in Nat \ {0} /\ n \in 1..Len(file) /\ n - 1 \in 0..Len(file) /\ n - 1 \notin T
      BY <1>1, <2>1, <2>3
    <2>5. f[n] = SetIfEmpty(f[n - 1], file[n])
      BY <1>2, <2>4 DEF After
    <2>6. Right(n - 1)
      BY <2>4
    <2>7. file[n] \in [key : Keys, value : Text]
      BY <1>1, <2>4
    <2>8. Right(n)
      <3>1. f[n - 1] \in [Keys -> Variable]
        BY <2>6 DEF Right
      <3>2. \A key \in Keys : FirstGiven(env, file, key, n - 1, Getenv(f[n - 1], key))
        BY <2>6 DEF Right
      <3>3. PICK before \in [Keys -> Variable] : before = f[n - 1]
        BY <3>1
      <3>4. \A key \in Keys : FirstGiven(env, file, key, n - 1, Getenv(before, key))
        BY <3>2, <3>3
      <3>5. /\ SetIfEmpty(before, file[n]) \in [Keys -> Variable]
            /\ \A key \in Keys :
                  FirstGiven(env, file, key, n, Getenv(SetIfEmpty(before, file[n]), key))
        BY <2>4, <2>7, <3>4, OneLine
      <3> QED
        BY <2>5, <3>3, <3>5 DEF Right
    <2> QED
      BY <2>1, <2>8
  <1>4. Len(file) \in 0..Len(file)
    BY <1>1
  <1>5. Right(Len(file))
    <2> HIDE DEF Right
    <2> QED
      BY <1>3, <1>4
  <1> QED
    BY <1>2, <1>5

LEMMA ConfigIsIntegers ==
    ASSUME NEW env \in [Keys -> Variable]
    PROVE  LET c == Config(env) IN
           {c.workers, c.maxAttempts, c.failureThreshold, c.successThreshold,
            c.openDuration, c.requestTimeout} \subseteq Int
  BY DEF Keys, Variable, Text, Getenv, Config, EnvOrDefaultInt, EnvOrDefaultDuration

LEMMA DefaultsArePositive ==
    ASSUME NEW c,
           {c.workers, c.maxAttempts, c.failureThreshold, c.successThreshold,
            c.openDuration, c.requestTimeout} \subseteq Int
    PROVE  LET d == WithDefaults(Passed(c)) IN
           /\ \A field \in DOMAIN d : d[field] \in Nat \ {0}
           /\ {d.failureThreshold, d.successThreshold} \subseteq 1..(Uint32Size - 1)
  <1>1. Uint32Size \in Nat /\ Uint32Size > 5
    BY SizeAssumption
  <1>2. \A n \in Int : Uint32(n) \in 0..(Uint32Size - 1)
    BY <1>1 DEF Uint32
  <1>3. \A n \in Int : OrDefault(n, 4) \in Nat \ {0} /\ OrDefault(n, 10) \in Nat \ {0}
                       /\ OrDefault(n, 30) \in Nat \ {0}
    BY DEF OrDefault
  <1>4. OrDefault(0, 50) \in Nat \ {0} /\ OrDefault(0, 60) \in Nat \ {0}
    BY DEF OrDefault
  <1>5. \A n \in 0..(Uint32Size - 1) : /\ OrDefault(n, 5) \in 1..(Uint32Size - 1)
                                      /\ OrDefault(n, 2) \in 1..(Uint32Size - 1)
    BY <1>1 DEF OrDefault
  <1> DEFINE d == WithDefaults(Passed(c))
  <1>6. /\ d.workers \in Nat \ {0} /\ d.maxAttempts \in Nat \ {0}
        /\ d.batchSize \in Nat \ {0} /\ d.lease \in Nat \ {0}
        /\ d.openDuration \in Nat \ {0} /\ d.requestTimeout \in Nat \ {0}
    BY <1>3, <1>4 DEF WithDefaults, Defaulted, Passed
  <1>7. /\ d.failureThreshold \in 1..(Uint32Size - 1)
        /\ d.successThreshold \in 1..(Uint32Size - 1)
    BY <1>2, <1>5 DEF WithDefaults, Defaulted, Passed
  <1>8. DOMAIN d = {"workers", "maxAttempts", "batchSize", "lease", "failureThreshold",
                    "successThreshold", "openDuration", "requestTimeout"}
    BY DEF WithDefaults, Defaulted
  <1> QED
    BY <1>1, <1>6, <1>7, <1>8

(* Only Load reads the environment, and main does so once. *)
LEMMA OthersKeepSettings ==
    ASSUME [Next]_vars, ~Load
    PROVE  /\ UNCHANGED <<cfg, environ, dotenv>>
           /\ main' = "loading" => main = "loading"
           /\ open' \subseteq open \cup {"pool", "dlq", "kafka"}
  BY DEF Next, vars, loaded, Connect, ConnectFails, Signal, MainStep, Ended, ShutdownReturns,
         Join, PoolDrained, Close, Proceed, ConsumerStep, RunConsumer, HandleRecord, DeadLetter,
         CommitBatch, LeaveLoop, ConsumerReturns, SweeperStep, Sweep, SweepSends, SweeperReturns,
         DispatcherStep, ClaimBatch, BatchDone, DispatcherReturns, Deliver, HttpStep, Listen,
         ListenFails, ListenerEnds, Request, Acquire, Answered, Queried, GiveUp, Claimed, Posted,
         Go

(* Until it is read, the environment is one that a process may find. *)
SettingsInv ==
    /\ \A field \in DOMAIN cfg : cfg[field] \in Nat \ {0}
    /\ {cfg.failureThreshold, cfg.successThreshold} \subseteq 1..(Uint32Size - 1)
    /\ open \subseteq {"pool", "dlq", "kafka"}
    /\ main = "loading" => /\ environ \in [Keys -> Variable]
                           /\ dotenv \in Seq([key : Keys, value : Text])

LEMMA InitIsSettingsInv == Init => SettingsInv
  <1>1. NoEnviron \in [Keys -> Variable]
    BY DEF NoEnviron, Variable
  <1>2. Init => /\ environ \in [Keys -> Variable]
                /\ dotenv \in Seq([key : Keys, value : Text])
    BY TextsAssumption DEF Init
  <1> QED
    BY <1>1, <1>2, ConfigIsIntegers, DefaultsArePositive DEF Init, NoConfig, SettingsInv

LEMMA StepKeepsSettingsInv == SettingsInv /\ [Next]_vars => SettingsInv'
  <1> SUFFICES ASSUME SettingsInv, [Next]_vars PROVE SettingsInv'
    OBVIOUS
  <1>1. CASE Load
    <2>1. LoadEnv(environ, dotenv) \in [Keys -> Variable]
      BY <1>1, LoadEnvTakesTheFirst DEF Load, SettingsInv
    <2>2. /\ cfg' = cfg \/ cfg' = WithDefaults(Passed(Config(LoadEnv(environ, dotenv))))
          /\ main' # "loading" /\ open' = open
      BY <1>1 DEF Load
    <2> QED
      BY <2>1, <2>2, ConfigIsIntegers, DefaultsArePositive DEF SettingsInv
  <1>2. CASE ~Load
    BY <1>2, OthersKeepSettings DEF SettingsInv
  <1> QED
    BY <1>1, <1>2

(* The dispatcher never works with a setting it cannot work with: whatever   *)
(* the environment and the .env file say, every setting in effect is         *)
(* positive and every threshold of the breaker in effect a uint32, be it not *)
(* the one that was configured, of which main.go:87 drops the high bits      *)
(* (config.go:124, withDefaults of dispatcher.go).                           *)
THEOREM ServerTypeCorrect == LiveSpec => []ServerTypeOK
  <1>1. SettingsInv /\ ServerInv => ServerTypeOK
    BY DEF SettingsInv, ServerInv, ServerTypeOK
  <1> QED
    BY <1>1, InitIsSettingsInv, StepKeepsSettingsInv, InitIsServerInv, StepKeepsServerInv, PTL
    DEF LiveSpec

(* What LoadEnv makes of a key is its Setting, however many lines name it.   *)
LEMMA LoadEnvIsSetting ==
    ASSUME environ \in [Keys -> Variable], dotenv \in Seq([key : Keys, value : Text]),
           NEW key \in Keys
    PROVE  Getenv(LoadEnv(environ, dotenv), key) = Setting(key)
  <1> DEFINE given == [i \in 0..Len(dotenv) |-> IF i = 0 THEN Getenv(environ, key)
                                                ELSE IF dotenv[i].key = key THEN dotenv[i].value
                                                ELSE Empty]
             set   == {i \in DOMAIN given : given[i] # Empty}
             text  == Getenv(LoadEnv(environ, dotenv), key)
  <1>1. FirstGiven(environ, dotenv, key, Len(dotenv), text)
    BY LoadEnvTakesTheFirst
  <1>2. \A i \in 0..Len(dotenv) : given[i] = Given(environ, dotenv, key, i)
    BY DEF Given
  <1>3. Setting(key) = IF set = {} THEN Empty ELSE given[CHOOSE i \in set : \A j \in set : i <= j]
    BY DEF Setting
  <1>4. CASE text = Empty
    <2>1. set = {}
      BY <1>1, <1>2, <1>4 DEF FirstGiven
    <2> QED
      BY <1>3, <1>4, <2>1
  <1>5. CASE text # Empty
    <2>1. PICK i \in 0..Len(dotenv) :
             given[i] = text /\ \A j \in 0..Len(dotenv) : j < i => given[j] = Empty
      BY <1>1, <1>2, <1>5 DEF FirstGiven
    <2>2. i \in set /\ \A j \in set : ~(j < i) /\ j \in Int /\ i \in Int
      BY <1>5, <2>1
    <2>3. \A j \in set : i <= j
      BY <2>2
    <2>4. (CHOOSE k \in set : \A j \in set : k <= j) = i
      <3>1. PICK m : m = CHOOSE k \in set : \A j \in set : k <= j
        OBVIOUS
      <3>2. m \in set /\ \A j \in set : m <= j
        BY <2>2, <2>3, <3>1
      <3>3. m = i
        BY <2>2, <2>3, <3>2
      <3> QED
        BY <3>1, <3>3
    <2> QED
      BY <1>3, <2>1, <2>2, <2>4
  <1> QED
    BY <1>4, <1>5

(* While main loads, nothing else has been started. *)
LEMMA OnlyLoadWhileLoading ==
    ASSUME ServerInv, Next, main = "loading"
    PROVE  Load
  <1>1. \A u \in Goroutines : at[u] = "none"
    BY DEF ServerInv, ClientsFollowMain
  <1>2. /\ at["consumer"] = "none" /\ at["sweeper"] = "none" /\ at["dispatcher"] = "none"
        /\ at["http"] = "none"
    BY <1>1, Names DEF Workers
  <1>3. ~ConsumerStep /\ ~SweeperStep /\ ~Sweep
    BY <1>2 DEF ConsumerStep, RunConsumer, HandleRecord, DeadLetter, CommitBatch, LeaveLoop,
                ConsumerReturns, SweeperStep, Sweep, SweepSends, SweeperReturns, Go, Step
  <1>4. ~BatchDone /\ ~DispatcherReturns /\ ~ClaimBatch
    BY <1>2 DEF BatchDone, DispatcherReturns, ClaimBatch, Go, Step
  <1>5. \A k \in Entries : ~Deliver(k)
    BY <1>2, Names DEF Deliver, ServerInv, ParentsWait
  <1>6. ~HttpStep /\ \A h \in Clients : ~Request(h)
    BY <1>2 DEF HttpStep, Listen, ListenFails, ListenerEnds, Request, BeforeShutdown, Go, Step
  <1>7. \A u \in Goroutines : ~(Acquire(u) \/ Answered(u))
    BY <1>1, <1>2
    DEF Acquire, Answered, Queried, GiveUp, Claimed, Posted, Go, Step
  <1>8. ~(Connect \/ ConnectFails \/ Signal \/ MainStep \/ Ended)
    BY DEF Connect, ConnectFails, Signal, MainStep, Ended, ShutdownReturns, Join, PoolDrained,
           Close, Proceed
  <1> QED
    BY <1>3, <1>4, <1>5, <1>6, <1>7, <1>8 DEF Next, DispatcherStep

(* A variable with a value is never overridden, whatever .env says; one that *)
(* is empty is, as one that is not set (config.go:103); and .env gives its   *)
(* first value to what it names twice: for any environment and a file of any *)
(* length, the settings that the dispatcher gets, or the refusal to start,   *)
(* follow from those.                                                        *)
THEOREM EnvironmentComesFirst == LiveSpec => EnvironmentFirst
  <1> DEFINE ByPrecedence ==
          main = "loading" => LET c == Config([key \in Keys |-> Setting(key)])
                              IN IF Valid(c) THEN cfg' = WithDefaults(Passed(c))
                                             ELSE main' = "exited"
  <1>1. ASSUME SettingsInv, ServerInv, Next PROVE ByPrecedence
    <2> SUFFICES ASSUME main = "loading" PROVE ByPrecedence
      OBVIOUS
    <2>1. Load
      BY <1>1, OnlyLoadWhileLoading
    <2>2. /\ environ \in [Keys -> Variable] /\ dotenv \in Seq([key : Keys, value : Text])
      BY <1>1 DEF SettingsInv
    <2>3. PICK env : env = LoadEnv(environ, dotenv)
      OBVIOUS
    <2>4. PICK set : set = [key \in Keys |-> Setting(key)]
      OBVIOUS
    <2>5. env \in [Keys -> Variable] /\ \A key \in Keys : Getenv(env, key) = Setting(key)
      BY <2>2, <2>3, LoadEnvTakesTheFirst, LoadEnvIsSetting
    <2>6. \A key \in Keys : Getenv(set, key) = Getenv(env, key)
      <3> SUFFICES ASSUME NEW key \in Keys PROVE Getenv(set, key) = Getenv(env, key)
        OBVIOUS
      <3>1. Getenv(env, key) \in Text
        BY <2>5 DEF Getenv, Variable, Text
      <3>2. set[key] = Getenv(env, key) /\ set[key] # Unset
        BY <2>4, <2>5, <3>1, UnsetAssumption
      <3> QED
        BY <3>2 DEF Getenv
    <2>7. Config(set) = Config(env)
      BY <2>6 DEF Config, Keys
    <2> QED
      BY <2>1, <2>3, <2>4, <2>7 DEF Load
  <1>2. SettingsInv /\ ServerInv /\ [Next]_vars => [ByPrecedence]_vars
    BY <1>1
  <1>3. [][SettingsInv /\ ServerInv /\ [Next]_vars]_vars => [][ByPrecedence]_vars
    BY <1>2, PTL
  <1> QED
    BY <1>3, InitIsSettingsInv, StepKeepsSettingsInv, InitIsServerInv, StepKeepsServerInv, PTL
    DEF LiveSpec, EnvironmentFirst
=============================================================================
