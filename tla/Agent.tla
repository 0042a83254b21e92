-------------------------------- MODULE Agent --------------------------------
(***************************************************************************)
(* The producer of the events, agent/src: the planner's graph, which       *)
(* decides one event after the other, the runner, which publishes each as  *)
(* soon as it is decided and waits for the broker's confirmation, and the  *)
(* report of the plans that came to their end.  A run of the agent makes   *)
(* one plan of the order here; when it fails, the next run is given the    *)
(* same order again, which gets a plan id of its own.  The broker and all  *)
(* that follows is Consumer, whose producers are this one: only the agent  *)
(* appends to the topic, and only what Inputs allows.                      *)
(***************************************************************************)
EXTENDS Consumer

CONSTANTS
    Order,   \* the order the agent is given
    Runs,    \* the plan ids of its runs, in order
    Steps    \* the event types of a plan, in order; all of SequencedType in the code

ASSUME RunsAssumption ==
    /\ Order \in Orders /\ Runs \in Seq(Plans)
    /\ \A i, j \in 1..Len(Runs) : Runs[i] = Runs[j] => i = j
ASSUME StepsAssumption ==
    /\ Steps \in Seq(SequencedType) /\ Len(Steps) > 0
    /\ \A i \in 1..Len(Steps) : Steps[i] = "OrderCompleted" <=> i = Len(Steps)

EventOf(run, type, seq) ==
    [order |-> Order, planID |-> Runs[run], type |-> type, seqID |-> seq, data |-> "plain"]

(* The events of a plan, and all that the agent can publish. *)
NumberedEvent(run, i) == EventOf(run, Steps[i], i)
AbortOf(run)          == EventOf(run, AbortType, 0)

AgentEvents == {NumberedEvent(run, i) : run \in 1..Len(Runs), i \in 1..Len(Steps)}
               \cup {AbortOf(run) : run \in 1..Len(Runs)}

ASSUME AgentEventsAssumption == AgentEvents \subseteq Event \cap Inputs

VARIABLES
    agent,   \* the plan under way, see Ready
    late,    \* the events given up that may still reach the broker
    report   \* the outcomes of the plans that ended, as --report writes them

agentVars == <<agent, late, report>>
allVars   == <<vars, agentVars>>

(* current_seq where a plan may be routed to abort_plan: generate_plan has    *)
(* refused the order, or the node of the next event found the stock missing   *)
(* or the payment refused.                                                    *)
Abortable == {0} \cup {i \in 0..(Len(Steps) - 1) :
                          Steps[i + 1] \in {"InventoryValidated", "PaymentProcessed"}}

(* run: the plan's place in Runs; seq: current_seq; published: the types      *)
(* confirmed so far; sent: the event publish_event waits for, or NoRow;       *)
(* stored: the broker has it.                                                 *)
Ready(run) == [run |-> run, seq |-> 0, published |-> <<>>, sent |-> NoRow, stored |-> FALSE]

AgentInit == Init /\ agent = Ready(1) /\ late = {} /\ report = {}

-----------------------------------------------------------------------------
Planning == agent.run <= Len(Runs)
Waiting  == agent.sent # NoRow

(* produce: the event is on its way, and flush waits. *)
PublishEvent(e) ==
    /\ agent' = [agent EXCEPT !.sent = e]
    /\ UNCHANGED <<vars, late, report>>

(* The node of the next event of the plan. *)
CreateEvent ==
    /\ Planning /\ ~Waiting
    /\ agent.seq < Len(Steps)
    /\ PublishEvent(NumberedEvent(agent.run, agent.seq + 1))

(* The router found the plan aborted. *)
AbortThePlan ==
    /\ Planning /\ ~Waiting
    /\ agent.seq \in Abortable
    /\ PublishEvent(AbortOf(agent.run))

(* The broker appends the event, once: the producer is idempotent. *)
Store ==
    /\ Waiting /\ ~agent.stored
    /\ Produce(agent.sent)
    /\ agent' = [agent EXCEPT !.stored = TRUE]
    /\ UNCHANGED <<late, report>>

(* flush returns with the confirmation: on to the next node, or the end of   *)
(* the graph and an entry of the report.                                     *)
Confirm ==
    LET type == agent.sent.type
        published == Append(agent.published, type)
        seq == IF type = AbortType THEN agent.seq ELSE agent.sent.seqID
    IN /\ Waiting /\ agent.stored
       /\ IF type \in {AbortType, "OrderCompleted"}
          THEN /\ report' = report \cup
                     {[plan |-> Runs[agent.run], events |-> published, lastSeq |-> seq,
                       outcome |-> IF type = AbortType THEN "aborted" ELSE "completed"]}
               /\ agent' = Ready(Len(Runs) + 1)
          ELSE /\ agent' = [Ready(agent.run) EXCEPT !.seq = seq, !.published = published]
               /\ UNCHANGED report
       /\ UNCHANGED <<vars, late>>

(* Mutants: a runner that logs the error and goes on with the plan, and a    *)
(* run that goes on counting where the failed one stopped.                   *)
GoOn     == [Ready(agent.run) EXCEPT !.seq = agent.seq + 1,
                                     !.published = Append(agent.published, agent.sent.type)]
KeepsSeq == [Ready(agent.run + 1) EXCEPT !.seq = agent.seq]

(* PublishError ends the run; the next one begins with a new plan. *)
AfterError == Ready(agent.run + 1)

(* publish_event gives up: the delivery failed or was not confirmed in 10 s.  *)
(* The broker has the event, or gets it later, or never does.                 *)
PublishError ==
    /\ Waiting
    /\ agent' = AfterError
    /\ late' \in IF agent.stored THEN {late} ELSE {late, late \cup {agent.sent}}
    /\ UNCHANGED <<vars, report>>

StoreLate(e) ==
    /\ Produce(e)
    /\ late' = late \ {e}
    /\ UNCHANGED <<agent, report>>

(* Nothing is left to publish and the server waits for records. *)
Rest ==
    /\ ~Planning /\ late = {} /\ Buffered = {}
    /\ \A c \in Workers : /\ worker[c].mode = "running" /\ worker[c].from = worker[c].to
                          /\ worker[c].holds => worker[c].next = Len(topic)
    /\ UNCHANGED allVars

AgentNext ==
    \/ CreateEvent \/ AbortThePlan \/ Store \/ Confirm \/ PublishError
    \/ \E e \in late : StoreLate(e)
    \/ \E c \in Workers : ProcessStep(c) /\ UNCHANGED agentVars
    \/ Rest

AgentSpec == AgentInit /\ [][AgentNext]_allVars

-----------------------------------------------------------------------------
(* Type invariant, with what a report entry may say. *)
AgentTypeOK ==
    /\ agent.run \in 1..(Len(Runs) + 1)
    /\ agent.seq = Len(agent.published) /\ agent.seq \in 0..Len(Steps)
    /\ late \subseteq Event
    /\ \A r \in report : IF r.outcome = "completed"
                         THEN r.events = Steps
                         ELSE Len(r.events) = r.lastSeq + 1 /\ r.lastSeq \in Abortable

(* "um plano publicado pela metade deixaria o server esperando um evento que *)
(* nunca chega" (kafka_producer.py:68-70): it does not.  The agent stops at  *)
(* the first event it cannot confirm, so that whatever publish fails, and    *)
(* whatever is redelivered by whatever worker however late, the server never *)
(* buffers an event of the agent to wait for an earlier one.                 *)
NothingBuffered == Buffered = {}

(* What scripts/check_agent_outcomes.py expects of the order of a plan. *)
Agrees(r) ==
    /\ Owns(orders[Order], r.plan)
    /\ orders[Order].status = r.outcome
    /\ orders[Order].lastSeq = r.lastSeq
    /\ [i \in DOMAIN outbox[Order] |-> outbox[Order][i].type] =
          IF r.lastSeq = 0 THEN <<>> ELSE r.events

(* The plan lost its order to an earlier one: all of it is dead letters. *)
RefusedWhole(r) ==
    /\ \A i \in DOMAIN topic :
          topic[i].planID = r.plan => <<topic[i], "PLAN_MISMATCH">> \in dlq
    /\ \A i \in DOMAIN outbox[Order] : outbox[Order][i].planID # r.plan

(* Once every record is settled, the order of a reported plan is in the      *)
(* state that the report says and has the notifications that it says; or an  *)
(* event of an earlier run came first, the order belongs to that run's plan, *)
(* and no part of the reported one has had an effect.                        *)
ReportAgrees ==
    (\A i \in DOMAIN topic : i \in settled) =>
       \A r \in report : IF topic[1].planID = r.plan THEN Agrees(r) ELSE RefusedWhole(r)
=============================================================================
