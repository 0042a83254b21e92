----------------------------- MODULE AgentProofs -----------------------------
(***************************************************************************)
(* Theorems about Agent, for any number of runs, any plan of steps and any *)
(* number of workers and faults.  First: the agent and the server behind   *)
(* it are Consumer with one producer, so what ConsumerProofs and           *)
(* RecordProofs prove holds here.  Second: what the topic holds of every   *)
(* run, which is a plan's events in their order.  Third: what the workers  *)
(* make of such a topic: they buffer nothing, and the order ends up in the *)
(* state that the report says.                                             *)
(***************************************************************************)
EXTENDS Agent, RecordProofs

InTopic(e) == \E i \in 1..Len(topic) : topic[i] = e

(* What the topic holds of a run's plan, and the first n events of a plan.   *)
EventsOf(run)    == {topic[i] : i \in {j \in 1..Len(topic) : topic[j].planID = Runs[run]}}
Numbered(run, n) == {NumberedEvent(run, i) : i \in 1..n}

Prefix(n) == [i \in 1..n |-> Steps[i]]

(* Every event comes after the one before it, and an abort is the last of    *)
(* its plan, which has not been completed.                                   *)
Follows(i) ==
    \E run \in 1..Len(Runs), s \in 1..Len(Steps) :
       /\ topic[i] = NumberedEvent(run, s)
       /\ s > 1 => \E j \in 1..(i - 1) : topic[j] = NumberedEvent(run, s - 1)

Closes(i) ==
    \E run \in 1..Len(Runs) :
       /\ topic[i] = AbortOf(run)
       /\ \A j \in 1..Len(topic) :
             topic[j].planID = Runs[run] => j <= i /\ topic[j].type # "OrderCompleted"

TopicInOrder == topic \in Seq(AgentEvents) /\ \A i \in 1..Len(topic) : Follows(i) \/ Closes(i)

(* The plan under way. *)
PlanOK ==
    /\ agent \in [run : 1..(Len(Runs) + 1), seq : 0..Len(Steps), published : {Prefix(n) : n \in 0..Len(Steps)},
                  sent : AgentEvents \cup {NoRow}, stored : BOOLEAN]
    /\ agent.published = Prefix(agent.seq)
    /\ IF Planning THEN agent.seq < Len(Steps) ELSE agent = Ready(Len(Runs) + 1)
    /\ Waiting => \/ agent.sent = NumberedEvent(agent.run, agent.seq + 1)
                  \/ agent.sent = AbortOf(agent.run) /\ agent.seq \in Abortable
    /\ agent.stored => Waiting

(* What the topic holds of the runs: nothing of those to come, and what is   *)
(* confirmed or stored of the present one.                                   *)
RunsOK ==
    /\ \A run \in 1..Len(Runs) : run > agent.run => EventsOf(run) = {}
    /\ Planning => EventsOf(agent.run) = Numbered(agent.run, agent.seq)
                                         \cup IF agent.stored THEN {agent.sent} ELSE {}

(* An event that was given up is the next one of its plan, if it comes.      *)
LateOK ==
    /\ \A e \in late : \E run \in 1..Len(Runs), n \in 0..(Len(Steps) - 1) :
          /\ run < agent.run
          /\ EventsOf(run) = Numbered(run, n)
          /\ e = NumberedEvent(run, n + 1) \/ e = AbortOf(run)
    /\ \A e, f \in late : e.planID = f.planID => e = f

(* A reported plan is in the topic as the report says, and no more of it     *)
(* comes.                                                                    *)
Completed(r, run) ==
    /\ r.outcome = "completed" /\ r.lastSeq = Len(Steps) /\ r.events = Steps
    /\ EventsOf(run) = Numbered(run, Len(Steps))

WasAborted(r, run) ==
    /\ r.outcome = "aborted" /\ r.lastSeq \in Abortable
    /\ r.events = Append(Prefix(r.lastSeq), AbortType)
    /\ EventsOf(run) = Numbered(run, r.lastSeq) \cup {AbortOf(run)}

ReportOK ==
    \A r \in report : \E run \in 1..Len(Runs) :
       /\ run < agent.run /\ r.plan = Runs[run]
       /\ Completed(r, run) \/ WasAborted(r, run)
       /\ \A e \in late : e.planID # r.plan

AgentInv == TopicInOrder /\ PlanOK /\ RunsOK /\ LateOK /\ ReportOK

-----------------------------------------------------------------------------
(* What the workers have made of the topic. *)

(* A worker sends no dead letter but for the plan of a record.               *)
OnlyMismatch == \A c \in Workers : worker[c].code \in {NoCode, "PLAN_MISMATCH"}

(* What the receivers are notified of comes from the topic, and the order    *)
(* belongs to whose record is the first.                                     *)
LogFromTopic == \A i \in 1..Len(outbox[Order]) : InTopic(outbox[Order][i])
OwnerIsFirst == orders[Order].exists => Len(topic) > 0 /\ orders[Order].planID = topic[1].planID

(* What a settled record has led to.                                         *)
HasEffect(e) ==
    /\ orders[Order].exists
    /\ IF e.planID # orders[Order].planID THEN <<e, "PLAN_MISMATCH">> \in dlq
       ELSE IF e.type = AbortType THEN Aborted(orders[Order])
       ELSE Told(Order, e.planID, e.seqID)

SettledHaveEffect == \A i \in settled : HasEffect(topic[i])

(* The order was aborted when all before the abort was settled.              *)
AbortedInTurn ==
    Aborted(orders[Order]) =>
       \E a \in 1..Len(topic) : /\ topic[a].type = AbortType /\ topic[a].planID = orders[Order].planID
                                /\ \A i \in 1..(a - 1) : i \in settled

EffectInv ==
    /\ NothingBuffered /\ OnlyMismatch /\ LogFromTopic /\ OwnerIsFirst
    /\ SettledHaveEffect /\ AbortedInTurn

-----------------------------------------------------------------------------
(* The agent's events. *)

(* A numbered event of a plan, which is no abort.                            *)
LEMMA NumberedFields ==
    ASSUME NEW run \in 1..Len(Runs), NEW i \in 1..Len(Steps)
    PROVE  LET e == NumberedEvent(run, i) IN
           /\ e \in AgentEvents /\ e \in SeqEvent /\ e \in Event /\ e \in Inputs
           /\ e.order = Order /\ e.planID = Runs[run] /\ e.type = Steps[i] /\ e.seqID = i
           /\ e.data = "plain" /\ e.type # AbortType
  <1> DEFINE e == NumberedEvent(run, i)
  <1>1. e \in AgentEvents
    BY DEF AgentEvents
  <1>2. /\ e.order = Order /\ e.planID = Runs[run] /\ e.type = Steps[i] /\ e.seqID = i
        /\ e.data = "plain"
    BY DEF NumberedEvent, EventOf
  <1>3. e.type # AbortType
    BY <1>2, StepsAssumption DEF SequencedType, AbortType
  <1>4. e \notin AbortEvent
    BY <1>3 DEF AbortEvent
  <1> QED
    BY <1>1, <1>2, <1>3, <1>4, AgentEventsAssumption DEF Event

LEMMA AbortFields ==
    ASSUME NEW run \in 1..Len(Runs)
    PROVE  LET e == AbortOf(run) IN
           /\ e \in AgentEvents /\ e \in AbortEvent /\ e \in Event /\ e \in Inputs
           /\ e.order = Order /\ e.planID = Runs[run] /\ e.type = AbortType /\ e.seqID = 0
           /\ e.data = "plain"
  <1> DEFINE e == AbortOf(run)
  <1>1. e \in AgentEvents
    BY DEF AgentEvents
  <1>2. /\ e.order = Order /\ e.planID = Runs[run] /\ e.type = AbortType /\ e.seqID = 0
        /\ e.data = "plain"
    BY DEF AbortOf, EventOf
  <1>3. e \notin SeqEvent
    BY <1>2, TypesAssumption DEF SeqEvent, SequencedType, AbortType
  <1> QED
    BY <1>1, <1>2, <1>3, AgentEventsAssumption DEF Event

(* What the agent publishes is the one or the other.                         *)
LEMMA AgentEventCases ==
    ASSUME NEW e \in AgentEvents
    PROVE  \E run \in 1..Len(Runs) : \/ \E i \in 1..Len(Steps) : e = NumberedEvent(run, i)
                                     \/ e = AbortOf(run)
  BY DEF AgentEvents

(* NoRow is none of them: a process that waits has an event to wait for.     *)
LEMMA NoRowIsNoEvent == NoRow \notin AgentEvents
  BY AgentEventsAssumption, NoRowAssumption

LEMMA PlansDiffer ==
    ASSUME NEW run \in 1..Len(Runs), NEW other \in 1..Len(Runs), Runs[run] = Runs[other]
    PROVE  run = other
  BY RunsAssumption

LEMMA NumberedMembers ==
    ASSUME NEW run \in 1..Len(Runs), NEW n \in 0..Len(Steps)
    PROVE  \A e \in Numbered(run, n) : \E i \in 1..n : i \in 1..Len(Steps) /\ e = NumberedEvent(run, i)
  BY DEF Numbered

-----------------------------------------------------------------------------
(* What an append to the topic does to what it holds of the runs.            *)

LEMMA TopicEntries ==
    ASSUME topic \in Seq(AgentEvents), NEW e \in AgentEvents, topic' = Append(topic, e)
    PROVE  /\ topic' \in Seq(AgentEvents) /\ Len(topic) \in Nat /\ Len(topic') = Len(topic) + 1
           /\ topic'[Len(topic) + 1] = e
           /\ \A i \in 1..Len(topic) : topic'[i] = topic[i]
  OBVIOUS

LEMMA EventsAfterAppend ==
    ASSUME topic \in Seq(AgentEvents), NEW run \in 1..Len(Runs), NEW e \in AgentEvents,
           e.planID = Runs[run], topic' = Append(topic, e)
    PROVE  /\ EventsOf(run)' = EventsOf(run) \cup {e}
           /\ \A other \in 1..Len(Runs) : other # run => EventsOf(other)' = EventsOf(other)
  <1>1. /\ Len(topic) \in Nat /\ Len(topic') = Len(topic) + 1
        /\ topic'[Len(topic) + 1] = e
        /\ \A i \in 1..Len(topic) : topic'[i] = topic[i]
    BY TopicEntries
  <1>2. ASSUME NEW q \in 1..Len(Runs), NEW f
        PROVE  f \in EventsOf(q)' <=> (f \in EventsOf(q) \/ (f = e /\ Runs[q] = e.planID))
    <2>1. ASSUME f \in EventsOf(q)' PROVE f \in EventsOf(q) \/ (f = e /\ Runs[q] = e.planID)
      <3>1. PICK i \in 1..Len(topic') : topic'[i] = f /\ topic'[i].planID = Runs[q]
        BY <2>1 DEF EventsOf
      <3> QED
        BY <1>1, <3>1 DEF EventsOf
    <2>2. ASSUME f \in EventsOf(q) PROVE f \in EventsOf(q)'
      <3>1. PICK i \in 1..Len(topic) : topic[i] = f /\ topic[i].planID = Runs[q]
        BY <2>2 DEF EventsOf
      <3>2. i \in 1..Len(topic') /\ topic'[i] = topic[i]
        BY <1>1
      <3> QED
        BY <3>1, <3>2 DEF EventsOf
    <2>3. ASSUME f = e, Runs[q] = e.planID PROVE f \in EventsOf(q)'
      BY <1>1, <2>3 DEF EventsOf
    <2> QED
      BY <2>1, <2>2, <2>3
  <1>3. EventsOf(run)' = EventsOf(run) \cup {e}
    BY <1>2
  <1>4. ASSUME NEW other \in 1..Len(Runs), other # run PROVE EventsOf(other)' = EventsOf(other)
    BY <1>2, <1>4, PlansDiffer
  <1> QED
    BY <1>3, <1>4

(* The events of a plan come one after the other, or the abort closes it.    *)
LEMMA AppendInOrder ==
    ASSUME TopicInOrder, NEW run \in 1..Len(Runs), NEW n \in 0..(Len(Steps) - 1),
           EventsOf(run) = Numbered(run, n),
           NEW e, e = NumberedEvent(run, n + 1) \/ e = AbortOf(run), topic' = Append(topic, e)
    PROVE  /\ TopicInOrder' /\ e \in AgentEvents /\ e.planID = Runs[run]
           /\ EventsOf(run)' = Numbered(run, n) \cup {e}
           /\ \A other \in 1..Len(Runs) : other # run => EventsOf(other)' = EventsOf(other)
  <1> USE StepsAssumption
  <1>1. n + 1 \in 1..Len(Steps) /\ n \in 0..Len(Steps) /\ n \in Nat
    OBVIOUS
  <1>2. e \in AgentEvents /\ e.planID = Runs[run]
    BY <1>1, NumberedFields, AbortFields
  <1>3. /\ topic' \in Seq(AgentEvents) /\ Len(topic) \in Nat /\ Len(topic') = Len(topic) + 1
        /\ topic'[Len(topic) + 1] = e
        /\ \A i \in 1..Len(topic) : topic'[i] = topic[i]
    BY <1>2, TopicEntries DEF TopicInOrder
  <1>4. /\ EventsOf(run)' = Numbered(run, n) \cup {e}
        /\ \A other \in 1..Len(Runs) : other # run => EventsOf(other)' = EventsOf(other)
    BY <1>2, EventsAfterAppend DEF TopicInOrder
  <1>5. ASSUME NEW i \in 1..Len(topic), topic[i].planID = Runs[run]
        PROVE  \E k \in 1..n : topic[i] = NumberedEvent(run, k) /\ k \in 1..Len(Steps)
    <2>1. topic[i] \in EventsOf(run)
      BY <1>5 DEF EventsOf
    <2> QED
      BY <1>1, <2>1, NumberedMembers
  <1>6. ASSUME NEW i \in 1..Len(topic), Follows(i) PROVE Follows(i)'
    <2>1. PICK q \in 1..Len(Runs), s \in 1..Len(Steps) :
             /\ topic[i] = NumberedEvent(q, s)
             /\ s > 1 => \E j \in 1..(i - 1) : topic[j] = NumberedEvent(q, s - 1)
      BY <1>6 DEF Follows
    <2>2. \A j \in 1..(i - 1) : topic'[j] = topic[j]
      BY <1>3
    <2>3. s > 1 => \E j \in 1..(i - 1) : topic'[j] = NumberedEvent(q, s - 1)
      BY <2>1, <2>2
    <2> QED
      BY <1>3, <2>1, <2>3 DEF Follows
  <1>7. ASSUME NEW i \in 1..Len(topic), Closes(i) PROVE Closes(i)'
    <2>1. PICK q \in 1..Len(Runs) :
             /\ topic[i] = AbortOf(q)
             /\ \A j \in 1..Len(topic) :
                   topic[j].planID = Runs[q] => j <= i /\ topic[j].type # "OrderCompleted"
      BY <1>7 DEF Closes
    <2>2. topic[i].planID = Runs[q] /\ topic[i].type = AbortType
      BY <2>1, AbortFields
    <2>3. q # run
      <3>1. SUFFICES ASSUME q = run PROVE FALSE
        OBVIOUS
      <3>2. PICK k \in 1..n : topic[i] = NumberedEvent(run, k) /\ k \in 1..Len(Steps)
        BY <1>5, <2>2, <3>1
      <3>3. topic[i].type # AbortType
        BY <3>2, NumberedFields
      <3> QED
        BY <2>2, <3>3
    <2>4. e.planID # Runs[q]
      BY <1>2, <2>3, PlansDiffer
    <2>5. \A j \in 1..Len(topic') :
             topic'[j].planID = Runs[q] => j <= i /\ topic'[j].type # "OrderCompleted"
      <3> SUFFICES ASSUME NEW j \in 1..Len(topic'), topic'[j].planID = Runs[q]
                   PROVE  j <= i /\ topic'[j].type # "OrderCompleted"
        OBVIOUS
      <3>1. j \in 1..Len(topic)
        <4>1. j # Len(topic) + 1
          BY <1>3, <2>4
        <4>2. Len(topic) \in Nat /\ Len(topic') = Len(topic) + 1
          BY <1>3
        <4>3. j \in 1..(Len(topic) + 1)
          BY <4>2
        <4> HIDE StepsAssumption
        <4> QED
          BY <4>1, <4>2, <4>3, SMTT(30)
      <3>2. topic'[j] = topic[j]
        BY <1>3, <3>1
      <3> QED
        BY <2>1, <3>1, <3>2
    <2> QED
      BY <1>3, <2>1, <2>5 DEF Closes
  <1>8. PICK last : last = Len(topic) + 1
    OBVIOUS
  <1>9. Follows(last)' \/ Closes(last)'
    <2>1. CASE e = NumberedEvent(run, n + 1)
      <3>1. n + 1 > 1 => \E j \in 1..Len(topic) : topic'[j] = NumberedEvent(run, n)
        <4>1. SUFFICES ASSUME n \in 1..n
                       PROVE  \E j \in 1..Len(topic) : topic'[j] = NumberedEvent(run, n)
          OBVIOUS
        <4>2. NumberedEvent(run, n) \in EventsOf(run)
          BY <4>1 DEF Numbered
        <4>3. PICK j \in 1..Len(topic) : topic[j] = NumberedEvent(run, n)
          BY <4>2 DEF EventsOf
        <4> QED
          BY <1>3, <4>3
      <3>2. n + 1 > 1 => \E j \in 1..(last - 1) : topic'[j] = NumberedEvent(run, (n + 1) - 1)
        BY <1>1, <1>3, <1>8, <3>1
      <3> QED
        BY <1>1, <1>3, <1>8, <2>1, <3>2 DEF Follows
    <2>2. CASE e = AbortOf(run)
      <3>1. ASSUME NEW j \in 1..Len(topic), topic[j].planID = Runs[run]
            PROVE  topic[j].type # "OrderCompleted"
        <4>1. PICK k \in 1..n : topic[j] = NumberedEvent(run, k) /\ k \in 1..Len(Steps)
          BY <1>5, <3>1
        <4>2. topic[j].type = Steps[k] /\ k # Len(Steps)
          BY <4>1, NumberedFields
        <4> QED
          BY <4>1, <4>2
      <3>2. e.type # "OrderCompleted"
        BY <2>2, AbortFields DEF AbortType
      <3>3. \A j \in 1..Len(topic') : topic'[j].planID = Runs[run] =>
               j <= last /\ topic'[j].type # "OrderCompleted"
        BY <1>3, <1>8, <3>1, <3>2
      <3> QED
        BY <1>3, <1>8, <2>2, <3>3 DEF Closes
    <2> QED
      BY <2>1, <2>2
  <1>10. ASSUME NEW i \in 1..Len(topic') PROVE Follows(i)' \/ Closes(i)'
    <2>1. i \in 1..Len(topic) \/ i = last
      BY <1>3, <1>8
    <2> QED
      BY <1>6, <1>7, <1>9, <2>1 DEF TopicInOrder
  <1> QED
    BY <1>2, <1>3, <1>4, <1>10 DEF TopicInOrder

-----------------------------------------------------------------------------
(* The agent, one step after the other. *)

LEMMA PrefixSteps ==
    /\ Prefix(0) = <<>>
    /\ \A n \in 0..(Len(Steps) - 1) : Append(Prefix(n), Steps[n + 1]) = Prefix(n + 1)
    /\ \A n \in 0..Len(Steps) : Prefix(n) \in Seq(SequencedType) /\ Len(Prefix(n)) = n
    /\ Prefix(Len(Steps)) = Steps
  <1> USE StepsAssumption
  <1>1. \A n \in 0..Len(Steps) : Prefix(n) \in Seq(SequencedType) /\ Len(Prefix(n)) = n
    BY DEF Prefix
  <1>2. ASSUME NEW n \in 0..(Len(Steps) - 1)
        PROVE  Append(Prefix(n), Steps[n + 1]) = Prefix(n + 1)
    <2>1. n \in 0..Len(Steps) /\ n + 1 \in 0..Len(Steps) /\ n \in Nat
      OBVIOUS
    <2>2. /\ Prefix(n) \in Seq(SequencedType) /\ Len(Prefix(n)) = n
          /\ Prefix(n + 1) \in Seq(SequencedType) /\ Len(Prefix(n + 1)) = n + 1
          /\ Steps[n + 1] \in SequencedType
      BY <1>1, <2>1
    <2>3. \A i \in 1..n : Prefix(n)[i] = Prefix(n + 1)[i]
      BY <2>1 DEF Prefix
    <2>4. Prefix(n + 1)[n + 1] = Steps[n + 1]
      BY <2>1 DEF Prefix
    <2> QED
      BY <2>1, <2>2, <2>3, <2>4
  <1>3. Prefix(0) = <<>>
    BY <1>1
  <1>4. Prefix(Len(Steps)) = Steps
    BY <1>1 DEF Prefix
  <1> QED
    BY <1>1, <1>2, <1>3, <1>4

(* A run that begins. *)
LEMMA ReadyFields ==
    ASSUME NEW run
    PROVE  /\ Ready(run).run = run /\ Ready(run).seq = 0 /\ Ready(run).published = <<>>
           /\ Ready(run).sent = NoRow /\ Ready(run).stored = FALSE
  BY DEF Ready

LEMMA AgentInitInv == AgentInit => AgentInv
  <1> SUFFICES ASSUME AgentInit PROVE AgentInv
    OBVIOUS
  <1> USE StepsAssumption, RunsAssumption
  <1>1. topic = <<>> /\ agent = Ready(1) /\ late = {} /\ report = {}
    BY DEF AgentInit, Init
  <1>2. TopicInOrder
    BY <1>1 DEF TopicInOrder
  <1>3. \A run \in 1..Len(Runs) : EventsOf(run) = {}
    BY <1>1 DEF EventsOf
  <1>4. PlanOK
    <2>1. /\ agent.run = 1 /\ agent.seq = 0 /\ agent.published = Prefix(0)
          /\ agent.sent = NoRow /\ agent.stored = FALSE
          /\ agent = [run |-> 1, seq |-> 0, published |-> Prefix(0), sent |-> NoRow, stored |-> FALSE]
      BY <1>1, PrefixSteps DEF Ready
    <2>2. 1 \in 1..(Len(Runs) + 1) /\ 0 \in 0..Len(Steps) /\ 0 < Len(Steps)
      OBVIOUS
    <2>3. ~Planning => agent = Ready(Len(Runs) + 1)
      BY <1>1, <2>1, <2>2 DEF Planning
    <2> QED
      BY <2>1, <2>2, <2>3 DEF PlanOK, Waiting
  <1>5. RunsOK
    <2>1. agent.run = 1 /\ agent.seq = 0 /\ agent.stored = FALSE
      BY <1>1, ReadyFields
    <2>2. Numbered(1, 0) = {}
      BY DEF Numbered
    <2>3. Planning => 1 \in 1..Len(Runs)
      BY <2>1 DEF Planning
    <2> QED
      BY <1>3, <2>1, <2>2, <2>3 DEF RunsOK
  <1>6. LateOK /\ ReportOK
    BY <1>1 DEF LateOK, ReportOK
  <1> QED
    BY <1>2, <1>4, <1>5, <1>6 DEF AgentInv

(* The fields of the plan under way. *)
LEMMA PlanFields ==
    ASSUME PlanOK
    PROVE  /\ agent.run \in 1..(Len(Runs) + 1) /\ agent.seq \in 0..Len(Steps)
           /\ agent.sent \in AgentEvents \cup {NoRow} /\ agent.stored \in BOOLEAN
           /\ agent = [run |-> agent.run, seq |-> agent.seq, published |-> agent.published,
                       sent |-> agent.sent, stored |-> agent.stored]
           /\ Planning => agent.run \in 1..Len(Runs) /\ agent.seq \in 0..(Len(Steps) - 1)
           /\ Waiting => Planning
  <1>1. /\ agent.run \in 1..(Len(Runs) + 1) /\ agent.seq \in 0..Len(Steps)
        /\ agent.sent \in AgentEvents \cup {NoRow} /\ agent.stored \in BOOLEAN
        /\ agent = [run |-> agent.run, seq |-> agent.seq, published |-> agent.published,
                    sent |-> agent.sent, stored |-> agent.stored]
    BY StepsAssumption, RunsAssumption DEF PlanOK
  <1>2. Planning => agent.run \in 1..Len(Runs) /\ agent.seq \in 0..(Len(Steps) - 1)
    BY <1>1, StepsAssumption, RunsAssumption DEF PlanOK, Planning
  <1>3. Waiting => Planning
    BY ReadyFields DEF PlanOK, Waiting
  <1> QED
    BY <1>1, <1>2, <1>3

(* A step that leaves the topic alone leaves alone what it holds.            *)
LEMMA TopicStays ==
    ASSUME topic' = topic
    PROVE  /\ TopicInOrder' = TopicInOrder
           /\ \A run : EventsOf(run)' = EventsOf(run)
           /\ \A r, run : Completed(r, run)' = Completed(r, run) /\ WasAborted(r, run)' = WasAborted(r, run)
  <1>1. TopicInOrder' = TopicInOrder /\ \A run : EventsOf(run)' = EventsOf(run)
    BY DEF TopicInOrder, Follows, Closes, EventsOf
  <1> QED
    BY <1>1 DEF Completed, WasAborted

(* CreateEvent and AbortThePlan hand their event to publish_event.           *)
LEMMA PublishKeeps ==
    ASSUME AgentInv, CreateEvent \/ AbortThePlan
    PROVE  AgentInv'
  <1>1. PICK e : /\ \/ e = NumberedEvent(agent.run, agent.seq + 1)
                    \/ e = AbortOf(agent.run) /\ agent.seq \in Abortable
                 /\ agent' = [agent EXCEPT !.sent = e]
                 /\ topic' = topic /\ late' = late /\ report' = report
                 /\ Planning /\ ~Waiting
    BY DEF CreateEvent, AbortThePlan, PublishEvent, vars, consumerVars
  <1>2. /\ agent.run \in 1..Len(Runs) /\ agent.seq \in 0..(Len(Steps) - 1)
        /\ agent = [run |-> agent.run, seq |-> agent.seq, published |-> agent.published,
                    sent |-> agent.sent, stored |-> agent.stored]
    BY <1>1, PlanFields DEF AgentInv
  <1>3. agent.seq + 1 \in 1..Len(Steps)
    BY <1>2, StepsAssumption
  <1>4. e \in AgentEvents /\ e # NoRow
    BY <1>1, <1>2, <1>3, NumberedFields, AbortFields, NoRowIsNoEvent
  <1>5. /\ agent'.run = agent.run /\ agent'.seq = agent.seq /\ agent'.published = agent.published
        /\ agent'.sent = e /\ agent'.stored = agent.stored
        /\ agent' = [run |-> agent.run, seq |-> agent.seq, published |-> agent.published,
                     sent |-> e, stored |-> agent.stored]
    BY <1>1, <1>2
  <1>6. agent.stored = FALSE
    BY <1>1, PlanFields DEF AgentInv, PlanOK
  <1>7. PlanOK'
    BY <1>1, <1>2, <1>4, <1>5, <1>6 DEF AgentInv, PlanOK, Planning, Waiting
  <1>8. RunsOK'
    BY <1>1, <1>5, <1>6, TopicStays DEF AgentInv, RunsOK, Planning
  <1>9. LateOK'
    BY <1>1, <1>5, TopicStays DEF AgentInv, LateOK
  <1>10. ReportOK'
    BY <1>1, <1>5, TopicStays DEF AgentInv, ReportOK, Completed, WasAborted
  <1> QED
    BY <1>1, <1>7, <1>8, <1>9, <1>10, TopicStays DEF AgentInv

(* What the agent waits for, and what may still come of a failed run, is the *)
(* next event of its plan, so that the broker may append it.                 *)
NextOfPlan(e, run, n) ==
    /\ run \in 1..Len(Runs) /\ n \in 0..(Len(Steps) - 1) /\ EventsOf(run) = Numbered(run, n)
    /\ e = NumberedEvent(run, n + 1) \/ e = AbortOf(run)

LEMMA SentIsNext ==
    ASSUME AgentInv, Waiting, ~agent.stored
    PROVE  NextOfPlan(agent.sent, agent.run, agent.seq)
  BY PlanFields DEF AgentInv, RunsOK, PlanOK, NextOfPlan

LEMMA LateIsNext ==
    ASSUME AgentInv, NEW e \in late
    PROVE  \E run, n : NextOfPlan(e, run, n) /\ run < agent.run
  BY DEF AgentInv, LateOK, NextOfPlan

(* The broker appends the event of the plan under way. *)
LEMMA StoreKeeps ==
    ASSUME AgentInv, Store
    PROVE  AgentInv'
  <1> DEFINE e == agent.sent
             run == agent.run
             n == agent.seq
  <1>1. /\ Waiting /\ ~agent.stored /\ topic' = Append(topic, e)
        /\ agent' = [agent EXCEPT !.stored = TRUE] /\ late' = late /\ report' = report
    BY DEF Store, Produce
  <1>2. NextOfPlan(e, run, n) /\ TopicInOrder
    BY <1>1, SentIsNext DEF AgentInv
  <1>3. /\ TopicInOrder' /\ e \in AgentEvents /\ e.planID = Runs[run]
        /\ EventsOf(run)' = Numbered(run, n) \cup {e}
        /\ \A other \in 1..Len(Runs) : other # run => EventsOf(other)' = EventsOf(other)
    BY <1>1, <1>2, AppendInOrder DEF NextOfPlan
  <1>4. /\ agent.run \in 1..Len(Runs) /\ Planning
        /\ agent = [run |-> agent.run, seq |-> agent.seq, published |-> agent.published,
                    sent |-> agent.sent, stored |-> agent.stored]
    BY <1>1, PlanFields DEF AgentInv
  <1>5. /\ agent'.run = run /\ agent'.seq = n /\ agent'.published = agent.published
        /\ agent'.sent = e /\ agent'.stored = TRUE
        /\ agent' = [run |-> run, seq |-> n, published |-> agent.published,
                     sent |-> e, stored |-> TRUE]
    BY <1>1, <1>4
  <1>6. PlanOK'
    BY <1>1, <1>4, <1>5 DEF AgentInv, PlanOK, Planning, Waiting
  <1>7. RunsOK'
    BY <1>3, <1>4, <1>5 DEF AgentInv, RunsOK, Planning
  <1>8. LateOK'
    <2>1. ASSUME NEW f \in late
          PROVE  \E q \in 1..Len(Runs), k \in 0..(Len(Steps) - 1) :
                    /\ q < run /\ EventsOf(q)' = Numbered(q, k)
                    /\ f = NumberedEvent(q, k + 1) \/ f = AbortOf(q)
      <3>1. PICK q \in 1..Len(Runs), k \in 0..(Len(Steps) - 1) :
                    /\ q < run /\ EventsOf(q) = Numbered(q, k)
                    /\ f = NumberedEvent(q, k + 1) \/ f = AbortOf(q)
        BY DEF AgentInv, LateOK
      <3>2. EventsOf(q)' = EventsOf(q)
        BY <1>3, <1>4, <3>1
      <3> QED
        BY <3>1, <3>2
    <2> QED
      BY <1>1, <1>5, <2>1 DEF AgentInv, LateOK
  <1>9. ReportOK'
    <2> SUFFICES ASSUME NEW r \in report
                 PROVE  \E q \in 1..Len(Runs) :
                           /\ q < run /\ r.plan = Runs[q]
                           /\ Completed(r, q)' \/ WasAborted(r, q)'
                           /\ \A f \in late : f.planID # r.plan
      BY <1>1, <1>5 DEF ReportOK
    <2>1. PICK q \in 1..Len(Runs) : /\ q < run /\ r.plan = Runs[q]
                                    /\ Completed(r, q) \/ WasAborted(r, q)
                                    /\ \A f \in late : f.planID # r.plan
      BY DEF AgentInv, ReportOK
    <2>2. EventsOf(q)' = EventsOf(q)
      BY <1>3, <1>4, <2>1
    <2> QED
      BY <2>1, <2>2 DEF Completed, WasAborted
  <1> QED
    BY <1>3, <1>6, <1>7, <1>8, <1>9 DEF AgentInv

(* ... or what it got late of a run that failed. *)
LEMMA StoreLateKeeps ==
    ASSUME AgentInv, NEW e \in late, StoreLate(e)
    PROVE  AgentInv'
  <1>1. /\ topic' = Append(topic, e) /\ late' = late \ {e} /\ agent' = agent /\ report' = report
    BY DEF StoreLate, Produce
  <1>2. PICK run, n : NextOfPlan(e, run, n) /\ run < agent.run
    BY LateIsNext
  <1>3. /\ TopicInOrder' /\ e \in AgentEvents /\ e.planID = Runs[run] /\ run \in 1..Len(Runs)
        /\ \A other \in 1..Len(Runs) : other # run => EventsOf(other)' = EventsOf(other)
    BY <1>1, <1>2, AppendInOrder DEF NextOfPlan, AgentInv
  <1>4. PlanOK'
    BY <1>1 DEF AgentInv, PlanOK, Planning, Waiting
  <1>5. agent.run \in Int
    BY PlanFields DEF AgentInv
  <1>6. RunsOK'
    BY <1>1, <1>2, <1>3, <1>5, PlanFields DEF AgentInv, RunsOK, Planning
  <1>7. LateOK'
    <2>1. ASSUME NEW f \in late \ {e}
          PROVE  \E q \in 1..Len(Runs), k \in 0..(Len(Steps) - 1) :
                    /\ q < agent.run /\ EventsOf(q)' = Numbered(q, k)
                    /\ f = NumberedEvent(q, k + 1) \/ f = AbortOf(q)
      <3>1. PICK q \in 1..Len(Runs), k \in 0..(Len(Steps) - 1) :
                    /\ q < agent.run /\ EventsOf(q) = Numbered(q, k)
                    /\ f = NumberedEvent(q, k + 1) \/ f = AbortOf(q)
        BY DEF AgentInv, LateOK
      <3>2. f.planID = Runs[q]
        <4>1. k + 1 \in 1..Len(Steps)
          BY StepsAssumption
        <4> QED
          BY <3>1, <4>1, NumberedFields, AbortFields
      <3>3. f.planID # e.planID
        BY <2>1 DEF AgentInv, LateOK
      <3>4. EventsOf(q)' = EventsOf(q)
        BY <1>3, <3>2, <3>3
      <3> QED
        BY <3>1, <3>4
    <2> QED
      BY <1>1, <2>1 DEF AgentInv, LateOK
  <1>8. ReportOK'
    <2> SUFFICES ASSUME NEW r \in report
                 PROVE  \E q \in 1..Len(Runs) :
                           /\ q < agent.run /\ r.plan = Runs[q]
                           /\ Completed(r, q)' \/ WasAborted(r, q)'
                           /\ \A f \in late : f.planID # r.plan
      BY <1>1 DEF ReportOK
    <2>1. PICK q \in 1..Len(Runs) : /\ q < agent.run /\ r.plan = Runs[q]
                                    /\ Completed(r, q) \/ WasAborted(r, q)
                                    /\ \A f \in late : f.planID # r.plan
      BY DEF AgentInv, ReportOK
    <2>2. EventsOf(q)' = EventsOf(q)
      BY <1>3, <2>1
    <2> QED
      BY <2>1, <2>2 DEF Completed, WasAborted
  <1> QED
    BY <1>3, <1>4, <1>6, <1>7, <1>8 DEF AgentInv

(* The broker has confirmed the event: the plan goes on, or has ended. *)
LEMMA ConfirmKeeps ==
    ASSUME AgentInv, Confirm
    PROVE  AgentInv'
  <1> USE StepsAssumption, RunsAssumption
  <1> DEFINE e == agent.sent
             run == agent.run
             n == agent.seq
             type == e.type
             published == Append(agent.published, type)
             seq == IF type = AbortType THEN agent.seq ELSE agent.sent.seqID
             entry == [plan |-> Runs[run], events |-> published, lastSeq |-> seq,
                       outcome |-> IF type = AbortType THEN "aborted" ELSE "completed"]
  <1>1. /\ Waiting /\ agent.stored /\ topic' = topic /\ late' = late
        /\ IF type \in {AbortType, "OrderCompleted"}
           THEN report' = report \cup {entry} /\ agent' = Ready(Len(Runs) + 1)
           ELSE /\ agent' = [Ready(run) EXCEPT !.seq = seq, !.published = published]
                /\ report' = report
    BY DEF Confirm, vars, consumerVars
  <1>2. run \in 1..Len(Runs) /\ n \in 0..(Len(Steps) - 1) /\ n + 1 \in 1..Len(Steps) /\ n \in Nat
    BY <1>1, PlanFields DEF AgentInv
  <1>3. EventsOf(run) = Numbered(run, n) \cup {e}
    BY <1>1, PlanFields DEF AgentInv, RunsOK
  <1>4. /\ e = NumberedEvent(run, n + 1) \/ (e = AbortOf(run) /\ n \in Abortable)
        /\ agent.published = Prefix(n)
    BY <1>1 DEF AgentInv, PlanOK
  <1>5. \/ /\ e = NumberedEvent(run, n + 1) /\ type = Steps[n + 1] /\ type # AbortType
           /\ seq = n + 1 /\ published = Prefix(n + 1) /\ EventsOf(run) = Numbered(run, n + 1)
        \/ /\ e = AbortOf(run) /\ type = AbortType /\ seq = n /\ n \in Abortable
           /\ published = Append(Prefix(n), AbortType)
    <2>1. CASE e = NumberedEvent(run, n + 1)
      <3>1. /\ type = Steps[n + 1] /\ type # AbortType /\ e.seqID = n + 1
        BY <1>2, <2>1, NumberedFields
      <3>2. Numbered(run, n + 1) = Numbered(run, n) \cup {e}
        BY <1>2, <2>1 DEF Numbered
      <3>3. published = Prefix(n + 1)
        BY <1>2, <1>4, <3>1, PrefixSteps
      <3> QED
        BY <1>3, <2>1, <3>1, <3>2, <3>3
    <2>2. CASE e = AbortOf(run) /\ n \in Abortable
      BY <1>2, <1>4, <2>2, AbortFields
    <2> QED
      BY <1>4, <2>1, <2>2
  <1>6. /\ \A q : EventsOf(q)' = EventsOf(q)
        /\ \A r, q : Completed(r, q)' = Completed(r, q) /\ WasAborted(r, q)' = WasAborted(r, q)
        /\ TopicInOrder'
    BY <1>1, TopicStays DEF AgentInv
  <1>7. CASE type \in {AbortType, "OrderCompleted"}
    <2>1. /\ report' = report \cup {entry} /\ agent' = Ready(Len(Runs) + 1)
          /\ agent'.run = Len(Runs) + 1
      BY <1>1, <1>7, ReadyFields
    <2>2. PlanOK'
      <3>1. /\ agent' = [run |-> Len(Runs) + 1, seq |-> 0, published |-> Prefix(0),
                         sent |-> NoRow, stored |-> FALSE]
            /\ agent'.run = Len(Runs) + 1 /\ agent'.seq = 0 /\ agent'.published = Prefix(0)
            /\ agent'.sent = NoRow /\ agent'.stored = FALSE
        BY <2>1, PrefixSteps DEF Ready
      <3>2. Len(Runs) + 1 \in 1..(Len(Runs) + 1) /\ 0 \in 0..Len(Steps)
        OBVIOUS
      <3>3. ~(Len(Runs) + 1 <= Len(Runs))
        OBVIOUS
      <3> QED
        BY <2>1, <3>1, <3>2, <3>3 DEF PlanOK, Planning, Waiting
    <2>3. RunsOK'
      BY <2>1 DEF RunsOK, Planning
    <2>4. LateOK'
      <3>1. \A q \in 1..Len(Runs) : q < run => q < Len(Runs) + 1
        BY <1>2
      <3> QED
        BY <1>1, <1>6, <2>1, <3>1 DEF AgentInv, LateOK
    <2>5. ReportOK'
      <3> SUFFICES ASSUME NEW r \in report \cup {entry}
                   PROVE  \E q \in 1..Len(Runs) :
                             /\ q < Len(Runs) + 1 /\ r.plan = Runs[q]
                             /\ Completed(r, q) \/ WasAborted(r, q)
                             /\ \A f \in late : f.planID # r.plan
        <4> HIDE DEF entry
        <4> QED
          BY <1>1, <1>6, <2>1 DEF ReportOK
      <3>1. CASE r \in report
        BY <1>2, <3>1 DEF AgentInv, ReportOK
      <3>2. CASE r = entry
        <4>1. /\ r.plan = Runs[run] /\ r.events = published /\ r.lastSeq = seq
              /\ r.outcome = IF type = AbortType THEN "aborted" ELSE "completed"
          BY <3>2
        <4>2. Completed(r, run) \/ WasAborted(r, run)
          <5>1. CASE e = AbortOf(run) /\ type = AbortType /\ seq = n /\ n \in Abortable
                     /\ published = Append(Prefix(n), AbortType)
            BY <1>3, <4>1, <5>1 DEF WasAborted
          <5>2. CASE /\ e = NumberedEvent(run, n + 1) /\ type = Steps[n + 1] /\ type # AbortType
                     /\ seq = n + 1 /\ published = Prefix(n + 1) /\ EventsOf(run) = Numbered(run, n + 1)
            <6>1. n + 1 = Len(Steps)
              BY <1>2, <1>7, <5>2
            <6> QED
              BY <4>1, <5>2, <6>1, PrefixSteps DEF Completed
          <5> QED
            BY <1>5, <5>1, <5>2
        <4>3. \A f \in late : f.planID # Runs[run]
          <5> SUFFICES ASSUME NEW f \in late PROVE f.planID # Runs[run]
            OBVIOUS
          <5>1. PICK q \in 1..Len(Runs), k \in 0..(Len(Steps) - 1) :
                   q < run /\ (f = NumberedEvent(q, k + 1) \/ f = AbortOf(q))
            BY DEF AgentInv, LateOK
          <5>2. k + 1 \in 1..Len(Steps)
            OBVIOUS
          <5>3. f.planID = Runs[q]
            BY <5>1, <5>2, NumberedFields, AbortFields
          <5> QED
            BY <1>2, <5>1, <5>3, PlansDiffer
        <4> QED
          BY <1>2, <4>1, <4>2, <4>3
      <3> QED
        BY <3>1, <3>2
    <2> QED
      BY <1>6, <2>2, <2>3, <2>4, <2>5 DEF AgentInv
  <1>8. CASE type \notin {AbortType, "OrderCompleted"}
    <2>1. /\ seq = n + 1 /\ published = Prefix(n + 1) /\ EventsOf(run) = Numbered(run, n + 1)
          /\ type = Steps[n + 1]
      BY <1>5, <1>8
    <2>2. /\ agent' = [run |-> run, seq |-> n + 1, published |-> Prefix(n + 1),
                       sent |-> NoRow, stored |-> FALSE]
          /\ agent'.run = run /\ agent'.seq = n + 1 /\ agent'.published = Prefix(n + 1)
          /\ agent'.sent = NoRow /\ agent'.stored = FALSE /\ report' = report
      BY <1>1, <1>8, <2>1 DEF Ready
    <2>3. n + 1 < Len(Steps)
      BY <1>2, <1>8, <2>1
    <2>4. PlanOK'
      <3>1. run \in 1..(Len(Runs) + 1) /\ n + 1 \in 0..Len(Steps) /\ run <= Len(Runs)
        BY <1>2
      <3> HIDE DEF seq, published
      <3> QED
        BY <2>2, <2>3, <3>1 DEF PlanOK, Planning, Waiting
    <2>5. RunsOK'
      BY <1>6, <2>1, <2>2 DEF AgentInv, RunsOK, Planning
    <2>6. LateOK' /\ ReportOK'
      BY <1>1, <1>6, <2>2 DEF AgentInv, LateOK, ReportOK
    <2> QED
      BY <1>6, <2>4, <2>5, <2>6 DEF AgentInv
  <1> QED
    BY <1>7, <1>8

(* PublishError: the next run begins, and the event may come late.           *)
LEMMA PublishErrorKeeps ==
    ASSUME AgentInv, PublishError
    PROVE  AgentInv'
  <1> USE StepsAssumption, RunsAssumption
  <1> DEFINE e == agent.sent
             run == agent.run
             n == agent.seq
  <1>1. /\ Waiting /\ topic' = topic /\ report' = report /\ agent' = Ready(run + 1)
        /\ late' = late \/ (~agent.stored /\ late' = late \cup {e})
    BY DEF PublishError, AfterError, vars, consumerVars
  <1>2. run \in 1..Len(Runs) /\ agent'.run = run + 1
    BY <1>1, PlanFields, ReadyFields DEF AgentInv
  <1>3. /\ \A q : EventsOf(q)' = EventsOf(q)
        /\ \A r, q : Completed(r, q)' = Completed(r, q) /\ WasAborted(r, q)' = WasAborted(r, q)
        /\ TopicInOrder'
    BY <1>1, TopicStays DEF AgentInv
  <1>4. PlanOK'
    <2>1. /\ agent' = [run |-> run + 1, seq |-> 0, published |-> Prefix(0), sent |-> NoRow, stored |-> FALSE]
          /\ agent'.run = run + 1 /\ agent'.seq = 0 /\ agent'.published = Prefix(0)
          /\ agent'.sent = NoRow /\ agent'.stored = FALSE
      BY <1>1, PrefixSteps DEF Ready
    <2>2. run + 1 \in 1..(Len(Runs) + 1) /\ 0 \in 0..Len(Steps) /\ 0 < Len(Steps)
      BY <1>2
    <2>3. ~(run + 1 <= Len(Runs)) => agent' = Ready(Len(Runs) + 1)
      BY <1>1, <1>2
    <2> QED
      BY <2>1, <2>2, <2>3 DEF PlanOK, Planning, Waiting
  <1>5. RunsOK'
    <2>1. agent'.seq = 0 /\ agent'.stored = FALSE
      BY <1>1, ReadyFields
    <2>2. Numbered(run + 1, 0) = {}
      BY DEF Numbered
    <2>3. \A q \in 1..Len(Runs) : q > run => EventsOf(q) = {}
      BY DEF AgentInv, RunsOK
    <2>4. Planning' => run + 1 \in 1..Len(Runs)
      BY <1>2 DEF Planning
    <2> QED
      BY <1>2, <1>3, <2>1, <2>2, <2>3, <2>4 DEF RunsOK
  <1>6. ASSUME NEW f \in late
        PROVE  \E q \in 1..Len(Runs), k \in 0..(Len(Steps) - 1) :
                  /\ q < run /\ EventsOf(q) = Numbered(q, k) /\ f.planID = Runs[q]
                  /\ f = NumberedEvent(q, k + 1) \/ f = AbortOf(q)
    <2>1. PICK q \in 1..Len(Runs), k \in 0..(Len(Steps) - 1) :
                  /\ q < run /\ EventsOf(q) = Numbered(q, k)
                  /\ f = NumberedEvent(q, k + 1) \/ f = AbortOf(q)
      BY DEF AgentInv, LateOK
    <2>2. k + 1 \in 1..Len(Steps)
      OBVIOUS
    <2>3. f.planID = Runs[q]
      BY <2>1, <2>2, NumberedFields, AbortFields
    <2> QED
      BY <2>1, <2>3
  <1>7. ASSUME ~agent.stored PROVE NextOfPlan(e, run, n) /\ e.planID = Runs[run]
    <2>1. NextOfPlan(e, run, n)
      BY <1>1, <1>7, SentIsNext
    <2>2. n + 1 \in 1..Len(Steps)
      BY <2>1 DEF NextOfPlan
    <2> QED
      BY <1>2, <2>1, <2>2, NumberedFields, AbortFields DEF NextOfPlan
  <1>8. \A f \in late : f.planID # Runs[run]
    <2> SUFFICES ASSUME NEW f \in late PROVE f.planID # Runs[run]
      OBVIOUS
    <2>1. PICK q \in 1..Len(Runs) : q < run /\ f.planID = Runs[q]
      BY <1>6
    <2> QED
      BY <1>2, <2>1, PlansDiffer
  <1>9. LateOK'
    <2>1. ASSUME NEW f \in late'
          PROVE  \E q \in 1..Len(Runs), k \in 0..(Len(Steps) - 1) :
                    /\ q < run + 1 /\ EventsOf(q) = Numbered(q, k)
                    /\ f = NumberedEvent(q, k + 1) \/ f = AbortOf(q)
      <3>1. CASE f \in late
        <4>1. PICK q \in 1..Len(Runs), k \in 0..(Len(Steps) - 1) :
                  /\ q < run /\ EventsOf(q) = Numbered(q, k)
                  /\ f = NumberedEvent(q, k + 1) \/ f = AbortOf(q)
          BY <1>6, <3>1
        <4>2. q < run + 1
          BY <1>2, <4>1
        <4> QED
          BY <4>1, <4>2
      <3>2. CASE f = e /\ ~agent.stored
        <4>1. run < run + 1
          BY <1>2
        <4> QED
          BY <1>7, <3>2, <4>1 DEF NextOfPlan
      <3> QED
        BY <1>1, <2>1, <3>1, <3>2
    <2>2. ASSUME NEW f \in late', NEW g \in late', f.planID = g.planID PROVE f = g
      <3>1. (f \in late /\ g \in late) \/ f = g
        BY <1>1, <1>7, <1>8, <2>2
      <3> QED
        BY <2>2, <3>1 DEF AgentInv, LateOK
    <2> QED
      BY <1>2, <1>3, <2>1, <2>2 DEF LateOK
  <1>10. ReportOK'
    <2> SUFFICES ASSUME NEW r \in report
                 PROVE  \E q \in 1..Len(Runs) :
                           /\ q < run + 1 /\ r.plan = Runs[q]
                           /\ Completed(r, q) \/ WasAborted(r, q)
                           /\ \A f \in late' : f.planID # r.plan
      BY <1>1, <1>2, <1>3 DEF ReportOK
    <2>1. PICK q \in 1..Len(Runs) : /\ q < run /\ r.plan = Runs[q]
                                    /\ Completed(r, q) \/ WasAborted(r, q)
                                    /\ \A f \in late : f.planID # r.plan
      BY DEF AgentInv, ReportOK
    <2>2. q < run + 1 /\ Runs[q] # Runs[run]
      BY <1>2, <2>1, PlansDiffer
    <2>3. \A f \in late' : f.planID # r.plan
      BY <1>1, <1>7, <2>1, <2>2
    <2> QED
      BY <2>1, <2>2, <2>3
  <1> QED
    BY <1>3, <1>4, <1>5, <1>9, <1>10 DEF AgentInv

(* The server processes append nothing to the topic of the orders. *)
LEMMA ProcessKeepsTopic ==
    ASSUME NEW c \in Workers, ProcessStep(c)
    PROVE  topic' = topic
  BY DEF ProcessStep, Assign, Revoke, PollFetches, HandleMalformed, HandleEvent, RetryForever,
         LoseAnswer, SendAcked, SendFailed, CommitRecords, Shutdown, Break, Exit, Crash, Restart,
         SweepSelect, SweepSend, SweepCommit, SweepFail, vars, consumerVars

LEMMA AgentStays ==
    ASSUME AgentInv, topic' = topic, UNCHANGED agentVars
    PROVE  AgentInv'
  <1>1. agent' = agent /\ late' = late /\ report' = report
    BY DEF agentVars
  <1> QED
    BY <1>1, TopicStays DEF AgentInv, PlanOK, RunsOK, LateOK, ReportOK, Planning, Waiting

LEMMA AgentInvNext == AgentInv /\ [AgentNext]_allVars => AgentInv'
  <1> SUFFICES ASSUME AgentInv, [AgentNext]_allVars PROVE AgentInv'
    OBVIOUS
  <1>1. ASSUME UNCHANGED allVars PROVE AgentInv'
    BY <1>1, AgentStays DEF allVars, vars, consumerVars
  <1>2. ASSUME NEW c \in Workers, ProcessStep(c) /\ UNCHANGED agentVars PROVE AgentInv'
    BY <1>2, ProcessKeepsTopic, AgentStays
  <1> QED
    BY <1>1, <1>2, PublishKeeps, StoreKeeps, ConfirmKeeps, PublishErrorKeeps, StoreLateKeeps
       DEF AgentNext, Rest

LEMMA AgentInvariant == AgentSpec => []AgentInv
  BY AgentInitInv, AgentInvNext, PTL DEF AgentSpec

(* The agent's state keeps its types, for any runs and any plan: current_seq *)
(* counts what was confirmed (RunnerState), what a failed run left behind is *)
(* events, and a report entry has the whole plan or an abort after the       *)
(* lastSeq events before it.                                                 *)
THEOREM AgentTypeCorrect == AgentSpec => []AgentTypeOK
  <1>1. AgentInv => AgentTypeOK
    <2> SUFFICES ASSUME AgentInv PROVE AgentTypeOK
      OBVIOUS
    <2>1. /\ agent.run \in 1..(Len(Runs) + 1) /\ agent.seq \in 0..Len(Steps)
          /\ agent.seq = Len(agent.published)
      BY PlanFields, PrefixSteps DEF AgentInv, PlanOK
    <2>2. late \subseteq Event
      <3> SUFFICES ASSUME NEW e \in late PROVE e \in Event
        OBVIOUS
      <3>1. PICK run \in 1..Len(Runs), n \in 0..(Len(Steps) - 1) :
               e = NumberedEvent(run, n + 1) \/ e = AbortOf(run)
        BY DEF AgentInv, LateOK
      <3>2. n + 1 \in 1..Len(Steps)
        BY StepsAssumption
      <3> QED
        BY <3>1, <3>2, NumberedFields, AbortFields
    <2>3. ASSUME NEW r \in report
          PROVE  IF r.outcome = "completed"
                 THEN r.events = Steps
                 ELSE Len(r.events) = r.lastSeq + 1 /\ r.lastSeq \in Abortable
      <3>1. PICK run \in 1..Len(Runs) : Completed(r, run) \/ WasAborted(r, run)
        BY DEF AgentInv, ReportOK
      <3>2. CASE Completed(r, run)
        BY <3>2 DEF Completed
      <3>3. CASE WasAborted(r, run)
        <4>1. r.lastSeq \in 0..Len(Steps) /\ r.lastSeq \in Nat
          BY <3>3, StepsAssumption DEF WasAborted, Abortable
        <4>2. Prefix(r.lastSeq) \in Seq(SequencedType) /\ Len(Prefix(r.lastSeq)) = r.lastSeq
          BY <4>1, PrefixSteps
        <4>3. Len(Append(Prefix(r.lastSeq), AbortType)) = r.lastSeq + 1
          BY <4>1, <4>2
        <4> QED
          BY <3>3, <4>3 DEF WasAborted
      <3> QED
        BY <3>1, <3>2, <3>3
    <2> QED
      BY <2>1, <2>2, <2>3 DEF AgentTypeOK
  <1> QED
    BY <1>1, AgentInvariant, PTL

-----------------------------------------------------------------------------
(* The agent with the server behind it is Consumer with one producer. *)

(* What the agent appends is an input of the server. *)
LEMMA SentIsInput ==
    ASSUME NEW e, NEW run, NEW n, NextOfPlan(e, run, n)
    PROVE  e \in Inputs /\ e \in AgentEvents
  <1>1. n + 1 \in 1..Len(Steps) /\ run \in 1..Len(Runs)
    BY StepsAssumption DEF NextOfPlan
  <1> QED
    BY <1>1, NumberedFields, AbortFields DEF NextOfPlan

LEMMA AgentStepIsNext == AgentInv /\ [AgentNext]_allVars => [Next]_vars
  <1> SUFFICES ASSUME AgentInv, [AgentNext]_allVars PROVE [Next]_vars
    OBVIOUS
  <1>1. ASSUME Store PROVE Next
    <2>1. Produce(agent.sent) /\ Waiting /\ ~agent.stored
      BY <1>1 DEF Store
    <2>2. agent.sent \in Inputs
      BY <2>1, SentIsNext, SentIsInput
    <2> QED
      BY <2>1, <2>2 DEF Next
  <1>2. ASSUME NEW e \in late, StoreLate(e) PROVE Next
    <2>1. Produce(e)
      BY <1>2 DEF StoreLate
    <2>2. e \in Inputs
      BY LateIsNext, SentIsInput
    <2> QED
      BY <2>1, <2>2 DEF Next
  <1>3. ASSUME NEW c \in Workers, ProcessStep(c) PROVE Next
    BY <1>3 DEF Next
  <1>4. ASSUME CreateEvent \/ AbortThePlan \/ Confirm \/ PublishError \/ Rest \/ UNCHANGED allVars
        PROVE  UNCHANGED vars
    BY <1>4 DEF CreateEvent, AbortThePlan, PublishEvent, Confirm, PublishError, Rest, allVars
  <1> QED
    BY <1>1, <1>2, <1>3, <1>4 DEF AgentNext

(* The agent (KafkaProducer.publish_event, whatever fails) is a producer as  *)
(* the server expects it: with the agent in front, the server is Consumer,   *)
(* and all that is proved of Consumer holds.                                 *)
THEOREM AgentUsesConsumer == AgentSpec => Spec
  <1>1. AgentInit => Init
    BY DEF AgentInit
  <1> QED
    BY <1>1, AgentStepIsNext, AgentInvariant, PTL DEF AgentSpec, Spec

-----------------------------------------------------------------------------
(* What the server makes of the agent's topic. *)

Known == StoryInv /\ TopicInv /\ TopicInOrder /\ EffectInv

(* Record k is at hand, and all before it are settled.                       *)
InTurn(k) == k \in 1..Len(topic) /\ \A i \in 1..(k - 1) : i \in settled

(* A worker handles its records in turn. *)
LEMMA AtHand ==
    ASSUME Known, OffsetInv, NEW c \in Workers, worker[c].at < worker[c].to
    PROVE  \E k : k = worker[c].at + 1 /\ InTurn(k) /\ Current(c) = topic[k]
  <1>1. worker[c].at + 1 \in 1..Len(topic)
    BY CurrentType DEF Known
  <1>2. worker[c].at \in Nat /\ \A i \in 1..worker[c].at : i \in settled
    BY DEF OffsetInv, OffsetsOK, SettledBehind
  <1> QED
    BY <1>1, <1>2 DEF InTurn, Current

(* The record is an event of the agent: the next of its plan, after the one  *)
(* before it, or the abort that closes the plan.                             *)
LEMMA RecordAtHand ==
    ASSUME Known, NEW k, InTurn(k)
    PROVE  /\ topic[k] \in AgentEvents /\ topic[k].order = Order /\ topic[k].data = "plain"
           /\ topic[k] \in SeqEvent => topic[k].type # AbortType /\ Follows(k)
           /\ topic[k] \in AbortEvent => topic[k].type = AbortType /\ Closes(k)
           /\ topic[k] \in SeqEvent \cup AbortEvent /\ Len(topic) \in Nat
  <1>1. k \in 1..Len(topic) /\ topic \in Seq(AgentEvents) /\ (Follows(k) \/ Closes(k))
    BY DEF Known, TopicInOrder, InTurn
  <1>2. CASE Follows(k)
    <2>1. PICK run \in 1..Len(Runs), s \in 1..Len(Steps) : topic[k] = NumberedEvent(run, s)
      BY <1>2 DEF Follows
    <2> QED
      BY <1>1, <1>2, <2>1, NumberedFields, KindsApart
  <1>3. CASE Closes(k)
    <2>1. PICK run \in 1..Len(Runs) : topic[k] = AbortOf(run)
      BY <1>3 DEF Closes
    <2> QED
      BY <1>1, <1>3, <2>1, AbortFields, KindsApart
  <1> QED
    BY <1>1, <1>2, <1>3

(* Nothing is buffered: no row of any key. *)
LEMMA NoRows ==
    ASSUME Known, NEW e \in SeqEvent, NEW s \in 1..MaxInt
    PROVE  Row(e, s) = NoRow
  <1>1. e.order \in Orders /\ e.planID \in Plans
    BY DEF SeqEvent
  <1>2. \A o \in Orders, p \in Plans : <<o, p, s>> \notin Buffered
    BY DEF Known, EffectInv, NothingBuffered
  <1> QED
    BY <1>1, <1>2 DEF Buffered, Row

(* What a live order's log tells is at most last_seq. *)
LEMMA ToldIsPast ==
    ASSUME StoryInv, NEW o \in Orders, orders[o].exists, ~Aborted(orders[o]),
           NEW p, NEW s \in Int, Told(o, p, s)
    PROVE  s <= orders[o].lastSeq
  <1>1. /\ orders[o].lastSeq \in Nat /\ outbox[o] \in Seq(Event) /\ LogTells(orders[o], outbox[o])
    BY TableTypes, OrderStateFields DEF Inv, LogTellsOrder
  <1>2. PICK i \in 1..Len(outbox[o]) : outbox[o][i].seqID = s
    BY DEF Told
  <1>3. Len(outbox[o]) = orders[o].lastSeq /\ i \in 1..orders[o].lastSeq
    BY <1>1 DEF LogTells
  <1>4. outbox[o][i].seqID = i
    BY <1>1, <1>3 DEF LogTells
  <1> QED
    BY <1>2, <1>3, <1>4

(* The event before it is settled, so the record at hand leaves no gap.      *)
LEMMA NeverBuffers ==
    ASSUME Known, NEW k, InTurn(k), topic[k] \in SeqEvent
    PROVE  SeqOutcome(topic[k]) # "BUFFER"
  <1> DEFINE e == topic[k]
             st == orders[Order]
  <1> SUFFICES ASSUME SeqOutcome(e) = "BUFFER" PROVE FALSE
    OBVIOUS
  <1>1. Order \in Orders /\ st \in OrderState /\ st.exists \in BOOLEAN /\ st.lastSeq \in Nat
    BY RunsAssumption, TableTypes, OrderStateFields DEF Known
  <1>2. e.order = Order /\ e.seqID \in Int
    BY RecordAtHand DEF SeqEvent
  <1>3. \/ ~st.exists /\ e.seqID # 1
        \/ Owns(st, e.planID) /\ ~Aborted(st) /\ e.seqID > st.lastSeq + 1
    BY <1>1, <1>2, DecideBufferCases DEF SeqOutcome
  <1>4. PICK run \in 1..Len(Runs), s \in 1..Len(Steps) :
           /\ e = NumberedEvent(run, s)
           /\ s > 1 => \E j \in 1..(k - 1) : topic[j] = NumberedEvent(run, s - 1)
    BY RecordAtHand DEF Follows
  <1>5. e.seqID = s /\ e.planID = Runs[run] /\ s > 1 /\ s - 1 \in 1..Len(Steps)
    <2>1. e.seqID = s /\ e.planID = Runs[run]
      BY <1>4, NumberedFields
    <2>2. s > 1
      BY <1>1, <1>3, <2>1
    <2> QED
      BY <2>1, <2>2
  <1>6. PICK j \in 1..(k - 1) : topic[j] = NumberedEvent(run, s - 1)
    BY <1>4, <1>5
  <1>7. HasEffect(topic[j])
    BY <1>6 DEF InTurn, Known, EffectInv, SettledHaveEffect
  <1>8. topic[j].planID = e.planID /\ topic[j].seqID = s - 1 /\ topic[j].type # AbortType
    BY <1>5, <1>6, NumberedFields
  <1>9. Owns(st, e.planID) /\ ~Aborted(st) /\ s > st.lastSeq + 1 /\ st.exists
    BY <1>3, <1>5, <1>7 DEF HasEffect, Owns
  <1>10. Told(Order, e.planID, s - 1)
    BY <1>7, <1>8, <1>9 DEF HasEffect, Owns
  <1>11. s - 1 <= st.lastSeq
    BY <1>1, <1>9, <1>10, ToldIsPast DEF Known
  <1> QED
    BY <1>1, <1>9, <1>11

(* Nor does the database reject it: the agent's payloads fit the columns.    *)
LEMMA NeverRejected ==
    ASSUME Known, NEW k, InTurn(k)
    PROVE  ~Rejected(topic[k])
  <1> DEFINE e == topic[k]
  <1>1. Applicable(e) /\ Storable(e)
    BY RecordAtHand DEF Applicable, Storable
  <1>2. e \in SeqEvent => SeqOutcome(e) # "BUFFER"
    BY NeverBuffers
  <1>3. ASSUME e \in SeqEvent, NEW m \in (e.seqID + 1)..MaxInt PROVE Row(e, m) = NoRow
    <2>1. m \in 1..MaxInt
      BY <1>3, MaxIntAssumption DEF SeqEvent
    <2> QED
      BY <1>3, <2>1, NoRows
  <1> HIDE DEF e
  <1> QED
    BY <1>1, <1>2, <1>3 DEF Rejected, e

(* What has an effect keeps it. *)
LEMMA EffectStays ==
    ASSUME HistoryStays, dlq \subseteq dlq', NEW e, HasEffect(e)
    PROVE  HasEffect(e)'
  <1>1. Order \in Orders
    BY RunsAssumption
  <1>2. orders[Order].exists /\ orders'[Order].exists /\ orders'[Order].planID = orders[Order].planID
    BY <1>1 DEF HistoryStays, HasEffect
  <1>3. Aborted(orders[Order]) => Aborted(orders'[Order])
    BY <1>1 DEF HistoryStays
  <1>4. Told(Order, e.planID, e.seqID) => Told(Order, e.planID, e.seqID)'
    BY <1>1 DEF HistoryStays, Told
  <1> QED
    BY <1>2, <1>3, <1>4 DEF HasEffect

(* What the tables and the settled offsets have to do with the topic. *)
TablesFit == NothingBuffered /\ LogFromTopic /\ OwnerIsFirst /\ AbortedInTurn

(* The first effect is that of the first record. *)
LEMMA FirstOfTopic ==
    ASSUME Known, NEW k, InTurn(k), ~orders[Order].exists
    PROVE  k = 1
  <1>1. k \in 1..Len(topic) /\ (k # 1 => 1 \in settled)
    BY DEF InTurn
  <1>2. 1 \notin settled
    BY DEF Known, EffectInv, SettledHaveEffect, HasEffect
  <1> QED
    BY <1>1, <1>2

(* ApplyEvent, outcome APPLY: the event alone, nothing is there to drain.    *)
LEMMA ApplyFits ==
    ASSUME Known, NEW k, InTurn(k), topic[k] \in SeqEvent, ApplyAndDrain(topic[k]), topic' = topic
    PROVE  TablesFit' /\ HasEffect(topic[k])'
  <1> DEFINE e == topic[k]
             p == e.planID
  <1>1. SeqOutcome(e) = "APPLY" /\ StoryInv /\ Inv /\ Order \in Orders /\ e.order = Order
    BY TableTypes, RunsAssumption, RecordAtHand DEF ApplyAndDrain, Known
  <1>2. PICK m \in e.seqID..(MaxInt - 1) :
          /\ DrainableTo(e, m)
          /\ orders' = [orders EXCEPT ![Order] =
                [exists  |-> TRUE,
                 planID  |-> p,
                 lastSeq |-> m,
                 status  |-> StatusFromEventType(
                                IF m = e.seqID THEN e.type ELSE Row(e, m).type)]]
          /\ outbox' = [outbox EXCEPT ![Order] = @ \o Batch(e, m)]
          /\ DeletePending(Order, p, DrainedRows(e, m))
    BY <1>1 DEF ApplyAndDrain
  <1>3. /\ p \in Plans /\ e.seqID \in Nat /\ e.seqID >= 1 /\ m \in Nat /\ m >= e.seqID
        /\ outbox[Order] \in Seq(Event) /\ Len(outbox[Order]) = e.seqID - 1
        /\ ~Aborted(orders[Order]) /\ (orders[Order].exists => orders[Order].planID = p)
    BY <1>1, LogBeforeApply, MaxIntAssumption, SMTT(30)
  <1>4. m = e.seqID
    <2>1. SUFFICES ASSUME m # e.seqID PROVE FALSE
      OBVIOUS
    <2>2. m \in 1..MaxInt /\ m \in (e.seqID + 1)..m
      BY <1>2, <1>3, <2>1, MaxIntAssumption
    <2>3. Row(e, m) = NoRow
      BY <2>2, NoRows
    <2> QED
      BY <1>2, <2>2, <2>3 DEF DrainableTo
  <1> DEFINE new == [exists |-> TRUE, planID |-> p, lastSeq |-> m, status |-> StatusFromEventType(e.type)]
             log == outbox[Order] \o Batch(e, m)
  <1>5. orders' = [orders EXCEPT ![Order] = new] /\ outbox' = [outbox EXCEPT ![Order] = log]
    BY <1>2, <1>4
  <1>6. /\ Len(log) = e.seqID /\ log[e.seqID] = e
        /\ \A i \in 1..Len(outbox[Order]) : log[i] = outbox[Order][i]
    BY <1>1, <1>2, <1>3, <1>4, LogAfterApply
  <1>7. orders'[Order] = new /\ outbox'[Order] = log
    <2>1. orders \in [Orders -> OrderState] /\ outbox \in [Orders -> Seq(Event)]
      BY <1>1, TableTypes
    <2> HIDE DEF new, log
    <2> QED
      BY <1>1, <1>5, <2>1
  <1>8. ~Aborted(orders'[Order]) /\ orders'[Order].exists /\ orders'[Order].planID = p
    <2>1. StatusFromEventType(e.type) # "aborted"
      BY <1>1, TypesAssumption, StatusOfType DEF SeqEvent
    <2> QED
      BY <1>7, <2>1 DEF Aborted
  <1>9. NothingBuffered'
    <2>1. \A x \in Orders, q \in Plans, s \in 1..MaxInt :
             pending'[x][q][s] = NoRow \/ pending'[x][q][s] = pending[x][q][s]
      BY <1>1, <1>2, <1>3, RowsAfterDelete
    <2> QED
      BY <2>1 DEF Known, EffectInv, NothingBuffered, Buffered
  <1>10. LogFromTopic'
    <2> SUFFICES ASSUME NEW i \in 1..Len(log) PROVE \E j \in 1..Len(topic) : topic[j] = log[i]
      BY <1>7 DEF LogFromTopic, InTopic
    <2>1. CASE i = e.seqID
      BY <1>6, <2>1 DEF InTurn
    <2>2. CASE i # e.seqID
      <3>1. i \in 1..Len(outbox[Order])
        BY <1>3, <1>6, <2>2
      <3> QED
        BY <1>6, <3>1 DEF Known, EffectInv, LogFromTopic, InTopic
    <2> QED
      BY <2>1, <2>2
  <1>11. OwnerIsFirst'
    <2>1. CASE orders[Order].exists
      BY <1>3, <1>8, <2>1 DEF Known, EffectInv, OwnerIsFirst
    <2>2. CASE ~orders[Order].exists
      <3>1. k = 1
        BY <2>2, FirstOfTopic
      <3> QED
        BY <1>8, <3>1 DEF InTurn, OwnerIsFirst
    <2> QED
      BY <2>1, <2>2
  <1>12. AbortedInTurn'
    BY <1>8 DEF AbortedInTurn
  <1>13. HasEffect(e)'
    <2>1. Told(Order, p, e.seqID)'
      BY <1>1, ApplyTells
    <2>2. e.type # AbortType
      BY RecordAtHand
    <2> QED
      BY <1>8, <2>1, <2>2 DEF HasEffect
  <1> QED
    BY <1>9, <1>10, <1>11, <1>12, <1>13 DEF TablesFit

(* AbortPlan that aborts: everything before it is settled.                   *)
LEMMA AbortFits ==
    ASSUME Known, NEW k, InTurn(k), topic[k] \in AbortEvent,
           AbortOrder(topic[k]) \/ TombstoneOrder(topic[k]),
           topic' = topic, settled \subseteq settled'
    PROVE  TablesFit' /\ HasEffect(topic[k])'
  <1> DEFINE e == topic[k]
             p == e.planID
  <1>1. StoryInv /\ Inv /\ Order \in Orders /\ e.order = Order /\ p \in Plans /\ e.type = AbortType
    BY TableTypes, RunsAssumption, RecordAtHand DEF Known, AbortEvent
  <1>2. Overruled(Order, p)' /\ HistoryStays
    BY <1>1, AbortOverrules
  <1>3. Aborted(orders'[Order]) /\ orders'[Order].exists /\ orders'[Order].planID = p
    BY <1>2 DEF Overruled, Owns
  <1>4. DeletePending(Order, p, 1..MaxInt)
    BY <1>1 DEF AbortOrder, TombstoneOrder, DiscardPending
  <1>5. NothingBuffered'
    <2>1. \A x \in Orders, q \in Plans, s \in 1..MaxInt :
             pending'[x][q][s] = NoRow \/ pending'[x][q][s] = pending[x][q][s]
      BY <1>1, <1>4, RowsAfterDelete
    <2> QED
      BY <2>1 DEF Known, EffectInv, NothingBuffered, Buffered
  <1>6. LogFromTopic'
    <2>1. outbox[Order] \in Seq(Event) /\ outbox \in [Orders -> Seq(Event)] /\ e \in Event
      BY <1>1, TableTypes DEF Event
    <2>2. CASE outbox' = outbox
      BY <2>2 DEF Known, EffectInv, LogFromTopic, InTopic
    <2>3. CASE outbox' = [outbox EXCEPT ![Order] = Append(outbox[Order], e)]
      <3>1. /\ outbox'[Order] = Append(outbox[Order], e)
            /\ Len(outbox'[Order]) = Len(outbox[Order]) + 1
            /\ outbox'[Order][Len(outbox[Order]) + 1] = e
            /\ \A i \in 1..Len(outbox[Order]) : outbox'[Order][i] = outbox[Order][i]
            /\ Len(outbox[Order]) \in Nat
        BY <1>1, <2>1, <2>3
      <3> SUFFICES ASSUME NEW i \in 1..Len(outbox'[Order])
                   PROVE  \E j \in 1..Len(topic) : topic[j] = outbox'[Order][i]
        BY DEF LogFromTopic, InTopic
      <3>2. CASE i = Len(outbox[Order]) + 1
        BY <3>1, <3>2 DEF InTurn
      <3>3. CASE i # Len(outbox[Order]) + 1
        <4>1. i \in 1..Len(outbox[Order])
          BY <3>1, <3>3
        <4> QED
          BY <3>1, <4>1 DEF Known, EffectInv, LogFromTopic, InTopic
      <3> QED
        BY <3>2, <3>3
    <2> QED
      BY <1>1, <2>2, <2>3 DEF AbortOrder, TombstoneOrder
  <1>7. OwnerIsFirst'
    <2>1. CASE orders[Order].exists
      <3>1. orders'[Order].planID = orders[Order].planID
        BY <1>1, <1>2, <2>1 DEF HistoryStays
      <3> QED
        BY <2>1, <3>1 DEF Known, EffectInv, OwnerIsFirst
    <2>2. CASE ~orders[Order].exists
      <3>1. k = 1
        BY <2>2, FirstOfTopic
      <3> QED
        BY <1>3, <3>1 DEF InTurn, OwnerIsFirst
    <2> QED
      BY <2>1, <2>2
  <1>8. AbortedInTurn'
    BY <1>1, <1>3 DEF InTurn, AbortedInTurn
  <1>9. HasEffect(e)'
    BY <1>1, <1>3 DEF HasEffect
  <1> QED
    BY <1>5, <1>6, <1>7, <1>8, <1>9 DEF TablesFit

(* A transaction that writes nothing has nothing left to do: the event was   *)
(* told, or is discarded because its plan's abort, and hence all before it,  *)
(* was settled; and no abort comes to a completed order, because it would be *)
(* the last of a plan that has not been completed.                           *)
LEMMA IgnoredHasEffect ==
    ASSUME Known, NEW k, InTurn(k),
           \/ topic[k] \in SeqEvent /\ IgnoreEvent(topic[k])
           \/ topic[k] \in AbortEvent /\ IgnoreAbort(topic[k])
    PROVE  HasEffect(topic[k])
  <1> DEFINE e == topic[k]
             p == e.planID
             st == orders[Order]
  <1>1. /\ StoryInv /\ Order \in Orders /\ e.order = Order /\ Len(topic) \in Nat /\ k \in 1..Len(topic)
        /\ st \in OrderState /\ st.exists \in BOOLEAN /\ st.lastSeq \in Nat
        /\ LogTells(st, outbox[Order]) /\ outbox[Order] \in Seq(Event)
    BY RunsAssumption, TableTypes, OrderStateFields, RecordAtHand DEF Known, Inv, LogTellsOrder, InTurn
  <1>2. CASE e \in SeqEvent /\ SeqOutcome(e) = "DUPLICATE"
    <2>1. /\ st.exists /\ st.planID = p /\ e.seqID \in 1..st.lastSeq
          /\ e.type # AbortType
      BY <1>1, <1>2, RecordAtHand DEF SeqOutcome, Decide, SeqEvent
    <2>2. /\ e.seqID \in 1..Len(outbox[Order]) /\ outbox[Order][e.seqID] \in SeqEvent
          /\ outbox[Order][e.seqID].planID = p /\ outbox[Order][e.seqID].seqID = e.seqID
      BY <1>1, <2>1 DEF LogTells
    <2>3. outbox[Order][e.seqID].order = Order
      BY <1>1, <2>2 DEF StoryInv, OfItsOrder
    <2>4. Told(Order, p, e.seqID)
      BY <2>2, <2>3 DEF Told, Event
    <2> QED
      BY <2>1, <2>4 DEF HasEffect
  <1>3. CASE e \in SeqEvent /\ SeqOutcome(e) = "DISCARD"
    <2>1. st.exists /\ st.planID = p /\ Aborted(st) /\ e.type # AbortType
      BY <1>1, <1>3, RecordAtHand DEF SeqOutcome, Decide, Aborted
    <2>2. PICK a \in 1..Len(topic) : /\ topic[a].type = AbortType /\ topic[a].planID = p
                                     /\ \A i \in 1..(a - 1) : i \in settled
      BY <2>1 DEF Known, EffectInv, AbortedInTurn
    <2>3. InTurn(a) /\ a # k
      BY <2>1, <2>2 DEF InTurn
    <2>4. Closes(a)
      BY <2>2, <2>3, RecordAtHand
    <2>5. k <= a
      <3>1. PICK run \in 1..Len(Runs) :
               /\ topic[a] = AbortOf(run)
               /\ \A j \in 1..Len(topic) : topic[j].planID = Runs[run] => j <= a
        BY <2>4 DEF Closes
      <3>2. p = Runs[run]
        BY <2>2, <3>1, AbortFields
      <3> QED
        BY <1>1, <3>1, <3>2
    <2>6. k \in settled
      BY <1>1, <2>2, <2>3, <2>5
    <2> QED
      BY <2>6 DEF Known, EffectInv, SettledHaveEffect
  <1>4. CASE e \in AbortEvent /\ AbortOutcome(e) = "DUPLICATE"
    <2>1. st.exists /\ st.planID = p /\ Aborted(st) /\ e.type = AbortType
      BY <1>1, <1>4, RecordAtHand DEF AbortOutcome, DecideAbort, Aborted
    <2> QED
      BY <2>1 DEF HasEffect
  <1>5. CASE e \in AbortEvent /\ AbortOutcome(e) = "DISCARD"
    <2>1. st.exists /\ st.planID = p /\ st.status = "completed" /\ ~Aborted(st)
      BY <1>1, <1>5 DEF AbortOutcome, DecideAbort, Aborted
    <2>2. PICK i \in 1..Len(outbox[Order]) : outbox[Order][i].type = "OrderCompleted"
      BY <1>1, <2>1, CompletedWasTold
    <2>3. outbox[Order][i].planID = p
      BY <1>1, <2>1 DEF LogTells
    <2>4. PICK j \in 1..Len(topic) : topic[j] = outbox[Order][i]
      BY DEF Known, EffectInv, LogFromTopic, InTopic
    <2>5. PICK run \in 1..Len(Runs) :
             /\ e = AbortOf(run)
             /\ \A h \in 1..Len(topic) : topic[h].planID = Runs[run] => topic[h].type # "OrderCompleted"
      BY <1>5, RecordAtHand DEF Closes
    <2>6. p = Runs[run]
      BY <2>5, AbortFields
    <2> QED
      BY <2>2, <2>3, <2>4, <2>5, <2>6
  <1> QED
    BY <1>2, <1>3, <1>4, <1>5 DEF IgnoreEvent, IgnoreAbort

(* A step that leaves the tables, and the topic but for new records.         *)
LEMMA TablesKeepFit ==
    ASSUME Known, UNCHANGED storeVars, settled \subseteq settled', Len(topic) <= Len(topic'),
           Len(topic') \in Nat, \A i \in 1..Len(topic) : topic'[i] = topic[i]
    PROVE  TablesFit' /\ HistoryStays
  <1>1. orders' = orders /\ outbox' = outbox /\ pending' = pending
    BY DEF storeVars
  <1>2. HistoryStays
    BY TablesStay DEF Known
  <1>3. Len(topic) \in Nat
    BY DEF Known, TopicInOrder
  <1>4. \A i \in 1..Len(topic) : i \in 1..Len(topic') /\ topic'[i] = topic[i]
    BY <1>3
  <1>5. NothingBuffered'
    BY <1>1 DEF Known, EffectInv, NothingBuffered, Buffered
  <1>6. LogFromTopic'
    <2> SUFFICES ASSUME NEW i \in 1..Len(outbox[Order])
                 PROVE  \E j \in 1..Len(topic') : topic'[j] = outbox[Order][i]
      BY <1>1 DEF LogFromTopic, InTopic
    <2>1. PICK j \in 1..Len(topic) : topic[j] = outbox[Order][i]
      BY DEF Known, EffectInv, LogFromTopic, InTopic
    <2> QED
      BY <1>4, <2>1
  <1>7. OwnerIsFirst'
    <2> SUFFICES ASSUME orders[Order].exists
                 PROVE  Len(topic') > 0 /\ orders[Order].planID = topic'[1].planID
      BY <1>1 DEF OwnerIsFirst
    <2>1. Len(topic) > 0 /\ orders[Order].planID = topic[1].planID
      BY DEF Known, EffectInv, OwnerIsFirst
    <2>2. 1 \in 1..Len(topic)
      BY <1>3, <2>1
    <2> QED
      BY <1>4, <2>1, <2>2
  <1>8. AbortedInTurn'
    <2> SUFFICES ASSUME Aborted(orders[Order])
                 PROVE  \E a \in 1..Len(topic') :
                           /\ topic'[a].type = AbortType /\ topic'[a].planID = orders[Order].planID
                           /\ \A i \in 1..(a - 1) : i \in settled'
      BY <1>1 DEF AbortedInTurn
    <2>1. PICK a \in 1..Len(topic) : /\ topic[a].type = AbortType /\ topic[a].planID = orders[Order].planID
                                     /\ \A i \in 1..(a - 1) : i \in settled
      BY DEF Known, EffectInv, AbortedInTurn
    <2> QED
      BY <1>4, <2>1
  <1> QED
    BY <1>2, <1>5, <1>6, <1>7, <1>8 DEF TablesFit

(* The effect invariant after a step that settles at most record k. *)
LEMMA EffectStep ==
    ASSUME Known, TablesFit', OnlyMismatch', HistoryStays, dlq \subseteq dlq',
           \A i \in 1..Len(topic) : topic'[i] = topic[i],
           NEW k, settled' \subseteq settled \cup {k},
           k \in settled' => k \in 1..Len(topic) /\ HasEffect(topic[k])'
    PROVE  EffectInv'
  <1>1. settled \subseteq 1..Len(topic)
    BY DEF Known, TopicInv
  <1>2. ASSUME NEW i \in settled' PROVE HasEffect(topic[i])'
    <2>1. CASE i \in settled
      <3>1. HasEffect(topic[i]) /\ topic'[i] = topic[i]
        BY <1>1, <2>1 DEF Known, EffectInv, SettledHaveEffect
      <3>2. PICK e : e = topic[i]
        OBVIOUS
      <3>3. HasEffect(e)'
        BY <3>1, <3>2, EffectStays
      <3> QED
        BY <3>1, <3>2, <3>3
    <2>2. CASE i = k
      BY <1>2, <2>2
    <2> QED
      BY <1>2, <2>1, <2>2
  <1>3. SettledHaveEffect'
    BY <1>2 DEF SettledHaveEffect
  <1> QED
    BY <1>3 DEF EffectInv, TablesFit

(* A transaction on the record at hand, whatever its outcome.                *)
LEMMA TransactionFits ==
    ASSUME Known, NEW k, InTurn(k),
           \/ topic[k] \in SeqEvent /\ ApplyEvent(topic[k])
           \/ topic[k] \in AbortEvent /\ AbortPlan(topic[k]),
           topic' = topic, settled \subseteq settled', dlq' = dlq
    PROVE  TablesFit' /\ HistoryStays /\ HasEffect(topic[k])'
  <1>1. HistoryStays
    BY EventHistory DEF Known
  <1>2. CASE \/ topic[k] \in SeqEvent /\ IgnoreEvent(topic[k])
             \/ topic[k] \in AbortEvent /\ IgnoreAbort(topic[k])
    <2>1. UNCHANGED storeVars /\ Len(topic) \in Nat
      BY <1>2, RecordAtHand DEF IgnoreEvent, IgnoreAbort
    <2>2. HasEffect(topic[k])
      BY <1>2, IgnoredHasEffect
    <2>3. HasEffect(topic[k])'
      <3>1. PICK e : e = topic[k]
        OBVIOUS
      <3>2. HasEffect(e)'
        BY <1>1, <2>2, <3>1, EffectStays
      <3> QED
        BY <3>1, <3>2
    <2> QED
      BY <1>1, <2>1, <2>3, TablesKeepFit
  <1>3. CASE topic[k] \in SeqEvent /\ ApplyAndDrain(topic[k])
    BY <1>1, <1>3, ApplyFits
  <1>4. CASE topic[k] \in SeqEvent /\ BufferEvent(topic[k])
    BY <1>4, NeverBuffers DEF BufferEvent
  <1>5. CASE topic[k] \in AbortEvent /\ (AbortOrder(topic[k]) \/ TombstoneOrder(topic[k]))
    BY <1>1, <1>5, AbortFits
  <1> QED
    BY <1>2, <1>3, <1>4, <1>5 DEF ApplyEvent, AbortPlan

(* No worker but c waits for another dead letter than before. *)
LEMMA CodesStay ==
    ASSUME Known, NEW c \in Workers, NEW w, worker' = [worker EXCEPT ![c] = w],
           w.code \in {NoCode, "PLAN_MISMATCH", worker[c].code}
    PROVE  OnlyMismatch'
  <1>1. worker \in [Workers -> Worker]
    BY DEF Known, TopicInv
  <1>2. \A d \in Workers : worker'[d] = IF d = c THEN w ELSE worker[d]
    BY <1>1
  <1> QED
    BY <1>2 DEF Known, EffectInv, OnlyMismatch

LEMMA SettleCode ==
    ASSUME Known, NEW c \in Workers, Settle(c)
    PROVE  OnlyMismatch'
  <1> DEFINE w == [worker[c] EXCEPT !.at = worker[c].at + 1, !.code = NoCode]
  <1>1. worker[c] \in Worker
    BY DEF Known, TopicInv
  <1>2. worker' = [worker EXCEPT ![c] = w] /\ w.code = NoCode
    BY <1>1 DEF Settle, Worker
  <1> HIDE DEF w
  <1> QED
    BY <1>2, CodesStay

LEMMA DivertCode ==
    ASSUME Known, NEW c \in Workers, NEW code \in {NoCode, "PLAN_MISMATCH"}, Divert(c, code)
    PROVE  OnlyMismatch'
  <1> DEFINE w == [worker[c] EXCEPT !.code = code]
  <1>1. worker[c] \in Worker
    BY DEF Known, TopicInv
  <1>2. worker' = [worker EXCEPT ![c] = w] /\ w.code = code
    BY <1>1 DEF Divert, Worker
  <1> HIDE DEF w
  <1> QED
    BY <1>2, CodesStay

(* handleSequenced and handleAbort.                                          *)
LEMMA HandleFits ==
    ASSUME Known, OffsetInv, NEW c \in Workers, HandleEvent(c)
    PROVE  EffectInv'
  <1>1. worker[c].at < worker[c].to /\ topic' = topic /\ dlq' = dlq
    BY DEF HandleEvent, Busy
  <1>2. PICK k : k = worker[c].at + 1 /\ InTurn(k) /\ Current(c) = topic[k]
    BY <1>1, AtHand
  <1>3. Len(topic) \in Nat
    BY <1>2, RecordAtHand
  <1>4. CASE /\ \/ topic[k] \in SeqEvent /\ ApplyEvent(topic[k])
                \/ topic[k] \in AbortEvent /\ AbortPlan(topic[k])
             /\ Settle(c)
    <2>1. settled' = settled \cup {k}
      BY <1>2, <1>4 DEF Settle
    <2>2. TablesFit' /\ HistoryStays /\ HasEffect(topic[k])'
      BY <1>1, <1>2, <1>4, <2>1, TransactionFits
    <2>3. OnlyMismatch'
      BY <1>4, SettleCode
    <2> QED
      BY <1>1, <1>2, <2>1, <2>2, <2>3, EffectStep DEF InTurn
  <1>5. CASE Divert(c, "PLAN_MISMATCH") /\ UNCHANGED storeVars
    <2>1. settled' = settled /\ OnlyMismatch'
      BY <1>5, DivertCode DEF Divert
    <2>2. TablesFit' /\ HistoryStays
      BY <1>1, <1>3, <1>5, <2>1, TablesKeepFit
    <2>3. 0 \notin settled
      BY DEF Known, TopicInv
    <2> QED
      BY <1>1, <2>1, <2>2, <2>3, EffectStep
  <1>6. ~Rejected(topic[k])
    BY <1>2, NeverRejected
  <1> QED
    BY <1>2, <1>4, <1>5, <1>6 DEF HandleEvent

(* The answer is lost: the record is in turn, again. *)
LEMMA LoseAnswerFits ==
    ASSUME Known, OffsetInv, NEW c \in Workers, LoseAnswer(c)
    PROVE  EffectInv'
  <1>1. /\ worker[c].at < worker[c].to /\ topic' = topic /\ dlq' = dlq
        /\ worker' = worker /\ settled' = settled
    BY DEF LoseAnswer, Busy
  <1>2. PICK k : k = worker[c].at + 1 /\ InTurn(k) /\ Current(c) = topic[k]
    BY <1>1, AtHand
  <1>3. TablesFit' /\ HistoryStays
    BY <1>1, <1>2, TransactionFits DEF LoseAnswer
  <1>4. OnlyMismatch' /\ 0 \notin settled
    BY <1>1 DEF Known, EffectInv, OnlyMismatch, TopicInv
  <1> QED
    BY <1>1, <1>3, <1>4, EffectStep

(* The tables, the topic and what is settled stay. *)
LEMMA NothingHandled ==
    ASSUME Known, UNCHANGED storeVars, topic' = topic, settled' = settled, dlq \subseteq dlq',
           OnlyMismatch'
    PROVE  EffectInv'
  <1>1. Len(topic) \in Nat /\ 0 \notin settled
    BY DEF Known, TopicInOrder, TopicInv
  <1>2. TablesFit' /\ HistoryStays
    BY <1>1, TablesKeepFit
  <1> QED
    BY <1>1, <1>2, EffectStep

(* A refused record is a dead letter: another plan owns the order.           *)
LEMMA SendFits ==
    ASSUME Known, OffsetInv, MismatchIsForeign, NEW c \in Workers, SendAcked(c) \/ SendFailed(c)
    PROVE  EffectInv'
  <1>1. /\ worker[c].at < worker[c].to /\ topic' = topic /\ UNCHANGED storeVars
        /\ worker[c].code # NoCode /\ dlq \subseteq dlq'
    BY DEF SendAcked, SendFailed, RetryUnsent, Busy
  <1>2. PICK k : k = worker[c].at + 1 /\ InTurn(k) /\ Current(c) = topic[k]
    BY <1>1, AtHand
  <1>3. CASE SendFailed(c)
    <2>1. settled' = settled /\ OnlyMismatch'
      BY <1>3, DivertCode DEF SendFailed, RetryUnsent, Divert
    <2> QED
      BY <1>1, <2>1, NothingHandled
  <1>4. CASE SendAcked(c)
    <2>1. /\ worker[c].code = "PLAN_MISMATCH" /\ settled' = settled \cup {k} /\ OnlyMismatch'
          /\ dlq' = dlq \cup {<<topic[k], worker[c].code>>}
      BY <1>1, <1>2, <1>4, SettleCode DEF SendAcked, Settle, Known, EffectInv, OnlyMismatch
    <2>2. orders[Order].exists /\ topic[k].planID # orders[Order].planID
      <3>1. Foreign(topic[k])
        BY <1>2, <2>1 DEF MismatchIsForeign
      <3>2. topic[k].order = Order
        BY <1>2, RecordAtHand
      <3> QED
        BY <3>1, <3>2 DEF Foreign
    <2>3. HasEffect(topic[k])'
      BY <1>1, <2>1, <2>2 DEF HasEffect, storeVars
    <2>4. Len(topic) \in Nat
      BY <1>2, RecordAtHand
    <2>5. TablesFit' /\ HistoryStays
      BY <1>1, <2>1, <2>4, TablesKeepFit
    <2> QED
      BY <1>1, <1>2, <2>1, <2>3, <2>5, EffectStep DEF InTurn
  <1> QED
    BY <1>3, <1>4

(* The sweepers find nothing to sweep. *)
LEMMA SweepsIdle ==
    ASSUME Known, SweepInv, NEW c \in Workers
    PROVE  ~SweepSelect(c) /\ ~SweepSend(c) /\ ~SweepCommit(c)
  <1>1. Buffered = {} /\ sweep[c].rows = {}
    BY DEF Known, EffectInv, NothingBuffered, SweepInv, LockedRowsStay
  <1>2. sweep[c].left \subseteq sweep[c].rows
    BY DEF SweepInv
  <1> QED
    BY <1>1, <1>2 DEF SweepSelect, SweepSend, SweepCommit, AllSent

(* The agent appends to the topic. *)
LEMMA ProduceFits ==
    ASSUME Known, NEW r, Produce(r)
    PROVE  EffectInv'
  <1>1. /\ topic' = Append(topic, r) /\ UNCHANGED storeVars /\ dlq' = dlq
        /\ worker' = worker /\ settled' = settled
    BY DEF Produce
  <1>2. /\ Len(topic) \in Nat /\ Len(topic') = Len(topic) + 1
        /\ \A i \in 1..Len(topic) : topic'[i] = topic[i]
    BY <1>1 DEF Known, TopicInOrder
  <1>3. TablesFit' /\ HistoryStays
    BY <1>1, <1>2, TablesKeepFit
  <1>4. OnlyMismatch' /\ 0 \notin settled
    BY <1>1 DEF Known, EffectInv, OnlyMismatch, TopicInv
  <1> QED
    BY <1>1, <1>2, <1>3, <1>4, EffectStep

LEMMA ProcessFits ==
    ASSUME Known, OffsetInv, SweepInv, MismatchIsForeign, NEW c \in Workers, ProcessStep(c)
    PROVE  EffectInv'
  <1>1. CASE \/ Assign(c) \/ Revoke(c) \/ PollFetches(c) \/ CommitRecords(c)
             \/ Shutdown(c) \/ Break(c) \/ Exit(c) \/ Crash(c) \/ Restart(c)
    <2>1. /\ UNCHANGED storeVars /\ topic' = topic /\ dlq' = dlq /\ settled' = settled
          /\ \E w : worker' = [worker EXCEPT ![c] = w] /\ w.code \in {NoCode, worker[c].code}
      BY <1>1, GroupCode DEF Known
    <2>2. OnlyMismatch'
      BY <2>1, CodesStay
    <2> QED
      BY <2>1, <2>2, NothingHandled
  <1>2. CASE HandleEvent(c) \/ LoseAnswer(c) \/ SendAcked(c) \/ SendFailed(c)
    BY <1>2, HandleFits, LoseAnswerFits, SendFits
  <1>3. ~HandleMalformed(c)
    <2> SUFFICES ASSUME HandleMalformed(c) PROVE FALSE
      OBVIOUS
    <2>1. worker[c].at < worker[c].to /\ Current(c) \in {Unparsable, Invalid}
      BY DEF HandleMalformed, Busy
    <2>2. PICK k : InTurn(k) /\ Current(c) = topic[k]
      BY <2>1, AtHand
    <2>3. Current(c) \in Event
      BY <2>2, RecordAtHand, AgentEventsAssumption
    <2> QED
      BY <2>1, <2>3, KindsApart
  <1>4. CASE RetryForever(c) \/ SweepFail(c)
    <2>1. UNCHANGED storeVars /\ topic' = topic /\ dlq' = dlq /\ settled' = settled /\ worker' = worker
      BY <1>4 DEF RetryForever, SweepFail, vars, consumerVars
    <2>2. OnlyMismatch'
      BY <2>1 DEF Known, EffectInv, OnlyMismatch
    <2> QED
      BY <2>1, <2>2, NothingHandled
  <1> QED
    BY <1>1, <1>2, <1>3, <1>4, SweepsIdle DEF ProcessStep

LEMMA EffectInvNext ==
    StoryInv /\ TopicInv /\ OffsetInv /\ SweepInv /\ MismatchIsForeign /\ AgentInv /\ EffectInv
    /\ [AgentNext]_allVars => EffectInv'
  <1> SUFFICES ASSUME StoryInv, TopicInv, OffsetInv, SweepInv, MismatchIsForeign, AgentInv, EffectInv,
                      [AgentNext]_allVars
               PROVE  EffectInv'
    OBVIOUS
  <1>1. Known
    BY DEF Known, AgentInv
  <1>2. ASSUME UNCHANGED vars PROVE EffectInv'
    <2>1. UNCHANGED storeVars /\ topic' = topic /\ dlq' = dlq /\ settled' = settled /\ worker' = worker
      BY <1>2 DEF vars, consumerVars
    <2>2. OnlyMismatch'
      BY <2>1 DEF EffectInv, OnlyMismatch
    <2> QED
      BY <1>1, <2>1, <2>2, NothingHandled
  <1>3. ASSUME CreateEvent \/ AbortThePlan \/ Confirm \/ PublishError \/ Rest \/ UNCHANGED allVars
        PROVE  UNCHANGED vars
    BY <1>3 DEF CreateEvent, AbortThePlan, PublishEvent, Confirm, PublishError, Rest, allVars
  <1>4. ASSUME Store PROVE EffectInv'
    BY <1>1, <1>4, ProduceFits DEF Store
  <1>5. ASSUME NEW e \in late, StoreLate(e) PROVE EffectInv'
    BY <1>1, <1>5, ProduceFits DEF StoreLate
  <1>6. ASSUME NEW c \in Workers, ProcessStep(c) PROVE EffectInv'
    BY <1>1, <1>6, ProcessFits
  <1> QED
    BY <1>2, <1>3, <1>4, <1>5, <1>6 DEF AgentNext

LEMMA EffectInvInit == AgentInit => EffectInv
  <1> SUFFICES ASSUME AgentInit PROVE EffectInv
    OBVIOUS
  <1>1. /\ StoreInit /\ worker = [c \in Workers |-> Idle("running")] /\ settled = {} /\ Order \in Orders
    BY RunsAssumption DEF AgentInit, Init
  <1>2. NothingBuffered
    BY <1>1 DEF StoreInit, NothingBuffered, Buffered
  <1>3. OnlyMismatch
    BY <1>1 DEF OnlyMismatch, Idle
  <1>4. ~orders[Order].exists /\ ~Aborted(orders[Order]) /\ outbox[Order] = <<>>
    BY <1>1 DEF StoreInit, NoOrder, Aborted
  <1> QED
    BY <1>1, <1>2, <1>3, <1>4
       DEF EffectInv, LogFromTopic, OwnerIsFirst, SettledHaveEffect, AbortedInTurn

(* What holds of the server for being Consumer. *)
LEMMA ServerKnown == AgentSpec => [](StoryInv /\ TopicInv /\ OffsetInv /\ SweepInv /\ MismatchIsForeign)
  BY AgentUsesConsumer, StoryInvariant, TopicInvariant, OffsetInvariant, SweepInvariant,
     MismatchInvariant, PTL

LEMMA EffectInvariant == AgentSpec => []EffectInv
  BY ServerKnown, AgentInvariant, EffectInvInit, EffectInvNext, PTL DEF AgentSpec

(* "um plano publicado pela metade deixaria o server esperando um evento que *)
(* nunca chega" (kafka_producer.py:68-70): it does not, for any number of    *)
(* runs, steps, workers and faults.  Whatever publish fails or comes late,   *)
(* and whatever is redelivered, no event of the agent is ever buffered.      *)
THEOREM AgentBuffersNothing == AgentSpec => []NothingBuffered
  BY EffectInvariant, PTL DEF EffectInv

-----------------------------------------------------------------------------
(* The report, once every record is settled. *)

AllSettled == \A i \in 1..Len(topic) : i \in settled

(* The whole log is its owner's. *)
LEMMA LogIsOwners ==
    ASSUME StoryInv, NEW o \in Orders
    PROVE  /\ outbox[o] \in Seq(Event) /\ LogTells(orders[o], outbox[o]) /\ orders[o].lastSeq \in Nat
           /\ Len(outbox[o]) \in Nat /\ DOMAIN outbox[o] = 1..Len(outbox[o])
           /\ \A i \in 1..Len(outbox[o]) : outbox[o][i].planID = orders[o].planID
  <1>1. outbox[o] \in Seq(Event) /\ LogTells(orders[o], outbox[o]) /\ orders[o].lastSeq \in Nat
    BY TableTypes, OrderStateFields DEF Inv, LogTellsOrder
  <1>2. \A i \in 1..Len(outbox[o]) : outbox[o][i].planID = orders[o].planID
    BY <1>1 DEF LogTells
  <1> QED
    BY <1>1, <1>2

(* What the topic has of a plan has an effect, and the log of the order that *)
(* the plan owns has nothing else.                                           *)
LEMMA PlanHasEffect ==
    ASSUME Known, AllSettled, NEW run \in 1..Len(Runs), NEW e \in EventsOf(run)
    PROVE  HasEffect(e)
  BY DEF EventsOf, AllSettled, Known, EffectInv, SettledHaveEffect

LEMMA LogIsOfPlan ==
    ASSUME Known, NEW run \in 1..Len(Runs), orders[Order].planID = Runs[run],
           NEW i \in 1..Len(outbox[Order])
    PROVE  outbox[Order][i] \in EventsOf(run)
  <1>1. Order \in Orders
    BY RunsAssumption
  <1>2. outbox[Order][i].planID = Runs[run]
    BY <1>1, LogIsOwners DEF Known
  <1>3. PICK j \in 1..Len(topic) : topic[j] = outbox[Order][i]
    BY DEF Known, EffectInv, LogFromTopic, InTopic
  <1> QED
    BY <1>2, <1>3 DEF EventsOf

(* An entry of the log with number s is the plan's event s. *)
LEMMA LogNumbers ==
    ASSUME Known, NEW run \in 1..Len(Runs), orders[Order].planID = Runs[run],
           NEW n \in 0..Len(Steps), EventsOf(run) \subseteq Numbered(run, n) \cup {AbortOf(run)},
           NEW s \in 1..orders[Order].lastSeq
    PROVE  /\ s \in 1..n /\ s \in 1..Len(Steps) /\ s \in 1..Len(outbox[Order])
           /\ outbox[Order][s] = NumberedEvent(run, s)
  <1>1. Order \in Orders
    BY RunsAssumption
  <1>2. s \in 1..Len(outbox[Order]) /\ outbox[Order][s] \in SeqEvent /\ outbox[Order][s].seqID = s
    BY <1>1, LogIsOwners DEF Known, LogTells
  <1>3. outbox[Order][s] \in Numbered(run, n) \cup {AbortOf(run)}
    BY <1>2, LogIsOfPlan
  <1>4. outbox[Order][s] # AbortOf(run)
    BY <1>2, AbortFields, KindsApart
  <1>5. PICK i \in 1..n : i \in 1..Len(Steps) /\ outbox[Order][s] = NumberedEvent(run, i)
    BY <1>3, <1>4, NumberedMembers
  <1>6. i = s
    BY <1>2, <1>5, NumberedFields
  <1> QED
    BY <1>2, <1>5, <1>6

(* A completed plan is applied to its end. *)
LEMMA CompletedAgrees ==
    ASSUME Known, AllSettled, NEW r, NEW run \in 1..Len(Runs), Completed(r, run),
           r.plan = Runs[run], orders[Order].exists, orders[Order].planID = Runs[run]
    PROVE  Agrees(r)
  <1> USE StepsAssumption
  <1> DEFINE st == orders[Order]
             log == outbox[Order]
             n == Len(Steps)
  <1>1. Order \in Orders /\ EventsOf(run) = Numbered(run, n) /\ n \in 1..n /\ n \in 0..n
    BY RunsAssumption DEF Completed
  <1>2. /\ log \in Seq(Event) /\ LogTells(st, log) /\ st.lastSeq \in Nat
        /\ DOMAIN log = 1..Len(log) /\ Len(log) \in Nat
    BY <1>1, LogIsOwners DEF Known
  <1>3. ~Aborted(st)
    <2>1. SUFFICES ASSUME Aborted(st) PROVE FALSE
      OBVIOUS
    <2>2. PICK a \in 1..Len(topic) : topic[a].type = AbortType /\ topic[a].planID = Runs[run]
      BY <2>1 DEF Known, EffectInv, AbortedInTurn
    <2>3. topic[a] \in Numbered(run, n)
      BY <1>1, <2>2 DEF EventsOf
    <2>4. PICK i \in 1..n : topic[a] = NumberedEvent(run, i)
      BY <1>1, <2>3, NumberedMembers
    <2> QED
      BY <2>2, <2>4, NumberedFields
  <1>4. n <= st.lastSeq
    <2>1. NumberedEvent(run, n) \in EventsOf(run)
      BY <1>1 DEF Numbered
    <2>2. HasEffect(NumberedEvent(run, n))
      BY <2>1, PlanHasEffect
    <2>3. Told(Order, Runs[run], n)
      BY <1>1, <2>2, NumberedFields DEF HasEffect
    <2> QED
      BY <1>1, <1>3, <2>3, ToldIsPast DEF Known
  <1>5. \A s \in 1..st.lastSeq : s \in 1..n /\ s \in 1..Len(log) /\ log[s] = NumberedEvent(run, s)
    BY <1>1, LogNumbers
  <1>6. st.lastSeq = n
    <2>1. st.lastSeq \in 1..st.lastSeq
      BY <1>1, <1>2, <1>4
    <2>2. st.lastSeq <= n
      BY <1>5, <2>1
    <2> QED
      BY <1>1, <1>2, <1>4, <2>2
  <1>7. Len(log) = n
    BY <1>2, <1>3, <1>6 DEF LogTells
  <1>8. \A s \in 1..n : log[s].type = Steps[s]
    BY <1>5, <1>6, NumberedFields
  <1>9. [i \in DOMAIN log |-> log[i].type] = Steps
    BY <1>2, <1>7, <1>8
  <1>10. st.status = "completed"
    <2>1. st.status = StatusFromEventType(log[n].type)
      BY <1>2, <1>3, <1>6 DEF LogTells
    <2>2. log[n].type = "OrderCompleted"
      BY <1>1, <1>8
    <2>3. StatusFromEventType("OrderCompleted") = "completed"
      BY DEF StatusFromEventType, AbortType
    <2> QED
      BY <2>1, <2>2, <2>3
  <1> QED
    BY <1>1, <1>6, <1>9, <1>10 DEF Agrees, Completed, Owns

(* An aborted plan is applied up to its abort. *)
LEMMA AbortedAgrees ==
    ASSUME Known, AllSettled, NEW r, NEW run \in 1..Len(Runs), WasAborted(r, run),
           r.plan = Runs[run], orders[Order].exists, orders[Order].planID = Runs[run]
    PROVE  Agrees(r)
  <1> USE StepsAssumption
  <1> DEFINE st == orders[Order]
             log == outbox[Order]
             n == r.lastSeq
  <1>1. Order \in Orders /\ EventsOf(run) = Numbered(run, n) \cup {AbortOf(run)} /\ n \in 0..Len(Steps)
        /\ n \in Nat
    BY RunsAssumption DEF WasAborted, Abortable
  <1>2. /\ log \in Seq(Event) /\ LogTells(st, log) /\ st.lastSeq \in Nat
        /\ DOMAIN log = 1..Len(log) /\ Len(log) \in Nat
    BY <1>1, LogIsOwners DEF Known
  <1>3. Aborted(st)
    <2>1. HasEffect(AbortOf(run))
      BY <1>1, PlanHasEffect
    <2> QED
      BY <2>1, AbortFields DEF HasEffect
  <1>4. \A s \in 1..st.lastSeq : s \in 1..n /\ s \in 1..Len(Steps) /\ log[s] = NumberedEvent(run, s)
    BY <1>1, LogNumbers
  <1>5. st.lastSeq > 0 => Len(log) = st.lastSeq + 1 /\ log[Len(log)] \in AbortEvent
    BY <1>2, <1>3 DEF LogTells
  <1>6. st.lastSeq = 0 => Len(log) = 0
    BY <1>2 DEF LogTells
  <1>7. n <= st.lastSeq
    <2> SUFFICES ASSUME n > 0 PROVE n <= st.lastSeq
      BY <1>1, <1>2
    <2>1. n \in 1..n /\ n \in 1..Len(Steps)
      BY <1>1
    <2>2. HasEffect(NumberedEvent(run, n))
      BY <1>1, <2>1, PlanHasEffect DEF Numbered
    <2>3. Told(Order, Runs[run], n)
      BY <2>1, <2>2, NumberedFields DEF HasEffect
    <2>4. PICK i \in 1..Len(log) : log[i].seqID = n
      BY <2>3 DEF Told
    <2>5. i \in 1..st.lastSeq
      <3>1. st.lastSeq > 0
        BY <1>2, <1>6, <2>4
      <3>2. i # Len(log)
        BY <1>5, <2>4, <3>1 DEF AbortEvent
      <3> QED
        BY <1>2, <1>5, <3>1, <3>2
    <2>6. log[i].seqID = i
      BY <1>2, <2>5 DEF LogTells
    <2> QED
      BY <1>2, <2>4, <2>5, <2>6
  <1>8. st.lastSeq = n
    <2>1. st.lastSeq <= n
      BY <1>1, <1>2, <1>4
    <2> QED
      BY <1>1, <1>2, <1>7, <2>1
  <1>9. [i \in DOMAIN log |-> log[i].type] = IF n = 0 THEN <<>> ELSE r.events
    <2>1. CASE n = 0
      BY <1>2, <1>6, <1>8, <2>1
    <2>2. CASE n # 0
      <3>1. Len(log) = n + 1 /\ log[n + 1].type = AbortType
        BY <1>1, <1>5, <1>8, <2>2 DEF AbortEvent
      <3>2. \A s \in 1..n : log[s].type = Steps[s]
        BY <1>4, <1>8, NumberedFields
      <3>3. Prefix(n) \in Seq(SequencedType) /\ Len(Prefix(n)) = n
        BY <1>1, PrefixSteps
      <3>4. \A s \in 1..n : Prefix(n)[s] = Steps[s]
        BY DEF Prefix
      <3> DEFINE types == Append(Prefix(n), AbortType)
      <3>5. /\ types \in Seq(SequencedType \cup {AbortType}) /\ Len(types) = n + 1
            /\ types[n + 1] = AbortType /\ \A s \in 1..n : types[s] = Prefix(n)[s]
        BY <1>1, <3>3
      <3>6. r.events = types
        BY DEF WasAborted
      <3> HIDE DEF types
      <3>7. \A s \in 1..(n + 1) : log[s].type = types[s]
        <4> SUFFICES ASSUME NEW s \in 1..(n + 1) PROVE log[s].type = types[s]
          OBVIOUS
        <4>1. CASE s = n + 1
          BY <3>1, <3>5, <4>1
        <4>2. CASE s # n + 1
          <5>1. s \in 1..n
            BY <1>1, <4>2
          <5> QED
            BY <3>2, <3>4, <3>5, <5>1
        <4> QED
          BY <4>1, <4>2
      <3>8. types = [i \in 1..(n + 1) |-> types[i]]
        BY <3>5
      <3>9. [i \in DOMAIN log |-> log[i].type] = types
        BY <1>2, <3>1, <3>7, <3>8
      <3> QED
        BY <2>2, <3>6, <3>9
    <2> QED
      BY <2>1, <2>2
  <1>10. st.status = "aborted" /\ r.outcome = "aborted"
    BY <1>3 DEF Aborted, WasAborted
  <1> QED
    BY <1>8, <1>9, <1>10 DEF Agrees, Owns

(* A plan that came second has no part in the order.                         *)
LEMMA SecondIsRefused ==
    ASSUME Known, AllSettled, NEW r, orders[Order].exists, orders[Order].planID # r.plan
    PROVE  RefusedWhole(r)
  <1>1. Order \in Orders /\ DOMAIN topic = 1..Len(topic)
    BY RunsAssumption DEF Known, TopicInOrder
  <1>2. ASSUME NEW i \in 1..Len(topic), topic[i].planID = r.plan
        PROVE  <<topic[i], "PLAN_MISMATCH">> \in dlq
    <2>1. HasEffect(topic[i])
      BY DEF AllSettled, Known, EffectInv, SettledHaveEffect
    <2> QED
      BY <1>2, <2>1 DEF HasEffect
  <1>3. \A i \in DOMAIN outbox[Order] : outbox[Order][i].planID # r.plan
    BY <1>1, LogIsOwners DEF Known
  <1> QED
    BY <1>1, <1>2, <1>3 DEF RefusedWhole

LEMMA ReportHolds ==
    ASSUME Known, AgentInv
    PROVE  ReportAgrees
  <1>1. DOMAIN topic = 1..Len(topic)
    BY DEF Known, TopicInOrder
  <1> SUFFICES ASSUME AllSettled, NEW r \in report
               PROVE  IF topic[1].planID = r.plan THEN Agrees(r) ELSE RefusedWhole(r)
    BY <1>1 DEF ReportAgrees, AllSettled
  <1>2. PICK run \in 1..Len(Runs) : r.plan = Runs[run] /\ (Completed(r, run) \/ WasAborted(r, run))
    BY DEF AgentInv, ReportOK
  <1>3. \E e : e \in EventsOf(run)
    <2>1. CASE Completed(r, run)
      <3>1. Len(Steps) \in 1..Len(Steps)
        BY StepsAssumption
      <3> QED
        BY <2>1, <3>1 DEF Completed, Numbered
    <2>2. CASE WasAborted(r, run)
      BY <2>2 DEF WasAborted
    <2> QED
      BY <1>2, <2>1, <2>2
  <1>4. orders[Order].exists /\ orders[Order].planID = topic[1].planID
    <2>1. orders[Order].exists
      BY <1>3, PlanHasEffect DEF HasEffect
    <2> QED
      BY <2>1 DEF Known, EffectInv, OwnerIsFirst
  <1> QED
    BY <1>2, <1>4, CompletedAgrees, AbortedAgrees, SecondIsRefused

(* What scripts/check_agent_outcomes.py expects of the order of every plan   *)
(* in the agent's report, for any number of runs, steps, workers and faults: *)
(* once the records are settled the order is in the state that the report    *)
(* says and has the notifications that it says, or it belongs to the plan of *)
(* an earlier run and the reported one has had no effect at all.             *)
THEOREM ReportsAgree == AgentSpec => []ReportAgrees
  <1>1. AgentInv /\ EffectInv /\ StoryInv /\ TopicInv => ReportAgrees
    BY ReportHolds DEF Known, AgentInv
  <1> QED
    BY <1>1, AgentInvariant, EffectInvariant, ServerKnown, PTL
=============================================================================
