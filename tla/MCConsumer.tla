----------------------------- MODULE MCConsumer -----------------------------
(* One order that two plans claim; the topic takes a few of these records.  *)
EXTENDS Consumer, TLC

CONSTANTS o1, p1, p2, w1, w2

MCOrders == {o1}
MCPlans  == {p1, p2}
MCTypes  == {"OrderCreated", "OrderCompleted"}
MCData   == {"plain", "amount"}

Created(p, seq)   == [order |-> o1, planID |-> p, type |-> "OrderCreated",   seqID |-> seq, data |-> "plain"]
Completed(p, seq) == [order |-> o1, planID |-> p, type |-> "OrderCompleted", seqID |-> seq, data |-> "plain"]
Overflow(p, seq)  == [Completed(p, seq) EXCEPT !.data = "amount"]
Abort(p)          == [order |-> o1, planID |-> p, type |-> AbortType, seqID |-> 0, data |-> "plain"]

(* A plan, its abort, and a plan that claims the same order. *)
PlanInputs == {Created(p1, 1), Completed(p1, 2), Abort(p1), Created(p2, 1)}

(* Records of every fate: applied, buffered, mismatched, malformed, rejected. *)
MixedInputs == {Created(p1, 1), Completed(p1, 2), Overflow(p1, 1), Created(p2, 1),
                Created(p1, MaxInt + 1), Unparsable, Invalid}

(* A buffered successor that orders rejects, and its predecessor. *)
OverflowInputs == {Created(p1, 1), Overflow(p1, 2)}

(* An event whose number no INTEGER column holds, and one after it. *)
WideInputs == {Created(p1, 1), Created(p1, MaxInt + 1)}

(* A bound on what is produced: every record once.  A redelivered record is *)
(* handled as a second copy is; MCConsumerLive has copies as well.          *)
NoDuplicates == \A i, j \in DOMAIN topic : topic[i] = topic[j] => i = j

(* The two workers run the same program. *)
WorkerSymmetry == Permutations(Workers)
=============================================================================
