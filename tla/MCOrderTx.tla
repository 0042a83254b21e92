------------------------------ MODULE MCOrderTx ------------------------------
(* One order, the plan that owns it and one that claims it, two connections. *)
EXTENDS OrderTx, TLC

CONSTANTS o1, p1, p2, t1, t2, lower, upper

MCOrders == {o1}
MCPlans  == {p1, p2}
MCTypes  == {"OrderCreated", "OrderCompleted"}
MCData   == {"plain", "amount", "nul"}

Request(p, type, seq, data) == [order |-> o1, planID |-> p, type |-> type, seqID |-> seq, data |-> data]

(* Events of every fate, those that a constraint or the driver rejects too. *)
MCRequests ==
    {Request(p1, type, s, "plain") : type \in MCTypes, s \in 1..(MaxInt + 1)}
    \cup {Request(p1, "OrderCompleted", 2, "amount"), Request(p1, "OrderCompleted", 2, "nul")}
    \cup {Request(p2, "OrderCreated", s, "plain") : s \in 1..2}
    \cup {Request(p, AbortType, 0, "plain") : p \in Plans} \cup {Request(p1, AbortType, 0, "nul")}

(* Two spellings of the same event. *)
RaceRequests == {Request(p1, "OrderCreated", 1, "plain"), Request(p1, "OrderCompleted", 2, "plain")}

Symmetry == Permutations(Txns)
=============================================================================
