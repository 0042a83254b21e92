------------------------------ MODULE MCGateway ------------------------------
(* One order, whose second event may come before the first, and its abort. *)
EXTENDS Gateway, TLC

CONSTANTS o1, p1, d1, d2

MCOrders == {o1}

MCEvent(type, seq) == [order |-> o1, planID |-> p1, type |-> type, seqID |-> seq, data |-> "plain"]
MCRequests == {MCEvent("OrderCreated", 1), MCEvent("OrderShipped", 2), MCEvent("ABORT_PLAN", 0)}
=============================================================================
