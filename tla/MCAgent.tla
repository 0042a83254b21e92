------------------------------- MODULE MCAgent -------------------------------
(* A run of the agent, and the one after it if it fails; plans of three steps, *)
(* one of which can fail.                                                      *)
EXTENDS Agent, TLC

CONSTANTS o1, p1, p2, w1, w2

MCOrders == {o1}
MCPlans  == {p1, p2}
MCRuns   == <<p1, p2>>
MCSteps  == <<"OrderCreated", "PaymentProcessed", "OrderCompleted">>

WorkerSymmetry == Permutations(Workers)
=============================================================================
