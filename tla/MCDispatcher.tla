---------------------------- MODULE MCDispatcher ----------------------------
(* A few orders, one or two processes.  A tick is the time bookkeeping has   *)
(* (5 s).  Where a batch is through within a lease, the lease is five ticks   *)
(* and a request takes up to two (10 s); where it is not, as with the         *)
(* defaults (50 entries over 4 slots, 60 s), three ticks and one.             *)
EXTENDS Dispatcher, TLC

CONSTANTS o1, o2, o3, s1, s2

(* The processes run the same program, and so do the orders. *)
Symmetry == Permutations(Procs) \cup Permutations(Aggregates)
=============================================================================
