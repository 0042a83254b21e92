----------------------------- MODULE OrderLedger -----------------------------
(***************************************************************************)
(* What the gateway promises about one order, without buffers, retries or  *)
(* transactions (README.md of the repository, the guarantees of the event  *)
(* flow): downstream is told the story of each order as an append-only log *)
(* of one plan's events 1, 2, 3, ..., which an abort closes for good.      *)
(***************************************************************************)
EXTENDS Integers, Sequences

CONSTANTS Orders, Plans, SeqEvent, AbortEvent

NoPlan == ""

VARIABLES
    log,     \* log[o]: what downstream is told of order o, in order
    owner,   \* owner[o]: the plan the order belongs to, or NoPlan
    closed   \* closed[o]: aborted, so nothing is ever added again

ledger == <<log, owner, closed>>

Init ==
    /\ log    = [o \in Orders |-> <<>>]
    /\ owner  = [o \in Orders |-> NoPlan]
    /\ closed = [o \in Orders |-> FALSE]

(* Entry i of a log is event number i of plan p. *)
IsEntry(entry, p, i) == entry \in SeqEvent /\ entry.planID = p /\ entry.seqID = i

(* The plan may write to the order: it owns it, or nobody does yet. *)
MayWrite(o, p) == ~closed[o] /\ owner[o] \in {NoPlan, p}

(* The log of o grows, by one entry or by several, with the next events of p. *)
Extend(o, p) ==
    /\ MayWrite(o, p)
    /\ log' = [log EXCEPT ![o] = log'[o]]
    /\ Len(log'[o]) > Len(log[o])
    /\ \A i \in 1..Len(log[o]) : log'[o][i] = log[o][i]
    /\ \A i \in (Len(log[o]) + 1)..Len(log'[o]) : IsEntry(log'[o][i], p, i)
    /\ owner' = [owner EXCEPT ![o] = p]
    /\ UNCHANGED closed

(* p aborts its order unless the last thing downstream heard is that it is    *)
(* complete; an order nobody heard of is closed without a word.               *)
Close(o, p) ==
    /\ MayWrite(o, p)
    /\ IF log[o] = <<>>
       THEN UNCHANGED log
       ELSE /\ log[o][Len(log[o])].type # "OrderCompleted"
            /\ \E a \in AbortEvent : a.planID = p /\ log' = [log EXCEPT ![o] = Append(@, a)]
    /\ owner'  = [owner EXCEPT ![o] = p]
    /\ closed' = [closed EXCEPT ![o] = TRUE]

Next == \E o \in Orders, p \in Plans : Extend(o, p) \/ Close(o, p)

Spec == Init /\ [][Next]_ledger
=============================================================================
