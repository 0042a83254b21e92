----------------------------- MODULE Sequencing -----------------------------
(***************************************************************************)
(* The ordering rules of server/internal/sequencing: what an event does to *)
(* the order it names, given the persisted state of that order.  Pure      *)
(* operators, like the Go package: the transaction that applies the        *)
(* outcome is OrderStore.                                                  *)
(***************************************************************************)
EXTENDS Integers

Outcome == {"APPLY", "DUPLICATE", "BUFFER", "DISCARD", "PLAN_MISMATCH", "TOMBSTONE"}

(* The event types a plan numbers with seq_id, and the one it does not. *)
SequencedType == {"OrderCreated", "InventoryValidated", "PaymentProcessed",
                  "OrderShipped", "OrderCompleted"}
AbortType == "ABORT_PLAN"

(* The CHECK list of orders.status without 'cancelled', which no code writes. *)
Status == {"pending", "inventory_validated", "payment_processed", "shipped",
           "completed", "aborted"}

(* Mutant: the case of the last event of a plan is missing. *)
StatusWithoutCompleted(type) ==
    CASE type = "OrderCreated"       -> "pending"
      [] type = "InventoryValidated" -> "inventory_validated"
      [] type = "PaymentProcessed"   -> "payment_processed"
      [] type = "OrderShipped"       -> "shipped"
      [] OTHER                       -> ""

StatusFromEventType(type) ==
    CASE type = "OrderCreated"       -> "pending"
      [] type = "InventoryValidated" -> "inventory_validated"
      [] type = "PaymentProcessed"   -> "payment_processed"
      [] type = "OrderShipped"       -> "shipped"
      [] type = "OrderCompleted"     -> "completed"
      [] type = AbortType            -> "aborted"
      [] OTHER                       -> ""

(* The zero value of OrderState: an order that has no row. *)
NoOrder == [exists |-> FALSE, planID |-> "", lastSeq |-> 0, status |-> ""]

Owns(s, planID) == s.exists /\ s.planID = planID
Aborted(s)      == s.exists /\ s.status = "aborted"

-----------------------------------------------------------------------------
(* Mutants of the rules below (PROJECT.json, "mutants"). *)

(* Takes every number up to the next one for the next one. *)
DecideWithoutDuplicates(s, planID, seq) ==
    IF ~s.exists THEN IF seq = 1 THEN "APPLY" ELSE "BUFFER"
    ELSE IF s.planID # planID THEN "PLAN_MISMATCH"
    ELSE IF s.status = "aborted" THEN "DISCARD"
    ELSE IF seq <= s.lastSeq + 1 THEN "APPLY" ELSE "BUFFER"

(* Looks at the sequence number and never at the abort. *)
DecideIgnoringAbort(s, planID, seq) ==
    IF ~s.exists THEN IF seq = 1 THEN "APPLY" ELSE "BUFFER"
    ELSE IF s.planID # planID THEN "PLAN_MISMATCH"
    ELSE IF seq <= s.lastSeq THEN "DUPLICATE"
    ELSE IF seq = s.lastSeq + 1 THEN "APPLY" ELSE "BUFFER"

(* Gives an aborted order to the next plan that claims it. *)
DecideReusingAborted(s, planID, seq) ==
    IF ~s.exists \/ (s.planID # planID /\ s.status = "aborted")
    THEN IF seq = 1 THEN "APPLY" ELSE "BUFFER"
    ELSE IF s.planID # planID THEN "PLAN_MISMATCH"
    ELSE IF s.status = "aborted" THEN "DISCARD"
    ELSE IF seq <= s.lastSeq THEN "DUPLICATE"
    ELSE IF seq = s.lastSeq + 1 THEN "APPLY" ELSE "BUFFER"

-----------------------------------------------------------------------------
(* What to do with sequenced event number seq of planID. *)
Decide(s, planID, seq) ==
    IF ~s.exists THEN IF seq = 1 THEN "APPLY" ELSE "BUFFER"
    ELSE IF s.planID # planID THEN "PLAN_MISMATCH"
    ELSE IF s.status = "aborted" THEN "DISCARD"
    ELSE IF seq <= s.lastSeq THEN "DUPLICATE"
    ELSE IF seq = s.lastSeq + 1 THEN "APPLY" ELSE "BUFFER"

(* What to do with an ABORT_PLAN of planID. *)
DecideAbort(s, planID) ==
    IF ~s.exists THEN "TOMBSTONE"
    ELSE IF s.planID # planID THEN "PLAN_MISMATCH"
    ELSE IF s.status = "aborted" THEN "DUPLICATE"
    ELSE IF s.status = "completed" THEN "DISCARD" ELSE "APPLY"
=============================================================================
