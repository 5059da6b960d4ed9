---------------------------- MODULE FileDelivery ----------------------------
(***************************************************************************)
(* What the user of the receiving tab is promised: a batch is announced,   *)
(* its files arrive whole and in the announced order, and the batch ends   *)
(* either complete or cancelled.  Only if the sending user has abandoned   *)
(* the page may it be called complete before the last file is there.       *)
(***************************************************************************)
EXTENDS Naturals, Sequences

CONSTANTS Batch, NoBatch

VARIABLES announced, delivered, outcome, abandoned

Init ==
    /\ announced = NoBatch
    /\ delivered = <<>>
    /\ outcome = "none"
    /\ abandoned = FALSE

Announce ==
    /\ announced = NoBatch /\ outcome = "none"
    /\ announced' \in {Batch, <<>>}
    /\ announced' = <<>> => abandoned
    /\ UNCHANGED <<delivered, outcome, abandoned>>

Deliver ==
    /\ announced # NoBatch /\ outcome = "none"
    /\ Len(delivered) < Len(announced)
    /\ delivered' = Append(delivered, announced[Len(delivered) + 1])
    /\ UNCHANGED <<announced, outcome, abandoned>>

Complete ==
    /\ announced # NoBatch /\ outcome = "none"
    /\ delivered = announced \/ abandoned
    /\ outcome' = "complete"
    /\ UNCHANGED <<announced, delivered, abandoned>>

Cancel ==
    /\ outcome = "none"
    /\ outcome' = "cancelled"
    /\ UNCHANGED <<announced, delivered, abandoned>>

Abandon ==
    /\ abandoned' = TRUE
    /\ UNCHANGED <<announced, delivered, outcome>>

Next == Announce \/ Deliver \/ Complete \/ Cancel \/ Abandon

Spec == Init /\ [][Next]_<<announced, delivered, outcome, abandoned>>
=============================================================================
