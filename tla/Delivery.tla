------------------------------ MODULE Delivery ------------------------------
(***************************************************************************)
(* What the Tokio helpers promise together: the pieces of text that the    *)
(* producer's side has accepted reach the other side once each and in      *)
(* order, in portions of any size, and as long as that side is there they  *)
(* all reach it (README.md, "Goal: keep all text").                        *)
(***************************************************************************)
EXTENDS Integers, Sequences

CONSTANT Piece

VARIABLES
  accepted,   \* the pieces that send has not refused
  delivered,  \* those that the other side has received
  open        \* the other side is there

dvars == <<accepted, delivered, open>>

Init == accepted = <<>> /\ delivered = <<>> /\ open = TRUE

Accept ==
  /\ \E p \in Piece : accepted' = Append(accepted, p)
  /\ UNCHANGED <<delivered, open>>

Deliver ==
  /\ open = TRUE
  /\ \E n \in Len(delivered) + 1 .. Len(accepted) :
       delivered' = SubSeq(accepted, 1, n)
  /\ UNCHANGED <<accepted, open>>

Leave ==
  /\ open = TRUE
  /\ open' = FALSE
  /\ UNCHANGED <<accepted, delivered>>

Next == Accept \/ Deliver \/ Leave

Spec == Init /\ [][Next]_dvars /\ WF_dvars(Deliver)
=============================================================================
