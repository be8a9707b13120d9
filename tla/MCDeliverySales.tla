--------------------------- MODULE MCDeliverySales ---------------------------
(* Two things a conversation's advisory lock is taken for, next to locks of  *)
(* other rows: to deliver its replies, and to move its sale.  Nothing else   *)
(* is shared: a behaviour is of one of them, the other does not move.        *)
EXTENDS MCAutomatedDelivery, SalesPipeline

VARIABLE subject

MCInit == subject \in {"delivery", "sale"} /\ Init /\ SalesInit

MCNext ==
  /\ UNCHANGED subject
  /\ \/ subject = "delivery" /\ Next /\ UNCHANGED salesVars
     \/ subject = "sale" /\ SalesNext /\ UNCHANGED vars

MCSpec == MCInit /\ [][MCNext]_<<vars, salesVars, subject>>

Symmetric == WorkerSymmetry
==============================================================================
