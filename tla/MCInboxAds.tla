------------------------------ MODULE MCInboxAds ------------------------------
(* Two rows that a scan keeps bringing back until they are dealt with: an     *)
(* event of Meta (WebhookInbox) and a conversion for Google                   *)
(* (AdvertisingOutbox).  A behaviour is of one of them; the other does not    *)
(* move, and none of its fair actions is enabled in its first state.          *)
EXTENDS WebhookInbox, AdvertisingOutbox

CONSTANT u1

VARIABLE way

OneUser == [a \in Operator |-> u1]

SomeSettings == CHOOSE s \in Settings : s.on /\ s.sync

MCInit ==
  /\ way \in {"in", "out"}
  /\ Init /\ AdInit
  /\ way = "in" => settings = SomeSettings /\ \A t \in Touch : consent[t]

MCNext ==
  /\ UNCHANGED way
  /\ \/ way = "in" /\ Next /\ UNCHANGED adVars
     \/ way = "out" /\ AdNext /\ UNCHANGED vars

MCSpec == MCInit /\ [][MCNext]_<<vars, adVars, way>> /\ Fairness /\ AdFairness
===============================================================================
