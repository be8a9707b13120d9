--------------------------- MODULE DeliveryPromise ---------------------------
(***************************************************************************)
(* What the automated delivery ledger promises to the rest of the system,  *)
(* with no workers, claims, leases or network in it: every part of a reply *)
(* reaches the customer at most once, in the order of the parts, and once  *)
(* its fate is settled the recorded fate is final and never a lie, except  *)
(* that "unknown" may still become "sent".                                 *)
(***************************************************************************)
EXTENDS Naturals

CONSTANTS
  Key,           \* the parts that can be delivered
  Before(_, _)   \* Before(j, k): part j precedes part k in the same reply

VARIABLES
  fate,      \* what the system says happened to each part
  received   \* how many times the customer received each part

vars == <<fate, received>>

Fate == {"none", "open", "sent", "notSent", "unknown"}

Init ==
  /\ fate = [k \in Key |-> "none"]
  /\ received = [k \in Key |-> 0]

\* A part of a reply is written down.
Open(k) ==
  /\ fate[k] = "none"
  /\ fate' = [fate EXCEPT ![k] = "open"]
  /\ UNCHANGED received

(***************************************************************************)
(* The customer receives a part: only once, only while its fate is open or *)
(* honestly unknown, and only after every earlier part is known sent.      *)
(***************************************************************************)
Receive(k) ==
  /\ fate[k] \in {"open", "unknown"}
  /\ received[k] = 0
  /\ \A j \in Key : Before(j, k) => fate[j] = "sent"
  /\ received' = [received EXCEPT ![k] = 1]
  /\ UNCHANGED fate

\* A part given up as unknown may still turn out to be sent.
SettleSent(k) ==
  /\ fate[k] \in {"open", "unknown"}
  /\ received[k] = 1
  /\ fate' = [fate EXCEPT ![k] = "sent"]
  /\ UNCHANGED received

SettleNotSent(k) ==
  /\ fate[k] = "open"
  /\ received[k] = 0
  /\ fate' = [fate EXCEPT ![k] = "notSent"]
  /\ UNCHANGED received

\* Several parts may be given up together.
SettleUnknown(K) ==
  /\ \A k \in K : fate[k] = "open"
  /\ fate' = [k \in Key |-> IF k \in K THEN "unknown" ELSE fate[k]]
  /\ UNCHANGED received

Next ==
  \/ \E K \in SUBSET Key : SettleUnknown(K)
  \/ \E k \in Key : Open(k) \/ Receive(k) \/ SettleSent(k) \/ SettleNotSent(k)

Spec == Init /\ [][Next]_vars
=============================================================================
