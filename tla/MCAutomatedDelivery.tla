------------------------ MODULE MCAutomatedDelivery ------------------------
(* Instances of AutomatedDelivery for TLC.                                 *)
EXTENDS AutomatedDelivery, TLC

\* A reply of Hermes in n + 1 parts, from the turn worker.
Reply(n) == [kind |-> "HERMES_REPLY", last |-> n, allow |-> FALSE,
             turn |-> TRUE, recover |-> TRUE]

\* A system notice, prepared without looking for an earlier batch.
Notice(allow) == [kind |-> "SYSTEM_NOTICE", last |-> 0, allow |-> allow,
                  turn |-> FALSE, recover |-> FALSE]

Notices == {Notice(TRUE), Notice(FALSE)}
Replies == {Reply(1)}

(* The steps of notices: they are sent without looking for an earlier batch,  *)
(* here no answer is a 429, and the transaction of the lock lives as long as  *)
(* its batch.  (DeliverySales is about replies, which may meet all three.)    *)
NoticeStep(w) ==
  \/ PreparePart(w) \/ LockBatch(w) \/ BatchDone(w) \/ BatchBlocked(w)
  \/ ClaimRefused(w) \/ Suppress(w) \/ Claim(w) \/ Dispatch(w)
  \/ CheckClaim(w) \/ Confirm(w) \/ ConfirmFails(w) \/ NoAnswer(w) \/ Rejected(w)

NoticesNext ==
  \/ \E w \in Worker : NoticeStep(w) \/ Crash(w)
  \/ \E q \in wire : MetaAccepts(q) \/ MetaRejects(q)
  \/ Tick \/ RecoverExpired
  \/ \E w \in Worker, m \in Message, r \in Request : Begin(w, m, r)
  \/ CrmStep

NoticesSpec == Init /\ [][NoticesNext]_vars /\ Fairness

WorkerSymmetry == Permutations(Worker)
=============================================================================
