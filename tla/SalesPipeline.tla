----------------------------- MODULE SalesPipeline -----------------------------
(***************************************************************************)
(* From a lead to a sale paid by transfer (payments/payments.service.ts,   *)
(* leads/leads.service.ts and the commercial part of handoff.service.ts).  *)
(*                                                                         *)
(* One customer: one contact, one lead, one conversation.  Turns of Hermes *)
(* send the bank's data, record what the customer said and ask for people; *)
(* webhook handlers take images for proofs; operators review transfers and *)
(* move the lead in the pipeline.                                          *)
(*                                                                         *)
(* The lead is written under three kinds of locks that do not exclude one  *)
(* another: the conversation's, the contact's and a transfer's.  So a      *)
(* transaction is two actions: it reads (and takes its lock), and later    *)
(* its writes appear, by id and from what it read.  Reads no other step    *)
(* can come between, or can change, are part of the action that writes.    *)
(***************************************************************************)
EXTENDS Naturals

CONSTANTS
  Payment,      \* bound: so many transfers are asked for
  Proof,        \* images and documents the customer sends
  Turn,         \* Hermes' turns, at the same time
  Hook,         \* webhook handlers, at the same time
  Operator,     \* operators' requests, at the same time
  NoPayment, Nobody

ASSUME ActorsAssumption ==
  /\ Nobody \notin Turn \union Hook \union Operator
  /\ Turn \cap Hook = {} /\ Turn \cap Operator = {} /\ Hook \cap Operator = {}
ASSUME PaymentsAssumption ==
  Payment # {} /\ Proof # {} /\ NoPayment \notin Payment
  /\ Payment \cap {"conversation", "contact"} = {}

VARIABLES
  stage,          \* Lead.stage
  milestones,     \* AdvertisingConversion rows of the lead, by event type
  transfer,       \* TransferPayment.status
  proofOf,        \* TransferPaymentProofMessage: the transfer of each message
  verification,   \* the open task of type PAYMENT_VERIFICATION, if any
  locks,          \* advisory locks of the conversation, the contact, transfers
  step,           \* per actor: what its transaction is about to write
  seen,           \* per actor: the stage it read
  to,             \* per operator: the stage it asked for
  about, found,   \* per actor: the transfer it works on, the status it read
  proof           \* per handler: the message it looks at

rows == <<stage, milestones, transfer, proofOf, verification>>
reading == <<step, seen, to, about, found, proof>>
salesVars == <<rows, locks, reading>>

Actor == Turn \union Hook \union Operator
Lockable == Payment \union {"conversation", "contact"}

Stage == {"NEW", "CONTACTED", "QUALIFIED", "PROPOSAL", "NEGOTIATION",
          "PAYMENT_PENDING", "PAYMENT_REVIEW", "WON", "LOST"}
Milestone == {"LEAD_QUALIFIED", "CONTRACT_WON", "CONTRACT_LOST"}
Instructed == {"INSTRUCTIONS_PREPARED", "INSTRUCTIONS_SENT"}
Review == {"PROOF_RECEIVED", "UNDER_REVIEW"}
Open == Instructed \union Review
Decided == {"APPROVED", "REJECTED"}
RequestStages == {"QUALIFIED", "PROPOSAL", "NEGOTIATION", "PAYMENT_PENDING"}
Promotable == {"NEW", "CONTACTED"}

\* ALLOWED_STAGE_TRANSITIONS: none from PAYMENT_REVIEW, WON or LOST.
Transitions ==
  UNION { {"NEW"} \X {"CONTACTED", "QUALIFIED", "LOST"},
          {"CONTACTED"} \X {"QUALIFIED", "LOST"},
          {"QUALIFIED"} \X {"PROPOSAL", "NEGOTIATION", "PAYMENT_PENDING", "LOST"},
          {"PROPOSAL"} \X {"NEGOTIATION", "PAYMENT_PENDING", "WON", "LOST"},
          {"NEGOTIATION"} \X {"PROPOSAL", "PAYMENT_PENDING", "WON", "LOST"},
          {"PAYMENT_PENDING"} \X {"NEGOTIATION", "LOST"} }

Step == {"idle", "instructing", "profiling", "qualifying", "handing", "proving",
       "moving", "reviewing", "approving", "rejecting"}

\* The locks a transaction that has begun to read holds.
Holds(a) ==
  {l \in Lockable :
     \/ l = "conversation" /\ step[a] \in {"handing", "proving"}
     \/ l = "contact" /\ step[a] \in {"profiling", "qualifying"}
     \/ l = about[a] /\ step[a] \in {"reviewing", "approving", "rejecting"}}

LocksFit == \A a \in Actor, l \in Lockable : locks[l] = a <=> l \in Holds(a)

SalesTypeOK ==
  /\ stage \in Stage
  /\ milestones \in SUBSET Milestone
  /\ transfer \in [Payment -> Open \union Decided \union {"NONE"}]
  /\ proofOf \in [Proof -> Payment \union {NoPayment}]
  /\ verification \in {"NONE", "PENDING", "IN_PROGRESS"}
  /\ locks \in [Lockable -> Actor \union {Nobody}]
  /\ step \in [Actor -> Step]
  /\ seen \in [Actor -> Stage]
  /\ to \in [Actor -> Stage]
  /\ about \in [Actor -> Payment]
  /\ found \in [Actor -> Open]
  /\ proof \in [Actor -> Proof]
  /\ LocksFit

SomePayment == CHOOSE p \in Payment : TRUE
SomeProof == CHOOSE f \in Proof : TRUE

SalesInit ==
  /\ stage = "NEW"
  /\ milestones = {}
  /\ transfer = [p \in Payment |-> "NONE"]
  /\ proofOf = [f \in Proof |-> NoPayment]
  /\ verification = "NONE"
  /\ locks = [l \in Lockable |-> Nobody]
  /\ step = [a \in Actor |-> "idle"]
  /\ seen = [a \in Actor |-> "NEW"]
  /\ to = [a \in Actor |-> "NEW"]
  /\ about = [a \in Actor |-> SomePayment]
  /\ found = [a \in Actor |-> "PROOF_RECEIVED"]
  /\ proof = [a \in Actor |-> SomeProof]

-----------------------------------------------------------------------------
(* Transactions.                                                           *)

Become(a, next) == step' = [step EXCEPT ![a] = next]
Take(a, l) == locks[l] = Nobody /\ locks' = [locks EXCEPT ![l] = a]
Release(a) == locks' = [l \in Lockable |-> IF locks[l] = a THEN Nobody ELSE locks[l]]

\* The transaction is over.  What it read is forgotten.
End(a) ==
  /\ Become(a, "idle")
  /\ Release(a)
  /\ seen' = [seen EXCEPT ![a] = "NEW"]
  /\ to' = [to EXCEPT ![a] = "NEW"]
  /\ about' = [about EXCEPT ![a] = SomePayment]
  /\ found' = [found EXCEPT ![a] = "PROOF_RECEIVED"]
  /\ proof' = [proof EXCEPT ![a] = SomeProof]

\* A statement throws, the transaction times out, or its process dies.
Rollback(a) == step[a] # "idle" /\ End(a) /\ UNCHANGED rows

Promote(s) == stage' = s

-----------------------------------------------------------------------------
(* Hermes.                                                                 *)

OpenPayments == {p \in Payment : transfer[p] \in Open}
\* fault: not those under review
InstructedPayments == {p \in Payment : transfer[p] \in Instructed}

\* maybeSendInstructions: the lead and its approved transfers are read
\* before any lock is taken.
ReadLead(t) ==
  /\ step[t] = "idle"
  /\ stage \in RequestStages
  /\ \A p \in Payment : transfer[p] # "APPROVED"
  /\ Become(t, "instructing")
  /\ UNCHANGED <<rows, locks, seen, to, about, found, proof>>

\* Its transaction finds the transfer that is open, or creates one.
PrepareTransferUnless(t, pending) ==
  /\ step[t] = "instructing"
  /\ locks["conversation"] = Nobody
  /\ \/ pending # {} /\ UNCHANGED <<transfer, stage>>
     \/ /\ pending = {}
        /\ \E p \in Payment :
             /\ transfer[p] = "NONE"
             /\ transfer' = [transfer EXCEPT ![p] = "INSTRUCTIONS_PREPARED"]
        /\ Promote("PAYMENT_PENDING")
  /\ End(t)
  /\ UNCHANGED <<milestones, proofOf, verification>>

PrepareTransferTwice(t) == PrepareTransferUnless(t, InstructedPayments)
PrepareTransfer(t) == PrepareTransferUnless(t, OpenPayments)

\* reconcileInstruction, once the ledger has confirmed the notice.
ReconcileInstruction(p) ==
  /\ transfer[p] = "INSTRUCTIONS_PREPARED"
  /\ transfer' = [transfer EXCEPT ![p] = "INSTRUCTIONS_SENT"]
  /\ UNCHANGED <<stage, milestones, proofOf, verification, locks, reading>>

\* recordCommercialProfileFromConversation writes the stage it read.
ReadProfile(t) ==
  /\ step[t] = "idle"
  /\ Take(t, "contact")
  /\ seen' = [seen EXCEPT ![t] = stage]
  /\ Become(t, "profiling")
  /\ UNCHANGED <<rows, to, about, found, proof>>

RecordProfile(t) ==
  /\ step[t] = "profiling"
  /\ \/ Promote(seen[t])
     \/ seen[t] = "NEW" /\ Promote("CONTACTED")
  /\ End(t)
  /\ UNCHANGED <<milestones, transfer, proofOf, verification>>

\* qualifyFromConversation, and recordConfirmedMeeting when one is booked.
ReadPromotable(t) ==
  /\ step[t] = "idle"
  /\ stage \in Promotable
  /\ Take(t, "contact")
  /\ Become(t, "qualifying")
  /\ UNCHANGED <<rows, seen, to, about, found, proof>>

QualifySilently(t) ==   \* fault: the milestone is left to the next change
  /\ step[t] = "qualifying"
  /\ Promote("QUALIFIED")
  /\ End(t)
  /\ UNCHANGED <<milestones, transfer, proofOf, verification>>

Qualify(t) ==
  /\ step[t] = "qualifying"
  /\ Promote("QUALIFIED")
  /\ milestones' = milestones \union {"LEAD_QUALIFIED"}
  /\ End(t)
  /\ UNCHANGED <<transfer, proofOf, verification>>

\* HandoffService.create, when Hermes hands a lead over.
ReadHandedLead(t) ==
  /\ step[t] = "idle"
  /\ stage = "NEW"
  /\ Take(t, "conversation")
  /\ Become(t, "handing")
  /\ UNCHANGED <<rows, seen, to, about, found, proof>>

HandOver(t) ==
  /\ step[t] = "handing"
  /\ Promote("CONTACTED")
  /\ End(t)
  /\ UNCHANGED <<milestones, transfer, proofOf, verification>>

-----------------------------------------------------------------------------
(* detectProof, for an image or document the customer sent.  A message     *)
(* that is recorded already, or finds no open transfer, changes nothing.   *)

ReadPayment(h, f) ==
  /\ step[h] = "idle"
  /\ proofOf[f] = NoPayment
  /\ Take(h, "conversation")
  /\ \E p \in OpenPayments :
       /\ about' = [about EXCEPT ![h] = p]
       /\ found' = [found EXCEPT ![h] = transfer[p]]
  /\ proof' = [proof EXCEPT ![h] = f]
  /\ Become(h, "proving")
  /\ UNCHANGED <<rows, seen, to>>

AwaitsProofAlways(st) == st \in Open   \* fault: also a transfer under review
AwaitsProof(st) == st \in Instructed

RecordProof(h) ==
  /\ step[h] = "proving"
  /\ proofOf' = [proofOf EXCEPT ![proof[h]] = about[h]]
  /\ IF AwaitsProof(found[h])
       THEN /\ transfer' = [transfer EXCEPT ![about[h]] = "PROOF_RECEIVED"]
            /\ Promote("PAYMENT_REVIEW")
       ELSE UNCHANGED <<transfer, stage>>
  /\ verification' = IF verification = "NONE" THEN "PENDING" ELSE verification
  /\ End(h)
  /\ UNCHANGED milestones

-----------------------------------------------------------------------------
(* Operators review transfers, each under the transfer's own lock.         *)

ReviewableAlways(p) == transfer[p] \in Open   \* fault: no proof is asked for
Reviewable(p) == transfer[p] \in Review

ReadTransfer(o, p, decision) ==
  /\ step[o] = "idle"
  /\ Take(o, p)
  /\ Reviewable(p)
  /\ decision = "approving" =>
       (\E f \in Proof : proofOf[f] = p) /\ stage = "PAYMENT_REVIEW"
  /\ about' = [about EXCEPT ![o] = p]
  /\ Become(o, decision)
  /\ UNCHANGED <<rows, seen, to, found, proof>>

StartReview(o) ==
  /\ step[o] = "reviewing"
  /\ transfer' = [transfer EXCEPT ![about[o]] = "UNDER_REVIEW"]
  /\ verification' = IF verification = "PENDING" THEN "IN_PROGRESS" ELSE verification
  /\ End(o)
  /\ UNCHANGED <<stage, milestones, proofOf>>

\* recordWonMilestone throws (Rollback) if another contract is recorded.
Approve(o) ==
  /\ step[o] = "approving"
  /\ Promote("WON")
  /\ milestones' = milestones \union {"CONTRACT_WON"}
  /\ transfer' = [transfer EXCEPT ![about[o]] = "APPROVED"]
  /\ verification' = "NONE"
  /\ End(o)
  /\ UNCHANGED proofOf

Reject(o) ==
  /\ step[o] = "rejecting"
  /\ transfer' = [transfer EXCEPT ![about[o]] = "REJECTED"]
  /\ Promote("PAYMENT_PENDING")
  /\ verification' = "NONE"
  /\ End(o)
  /\ UNCHANGED <<milestones, proofOf>>

-----------------------------------------------------------------------------
(* Operators move the lead (LeadsService.update).  Everything is checked   *)
(* against the lead as it was before the contact's lock was asked for.     *)

MayMove(s) ==
  /\ s = stage \/ <<stage, s>> \in Transitions
  /\ s = "WON" /\ stage # "WON" => OpenPayments = {}
  /\ s = "PAYMENT_PENDING" /\ stage # "PAYMENT_PENDING" => OpenPayments # {}

ReadStage(o, s) ==
  /\ step[o] = "idle"
  /\ MayMove(s)
  /\ seen' = [seen EXCEPT ![o] = stage]
  /\ to' = [to EXCEPT ![o] = s]
  /\ Become(o, "moving")
  /\ UNCHANGED <<rows, locks, about, found, proof>>

\* The milestone the change of the stage is recorded with.
Reported(from, s) ==
  {m \in Milestone : s # from /\ <<s, m>> \in {<<"QUALIFIED", "LEAD_QUALIFIED">>,
                                             <<"WON", "CONTRACT_WON">>,
                                             <<"LOST", "CONTRACT_LOST">>}}

MoveStage(o) ==
  /\ step[o] = "moving"
  /\ locks["contact"] = Nobody
  /\ Promote(to[o])
  /\ milestones' = milestones \union Reported(seen[o], to[o])
  /\ End(o)
  /\ UNCHANGED <<transfer, proofOf, verification>>

-----------------------------------------------------------------------------

TurnStep(t) ==
  \/ ReadLead(t) \/ PrepareTransfer(t)
  \/ ReadProfile(t) \/ RecordProfile(t)
  \/ ReadPromotable(t) \/ Qualify(t)
  \/ ReadHandedLead(t) \/ HandOver(t)

OperatorStep(o) ==
  \/ \E p \in Payment, d \in {"reviewing", "approving", "rejecting"} : ReadTransfer(o, p, d)
  \/ StartReview(o) \/ Approve(o) \/ Reject(o)
  \/ \E s \in Stage : ReadStage(o, s)
  \/ MoveStage(o)

SalesNext ==
  \/ \E t \in Turn : TurnStep(t)
  \/ \E h \in Hook : (\E f \in Proof : ReadPayment(h, f)) \/ RecordProof(h)
  \/ \E o \in Operator : OperatorStep(o)
  \/ \E a \in Actor : Rollback(a)
  \/ \E p \in Payment : ReconcileInstruction(p)

SalesSpec == SalesInit /\ [][SalesNext]_salesVars

-----------------------------------------------------------------------------
(* Properties.                                                             *)

\* A decision on a transfer is final: no proof, review, second operator or
\* late confirmation of the instructions changes it.
DecisionIsFinal ==
  [][\A p \in Payment : transfer[p] \in Decided => transfer'[p] = transfer[p]]_salesVars

\* At most one transfer of a conversation is open, so the unique index
\* transfer_payments_one_open never makes a turn fail.
OneOpenPayment == \A p, q \in OpenPayments : p = q

\* A transfer that waits for a decision has a task that says so: it cannot
\* be forgotten.
ReviewIsVisible == (\E p \in Payment : transfer[p] \in Review) => verification # "NONE"

\* What the pipeline shows was reported: stages are written from stale reads
\* under different locks, yet never without the milestone they stand for.
Backed(s) ==
  /\ s = "WON" => "CONTRACT_WON" \in milestones
  /\ s = "LOST" => "CONTRACT_LOST" \in milestones
  /\ s \notin Promotable \union {"WON", "LOST"} => "LEAD_QUALIFIED" \in milestones

StageIsReported == Backed(stage)

(* Why they hold: what a transaction read is true enough when it writes.   *)

\* A stage that was read, and will be written again, was reported.
ReadsAreBacked ==
  \A a \in Actor : step[a] \in {"profiling", "moving"} => Backed(seen[a])

MovesAreAllowed ==
  \A a \in Actor : step[a] = "moving" => to[a] = seen[a] \/ <<seen[a], to[a]>> \in Transitions

\* Only a qualified lead is asked to pay, however late the transfer is made.
AskedAreQualified ==
  (\E a \in Actor : step[a] = "instructing") \/ (\E p \in Payment : transfer[p] # "NONE")
    => "LEAD_QUALIFIED" \in milestones

\* The conversation's lock does not stop operators, but they leave alone a
\* transfer that awaits its proof; and handlers leave alone one in review.
ProofsFindTheirTransfer ==
  \A a \in Actor : step[a] = "proving" =>
    /\ transfer[about[a]] # "NONE"
    /\ AwaitsProof(found[a]) => transfer[about[a]] \in Instructed

ReviewsKeepTheirTransfer ==
  \A a \in Actor :
    step[a] \in {"reviewing", "approving", "rejecting"} => transfer[about[a]] \in Review

\* The invariant of the whole: with the types and the three invariants above
\* it is inductive.
PipelineInv ==
  /\ ReadsAreBacked
  /\ MovesAreAllowed
  /\ AskedAreQualified
  /\ ProofsFindTheirTransfer
  /\ ReviewsKeepTheirTransfer
  /\ OneOpenPayment
  /\ ReviewIsVisible
  /\ StageIsReported
=============================================================================
