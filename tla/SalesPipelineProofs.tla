------------------------- MODULE SalesPipelineProofs -------------------------
(* Machine-checked proofs about SalesPipeline, for any number of           *)
(* transfers, proofs, turns, handlers and operators.                       *)
EXTENDS SalesPipeline, TLAPS

\* The values of what is not there.
LEMMA Defaults ==
  /\ SomePayment \in Payment
  /\ SomeProof \in Proof
  /\ Nobody \notin Actor
  /\ "conversation" \notin Payment /\ "contact" \notin Payment
BY ActorsAssumption, PaymentsAssumption DEF SomePayment, SomeProof, Actor

\* The type of the database's rows, and of what transactions have read.
TypeRows ==
  /\ stage \in Stage
  /\ milestones \in SUBSET Milestone
  /\ transfer \in [Payment -> Open \union Decided \union {"NONE"}]
  /\ proofOf \in [Proof -> Payment \union {NoPayment}]
  /\ verification \in {"NONE", "PENDING", "IN_PROGRESS"}

TypeReading ==
  /\ step \in [Actor -> Step]
  /\ seen \in [Actor -> Stage]
  /\ to \in [Actor -> Stage]
  /\ about \in [Actor -> Payment]
  /\ found \in [Actor -> Open]
  /\ proof \in [Actor -> Proof]

TypeLocks ==
  /\ locks \in [Lockable -> Actor \union {Nobody}]
  /\ LocksFit

LEMMA TypeParts == SalesTypeOK <=> TypeRows /\ TypeReading /\ TypeLocks
BY DEF SalesTypeOK, TypeRows, TypeReading, TypeLocks

LEMMA TypePartsNext ==
  ASSUME TypeRows', TypeReading', TypeLocks' PROVE SalesTypeOK'
BY DEF SalesTypeOK, TypeRows, TypeReading, TypeLocks

\* A transaction that ends forgets what it read and holds no lock.
LEMMA EndIsTyped ==
  ASSUME SalesTypeOK, NEW a \in Actor, End(a)
  PROVE  TypeReading' /\ TypeLocks'
<1>1. TypeReading'
  BY Defaults DEF SalesTypeOK, TypeReading, End, Become, Step, Stage, Open, Review
<1>2. locks' \in [Lockable -> Actor \union {Nobody}]
  BY DEF SalesTypeOK, End, Release
<1>3. ASSUME NEW b \in Actor, NEW l \in Lockable
      PROVE  locks'[l] = b <=> l \in Holds(b)'
  <2>1. locks[l] = b <=> l \in Holds(b)
    BY DEF SalesTypeOK, LocksFit
  <2>2. CASE b = a
    <3>1. Holds(b)' = {}
      BY <2>2 DEF SalesTypeOK, End, Become, Holds
    <3>2. locks'[l] # a
      BY Defaults DEF End, Release
    <3> QED BY <2>2, <3>1, <3>2
  <2>3. CASE b # a
    <3>1. Holds(b)' = Holds(b)
      BY <2>3 DEF SalesTypeOK, End, Become, Holds
    <3>2. locks'[l] = b <=> locks[l] = b
      BY <2>3, Defaults DEF End, Release
    <3> QED BY <2>1, <3>1, <3>2
  <2> QED BY <2>2, <2>3
<1> QED BY <1>1, <1>2, <1>3 DEF TypeLocks, LocksFit

\* A transaction that begins takes the lock it is to hold.
LEMMA TakeFits ==
  ASSUME SalesTypeOK, NEW a \in Actor, NEW l \in Lockable, step[a] = "idle", Take(a, l),
         Holds(a)' = {l},
         \A b \in Actor \ {a} : Holds(b)' = Holds(b)
  PROVE  TypeLocks'
<1>1. locks' \in [Lockable -> Actor \union {Nobody}]
  BY DEF SalesTypeOK, Take
<1>2. ASSUME NEW b \in Actor, NEW k \in Lockable
      PROVE  locks'[k] = b <=> k \in Holds(b)'
  <2>1. locks[k] = b <=> k \in Holds(b)
    BY DEF SalesTypeOK, LocksFit
  <2>2. locks[k] # a
    <3>1. locks[k] = a <=> k \in Holds(a)
      BY DEF SalesTypeOK, LocksFit
    <3> QED BY <3>1 DEF Holds
  <2>3. locks[l] = Nobody /\ locks'[k] = IF k = l THEN a ELSE locks[k]
    BY DEF SalesTypeOK, Take
  <2>4. CASE b = a
    BY <2>2, <2>3, <2>4
  <2>5. CASE b # a
    <3>1. Holds(b)' = Holds(b)
      BY <2>5
    <3> QED BY <2>1, <2>3, <2>5, <3>1, Defaults
  <2> QED BY <2>4, <2>5
<1> QED BY <1>1, <1>2 DEF TypeLocks, LocksFit

\* A transaction that begins without a lock.
LEMMA NoLockFits ==
  ASSUME SalesTypeOK, NEW a \in Actor, step[a] = "idle", UNCHANGED locks,
         Holds(a)' = {},
         \A b \in Actor \ {a} : Holds(b)' = Holds(b)
  PROVE  TypeLocks'
<1>1. locks' \in [Lockable -> Actor \union {Nobody}]
  BY DEF SalesTypeOK
<1>2. ASSUME NEW b \in Actor, NEW k \in Lockable
      PROVE  locks'[k] = b <=> k \in Holds(b)'
  <2>1. locks[k] = b <=> k \in Holds(b)
    BY DEF SalesTypeOK, LocksFit
  <2>2. Holds(b)' = Holds(b)
    BY DEF Holds
  <2> QED BY <2>1, <2>2
<1> QED BY <1>1, <1>2 DEF TypeLocks, LocksFit

-----------------------------------------------------------------------------
(* Types.                                                                  *)

LEMMA InitIsTyped == SalesInit => SalesTypeOK
<1> SUFFICES ASSUME SalesInit PROVE SalesTypeOK
  OBVIOUS
<1>1. TypeRows
  BY DEF SalesInit, TypeRows, Stage
<1>2. TypeReading
  BY Defaults DEF SalesInit, TypeReading, Step, Stage, Open, Review
<1>3. TypeLocks
  BY Defaults DEF SalesInit, TypeLocks, LocksFit, Holds
<1> QED BY <1>1, <1>2, <1>3, TypeParts

\* Beginning with a lock, and with none, one conclusion for both.
LEMMA BeginIsTyped ==
  ASSUME SalesTypeOK, NEW a \in Actor, step[a] = "idle", UNCHANGED rows,
         TypeReading', TypeLocks'
  PROVE  SalesTypeOK'
<1>1. TypeRows'
  BY DEF SalesTypeOK, TypeRows, rows
<1> QED BY <1>1, TypePartsNext

LEMMA ReadLeadIsTyped ==
  ASSUME SalesTypeOK, NEW t \in Turn, ReadLead(t) PROVE SalesTypeOK'
<1>1. TypeReading'
  BY DEF SalesTypeOK, TypeReading, ReadLead, Become, Actor, Step
<1>2. TypeLocks'
  <2>1. Holds(t)' = {} /\ \A b \in Actor \ {t} : Holds(b)' = Holds(b)
    BY DEF SalesTypeOK, ReadLead, Become, Actor, Holds
  <2> QED BY <2>1, NoLockFits DEF ReadLead, Actor
<1> QED BY <1>1, <1>2, BeginIsTyped DEF ReadLead, Actor

LEMMA ReadStageIsTyped ==
  ASSUME SalesTypeOK, NEW o \in Operator, NEW s \in Stage, ReadStage(o, s) PROVE SalesTypeOK'
<1>1. TypeReading'
  BY DEF SalesTypeOK, TypeReading, ReadStage, Become, Actor, Step
<1>2. TypeLocks'
  <2>1. Holds(o)' = {} /\ \A b \in Actor \ {o} : Holds(b)' = Holds(b)
    BY DEF SalesTypeOK, ReadStage, Become, Actor, Holds
  <2> QED BY <2>1, NoLockFits DEF ReadStage, Actor
<1> QED BY <1>1, <1>2, BeginIsTyped DEF ReadStage, Actor

LEMMA ReadProfileIsTyped ==
  ASSUME SalesTypeOK, NEW t \in Turn, ReadProfile(t) PROVE SalesTypeOK'
<1>1. TypeReading'
  BY DEF SalesTypeOK, TypeReading, ReadProfile, Become, Actor, Step, OpenPayments
<1>2. TypeLocks'
  <2>1. Holds(t)' = {"contact"} /\ \A b \in Actor \ {t} : Holds(b)' = Holds(b)
    BY Defaults DEF SalesTypeOK, ReadProfile, Become, Actor, Holds, Lockable
  <2> QED BY <2>1, TakeFits DEF ReadProfile, Actor, Lockable
<1> QED BY <1>1, <1>2, BeginIsTyped DEF ReadProfile, Actor

LEMMA ReadPromotableIsTyped ==
  ASSUME SalesTypeOK, NEW t \in Turn, ReadPromotable(t) PROVE SalesTypeOK'
<1>1. TypeReading'
  BY DEF SalesTypeOK, TypeReading, ReadPromotable, Become, Actor, Step, OpenPayments
<1>2. TypeLocks'
  <2>1. Holds(t)' = {"contact"} /\ \A b \in Actor \ {t} : Holds(b)' = Holds(b)
    BY Defaults DEF SalesTypeOK, ReadPromotable, Become, Actor, Holds, Lockable
  <2> QED BY <2>1, TakeFits DEF ReadPromotable, Actor, Lockable
<1> QED BY <1>1, <1>2, BeginIsTyped DEF ReadPromotable, Actor

LEMMA ReadHandedLeadIsTyped ==
  ASSUME SalesTypeOK, NEW t \in Turn, ReadHandedLead(t) PROVE SalesTypeOK'
<1>1. TypeReading'
  BY DEF SalesTypeOK, TypeReading, ReadHandedLead, Become, Actor, Step, OpenPayments
<1>2. TypeLocks'
  <2>1. Holds(t)' = {"conversation"} /\ \A b \in Actor \ {t} : Holds(b)' = Holds(b)
    BY Defaults DEF SalesTypeOK, ReadHandedLead, Become, Actor, Holds, Lockable
  <2> QED BY <2>1, TakeFits DEF ReadHandedLead, Actor, Lockable
<1> QED BY <1>1, <1>2, BeginIsTyped DEF ReadHandedLead, Actor

LEMMA ReadPaymentIsTyped ==
  ASSUME SalesTypeOK, NEW h \in Hook, NEW f \in Proof, ReadPayment(h, f) PROVE SalesTypeOK'
<1>1. TypeReading'
  BY DEF SalesTypeOK, TypeReading, ReadPayment, Become, Actor, Step, OpenPayments
<1>2. TypeLocks'
  <2>1. Holds(h)' = {"conversation"} /\ \A b \in Actor \ {h} : Holds(b)' = Holds(b)
    BY Defaults DEF SalesTypeOK, ReadPayment, Become, Actor, Holds, Lockable
  <2> QED BY <2>1, TakeFits DEF ReadPayment, Actor, Lockable
<1> QED BY <1>1, <1>2, BeginIsTyped DEF ReadPayment, Actor

LEMMA ReadTransferIsTyped ==
  ASSUME SalesTypeOK, NEW o \in Operator, NEW p \in Payment,
         NEW d \in {"reviewing", "approving", "rejecting"}, ReadTransfer(o, p, d) PROVE SalesTypeOK'
<1>1. TypeReading'
  BY DEF SalesTypeOK, TypeReading, ReadTransfer, Become, Actor, Step, OpenPayments
<1>2. TypeLocks'
  <2>1. Holds(o)' = {p} /\ \A b \in Actor \ {o} : Holds(b)' = Holds(b)
    BY Defaults DEF SalesTypeOK, ReadTransfer, Become, Actor, Holds, Lockable
  <2> QED BY <2>1, TakeFits DEF ReadTransfer, Actor, Lockable
<1> QED BY <1>1, <1>2, BeginIsTyped DEF ReadTransfer, Actor

\* What a transaction writes has the type of a row.
LEMMA TurnWritesRows ==
  ASSUME SalesTypeOK, NEW t \in Turn,
         PrepareTransfer(t) \/ RecordProfile(t) \/ Qualify(t) \/ HandOver(t)
  PROVE  TypeRows' /\ End(t)
<1>1. CASE PrepareTransfer(t)
  BY <1>1 DEF SalesTypeOK, TypeRows, PrepareTransfer, PrepareTransferUnless, Promote,
              Stage, Open, Instructed
<1>2. CASE RecordProfile(t)
  BY <1>2 DEF SalesTypeOK, TypeRows, RecordProfile, Promote, Stage, Actor
<1>3. CASE Qualify(t)
  BY <1>3 DEF SalesTypeOK, TypeRows, Qualify, Promote, Stage, Milestone
<1>4. CASE HandOver(t)
  BY <1>4 DEF SalesTypeOK, TypeRows, HandOver, Promote, Stage
<1> QED BY <1>1, <1>2, <1>3, <1>4

LEMMA ProofWritesRows ==
  ASSUME SalesTypeOK, NEW h \in Hook, RecordProof(h)
  PROVE  TypeRows' /\ End(h)
BY DEF SalesTypeOK, TypeRows, RecordProof, Promote, Stage, Actor, Open, Review

LEMMA OperatorWritesRows ==
  ASSUME SalesTypeOK, NEW o \in Operator,
         StartReview(o) \/ Approve(o) \/ Reject(o) \/ MoveStage(o)
  PROVE  TypeRows' /\ End(o)
<1>1. CASE StartReview(o)
  BY <1>1 DEF SalesTypeOK, TypeRows, StartReview, Open, Review
<1>2. CASE Approve(o)
  BY <1>2 DEF SalesTypeOK, TypeRows, Approve, Promote, Stage, Milestone, Decided
<1>3. CASE Reject(o)
  BY <1>3 DEF SalesTypeOK, TypeRows, Reject, Promote, Stage, Decided
<1>4. CASE MoveStage(o)
  BY <1>4 DEF SalesTypeOK, TypeRows, MoveStage, Promote, Reported, Actor
<1> QED BY <1>1, <1>2, <1>3, <1>4

LEMMA EndKeepsTypes ==
  ASSUME SalesTypeOK, NEW a \in Actor, TypeRows', End(a) PROVE SalesTypeOK'
BY EndIsTyped, TypePartsNext

LEMMA StepIsTyped == SalesTypeOK /\ [SalesNext]_salesVars => SalesTypeOK'
<1> SUFFICES ASSUME SalesTypeOK, [SalesNext]_salesVars PROVE SalesTypeOK'
  OBVIOUS
<1>1. ASSUME NEW t \in Turn, TurnStep(t) PROVE SalesTypeOK'
  <2>1. CASE PrepareTransfer(t) \/ RecordProfile(t) \/ Qualify(t) \/ HandOver(t)
    BY <2>1, TurnWritesRows, EndKeepsTypes DEF Actor
  <2>2. CASE ReadLead(t) \/ ReadProfile(t) \/ ReadPromotable(t) \/ ReadHandedLead(t)
    BY <2>2, ReadLeadIsTyped, ReadProfileIsTyped, ReadPromotableIsTyped,
       ReadHandedLeadIsTyped
  <2> QED BY <1>1, <2>1, <2>2 DEF TurnStep
<1>2. ASSUME NEW h \in Hook, (\E f \in Proof : ReadPayment(h, f)) \/ RecordProof(h)
      PROVE  SalesTypeOK'
  <2>1. CASE RecordProof(h)
    BY <2>1, ProofWritesRows, EndKeepsTypes DEF Actor
  <2> QED BY <1>2, <2>1, ReadPaymentIsTyped
<1>3. ASSUME NEW o \in Operator, OperatorStep(o) PROVE SalesTypeOK'
  <2>1. CASE StartReview(o) \/ Approve(o) \/ Reject(o) \/ MoveStage(o)
    BY <2>1, OperatorWritesRows, EndKeepsTypes DEF Actor
  <2> QED BY <1>3, <2>1, ReadTransferIsTyped, ReadStageIsTyped DEF OperatorStep
<1>4. ASSUME NEW a \in Actor, Rollback(a) PROVE SalesTypeOK'
  <2>1. TypeRows' /\ End(a)
    BY <1>4 DEF SalesTypeOK, TypeRows, Rollback, rows
  <2> QED BY <2>1, EndKeepsTypes
<1>5. ASSUME NEW p \in Payment, ReconcileInstruction(p) PROVE SalesTypeOK'
  <2>1. TypeRows'
    BY <1>5 DEF SalesTypeOK, TypeRows, ReconcileInstruction, Open, Instructed
  <2>2. TypeReading' /\ TypeLocks'
    BY <1>5 DEF SalesTypeOK, TypeReading, TypeLocks, LocksFit, Holds,
                ReconcileInstruction, reading
  <2> QED BY <2>1, <2>2, TypePartsNext
<1>6. CASE UNCHANGED salesVars
  BY <1>6 DEF SalesTypeOK, LocksFit, Holds, salesVars, rows, reading
<1> QED BY <1>1, <1>2, <1>3, <1>4, <1>5, <1>6 DEF SalesNext

\* The state is well typed, and the locks are held by the transactions that
\* took them and by nobody else.
THEOREM TypeCorrect == SalesSpec => []SalesTypeOK
BY InitIsTyped, StepIsTyped, PTL DEF SalesSpec

-----------------------------------------------------------------------------
(* The invariant.                                                          *)

LEMMA InitIsSound == SalesInit => PipelineInv
BY Defaults
   DEF SalesInit, PipelineInv, ReadsAreBacked, MovesAreAllowed, AskedAreQualified,
       ProofsFindTheirTransfer, ReviewsKeepTheirTransfer, OneOpenPayment, OpenPayments,
       ReviewIsVisible, StageIsReported, Backed, Promotable, Open, Instructed, Review

\* A lock has one holder.
LEMMA OneHolder ==
  ASSUME SalesTypeOK, NEW a \in Actor, NEW b \in Actor, NEW l \in Holds(a), l \in Holds(b)
  PROVE  a = b
<1>1. l \in Lockable
  BY DEF Holds
<1>2. locks[l] = a /\ locks[l] = b
  BY <1>1 DEF SalesTypeOK, LocksFit
<1> QED BY <1>2

\* What was reported stays reported.
LEMMA BackedStays ==
  ASSUME NEW s, Backed(s), milestones \subseteq milestones'
  PROVE  /\ s = "WON" => "CONTRACT_WON" \in milestones'
         /\ s = "LOST" => "CONTRACT_LOST" \in milestones'
         /\ s \notin Promotable \union {"WON", "LOST"} => "LEAD_QUALIFIED" \in milestones'
BY DEF Backed

\* A transaction begins: it is enough to look at what it has read.
LEMMA BeginIsSound ==
  ASSUME SalesTypeOK, PipelineInv, NEW a \in Actor, UNCHANGED rows,
         \A b \in Actor \ {a} :
           /\ step'[b] = step[b] /\ seen'[b] = seen[b] /\ to'[b] = to[b]
           /\ about'[b] = about[b] /\ found'[b] = found[b],
         step'[a] \in {"profiling", "moving"} => Backed(seen'[a]),
         step'[a] = "moving" => to'[a] = seen'[a] \/ <<seen'[a], to'[a]>> \in Transitions,
         step'[a] = "instructing" => "LEAD_QUALIFIED" \in milestones,
         step'[a] = "proving" =>
           /\ transfer[about'[a]] # "NONE"
           /\ AwaitsProof(found'[a]) => transfer[about'[a]] \in Instructed,
         step'[a] \in {"reviewing", "approving", "rejecting"} => transfer[about'[a]] \in Review
  PROVE  PipelineInv'
<1>1. ReadsAreBacked'
  BY DEF PipelineInv, ReadsAreBacked, Backed, rows
<1>2. MovesAreAllowed'
  BY DEF PipelineInv, MovesAreAllowed
<1>3. AskedAreQualified'
  BY DEF PipelineInv, AskedAreQualified, rows
<1>4. ProofsFindTheirTransfer'
  BY DEF PipelineInv, ProofsFindTheirTransfer, AwaitsProof, rows
<1>5. ReviewsKeepTheirTransfer'
  BY DEF PipelineInv, ReviewsKeepTheirTransfer, rows
<1>6. OneOpenPayment' /\ ReviewIsVisible' /\ StageIsReported'
  BY DEF PipelineInv, OneOpenPayment, OpenPayments, ReviewIsVisible, StageIsReported,
         Backed, rows
<1> QED BY <1>1, <1>2, <1>3, <1>4, <1>5, <1>6 DEF PipelineInv

\* A transaction ends: what the others have read of the lead is still good.
LEMMA EndKeepsReads ==
  ASSUME SalesTypeOK, PipelineInv, NEW a \in Actor, End(a), milestones \subseteq milestones'
  PROVE  /\ ReadsAreBacked' /\ MovesAreAllowed'
         /\ (\E b \in Actor : step'[b] = "instructing") => "LEAD_QUALIFIED" \in milestones'
<1>1. \A b \in Actor :
        /\ b = a => step'[b] = "idle"
        /\ b # a => step'[b] = step[b] /\ seen'[b] = seen[b] /\ to'[b] = to[b]
  BY DEF SalesTypeOK, End, Become
<1>2. ReadsAreBacked'
  BY <1>1, BackedStays DEF PipelineInv, ReadsAreBacked, Backed
<1>3. MovesAreAllowed'
  BY <1>1 DEF PipelineInv, MovesAreAllowed
<1>4. (\E b \in Actor : step'[b] = "instructing") => "LEAD_QUALIFIED" \in milestones'
  BY <1>1 DEF PipelineInv, AskedAreQualified
<1> QED BY <1>2, <1>3, <1>4

\* It ends without touching a transfer.
LEMMA QuietEndIsSound ==
  ASSUME SalesTypeOK, PipelineInv, NEW a \in Actor, End(a), milestones \subseteq milestones',
         UNCHANGED transfer, verification # "NONE" => verification' # "NONE",
         StageIsReported'
  PROVE  PipelineInv'
<1>1. \A b \in Actor :
        /\ b = a => step'[b] = "idle"
        /\ b # a => step'[b] = step[b] /\ about'[b] = about[b] /\ found'[b] = found[b]
  BY DEF SalesTypeOK, End, Become
<1>2. ReadsAreBacked' /\ MovesAreAllowed' /\ AskedAreQualified'
  BY EndKeepsReads DEF PipelineInv, AskedAreQualified
<1>3. ProofsFindTheirTransfer' /\ ReviewsKeepTheirTransfer'
  BY <1>1 DEF PipelineInv, ProofsFindTheirTransfer, ReviewsKeepTheirTransfer, AwaitsProof
<1>4. OneOpenPayment' /\ ReviewIsVisible'
  BY DEF PipelineInv, OneOpenPayment, OpenPayments, ReviewIsVisible
<1> QED BY <1>2, <1>3, <1>4 DEF PipelineInv

-----------------------------------------------------------------------------
(* Every transaction keeps it.                                             *)

LEMMA TurnBeginsSoundly ==
  ASSUME SalesTypeOK, PipelineInv, NEW t \in Turn,
         ReadLead(t) \/ ReadProfile(t) \/ ReadPromotable(t) \/ ReadHandedLead(t)
  PROVE  PipelineInv'
<1> t \in Actor
  BY DEF Actor
<1>1. CASE ReadLead(t)
  <2>1. step' = [step EXCEPT ![t] = "instructing"] /\ UNCHANGED <<rows, seen, to, about, found>>
    BY <1>1 DEF ReadLead, Become
  <2>2. "LEAD_QUALIFIED" \in milestones
    BY <1>1 DEF ReadLead, RequestStages, PipelineInv, StageIsReported, Backed, Promotable
  <2> QED BY <2>1, <2>2, BeginIsSound DEF SalesTypeOK
<1>2. CASE ReadProfile(t)
  <2>1. /\ step' = [step EXCEPT ![t] = "profiling"] /\ seen' = [seen EXCEPT ![t] = stage]
        /\ UNCHANGED <<rows, to, about, found>>
    BY <1>2 DEF ReadProfile, Become
  <2>2. Backed(seen'[t])
    BY <2>1 DEF SalesTypeOK, PipelineInv, StageIsReported
  <2> QED BY <2>1, <2>2, BeginIsSound DEF SalesTypeOK
<1>3. CASE ReadPromotable(t)
  <2>1. step' = [step EXCEPT ![t] = "qualifying"] /\ UNCHANGED <<rows, seen, to, about, found>>
    BY <1>3 DEF ReadPromotable, Become
  <2> QED BY <2>1, BeginIsSound DEF SalesTypeOK
<1>4. CASE ReadHandedLead(t)
  <2>1. step' = [step EXCEPT ![t] = "handing"] /\ UNCHANGED <<rows, seen, to, about, found>>
    BY <1>4 DEF ReadHandedLead, Become
  <2> QED BY <2>1, BeginIsSound DEF SalesTypeOK
<1> QED BY <1>1, <1>2, <1>3, <1>4

LEMMA ReadPaymentIsSound ==
  ASSUME SalesTypeOK, PipelineInv, NEW h \in Hook, NEW f \in Proof, ReadPayment(h, f)
  PROVE  PipelineInv'
<1> h \in Actor
  BY DEF Actor
<1>1. PICK p \in OpenPayments : /\ about' = [about EXCEPT ![h] = p]
                                /\ found' = [found EXCEPT ![h] = transfer[p]]
  BY DEF ReadPayment
<1>2. step' = [step EXCEPT ![h] = "proving"] /\ UNCHANGED <<rows, seen, to>>
  BY DEF ReadPayment, Become
<1>3. transfer[p] # "NONE" /\ (AwaitsProof(transfer[p]) => transfer[p] \in Instructed)
  BY DEF OpenPayments, AwaitsProof, Open, Instructed, Review
<1> QED BY <1>1, <1>2, <1>3, BeginIsSound DEF SalesTypeOK, AwaitsProof

LEMMA OperatorBeginsSoundly ==
  ASSUME SalesTypeOK, PipelineInv, NEW o \in Operator,
         \/ \E p \in Payment, d \in {"reviewing", "approving", "rejecting"} :
              ReadTransfer(o, p, d)
         \/ \E s \in Stage : ReadStage(o, s)
  PROVE  PipelineInv'
<1> o \in Actor
  BY DEF Actor
<1>1. ASSUME NEW p \in Payment, NEW d \in {"reviewing", "approving", "rejecting"},
             ReadTransfer(o, p, d)
      PROVE  PipelineInv'
  <2>1. /\ step' = [step EXCEPT ![o] = d] /\ about' = [about EXCEPT ![o] = p]
        /\ transfer[p] \in Review
        /\ UNCHANGED <<rows, seen, to, found>>
    BY <1>1 DEF ReadTransfer, Become, Reviewable
  <2> QED BY <2>1, BeginIsSound DEF SalesTypeOK
<1>2. ASSUME NEW s \in Stage, ReadStage(o, s) PROVE PipelineInv'
  <2>1. /\ step' = [step EXCEPT ![o] = "moving"]
        /\ seen' = [seen EXCEPT ![o] = stage] /\ to' = [to EXCEPT ![o] = s]
        /\ s = stage \/ <<stage, s>> \in Transitions
        /\ UNCHANGED <<rows, about, found>>
    BY <1>2 DEF ReadStage, Become, MayMove
  <2>2. Backed(seen'[o]) /\ (to'[o] = seen'[o] \/ <<seen'[o], to'[o]>> \in Transitions)
    BY <2>1 DEF SalesTypeOK, PipelineInv, StageIsReported
  <2> QED BY <2>1, <2>2, BeginIsSound DEF SalesTypeOK
<1> QED BY <1>1, <1>2

\* Hermes writes the stage, and makes the transfer if none is open.
LEMMA PrepareTransferIsSound ==
  ASSUME SalesTypeOK, PipelineInv, NEW t \in Turn, PrepareTransfer(t)
  PROVE  PipelineInv'
<1> t \in Actor
  BY DEF Actor
<1>1. End(t) /\ UNCHANGED <<milestones, verification>> /\ locks["conversation"] = Nobody
  BY DEF PrepareTransfer, PrepareTransferUnless
<1>2. "LEAD_QUALIFIED" \in milestones
  BY DEF PrepareTransfer, PrepareTransferUnless, PipelineInv, AskedAreQualified
<1>3. CASE UNCHANGED <<transfer, stage>>
  <2>1. StageIsReported'
    BY <1>1, <1>3 DEF PipelineInv, StageIsReported, Backed
  <2> QED BY <1>1, <1>3, <2>1, QuietEndIsSound
<1>4. ASSUME OpenPayments = {}, Promote("PAYMENT_PENDING"), NEW p \in Payment,
             transfer[p] = "NONE",
             transfer' = [transfer EXCEPT ![p] = "INSTRUCTIONS_PREPARED"]
      PROVE  PipelineInv'
  <2>1. \A b \in Actor : step[b] # "proving"
    <3>1. \A b \in Actor : locks["conversation"] # b
      BY <1>1, Defaults
    <3> QED BY <3>1 DEF SalesTypeOK, LocksFit, Holds, Lockable
  <2>2. \A b \in Actor :
          /\ b = t => step'[b] = "idle"
          /\ b # t => step'[b] = step[b] /\ about'[b] = about[b]
    BY <1>1 DEF SalesTypeOK, End, Become
  <2>3. ReadsAreBacked' /\ MovesAreAllowed' /\ AskedAreQualified'
    BY <1>1, <1>2, EndKeepsReads DEF AskedAreQualified
  <2>4. ProofsFindTheirTransfer'
    BY <2>1, <2>2 DEF ProofsFindTheirTransfer
  <2>5. ReviewsKeepTheirTransfer'
    BY <1>4, <2>2 DEF SalesTypeOK, PipelineInv, ReviewsKeepTheirTransfer, Review
  <2>6. \A q \in Payment : transfer'[q] \in Open => q = p
    BY <1>4 DEF SalesTypeOK, OpenPayments
  <2>7. OneOpenPayment' /\ ReviewIsVisible'
    <3>1. transfer'[p] \notin Review
      BY <1>4 DEF SalesTypeOK, Review
    <3> QED BY <2>6, <3>1 DEF OneOpenPayment, OpenPayments, ReviewIsVisible, Open
  <2>8. StageIsReported'
    BY <1>1, <1>2, <1>4 DEF Promote, StageIsReported, Backed
  <2> QED BY <2>3, <2>4, <2>5, <2>7, <2>8 DEF PipelineInv
<1> QED BY <1>3, <1>4 DEF PrepareTransfer, PrepareTransferUnless

LEMMA TurnWritesSoundly ==
  ASSUME SalesTypeOK, PipelineInv, NEW t \in Turn,
         RecordProfile(t) \/ Qualify(t) \/ HandOver(t)
  PROVE  PipelineInv'
<1> t \in Actor
  BY DEF Actor
<1>1. End(t) /\ UNCHANGED <<transfer, verification>> /\ milestones \subseteq milestones'
  BY DEF RecordProfile, Qualify, HandOver
<1>2. CASE RecordProfile(t)
  <2>1. StageIsReported'
    BY <1>2 DEF RecordProfile, Promote, PipelineInv, ReadsAreBacked, StageIsReported,
                Backed, Promotable
  <2> QED BY <1>1, <2>1, QuietEndIsSound
<1>3. CASE Qualify(t)
  <2>1. StageIsReported'
    BY <1>3 DEF Qualify, Promote, StageIsReported, Backed
  <2> QED BY <1>1, <2>1, QuietEndIsSound
<1>4. CASE HandOver(t)
  <2>1. StageIsReported'
    BY <1>4 DEF HandOver, Promote, StageIsReported, Backed, Promotable
  <2> QED BY <1>1, <2>1, QuietEndIsSound
<1> QED BY <1>2, <1>3, <1>4

LEMMA MoveStageIsSound ==
  ASSUME SalesTypeOK, PipelineInv, NEW o \in Operator, MoveStage(o)
  PROVE  PipelineInv'
<1> o \in Actor
  BY DEF Actor
<1>1. /\ End(o) /\ UNCHANGED <<transfer, verification>> /\ step[o] = "moving"
      /\ stage' = to[o] /\ milestones' = milestones \union Reported(seen[o], to[o])
  BY DEF MoveStage, Promote
<1>2. Backed(seen[o]) /\ (to[o] = seen[o] \/ <<seen[o], to[o]>> \in Transitions)
  BY <1>1 DEF PipelineInv, ReadsAreBacked, MovesAreAllowed
<1>3. StageIsReported'
  <2>1. CASE to[o] = seen[o]
    BY <1>1, <1>2, <2>1 DEF StageIsReported, Backed
  <2>2. CASE to[o] # seen[o]
    BY <1>1, <1>2, <2>2 DEF StageIsReported, Backed, Reported, Transitions, Promotable,
                            Milestone
  <2> QED BY <2>1, <2>2
<1> QED BY <1>1, <1>3, QuietEndIsSound

\* A proof: its transfer still awaits one, or nothing of it is written.
LEMMA RecordProofIsSound ==
  ASSUME SalesTypeOK, PipelineInv, NEW h \in Hook, RecordProof(h)
  PROVE  PipelineInv'
<1> h \in Actor
  BY DEF Actor
<1> DEFINE p == about[h]
<1>1. End(h) /\ UNCHANGED milestones /\ verification' # "NONE" /\ step[h] = "proving"
  BY DEF RecordProof, SalesTypeOK
<1>2. p \in Payment /\ transfer[p] # "NONE"
  BY <1>1 DEF SalesTypeOK, PipelineInv, ProofsFindTheirTransfer
<1>3. CASE ~AwaitsProof(found[h])
  <2>1. UNCHANGED <<transfer, stage>>
    BY <1>3 DEF RecordProof
  <2>2. StageIsReported'
    BY <1>1, <2>1 DEF PipelineInv, StageIsReported, Backed
  <2> QED BY <1>1, <2>1, <2>2, QuietEndIsSound
<1>4. CASE AwaitsProof(found[h])
  <2>1. transfer' = [transfer EXCEPT ![p] = "PROOF_RECEIVED"] /\ stage' = "PAYMENT_REVIEW"
    BY <1>4 DEF RecordProof, Promote
  <2>2. transfer[p] \in Instructed
    BY <1>1, <1>4 DEF PipelineInv, ProofsFindTheirTransfer
  <2>3. \A b \in Actor :
          /\ b = h => step'[b] = "idle"
          /\ b # h => step'[b] = step[b] /\ about'[b] = about[b]
    BY <1>1 DEF SalesTypeOK, End, Become
  <2>4. "LEAD_QUALIFIED" \in milestones
    BY <1>2 DEF PipelineInv, AskedAreQualified
  <2>5. ReadsAreBacked' /\ MovesAreAllowed' /\ AskedAreQualified'
    BY <1>1, <2>4, EndKeepsReads DEF AskedAreQualified
  <2>6. ProofsFindTheirTransfer'
    <3>1. \A b \in Actor \ {h} : step[b] # "proving"
      <4>1. \A b \in Actor : step[b] = "proving" => "conversation" \in Holds(b)
        BY DEF Holds, Lockable
      <4> QED BY <1>1, <4>1, OneHolder
    <3> QED BY <2>3, <3>1 DEF ProofsFindTheirTransfer
  <2>7. ReviewsKeepTheirTransfer'
    BY <1>2, <2>1, <2>3 DEF SalesTypeOK, PipelineInv, ReviewsKeepTheirTransfer, Review
  <2>8. OneOpenPayment'
    <3>1. OpenPayments' = OpenPayments
      BY <1>2, <2>1, <2>2 DEF SalesTypeOK, OpenPayments, Open, Review
    <3> QED BY <3>1 DEF PipelineInv, OneOpenPayment
  <2>9. ReviewIsVisible' /\ StageIsReported'
    BY <1>1, <2>1, <2>4 DEF ReviewIsVisible, StageIsReported, Backed
  <2> QED BY <2>5, <2>6, <2>7, <2>8, <2>9 DEF PipelineInv
<1> QED BY <1>3, <1>4

\* An operator's decision: the transfer is the only one that was open, and
\* no handler and no other operator is about to write it.
LEMMA DecisionIsSound ==
  ASSUME SalesTypeOK, PipelineInv, NEW o \in Operator, NEW next \in Review \union Decided,
         step[o] \in {"reviewing", "approving", "rejecting"}, End(o),
         transfer' = [transfer EXCEPT ![about[o]] = next],
         next \in Review => (verification # "NONE" => verification' # "NONE"),
         milestones \subseteq milestones', StageIsReported'
  PROVE  PipelineInv'
<1> o \in Actor
  BY DEF Actor
<1> DEFINE p == about[o]
<1>1. p \in Payment /\ transfer[p] \in Review
  BY DEF SalesTypeOK, PipelineInv, ReviewsKeepTheirTransfer
<1>2. \A b \in Actor :
        /\ b = o => step'[b] = "idle"
        /\ b # o => step'[b] = step[b] /\ about'[b] = about[b] /\ found'[b] = found[b]
  BY DEF SalesTypeOK, End, Become
<1>3. \A q \in Payment : transfer'[q] = IF q = p THEN next ELSE transfer[q]
  BY DEF SalesTypeOK
<1>4. ReadsAreBacked' /\ MovesAreAllowed' /\ AskedAreQualified'
  <2>1. "LEAD_QUALIFIED" \in milestones
    BY <1>1 DEF PipelineInv, AskedAreQualified, Review
  <2> QED BY <2>1, EndKeepsReads DEF AskedAreQualified
<1>5. ProofsFindTheirTransfer'
  <2>1. ASSUME NEW b \in Actor, b # o, step[b] = "proving"
        PROVE  /\ transfer'[about[b]] # "NONE"
               /\ AwaitsProof(found[b]) => transfer'[about[b]] \in Instructed
    <3>1. about[b] \in Payment /\ transfer[about[b]] # "NONE"
      BY <2>1 DEF SalesTypeOK, PipelineInv, ProofsFindTheirTransfer
    <3>2. next # "NONE"
      BY DEF Review, Decided
    <3>3. AwaitsProof(found[b]) => about[b] # p
      BY <1>1, <2>1 DEF PipelineInv, ProofsFindTheirTransfer, Instructed, Review
    <3>4. AwaitsProof(found[b]) => transfer[about[b]] \in Instructed
      BY <2>1 DEF PipelineInv, ProofsFindTheirTransfer
    <3> QED BY <1>3, <3>1, <3>2, <3>3, <3>4
  <2> QED BY <1>2, <2>1 DEF ProofsFindTheirTransfer, AwaitsProof
<1>6. ReviewsKeepTheirTransfer'
  <2>1. ASSUME NEW b \in Actor, b # o, step[b] \in {"reviewing", "approving", "rejecting"}
        PROVE  about[b] # p
    <3>1. about[b] \in Payment /\ about[b] \in Holds(b) /\ p \in Holds(o)
      BY <1>1, <2>1 DEF SalesTypeOK, Holds, Lockable
    <3> QED BY <2>1, <3>1, OneHolder
  <2>2. \A b \in Actor : about[b] \in Payment
    BY DEF SalesTypeOK
  <2> QED BY <1>2, <1>3, <2>1, <2>2 DEF PipelineInv, ReviewsKeepTheirTransfer
<1>7. \A q \in OpenPayments : q = p
  BY <1>1 DEF PipelineInv, OneOpenPayment, OpenPayments, Open
<1>8. OpenPayments' \subseteq {p}
  BY <1>3, <1>7 DEF OpenPayments
<1>9. OneOpenPayment'
  BY <1>8 DEF OneOpenPayment
<1>10. ReviewIsVisible'
  <2>1. \A q \in Payment : transfer'[q] \in Review => q = p
    BY <1>8 DEF OpenPayments, Open
  <2>2. verification # "NONE"
    BY <1>1 DEF PipelineInv, ReviewIsVisible
  <2> QED BY <1>3, <2>1, <2>2 DEF ReviewIsVisible
<1> QED BY <1>4, <1>5, <1>6, <1>9, <1>10 DEF PipelineInv

LEMMA OperatorDecidesSoundly ==
  ASSUME SalesTypeOK, PipelineInv, NEW o \in Operator,
         StartReview(o) \/ Approve(o) \/ Reject(o)
  PROVE  PipelineInv'
<1>1. CASE StartReview(o)
  <2>1. StageIsReported'
    BY <1>1 DEF StartReview, PipelineInv, StageIsReported, Backed
  <2>2. verification # "NONE" => verification' # "NONE"
    BY <1>1 DEF StartReview
  <2> QED BY <1>1, <2>1, <2>2, DecisionIsSound DEF StartReview, Review
<1>2. CASE Approve(o)
  <2>1. StageIsReported'
    BY <1>2 DEF Approve, Promote, StageIsReported, Backed
  <2> QED BY <1>2, <2>1, DecisionIsSound DEF Approve, Decided, Review
<1>3. CASE Reject(o)
  <2>1. "LEAD_QUALIFIED" \in milestones
    BY <1>3 DEF Reject, SalesTypeOK, Actor, PipelineInv, ReviewsKeepTheirTransfer, Review,
                AskedAreQualified
  <2>2. StageIsReported'
    BY <1>3, <2>1 DEF Reject, Promote, StageIsReported, Backed
  <2> QED BY <1>3, <2>2, DecisionIsSound DEF Reject, Decided, Review
<1> QED BY <1>1, <1>2, <1>3

LEMMA RollbackIsSound ==
  ASSUME SalesTypeOK, PipelineInv, NEW a \in Actor, Rollback(a)
  PROVE  PipelineInv'
<1>1. End(a) /\ UNCHANGED <<stage, milestones, transfer, verification>>
  BY DEF Rollback, rows
<1>2. StageIsReported'
  BY <1>1 DEF PipelineInv, StageIsReported, Backed
<1> QED BY <1>1, <1>2, QuietEndIsSound

LEMMA ReconcileInstructionIsSound ==
  ASSUME SalesTypeOK, PipelineInv, NEW p \in Payment, ReconcileInstruction(p)
  PROVE  PipelineInv'
<1>1. \A q \in Payment : transfer'[q] = IF q = p THEN "INSTRUCTIONS_SENT" ELSE transfer[q]
  BY DEF SalesTypeOK, ReconcileInstruction
<1>2. /\ transfer[p] = "INSTRUCTIONS_PREPARED"
      /\ UNCHANGED <<stage, milestones, verification, reading>>
  BY DEF ReconcileInstruction
<1>3. ReadsAreBacked' /\ MovesAreAllowed' /\ StageIsReported'
  BY <1>2 DEF PipelineInv, ReadsAreBacked, MovesAreAllowed, StageIsReported, Backed, reading
<1>4. AskedAreQualified'
  BY <1>1, <1>2 DEF PipelineInv, AskedAreQualified, reading
<1>5. ProofsFindTheirTransfer'
  BY <1>1, <1>2 DEF SalesTypeOK, PipelineInv, ProofsFindTheirTransfer, AwaitsProof, Instructed,
                    reading
<1>6. ReviewsKeepTheirTransfer'
  BY <1>1, <1>2 DEF SalesTypeOK, PipelineInv, ReviewsKeepTheirTransfer, Review, reading
<1>7. OneOpenPayment'
  BY <1>1, <1>2 DEF PipelineInv, OneOpenPayment, OpenPayments, Open, Instructed
<1>8. ReviewIsVisible'
  BY <1>1, <1>2 DEF PipelineInv, ReviewIsVisible, Review
<1> QED BY <1>3, <1>4, <1>5, <1>6, <1>7, <1>8 DEF PipelineInv

LEMMA StepIsSound == SalesTypeOK /\ PipelineInv /\ [SalesNext]_salesVars => PipelineInv'
<1> SUFFICES ASSUME SalesTypeOK, PipelineInv, [SalesNext]_salesVars PROVE PipelineInv'
  OBVIOUS
<1>1. ASSUME NEW t \in Turn, TurnStep(t) PROVE PipelineInv'
  BY <1>1, TurnBeginsSoundly, PrepareTransferIsSound, TurnWritesSoundly DEF TurnStep
<1>2. ASSUME NEW h \in Hook, (\E f \in Proof : ReadPayment(h, f)) \/ RecordProof(h)
      PROVE  PipelineInv'
  BY <1>2, ReadPaymentIsSound, RecordProofIsSound
<1>3. ASSUME NEW o \in Operator, OperatorStep(o) PROVE PipelineInv'
  BY <1>3, OperatorBeginsSoundly, OperatorDecidesSoundly, MoveStageIsSound DEF OperatorStep
<1>4. ASSUME NEW a \in Actor, Rollback(a) PROVE PipelineInv'
  BY <1>4, RollbackIsSound
<1>5. ASSUME NEW p \in Payment, ReconcileInstruction(p) PROVE PipelineInv'
  BY <1>5, ReconcileInstructionIsSound
<1>6. CASE UNCHANGED salesVars
  BY <1>6 DEF salesVars, rows, reading, PipelineInv, ReadsAreBacked, MovesAreAllowed,
              AskedAreQualified, ProofsFindTheirTransfer, AwaitsProof,
              ReviewsKeepTheirTransfer, OneOpenPayment, OpenPayments, ReviewIsVisible,
              StageIsReported, Backed
<1> QED BY <1>1, <1>2, <1>3, <1>4, <1>5, <1>6 DEF SalesNext

\* Every read that will be written is good enough, and what the reviewers of
\* a transfer rely on holds in every reachable state.
THEOREM PipelineCorrect == SalesSpec => []PipelineInv
<1>1. SalesInit => SalesTypeOK /\ PipelineInv
  BY InitIsTyped, InitIsSound
<1>2. SalesTypeOK /\ PipelineInv /\ [SalesNext]_salesVars => (SalesTypeOK /\ PipelineInv)'
  BY StepIsTyped, StepIsSound
<1> QED BY <1>1, <1>2, PTL DEF SalesSpec

-----------------------------------------------------------------------------
(* What follows.                                                           *)

\* A conversation never has two open transfers.
THEOREM OneIsOpen == SalesSpec => []OneOpenPayment
<1>1. PipelineInv => OneOpenPayment
  BY DEF PipelineInv
<1> QED BY <1>1, PipelineCorrect, PTL

\* A transfer that waits for a decision always has an open task.
THEOREM ReviewsAreSeen == SalesSpec => []ReviewIsVisible
<1>1. PipelineInv => ReviewIsVisible
  BY DEF PipelineInv
<1> QED BY <1>1, PipelineCorrect, PTL

\* The stage the pipeline shows was reported with its milestone.
THEOREM StagesAreReported == SalesSpec => []StageIsReported
<1>1. PipelineInv => StageIsReported
  BY DEF PipelineInv
<1> QED BY <1>1, PipelineCorrect, PTL

\* No step changes what became of a decided transfer.
LEMMA DecidedStays ==
  ASSUME SalesTypeOK, PipelineInv, [SalesNext]_salesVars, NEW p \in Payment, transfer[p] \in Decided
  PROVE  transfer'[p] = transfer[p]
<1> USE DEF SalesTypeOK
<1>1. ASSUME NEW t \in Turn, TurnStep(t) PROVE transfer'[p] = transfer[p]
  BY <1>1 DEF TurnStep, ReadLead, PrepareTransfer, PrepareTransferUnless, ReadProfile,
              RecordProfile, ReadPromotable, Qualify, ReadHandedLead, HandOver, rows, Decided
<1>2. ASSUME NEW h \in Hook, (\E f \in Proof : ReadPayment(h, f)) \/ RecordProof(h)
      PROVE  transfer'[p] = transfer[p]
  <2>1. CASE RecordProof(h)
    <3>1. h \in Actor /\ step[h] = "proving"
      BY <2>1 DEF RecordProof, Actor
    <3>2. AwaitsProof(found[h]) => transfer[about[h]] \in Instructed
      BY <3>1 DEF PipelineInv, ProofsFindTheirTransfer
    <3> QED BY <2>1, <3>2 DEF RecordProof, Instructed, Decided
  <2> QED BY <1>2, <2>1 DEF ReadPayment, rows
<1>3. ASSUME NEW o \in Operator, OperatorStep(o) PROVE transfer'[p] = transfer[p]
  <2>1. CASE StartReview(o) \/ Approve(o) \/ Reject(o)
    <3>1. o \in Actor /\ step[o] \in {"reviewing", "approving", "rejecting"}
      BY <2>1 DEF StartReview, Approve, Reject, Actor
    <3>2. transfer[about[o]] \in Review
      BY <3>1 DEF PipelineInv, ReviewsKeepTheirTransfer
    <3>3. p # about[o]
      BY <3>2 DEF Review, Decided
    <3> QED BY <2>1, <3>3 DEF StartReview, Approve, Reject
  <2> QED BY <1>3, <2>1 DEF OperatorStep, ReadTransfer, ReadStage, MoveStage, rows
<1>4. ASSUME NEW a \in Actor, Rollback(a) PROVE transfer'[p] = transfer[p]
  BY <1>4 DEF Rollback, rows
<1>5. ASSUME NEW q \in Payment, ReconcileInstruction(q) PROVE transfer'[p] = transfer[p]
  BY <1>5 DEF ReconcileInstruction, Decided
<1>6. CASE UNCHANGED salesVars
  BY <1>6 DEF salesVars, rows
<1> QED BY <1>1, <1>2, <1>3, <1>4, <1>5, <1>6 DEF SalesNext

\* A decision on a transfer is final.
THEOREM DecisionsAreFinal == SalesSpec => DecisionIsFinal
<1>1. SalesTypeOK /\ PipelineInv /\ [SalesNext]_salesVars
        => [\A p \in Payment : transfer[p] \in Decided => transfer'[p] = transfer[p]]_salesVars
  BY DecidedStays
<1> QED BY <1>1, TypeCorrect, PipelineCorrect, PTL DEF SalesSpec, DecisionIsFinal
=============================================================================
