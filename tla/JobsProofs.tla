------------------------------ MODULE JobsProofs ------------------------------
(* Machine-checked proofs about the two users of BullMQ's queues: Campaigns,    *)
(* for any number of recipients, jobs, operators, handlers, attempts and        *)
(* failures, and LearningReview, for any number of complaints, lessons and      *)
(* supervisors, any limits and any number of accidents.                         *)
EXTENDS Campaigns, LearningReview, TLAPS

-------------------------------------------------------------------------------
(* Campaigns.                                                                   *)

\* The values of actors that have nothing to do.
LEMMA Defaults ==
  /\ SomeRecipient \in Recipient
  /\ NothingSeen \in [Recipient -> {"no", "eligible", "ineligible"}]
BY ActorsAssumption DEF SomeRecipient, NothingSeen

\* The part of the type invariant that actors change when they move.
TypeActors ==
  /\ pc \in [Actor -> PC]
  /\ target \in [Actor -> Recipient]
  /\ tries \in [Job -> 0..Attempts]
  /\ trying \in SUBSET Job
  /\ seen \in [Operator -> [Recipient -> {"no", "eligible", "ineligible"}]]
  /\ news \in [Hook -> RecipientStatus]
  /\ failures \in 0..MaxFailures
  /\ TriesLeft

\* The part about the rows.
TypeRows ==
  /\ campaign \in CampaignStatus
  /\ status \in [Recipient -> RecipientStatus \union {"ABSENT"}]
  /\ attempted \in [Recipient -> BOOLEAN]
  /\ wamid \in [Recipient -> BOOLEAN]
  /\ consent \in [Recipient -> Consent]

\* The type invariant is made of the two and Meta's counters.
LEMMA TypeParts ==
  TypeOK <=> /\ TypeRows
             /\ wire \in [Recipient -> Nat] /\ accepted \in [Recipient -> Nat]
             /\ TypeActors
BY DEF TypeOK, TypeRows, TypeActors

\* The same of the next state.
LEMMA TypePartsNext ==
  ASSUME TypeRows', TypeActors',
         wire' \in [Recipient -> Nat], accepted' \in [Recipient -> Nat]
  PROVE  TypeOK'
BY DEF TypeOK, TypeRows, TypeActors

\* Rows nobody touches stay well typed.
LEMMA TypeRowsKept == TypeRows /\ UNCHANGED rows => TypeRows'
BY DEF TypeRows, rows

\* The actors of each sort are actors, and nobody is of two sorts.
LEMMA Sorts ==
  /\ Job \subseteq Actor /\ Operator \subseteq Actor /\ Hook \subseteq Actor
  /\ \A j \in Job : j \notin Operator /\ j \notin Hook
BY ActorsAssumption DEF Actor

\* Where a job may be without attempts left.
OutOfTries == {"marking", "exhausted"} \union Completing \union OperatorPC

\* Actors that end or go on stay well typed.
LEMMA TypeForget ==
  ASSUME TypeActors, NEW a \in Actor, Forget(a) PROVE TypeActors'
<1>1. pc' \in [Actor -> PC] /\ target' \in [Actor -> Recipient]
  BY Defaults DEF Forget, Goto, TypeActors, PC
<1>2. tries' \in [Job -> 0..Attempts] /\ trying' \in SUBSET Job
  BY BoundsAssumption DEF Forget, TypeActors
<1>3. /\ seen' \in [Operator -> [Recipient -> {"no", "eligible", "ineligible"}]]
      /\ news' \in [Hook -> RecipientStatus]
  BY Defaults DEF Forget, TypeActors, RecipientStatus, Reached
<1>4. TriesLeft'
  BY Sorts, BoundsAssumption DEF Forget, Goto, TypeActors, TriesLeft
<1>5. QED
  BY <1>1, <1>2, <1>3, <1>4 DEF Forget, TypeActors

LEMMA TypeContinue ==
  ASSUME TypeActors, NEW a \in Actor, NEW next \in PC, Continue(a, next),
         a \in Job => tries[a] < Attempts \/ next \in OutOfTries
  PROVE  TypeActors'
<1>1. pc' \in [Actor -> PC]
  BY DEF Continue, Goto, TypeActors
<1>2. TriesLeft'
  BY Sorts DEF Continue, Goto, TypeActors, TriesLeft, OutOfTries, JobPC,
     Completing, OperatorPC
<1>3. QED
  BY <1>1, <1>2 DEF Continue, TypeActors

\* A job whose attempt ends stays well typed.
LEMMA TypeEndAttempt ==
  ASSUME TypeActors, NEW j \in Job, tries[j] < Attempts, EndAttempt(j),
         failures' \in 0..MaxFailures
  PROVE  TypeActors'
<1>1. tries' \in [Job -> 0..Attempts] /\ tries'[j] = tries[j] + 1
  BY BoundsAssumption DEF EndAttempt, TypeActors
<1>2. pc' \in [Actor -> PC]
  BY DEF EndAttempt, Goto, TypeActors, PC, JobPC
<1>3. TriesLeft'
  BY <1>1, Sorts, BoundsAssumption DEF EndAttempt, Goto, TypeActors, TriesLeft, JobPC
<1>4. QED
  BY <1>1, <1>2, <1>3 DEF EndAttempt, TypeActors

-----------------------------------------------------------------------------
(* Type correctness, one step for each action.                             *)

LEMMA TypeInit == Init => TypeOK
<1>1. SUFFICES ASSUME Init PROVE TypeOK
  OBVIOUS
<1>2. TypeRows /\ wire \in [Recipient -> Nat] /\ accepted \in [Recipient -> Nat]
  BY <1>1 DEF Init, TypeRows, CampaignStatus, Consent
<1>3. TypeActors
  BY <1>1, Defaults, Sorts, BoundsAssumption
     DEF Init, TypeActors, TriesLeft, PC, RecipientStatus, Reached
<1>4. QED
  BY <1>2, <1>3, TypeParts

\* The steps of operators.
LEMMA TypeOperator ==
  ASSUME TypeOK, NEW o \in Operator, OperatorStep(o) PROVE TypeOK'
<1>t. /\ TypeRows /\ TypeActors /\ o \in Actor /\ o \notin Job
      /\ wire \in [Recipient -> Nat] /\ accepted \in [Recipient -> Nat]
  BY TypeParts, Sorts
<1>1. CASE RequestStart(o)
  <2>1. TypeActors'
    BY <1>1, <1>t, TypeContinue DEF RequestStart, PC, OperatorPC
  <2>2. QED
    BY <1>1, <1>t, <2>1, TypePartsNext, TypeRowsKept DEF RequestStart, meta
<1>2. CASE ReadRecipients(o)
  <2>1. pc' \in [Actor -> PC] /\ TriesLeft'
    BY <1>2, <1>t DEF ReadRecipients, Goto, TypeActors, TriesLeft, PC, OperatorPC
  <2>2. TypeActors'
    BY <1>2, <1>t, <2>1 DEF ReadRecipients, TypeActors
  <2>3. QED
    BY <1>2, <1>t, <2>2, TypePartsNext, TypeRowsKept DEF ReadRecipients, meta
<1>3. CASE NothingToStart(o)
  BY <1>3, <1>t, TypeForget, TypePartsNext, TypeRowsKept DEF NothingToStart, meta
<1>4. CASE Start(o)
  <2>1. TypeActors'
    BY <1>4, <1>t, TypeContinue DEF Start, PC, OperatorPC
  <2>2. TypeRows'
    BY <1>4, <1>t DEF Start, TypeRows, CampaignStatus, RecipientStatus, Open
  <2>3. QED
    BY <1>4, <1>t, <2>1, <2>2, TypePartsNext, TypeRowsKept DEF Start, meta
<1>5. ASSUME NEW j \in Job, Enqueue(o, j) PROVE TypeOK'
  <2>1. pc' \in [Actor -> PC] /\ target' \in [Actor -> Recipient]
    BY <1>5, <1>t DEF Enqueue, Goto, TypeActors, PC, JobPC
  <2>2. TriesLeft'
    BY <1>5, <1>t, Sorts DEF Enqueue, Goto, TypeActors, TriesLeft
  <2>3. seen' \in [Operator -> [Recipient -> {"no", "eligible", "ineligible"}]]
    BY <1>5, <1>t DEF Enqueue, TypeActors
  <2>4. TypeActors'
    BY <1>5, <1>t, <2>1, <2>2, <2>3 DEF Enqueue, TypeActors
  <2>5. QED
    BY <1>5, <1>t, <2>4, TypePartsNext, TypeRowsKept DEF Enqueue, meta
<1>6. CASE Started(o)
  BY <1>6, <1>t, TypeForget, TypePartsNext, TypeRowsKept DEF Started, meta
<1>7. CASE RequestPause(o)
  <2>1. TypeActors'
    BY <1>7, <1>t, TypeContinue DEF RequestPause, PC, OperatorPC
  <2>2. QED
    BY <1>7, <1>t, <2>1, TypePartsNext, TypeRowsKept DEF RequestPause, meta
<1>8. CASE RequestCancel(o)
  <2>1. TypeActors'
    BY <1>8, <1>t, TypeContinue DEF RequestCancel, PC, OperatorPC
  <2>2. QED
    BY <1>8, <1>t, <2>1, TypePartsNext, TypeRowsKept DEF RequestCancel, meta
<1>9. CASE Stop(o)
  <2>1. TypeActors'
    BY <1>9, <1>t, TypeForget DEF Stop
  <2>2. TypeRows'
    BY <1>9, <1>t DEF Stop, TypeRows, CampaignStatus
  <2>3. QED
    BY <1>9, <1>t, <2>1, <2>2, TypePartsNext, TypeRowsKept DEF Stop, meta
<1>10. CASE RequestImport(o)
  <2>1. TypeActors'
    BY <1>10, <1>t, TypeContinue DEF RequestImport, PC, OperatorPC
  <2>2. QED
    BY <1>10, <1>t, <2>1, TypePartsNext, TypeRowsKept DEF RequestImport, meta
<1>11. ASSUME NEW r \in Recipient, ReadContact(o, r) PROVE TypeOK'
  <2>1. /\ pc' \in [Actor -> PC] /\ target' \in [Actor -> Recipient]
        /\ TriesLeft'
    BY <1>11, <1>t DEF ReadContact, Goto, TypeActors, TriesLeft, PC, OperatorPC
  <2>2. seen' \in [Operator -> [Recipient -> {"no", "eligible", "ineligible"}]]
    BY <1>11, <1>t DEF ReadContact, TypeActors
  <2>3. TypeActors'
    BY <1>11, <1>t, <2>1, <2>2 DEF ReadContact, TypeActors
  <2>4. QED
    BY <1>11, <1>t, <2>3, TypePartsNext, TypeRowsKept DEF ReadContact, meta
<1>12. CASE WriteContact(o)
  <2>1. consent' \in [Recipient -> Consent]
    BY <1>12, <1>t DEF WriteContact, TypeRows, TypeActors, Consent
  <2>p. PICK next \in PC : pc' = [pc EXCEPT ![o] = next]
    BY <1>12 DEF WriteContact, Goto, PC, OperatorPC
  <2>2. pc' \in [Actor -> PC] /\ TriesLeft'
    BY <1>12, <1>t, <2>p DEF WriteContact, TypeActors, TriesLeft
  <2>3. TypeActors'
    BY <1>12, <1>t, <2>2, Defaults DEF WriteContact, TypeActors
  <2>4. QED
    BY <1>12, <1>t, <2>1, <2>3, TypePartsNext, TypeRowsKept DEF WriteContact, meta, TypeRows
<1>13. CASE UpsertRecipient(o)
  <2>1. TypeRows'
    BY <1>13, <1>t DEF UpsertRecipient, TypeRows, TypeActors, RecipientStatus, Open
  <2>2. /\ pc' \in [Actor -> PC] /\ target' \in [Actor -> Recipient]
        /\ TriesLeft'
    BY <1>13, <1>t, Defaults
       DEF UpsertRecipient, Goto, TypeActors, TriesLeft, PC, OperatorPC
  <2>3. TypeActors'
    BY <1>13, <1>t, <2>2 DEF UpsertRecipient, TypeActors
  <2>4. QED
    BY <1>13, <1>t, <2>1, <2>3, TypePartsNext, TypeRowsKept DEF UpsertRecipient, meta
<1>14. CASE Imported(o)
  <2>1. TypeActors'
    BY <1>14, <1>t, TypeForget DEF Imported
  <2>2. TypeRows'
    BY <1>14, <1>t DEF Imported, TypeRows, CampaignStatus
  <2>3. QED
    BY <1>14, <1>t, <2>1, <2>2, TypePartsNext, TypeRowsKept DEF Imported, meta
<1>15. QED
  BY <1>1, <1>2, <1>3, <1>4, <1>5, <1>6, <1>7, <1>8, <1>9, <1>10, <1>11, <1>12,
     <1>13, <1>14 DEF OperatorStep

\* The steps of jobs.
LEMMA TypeJob ==
  ASSUME TypeOK, NEW j \in Job, JobStep(j) PROVE TypeOK'
<1>t. /\ TypeRows /\ TypeActors /\ j \in Actor /\ target[j] \in Recipient
      /\ wire \in [Recipient -> Nat] /\ accepted \in [Recipient -> Nat]
  BY TypeParts, Sorts DEF TypeActors
<1>l. pc[j] \in JobPC \ {"exhausted"} => tries[j] < Attempts
  BY <1>t DEF TypeActors, TriesLeft
<1>1. CASE ReadRecipient(j)
  <2>1. CASE Forget(j)
    BY <1>1, <1>t, <2>1, TypeForget, TypePartsNext, TypeRowsKept DEF ReadRecipient, meta
  <2>2. CASE ~Forget(j)
    <3>1. PICK next \in PC : Continue(j, next)
      BY <1>1, <2>2 DEF ReadRecipient, PC, JobPC
    <3>2. TypeActors'
      BY <1>1, <1>t, <1>l, <3>1, TypeContinue DEF ReadRecipient, JobPC
    <3>3. QED
      BY <1>1, <1>t, <3>2, TypePartsNext, TypeRowsKept DEF ReadRecipient, meta
  <2>3. QED
    BY <2>1, <2>2
<1>2. CASE Skip(j)
  <2>1. TypeRows'
    BY <1>2, <1>t DEF Skip, TypeRows, RecipientStatus
  <2>2. QED
    BY <1>2, <1>t, <2>1, TypeForget, TypePartsNext DEF Skip, meta
<1>3. CASE ClaimRecipient(j)
  <2>1. TypeRows'
    BY <1>3, <1>t DEF ClaimRecipient, TypeRows
  <2>2. TypeActors'
    BY <1>3, <1>t, <1>l, TypeForget, TypeContinue DEF ClaimRecipient, PC, JobPC
  <2>3. QED
    BY <1>3, <1>t, <2>1, <2>2, TypePartsNext DEF ClaimRecipient, meta
<1>4. CASE Send(j)
  <2>1. wire' \in [Recipient -> Nat]
    BY <1>4, <1>t DEF Send
  <2>2. pc' \in [Actor -> PC] /\ TriesLeft'
    BY <1>4, <1>t, <1>l DEF Send, Goto, TypeActors, TriesLeft, PC, JobPC
  <2>3. TypeActors'
    BY <1>4, <1>t, <2>2 DEF Send, TypeActors
  <2>4. QED
    BY <1>4, <1>t, <2>1, <2>3, TypePartsNext, TypeRowsKept DEF Send
<1>5. ASSUME Answered(j), NEW next \in {"accepted", "throttled", "failed"},
             Continue(j, next), accepted' \in [Recipient -> Nat]
      PROVE  TypeOK'
  <2>1. wire' \in [Recipient -> Nat]
    BY <1>5, <1>t DEF Answered
  <2>2. TypeActors'
    BY <1>5, <1>t, <1>l, TypeContinue DEF Answered, PC, JobPC
  <2>3. QED
    BY <1>5, <1>t, <2>1, <2>2, TypePartsNext, TypeRowsKept DEF Answered
<1>8. CASE NoAnswer(j)
  <2>1. TypeActors'
    BY <1>8, <1>t, <1>l, TypeContinue DEF NoAnswer, PC, JobPC
  <2>2. QED
    BY <1>8, <1>t, <2>1, TypePartsNext, TypeRowsKept DEF NoAnswer, meta
<1>6. CASE MetaAccepts(j)
  <2>1. accepted' \in [Recipient -> Nat]
    BY <1>6, <1>t DEF MetaAccepts
  <2>2. QED
    BY <1>6, <1>5, <2>1 DEF MetaAccepts
<1>7. CASE MetaRejects(j)
  BY <1>7, <1>5, <1>t DEF MetaRejects
<1>9. CASE RecordSent(j)
  <2>1. TypeRows'
    BY <1>9, <1>t DEF RecordSent, TypeRows, RecipientStatus, Reached
  <2>2. TypeActors'
    BY <1>9, <1>t, TypeContinue DEF RecordSent, PC, OutOfTries, Completing
  <2>3. QED
    BY <1>9, <1>t, <2>1, <2>2, TypePartsNext DEF RecordSent, meta
<1>10. CASE Release(j)
  <2>1. TypeRows'
    BY <1>10, <1>t DEF Release, TypeRows
  <2>2. TypeActors'
    BY <1>10, <1>t, <1>l, TypeEndAttempt DEF Release, JobPC, TypeActors
  <2>3. QED
    BY <1>10, <1>t, <2>1, <2>2, TypePartsNext DEF Release, meta
<1>11. CASE RecordFailed(j)
  <2>1. TypeRows'
    BY <1>11, <1>t DEF RecordFailed, TypeRows, RecipientStatus
  <2>2. pc' \in [Actor -> PC] /\ TriesLeft'
    BY <1>11, <1>t DEF RecordFailed, Goto, TypeActors, TriesLeft, PC, JobPC, Completing
  <2>3. TypeActors'
    BY <1>11, <1>t, <2>2 DEF RecordFailed, TypeActors
  <2>4. QED
    BY <1>11, <1>t, <2>1, <2>3, TypePartsNext DEF RecordFailed, meta
<1>12. CASE GiveUp(j)
  <2>1. TypeRows'
    BY <1>12, <1>t DEF GiveUp, TypeRows, RecipientStatus
  <2>2. TypeActors'
    BY <1>12, <1>t, TypeForget, TypeContinue DEF GiveUp, PC, OutOfTries, Completing
  <2>3. QED
    BY <1>12, <1>t, <2>1, <2>2, TypePartsNext DEF GiveUp, meta
<1>13. QED
  BY <1>1, <1>2, <1>3, <1>4, <1>6, <1>7, <1>8, <1>9, <1>10, <1>11, <1>12 DEF JobStep

\* Failing and dying jobs.
LEMMA TypeJobFails ==
  ASSUME TypeOK, NEW j \in Job, FailsInside(j) \/ FailsOutside(j) \/ Dies(j)
  PROVE  TypeOK'
<1>t. /\ TypeRows /\ TypeActors /\ j \in Actor
      /\ wire \in [Recipient -> Nat] /\ accepted \in [Recipient -> Nat]
  BY TypeParts, Sorts
<1>f. failures' \in 0..MaxFailures
  BY <1>t, BoundsAssumption DEF FailsInside, FailsOutside, Dies, TypeActors
<1>1. CASE FailsInside(j)
  <2>1. pc' \in [Actor -> PC] /\ TriesLeft'
    BY <1>1, <1>t DEF FailsInside, Goto, TypeActors, TriesLeft, PC, JobPC
  <2>2. TypeActors'
    BY <1>1, <1>t, <1>f, <2>1 DEF FailsInside, TypeActors
  <2>3. QED
    BY <1>1, <1>t, <2>2, TypePartsNext, TypeRowsKept DEF FailsInside, meta
<1>2. CASE FailsOutside(j)
  BY <1>2, <1>t, <1>f, TypeEndAttempt, TypePartsNext, TypeRowsKept
     DEF FailsOutside, meta
<1>3. CASE Dies(j)
  <2>1. pc' \in [Actor -> PC] /\ target' \in [Actor -> Recipient]
    BY <1>3, <1>t, Defaults DEF Dies, Goto, TypeActors, PC, JobPC
  <2>2. tries' \in [Job -> 0..Attempts] /\ TriesLeft'
    BY <1>3, <1>t, Sorts, BoundsAssumption
       DEF Dies, Goto, TypeActors, TriesLeft, JobPC
  <2>3. TypeActors'
    BY <1>3, <1>t, <1>f, <2>1, <2>2 DEF Dies, TypeActors
  <2>4. QED
    BY <1>3, <1>t, <2>3, TypePartsNext, TypeRowsKept DEF Dies, meta
<1>4. QED
  BY <1>1, <1>2, <1>3

\* The steps of webhook handlers.
LEMMA TypeHook ==
  ASSUME TypeOK, NEW h \in Hook, HookStep(h) PROVE TypeOK'
<1>t. /\ TypeRows /\ TypeActors /\ h \in Actor /\ h \notin Job
      /\ wire \in [Recipient -> Nat] /\ accepted \in [Recipient -> Nat]
  BY TypeParts, Sorts
<1>1. ASSUME NEW r \in Recipient, NEW st \in RecipientStatus,
             Goto(h, "marking"), target' = [target EXCEPT ![h] = r],
             news' = [news EXCEPT ![h] = st],
             UNCHANGED <<rows, meta, tries, trying, seen, failures>>
      PROVE  TypeOK'
  <2>1. /\ pc' \in [Actor -> PC] /\ target' \in [Actor -> Recipient]
        /\ news' \in [Hook -> RecipientStatus]
    BY <1>1, <1>t DEF Goto, TypeActors, PC
  <2>2. TriesLeft'
    BY <1>1, <1>t DEF Goto, TypeActors, TriesLeft
  <2>3. TypeActors'
    BY <1>1, <1>t, <2>1, <2>2 DEF TypeActors
  <2>4. QED
    BY <1>1, <1>t, <2>3, TypePartsNext, TypeRowsKept DEF meta
<1>2. ASSUME NEW r \in Recipient, HearReply(h, r) PROVE TypeOK'
  BY <1>1, <1>2 DEF HearReply, RecipientStatus, Reached
<1>3. ASSUME NEW r \in Recipient, NEW st \in RecipientStatus, HearStatus(h, r, st)
      PROVE  TypeOK'
  BY <1>1, <1>3 DEF HearStatus
<1>4. CASE Mark(h)
  <2>1. TypeActors'
    BY <1>4, <1>t, TypeContinue DEF Mark, PC, OutOfTries, Completing
  <2>2. TypeRows'
    BY <1>4, <1>t DEF Mark, TypeRows, TypeActors
  <2>3. QED
    BY <1>4, <1>t, <2>1, <2>2, TypePartsNext DEF Mark, meta
<1>5. QED
  BY <1>2, <1>3, <1>4 DEF HookStep

LEMMA TypeNext == TypeOK /\ [Next]_vars => TypeOK'
<1>1. SUFFICES ASSUME TypeOK, [Next]_vars PROVE TypeOK'
  OBVIOUS
<1>t. /\ TypeRows /\ TypeActors
      /\ wire \in [Recipient -> Nat] /\ accepted \in [Recipient -> Nat]
  BY <1>1, TypeParts
<1>2. ASSUME NEW a \in Actor, Completion(a) PROVE TypeOK'
  <2>1. /\ Forget(a) \/ \E next \in Completing : Continue(a, next)
        /\ UNCHANGED <<status, attempted, wamid, consent, meta>>
        /\ campaign' \in CampaignStatus
    BY <1>2, <1>t DEF Completion, ReadCampaign, CountOpen, Complete, Completing,
       CampaignStatus, rows, TypeRows
  <2>2. TypeActors'
    BY <1>t, <2>1, TypeForget, TypeContinue DEF Completing, OutOfTries, PC
  <2>3. QED
    BY <1>t, <2>1, <2>2, TypePartsNext DEF TypeRows, meta
<1>3. ASSUME NEW a \in Actor, Abandons(a) PROVE TypeOK'
  BY <1>3, <1>t, TypeForget, TypePartsNext, TypeRowsKept DEF Abandons, meta
<1>4. ASSUME NEW r \in Recipient, MetaTakesLate(r) PROVE TypeOK'
  <2>1. wire' \in [Recipient -> Nat] /\ accepted' \in [Recipient -> Nat]
    BY <1>4, <1>t DEF MetaTakesLate
  <2>2. TypeActors'
    BY <1>4, <1>t DEF MetaTakesLate, actors, TypeActors, TriesLeft
  <2>3. QED
    BY <1>4, <1>t, <2>1, <2>2, TypePartsNext, TypeRowsKept DEF MetaTakesLate
<1>5. ASSUME NEW r \in Recipient, OptOut(r) PROVE TypeOK'
  <2>1. TypeRows'
    BY <1>5, <1>t DEF OptOut, TypeRows, Consent
  <2>2. TypeActors'
    BY <1>5, <1>t DEF OptOut, actors, TypeActors, TriesLeft
  <2>3. QED
    BY <1>5, <1>t, <2>1, <2>2, TypePartsNext DEF OptOut, meta
<1>6. CASE UNCHANGED vars
  BY <1>1, <1>6 DEF vars, rows, meta, actors, TypeOK, TriesLeft
<1>7. QED
  BY <1>1, <1>2, <1>3, <1>4, <1>5, <1>6, TypeOperator, TypeJob, TypeJobFails,
     TypeHook DEF Next

\* Type correctness: whatever operators, jobs and handlers do to each other,
\* every variable stays in its range, and no job exceeds its attempts.
THEOREM TypeCorrect == Spec => []TypeOK
  BY TypeInit, TypeNext, PTL DEF Spec

-----------------------------------------------------------------------------
(* Nobody is sent to twice.                                                *)

\* What a recipient's row and Meta's counters have to agree on.
RowInv(r) ==
  /\ accepted[r] + wire[r] <= 1
  /\ ~attempted[r] => accepted[r] = 0 /\ wire[r] = 0
  /\ wamid[r] => accepted[r] = 1
  /\ status[r] \in Reached => wamid[r]

\* The statuses and their groups.
LEMMA Statuses ==
  /\ Open \cap Reached = {}
  /\ "FAILED" \notin Reached /\ "SKIPPED" \notin Reached /\ "ABSENT" \notin Reached
BY DEF Open, Reached

\* The initial state: nobody was claimed, nothing is on its way.
LEMMA SendInit == Init => SendInv
BY Sorts, Statuses, ActorsAssumption
   DEF Init, SendInv, AtMostOnce, FreeMeansUnsent, SentIsTrue, HolderIsAlone,
       HolderKnowsMeta, NewsHasWamid, Holding, Actor

(***************************************************************************)
(* A step that leaves Meta and the claims alone, makes no job hold a       *)
(* recipient that it did not hold, and writes only statuses that are true. *)
(***************************************************************************)
LEMMA SendBystander ==
  ASSUME TypeOK, SendInv,
         UNCHANGED <<attempted, wamid, wire, accepted>>,
         \A j \in Job : pc'[j] \in Holding => pc'[j] = pc[j] /\ target'[j] = target[j],
         \A h \in Hook : pc'[h] = "marking" => wamid[target'[h]],
         \A r \in Recipient : status'[r] \in Reached => wamid[r]
  PROVE  SendInv'
<1>1. AtMostOnce' /\ FreeMeansUnsent' /\ SentIsTrue'
  BY DEF SendInv, AtMostOnce, FreeMeansUnsent, SentIsTrue
<1>2. HolderIsAlone'
  BY DEF SendInv, HolderIsAlone
<1>3. HolderKnowsMeta'
  BY DEF SendInv, HolderKnowsMeta
<1>4. NewsHasWamid'
  BY DEF NewsHasWamid
<1>5. QED
  BY <1>1, <1>2, <1>3, <1>4 DEF SendInv

\* The same, for a step of one actor that writes no status at all.
LEMMA SendQuiet ==
  ASSUME TypeOK, SendInv,
         UNCHANGED <<status, attempted, wamid, wire, accepted>>,
         NEW a \in Actor, NEW next \in PC \ (Holding \union {"marking"}),
         Goto(a, next),
         \A b \in Actor : b # a => target'[b] = target[b]
  PROVE  SendInv'
<1>1. \A b \in Actor : pc'[b] = IF b = a THEN next ELSE pc[b]
  BY DEF Goto, TypeOK
<1>2. \A j \in Job : pc'[j] \in Holding => pc'[j] = pc[j] /\ target'[j] = target[j]
  BY <1>1, Sorts
<1>3. \A h \in Hook : pc'[h] = "marking" => wamid[target'[h]]
  BY <1>1, Sorts DEF SendInv, NewsHasWamid
<1>4. \A r \in Recipient : status'[r] \in Reached => wamid[r]
  BY DEF SendInv, SentIsTrue
<1>5. QED
  BY <1>2, <1>3, <1>4, SendBystander

\* An actor with nothing more to do.
LEMMA SendForget ==
  ASSUME TypeOK, SendInv, NEW a \in Actor, Forget(a),
         UNCHANGED <<status, attempted, wamid, wire, accepted>>
  PROVE  SendInv'
<1>1. \A b \in Actor : b # a => target'[b] = target[b]
  BY DEF Forget, TypeOK
<1>2. "idle" \in PC \ (Holding \union {"marking"})
  BY DEF PC, Holding
<1>3. QED
  BY <1>1, <1>2, SendQuiet DEF Forget

\* The steps of operators.
LEMMA SendOperator ==
  ASSUME TypeOK, SendInv, NEW o \in Operator, OperatorStep(o) PROVE SendInv'
<1>o. o \in Actor /\ o \notin Job /\ o \notin Hook
  BY Sorts, ActorsAssumption
<1>p. /\ OperatorPC \subseteq PC \ (Holding \union {"marking"})
      /\ {"idle", "waiting"} \subseteq PC \ (Holding \union {"marking"})
  BY DEF PC, OperatorPC, Holding, JobPC
<1>s. \A r \in Recipient : status[r] \in Reached => wamid[r]
  BY DEF SendInv, SentIsTrue
<1>1. ASSUME NEW next \in OperatorPC, Goto(o, next),
             UNCHANGED <<status, attempted, wamid, wire, accepted>>,
             \A b \in Actor : b # o => target'[b] = target[b]
      PROVE  SendInv'
  BY <1>1, <1>o, <1>p, SendQuiet
<1>2. CASE RequestStart(o) \/ RequestPause(o) \/ RequestCancel(o) \/ RequestImport(o)
  BY <1>1, <1>2 DEF RequestStart, RequestPause, RequestCancel, RequestImport,
     Continue, OperatorPC, rows, meta
<1>3. CASE ReadRecipients(o)
  BY <1>1, <1>3 DEF ReadRecipients, OperatorPC, rows, meta
<1>4. CASE NothingToStart(o) \/ Started(o) \/ Stop(o) \/ Imported(o)
  BY <1>4, <1>o, SendForget DEF NothingToStart, Started, Stop, Imported, rows, meta
<1>5. CASE Start(o)
  <2>1. \A r \in Recipient : status'[r] \in Reached => wamid[r]
    BY <1>5, <1>s, Statuses DEF Start, Open, Reached
  <2>2. \A b \in Actor : pc'[b] = IF b = o THEN "queueing" ELSE pc[b]
    BY <1>5 DEF Start, Continue, Goto, TypeOK
  <2>3. UNCHANGED <<attempted, wamid, wire, accepted, target>>
    BY <1>5 DEF Start, Continue, meta
  <2>4. QED
    BY <1>o, <2>1, <2>2, <2>3, Sorts, SendBystander DEF SendInv, NewsHasWamid
<1>6. ASSUME NEW j \in Job, Enqueue(o, j) PROVE SendInv'
  <2>1. \A b \in Actor : b # j => target'[b] = target[b]
    BY <1>6 DEF Enqueue, TypeOK
  <2>2. QED
    BY <1>6, <1>p, <2>1, Sorts, SendQuiet DEF Enqueue, rows, meta
<1>7. ASSUME NEW r \in Recipient, ReadContact(o, r) PROVE SendInv'
  <2>1. \A b \in Actor : b # o => target'[b] = target[b]
    BY <1>7 DEF ReadContact, TypeOK
  <2>2. QED
    BY <1>1, <1>7, <2>1 DEF ReadContact, OperatorPC, rows, meta
<1>8. CASE WriteContact(o)
  BY <1>1, <1>8 DEF WriteContact, OperatorPC, meta
<1>9. CASE UpsertRecipient(o)
  <2>1. \A r \in Recipient : status'[r] \in Reached => wamid[r]
    BY <1>9, <1>s DEF UpsertRecipient, TypeOK, Reached
  <2>2. \A b \in Actor : b # o => pc'[b] = pc[b] /\ target'[b] = target[b]
    BY <1>9 DEF UpsertRecipient, Goto, TypeOK
  <2>3. QED
    BY <1>9, <1>o, <2>1, <2>2, Sorts, SendBystander
       DEF UpsertRecipient, meta, SendInv, NewsHasWamid
<1>10. QED
  BY <1>2, <1>3, <1>4, <1>5, <1>6, <1>7, <1>8, <1>9 DEF OperatorStep

(***************************************************************************)
(* A step of the holder j of a recipient: it keeps the recipient to        *)
(* itself, or lets go of it, and only that row and its requests change.    *)
(***************************************************************************)
LEMMA SendHolder ==
  ASSUME TypeOK, SendInv, NEW j \in Job, NEW r \in Recipient, r = target[j],
         \A i \in Job : pc[i] \in Holding /\ target[i] = r => i = j,
         NEW next \in PC \ {"marking"}, Goto(j, next), UNCHANGED target,
         \A q \in Recipient : q # r =>
           /\ attempted'[q] = attempted[q] /\ wamid'[q] = wamid[q]
           /\ wire'[q] = wire[q] /\ accepted'[q] = accepted[q]
           /\ status'[q] = status[q],
         wamid[r] => wamid'[r],
         RowInv(r)',
         next \in Holding =>
           /\ attempted'[r]
           /\ accepted'[r] = IF next = "accepted" THEN 1 ELSE 0
           /\ wire'[r] = IF next = "awaiting" THEN 1 ELSE 0
  PROVE  SendInv'
<1>1. \A b \in Actor : pc'[b] = IF b = j THEN next ELSE pc[b]
  BY DEF Goto, TypeOK
<1>2. \A q \in Recipient : RowInv(q)'
  BY DEF SendInv, AtMostOnce, FreeMeansUnsent, SentIsTrue, RowInv
<1>3. AtMostOnce' /\ FreeMeansUnsent' /\ SentIsTrue'
  BY <1>2 DEF RowInv, AtMostOnce, FreeMeansUnsent, SentIsTrue
<1>4. \A i \in Job : i # j /\ pc'[i] \in Holding =>
        pc[i] = pc'[i] /\ target[i] # r /\ target[i] \in Recipient
  BY <1>1, Sorts DEF TypeOK
<1>5. HolderIsAlone'
  BY <1>1, <1>4, Sorts DEF SendInv, HolderIsAlone
<1>6. HolderKnowsMeta'
  BY <1>1, <1>4, Sorts DEF SendInv, HolderKnowsMeta
<1>7. NewsHasWamid'
  BY <1>1, Sorts DEF SendInv, NewsHasWamid, TypeOK
<1>8. QED
  BY <1>3, <1>5, <1>6, <1>7 DEF SendInv

\* The steps of jobs.
LEMMA SendJob ==
  ASSUME TypeOK, SendInv, NEW j \in Job, JobStep(j) PROVE SendInv'
<1>j. j \in Actor /\ j \notin Operator /\ j \notin Hook
  BY Sorts
<1>r. PICK r \in Recipient : r = target[j]
  BY <1>j DEF TypeOK
<1> USE <1>r
<1>s. \A q \in Recipient : RowInv(q)
  BY DEF SendInv, AtMostOnce, FreeMeansUnsent, SentIsTrue, RowInv
<1>q. {"skipping", "claiming", "failed"} \union Completing
        \subseteq PC \ (Holding \union {"marking"})
  BY DEF PC, JobPC, Completing, Holding
<1>p. Holding \subseteq PC \ {"marking"}
  BY DEF PC, JobPC, Holding
<1>t. /\ \A q \in Recipient : wire[q] \in Nat /\ accepted[q] \in Nat
      /\ attempted \in [Recipient -> BOOLEAN] /\ wamid \in [Recipient -> BOOLEAN]
      /\ wire \in [Recipient -> Nat] /\ accepted \in [Recipient -> Nat]
      /\ status \in [Recipient -> RecipientStatus \union {"ABSENT"}]
  BY DEF TypeOK
<1>h. pc[j] \in Holding =>
        /\ attempted[r] /\ \A i \in Job : pc[i] \in Holding /\ target[i] = r => i = j
        /\ accepted[r] = IF pc[j] = "accepted" THEN 1 ELSE 0
        /\ wire[r] = IF pc[j] = "awaiting" THEN 1 ELSE 0
  BY DEF SendInv, HolderIsAlone, HolderKnowsMeta
<1>1. CASE ReadRecipient(j)
  <2>1. CASE Forget(j)
    BY <1>1, <1>j, <2>1, SendForget DEF ReadRecipient, rows, meta
  <2>2. CASE ~Forget(j)
    <3>1. PICK next \in {"claiming", "skipping"} : Continue(j, next)
      BY <1>1, <2>2 DEF ReadRecipient
    <3>2. QED
      BY <1>1, <1>j, <1>q, <3>1, SendQuiet DEF ReadRecipient, Continue, rows, meta
  <2>3. QED
    BY <2>1, <2>2
<1>2. CASE Skip(j)
  <2>1. \A q \in Recipient : status'[q] \in Reached => wamid[q]
    BY <1>2, <1>s, <1>t, Statuses DEF Skip, RowInv
  <2>2. \A b \in Actor : pc'[b] = IF b = j THEN "idle" ELSE pc[b]
    BY <1>2 DEF Skip, Forget, Goto, TypeOK
  <2>3. \A b \in Actor : b # j => target'[b] = target[b]
    BY <1>2 DEF Skip, Forget, TypeOK
  <2>4. QED
    BY <1>2, <1>j, <2>1, <2>2, <2>3, Sorts, SendBystander
       DEF Skip, meta, SendInv, NewsHasWamid, Holding
<1>3. CASE ClaimRecipient(j)
  <2>1. CASE Claimable(r)
    <3>1. \A i \in Job : pc[i] \in Holding /\ target[i] = r => i = j
      BY <2>1 DEF Claimable, SendInv, HolderIsAlone
    <3>2. RowInv(r)'
      BY <1>3, <1>s, <1>j, <1>t, <2>1 DEF RowInv, ClaimRecipient, Claimable, meta
    <3>3. accepted'[r] = 0 /\ wire'[r] = 0 /\ attempted'[r]
      BY <1>3, <1>s, <1>j, <1>t, <2>1 DEF RowInv, ClaimRecipient, Claimable, meta
    <3>4. \A q \in Recipient : q # r => attempted'[q] = attempted[q]
      BY <1>3, <1>t, <2>1 DEF ClaimRecipient
    <3>5. "claimed" \in PC \ {"marking"} /\ Goto(j, "claimed") /\ UNCHANGED target
      BY <1>3, <1>p, <2>1 DEF ClaimRecipient, Continue, Holding
    <3>6. QED
      BY <1>3, <1>j, <3>1, <3>2, <3>3, <3>4, <3>5, SendHolder DEF ClaimRecipient, meta
  <2>2. CASE ~Claimable(r)
    BY <1>3, <1>j, <2>2, SendForget DEF ClaimRecipient, meta
  <2>3. QED
    BY <2>1, <2>2
<1>4. CASE Send(j)
  <2>1. pc[j] \in Holding
    BY <1>4 DEF Send, Holding
  <2>2. RowInv(r)' /\ accepted'[r] = 0 /\ wire'[r] = 1 /\ attempted'[r]
    BY <1>4, <1>s, <1>j, <1>t, <1>h, <2>1 DEF RowInv, Send, rows
  <2>3. \A q \in Recipient : q # r => wire'[q] = wire[q]
    BY <1>4, <1>t DEF Send
  <2>4. "awaiting" \in PC \ {"marking"}
    BY <1>p DEF Holding
  <2>5. QED
    BY <1>4, <1>j, <1>h, <2>1, <2>2, <2>3, <2>4, SendHolder DEF Send, rows
<1>5. CASE MetaAccepts(j)
  <2>1. pc[j] \in Holding
    BY <1>5 DEF MetaAccepts, Answered, Holding
  <2>2. wire'[r] = 0 /\ accepted'[r] = 1
    BY <1>5, <1>j, <1>t, <1>h, <2>1 DEF MetaAccepts, Answered
  <2>3. RowInv(r)' /\ attempted'[r]
    BY <1>5, <1>s, <1>j, <1>h, <2>1, <2>2 DEF RowInv, MetaAccepts, Answered, rows
  <2>4. \A q \in Recipient : q # r => wire'[q] = wire[q] /\ accepted'[q] = accepted[q]
    BY <1>5, <1>t DEF MetaAccepts, Answered
  <2>5. "accepted" \in PC \ {"marking"}
    BY <1>p DEF Holding
  <2>6. QED
    BY <1>5, <1>j, <1>h, <2>1, <2>2, <2>3, <2>4, <2>5, SendHolder
       DEF MetaAccepts, Answered, Continue, rows
<1>6. CASE MetaRejects(j)
  <2>1. pc[j] \in Holding
    BY <1>6 DEF MetaRejects, Answered, Holding
  <2>2. wire'[r] = 0 /\ accepted'[r] = 0
    BY <1>6, <1>j, <1>t, <1>h, <2>1 DEF MetaRejects, Answered
  <2>3. RowInv(r)' /\ attempted'[r]
    BY <1>6, <1>s, <1>j, <1>h, <2>1, <2>2 DEF RowInv, MetaRejects, Answered, rows
  <2>4. \A q \in Recipient : q # r => wire'[q] = wire[q]
    BY <1>6, <1>t DEF MetaRejects, Answered
  <2>5. PICK next \in {"throttled", "failed"} : Continue(j, next)
    BY <1>6 DEF MetaRejects
  <2>6. next \in PC \ {"marking"} /\ next # "accepted" /\ next # "awaiting"
    BY <1>p, <1>q DEF Holding
  <2>7. QED
    BY <1>6, <1>j, <1>h, <2>1, <2>2, <2>3, <2>4, <2>5, <2>6, SendHolder
       DEF MetaRejects, Answered, Continue, rows
<1>7. CASE NoAnswer(j)
  BY <1>7, <1>j, <1>q, SendQuiet DEF NoAnswer, Continue, rows, meta
<1>8. CASE RecordSent(j)
  <2>1. pc[j] \in Holding
    BY <1>8 DEF RecordSent, Holding
  <2>2. RowInv(r)' /\ wamid'[r]
    BY <1>8, <1>s, <1>j, <1>t, <1>h, <2>1 DEF RowInv, RecordSent, meta
  <2>3. \A q \in Recipient : q # r => wamid'[q] = wamid[q] /\ status'[q] = status[q]
    BY <1>8, <1>t DEF RecordSent
  <2>4. "reading" \in PC \ {"marking"} /\ "reading" \notin Holding
    BY <1>q DEF Completing
  <2>5. QED
    BY <1>8, <1>j, <1>h, <2>1, <2>2, <2>3, <2>4, SendHolder
       DEF RecordSent, Continue, meta
<1>9. CASE Release(j)
  <2>1. pc[j] \in Holding /\ pc[j] = "throttled"
    BY <1>9 DEF Release, Holding
  <2>2. RowInv(r)'
    BY <1>9, <1>s, <1>j, <1>t, <1>h, <2>1 DEF RowInv, Release, meta
  <2>3. \A q \in Recipient : q # r => attempted'[q] = attempted[q]
    BY <1>9, <1>t DEF Release
  <2>4. PICK next \in {"waiting", "exhausted"} : Goto(j, next)
    BY <1>9 DEF Release, EndAttempt
  <2>5. next \in PC \ {"marking"} /\ next \notin Holding
    BY DEF PC, JobPC, Holding
  <2>6. QED
    BY <1>9, <1>j, <1>h, <2>1, <2>2, <2>3, <2>4, <2>5, SendHolder
       DEF Release, EndAttempt, meta
<1>10. ASSUME status' = [status EXCEPT ![r] = "FAILED"], Goto(j, "reading"),
              UNCHANGED <<attempted, wamid, wire, accepted, target>>
       PROVE  SendInv'
  <2>1. \A q \in Recipient : status'[q] \in Reached => wamid[q]
    BY <1>10, <1>s, <1>t, Statuses DEF RowInv
  <2>2. \A b \in Actor : pc'[b] = IF b = j THEN "reading" ELSE pc[b]
    BY <1>10 DEF Goto, TypeOK
  <2>3. "reading" \notin Holding
    BY DEF Holding
  <2>4. QED
    BY <1>10, <1>j, <2>1, <2>2, <2>3, Sorts, SendBystander DEF SendInv, NewsHasWamid
<1>11. CASE RecordFailed(j)
  BY <1>10, <1>11 DEF RecordFailed, meta
<1>12. CASE GiveUp(j)
  <2>1. CASE status[r] = "QUEUED" /\ ~wamid[r]
    BY <1>10, <1>12, <2>1 DEF GiveUp, Continue, meta
  <2>2. CASE ~(status[r] = "QUEUED" /\ ~wamid[r])
    BY <1>12, <1>j, <2>2, SendForget DEF GiveUp, meta
  <2>3. QED
    BY <2>1, <2>2
<1>13. QED
  BY <1>1, <1>2, <1>3, <1>4, <1>5, <1>6, <1>7, <1>8, <1>9, <1>11, <1>12 DEF JobStep

\* What goes wrong in a job.  It only ever lets go of its recipient.
LEMMA SendJobFails ==
  ASSUME TypeOK, SendInv, NEW j \in Job, FailsInside(j) \/ FailsOutside(j) \/ Dies(j)
  PROVE  SendInv'
<1>j. j \in Actor
  BY Sorts
<1>1. UNCHANGED <<status, attempted, wamid, wire, accepted>>
  BY DEF FailsInside, FailsOutside, Dies, rows, meta
<1>2. \A b \in Actor : b # j => target'[b] = target[b]
  BY DEF FailsInside, FailsOutside, Dies, EndAttempt, TypeOK
<1>3. PICK next \in {"failed", "waiting", "exhausted", "idle"} : Goto(j, next)
  BY DEF FailsInside, FailsOutside, Dies, EndAttempt
<1>4. next \in PC \ (Holding \union {"marking"})
  BY DEF PC, JobPC, Holding
<1>5. QED
  BY <1>j, <1>1, <1>2, <1>3, <1>4, SendQuiet

\* The steps of webhook handlers.
LEMMA SendHook ==
  ASSUME TypeOK, SendInv, NEW h \in Hook, HookStep(h) PROVE SendInv'
<1>h. h \in Actor /\ h \notin Job
  BY Sorts
<1>s. \A r \in Recipient : status[r] \in Reached => wamid[r]
  BY DEF SendInv, SentIsTrue
<1>n. \A g \in Hook : pc[g] = "marking" => wamid[target[g]]
  BY DEF SendInv, NewsHasWamid
<1>1. ASSUME NEW r \in Recipient, wamid[r],
             Goto(h, "marking"), target' = [target EXCEPT ![h] = r],
             UNCHANGED <<rows, meta>>
      PROVE  SendInv'
  <2>1. \A b \in Actor : /\ pc'[b] = IF b = h THEN "marking" ELSE pc[b]
                         /\ target'[b] = IF b = h THEN r ELSE target[b]
    BY <1>1 DEF Goto, TypeOK
  <2>2. \A g \in Hook : pc'[g] = "marking" => wamid[target'[g]]
    BY <1>1, <1>n, <2>1, Sorts
  <2>3. QED
    BY <1>1, <1>h, <1>s, <2>1, <2>2, Sorts, SendBystander DEF rows, meta
<1>2. ASSUME NEW r \in Recipient, HearReply(h, r) PROVE SendInv'
  BY <1>1, <1>2, <1>s DEF HearReply, Reached
<1>3. ASSUME NEW r \in Recipient, NEW st \in RecipientStatus, HearStatus(h, r, st)
      PROVE  SendInv'
  BY <1>1, <1>3 DEF HearStatus
<1>4. CASE Mark(h)
  <2>1. \A r \in Recipient : status'[r] \in Reached => wamid[r]
    BY <1>4, <1>s, <1>n, <1>h DEF Mark, TypeOK
  <2>2. \A b \in Actor : pc'[b] = IF b = h THEN "reading" ELSE pc[b]
    BY <1>4 DEF Mark, Continue, Goto, TypeOK
  <2>3. UNCHANGED <<attempted, wamid, wire, accepted, target>>
    BY <1>4 DEF Mark, Continue, meta
  <2>4. QED
    BY <1>h, <1>n, <2>1, <2>2, <2>3, Sorts, SendBystander
<1>5. QED
  BY <1>2, <1>3, <1>4 DEF HookStep

\* A request that nobody waits for any more has no holder either.
LEMMA SendLate ==
  ASSUME TypeOK, SendInv, NEW r \in Recipient, MetaTakesLate(r) PROVE SendInv'
<1>1. UNCHANGED <<status, attempted, wamid, pc, target>>
  BY DEF MetaTakesLate, rows, actors
<1>2. \A j \in Job : pc[j] \in Holding => target[j] # r
  BY DEF MetaTakesLate, SendInv, HolderKnowsMeta
<1>n. /\ wire \in [Recipient -> Nat] /\ accepted \in [Recipient -> Nat]
      /\ wire[r] \in Nat /\ accepted[r] \in Nat
  BY DEF TypeOK
<1>3. /\ wire[r] = 1 /\ accepted[r] = 0 /\ wire'[r] = 0
      /\ accepted'[r] \in {0, 1}
  <2>1. wire[r] = 1 /\ accepted[r] = 0
    BY <1>n DEF MetaTakesLate, SendInv, AtMostOnce
  <2>2. QED
    BY <1>n, <2>1 DEF MetaTakesLate
<1>4. \A q \in Recipient : q # r => wire'[q] = wire[q] /\ accepted'[q] = accepted[q]
  BY DEF MetaTakesLate, TypeOK
<1>5. AtMostOnce' /\ FreeMeansUnsent' /\ SentIsTrue'
  BY <1>1, <1>3, <1>4 DEF SendInv, AtMostOnce, FreeMeansUnsent, SentIsTrue
<1>6. HolderIsAlone' /\ NewsHasWamid'
  BY <1>1 DEF SendInv, HolderIsAlone, NewsHasWamid
<1>7. HolderKnowsMeta'
  BY <1>1, <1>2, <1>4, Sorts DEF SendInv, HolderKnowsMeta, TypeOK
<1>8. QED
  BY <1>5, <1>6, <1>7 DEF SendInv

LEMMA SendNext == TypeOK /\ SendInv /\ [Next]_vars => SendInv'
<1>1. SUFFICES ASSUME TypeOK, SendInv, [Next]_vars PROVE SendInv'
  OBVIOUS
<1>2. ASSUME NEW a \in Actor, Completion(a) PROVE SendInv'
  <2>1. UNCHANGED <<status, attempted, wamid, wire, accepted>>
    BY <1>2 DEF Completion, ReadCampaign, CountOpen, Complete, rows, meta
  <2>2. CASE Forget(a)
    BY <1>1, <2>1, <2>2, SendForget
  <2>3. CASE ~Forget(a)
    <3>1. PICK next \in Completing : Continue(a, next)
      BY <1>2, <2>3 DEF Completion, ReadCampaign, CountOpen, Complete, Completing
    <3>2. next \in PC \ (Holding \union {"marking"})
      BY DEF PC, Completing, Holding
    <3>3. QED
      BY <1>1, <2>1, <3>1, <3>2, SendQuiet DEF Continue
  <2>4. QED
    BY <2>2, <2>3
<1>3. ASSUME NEW a \in Actor, Abandons(a) PROVE SendInv'
  BY <1>1, <1>3, SendForget DEF Abandons, rows, meta
<1>4. ASSUME NEW r \in Recipient, OptOut(r) PROVE SendInv'
  BY <1>1, <1>4 DEF OptOut, meta, actors, SendInv, AtMostOnce, FreeMeansUnsent,
     SentIsTrue, HolderIsAlone, HolderKnowsMeta, NewsHasWamid
<1>5. CASE UNCHANGED vars
  BY <1>1, <1>5 DEF vars, rows, meta, actors, SendInv, AtMostOnce, FreeMeansUnsent,
     SentIsTrue, HolderIsAlone, HolderKnowsMeta, NewsHasWamid
<1>6. QED
  BY <1>1, <1>2, <1>3, <1>4, <1>5, SendOperator, SendJob, SendJobFails, SendHook,
     SendLate DEF Next

\* The inductive invariant: claims, Meta's counters and the recipients' rows
\* agree in every reachable state.
THEOREM SendsCorrect == Spec => []SendInv
BY SendInit, SendNext, TypeCorrect, PTL DEF Spec

\* However jobs, restarts, resumed campaigns and late answers of Meta fall
\* together, no recipient is sent the template twice.
THEOREM SentAtMostOnce == Spec => []AtMostOnce
<1>1. SendInv => AtMostOnce
  BY DEF SendInv
<1>2. QED
  BY <1>1, SendsCorrect, PTL

\* What the reports count as sent was taken by Meta.
THEOREM SentIsTruthful == Spec => []SentIsTrue
<1>1. SendInv => SentIsTrue
  BY DEF SendInv
<1>2. QED
  BY <1>1, SendsCorrect, PTL

-------------------------------------------------------------------------------
(* LearningReview.                                                              *)

ReviewType == [status : ReviewStatus, attempts : 0..MaxReviews, stale : BOOLEAN]
DecisionType ==
  [step : {"idle", "write"}, on : Lesson \union {NoLesson}, action : Decision]

(* What the proofs need of the types: the rows of the reviews, the run and   *)
(* the lessons.  The queue and the requests may be anything: they decide     *)
(* only whether a run begins.                                                *)
RowsFit ==
  /\ review \in [Complaint -> ReviewType]
  /\ asked \in [Complaint -> Nat]
  /\ lesson \in [Lesson -> LessonStatus]
  /\ decision \in [Supervisor -> DecisionType]
  /\ \A s \in Supervisor : decision[s].step = "write" => decision[s].on \in Lesson

\* A run that may still ask has been counted, so what was asked is below the count.
AskedIsCounted ==
  \A f \in Complaint :
    IF reviewRun.of = f /\ reviewRun.step \in {"read", "ask"}
      THEN asked[f] < review[f].attempts
      ELSE asked[f] <= review[f].attempts

\* The run is a record with its three fields, about a complaint unless it is idle.
RunFits ==
  reviewRun \in [step : {"idle", "read", "ask", "propose", "fail"},
                 of : Complaint \union {NoComplaint}, found : Lesson \union {NoLesson}]

ReviewInv == RowsFit /\ RunFits /\ AskedIsCounted

LEMMA ReviewInvInit == LearnInit => ReviewInv
<1>1. SUFFICES ASSUME LearnInit PROVE ReviewInv
  OBVIOUS
<1>2. RowsFit
  BY <1>1 DEF LearnInit, RowsFit, ReviewType, DecisionType, NoReview, Undecided, ReviewStatus,
              LessonStatus, Decision, MaxReviews
<1>3. RunFits
  BY <1>1 DEF LearnInit, RunFits, ReviewerIdle
<1>4. AskedIsCounted
  BY <1>1 DEF LearnInit, AskedIsCounted, NoReview, ReviewerIdle
<1>5. QED
  BY <1>2, <1>3, <1>4 DEF ReviewInv

\* A row keeps its count whatever status it gets.
LEMMA StatusKeepsCount ==
  ASSUME review \in [Complaint -> ReviewType], NEW f \in Complaint, NEW st \in ReviewStatus,
         review' = [review EXCEPT ![f].status = st]
  PROVE  /\ review' \in [Complaint -> ReviewType]
         /\ \A g \in Complaint : review'[g].attempts = review[g].attempts
BY DEF ReviewType

\* The steps of a request, and those that only move jobs.
LEMMA RequestsKeep ==
  ASSUME ReviewInv, NEW f \in Complaint,
         \/ RequestReview(f) \/ CreateReview(f) \/ EnqueueReview(f) \/ RequestFails(f)
         \/ EnqueuePending(f) \/ TenMinutesPass(f) \/ ForgetJob(f) \/ ClaimThrows(f)
  PROVE  ReviewInv'
<1>1. RowsFit /\ RunFits /\ AskedIsCounted
  BY DEF ReviewInv
<1>2. /\ reviewRun' = reviewRun /\ asked' = asked /\ lesson' = lesson /\ decision' = decision
      /\ \/ review' = review
         \/ review' = [review EXCEPT ![f].status = "PENDING"]
         \/ review' = [review EXCEPT ![f].stale = TRUE]
  BY DEF RequestReview, CreateReview, EnqueueReview, RequestFails, EnqueuePending,
         TenMinutesPass, ForgetJob, ClaimThrows, OnlyRequests
<1>3. /\ review' \in [Complaint -> ReviewType]
      /\ \A g \in Complaint : review'[g].attempts = review[g].attempts
  <2>1. CASE review' = review
    BY <1>1, <2>1 DEF RowsFit
  <2>2. CASE review' = [review EXCEPT ![f].status = "PENDING"]
    BY <1>1, <2>2, StatusKeepsCount DEF RowsFit, ReviewStatus
  <2>3. CASE review' = [review EXCEPT ![f].stale = TRUE]
    BY <1>1, <2>3, Zenon DEF RowsFit, ReviewType
  <2>4. QED
    BY <1>2, <2>1, <2>2, <2>3
<1>4. RowsFit' /\ RunFits'
  BY <1>1, <1>2, <1>3 DEF RowsFit, RunFits
<1>5. AskedIsCounted'
  BY <1>1, <1>2, <1>3 DEF AskedIsCounted
<1>6. QED
  BY <1>4, <1>5 DEF ReviewInv

\* A run is begun only while attempts are left, and counted at once.
LEMMA ClaimKeeps ==
  ASSUME ReviewInv, NEW f \in Complaint, ClaimReview(f) PROVE ReviewInv'
<1>1. /\ RowsFit /\ RunFits /\ AskedIsCounted /\ reviewRun = ReviewerIdle
      /\ asked' = asked /\ lesson' = lesson /\ decision' = decision
  BY DEF ReviewInv, ClaimReview
<1>2. CASE ~Reviewable(f)
  <2>1. review' = review /\ reviewRun' = reviewRun
    BY <1>2 DEF ClaimReview
  <2>2. QED
    BY <1>1, <2>1 DEF ReviewInv, RowsFit, RunFits, AskedIsCounted
<1>3. CASE Reviewable(f)
  <2>1. review[f] \in ReviewType /\ review[f].attempts < MaxReviews
    BY <1>1, <1>3 DEF RowsFit, Reviewable
  <2>2. review' = [review EXCEPT ![f] = [status |-> "PROCESSING", stale |-> FALSE,
                                         attempts |-> review[f].attempts + 1]]
    BY <1>1, <1>3, <2>1 DEF ClaimReview, RowsFit
  <2>3. /\ review' \in [Complaint -> ReviewType]
        /\ review'[f].attempts = review[f].attempts + 1
        /\ \A g \in Complaint : g # f => review'[g].attempts = review[g].attempts
    BY <1>1, <2>1, <2>2 DEF RowsFit, ReviewType, ReviewStatus, MaxReviews
  <2>4. RowsFit'
    BY <1>1, <2>3 DEF RowsFit
  <2>5. reviewRun' = [step |-> "read", of |-> f, found |-> NoLesson]
    BY <1>3 DEF ClaimReview, ReviewerIdle
  <2>6. RunFits'
    BY <2>5 DEF RunFits
  <2>7. \A g \in Complaint : asked[g] \in Nat /\ review[g].attempts \in Nat
                             /\ asked[g] <= review[g].attempts
    BY <1>1, LearningAssumption DEF RowsFit, ReviewType, AskedIsCounted, ReviewerIdle, MaxReviews
  <2>8. AskedIsCounted'
    BY <1>1, <2>3, <2>5, <2>7 DEF AskedIsCounted
  <2>9. QED
    BY <2>4, <2>6, <2>8 DEF ReviewInv
<1>4. QED
  BY <1>2, <1>3

\* A run that goes on asks once at most, and then no more.
LEMMA RunKeeps ==
  ASSUME ReviewInv, NEW f \in Complaint,
         \/ ReadEvidence(f) \/ AskModel(f) \/ Propose(f) \/ ReviewThrows(f) \/ MarkFailed(f)
         \/ ReviewerDies(f)
  PROVE  ReviewInv'
<1>1. /\ RowsFit /\ RunFits /\ AskedIsCounted /\ decision' = decision
  BY DEF ReviewInv, ReadEvidence, AskModel, Propose, ReviewThrows, MarkFailed, ReviewerDies
<1>2. reviewRun.of = f
  BY DEF ReadEvidence, AskModel, Propose, ReviewThrows, MarkFailed, ReviewerDies, Reviewing
<1>3. \/ review' = review
      \/ \E st \in ReviewStatus : review' = [review EXCEPT ![f].status = st]
  BY DEF ReadEvidence, AskModel, Propose, ReviewThrows, MarkFailed, ReviewerDies, EndReview,
         ReviewStatus
<1>4. /\ review' \in [Complaint -> ReviewType]
      /\ \A g \in Complaint : review'[g].attempts = review[g].attempts
  BY <1>1, <1>3, StatusKeepsCount DEF RowsFit
<1>5. RunFits'
  <2>1. reviewRun' = ReviewerIdle => RunFits'
    BY DEF RunFits, ReviewerIdle
  <2>2. \A step \in {"ask", "fail"} : GoOnReviewing(step) => RunFits'
    BY <1>1 DEF RunFits, GoOnReviewing
  <2>3. \A l \in Lesson :
          reviewRun' = [reviewRun EXCEPT !.step = "propose", !.found = l] => RunFits'
    BY <1>1 DEF RunFits
  <2>4. QED
    BY <2>1, <2>2, <2>3 DEF ReadEvidence, AskModel, Propose, ReviewThrows, MarkFailed,
                            ReviewerDies, EndReview
<1>6. lesson' \in [Lesson -> LessonStatus]
  <2>1. CASE Propose(f)
    BY <1>1, <2>1 DEF Propose, Upsert, RowsFit, LessonStatus
  <2>2. CASE ~Propose(f)
    BY <1>1, <2>2 DEF ReadEvidence, AskModel, ReviewThrows, MarkFailed, ReviewerDies, RowsFit
  <2>3. QED
    BY <2>1, <2>2
<1>7. \A g \in Complaint : asked[g] \in Nat /\ review[g].attempts \in Nat
                           /\ asked[g] <= review[g].attempts
  BY <1>1 DEF RowsFit, ReviewType, AskedIsCounted, MaxReviews
<1>8. CASE AskModel(f)
  <2>1. /\ asked[f] < review[f].attempts
        /\ asked' = [asked EXCEPT ![f] = @ + 1]
        /\ \/ reviewRun' = ReviewerIdle
           \/ reviewRun'.step \notin {"read", "ask"}
    BY <1>1, <1>8 DEF AskModel, Reviewing, AskedIsCounted, EndReview, GoOnReviewing, RunFits
  <2>2. asked' \in [Complaint -> Nat] /\ \A g \in Complaint : asked'[g] <= review[g].attempts
    BY <1>1, <1>7, <2>1 DEF RowsFit
  <2>3. reviewRun'.step \notin {"read", "ask"}
    BY <2>1 DEF ReviewerIdle
  <2>4. AskedIsCounted'
    BY <1>4, <2>2, <2>3 DEF AskedIsCounted
  <2>5. RowsFit'
    BY <1>1, <1>4, <1>6, <2>2 DEF RowsFit
  <2>6. QED
    BY <1>5, <2>4, <2>5 DEF ReviewInv
<1>9. CASE ~AskModel(f)
  <2>1. asked' = asked
    BY <1>9 DEF ReadEvidence, Propose, ReviewThrows, MarkFailed, ReviewerDies
  <2>2. reviewRun'.step \in {"read", "ask"} =>
          reviewRun'.of = f /\ reviewRun.step \in {"read", "ask"}
    BY <1>1, <1>2, <1>9 DEF ReadEvidence, Propose, ReviewThrows, MarkFailed, ReviewerDies,
       EndReview, GoOnReviewing, Reviewing, ReviewerIdle, RunFits
  <2>3. AskedIsCounted'
    BY <1>1, <1>2, <1>4, <1>7, <2>1, <2>2 DEF AskedIsCounted
  <2>4. RowsFit'
    BY <1>1, <1>4, <1>6, <2>1 DEF RowsFit
  <2>5. QED
    BY <1>5, <2>3, <2>4 DEF ReviewInv
<1>10. QED
  BY <1>8, <1>9

\* A decision writes a lesson, and no review.
LEMMA DecisionKeeps ==
  ASSUME ReviewInv, NEW s \in Supervisor,
         WriteDecision(s) \/ \E l \in Lesson, action \in Decision : ReadLesson(s, l, action)
  PROVE  ReviewInv'
<1>1. /\ RowsFit /\ RunFits /\ AskedIsCounted
      /\ UNCHANGED <<review, reviewRun, asked>>
  BY DEF ReviewInv, WriteDecision, ReadLesson, OnlyDecisions
<1>2. CASE WriteDecision(s)
  <2>1. decision[s].on \in Lesson /\ decision[s].action \in Decision
    BY <1>1, <1>2 DEF WriteDecision, RowsFit, DecisionType
  <2>2. lesson' \in [Lesson -> LessonStatus]
    BY <1>1, <1>2, <2>1 DEF WriteDecision, RowsFit, After, LessonStatus
  <2>3. decision' = [decision EXCEPT ![s] = Undecided]
    BY <1>2 DEF WriteDecision
  <2>4. RowsFit'
    BY <1>1, <2>2, <2>3 DEF RowsFit, DecisionType, Undecided, Decision
  <2>5. QED
    BY <1>1, <2>4 DEF ReviewInv, RunFits, AskedIsCounted
<1>3. ASSUME NEW l \in Lesson, NEW action \in Decision, ReadLesson(s, l, action)
      PROVE  ReviewInv'
  <2>1. RowsFit'
    BY <1>1, <1>3 DEF ReadLesson, RowsFit, DecisionType
  <2>2. QED
    BY <1>1, <2>1 DEF ReviewInv, RunFits, AskedIsCounted
<1>4. QED
  BY <1>2, <1>3

LEMMA ReviewInvNext == ReviewInv /\ [LearnNext]_learnVars => ReviewInv'
<1>1. SUFFICES ASSUME ReviewInv, [LearnNext]_learnVars PROVE ReviewInv'
  OBVIOUS
<1>2. CASE UNCHANGED learnVars
  BY <1>1, <1>2 DEF learnVars, ReviewInv, RowsFit, RunFits, AskedIsCounted
<1>3. CASE LearnNext
  BY <1>1, <1>3, RequestsKeep, ClaimKeeps, RunKeeps, DecisionKeeps DEF LearnNext
<1>4. QED
  BY <1>1, <1>2, <1>3

LEMMA ReviewsCorrect == LearnSpec => []ReviewInv
BY ReviewInvInit, ReviewInvNext, PTL DEF LearnSpec

\* However jobs are lost, retried, forgotten and enqueued again, and whatever dies, the model
\* is asked about a complaint as often as the row counts attempts, three times at most.
THEOREM ModelIsAskedThrice == LearnSpec => []ReviewsAreBounded
<1>1. ReviewInv => ReviewsAreBounded
  BY DEF ReviewInv, RowsFit, ReviewType, AskedIsCounted, ReviewsAreBounded, MaxReviews
<1>2. QED
  BY <1>1, ReviewsCorrect, PTL

\* A lesson only moves along the states its operators decide, whoever decides at once and
\* however often reviews find it again.
THEOREM DecisionsAreKept == LearnSpec => DecisionsStand
<1> DEFINE Moves(l) == lesson'[l] # lesson[l] => <<lesson[l], lesson'[l]>> \in
                         {<<"none", "PROPOSED">>, <<"PROPOSED", "ACTIVE">>,
                          <<"PROPOSED", "REJECTED">>, <<"ACTIVE", "RETIRED">>}
<1>1. ReviewInv /\ [LearnNext]_learnVars => [\A l \in Lesson : Moves(l)]_learnVars
  <2>1. SUFFICES ASSUME ReviewInv, LearnNext, NEW l \in Lesson PROVE Moves(l)
    OBVIOUS
  <2>2. RowsFit
    BY <2>1 DEF ReviewInv
  <2>3. ASSUME NEW f \in Complaint, Propose(f) PROVE Moves(l)
    BY <2>2, <2>3 DEF Propose, Upsert, RowsFit
  <2>4. ASSUME NEW s \in Supervisor, WriteDecision(s) PROVE Moves(l)
    <3>1. decision[s].on \in Lesson /\ decision[s].action \in Decision
      BY <2>2, <2>4 DEF WriteDecision, RowsFit, DecisionType
    <3>2. \/ lesson' = lesson
          \/ /\ lesson[decision[s].on] = Before(decision[s].action)
             /\ lesson' = [lesson EXCEPT ![decision[s].on] = After(decision[s].action)]
      BY <2>4 DEF WriteDecision, Decidable
    <3>3. QED
      BY <2>2, <3>1, <3>2 DEF RowsFit, Before, After, Decision
  <2>5. CASE lesson' = lesson
    BY <2>5
  <2>6. QED
    BY <2>1, <2>3, <2>4, <2>5
       DEF LearnNext, RequestReview, CreateReview, EnqueueReview, RequestFails, EnqueuePending,
           ClaimReview, ReadEvidence, AskModel, ReviewThrows, MarkFailed, ReviewerDies,
           ClaimThrows, TenMinutesPass, ForgetJob, ReadLesson, OnlyRequests
<1>2. QED
  BY <1>1, ReviewsCorrect, PTL DEF LearnSpec, DecisionsStand
=============================================================================
