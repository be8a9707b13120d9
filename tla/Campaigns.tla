------------------------------ MODULE Campaigns ------------------------------
(***************************************************************************)
(* Sending one WhatsApp campaign (campaigns/campaigns.service.ts and its   *)
(* queue processor): operators import contacts, start, pause, resume and   *)
(* cancel; queue jobs send the template to one recipient each; webhook     *)
(* events report what Meta and the customers did.                          *)
(*                                                                         *)
(* Nothing here takes a lock.  Every statement that reads or writes the    *)
(* database is one action, and most rows are written by their id alone,    *)
(* from what an earlier statement read.                                    *)
(*                                                                         *)
(* A recipient stands for its contact too.  The timestamp of a status      *)
(* event is left out: an event that is older than the last one applied is  *)
(* ignored, as if it had been lost.                                        *)
(***************************************************************************)
EXTENDS Naturals

CONSTANTS
  Recipient,
  Job,          \* bound: so many jobs of the queue at a time
  Operator,     \* requests of the CRM's users, at the same time
  Hook,         \* handlers of webhook events, at the same time
  Attempts,     \* attempts of a job (defaultJobOptions)
  MaxFailures   \* bound: so many statements throw or processes die

ASSUME BoundsAssumption == Attempts \in Nat \ {0} /\ MaxFailures \in Nat
ASSUME ActorsAssumption ==
  /\ Recipient # {}
  /\ Job \cap Operator = {} /\ Job \cap Hook = {} /\ Operator \cap Hook = {}

VARIABLES
  campaign,     \* Campaign.status
  status,       \* CampaignRecipient.status
  attempted,    \* sendAttemptedAt is set
  wamid,        \* wamid is set
  consent,      \* Contact.marketingConsentStatus
  wire,         \* requests of the recipient on their way to Meta
  accepted,     \* how many times Meta took the template for the recipient
  pc, target,   \* per actor: its next statement, and the recipient it is about
  tries,        \* attemptsMade of a job
  trying,       \* jobs inside the try block that began with the send
  seen,         \* per operator: what start read of each recipient
  news,         \* per handler: the status it is about to write
  failures

rows == <<campaign, status, attempted, wamid, consent>>
meta == <<wire, accepted>>
actors == <<pc, target, tries, trying, seen, news, failures>>
vars == <<rows, meta, actors>>

Actor == Job \union Operator \union Hook

CampaignStatus == {"DRAFT", "READY", "RUNNING", "PAUSED", "COMPLETED", "CANCELLED"}
Open == {"PENDING", "QUEUED"}
Reached == {"SENT", "DELIVERED", "READ", "REPLIED"}
RecipientStatus == Open \union Reached \union {"FAILED", "SKIPPED"}
Consent == {"UNKNOWN", "OPTED_IN", "OPTED_OUT"}

Completing == {"reading", "counting", "completing"}
JobPC == {"waiting", "skipping", "claiming", "claimed", "awaiting", "accepted",
          "throttled", "failed", "exhausted"}
OperatorPC == {"startable", "starting", "queueing", "pausing", "cancelling",
               "importing", "contact", "recipient"}
PC == {"idle", "marking"} \union Completing \union JobPC \union OperatorPC

\* Only a job that has been given up is out of attempts.
TriesLeft ==
  \A j \in Job :
    pc[j] \in {"idle"} \union (JobPC \ {"exhausted"}) \/ j \in trying
      => tries[j] < Attempts

TypeOK ==
  /\ campaign \in CampaignStatus
  /\ status \in [Recipient -> RecipientStatus \union {"ABSENT"}]
  /\ attempted \in [Recipient -> BOOLEAN]
  /\ wamid \in [Recipient -> BOOLEAN]
  /\ consent \in [Recipient -> Consent]
  /\ wire \in [Recipient -> Nat]
  /\ accepted \in [Recipient -> Nat]
  /\ pc \in [Actor -> PC]
  /\ target \in [Actor -> Recipient]
  /\ tries \in [Job -> 0..Attempts]
  /\ trying \in SUBSET Job
  /\ seen \in [Operator -> [Recipient -> {"no", "eligible", "ineligible"}]]
  /\ news \in [Hook -> RecipientStatus]
  /\ failures \in 0..MaxFailures
  /\ TriesLeft

SomeRecipient == CHOOSE r \in Recipient : TRUE
NothingSeen == [r \in Recipient |-> "no"]

Init ==
  /\ campaign = "DRAFT"
  /\ status = [r \in Recipient |-> "ABSENT"]
  /\ attempted = [r \in Recipient |-> FALSE]
  /\ wamid = [r \in Recipient |-> FALSE]
  /\ consent = [r \in Recipient |-> "UNKNOWN"]
  /\ wire = [r \in Recipient |-> 0]
  /\ accepted = [r \in Recipient |-> 0]
  /\ pc = [a \in Actor |-> "idle"]
  /\ target = [a \in Actor |-> SomeRecipient]
  /\ tries = [j \in Job |-> 0]
  /\ trying = {}
  /\ seen = [o \in Operator |-> NothingSeen]
  /\ news = [h \in Hook |-> "SENT"]
  /\ failures = 0

Goto(a, next) == pc' = [pc EXCEPT ![a] = next]

\* The actor has nothing more to do.
Forget(a) ==
  /\ Goto(a, "idle")
  /\ target' = [target EXCEPT ![a] = SomeRecipient]
  /\ tries' = [j \in Job |-> IF j = a THEN 0 ELSE tries[j]]
  /\ trying' = trying \ {a}
  /\ seen' = [o \in Operator |-> IF o = a THEN NothingSeen ELSE seen[o]]
  /\ news' = [h \in Hook |-> IF h = a THEN "SENT" ELSE news[h]]
  /\ UNCHANGED failures

\* The actor goes on to its next statement, and remembers what it knew.
Continue(a, next) ==
  /\ Goto(a, next)
  /\ UNCHANGED <<target, tries, trying, seen, news, failures>>

-----------------------------------------------------------------------------
(* completeIfFinished, called by jobs and webhook handlers.                *)

ReadCampaign(a) ==
  /\ pc[a] = "reading"
  /\ IF campaign = "RUNNING" THEN Continue(a, "counting") ELSE Forget(a)
  /\ UNCHANGED <<rows, meta>>

CountOpen(a) ==
  /\ pc[a] = "counting"
  /\ IF \E r \in Recipient : status[r] \in Open
       THEN Forget(a) ELSE Continue(a, "completing")
  /\ UNCHANGED <<rows, meta>>

Complete(a) ==
  /\ pc[a] = "completing"
  /\ campaign' = "COMPLETED"
  /\ Forget(a)
  /\ UNCHANGED <<status, attempted, wamid, consent, meta>>

-----------------------------------------------------------------------------
(* Operators.                                                              *)

\* start and resume read the campaign, then its recipients, and write both in
\* one transaction that looks at neither again.
RequestStart(o) ==
  /\ pc[o] = "idle"
  /\ campaign \in {"DRAFT", "READY", "PAUSED"}
  /\ Continue(o, "startable")
  /\ UNCHANGED <<rows, meta>>

ReadRecipients(o) ==
  /\ pc[o] = "startable"
  /\ \E r \in Recipient : status[r] \in Open
  /\ seen' = [seen EXCEPT ![o] =
                [r \in Recipient |->
                   IF status[r] \notin Open THEN "no"
                   ELSE IF consent[r] = "OPTED_IN" THEN "eligible"
                   ELSE "ineligible"]]
  /\ Goto(o, "starting")
  /\ UNCHANGED <<rows, meta, target, tries, trying, news, failures>>

NothingToStart(o) ==
  /\ pc[o] = "startable"
  /\ \A r \in Recipient : status[r] \notin Open
  /\ Forget(o)
  /\ UNCHANGED <<rows, meta>>

Start(o) ==
  /\ pc[o] = "starting"
  /\ campaign' = "RUNNING"
  /\ status' = [r \in Recipient |->
                  CASE seen[o][r] = "eligible" -> "QUEUED"
                    [] seen[o][r] = "ineligible" -> "SKIPPED"
                    [] OTHER -> status[r]]
  /\ Continue(o, "queueing")
  /\ UNCHANGED <<attempted, wamid, consent, meta>>

\* One job for each eligible recipient; the jobs start at once.
Enqueue(o, j) ==
  /\ pc[o] = "queueing" /\ pc[j] = "idle"
  /\ \E r \in Recipient :
       /\ seen[o][r] = "eligible"
       /\ target' = [target EXCEPT ![j] = r]
       /\ seen' = [seen EXCEPT ![o][r] = "no"]
  /\ Goto(j, "waiting")
  /\ UNCHANGED <<rows, meta, tries, trying, news, failures>>

Started(o) ==
  /\ pc[o] = "queueing"
  /\ \A r \in Recipient : seen[o][r] # "eligible"
  /\ Forget(o)
  /\ UNCHANGED <<rows, meta>>

RequestPause(o) ==
  /\ pc[o] = "idle"
  /\ campaign = "RUNNING"
  /\ Continue(o, "pausing")
  /\ UNCHANGED <<rows, meta>>

RequestCancel(o) ==
  /\ pc[o] = "idle"
  /\ campaign \notin {"COMPLETED", "CANCELLED"}
  /\ Continue(o, "cancelling")
  /\ UNCHANGED <<rows, meta>>

Stop(o) ==
  /\ \/ pc[o] = "pausing" /\ campaign' = "PAUSED"
     \/ pc[o] = "cancelling" /\ campaign' = "CANCELLED"
  /\ Forget(o)
  /\ UNCHANGED <<status, attempted, wamid, consent, meta>>

\* importContacts: for each row that claims consent, the contact is read and
\* written, then the recipient; in the end the campaign is READY.
RequestImport(o) ==
  /\ pc[o] = "idle"
  /\ campaign \in {"DRAFT", "READY", "PAUSED"}
  /\ Continue(o, "importing")
  /\ UNCHANGED <<rows, meta>>

ReadContact(o, r) ==
  /\ pc[o] = "importing"
  /\ Goto(o, "contact")
  /\ target' = [target EXCEPT ![o] = r]
  /\ seen' = [seen EXCEPT ![o][r] =
                IF consent[r] = "OPTED_OUT" THEN "ineligible" ELSE "eligible"]
  /\ UNCHANGED <<rows, meta, tries, trying, news, failures>>

WriteContact(o) ==
  LET r == target[o] IN
  /\ pc[o] = "contact"
  /\ IF seen[o][r] = "eligible"
       THEN consent' = [consent EXCEPT ![r] = "OPTED_IN"] /\ Goto(o, "recipient")
       ELSE UNCHANGED consent /\ Goto(o, "importing")
  /\ seen' = [seen EXCEPT ![o] = NothingSeen]
  /\ UNCHANGED <<campaign, status, attempted, wamid, meta, target, tries, trying,
                 news, failures>>

UpsertRecipient(o) ==
  LET r == target[o] IN
  /\ pc[o] = "recipient"
  /\ status' = [status EXCEPT ![r] = IF @ = "ABSENT" THEN "PENDING" ELSE @]
  /\ Goto(o, "importing")
  /\ target' = [target EXCEPT ![o] = SomeRecipient]
  /\ UNCHANGED <<campaign, attempted, wamid, consent, meta, tries, trying, seen,
                 news, failures>>

Imported(o) ==
  /\ pc[o] = "importing"
  /\ campaign' = "READY"
  /\ Forget(o)
  /\ UNCHANGED <<status, attempted, wamid, consent, meta>>

-----------------------------------------------------------------------------
(* Jobs: processSendJob.                                                   *)

MaySendTo(r) == ~wamid[r] /\ status[r] = "QUEUED" /\ campaign = "RUNNING"

ReadRecipient(j) ==
  LET r == target[j] IN
  /\ pc[j] = "waiting"
  /\ IF ~MaySendTo(r) THEN Forget(j)
     ELSE Continue(j, IF consent[r] = "OPTED_IN" THEN "claiming" ELSE "skipping")
  /\ UNCHANGED <<rows, meta>>

Skip(j) ==
  /\ pc[j] = "skipping"
  /\ status' = [status EXCEPT ![target[j]] = "SKIPPED"]
  /\ Forget(j)
  /\ UNCHANGED <<campaign, attempted, wamid, consent, meta>>

\* fault: the claim does not ask whether the recipient was attempted
ClaimableAgain(r) == status[r] = "QUEUED" /\ ~wamid[r]

Claimable(r) == status[r] = "QUEUED" /\ ~wamid[r] /\ ~attempted[r]

ClaimRecipient(j) ==
  LET r == target[j] IN
  /\ pc[j] = "claiming"
  /\ IF Claimable(r)
       THEN attempted' = [attempted EXCEPT ![r] = TRUE] /\ Continue(j, "claimed")
       ELSE UNCHANGED attempted /\ Forget(j)
  /\ UNCHANGED <<campaign, status, wamid, consent, meta>>

\* The request leaves for Meta.
Send(j) ==
  /\ pc[j] = "claimed"
  /\ wire' = [wire EXCEPT ![target[j]] = @ + 1]
  /\ Goto(j, "awaiting")
  /\ trying' = trying \union {j}
  /\ UNCHANGED <<rows, accepted, target, tries, seen, news, failures>>

\* Meta's answer reaches the job that waits for it.
Answered(j) ==
  /\ pc[j] = "awaiting" /\ wire[target[j]] > 0
  /\ wire' = [wire EXCEPT ![target[j]] = @ - 1]
  /\ UNCHANGED rows

MetaAccepts(j) ==
  /\ Answered(j)
  /\ accepted' = [accepted EXCEPT ![target[j]] = @ + 1]
  /\ Continue(j, "accepted")

MetaRejects(j) ==
  /\ Answered(j)
  /\ \/ Continue(j, "throttled") \/ Continue(j, "failed")
  /\ UNCHANGED accepted

\* A timeout, a 5xx or an answer without a wamid: Meta may still take it.
NoAnswer(j) ==
  /\ pc[j] = "awaiting"
  /\ Continue(j, "failed")
  /\ UNCHANGED <<rows, meta>>

\* A request nobody waits for any more.
MetaTakesLate(r) ==
  /\ wire[r] > 0
  /\ \A j \in Job : target[j] = r => pc[j] # "awaiting"
  /\ wire' = [wire EXCEPT ![r] = @ - 1]
  /\ \/ accepted' = [accepted EXCEPT ![r] = @ + 1]
     \/ UNCHANGED accepted
  /\ UNCHANGED <<rows, actors>>

\* fault: the answer's wamid is not kept
RecordSentUnnamed(j) ==
  /\ pc[j] = "accepted"
  /\ status' = [status EXCEPT ![target[j]] = "SENT"]
  /\ Continue(j, "reading")
  /\ UNCHANGED <<campaign, attempted, wamid, consent, meta>>

RecordSent(j) ==
  /\ pc[j] = "accepted"
  /\ status' = [status EXCEPT ![target[j]] = "SENT"]
  /\ wamid' = [wamid EXCEPT ![target[j]] = TRUE]
  /\ Continue(j, "reading")
  /\ UNCHANGED <<campaign, attempted, consent, meta>>

\* A job that throws is tried again, until its attempts are used up.
EndAttempt(j) ==
  /\ tries' = [tries EXCEPT ![j] = @ + 1]
  /\ Goto(j, IF tries[j] + 1 < Attempts THEN "waiting" ELSE "exhausted")
  /\ trying' = trying \ {j}
  /\ UNCHANGED <<target, seen, news>>

\* 429: the claim is given back and the error rethrown.
Release(j) ==
  /\ pc[j] = "throttled"
  /\ attempted' = [attempted EXCEPT ![target[j]] = FALSE]
  /\ EndAttempt(j)
  /\ UNCHANGED <<campaign, status, wamid, consent, meta, failures>>

RecordFailed(j) ==
  /\ pc[j] = "failed"
  /\ status' = [status EXCEPT ![target[j]] = "FAILED"]
  /\ Goto(j, "reading")
  /\ trying' = trying \ {j}
  /\ UNCHANGED <<campaign, attempted, wamid, consent, meta, target, tries, seen,
                 news, failures>>

\* markRetryExhausted.
GiveUp(j) ==
  LET r == target[j] IN
  /\ pc[j] = "exhausted"
  /\ IF status[r] = "QUEUED" /\ ~wamid[r]
       THEN status' = [status EXCEPT ![r] = "FAILED"] /\ Continue(j, "reading")
       ELSE UNCHANGED status /\ Forget(j)
  /\ UNCHANGED <<campaign, attempted, wamid, consent, meta>>

\* A statement throws after Meta's answer and inside the try block: the catch
\* block takes it for a failed send.
FailsInside(j) ==
  /\ j \in trying /\ pc[j] \in {"accepted"} \union Completing
  /\ failures < MaxFailures
  /\ failures' = failures + 1
  /\ Goto(j, "failed")
  /\ UNCHANGED <<rows, meta, target, tries, trying, seen, news>>

\* A statement throws elsewhere.
FailsOutside(j) ==
  /\ pc[j] \in {"skipping", "claiming", "throttled", "failed"}
                 \union (IF j \in trying THEN {} ELSE Completing)
  /\ tries[j] < Attempts
  /\ failures < MaxFailures
  /\ failures' = failures + 1
  /\ EndAttempt(j)
  /\ UNCHANGED <<rows, meta>>

\* The job's process dies; the queue finds the job stalled and starts it once
\* more, or gives it up without a word.  (A job that is out of attempts only
\* runs the handler of its failure.)
Dies(j) ==
  /\ pc[j] \in JobPC \union Completing
  /\ failures < MaxFailures
  /\ failures' = failures + 1
  /\ trying' = trying \ {j}
  /\ \/ tries[j] < Attempts /\ Goto(j, "waiting") /\ UNCHANGED <<target, tries>>
     \/ /\ Goto(j, "idle")
        /\ target' = [target EXCEPT ![j] = SomeRecipient]
        /\ tries' = [tries EXCEPT ![j] = 0]
  /\ UNCHANGED <<rows, meta, seen, news>>

\* An operator's request or a webhook handler throws or dies.
Abandons(a) ==
  /\ a \notin Job
  /\ pc[a] # "idle"
  /\ Forget(a)
  /\ UNCHANGED <<rows, meta>>

-----------------------------------------------------------------------------
(* Webhook events.                                                         *)

Rank(st) ==
  CASE st \in Open -> 0
    [] st = "SENT" -> 1
    [] st = "DELIVERED" -> 2
    [] st = "READ" -> 3
    [] OTHER -> 4

\* markRecipientStatus finds the recipient by its wamid and compares.
HearStatus(h, r, st) ==
  /\ pc[h] = "idle"
  /\ wamid[r]
  /\ status[r] \notin {"REPLIED", "FAILED", "SKIPPED"}
  /\ st \in {"SENT", "DELIVERED", "READ", "FAILED"}
  /\ Rank(st) >= Rank(status[r])
  /\ Goto(h, "marking")
  /\ target' = [target EXCEPT ![h] = r]
  /\ news' = [news EXCEPT ![h] = st]
  /\ UNCHANGED <<rows, meta, tries, trying, seen, failures>>

\* markReplied, when the contact writes.
HearReply(h, r) ==
  /\ pc[h] = "idle"
  /\ status[r] \in {"SENT", "DELIVERED", "READ"}
  /\ Goto(h, "marking")
  /\ target' = [target EXCEPT ![h] = r]
  /\ news' = [news EXCEPT ![h] = "REPLIED"]
  /\ UNCHANGED <<rows, meta, tries, trying, seen, failures>>

Mark(h) ==
  /\ pc[h] = "marking"
  /\ status' = [status EXCEPT ![target[h]] = news[h]]
  /\ Continue(h, "reading")
  /\ UNCHANGED <<campaign, attempted, wamid, consent, meta>>

OptOut(r) ==
  /\ consent[r] # "OPTED_OUT"
  /\ consent' = [consent EXCEPT ![r] = "OPTED_OUT"]
  /\ UNCHANGED <<campaign, status, attempted, wamid, meta, actors>>

-----------------------------------------------------------------------------

Completion(a) == ReadCampaign(a) \/ CountOpen(a) \/ Complete(a)

OperatorStep(o) ==
  \/ RequestStart(o) \/ ReadRecipients(o) \/ NothingToStart(o) \/ Start(o)
  \/ (\E j \in Job : Enqueue(o, j)) \/ Started(o)
  \/ RequestPause(o) \/ RequestCancel(o) \/ Stop(o)
  \/ RequestImport(o) \/ (\E r \in Recipient : ReadContact(o, r))
  \/ WriteContact(o) \/ UpsertRecipient(o) \/ Imported(o)

JobStep(j) ==
  \/ ReadRecipient(j) \/ Skip(j) \/ ClaimRecipient(j) \/ Send(j)
  \/ MetaAccepts(j) \/ MetaRejects(j) \/ NoAnswer(j)
  \/ RecordSent(j) \/ Release(j) \/ RecordFailed(j) \/ GiveUp(j)

HookStep(h) ==
  \/ \E r \in Recipient : HearReply(h, r) \/ \E st \in RecipientStatus : HearStatus(h, r, st)
  \/ Mark(h)

Next ==
  \/ \E a \in Actor : Completion(a) \/ Abandons(a)
  \/ \E o \in Operator : OperatorStep(o)
  \/ \E j \in Job : JobStep(j) \/ FailsInside(j) \/ FailsOutside(j) \/ Dies(j)
  \/ \E h \in Hook : HookStep(h)
  \/ \E r \in Recipient : MetaTakesLate(r) \/ OptOut(r)

Spec == Init /\ [][Next]_vars

-----------------------------------------------------------------------------
(* Properties.                                                             *)

\* Two jobs, or a resumed campaign, never reach Meta twice for the same
\* recipient (comment at l.599), whatever throttles, times out or dies.
AtMostOnce == \A r \in Recipient : accepted[r] + wire[r] <= 1

(***************************************************************************)
(* A recipient is free to be claimed only when Meta has not taken it and   *)
(* no request of it is on its way: only an explicit 429 releases a claim.  *)
(***************************************************************************)
FreeMeansUnsent ==
  \A r \in Recipient : ~attempted[r] => accepted[r] = 0 /\ wire[r] = 0

\* What the reports count as sent was taken by Meta, under a known wamid.
SentIsTrue ==
  \A r \in Recipient :
    /\ wamid[r] => accepted[r] = 1
    /\ status[r] \in Reached => wamid[r]

-----------------------------------------------------------------------------
(* The inductive invariant behind the safety properties.                   *)

Holding == {"claimed", "awaiting", "accepted", "throttled"}

\* The job that sends to a recipient is the only one, and holds its claim.
HolderIsAlone ==
  \A j \in Job : pc[j] \in Holding =>
    /\ attempted[target[j]]
    /\ \A i \in Job : pc[i] \in Holding /\ target[i] = target[j] => i = j

\* What it knows of Meta is true.
HolderKnowsMeta ==
  \A j \in Job : pc[j] \in Holding =>
    /\ accepted[target[j]] = IF pc[j] = "accepted" THEN 1 ELSE 0
    /\ wire[target[j]] = IF pc[j] = "awaiting" THEN 1 ELSE 0

\* News is about messages whose wamid is known.
NewsHasWamid == \A h \in Hook : pc[h] = "marking" => wamid[target[h]]

\* All of the above together, the invariant every step preserves.
SendInv ==
  /\ AtMostOnce /\ FreeMeansUnsent /\ SentIsTrue
  /\ HolderIsAlone /\ HolderKnowsMeta /\ NewsHasWamid

-----------------------------------------------------------------------------
(* What a comment says and the code does not do.                           *)

(***************************************************************************)
(* l.769: contacts who have received a campaign are handled by a human     *)
(* once they write back, so the recipient keeps a status that              *)
(* findHumanManagedRecipient looks for (or Meta reports a failure).        *)
(***************************************************************************)
ReceiverIsHumanManaged ==
  \A r \in Recipient : wamid[r] => status[r] \in Reached \union {"FAILED"}
=============================================================================
