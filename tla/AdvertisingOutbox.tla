--------------------------- MODULE AdvertisingOutbox ---------------------------
(***************************************************************************)
(* The milestones of one lead on their way to Google Ads                    *)
(* (advertising.service.ts, google-data-manager.service.ts, the processor   *)
(* and the reconciliation): the rows of the database are the outbox, BullMQ *)
(* carries them, a scan brings back what either of them lost.  Between two  *)
(* actions of a preparation or of an upload is an await.                    *)
(*                                                                         *)
(* Left out: the identifiers and the amounts that are uploaded; diagnostics *)
(* warnings; leads of other contacts, for nothing is shared with them.      *)
(***************************************************************************)
EXTENDS Naturals, Sequences

CONSTANTS
  Milestone,    \* eventType of the lead's conversions
  Started,      \* CONVERSATION_STARTED, which the first attributed message records;
                \* if it is not a Milestone, it is there already
  Touch,        \* advertisingTouch: clicks whose reference the contact can send
  Account,      \* conversionCustomerId, of integration settings
  ActionId,     \* conversionActionId, of the mapping
  Preparer,     \* callers of prepareSync: the scan, or who has recorded a milestone
  NoTouch, NoDestination,
  MaxClaims,    \* bound: attributed messages
  MaxChanges,   \* bound: changes of the settings and revocations
  MaxTroubles   \* bound: failures and crashes

ASSUME AdvertisingAssumption ==
  /\ NoTouch \notin Touch
  /\ NoDestination \notin Account \X ActionId
  /\ MaxClaims \in Nat /\ MaxChanges \in Nat /\ MaxTroubles \in Nat

VARIABLES
  consent,      \* per touch: adUserData is GRANTED
  attribution,  \* the attributions in the order of attributedAt
  conversion,   \* per milestone: recorded or not, and the touch it is credited to
  syncJob,      \* per milestone: advertisingSyncJob
  settings,     \* what operators have configured
  bull,         \* per milestone: the upload's BullMQ job
  diagnosis,    \* per milestone: the diagnostics' BullMQ job
  upload,       \* per milestone: the worker's run of the upload
  prep,         \* per caller: its run of prepareSync
  revoking,     \* revokeContact: whether it runs, the touches it has found
  uploaded,     \* requests that Google may have received: <<milestone, destination>>
  changes, troubles

rows == <<consent, attribution, conversion, syncJob, settings>>
queues == <<bull, diagnosis>>
adVars == <<rows, queues, upload, prep, revoking, uploaded, changes, troubles>>

\* on: conversionSyncEnabled and the mapping's exportEnabled; sync and send: the switches
\* ADVERTISING_GOOGLE_SYNC_ENABLED and SEND_ENABLED.
Settings == [on : BOOLEAN, sync : BOOLEAN, send : BOOLEAN, account : Account,
             action : ActionId]
Destination == Account \X ActionId
Open == {"PENDING", "QUEUED", "RETRYING"}
Dispatchable == {"QUEUED", "RETRYING"}
SyncStatus == Open \union {"none", "SUBMITTED", "VALIDATED", "ACCEPTED", "PARTIAL", "FAILED",
                           "NOT_ELIGIBLE", "CANCELLED"}

\* due: nextAttemptAt is not in the future.
SyncJob == [status : SyncStatus, dry : BOOLEAN, due : BOOLEAN,
            snapshot : Destination \union {NoDestination}]
NoSyncJob == [status |-> "none", dry |-> FALSE, due |-> TRUE, snapshot |-> NoDestination]

BullState == {"absent", "waiting", "active", "completed", "failed"}
NoPrep == [step |-> "idle", milestone |-> Started, seen |-> NoSyncJob]
NoUpload == [step |-> "idle", to |-> NoDestination]
NotRevoking == [on |-> FALSE, found |-> {}]

AdTypeOK ==
  /\ consent \in [Touch -> BOOLEAN]
  /\ attribution \in Seq([touch : Touch, confirmed : BOOLEAN, lead : BOOLEAN])
  /\ conversion \in [Milestone -> [recorded : BOOLEAN, touch : Touch \union {NoTouch}]]
  /\ syncJob \in [Milestone -> SyncJob]
  /\ settings \in Settings
  /\ bull \in [Milestone -> BullState] /\ diagnosis \in [Milestone -> BullState]
  /\ upload \in [Milestone -> [step : {"idle", "load", "ineligible", "check", "checkAgain",
                                       "post", "accepted", "noId", "transient", "permanent",
                                       "diagnose"},
                               to : Destination \union {NoDestination}]]
  /\ prep \in [Preparer -> [step : {"idle", "adopt", "freeze", "queue", "enqueue"},
                            milestone : Milestone \union {Started}, seen : SyncJob]]
  /\ revoking \in [on : BOOLEAN, found : SUBSET Touch]
  /\ uploaded \subseteq Milestone \X Destination
  /\ changes \in 0..MaxChanges /\ troubles \in 0..MaxTroubles

AdInit ==
  /\ consent \in [Touch -> BOOLEAN]
  /\ attribution = <<>>
  /\ conversion = [c \in Milestone |-> [recorded |-> FALSE, touch |-> NoTouch]]
  /\ syncJob = [c \in Milestone |-> NoSyncJob]
  /\ settings \in Settings /\ settings.on /\ settings.sync
  /\ bull = [c \in Milestone |-> "absent"] /\ diagnosis = [c \in Milestone |-> "absent"]
  /\ upload = [c \in Milestone |-> NoUpload]
  /\ prep = [p \in Preparer |-> NoPrep]
  /\ revoking = NotRevoking
  /\ uploaded = {}
  /\ changes = 0 /\ troubles = 0

\* The mapping that is enabled now: where a conversion would go.
Configured == <<settings.account, settings.action>>

SetStatus(c, s) == syncJob' = [syncJob EXCEPT ![c].status = s, ![c].due = TRUE]
SetLater(c) == syncJob' = [syncJob EXCEPT ![c].status = "RETRYING", ![c].due = FALSE]

Pending == [NoSyncJob EXCEPT !.status = "PENDING", !.dry = ~settings.send]

\* The earliest CONFIRMED attribution of the lead, as a set of at most one.
FirstConfirmed ==
  LET good == {i \in DOMAIN attribution : attribution[i].confirmed /\ attribution[i].lead}
  IN {attribution[i].touch : i \in {j \in good : \A k \in good : j <= k}}

TouchOrNone == IF FirstConfirmed = {} THEN NoTouch ELSE CHOOSE t \in FirstConfirmed : TRUE

--------------------------------------------------------------------------------
(* What is recorded.                                                        *)

\* claimReference of a message with a reference that can still be used; its transaction
\* holds that reference's lock.  Only a lead that exists gets a milestone.
ClaimReference(t, leadExists) ==
  /\ Len(attribution) < MaxClaims
  /\ attribution' = Append(attribution, [touch |-> t, confirmed |-> TRUE, lead |-> leadExists])
  /\ IF leadExists /\ Started \in Milestone /\ ~conversion[Started].recorded
     THEN /\ conversion' = [conversion EXCEPT ![Started] = [recorded |-> TRUE, touch |-> t]]
          /\ syncJob' = [syncJob EXCEPT ![Started] = Pending]
     ELSE UNCHANGED <<conversion, syncJob>>
  /\ UNCHANGED <<consent, settings, queues, upload, prep, revoking, uploaded, changes, troubles>>

\* recordQualifiedMilestone, recordWonMilestone and recordLostMilestone write no touch;
\* recordLeadEvent credits the milestone to the first confirmed one.  A milestone that is
\* there already stays as it is.
RecordMilestone(c, t) ==
  /\ c # Started /\ ~conversion[c].recorded
  /\ t \in {NoTouch, TouchOrNone}
  /\ conversion' = [conversion EXCEPT ![c] = [recorded |-> TRUE, touch |-> t]]
  /\ syncJob' = [syncJob EXCEPT ![c] = Pending]
  /\ UNCHANGED <<consent, attribution, settings, queues, upload, prep, revoking, uploaded,
                 changes, troubles>>

\* revokeContact: the touches to deny are looked for before the transaction that denies them
\* and cancels every upload.
FindTouches ==
  /\ ~revoking.on
  /\ changes < MaxChanges /\ changes' = changes + 1
  /\ revoking' = [on |-> TRUE, found |-> {attribution[i].touch : i \in DOMAIN attribution}]
  /\ UNCHANGED <<rows, queues, upload, prep, uploaded, troubles>>

RevokeContact ==
  /\ revoking.on
  /\ attribution' = [i \in DOMAIN attribution |-> [attribution[i] EXCEPT !.confirmed = FALSE]]
  /\ consent' = [t \in Touch |-> consent[t] /\ t \notin revoking.found]
  /\ syncJob' = [c \in Milestone |-> IF syncJob[c].status = "none" THEN syncJob[c]
                                     ELSE [syncJob[c] EXCEPT !.status = "CANCELLED"]]
  /\ revoking' = NotRevoking
  /\ UNCHANGED <<conversion, settings, queues, upload, prep, uploaded, changes, troubles>>

\* updateIntegration, upsertMapping, or a restart with other switches.
ChangeSettings ==
  /\ changes < MaxChanges /\ changes' = changes + 1
  /\ settings' \in Settings \ {settings}
  /\ UNCHANGED <<consent, attribution, conversion, syncJob, queues, upload, prep, revoking,
                 uploaded, troubles>>

\* nextAttemptAt passes.
TimePasses(c) ==
  /\ ~syncJob[c].due
  /\ syncJob' = [syncJob EXCEPT ![c].due = TRUE]
  /\ UNCHANGED <<consent, attribution, conversion, settings, queues, upload, prep, revoking,
                 uploaded, changes, troubles>>

--------------------------------------------------------------------------------
(* prepareSync.                                                             *)

PrepareAt(p, step) == prep' = [prep EXCEPT ![p].step = step]
Return(p) == prep' = [prep EXCEPT ![p] = NoPrep]
PrepOf(p) == prep[p].milestone

ReadJob(p, c) ==
  /\ prep[p].step = "idle" /\ conversion[c].recorded
  /\ syncJob[c].status \in Open /\ (syncJob[c].status = "RETRYING" => syncJob[c].due)
  /\ prep' = [prep EXCEPT ![p] = [step |-> "adopt", milestone |-> c, seen |-> syncJob[c]]]
  /\ UNCHANGED <<rows, queues, upload, revoking, uploaded, changes, troubles>>

\* A conversion without a touch takes that of the first confirmed attribution; the touch
\* must have the consent.
AdoptTouch(p) ==
  LET c == PrepOf(p) IN
  /\ prep[p].step = "adopt"
  /\ conversion' = IF conversion[c].touch = NoTouch
                   THEN [conversion EXCEPT ![c].touch = TouchOrNone]
                   ELSE conversion
  /\ IF conversion'[c].touch # NoTouch /\ consent[conversion'[c].touch]
     THEN PrepareAt(p, "freeze") ELSE Return(p)
  /\ UNCHANGED <<consent, attribution, syncJob, settings, queues, upload, revoking, uploaded,
                 changes, troubles>>

\* With a mapping and consent, the destination is frozen by whoever finds none in the row;
\* a frozen one of another account waits for a human.
Freeze(p) ==
  LET c == PrepOf(p)
      seen == prep[p].seen.snapshot
      free == syncJob[c].snapshot = NoDestination
  IN
  /\ prep[p].step = "freeze"
  /\ IF \/ ~settings.on
        \/ seen = NoDestination /\ ~free
        \/ seen # NoDestination /\ seen[1] # settings.account
     THEN Return(p) /\ UNCHANGED syncJob
     ELSE /\ syncJob' = IF seen = NoDestination
                        THEN [syncJob EXCEPT ![c].snapshot = Configured] ELSE syncJob
          /\ PrepareAt(p, "queue")
  /\ UNCHANGED <<consent, attribution, conversion, settings, queues, upload, revoking, uploaded,
                 changes, troubles>>

\* QUEUED, if the row still has the status that was read.
Queue(p) ==
  LET c == PrepOf(p) IN
  /\ prep[p].step = "queue"
  /\ IF ~settings.sync THEN Return(p) /\ UNCHANGED syncJob
     ELSE IF prep[p].seen.status = "QUEUED" THEN PrepareAt(p, "enqueue") /\ UNCHANGED syncJob
     ELSE IF syncJob[c].status = prep[p].seen.status
     THEN SetStatus(c, "QUEUED") /\ PrepareAt(p, "enqueue")
     ELSE Return(p) /\ UNCHANGED syncJob
  /\ UNCHANGED <<consent, attribution, conversion, settings, queues, upload, revoking, uploaded,
                 changes, troubles>>

\* fault: a finished BullMQ job is taken for one that is on its way
EnqueueOnce(p) ==
  LET c == PrepOf(p) IN
  /\ prep[p].step = "enqueue"
  /\ bull' = IF bull[c] \in {"absent", "failed"} THEN [bull EXCEPT ![c] = "waiting"] ELSE bull
  /\ Return(p)
  /\ UNCHANGED <<rows, diagnosis, upload, revoking, uploaded, changes, troubles>>

\* The BullMQ job has the id of the row.  One that failed is retried; one that is complete
\* while the row is QUEUED is quarantined, for it may have reached Google.
Enqueue(p) ==
  LET c == PrepOf(p) IN
  /\ prep[p].step = "enqueue"
  /\ bull' = IF bull[c] \in {"absent", "failed"} THEN [bull EXCEPT ![c] = "waiting"] ELSE bull
  /\ IF bull[c] = "completed" /\ syncJob[c].status = "QUEUED"
     THEN SetStatus(c, "FAILED") ELSE UNCHANGED syncJob
  /\ Return(p)
  /\ UNCHANGED <<consent, attribution, conversion, settings, diagnosis, upload, revoking,
                 uploaded, changes, troubles>>

\* The process dies, or the database throws, during a preparation.
PrepareFails(p) ==
  /\ prep[p].step # "idle"
  /\ troubles < MaxTroubles /\ troubles' = troubles + 1
  /\ Return(p)
  /\ UNCHANGED <<rows, queues, upload, revoking, uploaded, changes>>

--------------------------------------------------------------------------------
(* The processor and the upload (ingest).                                   *)

Step(c, step) == upload' = [upload EXCEPT ![c].step = step]
UploadDone(c, state) ==
  bull' = [bull EXCEPT ![c] = state] /\ upload' = [upload EXCEPT ![c] = NoUpload]

\* claimSyncJob; BullMQ counts a run that claims nothing as complete.
ClaimSyncJob(c) ==
  /\ bull[c] = "waiting"
  /\ IF settings.sync /\ syncJob[c].status = "QUEUED"
     THEN SetLater(c) /\ Step(c, "load") /\ bull' = [bull EXCEPT ![c] = "active"]
     ELSE UploadDone(c, "completed") /\ UNCHANGED syncJob
  /\ UNCHANGED <<consent, attribution, conversion, settings, diagnosis, prep, revoking,
                 uploaded, changes, troubles>>

\* fault: the destination is the configured one, not the frozen one
LoadConfigured(c) ==
  LET touch == conversion[c].touch IN
  /\ upload[c].step = "load"
  /\ IF syncJob[c].status \notin Dispatchable THEN UploadDone(c, "completed")
     ELSE IF ~settings.on \/ touch = NoTouch \/ ~consent[touch]
     THEN Step(c, "ineligible") /\ UNCHANGED bull
     ELSE /\ upload' = [upload EXCEPT ![c] = [step |-> "check", to |-> Configured]]
          /\ UNCHANGED bull
  /\ UNCHANGED <<rows, diagnosis, prep, revoking, uploaded, changes, troubles>>

\* The body is made of what is read here.
Load(c) ==
  LET touch == conversion[c].touch
      snapshot == syncJob[c].snapshot
  IN
  /\ upload[c].step = "load"
  /\ IF syncJob[c].status \notin Dispatchable THEN UploadDone(c, "completed")
     ELSE IF ~settings.on \/ touch = NoTouch \/ ~consent[touch]
     THEN Step(c, "ineligible") /\ UNCHANGED bull
     ELSE IF snapshot # NoDestination /\ snapshot[1] # settings.account
     THEN UploadDone(c, "completed")
     ELSE /\ upload' = [upload EXCEPT ![c] =
                 [step |-> "check",
                  to |-> IF snapshot = NoDestination THEN Configured ELSE snapshot]]
          /\ UNCHANGED bull
  /\ UNCHANGED <<rows, diagnosis, prep, revoking, uploaded, changes, troubles>>

NotEligible(c) ==
  /\ upload[c].step = "ineligible"
  /\ SetStatus(c, "NOT_ELIGIBLE") /\ UploadDone(c, "completed")
  /\ UNCHANGED <<consent, attribution, conversion, settings, diagnosis, prep, revoking,
                 uploaded, changes, troubles>>

\* assertRuntimeAllowed, before the token is asked for and after.
RuntimeAllowed(c) ==
  LET snapshot == syncJob[c].snapshot IN
  /\ syncJob[c].status \in Dispatchable
  /\ settings.on /\ settings.sync /\ (syncJob[c].dry \/ settings.send)
  /\ snapshot # NoDestination => snapshot[1] = settings.account
  /\ consent[conversion[c].touch]

AssertRuntimeAllowed(c) ==
  /\ upload[c].step \in {"check", "checkAgain"}
  /\ IF ~RuntimeAllowed(c) THEN UploadDone(c, "completed")
     ELSE /\ Step(c, IF upload[c].step = "check" THEN "checkAgain" ELSE "post")
          /\ UNCHANGED bull
  /\ UNCHANGED <<rows, diagnosis, prep, revoking, uploaded, changes, troubles>>

\* The token is refused.
NoToken(c) ==
  /\ upload[c].step = "checkAgain"
  /\ troubles < MaxTroubles /\ troubles' = troubles + 1
  /\ Step(c, "permanent")
  /\ UNCHANGED <<rows, queues, prep, revoking, uploaded, changes>>

\* The request reaches Google, or it does not and nobody can tell.
Post(c) ==
  /\ upload[c].step = "post"
  /\ \/ /\ Step(c, "accepted")
        /\ uploaded' = uploaded \union {<<c, upload[c].to>>}
        /\ UNCHANGED troubles
     \/ /\ \E e \in {"noId", "transient", "permanent"} : Step(c, e)
        /\ uploaded' \in {uploaded, uploaded \union {<<c, upload[c].to>>}}
        /\ troubles < MaxTroubles /\ troubles' = troubles + 1
  /\ UNCHANGED <<rows, queues, prep, revoking, changes>>

\* The result is written by id, whatever the row has become; a transient failure is due
\* again in a minute, and BullMQ runs its job again in seconds.
RecordAnswer(c) ==
  LET answer == upload[c].step IN
  /\ answer \in {"accepted", "noId", "transient", "permanent"}
  /\ \/ /\ answer = "accepted" /\ ~syncJob[c].dry
        /\ SetStatus(c, "SUBMITTED") /\ Step(c, "diagnose") /\ UNCHANGED bull
     \/ /\ answer \in {"accepted", "noId"} /\ syncJob[c].dry
        /\ SetStatus(c, "VALIDATED") /\ UploadDone(c, "completed")
     \/ /\ answer = "noId" /\ ~syncJob[c].dry
        /\ SetStatus(c, "FAILED") /\ UploadDone(c, "completed")
     \/ /\ answer = "permanent"
        /\ SetStatus(c, "FAILED") /\ UploadDone(c, "completed")
     \/ /\ answer = "transient"
        /\ SetLater(c) /\ \E s \in {"waiting", "failed"} : UploadDone(c, s)
  /\ UNCHANGED <<consent, attribution, conversion, settings, diagnosis, prep, revoking,
                 uploaded, changes, troubles>>

AddDiagnostics(c) ==
  /\ upload[c].step = "diagnose"
  /\ diagnosis' = [diagnosis EXCEPT ![c] = IF @ = "absent" THEN "waiting" ELSE @]
  /\ UploadDone(c, "completed")
  /\ UNCHANGED <<rows, prep, revoking, uploaded, changes, troubles>>

\* The worker dies: BullMQ gives a stalled job back, or fails it.
WorkerDies(c) ==
  /\ upload[c].step # "idle"
  /\ troubles < MaxTroubles /\ troubles' = troubles + 1
  /\ \E s \in {"waiting", "failed"} : UploadDone(c, s)
  /\ UNCHANGED <<rows, diagnosis, prep, revoking, uploaded, changes>>

--------------------------------------------------------------------------------
(* Diagnostics.                                                             *)

\* diagnose reads the row and asks Google; a row that is not SUBMITTED ends the job.
Diagnose(c) ==
  /\ diagnosis[c] = "waiting"
  /\ diagnosis' = [diagnosis EXCEPT ![c] =
                     IF syncJob[c].status = "SUBMITTED" THEN "active" ELSE "completed"]
  /\ UNCHANGED <<rows, bull, upload, prep, revoking, uploaded, changes, troubles>>

\* The verdict is written by id.
Verdict(c) ==
  /\ diagnosis[c] = "active"
  /\ \E s \in {"ACCEPTED", "PARTIAL", "FAILED"} : SetStatus(c, s)
  /\ diagnosis' = [diagnosis EXCEPT ![c] = "completed"]
  /\ UNCHANGED <<consent, attribution, conversion, settings, bull, upload, prep, revoking,
                 uploaded, changes, troubles>>

\* Still processing, or a failure: a later attempt, none left, or none wanted.
NoVerdict(c) ==
  /\ diagnosis[c] = "active"
  /\ troubles < MaxTroubles /\ troubles' = troubles + 1
  /\ \E s \in {"waiting", "failed", "completed"} : diagnosis' = [diagnosis EXCEPT ![c] = s]
  /\ UNCHANGED <<rows, bull, upload, prep, revoking, uploaded, changes>>

\* recoverDiagnostics, of the scan.
RecoverDiagnostics(c) ==
  /\ syncJob[c].status = "SUBMITTED" /\ ~syncJob[c].dry
  /\ diagnosis[c] \in {"absent", "failed", "completed"}
  /\ diagnosis' = [diagnosis EXCEPT ![c] = "waiting"]
  /\ UNCHANGED <<rows, bull, upload, prep, revoking, uploaded, changes, troubles>>

--------------------------------------------------------------------------------

Prepare(p) ==
  AdoptTouch(p) \/ Freeze(p) \/ Queue(p) \/ Enqueue(p)

Upload(c) ==
  \/ ClaimSyncJob(c) \/ Load(c) \/ NotEligible(c) \/ AssertRuntimeAllowed(c) \/ Post(c)
  \/ RecordAnswer(c) \/ AddDiagnostics(c)

AdNext ==
  \/ \E t \in Touch, l \in BOOLEAN : ClaimReference(t, l)
  \/ FindTouches \/ RevokeContact \/ ChangeSettings
  \/ \E p \in Preparer : Prepare(p) \/ PrepareFails(p) \/ \E c \in Milestone : ReadJob(p, c)
  \/ \E c \in Milestone :
       \/ \E t \in Touch \union {NoTouch} : RecordMilestone(c, t)
       \/ TimePasses(c) \/ Upload(c) \/ NoToken(c) \/ WorkerDies(c)
       \/ Diagnose(c) \/ Verdict(c) \/ NoVerdict(c) \/ RecoverDiagnostics(c)

\* The scan comes back every ten seconds and takes the rows in turn, BullMQ runs what it
\* holds, and time passes.
AdFairness ==
  /\ \A p \in Preparer : WF_adVars(Prepare(p))
  /\ \A c \in Milestone :
       /\ WF_adVars(Upload(c)) /\ WF_adVars(TimePasses(c))
       /\ SF_adVars(\E p \in Preparer : ReadJob(p, c))
       /\ WF_adVars(Diagnose(c)) /\ WF_adVars(Verdict(c)) /\ WF_adVars(RecoverDiagnostics(c))

AdSpec == AdInit /\ [][AdNext]_adVars /\ AdFairness

--------------------------------------------------------------------------------

\* Whatever is retried and whatever operators change in between, Google is never asked to
\* count a milestone for two destinations.
OneDestination ==
  \A x, y \in uploaded : x[1] = y[1] => x[2] = y[2]

\* What a row needs to be uploaded.
Sendable(c) ==
  /\ settings.on /\ settings.sync /\ settings.send
  /\ conversion[c].touch # NoTouch /\ consent[conversion[c].touch]
  /\ syncJob[c].snapshot # NoDestination => syncJob[c].snapshot[1] = settings.account

\* A milestone that may be uploaded does not wait for ever: what the database, BullMQ or a
\* dead worker lost is brought back or quarantined, and what was submitted is diagnosed.
EveryUploadSettles ==
  \A c \in Milestone :
    <>[]Sendable(c) => []<>(syncJob[c].status \notin Open \union {"SUBMITTED"})

\* A revocation cancels the uploads that are pending, for good.  This does not hold: ingest
\* and diagnose write their outcome by id, over a CANCELLED that was written meanwhile.
CancelledIsFinal ==
  [][\A c \in Milestone :
       syncJob[c].status = "CANCELLED" => syncJob'[c].status = "CANCELLED"]_syncJob
================================================================================
