# A verification of Hermes, the WhatsApp assistant of a CRM

This directory holds TLA+ models of `src/hermes-backend`, the TLC
configurations that check them on small instances, and proofs that the TLA+
proof system (TLAPS) checks for every size. Paths below are relative to the
repository; `backend` stands for `src/hermes-backend/src`.

1. [The system](#1-the-system): its parts, their state, how they interact
2. [Where it is hard](#2-where-it-is-hard)
3. [The modules](#3-the-modules) and how they correspond to the code
4. [The runs](#4-the-runs): what each checks, bounds, fairness
5. [The proofs](#5-the-proofs)
6. [Findings](#6-findings)
7. [What is not modelled](#7-what-is-not-modelled), and the [plan](#8-plan)

## 1. The system

Hermes answers the customers of a company on WhatsApp. Meta calls a webhook; the
event is stored and processed; inbound messages are gathered into turns; a
worker asks a language model for an answer and sends it through Meta; a human
may take a conversation over at any time. Around this core there are campaigns,
transfers to confirm, meetings in a Google calendar, and conversions reported to
Google Ads. Everything that must survive lives in Postgres (Prisma); Redis keeps
Bull queues and counters. Several processes may run the same code.

```
 Meta -> Webhook inbox -> Inbound turns -> Auto-reply worker -> Conversation engine
              |                                  |       \
              |                                  v        -> Meeting conversation
              +--> Payments, Leads,      Automated delivery      |
              |    Handoffs, Tasks            ledger       Meeting operations
              +--> Campaigns (status)           |                |
                       |                        v                v
                       +-----------------> Meta Cloud API   Google Calendar
```

The components interact in four ways. They call one another inside a process.
They leave rows for each other in Postgres: a turn for a worker, a delivery for
the sweep, a meeting operation for the scan. They queue jobs in Bull, which may
run late, twice or never. And they exclude one another with
`pg_advisory_xact_lock(hashtext(conversationId))`, the *conversation's lock*, held
by a transaction and lost with it.

| Component | State | Operations | What makes it correct |
|---|---|---|---|
| **Automated delivery ledger** (`automated-deliveries/`) | `automated_deliveries`: one row per part of a reply, with status, claim token, claim expiry, attempts | `prepareBatch`, `recoverBatch`, `deliverPreparedBatch` (lock, claim, confirm, failure), `recoverExpiredClaims` every 60 s | a part reaches the customer at most once and in order; the row tells the truth; nothing automatic goes out during a handoff; claims and locks are given back |
| **Inbound turns** (`auto-replies/inbound-turn*.ts`) | `inbound_turns`: status, `dueAt`, `firstAt`, processing token and lease; messages point to their turn | `schedule`, `claim`, `complete`, `release`, the 5 s recovery scan | every message is taken into account by some run; the debounce is bounded; one turn per message |
| **Auto-reply worker** (`auto-replies/auto-reply.service.ts`) | none of its own | `process` a turn: checks, meeting, callback, model, reviews of its words, quote, incident, handoff, delivery | what the customer is told to be under way was recorded; nothing is said that the business did not publish |
| **Meta Cloud API client** (`meta/`) | none | send text, voice, template, media; download | an error it reports as a rejection is one |
| **Handoffs and conversation status** (`handoff/`, `conversations/`) | `human_handoffs` (open, assigned, resolved), `conversations.status` | create, assign, resolve, reopen, `updateStatus`, `reply` by a human | an open handoff and the status agree; only who has the conversation answers |
| **Webhook inbox and routing** (`webhook/`) | `meta_webhook_inbox` with status, outcome, claim token, lease | accept, the scan that claims and processes, routing to all others | every accepted event completes; a completed one was routed, and stays completed |
| **Campaigns** (`campaigns/`) | `campaigns.status`; `campaign_recipients`: status, `sendAttemptedAt`, `wamid`; jobs | start, pause, resume, cancel, import, send one, status events, replies, opt-out, completion | the template is sent once per recipient; reports are true; who received one gets a human |
| **Meeting operations** (`integrations/google-calendar/meeting-operations*`, `meeting-recovery*`) | `meeting_operations` with claim; `meetings`; the event at Google | `prepare`, `apply`, `interrupt`, `recover` | no slot is booked twice; the CRM and Google agree; humans are left alone; operations end |
| **Google Calendar client** (same directory) | OAuth tokens | get, create, move, cancel an event; free/busy | an event id decides which event is meant, so a repeated create is found |
| **Meeting conversation** (`meetings.service.ts`, `slot-engine.ts`, ...) | `ConversationState.meetingState`: phase, attempt, offered slots | `handleTurn`: offer slots, understand choices, prepare and apply | nothing is booked, moved or cancelled that the customer did not choose |
| **Transfer payments** (`payments/`) | `transfer_payments`: status; the messages that are proofs; the verification task | send instructions, confirm them, detect a proof, start a review, approve, reject | one open transfer per conversation; a decision is final; a transfer in review is not forgotten |
| **Conversation engine** (`conversation-engine/`) | a queue of inferences | run with bounded wait and retries, validate the answer, review its proposal | a failure always becomes a text |
| **Hermes and commercial policy** (`hermes/`) | none | prompt, completion with repairs, policy, review of commercial claims | no price or term without authority; a question for the price is answered |
| **Conversation guard** (`conversation-guard/`) | counters in Redis | block, quota, inspect a reply | heuristics over counters and texts |
| **Advertising conversions** (`advertising/`) | `advertising_conversions`, `advertising_sync_jobs`, touches, consents; BullMQ jobs | record a milestone, prepare, upload, diagnose, reconcile, quarantine, revoke | sent to one destination; nothing waits for ever |
| **Advertising reporting** | none | reads reports | - |
| **Leads** (`leads/`) | `leads.stage`; milestones | create, profile, qualify, move in the pipeline, record a milestone | no stage is shown that was not reported; one open lead per contact |
| **Tasks** (`tasks/`) | `tasks` | request a callback, a quote, the review of an incident; complete, remove | one open follow-up of a kind |
| **Learning reviews** (`learning/`) | `conversation_reviews`, `learning_items`, `learning_evidence`; BullMQ jobs | schedule, claim, ask the model, propose, decide | the model is asked a bounded number of times; decisions stand |
| **Feedback**, **n8n integration**, **Conversation events**, **Voice**, **CRM records**, **Authentication**, **Infrastructure and scripts** | single rows or none | create, read, update, notify, synthesize | no protocol between processes |

## 2. Where it is hard

`PROJECT.json` lists each hazard at its line with the properties that cover it.
They have a few causes.

* **An answer that does not come.** Meta or Google may have done what a call
  asked for when the call fails. Only an explicit 429 (Meta) or a look at the
  event (Google) permits a second attempt.
* **A process that dies** between any two statements: between a claim and its
  request, between the request and the record, between the parts of a reply,
  between a promise to the customer and the task behind it.
* **Leases that run out while their owner lives**: 60 s for a delivery, 5 min for an
  event, 10 min for a review, 15 min for a turn, 180 s for a meeting operation. The
  late owner comes back and writes.
* **Rows written by their id alone** on the strength of an older read, while
  another writer came between: `campaigns.service.ts:516`,
  `inbound-turn.service.ts:64`, `meeting-operations.service.ts:440`,
  `payments.service.ts:491`, `leads.service.ts:824`, `webhook.service.ts:660`,
  `google-data-manager.service.ts:247`.
* **A clock read before a wait**: `inbound-turn.service.ts:25`.
* **A lock held by a transaction that can die first**, so the lock's owner goes
  on without it: `automated-delivery.service.ts:125`.
* **Locks that do not exclude one another**: a lead is written under the
  conversation's lock, the contact's and a transfer's; a conversation under its own
  and the contact's.
* **State saved before it is shown**: the customer's next words are read with a
  question or a list that never reached him (`meetings.service.ts:360`).
* **Reviews in a row**, each of which rewrites what the next reads
  (`commercial-claims.ts:154`, `auto-reply.service.ts:808`).
* **Humans** who take over, resolve, pause and resume at any moment.
* **Liveness that rests on a sweep**: a lost job is found again only by a scan.

## 3. The modules

| Module | Models or proves |
|---|---|
| `AutomatedDelivery` | the delivery ledger, its callers, Meta, and the CRM as far as the ledger reads it |
| `DeliveryPromise` | what the ledger promises, with no workers, leases or network in it |
| `InboundTurn` | turns, their schedules, workers and recovery |
| `ConversationControl` | who answers a conversation: handoffs, status, a human's reply |
| `WhoAnswers` | what handoffs promise, with no rows, locks or transactions in it |
| `WebhookInbox` (extends `ConversationControl`) | the inbox of events, the scan, the routing of a message |
| `FollowUps` (extends `ConversationControl`) | the tasks Hermes leaves for the team |
| `AutoReply` (extends `FollowUps`) | what the worker does with a turn |
| `ReplyReview` | what becomes of the words of a model |
| `MeetingDialogue` | the talk that leads to an operation on a meeting |
| `MeetingOperations` | operations on meetings, their appliers, Google |
| `SalesPipeline` | one lead, its transfers, proofs and milestones |
| `Campaigns` | one campaign, its operators, jobs and webhook handlers |
| `AdvertisingOutbox` | conversions on their way to Google Ads |
| `LearningReview` | reviews of complaints and what is decided on them |
| `AutomatedDeliveryProofs`, `MeetingOperationsProofs`, `SalesPipelineProofs` | proofs about the module of that name |
| `ConversationControlProofs` | lemmas about `ConversationControl`, for the modules that extend it |
| `InboxAdsProofs` | proofs about `WebhookInbox` and `AdvertisingOutbox`, the modules of the run `InboxAds` |
| `RepliesProofs` | proofs about `AutoReply` with `FollowUps`, and `ReplyReview`, as in `Replies` |
| `TurnsProofs` | proofs about `InboundTurn` and `MeetingDialogue`, as in `Turns` |
| `JobsProofs` | proofs about `Campaigns` and `LearningReview`, as in `Jobs` |
| `MC...` | instances for TLC: requests, symmetries, bounds, and pairs of modules in one run |

`ConversationControl` is the state that handoffs, the webhook and the worker share, so
`WebhookInbox` and `AutoReply` each *compose* it with their own actors: a handoff that
a scan or a worker opens is the `ReadCreate`, `WriteCreate` of `ConversationControl`,
interleaved with everything operators do. `FollowUps` adds tasks to it, and their
transactions take the same lock.

The same conventions hold everywhere. A process is a program counter, and *the
statements between two awaits are one action*: an await of a request to Meta or
Google, or of a statement outside a transaction, is a point where others may run
and the process may die. A transaction that waits for nothing outside Postgres is
one action, unless what it reads can change before it writes (`SalesPipeline`,
`ConversationControl`, `FollowUps`, where it is two). A statement that throws and a
process that dies are actions of their own, counted where they need a bound. Operators
marked `\* fault:` are mutations of the definition after them; the specifications never
use them.

### AutomatedDelivery

One conversation. A row of `automated_deliveries` is a key `[src, kind, part]`, the
code's `operationKey`; `status`, `claimToken`, `leaseLeft` (until `claimExpiresAt`),
`attempts`, `allowHandedOff` and `rowTurn` (the turn in its metadata) are its
columns, `outbound` the persisted outbound messages. A claim token, a fresh UUID in
the code, is the number of the attempt.

| Action | Code (`automated-delivery.service.ts`) |
|---|---|
| `Begin`, `Recover`, `PreparePart` | a caller calls; `recoverBatch`; one upsert of `prepareBatch` |
| `LockBatch`, `BatchDone`, `BatchBlocked` | `deliverPreparedBatch`: the transaction with the lock, its snapshot, its loop |
| `ClaimRefused`, `Suppress`, `Claim` | `claimDelivery` with `ineligibilityReason` |
| `Dispatch`, `MetaAccepts`, `MetaThrottles`, `MetaRejects`, `NoAnswer` | the request to Meta and the ways it ends |
| `CheckClaim`, `Confirm`, `ConfirmFails` | `confirm`: its check, its write, and a failure between |
| `Throttled`, `Rejected`, `NoAnswer` | `handleDispatchFailure` |
| `RequeueExpired`, `RecoverExpired`, `Tick` | the sweep, and time |
| `Crash`, `LockDrops` | a process dies; the lock's transaction dies under its owner |
| `CustomerWrites`, `ScheduleTurn`, `OptOut`, `WindowCloses`, `OpenHandoff`, `ResolveHandoff`, `UpdateStatus` | the rest of the CRM, with the locks the code takes |

An answer can be lost in two ways: Meta takes the request and the caller never
hears, or the caller gives up and Meta takes it later (`wire` keeps the request).

`DeliveryPromise` knows only, per part, its `fate` and how often it was `received`.
A part's fate goes from none to open to sent, not sent or unknown; unknown may
become sent; a part is received once, and only after the earlier parts are sent.
`KeepsPromise` maps `status` to `fate` and `accepted` to `received`.

### InboundTurn

One conversation. A turn is named by the message that opened it. Its instants are
counted relative to now: `due` to `dueAt`, `room` to the maximum wait. `ReadClock`,
`AlreadyScheduled`, `FindOpen`, `Join`, `OpenTurn` and `AbortSchedule` are `schedule`,
split at its statements because `claim`, `complete` and `release` take no lock;
`age` is the time since its clock was read. `Claim`, `ReadTurn`, `ReadMessages`,
`Answer`, `Fail`, `EndRun`, `Complete` and `Release` are a worker's job, `Retry` a
failed webhook event that schedules again, `OtherLocks` a delivery or a handoff
that holds the lock. A delayed job, its rechecks and the recovery scan all end in
`claim`, which refuses what is not due: a worker may try at any moment.

### ConversationControl and WebhookInbox

`tx` is an actor's transaction with what it has read; `lock` the conversation's
advisory lock. `ReadCreate` and `WriteCreate` are `HandoffService.create`, `ReadAssign`
and `WriteAssign` its `assign`; `ReadResolve` with `WriteKeep` or `WriteResolve` are
`resolve` (keep it, give it back to Hermes, close). `ReadClose`, `ReadReopen` and
`WriteStatus` are `updateStatus` and `reopen`. `ReadReply`, `MetaAnswers` and `WriteReply`
are a human's `reply`, which waits for Meta inside its transaction; `Rollback` ends any.

`WhoAnswers` knows only who holds the conversation (Hermes, the team, a person, or nobody
while it is closed) and whose reply is on its way. It changes hands in six ways, and never
under a reply: Hermes hands it over, somebody takes it, *only who has taken it gives it
back or closes it*, and an open handoff is not passed by. `HolderAnswers` maps the status,
the open handoff and its agent to the holder, and the transactions of replies to
`replying`. Every other statement of operators, scans and workers is a stutter.

`WebhookInbox` follows a scan statement by statement.

| Action | Code (`webhook.service.ts`) |
|---|---|
| `Accept`, `LeaseEnds` | `acceptWebhook` stores an event; five minutes pass |
| `Fetch`, `ClaimEvent`, `EndOfBatch` | the scan: due rows, its compare and set on a row, the end |
| `Lookup`, `ReadConversation`, `WriteResume`, `CreateMessage` | `processIncomingMessage`, `getOrCreateConversation` under the contact's lock |
| `Attribute`, `DetectProof`, `Reread` | attribution, a proof of payment, the status read again |
| `RouteDirectly`, `RouteOn`, `OpenHandoff`, `HandoffOpened`, `Notify` | `routeInbound`: nothing to do, a turn, a handoff and its notice |
| `Settle`, `Throws`, `Crash` | the last `updateMany` with the token, the `catch`, a death |

### FollowUps, AutoReply and ReplyReview

`ReadTask` and `WriteTask` are a transaction of `requestQuote`, `requestCallback` or of the
incident's review; `FindCallback` and `FileCallback` find out that the message was filed
before. `CompleteTask` and `RemoveTask` are operators, by id.

`AutoReply` is `processTurn`. A run goes through `StartRun`, `Transcribe`, `Recover`,
`Check` and `Decide`; it may end there, because humans or a newer message have the turn,
or `Elsewhere` (a payment, a quota). Otherwise the dialogue's answer, a notice, or
`Respond` makes a plan, any that the reviews may leave: what it `says` and what is `todo`.
`FileTask`, `TaskFiled`, `OpenHandoff`, `HandoffOpened` and `NoHandoff` do it,
`BeforeSend`, `Prepare` and `Deliver` send it. `Interrupted` is a run that throws or dies;
its turn, or one whose lease ran out, is run again, the latter while the first goes on.

`ReplyReview` has no other actors: it is the sequence of rewritings between the model and
the customer, with every text of up to `MaxClauses` kinds of clauses as its input.
`Attempt` and `EnforcePolicy` are Hermes' own engine with its repairs and fallback,
`Infer`, `ReviewProposal` and `RepairClaims` the Nous engine; `ReviewClaims`,
`RemoveUnrequestedPrice`, `Recommend`, `AddRenewal`, `AnswerTimeline`, `FinalAnswer`,
`FinalClaims`, `FinalReview`, `Guard`, `CheckGeminiPromise`, `CheckPromise` and `Incident`
are what the worker makes of either, in its order; `Act` decides what is filed. What a
clause is recognized by (regular expressions in Spanish) is left out: whether the code
*recognizes* an amount is outside the model, what it does once it has is inside.

### MeetingDialogue

A run of `handleTurn` is `Write` (the customer's text), `HandleTurn`, and then what it
came to: `Offer` (`offer`, with the slots of `slot-engine.ts`), or `PrepareOp`, `SaveBooking`,
`Apply` and `SaveOutcome` (`book`), and `Send`. `HandleTurn` is the disjunction of the code's
branches, each named: `TellLocation`, `CorrectLocation`, `TellDate`, `SelectMeeting`, `Keep`,
`ConfirmChange`, `ConfirmCancel`, `ChangeMeeting`, `BeginTalk`, `TellEmail`, `Choose`.
`SettleOp`, `OthersBook` and `DayPasses` are everybody else. `wanted` and `agreed` record
what the customer chose from what he had *seen*, the standard the operations are held to.

### MeetingOperations

One calendar. A meeting stands for its conversation, and slots that overlap,
buffers included, are one slot. `PrepareCreate` and `PrepareChange` are `prepare`
under the calendar's lock. A run of `apply`, by a chat turn or a scan, goes through
`Begin`, `Claim`, `ReadConversation`, `GetEvent`, `CheckBusy`, `Lock`, then
`GoogleAnswers` or `GoogleAnswerLost` and `Finish`; `Throws` and `Fail` are its
`catch`, `Dies` its end. `Interrupt` is the customer's no, `ChangeHands` a handoff or
its end, `TimePasses` the end of a claim or of a retry's wait, `Notified` the notice
that a scan sends for an operation it completed. The unique index
`meeting_operations_one_active` of the database, not only the code's check, keeps
two operations of a meeting from being under way (`OneUnderWay`).

### SalesPipeline

One customer: a contact, its lead, its conversation. `stage` is the lead's,
`milestones` the lead's rows of `advertising_conversions`, `status` and `proofOf` the
transfers and the messages recorded as their proofs, `verification` the open task of
type PAYMENT_VERIFICATION. Under READ COMMITTED a transaction writes rows by id from
what it read, and only those that ask for the same advisory lock wait for one another.

| Actions | Code | Lock |
|---|---|---|
| `ReadLead`, `PrepareTransfer` | `maybeSendInstructions`: reads, then its transaction | none, then conversation |
| `ReconcileInstruction` | `reconcileInstruction`, a compare and set | none |
| `ReadProfile`, `RecordProfile` | `recordCommercialProfileFromConversation` | contact |
| `ReadPromotable`, `Qualify` | `qualifyFromConversation`, `recordConfirmedMeeting` | contact |
| `ReadHandedLead`, `HandOver` | the lead in `HandoffService.create` | conversation |
| `ReadPayment`, `RecordProof` | `detectProof` | conversation |
| `ReadTransfer`, then `StartReview`, `Approve` or `Reject` | `startReview`, `approve`, `reject` | the transfer |
| `ReadStage`, `MoveStage` | `LeadsService.update`: checks, then its writes | none, then contact |
| `Rollback` | a statement throws (`recordWonMilestone` among them), or the process dies | - |

Where a transaction reads several rows before it writes (the transfer, its proof and
the lead in `approve`), the reads are one action: the rows read first cannot change
before the last is read, because of the lock or because nobody changes them back.
`LeadsService.update` is the exception: its look at the lead and its look at the
transfers are merged, and nothing the properties speak of depends on the gap. Amounts,
contract references and the policy that recognizes a request to pay are left out:
what they refuse is a transaction that does not happen.

### Campaigns

One campaign. Nothing takes a lock, so *each statement is an action*. An operator
starts (`RequestStart`, `ReadRecipients`, `Start`, `Enqueue`), stops (`RequestPause`,
`RequestCancel`, `Stop`) or imports (`RequestImport`, `ReadContact`, `WriteContact`,
`UpsertRecipient`, `Imported`). A job is `processSendJob` with Bull's retries:
`ReadRecipient`, `Skip`, `ClaimRecipient`, `Send`, the answers, `RecordSent`,
`Release` (a 429), `RecordFailed`, `GiveUp`. Whatever may finish the campaign ends in
`completeIfFinished`: `ReadCampaign`, `CountOpen`, `Complete`. A hook is a webhook
handler: `HearStatus` or `HearReply`, then `Mark`. `FailsInside` is a statement that
throws inside the `try` that began with the send, which the `catch` takes for a
failed send; `FailsOutside` makes Bull try again; `Dies` lets Bull start the stalled
job again. `MetaTakesLate` is a request that outlived its caller.

### AdvertisingOutbox and LearningReview

In `AdvertisingOutbox` the rows of the database, BullMQ's jobs and Google's answers are
apart, because each may lose what the other has. `ClaimReference` and `RecordMilestone`
make rows. `ReadJob`, `AdoptTouch`, `Freeze`, `Queue`, `Enqueue` are `prepareSync`, called by
the reconciliation and by whoever records a milestone; `ClaimSyncJob`, `Load`, `NotEligible`,
`AssertRuntimeAllowed`, `NoToken`, `Post`, `RecordAnswer`, `AddDiagnostics` the upload's job;
`Diagnose`, `Verdict`, `NoVerdict`, `RecoverDiagnostics` the diagnosis. `FindTouches` and
`RevokeContact` are a revocation, which finds touches before its transaction;
`ChangeSettings` an operator; `PrepareFails` and `WorkerDies` the failures.

In `LearningReview` `RequestReview`, `CreateReview`, `EnqueueReview` and `EnqueuePending` (start
of a process) schedule, `ClaimReview`, `ReadEvidence`, `AskModel`, `Propose` and `EndReview`
are `process`, with BullMQ's retries in `JobFails`, `MarkFailed`, `ClaimThrows` and
`ReviewerDies`; `ReadLesson` and `WriteDecision` are `decide`, a compare and set.

## 4. The runs

Every run lists a question. A *pass* explores all states of its instance; a
*violation* shows that the code does not do what a document or comment says
(section 6).

Some runs hold two modules that share nothing (`MCDeliverySales`, `MCTurns`, `MCInboxAds`,
`MCReplies`, `MCJobs`). A variable chosen in the first state says which of the two a
behaviour is about; the other never moves. The state space is the *sum* of the two,
never the product, and each property is checked on exactly the behaviours of its own
module.

| Run | States | Question and answer |
|---|---|---|
| `DeliverySales` | 958 thousand | *Delivery*: two workers race over a two-part reply, through crashes, a 429, lost answers, expired leases and a lost lock. Nothing is sent twice (`AtMostOnce`) or out of order (`PartsInOrder`), the ledger is true (`LedgerTellsTruth`), and the ledger implements `DeliveryPromise` (`KeepsPromise`). *Sale*: two transfers, two proofs, two turns, a handler and an operator. One transfer is open at a time (`OneOpenPayment`); one in review has its task (`ReviewIsVisible`); no stage is shown without its milestone (`StageIsReported`); a decision is final (`DecisionIsFinal`). |
| `DeliveryHandoff` | 112 thousand | System notices for one message by two callers, while the customer opts out, the window closes and humans open and resolve handoffs: batches are serialized (`BatchesDoNotInterleave`), no notice that must wait for humans is sent during a handoff (`HandoffExcludesDispatch`), claims are settled (`ClaimsAreSettled`) and the lock is given back (`LockIsReleased`), whoever dies. |
| `TurnPrompt` | 54 thousand | A burst of three messages, schedules that finish within the tick of their clock: a processed turn holds no unread message (`NoMessageLeftBehind`), two turns never compete (`OneJoinableTurn`), and every message is eventually considered (`EveryMessageConsidered`). |
| `Turns` | 2.1 million | *Turns*: two workers, schedules that wait a tick for the lock, runs that outlive their lease: one turn per message (`OneTurnPerMessage`), the debounce is bounded (`WaitIsBounded`), a finished turn stays finished (`ProcessedIsFinal`). *Talk*: a customer who reads each answer before he writes again: nothing is booked, moved or cancelled that he did not choose (`OperationsAreAskedFor`). |
| `TurnRace` | violation | A message joins a processed turn. |
| `DialogueStale` | violation | A yes, or the number of an old option, answers what was saved and never shown. |
| `InboxAds` | 281 thousand | *Inbox*: one event, two scans, two operators, a failure. A handoff and the status agree (`OneIsInCharge`), a human's reply is by who has the conversation (`RepliesAreAuthorized`), it changes hands only as handoffs promise (`HolderAnswers`), a completed event was routed (`CompletedWereRouted`) and stays completed (`CompletedIsFinal`), every event completes (`EveryEventCompletes`). *Ads*: one conversion, two actions, a change of the settings, a failure: it is uploaded to one destination (`OneDestination`) and does not wait for ever (`EveryUploadSettles`). |
| `InboxResume` | violation | A resumed conversation is ACTIVE with an open handoff. |
| `Replies` | 4.0 million | *Conversation*: two messages, the second perhaps answered by the webhook, two workers, a repeated run and an operator: one open follow-up of a kind (`OneOpenTask`), and what a delivered reply says to be under way was recorded (`PromisesAreBacked`). *Words*: every text of two kinds of clauses from either engine: no amount or term without authority (`OnlyAuthorizedTerms`), a question for the price is answered (`PriceIsAnswered`), a promise is recorded or removed (`PromisesAreRecorded`). |
| `Jobs` | 2.1 million | *Campaign*: one recipient, two jobs, an operator and a hook: the template is taken once (`AtMostOnce`), and what counts as sent was taken (`SentIsTrue`). *Learning*: two complaints of one lesson, two supervisors: the model is asked three times at most per complaint (`ReviewsAreBounded`), decisions stand (`DecisionsStand`). |
| `CampaignResume` | violation | A resume overwrites SENT. |
| `Meetings` | 228 thousand | Two meetings over two slots, made, moved and cancelled by a chat turn and a scan through two failures: no slot is taken twice (`NoDoubleBooking`), Google and the CRM agree when nothing is under way (`CalendarAgrees`), humans are left alone (`HumansKeepCalendar`), and every operation ends (`OperationsSettle`). |

### Bounds

* **Actors.** Two workers (`Worker`), scans (`Scan`), jobs (`Job`), operators of a
  conversation or appliers (one `Chat`, one `Scan`) are enough for every race found in
  the code: each is between the holder of a claim and one newcomer. One operator and one
  hook at a time keep the campaign of `Jobs` small; the proofs have no such bound. One
  worker in `TurnPrompt`, because its question is about schedules; all workers of `Turns`
  are busy at once only before the last message (`TurnBound`).
* **Parts.** `MaxPart = 1` gives an earlier and a later part. Order is a relation of
  two parts.
* **Leases and waits.** `Lease = 1` ticks: a lease is running or has run out, and
  `Tick` may happen between any two steps. `Debounce` and `MaxWait` differ by one so
  that the maximum wait cuts the debounce; `MaxAge` is how long a schedule may wait
  after reading its clock (0 in `TurnPrompt`, 1 in `Turns` and `TurnRace`).
* **Failures.** `MaxThrottled`, `MaxFailures`, `MaxAccidents`, `MaxTroubles` and `Attempts`
  bound what could repeat for ever. One lost answer is recovered by a second attempt; two
  reach the attempt after a recovery.
* **Notices.** `DeliveryHandoff` uses `NoticesSpec`: notices are not recovered, nothing is
  throttled and the lock's transaction does not die first. A batch has at most nine parts
  of at most 30 s each, less than the 360 s that transaction may take. `DeliverySales`,
  whose properties do not need the lock, has all three.
* **Operations.** `InOrder` takes meetings and operations in their order, for nothing
  depends on their names. `Bound`: two failures with one meeting that is made and then
  moved or cancelled, or three operations of two meetings without any; no third operation
  once a customer has said no.
* **Talk.** Two days with one slot each, or, in `DialogueStale`, one day with three; three
  attempts, the third only after two meetings were made (`TalkBound`), so that there is
  a meeting to select among two.
* **Transfers and proofs.** The second transfer follows a rejection, or an approval that
  a turn did not see; the second proof comes while the first is under review. One
  operator is enough to race with turns and handlers; two operators meet only at a
  transfer's lock, and the proofs have as many as one likes.
* **Replies.** Operators act only while a turn waits for its answer (`Busy`): what they do
  after the last one is seen by no run. `Earlier` leaves an open quote from before.
* **Inbox.** One event that two scans take up is every race of the lease; what two events
  share is the conversation, whose transactions two operators already hold. `Media`
  holds it, so it may be a proof of payment. `ReopenRaces` is FALSE in `InboxAds`: the
  disagreement that `InboxResume` shows is left out to find any other.
* **Uploads.** One milestone, one click, one account with two actions. The code quarantines
  a row whose frozen account is no longer the configured one; with one account that
  does not happen here, and the proof of `OneDestination` covers it. CONVERSATION_STARTED
  (`Started`) is there from the beginning.
* **Words.** Kinds of clauses, up to two from the model: each review reads its trigger
  and at most one kind it takes away or adds to; the code's own clauses come on top.
* **`LeaseOutlivesRun`** is TRUE: every call to Google is cut off after 10 s and the
  longest path of a run makes about fifteen of them, less than the 180 s of its claim.
* **Symmetry** is used only in runs without liveness properties. The values that
  `CHOOSE` puts where there is nothing yet are overwritten before they are read.
* `CHECK_DEADLOCK FALSE` stands where every actor may be done (all requests made, all
  attempts used). `Meetings` checks deadlock.

### Fairness

* `AutomatedDelivery!Fairness`: a live caller executes its next statement (every await
  has a timeout), time passes, and the sweep's timer fires. Nothing is assumed of
  Meta, of crashes, or of anyone calling again.
* `InboundTurn!Fairness`: strong fairness for a schedule, because Postgres grants a
  lock in the order it was asked for; weak for a worker's run and for whoever else
  holds the lock; strong for the claim of each due turn, because the scan adds jobs
  for the oldest first and the queue is first in first out; strong for `Tick`, because
  arrivals do not stop time. A run that fails or dies may do so `MaxFailures` times.
* `MeetingOperations!Fairness`: a run takes its next step, claims and waits end, and a
  scan takes up each due operation again and again. The code puts no limit on
  attempts, so `OperationsSettle` says: *if failures are finitely many*, operations
  end. The scan takes the ten oldest; ten that always fail would starve the rest
  (`meeting-operations.service.ts:469`).
* `WebhookInbox!Fairness`: a scan takes its next statement, strongly, because its timer
  fires every 5 s and Postgres grants locks in order; a statement that must throw
  does; an operator's transaction and a lease come to an end. Nothing is assumed of
  Meta's callbacks or of operators' requests.
* `AdvertisingOutbox!AdFairness`: the ten-second reconciliation comes to each row again and
  again; BullMQ runs what it holds; a diagnosis is asked for, and answered sooner or
  later; time passes. Nothing is assumed of operators or failures, and
  `EveryUploadSettles` asks only for what stays sendable.

## 5. The proofs

All theorems hold for any number of workers, messages, parts, jobs, recipients,
meetings, slots, milestones, complaints, operators and failures, under the named
assumptions of each module. They are about the specification the runs check (`Spec`,
`SalesSpec`, `AdSpec`, `LearnSpec`, `TalkSpec`, `ReviewSpec`; the MC modules restrict or
pair them). *Every safety property a passing run checks is a theorem.* Some need a
hypothesis: the value that the run gives a constant. `MaxAge = 0`, `~ReopenRaces` and
`AnswersArrive` are what the code does not guarantee, and the runs of the opposite value
(`TurnRace`, `InboxResume`, `DialogueStale`) are the counterexamples; `~LockMayDrop` and
`LeaseOutlivesRun` are justified by timeouts (section 4). Each is named in the theorem's statement.

**`AutomatedDelivery`** (`AutomatedDeliveryProofs`).
`AtMostOnce` is not inductive: nothing in it says who may still send. `LedgerInv`
adds who is in flight with a part (`CallerHoldsClaim`), what that caller knows
(`CallerKnowsMeta`), that every request on the wire belongs to the last claim of its
row (`WireIsCurrent`), how the columns of a row go together (`RowsConsistent`), and
that parts are prepared and claimed in order (`OrderInv`). It does not mention the
lock: *at most once and in order do not depend on it*. The theorems:

* `TypeCorrect`, `LedgerCorrect` (`LedgerInv`), and from it `DeliveredAtMostOnce`,
  `LedgerIsTruthful`, `DeliveredInOrder`, and `SettledForGood`: no step rewrites a part that
  is confirmed, rejected or suppressed (`SettledIsFinal`, which says of the single statuses
  what the promise says of fates);
* `HandoffIsRespected` and `BatchesAreSerialized`, assuming `~LockMayDrop`, from an
  invariant that every caller inside a batch has the lock;
* `LedgerImplementsPromise`: `Spec => KeepsPromise`, each step being a step of the
  promise or a stutter. `DeliveryPromise` has no fairness, so this is safety only.

**`InboundTurn`** (`TurnsProofs`). `TurnInv` adds to the types that a schedule
which has found a turn, or none, belongs to a message in no turn yet (`ScheduleInv`),
that only turns that exist have members (`RowInv`), and that what a schedule writes to
`dueAt` is within the maximum wait of the turn it writes to (`DebounceInv`). From it
`MessagesAreTurnedOnce`, `DebounceIsBounded` and `FinishedTurnsStay`, whatever clocks
are read and however long locks are waited for. The other two theorems assume
`MaxAge = 0`, that no schedule outlives the instant of its clock: `PromptInv` adds that
the turn a schedule has found is still open and joinable (`FoundIsSo`), that only what
is due was claimed (`ClaimedIsDue`), and that a run which goes on has read all of its
turn (`RunSawAll`). Hence `PromptSchedulesLoseNothing` and `PromptTurnsDoNotCompete`.
`TurnRace` is why the assumption is needed.

**`Campaigns`** (`JobsProofs`). `SendInv`: a recipient is free to be claimed only
if Meta has not taken it and no request is on its way; the job that sends is alone,
holds the claim and is right about Meta; webhook news is about a known `wamid`.
`TypeCorrect` also shows that only an abandoned job is out of attempts. From these
`SendsCorrect`, `SentAtMostOnce`, `SentIsTruthful`.

**`MeetingOperations`** (`MeetingOperationsProofs`).

* `TypeCorrect` needs that an operation under way fits its meeting (`BookInv`: the
  types, among them `OneUnderWay`, and `OpFits`).
* `NothingBookedTwice`: a slot is reserved by the meeting that has it and by the one
  moving to it; `prepare` looks at both under one lock.
* `HumansAreAlone`: a run that changes the calendar holds the conversation's lock and
  the conversation is active (`RunHasLock`).
* `CalendarCorrect` and `GoogleAndCrmAgree`, assuming `LeaseOutlivesRun`: while an
  operation is under way the event is where it was or where it is going, and the run
  that has the claim knows which (`EventFits`, `RunKnows`).

**`SalesPipeline`** (`SalesPipelineProofs`). None of the four properties is inductive:
each rests on what a transaction has read and will write. `PipelineInv` adds that a
stage somebody read and may write back was reported (`ReadsAreBacked`,
`MovesAreAllowed`); that whoever is asked to pay was qualified (`AskedAreQualified`);
that a handler which is to record a proof finds its transfer still without one
(`ProofsFindTheirTransfer`), because operators only touch transfers in review; and that
an operator's transfer stays in review until the decision
(`ReviewsKeepTheirTransfer`), because handlers only touch transfers that are not. This
division of the statuses, not a common lock, is why decisions are final. `TypeCorrect`
includes that locks are held exactly by the transactions that took them. From these
`PipelineCorrect`, `OneIsOpen`, `ReviewsAreSeen`, `StagesAreReported` and
`DecisionsAreFinal`.

**`AdvertisingOutbox`** (`InboxAdsProofs`). What was uploaded to one destination
says nothing about the next upload. `OutboxInv` says that what Google may have received
went to the destination frozen in the row (`SentAgree`), that an upload carries this
destination (`UploadsAgree`), that only recorded milestones have one and only frozen rows
are queued (`RowsAgree`), and that a preparation past the freezing, or one that saw a
frozen row, deals with one (`PrepsAgree`). Two preparations of one row race, so the
step that matters is that none writes a destination over another. Hence `OutboxCorrect`
and `SentToOneDestination`.

**`LearningReview`** (`JobsProofs`). A run that may still ask was counted when
it claimed its row, so what was asked is below the row's attempts while it runs and not
above them afterwards (`AskedIsCounted`); the count never exceeds three. Hence
`ModelIsAskedThrice`; `DecisionsAreKept` follows from the compare and set of `decide` and
from the upsert of a proposal, which leaves an existing lesson as it is.

**`ConversationControl`** (`ConversationControlProofs`) has no specification of its own; its
lemmas say what each statement of an operator or a caller of `create` preserves, and the
two modules that extend it use them. `OneIsInCharge` alone is not inductive: a transaction
writes by id what it read before. `TransactionsFit` adds that who has a transaction has the
lock (`LockHeld`), and that what each transaction relies on still holds (`ReadsHold`: the
handoff it found is open, there is none where it found none, the user of a reply still has
the conversation). For the promise of `WhoAnswers`, `TakersFit` adds that who is
about to take or resolve a handoff finds its agent as it was read. `ControlStepHands`
then maps every step to one of the promise, or to a stutter.

**`WebhookInbox`** (`InboxAdsProofs`).

* `InboxTypeCorrect`; and with `~ReopenRaces` `OneInCharge`, `AuthorizedReplies` and
  `InboxKeepsPromise`, from `ControlInv`: `TransactionsFit`, and a conversation that a
  message resumes is still closed when the scan writes (`ResumesFit`). This last part is
  what a reopening in between breaks: it is written under another lock.
* `CompletedEventsWereRouted` is about attempts that overlap. An attempt that finds the
  message stored, and no interruption on record, completes the event without routing
  it. `RoutingInv` says why that is right: only an event that is being processed has a
  claim (`ClaimsFit`); a row fetched as pending or failed is still so (`RowsAreCurrent`);
  the message is there from the attribution on (`JobsFit`); and the scan that has the
  claim of an event it did not find interrupted either works on it alone, or an earlier
  attempt has dealt with the message (`ClaimantsFit`). `CompletedEventsStay` follows from
  the token that the last update asks for.

**`AutoReply`** with `FollowUps` (`RepliesProofs`). `ReplyInv` adds to `TransactionsFit` that
whoever files has the lock, so a task it did not find is not there when it writes
(`FilingsFit`, hence `OneTaskOpen`); and that every promise in the plan of a run is
recorded or still will be by that run before it prepares its reply (`PlansFit`), so what
is in a prepared row is backed, also for a later run that only delivers it (`RowsBacked`,
hence `BackedPromises`). Here `OneInChargeOfReplies` and `RepliesKeepPromise` have no
hypothesis: no message resumes a conversation in this module.

**`ReplyReview`** (`RepliesProofs`), for texts of any number of clauses and any number of
attempts. `ReviewInv` says from which review on a text has no clause of a kind: what one
takes out, no later one brings in again (`TermsFit`); that the answer to the price
survives everything after it (`PriceFits`); which words only an incident or a filed task
writes (`WordsFit`, `TasksFit`); and that a promise is an incident once the guard has
read it (`PromisesFit`). Hence `AuthorizedTerms`, `PriceAnswered`, `PromisesRecorded`.

**`MeetingDialogue`** (`TurnsProofs`), assuming `AnswersArrive`. That nothing was booked that
the customer did not choose says nothing about the dialogue that is saved. `TalkInv` adds
that one run at a time goes on (`OneRunFits`); that the saved list is the one he was shown
and a saved question about a cancellation the one he was asked, except between the save
and the answer (`TalkIsTold`); that this holds of what a run has in memory
(`MemoryFits`) and of what he has just written (`HeardFits`). Hence `AskedForOperations`.

**Only model-checked.** Liveness under fairness (`ClaimsAreSettled`, `LockIsReleased`,
`EveryMessageConsidered`, `OperationsSettle`, `EveryEventCompletes`, `EveryUploadSettles`):
it is out of the prover's reach, as are ENABLED and induction over data. One type invariant
is not proved, `TalkTypeOK`: the elements of an offered list are those of its set by an
induction over `SetToSortSeq`, which the prover cannot do; the proof of
`AskedForOperations` does without it. The four disagreements of section 6 are
counterexamples, which need no proof.

## 6. Findings

Each is the counterexample of a run; `PROJECT.json` quotes the lines.

* **A message left behind** (`TurnRace`). `schedule` reads its clock, waits for the
  lock, and later adds its message to the turn it found by id alone. Meanwhile the
  turn may have become due, been claimed and completed. Nobody reads it again.
* **A receiver no human answers** (`CampaignResume`). Resuming a campaign writes QUEUED
  or SKIPPED over a SENT that a job recorded after the resume read it. A contact who
  then writes back is not found as one who received a campaign.
* **Two in charge** (`InboxResume`). A message resumes a closed conversation by id, under
  the contact's lock. An operator who reopens it and a handoff, both under the
  conversation's lock, come between: ACTIVE is written over HANDED_OFF.
* **A yes to nothing** (`DialogueStale`). The question whether to cancel is saved before it
  is sent, and is not sent when a newer message arrived; that message is its answer.

The model also reaches these; no run shows them, because each run of a disagreement
has one property and these add little to the four:

* *Half a reply.* The design (`2026-09-21-hermes-first-deployment-design.md:114`) says all
  parts are prepared durably before the first is sent. `prepareBatch`
  (`automated-delivery.service.ts:62`) writes one at a time; after a crash between two,
  `recoverBatch` sends the ones that exist and the turn ends (`PreparedBeforeFirstSend`).
* *Attempts after a rejection.* The `catch` of a failing run writes its error over the
  interruption (`meeting-operations.service.ts:440`), against `google-calendar-runbook.md:136`
  (`RejectionStopsAttempts`).
* *Uploads after a revocation.* `ingest` and `diagnose` write their outcome by id over a
  CANCELLED (`google-data-manager.service.ts:247`; `CancelledIsFinal`), and
  `revokeContact` finds the touches before the transaction that cancels them.

And these, which no document excludes:

* A run that dies between opening a handoff and preparing its notice leaves the customer
  uninformed: the retry stops at the status (`auto-reply.service.ts:379`).
* An operator marks a lead as LOST while its transfer is open; a proof writes
  PAYMENT_REVIEW over it by id (`payments.service.ts:498`) and the approval makes it WON. A
  proof recorded during an approval leaves a task nobody needs (l.509); a profile written
  during a review takes the lead out of PAYMENT_REVIEW (`leads.service.ts:824`).
* `reply` sends to Meta inside its transaction: if the commit fails, the customer has a
  message the history does not show (`conversations.service.ts:449`).
* `completeIfFinished` writes the campaign's status over a pause or cancel that came
  between (`campaigns.service.ts:858`).
* In the talk: while an email is awaited a new choice of slot is ignored; a repeated "ver
  más" skips a page; a request after a cancellation makes a second meeting; a slot that
  was taken and offered again from a past range is not saved, so the dialogue stays in
  BOOKING; a "no" to a cancellation whose operation was prepared, but whose state was
  not saved, is told that the meeting is kept, and the scan cancels it.
* In the reviews: a delivery date nobody asked for and words like "gratis" pass with
  Gemini and not with Nous; `removeUnrequestedPrice` may recommend a plan against the
  policy; the renewal's amount counts as an answer to the price; a reply of Nous
  that only promises to come back becomes an incident; the fallback of the policy drops
  a published price when a quote is required.
* Two runs of a turn that overlap share the rows of its parts: the customer may read the
  first part of one reply and the second of the other. The daily limit of reviews is counted and then used, so
  two processes may exceed it by one each.

## 7. What is not modelled

Each component's note in `PROJECT.json` says how far it is modelled. Left out for
good: what has no protocol between processes (prompts, parsing of prose, the text of
validators, voice, reports, authentication, single-row CRUD, server-sent events,
start-up and scripts), the n8n workflows outside the repository, and the contents of
messages. Of what is modelled, these are abstracted:

* *Postgres* is serial per statement and per transaction, locks are held to the end
  of a transaction, and `updateMany` with a condition is a compare and set.
* *The connection pool* has no limit. A delivery holds one connection for the lock
  and needs another; whether all can wait for one another depends on deployment.
* *Timestamps of campaign status events*: an event older than the last applied is
  dropped, as if lost.
* *Meta's reports* (delivered, read, failed) arrive only for a known `wamid`.
* *Google's free/busy* is nondeterministic for other people's events.
* *Recognition.* What a text contains (an amount, a city, a yes) is an input. Regular
  expressions are not modelled, what the code does with their verdicts is.
* *The guard's counters* and the inference queue: their verdicts are inputs.
* *One of each.* One conversation, one contact, one campaign, one lead. What two of them
  share (the calendar's slots, the queue's workers) is in the model that has them.

## 8. Plan

What a continuation would add, in this order.

1. An abstract specification of a meeting, *the agreed slot*, implemented by
   `MeetingOperations` if no run outlasts its claim: `CalendarInv` has what the step needs.
2. The campaign as a second implementation of `DeliveryPromise`, with one part per
   recipient and `wamid` as its fate; then the composition of `AutoReply` with
   `DeliveryPromise` in place of the single row it has for each kind of reply.
3. `InboundTurn`'s schedule in the place of the inbox's routing, so that an event that is
   completed leads to a turn.
4. The inference queue: its bound, and that an abandoned job has no effect.
5. The creation of leads, and one open lead per contact.
6. The guard's counters: quotas and blocks at their limits.
