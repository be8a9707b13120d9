------------------------------ MODULE WebhookInbox ------------------------------
(***************************************************************************)
(* The inbox of Meta's callbacks and the routing of customers' messages    *)
(* (webhook/webhook.service.ts), over the conversation they belong to.     *)
(*                                                                         *)
(* acceptWebhook stores an event; scan claims stored events under a lease  *)
(* of five minutes and processes them, every 5 s, in every process.  An    *)
(* event that fails, whose attribution fails or whose lease runs out is    *)
(* processed again, perhaps while the first attempt goes on.               *)
(*                                                                         *)
(* One contact with one conversation.  Events are its messages, numbered   *)
(* by their createdAt.  Between two actions of a scan is an await.         *)
(***************************************************************************)
EXTENDS ConversationControl, FiniteSetsExt, Naturals

CONSTANTS
  Event,        \* messages of the customer, in the order they are accepted
  Media,        \* the images and documents among them
  Scan,         \* processes: each runs one scan at a time
  MaxFailures,  \* bound: failures, crashes and leases that run out under their owner
  ReopenRaces   \* may an operator reopen a conversation that a message is resuming

ASSUME InboxAssumption ==
  /\ Event \subseteq Nat /\ Media \subseteq Event /\ None \notin Event
  /\ Scan \subseteq Automation
  /\ MaxFailures \in Nat /\ ReopenRaces \in BOOLEAN

VARIABLES
  inbox,        \* MetaWebhookInbox.status, "absent" before it is accepted
  outcome,      \* MetaWebhookInbox.outcome of the last attempt
  token,        \* MetaWebhookInbox.claimToken: the scan that claimed it last
  lease,        \* has leaseUntil passed
  message,      \* is the message's row there (unique by wamid)
  routed,       \* has the message been dealt with by some attempt
  contactLock,  \* the advisory lock of the contact
  pc,           \* per scan: its next statement
  batch,        \* per scan: events it fetched and will try to claim
  job,          \* per scan: the event it processes and what it knows
  failures

inboxVars == <<inbox, outcome, token, lease, message, routed>>
scanVars == <<contactLock, pc, batch, job, failures>>
vars == <<control, inboxVars, scanVars>>

Row == [event : Event, status : {"PENDING", "PROCESSING", "FAILED"}, failed : BOOLEAN]

\* What an attempt carries along: whether it resumes an earlier one (resumeCommercial),
\* whether its message was there already, the conversation's status as it was read,
\* whether the attribution must be retried, and why it opens a handoff.
Job == [event : Event \union {None}, resume : BOOLEAN, known : BOOLEAN,
        seen : {"ACTIVE", "HANDED_OFF", "CLOSED"}, retry : BOOLEAN,
        why : {"none", "campaign", "support"}]
NoJob == [event |-> None, resume |-> FALSE, known |-> FALSE, seen |-> "ACTIVE",
          retry |-> FALSE, why |-> "none"]

InboxTypeOK ==
  /\ ControlTypeOK
  /\ inbox \in [Event -> {"absent", "PENDING", "PROCESSING", "COMPLETED", "FAILED"}]
  /\ outcome \in [Event -> {"none", "done", "processing_error", "attribution_retry"}]
  /\ token \in [Event -> Scan \union {None}]
  /\ lease \in [Event -> {"running", "over"}]
  /\ message \in [Event -> BOOLEAN]
  /\ routed \in [Event -> BOOLEAN]
  /\ contactLock \in Scan \union {None}
  /\ pc \in [Scan -> {"idle", "loop", "lookup", "conversation", "resume", "message",
                      "attribution", "proof", "reread", "route", "handoff", "opening",
                      "notice", "settle"}]
  /\ batch \in [Scan -> SUBSET Row]
  /\ job \in [Scan -> Job]
  /\ failures \in 0..MaxFailures

Init ==
  /\ ControlInit
  /\ inbox = [e \in Event |-> "absent"] /\ outcome = [e \in Event |-> "none"]
  /\ token = [e \in Event |-> None] /\ lease = [e \in Event |-> "over"]
  /\ message = [e \in Event |-> FALSE] /\ routed = [e \in Event |-> FALSE]
  /\ contactLock = None /\ failures = 0
  /\ pc = [s \in Scan |-> "idle"] /\ batch = [s \in Scan |-> {}]
  /\ job = [s \in Scan |-> NoJob]

--------------------------------------------------------------------------------
(* The inbox: acceptWebhook and the claims of scan.                         *)

\* Meta's callback; one it repeats is skipped (createMany, skipDuplicates).
Accept(e) ==
  /\ inbox[e] = "absent"
  /\ \A d \in Event : d < e => inbox[d] # "absent"
  /\ inbox' = [inbox EXCEPT ![e] = "PENDING"]
  /\ UNCHANGED <<control, outcome, token, lease, message, routed, scanVars>>

LeaseEnds(e) ==
  /\ lease[e] = "running"
  /\ lease' = [lease EXCEPT ![e] = "over"]
  /\ IF \E s \in Scan : token[e] = s /\ job[s].event = e
     THEN failures < MaxFailures /\ failures' = failures + 1
     ELSE UNCHANGED failures
  /\ UNCHANGED <<control, inbox, outcome, token, message, routed, contactLock, pc, batch, job>>

\* fault: nobody looks for leases that ran out under a process that died
DueWithoutRecovery(e) ==
  \/ inbox[e] = "PENDING"
  \/ inbox[e] = "FAILED" /\ lease[e] = "over"

Due(e) ==
  \/ inbox[e] = "PENDING"
  \/ inbox[e] \in {"FAILED", "PROCESSING"} /\ lease[e] = "over"

Fetch(s) ==
  /\ pc[s] = "idle" /\ \E e \in Event : Due(e)
  /\ batch' = [batch EXCEPT ![s] =
       {[event |-> e, status |-> inbox[e], failed |-> outcome[e] = "processing_error"] :
          e \in {d \in Event : Due(d)}}]
  /\ pc' = [pc EXCEPT ![s] = "loop"]
  /\ UNCHANGED <<control, inboxVars, contactLock, job, failures>>

NextRow(s) == CHOOSE r \in batch[s] : \A q \in batch[s] : r.event <= q.event

\* The update asks for the status that was fetched and for a lease over by then; a claim
\* renews the lease, so it drops the event from what the other scans can still claim.
ClaimEvent(s) ==
  /\ pc[s] = "loop" /\ batch[s] # {}
  /\ LET r == NextRow(s) IN
     IF inbox[r.event] = r.status
     THEN /\ inbox' = [inbox EXCEPT ![r.event] = "PROCESSING"]
          /\ token' = [token EXCEPT ![r.event] = s]
          /\ lease' = [lease EXCEPT ![r.event] = "running"]
          /\ batch' = [t \in Scan |-> {q \in batch[t] : q.event # r.event}]
          /\ job' = [job EXCEPT ![s] = [NoJob EXCEPT !.event = r.event,
                       !.resume = r.failed \/ r.status = "PROCESSING"]]
          /\ pc' = [pc EXCEPT ![s] = "lookup"]
     ELSE /\ batch' = [batch EXCEPT ![s] = @ \ {r}]
          /\ UNCHANGED <<inbox, token, lease, job, pc>>
  /\ UNCHANGED <<control, outcome, message, routed, contactLock, failures>>

EndOfBatch(s) ==
  /\ pc[s] = "loop" /\ batch[s] = {}
  /\ pc' = [pc EXCEPT ![s] = "idle"]
  /\ UNCHANGED <<control, inboxVars, contactLock, batch, job, failures>>

--------------------------------------------------------------------------------
(* processIncomingMessage.                                                  *)

\* Scan s goes on at another statement, keeping what it has learnt (a Job).
GoTo(s, next, learnt) ==
  /\ pc' = [pc EXCEPT ![s] = next]
  /\ job' = [job EXCEPT ![s] = learnt]

Lookup(s) ==
  /\ pc[s] = "lookup"
  /\ IF message[job[s].event]
     THEN GoTo(s, "attribution", [job[s] EXCEPT !.known = TRUE])
     ELSE GoTo(s, "conversation", job[s])
  /\ UNCHANGED <<control, inboxVars, contactLock, batch, failures>>

\* getOrCreateConversation, under the contact's lock: a closed conversation is resumed,
\* for the humans if they have an open handoff.
ReadConversation(s) ==
  /\ pc[s] = "conversation" /\ contactLock = None
  /\ IF status = "CLOSED"
     THEN /\ contactLock' = s
          /\ GoTo(s, "resume", [job[s] EXCEPT !.seen =
                                  IF OpenHandoffs = {} THEN "ACTIVE" ELSE "HANDED_OFF"])
     ELSE GoTo(s, "message", [job[s] EXCEPT !.seen = status]) /\ UNCHANGED contactLock
  /\ UNCHANGED <<control, inboxVars, batch, failures>>

WriteResume(s) ==
  /\ pc[s] = "resume"
  /\ status' = job[s].seen
  /\ contactLock' = None
  /\ pc' = [pc EXCEPT ![s] = "message"]
  /\ UNCHANGED <<handoff, agent, lock, tx, inboxVars, batch, job, failures>>

\* The lead is there or is created; the row of the message is new, or the statement
\* throws (Throws), because another attempt was faster.
CreateMessage(s) ==
  /\ pc[s] = "message" /\ ~message[job[s].event]
  /\ message' = [message EXCEPT ![job[s].event] = TRUE]
  /\ pc' = [pc EXCEPT ![s] = "attribution"]
  /\ UNCHANGED <<control, inbox, outcome, token, lease, routed, contactLock, batch, job, failures>>

\* fault: a message that was there has been routed
NeverRoutesAgain(s) == IF job[s].known THEN "settle" ELSE "route"

\* A message that was there is routed again only if an earlier attempt was interrupted.
AfterProof(s) ==
  CASE ~job[s].known -> "route"
    [] job[s].known /\ job[s].resume -> "reread"
    [] OTHER -> "settle"

\* claimReference; a failure or an attribution that is not settled asks for a retry.
Attribute(s) ==
  /\ pc[s] = "attribution"
  /\ \E r \in BOOLEAN :
       /\ r => failures < MaxFailures
       /\ failures' = IF r THEN failures + 1 ELSE failures
       /\ GoTo(s, IF job[s].event \in Media THEN "proof" ELSE AfterProof(s),
               [job[s] EXCEPT !.retry = r])
  /\ UNCHANGED <<control, inboxVars, contactLock, batch>>

\* detectProof: the image may be the proof of an open transfer.
DetectProof(s) ==
  /\ pc[s] = "proof"
  /\ \/ /\ routed' = [routed EXCEPT ![job[s].event] = TRUE]
        /\ pc' = [pc EXCEPT ![s] = "settle"]
     \/ /\ pc' = [pc EXCEPT ![s] = AfterProof(s)]
        /\ UNCHANGED routed
  /\ UNCHANGED <<control, inbox, outcome, token, lease, message, contactLock, batch, job, failures>>

Reread(s) ==
  /\ pc[s] = "reread"
  /\ GoTo(s, "route", [job[s] EXCEPT !.seen = status])
  /\ UNCHANGED <<control, inboxVars, contactLock, batch, failures>>

--------------------------------------------------------------------------------
(* routeInbound.                                                            *)

\* The message of scan s is dealt with.
Routed(s) == routed' = [routed EXCEPT ![job[s].event] = TRUE]

\* Done in one statement: an opt-out; a message while humans have the conversation; one
\* the guard blocks in silence; a turn for Hermes (enqueue).  The conversation's status is
\* the one that was read, and decides between the last ones: none of it is kept here.
RouteDirectly(s) ==
  /\ pc[s] = "route"
  /\ Routed(s)
  /\ GoTo(s, "settle", job[s])
  /\ UNCHANGED <<control, inbox, outcome, token, lease, message, contactLock, batch, failures>>

\* A reply to a campaign opens a handoff whoever has the conversation.  While humans do
\* not have it, a request for support opens one and other notices of the guard are sent.
RouteOn(s) ==
  /\ pc[s] = "route"
  /\ \/ GoTo(s, "handoff", [job[s] EXCEPT !.why = "campaign"])
     \/ /\ job[s].seen # "HANDED_OFF"
        /\ \/ GoTo(s, "handoff", [job[s] EXCEPT !.why = "support"])
           \/ GoTo(s, "notice", job[s])
  /\ UNCHANGED <<control, inboxVars, contactLock, batch, failures>>

OpenHandoff(s) ==
  /\ pc[s] = "handoff"
  /\ ReadCreate(s)
  /\ pc' = [pc EXCEPT ![s] = "opening"]
  /\ UNCHANGED <<inboxVars, contactLock, batch, job, failures>>

HandoffOpened(s) ==
  /\ pc[s] = "opening"
  /\ WriteCreate(s)
  /\ IF job[s].why = "campaign"
     THEN pc' = [pc EXCEPT ![s] = "settle"] /\ Routed(s)
     ELSE pc' = [pc EXCEPT ![s] = "notice"] /\ UNCHANGED routed
  /\ UNCHANGED <<inbox, outcome, token, lease, message, contactLock, batch, job, failures>>

\* sendSystemMessage: prepareBatch and deliverPreparedBatch of AutomatedDelivery.
Notify(s) ==
  /\ pc[s] = "notice"
  /\ Routed(s)
  /\ pc' = [pc EXCEPT ![s] = "settle"]
  /\ UNCHANGED <<control, inbox, outcome, token, lease, message, contactLock, batch, job, failures>>

--------------------------------------------------------------------------------
(* How an attempt ends.                                                     *)

Done(s) ==
  /\ pc' = [pc EXCEPT ![s] = "loop"]
  /\ job' = [job EXCEPT ![s] = NoJob]

\* fault: the last update does not ask for the token
RecordAnyway(s, st, out) ==
  LET e == job[s].event IN
  /\ inbox' = [inbox EXCEPT ![e] = st]
  /\ outcome' = [outcome EXCEPT ![e] = out]
  /\ token' = [token EXCEPT ![e] = None]
  /\ lease' = [lease EXCEPT ![e] = IF st = "FAILED" THEN "running" ELSE "over"]

\* The last update of an attempt, which asks for its claim token.
Record(s, st, out) ==
  LET e == job[s].event IN
  IF token[e] = s
  THEN /\ inbox' = [inbox EXCEPT ![e] = st]
       /\ outcome' = [outcome EXCEPT ![e] = out]
       /\ token' = [token EXCEPT ![e] = None]
       /\ lease' = [lease EXCEPT ![e] = IF st = "FAILED" THEN "running" ELSE "over"]
  ELSE UNCHANGED <<inbox, outcome, token, lease>>

Settle(s) ==
  /\ pc[s] = "settle"
  /\ IF job[s].retry THEN Record(s, "FAILED", "attribution_retry")
                     ELSE Record(s, "COMPLETED", "done")
  /\ Done(s)
  /\ UNCHANGED <<control, message, routed, contactLock, batch, failures>>

Processing(s) == job[s].event # None
ReleaseLocks(s) ==
  /\ contactLock' = IF contactLock = s THEN None ELSE contactLock
  /\ End(s)

\* A statement throws: scan's catch.  The handoff of a closed conversation and the row of
\* a message that is there are refused every time; other failures are bounded.
Throws(s) ==
  /\ Processing(s)
  /\ \/ /\ \/ pc[s] = "handoff" /\ status = "CLOSED"
           \/ pc[s] = "message" /\ message[job[s].event]
        /\ UNCHANGED failures
     \/ failures < MaxFailures /\ failures' = failures + 1
  /\ Record(s, "FAILED", "processing_error")
  /\ ReleaseLocks(s)
  /\ Done(s)
  /\ UNCHANGED <<status, handoff, agent, message, routed, batch>>

Crash(s) ==
  /\ Processing(s)
  /\ failures < MaxFailures /\ failures' = failures + 1
  /\ ReleaseLocks(s)
  /\ pc' = [pc EXCEPT ![s] = "idle"]
  /\ batch' = [batch EXCEPT ![s] = {}]
  /\ job' = [job EXCEPT ![s] = NoJob]
  /\ UNCHANGED <<status, handoff, agent, inboxVars>>

--------------------------------------------------------------------------------

\* Statements of a scan that do not fail.
Process(s) ==
  \/ Fetch(s) \/ ClaimEvent(s) \/ EndOfBatch(s)
  \/ Lookup(s) \/ ReadConversation(s) \/ WriteResume(s) \/ CreateMessage(s)
  \/ Attribute(s) \/ DetectProof(s) \/ Reread(s)
  \/ RouteDirectly(s) \/ RouteOn(s) \/ OpenHandoff(s) \/ HandoffOpened(s) \/ Notify(s)
  \/ Settle(s)

Resuming == \E s \in Scan : pc[s] = "resume"

Next ==
  \/ \E e \in Event : Accept(e) \/ LeaseEnds(e)
  \/ \E s \in Scan : Process(s) \/ Throws(s) \/ Crash(s)
  \/ \E a \in Operator :
       /\ OperatorStep(a)
       /\ Resuming /\ ~ReopenRaces => status' = status
       /\ UNCHANGED <<inboxVars, scanVars>>

Spec == Init /\ [][Next]_vars

\* A scan goes on, also with a catch; Postgres grants a lock in the order it was asked for;
\* transactions and leases end.
Fairness ==
  /\ \A s \in Scan : SF_vars(Process(s)) /\ WF_vars(Throws(s) /\ failures' = failures)
  /\ \A e \in Event : WF_vars(LeaseEnds(e))
  /\ \A a \in Operator : WF_vars(Rollback(a) /\ UNCHANGED <<inboxVars, scanVars>>)

FairSpec == Spec /\ Fairness

--------------------------------------------------------------------------------

\* An event is completed only when its message was stored and dealt with by some attempt,
\* however the attempts overlapped, failed or died: scan and processIncomingMessage.
CompletedWereRouted ==
  \A e \in Event : inbox[e] = "COMPLETED" => message[e] /\ routed[e]

\* A completed event is never processed again; an attempt that lost its lease and comes
\* back does not write over what the later one recorded.
CompletedIsFinal ==
  [][\A e \in Event : inbox[e] = "COMPLETED" =>
       inbox'[e] = "COMPLETED" /\ token'[e] = token[e]]_vars

\* Every stored event is completed, as long as failures are finitely many, unless an
\* operator closes the conversation: HandoffService.create then refuses each attempt.
EveryEventCompletes ==
  \A e \in Event : inbox[e] = "PENDING" ~> (inbox[e] = "COMPLETED" \/ status = "CLOSED")
================================================================================
