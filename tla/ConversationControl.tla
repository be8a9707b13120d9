-------------------------- MODULE ConversationControl --------------------------
(***************************************************************************)
(* Who answers one conversation: Hermes or a human                         *)
(* (handoff/handoff.service.ts, conversations/conversations.service.ts).   *)
(*                                                                         *)
(* The automation and operators open handoffs; operators take, keep and    *)
(* resolve them, answer the customer, close and reopen the conversation.   *)
(* Every operation is a transaction under the conversation's advisory      *)
(* lock.  It is two actions: it reads, and later its writes appear, by id  *)
(* and from what it read; a reply waits for Meta in between.               *)
(*                                                                         *)
(* Left out: the audit log, the event of a new handoff, the lead and the   *)
(* callback task of a commercial handoff (SalesPipeline, FollowUps).       *)
(***************************************************************************)

CONSTANTS
  Agent,        \* users of the CRM
  Operator,     \* their requests, at the same time
  User,         \* whose request it is
  Automation,   \* callers of HandoffService.create inside the backend
  Handoff,      \* rows of human_handoffs; the row of a resolved one is used again
  None

ASSUME ControlAssumption ==
  /\ Operator \cap Automation = {} /\ User \in [Operator -> Agent]
  /\ None \notin Handoff \union Agent \union Operator \union Automation
  /\ Handoff # {}

VARIABLES
  status,       \* Conversation.status
  handoff,      \* HumanHandoff.status, "none" before its creation
  agent,        \* HumanHandoff.assignedAgentId
  lock,         \* who holds the conversation's advisory lock
  tx            \* per actor: its transaction, with what it read or was asked for

control == <<status, handoff, agent, lock, tx>>

Actor == Operator \union Automation
OpenStatus == {"PENDING", "ASSIGNED", "IN_PROGRESS"}
OpenHandoffs == {h \in Handoff : handoff[h] \in OpenStatus}

NoTx == [op |-> "none", on |-> None, to |-> None]
Transaction == [op : {"none", "create", "take", "keep", "return", "resolveClosed",
                      "close", "reopen", "reply", "answered", "file"},
                on : Handoff \union {None}, to : Agent \union {None}]

ControlTypeOK ==
  /\ status \in {"ACTIVE", "HANDED_OFF", "CLOSED"}
  /\ handoff \in [Handoff -> OpenStatus \union {"none", "RESOLVED"}]
  /\ agent \in [Handoff -> Agent \union {None}]
  /\ lock \in Actor \union {None}
  /\ tx \in [Actor -> Transaction]

ControlInit ==
  /\ status = "ACTIVE"
  /\ handoff = [h \in Handoff |-> "none"]
  /\ agent = [h \in Handoff |-> None]
  /\ lock = None
  /\ tx = [a \in Actor |-> NoTx]

--------------------------------------------------------------------------------
(* Transactions.                                                            *)

\* fault: an operation that does not ask for the lock
BeginUnlocked(a, op, h, u) ==
  /\ tx[a] = NoTx
  /\ tx' = [tx EXCEPT ![a] = [op |-> op, on |-> h, to |-> u]]
  /\ UNCHANGED lock

Begin(a, op, h, u) ==
  /\ tx[a] = NoTx /\ lock = None
  /\ lock' = a
  /\ tx' = [tx EXCEPT ![a] = [op |-> op, on |-> h, to |-> u]]

End(a) ==
  /\ tx' = [tx EXCEPT ![a] = NoTx]
  /\ lock' = IF lock = a THEN None ELSE lock

\* A statement throws or the process dies: Postgres undoes what was written.
Rollback(a) ==
  /\ tx[a] # NoTx
  /\ End(a)
  /\ UNCHANGED <<status, handoff, agent>>

--------------------------------------------------------------------------------
(* Opening a handoff (HandoffService.create).                               *)

\* The conversation is not closed; an open handoff is used again.
ReadCreate(a) ==
  /\ status # "CLOSED"
  /\ \/ \E h \in OpenHandoffs : Begin(a, "create", h, None)
     \/ OpenHandoffs = {} /\ Begin(a, "create", None, None)
  /\ UNCHANGED <<status, handoff, agent>>

WriteCreate(a) ==
  /\ tx[a].op = "create"
  /\ status' = "HANDED_OFF"
  /\ IF tx[a].on = None
     THEN \E h \in Handoff \ OpenHandoffs :
            /\ handoff' = [handoff EXCEPT ![h] = "PENDING"]
            /\ agent' = [agent EXCEPT ![h] = None]
     ELSE UNCHANGED <<handoff, agent>>
  /\ End(a)

--------------------------------------------------------------------------------
(* Taking and resolving one.                                                *)

\* The user takes handoff h or gives it to user u.
ReadAssign(a, h, u) ==
  /\ handoff[h] \in OpenStatus
  /\ agent[h] \in {None, u}
  /\ Begin(a, "take", h, u)
  /\ UNCHANGED <<status, handoff, agent>>

WriteAssign(a) ==
  /\ tx[a].op = "take"
  /\ handoff' = [handoff EXCEPT ![tx[a].on] = "IN_PROGRESS"]
  /\ agent' = [agent EXCEPT ![tx[a].on] = tx[a].to]
  /\ End(a)
  /\ UNCHANGED status

\* fault: whoever asks may resolve.
ReadResolveByAnyone(a, h, op) ==
  /\ handoff[h] \in OpenStatus
  /\ Begin(a, op, h, None)
  /\ UNCHANGED <<status, handoff, agent>>

ReadResolve(a, h, op) ==
  /\ handoff[h] \in OpenStatus
  /\ agent[h] = User[a]
  /\ Begin(a, op, h, None)
  /\ UNCHANGED <<status, handoff, agent>>

WriteKeep(a) ==
  /\ tx[a].op = "keep"
  /\ handoff' = [handoff EXCEPT ![tx[a].on] = "IN_PROGRESS"]
  /\ status' = "HANDED_OFF"
  /\ End(a)
  /\ UNCHANGED agent

WriteResolve(a) ==
  /\ tx[a].op \in {"return", "resolveClosed"}
  /\ status' = IF tx[a].op = "return" THEN "ACTIVE" ELSE "CLOSED"
  /\ handoff' = [handoff EXCEPT ![tx[a].on] = "RESOLVED"]
  /\ End(a)
  /\ UNCHANGED agent

--------------------------------------------------------------------------------
(* Closing and reopening the conversation (updateStatus, close, reopen).    *)

\* fault: close without asking for open handoffs
CloseAnyway(a) ==
  /\ Begin(a, "close", None, None)
  /\ UNCHANGED <<status, handoff, agent>>

ReadClose(a) ==
  /\ OpenHandoffs = {}
  /\ Begin(a, "close", None, None)
  /\ UNCHANGED <<status, handoff, agent>>

ReadReopen(a) ==
  /\ OpenHandoffs = {}
  /\ Begin(a, "reopen", None, None)
  /\ UNCHANGED <<status, handoff, agent>>

WriteStatus(a) ==
  /\ tx[a].op \in {"close", "reopen"}
  /\ status' = IF tx[a].op = "close" THEN "CLOSED" ELSE "ACTIVE"
  /\ End(a)
  /\ UNCHANGED <<handoff, agent>>

--------------------------------------------------------------------------------
(* An operator's reply: the request to Meta is sent inside the transaction. *)

\* A handoff lets the user of request a answer the customer.
MayReply(a) ==
  /\ status = "HANDED_OFF"
  /\ \E h \in Handoff : handoff[h] = "IN_PROGRESS" /\ agent[h] = User[a]

\* fault: the checks of reply are done before its transaction, without the lock
UnlockedReadReply(a) ==
  /\ MayReply(a)
  /\ BeginUnlocked(a, "reply", None, None)
  /\ UNCHANGED <<status, handoff, agent>>

\* MayReply and the 24 h window; the request leaves before the transaction ends.
ReadReply(a) ==
  /\ MayReply(a)
  /\ Begin(a, "reply", None, None)
  /\ UNCHANGED <<status, handoff, agent>>

\* Meta returns a wamid.  Otherwise, or after 40 s, the transaction ends in Rollback.
MetaAnswers(a) ==
  /\ tx[a].op = "reply"
  /\ tx' = [tx EXCEPT ![a].op = "answered"]
  /\ UNCHANGED <<status, handoff, agent, lock>>

WriteReply(a) ==
  /\ tx[a].op = "answered"
  /\ End(a)
  /\ UNCHANGED <<status, handoff, agent>>

--------------------------------------------------------------------------------

OperatorStep(a) ==
  \/ ReadCreate(a) \/ WriteCreate(a)
  \/ \E h \in Handoff, u \in Agent : ReadAssign(a, h, u)
  \/ \E h \in Handoff, op \in {"keep", "return", "resolveClosed"} : ReadResolve(a, h, op)
  \/ WriteAssign(a) \/ WriteKeep(a) \/ WriteResolve(a)
  \/ ReadClose(a) \/ ReadReopen(a) \/ WriteStatus(a)
  \/ ReadReply(a) \/ MetaAnswers(a) \/ WriteReply(a)
  \/ Rollback(a)

\* An open handoff keeps the conversation with humans, and there is one at most: whoever
\* opens, takes, resolves, closes or reopens reads and writes under one lock, and a message
\* that resumes a closed conversation looks for an open handoff (webhook.service.ts:640).
OneIsInCharge ==
  /\ \A h, i \in OpenHandoffs : h = i
  /\ (status = "HANDED_OFF") = (OpenHandoffs # {})

\* A reply on its way to the customer was written by the user who has the conversation
\* now, not only when it was checked: a resolution that is clicked while Meta has not
\* answered, which returns the conversation to Hermes or closes it, waits for the reply.
RepliesAreAuthorized ==
  \A a \in Operator : tx[a].op \in {"reply", "answered"} => MayReply(a)

--------------------------------------------------------------------------------
(* The operations keep the promise of WhoAnswers.                           *)

\* Who has taken an open handoff.
Takers == {agent[h] : h \in OpenHandoffs} \ {None}

Holder ==
  CASE status = "ACTIVE" -> [is |-> "hermes"]
    [] status = "CLOSED" -> [is |-> "nobody"]
    [] OTHER -> IF Takers = {} THEN [is |-> "team"]
                ELSE [is |-> "person", who |-> CHOOSE u \in Takers : TRUE]

Replying == {a \in Operator : tx[a].op \in {"reply", "answered"}}

Promised == INSTANCE WhoAnswers WITH holder <- Holder, replying <- Replying

\* Whatever requests, scans and workers interleave, the conversation changes hands as the team
\* is told: what a person has taken only that person gives back or closes, an open handoff is
\* not passed by, and nothing changes hands while a person's reply is on its way to Meta.
HolderAnswers == Promised!Spec
================================================================================
