------------------------------- MODULE FollowUps -------------------------------
(***************************************************************************)
(* The tasks that Hermes leaves for the team (tasks/tasks.service.ts) about *)
(* one conversation: a call, a quote, the review of an incident.  They are *)
(* filed in transactions under the conversation's lock, of two actions as  *)
(* in ConversationControl; operators change rows by id, without the lock.  *)
(*                                                                         *)
(* Left out: titles, dates and assignment; IN_PROGRESS, which nothing      *)
(* tells from PENDING; the cut of sourceMessageIds to the last 20; tasks   *)
(* that operators create or open again by hand, which are theirs.          *)
(***************************************************************************)
EXTENDS ConversationControl

CONSTANTS
  Inbound,      \* messages of the customer
  Task,         \* rows of tasks
  Earlier       \* kinds of tasks that earlier messages have left

ASSUME FollowUpsAssumption == None \notin Task /\ Earlier \subseteq {"CALLBACK", "QUOTE", "GENERAL"}

VARIABLES
  task,         \* the rows, NoRow before they are created and after they are removed
  filing,       \* per caller: what its transaction is filing and what it read
  filed         \* requests that have been filed: <<message, kind>>

followUps == <<task, filing, filed>>

TaskKind == {"CALLBACK", "QUOTE", "GENERAL"}
NoRow == [kind |-> "none", status |-> "absent", sources |-> {}]
TaskRow == [kind : TaskKind, status : {"PENDING", "COMPLETED"}, sources : SUBSET Inbound]
NoFiling == [kind |-> "none", message |-> None, on |-> None, sources |-> {}]

FollowUpsTypeOK ==
  /\ task \in [Task -> TaskRow \union {NoRow}]
  /\ filing \in [Automation -> {NoFiling} \union
       [kind : TaskKind, message : Inbound, on : Task \union {None}, sources : SUBSET Inbound]]
  /\ filed \in SUBSET (Inbound \X TaskKind)

NewTask(kind, sources) == [kind |-> kind, status |-> "PENDING", sources |-> sources]

OpenTasks(kind) == {t \in Task : task[t].kind = kind /\ task[t].status = "PENDING"}

FollowUpsInit ==
  /\ task \in [Task -> {NoRow} \union {NewTask(k, {}) : k \in Earlier}]
  /\ \A k \in Earlier : \E t \in OpenTasks(k) : OpenTasks(k) = {t}
  /\ filing = [a \in Automation |-> NoFiling]
  /\ filed = {}

FreeRows == {t \in Task : task[t] = NoRow}

--------------------------------------------------------------------------------
(* requestCallback, requestQuote and requestHermesReview.                   *)

\* What the transaction of caller a has found: an open task of the kind, or none.
Found(a, kind, m) ==
  LET filing_(t, s) == [kind |-> kind, message |-> m, on |-> t, sources |-> s] IN
  \/ \E t \in OpenTasks(kind) :
       filing' = [filing EXCEPT ![a] = filing_(t, task[t].sources)]
  \/ OpenTasks(kind) = {} /\ filing' = [filing EXCEPT ![a] = filing_(None, {})]

\* fault: the open task is looked for before the lock is taken
ReadTaskUnlocked(a, kind, m) ==
  /\ BeginUnlocked(a, "file", None, None)
  /\ Found(a, kind, m)
  /\ UNCHANGED <<status, handoff, agent, task, filed>>

ReadTask(a, kind, m) ==
  /\ Begin(a, "file", None, None)
  /\ Found(a, kind, m)
  /\ UNCHANGED <<status, handoff, agent, task, filed>>

\* A new task, or the open one with this message among its sources; the update is by id,
\* whatever operators made of the row, and throws if they removed it (TaskFails).
WriteTask(a) ==
  LET f == filing[a] IN
  /\ tx[a].op = "file"
  /\ \/ /\ f.on = None
        /\ \E t \in FreeRows : task' = [task EXCEPT ![t] = NewTask(f.kind, {f.message})]
     \/ /\ f.message \in f.sources
        /\ UNCHANGED task
     \/ /\ f.on # None /\ f.message \notin f.sources
        /\ task[f.on] # NoRow
        /\ task' = [task EXCEPT ![f.on].sources = f.sources \union {f.message}]
  /\ filed' = filed \union {<<f.message, f.kind>>}
  /\ filing' = [filing EXCEPT ![a] = NoFiling]
  /\ End(a)
  /\ UNCHANGED <<status, handoff, agent>>

TaskFails(a) ==
  /\ tx[a].op = "file"
  /\ Rollback(a)
  /\ filing' = [filing EXCEPT ![a] = NoFiling]
  /\ UNCHANGED <<task, filed>>

--------------------------------------------------------------------------------
(* The callback task of a commercial handoff (HandoffService.create): one   *)
(* that is open already does, and does not learn of the message.            *)

FindCallback(a, m) ==
  /\ Found(a, "CALLBACK", m)
  /\ UNCHANGED <<task, filed>>

FileCallback(a) ==
  LET f == filing[a] IN
  /\ IF f.on # None \/ f = NoFiling
     THEN UNCHANGED task
     ELSE \E t \in FreeRows : task' = [task EXCEPT ![t] = NewTask("CALLBACK", {})]
  /\ filed' = IF f = NoFiling THEN filed ELSE filed \union {<<f.message, "CALLBACK">>}
  /\ filing' = [filing EXCEPT ![a] = NoFiling]

--------------------------------------------------------------------------------
(* Operators, from the list of tasks.                                       *)

CompleteTask(t) ==
  /\ task[t].status = "PENDING"
  /\ task' = [task EXCEPT ![t].status = "COMPLETED"]
  /\ UNCHANGED <<control, filing, filed>>

RemoveTask(t) ==
  /\ task[t] # NoRow
  /\ task' = [task EXCEPT ![t] = NoRow]
  /\ UNCHANGED <<control, filing, filed>>

\* The automation never has two tasks of a kind waiting for the team: whatever is retried
\* or runs at the same time, a new request joins the open task.
OneOpenTask ==
  \A k \in TaskKind : \A t, u \in OpenTasks(k) : t = u
================================================================================
