------------------------------- MODULE AutoReply -------------------------------
(***************************************************************************)
(* What the worker does with a turn of the customer                        *)
(* (auto-replies/auto-reply.service.ts), over the conversation and its     *)
(* tasks.  A turn is its last message; its claims, leases and batching are *)
(* InboundTurn's, the sends of its replies AutomatedDelivery's.            *)
(*                                                                         *)
(* A run that fails is repeated; one whose lease runs out is repeated      *)
(* while it goes on.  Between two actions of a run is an await.            *)
(*                                                                         *)
(* Left out: the words of the reply, except what they promise; the profile *)
(* and stage of the lead, the intent and tags of the conversation; the     *)
(* customer's meeting, which handleTurn and interrupt act upon.            *)
(***************************************************************************)
EXTENDS FollowUps, Naturals

CONSTANTS
  Worker,       \* workers of the queue, in any process
  Routed,       \* messages that the webhook deals with: no turn is made for them
  MaxFailures   \* bound: runs that throw, die or outlive their lease

ASSUME AutoReplyAssumption ==
  /\ Inbound \subseteq Nat /\ Routed \subseteq Inbound
  /\ Worker \subseteq Automation /\ MaxFailures \in Nat

VARIABLES
  wish,         \* what a message asks for, "absent" before it arrives
  row,          \* AutomatedDelivery: the one part of each kind for a message
  handed,       \* messages for which a handoff was opened
  settled,      \* messages whose turn is PROCESSED
  step,         \* per worker: its next statement
  about,        \* per worker: the message whose turn it runs
  plan,         \* per worker: the reply it is preparing
  failures

replies == <<wish, row, handed, settled>>
runs == <<step, about, plan, failures>>
vars == <<control, followUps, replies, runs>>

\* commercialPolicy.analyze tells a request for a person, perhaps by phone, and a request
\* for a call from anything else; a voice note is unknown until it is transcribed.
Wish == {"person", "personCalls", "call", "other"}

\* What a reply tells the customer to be under way.
Promise == {"handoff", "CALLBACK", "QUOTE", "GENERAL"}
DeliveryKind == {"SYSTEM_NOTICE", "HERMES_REPLY"}

\* The reply of a run: its kind, the promises it makes, the tasks still to be filed for
\* it, whether it opens a handoff.
Plan == [kind : DeliveryKind, says : SUBSET Promise, todo : SUBSET TaskKind,
         handoff : BOOLEAN]
NoPlan == [kind |-> "HERMES_REPLY", says |-> {}, todo |-> {}, handoff |-> FALSE]

Delivery == [state : {"PREPARED", "CONFIRMED", "SETTLED"}, says : SUBSET Promise,
             allow : BOOLEAN]
NoDelivery == [state |-> "absent", says |-> {}, allow |-> FALSE]

AutoReplyTypeOK ==
  /\ ControlTypeOK /\ FollowUpsTypeOK
  /\ wish \in [Inbound -> Wish \union {"absent", "voice"}]
  /\ row \in [Inbound -> [DeliveryKind -> Delivery \union {NoDelivery}]]
  /\ handed \in SUBSET Inbound
  /\ settled \in [Inbound -> BOOLEAN]
  /\ step \in [Worker -> {"idle", "voice", "recover", "check", "decide", "engine", "incident",
                          "recheck", "act", "handing", "before", "prepare", "deliver"}]
  /\ about \in [Worker -> Inbound \union {None}]
  /\ plan \in [Worker -> Plan]
  /\ failures \in 0..MaxFailures

Init ==
  /\ ControlInit /\ FollowUpsInit
  /\ wish = [m \in Inbound |-> "absent"]
  /\ row = [m \in Inbound |-> [k \in DeliveryKind |-> NoDelivery]]
  /\ handed = {}
  /\ settled = [m \in Inbound |-> FALSE]
  /\ step = [w \in Worker |-> "idle"]
  /\ about = [w \in Worker |-> None]
  /\ plan = [w \in Worker |-> NoPlan]
  /\ failures = 0

Arrived == {m \in Inbound : wish[m] # "absent"}
Rows(m) == {k \in DeliveryKind : row[m][k] # NoDelivery}

\* hasNewerInbound
Superseded(m) == \E n \in Arrived : n > m

GoOn(w, next, p) ==
  /\ step' = [step EXCEPT ![w] = next]
  /\ plan' = [plan EXCEPT ![w] = p]

EndOfRun(w) ==
  /\ GoOn(w, "idle", NoPlan)
  /\ about' = [about EXCEPT ![w] = None]

\* processTurn returns, whatever the reason, and the turn is completed.
Return(w) ==
  /\ EndOfRun(w)
  /\ settled' = [settled EXCEPT ![about[w]] = TRUE]

--------------------------------------------------------------------------------
(* The turns.                                                               *)

\* A message arrives and joins no open turn.
Arrive(m) ==
  /\ m \notin Arrived /\ \A n \in Inbound : n < m => n \in Arrived
  /\ \E x \in IF m \in Routed THEN {"other"} ELSE Wish \union {"voice"} :
       wish' = [wish EXCEPT ![m] = x]
  /\ UNCHANGED <<control, followUps, row, handed, settled, runs>>

\* claim: the turn is open, or the lease of its run is over.
StartRun(w, m) ==
  /\ step[w] = "idle" /\ m \in Arrived \ Routed /\ ~settled[m]
  /\ IF \E v \in Worker : about[v] = m
     THEN failures < MaxFailures /\ failures' = failures + 1
     ELSE UNCHANGED failures
  /\ about' = [about EXCEPT ![w] = m]
  /\ GoOn(w, IF wish[m] = "voice" THEN "voice" ELSE "recover", NoPlan)
  /\ UNCHANGED <<control, followUps, replies>>

\* The run throws or its process dies: the turn is free again, now or when its lease ends.
Interrupted(w) ==
  /\ step[w] # "idle"
  /\ failures < MaxFailures /\ failures' = failures + 1
  /\ EndOfRun(w)
  /\ filing' = [filing EXCEPT ![w] = NoFiling]
  /\ End(w)
  /\ UNCHANGED <<status, handoff, agent, task, filed, replies>>

\* A voice note is transcribed, or the customer is told that it could not be.
Transcribe(w) ==
  /\ step[w] = "voice"
  /\ \/ /\ \E x \in Wish : wish' = [wish EXCEPT ![about[w]] = x]
        /\ GoOn(w, "recover", NoPlan)
     \/ /\ GoOn(w, "prepare", [NoPlan EXCEPT !.kind = "SYSTEM_NOTICE"])
        /\ UNCHANGED wish
  /\ UNCHANGED <<control, followUps, row, handed, settled, about, failures>>

--------------------------------------------------------------------------------
(* Before the engine.                                                       *)

\* recoverBatch: what an earlier run prepared is delivered, and nothing else is done.
Recover(w) ==
  /\ step[w] = "recover"
  /\ GoOn(w, IF Rows(about[w]) = {} THEN "check" ELSE "deliver", NoPlan)
  /\ UNCHANGED <<control, followUps, replies, about, failures>>

\* A conversation that is not Hermes's, or a newer message, leaves the turn unanswered.
Check(w) ==
  /\ step[w] \in {"check", "recheck"}
  /\ IF status # "ACTIVE" \/ Superseded(about[w])
     THEN Return(w)
     ELSE /\ GoOn(w, IF step[w] = "check" THEN "decide" ELSE "act", plan[w])
          /\ UNCHANGED <<settled, about>>
  /\ UNCHANGED <<control, followUps, wish, row, handed, failures>>

\* A request for a person opens a handoff.  Then the meeting's dialogue may answer; then,
\* with the engine that has no actions, a request for a call is filed; the rest is the
\* engine's.
Decide(w) ==
  /\ step[w] = "decide"
  /\ LET x == wish[about[w]]
         notice(p, f, h) ==
           [kind |-> "SYSTEM_NOTICE", says |-> p, todo |-> f, handoff |-> h]
     IN \/ x = "person" /\ GoOn(w, "act", notice({"handoff"}, {}, TRUE))
        \/ x = "personCalls" /\ GoOn(w, "act", notice({"handoff", "CALLBACK"}, {}, TRUE))
        \/ x \in {"call", "other"} /\ GoOn(w, "prepare", notice({}, {}, FALSE))
        \/ x = "call" /\ GoOn(w, "act", notice({"CALLBACK"}, {"CALLBACK"}, FALSE))
        \/ x \in {"call", "other"} /\ GoOn(w, "engine", NoPlan)
  /\ UNCHANGED <<control, followUps, replies, about, failures>>

\* The payment of a transfer is asked for or reported (SalesPipeline), or the contact's
\* quota of answers is used up: nothing else is done.
Elsewhere(w) ==
  /\ step[w] \in {"decide", "engine"}
  /\ Return(w)
  /\ UNCHANGED <<control, followUps, wish, row, handed, failures>>

\* The engine answers, and the commercial policy and the output guard have reviewed what
\* it says: a text that promises nothing; one that must be reviewed by a human; a text
\* with the actions that were accepted.
Respond(w) ==
  /\ step[w] = "engine"
  /\ \/ GoOn(w, "incident", [NoPlan EXCEPT !.todo = {"GENERAL"}])
     \/ \E k \in {{}, {"CALLBACK"}, {"QUOTE"}}, h \in BOOLEAN :
          /\ k = {"CALLBACK"} => ~h
          /\ GoOn(w, "recheck", [NoPlan EXCEPT !.todo = k, !.handoff = h,
                                   !.says = k \union (IF h THEN {"handoff"} ELSE {})])
  /\ UNCHANGED <<control, followUps, replies, about, failures>>

--------------------------------------------------------------------------------
(* The actions of the reply: tasks, and then a handoff.                     *)

\* requestHermesReview, requestQuote, requestCallback; one after the other.
FileTask(w) ==
  /\ step[w] \in {"incident", "act"}
  /\ \E k \in plan[w].todo : ReadTask(w, k, about[w])
  /\ UNCHANGED <<replies, runs>>

\* fault: an incident is announced whether or not its review was filed
AnnounceAnyway(w) ==
  /\ step[w] \in {"incident", "act"}
  /\ \/ WriteTask(w)
     \/ step[w] = "incident" /\ TaskFails(w)
  /\ IF step[w] = "incident"
     THEN GoOn(w, "recheck", [plan[w] EXCEPT !.todo = {}, !.says = {"GENERAL"}])
     ELSE GoOn(w, "act", [plan[w] EXCEPT !.todo = @ \ {filing[w].kind}])
  /\ UNCHANGED <<replies, about, failures>>

\* The reply to an incident promises its review once it is filed; a failure of that
\* transaction is caught and changes the text.
TaskFiled(w) ==
  /\ step[w] \in {"incident", "act"}
  /\ \/ /\ WriteTask(w)
        /\ IF step[w] = "incident"
           THEN GoOn(w, "recheck", [plan[w] EXCEPT !.todo = {}, !.says = {"GENERAL"}])
           ELSE GoOn(w, "act", [plan[w] EXCEPT !.todo = @ \ {filing[w].kind}])
     \/ /\ step[w] = "incident"
        /\ TaskFails(w)
        /\ GoOn(w, "recheck", NoPlan)
  /\ UNCHANGED <<replies, about, failures>>

\* HandoffService.create, which files the callback of a customer who wants to be called.
OpenHandoff(w) ==
  /\ step[w] = "act" /\ plan[w].todo = {} /\ plan[w].handoff
  /\ ReadCreate(w)
  /\ IF "CALLBACK" \in plan[w].says
     THEN FindCallback(w, about[w])
     ELSE UNCHANGED followUps
  /\ GoOn(w, "handing", plan[w])
  /\ UNCHANGED <<replies, about, failures>>

HandoffOpened(w) ==
  /\ step[w] = "handing"
  /\ WriteCreate(w) /\ FileCallback(w)
  /\ handed' = handed \union {about[w]}
  /\ GoOn(w, IF plan[w].kind = "HERMES_REPLY" THEN "before" ELSE "prepare", plan[w])
  /\ UNCHANGED <<wish, row, settled, about, failures>>

NoHandoff(w) ==
  /\ step[w] = "act" /\ plan[w].todo = {} /\ ~plan[w].handoff
  /\ GoOn(w, IF plan[w].kind = "HERMES_REPLY" THEN "before" ELSE "prepare", plan[w])
  /\ UNCHANGED <<control, followUps, replies, about, failures>>

\* The conversation has not left Hermes, and the text fits in nine parts the guard lets
\* through.
BeforeSend(w) ==
  /\ step[w] = "before"
  /\ \/ /\ status \in IF plan[w].handoff THEN {"ACTIVE", "HANDED_OFF"} ELSE {"ACTIVE"}
        /\ GoOn(w, "prepare", plan[w])
        /\ UNCHANGED <<settled, about>>
     \/ Return(w)
  /\ UNCHANGED <<control, followUps, wish, row, handed, failures>>

--------------------------------------------------------------------------------
(* The reply.                                                               *)

\* prepareBatch: a row that another run has prepared stays as it is.
Prepare(w) ==
  /\ step[w] = "prepare"
  /\ LET m == about[w]
         k == plan[w].kind
     IN row' = IF k \in Rows(m) THEN row
               ELSE [row EXCEPT ![m][k] = [state |-> "PREPARED", says |-> plan[w].says,
                                           allow |-> plan[w].handoff]]
  /\ GoOn(w, "deliver", plan[w])
  /\ UNCHANGED <<control, followUps, wish, handed, settled, about, failures>>

\* deliverPreparedBatch, under the conversation's lock: the rows that may be sent now are,
\* or are given up.  What follows changes no more than the lead and the profile.
Deliver(w) ==
  LET m == about[w]
      waiting == {k \in Rows(m) : row[m][k].state = "PREPARED"}
      open == IF status = "HANDED_OFF" THEN {k \in waiting : row[m][k].allow}
              ELSE IF status = "ACTIVE" THEN waiting ELSE {}
  IN
  /\ step[w] = "deliver" /\ lock = None
  /\ \E sent \in SUBSET open :
       row' = [row EXCEPT ![m] = [k \in DeliveryKind |->
                 IF k \in sent THEN [row[m][k] EXCEPT !.state = "CONFIRMED"]
                 ELSE IF k \in waiting THEN [row[m][k] EXCEPT !.state = "SETTLED"]
                 ELSE row[m][k]]]
  /\ Return(w)
  /\ UNCHANGED <<control, followUps, wish, handed, failures>>

--------------------------------------------------------------------------------

Run(w) ==
  \/ \E m \in Inbound : StartRun(w, m)
  \/ Transcribe(w) \/ Recover(w) \/ Check(w) \/ Decide(w) \/ Elsewhere(w) \/ Respond(w)
  \/ FileTask(w) \/ TaskFiled(w) \/ OpenHandoff(w) \/ HandoffOpened(w) \/ NoHandoff(w)
  \/ BeforeSend(w) \/ Prepare(w) \/ Deliver(w)
  \/ Interrupted(w)

\* What operators do that the worker can see; their replies are left out here.
Operate(a) ==
  /\ \/ ReadCreate(a) \/ WriteCreate(a)
     \/ \E h \in Handoff, u \in Agent : ReadAssign(a, h, u)
     \/ \E h \in Handoff, op \in {"return", "resolveClosed"} : ReadResolve(a, h, op)
     \/ WriteAssign(a) \/ WriteResolve(a)
     \/ ReadClose(a) \/ ReadReopen(a) \/ WriteStatus(a)
     \/ Rollback(a)
  /\ UNCHANGED followUps

\* Bound: operators act only while a turn waits for its reply.
Busy == \E m \in Inbound \ Routed : ~settled[m]

Next ==
  \/ \E m \in Inbound : Arrive(m)
  \/ \E w \in Worker : Run(w)
  \/ /\ Busy
     /\ \/ \E a \in Operator : Operate(a)
        \/ \E t \in Task : CompleteTask(t) \/ RemoveTask(t)
     /\ UNCHANGED <<replies, runs>>

Spec == Init /\ [][Next]_vars

--------------------------------------------------------------------------------

\* What a reply that reached the customer says to be under way was recorded for the team,
\* whatever fails and whichever run wrote it: a handoff was opened for this message, its
\* call, its quote or its review was filed.
PromisesAreBacked ==
  \A m \in Inbound : \A k \in Rows(m) :
    row[m][k].state = "CONFIRMED" =>
      /\ "handoff" \in row[m][k].says => m \in handed
      /\ \A x \in row[m][k].says \ {"handoff"} : <<m, x>> \in filed
================================================================================
