----------------------------- MODULE RepliesProofs -----------------------------
(* Machine-checked proofs about the two halves of the worker that answers:      *)
(* AutoReply with its FollowUps, for any number of messages, workers,           *)
(* operators, tasks and failures; and ReplyReview, for texts of any number of   *)
(* clauses and every number of attempts that is configured.                     *)
EXTENDS AutoReply, ReplyReview, ConversationControlProofs, TLAPS

-------------------------------------------------------------------------------
(* Type correctness.  A run has a message, and what files a task knows which.   *)

Steps == {"idle", "voice", "recover", "check", "decide", "engine", "incident", "recheck",
          "act", "handing", "before", "prepare", "deliver"}

Filing == [kind : TaskKind, message : Inbound, on : Task \union {None},
           sources : SUBSET Inbound]

TypeRuns ==
  /\ step \in [Worker -> Steps]
  /\ about \in [Worker -> Inbound \union {None}]
  /\ plan \in [Worker -> Plan]
  /\ failures \in 0..MaxFailures

TypeReplies ==
  /\ wish \in [Inbound -> Wish \union {"absent", "voice"}]
  /\ row \in [Inbound -> [DeliveryKind -> Delivery \union {NoDelivery}]]
  /\ handed \in SUBSET Inbound
  /\ settled \in [Inbound -> BOOLEAN]

LEMMA ReplyParts ==
  AutoReplyTypeOK <=> ControlTypeOK /\ FollowUpsTypeOK /\ TypeReplies /\ TypeRuns
BY DEF AutoReplyTypeOK, TypeReplies, TypeRuns, Steps

LEMMA RunnerNames ==
  /\ Worker \subseteq Actor /\ Worker \subseteq Automation /\ Worker \cap Operator = {}
  /\ None \notin Worker /\ None \notin Task
BY ControlAssumption, FollowUpsAssumption, AutoReplyAssumption DEF Actor

\* The message of a run, and what its transaction files: a task of its reply, or the
\* callback of its handoff.
RunsFit ==
  /\ \A w \in Worker : step[w] # "idle" => about[w] \in Inbound
  /\ \A w \in Worker : tx[w].op = "file" => filing[w] # NoFiling
  /\ \A a \in Automation : filing[a] # NoFiling =>
       /\ a \in Worker /\ filing[a].message = about[a]
       /\ \/ tx[a].op = "file" /\ step[a] \in {"incident", "act"} /\ filing[a].kind \in plan[a].todo
          \/ tx[a].op = "create" /\ step[a] = "handing" /\ filing[a].kind = "CALLBACK"

\* Whoever files has the conversation's lock: a task that it did not find is not there when
\* it writes.
FilingsFit ==
  \A a \in Automation : filing[a] # NoFiling /\ filing[a].on = None =>
    OpenTasks(filing[a].kind) = {}

Backed(m, x) == IF x = "handoff" THEN m \in handed ELSE <<m, x>> \in filed

\* What backs a promise of the run of worker w, or still will.
Backing(w, x) ==
  \/ Backed(about[w], x)
  \/ step[w] \in {"incident", "recheck", "act"} /\ x \in plan[w].todo
  \/ step[w] \in {"recheck", "act"} /\ plan[w].handoff /\ x \in {"handoff", "CALLBACK"}
  \/ step[w] = "handing" /\ (x = "handoff" \/ (x = "CALLBACK" /\ filing[w] # NoFiling))

PlansFit ==
  \A w \in Worker :
    /\ step[w] \in {"voice", "recover", "check", "decide", "engine"} => plan[w] = NoPlan
    /\ step[w] = "incident" => plan[w] = [NoPlan EXCEPT !.todo = {"GENERAL"}]
    /\ step[w] \in {"recheck", "act", "handing", "before", "prepare"} =>
         \A x \in plan[w].says : Backing(w, x)

RowsBacked == \A m \in Inbound : \A k \in Rows(m) : \A x \in row[m][k].says : Backed(m, x)

ReplyInv == TransactionsFit /\ RunsFit /\ FilingsFit /\ OneOpenTask /\ PlansFit /\ RowsBacked

-------------------------------------------------------------------------------
(* Statements that touch neither the conversation nor the tasks.                *)

\* Worker w goes on at next, with the message and the plan it has from now on.
Moves(w, next, m, p) ==
  /\ step' = [step EXCEPT ![w] = next]
  /\ about' = [about EXCEPT ![w] = m]
  /\ plan' = [plan EXCEPT ![w] = p]

\* What the plan of a run must fulfil at next.
Fulfilled(next, m, p) ==
  /\ next # "idle" => m \in Inbound
  /\ next \in {"voice", "recover", "check", "decide", "engine"} => p = NoPlan
  /\ next = "incident" => p = [NoPlan EXCEPT !.todo = {"GENERAL"}]
  /\ next \in {"recheck", "act", "before", "prepare"} => \A x \in p.says :
       \/ Backed(m, x)
       \/ next \in {"recheck", "act"} /\ x \in p.todo
       \/ next \in {"recheck", "act"} /\ p.handoff /\ x \in {"handoff", "CALLBACK"}

LEMMA NoPlanFits ==
  /\ NoPlan \in Plan /\ NoPlan.says = {} /\ NoPlan.todo = {} /\ ~NoPlan.handoff
  /\ [NoPlan EXCEPT !.todo = {"GENERAL"}] \in Plan
  /\ [NoPlan EXCEPT !.todo = {"GENERAL"}].says = {}
  /\ [NoPlan EXCEPT !.todo = {"GENERAL"}].todo = {"GENERAL"}
  /\ [NoPlan EXCEPT !.kind = "SYSTEM_NOTICE"] \in Plan
  /\ [NoPlan EXCEPT !.kind = "SYSTEM_NOTICE"].says = {}
BY DEF NoPlan, Plan, TaskKind, Promise, DeliveryKind

LEMMA RunTypes ==
  ASSUME AutoReplyTypeOK, NEW w \in Worker
  PROVE  /\ step[w] \in Steps /\ about[w] \in Inbound \union {None} /\ plan[w] \in Plan
         /\ plan[w].kind \in DeliveryKind /\ plan[w].says \in SUBSET Promise
         /\ plan[w].todo \in SUBSET TaskKind /\ plan[w].handoff \in BOOLEAN
BY ReplyParts DEF TypeRuns, Plan

\* Whoever files a task or opens a handoff is alone in doing so.
LEMMA OneFiles ==
  ASSUME ReplyInv, NEW w \in Actor, tx[w] # NoTx \/ lock = w \/ lock = None
  PROVE  \A a \in Automation : a # w => filing[a] = NoFiling
<1>1. SUFFICES ASSUME NEW a \in Automation, a # w, filing[a] # NoFiling PROVE FALSE
  OBVIOUS
<1>2. tx[a] # NoTx /\ a \in Actor /\ None \notin Actor
  BY <1>1, NoTxHolds, ActorNames DEF ReplyInv, RunsFit
<1>3. QED
  BY <1>1, <1>2 DEF ReplyInv, TransactionsFit, LockHeld

\* Where a run files nothing.
LEMMA FilesNothing ==
  ASSUME ReplyInv, NEW w \in Worker,
         step[w] \notin {"incident", "act", "handing"} \/ tx[w] = NoTx
         \/ (step[w] = "act" /\ plan[w].todo = {})
  PROVE  filing[w] = NoFiling
BY RunnerNames, NoTxHolds DEF ReplyInv, RunsFit

LEMMA MovesFit ==
  ASSUME AutoReplyTypeOK, ReplyInv, NEW w \in Worker, NEW next \in Steps \ {"handing"},
         NEW m \in Inbound \union {None}, NEW p \in Plan, Moves(w, next, m, p),
         Fulfilled(next, m, p), filing[w] = NoFiling,
         UNCHANGED <<control, followUps, handed>>, failures' \in 0..MaxFailures
  PROVE  /\ ControlTypeOK' /\ FollowUpsTypeOK' /\ TypeRuns'
         /\ TransactionsFit' /\ RunsFit' /\ FilingsFit' /\ OneOpenTask' /\ PlansFit'
<1>1. ControlTypeOK /\ FollowUpsTypeOK /\ TypeRuns
  BY ReplyParts
<1>2. UNCHANGED <<status, handoff, agent, lock, tx, task, filing, filed, handed>>
  BY DEF control, followUps
<1>3. ControlTypeOK' /\ FollowUpsTypeOK' /\ TransactionsFit'
  BY <1>1, <1>2, ControlKept, TransactionsKept DEF FollowUpsTypeOK, ReplyInv
<1>4. TypeRuns'
  BY <1>1 DEF TypeRuns, Moves
<1>5. /\ step'[w] = next /\ about'[w] = m /\ plan'[w] = p
      /\ \A v \in Worker : v # w => step'[v] = step[v] /\ about'[v] = about[v] /\ plan'[v] = plan[v]
  BY <1>1 DEF TypeRuns, Moves
<1>6. RunsFit'
  <2>1. ASSUME NEW v \in Worker, step'[v] # "idle" PROVE about'[v] \in Inbound
    BY <1>5, <2>1 DEF Fulfilled, ReplyInv, RunsFit
  <2>2. ASSUME NEW a \in Automation, filing[a] # NoFiling
        PROVE  a \in Worker /\ a # w
    BY <2>2 DEF ReplyInv, RunsFit
  <2>3. QED
    BY <1>2, <1>5, <2>1, <2>2 DEF ReplyInv, RunsFit
<1>7. FilingsFit' /\ OneOpenTask'
  BY <1>2 DEF ReplyInv, FilingsFit, OneOpenTask, OpenTasks
<1>8. PlansFit'
  <2>1. ASSUME NEW x \in p.says, next \in {"recheck", "act", "before", "prepare"}
        PROVE  Backing(w, x)'
    BY <1>2, <1>5, <2>1 DEF Fulfilled, Backing, Backed
  <2>2. ASSUME NEW v \in Worker, v # w, NEW x, Backing(v, x) PROVE Backing(v, x)'
    BY <1>2, <1>5, <2>2 DEF Backing, Backed
  <2>3. QED
    BY <1>5, <2>1, <2>2 DEF Fulfilled, ReplyInv, PlansFit
<1>9. QED
  BY <1>3, <1>4, <1>6, <1>7, <1>8

LEMMA RowsKept ==
  ASSUME RowsBacked, UNCHANGED row, handed \subseteq handed', filed \subseteq filed'
  PROVE  RowsBacked'
BY DEF RowsBacked, Rows, Backed

\* A statement of worker w that only moves it.
LEMMA MovesKeep ==
  ASSUME AutoReplyTypeOK, ReplyInv, NEW w \in Worker, NEW next \in Steps \ {"handing"},
         NEW m \in Inbound \union {None}, NEW p \in Plan, Moves(w, next, m, p),
         Fulfilled(next, m, p), filing[w] = NoFiling,
         UNCHANGED <<control, followUps, handed, row>>, failures' \in 0..MaxFailures,
         TypeReplies'
  PROVE  AutoReplyTypeOK' /\ ReplyInv'
<1>1. RowsBacked'
  BY RowsKept DEF ReplyInv, followUps
<1>2. QED
  BY <1>1, MovesFit DEF AutoReplyTypeOK, TypeReplies, TypeRuns, Steps, ReplyInv

LEMMA GoOnMoves ==
  ASSUME AutoReplyTypeOK, NEW w \in Worker, NEW next, NEW p, GoOn(w, next, p), UNCHANGED about
  PROVE  Moves(w, next, about[w], p)
<1>1. about = [about EXCEPT ![w] = about[w]]
  BY ReplyParts DEF TypeRuns
<1>2. QED
  BY <1>1 DEF Moves, GoOn

LEMMA EndMoves ==
  ASSUME NEW w \in Worker, EndOfRun(w)
  PROVE  Moves(w, "idle", None, NoPlan) /\ Fulfilled("idle", None, NoPlan)
BY DEF Moves, EndOfRun, GoOn, Fulfilled

-------------------------------------------------------------------------------
(* The statements of a run that file nothing.                                   *)

LEMMA ArriveKeeps ==
  ASSUME AutoReplyTypeOK, ReplyInv, NEW m \in Inbound, Arrive(m)
  PROVE  AutoReplyTypeOK' /\ ReplyInv'
<1>1. /\ ControlTypeOK /\ FollowUpsTypeOK /\ TypeReplies /\ TypeRuns
      /\ UNCHANGED <<status, handoff, agent, lock, tx, task, filing, filed, handed, row, settled,
                     step, about, plan, failures>>
  BY ReplyParts DEF Arrive, control, followUps, runs
<1>2. ControlTypeOK' /\ FollowUpsTypeOK' /\ TransactionsFit'
  BY <1>1, ControlKept, TransactionsKept DEF FollowUpsTypeOK, ReplyInv, control
<1>3. TypeReplies' /\ TypeRuns'
  <2>1. PICK x \in Wish \union {"voice"} : wish' = [wish EXCEPT ![m] = x]
    BY DEF Arrive, Wish
  <2>2. QED
    BY <1>1, <2>1 DEF TypeReplies, TypeRuns
<1>4. AutoReplyTypeOK'
  BY <1>2, <1>3 DEF AutoReplyTypeOK, TypeReplies, TypeRuns, Steps
<1>5. RunsFit' /\ FilingsFit' /\ OneOpenTask'
  BY <1>1 DEF ReplyInv, RunsFit, FilingsFit, OneOpenTask, OpenTasks
<1>6. PlansFit' /\ RowsBacked'
  BY <1>1 DEF ReplyInv, PlansFit, Backing, Backed, RowsBacked, Rows
<1>7. QED
  BY <1>2, <1>4, <1>5, <1>6 DEF ReplyInv

LEMMA StartRunKeeps ==
  ASSUME AutoReplyTypeOK, ReplyInv, NEW w \in Worker, NEW m \in Inbound, StartRun(w, m)
  PROVE  AutoReplyTypeOK' /\ ReplyInv'
<1>1. PICK next \in {"voice", "recover"} : GoOn(w, next, NoPlan)
  BY DEF StartRun
<1>2. Moves(w, next, m, NoPlan) /\ Fulfilled(next, m, NoPlan) /\ NoPlan \in Plan
  BY <1>1, NoPlanFits DEF Moves, GoOn, StartRun, Fulfilled
<1>3. filing[w] = NoFiling
  BY FilesNothing DEF StartRun
<1>4. failures' \in 0..MaxFailures
  BY ReplyParts, AutoReplyAssumption DEF StartRun, TypeRuns
<1>5. UNCHANGED <<control, followUps, handed, row>> /\ TypeReplies'
  BY ReplyParts DEF StartRun, replies, TypeReplies
<1>6. QED
  BY <1>2, <1>3, <1>4, <1>5, MovesKeep DEF Steps

LEMMA TranscribeKeeps ==
  ASSUME AutoReplyTypeOK, ReplyInv, NEW w \in Worker, Transcribe(w)
  PROVE  AutoReplyTypeOK' /\ ReplyInv'
<1>1. PICK next \in {"recover", "prepare"}, p \in {NoPlan, [NoPlan EXCEPT !.kind = "SYSTEM_NOTICE"]} :
        GoOn(w, next, p) /\ (next = "recover" => p = NoPlan)
  BY DEF Transcribe
<1>2. about[w] \in Inbound /\ p \in Plan /\ p.says = {}
  BY NoPlanFits DEF Transcribe, ReplyInv, RunsFit
<1>3. Moves(w, next, about[w], p) /\ Fulfilled(next, about[w], p)
  BY <1>1, <1>2, GoOnMoves DEF Transcribe, Fulfilled
<1>4. filing[w] = NoFiling
  BY FilesNothing DEF Transcribe
<1>5. /\ UNCHANGED <<control, followUps, handed, row>> /\ TypeReplies'
      /\ failures' \in 0..MaxFailures
  <2>1. wish' \in [Inbound -> Wish \union {"absent", "voice"}]
    BY <1>2, ReplyParts DEF Transcribe, TypeReplies
  <2>2. QED
    BY <2>1, ReplyParts DEF Transcribe, TypeReplies, TypeRuns
<1>6. QED
  BY <1>1, <1>2, <1>3, <1>4, <1>5, MovesKeep DEF Steps

\* A run that goes on, and whose message and replies stay as they are.
LEMMA GoesOn ==
  ASSUME AutoReplyTypeOK, ReplyInv, NEW w \in Worker, NEW next \in Steps \ {"handing"},
         NEW p \in Plan, GoOn(w, next, p), Fulfilled(next, about[w], p), filing[w] = NoFiling,
         UNCHANGED <<control, followUps, replies, about, failures>>
  PROVE  AutoReplyTypeOK' /\ ReplyInv'
<1>1. Moves(w, next, about[w], p) /\ about[w] \in Inbound \union {None}
  BY GoOnMoves, RunTypes
<1>2. UNCHANGED <<handed, row>> /\ TypeReplies' /\ failures' \in 0..MaxFailures
  BY ReplyParts DEF replies, TypeReplies, TypeRuns
<1>3. QED
  BY <1>1, <1>2, MovesKeep

\* A run that returns without a reply.
LEMMA Returns ==
  ASSUME AutoReplyTypeOK, ReplyInv, NEW w \in Worker, step[w] # "idle", Return(w),
         filing[w] = NoFiling, UNCHANGED <<control, followUps, wish, row, handed, failures>>
  PROVE  AutoReplyTypeOK' /\ ReplyInv'
<1>1. about[w] \in Inbound
  BY DEF ReplyInv, RunsFit
<1>2. TypeReplies' /\ failures' \in 0..MaxFailures
  BY <1>1, ReplyParts DEF Return, TypeReplies, TypeRuns
<1>3. Moves(w, "idle", None, NoPlan) /\ Fulfilled("idle", None, NoPlan) /\ NoPlan \in Plan
  BY EndMoves, NoPlanFits DEF Return
<1>4. QED
  BY <1>2, <1>3, MovesKeep DEF Steps

LEMMA RecoverKeeps ==
  ASSUME AutoReplyTypeOK, ReplyInv, NEW w \in Worker, Recover(w)
  PROVE  AutoReplyTypeOK' /\ ReplyInv'
<1>1. PICK next \in {"check", "deliver"} : GoOn(w, next, NoPlan)
  BY DEF Recover
<1>2. filing[w] = NoFiling /\ about[w] \in Inbound
  BY FilesNothing DEF Recover, ReplyInv, RunsFit
<1>3. Fulfilled(next, about[w], NoPlan)
  BY <1>2 DEF Fulfilled
<1>4. QED
  BY <1>1, <1>2, <1>3, GoesOn, NoPlanFits DEF Recover, Steps

LEMMA CheckKeeps ==
  ASSUME AutoReplyTypeOK, ReplyInv, NEW w \in Worker, Check(w)
  PROVE  AutoReplyTypeOK' /\ ReplyInv'
<1>1. filing[w] = NoFiling /\ about[w] \in Inbound /\ plan[w] \in Plan
  BY FilesNothing, RunTypes DEF Check, ReplyInv, RunsFit
<1>2. CASE Return(w)
  BY <1>1, <1>2, Returns DEF Check
<1>3. CASE /\ GoOn(w, IF step[w] = "check" THEN "decide" ELSE "act", plan[w])
           /\ UNCHANGED <<settled, about>>
  <2>1. UNCHANGED <<control, followUps, replies, about, failures>>
    BY <1>3 DEF Check, replies
  <2>2. CASE step[w] = "check"
    <3>1. Fulfilled("decide", about[w], plan[w])
      BY <1>1, <2>2 DEF Fulfilled, ReplyInv, PlansFit
    <3>2. QED
      BY <1>1, <1>3, <2>1, <2>2, <3>1, GoesOn DEF Steps
  <2>3. CASE step[w] = "recheck"
    <3>1. Fulfilled("act", about[w], plan[w])
      BY <1>1, <2>3 DEF Fulfilled, ReplyInv, PlansFit, Backing
    <3>2. QED
      BY <1>1, <1>3, <2>1, <2>3, <3>1, GoesOn DEF Steps
  <2>4. QED
    BY <2>2, <2>3 DEF Check
<1>4. QED
  BY <1>2, <1>3 DEF Check

LEMMA DecideKeeps ==
  ASSUME AutoReplyTypeOK, ReplyInv, NEW w \in Worker, Decide(w)
  PROVE  AutoReplyTypeOK' /\ ReplyInv'
<1>1. filing[w] = NoFiling /\ about[w] \in Inbound
  BY FilesNothing DEF Decide, ReplyInv, RunsFit
<1>2. UNCHANGED <<control, followUps, replies, about, failures>>
  BY DEF Decide
<1>3. CASE GoOn(w, "engine", NoPlan)
  <2>1. Fulfilled("engine", about[w], NoPlan)
    BY <1>1 DEF Fulfilled
  <2>2. QED
    BY <1>1, <1>2, <1>3, <2>1, GoesOn, NoPlanFits DEF Steps
<1>4. CASE \E p \in Plan, next \in {"act", "prepare"} :
             /\ GoOn(w, next, p)
             /\ next = "prepare" => p.says = {}
             /\ next = "act" => p.says \subseteq p.todo \union (IF p.handoff THEN {"handoff", "CALLBACK"} ELSE {})
  <2>1. PICK p \in Plan, next \in {"act", "prepare"} :
             /\ GoOn(w, next, p)
             /\ next = "prepare" => p.says = {}
             /\ next = "act" => p.says \subseteq p.todo \union (IF p.handoff THEN {"handoff", "CALLBACK"} ELSE {})
    BY <1>4
  <2>2. Fulfilled(next, about[w], p)
    BY <1>1, <2>1 DEF Fulfilled
  <2>3. QED
    BY <1>1, <1>2, <2>1, <2>2, GoesOn DEF Steps
<1>5. QED
  <2> DEFINE notice(p, f, h) == [kind |-> "SYSTEM_NOTICE", says |-> p, todo |-> f, handoff |-> h]
  <2>1. /\ notice({"handoff"}, {}, TRUE) \in Plan /\ notice({"handoff", "CALLBACK"}, {}, TRUE) \in Plan
        /\ notice({}, {}, FALSE) \in Plan /\ notice({"CALLBACK"}, {"CALLBACK"}, FALSE) \in Plan
    BY DEF Plan, DeliveryKind, Promise, TaskKind
  <2>2. \/ GoOn(w, "act", notice({"handoff"}, {}, TRUE))
        \/ GoOn(w, "act", notice({"handoff", "CALLBACK"}, {}, TRUE))
        \/ GoOn(w, "prepare", notice({}, {}, FALSE))
        \/ GoOn(w, "act", notice({"CALLBACK"}, {"CALLBACK"}, FALSE))
        \/ GoOn(w, "engine", NoPlan)
    BY DEF Decide
  <2>3. CASE GoOn(w, "act", notice({"handoff"}, {}, TRUE))
    BY <1>4, <2>1, <2>3
  <2>4. CASE GoOn(w, "act", notice({"handoff", "CALLBACK"}, {}, TRUE))
    BY <1>4, <2>1, <2>4
  <2>5. CASE GoOn(w, "prepare", notice({}, {}, FALSE))
    BY <1>4, <2>1, <2>5
  <2>6. CASE GoOn(w, "act", notice({"CALLBACK"}, {"CALLBACK"}, FALSE))
    BY <1>4, <2>1, <2>6
  <2>7. QED
    BY <1>3, <2>2, <2>3, <2>4, <2>5, <2>6

LEMMA ElsewhereKeeps ==
  ASSUME AutoReplyTypeOK, ReplyInv, NEW w \in Worker, Elsewhere(w)
  PROVE  AutoReplyTypeOK' /\ ReplyInv'
BY FilesNothing, Returns DEF Elsewhere

LEMMA RespondKeeps ==
  ASSUME AutoReplyTypeOK, ReplyInv, NEW w \in Worker, Respond(w)
  PROVE  AutoReplyTypeOK' /\ ReplyInv'
<1>1. filing[w] = NoFiling /\ about[w] \in Inbound
  BY FilesNothing DEF Respond, ReplyInv, RunsFit
<1>2. UNCHANGED <<control, followUps, replies, about, failures>>
  BY DEF Respond
<1>3. CASE GoOn(w, "incident", [NoPlan EXCEPT !.todo = {"GENERAL"}])
  <2>1. Fulfilled("incident", about[w], [NoPlan EXCEPT !.todo = {"GENERAL"}])
    BY <1>1 DEF Fulfilled
  <2>2. QED
    BY <1>1, <1>2, <1>3, <2>1, GoesOn, NoPlanFits DEF Steps
<1>4. ASSUME NEW k \in {{}, {"CALLBACK"}, {"QUOTE"}}, NEW h \in BOOLEAN,
             GoOn(w, "recheck", [NoPlan EXCEPT !.todo = k, !.handoff = h,
                                   !.says = k \union (IF h THEN {"handoff"} ELSE {})])
      PROVE  AutoReplyTypeOK' /\ ReplyInv'
  <2> DEFINE p == [NoPlan EXCEPT !.todo = k, !.handoff = h,
                                   !.says = k \union (IF h THEN {"handoff"} ELSE {})]
  <2>1. /\ p \in Plan /\ p.todo = k /\ p.handoff = h
        /\ p.says = k \union (IF h THEN {"handoff"} ELSE {})
    BY DEF NoPlan, Plan, TaskKind, Promise, DeliveryKind
  <2>2. GoOn(w, "recheck", p)
    BY <1>4
  <2> HIDE DEF p
  <2>3. Fulfilled("recheck", about[w], p)
    BY <1>1, <2>1 DEF Fulfilled
  <2>4. QED
    BY <1>1, <1>2, <2>1, <2>2, <2>3, GoesOn DEF Steps
<1>5. QED
  BY <1>3, <1>4 DEF Respond

LEMMA NoHandoffKeeps ==
  ASSUME AutoReplyTypeOK, ReplyInv, NEW w \in Worker, NoHandoff(w)
  PROVE  AutoReplyTypeOK' /\ ReplyInv'
<1>1. /\ filing[w] = NoFiling /\ about[w] \in Inbound /\ plan[w] \in Plan
      /\ step[w] = "act" /\ plan[w].todo = {} /\ ~plan[w].handoff
  BY FilesNothing, RunTypes DEF NoHandoff, ReplyInv, RunsFit
<1>2. \A x \in plan[w].says : Backed(about[w], x)
  BY <1>1 DEF ReplyInv, PlansFit, Backing
<1>3. PICK next \in {"before", "prepare"} : GoOn(w, next, plan[w])
  BY DEF NoHandoff
<1>4. Fulfilled(next, about[w], plan[w])
  BY <1>1, <1>2 DEF Fulfilled
<1>5. QED
  BY <1>1, <1>3, <1>4, GoesOn DEF NoHandoff, Steps

LEMMA BeforeSendKeeps ==
  ASSUME AutoReplyTypeOK, ReplyInv, NEW w \in Worker, BeforeSend(w)
  PROVE  AutoReplyTypeOK' /\ ReplyInv'
<1>1. filing[w] = NoFiling /\ about[w] \in Inbound /\ plan[w] \in Plan /\ step[w] = "before"
  BY FilesNothing, RunTypes DEF BeforeSend, ReplyInv, RunsFit
<1>2. CASE Return(w)
  BY <1>1, <1>2, Returns DEF BeforeSend
<1>3. CASE GoOn(w, "prepare", plan[w]) /\ UNCHANGED <<settled, about>>
  <2>1. UNCHANGED <<control, followUps, replies, about, failures>>
    BY <1>3 DEF BeforeSend, replies
  <2>2. Fulfilled("prepare", about[w], plan[w])
    BY <1>1 DEF Fulfilled, ReplyInv, PlansFit, Backing
  <2>3. QED
    BY <1>1, <1>3, <2>1, <2>2, GoesOn DEF Steps
<1>4. QED
  BY <1>2, <1>3 DEF BeforeSend

-------------------------------------------------------------------------------
(* The rows of the reply.                                                       *)

\* The rows of a message m may be written by a run, with promises that are backed.
LEMMA RowsWritten ==
  ASSUME TypeReplies, NEW m \in Inbound, NEW r \in [DeliveryKind -> Delivery \union {NoDelivery}],
         row' = [row EXCEPT ![m] = r], UNCHANGED <<handed, filed>>, RowsBacked,
         \A k \in DeliveryKind : r[k] # NoDelivery => \A x \in r[k].says : Backed(m, x)
  PROVE  RowsBacked' /\ row' \in [Inbound -> [DeliveryKind -> Delivery \union {NoDelivery}]]
<1>1. /\ row'[m] = r /\ \A n \in Inbound : n # m => row'[n] = row[n]
      /\ row' \in [Inbound -> [DeliveryKind -> Delivery \union {NoDelivery}]]
  BY DEF TypeReplies
<1>2. ASSUME NEW n \in Inbound, NEW k \in Rows(n)', NEW x \in row'[n][k].says
      PROVE  Backed(n, x)
  <2>1. CASE n = m
    BY <1>1, <1>2, <2>1 DEF Rows
  <2>2. CASE n # m
    BY <1>1, <1>2, <2>2 DEF RowsBacked, Rows
  <2>3. QED
    BY <2>1, <2>2
<1>3. QED
  BY <1>1, <1>2 DEF RowsBacked, Backed

LEMMA PrepareKeeps ==
  ASSUME AutoReplyTypeOK, ReplyInv, NEW w \in Worker, Prepare(w)
  PROVE  AutoReplyTypeOK' /\ ReplyInv'
<1>1. /\ filing[w] = NoFiling /\ about[w] \in Inbound /\ plan[w] \in Plan
      /\ step[w] = "prepare" /\ plan[w].kind \in DeliveryKind /\ plan[w].says \in SUBSET Promise
      /\ plan[w].handoff \in BOOLEAN
  BY FilesNothing, RunTypes DEF Prepare, ReplyInv, RunsFit
<1>2. \A x \in plan[w].says : Backed(about[w], x)
  BY <1>1 DEF ReplyInv, PlansFit, Backing
<1>3. Moves(w, "deliver", about[w], plan[w]) /\ Fulfilled("deliver", about[w], plan[w])
  BY <1>1, GoOnMoves DEF Prepare, Fulfilled
<1>4. TypeReplies /\ RowsBacked /\ UNCHANGED <<control, followUps, handed>>
      /\ failures' \in 0..MaxFailures
  BY ReplyParts DEF Prepare, ReplyInv, TypeRuns
<1>5. /\ ControlTypeOK' /\ FollowUpsTypeOK' /\ TypeRuns'
      /\ TransactionsFit' /\ RunsFit' /\ FilingsFit' /\ OneOpenTask' /\ PlansFit'
  BY <1>1, <1>3, <1>4, MovesFit DEF Steps
<1>6. RowsBacked' /\ TypeReplies'
  <2> DEFINE d == [state |-> "PREPARED", says |-> plan[w].says, allow |-> plan[w].handoff]
             r == [row[about[w]] EXCEPT ![plan[w].kind] = d]
  <2>1. CASE plan[w].kind \in Rows(about[w])
    <3>1. row' = row
      BY <2>1 DEF Prepare
    <3>2. QED
      BY <1>4, <3>1, RowsKept DEF Prepare, followUps, TypeReplies
  <2>2. CASE plan[w].kind \notin Rows(about[w])
    <3>1. d \in Delivery /\ d.says = plan[w].says
      BY <1>1 DEF Delivery
    <3>2. row[about[w]] \in [DeliveryKind -> Delivery \union {NoDelivery}]
      BY <1>1, <1>4 DEF TypeReplies
    <3>3. row' = [row EXCEPT ![about[w]] = r]
      BY <2>2 DEF Prepare
    <3> HIDE DEF d
    <3>4. r \in [DeliveryKind -> Delivery \union {NoDelivery}]
      BY <3>1, <3>2
    <3>5. \A k \in DeliveryKind : r[k] # NoDelivery => \A x \in r[k].says : Backed(about[w], x)
      <4>1. ASSUME NEW k \in DeliveryKind, r[k] # NoDelivery, NEW x \in r[k].says
            PROVE  Backed(about[w], x)
        <5>1. CASE k = plan[w].kind
          BY <1>2, <3>1, <3>2, <4>1, <5>1
        <5>2. CASE k # plan[w].kind
          BY <1>1, <1>4, <3>2, <4>1, <5>2 DEF RowsBacked, Rows
        <5>3. QED
          BY <5>1, <5>2
      <4>2. QED
        BY <4>1
    <3> HIDE DEF r
    <3>6. QED
      BY <1>1, <1>4, <3>3, <3>4, <3>5, RowsWritten DEF Prepare, followUps, TypeReplies
  <2>3. QED
    BY <2>1, <2>2
<1>7. QED
  BY <1>5, <1>6 DEF ReplyInv, AutoReplyTypeOK, TypeReplies, TypeRuns, Steps

LEMMA DeliverKeeps ==
  ASSUME AutoReplyTypeOK, ReplyInv, NEW w \in Worker, Deliver(w)
  PROVE  AutoReplyTypeOK' /\ ReplyInv'
<1>1. filing[w] = NoFiling /\ about[w] \in Inbound /\ step[w] = "deliver"
  BY FilesNothing DEF Deliver, ReplyInv, RunsFit
<1>2. /\ Moves(w, "idle", None, NoPlan) /\ Fulfilled("idle", None, NoPlan) /\ NoPlan \in Plan
      /\ settled' = [settled EXCEPT ![about[w]] = TRUE]
  BY EndMoves, NoPlanFits DEF Deliver, Return
<1>3. TypeReplies /\ RowsBacked /\ UNCHANGED <<control, followUps, handed, wish>>
      /\ failures' \in 0..MaxFailures
  BY ReplyParts DEF Deliver, ReplyInv, TypeRuns
<1>4. /\ ControlTypeOK' /\ FollowUpsTypeOK' /\ TypeRuns'
      /\ TransactionsFit' /\ RunsFit' /\ FilingsFit' /\ OneOpenTask' /\ PlansFit'
  BY <1>1, <1>2, <1>3, MovesFit DEF Steps
<1> DEFINE after(s, t) ==
             [k \in DeliveryKind |->
               IF k \in s THEN [row[about[w]][k] EXCEPT !.state = "CONFIRMED"]
               ELSE IF k \in t THEN [row[about[w]][k] EXCEPT !.state = "SETTLED"]
               ELSE row[about[w]][k]]
<1> DEFINE waiting == {k \in Rows(about[w]) : row[about[w]][k].state = "PREPARED"}
           open == IF status = "HANDED_OFF" THEN {k \in waiting : row[about[w]][k].allow}
                   ELSE IF status = "ACTIVE" THEN waiting ELSE {}
<1>0. open \subseteq waiting /\ waiting \subseteq Rows(about[w])
  OBVIOUS
<1>5. PICK sent \in SUBSET open : row' = [row EXCEPT ![about[w]] = after(sent, waiting)]
  BY DEF Deliver
<1> HIDE DEF open, waiting
<1> DEFINE r == after(sent, waiting)
<1>6. ASSUME NEW k \in DeliveryKind
      PROVE  /\ r[k] \in Delivery \union {NoDelivery}
             /\ r[k] # NoDelivery => k \in Rows(about[w]) /\ r[k].says = row[about[w]][k].says
  <2>1. row[about[w]][k] \in Delivery \union {NoDelivery}
    BY <1>1, <1>3 DEF TypeReplies
  <2>2. k \in waiting => row[about[w]][k] \in Delivery
    BY <1>0, <2>1 DEF Rows
  <2>3. QED
    BY <1>0, <2>1, <2>2 DEF Delivery, Rows
<1>7. r \in [DeliveryKind -> Delivery \union {NoDelivery}] /\ row' = [row EXCEPT ![about[w]] = r]
  BY <1>5, <1>6
<1>8. \A k \in DeliveryKind : r[k] # NoDelivery => \A x \in r[k].says : Backed(about[w], x)
  BY <1>1, <1>3, <1>6 DEF RowsBacked
<1> HIDE DEF r
<1>9. RowsBacked' /\ TypeReplies'
  BY <1>1, <1>2, <1>3, <1>7, <1>8, RowsWritten DEF followUps, TypeReplies
<1>10. QED
  BY <1>4, <1>9 DEF ReplyInv, AutoReplyTypeOK, TypeReplies, TypeRuns, Steps

-------------------------------------------------------------------------------
(* The transactions of a run: tasks, and the callback of a handoff.             *)

\* Nobody but worker w files anything, and its statement leaves the other runs alone.
Alone(w) == \A a \in Automation : a # w => filing[a] = NoFiling

Others(w) == \A v \in Worker : v # w =>
  step'[v] = step[v] /\ about'[v] = about[v] /\ plan'[v] = plan[v] /\ filing'[v] = filing[v]

LEMMA PlansKept ==
  ASSUME PlansFit, NEW w \in Worker, Others(w), handed \subseteq handed', filed \subseteq filed',
         step'[w] \notin {"voice", "recover", "check", "decide", "engine", "incident"},
         step'[w] \in {"recheck", "act", "handing", "before", "prepare"} =>
           \A x \in plan'[w].says : Backing(w, x)'
  PROVE  PlansFit'
<1>1. ASSUME NEW v \in Worker, v # w, NEW x, Backing(v, x) PROVE Backing(v, x)'
  BY <1>1 DEF Others, Backing, Backed
<1>2. QED
  BY <1>1 DEF PlansFit, Others

\* f is what worker w has found for its request.
Files(w, k, m, f) ==
  /\ f.kind = k /\ f.message = m /\ (f.on = None => OpenTasks(k) = {})
  /\ filing' = [filing EXCEPT ![w] = f]

LEMMA FoundFits ==
  ASSUME FollowUpsTypeOK, NEW w, NEW k \in TaskKind, NEW m \in Inbound, Found(w, k, m)
  PROVE  \E f \in Filing : Files(w, k, m, f)
<1>1. CASE \E t \in OpenTasks(k) :
             filing' = [filing EXCEPT ![w] = [kind |-> k, message |-> m, on |-> t,
                                              sources |-> task[t].sources]]
  <2>1. PICK t \in OpenTasks(k) :
             filing' = [filing EXCEPT ![w] = [kind |-> k, message |-> m, on |-> t,
                                              sources |-> task[t].sources]]
    BY <1>1
  <2>2. t \in Task /\ task[t] \in TaskRow \union {NoRow} /\ task[t].kind = k
    BY <2>1 DEF OpenTasks, FollowUpsTypeOK
  <2>3. task[t].sources \in SUBSET Inbound
    BY <2>2 DEF TaskRow, NoRow, TaskKind
  <2>4. None # t
    BY <2>2, RunnerNames
  <2>5. QED
    BY <2>1, <2>2, <2>3, <2>4 DEF Filing, Files
<1>2. CASE /\ OpenTasks(k) = {}
           /\ filing' = [filing EXCEPT ![w] = [kind |-> k, message |-> m, on |-> None,
                                               sources |-> {}]]
  BY <1>2 DEF Filing, Files
<1>3. QED
  BY <1>1, <1>2 DEF Found

LEMMA FilingFits ==
  ASSUME FollowUpsTypeOK, NEW w \in Worker, NEW f \in Filing,
         filing' = [filing EXCEPT ![w] = f], UNCHANGED <<task, filed>>
  PROVE  FollowUpsTypeOK' /\ f # NoFiling
BY RunnerNames DEF FollowUpsTypeOK, Filing, NoFiling, TaskKind

LEMMA FileTaskKeeps ==
  ASSUME AutoReplyTypeOK, ReplyInv, NEW w \in Worker, FileTask(w)
  PROVE  AutoReplyTypeOK' /\ ReplyInv'
<1>1. PICK k \in plan[w].todo : ReadTask(w, k, about[w])
  BY DEF FileTask
<1>2. /\ ControlTypeOK /\ FollowUpsTypeOK /\ TypeReplies /\ TypeRuns /\ w \in Actor
      /\ w \in Automation /\ step[w] \in {"incident", "act"} /\ about[w] \in Inbound /\ k \in TaskKind
      /\ UNCHANGED <<wish, row, handed, settled, step, about, plan, failures, status, handoff,
                     agent, task, filed>>
  BY <1>1, ReplyParts, RunnerNames, RunTypes
     DEF FileTask, ReadTask, replies, runs, ReplyInv, RunsFit
<1>3. Begin(w, "file", None, None) /\ tx[w] = NoTx /\ lock = None
  BY <1>1 DEF ReadTask, Begin
<1>4. Alone(w) /\ filing[w] = NoFiling
  BY <1>2, <1>3, OneFiles, FilesNothing DEF Alone
<1>0. PICK f \in Filing : Files(w, k, about[w], f)
  <2>1. Found(w, k, about[w])
    BY <1>1 DEF ReadTask
  <2>2. QED
    BY <1>2, <2>1, FoundFits
<1>5. /\ f.kind = k /\ f.message = about[w] /\ (f.on = None => OpenTasks(k) = {})
      /\ filing' = [filing EXCEPT ![w] = f]
  BY <1>0 DEF Files
<1>6. FollowUpsTypeOK' /\ f # NoFiling
  BY <1>2, <1>5, FilingFits
<1>7. /\ filing'[w] = f /\ \A a \in Automation : a # w => filing'[a] = NoFiling
      /\ \A v \in Worker : v # w => filing'[v] = filing[v]
  BY <1>2, <1>4, <1>5, RunnerNames DEF FollowUpsTypeOK, Alone
<1>8. tx'[w].op = "file" /\ \A v \in Worker : v # w => tx'[v] = tx[v]
  BY <1>2, <1>3, RunnerNames DEF ControlTypeOK, Begin
<1>9. ControlTypeOK'
  BY <1>2, <1>3, BeginFits DEF ControlTypeOK
<1>10. TransactionsFit'
  <2>1. Holds(w, "file", None)
    BY DEF Holds
  <2>2. QED
    BY <1>2, <1>3, <1>9, <2>1, BeginKeeps DEF ReplyInv
<1>11. RunsFit'
  <2>1. \A v \in Worker : tx'[v].op = "file" => filing'[v] # NoFiling
    BY <1>6, <1>7, <1>8 DEF ReplyInv, RunsFit
  <2>2. QED
    BY <1>1, <1>2, <1>5, <1>7, <1>8, <2>1 DEF ReplyInv, RunsFit
<1>12. FilingsFit' /\ OneOpenTask'
  <2>1. OpenTasks(f.kind)' = OpenTasks(f.kind) /\ \A x \in TaskKind : OpenTasks(x)' = OpenTasks(x)
    BY <1>2 DEF OpenTasks
  <2>2. QED
    BY <1>5, <1>7, <2>1 DEF FilingsFit, OneOpenTask, ReplyInv
<1>13. PlansFit' /\ RowsBacked'
  <2>1. ASSUME NEW v \in Worker, NEW x, Backing(v, x) PROVE Backing(v, x)'
    BY <1>2, <1>6, <1>7, <2>1 DEF Backing, Backed
  <2>2. QED
    BY <1>2, <2>1, RowsKept DEF PlansFit, ReplyInv
<1>14. AutoReplyTypeOK'
  BY <1>2, <1>6, <1>9 DEF AutoReplyTypeOK, TypeReplies, TypeRuns, Steps
<1>15. QED
  BY <1>10, <1>11, <1>12, <1>13, <1>14 DEF ReplyInv

\* What a new task or a new source leaves: one open task of each kind.
LEMMA NewTaskFits ==
  ASSUME FollowUpsTypeOK, OneOpenTask, NEW k \in TaskKind, NEW s \in SUBSET Inbound,
         OpenTasks(k) = {}, NEW t \in FreeRows, task' = [task EXCEPT ![t] = NewTask(k, s)]
  PROVE  task' \in [Task -> TaskRow \union {NoRow}] /\ OneOpenTask'
<1>1. t \in Task /\ task \in [Task -> TaskRow \union {NoRow}] /\ NewTask(k, s) \in TaskRow
  BY DEF FreeRows, FollowUpsTypeOK, NewTask, TaskRow
<1>2. OpenTasks(k)' \subseteq {t}
  BY <1>1 DEF OpenTasks
<1>3. ASSUME NEW x \in TaskKind, x # k PROVE OpenTasks(x)' \subseteq OpenTasks(x)
  BY <1>1, <1>3 DEF OpenTasks, NewTask
<1>4. QED
  BY <1>1, <1>2, <1>3 DEF OneOpenTask

LEMMA NewSourceFits ==
  ASSUME FollowUpsTypeOK, OneOpenTask, NEW t \in Task, task[t] # NoRow, NEW s \in SUBSET Inbound,
         task' = [task EXCEPT ![t].sources = s]
  PROVE  task' \in [Task -> TaskRow \union {NoRow}] /\ OneOpenTask'
<1>1. task \in [Task -> TaskRow \union {NoRow}] /\ task[t] \in TaskRow
  BY DEF FollowUpsTypeOK
<1>2. /\ [task[t] EXCEPT !.sources = s] \in TaskRow
      /\ [task[t] EXCEPT !.sources = s].kind = task[t].kind
      /\ [task[t] EXCEPT !.sources = s].status = task[t].status
  BY <1>1 DEF TaskRow
<1>3. \A u \in Task : task'[u].kind = task[u].kind /\ task'[u].status = task[u].status
  BY <1>1, <1>2
<1>4. \A k \in TaskKind : OpenTasks(k)' = OpenTasks(k)
  BY <1>3 DEF OpenTasks
<1>5. QED
  BY <1>1, <1>2, <1>4 DEF OneOpenTask

LEMMA WriteTaskFits ==
  ASSUME FollowUpsTypeOK, FilingsFit, OneOpenTask, NEW w \in Automation, filing[w] # NoFiling,
         WriteTask(w)
  PROVE  FollowUpsTypeOK' /\ OneOpenTask'
<1>1. /\ filing \in [Automation -> {NoFiling} \union Filing] /\ filing[w] \in Filing
      /\ filed \in SUBSET (Inbound \X TaskKind)
  BY DEF FollowUpsTypeOK, Filing
<1>2. /\ filing[w].kind \in TaskKind /\ filing[w].message \in Inbound
      /\ filing[w].on \in Task \union {None} /\ filing[w].sources \in SUBSET Inbound
  BY <1>1 DEF Filing
<1>3. task' \in [Task -> TaskRow \union {NoRow}] /\ OneOpenTask'
  <2>1. CASE /\ filing[w].on = None
             /\ \E t \in FreeRows :
                  task' = [task EXCEPT ![t] = NewTask(filing[w].kind, {filing[w].message})]
    <3>1. OpenTasks(filing[w].kind) = {} /\ {filing[w].message} \in SUBSET Inbound
      BY <1>2, <2>1 DEF FilingsFit
    <3>2. QED
      BY <1>2, <2>1, <3>1, NewTaskFits
  <2>2. CASE UNCHANGED task
    BY <2>2 DEF FollowUpsTypeOK, OneOpenTask, OpenTasks
  <2>3. CASE /\ filing[w].on # None /\ task[filing[w].on] # NoRow
             /\ task' = [task EXCEPT ![filing[w].on].sources =
                           filing[w].sources \union {filing[w].message}]
    <3>1. filing[w].on \in Task /\ filing[w].sources \union {filing[w].message} \in SUBSET Inbound
      BY <1>2, <2>3
    <3>2. QED
      BY <2>3, <3>1, NewSourceFits
  <2>4. QED
    BY <2>1, <2>2, <2>3 DEF WriteTask
<1>4. /\ filed' \in SUBSET (Inbound \X TaskKind)
      /\ filing' \in [Automation -> {NoFiling} \union Filing]
  BY <1>1, <1>2 DEF WriteTask
<1>5. QED
  BY <1>3, <1>4 DEF FollowUpsTypeOK, Filing

\* The end of a transaction that files, with its plan carried out.
LEMMA FiledKeeps ==
  ASSUME AutoReplyTypeOK, ReplyInv, NEW w \in Worker, step[w] \in {"incident", "act"},
         tx[w].op = "file", End(w), UNCHANGED <<status, handoff, agent, replies, about, failures>>,
         filing' = [filing EXCEPT ![w] = NoFiling], FollowUpsTypeOK', OneOpenTask',
         filed \subseteq filed', NEW next \in {"recheck", "act"}, NEW p \in Plan, GoOn(w, next, p),
         \A x \in p.says : \/ Backed(about[w], x)'
                           \/ x \in p.todo
                           \/ p.handoff /\ x \in {"handoff", "CALLBACK"}
  PROVE  AutoReplyTypeOK' /\ ReplyInv'
<1>1. /\ ControlTypeOK /\ FollowUpsTypeOK /\ TypeReplies /\ TypeRuns /\ w \in Actor /\ tx[w] # NoTx
      /\ w \in Automation /\ about[w] \in Inbound /\ UNCHANGED <<wish, row, handed, settled>>
  BY ReplyParts, RunnerNames, NoTxHolds DEF ReplyInv, RunsFit, replies
<1>2. /\ \A a \in Automation : filing'[a] = NoFiling
      /\ \A v \in Worker : v # w => filing'[v] = filing[v]
  BY <1>1, OneFiles, RunnerNames DEF FollowUpsTypeOK
<1>3. /\ step'[w] = next /\ about'[w] = about[w] /\ plan'[w] = p
      /\ \A v \in Worker : v # w => step'[v] = step[v] /\ about'[v] = about[v] /\ plan'[v] = plan[v]
      /\ TypeRuns'
  BY <1>1 DEF TypeRuns, GoOn, Steps
<1>4. /\ ControlTypeOK' /\ TransactionsFit'
  <2>1. ControlTypeOK'
    BY <1>1, EndFits DEF ControlTypeOK
  <2>2. OneIsInCharge'
    BY ChargeKept DEF ReplyInv, TransactionsFit
  <2>3. QED
    BY <1>1, <2>1, <2>2, EndKeeps DEF ReplyInv
<1>5. tx'[w].op = "none" /\ \A v \in Worker : v # w => tx'[v] = tx[v]
  BY <1>1, NoTxHolds, RunnerNames DEF ControlTypeOK, End
<1>6. RunsFit' /\ FilingsFit'
  BY <1>1, <1>2, <1>3, <1>5 DEF ReplyInv, RunsFit, FilingsFit
<1>7. PlansFit'
  <2>1. \A x \in plan'[w].says : Backing(w, x)'
    BY <1>3 DEF Backing, Backed
  <2>2. Others(w)
    BY <1>2, <1>3 DEF Others
  <2>3. QED
    BY <1>1, <1>3, <2>1, <2>2, PlansKept DEF ReplyInv
<1>8. RowsBacked'
  BY <1>1, RowsKept DEF ReplyInv
<1>9. AutoReplyTypeOK'
  BY <1>1, <1>3, <1>4 DEF AutoReplyTypeOK, TypeReplies, TypeRuns, Steps
<1>10. QED
  BY <1>4, <1>6, <1>7, <1>8, <1>9 DEF ReplyInv

LEMMA TaskFiledKeeps ==
  ASSUME AutoReplyTypeOK, ReplyInv, NEW w \in Worker, TaskFiled(w)
  PROVE  AutoReplyTypeOK' /\ ReplyInv'
<1>1. /\ FollowUpsTypeOK /\ w \in Automation /\ step[w] \in {"incident", "act"}
      /\ tx[w].op = "file" /\ filing[w] # NoFiling /\ plan[w] \in Plan /\ about[w] \in Inbound
      /\ filing[w].message = about[w] /\ filing[w].kind \in plan[w].todo
      /\ filing[w].kind \in TaskKind /\ filing' = [filing EXCEPT ![w] = NoFiling]
      /\ plan[w].says \in SUBSET Promise /\ plan[w].todo \in SUBSET TaskKind
  BY ReplyParts, RunnerNames, RunTypes DEF TaskFiled, WriteTask, TaskFails, ReplyInv, RunsFit
<1>2. UNCHANGED <<replies, about, failures>>
  BY DEF TaskFiled
<1>3. CASE /\ WriteTask(w)
           /\ IF step[w] = "incident"
              THEN GoOn(w, "recheck", [plan[w] EXCEPT !.todo = {}, !.says = {"GENERAL"}])
              ELSE GoOn(w, "act", [plan[w] EXCEPT !.todo = @ \ {filing[w].kind}])
  <2>1. /\ FollowUpsTypeOK' /\ OneOpenTask' /\ filed' = filed \union {<<about[w], filing[w].kind>>}
        /\ End(w) /\ UNCHANGED <<status, handoff, agent>>
    BY <1>1, <1>3, WriteTaskFits DEF ReplyInv, WriteTask
  <2>2. UNCHANGED <<about, handed>> /\ filed \subseteq filed'
    BY <1>2, <2>1 DEF replies
  <2>3. CASE step[w] = "incident"
    <3> DEFINE p == [plan[w] EXCEPT !.todo = {}, !.says = {"GENERAL"}]
    <3>1. p \in Plan /\ p.says = {"GENERAL"}
      BY <1>1 DEF Plan, Promise
    <3>2. GoOn(w, "recheck", p)
      BY <1>3, <2>3
    <3> HIDE DEF p
    <3>3. Backed(about[w], "GENERAL")'
      BY <1>1, <2>1, <2>2, <2>3, NoPlanFits DEF Backed, ReplyInv, PlansFit
    <3>4. QED
      BY <1>1, <1>2, <2>1, <2>2, <3>1, <3>2, <3>3, FiledKeeps
  <2>4. CASE step[w] = "act"
    <3> DEFINE p == [plan[w] EXCEPT !.todo = @ \ {filing[w].kind}]
    <3>1. /\ p \in Plan /\ p.says = plan[w].says /\ p.todo = plan[w].todo \ {filing[w].kind}
          /\ p.handoff = plan[w].handoff
      BY <1>1 DEF Plan
    <3>2. GoOn(w, "act", p)
      BY <1>3, <2>4
    <3> HIDE DEF p
    <3>3. ASSUME NEW x \in p.says
          PROVE  \/ Backed(about[w], x)'
                 \/ x \in p.todo
                 \/ p.handoff /\ x \in {"handoff", "CALLBACK"}
      <4>1. \/ Backed(about[w], x)
            \/ x \in plan[w].todo
            \/ plan[w].handoff /\ x \in {"handoff", "CALLBACK"}
        BY <2>4, <3>1 DEF ReplyInv, PlansFit, Backing
      <4>2. Backed(about[w], x) => Backed(about[w], x)'
        BY <2>2 DEF Backed
      <4>3. x = filing[w].kind => Backed(about[w], x)'
        BY <1>1, <2>1, <2>2 DEF Backed, TaskKind
      <4>4. QED
        BY <3>1, <4>1, <4>2, <4>3
    <3>4. QED
      BY <1>1, <1>2, <2>1, <2>2, <3>1, <3>2, <3>3, FiledKeeps
  <2>5. QED
    BY <1>1, <2>3, <2>4
<1>4. CASE TaskFails(w) /\ GoOn(w, "recheck", NoPlan)
  <2>1. End(w) /\ UNCHANGED <<status, handoff, agent, task, filed>>
    BY <1>4 DEF TaskFails, Rollback
  <2>2. FollowUpsTypeOK' /\ OneOpenTask'
    BY <1>1, <2>1 DEF ReplyInv, FollowUpsTypeOK, OneOpenTask, OpenTasks
  <2>3. QED
    BY <1>1, <1>2, <1>4, <2>1, <2>2, NoPlanFits, FiledKeeps
<1>5. QED
  BY <1>3, <1>4 DEF TaskFiled

LEMMA OpenHandoffKeeps ==
  ASSUME AutoReplyTypeOK, ReplyInv, NEW w \in Worker, OpenHandoff(w)
  PROVE  AutoReplyTypeOK' /\ ReplyInv'
<1>1. /\ ControlTypeOK /\ FollowUpsTypeOK /\ TypeReplies /\ TypeRuns /\ w \in Actor
      /\ w \in Automation /\ step[w] = "act" /\ plan[w].todo = {} /\ plan[w].handoff
      /\ about[w] \in Inbound
      /\ UNCHANGED <<wish, row, handed, settled, about, failures, task, filed>>
  BY ReplyParts, RunnerNames
     DEF OpenHandoff, replies, followUps, FindCallback, ReplyInv, RunsFit
<1>2. ReadCreate(w) /\ (\E h : Begin(w, "create", h, None)) /\ tx[w] = NoTx /\ lock = None
  BY DEF OpenHandoff, ReadCreate, Begin
<1>3. Alone(w) /\ filing[w] = NoFiling
  BY <1>1, <1>2, OneFiles, FilesNothing DEF Alone
<1>4. ControlTypeOK' /\ TransactionsFit'
  BY <1>1, <1>2, ReadCreateFits, ReadCreateKeeps DEF ReplyInv
<1>5. tx'[w].op = "create" /\ \A v \in Worker : v # w => tx'[v] = tx[v]
  BY <1>1, <1>2, RunnerNames DEF ControlTypeOK, Begin
<1> DEFINE NotAnnounced(f) == /\ "CALLBACK" \notin plan[w].says /\ f = NoFiling
                              /\ filing' = [filing EXCEPT ![w] = f]
<1>0. PICK f \in Filing \union {NoFiling} :
        (f \in Filing /\ Files(w, "CALLBACK", about[w], f)) \/ NotAnnounced(f)
  <2>1. CASE "CALLBACK" \in plan[w].says
    <3>1. Found(w, "CALLBACK", about[w]) /\ "CALLBACK" \in TaskKind
      BY <2>1 DEF OpenHandoff, FindCallback, TaskKind
    <3>2. QED
      BY <1>1, <3>1, FoundFits
  <2>2. CASE "CALLBACK" \notin plan[w].says
    <3>1. UNCHANGED filing
      BY <2>2 DEF OpenHandoff, followUps
    <3>2. filing' = [filing EXCEPT ![w] = NoFiling]
      BY <1>1, <1>3, <3>1 DEF FollowUpsTypeOK
    <3>3. NotAnnounced(NoFiling)
      BY <2>2, <3>2
    <3> HIDE DEF NotAnnounced
    <3>4. QED
      BY <3>3
  <2>3. QED
    BY <2>1, <2>2
<1>6. /\ filing' = [filing EXCEPT ![w] = f] /\ FollowUpsTypeOK'
      /\ f # NoFiling => /\ f.kind = "CALLBACK" /\ f.message = about[w]
                         /\ (f.on = None => OpenTasks(f.kind) = {})
      /\ "CALLBACK" \in plan[w].says => f # NoFiling
  <2>1. filing' = [filing EXCEPT ![w] = f]
    BY <1>0 DEF Files
  <2>2. FollowUpsTypeOK' /\ (f \in Filing => f # NoFiling)
    BY <1>1, <2>1, FilingFits DEF FollowUpsTypeOK, Filing, NoFiling, TaskKind
  <2>3. QED
    BY <1>0, <2>1, <2>2 DEF Files
<1>7. /\ filing'[w] = f /\ \A a \in Automation : a # w => filing'[a] = NoFiling
      /\ \A v \in Worker : v # w => filing'[v] = filing[v]
  BY <1>1, <1>3, <1>6, RunnerNames DEF FollowUpsTypeOK, Alone
<1>8. /\ step'[w] = "handing" /\ plan'[w] = plan[w]
      /\ \A v \in Worker : v # w => step'[v] = step[v] /\ plan'[v] = plan[v]
      /\ TypeRuns'
  BY <1>1 DEF TypeRuns, OpenHandoff, GoOn, Steps
<1>9. RunsFit'
  <2>1. \A v \in Worker : tx'[v].op = "file" => filing'[v] # NoFiling
    BY <1>5, <1>7 DEF ReplyInv, RunsFit
  <2>2. \A v \in Worker : step'[v] # "idle" => about'[v] \in Inbound
    BY <1>1, <1>8 DEF ReplyInv, RunsFit
  <2>3. QED
    BY <1>1, <1>5, <1>6, <1>7, <1>8, <2>1, <2>2 DEF RunsFit
<1>10. FilingsFit' /\ OneOpenTask'
  <2>1. OpenTasks(f.kind)' = OpenTasks(f.kind) /\ \A x \in TaskKind : OpenTasks(x)' = OpenTasks(x)
    BY <1>1 DEF OpenTasks
  <2>2. QED
    BY <1>6, <1>7, <2>1 DEF FilingsFit, OneOpenTask, ReplyInv
<1>11. PlansFit'
  <2>1. ASSUME NEW x \in plan[w].says PROVE Backing(w, x)'
    <3>1. Backed(about[w], x) \/ x \in {"handoff", "CALLBACK"}
      BY <1>1 DEF ReplyInv, PlansFit, Backing
    <3>2. Backed(about[w], x) => Backed(about[w], x)'
      BY <1>1 DEF Backed
    <3>3. x = "CALLBACK" => filing'[w] # NoFiling
      BY <1>6, <1>7
    <3>4. QED
      BY <1>1, <1>8, <3>1, <3>2, <3>3 DEF Backing, Backed
  <2>2. Others(w)
    BY <1>1, <1>7, <1>8 DEF Others
  <2>3. QED
    BY <1>1, <1>8, <2>1, <2>2, PlansKept DEF ReplyInv
<1>12. RowsBacked'
  BY <1>1, RowsKept DEF ReplyInv
<1>13. AutoReplyTypeOK'
  BY <1>1, <1>4, <1>6, <1>8 DEF AutoReplyTypeOK, TypeReplies, TypeRuns, Steps
<1>14. QED
  BY <1>4, <1>9, <1>10, <1>11, <1>12, <1>13 DEF ReplyInv

LEMMA FileCallbackFits ==
  ASSUME FollowUpsTypeOK, FilingsFit, OneOpenTask, NEW w \in Automation, FileCallback(w),
         filing[w] # NoFiling => filing[w].kind = "CALLBACK"
  PROVE  FollowUpsTypeOK' /\ OneOpenTask'
<1>1. /\ filing \in [Automation -> {NoFiling} \union Filing]
      /\ filed \in SUBSET (Inbound \X TaskKind) /\ task \in [Task -> TaskRow \union {NoRow}]
      /\ "CALLBACK" \in TaskKind
  BY DEF FollowUpsTypeOK, Filing, TaskKind
<1>2. task' \in [Task -> TaskRow \union {NoRow}] /\ OneOpenTask'
  <2>1. CASE UNCHANGED task
    BY <1>1, <2>1 DEF OneOpenTask, OpenTasks
  <2>2. CASE /\ filing[w].on = None /\ filing[w] # NoFiling
             /\ \E t \in FreeRows : task' = [task EXCEPT ![t] = NewTask("CALLBACK", {})]
    <3>1. OpenTasks("CALLBACK") = {}
      BY <2>2 DEF FilingsFit
    <3>2. QED
      BY <1>1, <2>2, <3>1, NewTaskFits
  <2>3. QED
    BY <2>1, <2>2 DEF FileCallback
<1>3. /\ filed' \in SUBSET (Inbound \X TaskKind)
      /\ filing' \in [Automation -> {NoFiling} \union Filing]
  <2>1. filing[w] # NoFiling => filing[w].message \in Inbound
    BY <1>1 DEF Filing
  <2>2. QED
    BY <1>1, <2>1 DEF FileCallback
<1>4. QED
  BY <1>2, <1>3 DEF FollowUpsTypeOK, Filing

LEMMA HandoffOpenedKeeps ==
  ASSUME AutoReplyTypeOK, ReplyInv, NEW w \in Worker, HandoffOpened(w)
  PROVE  AutoReplyTypeOK' /\ ReplyInv'
<1>1. /\ ControlTypeOK /\ FollowUpsTypeOK /\ TypeReplies /\ TypeRuns /\ w \in Actor
      /\ w \in Automation /\ step[w] = "handing" /\ tx[w].op = "create" /\ tx[w] # NoTx
      /\ about[w] \in Inbound /\ UNCHANGED <<wish, row, settled, about, failures>>
  BY ReplyParts, RunnerNames, NoTxHolds DEF HandoffOpened, WriteCreate, ReplyInv, RunsFit
<1>2. WriteCreate(w) /\ FileCallback(w) /\ End(w) /\ handed' = handed \union {about[w]}
  BY DEF HandoffOpened, WriteCreate
<1>3. filing[w] # NoFiling => filing[w].kind = "CALLBACK" /\ filing[w].message = about[w]
  BY <1>1 DEF ReplyInv, RunsFit
<1>4. ControlTypeOK' /\ TransactionsFit'
  BY <1>1, <1>2, WriteCreateFits, WriteCreateKeeps DEF ReplyInv
<1>5. FollowUpsTypeOK' /\ OneOpenTask'
  BY <1>1, <1>2, <1>3, FileCallbackFits DEF ReplyInv
<1>6. /\ \A a \in Automation : filing'[a] = NoFiling
      /\ \A v \in Worker : v # w => filing'[v] = filing[v]
  BY <1>1, <1>2, OneFiles, RunnerNames DEF FollowUpsTypeOK, FileCallback
<1>7. /\ handed \subseteq handed' /\ filed \subseteq filed' /\ about[w] \in handed'
      /\ filing[w] # NoFiling => <<about[w], "CALLBACK">> \in filed'
  BY <1>2, <1>3 DEF FileCallback
<1>8. PICK next \in {"before", "prepare"} : GoOn(w, next, plan[w])
  BY DEF HandoffOpened
<1>9. /\ step'[w] = next /\ plan'[w] = plan[w]
      /\ \A v \in Worker : v # w => step'[v] = step[v] /\ plan'[v] = plan[v]
      /\ TypeRuns'
  BY <1>1, <1>8 DEF TypeRuns, GoOn, Steps
<1>10. tx'[w].op = "none" /\ \A v \in Worker : v # w => tx'[v] = tx[v]
  BY <1>1, <1>2, NoTxHolds, RunnerNames DEF ControlTypeOK, End
<1>11. RunsFit' /\ FilingsFit'
  BY <1>1, <1>6, <1>9, <1>10 DEF ReplyInv, RunsFit, FilingsFit
<1>12. PlansFit'
  <2>1. ASSUME NEW x \in plan[w].says PROVE Backing(w, x)'
    <3>1. Backed(about[w], x) \/ x = "handoff" \/ (x = "CALLBACK" /\ filing[w] # NoFiling)
      BY <1>1 DEF ReplyInv, PlansFit, Backing
    <3>2. Backed(about[w], x)'
      BY <1>1, <1>7, <3>1 DEF Backed
    <3>3. QED
      BY <3>2 DEF Backing
  <2>2. Others(w)
    BY <1>1, <1>6, <1>9 DEF Others
  <2>3. QED
    BY <1>7, <1>9, <2>1, <2>2, PlansKept DEF ReplyInv
<1>13. RowsBacked'
  BY <1>1, <1>7, RowsKept DEF ReplyInv
<1>14. AutoReplyTypeOK'
  <2>1. handed' \in SUBSET Inbound
    BY <1>1, <1>2 DEF TypeReplies
  <2>2. QED
    BY <1>1, <1>4, <1>5, <1>9, <2>1 DEF AutoReplyTypeOK, TypeReplies, TypeRuns, Steps
<1>15. QED
  BY <1>4, <1>5, <1>11, <1>12, <1>13, <1>14 DEF ReplyInv

LEMMA InterruptedKeeps ==
  ASSUME AutoReplyTypeOK, ReplyInv, NEW w \in Worker, Interrupted(w)
  PROVE  AutoReplyTypeOK' /\ ReplyInv'
<1>1. /\ ControlTypeOK /\ FollowUpsTypeOK /\ TypeReplies /\ TypeRuns /\ w \in Actor
      /\ w \in Automation /\ End(w) /\ filing' = [filing EXCEPT ![w] = NoFiling]
      /\ UNCHANGED <<status, handoff, agent, task, filed, wish, row, handed, settled>>
  BY ReplyParts, RunnerNames DEF Interrupted, replies
<1>2. ControlTypeOK' /\ TransactionsFit'
  <2>1. ControlTypeOK'
    BY <1>1, EndFits DEF ControlTypeOK
  <2>2. OneIsInCharge'
    BY <1>1, ChargeKept DEF ReplyInv, TransactionsFit
  <2>3. QED
    BY <1>1, <2>1, <2>2, EndKeeps DEF ReplyInv
<1>3. tx'[w].op = "none" /\ \A v \in Worker : v # w => tx'[v] = tx[v]
  BY <1>1, NoTxHolds, RunnerNames DEF ControlTypeOK, End
<1>4. /\ step'[w] = "idle"
      /\ \A v \in Worker : v # w => step'[v] = step[v] /\ about'[v] = about[v] /\ plan'[v] = plan[v]
      /\ TypeRuns'
  BY <1>1, NoPlanFits, AutoReplyAssumption DEF TypeRuns, Interrupted, EndOfRun, GoOn, Steps
<1>5. filing'[w] = NoFiling /\ \A a \in Automation : a # w => filing'[a] = filing[a]
  BY <1>1 DEF FollowUpsTypeOK
<1>6. FollowUpsTypeOK' /\ OneOpenTask'
  BY <1>1 DEF ReplyInv, FollowUpsTypeOK, OneOpenTask, OpenTasks
<1>7. RunsFit'
  <2>1. \A v \in Worker : step'[v] # "idle" => about'[v] \in Inbound
    BY <1>4 DEF ReplyInv, RunsFit
  <2>2. \A v \in Worker : tx'[v].op = "file" => filing'[v] # NoFiling
    BY <1>3, <1>5, RunnerNames DEF ReplyInv, RunsFit
  <2>3. QED
    BY <1>3, <1>4, <1>5, <2>1, <2>2 DEF ReplyInv, RunsFit
<1>8. FilingsFit'
  BY <1>1, <1>5 DEF ReplyInv, FilingsFit, OpenTasks
<1>9. PlansFit'
  <2>1. Others(w)
    BY <1>4, <1>5, RunnerNames DEF Others
  <2>2. QED
    BY <1>1, <1>4, <2>1, PlansKept DEF ReplyInv
<1>10. RowsBacked'
  BY <1>1, RowsKept DEF ReplyInv
<1>11. AutoReplyTypeOK'
  BY <1>1, <1>2, <1>4, <1>6 DEF AutoReplyTypeOK, TypeReplies, TypeRuns, Steps
<1>12. QED
  BY <1>2, <1>6, <1>7, <1>8, <1>9, <1>10, <1>11 DEF ReplyInv

-------------------------------------------------------------------------------
(* Operators.                                                                   *)

LEMMA OperateKeeps ==
  ASSUME AutoReplyTypeOK, ReplyInv, NEW a \in Operator, Operate(a), UNCHANGED <<replies, runs>>
  PROVE  AutoReplyTypeOK' /\ ReplyInv'
<1>1. /\ ControlTypeOK /\ FollowUpsTypeOK /\ TypeReplies /\ TypeRuns
      /\ UNCHANGED <<task, filing, filed, wish, row, handed, settled, step, about, plan, failures>>
  BY ReplyParts DEF Operate, replies, runs, followUps
<1>2. OperatorStep(a)
  BY DEF Operate, OperatorStep
<1>3. ControlTypeOK' /\ TransactionsFit'
  BY <1>1, <1>2, OperatorStepFits, OperatorStepKeeps DEF ReplyInv
<1>4. \A w \in Worker : tx'[w] = tx[w]
  BY <1>1, <1>2, OperatorStepLeaves, RunnerNames
<1>5. RunsFit' /\ FilingsFit' /\ OneOpenTask'
  BY <1>1, <1>4 DEF ReplyInv, RunsFit, FilingsFit, OneOpenTask, OpenTasks
<1>6. PlansFit' /\ RowsBacked'
  BY <1>1 DEF ReplyInv, PlansFit, Backing, Backed, RowsBacked, Rows
<1>7. AutoReplyTypeOK'
  BY <1>1, <1>3 DEF AutoReplyTypeOK, FollowUpsTypeOK, TypeReplies, TypeRuns, Steps
<1>8. QED
  BY <1>3, <1>5, <1>6, <1>7 DEF ReplyInv

LEMMA TaskListKeeps ==
  ASSUME AutoReplyTypeOK, ReplyInv, NEW t \in Task, CompleteTask(t) \/ RemoveTask(t),
         UNCHANGED <<replies, runs>>
  PROVE  AutoReplyTypeOK' /\ ReplyInv'
<1>1. /\ ControlTypeOK /\ FollowUpsTypeOK /\ TypeReplies /\ TypeRuns /\ UNCHANGED control
      /\ UNCHANGED <<status, handoff, agent, lock, tx, filing, filed, wish, row, handed, settled,
                     step, about, plan, failures>>
  BY ReplyParts DEF CompleteTask, RemoveTask, replies, runs, control
<1>2. ControlTypeOK' /\ TransactionsFit'
  BY <1>1, ControlKept, TransactionsKept DEF ReplyInv
<1>3. task' \in [Task -> TaskRow \union {NoRow}] /\ \A k : OpenTasks(k)' \subseteq OpenTasks(k)
  <2>1. task \in [Task -> TaskRow \union {NoRow}]
    BY <1>1 DEF FollowUpsTypeOK
  <2>2. CASE CompleteTask(t)
    <3>1. [task[t] EXCEPT !.status = "COMPLETED"] \in TaskRow
      BY <2>1, <2>2 DEF CompleteTask, TaskRow, NoRow
    <3>2. [task[t] EXCEPT !.status = "COMPLETED"].status = "COMPLETED"
      BY <2>1, <2>2 DEF CompleteTask, TaskRow, NoRow
    <3>3. QED
      BY <2>1, <2>2, <3>1, <3>2 DEF CompleteTask, OpenTasks
  <2>3. CASE RemoveTask(t)
    BY <2>1, <2>3 DEF RemoveTask, OpenTasks, NoRow
  <2>4. QED
    BY <2>2, <2>3
<1>4. RunsFit' /\ FilingsFit' /\ OneOpenTask'
  <2>1. RunsFit'
    BY <1>1 DEF ReplyInv, RunsFit
  <2>2. FilingsFit' /\ OneOpenTask'
    BY <1>1, <1>3 DEF ReplyInv, FilingsFit, OneOpenTask
  <2>3. QED
    BY <2>1, <2>2
<1>5. PlansFit' /\ RowsBacked'
  BY <1>1 DEF ReplyInv, PlansFit, Backing, Backed, RowsBacked, Rows
<1>6. AutoReplyTypeOK'
  BY <1>1, <1>2, <1>3 DEF AutoReplyTypeOK, FollowUpsTypeOK, TypeReplies, TypeRuns, Steps
<1>7. QED
  BY <1>2, <1>4, <1>5, <1>6 DEF ReplyInv

-------------------------------------------------------------------------------
(* The theorems.                                                                *)

LEMMA ReplyInit == Init => AutoReplyTypeOK /\ ReplyInv
<1>1. SUFFICES ASSUME Init PROVE AutoReplyTypeOK /\ ReplyInv
  OBVIOUS
<1>2. ControlTypeOK /\ \A a \in Actor : tx[a] = NoTx
  BY <1>1 DEF Init, ControlInit, ControlTypeOK, Transaction, NoTx
<1>3. FollowUpsTypeOK /\ OneOpenTask
  <2>1. \A k \in Earlier : NewTask(k, {}) \in TaskRow
    BY FollowUpsAssumption DEF NewTask, TaskRow, TaskKind
  <2>2. FollowUpsTypeOK
    BY <1>1, <2>1 DEF Init, FollowUpsInit, FollowUpsTypeOK
  <2>3. ASSUME NEW k \in TaskKind, NEW t \in OpenTasks(k), NEW u \in OpenTasks(k) PROVE t = u
    <3>1. k \in Earlier
      BY <1>1, <2>3 DEF Init, FollowUpsInit, OpenTasks, NewTask, NoRow
    <3>2. QED
      BY <1>1, <2>3, <3>1 DEF Init, FollowUpsInit
  <2>4. QED
    BY <2>2, <2>3 DEF OneOpenTask
<1>4. AutoReplyTypeOK
  BY <1>1, <1>2, <1>3, NoPlanFits, AutoReplyAssumption DEF Init, AutoReplyTypeOK
<1>5. TransactionsFit
  <2>1. LockHeld /\ ReadsHold
    BY <1>2, NoTxHolds DEF LockHeld, ReadsHold
  <2>2. OneIsInCharge
    BY <1>1 DEF Init, ControlInit, OneIsInCharge, OpenHandoffs, OpenStatus
  <2>3. QED
    BY <1>2, <2>1, <2>2 DEF TransactionsFit
<1>6. RunsFit /\ FilingsFit
  BY <1>1, <1>2, RunnerNames, NoTxHolds DEF Init, FollowUpsInit, RunsFit, FilingsFit
<1>7. PlansFit /\ RowsBacked
  BY <1>1 DEF Init, PlansFit, RowsBacked, Rows
<1>8. QED
  BY <1>3, <1>4, <1>5, <1>6, <1>7 DEF ReplyInv

LEMMA RunKeeps ==
  ASSUME AutoReplyTypeOK, ReplyInv, NEW w \in Worker, Run(w)
  PROVE  AutoReplyTypeOK' /\ ReplyInv'
<1>1. CASE \E m \in Inbound : StartRun(w, m)
  BY <1>1, StartRunKeeps
<1>2. CASE Transcribe(w) \/ Recover(w) \/ Check(w) \/ Decide(w) \/ Elsewhere(w) \/ Respond(w)
  BY <1>2, TranscribeKeeps, RecoverKeeps, CheckKeeps, DecideKeeps, ElsewhereKeeps, RespondKeeps
<1>3. CASE FileTask(w) \/ TaskFiled(w) \/ OpenHandoff(w) \/ HandoffOpened(w) \/ Interrupted(w)
  BY <1>3, FileTaskKeeps, TaskFiledKeeps, OpenHandoffKeeps, HandoffOpenedKeeps, InterruptedKeeps
<1>4. CASE NoHandoff(w) \/ BeforeSend(w) \/ Prepare(w) \/ Deliver(w)
  BY <1>4, NoHandoffKeeps, BeforeSendKeeps, PrepareKeeps, DeliverKeeps
<1>5. QED
  BY <1>1, <1>2, <1>3, <1>4 DEF Run

LEMMA ReplyNext == AutoReplyTypeOK /\ ReplyInv /\ [Next]_vars => AutoReplyTypeOK' /\ ReplyInv'
<1>1. SUFFICES ASSUME AutoReplyTypeOK, ReplyInv, [Next]_vars PROVE AutoReplyTypeOK' /\ ReplyInv'
  OBVIOUS
<1>2. CASE \E m \in Inbound : Arrive(m)
  BY <1>1, <1>2, ArriveKeeps
<1>3. CASE \E w \in Worker : Run(w)
  BY <1>1, <1>3, RunKeeps
<1>4. CASE (\E a \in Operator : Operate(a)) /\ UNCHANGED <<replies, runs>>
  BY <1>1, <1>4, OperateKeeps
<1>5. CASE (\E t \in Task : CompleteTask(t) \/ RemoveTask(t)) /\ UNCHANGED <<replies, runs>>
  BY <1>1, <1>5, TaskListKeeps
<1>6. CASE UNCHANGED vars
  <2>1. UNCHANGED <<control, followUps, replies, runs>>
    BY <1>6 DEF vars
  <2>2. UNCHANGED <<status, handoff, agent, lock, tx, task, filing, filed, wish, row, handed,
                    settled, step, about, plan, failures>>
    BY <2>1 DEF control, followUps, replies, runs
  <2>3. ControlTypeOK' /\ TransactionsFit'
    BY <1>1, <2>1, ReplyParts, ControlKept, TransactionsKept DEF ReplyInv
  <2>4. RunsFit' /\ FilingsFit' /\ OneOpenTask'
    BY <1>1, <2>2 DEF ReplyInv, RunsFit, FilingsFit, OneOpenTask, OpenTasks
  <2>5. PlansFit' /\ RowsBacked'
    BY <1>1, <2>2 DEF ReplyInv, PlansFit, Backing, Backed, RowsBacked, Rows
  <2>6. AutoReplyTypeOK'
    BY <1>1, <2>2, <2>3 DEF AutoReplyTypeOK, FollowUpsTypeOK
  <2>7. QED
    BY <2>3, <2>4, <2>5, <2>6 DEF ReplyInv
<1>7. QED
  BY <1>1, <1>2, <1>3, <1>4, <1>5, <1>6 DEF Next

\* Every variable of the worker's model keeps its type: a run has a message of the
\* customer, its plan files only tasks that exist, a row holds one reply or none.
THEOREM AutoReplyTypeCorrect == Spec => []AutoReplyTypeOK
BY ReplyInit, ReplyNext, PTL DEF Spec

\* The automation and the operators decide under one lock who answers, also while runs file
\* tasks and open handoffs with the callback they announce: an open handoff keeps the
\* conversation with humans (HandoffService.create, called by the worker).
THEOREM OneInChargeOfReplies == Spec => []OneIsInCharge
<1>1. ReplyInv => OneIsInCharge
  BY DEF ReplyInv, TransactionsFit
<1>2. QED
  BY <1>1, ReplyInit, ReplyNext, PTL DEF Spec

\* What a step of the worker, of an operator or of the task list does to the conversation.
LEMMA ReplyControlStep == [Next]_vars => ControlStep
<1>1. SUFFICES ASSUME [Next]_vars PROVE ControlStep
  OBVIOUS
<1>2. \A w \in Worker : w \in Automation
  BY RunnerNames
<1>3. CASE \E m \in Inbound : Arrive(m)
  BY <1>3 DEF Arrive, ControlStep
<1>4. ASSUME NEW w \in Worker, Run(w) PROVE ControlStep
  <2>1. CASE OpenHandoff(w) \/ HandoffOpened(w)
    BY <1>2, <2>1 DEF OpenHandoff, HandoffOpened, ControlStep
  <2>2. CASE FileTask(w) \/ TaskFiled(w) \/ Interrupted(w)
    <3>1. FilesUnderLock(w)
      BY <2>2 DEF FileTask, ReadTask, TaskFiled, WriteTask, TaskFails, Rollback, Interrupted,
           FilesUnderLock
    <3>2. QED
      BY <1>2, <3>1 DEF ControlStep
  <2>3. CASE \/ \E m \in Inbound : StartRun(w, m)
             \/ Transcribe(w) \/ Recover(w) \/ Check(w) \/ Decide(w) \/ Elsewhere(w) \/ Respond(w)
             \/ NoHandoff(w) \/ BeforeSend(w) \/ Prepare(w) \/ Deliver(w)
    <3>1. UNCHANGED control
      BY <2>3 DEF StartRun, Transcribe, Recover, Check, Decide, Elsewhere, Respond, NoHandoff,
           BeforeSend, Prepare, Deliver
    <3>2. QED
      BY <3>1 DEF ControlStep
  <2>4. QED
    BY <1>4, <2>1, <2>2, <2>3 DEF Run
<1>5. CASE \E a \in Operator : Operate(a)
  BY <1>5 DEF Operate, OperatorStep, ControlStep
<1>6. CASE \E t \in Task : CompleteTask(t) \/ RemoveTask(t)
  BY <1>6 DEF CompleteTask, RemoveTask, ControlStep
<1>7. CASE UNCHANGED vars
  BY <1>7 DEF vars, ControlStep
<1>8. QED
  BY <1>1, <1>3, <1>4, <1>5, <1>6, <1>7 DEF Next

\* The conversation that workers and operators share changes hands only as handoffs promise
\* (WhoAnswers): what a person has taken only that person gives back, and a handoff that a
\* worker opens is the team's until somebody takes it.  A refinement, step by step.
THEOREM RepliesKeepPromise == Spec => HolderAnswers
<1>1. Init => TakersFit /\ Promised!Init
  BY ControlInitHands DEF Init
<1>2. ReplyInv /\ TakersFit /\ [Next]_vars => TakersFit' /\ Keeps
  BY ReplyControlStep, ControlStepHands DEF ReplyInv
<1>3. Keeps => [Promised!Next]_(Promised!vars)
  BY DEF Keeps
<1>4. QED
  BY <1>1, <1>2, <1>3, ReplyInit, ReplyNext, PTL DEF Spec, HolderAnswers, Promised!Spec

\* Never two tasks of a kind wait for the team: whoever files (requestCallback, requestQuote,
\* requestHermesReview, the callback of a handoff) looks for the open one under the lock of
\* the conversation and still has it when it writes.
THEOREM OneTaskOpen == Spec => []OneOpenTask
<1>1. ReplyInv => OneOpenTask
  BY DEF ReplyInv
<1>2. QED
  BY <1>1, ReplyInit, ReplyNext, PTL DEF Spec

\* What a reply says to be under way was recorded before the reply was prepared: by the run
\* that prepared it, in the order in which handleTurn acts and answers, and for every
\* later run that only delivers what it finds.
THEOREM BackedPromises == Spec => []PromisesAreBacked
<1>1. AutoReplyTypeOK /\ ReplyInv => PromisesAreBacked
  BY DEF ReplyInv, RowsBacked, Backed, PromisesAreBacked
<1>2. QED
  BY <1>1, ReplyInit, ReplyNext, PTL DEF Spec

-------------------------------------------------------------------------------
(* The words of a reply: ReplyReview.  Stages of a text before and after the    *)
(* guard has read it.                                                           *)

Unread == {"generate", "infer", "proposal", "repair", "policy", "claims", "unrequested",
           "recommend", "renewal", "timeline", "final", "guard"}
Read == {"promise", "incident", "act", "done"}

\* The stages of one engine only.
EnginesFit ==
  /\ stage \in {"generate", "policy"} => engine = "gemini_direct"
  /\ stage \in {"infer", "proposal", "repair"} => engine = "nous_hermes"

\* From which stage on a text has no word of a kind: what a stage takes out, no later one
\* brings in again.
TermsFit ==
  /\ stage \in {"guard"} \union Read => text \intersect Refused = {}
  /\ stage \in {"recommend", "renewal", "timeline", "final", "guard"} \union Read =>
       Amounts(text) = {} \/ ask.price \/ ask.renewal
  /\ engine = "nous_hermes" /\ stage \notin {"infer", "proposal", "repair"} =>
       text \intersect {"date", "gift"} = {}
  /\ ask.timeline /\ stage \in {"final", "guard"} \union Read => "date" \notin text
  /\ engine = "gemini_direct" /\ stage \notin {"generate", "policy"} =>
       "meeting" \notin text \/ ask.meeting

PriceFits ==
  stage \in {"guard"} \union Read /\ ask.price /\ ask.offer = "published" =>
    Amounts(text) # {} \/ text \in {{"reviewed"}, {"retry"}}

\* What only an incident writes.
WordsFit ==
  /\ stage \in Unread => text \intersect {"reviewed", "retry"} = {}
  /\ stage # "done" => "filed" \notin text
  /\ stage \in {"promise", "incident"} => "reviewed" \notin text
  /\ text \intersect {"reviewed", "retry"} # {} => diagnostic # NoDiagnostic

\* A promise to come back does not outlive the guard: it is an incident.
PromisesFit ==
  /\ stage \in {"generate", "infer", "proposal", "repair"} => diagnostic = NoDiagnostic
  /\ stage \in Unread \union {"promise"} => diagnostic = NoDiagnostic \/ "promise" \notin text
  /\ stage = "incident" => diagnostic.review \/ "promise" \notin text
  /\ stage \in {"act", "done"} => "promise" \notin text

TasksFit ==
  /\ stage \in Unread \union {"promise", "incident"} => tasks = {} /\ ~escalated
  /\ stage = "act" =>
       /\ ~escalated
       /\ \/ tasks = {} /\ "reviewed" \notin text
          \/ tasks = {"GENERAL"} /\ "reviewed" \in text
  /\ PromisesAreRecorded

ReviewInv ==
  ReviewTypeOK /\ EnginesFit /\ TermsFit /\ PriceFits /\ WordsFit /\ PromisesFit /\ TasksFit

\* The words that a substitution may bring in.
LEMMA AskFits ==
  ASSUME ReviewTypeOK
  PROVE  /\ ask.price \in BOOLEAN /\ ask.timeline \in BOOLEAN /\ ask.market \in BOOLEAN
         /\ ask.renewal \in BOOLEAN /\ ask.meeting \in BOOLEAN /\ ask.extra \in BOOLEAN
         /\ ask.scope \in SUBSET {"wrongTerms"} /\ ask.offer \in {"none", "published", "quote"}
         /\ ask.question \in BOOLEAN /\ ask.plan \in BOOLEAN
         /\ ask.topic \in {"price", "timeline", "other"}
         /\ ask.market => ask.price /\ ask.offer = "none"
         /\ text \in SUBSET Clause
BY DEF ReviewTypeOK, Ask

LEMMA ReviewedFits ==
  ASSUME NEW t
  PROVE  /\ Reviewed(t) \intersect Refused = {} /\ Reviewed(t) # {}
         /\ Reviewed(t) \subseteq t \union {"market", "confirm"}
         /\ Reviewed(Reviewed(t)) = Reviewed(t)
<1>1. Reviewed(t) \intersect Refused = {} /\ Reviewed(t) # {}
      /\ Reviewed(t) \subseteq t \union {"market", "confirm"}
  BY DEF Reviewed, Refused
<1>2. Reviewed(t) \ Refused = Reviewed(t)
  BY <1>1
<1>3. Reviewed(Reviewed(t)) = Reviewed(t)
  BY <1>1, <1>2 DEF Reviewed
<1>4. QED
  BY <1>1, <1>3

LEMMA AnswerPriceFits ==
  ASSUME NEW t
  PROVE  /\ AnswerPrice(t) \subseteq t \union {"market", "valuation", "price"}
         /\ ~ask.price => AnswerPrice(t) = t
BY DEF AnswerPrice

LEMMA PriceIsThere ==
  ASSUME NEW t, ask.price, ask.offer = "published", ~ask.market, Reviewed(t) = t
  PROVE  Amounts(AnswerPrice(t)) # {}
BY DEF AnswerPrice, HasAuthorizedAmount, Amounts

LEMMA RecommendationFits ==
  ASSUME ReviewTypeOK
  PROVE  Recommendation \subseteq {"plan", "wrongTerms", "valuation"} /\ Recommendation # {}
BY AskFits DEF Recommendation

\* What takes the place of a refused text.
Safe == {"safe", "market", "valuation", "price", "deferral", "plan", "wrongTerms", "question"}

LEMMA FallbacksFit ==
  ASSUME ReviewTypeOK
  PROVE  /\ \A t \in StyleFallback : t \subseteq Safe
         /\ \A f \in PolicyFallback : f[1] \subseteq Safe /\ f[2] \in BOOLEAN
<1>1. AnswerPrice({}) \subseteq Safe
  BY AnswerPriceFits DEF Safe
<1>2. Recommendation \subseteq Safe
  BY RecommendationFits DEF Safe
<1>3. \A t \in StyleFallback : t \subseteq Safe
  BY <1>1 DEF StyleFallback, Safe
<1>4. ASSUME NEW f \in PolicyFallback
      PROVE  \E t, r : f = <<t, r>> /\ t \subseteq Safe /\ r \in BOOLEAN
  <2>1. CASE \E r \in BOOLEAN : f = <<{"safe"}, r>> \/ f = <<AnswerPrice({}), r>>
    BY <1>1, <2>1 DEF Safe
  <2>2. CASE f \in {<<{"deferral"}, TRUE>>, <<{"valuation"}, TRUE>>, <<Recommendation, FALSE>>,
                    <<{"question"}, FALSE>>}
    BY <1>2, <2>2 DEF Safe
  <2>3. QED
    BY <2>1, <2>2 DEF PolicyFallback
<1>5. QED
  BY <1>3, <1>4

LEMMA CandidatesFit == \A t \in Candidates : t \subseteq Written
BY DEF Candidates, Texts, kSubset

LEMMA WordSets ==
  /\ Safe \subseteq Clause /\ Written \subseteq Clause
  /\ "promise" \notin Safe /\ {"reviewed", "retry", "filed"} \intersect Safe = {}
  /\ {"reviewed", "retry", "filed"} \intersect Written = {}
BY DEF Safe, Clause, Written, Refused

\* A text that the Gemini engine hands to the policy.
LEMMA ToPolicyKeeps ==
  ASSUME ReviewInv, stage = "generate", NEW t, NEW d, ToPolicy(t, d),
         d \in [category : Category, review : BOOLEAN],
         t \subseteq Safe \/ (t \subseteq Written /\ d = NoDiagnostic)
  PROVE  ReviewInv'
<1>1. ReviewTypeOK' /\ EnginesFit'
  BY WordSets, ReviewAssumption DEF ReviewInv, ReviewTypeOK, ToPolicy, EnginesFit
<1>2. TermsFit' /\ PriceFits'
  BY DEF ReviewInv, EnginesFit, TermsFit, PriceFits, ToPolicy, Read
<1>3. WordsFit' /\ PromisesFit'
  BY WordSets DEF WordsFit, PromisesFit, ToPolicy
<1>4. TasksFit'
  BY DEF ReviewInv, TasksFit, PromisesAreRecorded, ToPolicy, Unread
<1>5. QED
  BY <1>1, <1>2, <1>3, <1>4 DEF ReviewInv

LEMMA AttemptKeeps == ASSUME ReviewInv, Repair \/ Attempt PROVE ReviewInv'
<1>1. /\ stage = "generate" /\ ReviewTypeOK /\ {"safe"} \subseteq Safe
      /\ NoDiagnostic \in [category : Category, review : BOOLEAN]
      /\ Diagnose("PROVIDER_ERROR", TRUE) \in [category : Category, review : BOOLEAN]
      /\ \A r \in BOOLEAN :
           Diagnose("POLICY_VIOLATION", r) \in [category : Category, review : BOOLEAN]
  BY DEF Repair, Attempt, NoDiagnostic, Diagnose, Category, ReviewInv, Safe
<1>2. CASE ToPolicy({"safe"}, NoDiagnostic) \/ ToPolicy({"safe"}, Diagnose("PROVIDER_ERROR", TRUE))
  BY <1>1, <1>2, ToPolicyKeeps
<1>3. CASE \E t \in StyleFallback : ToPolicy(t, NoDiagnostic)
  BY <1>1, <1>3, ToPolicyKeeps, FallbacksFit
<1>4. CASE \E f \in PolicyFallback : ToPolicy(f[1], Diagnose("POLICY_VIOLATION", f[2]))
  BY <1>1, <1>4, ToPolicyKeeps, FallbacksFit
<1>5. CASE \E t \in Candidates : ToPolicy(t, NoDiagnostic)
  BY <1>1, <1>5, ToPolicyKeeps, CandidatesFit
<1>6. CASE /\ attempt < MaxAttempts /\ attempt' = attempt + 1
           /\ UNCHANGED <<engine, ask, text, diagnostic, proposal, tasks, escalated, stage>>
  <2>1. attempt' \in 0..MaxAttempts
    BY <1>1, <1>6, ReviewAssumption DEF ReviewTypeOK
  <2>2. ReviewTypeOK'
    BY <1>1, <1>6, <2>1 DEF ReviewTypeOK
  <2>3. QED
    BY <1>6, <2>2 DEF ReviewInv, EnginesFit, TermsFit, PriceFits, WordsFit, PromisesFit, TasksFit,
                      PromisesAreRecorded, Amounts
<1>7. QED
  BY <1>2, <1>3, <1>4, <1>5, <1>6 DEF Repair, Attempt

LEMMA EnforcePolicyKeeps == ASSUME ReviewInv, EnforcePolicy PROVE ReviewInv'
<1>1. /\ stage = "policy" /\ engine = "gemini_direct" /\ ReviewTypeOK /\ stage' = "claims"
      /\ UNCHANGED <<engine, ask, diagnostic, proposal, tasks, escalated, attempt>>
  BY DEF EnforcePolicy, ReviewInv, EnginesFit
<1>2. /\ text' \subseteq text \union {"safe", "question"}
      /\ "meeting" \in text' => ask.meeting
  BY DEF EnforcePolicy
<1>3. ReviewTypeOK'
  BY <1>1, <1>2 DEF ReviewTypeOK, Clause, Written
<1>4. EnginesFit' /\ TermsFit' /\ PriceFits'
  BY <1>1, <1>2 DEF EnginesFit, TermsFit, PriceFits, Read
<1>5. WordsFit' /\ PromisesFit'
  BY <1>1, <1>2 DEF ReviewInv, WordsFit, PromisesFit, Unread
<1>6. TasksFit'
  BY <1>1 DEF ReviewInv, TasksFit, PromisesAreRecorded, Unread
<1>7. QED
  BY <1>3, <1>4, <1>5, <1>6 DEF ReviewInv

\* The Nous engine, up to the reviews that both engines share.
LEMMA NousKeeps ==
  ASSUME ReviewInv, InferenceFails \/ Infer \/ ReviewProposal \/ RepairClaims PROVE ReviewInv'
<1>1. /\ stage \in {"infer", "proposal", "repair"} /\ engine = "nous_hermes" /\ ReviewTypeOK
      /\ stage' \in {"proposal", "repair", "claims"}
      /\ UNCHANGED <<engine, ask, tasks, escalated, attempt>>
      /\ tasks = {} /\ ~escalated
  BY DEF InferenceFails, Infer, ReviewProposal, RepairClaims, ReviewInv, EnginesFit, TasksFit, Unread
<1>0. /\ text \in SUBSET Clause /\ text \intersect {"reviewed", "retry", "filed"} = {}
      /\ "safe" \in Clause /\ "valuation" \in Clause
  BY <1>1 DEF ReviewTypeOK, ReviewInv, WordsFit, Unread, Clause, Written
<1>2. text' \in SUBSET Clause /\ proposal' \in BOOLEAN
      /\ diagnostic' \in [category : Category, review : BOOLEAN]
      /\ text' \intersect {"reviewed", "retry", "filed"} = {}
  <2>1. CASE InferenceFails
    BY <1>1, <2>1 DEF InferenceFails, ReviewTypeOK, Clause, Written, Diagnose, Category
  <2>2. CASE Infer
    BY <1>1, <2>2, CandidatesFit, WordSets DEF Infer, ReviewTypeOK
  <2>3. CASE ReviewProposal
    <3>1. text' \subseteq text \union {"safe"} /\ UNCHANGED diagnostic
      BY <2>3 DEF ReviewProposal
    <3>2. proposal' \in BOOLEAN
      BY <1>1, <2>3 DEF ReviewProposal, ReviewTypeOK
    <3>3. QED
      BY <1>1, <1>0, <3>1, <3>2 DEF ReviewTypeOK
  <2>4. CASE RepairClaims
    <3>1. text' \subseteq text \union {"valuation"} /\ UNCHANGED <<diagnostic, proposal>>
      BY <2>4 DEF RepairClaims
    <3>2. QED
      BY <1>1, <1>0, <3>1 DEF ReviewTypeOK
  <2>5. QED
    BY <2>1, <2>2, <2>3, <2>4
<1>3. /\ stage' = "claims" => text' \intersect {"date", "gift"} = {}
      /\ diagnostic' # NoDiagnostic => stage' = "claims" /\ "promise" \notin text'
  BY <1>1 DEF InferenceFails, Infer, ReviewProposal, RepairClaims, ReviewInv, PromisesFit, Unread
<1>4. ReviewTypeOK'
  BY <1>1, <1>2 DEF ReviewTypeOK
<1>5. EnginesFit' /\ TermsFit' /\ PriceFits'
  BY <1>1, <1>3 DEF EnginesFit, TermsFit, PriceFits, Read,
                    InferenceFails, Infer, ReviewProposal, RepairClaims
<1>6. WordsFit' /\ PromisesFit' /\ TasksFit'
  BY <1>1, <1>2, <1>3 DEF WordsFit, PromisesFit, TasksFit, PromisesAreRecorded
<1>7. QED
  BY <1>4, <1>5, <1>6 DEF ReviewInv

\* A substitution of processTurn: what it brings in, and what it must have seen to.
Substituted == {"market", "confirm", "valuation", "price", "renewalPrice", "plan", "wrongTerms",
                "question", "days", "safe"}

Reviews == {"claims", "unrequested", "recommend", "renewal", "timeline", "final"}

LEMMA ToKeeps ==
  ASSUME ReviewInv, stage \in Reviews, NEW next \in (Reviews \ {"claims"}) \union {"guard"},
         NEW t, To(next, t), t \subseteq text \union Substituted,
         next # "unrequested" => Amounts(t) = {} \/ ask.price \/ ask.renewal,
         next \in {"final", "guard"} /\ ask.timeline => "date" \notin t,
         next = "guard" => t \intersect Refused = {},
         next = "guard" /\ ask.price /\ ask.offer = "published" => Amounts(t) # {}
  PROVE  ReviewInv'
<1>1. /\ text' = t /\ stage' = next
      /\ UNCHANGED <<engine, ask, diagnostic, proposal, tasks, escalated, attempt>>
  BY DEF To
<1>2. /\ stage' \in {"unrequested", "recommend", "renewal", "timeline", "final", "guard"}
      /\ stage \in Unread /\ stage' \in Unread
      /\ stage \notin {"generate", "policy", "infer", "proposal", "repair", "done"}
  BY <1>1 DEF Reviews, Unread
<1>3. /\ text \in SUBSET Clause /\ text \intersect {"reviewed", "retry", "filed"} = {}
      /\ engine = "nous_hermes" => text \intersect {"date", "gift"} = {}
      /\ engine = "gemini_direct" => "meeting" \notin text \/ ask.meeting
      /\ diagnostic = NoDiagnostic \/ "promise" \notin text
      /\ tasks = {} /\ ~escalated /\ ReviewTypeOK
  BY <1>2 DEF ReviewInv, ReviewTypeOK, WordsFit, TermsFit, PromisesFit, TasksFit
<1>4. /\ Substituted \subseteq Clause
      /\ Substituted \intersect {"reviewed", "retry", "filed", "date", "gift", "meeting",
                                 "promise"} = {}
  BY DEF Substituted, Clause, Written, Refused
<1>5. ReviewTypeOK'
  BY <1>1, <1>2, <1>3, <1>4 DEF ReviewTypeOK
<1>6. EnginesFit'
  BY <1>2 DEF EnginesFit
<1>7. TermsFit'
  <2>1. /\ stage' = "guard" => text' \intersect Refused = {}
        /\ stage' # "unrequested" => Amounts(text') = {} \/ ask'.price \/ ask'.renewal
        /\ stage' \in {"final", "guard"} /\ ask'.timeline => "date" \notin text'
    BY <1>1
  <2>2. /\ engine' = "nous_hermes" => text' \intersect {"date", "gift"} = {}
        /\ engine' = "gemini_direct" => "meeting" \notin text' \/ ask'.meeting
    BY <1>1, <1>3, <1>4
  <2>3. QED
    BY <1>2, <2>1, <2>2 DEF TermsFit, Read, Amounts
<1>8. PriceFits'
  BY <1>1, <1>2 DEF PriceFits, Read, Amounts
<1>9. WordsFit' /\ PromisesFit'
  BY <1>1, <1>2, <1>3, <1>4 DEF WordsFit, PromisesFit
<1>10. TasksFit'
  BY <1>1, <1>2, <1>3 DEF TasksFit, PromisesAreRecorded
<1>11. QED
  BY <1>5, <1>6, <1>7, <1>8, <1>9, <1>10 DEF ReviewInv

LEMMA ReviewClaimsKeeps == ASSUME ReviewInv, ReviewClaims PROVE ReviewInv'
<1>1. AnswerPrice(Reviewed(text)) \subseteq text \union Substituted
  BY ReviewedFits, AnswerPriceFits DEF Substituted
<1>2. QED
  BY <1>1, ToKeeps DEF ReviewClaims, Reviews

LEMMA RemoveUnrequestedPriceKeeps ==
  ASSUME ReviewInv, RemoveUnrequestedPrice PROVE ReviewInv'
<1> DEFINE t == IF ask.price \/ ask.renewal \/ Amounts(text) = {} THEN text
                ELSE IF ask.offer # "none" THEN Recommendation ELSE {"question"}
<1>1. To("recommend", t) /\ stage = "unrequested"
  BY DEF RemoveUnrequestedPrice
<1>2. \/ t = text /\ (Amounts(text) = {} \/ ask.price \/ ask.renewal)
      \/ t = Recommendation \/ t = {"question"}
  OBVIOUS
<1> HIDE DEF t
<1>3. Recommendation \subseteq {"plan", "wrongTerms", "valuation"}
  BY RecommendationFits DEF ReviewInv
<1>4. t \subseteq text \union Substituted
  BY <1>2, <1>3 DEF Substituted
<1>5. Amounts(t) = {} \/ ask.price \/ ask.renewal
  BY <1>2, <1>3 DEF Amounts
<1>6. QED
  BY <1>1, <1>4, <1>5, ToKeeps DEF Reviews

LEMMA RecommendKeeps == ASSUME ReviewInv, Recommend PROVE ReviewInv'
<1>1. PICK t : To("renewal", t) /\ t \subseteq text \union {"valuation"} \union Recommendation
  BY DEF Recommend
<1>2. Recommendation \subseteq {"plan", "wrongTerms", "valuation"}
  BY RecommendationFits DEF ReviewInv
<1>3. t \subseteq text \union Substituted
  BY <1>1, <1>2 DEF Substituted
<1>4. Amounts(t) \subseteq Amounts(text)
  BY <1>1, <1>2 DEF Amounts
<1>5. Amounts(text) = {} \/ ask.price \/ ask.renewal
  BY DEF Recommend, ReviewInv, TermsFit
<1>6. QED
  BY <1>1, <1>3, <1>4, <1>5, ToKeeps DEF Recommend, Reviews

LEMMA AddRenewalKeeps == ASSUME ReviewInv, AddRenewal PROVE ReviewInv'
<1>1. PICK t : To("timeline", t) /\ t \subseteq text \union {"renewalPrice"}
               /\ (t = text \/ ask.renewal)
  BY DEF AddRenewal
<1>2. t \subseteq text \union Substituted
  BY <1>1 DEF Substituted
<1>3. Amounts(text) = {} \/ ask.price \/ ask.renewal
  BY DEF AddRenewal, ReviewInv, TermsFit
<1>4. QED
  BY <1>1, <1>2, <1>3, ToKeeps DEF AddRenewal, Reviews

LEMMA AnswerTimelineKeeps == ASSUME ReviewInv, AnswerTimeline PROVE ReviewInv'
<1>0. PICK days \in SUBSET {"days"} :
        LET t == IF ask.timeline THEN (text \ {"date", "days"}) \union days ELSE text
        IN To("final", IF t = {} THEN {"safe"} ELSE t)
  BY DEF AnswerTimeline
<1> DEFINE u == IF ask.timeline THEN (text \ {"date", "days"}) \union days ELSE text
           t == IF u = {} THEN {"safe"} ELSE u
<1>1. /\ To("final", t) /\ t \subseteq text \union {"days", "safe"}
      /\ (ask.timeline => "date" \notin t)
  BY <1>0
<1> HIDE DEF t
<1>2. t \subseteq text \union Substituted
  BY <1>1 DEF Substituted
<1>3. Amounts(text) = {} \/ ask.price \/ ask.renewal
  BY DEF AnswerTimeline, ReviewInv, TermsFit
<1>4. Amounts(t) \subseteq Amounts(text)
  BY <1>1 DEF Amounts
<1>5. QED
  BY <1>1, <1>2, <1>3, <1>4, ToKeeps DEF AnswerTimeline, Reviews

LEMMA FinalReviewKeeps == ASSUME ReviewInv, FinalReview PROVE ReviewInv'
<1> DEFINE r == Reviewed(text)
           a == AnswerPrice(r)
           t == IF ask.timeline /\ "days" \notin a THEN a \union {"valuation"} ELSE a
<1>1. To("guard", t) /\ stage = "final" /\ ReviewTypeOK
  BY DEF FinalReview, ReviewInv
<1>2. /\ r \intersect Refused = {} /\ r \subseteq text \union {"market", "confirm"}
      /\ Reviewed(r) = r
  BY ReviewedFits
<1>3. a \subseteq r \union {"market", "valuation", "price"} /\ (~ask.price => a = r)
  BY AnswerPriceFits
<1>4. ask.price /\ ask.offer = "published" => Amounts(a) # {}
  BY <1>1, <1>2, PriceIsThere, AskFits
<1> HIDE DEF r, a
<1>5. a \subseteq t /\ t \subseteq a \union {"valuation"}
  OBVIOUS
<1> HIDE DEF t
<1>6. t \subseteq text \union Substituted
  BY <1>2, <1>3, <1>5 DEF Substituted
<1>7. t \intersect Refused = {}
  BY <1>2, <1>3, <1>5 DEF Refused
<1>8. ask.price /\ ask.offer = "published" => Amounts(t) # {}
  BY <1>4, <1>5 DEF Amounts
<1>9. (Amounts(text) = {} \/ ask.price \/ ask.renewal) /\ (ask.timeline => "date" \notin text)
  BY <1>1 DEF ReviewInv, TermsFit
<1>10. Amounts(t) = {} \/ ask.price \/ ask.renewal
  BY <1>2, <1>3, <1>5, <1>9 DEF Amounts
<1>11. ask.timeline => "date" \notin t
  BY <1>2, <1>3, <1>5, <1>9
<1>12. QED
  BY <1>1, <1>6, <1>7, <1>8, <1>10, <1>11, ToKeeps DEF Reviews

-------------------------------------------------------------------------------
(* The guard, the incident and the actions.                                     *)

LEMMA DiagnosesFit ==
  /\ NoDiagnostic \in [category : Category, review : BOOLEAN]
  /\ \A c \in Category, r \in BOOLEAN : Diagnose(c, r) \in [category : Category, review : BOOLEAN]
  /\ "OUTPUT_BLOCKED" \in Category /\ "CONTEXT_ERROR" \in Category
BY DEF NoDiagnostic, Diagnose, Category

LEMMA GuardKeeps == ASSUME ReviewInv, Guard PROVE ReviewInv'
<1>1. /\ stage = "guard" /\ stage' = "promise" /\ ReviewTypeOK
      /\ UNCHANGED <<engine, ask, proposal, tasks, escalated, attempt>>
      /\ \/ text' = {"retry"} /\ diagnostic' = Diagnose("OUTPUT_BLOCKED", FALSE)
         \/ UNCHANGED <<text, diagnostic>>
  BY DEF Guard, ReviewInv
<1>2. ReviewTypeOK' /\ EnginesFit'
  <2>1. text' \in SUBSET Clause /\ diagnostic' \in [category : Category, review : BOOLEAN]
    BY <1>1, DiagnosesFit DEF ReviewTypeOK, Clause
  <2>2. QED
    BY <1>1, <2>1 DEF ReviewTypeOK, EnginesFit
<1>3. CASE text' = {"retry"} /\ diagnostic' = Diagnose("OUTPUT_BLOCKED", FALSE)
  <2>1. diagnostic' # NoDiagnostic
    BY <1>3 DEF Diagnose, NoDiagnostic
  <2>2. QED
    BY <1>1, <1>2, <1>3, <2>1
       DEF ReviewInv, TermsFit, PriceFits, WordsFit, PromisesFit, TasksFit, PromisesAreRecorded,
           Amounts, Refused, Unread, Read
<1>4. CASE UNCHANGED <<text, diagnostic>>
  BY <1>1, <1>2, <1>4
     DEF ReviewInv, TermsFit, PriceFits, WordsFit, PromisesFit, TasksFit, PromisesAreRecorded,
         Amounts, Refused, Unread, Read
<1>5. QED
  BY <1>1, <1>3, <1>4

LEMMA CheckPromiseKeeps == ASSUME ReviewInv, CheckPromise PROVE ReviewInv'
<1>1. /\ stage = "promise" /\ stage' = "incident" /\ ReviewTypeOK
      /\ UNCHANGED <<engine, ask, text, proposal, tasks, escalated, attempt>>
      /\ \/ /\ diagnostic = NoDiagnostic /\ "promise" \in text
            /\ diagnostic' = Diagnose("CONTEXT_ERROR", TRUE)
         \/ UNCHANGED diagnostic /\ (diagnostic # NoDiagnostic \/ "promise" \notin text)
  BY DEF CheckPromise, ReviewInv
<1>2. ReviewTypeOK' /\ EnginesFit'
  <2>1. diagnostic' \in [category : Category, review : BOOLEAN]
    BY <1>1, DiagnosesFit DEF ReviewTypeOK
  <2>2. QED
    BY <1>1, <2>1 DEF ReviewTypeOK, EnginesFit
<1>3. TermsFit' /\ PriceFits'
  BY <1>1 DEF ReviewInv, TermsFit, PriceFits, Amounts, Read
<1>4. WordsFit'
  BY <1>1 DEF ReviewInv, WordsFit, Diagnose, NoDiagnostic, Unread
<1>5. PromisesFit'
  BY <1>1 DEF ReviewInv, PromisesFit, Diagnose, Unread
<1>6. TasksFit'
  BY <1>1 DEF ReviewInv, TasksFit, PromisesAreRecorded, Unread
<1>7. QED
  BY <1>2, <1>3, <1>4, <1>5, <1>6 DEF ReviewInv

LEMMA IncidentKeeps == ASSUME ReviewInv, Incident PROVE ReviewInv'
<1>1. /\ stage = "incident" /\ stage' = "act" /\ ReviewTypeOK
      /\ UNCHANGED <<engine, ask, diagnostic, proposal, escalated, attempt>>
      /\ tasks = {} /\ ~escalated /\ "reviewed" \notin text /\ "filed" \notin text
      /\ \/ diagnostic.review /\ tasks' = {"GENERAL"} /\ text' = {"reviewed"}
         \/ diagnostic.review /\ text' = {"retry"} /\ UNCHANGED tasks
         \/ ~diagnostic.review /\ UNCHANGED <<tasks, text>>
  BY DEF Incident, ReviewInv, TasksFit, WordsFit
<1>2. diagnostic.review => diagnostic # NoDiagnostic
  BY DEF NoDiagnostic
<1>3. ReviewTypeOK' /\ EnginesFit'
  BY <1>1 DEF ReviewTypeOK, Clause, EnginesFit
<1>4. TermsFit' /\ PriceFits'
  BY <1>1 DEF ReviewInv, TermsFit, PriceFits, Amounts, Refused, Read
<1>5. WordsFit' /\ PromisesFit'
  BY <1>1, <1>2 DEF ReviewInv, WordsFit, PromisesFit, Unread
<1>6. TasksFit'
  BY <1>1 DEF ReviewInv, TasksFit, PromisesAreRecorded, Unread
<1>7. QED
  BY <1>3, <1>4, <1>5, <1>6 DEF ReviewInv

LEMMA ActKeeps == ASSUME ReviewInv, Act PROVE ReviewInv'
<1>1. /\ stage = "act" /\ stage' = "done" /\ ReviewTypeOK
      /\ UNCHANGED <<engine, ask, diagnostic, proposal, attempt>>
      /\ ~escalated /\ "filed" \notin text /\ "promise" \notin text
      /\ \/ tasks = {} /\ "reviewed" \notin text
         \/ tasks = {"GENERAL"} /\ "reviewed" \in text
      /\ text \intersect {"reviewed", "retry"} # {} => diagnostic # NoDiagnostic
  BY DEF Act, ReviewInv, TasksFit, WordsFit, PromisesFit
<1>2. CASE diagnostic # NoDiagnostic /\ UNCHANGED <<tasks, escalated, text>>
  BY <1>1, <1>2
     DEF ReviewInv, ReviewTypeOK, EnginesFit, TermsFit, PriceFits, WordsFit, PromisesFit, TasksFit,
         PromisesAreRecorded, Amounts, Unread, Read
<1>3. CASE /\ diagnostic = NoDiagnostic
           /\ \/ text' = text /\ tasks' \in {{}, {"CALLBACK"}, {"QUOTE"}}
              \/ text' = text \union {"filed"} /\ tasks' = {"QUOTE"}
           /\ escalated' \in BOOLEAN /\ (escalated' => "CALLBACK" \notin tasks')
  <2>1. ReviewTypeOK' /\ EnginesFit'
    BY <1>1, <1>3 DEF ReviewTypeOK, Clause, EnginesFit
  <2>2. TermsFit' /\ PriceFits'
    <3>1. /\ text' \subseteq text \union {"filed"} /\ text \subseteq text'
          /\ Amounts(text') = Amounts(text) /\ text' \intersect Refused = text \intersect Refused
      BY <1>3 DEF Amounts, Refused
    <3>2. text \notin {{"reviewed"}, {"retry"}}
      BY <1>1, <1>3
    <3>3. TermsFit'
      BY <1>1, <3>1 DEF ReviewInv, TermsFit, Read, Amounts
    <3>4. PriceFits'
      BY <1>1, <3>1, <3>2 DEF ReviewInv, PriceFits, Read, Amounts
    <3>5. QED
      BY <3>3, <3>4
  <2>3. WordsFit' /\ PromisesFit'
    BY <1>1, <1>3 DEF WordsFit, PromisesFit, Unread
  <2>4. TasksFit'
    BY <1>1, <1>3 DEF TasksFit, PromisesAreRecorded, Unread
  <2>5. QED
    BY <2>1, <2>2, <2>3, <2>4 DEF ReviewInv
<1>4. CASE /\ diagnostic = NoDiagnostic /\ engine = "nous_hermes"
           /\ IF proposal
              THEN \/ tasks' \in {{"CALLBACK"}, {"QUOTE"}} /\ UNCHANGED escalated
                   \/ escalated' = TRUE /\ UNCHANGED tasks
              ELSE UNCHANGED <<tasks, escalated>>
           /\ UNCHANGED text
  <2>1. tasks = {} /\ escalated \in BOOLEAN
    BY <1>1, <1>4 DEF WordsFit, ReviewInv, ReviewTypeOK
  <2>2. QED
    BY <1>1, <1>3, <1>4, <2>1
<1>5. CASE /\ diagnostic = NoDiagnostic
           /\ tasks' \in {{}, {"QUOTE"}}
           /\ text' = IF tasks' = {"QUOTE"} THEN text \union {"filed"} ELSE text
           /\ escalated' \in BOOLEAN
  BY <1>3, <1>5
<1>6. QED
  BY <1>2, <1>4, <1>5 DEF Act

-------------------------------------------------------------------------------

LEMMA ReviewStarts == ReviewInit => ReviewInv
<1>1. SUFFICES ASSUME ReviewInit PROVE ReviewInv
  OBVIOUS
<1>2. /\ text = {} /\ tasks = {} /\ ~escalated /\ diagnostic = NoDiagnostic
      /\ stage \in {"infer", "generate"}
      /\ engine = IF stage = "infer" THEN "nous_hermes" ELSE "gemini_direct"
  BY <1>1 DEF ReviewInit
<1>3. ReviewTypeOK
  <2>1. diagnostic \in [category : Category, review : BOOLEAN]
    BY <1>2, DiagnosesFit
  <2>2. attempt \in 0..MaxAttempts
    BY <1>1, ReviewAssumption DEF ReviewInit
  <2>3. /\ engine \in {"gemini_direct", "nous_hermes"} /\ ask \in Ask /\ proposal \in BOOLEAN
        /\ escalated \in BOOLEAN
    BY <1>1 DEF ReviewInit
  <2>4. QED
    BY <1>2, <2>1, <2>2, <2>3 DEF ReviewTypeOK
<1>4. EnginesFit /\ TermsFit /\ PriceFits
  BY <1>2 DEF EnginesFit, TermsFit, PriceFits, Read
<1>5. WordsFit /\ PromisesFit /\ TasksFit
  BY <1>2 DEF WordsFit, PromisesFit, TasksFit, PromisesAreRecorded
<1>6. QED
  BY <1>3, <1>4, <1>5 DEF ReviewInv

LEMMA ReviewGoesOn == ReviewInv /\ [ReviewNext]_reviewVars => ReviewInv'
<1>1. SUFFICES ASSUME ReviewInv, [ReviewNext]_reviewVars PROVE ReviewInv'
  OBVIOUS
<1>2. CASE Repair \/ Attempt \/ EnforcePolicy
  BY <1>1, <1>2, AttemptKeeps, EnforcePolicyKeeps
<1>3. CASE InferenceFails \/ Infer \/ ReviewProposal \/ RepairClaims
  BY <1>1, <1>3, NousKeeps
<1>4. CASE ReviewClaims \/ RemoveUnrequestedPrice \/ Recommend \/ AddRenewal \/ AnswerTimeline
           \/ FinalReview
  BY <1>1, <1>4, ReviewClaimsKeeps, RemoveUnrequestedPriceKeeps, RecommendKeeps, AddRenewalKeeps,
     AnswerTimelineKeeps, FinalReviewKeeps
<1>5. CASE Guard \/ CheckPromise \/ Incident \/ Act
  BY <1>1, <1>5, GuardKeeps, CheckPromiseKeeps, IncidentKeeps, ActKeeps
<1>6. CASE UNCHANGED reviewVars
  BY <1>1, <1>6
     DEF reviewVars, ReviewInv, ReviewTypeOK, EnginesFit, TermsFit, PriceFits, WordsFit,
         PromisesFit, TasksFit, PromisesAreRecorded, Amounts
<1>7. QED
  BY <1>1, <1>2, <1>3, <1>4, <1>5, <1>6 DEF ReviewNext

\* Every variable of the review keeps its type.
THEOREM ReviewTypeCorrect == ReviewSpec => []ReviewTypeOK
<1>1. ReviewInv => ReviewTypeOK
  BY DEF ReviewInv
<1>2. QED
  BY <1>1, ReviewStarts, ReviewGoesOn, PTL DEF ReviewSpec

\* What a model writes may contain any clause, any number of them; what the customer reads
\* has no amount and no condition that the CRM does not back, and no amount, date, gift or
\* meeting outside the cases in which the engine in charge is allowed one
\* (reviewCommercialClaims, enforceResponsePolicy, repairNousCommercialClaims).
THEOREM AuthorizedTerms == ReviewSpec => []OnlyAuthorizedTerms
<1>1. ReviewInv => OnlyAuthorizedTerms
  <2>1. SUFFICES ASSUME ReviewInv, stage = "done"
                 PROVE  /\ text \intersect Refused = {}
                        /\ Amounts(text) # {} => ask.price \/ ask.renewal
                        /\ "date" \in text => engine = "gemini_direct" /\ ~ask.timeline
                        /\ "gift" \in text => engine = "gemini_direct"
                        /\ "meeting" \in text => ask.meeting \/ engine = "nous_hermes"
    BY DEF OnlyAuthorizedTerms
  <2>2. QED
    BY <2>1 DEF ReviewInv, TermsFit, ReviewTypeOK, Read
<1>2. QED
  BY <1>1, ReviewStarts, ReviewGoesOn, PTL DEF ReviewSpec

\* The customer who asks for a published price reads an amount, whatever the model wrote and
\* whatever the substitutions did to it (answerExplicitPriceIfMissing, the last review of
\* processTurn), unless an incident replaced the text.
THEOREM PriceAnswered == ReviewSpec => []PriceIsAnswered
<1>1. ReviewInv => PriceIsAnswered
  BY DEF ReviewInv, PriceFits, PriceIsAnswered, Read
<1>2. QED
  BY <1>1, ReviewStarts, ReviewGoesOn, PTL DEF ReviewSpec

\* No text promises what was not recorded: a promise of the model becomes an incident, and
\* the words of the code about a task are written only when it was filed.
THEOREM PromisesRecorded == ReviewSpec => []PromisesAreRecorded
<1>1. ReviewInv => PromisesAreRecorded
  BY DEF ReviewInv, TasksFit
<1>2. QED
  BY <1>1, ReviewStarts, ReviewGoesOn, PTL DEF ReviewSpec
================================================================================
