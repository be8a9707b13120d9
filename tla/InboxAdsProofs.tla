----------------------------- MODULE InboxAdsProofs -----------------------------
(* Machine-checked proofs about the two rows that a scan keeps bringing back:   *)
(* WebhookInbox with, in its composition, ConversationControl, for any number   *)
(* of events, scans, operators, users, handoffs and failures; and               *)
(* AdvertisingOutbox, for any number of milestones, touches, accounts, actions, *)
(* preparers, changes and troubles.                                             *)
EXTENDS WebhookInbox, AdvertisingOutbox, ConversationControlProofs, FiniteSetTheorems,
        WellFoundedInduction, TLAPS

-----------------------------------------------------------------------------
(* Type correctness: the conversation, the inbox and the scans apart.       *)

TypeInbox ==
  /\ inbox \in [Event -> {"absent", "PENDING", "PROCESSING", "COMPLETED", "FAILED"}]
  /\ outcome \in [Event -> {"none", "done", "processing_error", "attribution_retry"}]
  /\ token \in [Event -> Scan \union {None}]
  /\ lease \in [Event -> {"running", "over"}]
  /\ message \in [Event -> BOOLEAN]
  /\ routed \in [Event -> BOOLEAN]

Statements == {"idle", "loop", "lookup", "conversation", "resume", "message",
               "attribution", "proof", "reread", "route", "handoff", "opening",
               "notice", "settle"}

TypeScans ==
  /\ contactLock \in Scan \union {None}
  /\ pc \in [Scan -> Statements]
  /\ batch \in [Scan -> SUBSET Row]
  /\ job \in [Scan -> Job]
  /\ failures \in 0..MaxFailures

LEMMA TypeParts == InboxTypeOK <=> ControlTypeOK /\ TypeInbox /\ TypeScans
BY DEF InboxTypeOK, TypeInbox, TypeScans, Statements

\* A set of naturals that is not empty has a least member.
LEMMA LeastOf ==
  ASSUME NEW S, S \subseteq Nat, S # {}
  PROVE  \E x \in S : \A y \in S : x <= y
<1> DEFINE T == {0..x : x \in S}
<1>1. T \subseteq FiniteSubsetsOf(Nat) /\ T # {}
  <2>1. ASSUME NEW x \in S PROVE 0..x \in FiniteSubsetsOf(Nat)
    <3>1. IsFiniteSet(0..x)
      BY FS_Interval
    <3>2. 0..x \subseteq Nat
      OBVIOUS
    <3>3. QED
      BY <3>1, <3>2 DEF FiniteSubsetsOf
  <2>2. QED
    BY <2>1
<1>2. PICK I \in T : \A J \in T : ~(<<J, I>> \in StrictSubsetOrdering(Nat))
  <2>1. IsWellFoundedOn(StrictSubsetOrdering(Nat), FiniteSubsetsOf(Nat))
    BY FS_StrictSubsetOrderingWellFounded
  <2> HIDE DEF T
  <2>2. QED
    BY <1>1, <2>1, WFMin
<1>3. PICK x \in S : I = 0..x
  OBVIOUS
<1>4. \A y \in S : ~(y < x)
  <2>1. SUFFICES ASSUME NEW y \in S, y < x PROVE FALSE
    OBVIOUS
  <2>2. 0..y \subseteq 0..x /\ x \in 0..x /\ x \notin 0..y
    BY <2>1
  <2>3. 0..y \in T /\ 0..y \in SUBSET Nat /\ 0..x \in SUBSET Nat
    OBVIOUS
  <2>4. QED
    BY <1>2, <1>3, <2>2, <2>3 DEF StrictSubsetOrdering
<1>5. QED
  BY <1>4

\* The next row of a batch that is not empty is one of it, with the smallest event.
LEMMA NextRowFits ==
  ASSUME TypeScans, NEW s \in Scan, batch[s] # {}
  PROVE  NextRow(s) \in batch[s] /\ NextRow(s) \in Row
<1> DEFINE S == {q.event : q \in batch[s]}
<1>1. batch[s] \subseteq Row
  BY DEF TypeScans
<1>2. S \subseteq Nat /\ S # {}
  <2>1. \A q \in batch[s] : q.event \in Nat
    BY <1>1, InboxAssumption DEF Row
  <2>2. QED
    BY <2>1
<1>3. PICK x \in S : \A y \in S : x <= y
  <2> HIDE DEF S
  <2>1. QED
    BY <1>2, LeastOf
<1>4. PICK r \in batch[s] : x = r.event
  OBVIOUS
<1>5. \A q \in batch[s] : r.event <= q.event
  BY <1>3, <1>4
<1>6. QED
  BY <1>1, <1>5 DEF NextRow

LEMMA NoJobFits == NoJob \in Job
BY DEF NoJob, Job

\* Nobody is not a scan, and scans belong to the automation.
LEMMA Names ==
  /\ None \notin Scan /\ None \notin Event /\ Scan \subseteq Actor /\ Scan \cap Operator = {}
BY ControlAssumption, InboxAssumption DEF Actor

-----------------------------------------------------------------------------
(* The inbox and the scans stay well typed.                                 *)

LEMMA InboxKept == TypeInbox /\ UNCHANGED inboxVars => TypeInbox'
BY DEF TypeInbox, inboxVars

LEMMA ScansKept == TypeScans /\ UNCHANGED scanVars => TypeScans'
BY DEF TypeScans, scanVars

LEMMA GoToFits ==
  ASSUME TypeScans, NEW s \in Scan, NEW next \in Statements, NEW learnt \in Job,
         GoTo(s, next, learnt)
  PROVE  pc' \in [Scan -> Statements] /\ job' \in [Scan -> Job]
BY DEF TypeScans, GoTo

LEMMA RecordFits ==
  ASSUME TypeInbox, NEW s \in Scan, NEW st \in {"FAILED", "COMPLETED"},
         NEW out \in {"done", "processing_error", "attribution_retry"}, Record(s, st, out),
         UNCHANGED <<message, routed>>
  PROVE  TypeInbox'
<1> DEFINE e == job[s].event
<1>1. CASE token[e] = s
  <2>1. /\ inbox' = [inbox EXCEPT ![e] = st] /\ outcome' = [outcome EXCEPT ![e] = out]
        /\ token' = [token EXCEPT ![e] = None]
        /\ lease' = [lease EXCEPT ![e] = IF st = "FAILED" THEN "running" ELSE "over"]
    BY <1>1 DEF Record
  <2> HIDE DEF e
  <2>2. QED
    BY <2>1 DEF TypeInbox
<1>2. CASE token[e] # s
  BY <1>2 DEF Record, TypeInbox
<1>3. QED
  BY <1>1, <1>2

LEMMA AcceptFits ==
  ASSUME InboxTypeOK, NEW e \in Event, Accept(e) PROVE InboxTypeOK'
<1>1. ControlTypeOK /\ TypeInbox /\ TypeScans
  BY TypeParts
<1>2. ControlTypeOK' /\ TypeScans'
  BY <1>1, ControlKept, ScansKept DEF Accept
<1>3. TypeInbox'
  BY <1>1 DEF Accept, TypeInbox
<1>4. QED
  BY <1>2, <1>3 DEF InboxTypeOK, TypeInbox, TypeScans, Statements

LEMMA LeaseEndsFits ==
  ASSUME InboxTypeOK, NEW e \in Event, LeaseEnds(e) PROVE InboxTypeOK'
<1>1. ControlTypeOK /\ TypeInbox /\ TypeScans
  BY TypeParts
<1>2. ControlTypeOK'
  BY <1>1, ControlKept DEF LeaseEnds
<1>3. TypeInbox'
  BY <1>1 DEF LeaseEnds, TypeInbox
<1>4. failures' \in 0..MaxFailures
  BY <1>1, InboxAssumption DEF LeaseEnds, TypeScans
<1>5. TypeScans'
  BY <1>1, <1>4 DEF LeaseEnds, TypeScans
<1>6. QED
  BY <1>2, <1>3, <1>5 DEF InboxTypeOK, TypeInbox, TypeScans, Statements

LEMMA FetchFits ==
  ASSUME InboxTypeOK, NEW s \in Scan, Fetch(s) PROVE InboxTypeOK'
<1>1. ControlTypeOK /\ TypeInbox /\ TypeScans
  BY TypeParts
<1>2. ControlTypeOK' /\ TypeInbox'
  BY <1>1, ControlKept, InboxKept DEF Fetch
<1>3. {[event |-> e, status |-> inbox[e], failed |-> outcome[e] = "processing_error"] :
          e \in {d \in Event : Due(d)}} \subseteq Row
  <2>1. ASSUME NEW e \in Event, Due(e)
        PROVE  [event |-> e, status |-> inbox[e], failed |-> outcome[e] = "processing_error"]
                 \in Row
    BY <2>1 DEF Due, Row
  <2>2. QED
    BY <2>1
<1>4. batch' \in [Scan -> SUBSET Row]
  BY <1>1, <1>3 DEF Fetch, TypeScans
<1>5. TypeScans'
  BY <1>1, <1>4 DEF Fetch, TypeScans, Statements
<1>6. QED
  BY <1>2, <1>5 DEF InboxTypeOK, TypeInbox, TypeScans, Statements

\* The job a scan starts with.
Claimed(r) == [NoJob EXCEPT !.event = r.event, !.resume = r.failed \/ r.status = "PROCESSING"]

LEMMA ClaimedFits ==
  ASSUME NEW r \in Row
  PROVE  /\ Claimed(r) \in Job /\ Claimed(r).event = r.event /\ ~Claimed(r).known
         /\ Claimed(r).resume = (r.failed \/ r.status = "PROCESSING")
BY DEF Claimed, Row, Job, NoJob

LEMMA ClaimEventFits ==
  ASSUME InboxTypeOK, NEW s \in Scan, ClaimEvent(s) PROVE InboxTypeOK'
<1>1. ControlTypeOK /\ TypeInbox /\ TypeScans
  BY TypeParts
<1>2. ControlTypeOK'
  BY <1>1, ControlKept DEF ClaimEvent
<1> DEFINE r == NextRow(s)
<1>3. r \in batch[s] /\ r \in Row
  BY <1>1, NextRowFits DEF ClaimEvent
<1>4. Claimed(r) \in Job
  BY <1>3, ClaimedFits
<1>5. CASE inbox[r.event] = r.status
  <2>1. /\ inbox' = [inbox EXCEPT ![r.event] = "PROCESSING"]
        /\ token' = [token EXCEPT ![r.event] = s]
        /\ lease' = [lease EXCEPT ![r.event] = "running"]
        /\ batch' = [t \in Scan |-> {q \in batch[t] : q.event # r.event}]
        /\ job' = [job EXCEPT ![s] = Claimed(r)]
        /\ pc' = [pc EXCEPT ![s] = "lookup"]
    BY <1>5 DEF ClaimEvent, Claimed
  <2> HIDE DEF r
  <2>2. TypeInbox'
    BY <1>1, <2>1 DEF TypeInbox, ClaimEvent
  <2>3. TypeScans'
    BY <1>1, <1>4, <2>1 DEF TypeScans, ClaimEvent, Statements
  <2>4. QED
    BY <1>2, <2>2, <2>3 DEF InboxTypeOK, TypeInbox, TypeScans, Statements
<1>6. CASE inbox[r.event] # r.status
  <2>1. batch' = [batch EXCEPT ![s] = @ \ {r}] /\ UNCHANGED <<inbox, token, lease, job, pc>>
    BY <1>6 DEF ClaimEvent
  <2> HIDE DEF r
  <2>2. QED
    BY <1>1, <1>2, <2>1 DEF ClaimEvent, InboxTypeOK, TypeInbox, TypeScans, Statements
<1>7. QED
  BY <1>5, <1>6

\* A statement that moves one scan, and perhaps stores or deals with its message.
LEMMA StatementFits ==
  ASSUME InboxTypeOK, ControlTypeOK', NEW s \in Scan, NEW next \in Statements,
         pc' = [pc EXCEPT ![s] = next],
         NEW learnt \in Job, job' = job \/ job' = [job EXCEPT ![s] = learnt],
         contactLock' \in Scan \union {None}, failures' \in 0..MaxFailures,
         batch' = batch \/ batch' = [batch EXCEPT ![s] = {}],
         UNCHANGED <<inbox, outcome, token, lease>>,
         message' = message \/ message' = [message EXCEPT ![job[s].event] = TRUE],
         routed' = routed \/ routed' = [routed EXCEPT ![job[s].event] = TRUE]
  PROVE  InboxTypeOK'
<1>1. TypeInbox /\ TypeScans
  BY TypeParts
<1>2. message' \in [Event -> BOOLEAN] /\ routed' \in [Event -> BOOLEAN]
  BY <1>1 DEF TypeInbox
<1>3. TypeInbox'
  BY <1>1, <1>2 DEF TypeInbox
<1>4. TypeScans'
  BY <1>1 DEF TypeScans
<1>5. QED
  BY <1>3, <1>4 DEF InboxTypeOK, TypeInbox, TypeScans, Statements

LEMMA ReleaseFits ==
  ASSUME InboxTypeOK, NEW s \in Scan, ReleaseLocks(s), UNCHANGED <<status, handoff, agent>>
  PROVE  ControlTypeOK' /\ contactLock' \in Scan \union {None}
<1>1. s \in Actor /\ ControlTypeOK
  BY Names, TypeParts
<1>2. tx' \in [Actor -> Transaction] /\ lock' \in Actor \union {None}
  BY <1>1, EndFits DEF ReleaseLocks, ControlTypeOK
<1>3. QED
  BY <1>1, <1>2 DEF ControlTypeOK, ReleaseLocks, InboxTypeOK

LEMMA SettleFits ==
  ASSUME InboxTypeOK, NEW s \in Scan, Settle(s) PROVE InboxTypeOK'
<1>1. ControlTypeOK /\ TypeInbox /\ TypeScans
  BY TypeParts
<1>2. ControlTypeOK'
  BY <1>1, ControlKept DEF Settle
<1>3. TypeInbox'
  <2>1. CASE job[s].retry
    BY <1>1, <2>1, RecordFits DEF Settle
  <2>2. CASE ~job[s].retry
    BY <1>1, <2>2, RecordFits DEF Settle
  <2>3. QED
    BY <2>1, <2>2
<1>4. TypeScans'
  BY <1>1, NoJobFits DEF Settle, Done, TypeScans, Statements
<1>5. QED
  BY <1>2, <1>3, <1>4 DEF InboxTypeOK, TypeInbox, TypeScans, Statements

LEMMA ThrowsFits ==
  ASSUME InboxTypeOK, NEW s \in Scan, Throws(s) PROVE InboxTypeOK'
<1>1. TypeInbox /\ TypeScans
  BY TypeParts
<1>2. ControlTypeOK' /\ contactLock' \in Scan \union {None}
  BY ReleaseFits DEF Throws
<1>3. TypeInbox'
  BY <1>1, RecordFits DEF Throws
<1>4. failures' \in 0..MaxFailures
  BY <1>1, InboxAssumption DEF Throws, TypeScans
<1>5. TypeScans'
  BY <1>1, <1>2, <1>4, NoJobFits DEF Throws, Done, TypeScans, Statements
<1>6. QED
  BY <1>2, <1>3, <1>5 DEF InboxTypeOK, TypeInbox, TypeScans, Statements

LEMMA CrashFits ==
  ASSUME InboxTypeOK, NEW s \in Scan, Crash(s) PROVE InboxTypeOK'
<1>1. ControlTypeOK' /\ contactLock' \in Scan \union {None}
  BY ReleaseFits DEF Crash
<1>2. failures' \in 0..MaxFailures
  BY InboxAssumption DEF Crash, InboxTypeOK
<1>3. QED
  BY <1>1, <1>2, NoJobFits, StatementFits DEF Crash, inboxVars, Statements

LEMMA ProcessFits ==
  ASSUME InboxTypeOK, NEW s \in Scan, Process(s) PROVE InboxTypeOK'
<1>1. ControlTypeOK /\ TypeInbox /\ TypeScans
  BY TypeParts
<1>2. /\ job[s] \in Job /\ contactLock \in Scan \union {None} /\ failures \in 0..MaxFailures
      /\ status \in {"ACTIVE", "HANDED_OFF", "CLOSED"}
  BY <1>1 DEF TypeScans, ControlTypeOK
<1>3. CASE Fetch(s)
  BY <1>3, FetchFits
<1>4. CASE ClaimEvent(s)
  BY <1>4, ClaimEventFits
<1>5. CASE EndOfBatch(s)
  <2>1. ControlTypeOK'
    BY <1>1, <1>5, ControlKept DEF EndOfBatch
  <2>2. QED
    BY <1>2, <1>5, <2>1, StatementFits DEF EndOfBatch, inboxVars, Statements
<1>6. CASE Lookup(s)
  <2>1. ControlTypeOK'
    BY <1>1, <1>6, ControlKept DEF Lookup
  <2>2. [job[s] EXCEPT !.known = TRUE] \in Job
    BY <1>2 DEF Job
  <2>3. PICK next \in {"attribution", "conversation"}, learnt \in Job : GoTo(s, next, learnt)
    BY <1>2, <1>6, <2>2 DEF Lookup
  <2>4. QED
    BY <1>2, <1>6, <2>1, <2>3, StatementFits DEF Lookup, GoTo, inboxVars, Statements
<1>7. CASE ReadConversation(s)
  <2>1. ControlTypeOK'
    BY <1>1, <1>7, ControlKept DEF ReadConversation
  <2>2. \A v \in {"ACTIVE", "HANDED_OFF", "CLOSED"} : [job[s] EXCEPT !.seen = v] \in Job
    BY <1>2 DEF Job
  <2>3. PICK next \in {"resume", "message"}, learnt \in Job : GoTo(s, next, learnt)
    <3>1. CASE status = "CLOSED"
      BY <1>7, <2>2, <3>1 DEF ReadConversation
    <3>2. CASE status # "CLOSED"
      BY <1>2, <1>7, <2>2, <3>2 DEF ReadConversation
    <3>3. QED
      BY <3>1, <3>2
  <2>4. contactLock' \in Scan \union {None}
    BY <1>2, <1>7 DEF ReadConversation
  <2>5. QED
    BY <1>2, <1>7, <2>1, <2>3, <2>4, StatementFits
       DEF ReadConversation, GoTo, inboxVars, Statements
<1>8. CASE WriteResume(s)
  <2>1. ControlTypeOK'
    BY <1>1, <1>2, <1>8 DEF WriteResume, ControlTypeOK, Job
  <2>2. QED
    BY <1>2, <1>8, <2>1, StatementFits DEF WriteResume, inboxVars, Statements
<1>9. CASE CreateMessage(s)
  <2>1. ControlTypeOK'
    BY <1>1, <1>9, ControlKept DEF CreateMessage
  <2>2. QED
    BY <1>2, <1>9, <2>1, StatementFits DEF CreateMessage, Statements
<1>10. CASE Attribute(s)
  <2>1. ControlTypeOK'
    BY <1>1, <1>10, ControlKept DEF Attribute
  <2>2. \A r \in BOOLEAN : [job[s] EXCEPT !.retry = r] \in Job
    BY <1>2 DEF Job
  <2>3. AfterProof(s) \in Statements
    BY DEF AfterProof, Statements
  <2>4. PICK next \in Statements, learnt \in Job : GoTo(s, next, learnt)
    BY <1>10, <2>2, <2>3 DEF Attribute, Statements
  <2>5. failures' \in 0..MaxFailures
    BY <1>2, <1>10, InboxAssumption DEF Attribute
  <2>6. QED
    BY <1>2, <1>10, <2>1, <2>4, <2>5, StatementFits DEF Attribute, GoTo, inboxVars
<1>11. CASE DetectProof(s)
  <2>1. ControlTypeOK'
    BY <1>1, <1>11, ControlKept DEF DetectProof
  <2>2. AfterProof(s) \in Statements /\ "settle" \in Statements
    BY DEF AfterProof, Statements
  <2>3. PICK next \in Statements : pc' = [pc EXCEPT ![s] = next]
    BY <1>11, <2>2 DEF DetectProof
  <2>4. QED
    BY <1>2, <1>11, <2>1, <2>3, StatementFits DEF DetectProof
<1>12. CASE Reread(s)
  <2>1. ControlTypeOK'
    BY <1>1, <1>12, ControlKept DEF Reread
  <2>2. [job[s] EXCEPT !.seen = status] \in Job
    BY <1>2 DEF Job
  <2>3. QED
    BY <1>2, <1>12, <2>1, <2>2, StatementFits DEF Reread, GoTo, inboxVars, Statements
<1>13. CASE RouteDirectly(s)
  <2>1. ControlTypeOK'
    BY <1>1, <1>13, ControlKept DEF RouteDirectly
  <2>2. QED
    BY <1>2, <1>13, <2>1, StatementFits DEF RouteDirectly, Routed, GoTo, Statements
<1>14. CASE RouteOn(s)
  <2>1. ControlTypeOK'
    BY <1>1, <1>14, ControlKept DEF RouteOn
  <2>2. \A v \in {"campaign", "support"} : [job[s] EXCEPT !.why = v] \in Job
    BY <1>2 DEF Job
  <2>3. PICK next \in {"handoff", "notice"}, learnt \in Job : GoTo(s, next, learnt)
    BY <1>2, <1>14, <2>2 DEF RouteOn
  <2>4. QED
    BY <1>2, <1>14, <2>1, <2>3, StatementFits DEF RouteOn, GoTo, inboxVars, Statements
<1>15. CASE OpenHandoff(s)
  <2>1. ControlTypeOK'
    BY <1>1, <1>15, Names, ReadCreateFits DEF OpenHandoff
  <2>2. QED
    BY <1>2, <1>15, <2>1, StatementFits DEF OpenHandoff, inboxVars, Statements
<1>16. CASE HandoffOpened(s)
  <2>1. ControlTypeOK'
    BY <1>1, <1>16, Names, WriteCreateFits DEF HandoffOpened
  <2>2. PICK next \in {"settle", "notice"} : pc' = [pc EXCEPT ![s] = next]
    BY <1>16 DEF HandoffOpened
  <2>3. routed' = routed \/ routed' = [routed EXCEPT ![job[s].event] = TRUE]
    BY <1>16 DEF HandoffOpened, Routed
  <2>4. QED
    BY <1>2, <1>16, <2>1, <2>2, <2>3, StatementFits DEF HandoffOpened, Statements
<1>17. CASE Notify(s)
  <2>1. ControlTypeOK'
    BY <1>1, <1>17, ControlKept DEF Notify
  <2>2. QED
    BY <1>2, <1>17, <2>1, StatementFits DEF Notify, Routed, Statements
<1>18. CASE Settle(s)
  BY <1>18, SettleFits
<1>19. QED
  BY <1>3, <1>4, <1>5, <1>6, <1>7, <1>8, <1>9, <1>10, <1>11, <1>12, <1>13, <1>14, <1>15, <1>16,
     <1>17, <1>18 DEF Process

LEMMA InboxTypeInit == Init => InboxTypeOK
BY NoJobFits, InboxAssumption
   DEF Init, ControlInit, InboxTypeOK, ControlTypeOK, NoTx, Transaction, OpenStatus

LEMMA InboxTypeNext == ASSUME InboxTypeOK, [Next]_vars PROVE InboxTypeOK'
<1>2. ControlTypeOK /\ TypeInbox /\ TypeScans
  BY TypeParts
<1>3. CASE \E e \in Event : Accept(e) \/ LeaseEnds(e)
  BY <1>3, AcceptFits, LeaseEndsFits
<1>4. CASE \E s \in Scan : Process(s) \/ Throws(s) \/ Crash(s)
  BY <1>4, ProcessFits, ThrowsFits, CrashFits
<1>5. CASE \E a \in Operator : OperatorStep(a) /\ UNCHANGED <<inboxVars, scanVars>>
  <2>1. ControlTypeOK' /\ TypeInbox' /\ TypeScans'
    BY <1>2, <1>5, OperatorStepFits, InboxKept, ScansKept
  <2>2. QED
    BY <2>1 DEF InboxTypeOK, TypeInbox, TypeScans, Statements
<1>6. CASE UNCHANGED vars
  <2>1. ControlTypeOK' /\ TypeInbox' /\ TypeScans'
    BY <1>2, <1>6, ControlKept, InboxKept, ScansKept DEF vars
  <2>2. QED
    BY <2>1 DEF InboxTypeOK, TypeInbox, TypeScans, Statements
<1>7. QED
  BY <1>3, <1>4, <1>5, <1>6 DEF Next

\* Every variable of the inbox, of its scans and of the conversation keeps its type.
THEOREM InboxTypeCorrect == Spec => []InboxTypeOK
<1>1. Init => InboxTypeOK
  BY InboxTypeInit
<1>2. InboxTypeOK /\ [Next]_vars => InboxTypeOK'
  BY InboxTypeNext
<1>3. QED
  BY <1>1, <1>2, PTL DEF Spec

-----------------------------------------------------------------------------
(* Who is in charge.                                                        *)

\* A conversation that a message resumes is closed until it does, and one message at a
\* time resumes it.
ResumesFit ==
  \A s \in Scan : pc[s] = "resume" =>
    status = "CLOSED" /\ job[s].seen = "ACTIVE" /\ contactLock = s

ControlInv == TransactionsFit /\ ResumesFit

\* A scan that goes on, or ends its attempt, leaves the resumptions of the others alone.
LEMMA ResumesKept ==
  ASSUME InboxTypeOK, ResumesFit, NEW s \in Scan, UNCHANGED status,
         \A t \in Scan \ {s} : pc'[t] = pc[t] /\ job'[t] = job[t],
         pc'[s] # "resume",
         contactLock' = contactLock \/ (contactLock = s /\ contactLock' = None)
  PROVE  ResumesFit'
BY DEF ResumesFit

LEMMA ReadConversationKeeps ==
  ASSUME InboxTypeOK, ControlInv, NEW s \in Scan, ReadConversation(s) PROVE ControlInv'
<1>1. TransactionsFit'
  BY TransactionsKept DEF ReadConversation, ControlInv
<1>2. /\ job \in [Scan -> Job] /\ pc \in [Scan -> Statements] /\ None \notin Scan
      /\ OneIsInCharge /\ ResumesFit
  BY TypeParts, Names DEF TypeScans, ControlInv, TransactionsFit
<1>3. \A t \in Scan : pc[t] # "resume"
  BY <1>2 DEF ReadConversation, ResumesFit
<1>4. CASE status = "CLOSED"
  <2>1. OpenHandoffs = {}
    BY <1>2, <1>4 DEF OneIsInCharge
  <2>2. /\ contactLock' = s /\ pc' = [pc EXCEPT ![s] = "resume"] /\ status' = status
        /\ job' = [job EXCEPT ![s] = [job[s] EXCEPT !.seen = "ACTIVE"]]
    BY <1>4, <2>1 DEF ReadConversation, GoTo, control
  <2>3. job'[s].seen = "ACTIVE"
    BY <1>2, <2>2 DEF Job
  <2>4. ResumesFit'
    BY <1>2, <1>3, <1>4, <2>2, <2>3 DEF ResumesFit
  <2>5. QED
    BY <1>1, <2>4 DEF ControlInv
<1>5. CASE status # "CLOSED"
  <2>1. pc' = [pc EXCEPT ![s] = "message"]
    BY <1>5 DEF ReadConversation, GoTo
  <2>2. \A t \in Scan : pc'[t] # "resume"
    BY <1>2, <1>3, <2>1
  <2>3. QED
    BY <1>1, <2>2 DEF ControlInv, ResumesFit
<1>6. QED
  BY <1>4, <1>5

LEMMA WriteResumeKeeps ==
  ASSUME InboxTypeOK, InboxTypeOK', ControlInv, NEW s \in Scan, WriteResume(s)
  PROVE  ControlInv'
<1>1. /\ status = "CLOSED" /\ status' = "ACTIVE" /\ contactLock = s
      /\ pc \in [Scan -> Statements] /\ OneIsInCharge /\ LockHeld /\ ReadsHold /\ ResumesFit
  BY TypeParts DEF WriteResume, ControlInv, ResumesFit, TransactionsFit, TypeScans
<1>2. OpenHandoffs = {} /\ OpenHandoffs' = {}
  BY <1>1 DEF OneIsInCharge, OpenHandoffs, WriteResume
<1>3. OneIsInCharge'
  BY <1>1, <1>2 DEF OneIsInCharge
<1>4. LockHeld'
  BY <1>1 DEF LockHeld, WriteResume
<1>5. ReadsHold'
  BY <1>1, <1>2 DEF ReadsHold, Holds, MayReply, WriteResume
<1>6. ResumesFit'
  BY <1>1 DEF ResumesFit, WriteResume
<1>7. QED
  BY <1>3, <1>4, <1>5, <1>6 DEF ControlInv, TransactionsFit, InboxTypeOK

LEMMA ReleaseKeeps ==
  ASSUME InboxTypeOK, InboxTypeOK', ControlInv, NEW s \in Scan, ReleaseLocks(s),
         UNCHANGED <<status, handoff, agent>>,
         NEW p \in {"loop", "idle"}, pc' = [pc EXCEPT ![s] = p],
         job' = [job EXCEPT ![s] = NoJob]
  PROVE  ControlInv'
<1>1. s \in Actor /\ pc \in [Scan -> Statements] /\ job \in [Scan -> Job]
  BY Names, TypeParts DEF TypeScans
<1>2. ControlTypeOK' /\ OneIsInCharge'
  BY ChargeKept DEF ControlInv, TransactionsFit, InboxTypeOK
<1>3. TransactionsFit'
  BY <1>1, <1>2, EndKeeps DEF ControlInv, ReleaseLocks
<1>4. pc'[s] # "resume" /\ \A t \in Scan \ {s} : pc'[t] = pc[t] /\ job'[t] = job[t]
  BY <1>1
<1>5. contactLock' = contactLock \/ (contactLock = s /\ contactLock' = None)
  BY DEF ReleaseLocks
<1>6. ResumesFit'
  BY <1>4, <1>5, ResumesKept DEF ControlInv
<1>7. QED
  BY <1>3, <1>6 DEF ControlInv

LEMMA ProcessKeeps ==
  ASSUME InboxTypeOK, InboxTypeOK', ControlInv, NEW s \in Scan, Process(s) PROVE ControlInv'
<1>1. /\ s \in Actor /\ pc \in [Scan -> Statements] /\ job \in [Scan -> Job]
      /\ TransactionsFit /\ ResumesFit
  BY Names, TypeParts DEF TypeScans, ControlInv
<1>2. CASE ReadConversation(s) \/ WriteResume(s)
  BY <1>2, ReadConversationKeeps, WriteResumeKeeps
<1>3. CASE OpenHandoff(s)
  <2>1. TransactionsFit'
    BY <1>1, <1>3, ReadCreateKeeps DEF OpenHandoff
  <2>2. pc'[s] # "resume" /\ \A t \in Scan \ {s} : pc'[t] = pc[t] /\ job'[t] = job[t]
    BY <1>1, <1>3 DEF OpenHandoff
  <2>3. ResumesFit'
    BY <1>1, <1>3, <2>2, ResumesKept DEF OpenHandoff, ReadCreate
  <2>4. QED
    BY <2>1, <2>3 DEF ControlInv
<1>4. CASE HandoffOpened(s)
  <2>1. TransactionsFit' /\ status # "CLOSED"
    BY <1>1, <1>4, WriteCreateKeeps DEF HandoffOpened
  <2>2. \A t \in Scan : pc[t] # "resume"
    BY <1>1, <2>1 DEF ResumesFit
  <2>3. \A t \in Scan : pc'[t] # "resume"
    BY <1>1, <1>4, <2>2 DEF HandoffOpened
  <2>4. QED
    BY <2>1, <2>3 DEF ControlInv, ResumesFit
<1>5. CASE ClaimEvent(s)
  <2>1. TransactionsFit'
    BY <1>1, <1>5, TransactionsKept DEF ClaimEvent
  <2>2. \A t \in Scan \ {s} : pc'[t] = pc[t] /\ job'[t] = job[t]
    BY <1>1, <1>5 DEF ClaimEvent
  <2>3. pc'[s] # "resume"
    BY <1>1, <1>5 DEF ClaimEvent
  <2>4. contactLock' = contactLock /\ status' = status
    BY <1>5 DEF ClaimEvent, control
  <2>5. QED
    BY <1>1, <2>1, <2>2, <2>3, <2>4, ResumesKept DEF ControlInv
<1>6. CASE Fetch(s) \/ EndOfBatch(s) \/ Settle(s) \/ DetectProof(s) \/ CreateMessage(s)
           \/ Notify(s) \/ Lookup(s) \/ Attribute(s) \/ Reread(s) \/ RouteDirectly(s) \/ RouteOn(s)
  <2>1. UNCHANGED <<control, contactLock>>
    BY <1>6 DEF Fetch, EndOfBatch, Settle, DetectProof, CreateMessage, Notify, Lookup, Attribute,
                Reread, RouteDirectly, RouteOn, inboxVars
  <2>2. \E next \in Statements \ {"resume"} : pc' = [pc EXCEPT ![s] = next]
    <3>1. AfterProof(s) \in Statements \ {"resume"}
      BY DEF AfterProof, Statements
    <3>2. QED
      BY <1>6, <3>1 DEF Fetch, EndOfBatch, Settle, DetectProof, CreateMessage, Notify, Lookup,
           Attribute, Reread, RouteDirectly, RouteOn, Done, GoTo, Statements
  <2>3. \A t \in Scan \ {s} : job'[t] = job[t]
    BY <1>1, <1>6 DEF Fetch, EndOfBatch, Settle, DetectProof, CreateMessage, Notify, Lookup,
          Attribute, Reread, RouteDirectly, RouteOn, Done, GoTo
  <2>4. pc'[s] # "resume" /\ \A t \in Scan \ {s} : pc'[t] = pc[t]
    BY <1>1, <2>2
  <2>5. TransactionsFit' /\ status' = status
    BY <1>1, <2>1, TransactionsKept DEF control
  <2>6. QED
    BY <1>1, <2>1, <2>3, <2>4, <2>5, ResumesKept DEF ControlInv
<1>7. QED
  BY <1>2, <1>3, <1>4, <1>5, <1>6 DEF Process

LEMMA ControlInitially == Init => ControlInv
<1>1. SUFFICES ASSUME Init PROVE ControlInv
  OBVIOUS
<1>2. ControlTypeOK
  BY <1>1, InboxTypeInit, TypeParts
<1>3. OpenHandoffs = {} /\ status = "ACTIVE" /\ \A a \in Actor : tx[a] = NoTx
  BY <1>1 DEF Init, ControlInit, OpenHandoffs, OpenStatus
<1>4. OneIsInCharge /\ LockHeld /\ ReadsHold
  BY <1>3, NoTxHolds DEF OneIsInCharge, LockHeld, ReadsHold, Holds
<1>5. ResumesFit
  BY <1>1 DEF Init, ResumesFit
<1>6. QED
  BY <1>2, <1>4, <1>5 DEF ControlInv, TransactionsFit

LEMMA ControlContinues ==
  ASSUME ~ReopenRaces, InboxTypeOK, InboxTypeOK', ControlInv, [Next]_vars PROVE ControlInv'
<1>1. TransactionsFit /\ ResumesFit
  BY DEF ControlInv
<1>2. CASE \E e \in Event : Accept(e) \/ LeaseEnds(e)
  <2>1. UNCHANGED <<control, contactLock, pc, job>>
    BY <1>2 DEF Accept, LeaseEnds, scanVars
  <2>2. TransactionsFit' /\ status' = status
    BY <1>1, <2>1, TransactionsKept DEF control
  <2>3. QED
    BY <1>1, <2>1, <2>2 DEF ControlInv, ResumesFit
<1>3. CASE \E s \in Scan : Process(s)
  BY <1>3, ProcessKeeps
<1>4. CASE \E s \in Scan : Throws(s) \/ Crash(s)
  BY <1>4, ReleaseKeeps DEF Throws, Crash, Done
<1>5. CASE \E a \in Operator : /\ OperatorStep(a)
                               /\ Resuming /\ ~ReopenRaces => status' = status
                               /\ UNCHANGED <<inboxVars, scanVars>>
  <2>1. TransactionsFit'
    BY <1>1, <1>5, OperatorStepKeeps
  <2>2. ResumesFit'
    BY <1>1, <1>5 DEF ResumesFit, Resuming, scanVars
  <2>3. QED
    BY <2>1, <2>2 DEF ControlInv
<1>6. CASE UNCHANGED vars
  <2>1. TransactionsFit'
    BY <1>1, <1>6, TransactionsKept DEF vars
  <2>2. QED
    BY <1>1, <1>6, <2>1 DEF ControlInv, ResumesFit, vars, control, scanVars
<1>7. QED
  BY <1>2, <1>3, <1>4, <1>5, <1>6 DEF Next

\* While no operator reopens a conversation that a message is resuming, an open handoff and
\* the status of the conversation go together, and there is one open handoff at most: the
\* operations of HandoffService and ConversationsService and the routing of messages.
THEOREM OneInCharge == ~ReopenRaces => (Spec => []OneIsInCharge)
<1> SUFFICES ASSUME ~ReopenRaces PROVE Spec => []OneIsInCharge
  OBVIOUS
<1>1. InboxTypeOK /\ InboxTypeOK' /\ ControlInv /\ [Next]_vars => ControlInv'
  BY ControlContinues
<1>2. Init => ControlInv
  BY ControlInitially
<1>3. ControlInv => OneIsInCharge
  BY DEF ControlInv, TransactionsFit
<1>4. QED
  BY <1>1, <1>2, <1>3, InboxTypeCorrect, PTL DEF Spec

\* And a reply on its way to Meta was written by the user who has the conversation now.
THEOREM AuthorizedReplies == ~ReopenRaces => (Spec => []RepliesAreAuthorized)
<1> SUFFICES ASSUME ~ReopenRaces PROVE Spec => []RepliesAreAuthorized
  OBVIOUS
<1>1. InboxTypeOK /\ InboxTypeOK' /\ ControlInv /\ [Next]_vars => ControlInv'
  BY ControlContinues
<1>2. Init => ControlInv
  BY ControlInitially
<1>3. ControlInv => RepliesAreAuthorized
  BY ActorNames DEF ControlInv, TransactionsFit, ReadsHold, Holds, RepliesAreAuthorized
<1>4. QED
  BY <1>1, <1>2, <1>3, InboxTypeCorrect, PTL DEF Spec

\* What a step of the inbox or of an operator does to the conversation.
LEMMA InboxControlStep ==
  ASSUME InboxTypeOK, ControlInv, [Next]_vars PROVE ControlStep
<1>1. \A s \in Scan : s \in Automation
  BY InboxAssumption
<1>2. CASE \E e \in Event : Accept(e) \/ LeaseEnds(e)
  BY <1>2 DEF Accept, LeaseEnds, ControlStep
<1>3. ASSUME NEW s \in Scan, Process(s) PROVE ControlStep
  <2>1. CASE OpenHandoff(s) \/ HandoffOpened(s)
    BY <1>1, <2>1 DEF OpenHandoff, HandoffOpened, ControlStep
  <2>2. CASE WriteResume(s)
    <3>1. status = "CLOSED" /\ job[s].seen = "ACTIVE"
      BY <2>2 DEF ControlInv, ResumesFit, WriteResume
    <3>2. QED
      BY <2>2, <3>1 DEF WriteResume, Resumes, ControlStep
  <2>3. CASE Fetch(s) \/ ClaimEvent(s) \/ EndOfBatch(s) \/ Lookup(s) \/ ReadConversation(s)
             \/ CreateMessage(s) \/ Attribute(s) \/ DetectProof(s) \/ Reread(s)
             \/ RouteDirectly(s) \/ RouteOn(s) \/ Notify(s) \/ Settle(s)
    <3>1. UNCHANGED control
      BY <2>3 DEF Fetch, ClaimEvent, EndOfBatch, Lookup, ReadConversation, CreateMessage, Attribute,
           DetectProof, Reread, RouteDirectly, RouteOn, Notify, Settle
    <3>2. QED
      BY <3>1 DEF ControlStep
  <2>4. QED
    BY <1>3, <2>1, <2>2, <2>3 DEF Process
<1>4. ASSUME NEW s \in Scan, Throws(s) \/ Crash(s) PROVE ControlStep
  <2>1. FilesUnderLock(s)
    BY <1>4 DEF Throws, Crash, ReleaseLocks, FilesUnderLock
  <2>2. QED
    BY <1>1, <2>1 DEF ControlStep
<1>5. CASE \E a \in Operator : /\ OperatorStep(a)
                               /\ Resuming /\ ~ReopenRaces => status' = status
                               /\ UNCHANGED <<inboxVars, scanVars>>
  BY <1>5 DEF ControlStep
<1>6. CASE UNCHANGED vars
  BY <1>6 DEF vars, ControlStep
<1>7. QED
  BY <1>2, <1>3, <1>4, <1>5, <1>6 DEF Next

\* The requests of operators, the scans and what they share keep what handoffs promise
\* (WhoAnswers): a refinement, step by step, while no operator reopens a conversation that a
\* message is resuming.
THEOREM InboxKeepsPromise == ~ReopenRaces => (Spec => HolderAnswers)
<1> SUFFICES ASSUME ~ReopenRaces PROVE Spec => HolderAnswers
  OBVIOUS
<1>1. Init => ControlInv /\ TakersFit /\ Promised!Init
  BY ControlInitially, ControlInitHands DEF Init
<1>2. InboxTypeOK /\ InboxTypeOK' /\ ControlInv /\ [Next]_vars => ControlInv'
  BY ControlContinues
<1>3. InboxTypeOK /\ ControlInv /\ TakersFit /\ [Next]_vars => TakersFit' /\ Keeps
  BY InboxControlStep, ControlStepHands DEF ControlInv
<1>4. Keeps => [Promised!Next]_(Promised!vars)
  BY DEF Keeps
<1>5. QED
  BY <1>1, <1>2, <1>3, <1>4, InboxTypeCorrect, PTL DEF Spec, HolderAnswers, Promised!Spec

-----------------------------------------------------------------------------
(* What is dealt with.                                                      *)

\* Only an event that is being processed has a claim.
ClaimsFit == \A e \in Event : inbox[e] # "PROCESSING" => token[e] = None

\* What a scan fetched of an event that nobody processed is still so.
RowsAreCurrent ==
  \A s \in Scan : \A q \in batch[s] :
    q.status # "PROCESSING" => /\ inbox[q.event] = q.status
                               /\ q.failed = (outcome[q.event] = "processing_error")

\* What the row of an event says about its message.
InboxFits ==
  \A e \in Event :
    /\ inbox[e] \in {"absent", "PENDING"} =>
         ~message[e] /\ outcome[e] = "none" /\ \A s \in Scan : job[s].event # e
    /\ inbox[e] = "FAILED" => outcome[e] \in {"processing_error", "attribution_retry"}
    /\ outcome[e] = "attribution_retry" => message[e] /\ routed[e]
    /\ inbox[e] = "COMPLETED" => message[e] /\ routed[e]

BeforeMessage == {"lookup", "conversation", "resume", "message"}

\* A scan processes an event between its claim and its last update; the message is there
\* from the attribution on.
JobsFit ==
  \A s \in Scan :
    /\ (job[s].event = None) = (pc[s] \in {"idle", "loop"})
    /\ job[s].event # None /\ pc[s] \notin BeforeMessage => message[job[s].event]

\* The scan that has the claim of an event it did not find interrupted: an earlier attempt
\* dealt with the message, or nobody else works on it.
Unhindered(s) ==
  \/ message[job[s].event] /\ routed[job[s].event]
  \/ /\ \A t \in Scan : t # s => job[t].event # job[s].event
     /\ ~job[s].known
     /\ message[job[s].event] => pc[s] \notin BeforeMessage

ClaimantsFit ==
  \A s \in Scan :
    job[s].event # None /\ token[job[s].event] = s =>
      /\ ~job[s].resume => Unhindered(s)
      /\ pc[s] = "settle" => routed[job[s].event]

RoutingInv == ClaimsFit /\ RowsAreCurrent /\ InboxFits /\ JobsFit /\ ClaimantsFit

RoutingOf == <<inbox, outcome, token, message, routed, pc, batch, job>>

LEMMA RoutingKept == ASSUME RoutingInv, UNCHANGED RoutingOf PROVE RoutingInv'
BY DEF RoutingInv, RoutingOf, ClaimsFit, RowsAreCurrent, InboxFits, JobsFit, ClaimantsFit,
       Unhindered

LEMMA JobTypes ==
  ASSUME TypeScans, NEW s \in Scan
  PROVE  /\ job[s].event \in Event \union {None} /\ job[s].resume \in BOOLEAN
         /\ job[s].known \in BOOLEAN /\ pc[s] \in Statements
BY DEF TypeScans, Job

Working == Statements \ {"idle", "loop"}

\* A statement between the claim and the last update of an attempt: scan s goes on at next,
\* with what it has learnt.
Moves(s, next, learnt) ==
  /\ job[s].event # None
  /\ UNCHANGED <<inbox, outcome, token, batch>>
  /\ pc' = [pc EXCEPT ![s] = next]
  /\ job' = [job EXCEPT ![s] = learnt]
  /\ learnt.event = job[s].event /\ learnt.resume = job[s].resume
  /\ learnt.known => job[s].known \/ (message[job[s].event] /\ pc[s] \in BeforeMessage)
  /\ \/ message' = message
     \/ message' = [message EXCEPT ![job[s].event] = TRUE]
  /\ \/ routed' = routed
     \/ routed' = [routed EXCEPT ![job[s].event] = TRUE]
  /\ next \in BeforeMessage => pc[s] \in BeforeMessage /\ message' = message
  /\ next \notin BeforeMessage => message'[job[s].event]
  /\ next = "settle" => routed'[job[s].event] \/ (job[s].known /\ ~job[s].resume)

LEMMA StatementRoutes ==
  ASSUME InboxTypeOK, RoutingInv, NEW s \in Scan, NEW next \in Working, NEW learnt,
         Moves(s, next, learnt)
  PROVE  RoutingInv'
<1>0. UNCHANGED <<inbox, outcome, token, batch>> /\ job[s].event # None
  BY DEF Moves
<1> DEFINE e == job[s].event
<1>1. TypeInbox /\ TypeScans
  BY TypeParts
<1>2. e \in Event /\ inbox[e] \notin {"absent", "PENDING"}
  BY <1>0, <1>1, JobTypes DEF RoutingInv, InboxFits
<1>3. \A d \in Event : /\ message[d] => message'[d]
                       /\ routed[d] => routed'[d]
                       /\ d # e => message'[d] = message[d] /\ routed'[d] = routed[d]
  BY <1>1, <1>2 DEF TypeInbox, Moves
<1>4. /\ pc'[s] = next /\ job'[s] = learnt
      /\ \A t \in Scan : t # s => pc'[t] = pc[t] /\ job'[t] = job[t]
      /\ \A t \in Scan : job'[t].event = job[t].event /\ job'[t].resume = job[t].resume
  BY <1>1 DEF TypeScans, Moves
<1> HIDE DEF e
<1>5. ClaimsFit' /\ RowsAreCurrent'
  BY <1>0 DEF RoutingInv, ClaimsFit, RowsAreCurrent
<1>6. InboxFits'
  BY <1>0, <1>2, <1>3, <1>4 DEF RoutingInv, InboxFits
<1>7. JobsFit'
  <2>1. ASSUME NEW t \in Scan
        PROVE  /\ (job'[t].event = None) = (pc'[t] \in {"idle", "loop"})
               /\ job'[t].event # None /\ pc'[t] \notin BeforeMessage => message'[job'[t].event]
    <3>1. CASE t = s
      BY <1>4, <3>1 DEF e, Moves, Working, Statements
    <3>2. CASE t # s
      BY <1>1, <1>3, <1>4, <3>2, JobTypes DEF RoutingInv, JobsFit
    <3>3. QED
      BY <3>1, <3>2
  <2>2. QED
    BY <2>1 DEF JobsFit
<1>8. ClaimantsFit'
  <2>1. ASSUME NEW t \in Scan, job'[t].event # None, token'[job'[t].event] = t
        PROVE  /\ ~job'[t].resume => Unhindered(t)'
               /\ pc'[t] = "settle" => routed'[job'[t].event]
    <3>1. /\ job[t].event \in Event /\ job[t].event # None /\ token[job[t].event] = t
          /\ job'[t].event = job[t].event /\ job'[t].resume = job[t].resume
      BY <1>0, <1>1, <1>4, <2>1, JobTypes
    <3>2. /\ ~job[t].resume => Unhindered(t)
          /\ pc[t] = "settle" => routed[job[t].event]
      BY <3>1 DEF RoutingInv, ClaimantsFit
    <3>3. CASE t = s
      <4>1. ASSUME ~job[s].resume PROVE Unhindered(s)'
        <5>1. CASE message[e] /\ routed[e]
          BY <1>2, <1>3, <1>4, <5>1 DEF Unhindered, e
        <5>2. CASE ~(message[e] /\ routed[e])
          <6>1. /\ \A u \in Scan : u # s => job[u].event # e
                /\ ~job[s].known /\ (message[e] => pc[s] \notin BeforeMessage)
            BY <3>2, <3>3, <4>1, <5>2 DEF Unhindered, e
          <6>2. ~learnt.known /\ (message'[e] => next \notin BeforeMessage)
            BY <6>1 DEF e, Moves
          <6>3. QED
            BY <1>4, <6>1, <6>2 DEF Unhindered, e
        <5>3. QED
          BY <5>1, <5>2
      <4>2. ASSUME next = "settle" PROVE routed'[e]
        <5>1. CASE job[s].known /\ ~job[s].resume
          BY <1>2, <1>3, <3>2, <3>3, <5>1 DEF Unhindered, e
        <5>2. QED
          BY <4>2, <5>1 DEF e, Moves
      <4>3. QED
        BY <1>4, <3>1, <3>3, <4>1, <4>2 DEF e
    <3>4. CASE t # s
      <4>1. pc'[t] = "settle" => routed'[job'[t].event]
        BY <1>3, <1>4, <3>1, <3>2, <3>4
      <4>2. ASSUME ~job[t].resume PROVE Unhindered(t)'
        <5>1. CASE message[job[t].event] /\ routed[job[t].event]
          BY <1>3, <1>4, <3>1, <5>1 DEF Unhindered
        <5>2. CASE ~(message[job[t].event] /\ routed[job[t].event])
          <6>1. /\ \A u \in Scan : u # t => job[u].event # job[t].event
                /\ ~job[t].known /\ (message[job[t].event] => pc[t] \notin BeforeMessage)
            BY <3>2, <4>2, <5>2 DEF Unhindered
          <6>2. job[t].event # e
            BY <3>4, <6>1 DEF e
          <6>3. QED
            BY <1>3, <1>4, <3>1, <3>4, <6>1, <6>2 DEF Unhindered
        <5>3. QED
          BY <5>1, <5>2
      <4>3. QED
        BY <3>1, <4>1, <4>2
    <3>5. QED
      BY <3>3, <3>4
  <2>2. QED
    BY <2>1 DEF ClaimantsFit
<1>9. QED
  BY <1>5, <1>6, <1>7, <1>8 DEF RoutingInv

LEMMA AcceptRoutes ==
  ASSUME InboxTypeOK, RoutingInv, NEW e \in Event, Accept(e) PROVE RoutingInv'
<1>1. /\ TypeInbox /\ TypeScans /\ inbox[e] = "absent"
      /\ inbox' = [inbox EXCEPT ![e] = "PENDING"]
      /\ UNCHANGED <<outcome, token, message, routed, pc, batch, job>>
  BY TypeParts DEF Accept, scanVars
<1>2. \A d \in Event : inbox'[d] = IF d = e THEN "PENDING" ELSE inbox[d]
  BY <1>1 DEF TypeInbox
<1>3. ClaimsFit' /\ InboxFits' /\ JobsFit' /\ ClaimantsFit'
  BY <1>1, <1>2 DEF RoutingInv, ClaimsFit, InboxFits, JobsFit, ClaimantsFit, Unhindered
<1>4. ASSUME NEW s \in Scan, NEW q \in batch'[s], q.status # "PROCESSING"
      PROVE  /\ inbox'[q.event] = q.status
             /\ q.failed = (outcome'[q.event] = "processing_error")
  <2>1. q \in batch[s] /\ q \in Row
    BY <1>1 DEF TypeScans
  <2>2. inbox[q.event] = q.status /\ q.failed = (outcome[q.event] = "processing_error")
    BY <1>4, <2>1 DEF RoutingInv, RowsAreCurrent
  <2>3. q.event \in Event /\ q.status # "absent"
    BY <2>1 DEF Row
  <2>4. QED
    BY <1>1, <1>2, <2>2, <2>3
<1>5. QED
  BY <1>3, <1>4 DEF RoutingInv, RowsAreCurrent

LEMMA FetchRoutes ==
  ASSUME InboxTypeOK, RoutingInv, NEW s \in Scan, Fetch(s) PROVE RoutingInv'
<1>1. /\ TypeInbox /\ TypeScans
      /\ UNCHANGED <<inbox, outcome, token, message, routed, job>>
  BY TypeParts DEF Fetch, inboxVars
<1>2. pc'[s] = "loop" /\ pc[s] = "idle" /\ \A t \in Scan : t # s => pc'[t] = pc[t]
  BY <1>1 DEF Fetch, TypeScans
<1>3. ClaimsFit' /\ InboxFits'
  BY <1>1 DEF RoutingInv, ClaimsFit, InboxFits
<1>4. JobsFit'
  <2>1. job[s].event = None
    BY <1>2 DEF RoutingInv, JobsFit
  <2>2. QED
    BY <1>1, <1>2, <2>1 DEF RoutingInv, JobsFit
<1>5. ClaimantsFit'
  <2>1. job[s].event = None
    BY <1>2 DEF RoutingInv, JobsFit
  <2>2. QED
    BY <1>1, <1>2, <2>1 DEF RoutingInv, ClaimantsFit, Unhindered
<1>6. RowsAreCurrent'
  <2>1. ASSUME NEW t \in Scan, NEW q \in batch'[t], q.status # "PROCESSING"
        PROVE  inbox[q.event] = q.status /\ q.failed = (outcome[q.event] = "processing_error")
    <3>1. CASE t = s
      <4>1. q \in {[event |-> e, status |-> inbox[e], failed |-> outcome[e] = "processing_error"] :
                     e \in {d \in Event : Due(d)}}
        BY <1>1, <2>1, <3>1 DEF Fetch, TypeScans
      <4>2. QED
        BY <4>1
    <3>2. CASE t # s
      BY <1>1, <2>1, <3>2 DEF Fetch, TypeScans, RoutingInv, RowsAreCurrent
    <3>3. QED
      BY <3>1, <3>2
  <2>2. QED
    BY <1>1, <2>1 DEF RowsAreCurrent
<1>7. QED
  BY <1>3, <1>4, <1>5, <1>6 DEF RoutingInv

LEMMA ClaimEventRoutes ==
  ASSUME InboxTypeOK, RoutingInv, NEW s \in Scan, ClaimEvent(s) PROVE RoutingInv'
<1> DEFINE r == NextRow(s)
<1>1. /\ TypeInbox /\ TypeScans /\ pc[s] = "loop"
      /\ UNCHANGED <<outcome, message, routed>>
  BY TypeParts DEF ClaimEvent
<1>2. r \in batch[s] /\ r \in Row
  BY <1>1, NextRowFits DEF ClaimEvent
<1>3. r.event \in Event /\ r.event # None /\ r.status \in {"PENDING", "PROCESSING", "FAILED"}
  BY <1>2, Names DEF Row
<1>4. CASE inbox[r.event] = r.status
  <2>1. /\ inbox' = [inbox EXCEPT ![r.event] = "PROCESSING"]
        /\ token' = [token EXCEPT ![r.event] = s]
        /\ batch' = [t \in Scan |-> {q \in batch[t] : q.event # r.event}]
        /\ job' = [job EXCEPT ![s] = Claimed(r)]
        /\ pc' = [pc EXCEPT ![s] = "lookup"]
    BY <1>4 DEF ClaimEvent, Claimed
  <2>2. /\ Claimed(r).event = r.event /\ ~Claimed(r).known
        /\ Claimed(r).resume = (r.failed \/ r.status = "PROCESSING")
    BY <1>2, ClaimedFits
  <2>3. r.status # "PROCESSING" => r.failed = (outcome[r.event] = "processing_error")
    BY <1>2 DEF RoutingInv, RowsAreCurrent
  <2> HIDE DEF r
  <2>4. /\ \A e \in Event : /\ inbox'[e] = IF e = r.event THEN "PROCESSING" ELSE inbox[e]
                            /\ token'[e] = IF e = r.event THEN s ELSE token[e]
        /\ \A t \in Scan : /\ batch'[t] = {q \in batch[t] : q.event # r.event}
                           /\ job'[t] = IF t = s THEN Claimed(r) ELSE job[t]
                           /\ pc'[t] = IF t = s THEN "lookup" ELSE pc[t]
    BY <1>1, <2>1 DEF TypeInbox, TypeScans
  <2>5. ClaimsFit'
    BY <2>4 DEF RoutingInv, ClaimsFit
  <2>6. RowsAreCurrent'
    <3>1. ASSUME NEW t \in Scan, NEW q \in batch'[t], q.status # "PROCESSING"
          PROVE  inbox'[q.event] = q.status /\ q.failed = (outcome'[q.event] = "processing_error")
      <4>1. q \in batch[t] /\ q.event # r.event
        BY <2>4
      <4>2. q.event \in Event
        BY <1>1, <4>1 DEF TypeScans, Row
      <4>3. inbox[q.event] = q.status /\ q.failed = (outcome[q.event] = "processing_error")
        BY <3>1, <4>1 DEF RoutingInv, RowsAreCurrent
      <4>4. QED
        BY <1>1, <2>4, <4>1, <4>2, <4>3
    <3>2. QED
      BY <3>1 DEF RowsAreCurrent
  <2>7. InboxFits'
    BY <1>1, <2>2, <2>4 DEF RoutingInv, InboxFits
  <2>8. JobsFit'
    BY <1>1, <1>3, <2>2, <2>4 DEF RoutingInv, JobsFit, BeforeMessage
  <2>9. ClaimantsFit'
    <3>1. ASSUME ~Claimed(r).resume
          PROVE  \/ message[r.event] /\ routed[r.event]
                 \/ /\ \A t \in Scan : t # s => job[t].event # r.event
                    /\ ~message[r.event]
      <4>1. r.status \in {"PENDING", "FAILED"} /\ ~r.failed
        BY <1>3, <2>2, <3>1
      <4>2. CASE r.status = "PENDING"
        BY <1>3, <1>4, <4>2 DEF RoutingInv, InboxFits
      <4>3. CASE r.status = "FAILED"
        <5>1. outcome[r.event] = "attribution_retry"
          BY <1>3, <1>4, <2>3, <4>1, <4>3 DEF RoutingInv, InboxFits
        <5>2. QED
          BY <1>3, <5>1 DEF RoutingInv, InboxFits
      <4>4. QED
        BY <4>1, <4>2, <4>3
    <3>2. Claimed(r).resume \/ Unhindered(s)'
      BY <1>1, <2>2, <2>4, <3>1 DEF Unhindered
    <3>3. ASSUME NEW t \in Scan, t # s, job'[t].event # None, token'[job'[t].event] = t
          PROVE  /\ ~job'[t].resume => Unhindered(t)'
                 /\ pc'[t] = "settle" => routed'[job'[t].event]
      <4>1. job'[t] = job[t] /\ pc'[t] = pc[t] /\ job[t].event \in Event
        BY <1>1, <2>4, <3>3, JobTypes
      <4>2. job[t].event # r.event /\ token[job[t].event] = t
        BY <2>4, <3>3, <4>1
      <4>3. /\ ~job[t].resume => Unhindered(t)
            /\ pc[t] = "settle" => routed[job[t].event]
        BY <3>3, <4>1, <4>2 DEF RoutingInv, ClaimantsFit
      <4>4. Unhindered(t) => Unhindered(t)'
        BY <1>1, <2>2, <2>4, <4>1, <4>2 DEF Unhindered
      <4>5. QED
        BY <1>1, <4>1, <4>3, <4>4
    <3>4. job'[s] = Claimed(r) /\ pc'[s] = "lookup"
      BY <2>4
    <3>5. QED
      BY <3>2, <3>3, <3>4 DEF ClaimantsFit
  <2>10. QED
    BY <2>5, <2>6, <2>7, <2>8, <2>9 DEF RoutingInv
<1>5. CASE inbox[r.event] # r.status
  <2>1. batch' = [batch EXCEPT ![s] = @ \ {r}] /\ UNCHANGED <<inbox, token, job, pc>>
    BY <1>5 DEF ClaimEvent
  <2> HIDE DEF r
  <2>2. \A t \in Scan : batch'[t] \subseteq batch[t]
    BY <1>1, <2>1 DEF TypeScans
  <2>3. RowsAreCurrent'
    BY <1>1, <2>1, <2>2 DEF RoutingInv, RowsAreCurrent
  <2>4. QED
    BY <1>1, <2>1, <2>3 DEF RoutingInv, ClaimsFit, InboxFits, JobsFit, ClaimantsFit, Unhindered
<1>6. QED
  BY <1>4, <1>5

\* A scan that has no event left, at the end of an attempt or after a crash.
LEMMA NoJobRoutes ==
  ASSUME InboxTypeOK, RoutingInv, NEW s \in Scan,
         UNCHANGED <<inbox, outcome, token, message, routed>>,
         job' = [job EXCEPT ![s] = NoJob],
         NEW p \in {"idle", "loop"}, pc' = [pc EXCEPT ![s] = p],
         batch' = batch \/ batch' = [batch EXCEPT ![s] = {}]
  PROVE  RoutingInv'
<1>1. TypeScans
  BY TypeParts
<1>2. /\ pc'[s] = p /\ job'[s].event = None /\ \A t \in Scan : batch'[t] \subseteq batch[t]
      /\ \A t \in Scan : t # s => pc'[t] = pc[t] /\ job'[t] = job[t]
  BY <1>1 DEF TypeScans, NoJob
<1>3. ClaimsFit' /\ RowsAreCurrent'
  BY <1>2 DEF RoutingInv, ClaimsFit, RowsAreCurrent
<1>4. InboxFits'
  BY <1>2, Names DEF RoutingInv, InboxFits
<1>5. JobsFit'
  BY <1>2 DEF RoutingInv, JobsFit
<1>6. ClaimantsFit'
  <2>1. ASSUME NEW t \in Scan, t # s, job[t].event # None, Unhindered(t) PROVE Unhindered(t)'
    BY <1>2, <2>1 DEF Unhindered
  <2>2. QED
    BY <1>2, <2>1 DEF RoutingInv, ClaimantsFit
<1>7. QED
  BY <1>3, <1>4, <1>5, <1>6 DEF RoutingInv

\* The last update of an attempt.
LEMMA RecordRoutes ==
  ASSUME InboxTypeOK, RoutingInv, NEW s \in Scan, job[s].event # None,
         NEW st \in {"FAILED", "COMPLETED"},
         NEW out \in {"done", "processing_error", "attribution_retry"}, Record(s, st, out),
         st = "FAILED" => out \in {"processing_error", "attribution_retry"},
         token[job[s].event] = s /\ out # "processing_error" =>
           message[job[s].event] /\ routed[job[s].event],
         st = "COMPLETED" => out = "done",
         Done(s), UNCHANGED <<message, routed, batch>>
  PROVE  RoutingInv'
<1> DEFINE e == job[s].event
<1>1. TypeInbox /\ TypeScans /\ e \in Event
  BY TypeParts, JobTypes
<1>2. CASE token[e] = s
  <2>1. /\ inbox' = [inbox EXCEPT ![e] = st] /\ outcome' = [outcome EXCEPT ![e] = out]
        /\ token' = [token EXCEPT ![e] = None]
    BY <1>2 DEF Record
  <2>2. inbox[e] = "PROCESSING"
    BY <1>1, <1>2, Names DEF RoutingInv, ClaimsFit
  <2>3. out # "processing_error" => message[e] /\ routed[e]
    BY <1>2
  <2>4. job'[s].event = None /\ pc'[s] = "loop"
        /\ \A t \in Scan : t # s => pc'[t] = pc[t] /\ job'[t] = job[t]
    BY <1>1 DEF Done, TypeScans, NoJob
  <2> HIDE DEF e
  <2>5. \A d \in Event : /\ inbox'[d] = IF d = e THEN st ELSE inbox[d]
                         /\ outcome'[d] = IF d = e THEN out ELSE outcome[d]
                         /\ token'[d] = IF d = e THEN None ELSE token[d]
    BY <1>1, <2>1 DEF TypeInbox
  <2>6. ClaimsFit'
    BY <2>5 DEF RoutingInv, ClaimsFit
  <2>7. RowsAreCurrent'
    <3>1. ASSUME NEW t \in Scan, NEW q \in batch[t], q.status # "PROCESSING"
          PROVE  inbox'[q.event] = q.status /\ q.failed = (outcome'[q.event] = "processing_error")
      <4>1. inbox[q.event] = q.status /\ q.failed = (outcome[q.event] = "processing_error")
        BY <3>1 DEF RoutingInv, RowsAreCurrent
      <4>2. q.event \in Event /\ q.event # e
        BY <1>1, <2>2, <3>1, <4>1 DEF TypeScans, Row
      <4>3. QED
        BY <2>5, <4>1, <4>2
    <3>2. QED
      BY <3>1 DEF RowsAreCurrent
  <2>8. InboxFits'
    BY <2>3, <2>4, <2>5, Names DEF RoutingInv, InboxFits
  <2>9. JobsFit'
    BY <2>4 DEF RoutingInv, JobsFit
  <2>10. ClaimantsFit'
    <3>1. ASSUME NEW t \in Scan, job'[t].event # None, token'[job'[t].event] = t
          PROVE  /\ t # s /\ job'[t] = job[t] /\ pc'[t] = pc[t] /\ job[t].event # None
                 /\ token[job[t].event] = t
      BY <1>1, <2>4, <2>5, <3>1, JobTypes, Names
    <3>2. ASSUME NEW t \in Scan, t # s, job[t].event # None, Unhindered(t) PROVE Unhindered(t)'
      BY <2>4, <3>2 DEF Unhindered
    <3>3. QED
      BY <3>1, <3>2 DEF RoutingInv, ClaimantsFit
  <2>11. QED
    BY <2>6, <2>7, <2>8, <2>9, <2>10 DEF RoutingInv
<1>3. CASE token[e] # s
  BY <1>3, NoJobRoutes DEF Record, Done
<1>4. QED
  BY <1>2, <1>3

LEMMA ProcessRoutes ==
  ASSUME InboxTypeOK, RoutingInv, NEW s \in Scan, Process(s) PROVE RoutingInv'
<1>1. /\ \A p \in Working \ BeforeMessage : p \in Working /\ p \notin BeforeMessage
      /\ \A p \in BeforeMessage : p \in Working
      /\ \A p \in {"attribution", "proof", "reread", "route", "handoff", "opening", "notice",
                  "settle"} : p \in Working /\ p \notin BeforeMessage
      /\ \A p \in {"lookup", "conversation", "resume", "message"} : p \in BeforeMessage
  BY DEF Working, Statements, BeforeMessage
<1>2. job[s] \in Job /\ TypeScans /\ TypeInbox
  BY TypeParts DEF TypeScans
<1>3. pc[s] \notin {"idle", "loop"} => job[s].event # None
  BY DEF RoutingInv, JobsFit
<1>4. pc[s] \notin {"idle", "loop"} /\ pc[s] \notin BeforeMessage => message[job[s].event]
  BY <1>3 DEF RoutingInv, JobsFit
<1>5. /\ AfterProof(s) \in Working \ BeforeMessage
      /\ AfterProof(s) = "settle" => job[s].known /\ ~job[s].resume
  BY DEF AfterProof, Working, Statements, BeforeMessage
<1>6. job = [job EXCEPT ![s] = job[s]]
  BY <1>2 DEF TypeScans
<1>7. CASE Fetch(s) \/ ClaimEvent(s)
  BY <1>7, FetchRoutes, ClaimEventRoutes
<1>8. CASE EndOfBatch(s)
  <2>1. pc[s] = "loop" /\ pc'[s] = "idle" /\ \A t \in Scan : t # s => pc'[t] = pc[t]
    BY <1>2, <1>8 DEF EndOfBatch, TypeScans
  <2>2. UNCHANGED <<inbox, outcome, token, message, routed, batch, job>>
    BY <1>8 DEF EndOfBatch, inboxVars
  <2>3. job[s].event = None
    BY <2>1 DEF RoutingInv, JobsFit
  <2>4. ClaimsFit' /\ RowsAreCurrent' /\ InboxFits'
    BY <2>2 DEF RoutingInv, ClaimsFit, RowsAreCurrent, InboxFits
  <2>5. JobsFit' /\ ClaimantsFit'
    BY <2>1, <2>2, <2>3 DEF RoutingInv, JobsFit, ClaimantsFit, Unhindered
  <2>6. QED
    BY <2>4, <2>5 DEF RoutingInv
<1>9. CASE Lookup(s)
  <2>1. UNCHANGED <<inbox, outcome, token, batch, message, routed>>
    BY <1>9 DEF Lookup, inboxVars
  <2>2. CASE message[job[s].event]
    <3> DEFINE l == [job[s] EXCEPT !.known = TRUE]
    <3>1. l.event = job[s].event /\ l.resume = job[s].resume
      BY <1>2 DEF Job
    <3>2. job' = [job EXCEPT ![s] = l] /\ pc' = [pc EXCEPT ![s] = "attribution"]
      BY <1>9, <2>2 DEF Lookup, GoTo
    <3> HIDE DEF l
    <3>3. Moves(s, "attribution", l)
      BY <1>1, <1>3, <1>9, <2>1, <2>2, <3>1, <3>2 DEF Lookup, Moves, BeforeMessage
    <3>4. QED
      BY <1>1, <3>3, StatementRoutes
  <2>3. CASE ~message[job[s].event]
    <3>1. Moves(s, "conversation", job[s])
      BY <1>1, <1>3, <1>9, <2>1, <2>3 DEF Lookup, GoTo, Moves
    <3>2. QED
      BY <1>1, <3>1, StatementRoutes
  <2>4. QED
    BY <2>2, <2>3
<1>10. CASE ReadConversation(s)
  <2>1. UNCHANGED <<inbox, outcome, token, batch, message, routed>>
    BY <1>10 DEF ReadConversation, inboxVars
  <2>2. PICK v \in {"ACTIVE", "HANDED_OFF", "CLOSED"} \union {status}, next \in {"resume", "message"} :
          GoTo(s, next, [job[s] EXCEPT !.seen = v])
    BY <1>10 DEF ReadConversation
  <2> DEFINE l == [job[s] EXCEPT !.seen = v]
  <2>3. l.event = job[s].event /\ l.resume = job[s].resume /\ l.known = job[s].known
    BY <1>2 DEF Job
  <2>4. job' = [job EXCEPT ![s] = l] /\ pc' = [pc EXCEPT ![s] = next]
    BY <2>2 DEF GoTo
  <2> HIDE DEF l
  <2>5. Moves(s, next, l)
    BY <1>1, <1>3, <1>10, <2>1, <2>3, <2>4 DEF ReadConversation, Moves
  <2>6. QED
    BY <1>1, <2>5, StatementRoutes
<1>11. CASE WriteResume(s)
  <2>1. Moves(s, "message", job[s])
    BY <1>1, <1>3, <1>6, <1>11 DEF WriteResume, inboxVars, Moves
  <2>2. QED
    BY <1>1, <2>1, StatementRoutes
<1>12. CASE CreateMessage(s)
  <2>1. message'[job[s].event]
    BY <1>2, <1>3, <1>12, JobTypes DEF CreateMessage, TypeInbox
  <2>2. Moves(s, "attribution", job[s])
    BY <1>1, <1>3, <1>6, <1>12, <2>1 DEF CreateMessage, Moves, BeforeMessage
  <2>3. QED
    BY <1>1, <2>2, StatementRoutes
<1>13. CASE Attribute(s)
  <2>1. UNCHANGED <<inbox, outcome, token, batch, message, routed>>
    BY <1>13 DEF Attribute, inboxVars
  <2>2. PICK v \in BOOLEAN, next \in {"proof", AfterProof(s)} :
          GoTo(s, next, [job[s] EXCEPT !.retry = v])
    BY <1>13 DEF Attribute
  <2> DEFINE l == [job[s] EXCEPT !.retry = v]
  <2>3. l.event = job[s].event /\ l.resume = job[s].resume /\ l.known = job[s].known
    BY <1>2 DEF Job
  <2>4. job' = [job EXCEPT ![s] = l] /\ pc' = [pc EXCEPT ![s] = next]
    BY <2>2 DEF GoTo
  <2>5. pc[s] = "attribution"
    BY <1>13 DEF Attribute
  <2>6. next \in Working \ BeforeMessage
    BY <1>1, <1>5, <2>2
  <2>7. next = "settle" => job[s].known /\ ~job[s].resume
    BY <1>5, <2>2
  <2> HIDE DEF l
  <2>8. message[job[s].event]
    BY <1>4, <2>5 DEF BeforeMessage
  <2>9. Moves(s, next, l)
    BY <1>3, <2>1, <2>3, <2>4, <2>5, <2>6, <2>7, <2>8 DEF Moves
  <2>10. QED
    BY <2>6, <2>9, StatementRoutes
<1>14. CASE DetectProof(s)
  <2>1. pc[s] = "proof" /\ message[job[s].event]
    BY <1>4, <1>14 DEF DetectProof, BeforeMessage
  <2>2. CASE routed' = [routed EXCEPT ![job[s].event] = TRUE] /\ pc' = [pc EXCEPT ![s] = "settle"]
    <3>1. routed'[job[s].event]
      BY <1>2, <1>3, <2>1, <2>2, JobTypes DEF TypeInbox
    <3>2. Moves(s, "settle", job[s])
      BY <1>1, <1>3, <1>6, <1>14, <2>1, <2>2, <3>1 DEF DetectProof, Moves, BeforeMessage
    <3>3. QED
      BY <1>1, <3>2, StatementRoutes
  <2>3. CASE pc' = [pc EXCEPT ![s] = AfterProof(s)] /\ routed' = routed
    <3>1. Moves(s, AfterProof(s), job[s])
      BY <1>3, <1>5, <1>6, <1>14, <2>1, <2>3 DEF DetectProof, Moves
    <3>2. QED
      BY <1>5, <3>1, StatementRoutes
  <2>4. QED
    BY <1>14, <2>2, <2>3 DEF DetectProof
<1>15. CASE Reread(s)
  <2>1. UNCHANGED <<inbox, outcome, token, batch, message, routed>>
    BY <1>15 DEF Reread, inboxVars
  <2> DEFINE l == [job[s] EXCEPT !.seen = status]
  <2>2. l.event = job[s].event /\ l.resume = job[s].resume /\ l.known = job[s].known
    BY <1>2 DEF Job
  <2>3. job' = [job EXCEPT ![s] = l] /\ pc' = [pc EXCEPT ![s] = "route"] /\ pc[s] = "reread"
    BY <1>15 DEF Reread, GoTo
  <2> HIDE DEF l
  <2>4. message[job[s].event]
    BY <1>4, <2>3 DEF BeforeMessage
  <2>5. Moves(s, "route", l)
    BY <1>1, <1>3, <2>1, <2>2, <2>3, <2>4 DEF Moves, BeforeMessage
  <2>6. QED
    BY <1>1, <2>5, StatementRoutes
<1>16. CASE RouteDirectly(s)
  <2>1. pc[s] = "route" /\ routed'[job[s].event]
    BY <1>2, <1>3, <1>16, JobTypes DEF RouteDirectly, Routed, TypeInbox
  <2>2. message[job[s].event]
    BY <1>4, <2>1 DEF BeforeMessage
  <2>3. Moves(s, "settle", job[s])
    BY <1>1, <1>3, <1>16, <2>1, <2>2 DEF RouteDirectly, Routed, GoTo, Moves, BeforeMessage
  <2>4. QED
    BY <1>1, <2>3, StatementRoutes
<1>17. CASE RouteOn(s)
  <2>1. UNCHANGED <<inbox, outcome, token, batch, message, routed>> /\ pc[s] = "route"
    BY <1>17 DEF RouteOn, inboxVars
  <2>2. PICK w \in {"campaign", "support", job[s].why}, next \in {"handoff", "notice"} :
          GoTo(s, next, [job[s] EXCEPT !.why = w])
    <3>1. job[s] = [job[s] EXCEPT !.why = job[s].why]
      BY <1>2 DEF Job
    <3>2. QED
      BY <1>17, <3>1 DEF RouteOn
  <2> DEFINE l == [job[s] EXCEPT !.why = w]
  <2>3. l.event = job[s].event /\ l.resume = job[s].resume /\ l.known = job[s].known
    BY <1>2 DEF Job
  <2>4. job' = [job EXCEPT ![s] = l] /\ pc' = [pc EXCEPT ![s] = next]
    BY <2>2 DEF GoTo
  <2> HIDE DEF l
  <2>5. message[job[s].event]
    BY <1>4, <2>1 DEF BeforeMessage
  <2>6. Moves(s, next, l)
    BY <1>1, <1>3, <2>1, <2>3, <2>4, <2>5 DEF Moves
  <2>7. QED
    BY <1>1, <2>6, StatementRoutes
<1>18. CASE OpenHandoff(s)
  <2>1. message[job[s].event]
    BY <1>4, <1>18 DEF OpenHandoff, BeforeMessage
  <2>2. Moves(s, "opening", job[s])
    BY <1>1, <1>3, <1>6, <1>18, <2>1 DEF OpenHandoff, inboxVars, Moves, BeforeMessage
  <2>3. QED
    BY <1>1, <2>2, StatementRoutes
<1>19. CASE HandoffOpened(s)
  <2>1. pc[s] = "opening" /\ message[job[s].event]
    BY <1>4, <1>19 DEF HandoffOpened, BeforeMessage
  <2>2. CASE pc' = [pc EXCEPT ![s] = "settle"] /\ Routed(s)
    <3>1. routed'[job[s].event]
      BY <1>2, <1>3, <2>1, <2>2, JobTypes DEF Routed, TypeInbox
    <3>2. Moves(s, "settle", job[s])
      BY <1>1, <1>3, <1>6, <1>19, <2>1, <2>2, <3>1 DEF HandoffOpened, Routed, Moves, BeforeMessage
    <3>3. QED
      BY <1>1, <3>2, StatementRoutes
  <2>3. CASE pc' = [pc EXCEPT ![s] = "notice"] /\ UNCHANGED routed
    <3>1. Moves(s, "notice", job[s])
      BY <1>1, <1>3, <1>6, <1>19, <2>1, <2>3 DEF HandoffOpened, Moves, BeforeMessage
    <3>2. QED
      BY <1>1, <3>1, StatementRoutes
  <2>4. QED
    BY <1>19, <2>2, <2>3 DEF HandoffOpened
<1>20. CASE Notify(s)
  <2>1. pc[s] = "notice" /\ routed'[job[s].event]
    BY <1>2, <1>3, <1>20, JobTypes DEF Notify, Routed, TypeInbox
  <2>2. message[job[s].event]
    BY <1>4, <2>1 DEF BeforeMessage
  <2>3. Moves(s, "settle", job[s])
    BY <1>1, <1>3, <1>6, <1>20, <2>1, <2>2 DEF Notify, Routed, Moves, BeforeMessage
  <2>4. QED
    BY <1>1, <2>3, StatementRoutes
<1>21. CASE Settle(s)
  <2>1. pc[s] = "settle" /\ job[s].event # None /\ message[job[s].event]
    BY <1>3, <1>4, <1>21 DEF Settle, BeforeMessage
  <2>2. token[job[s].event] = s => routed[job[s].event]
    BY <2>1 DEF RoutingInv, ClaimantsFit
  <2>3. CASE job[s].retry
    BY <1>21, <2>1, <2>2, <2>3, RecordRoutes DEF Settle
  <2>4. CASE ~job[s].retry
    BY <1>21, <2>1, <2>2, <2>4, RecordRoutes DEF Settle
  <2>5. QED
    BY <2>3, <2>4
<1>22. QED
  BY <1>7, <1>8, <1>9, <1>10, <1>11, <1>12, <1>13, <1>14, <1>15, <1>16, <1>17, <1>18, <1>19,
     <1>20, <1>21 DEF Process

LEMMA RoutingInitially == Init => RoutingInv
<1>1. SUFFICES ASSUME Init PROVE RoutingInv
  OBVIOUS
<1>2. /\ \A e \in Event : /\ inbox[e] = "absent" /\ outcome[e] = "none" /\ token[e] = None
                         /\ ~message[e]
      /\ \A s \in Scan : pc[s] = "idle" /\ batch[s] = {} /\ job[s].event = None
  BY <1>1 DEF Init, NoJob
<1>3. QED
  BY <1>2, Names DEF RoutingInv, ClaimsFit, RowsAreCurrent, InboxFits, JobsFit, ClaimantsFit

LEMMA RoutingContinues ==
  ASSUME InboxTypeOK, RoutingInv, [Next]_vars PROVE RoutingInv'
<1>1. CASE \E e \in Event : Accept(e)
  BY <1>1, AcceptRoutes
<1>2. CASE \E e \in Event : LeaseEnds(e)
  BY <1>2, RoutingKept DEF LeaseEnds, RoutingOf
<1>3. CASE \E s \in Scan : Process(s)
  BY <1>3, ProcessRoutes
<1>4. CASE \E s \in Scan : Throws(s)
  BY <1>4, RecordRoutes DEF Throws, Processing
<1>5. CASE \E s \in Scan : Crash(s)
  BY <1>5, NoJobRoutes DEF Crash, inboxVars
<1>6. CASE \E a \in Operator : UNCHANGED <<inboxVars, scanVars>>
  BY <1>6, RoutingKept DEF inboxVars, scanVars, RoutingOf
<1>7. CASE UNCHANGED vars
  BY <1>7, RoutingKept DEF vars, inboxVars, scanVars, RoutingOf
<1>8. QED
  BY <1>1, <1>2, <1>3, <1>4, <1>5, <1>6, <1>7 DEF Next

\* An event is completed only when its message was stored and dealt with by some attempt,
\* however the attempts overlapped, failed or died: scan and processIncomingMessage.
THEOREM CompletedEventsWereRouted == Spec => []CompletedWereRouted
<1>1. Init => RoutingInv
  BY RoutingInitially
<1>2. InboxTypeOK /\ RoutingInv /\ [Next]_vars => RoutingInv'
  BY RoutingContinues
<1>3. RoutingInv => CompletedWereRouted
  BY DEF RoutingInv, InboxFits, CompletedWereRouted
<1>4. QED
  BY <1>1, <1>2, <1>3, InboxTypeCorrect, PTL DEF Spec

\* The last update of an attempt does not touch an event that is completed.
LEMMA RecordLeaves ==
  ASSUME InboxTypeOK, RoutingInv, NEW s \in Scan, NEW st, NEW out, Record(s, st, out),
         NEW e \in Event, inbox[e] = "COMPLETED"
  PROVE  inbox'[e] = "COMPLETED" /\ token'[e] = token[e]
<1>1. TypeInbox /\ token[e] = None /\ s # None
  BY TypeParts, Names DEF RoutingInv, ClaimsFit
<1>2. CASE token[job[s].event] = s
  <2>1. job[s].event # e
    BY <1>1, <1>2
  <2>2. QED
    BY <1>1, <1>2, <2>1 DEF Record, TypeInbox
<1>3. CASE token[job[s].event] # s
  BY <1>3 DEF Record
<1>4. QED
  BY <1>2, <1>3

LEMMA CompletedStays ==
  ASSUME InboxTypeOK, RoutingInv, [Next]_vars, NEW e \in Event, inbox[e] = "COMPLETED"
  PROVE  inbox'[e] = "COMPLETED" /\ token'[e] = token[e]
<1>1. TypeInbox /\ TypeScans
  BY TypeParts
<1>2. CASE \E d \in Event : Accept(d)
  BY <1>1, <1>2 DEF Accept, TypeInbox
<1>3. CASE \E s \in Scan : ClaimEvent(s)
  <2>1. PICK s \in Scan : ClaimEvent(s)
    BY <1>3
  <2> DEFINE r == NextRow(s)
  <2>2. r.status # "COMPLETED"
    BY <1>1, <2>1, NextRowFits DEF ClaimEvent, Row
  <2>3. \/ UNCHANGED <<inbox, token>>
        \/ /\ inbox[r.event] = r.status
           /\ inbox' = [inbox EXCEPT ![r.event] = "PROCESSING"]
           /\ token' = [token EXCEPT ![r.event] = s]
    BY <2>1 DEF ClaimEvent
  <2> HIDE DEF r
  <2>4. QED
    BY <1>1, <2>2, <2>3 DEF TypeInbox
<1>4. CASE \E s \in Scan : Settle(s) \/ Throws(s)
  BY <1>4, RecordLeaves DEF Settle, Throws
<1>5. CASE UNCHANGED <<inbox, token>>
  BY <1>5
<1>6. ASSUME NEW s \in Scan, Process(s), ~ClaimEvent(s), ~Settle(s) PROVE UNCHANGED <<inbox, token>>
  BY <1>6 DEF Process, Fetch, EndOfBatch, Lookup, ReadConversation, WriteResume, CreateMessage,
     Attribute, DetectProof, Reread, RouteDirectly, RouteOn, OpenHandoff, HandoffOpened, Notify,
     inboxVars
<1>7. ASSUME NEW s \in Scan, Crash(s) PROVE UNCHANGED <<inbox, token>>
  BY <1>7 DEF Crash, inboxVars
<1>8. ASSUME NEW d \in Event, LeaseEnds(d) PROVE UNCHANGED <<inbox, token>>
  BY <1>8 DEF LeaseEnds
<1>9. CASE UNCHANGED inboxVars
  BY <1>9 DEF inboxVars
<1>10. QED
  BY <1>2, <1>3, <1>4, <1>5, <1>6, <1>7, <1>8, <1>9 DEF Next, vars

\* A completed event is never processed again: no other scan claims it, and an attempt that
\* lost its lease and comes back does not write over what the later one recorded.
THEOREM CompletedEventsStay == Spec => CompletedIsFinal
<1>1. Init => RoutingInv
  BY RoutingInitially
<1>2. InboxTypeOK /\ RoutingInv /\ [Next]_vars => RoutingInv'
  BY RoutingContinues
<1>3. InboxTypeOK /\ RoutingInv /\ [Next]_vars
        => [\A e \in Event : inbox[e] = "COMPLETED" =>
              inbox'[e] = "COMPLETED" /\ token'[e] = token[e]]_vars
  BY CompletedStays
<1>4. QED
  BY <1>1, <1>2, <1>3, InboxTypeCorrect, PTL DEF Spec, CompletedIsFinal

--------------------------------------------------------------------------------
(* The conversions for Google: AdvertisingOutbox.                               *)

Attribution == [touch : Touch, confirmed : BOOLEAN, lead : BOOLEAN]
Conversion == [recorded : BOOLEAN, touch : Touch \union {NoTouch}]
UploadRun == [step : {"idle", "load", "ineligible", "check", "checkAgain", "post", "accepted",
                      "noId", "transient", "permanent", "diagnose"},
              to : Destination \union {NoDestination}]
PrepRun == [step : {"idle", "adopt", "freeze", "queue", "enqueue"},
            milestone : Milestone \union {Started}, seen : SyncJob]

\* The rows, and the runs that remember them.
RowsFit ==
  /\ attribution \in Seq(Attribution)
  /\ conversion \in [Milestone -> Conversion]
  /\ syncJob \in [Milestone -> SyncJob]
  /\ settings \in Settings

RunsFit ==
  /\ upload \in [Milestone -> UploadRun]
  /\ prep \in [Preparer -> PrepRun]

\* The destination of a milestone is in its row.
Frozen(c) == syncJob[c].snapshot # NoDestination

\* Only what was recorded has a destination, and only what has one is queued.
RowsAgree ==
  \A c \in Milestone : /\ Frozen(c) => conversion[c].recorded
                       /\ syncJob[c].status = "QUEUED" => Frozen(c)

\* An upload knows the destination its row has.
UploadsAgree ==
  \A c \in Milestone :
    /\ upload[c].step # "idle" => Frozen(c)
    /\ upload[c].step \in {"check", "checkAgain", "post"} => upload[c].to = syncJob[c].snapshot

(* A preparation that has passed the freezing, or that found the row queued, *)
(* deals with a row that has its destination; one it saw is still there.     *)
PrepsAgree ==
  \A p \in Preparer :
    prep[p].step # "idle" =>
      /\ PrepOf(p) \in Milestone /\ conversion[PrepOf(p)].recorded
      /\ prep[p].step \in {"queue", "enqueue"} \/ prep[p].seen.status = "QUEUED"
           => Frozen(PrepOf(p))
      /\ prep[p].seen.snapshot # NoDestination
           => syncJob[PrepOf(p)].snapshot = prep[p].seen.snapshot

\* What Google may have received was for the destination in the row.
SentAgree ==
  \A x \in uploaded : /\ x[1] \in Milestone /\ Frozen(x[1])
                      /\ x[2] = syncJob[x[1]].snapshot

OutboxInv == RowsFit /\ RunsFit /\ RowsAgree /\ UploadsAgree /\ PrepsAgree /\ SentAgree

-----------------------------------------------------------------------------

\* A step that writes rows writes no destination over another, and forgets no milestone.
DestinationsStay ==
  \A c \in Milestone :
    /\ Frozen(c) => syncJob'[c].snapshot = syncJob[c].snapshot
    /\ conversion[c].recorded => conversion'[c].recorded

LEMMA UploadsKept ==
  ASSUME UploadsAgree, DestinationsStay, UNCHANGED upload PROVE UploadsAgree'
BY DEF UploadsAgree, DestinationsStay, Frozen

LEMMA PrepsKept ==
  ASSUME PrepsAgree, DestinationsStay, UNCHANGED prep PROVE PrepsAgree'
BY DEF PrepsAgree, DestinationsStay, Frozen, PrepOf

LEMMA SentKept ==
  ASSUME SentAgree, DestinationsStay, UNCHANGED uploaded PROVE SentAgree'
BY DEF SentAgree, DestinationsStay, Frozen

\* A status that is written leaves the destination alone.
LEMMA StatusWrites ==
  ASSUME RowsFit, NEW c \in Milestone, NEW s \in SyncStatus, NEW due \in BOOLEAN,
         syncJob' = [syncJob EXCEPT ![c].status = s, ![c].due = due]
  PROVE  /\ syncJob' \in [Milestone -> SyncJob]
         /\ \A d \in Milestone : syncJob'[d].snapshot = syncJob[d].snapshot
         /\ syncJob'[c].status = s
         /\ \A d \in Milestone : d # c => syncJob'[d] = syncJob[d]
<1>1. syncJob[c] \in SyncJob
  BY DEF RowsFit
<1>2. [syncJob[c] EXCEPT !.status = s, !.due = due] \in SyncJob
  BY <1>1 DEF SyncJob
<1>3. /\ [syncJob[c] EXCEPT !.status = s, !.due = due].snapshot = syncJob[c].snapshot
      /\ [syncJob[c] EXCEPT !.status = s, !.due = due].status = s
  BY <1>1 DEF SyncJob
<1>4. syncJob' = [syncJob EXCEPT ![c] = [syncJob[c] EXCEPT !.status = s, !.due = due]]
  BY DEF RowsFit
<1>5. QED
  BY <1>2, <1>3, <1>4 DEF RowsFit

\* The same for the two ways a status is written.
LEMMA SetStatusWrites ==
  ASSUME RowsFit, NEW c \in Milestone,
         \/ \E s \in SyncStatus : SetStatus(c, s)
         \/ SetLater(c)
  PROVE  /\ syncJob' \in [Milestone -> SyncJob]
         /\ \A d \in Milestone : syncJob'[d].snapshot = syncJob[d].snapshot
         /\ \A d \in Milestone : d # c => syncJob'[d] = syncJob[d]
<1>1. "RETRYING" \in SyncStatus
  BY DEF SyncStatus, Open
<1>2. QED
  BY <1>1, StatusWrites DEF SetStatus, SetLater

\* What is in the list of attributions is one.
LEMMA AttributionsFit == RowsFit => \A i \in DOMAIN attribution : attribution[i] \in Attribution
<1>1. \A s \in Seq(Attribution) : \A i \in DOMAIN s : s[i] \in Attribution
  OBVIOUS
<1>2. QED
  BY <1>1 DEF RowsFit

\* Where the milestone is credited to is a touch, or nothing.
LEMMA TouchFits == RowsFit => TouchOrNone \in Touch \union {NoTouch}
<1>1. SUFFICES ASSUME RowsFit PROVE TouchOrNone \in Touch \union {NoTouch}
  OBVIOUS
<1>2. \A i \in DOMAIN attribution : attribution[i].touch \in Touch
  BY <1>1, AttributionsFit DEF Attribution
<1>3. FirstConfirmed \subseteq Touch
  BY <1>2 DEF FirstConfirmed
<1>4. QED
  BY <1>3 DEF TouchOrNone

LEMMA OutboxInit == AdInit => OutboxInv
<1>1. SUFFICES ASSUME AdInit PROVE OutboxInv
  OBVIOUS
<1>2. NoSyncJob \in SyncJob
  BY DEF NoSyncJob, SyncJob, SyncStatus
<1>3. RowsFit
  BY <1>1, <1>2 DEF AdInit, RowsFit, Conversion
<1>4. RunsFit
  BY <1>1, <1>2 DEF AdInit, RunsFit, NoUpload, NoPrep, UploadRun, PrepRun
<1>5. \A c \in Milestone : ~Frozen(c) /\ syncJob[c].status = "none"
  BY <1>1 DEF AdInit, Frozen, NoSyncJob
<1>6. RowsAgree /\ UploadsAgree /\ PrepsAgree /\ SentAgree
  BY <1>1, <1>5 DEF AdInit, RowsAgree, UploadsAgree, PrepsAgree, SentAgree, NoUpload, NoPrep
<1>7. QED
  BY <1>3, <1>4, <1>6 DEF OutboxInv

-----------------------------------------------------------------------------
(* What is recorded: a milestone that is new has no destination yet.        *)

\* A new row takes the place of one that was never there.
LEMMA RecordKeeps ==
  ASSUME OutboxInv, NEW c \in Milestone, NEW t \in Touch \union {NoTouch},
         ~conversion[c].recorded,
         conversion' = [conversion EXCEPT ![c] = [recorded |-> TRUE, touch |-> t]],
         syncJob' = [syncJob EXCEPT ![c] = Pending],
         UNCHANGED <<settings, upload, prep, uploaded>>,
         attribution' \in Seq(Attribution)
  PROVE  OutboxInv'
<1>1. RowsFit /\ RunsFit /\ RowsAgree /\ UploadsAgree /\ PrepsAgree /\ SentAgree
  BY DEF OutboxInv
<1>2. ~Frozen(c)
  BY <1>1 DEF RowsAgree
<1>3. /\ Pending \in SyncJob /\ Pending.snapshot = NoDestination /\ Pending.status = "PENDING"
  BY <1>1 DEF Pending, NoSyncJob, SyncJob, SyncStatus, Open, RowsFit, Settings
<1>4. RowsFit' /\ RunsFit'
  BY <1>1, <1>3 DEF RowsFit, RunsFit, Conversion
<1>5. DestinationsStay
  BY <1>1, <1>2 DEF DestinationsStay, RowsFit
<1>6. RowsAgree'
  BY <1>1, <1>3 DEF RowsAgree, RowsFit, Frozen
<1>7. QED
  BY <1>1, <1>4, <1>5, <1>6, UploadsKept, PrepsKept, SentKept DEF OutboxInv

LEMMA ClaimReferenceKeeps ==
  ASSUME OutboxInv, NEW t \in Touch, NEW l \in BOOLEAN, ClaimReference(t, l)
  PROVE  OutboxInv'
<1>1. attribution' \in Seq(Attribution)
  BY DEF OutboxInv, RowsFit, ClaimReference, Attribution
<1>2. CASE l /\ Started \in Milestone /\ ~conversion[Started].recorded
  BY <1>1, <1>2, RecordKeeps DEF ClaimReference
<1>3. CASE ~(l /\ Started \in Milestone /\ ~conversion[Started].recorded)
  <2>1. UNCHANGED <<conversion, syncJob, settings, upload, prep, uploaded>>
    BY <1>3 DEF ClaimReference
  <2>2. QED
    BY <1>1, <2>1 DEF OutboxInv, RowsFit, RunsFit, RowsAgree, UploadsAgree, PrepsAgree,
                      SentAgree, Frozen, PrepOf
<1>4. QED
  BY <1>2, <1>3

LEMMA RecordMilestoneKeeps ==
  ASSUME OutboxInv, NEW c \in Milestone, NEW t \in Touch \union {NoTouch}, RecordMilestone(c, t)
  PROVE  OutboxInv'
BY RecordKeeps DEF RecordMilestone, OutboxInv, RowsFit

\* Rows whose statuses change, none of them to QUEUED, while no run moves.
LEMMA RowsChange ==
  ASSUME OutboxInv, RowsFit', UNCHANGED <<conversion, upload, prep, uploaded>>,
         \A c \in Milestone : /\ syncJob'[c].snapshot = syncJob[c].snapshot
                              /\ syncJob'[c].status \in {syncJob[c].status, "CANCELLED",
                                                         "ACCEPTED", "PARTIAL", "FAILED"}
  PROVE  OutboxInv'
<1>1. RowsFit /\ RunsFit /\ RowsAgree /\ UploadsAgree /\ PrepsAgree /\ SentAgree
  BY DEF OutboxInv
<1>2. DestinationsStay
  BY DEF DestinationsStay
<1>3. RowsAgree'
  BY <1>1 DEF RowsAgree, Frozen
<1>4. RunsFit'
  BY <1>1 DEF RunsFit
<1>5. QED
  BY <1>1, <1>2, <1>3, <1>4, UploadsKept, PrepsKept, SentKept DEF OutboxInv

LEMMA OperatorsKeep ==
  ASSUME OutboxInv, FindTouches \/ RevokeContact \/ ChangeSettings PROVE OutboxInv'
<1>1. RowsFit
  BY DEF OutboxInv
<1>2. CASE FindTouches
  BY <1>1, <1>2, RowsChange DEF FindTouches, rows, RowsFit
<1>3. CASE RevokeContact
  <2>1. attribution' \in Seq(Attribution)
    <3>1. \A i \in DOMAIN attribution : [attribution[i] EXCEPT !.confirmed = FALSE] \in Attribution
      BY <1>1, AttributionsFit DEF Attribution
    <3>2. DOMAIN attribution = 1..Len(attribution) /\ Len(attribution) \in Nat
      BY <1>1 DEF RowsFit
    <3>3. QED
      BY <1>3, <3>1, <3>2 DEF RevokeContact
  <2>2. \A c \in Milestone :
          /\ syncJob'[c] \in SyncJob /\ syncJob'[c].snapshot = syncJob[c].snapshot
          /\ syncJob'[c].status \in {syncJob[c].status, "CANCELLED"}
    BY <1>1, <1>3 DEF RevokeContact, RowsFit, SyncJob, SyncStatus
  <2>3. syncJob' \in [Milestone -> SyncJob]
    BY <1>3, <2>2 DEF RevokeContact
  <2>4. RowsFit'
    BY <1>1, <1>3, <2>1, <2>3 DEF RevokeContact, RowsFit
  <2>5. QED
    BY <1>3, <2>2, <2>4, RowsChange DEF RevokeContact
<1>4. CASE ChangeSettings
  BY <1>1, <1>4, RowsChange DEF ChangeSettings, RowsFit
<1>5. QED
  BY <1>2, <1>3, <1>4

\* Time, diagnostics, and the death of a process.
LEMMA DiagnosticsKeep ==
  ASSUME OutboxInv, NEW c \in Milestone,
         \/ TimePasses(c) \/ Diagnose(c) \/ Verdict(c) \/ NoVerdict(c) \/ RecoverDiagnostics(c)
  PROVE  OutboxInv'
<1>1. RowsFit
  BY DEF OutboxInv
<1>2. CASE TimePasses(c)
  <2>1. /\ syncJob' \in [Milestone -> SyncJob]
        /\ \A d \in Milestone : /\ syncJob'[d].snapshot = syncJob[d].snapshot
                                /\ syncJob'[d].status = syncJob[d].status
    BY <1>1, <1>2 DEF TimePasses, RowsFit, SyncJob
  <2>2. QED
    BY <1>1, <1>2, <2>1, RowsChange DEF TimePasses, RowsFit
<1>3. CASE Verdict(c)
  <2>1. PICK s \in {"ACCEPTED", "PARTIAL", "FAILED"} : SetStatus(c, s)
    BY <1>3 DEF Verdict
  <2>2. s \in SyncStatus
    BY DEF SyncStatus
  <2>3. /\ syncJob' \in [Milestone -> SyncJob]
        /\ \A d \in Milestone : syncJob'[d].snapshot = syncJob[d].snapshot
        /\ syncJob'[c].status = s
        /\ \A d \in Milestone : d # c => syncJob'[d] = syncJob[d]
    BY <1>1, <2>1, <2>2, StatusWrites DEF SetStatus
  <2>4. RowsFit'
    BY <1>1, <1>3, <2>3 DEF Verdict, RowsFit
  <2>5. \A d \in Milestone : syncJob'[d].status \in {syncJob[d].status, "ACCEPTED", "PARTIAL",
                                                     "FAILED"}
    BY <2>3
  <2>6. QED
    BY <1>3, <2>3, <2>4, <2>5, RowsChange DEF Verdict
<1>4. CASE Diagnose(c) \/ NoVerdict(c) \/ RecoverDiagnostics(c)
  BY <1>1, <1>4, RowsChange DEF Diagnose, NoVerdict, RecoverDiagnostics, rows, RowsFit
<1>5. QED
  BY <1>2, <1>3, <1>4

-----------------------------------------------------------------------------
(* prepareSync.                                                             *)

\* A preparation that ends, or goes on at a later step, while the others stand still.
LEMMA PrepMoves ==
  ASSUME RunsFit, NEW p \in Preparer, NEW step \in {"freeze", "queue", "enqueue"},
         PrepareAt(p, step) \/ Return(p)
  PROVE  /\ prep' \in [Preparer -> PrepRun]
         /\ \A q \in Preparer : q # p => prep'[q] = prep[q]
         /\ \/ prep'[p].step = "idle"
            \/ /\ prep'[p].step = step /\ prep'[p].milestone = prep[p].milestone
               /\ prep'[p].seen = prep[p].seen
<1>1. NoPrep \in PrepRun /\ NoPrep.step = "idle"
  BY DEF NoPrep, PrepRun, NoSyncJob, SyncJob, SyncStatus
<1>2. CASE Return(p)
  BY <1>1, <1>2 DEF Return, RunsFit
<1>3. CASE PrepareAt(p, step)
  BY <1>3 DEF PrepareAt, RunsFit, PrepRun
<1>4. QED
  BY <1>2, <1>3

\* The preparation p moves over rows that keep their destinations; what it needs of its own
\* row at the next step is shown apart.
LEMMA PrepKeeps ==
  ASSUME OutboxInv, NEW p \in Preparer, prep[p].step # "idle",
         NEW step \in {"freeze", "queue", "enqueue"}, PrepareAt(p, step) \/ Return(p),
         RowsFit', RowsAgree', DestinationsStay, UNCHANGED <<upload, uploaded>>,
         prep'[p].step \in {"queue", "enqueue"} => Frozen(PrepOf(p))',
         prep'[p].step # "idle" /\ prep[p].seen.snapshot # NoDestination
           => syncJob'[prep[p].milestone].snapshot = prep[p].seen.snapshot
  PROVE  OutboxInv'
<1>1. RowsFit /\ RunsFit /\ RowsAgree /\ UploadsAgree /\ PrepsAgree /\ SentAgree
  BY DEF OutboxInv
<1>2. /\ prep' \in [Preparer -> PrepRun]
      /\ \A q \in Preparer : q # p => prep'[q] = prep[q]
      /\ \/ prep'[p].step = "idle"
         \/ /\ prep'[p].step = step /\ prep'[p].milestone = prep[p].milestone
            /\ prep'[p].seen = prep[p].seen
  BY <1>1, PrepMoves
<1>3. RunsFit'
  BY <1>1, <1>2 DEF RunsFit
<1>4. ASSUME NEW q \in Preparer, prep'[q].step # "idle"
      PROVE  /\ PrepOf(q)' \in Milestone /\ conversion'[PrepOf(q)'].recorded
             /\ prep'[q].step \in {"queue", "enqueue"} \/ prep'[q].seen.status = "QUEUED"
                  => Frozen(PrepOf(q))'
             /\ prep'[q].seen.snapshot # NoDestination
                  => syncJob'[PrepOf(q)'].snapshot = prep'[q].seen.snapshot
  <2>1. CASE q # p
    BY <1>1, <1>2, <1>4, <2>1 DEF PrepsAgree, DestinationsStay, Frozen, PrepOf
  <2>2. CASE q = p
    <3>1. /\ PrepOf(p)' = PrepOf(p) /\ PrepOf(p) \in Milestone
          /\ conversion[PrepOf(p)].recorded /\ prep'[p].seen = prep[p].seen
          /\ prep[p].seen.status = "QUEUED" => Frozen(PrepOf(p))
      BY <1>1, <1>2, <1>4, <2>2 DEF PrepsAgree, PrepOf
    <3>2. prep'[p].seen.status = "QUEUED" => Frozen(PrepOf(p))'
      BY <3>1 DEF DestinationsStay, Frozen
    <3>3. QED
      BY <1>4, <2>2, <3>1, <3>2 DEF DestinationsStay, PrepOf
  <2>3. QED
    BY <2>1, <2>2
<1>5. PrepsAgree'
  BY <1>4 DEF PrepsAgree
<1>6. QED
  BY <1>1, <1>3, <1>5, UploadsKept, SentKept DEF OutboxInv

LEMMA ReadJobKeeps ==
  ASSUME OutboxInv, NEW p \in Preparer, NEW c \in Milestone, ReadJob(p, c) PROVE OutboxInv'
<1>1. RowsFit /\ RunsFit /\ RowsAgree /\ UploadsAgree /\ PrepsAgree /\ SentAgree
  BY DEF OutboxInv
<1>2. UNCHANGED <<attribution, conversion, syncJob, settings, upload, uploaded>>
  BY DEF ReadJob, rows
<1>3. /\ prep' = [prep EXCEPT ![p] = [step |-> "adopt", milestone |-> c, seen |-> syncJob[c]]]
      /\ conversion[c].recorded /\ syncJob[c] \in SyncJob
  BY <1>1 DEF ReadJob, RowsFit
<1>4. RowsFit' /\ RunsFit'
  BY <1>1, <1>2, <1>3 DEF RowsFit, RunsFit, PrepRun
<1>5. RowsAgree' /\ UploadsAgree' /\ SentAgree'
  BY <1>1, <1>2 DEF RowsAgree, UploadsAgree, SentAgree, Frozen
<1>6. PrepsAgree'
  <2>1. /\ prep'[p].step = "adopt" /\ prep'[p].milestone = c /\ prep'[p].seen = syncJob[c]
        /\ \A q \in Preparer : q # p => prep'[q] = prep[q]
    BY <1>1, <1>3 DEF RunsFit
  <2>2. QED
    BY <1>1, <1>2, <1>3, <2>1 DEF PrepsAgree, RowsAgree, Frozen, PrepOf
<1>7. QED
  BY <1>4, <1>5, <1>6 DEF OutboxInv

LEMMA AdoptTouchKeeps ==
  ASSUME OutboxInv, NEW p \in Preparer, AdoptTouch(p) PROVE OutboxInv'
<1> DEFINE c == prep[p].milestone
<1>1. RowsFit /\ RunsFit /\ RowsAgree /\ PrepsAgree /\ prep[p].step # "idle" /\ c \in Milestone
  BY DEF OutboxInv, AdoptTouch, PrepsAgree, PrepOf
<1>2. UNCHANGED <<attribution, syncJob, settings, upload, uploaded>>
  BY DEF AdoptTouch
<1>3. /\ conversion' \in [Milestone -> Conversion]
      /\ \A d \in Milestone : conversion'[d].recorded = conversion[d].recorded
  <2>1. CASE conversion' = conversion
    BY <1>1, <2>1 DEF RowsFit
  <2>2. CASE conversion' = [conversion EXCEPT ![c].touch = TouchOrNone]
    BY <1>1, <2>2, TouchFits DEF RowsFit, Conversion
  <2>3. QED
    BY <2>1, <2>2 DEF AdoptTouch, PrepOf
<1>4. RowsFit' /\ RowsAgree' /\ DestinationsStay
  BY <1>1, <1>2, <1>3 DEF RowsFit, RowsAgree, DestinationsStay, Frozen
<1>5. PrepareAt(p, "freeze") \/ Return(p)
  BY DEF AdoptTouch
<1>6. prep'[p].step \notin {"queue", "enqueue"}
  BY <1>1, <1>5, PrepMoves
<1>7. prep[p].seen.snapshot # NoDestination => syncJob[c].snapshot = prep[p].seen.snapshot
  BY <1>1 DEF PrepsAgree, PrepOf
<1>8. QED
  BY <1>1, <1>2, <1>4, <1>5, <1>6, <1>7, PrepKeeps

LEMMA FreezeKeeps ==
  ASSUME OutboxInv, NEW p \in Preparer, Freeze(p) PROVE OutboxInv'
<1>p. PICK c : c = prep[p].milestone
  OBVIOUS
<1>1. RowsFit /\ RunsFit /\ RowsAgree /\ PrepsAgree /\ prep[p].step # "idle" /\ c \in Milestone
      /\ conversion[c].recorded
  BY <1>p DEF OutboxInv, Freeze, PrepsAgree, PrepOf
<1>2. UNCHANGED <<attribution, conversion, settings, upload, uploaded>>
  BY DEF Freeze
<1>3. prep[p].seen.snapshot # NoDestination => syncJob[c].snapshot = prep[p].seen.snapshot
  BY <1>1, <1>p DEF PrepsAgree, PrepOf
<1>4. Configured \in Destination /\ Configured # NoDestination
  BY <1>1, AdvertisingAssumption DEF RowsFit, Settings, Configured, Destination
<1>5. \/ syncJob' = syncJob /\ Return(p)
      \/ /\ syncJob' = syncJob /\ PrepareAt(p, "queue")
         /\ prep[p].seen.snapshot # NoDestination
      \/ /\ syncJob' = [syncJob EXCEPT ![c].snapshot = Configured] /\ PrepareAt(p, "queue")
         /\ prep[p].seen.snapshot = NoDestination /\ ~Frozen(c)
  BY <1>p DEF Freeze, PrepOf, Frozen
<1>6. CASE syncJob' = syncJob
  <2>1. RowsFit' /\ RowsAgree' /\ DestinationsStay
    BY <1>1, <1>2, <1>6 DEF RowsFit, RowsAgree, DestinationsStay, Frozen
  <2>2. Return(p) => prep'[p].step = "idle"
    BY <1>1 DEF Return, RunsFit, NoPrep
  <2>3. PrepareAt(p, "queue") => PrepOf(p)' = c
    BY <1>1, <1>p DEF PrepareAt, RunsFit, PrepRun, PrepOf
  <2>4. prep'[p].step \in {"queue", "enqueue"} => Frozen(PrepOf(p))'
    <3>1. CASE Return(p)
      BY <2>2, <3>1
    <3>2. CASE prep[p].seen.snapshot # NoDestination /\ PrepareAt(p, "queue")
      BY <1>3, <1>6, <2>3, <3>2 DEF Frozen
    <3>3. CASE ~Frozen(c) /\ syncJob' = [syncJob EXCEPT ![c].snapshot = Configured]
               /\ PrepareAt(p, "queue")
      <4>1. syncJob'[c].snapshot = Configured
        BY <1>1, <3>3 DEF RowsFit, SyncJob
      <4>2. QED
        BY <1>4, <1>6, <3>3, <4>1 DEF Frozen
    <3>4. QED
      BY <1>5, <3>1, <3>2, <3>3
  <2>5. QED
    BY <1>1, <1>2, <1>3, <1>5, <1>6, <1>p, <2>1, <2>4, PrepKeeps
<1>7. CASE /\ syncJob' = [syncJob EXCEPT ![c].snapshot = Configured] /\ PrepareAt(p, "queue")
           /\ prep[p].seen.snapshot = NoDestination /\ ~Frozen(c)
  <2>1. /\ syncJob' \in [Milestone -> SyncJob]
        /\ syncJob'[c].snapshot = Configured
        /\ \A d \in Milestone : d # c => syncJob'[d] = syncJob[d]
    BY <1>1, <1>4, <1>7 DEF RowsFit, SyncJob
  <2>2. RowsFit' /\ RowsAgree' /\ DestinationsStay
    BY <1>1, <1>2, <1>4, <1>7, <2>1 DEF RowsFit, RowsAgree, DestinationsStay, Frozen
  <2>3. PrepOf(p)' = c
    BY <1>1, <1>7, <1>p DEF PrepareAt, RunsFit, PrepRun, PrepOf
  <2>4. Frozen(PrepOf(p))'
    BY <1>4, <2>1, <2>3 DEF Frozen
  <2>5. QED
    BY <1>1, <1>2, <1>7, <1>p, <2>2, <2>4, PrepKeeps
<1>8. QED
  BY <1>5, <1>6, <1>7

LEMMA QueueKeeps ==
  ASSUME OutboxInv, NEW p \in Preparer, Queue(p) PROVE OutboxInv'
<1>p. PICK c : c = prep[p].milestone
  OBVIOUS
<1>1. RowsFit /\ RunsFit /\ RowsAgree /\ PrepsAgree /\ prep[p].step # "idle" /\ c \in Milestone
      /\ Frozen(c)
  BY <1>p DEF OutboxInv, Queue, PrepsAgree, PrepOf
<1>2. UNCHANGED <<attribution, conversion, settings, upload, uploaded>>
  BY DEF Queue
<1>3. prep[p].seen.snapshot # NoDestination => syncJob[c].snapshot = prep[p].seen.snapshot
  BY <1>1, <1>p DEF PrepsAgree, PrepOf
<1>4. /\ PrepareAt(p, "enqueue") \/ Return(p)
      /\ syncJob' = syncJob \/ SetStatus(c, "QUEUED")
  BY <1>p DEF Queue, PrepOf
<1>5. "QUEUED" \in SyncStatus
  BY DEF SyncStatus, Open
<1>6. /\ syncJob' \in [Milestone -> SyncJob]
      /\ \A d \in Milestone : syncJob'[d].snapshot = syncJob[d].snapshot
      /\ \A d \in Milestone : d # c => syncJob'[d] = syncJob[d]
  <2>1. CASE syncJob' = syncJob
    BY <1>1, <2>1 DEF RowsFit
  <2>2. CASE SetStatus(c, "QUEUED")
    BY <1>1, <1>5, <2>2, SetStatusWrites
  <2>3. QED
    BY <1>4, <2>1, <2>2
<1>7. RowsFit' /\ RowsAgree' /\ DestinationsStay
  BY <1>1, <1>2, <1>6 DEF RowsFit, RowsAgree, DestinationsStay, Frozen
<1>8. PrepOf(p)' = c \/ prep'[p].step = "idle"
  BY <1>1, <1>4, <1>p, PrepMoves DEF PrepOf
<1>9. prep'[p].step \in {"queue", "enqueue"} => Frozen(PrepOf(p))'
  BY <1>1, <1>6, <1>8 DEF Frozen
<1>10. QED
  BY <1>1, <1>2, <1>3, <1>4, <1>6, <1>7, <1>9, <1>p, PrepKeeps

\* The preparation ends, and may quarantine its row.
LEMMA EndOfPrepKeeps ==
  ASSUME OutboxInv, NEW p \in Preparer, Enqueue(p) \/ PrepareFails(p) PROVE OutboxInv'
<1>1. RowsFit /\ RunsFit /\ RowsAgree /\ PrepsAgree /\ prep[p].step # "idle"
      /\ PrepOf(p) \in Milestone
  BY DEF OutboxInv, Enqueue, PrepareFails, PrepsAgree
<1>2. UNCHANGED <<attribution, conversion, settings, upload, uploaded>> /\ Return(p)
  BY DEF Enqueue, PrepareFails, rows
<1>3. "FAILED" \in SyncStatus
  BY DEF SyncStatus
<1>4. /\ syncJob' \in [Milestone -> SyncJob]
      /\ \A d \in Milestone : /\ syncJob'[d].snapshot = syncJob[d].snapshot
                              /\ syncJob'[d].status \in {syncJob[d].status, "FAILED"}
  <2>1. CASE syncJob' = syncJob
    BY <1>1, <2>1 DEF RowsFit
  <2>2. CASE SetStatus(PrepOf(p), "FAILED")
    BY <1>1, <1>3, <2>2, StatusWrites DEF SetStatus
  <2>3. QED
    BY <2>1, <2>2 DEF Enqueue, PrepareFails, rows
<1>5. RowsFit' /\ RowsAgree' /\ DestinationsStay
  BY <1>1, <1>2, <1>4 DEF RowsFit, RowsAgree, DestinationsStay, Frozen
<1>6. prep'[p].step = "idle"
  BY <1>1, <1>2 DEF Return, RunsFit, NoPrep
<1>7. QED
  BY <1>1, <1>2, <1>5, <1>6, PrepKeeps

-----------------------------------------------------------------------------
(* The uploads.                                                             *)

\* An upload goes on, or ends, and may write a status that is not QUEUED.
LEMMA UploadKeeps ==
  ASSUME OutboxInv, NEW c \in Milestone, NEW r \in UploadRun,
         upload' = [upload EXCEPT ![c] = r],
         UNCHANGED <<attribution, conversion, settings, prep>>,
         \/ syncJob' = syncJob
         \/ \E s \in SyncStatus \ {"QUEUED"}, due \in BOOLEAN :
              syncJob' = [syncJob EXCEPT ![c].status = s, ![c].due = due],
         r.step # "idle" => Frozen(c),
         r.step \in {"check", "checkAgain", "post"} => r.to = syncJob[c].snapshot,
         \/ uploaded' = uploaded
         \/ uploaded' = uploaded \union {<<c, syncJob[c].snapshot>>} /\ Frozen(c)
  PROVE  OutboxInv'
<1>1. RowsFit /\ RunsFit /\ RowsAgree /\ UploadsAgree /\ PrepsAgree /\ SentAgree
  BY DEF OutboxInv
<1>2. /\ syncJob' \in [Milestone -> SyncJob]
      /\ \A d \in Milestone : /\ syncJob'[d].snapshot = syncJob[d].snapshot
                              /\ syncJob'[d].status = "QUEUED" => syncJob[d].status = "QUEUED"
  <2>1. CASE syncJob' = syncJob
    BY <1>1, <2>1 DEF RowsFit
  <2>2. ASSUME NEW s \in SyncStatus \ {"QUEUED"}, NEW due \in BOOLEAN,
               syncJob' = [syncJob EXCEPT ![c].status = s, ![c].due = due]
        PROVE  /\ syncJob' \in [Milestone -> SyncJob]
               /\ \A d \in Milestone :
                    /\ syncJob'[d].snapshot = syncJob[d].snapshot
                    /\ syncJob'[d].status = "QUEUED" => syncJob[d].status = "QUEUED"
    BY <1>1, <2>2, StatusWrites
  <2>3. QED
    BY <2>1, <2>2
<1>3. RowsFit' /\ RunsFit' /\ RowsAgree' /\ DestinationsStay
  BY <1>1, <1>2 DEF RowsFit, RunsFit, RowsAgree, DestinationsStay, Frozen
<1>4. UploadsAgree'
  <2>1. upload'[c] = r /\ \A d \in Milestone : d # c => upload'[d] = upload[d]
    BY <1>1 DEF RunsFit
  <2>2. QED
    BY <1>1, <1>2, <2>1 DEF UploadsAgree, Frozen
<1>5. SentAgree'
  <2>1. CASE uploaded' = uploaded
    BY <1>1, <1>3, <2>1, SentKept
  <2>2. CASE uploaded' = uploaded \union {<<c, syncJob[c].snapshot>>} /\ Frozen(c)
    BY <1>1, <1>2, <2>2 DEF SentAgree, Frozen
  <2>3. QED
    BY <2>1, <2>2
<1>6. QED
  BY <1>1, <1>3, <1>4, <1>5, PrepsKept DEF OutboxInv

\* The run of an upload at another step is one, too.
LEMMA StepFits ==
  ASSUME RunsFit, NEW c \in Milestone,
         NEW s \in {"load", "ineligible", "checkAgain", "post", "accepted", "noId", "transient",
                    "permanent", "diagnose"}, Step(c, s)
  PROVE  /\ [upload[c] EXCEPT !.step = s] \in UploadRun
         /\ [upload[c] EXCEPT !.step = s].step = s
         /\ [upload[c] EXCEPT !.step = s].to = upload[c].to
         /\ upload' = [upload EXCEPT ![c] = [upload[c] EXCEPT !.step = s]]
BY DEF RunsFit, UploadRun, Step

LEMMA NoUploadFits == NoUpload \in UploadRun /\ NoUpload.step = "idle"
BY DEF NoUpload, UploadRun

\* An upload ends.
LEMMA EndOfUploadKeeps ==
  ASSUME OutboxInv, NEW c \in Milestone, NEW state, UploadDone(c, state),
         UNCHANGED <<attribution, conversion, settings, prep, uploaded>>,
         \/ syncJob' = syncJob
         \/ \E s \in SyncStatus \ {"QUEUED"} : SetStatus(c, s)
         \/ SetLater(c)
  PROVE  OutboxInv'
<1>1. "RETRYING" \in SyncStatus \ {"QUEUED"}
  BY DEF SyncStatus, Open
<1>2. \/ syncJob' = syncJob
      \/ \E s \in SyncStatus \ {"QUEUED"}, due \in BOOLEAN :
           syncJob' = [syncJob EXCEPT ![c].status = s, ![c].due = due]
  BY <1>1 DEF SetStatus, SetLater
<1>3. upload' = [upload EXCEPT ![c] = NoUpload]
  BY DEF UploadDone
<1>4. QED
  BY <1>2, <1>3, NoUploadFits, UploadKeeps

\* An upload goes on at another step, with the same destination.
LEMMA StepKeeps ==
  ASSUME OutboxInv, NEW c \in Milestone,
         NEW s \in {"load", "ineligible", "checkAgain", "post", "accepted", "noId", "transient",
                    "permanent", "diagnose"}, Step(c, s),
         UNCHANGED <<attribution, conversion, settings, prep>>,
         \/ syncJob' = syncJob
         \/ \E t \in SyncStatus \ {"QUEUED"} : SetStatus(c, t)
         \/ SetLater(c),
         Frozen(c),
         s \in {"checkAgain", "post"} => upload[c].to = syncJob[c].snapshot,
         \/ uploaded' = uploaded
         \/ uploaded' = uploaded \union {<<c, syncJob[c].snapshot>>}
  PROVE  OutboxInv'
<1>1. "RETRYING" \in SyncStatus \ {"QUEUED"}
  BY DEF SyncStatus, Open
<1>2. \/ syncJob' = syncJob
      \/ \E t \in SyncStatus \ {"QUEUED"}, due \in BOOLEAN :
           syncJob' = [syncJob EXCEPT ![c].status = t, ![c].due = due]
  BY <1>1 DEF SetStatus, SetLater
<1>3. RunsFit
  BY DEF OutboxInv
<1>4. /\ [upload[c] EXCEPT !.step = s] \in UploadRun
      /\ [upload[c] EXCEPT !.step = s].step = s
      /\ [upload[c] EXCEPT !.step = s].to = upload[c].to
      /\ upload' = [upload EXCEPT ![c] = [upload[c] EXCEPT !.step = s]]
  BY <1>3, StepFits
<1>5. QED
  BY <1>2, <1>4, UploadKeeps

LEMMA UploadsKeep ==
  ASSUME OutboxInv, NEW c \in Milestone, Upload(c) \/ NoToken(c) \/ WorkerDies(c)
  PROVE  OutboxInv'
<1>1. RowsFit /\ RunsFit /\ RowsAgree /\ UploadsAgree
  BY DEF OutboxInv
<1>2. upload[c].step # "idle" => Frozen(c)
  BY <1>1 DEF UploadsAgree
<1>3. {"NOT_ELIGIBLE", "SUBMITTED", "VALIDATED", "FAILED"} \subseteq SyncStatus \ {"QUEUED"}
  BY DEF SyncStatus
<1>4. CASE ClaimSyncJob(c)
  <2>1. UNCHANGED <<attribution, conversion, settings, prep, uploaded>>
    BY <1>4 DEF ClaimSyncJob
  <2>2. CASE settings.sync /\ syncJob[c].status = "QUEUED"
    BY <1>1, <1>4, <2>1, <2>2, StepKeeps DEF ClaimSyncJob, RowsAgree
  <2>3. CASE ~(settings.sync /\ syncJob[c].status = "QUEUED")
    BY <1>4, <2>1, <2>3, EndOfUploadKeeps DEF ClaimSyncJob
  <2>4. QED
    BY <2>2, <2>3
<1>5. CASE Load(c)
  <2>1. UNCHANGED <<attribution, conversion, settings, syncJob, prep, uploaded>>
    BY <1>5 DEF Load, rows
  <2>2. Frozen(c) /\ syncJob[c].snapshot \in Destination
    BY <1>1, <1>2, <1>5 DEF Load, RowsFit, SyncJob, Frozen
  <2>3. \/ UploadDone(c, "completed")
        \/ Step(c, "ineligible")
        \/ upload' = [upload EXCEPT ![c] = [step |-> "check", to |-> syncJob[c].snapshot]]
    BY <1>5, <2>2 DEF Load, Frozen
  <2>4. CASE UploadDone(c, "completed")
    BY <2>1, <2>4, EndOfUploadKeeps
  <2>5. CASE Step(c, "ineligible")
    BY <2>1, <2>2, <2>5, StepKeeps
  <2>6. CASE upload' = [upload EXCEPT ![c] = [step |-> "check", to |-> syncJob[c].snapshot]]
    <3>1. /\ [step |-> "check", to |-> syncJob[c].snapshot] \in UploadRun
          /\ [step |-> "check", to |-> syncJob[c].snapshot].to = syncJob[c].snapshot
      BY <2>2 DEF UploadRun
    <3>2. QED
      BY <2>1, <2>2, <2>6, <3>1, UploadKeeps
  <2>7. QED
    BY <2>3, <2>4, <2>5, <2>6
<1>6. CASE NotEligible(c)
  <2>1. UNCHANGED <<attribution, conversion, settings, prep, uploaded>>
    BY <1>6 DEF NotEligible
  <2>2. QED
    BY <1>3, <1>6, <2>1, EndOfUploadKeeps DEF NotEligible
<1>7. CASE AssertRuntimeAllowed(c)
  <2>1. UNCHANGED <<attribution, conversion, settings, syncJob, prep, uploaded>>
    BY <1>7 DEF AssertRuntimeAllowed, rows
  <2>2. Frozen(c) /\ upload[c].to = syncJob[c].snapshot
    BY <1>1, <1>7 DEF AssertRuntimeAllowed, UploadsAgree
  <2>3. UploadDone(c, "completed") \/ Step(c, "checkAgain") \/ Step(c, "post")
    BY <1>7 DEF AssertRuntimeAllowed
  <2>4. CASE UploadDone(c, "completed")
    BY <2>1, <2>4, EndOfUploadKeeps
  <2>5. CASE Step(c, "checkAgain") \/ Step(c, "post")
    BY <2>1, <2>2, <2>5, StepKeeps
  <2>6. QED
    BY <2>3, <2>4, <2>5
<1>8. CASE Post(c)
  <2>1. UNCHANGED <<attribution, conversion, settings, syncJob, prep>>
    BY <1>8 DEF Post, rows
  <2>2. Frozen(c) /\ upload[c].to = syncJob[c].snapshot
    BY <1>1, <1>8 DEF Post, UploadsAgree
  <2>3. /\ \E s \in {"accepted", "noId", "transient", "permanent"} : Step(c, s)
        /\ \/ uploaded' = uploaded
           \/ uploaded' = uploaded \union {<<c, syncJob[c].snapshot>>}
    BY <1>8, <2>2 DEF Post
  <2>4. QED
    BY <2>1, <2>2, <2>3, StepKeeps
<1>9. CASE RecordAnswer(c)
  <2>1. UNCHANGED <<attribution, conversion, settings, prep, uploaded>> /\ Frozen(c)
    BY <1>2, <1>9 DEF RecordAnswer
  <2>2. \/ SetStatus(c, "SUBMITTED") /\ Step(c, "diagnose")
        \/ SetStatus(c, "VALIDATED") /\ UploadDone(c, "completed")
        \/ SetStatus(c, "FAILED") /\ UploadDone(c, "completed")
        \/ SetLater(c) /\ \E s \in {"waiting", "failed"} : UploadDone(c, s)
    BY <1>9 DEF RecordAnswer
  <2>3. CASE SetStatus(c, "SUBMITTED") /\ Step(c, "diagnose")
    BY <1>3, <2>1, <2>3, StepKeeps
  <2>4. CASE \/ SetStatus(c, "VALIDATED") /\ UploadDone(c, "completed")
             \/ SetStatus(c, "FAILED") /\ UploadDone(c, "completed")
    BY <1>3, <2>1, <2>4, EndOfUploadKeeps
  <2>5. CASE SetLater(c) /\ \E s \in {"waiting", "failed"} : UploadDone(c, s)
    BY <2>1, <2>5, EndOfUploadKeeps
  <2>6. QED
    BY <2>2, <2>3, <2>4, <2>5
<1>10. CASE AddDiagnostics(c) \/ WorkerDies(c)
  <2>1. UNCHANGED <<attribution, conversion, settings, syncJob, prep, uploaded>>
    BY <1>10 DEF AddDiagnostics, WorkerDies, rows
  <2>2. \E s \in {"completed", "waiting", "failed"} : UploadDone(c, s)
    BY <1>10 DEF AddDiagnostics, WorkerDies
  <2>3. QED
    BY <2>1, <2>2, EndOfUploadKeeps
<1>11. CASE NoToken(c)
  <2>1. UNCHANGED <<attribution, conversion, settings, syncJob, prep, uploaded>> /\ Frozen(c)
    BY <1>2, <1>11 DEF NoToken, rows
  <2>2. QED
    BY <1>11, <2>1, StepKeeps DEF NoToken
<1>12. QED
  BY <1>4, <1>5, <1>6, <1>7, <1>8, <1>9, <1>10, <1>11 DEF Upload

-----------------------------------------------------------------------------

LEMMA OutboxNext == OutboxInv /\ [AdNext]_adVars => OutboxInv'
<1>1. SUFFICES ASSUME OutboxInv, [AdNext]_adVars PROVE OutboxInv'
  OBVIOUS
<1>2. CASE UNCHANGED adVars
  BY <1>1, <1>2 DEF adVars, rows, OutboxInv, RowsFit, RunsFit, RowsAgree, UploadsAgree,
                    PrepsAgree, SentAgree, Frozen, PrepOf
<1>3. CASE AdNext
  BY <1>1, <1>3, ClaimReferenceKeeps, RecordMilestoneKeeps, OperatorsKeep, DiagnosticsKeep,
     ReadJobKeeps, AdoptTouchKeeps, FreezeKeeps, QueueKeeps, EndOfPrepKeeps, UploadsKeep
     DEF AdNext, Prepare
<1>4. QED
  BY <1>1, <1>2, <1>3

\* The rows, the preparations, the uploads and what was sent agree on the destination.
THEOREM OutboxCorrect == AdSpec => []OutboxInv
BY OutboxInit, OutboxNext, PTL DEF AdSpec

\* Whatever is retried, whoever dies and however often operators change the account or the
\* action, Google is never asked to count one milestone for two destinations.
THEOREM SentToOneDestination == AdSpec => []OneDestination
<1>1. OutboxInv => OneDestination
  BY DEF OutboxInv, SentAgree, OneDestination
<1>2. QED
  BY <1>1, OutboxCorrect, PTL
================================================================================
