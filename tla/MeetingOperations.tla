-------------------------- MODULE MeetingOperations --------------------------
(***************************************************************************)
(* Booking, moving and cancelling meetings in one Google calendar          *)
(* (integrations/google-calendar/meeting-operations.service.ts).  A chat   *)
(* turn prepares an operation and applies it; a scan applies what is left  *)
(* over.  Applying reads the calendar, changes it under the conversation's *)
(* lock, and only then records the outcome in the CRM.                     *)
(*                                                                         *)
(* A meeting stands for its conversation too.  Slots that overlap, buffers *)
(* included, are one slot.  A request to Google has been carried out or    *)
(* lost by the time its call ends, and nobody else changes the meeting's   *)
(* event; other people's events only make a slot busy.                     *)
(***************************************************************************)
EXTENDS Naturals

CONSTANTS
  Meeting,
  Slot,
  NoSlot,
  Op,              \* bound: so many operations
  Chat,            \* chat turns that apply an operation, at the same time
  Scan,            \* recovery scans, one for each process
  Nobody,
  LeaseOutlivesRun,  \* no run of apply outlasts its claim of 180 s
  MaxFailures      \* bound: so many calls throw or processes die

ASSUME NamesAssumption ==
  /\ Op # {} /\ Slot # {} /\ Meeting # {}
  /\ NoSlot \notin Slot
  /\ Nobody \notin Chat \union Scan /\ Chat \cap Scan = {}
  /\ LeaseOutlivesRun \in BOOLEAN /\ MaxFailures \in Nat

VARIABLES
  meeting, slot,   \* Meeting: status, startAt..endAt
  open,            \* the conversation is ACTIVE
  lock,            \* who holds the conversation's advisory lock
  event,           \* where Google has the meeting's event
  status, kind, of, target, code,  \* MeetingOperation
  token,           \* claimToken (forgotten when nobody has the claim)
  over,            \* claimExpiresAt has passed
  pc, job, heard,  \* a run of apply: next step, operation, `interrupted'
  stopped,         \* history: operations under way whose customer said no
  failures

crm == <<meeting, slot, open>>
operation == <<status, kind, of, target, code, token, over>>
run == <<pc, job, heard>>
vars == <<crm, lock, event, operation, run, stopped, failures>>

Applier == Chat \union Scan
Active == {"PREPARED", "APPLYING", "RETRY"}
MeetingStatus == {"PENDING", "CONFIRMED", "CANCELLED", "FAILED"}
Kind == {"CREATE", "RESCHEDULE", "CANCEL"}
Code == {"none", "INTERRUPTED", "ERROR", "NOTIFY"}
Claimed == {"looking", "reading", "checking", "locking", "mutating", "finishing",
            "conflicting", "retrying"}
PC == {"idle", "claiming"} \union Claimed

UnderWay(m) == {o \in Op : of[o] = m /\ status[o] \in Active}

\* At most one operation of a meeting is under way.
OneUnderWay == \A o, p \in Op : of[o] = of[p] /\ {status[o], status[p]} \subseteq Active => o = p

TypeOK ==
  /\ meeting \in [Meeting -> MeetingStatus \union {"NONE"}]
  /\ slot \in [Meeting -> Slot]
  /\ open \in [Meeting -> BOOLEAN]
  /\ lock \in [Meeting -> Applier \union {Nobody}]
  /\ event \in [Meeting -> Slot \union {NoSlot}]
  /\ status \in [Op -> Active \union {"NONE", "COMPLETED", "FAILED"}]
  /\ kind \in [Op -> Kind]
  /\ of \in [Op -> Meeting]
  /\ target \in [Op -> Slot]
  /\ code \in [Op -> Code]
  /\ token \in [Op -> Applier \union {Nobody}]
  /\ over \in [Op -> BOOLEAN]
  /\ pc \in [Applier -> PC]
  /\ job \in [Applier -> Op]
  /\ heard \in [Applier -> BOOLEAN]
  /\ stopped \in SUBSET Op
  /\ failures \in 0..MaxFailures
  /\ OneUnderWay

SomeSlot == CHOOSE s \in Slot : TRUE
SomeOp == CHOOSE o \in Op : TRUE
SomeMeeting == CHOOSE m \in Meeting : TRUE

Init ==
  /\ meeting = [m \in Meeting |-> "NONE"]
  /\ slot = [m \in Meeting |-> SomeSlot]
  /\ open = [m \in Meeting |-> TRUE]
  /\ lock = [m \in Meeting |-> Nobody]
  /\ event = [m \in Meeting |-> NoSlot]
  /\ status = [o \in Op |-> "NONE"]
  /\ kind = [o \in Op |-> "CREATE"]
  /\ of = [o \in Op |-> SomeMeeting]
  /\ target = [o \in Op |-> SomeSlot]
  /\ code = [o \in Op |-> "none"]
  /\ token = [o \in Op |-> Nobody]
  /\ over = [o \in Op |-> FALSE]
  /\ pc = [a \in Applier |-> "idle"]
  /\ job = [a \in Applier |-> SomeOp]
  /\ heard = [a \in Applier |-> FALSE]
  /\ stopped = {}
  /\ failures = 0

-----------------------------------------------------------------------------
(* prepare: one transaction under the calendar's lock.                     *)

\* The slots of the calendar that a meeting takes, or is about to take.
Reserved(m) ==
  (IF meeting[m] \in {"PENDING", "CONFIRMED"} THEN {slot[m]} ELSE {})
    \union {target[o] : o \in {p \in UnderWay(m) : kind[p] = "RESCHEDULE"}}

\* fault: a meeting that is being moved is only known by its old slot
FreeOfMeetings(m, s) ==
  \A n \in Meeting \ {m} : meeting[n] \in {"PENDING", "CONFIRMED"} => slot[n] # s

Free(m, s) == \A n \in Meeting \ {m} : s \notin Reserved(n)

Changeable(m) == meeting[m] = "CONFIRMED" /\ UnderWay(m) = {}

Record(o, k, m, s) ==
  /\ status[o] = "NONE"
  /\ open[m]
  /\ status' = [status EXCEPT ![o] = "PREPARED"]
  /\ kind' = [kind EXCEPT ![o] = k]
  /\ of' = [of EXCEPT ![o] = m]
  /\ target' = [target EXCEPT ![o] = s]
  /\ UNCHANGED <<open, lock, event, code, token, over, run, stopped, failures>>

PrepareCreate(o, m, s) ==
  /\ meeting[m] = "NONE"
  /\ Free(m, s)
  /\ meeting' = [meeting EXCEPT ![m] = "PENDING"]
  /\ slot' = [slot EXCEPT ![m] = s]
  /\ Record(o, "CREATE", m, s)

PrepareChange(o, m) ==
  /\ Changeable(m)
  /\ \/ Record(o, "CANCEL", m, slot[m])
     \/ \E s \in Slot : Free(m, s) /\ Record(o, "RESCHEDULE", m, s)
  /\ UNCHANGED <<meeting, slot>>

-----------------------------------------------------------------------------
(* apply.                                                                  *)

Goto(a, next) == pc' = [pc EXCEPT ![a] = next]

Leave(a) ==
  /\ Goto(a, "idle")
  /\ job' = [job EXCEPT ![a] = SomeOp]
  /\ heard' = [heard EXCEPT ![a] = FALSE]

\* fault: an attempt whose process died is never taken up again
DueUnlessClaimed(o) == status[o] = "PREPARED" \/ (status[o] = "RETRY" /\ over[o])

Due(o) == status[o] = "PREPARED" \/ (status[o] \in {"RETRY", "APPLYING"} /\ over[o])

\* The scan looks for what is due; a chat turn applies its own operation,
\* unless its customer has said no.
Begin(a, o) ==
  /\ pc[a] = "idle"
  /\ status[o] \in Active
  /\ IF a \in Scan THEN Due(o) ELSE o \notin stopped
  /\ Goto(a, "claiming")
  /\ job' = [job EXCEPT ![a] = o]
  /\ heard' = [heard EXCEPT ![a] = (code[o] = "INTERRUPTED")]
  /\ UNCHANGED <<crm, lock, event, operation, stopped, failures>>

Claim(a) ==
  LET o == job[a] IN
  /\ pc[a] = "claiming"
  /\ IF Due(o)
       THEN /\ status' = [status EXCEPT ![o] = "APPLYING"]
            /\ token' = [token EXCEPT ![o] = a]
            /\ over' = [over EXCEPT ![o] = FALSE]
            /\ Goto(a, "looking")
            /\ UNCHANGED <<job, heard>>
       ELSE Leave(a) /\ UNCHANGED <<status, token, over>>
  /\ UNCHANGED <<crm, lock, event, kind, of, target, code, stopped, failures>>

Continue(a, next) == Goto(a, next) /\ UNCHANGED <<job, heard>>

ReadConversation(a) ==
  /\ pc[a] = "looking"
  /\ Goto(a, "reading")
  /\ heard' = [heard EXCEPT ![a] = @ \/ ~open[of[job[a]]]]
  /\ UNCHANGED <<crm, lock, event, operation, job, stopped, failures>>

\* Where an operation goes on, once it knows where the event is.
AfterEvent(o, e) ==
  CASE kind[o] = "CANCEL" /\ e = NoSlot -> "finishing"
    [] kind[o] = "CANCEL" /\ e # NoSlot -> "locking"
    [] kind[o] # "CANCEL" /\ e = target[o] -> "finishing"
    [] kind[o] = "CREATE" /\ e \notin {NoSlot, target[o]} -> "retrying"
    [] OTHER -> "checking"

GetEvent(a) ==
  /\ pc[a] = "reading"
  /\ Continue(a, AfterEvent(job[a], event[of[job[a]]]))
  /\ UNCHANGED <<crm, lock, event, operation, stopped, failures>>

\* Google's calendar may have events the CRM knows nothing of, and the slot
\* may have passed.
CheckBusy(a) ==
  LET o == job[a] IN
  /\ pc[a] = "checking"
  /\ \/ Continue(a, "conflicting")
     \/ /\ \A m \in Meeting \ {of[o]} : event[m] # target[o]
        /\ Continue(a, "locking")
  /\ UNCHANGED <<crm, lock, event, operation, stopped, failures>>

\* fault: the lock is taken, and nothing looked at again
MayMutateAlways(o) == TRUE

MayMutate(o) == open[of[o]] /\ code[o] # "INTERRUPTED"

Lock(a) ==
  LET o == job[a] IN
  /\ pc[a] = "locking" /\ lock[of[o]] = Nobody
  /\ IF MayMutate(o)
       THEN lock' = [lock EXCEPT ![of[o]] = a] /\ Continue(a, "mutating")
       ELSE /\ Goto(a, "conflicting")
            /\ heard' = [heard EXCEPT ![a] = TRUE]
            /\ UNCHANGED <<lock, job>>
  /\ UNCHANGED <<crm, event, operation, stopped, failures>>

Unlock(a) == lock' = [m \in Meeting |-> IF lock[m] = a THEN Nobody ELSE lock[m]]

\* Google does what the request asks for; the answer arrives.  (An event that
\* is there already is not created twice.)
GoogleAnswers(a) ==
  LET o == job[a]  m == of[o] IN
  /\ pc[a] = "mutating"
  /\ event' = [event EXCEPT ![m] =
                 CASE kind[o] = "CANCEL" -> NoSlot
                   [] kind[o] = "CREATE" -> IF @ = NoSlot THEN target[o] ELSE @
                   [] OTHER -> IF @ = NoSlot THEN @ ELSE target[o]]
  /\ Continue(a, IF kind[o] = "RESCHEDULE" /\ event[m] = NoSlot
                   THEN "retrying" ELSE "finishing")
  /\ Unlock(a)
  /\ UNCHANGED <<crm, operation, stopped, failures>>

\* Google does it, but the answer is lost, the conference is not ready yet, or
\* the transaction that holds the lock does not commit.
GoogleAnswerLost(a) ==
  LET o == job[a]  m == of[o] IN
  /\ pc[a] = "mutating"
  /\ failures < MaxFailures
  /\ failures' = failures + 1
  /\ event' = [event EXCEPT ![m] =
                 CASE kind[o] = "CANCEL" -> NoSlot
                   [] kind[o] = "CREATE" -> IF @ = NoSlot THEN target[o] ELSE @
                   [] OTHER -> IF @ = NoSlot THEN @ ELSE target[o]]
  /\ Continue(a, "retrying")
  /\ Unlock(a)
  /\ UNCHANGED <<crm, operation, stopped>>

\* A call throws, or a wait times out.
Throws(a) ==
  /\ pc[a] \in {"reading", "checking", "locking", "mutating", "finishing"}
  /\ failures < MaxFailures
  /\ failures' = failures + 1
  /\ Continue(a, "retrying")
  /\ Unlock(a)
  /\ UNCHANGED <<crm, event, operation, stopped>>

Owns(a) == status[job[a]] = "APPLYING" /\ token[job[a]] = a

\* The operation, the meeting, its task and the notice, in one transaction.
Finish(a) ==
  LET o == job[a]  m == of[o] IN
  /\ pc[a] = "finishing"
  /\ IF Owns(a)
       THEN /\ status' = [status EXCEPT ![o] = "COMPLETED"]
            /\ code' = [code EXCEPT ![o] = IF heard[a] THEN "INTERRUPTED"
                                           ELSE IF a \in Scan THEN "NOTIFY"
                                           ELSE "none"]
            /\ meeting' = [meeting EXCEPT ![m] = IF kind[o] = "CANCEL"
                                                   THEN "CANCELLED" ELSE "CONFIRMED"]
            /\ slot' = [slot EXCEPT ![m] = target[o]]
            /\ over' = [over EXCEPT ![o] = FALSE]
            /\ token' = [token EXCEPT ![o] = Nobody]
            /\ stopped' = stopped \ {o}
       ELSE UNCHANGED <<status, code, meeting, slot, over, token, stopped>>
  /\ Leave(a)
  /\ UNCHANGED <<open, lock, event, kind, of, target, failures>>

\* fault: an error that may pass ends the operation
FailFinally(a) ==
  LET o == job[a] IN
  /\ pc[a] \in {"conflicting", "retrying"}
  /\ status' = [status EXCEPT ![o] = IF Owns(a) THEN "FAILED" ELSE @]
  /\ meeting' = [meeting EXCEPT ![of[o]] =
                   IF Owns(a) /\ kind[o] = "CREATE" THEN "FAILED" ELSE @]
  /\ Leave(a)
  /\ UNCHANGED <<slot, open, lock, event, kind, of, target, code, token, over,
                 stopped, failures>>

\* The catch block.  What the run did not hear of is overwritten.
Fail(a) ==
  LET o == job[a] IN
  /\ pc[a] \in {"conflicting", "retrying"}
  /\ IF Owns(a)
       THEN /\ status' = [status EXCEPT ![o] =
                            IF pc[a] = "conflicting" THEN "FAILED" ELSE "RETRY"]
            /\ code' = [code EXCEPT ![o] = IF heard[a] THEN "INTERRUPTED" ELSE "ERROR"]
            /\ over' = [over EXCEPT ![o] = FALSE]
            /\ meeting' = [meeting EXCEPT ![of[o]] =
                 IF pc[a] = "conflicting" /\ kind[o] = "CREATE" THEN "FAILED" ELSE @]
            /\ token' = [token EXCEPT ![o] = Nobody]
            /\ stopped' = IF pc[a] = "conflicting" THEN stopped \ {o} ELSE stopped
       ELSE UNCHANGED <<status, code, over, meeting, token, stopped>>
  /\ Leave(a)
  /\ UNCHANGED <<slot, open, lock, event, kind, of, target, failures>>

\* The process dies, or a statement outside the try block throws.
Dies(a) ==
  /\ pc[a] # "idle"
  /\ failures < MaxFailures
  /\ failures' = failures + 1
  /\ Leave(a)
  /\ Unlock(a)
  /\ UNCHANGED <<crm, event, operation, stopped>>

-----------------------------------------------------------------------------
(* The surroundings.                                                       *)

Running(o) == \E a \in Applier : pc[a] \in Claimed /\ job[a] = o /\ token[o] = a

\* 180 s after a claim, 60 s after a failed attempt.
TimePasses(o) ==
  /\ status[o] \in {"APPLYING", "RETRY"} /\ ~over[o]
  /\ LeaseOutlivesRun => ~Running(o)
  /\ over' = [over EXCEPT ![o] = TRUE]
  /\ UNCHANGED <<crm, lock, event, status, kind, of, target, code, token, run,
                 stopped, failures>>

\* The customer does not want the meeting any more, and is told that no new
\* attempt will be made.
Interrupt(m) ==
  /\ lock[m] = Nobody
  /\ UnderWay(m) # {}
  /\ code' = [o \in Op |-> IF o \in UnderWay(m) THEN "INTERRUPTED" ELSE code[o]]
  /\ stopped' = stopped \union UnderWay(m)
  /\ UNCHANGED <<crm, lock, event, status, kind, of, target, token, over, run, failures>>

\* A handoff begins, or the conversation is ACTIVE again.
ChangeHands(m) ==
  /\ lock[m] = Nobody
  /\ open' = [open EXCEPT ![m] = ~@]
  /\ UNCHANGED <<meeting, slot, lock, event, operation, run, stopped, failures>>

\* recover: the notice prepared by Finish has reached the customer, or can not.
Notified(o) ==
  /\ status[o] = "COMPLETED" /\ code[o] = "NOTIFY"
  /\ code' = [code EXCEPT ![o] = "none"]
  /\ UNCHANGED <<crm, lock, event, status, kind, of, target, token, over, run,
                 stopped, failures>>

-----------------------------------------------------------------------------

Prepare(o) ==
  \E m \in Meeting : PrepareChange(o, m) \/ \E s \in Slot : PrepareCreate(o, m, s)

Step(a) ==
  \/ Claim(a) \/ ReadConversation(a) \/ GetEvent(a) \/ CheckBusy(a) \/ Lock(a)
  \/ GoogleAnswers(a) \/ Finish(a) \/ Fail(a)

Next ==
  \/ \E o \in Op : Prepare(o) \/ TimePasses(o) \/ Notified(o)
  \/ \E a \in Applier :
       \/ \E o \in Op : Begin(a, o)
       \/ Step(a) \/ GoogleAnswerLost(a) \/ Throws(a) \/ Dies(a)
  \/ \E m \in Meeting : Interrupt(m) \/ ChangeHands(m)

Spec == Init /\ [][Next]_vars

\* The scan's timer fires, the clock runs, and a process that lives goes on.
Fairness ==
  /\ \A a \in Applier : WF_vars(Step(a))
  /\ \A o \in Op : /\ WF_vars(TimePasses(o))
                   /\ WF_vars(Notified(o))
                   /\ SF_vars(\E a \in Scan : Begin(a, o))

FairSpec == Spec /\ Fairness

-----------------------------------------------------------------------------
(* The parts of the inductive invariants.                                  *)

\* An operation under way fits the meeting it is about.
OpFits(o) ==
  status[o] \in Active =>
    /\ meeting[of[o]] = IF kind[o] = "CREATE" THEN "PENDING" ELSE "CONFIRMED"
    /\ kind[o] = "CREATE" => slot[of[o]] = target[o]

\* Where Google has the event before and after an operation is carried out.
Before(o) == IF kind[o] = "CREATE" THEN NoSlot ELSE slot[of[o]]
After(o) == IF kind[o] = "CANCEL" THEN NoSlot ELSE target[o]

EventFits(o) == status[o] \in Active => event[of[o]] \in {Before(o), After(o)}

\* A run has the claim of its operation, and is right about the event.
RunKnows(a) ==
  LET o == job[a] IN
  /\ Owns(a) /\ ~over[o]
  /\ pc[a] \in {"checking", "locking", "mutating", "conflicting"} => event[of[o]] = Before(o)
  /\ pc[a] = "finishing" => event[of[o]] = After(o)

\* A run that is changing the calendar has the lock, and nobody took over.
RunHasLock(a) ==
  /\ pc[a] # "idle" => status[job[a]] # "NONE"
  /\ pc[a] = "mutating" => lock[of[job[a]]] = a /\ open[of[job[a]]]

-----------------------------------------------------------------------------
(* Properties.                                                             *)

\* Meetings never take the same slot, also while one of them is being moved
\* (prepare, l.145-180).
NoDoubleBooking ==
  \A m, n \in Meeting : m # n => Reserved(m) \cap Reserved(n) = {}

(***************************************************************************)
(* A meeting that no operation is working on is in Google's calendar       *)
(* exactly where the CRM says: a lost answer, a crash or an interruption   *)
(* never ends with an event nobody knows of, or a confirmation of none.    *)
(***************************************************************************)
CalendarAgrees ==
  \A m \in Meeting : UnderWay(m) = {} =>
    event[m] = IF meeting[m] = "CONFIRMED" THEN slot[m] ELSE NoSlot

(***************************************************************************)
(* The above with what makes it inductive: while an operation is under     *)
(* way the event is where it was or where it is going, and a run of apply  *)
(* knows which.                                                            *)
(***************************************************************************)
CalendarInv ==
  /\ CalendarAgrees
  /\ \A o \in Op : EventFits(o)
  /\ \A a \in Applier : pc[a] \in Claimed => RunKnows(a)

\* Once people have taken over, Hermes does not touch the calendar.
HumansKeepCalendar ==
  [][\A m \in Meeting : event'[m] # event[m] => open[m]]_vars

\* Every operation ends, however often its attempts die.
OperationsSettle ==
  \A o \in Op : status[o] \in Active ~> status[o] \in {"COMPLETED", "FAILED"}

(***************************************************************************)
(* google-calendar-runbook.md: a rejection stops new attempts.  The        *)
(* calendar is not changed for an operation whose customer said no.  This  *)
(* does not hold: the catch block of a run that had read the operation     *)
(* before writes its own errorCode over the interruption, and the next     *)
(* scan finds none.                                                        *)
(***************************************************************************)
RejectionStopsAttempts == \A a \in Applier : pc[a] = "mutating" => job[a] \notin stopped
=============================================================================
