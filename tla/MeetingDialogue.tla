--------------------------- MODULE MeetingDialogue ---------------------------
(***************************************************************************)
(* How one customer comes to a meeting in the chat: MeetingsService        *)
(* .handleTurn (integrations/google-calendar/meetings.service.ts), with    *)
(* the slots it offers (slot-engine.ts), what it reads from a text         *)
(* (meeting-date-parser.ts, meeting-region.ts) and the operations it       *)
(* prepares.  MeetingOperations says how an operation is applied; here it  *)
(* completes or fails at any moment (SettleOp).                              *)
(*                                                                         *)
(* A text is the set of what is recognized in it, a slot a number in the   *)
(* order of time, the names of cities only whether their zone is known.    *)
(* An attempt (a fresh UUID) is a number, and names its operation and,     *)
(* when that creates a meeting, the meeting.  Left out: rows of an older   *)
(* version without a zone, other people's meetings except as taken slots,  *)
(* switching the integration off.                                          *)
(***************************************************************************)
EXTENDS Naturals, Sequences, FiniteSets, SequencesExt

CONSTANTS
  Turns,          \* runs of handleTurn that may go on at the same time
  Days,           \* slots are offered for the days 1..Days
  PerDay,         \* so many slots in a day
  MaxTries,       \* bound: attempts
  MaxCrashes,     \* bound: runs that die
  AnswersArrive   \* the customer writes only when the last answer has arrived

ASSUME DialogueAssumption ==
  /\ {Days, PerDay, MaxTries} \subseteq Nat \ {0} /\ MaxCrashes \in Nat
  /\ AnswersArrive \in BOOLEAN

VARIABLES
  talk,        \* ConversationState.meetingState
  place, mail, \* Contact: its scheduling location and its email are known
  meets,       \* the customer's meetings
  ops,         \* their operations
  taken,       \* slots that are others'
  today,
  at, heard, mine, newest, shown,  \* a run: next step, its text, its state in memory,
                                   \* whether no message came after it, what it answers
  lastShown,   \* what the customer was shown last
  wanted, agreed,  \* history: slots the customer chose, meetings he agreed to cancel
  attempts, crashes

customer == <<lastShown, wanted, agreed>>
runVars == <<at, heard, mine, newest, shown>>
contact == <<place, mail>>
calendar == <<meets, ops, taken, today>>
talkVars == <<talk, contact, calendar, customer, runVars, attempts, crashes>>

Slots == 1..(Days * PerDay)
DayOf(s) == (s - 1) \div PerDay + 1
Tries == 1..MaxTries
\* No slot, meeting, operation or day.
No == 0

TalkPhase == {"AWAITING_LOCATION", "AWAITING_DATE", "OFFERING", "AWAITING_EMAIL", "BOOKING",
              "CONFIRMED", "AWAITING_CANCEL_CONFIRMATION",
              "AWAITING_RESCHEDULE_CONFIRMATION", "AWAITING_MEETING_SELECTION", "CANCELLED"}
Choosing == {"OFFERING", "AWAITING_EMAIL", "AWAITING_DATE"}
Confirming == {"AWAITING_CANCEL_CONFIRMATION", "AWAITING_RESCHEDULE_CONFIRMATION"}

\* What is recognized in a text: words, the number of an option, an exact slot, a day.
Words == {"request", "change", "cancel", "yes", "no", "reject", "more", "email", "city",
          "elsewhere", "unclear"}
Text == [says : SUBSET Words, pick : 0..(Days * PerDay), time : Slots \union {No},
         day : 0..Days]
Said(words) == [says |-> words, pick |-> 0, time |-> No, day |-> No]
Silence == Said({})
\* What customers write.
Messages ==
  {Said({w}) : w \in Words}
    \union {Said({"request", w}) : w \in {"change", "cancel", "city"}}
    \union {Silence}
    \union {[Said(w) EXCEPT !.day = d] : w \in {{}, {"request"}}, d \in 1..Days}
    \union {[Silence EXCEPT !.pick = n] : n \in Slots}
    \union {[Silence EXCEPT !.time = s] : s \in Slots}

NoTalk == [phase |-> "NONE", mode |-> "CREATE", attempt |-> 0, slots |-> <<>>, days |-> {},
           slot |-> No, email |-> FALSE, meeting |-> No, op |-> No, zone |-> FALSE,
           asked |-> No, choices |-> <<>>, forCancel |-> FALSE]

Shows(list) == [list |-> list, cancel |-> No]
Asks(m) == [list |-> <<>>, cancel |-> m]
Nothing == Shows(<<>>)

TalkTypeOK ==
  /\ talk.phase \in TalkPhase \union {"NONE"}
  /\ place \in BOOLEAN /\ mail \in BOOLEAN
  /\ meets \in [Tries -> [is : {"NONE", "PENDING", "CONFIRMED", "CANCELLED", "FAILED"},
                             slot : Slots \union {No}]]
  /\ ops \in [Tries -> [is : {"NONE", "PREPARED", "COMPLETED", "FAILED"},
                           kind : {"CREATE", "RESCHEDULE", "CANCEL"},
                           meeting : 0..MaxTries, slot : Slots \union {No}]]
  /\ taken \in SUBSET Slots /\ today \in 1..Days
  /\ at \in [Turns -> {"idle", "reading", "offering", "preparing", "booking", "applying",
                       "recording", "answering"}]
  /\ wanted \in SUBSET Slots /\ agreed \in SUBSET Tries
  /\ attempts \in 0..MaxTries /\ crashes \in 0..MaxCrashes

\* The customer may have made meetings before, the last of them just now.
TalkInit ==
  /\ attempts \in 0..2
  /\ talk = IF attempts = 0 THEN NoTalk
            ELSE [NoTalk EXCEPT !.phase = "CONFIRMED", !.attempt = attempts, !.slot = attempts,
                                !.meeting = attempts, !.op = attempts, !.email = TRUE,
                                !.zone = TRUE]
  /\ place \in BOOLEAN /\ mail \in BOOLEAN
  /\ attempts > 0 => place /\ mail
  /\ meets = [a \in Tries |-> IF a <= attempts THEN [is |-> "CONFIRMED", slot |-> a]
                                 ELSE [is |-> "NONE", slot |-> No]]
  /\ ops = [a \in Tries |-> IF a <= attempts
              THEN [is |-> "COMPLETED", kind |-> "CREATE", meeting |-> a, slot |-> a]
              ELSE [is |-> "NONE", kind |-> "CREATE", meeting |-> No, slot |-> No]]
  /\ wanted = 1..attempts /\ agreed = {}
  /\ taken = {} /\ today = 1
  /\ lastShown = Nothing
  /\ at = [t \in Turns |-> "idle"]
  /\ heard = [t \in Turns |-> Silence]
  /\ mine = [t \in Turns |-> NoTalk]
  /\ newest = [t \in Turns |-> FALSE]
  /\ shown = [t \in Turns |-> Nothing]
  /\ crashes = 0

-----------------------------------------------------------------------------
(* What is there to offer.                                                 *)

\* The customer's meetings that can still be changed.
ActiveMeets == {m \in Tries : meets[m].is = "CONFIRMED" /\ DayOf(meets[m].slot) >= today}

\* Slots that are taken, or about to be, by anything but meeting m.
TakenSlots(m) ==
  taken \union {meets[n].slot : n \in {x \in Tries \ {m} :
                                        meets[x].is \in {"PENDING", "CONFIRMED"}}}
        \union {ops[a].slot : a \in {x \in Tries : /\ ops[x].is = "PREPARED"
                                                       /\ ops[x].kind = "RESCHEDULE"
                                                       /\ ops[x].meeting # m}}

FreeSlot(s, m) == DayOf(s) >= today /\ s \notin TakenSlots(m)

generateSlots(days, m) ==
  SetToSortSeq({s \in Slots : DayOf(s) \in days /\ FreeSlot(s, m)}, <)

-----------------------------------------------------------------------------
(* The steps of a run that end or hand on.                                 *)

Reply(t, what) ==
  /\ at' = [at EXCEPT ![t] = "answering"]
  /\ shown' = [shown EXCEPT ![t] = what]
  /\ UNCHANGED mine

Proceed(t, step, d) ==
  /\ at' = [at EXCEPT ![t] = step]
  /\ mine' = [mine EXCEPT ![t] = d]
  /\ UNCHANGED shown

\* offer, for the days asked for, or those offered before, or the week.
Propose(t, d, days) ==
  Proceed(t, "offering",
       [d EXCEPT !.days = IF days # {} THEN days ELSE IF d.days # {} THEN d.days ELSE today..Days])

\* book: an operation that was prepared before is not prepared again.
Book(t, d) == Proceed(t, IF d.op = No THEN "preparing" ELSE "applying", d)
KindOf(d) == IF d.phase = "AWAITING_CANCEL_CONFIRMATION" THEN "CANCEL" ELSE d.mode

FreshAttempt == attempts < MaxTries /\ attempts' = attempts + 1

\* beginDate, in a dialogue that was saved as d.
beginDate(t, d, m) ==
  \/ /\ "unclear" \in m.says
     /\ talk' = [d EXCEPT !.phase = "OFFERING", !.slots = <<>>,
                          !.days = IF m.day = No THEN {} ELSE {m.day}]
     /\ Reply(t, Nothing)
  \/ /\ "unclear" \notin m.says /\ m.day = No
     /\ talk' = [d EXCEPT !.phase = "AWAITING_DATE"]
     /\ Reply(t, Nothing)
  \/ /\ "unclear" \notin m.says /\ m.day # No
     /\ talk' = d
     /\ Propose(t, d, {m.day})

\* modify: a question before a cancellation, slots before a change.
modify(t, m, cancel) ==
  LET d == [NoTalk EXCEPT !.mode = "RESCHEDULE", !.attempt = attempts + 1, !.meeting = m,
                          !.slot = meets[m].slot, !.email = TRUE, !.zone = TRUE,
                          !.phase = IF cancel THEN "AWAITING_CANCEL_CONFIRMATION" ELSE "OFFERING"]
  IN /\ FreshAttempt
     /\ \/ cancel /\ talk' = d /\ Reply(t, Asks(m))
        \/ ~cancel /\ UNCHANGED talk /\ Propose(t, d, {})

\* MEETING_SLOT_OCCUPIED, caught at the end of handleTurn.
OfferAgain(t, d) ==
  /\ FreshAttempt
  /\ Propose(t, [d EXCEPT !.phase = "OFFERING", !.attempt = attempts + 1, !.slot = No, !.op = No],
             {})

-----------------------------------------------------------------------------
(* handleTurn: what a text is about, given the dialogue it is read with.    *)

Changes(d, m) == "change" \in m.says /\ ("request" \in m.says \/ d.meeting # No)
Cancels(d, m) == "cancel" \in m.says /\ ("request" \in m.says \/ d.meeting # No)
InDialogue(d) == d.phase \in TalkPhase \ {"CONFIRMED", "CANCELLED"}

Topic(d, m) ==
  IF ~(\/ "request" \in m.says
       \/ InDialogue(d)
       \/ Changes(d, m)
       \/ Cancels(d, m)
       \/ (d.phase = "CONFIRMED" /\ "yes" \in m.says))
    THEN "none"
  ELSE IF InDialogue(d) /\ d.phase \notin Confirming /\ "reject" \in m.says THEN "reject"
  ELSE IF d.phase \in Choosing /\ m.says \cap {"city", "elsewhere"} # {} THEN "city"
  ELSE IF /\ d.phase \in {"OFFERING", "AWAITING_EMAIL", "CONFIRMED", "CANCELLED", "NONE"}
          /\ (Changes(d, m) \/ Cancels(d, m))
    THEN "modify"
  ELSE d.phase

\* Not about a meeting: somebody else answers.
Ignore(t) == UNCHANGED <<talk, contact, attempts>> /\ Reply(t, Nothing)

GiveUp(t) ==
  /\ talk' = [talk EXCEPT !.phase = "CANCELLED", !.slot = No]
  /\ UNCHANGED <<contact, attempts>> /\ Reply(t, Nothing)

ApplyAgain(t) == UNCHANGED <<talk, contact, attempts>> /\ Book(t, talk)

TellLocation(t, m) ==
  \/ /\ "city" \notin m.says
     /\ Ignore(t)
  \/ /\ "city" \in m.says
     /\ place' = TRUE /\ UNCHANGED <<mail, attempts>>
     /\ beginDate(t, [talk EXCEPT !.phase = "AWAITING_DATE", !.zone = TRUE],
                  IF m.day # No \/ "unclear" \in m.says THEN m
                  ELSE [Silence EXCEPT !.day = talk.asked])

CorrectLocation(t, m) ==
  \/ /\ talk.mode = "RESCHEDULE"
     /\ Ignore(t)
  \/ /\ talk.mode = "CREATE" /\ "city" \notin m.says
     /\ talk' = [talk EXCEPT !.phase = "AWAITING_LOCATION", !.slots = <<>>, !.slot = No,
                             !.days = {}, !.asked = m.day]
     /\ UNCHANGED <<contact, attempts>> /\ Reply(t, Nothing)
  \/ /\ talk.mode = "CREATE" /\ "city" \in m.says
     /\ FreshAttempt /\ place' = TRUE /\ UNCHANGED mail
     /\ beginDate(t, [talk EXCEPT !.slots = <<>>, !.slot = No, !.days = {}, !.op = No,
                                  !.attempt = attempts + 1],
                  IF m.day # No \/ "unclear" \in m.says \/ talk.days = {} THEN m
                  ELSE [Silence EXCEPT !.day = CHOOSE x \in talk.days : \A y \in talk.days :
                                                                           x <= y])

TellDate(t, m) == UNCHANGED <<contact, attempts>> /\ beginDate(t, talk, m)

SelectMeeting(t, m) ==
  LET known == {x \in ActiveMeets : \E i \in DOMAIN talk.choices : talk.choices[i] = x}
      meant == IF m.pick # No
                 THEN {x \in known : m.pick <= Len(talk.choices) /\ talk.choices[m.pick] = x}
               ELSE IF m.time # No THEN {x \in known : meets[x].slot = m.time}
               ELSE {x \in known : DayOf(meets[x].slot) = m.day}
  IN \/ Cardinality(meant) # 1 /\ Ignore(t)
     \/ /\ Cardinality(meant) = 1 /\ UNCHANGED contact
        /\ \E x \in meant : modify(t, x, talk.forCancel)

Keep(t) ==
  /\ talk' = [talk EXCEPT !.phase = "CONFIRMED"]
  /\ UNCHANGED <<contact, attempts>> /\ Reply(t, Nothing)

ConfirmChange(t, m) ==
  \/ /\ "yes" \in m.says /\ FreshAttempt /\ UNCHANGED <<talk, contact>>
     /\ Propose(t, [talk EXCEPT !.mode = "RESCHEDULE", !.attempt = attempts + 1], {})
  \/ "no" \in m.says /\ Keep(t)
  \/ m.says \cap {"yes", "no"} = {} /\ Ignore(t)

\* fault: what is not a no is a yes.
ConfirmCancelUnlessNo(t, m) ==
  \/ "no" \notin m.says /\ UNCHANGED <<talk, contact, attempts>> /\ Book(t, talk)
  \/ "no" \in m.says /\ Keep(t)

ConfirmCancel(t, m) ==
  \/ "yes" \in m.says /\ UNCHANGED <<talk, contact, attempts>> /\ Book(t, talk)
  \/ "no" \in m.says /\ Keep(t)
  \/ /\ m.says \cap {"yes", "no"} = {}
     /\ UNCHANGED <<talk, contact, attempts>> /\ Reply(t, Asks(talk.meeting))

ChangeMeeting(t, m) ==
  \/ /\ Cardinality(ActiveMeets) > 1 /\ UNCHANGED <<contact, attempts>> \* an attempt never used
     /\ talk' = [NoTalk EXCEPT !.phase = "AWAITING_MEETING_SELECTION", !.mode = "RESCHEDULE",
                               !.forCancel = Cancels(talk, m),
                               !.choices = SetToSortSeq(ActiveMeets,
                                             LAMBDA x, y : meets[x].slot < meets[y].slot)]
     /\ Reply(t, Nothing)
  \/ ActiveMeets = {} /\ Ignore(t)
  \/ /\ Cardinality(ActiveMeets) = 1 /\ UNCHANGED contact
     /\ \E x \in ActiveMeets : modify(t, x, Cancels(talk, m))

BeginTalk(t, m) ==
  /\ "request" \in m.says
  /\ \/ /\ talk.phase = "CONFIRMED" /\ Cardinality(ActiveMeets) = 1
        /\ \E x \in ActiveMeets :
             talk' = [talk EXCEPT !.phase = "AWAITING_RESCHEDULE_CONFIRMATION", !.meeting = x,
                                  !.email = TRUE, !.zone = TRUE]
        /\ UNCHANGED <<contact, attempts>> /\ Reply(t, Nothing)
     \/ /\ ~(talk.phase = "CONFIRMED" /\ Cardinality(ActiveMeets) = 1)
        /\ FreshAttempt /\ UNCHANGED mail
        /\ LET known == "city" \in m.says \/ ("elsewhere" \notin m.says /\ place)
               d == [NoTalk EXCEPT !.phase = IF known THEN "OFFERING" ELSE "AWAITING_LOCATION",
                                   !.attempt = attempts + 1, !.asked = m.day, !.zone = known]
           IN /\ place' = (place \/ "city" \in m.says)
              /\ \/ known /\ beginDate(t, d, m)
                 \/ ~known /\ talk' = d /\ Reply(t, Nothing)

TellEmail(t, m) ==
  \/ "email" \notin m.says /\ Ignore(t)
  \/ /\ "email" \in m.says /\ mail' = TRUE
     /\ talk' = [talk EXCEPT !.email = TRUE]
     /\ UNCHANGED <<place, attempts>> /\ Book(t, talk')

\* A slot of the offer, by its number or its time.
ChosenSlot(m) ==
  IF m.pick \in DOMAIN talk.slots THEN talk.slots[m.pick]
  ELSE IF m.time \in ToSet(talk.slots) THEN m.time ELSE No
OtherDay(m) == IF m.time # No THEN DayOf(m.time) ELSE m.day

Choose(t, m) ==
  \/ /\ "more" \in m.says
     /\ talk' = talk \* the page, which is not modelled
     /\ UNCHANGED <<contact, attempts>> /\ Reply(t, Shows(talk.slots))
  \/ /\ "more" \notin m.says /\ ChosenSlot(m) = No /\ OtherDay(m) # No
     /\ FreshAttempt /\ UNCHANGED <<talk, contact>>
     /\ Propose(t, [talk EXCEPT !.attempt = attempts + 1], {OtherDay(m)})
  \/ "more" \notin m.says /\ ChosenSlot(m) = No /\ OtherDay(m) = No /\ Ignore(t)
  \/ /\ "more" \notin m.says /\ ChosenSlot(m) # No /\ UNCHANGED <<contact, attempts>>
     /\ LET email == talk.email \/ mail
        IN /\ talk' = [talk EXCEPT !.slot = ChosenSlot(m), !.email = email,
                                   !.phase = IF email THEN @ ELSE "AWAITING_EMAIL"]
           /\ \/ email /\ Book(t, talk')
              \/ ~email /\ Reply(t, Nothing)

HandleTurn(t) ==
  LET m == heard[t]
      topic == Topic(talk, m)
  IN /\ at[t] = "reading"
     /\ \/ topic = "none" /\ Ignore(t)
        \/ topic = "reject" /\ GiveUp(t)
        \/ topic = "BOOKING" /\ ApplyAgain(t)
        \/ topic = "AWAITING_LOCATION" /\ TellLocation(t, m)
        \/ topic = "city" /\ CorrectLocation(t, m)
        \/ topic = "AWAITING_DATE" /\ TellDate(t, m)
        \/ topic = "AWAITING_MEETING_SELECTION" /\ SelectMeeting(t, m)
        \/ topic = "AWAITING_RESCHEDULE_CONFIRMATION" /\ ConfirmChange(t, m)
        \/ topic = "AWAITING_CANCEL_CONFIRMATION" /\ ConfirmCancel(t, m)
        \/ topic = "modify" /\ ChangeMeeting(t, m)
        \/ topic = "CONFIRMED" /\ "request" \notin m.says /\ Ignore(t)
        \/ topic \in {"NONE", "CONFIRMED", "CANCELLED"} /\ BeginTalk(t, m)
        \/ topic = "OFFERING" /\ Choose(t, m)
        \/ topic = "AWAITING_EMAIL" /\ TellEmail(t, m)
     /\ UNCHANGED <<calendar, customer, heard, newest, crashes>>

-----------------------------------------------------------------------------
(* offer and book.                                                          *)

Offer(t) ==
  LET d == mine[t]
      list == generateSlots(d.days, d.meeting)
  IN /\ at[t] = "offering"
     /\ \/ \* all of it is over
           (\A x \in d.days : x < today) /\ UNCHANGED talk /\ Reply(t, Nothing)
        \/ \* Google does not answer
           UNCHANGED talk /\ Reply(t, Nothing)
        \/ /\ \E x \in d.days : x >= today
           /\ talk' = [d EXCEPT !.phase = "OFFERING", !.slots = list, !.slot = No, !.op = No]
           /\ Reply(t, Shows(list))
     /\ UNCHANGED <<contact, calendar, customer, heard, newest, attempts, crashes>>

\* An operation that the attempt already has is the one that is meant.
Known(d) == ops[d.attempt].is # "NONE"

PrepareOp(t) ==
  LET d == mine[t]
      kind == KindOf(d)
      m == IF kind = "CREATE" THEN d.attempt ELSE d.meeting
      changeable == \/ kind = "CREATE"
                    \/ /\ meets[m].is = "CONFIRMED"
                       /\ \A a \in Tries : ops[a].meeting = m => ops[a].is # "PREPARED"
      free == kind = "CANCEL" \/ FreeSlot(d.slot, m)
  IN /\ at[t] = "preparing"
     /\ \/ Known(d) /\ Proceed(t, "booking", d) /\ UNCHANGED <<meets, ops, attempts>>
        \/ \* the meeting may not be changed, or somebody else has the conversation
           ~Known(d) /\ Reply(t, Nothing) /\ UNCHANGED <<meets, ops, attempts>>
        \/ ~Known(d) /\ changeable /\ ~free /\ OfferAgain(t, d) /\ UNCHANGED <<meets, ops>>
        \/ /\ ~Known(d) /\ changeable /\ free
           /\ ops' = [ops EXCEPT ![d.attempt] = [is |-> "PREPARED", kind |-> kind, meeting |-> m,
                                                 slot |-> d.slot]]
           /\ meets' = IF kind = "CREATE"
                         THEN [meets EXCEPT ![m] = [is |-> "PENDING", slot |-> d.slot]]
                         ELSE meets
           /\ Proceed(t, "booking", d) /\ UNCHANGED attempts
     /\ UNCHANGED <<talk, contact, taken, today, customer, heard, newest, crashes>>

SaveBooking(t) ==
  /\ at[t] = "booking"
  /\ talk' = [mine[t] EXCEPT !.phase = "BOOKING", !.op = mine[t].attempt]
  /\ Proceed(t, "applying", talk')
  /\ UNCHANGED <<contact, calendar, customer, heard, newest, attempts, crashes>>

\* What came of the operation by the end of apply (see SettleOp).
Apply(t) ==
  LET d == mine[t]
      o == ops[d.op]
  IN /\ at[t] = "applying"
     /\ \/ /\ o.is = "COMPLETED" /\ UNCHANGED attempts
           /\ Proceed(t, "recording",
                   [d EXCEPT !.meeting = o.meeting,
                             !.phase = IF meets[o.meeting].is = "CANCELLED" THEN "CANCELLED"
                                       ELSE "CONFIRMED"])
        \/ o.is = "FAILED" /\ OfferAgain(t, d)
        \/ o.is = "PREPARED" /\ Reply(t, Nothing) /\ UNCHANGED attempts
     /\ UNCHANGED <<talk, contact, calendar, customer, heard, newest, crashes>>

SaveOutcome(t) ==
  /\ at[t] = "recording"
  /\ talk' = mine[t]
  /\ Reply(t, Nothing)
  /\ UNCHANGED <<contact, calendar, customer, heard, newest, attempts, crashes>>

\* The answer is sent, unless the customer wrote again.
Send(t) ==
  /\ at[t] = "answering"
  /\ at' = [at EXCEPT ![t] = "idle"]
  /\ lastShown' = IF newest[t]
               THEN [cancel |-> shown[t].cancel,
                     list |-> IF shown[t].list = <<>> THEN lastShown.list ELSE shown[t].list]
               ELSE lastShown
  /\ heard' = [heard EXCEPT ![t] = Silence]
  /\ mine' = [mine EXCEPT ![t] = NoTalk]
  /\ shown' = [shown EXCEPT ![t] = Nothing]
  /\ newest' = [newest EXCEPT ![t] = FALSE]
  /\ UNCHANGED <<talk, contact, calendar, wanted, agreed, attempts, crashes>>

\* A turn that finds a newer message is left to the turn of that message.
Superseded(t) ==
  /\ at[t] = "reading" /\ ~newest[t]
  /\ at' = [at EXCEPT ![t] = "idle"]
  /\ heard' = [heard EXCEPT ![t] = Silence]
  /\ UNCHANGED <<talk, contact, calendar, customer, mine, newest, shown, attempts, crashes>>

\* The process dies; the turn is run again from its beginning.
Dies(t) ==
  /\ at[t] \notin {"idle", "reading"} /\ crashes < MaxCrashes
  /\ at' = [at EXCEPT ![t] = "reading"]
  /\ mine' = [mine EXCEPT ![t] = NoTalk]
  /\ shown' = [shown EXCEPT ![t] = Nothing]
  /\ crashes' = crashes + 1
  /\ UNCHANGED <<talk, contact, calendar, customer, heard, newest, attempts>>

-----------------------------------------------------------------------------
(* Everybody else.                                                          *)

\* A message, and its turn.
Write(t, m) ==
  /\ at[t] = "idle"
  /\ AnswersArrive => \A u \in Turns : at[u] = "idle"
  /\ at' = [at EXCEPT ![t] = "reading"]
  /\ heard' = [heard EXCEPT ![t] = m]
  /\ newest' = [u \in Turns |-> u = t]
  /\ wanted' = wanted \union (IF m.pick \in DOMAIN lastShown.list
                                THEN {lastShown.list[m.pick]} ELSE {})
                      \union ({m.time} \ {No})
  /\ agreed' = agreed \union (IF "yes" \in m.says THEN {lastShown.cancel} \ {No} ELSE {})
  /\ UNCHANGED <<talk, contact, calendar, lastShown, mine, shown, attempts, crashes>>

\* Somebody, the run that waits in apply or a scan, brings an operation to its end.
SettleOp(a) ==
  LET o == ops[a]
  IN /\ o.is = "PREPARED"
     /\ \/ /\ ops' = [ops EXCEPT ![a].is = "COMPLETED"]
           /\ meets' = [meets EXCEPT ![o.meeting] =
                          IF o.kind = "CANCEL" THEN [@ EXCEPT !.is = "CANCELLED"]
                          ELSE [is |-> "CONFIRMED", slot |-> o.slot]]
        \/ /\ ops' = [ops EXCEPT ![a].is = "FAILED"]
           /\ meets' = IF o.kind = "CREATE" THEN [meets EXCEPT ![o.meeting].is = "FAILED"]
                       ELSE meets
     /\ UNCHANGED <<talk, contact, taken, today, customer, runVars, attempts, crashes>>

OthersBook(s) ==
  /\ FreeSlot(s, No)
  /\ taken' = taken \union {s}
  /\ UNCHANGED <<talk, contact, meets, ops, today, customer, runVars, attempts, crashes>>

DayPasses ==
  /\ today < Days
  /\ today' = today + 1
  /\ UNCHANGED <<talk, contact, meets, ops, taken, customer, runVars, attempts, crashes>>

TalkNext ==
  \/ \E t \in Turns : \/ \E m \in Messages : Write(t, m)
                      \/ HandleTurn(t) \/ Offer(t) \/ PrepareOp(t)
                      \/ SaveBooking(t) \/ Apply(t) \/ SaveOutcome(t) \/ Send(t)
  \/ \E a \in Tries : SettleOp(a)
  \/ \E s \in Slots : OthersBook(s)
  \/ DayPasses

TalkSpec == TalkInit /\ [][TalkNext]_talkVars

\* With turns that overlap, and runs that die.
HastyTalkSpec == TalkInit /\ [][TalkNext \/ \E t \in Turns : Superseded(t) \/ Dies(t)]_talkVars

-----------------------------------------------------------------------------
\* Nothing is done to the calendar that the customer did not ask for: every slot an operation
\* books, or moves a meeting to, was chosen by him from what he had been shown (or by its
\* time), and every cancellation answers the question whether to cancel that very meeting
\* (docs/google-calendar-runbook.md l.121 and l.139; handleTurn, prepare).  It holds if each
\* answer arrives before he writes again.  It does not hold otherwise: what is saved before
\* it is shown, a question or a new list, is answered by words that meant something else.
OperationsAreAskedFor ==
  \A a \in Tries : ops[a].is # "NONE" =>
    IF ops[a].kind = "CANCEL" THEN ops[a].meeting \in agreed ELSE ops[a].slot \in wanted
=============================================================================
