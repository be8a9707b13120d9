------------------------------ MODULE TurnsProofs ------------------------------
(* Machine-checked proofs about InboundTurn, for any number of messages and  *)
(* workers, any debounce, maximum wait, lease and number of failures, and    *)
(* about MeetingDialogue, for any number of turns, days, slots and attempts. *)
EXTENDS InboundTurn, MeetingDialogue, TLAPS

\* The value of a worker that has nothing to do.
LEMMA SomeIsMessage == SomeMessage \in Message
BY NamesAssumption DEF SomeMessage

\* Counting down stops at the floor.
LEMMA DownFits ==
  ASSUME NEW low \in Int, NEW high \in Int, NEW n \in low..high
  PROVE  Down(n, low) \in low..high
BY DEF Down

\* Counting down keeps the order of two countdowns.
LEMMA DownKeepsOrder ==
  ASSUME NEW low \in Int, NEW a \in Int, NEW b \in Int, low <= a, a <= b
  PROVE  Down(a, low) <= Down(b, low)
BY DEF Down

\* The instant a turn falls due fits its type, when a message joins it or opens it.
LEMMA DueFits ==
  ASSUME NEW a \in 0..MaxAge, NEW r \in Floor..MaxWait
  PROVE  /\ Least(Debounce - a, r) \in Floor..Debounce
         /\ Least(Debounce - a, r) <= r
         /\ Least(Debounce, MaxWait) - a \in Floor..Debounce
         /\ MaxWait - a \in Floor..MaxWait
         /\ Least(Debounce, MaxWait) - a <= MaxWait - a
BY TimesAssumption DEF Least, Floor

-----------------------------------------------------------------------------
(* Type correctness: the rows, the schedules and the workers apart.        *)

TypeRows ==
  /\ status \in [Message -> TurnStatus]
  /\ due \in [Message -> Floor..Debounce]
  /\ room \in [Message -> Floor..MaxWait]
  /\ leaseLeft \in [Message -> 0..Lease]
  /\ token \in [Message -> Worker \union {NoToken}]
  /\ lastMessage \in [Message -> Message]
  /\ batch \in [Message -> Seq(Message)]

TypeSchedules ==
  /\ lock \in Message \union {Free, Other}
  /\ sched \in [Message -> {"new", "waiting", "found", "done"}]
  /\ age \in [Message -> 0..MaxAge]
  /\ found \in [Message -> Message \union {NoTurn}]

TypeWorkers ==
  /\ pc \in [Worker -> {"idle", "claimed", "reading", "answering",
                        "completing", "releasing"}]
  /\ turn \in [Worker -> Message]
  /\ tok \in [Worker -> Worker \union {NoToken}]
  /\ source \in [Worker -> Message]
  /\ seen \in [Worker -> SUBSET Message]
  /\ failures \in 0..MaxFailures
  /\ considered \in SUBSET Message

LEMMA TypeParts == TypeOK <=> TypeRows /\ TypeSchedules /\ TypeWorkers
BY DEF TypeOK, TypeRows, TypeSchedules, TypeWorkers

\* The members of a turn are messages.
LEMMA MembersFit ==
  ASSUME TypeRows, NEW t \in Message PROVE Members(t) \subseteq Message
<1>1. batch[t] \in Seq(Message)
  BY DEF TypeRows
<1>2. \A i \in 1..Len(batch[t]) : batch[t][i] \in Message
  BY <1>1
<1>3. QED
  BY <1>2 DEF Members

LEMMA TypePartsNext ==
  ASSUME TypeRows', TypeSchedules', TypeWorkers' PROVE TypeOK'
BY DEF TypeOK, TypeRows, TypeSchedules, TypeWorkers

\* What nobody touches stays well typed.
LEMMA RowsKept == TypeRows /\ UNCHANGED turns => TypeRows'
BY DEF TypeRows, turns

LEMMA SchedulesKept == TypeSchedules /\ UNCHANGED schedules => TypeSchedules'
BY DEF TypeSchedules, schedules

LEMMA WorkersKept == TypeWorkers /\ UNCHANGED workers => TypeWorkers'
BY DEF TypeWorkers, workers

LEMMA EndScheduleFits ==
  ASSUME TypeSchedules, NEW m \in Message, NEW how \in {"new", "done"},
         EndSchedule(m, how)
  PROVE  TypeSchedules'
BY TimesAssumption DEF TypeSchedules, EndSchedule

LEMMA EndClaimFits ==
  ASSUME TypeRows, TypeWorkers, NEW w \in Worker, NEW st \in TurnStatus,
         EndClaim(w, st), UNCHANGED <<due, room, lastMessage, batch>>
  PROVE  TypeRows'
<1>1. turn[w] \in Message /\ 0 \in 0..Lease
  BY TimesAssumption DEF TypeWorkers
<1>2. CASE status[turn[w]] = "PROCESSING" /\ token[turn[w]] = tok[w]
  <2>1. /\ status' = [status EXCEPT ![turn[w]] = st]
        /\ leaseLeft' = [leaseLeft EXCEPT ![turn[w]] = 0]
        /\ token' = [token EXCEPT ![turn[w]] = NoToken]
    BY <1>2 DEF EndClaim
  <2>2. QED
    BY <1>1, <2>1 DEF TypeRows
<1>3. CASE ~(status[turn[w]] = "PROCESSING" /\ token[turn[w]] = tok[w])
  BY <1>3 DEF EndClaim, TypeRows
<1>4. QED
  BY <1>2, <1>3

LEMMA EndRunFits ==
  ASSUME TypeWorkers, NEW w \in Worker, EndRun(w), failures' \in 0..MaxFailures,
         UNCHANGED considered
  PROVE  TypeWorkers'
BY SomeIsMessage DEF TypeWorkers, EndRun

LEMMA TypeInit == Init => TypeOK
<1>1. SUFFICES ASSUME Init PROVE TypeOK
  OBVIOUS
<1>2. TypeRows
  BY <1>1, TimesAssumption DEF Init, TypeRows, TurnStatus, Floor
<1>3. TypeSchedules
  BY <1>1, TimesAssumption DEF Init, TypeSchedules
<1>4. TypeWorkers
  BY <1>1, TimesAssumption, SomeIsMessage DEF Init, TypeWorkers
<1>5. QED
  BY <1>2, <1>3, <1>4, TypeParts

\* The steps of a schedule.
LEMMA TypeSchedule ==
  ASSUME TypeOK, NEW m \in Message,
         ReadClock(m) \/ ScheduleStep(m) \/ AbortSchedule(m) \/ Retry(m)
  PROVE  TypeOK'
<1>t. TypeRows /\ TypeSchedules /\ TypeWorkers
  BY TypeParts
<1>1. CASE ReadClock(m)
  <2>1. TypeSchedules'
    BY <1>t, <1>1, TimesAssumption DEF TypeSchedules, ReadClock
  <2>2. QED
    BY <1>t, <1>1, <2>1, RowsKept, WorkersKept, TypePartsNext DEF ReadClock
<1>2. CASE AlreadyScheduled(m)
  <2>1. TypeSchedules'
    BY <1>t, <1>2, TimesAssumption DEF TypeSchedules, AlreadyScheduled
  <2>2. QED
    BY <1>t, <1>2, <2>1, RowsKept, WorkersKept, TypePartsNext DEF AlreadyScheduled
<1>3. CASE FindOpen(m)
  <2>1. \/ found' = found
        \/ \E t \in Message : found' = [found EXCEPT ![m] = t]
    BY <1>3 DEF FindOpen, Joinable
  <2>2. TypeSchedules'
    BY <1>t, <1>3, <2>1 DEF TypeSchedules, FindOpen
  <2>3. QED
    BY <1>t, <1>3, <2>2, RowsKept, WorkersKept, TypePartsNext DEF FindOpen
<1>4. CASE Join(m)
  <2>1. found[m] \in Message /\ age[m] \in 0..MaxAge /\ room[found[m]] \in Floor..MaxWait
    BY <1>t, <1>4 DEF Join, TypeSchedules, TypeRows
  <2>2. due' \in [Message -> Floor..Debounce]
    BY <1>t, <1>4, <2>1, DueFits DEF Join, TypeRows
  <2>3. batch' \in [Message -> Seq(Message)]
    BY <1>t, <1>4, <2>1 DEF Join, TypeRows
  <2>4. TypeRows'
    BY <1>t, <1>4, <2>1, <2>2, <2>3 DEF Join, TypeRows
  <2>5. TypeSchedules'
    BY <1>t, <1>4, EndScheduleFits DEF Join
  <2>6. QED
    BY <1>t, <1>4, <2>4, <2>5, WorkersKept, TypePartsNext DEF Join
<1>5. CASE OpenTurn(m)
  <2>1. age[m] \in 0..MaxAge /\ MaxWait \in Floor..MaxWait
    BY <1>t, TimesAssumption DEF TypeSchedules, Floor
  <2>2. due' \in [Message -> Floor..Debounce] /\ room' \in [Message -> Floor..MaxWait]
    BY <1>t, <1>5, <2>1, DueFits DEF OpenTurn, TypeRows
  <2>3. TypeRows'
    BY <1>t, <1>5, <2>2 DEF OpenTurn, TypeRows, TurnStatus
  <2>4. TypeSchedules'
    BY <1>t, <1>5, EndScheduleFits DEF OpenTurn
  <2>5. QED
    BY <1>t, <1>5, <2>3, <2>4, WorkersKept, TypePartsNext DEF OpenTurn
<1>6. CASE AbortSchedule(m)
  <2>1. TypeSchedules'
    BY <1>t, <1>6, EndScheduleFits DEF AbortSchedule
  <2>2. TypeWorkers'
    BY <1>t, <1>6, TimesAssumption DEF AbortSchedule, TypeWorkers
  <2>3. QED
    BY <1>t, <1>6, <2>1, <2>2, RowsKept, TypePartsNext DEF AbortSchedule
<1>7. CASE Retry(m)
  <2>1. TypeSchedules'
    BY <1>t, <1>7 DEF Retry, TypeSchedules
  <2>2. TypeWorkers'
    BY <1>t, <1>7, TimesAssumption DEF Retry, TypeWorkers
  <2>3. QED
    BY <1>t, <1>7, <2>1, <2>2, RowsKept, TypePartsNext DEF Retry
<1>8. QED
  BY <1>1, <1>2, <1>3, <1>4, <1>5, <1>6, <1>7 DEF ScheduleStep

\* The steps of a worker.
LEMMA TypeWorker ==
  ASSUME TypeOK, NEW w \in Worker,
         (\E t \in Message : Claim(w, t)) \/ RunStep(w) \/ Crash(w)
  PROVE  TypeOK'
<1>t. TypeRows /\ TypeSchedules /\ TypeWorkers
  BY TypeParts
<1>1. ASSUME NEW t \in Message, Claim(w, t) PROVE TypeOK'
  <2>1. TypeRows'
    BY <1>t, <1>1, TimesAssumption DEF Claim, TypeRows, TurnStatus
  <2>2. TypeWorkers'
    BY <1>t, <1>1 DEF Claim, TypeWorkers
  <2>3. QED
    BY <1>t, <1>1, <2>1, <2>2, SchedulesKept, TypePartsNext DEF Claim
<1>2. CASE ReadTurn(w)
  <2>1. TypeWorkers'
    BY <1>t, <1>2 DEF ReadTurn, TypeWorkers, TypeRows
  <2>2. QED
    BY <1>t, <1>2, <2>1, RowsKept, SchedulesKept, TypePartsNext DEF ReadTurn
<1>3. CASE ReadMessages(w)
  <2>1. Members(turn[w]) \subseteq Message
    BY <1>t, MembersFit DEF TypeWorkers
  <2>2. TypeWorkers'
    BY <1>t, <1>3, <2>1 DEF ReadMessages, TypeWorkers
  <2>3. QED
    BY <1>t, <1>3, <2>2, RowsKept, SchedulesKept, TypePartsNext DEF ReadMessages
<1>4. CASE Answer(w)
  <2>1. TypeWorkers'
    BY <1>t, <1>4 DEF Answer, TypeWorkers
  <2>2. QED
    BY <1>t, <1>4, <2>1, RowsKept, SchedulesKept, TypePartsNext DEF Answer
<1>5. CASE Fail(w)
  <2>1. TypeWorkers'
    BY <1>t, <1>5, TimesAssumption DEF Fail, TypeWorkers
  <2>2. QED
    BY <1>t, <1>5, <2>1, RowsKept, SchedulesKept, TypePartsNext DEF Fail
<1>6. CASE Complete(w)
  <2>1. TypeRows'
    BY <1>t, <1>6, EndClaimFits DEF Complete, TurnStatus
  <2>2. TypeWorkers'
    BY <1>t, <1>6, EndRunFits DEF Complete, TypeWorkers
  <2>3. QED
    BY <1>t, <1>6, <2>1, <2>2, SchedulesKept, TypePartsNext DEF Complete
<1>7. CASE Release(w)
  <2>1. TypeRows'
    BY <1>t, <1>7, EndClaimFits DEF Release, TurnStatus
  <2>2. TypeWorkers'
    BY <1>t, <1>7, EndRunFits DEF Release, TypeWorkers
  <2>3. QED
    BY <1>t, <1>7, <2>1, <2>2, SchedulesKept, TypePartsNext DEF Release
<1>8. CASE Crash(w)
  <2>1. failures' \in 0..MaxFailures
    BY <1>t, <1>8, TimesAssumption DEF Crash, TypeWorkers
  <2>2. QED
    BY <1>t, <1>8, <2>1, EndRunFits, RowsKept, SchedulesKept, TypePartsNext DEF Crash
<1>9. QED
  BY <1>1, <1>2, <1>3, <1>4, <1>5, <1>6, <1>7, <1>8 DEF RunStep

\* Time, and whoever else holds the lock.
LEMMA TypeOthers ==
  ASSUME TypeOK, Tick \/ OtherLocks \/ OtherUnlocks PROVE TypeOK'
<1>t. TypeRows /\ TypeSchedules /\ TypeWorkers
  BY TypeParts
<1>1. CASE OtherLocks \/ OtherUnlocks
  <2>1. TypeSchedules'
    BY <1>t, <1>1 DEF TypeSchedules, OtherLocks, OtherUnlocks
  <2>2. QED
    BY <1>t, <1>1, <2>1, RowsKept, WorkersKept, TypePartsNext DEF OtherLocks, OtherUnlocks
<1>2. CASE Tick
  <2>1. \A t \in Message : /\ Down(due[t], Floor) \in Floor..Debounce
                           /\ Down(room[t], Floor) \in Floor..MaxWait
                           /\ Down(leaseLeft[t], 0) \in 0..Lease
    BY <1>t, TimesAssumption, DownFits DEF TypeRows, Floor
  <2>2. TypeRows'
    BY <1>t, <1>2, <2>1 DEF TypeRows, Tick
  <2>3. \A m \in Message : Scheduling(m) => age[m] + 1 \in 0..MaxAge
    BY <1>t, <1>2, TimesAssumption DEF TypeSchedules, Tick
  <2>4. TypeSchedules'
    BY <1>t, <1>2, <2>3 DEF TypeSchedules, Tick
  <2>5. QED
    BY <1>t, <1>2, <2>2, <2>4, WorkersKept, TypePartsNext DEF Tick
<1>3. QED
  BY <1>1, <1>2

\* Every variable has its type, in every state.
THEOREM TypeCorrect == Spec => []TypeOK
<1>1. TypeOK /\ [Next]_vars => TypeOK'
  <2>1. SUFFICES ASSUME TypeOK, [Next]_vars PROVE TypeOK'
    OBVIOUS
  <2>2. CASE UNCHANGED vars
    BY <2>1, <2>2, TypeParts, RowsKept, SchedulesKept, WorkersKept, TypePartsNext DEF vars
  <2>3. CASE Next
    BY <2>1, <2>3, TypeSchedule, TypeWorker, TypeOthers DEF Next
  <2>4. QED
    BY <2>1, <2>2, <2>3
<1>2. QED
  BY TypeInit, <1>1, PTL DEF Spec

-----------------------------------------------------------------------------
(* One turn per message.                                                   *)

(* What a schedule has found out under the lock stays true until it ends:    *)
(* its message is in no turn, and nobody else has found anything.            *)
ScheduleInv ==
  /\ \A m \in Message : sched[m] = "found" => lock = m /\ ~Scheduled(m)
  /\ \A m \in Message : found[m] # NoTurn => sched[m] = "found"

\* Whoever opens a turn is in it; what has been found is a turn.
RowInv ==
  /\ \A t \in Message : status[t] # "ABSENT" => t \in Members(t)
  /\ \A m \in Message : found[m] # NoTurn => status[found[m]] # "ABSENT"

\* The inductive invariant of the debounce, of every turn in every status.
DebounceInv == \A t \in Message : due[t] <= room[t]

TurnInv == TypeOK /\ OneTurnPerMessage /\ ScheduleInv /\ RowInv /\ DebounceInv

\* What joins a list of messages is in it, once if it was not there.
LEMMA AppendAdds ==
  ASSUME NEW s \in Seq(Message), NEW m \in Message
  PROVE  /\ {Append(s, m)[i] : i \in 1..Len(Append(s, m))} = {s[i] : i \in 1..Len(s)} \union {m}
         /\ (\A i, j \in 1..Len(s) : s[i] = s[j] => i = j)
            /\ m \notin {s[i] : i \in 1..Len(s)}
            => \A i, j \in 1..Len(Append(s, m)) :
                 Append(s, m)[i] = Append(s, m)[j] => i = j
<1>1. /\ Len(Append(s, m)) = Len(s) + 1 /\ Len(s) \in Nat
      /\ Append(s, m)[Len(s) + 1] = m
      /\ \A i \in 1..Len(s) : Append(s, m)[i] = s[i]
  OBVIOUS
<1>2. \A i \in 1..(Len(s) + 1) : i \in 1..Len(s) \/ i = Len(s) + 1
  BY <1>1
<1>3. 1..Len(s) \subseteq 1..(Len(s) + 1) /\ Len(s) + 1 \in 1..(Len(s) + 1)
  BY <1>1
<1>4. QED
  BY <1>1, <1>2, <1>3, Zenon

\* Turns whose list of messages nobody touches keep their members.
LEMMA MembersKept ==
  ASSUME NEW t, batch'[t] = batch[t] PROVE Members(t)' = Members(t)
BY DEF Members

\* While the lists do not change, neither does which messages are scheduled.
LEMMA ListsKept ==
  UNCHANGED batch => /\ \A t : Members(t)' = Members(t)
                     /\ \A m : Scheduled(m)' <=> Scheduled(m)
                     /\ OneTurnPerMessage => OneTurnPerMessage'
<1>1. SUFFICES ASSUME UNCHANGED batch
               PROVE  /\ \A t : Members(t)' = Members(t)
                      /\ \A m : Scheduled(m)' <=> Scheduled(m)
                      /\ OneTurnPerMessage => OneTurnPerMessage'
  OBVIOUS
<1>2. \A t : Members(t)' = Members(t)
  BY <1>1 DEF Members
<1>3. \A m : Scheduled(m)' <=> Scheduled(m)
  BY <1>2 DEF Scheduled
<1>4. OneTurnPerMessage => OneTurnPerMessage'
  BY <1>1, <1>2 DEF OneTurnPerMessage
<1>5. QED
  BY <1>2, <1>3, <1>4

\* Two schedules never hold the lock together.
LEMMA AloneUnderLock ==
  ASSUME ScheduleInv, NEW m \in Message, sched[m] = "found"
  PROVE  /\ lock = m /\ ~Scheduled(m)
         /\ \A n \in Message : n # m => sched[n] # "found" /\ found[n] = NoTurn
BY DEF ScheduleInv

LEMMA InvInit == Init => TurnInv
<1>1. SUFFICES ASSUME Init PROVE TurnInv
  OBVIOUS
<1>2. TypeOK
  BY <1>1, TypeInit
<1>3. \A t \in Message : Members(t) = {} /\ Len(batch[t]) = 0
  <2>1. \A t \in Message : batch[t] = <<>>
    BY <1>1 DEF Init
  <2>2. Len(<<>>) = 0 /\ 1..0 = {}
    OBVIOUS
  <2>3. QED
    BY <2>1, <2>2 DEF Members
<1>4. OneTurnPerMessage
  BY <1>3 DEF OneTurnPerMessage
<1>5. ScheduleInv /\ RowInv /\ DebounceInv
  BY <1>1, NamesAssumption DEF Init, ScheduleInv, RowInv, DebounceInv
<1>6. QED
  BY <1>2, <1>4, <1>5 DEF TurnInv

\* The end of a schedule keeps what the others have found out.
LEMMA EndScheduleKeeps ==
  ASSUME TypeOK, ScheduleInv, NEW m \in Message, NEW how \in {"new", "done"},
         EndSchedule(m, how),
         \A n \in Message : n # m /\ sched[n] = "found" => (Scheduled(n)' <=> Scheduled(n))
  PROVE  /\ ScheduleInv'
         /\ \A n \in Message : found'[n] # NoTurn => found'[n] = found[n]
<1>t. TypeSchedules
  BY TypeParts
<1>1. /\ \A n \in Message : n # m => sched'[n] = sched[n] /\ found'[n] = found[n]
      /\ sched'[m] # "found" /\ found'[m] = NoTurn
  BY <1>t DEF EndSchedule, TypeSchedules
<1>2. \A n \in Message : n # m /\ sched[n] = "found" => lock' = n
  BY DEF ScheduleInv, EndSchedule
<1>3. QED
  BY <1>1, <1>2 DEF ScheduleInv

\* A message joins the turn that was found for it.
LEMMA InvJoin ==
  ASSUME TurnInv, NEW m \in Message, Join(m)
  PROVE  OneTurnPerMessage' /\ ScheduleInv' /\ RowInv' /\ DebounceInv'
<1>t. TypeOK /\ TypeRows /\ TypeSchedules /\ OneTurnPerMessage /\ ScheduleInv /\ RowInv
      /\ DebounceInv
  BY TypeParts DEF TurnInv
<1>p. PICK t \in Message : t = found[m]
  BY <1>t DEF Join, TypeSchedules
<1>a. sched[m] = "found" /\ batch[t] \in Seq(Message)
  BY <1>t DEF Join, TypeRows
<1>b. /\ lock = m /\ ~Scheduled(m)
      /\ \A n \in Message : n # m => sched[n] # "found" /\ found[n] = NoTurn
  BY <1>t, <1>a, AloneUnderLock
<1>c. \A u \in Message : m \notin Members(u)
  BY <1>b DEF Scheduled
<1>1. /\ batch'[t] = Append(batch[t], m)
      /\ \A u \in Message : u # t => batch'[u] = batch[u]
  BY <1>t, <1>p DEF Join, TypeRows
<1>2. /\ Members(t)' = Members(t) \union {m}
      /\ \A u \in Message : u # t => Members(u)' = Members(u)
  BY <1>1, <1>a, AppendAdds, MembersKept DEF Members
<1>3. OneTurnPerMessage'
  <2>1. \A u, v \in Message : Members(u)' \cap Members(v)' # {} => u = v
    BY <1>t, <1>2, <1>c DEF OneTurnPerMessage
  <2>2. \A i, j \in 1..Len(batch[t]) : batch[t][i] = batch[t][j] => i = j
    BY <1>t, <1>a DEF OneTurnPerMessage
  <2>3. m \notin {batch[t][i] : i \in 1..Len(batch[t])}
    BY <1>c, <1>a DEF Members
  <2>4. \A i, j \in 1..Len(batch'[t]) : batch'[t][i] = batch'[t][j] => i = j
    BY <1>1, <1>a, <2>2, <2>3, AppendAdds
  <2>5. \A u \in Message : \A i, j \in 1..Len(batch'[u]) : batch'[u][i] = batch'[u][j] => i = j
    BY <1>t, <1>1, <2>4 DEF OneTurnPerMessage
  <2>6. QED
    BY <2>1, <2>5 DEF OneTurnPerMessage
<1>4. /\ ScheduleInv'
      /\ \A n \in Message : found'[n] # NoTurn => found'[n] = found[n]
  <2>1. EndSchedule(m, "done")
    BY DEF Join
  <2>2. \A n \in Message : n # m /\ sched[n] = "found" => (Scheduled(n)' <=> Scheduled(n))
    BY <1>b
  <2>3. QED
    BY <1>t, <2>1, <2>2, EndScheduleKeeps
<1>5. RowInv'
  <2>1. status' = status
    BY DEF Join
  <2>2. QED
    BY <1>t, <1>2, <1>4, <2>1 DEF RowInv
<1>6. DebounceInv'
  <2>1. due'[t] <= room[t] /\ \A u \in Message : u # t => due'[u] = due[u]
    BY <1>t, <1>p, DueFits DEF Join, TypeRows, TypeSchedules
  <2>2. QED
    BY <1>t, <2>1 DEF Join, DebounceInv
<1>7. QED
  BY <1>3, <1>4, <1>5, <1>6

\* A message opens a turn, which is the first it is in.
LEMMA InvOpenTurn ==
  ASSUME TurnInv, NEW m \in Message, OpenTurn(m)
  PROVE  OneTurnPerMessage' /\ ScheduleInv' /\ RowInv' /\ DebounceInv'
<1>t. TypeOK /\ TypeRows /\ TypeSchedules /\ OneTurnPerMessage /\ ScheduleInv /\ RowInv
      /\ DebounceInv
  BY TypeParts DEF TurnInv
<1>a. sched[m] = "found"
  BY DEF OpenTurn
<1>b. /\ lock = m /\ ~Scheduled(m)
      /\ \A n \in Message : n # m => sched[n] # "found" /\ found[n] = NoTurn
  BY <1>t, <1>a, AloneUnderLock
<1>c. \A u \in Message : m \notin Members(u)
  BY <1>b DEF Scheduled
<1>1. /\ batch'[m] = <<m>>
      /\ \A u \in Message : u # m => batch'[u] = batch[u]
  BY <1>t DEF OpenTurn, TypeRows
<1>2. Len(<<m>>) = 1 /\ <<m>>[1] = m /\ 1..1 = {1}
  OBVIOUS
<1>3. /\ Members(m)' = {m}
      /\ \A u \in Message : u # m => Members(u)' = Members(u)
  BY <1>1, <1>2, MembersKept DEF Members
<1>4. OneTurnPerMessage'
  <2>1. \A u, v \in Message : Members(u)' \cap Members(v)' # {} => u = v
    BY <1>t, <1>3, <1>c DEF OneTurnPerMessage
  <2>2. \A u \in Message : \A i, j \in 1..Len(batch'[u]) : batch'[u][i] = batch'[u][j] => i = j
    BY <1>t, <1>1, <1>2 DEF OneTurnPerMessage
  <2>3. QED
    BY <2>1, <2>2 DEF OneTurnPerMessage
<1>5. /\ ScheduleInv'
      /\ \A n \in Message : found'[n] # NoTurn => found'[n] = found[n]
  <2>1. EndSchedule(m, "done")
    BY DEF OpenTurn
  <2>2. \A n \in Message : n # m /\ sched[n] = "found" => (Scheduled(n)' <=> Scheduled(n))
    BY <1>b
  <2>3. QED
    BY <1>t, <2>1, <2>2, EndScheduleKeeps
<1>6. RowInv'
  <2>1. status'[m] = "OPEN" /\ \A u \in Message : u # m => status'[u] = status[u]
    BY <1>t DEF OpenTurn, TypeRows
  <2>2. \A n \in Message : found'[n] # NoTurn => status'[found[n]] # "ABSENT"
    BY <1>t, <1>5, <2>1 DEF RowInv, TypeSchedules
  <2>3. QED
    BY <1>t, <1>3, <1>5, <2>1, <2>2 DEF RowInv
<1>7. DebounceInv'
  <2>1. /\ due'[m] <= room'[m]
        /\ \A u \in Message : u # m => due'[u] = due[u] /\ room'[u] = room[u]
    <3>1. age[m] \in 0..MaxAge /\ MaxWait \in Floor..MaxWait
      BY <1>t, TimesAssumption DEF TypeSchedules, Floor
    <3>2. Least(Debounce, MaxWait) - age[m] <= MaxWait - age[m]
      BY <3>1, DueFits
    <3>3. QED
      BY <1>t, <3>2 DEF OpenTurn, TypeRows
  <2>2. QED
    BY <1>t, <2>1 DEF DebounceInv
<1>8. QED
  BY <1>4, <1>5, <1>6, <1>7

\* The rest of a schedule writes no turn.
LEMMA InvSchedule ==
  ASSUME TurnInv, NEW m \in Message,
         ReadClock(m) \/ AlreadyScheduled(m) \/ FindOpen(m) \/ AbortSchedule(m) \/ Retry(m)
  PROVE  OneTurnPerMessage' /\ ScheduleInv' /\ RowInv' /\ DebounceInv'
<1>t. TypeOK /\ TypeRows /\ TypeSchedules /\ OneTurnPerMessage /\ ScheduleInv /\ RowInv
      /\ DebounceInv
  BY TypeParts DEF TurnInv
<1>1. /\ UNCHANGED <<status, due, room, batch>>
      /\ \A t : Members(t)' = Members(t)
      /\ \A n : Scheduled(n)' <=> Scheduled(n)
      /\ OneTurnPerMessage'
  BY <1>t, ListsKept DEF ReadClock, AlreadyScheduled, FindOpen, AbortSchedule, Retry, turns
<1>2. DebounceInv'
  BY <1>t, <1>1 DEF DebounceInv
<1>3. CASE ReadClock(m) \/ AlreadyScheduled(m) \/ Retry(m)
  <2>1. /\ lock' = lock /\ found' = found /\ sched[m] # "found" /\ sched'[m] # "found"
        /\ \A n \in Message : n # m => sched'[n] = sched[n]
    BY <1>t, <1>3 DEF ReadClock, AlreadyScheduled, Retry, TypeSchedules
  <2>2. ScheduleInv'
    BY <1>t, <1>1, <2>1 DEF ScheduleInv
  <2>3. RowInv'
    BY <1>t, <1>1, <2>1 DEF RowInv
  <2>4. QED
    BY <1>1, <1>2, <2>2, <2>3
<1>4. CASE FindOpen(m)
  <2>1. /\ lock = Free /\ lock' = m /\ sched'[m] = "found" /\ ~Scheduled(m)
        /\ \A n \in Message : n # m => sched'[n] = sched[n] /\ found'[n] = found[n]
    BY <1>t, <1>4 DEF FindOpen, TypeSchedules
  <2>2. \A n \in Message : n # m => sched'[n] # "found"
    BY <1>t, <2>1, NamesAssumption DEF ScheduleInv
  <2>3. ScheduleInv'
    BY <1>t, <1>1, <2>1, <2>2 DEF ScheduleInv
  <2>4. \/ found'[m] = found[m]
        \/ status[found'[m]] = "OPEN"
    BY <1>t, <1>4 DEF FindOpen, Joinable, TypeSchedules
  <2>5. RowInv'
    BY <1>t, <1>1, <2>1, <2>4 DEF RowInv
  <2>6. QED
    BY <1>1, <1>2, <2>3, <2>5
<1>5. CASE AbortSchedule(m)
  <2>1. EndSchedule(m, "new")
    BY <1>5 DEF AbortSchedule
  <2>2. /\ ScheduleInv'
        /\ \A n \in Message : found'[n] # NoTurn => found'[n] = found[n]
    BY <1>t, <1>1, <2>1, EndScheduleKeeps
  <2>3. RowInv'
    BY <1>t, <1>1, <2>2 DEF RowInv
  <2>4. QED
    BY <1>1, <1>2, <2>2, <2>3
<1>6. QED
  BY <1>3, <1>4, <1>5

\* What the end of a claim may do to the rows.
LEMMA EndClaimWrites ==
  ASSUME TypeOK, NEW w \in Worker, NEW st \in {"OPEN", "PROCESSED"}, EndClaim(w, st)
  PROVE  \A t \in Message :
           \/ status'[t] = status[t]
           \/ t = turn[w] /\ status[t] = "PROCESSING" /\ status'[t] = st
<1>1. TypeRows /\ TypeWorkers
  BY TypeParts
<1>2. CASE status[turn[w]] = "PROCESSING" /\ token[turn[w]] = tok[w]
  BY <1>1, <1>2 DEF EndClaim, TypeRows, TypeWorkers
<1>3. CASE ~(status[turn[w]] = "PROCESSING" /\ token[turn[w]] = tok[w])
  BY <1>3 DEF EndClaim
<1>4. QED
  BY <1>2, <1>3

\* A worker changes neither the lists nor the schedules, and no status from or to ABSENT.
LEMMA WorkerWrites ==
  ASSUME TypeOK, NEW w \in Worker,
         (\E t \in Message : Claim(w, t)) \/ RunStep(w) \/ Crash(w)
  PROVE  /\ UNCHANGED <<due, room, lastMessage, batch, schedules>>
         /\ \A t \in Message : status[t] # "PROCESSED" \/ status'[t] = "PROCESSED"
         /\ \A t \in Message : status'[t] = "ABSENT" <=> status[t] = "ABSENT"
<1>t. TypeRows
  BY TypeParts
<1>1. ASSUME NEW t \in Message, Claim(w, t)
      PROVE  /\ UNCHANGED <<due, room, lastMessage, batch, schedules>>
             /\ \A u \in Message : status[u] # "PROCESSED" \/ status'[u] = "PROCESSED"
             /\ \A u \in Message : status'[u] = "ABSENT" <=> status[u] = "ABSENT"
  BY <1>t, <1>1 DEF Claim, Claimable, TypeRows
<1>2. CASE ReadTurn(w) \/ ReadMessages(w) \/ Answer(w) \/ Fail(w) \/ Crash(w)
  BY <1>2 DEF ReadTurn, ReadMessages, Answer, Fail, Crash, turns
<1>3. CASE Complete(w)
  BY <1>3, EndClaimWrites DEF Complete
<1>4. CASE Release(w)
  BY <1>4, EndClaimWrites DEF Release
<1>5. QED
  BY <1>1, <1>2, <1>3, <1>4 DEF RunStep

LEMMA InvWorker ==
  ASSUME TurnInv, NEW w \in Worker,
         (\E t \in Message : Claim(w, t)) \/ RunStep(w) \/ Crash(w)
  PROVE  OneTurnPerMessage' /\ ScheduleInv' /\ RowInv' /\ DebounceInv'
<1>t. TypeOK /\ TypeSchedules /\ OneTurnPerMessage /\ ScheduleInv /\ RowInv /\ DebounceInv
  BY TypeParts DEF TurnInv
<1>1. /\ UNCHANGED <<due, room, batch, lock, sched, found>>
      /\ \A t \in Message : status'[t] = "ABSENT" <=> status[t] = "ABSENT"
  BY <1>t, WorkerWrites DEF schedules
<1>2. /\ \A t : Members(t)' = Members(t)
      /\ \A m : Scheduled(m)' <=> Scheduled(m)
      /\ OneTurnPerMessage'
  BY <1>t, <1>1, ListsKept
<1>3. ScheduleInv'
  BY <1>t, <1>1, <1>2 DEF ScheduleInv
<1>4. \A n \in Message : found[n] # NoTurn => found[n] \in Message
  BY <1>t DEF TypeSchedules
<1>5. RowInv'
  BY <1>t, <1>1, <1>2, <1>4 DEF RowInv
<1>6. DebounceInv'
  BY <1>t, <1>1 DEF DebounceInv
<1>7. QED
  BY <1>2, <1>3, <1>5, <1>6

LEMMA InvOthers ==
  ASSUME TurnInv, Tick \/ OtherLocks \/ OtherUnlocks
  PROVE  OneTurnPerMessage' /\ ScheduleInv' /\ RowInv' /\ DebounceInv'
<1>t. TypeOK /\ TypeRows /\ OneTurnPerMessage /\ ScheduleInv /\ RowInv /\ DebounceInv
  BY TypeParts DEF TurnInv
<1>1. UNCHANGED <<status, batch, sched, found>>
  BY DEF Tick, OtherLocks, OtherUnlocks, turns
<1>2. /\ \A t : Members(t)' = Members(t)
      /\ \A m : Scheduled(m)' <=> Scheduled(m)
      /\ OneTurnPerMessage'
  BY <1>t, <1>1, ListsKept
<1>3. ScheduleInv'
  <2>1. \A m \in Message : lock = m => lock' = m
    BY NamesAssumption DEF Tick, OtherLocks, OtherUnlocks
  <2>2. QED
    BY <1>t, <1>1, <1>2, <2>1 DEF ScheduleInv
<1>4. RowInv'
  BY <1>t, <1>1, <1>2 DEF RowInv
<1>5. DebounceInv'
  <2>1. CASE Tick
    <3>1. \A t \in Message : Down(due[t], Floor) <= Down(room[t], Floor)
      <4>1. Floor \in Int /\ Debounce \in Int /\ MaxWait \in Int
        BY TimesAssumption DEF Floor
      <4>2. \A t \in Message : due[t] \in Floor..Debounce /\ room[t] \in Floor..MaxWait
        BY <1>t DEF TypeRows
      <4>3. \A n : n \in Floor..Debounce \/ n \in Floor..MaxWait => n \in Int /\ Floor <= n
        BY <4>1
      <4>4. QED
        BY <1>t, <4>1, <4>2, <4>3, DownKeepsOrder DEF DebounceInv
    <3>2. QED
      BY <2>1, <3>1 DEF Tick, DebounceInv
  <2>2. CASE OtherLocks \/ OtherUnlocks
    BY <1>t, <2>2 DEF OtherLocks, OtherUnlocks, turns, DebounceInv
  <2>3. QED
    BY <2>1, <2>2
<1>6. QED
  BY <1>2, <1>3, <1>4, <1>5

LEMMA InvNext == TurnInv /\ [Next]_vars => TurnInv'
<1>1. SUFFICES ASSUME TurnInv, [Next]_vars PROVE TurnInv'
  OBVIOUS
<1>2. TypeOK
  BY <1>1 DEF TurnInv
<1>3. CASE UNCHANGED vars
  <2>1. TypeOK'
    BY <1>2, <1>3, TypeParts, RowsKept, SchedulesKept, WorkersKept, TypePartsNext DEF vars
  <2>2. UNCHANGED <<status, due, room, batch, lock, sched, found>>
    BY <1>3 DEF vars, turns, schedules
  <2>3. /\ \A t : Members(t)' = Members(t)
        /\ \A m : Scheduled(m)' <=> Scheduled(m)
        /\ OneTurnPerMessage'
    BY <1>1, <2>2, ListsKept DEF TurnInv
  <2>4. ScheduleInv'
    BY <1>1, <2>2, <2>3 DEF TurnInv, ScheduleInv
  <2>5. RowInv'
    BY <1>1, <2>2, <2>3 DEF TurnInv, RowInv
  <2>6. DebounceInv'
    BY <1>1, <2>2 DEF TurnInv, DebounceInv
  <2>7. QED
    BY <2>1, <2>3, <2>4, <2>5, <2>6 DEF TurnInv
<1>4. ASSUME NEW m \in Message,
             ReadClock(m) \/ ScheduleStep(m) \/ AbortSchedule(m) \/ Retry(m)
      PROVE  TurnInv'
  <2>1. TypeOK'
    BY <1>2, <1>4, TypeSchedule
  <2>2. OneTurnPerMessage' /\ ScheduleInv' /\ RowInv' /\ DebounceInv'
    BY <1>1, <1>4, InvSchedule, InvJoin, InvOpenTurn DEF ScheduleStep
  <2>3. QED
    BY <2>1, <2>2 DEF TurnInv
<1>5. ASSUME NEW w \in Worker,
             (\E t \in Message : Claim(w, t)) \/ RunStep(w) \/ Crash(w)
      PROVE  TurnInv'
  BY <1>1, <1>2, <1>5, TypeWorker, InvWorker DEF TurnInv
<1>6. CASE Tick \/ OtherLocks \/ OtherUnlocks
  BY <1>1, <1>2, <1>6, TypeOthers, InvOthers DEF TurnInv
<1>7. QED
  BY <1>1, <1>3, <1>4, <1>5, <1>6 DEF Next

LEMMA TurnCorrect == Spec => []TurnInv
BY InvInit, InvNext, PTL DEF Spec

\* Whatever is retried and however schedules and runs interleave, every message belongs to
\* at most one turn, once.
THEOREM MessagesAreTurnedOnce == Spec => []OneTurnPerMessage
<1>1. TurnInv => OneTurnPerMessage
  BY DEF TurnInv
<1>2. QED
  BY <1>1, TurnCorrect, PTL

\* A turn that is open falls due at the latest MaxWait after its first message.
THEOREM DebounceIsBounded == Spec => []WaitIsBounded
<1>1. TurnInv => WaitIsBounded
  BY DEF TurnInv, DebounceInv, WaitIsBounded
<1>2. QED
  BY <1>1, TurnCorrect, PTL

\* No schedule, no run that outlived its lease, no release and no retry reopens a turn that
\* was finished.
THEOREM FinishedTurnsStay == Spec => ProcessedIsFinal
<1>1. TurnInv /\ [Next]_vars =>
        [\A t \in Message : status[t] = "PROCESSED" => status'[t] = "PROCESSED"]_vars
  <2>1. SUFFICES ASSUME TurnInv, Next, NEW t \in Message, status[t] = "PROCESSED"
                 PROVE  status'[t] = "PROCESSED"
    OBVIOUS
  <2>2. TypeOK /\ TypeRows /\ ScheduleInv /\ RowInv
    BY <2>1, TypeParts DEF TurnInv
  <2>3. ASSUME NEW m \in Message, OpenTurn(m) PROVE status'[t] = "PROCESSED"
    <3>1. ~Scheduled(m)
      BY <2>2, <2>3 DEF OpenTurn, ScheduleInv
    <3>2. m # t
      BY <2>1, <2>2, <3>1 DEF RowInv, Scheduled
    <3>3. QED
      BY <2>1, <2>2, <2>3, <3>2 DEF OpenTurn, TypeRows
  <2>4. ASSUME NEW m \in Message,
               ReadClock(m) \/ AlreadyScheduled(m) \/ FindOpen(m) \/ Join(m)
               \/ AbortSchedule(m) \/ Retry(m)
        PROVE  status'[t] = "PROCESSED"
    BY <2>1, <2>4 DEF ReadClock, AlreadyScheduled, FindOpen, Join, AbortSchedule, Retry, turns
  <2>5. ASSUME NEW w \in Worker,
               (\E u \in Message : Claim(w, u)) \/ RunStep(w) \/ Crash(w)
        PROVE  status'[t] = "PROCESSED"
    BY <2>1, <2>2, <2>5, WorkerWrites
  <2>6. CASE Tick \/ OtherLocks \/ OtherUnlocks
    BY <2>1, <2>6 DEF Tick, OtherLocks, OtherUnlocks, turns
  <2>7. QED
    BY <2>1, <2>3, <2>4, <2>5, <2>6 DEF Next, ScheduleStep
<1>2. QED
  BY <1>1, TurnCorrect, PTL DEF Spec, ProcessedIsFinal

-----------------------------------------------------------------------------
(* Schedules that finish within the tick of their clock: no message is      *)
(* left behind, and turns do not compete.                                   *)

\* A turn the next message of the customer may join.
Joins(t) == status[t] = "OPEN" /\ due[t] > 0

\* What a schedule found is still so, because time stands still until it ends.
FoundIsSo ==
  \A m \in Message :
    sched[m] = "found" =>
      IF found[m] = NoTurn THEN \A t \in Message : ~Joins(t) ELSE Joins(found[m])

\* A turn that was claimed is due, and so never joined again.
ClaimedIsDue ==
  /\ \A t \in Message : status[t] \in {"PROCESSING", "PROCESSED"} => due[t] <= 0
  /\ \A w \in Worker : pc[w] # "idle" => status[turn[w]] # "ABSENT" /\ due[turn[w]] <= 0

\* A run that goes on has read all of its turn.
RunSawAll ==
  /\ \A w \in Worker : pc[w] = "answering" => Members(turn[w]) \subseteq seen[w]
  /\ \A w \in Worker : pc[w] = "completing" => Members(turn[w]) \subseteq considered

PromptInv ==
  /\ TurnInv /\ OneJoinableTurn /\ FoundIsSo
  /\ ClaimedIsDue /\ RunSawAll /\ NoMessageLeftBehind

\* The same without the invariant of all schedules.
PromptParts ==
  /\ OneJoinableTurn /\ FoundIsSo /\ ClaimedIsDue /\ RunSawAll /\ NoMessageLeftBehind

LEMMA PromptInit == Init => PromptInv
<1>1. SUFFICES ASSUME Init PROVE PromptInv
  OBVIOUS
<1>2. TurnInv
  BY <1>1, InvInit
<1>3. OneJoinableTurn /\ FoundIsSo /\ ClaimedIsDue /\ RunSawAll /\ NoMessageLeftBehind
  BY <1>1 DEF Init, OneJoinableTurn, FoundIsSo, ClaimedIsDue, RunSawAll, NoMessageLeftBehind
<1>4. QED
  BY <1>2, <1>3 DEF PromptInv

\* A schedule that ends or fails without writing a turn.
LEMMA PromptSchedule ==
  ASSUME PromptInv, MaxAge = 0, NEW m \in Message,
         ReadClock(m) \/ AlreadyScheduled(m) \/ FindOpen(m) \/ AbortSchedule(m) \/ Retry(m)
  PROVE  PromptParts'
<1>t. TypeOK /\ TypeSchedules /\ ScheduleInv /\ PromptParts
  BY TypeParts DEF PromptInv, PromptParts, TurnInv
<1>1. UNCHANGED <<status, due, batch, pc, turn, seen, considered>>
  BY DEF ReadClock, AlreadyScheduled, FindOpen, AbortSchedule, Retry, turns, workers
<1>2. /\ \A t : Members(t)' = Members(t)
      /\ \A t : Joins(t)' <=> Joins(t)
  BY <1>1, ListsKept DEF Joins
<1>3. OneJoinableTurn' /\ ClaimedIsDue' /\ RunSawAll' /\ NoMessageLeftBehind'
  BY <1>t, <1>1, <1>2 DEF PromptParts, OneJoinableTurn, ClaimedIsDue, RunSawAll,
                          NoMessageLeftBehind
<1>4. CASE ReadClock(m) \/ AlreadyScheduled(m) \/ Retry(m) \/ AbortSchedule(m)
  <2>1. /\ sched'[m] # "found"
        /\ \A n \in Message : n # m => sched'[n] = sched[n] /\ found'[n] = found[n]
    BY <1>t, <1>4 DEF ReadClock, AlreadyScheduled, Retry, AbortSchedule, EndSchedule,
                      TypeSchedules
  <2>2. FoundIsSo'
    BY <1>t, <1>2, <2>1 DEF PromptParts, FoundIsSo
  <2>3. QED
    BY <1>3, <2>2 DEF PromptParts
<1>5. CASE FindOpen(m)
  <2>1. age[m] = 0 /\ found[m] = NoTurn
    BY <1>t, <1>5 DEF FindOpen, TypeSchedules, ScheduleInv
  <2>2. \A t \in Message : t \in Joinable(m) <=> Joins(t)
    BY <2>1 DEF Joinable, Joins
  <2>3. \A n \in Message : n # m => sched'[n] = sched[n] /\ found'[n] = found[n]
    BY <1>t, <1>5 DEF FindOpen, TypeSchedules
  <2>4. IF found'[m] = NoTurn THEN \A t \in Message : ~Joins(t) ELSE Joins(found'[m])
    <3>1. CASE Joinable(m) = {} /\ UNCHANGED found
      BY <2>1, <2>2, <3>1
    <3>2. CASE \E t \in Joinable(m) : found' = [found EXCEPT ![m] = t]
      BY <1>t, <2>2, <3>2, NamesAssumption DEF Joinable, TypeSchedules
    <3>3. QED
      BY <1>5, <3>1, <3>2 DEF FindOpen
  <2>5. FoundIsSo'
    BY <1>t, <1>2, <2>3, <2>4 DEF PromptParts, FoundIsSo
  <2>6. QED
    BY <1>3, <2>5 DEF PromptParts
<1>6. QED
  BY <1>4, <1>5

\* A message joins a turn that no run has claimed yet.
LEMMA PromptJoin ==
  ASSUME PromptInv, MaxAge = 0, NEW m \in Message, Join(m) PROVE PromptParts'
<1>t. TypeOK /\ TypeRows /\ TypeSchedules /\ TypeWorkers /\ ScheduleInv /\ PromptParts
  BY TypeParts DEF PromptInv, PromptParts, TurnInv
<1>p. PICK t \in Message : t = found[m]
  BY <1>t DEF Join, TypeSchedules
<1>a. sched[m] = "found" /\ Joins(t)
  BY <1>t, <1>p DEF Join, PromptParts, FoundIsSo
<1>b. \A n \in Message : n # m => sched[n] # "found"
  BY <1>t, <1>a, AloneUnderLock
<1>1. /\ UNCHANGED <<status, pc, turn, seen, considered>>
      /\ \A u \in Message : u # t => due'[u] = due[u] /\ batch'[u] = batch[u]
  BY <1>t, <1>p DEF Join, TypeRows, workers
<1>2. \A u \in Message : u # t => Members(u)' = Members(u)
  BY <1>1, MembersKept
<1>3. \A w \in Worker : pc[w] # "idle" => turn[w] # t
  BY <1>t, <1>a, TimesAssumption DEF PromptParts, ClaimedIsDue, Joins, TypeRows, Floor
<1>4. OneJoinableTurn'
  BY <1>t, <1>a, <1>1 DEF PromptParts, OneJoinableTurn, Joins
<1>5. FoundIsSo'
  BY <1>t, <1>b DEF Join, EndSchedule, FoundIsSo, TypeSchedules
<1>6. ClaimedIsDue'
  BY <1>t, <1>a, <1>1, <1>3 DEF PromptParts, ClaimedIsDue, Joins, TypeWorkers
<1>7. RunSawAll'
  BY <1>t, <1>1, <1>2, <1>3 DEF PromptParts, RunSawAll, TypeWorkers
<1>8. NoMessageLeftBehind'
  BY <1>t, <1>a, <1>1, <1>2 DEF PromptParts, NoMessageLeftBehind, Joins
<1>9. QED
  BY <1>4, <1>5, <1>6, <1>7, <1>8 DEF PromptParts

\* A message opens a turn when there is none to join.
LEMMA PromptOpen ==
  ASSUME PromptInv, MaxAge = 0, NEW m \in Message, OpenTurn(m) PROVE PromptParts'
<1>t. TypeOK /\ TypeRows /\ TypeSchedules /\ TypeWorkers /\ ScheduleInv /\ RowInv /\ PromptParts
  BY TypeParts DEF PromptInv, PromptParts, TurnInv
<1>a. sched[m] = "found" /\ \A t \in Message : ~Joins(t)
  BY <1>t DEF OpenTurn, PromptParts, FoundIsSo
<1>b. \A n \in Message : n # m => sched[n] # "found"
  BY <1>t, <1>a, AloneUnderLock
<1>c. status[m] = "ABSENT"
  BY <1>t, <1>a DEF ScheduleInv, RowInv, Scheduled
<1>1. /\ UNCHANGED <<pc, turn, seen, considered>>
      /\ status'[m] = "OPEN"
      /\ \A u \in Message :
           u # m => status'[u] = status[u] /\ due'[u] = due[u] /\ batch'[u] = batch[u]
  BY <1>t DEF OpenTurn, TypeRows, workers
<1>2. \A u \in Message : u # m => Members(u)' = Members(u)
  BY <1>1, MembersKept
<1>3. \A w \in Worker : pc[w] # "idle" => turn[w] # m
  BY <1>t, <1>c DEF PromptParts, ClaimedIsDue
<1>4. OneJoinableTurn'
  BY <1>a, <1>1 DEF OneJoinableTurn, Joins
<1>5. FoundIsSo'
  BY <1>t, <1>b DEF OpenTurn, EndSchedule, FoundIsSo, TypeSchedules
<1>6. ClaimedIsDue'
  BY <1>t, <1>1, <1>3 DEF PromptParts, ClaimedIsDue, TypeWorkers
<1>7. RunSawAll'
  BY <1>t, <1>1, <1>2, <1>3 DEF PromptParts, RunSawAll, TypeWorkers
<1>8. NoMessageLeftBehind'
  BY <1>t, <1>1, <1>2 DEF PromptParts, NoMessageLeftBehind
<1>9. QED
  BY <1>4, <1>5, <1>6, <1>7, <1>8 DEF PromptParts

\* A turn is claimed once it is due.
LEMMA PromptClaim ==
  ASSUME PromptInv, NEW w \in Worker, NEW t \in Message, Claim(w, t) PROVE PromptParts'
<1>t. TypeOK /\ TypeRows /\ TypeWorkers /\ PromptParts
  BY TypeParts DEF PromptInv, PromptParts, TurnInv
<1>1. /\ UNCHANGED <<due, batch, sched, found, seen, considered>>
      /\ status'[t] = "PROCESSING" /\ due[t] <= 0 /\ due[t] \in Int
      /\ \A u \in Message : u # t => status'[u] = status[u]
      /\ pc'[w] = "claimed" /\ turn'[w] = t
      /\ \A v \in Worker : v # w => pc'[v] = pc[v] /\ turn'[v] = turn[v]
  BY <1>t, TimesAssumption DEF Claim, Claimable, TypeRows, TypeWorkers, schedules, Floor
<1>2. /\ \A u : Members(u)' = Members(u)
      /\ \A u \in Message : Joins(u)' <=> Joins(u)
  BY <1>1, ListsKept DEF Joins
<1>3. OneJoinableTurn'
  BY <1>t, <1>2 DEF PromptParts, OneJoinableTurn, Joins
<1>4. FoundIsSo'
  <2>1. \A m \in Message : found[m] # NoTurn => found[m] \in Message
    BY <1>t, TypeParts DEF TypeSchedules
  <2>2. QED
    BY <1>t, <1>1, <1>2, <2>1 DEF PromptParts, FoundIsSo
<1>5. ClaimedIsDue'
  BY <1>t, <1>1 DEF PromptParts, ClaimedIsDue, TypeWorkers
<1>6. RunSawAll'
  BY <1>t, <1>1, <1>2 DEF PromptParts, RunSawAll
<1>7. NoMessageLeftBehind'
  BY <1>t, <1>1, <1>2 DEF PromptParts, NoMessageLeftBehind
<1>8. QED
  BY <1>3, <1>4, <1>5, <1>6, <1>7 DEF PromptParts

\* A run goes on, fails or dies.
LEMMA PromptRun ==
  ASSUME PromptInv, NEW w \in Worker, RunStep(w) \/ Crash(w) PROVE PromptParts'
<1>t. TypeOK /\ TypeRows /\ TypeSchedules /\ TypeWorkers /\ PromptParts
  BY TypeParts DEF PromptInv, PromptParts, TurnInv
<1>1. UNCHANGED <<due, batch, sched, found>>
  BY <1>t, WorkerWrites DEF schedules
<1>2. \A u : Members(u)' = Members(u)
  BY <1>1, ListsKept
<1>3. /\ \A v \in Worker : v # w => pc'[v] = pc[v] /\ turn'[v] = turn[v] /\ seen'[v] = seen[v]
      /\ considered \subseteq considered'
      /\ pc'[w] # "idle" => pc[w] # "idle" /\ turn'[w] = turn[w]
  BY <1>t DEF RunStep, Crash, ReadTurn, ReadMessages, Answer, Fail, Complete, Release, EndRun,
              TypeWorkers
\* What becomes of the run's turn.
<1>4. \A t \in Message :
        \/ status'[t] = status[t]
        \/ status[t] = "PROCESSING" /\ status'[t] = "OPEN"
        \/ /\ status[t] = "PROCESSING" /\ status'[t] = "PROCESSED"
           /\ t = turn[w] /\ pc[w] = "completing"
  <2>1. CASE Complete(w)
    BY <1>t, <2>1, EndClaimWrites DEF Complete
  <2>2. CASE Release(w)
    BY <1>t, <2>2, EndClaimWrites DEF Release
  <2>3. CASE ReadTurn(w) \/ ReadMessages(w) \/ Answer(w) \/ Fail(w) \/ Crash(w)
    BY <2>3 DEF ReadTurn, ReadMessages, Answer, Fail, Crash, turns
  <2>4. QED
    BY <2>1, <2>2, <2>3 DEF RunStep
<1>5. \A t \in Message : due[t] \in Int
  BY <1>t, TimesAssumption DEF TypeRows, Floor
<1>6. \A t \in Message : Joins(t)' <=> Joins(t)
  BY <1>t, <1>1, <1>4, <1>5 DEF PromptParts, ClaimedIsDue, Joins
<1>7. OneJoinableTurn'
  BY <1>t, <1>6 DEF PromptParts, OneJoinableTurn, Joins
<1>8. FoundIsSo'
  <2>1. \A m \in Message : found[m] # NoTurn => found[m] \in Message
    BY <1>t DEF TypeSchedules
  <2>2. QED
    BY <1>t, <1>1, <1>6, <2>1 DEF PromptParts, FoundIsSo
<1>9. ClaimedIsDue'
  BY <1>t, <1>1, <1>3, <1>4 DEF PromptParts, ClaimedIsDue, TypeWorkers
<1>10. RunSawAll'
  <2>1. pc'[w] = "answering" => Members(turn[w]) \subseteq seen'[w]
    BY <1>t DEF RunStep, Crash, ReadTurn, ReadMessages, Answer, Fail, Complete, Release,
                EndRun, TypeWorkers
  <2>2. pc'[w] = "completing" => Members(turn[w]) \subseteq considered'
    BY <1>t DEF PromptParts, RunSawAll, RunStep, Crash, ReadTurn, ReadMessages, Answer, Fail,
                Complete, Release, EndRun, TypeWorkers
  <2>3. QED
    BY <1>t, <1>2, <1>3, <2>1, <2>2 DEF PromptParts, RunSawAll
<1>11. NoMessageLeftBehind'
  BY <1>t, <1>2, <1>3, <1>4 DEF PromptParts, NoMessageLeftBehind, RunSawAll
<1>12. QED
  BY <1>7, <1>8, <1>9, <1>10, <1>11 DEF PromptParts

\* Time does not pass while a schedule is on its way.
LEMMA PromptOthers ==
  ASSUME PromptInv, MaxAge = 0, Tick \/ OtherLocks \/ OtherUnlocks PROVE PromptParts'
<1>t. TypeOK /\ TypeRows /\ TypeSchedules /\ TypeWorkers /\ PromptParts
  BY TypeParts DEF PromptInv, PromptParts, TurnInv
<1>1. UNCHANGED <<status, batch, sched, found, pc, turn, seen, considered>>
  BY DEF Tick, OtherLocks, OtherUnlocks, turns, workers
<1>2. \A u : Members(u)' = Members(u)
  BY <1>1, ListsKept
<1>3. \A t \in Message : due[t] \in Int /\ due'[t] \in Int /\ due'[t] <= due[t]
  <2>1. \A t \in Message : due[t] \in Int
    BY <1>t, TimesAssumption DEF TypeRows, Floor
  <2>2. CASE Tick
    BY <2>1, <2>2 DEF Tick, Down
  <2>3. CASE OtherLocks \/ OtherUnlocks
    BY <2>1, <2>3 DEF OtherLocks, OtherUnlocks, turns
  <2>4. QED
    BY <2>2, <2>3
<1>4. OneJoinableTurn'
  BY <1>t, <1>1, <1>3 DEF PromptParts, OneJoinableTurn
<1>5. FoundIsSo'
  <2>1. CASE Tick
    <3>1. \A m \in Message : sched[m] # "found"
      BY <1>t, <2>1 DEF Tick, Scheduling, TypeSchedules
    <3>2. QED
      BY <1>1, <3>1 DEF FoundIsSo
  <2>2. CASE OtherLocks \/ OtherUnlocks
    BY <1>t, <1>1, <2>2 DEF OtherLocks, OtherUnlocks, turns, PromptParts, FoundIsSo, Joins
  <2>3. QED
    BY <2>1, <2>2
<1>6. ClaimedIsDue'
  <2>1. \A t \in Message : due[t] <= 0 => due'[t] <= 0
    BY <1>3
  <2>2. QED
    BY <1>t, <1>1, <2>1 DEF PromptParts, ClaimedIsDue, TypeWorkers
<1>7. RunSawAll' /\ NoMessageLeftBehind'
  BY <1>t, <1>1, <1>2 DEF PromptParts, RunSawAll, NoMessageLeftBehind
<1>8. QED
  BY <1>4, <1>5, <1>6, <1>7 DEF PromptParts

LEMMA PromptNext == MaxAge = 0 /\ PromptInv /\ [Next]_vars => PromptInv'
<1>1. SUFFICES ASSUME MaxAge = 0, PromptInv, [Next]_vars PROVE PromptInv'
  OBVIOUS
<1>2. TurnInv'
  BY <1>1, InvNext DEF PromptInv
<1>3. CASE UNCHANGED vars
  <2>1. UNCHANGED <<status, due, batch, sched, found, pc, turn, seen, considered>>
    BY <1>3 DEF vars, turns, schedules, workers
  <2>2. \A u : Members(u)' = Members(u)
    BY <2>1, ListsKept
  <2>3. OneJoinableTurn' /\ FoundIsSo' /\ ClaimedIsDue'
    BY <1>1, <2>1 DEF PromptInv, OneJoinableTurn, FoundIsSo, ClaimedIsDue, Joins
  <2>4. RunSawAll' /\ NoMessageLeftBehind'
    BY <1>1, <2>1, <2>2 DEF PromptInv, RunSawAll, NoMessageLeftBehind
  <2>5. QED
    BY <1>2, <2>3, <2>4 DEF PromptInv
<1>4. CASE Next
  <2>1. PromptParts'
    BY <1>1, <1>4, PromptSchedule, PromptJoin, PromptOpen, PromptClaim, PromptRun, PromptOthers
       DEF Next, ScheduleStep
  <2>2. QED
    BY <1>2, <2>1 DEF PromptInv, PromptParts
<1>5. QED
  BY <1>1, <1>3, <1>4

LEMMA PromptCorrect == MaxAge = 0 => (Spec => []PromptInv)
<1>1. SUFFICES ASSUME MaxAge = 0 PROVE Spec => []PromptInv
  OBVIOUS
<1>2. PromptInv /\ [Next]_vars => PromptInv'
  BY <1>1, PromptNext
<1>3. QED
  BY PromptInit, <1>2, PTL DEF Spec

\* If schedules finish within the tick of their clock, no message is lost in a closed turn:
\* the runs that TurnRace finds need a schedule that waits for the lock.
THEOREM PromptSchedulesLoseNothing == MaxAge = 0 => (Spec => []NoMessageLeftBehind)
<1>1. SUFFICES ASSUME MaxAge = 0 PROVE Spec => []NoMessageLeftBehind
  OBVIOUS
<1>2. PromptInv => NoMessageLeftBehind
  BY DEF PromptInv
<1>3. QED
  BY <1>1, <1>2, PromptCorrect, PTL

\* Under the same condition two turns never compete for the customer's next message.
THEOREM PromptTurnsDoNotCompete == MaxAge = 0 => (Spec => []OneJoinableTurn)
<1>1. SUFFICES ASSUME MaxAge = 0 PROVE Spec => []OneJoinableTurn
  OBVIOUS
<1>2. PromptInv => OneJoinableTurn
  BY DEF PromptInv
<1>3. QED
  BY <1>1, <1>2, PromptCorrect, PTL

-----------------------------------------------------------------------------
(* The talk about a meeting: MeetingDialogue, when each answer arrives       *)
(* before the customer writes again.                                         *)

\* f has exactly the arguments, or the record the fields, S.
Over(f, S) == f = [x \in S |-> f[x]]

TalkFields == {"phase", "mode", "attempt", "slots", "days", "slot", "email", "meeting", "op",
               "zone", "asked", "choices", "forCancel"}

\* A dialogue has no slot but those the customer chose.
TalkFits(d) ==
  /\ Over(d, TalkFields) /\ d.mode \in {"CREATE", "RESCHEDULE"} /\ d.slot \in wanted \union {No}

\* The operations and the meetings are the customer's choice.
CalendarFits ==
  /\ Over(ops, Tries) /\ \A a \in Tries : Over(ops[a], {"is", "kind", "meeting", "slot"})
  /\ meets \in [Tries -> [is : {"NONE", "PENDING", "CONFIRMED", "CANCELLED", "FAILED"},
                          slot : wanted \union {No}]]
  /\ today \in 1..Days
  /\ OperationsAreAskedFor

\* One run at a time, for the newest message.
OneRunFits ==
  /\ at \in [Turns -> {"idle", "reading", "offering", "preparing", "booking", "applying",
                       "recording", "answering"}]
  /\ newest \in [Turns -> BOOLEAN] /\ Over(heard, Turns) /\ Over(mine, Turns) /\ Over(shown, Turns)
  /\ \A t, u \in Turns : at[t] # "idle" /\ at[u] # "idle" => t = u
  /\ \A t \in Turns : at[t] # "idle" => newest[t]

\* The slots of a dialogue are those of the list the customer has been shown, or none; its
\* question about a cancellation is the one he has been asked, or he has said yes to it.
ToldList(d, list) == d.slots \in {<<>>, list}
ToldQuestion(d, m) ==
  d.phase = "AWAITING_CANCEL_CONFIRMATION" =>
    d.meeting # No /\ (m = d.meeting \/ d.meeting \in agreed)

Working == {"offering", "preparing", "booking", "applying", "recording"}

\* The list that the customer knows once he reads what.
Latest(what) == IF what.list = <<>> THEN lastShown.list ELSE what.list

TalkIsTold ==
  /\ TalkFits(talk)
  /\ (\A t \in Turns : at[t] # "answering") => ToldList(talk, lastShown.list)
  /\ (\A t \in Turns : at[t] \in {"idle", "reading"}) => ToldQuestion(talk, lastShown.cancel)
  /\ \A t \in Turns : at[t] \in Working => ToldQuestion(talk, No)
  /\ \A t \in Turns : at[t] = "answering" =>
       ToldList(talk, Latest(shown[t])) /\ ToldQuestion(talk, shown[t].cancel)

\* The state that a run has in memory.
MemoryFits(step, d) ==
  /\ TalkFits(d)
  /\ step \in Working \ {"offering"} => ToldList(d, lastShown.list)
  /\ step = "preparing" => ToldQuestion(d, No)
  /\ step = "recording" => d.phase # "AWAITING_CANCEL_CONFIRMATION"

\* What the customer has just written.
HeardFits(m) ==
  /\ m.time # No => m.time \in wanted
  /\ m.pick \in DOMAIN lastShown.list => lastShown.list[m.pick] \in wanted
  /\ "yes" \in m.says /\ lastShown.cancel # No => lastShown.cancel \in agreed

TalkInv ==
  /\ CalendarFits /\ OneRunFits /\ TalkIsTold
  /\ \A t \in Turns : MemoryFits(at[t], mine[t])
  /\ \A t \in Turns : at[t] = "reading" => HeardFits(heard[t])

LEMMA NoTalkFits ==
  /\ TalkFits(NoTalk) /\ NoTalk.slots = <<>> /\ NoTalk.phase = "NONE"
  /\ \A step : step \notin Working => MemoryFits(step, NoTalk)
BY DEF TalkFits, Over, NoTalk, TalkFields, MemoryFits, Working

LEMMA ShownFits ==
  /\ Nothing.list = <<>> /\ Nothing.cancel = No
  /\ \A x : Shows(x).list = x /\ Shows(x).cancel = No /\ Asks(x).list = <<>> /\ Asks(x).cancel = x
BY DEF Nothing, Shows, Asks

\* Nothing is at no slot: before the first day.
LEMMA NoSlotIsFree == ASSUME CalendarFits, NEW m PROVE ~FreeSlot(No, m)
<1>1. DayOf(No) = 0
  BY DialogueAssumption DEF DayOf, No
<1>2. QED
  BY <1>1, DialogueAssumption DEF FreeSlot, CalendarFits

LEMMA CalendarKept ==
  ASSUME CalendarFits, UNCHANGED <<meets, ops, today, wanted, agreed>> PROVE CalendarFits'
BY DEF CalendarFits, OperationsAreAskedFor

-----------------------------------------------------------------------------
(* A run t that goes on is the only one.                                     *)

\* Nothing that the customer has read or said changes.
Listens == UNCHANGED <<lastShown, wanted, agreed, heard, newest>>

LEMMA OneRun ==
  ASSUME TalkInv, NEW t \in Turns, at[t] # "idle"
  PROVE  newest[t] /\ \A u \in Turns : u # t => at[u] = "idle"
BY DEF TalkInv, OneRunFits

LEMMA RepliesKeep ==
  ASSUME TalkInv, NEW t \in Turns, at[t] # "idle", NEW what, Reply(t, what), Listens,
         CalendarFits', TalkFits(talk'), ToldList(talk', Latest(what)),
         ToldQuestion(talk', what.cancel)
  PROVE  TalkInv'
<1>1. /\ at'[t] = "answering" /\ shown'[t] = what /\ UNCHANGED mine
      /\ \A u \in Turns : u # t => at'[u] = "idle"
  BY OneRun DEF Reply, TalkInv, OneRunFits, Over
<1>2. UNCHANGED <<lastShown, wanted, agreed, heard, newest>>
  BY DEF Listens
<1>3. OneRunFits'
  BY <1>1, <1>2 DEF TalkInv, OneRunFits, Over, Reply
<1>4. TalkIsTold'
  <2>1. TalkFits(talk)'
    BY <1>2 DEF TalkFits
  <2>2. ToldList(talk', Latest(shown[t])') /\ ToldQuestion(talk, shown[t].cancel)'
    BY <1>1, <1>2 DEF ToldList, ToldQuestion, Latest
  <2>3. QED
    BY <1>1, <2>1, <2>2 DEF TalkIsTold, Working, ToldList
<1>5. \A u \in Turns : MemoryFits(at[u], mine[u])'
  BY <1>1, <1>2 DEF TalkInv, MemoryFits, Working, TalkFits
<1>6. QED
  BY <1>1, <1>3, <1>4, <1>5 DEF TalkInv

LEMMA ProceedsKeep ==
  ASSUME TalkInv, NEW t \in Turns, at[t] # "idle", NEW step \in Working, NEW d,
         Proceed(t, step, d), Listens, CalendarFits', TalkFits(talk'),
         ToldList(talk', lastShown.list), ToldQuestion(talk', No), MemoryFits(step, d)
  PROVE  TalkInv'
<1>1. /\ at'[t] = step /\ mine'[t] = d /\ UNCHANGED shown
      /\ \A u \in Turns : u # t => at'[u] = "idle" /\ mine'[u] = mine[u]
  BY OneRun DEF Proceed, TalkInv, OneRunFits, Over
<1>2. UNCHANGED <<lastShown, wanted, agreed, heard, newest>>
  BY DEF Listens
<1>3. OneRunFits'
  BY <1>1, <1>2 DEF TalkInv, OneRunFits, Over, Proceed, Working
<1>4. TalkIsTold'
  <2>1. TalkFits(talk)'
    BY <1>2 DEF TalkFits
  <2>2. ToldList(talk, lastShown.list)' /\ ToldQuestion(talk, No)'
    BY <1>2 DEF ToldList, ToldQuestion
  <2>3. QED
    BY <1>1, <2>1, <2>2 DEF TalkIsTold, Working
<1>5. \A u \in Turns : MemoryFits(at[u], mine[u])'
  <2>1. MemoryFits(at[t], mine[t])'
    BY <1>1, <1>2 DEF MemoryFits, TalkFits, ToldList, ToldQuestion
  <2>2. ASSUME NEW u \in Turns, u # t PROVE MemoryFits(at[u], mine[u])'
    BY <1>1, <1>2, <2>2 DEF TalkInv, MemoryFits, Working, TalkFits
  <2>3. QED
    BY <2>1, <2>2
<1>6. QED
  BY <1>1, <1>3, <1>4, <1>5 DEF TalkInv, Working

-----------------------------------------------------------------------------
(* handleTurn.                                                               *)

\* A run that reads, in a dialogue that the customer knows.
Reads(t) ==
  /\ TalkInv /\ t \in Turns /\ at[t] = "reading"
  /\ UNCHANGED <<calendar, customer, heard, newest>>

LEMMA ReadingFits ==
  ASSUME NEW t, Reads(t)
  PROVE  /\ TalkInv /\ t \in Turns /\ at[t] # "idle" /\ Listens /\ CalendarFits /\ CalendarFits'
         /\ UNCHANGED <<meets, ops, today, wanted, agreed, lastShown>>
         /\ TalkFits(talk) /\ ToldList(talk, lastShown.list)
         /\ ToldQuestion(talk, lastShown.cancel) /\ HeardFits(heard[t])
<1>1. \A u \in Turns : at[u] \in {"idle", "reading"}
  BY OneRun DEF Reads
<1>2. CalendarFits /\ CalendarFits'
  BY CalendarKept DEF Reads, TalkInv, calendar, customer
<1>3. QED
  BY <1>1, <1>2 DEF Reads, TalkInv, TalkIsTold, Listens, calendar, customer

LEMMA RepliesInTurn ==
  ASSUME NEW t, Reads(t), NEW what, Reply(t, what), TalkFits(talk'),
         ToldList(talk', Latest(what)), ToldQuestion(talk', what.cancel)
  PROVE  TalkInv'
BY ReadingFits, RepliesKeep

LEMMA ProceedsInTurn ==
  ASSUME NEW t, Reads(t), NEW step \in Working, NEW d, Proceed(t, step, d), TalkFits(talk'),
         ToldList(talk', lastShown.list), ToldQuestion(talk', No), MemoryFits(step, d)
  PROVE  TalkInv'
BY ReadingFits, ProceedsKeep

LEMMA LatestNothing == Latest(Nothing) = lastShown.list
BY ShownFits DEF Latest

\* An answer that shows nothing and asks nothing.
LEMMA PlainReply ==
  ASSUME NEW t, Reads(t), Reply(t, Nothing), TalkFits(talk'), ToldList(talk', lastShown.list),
         talk'.phase # "AWAITING_CANCEL_CONFIRMATION"
  PROVE  TalkInv'
BY RepliesInTurn, LatestNothing DEF ToldQuestion

\* Slots are offered in a dialogue without a question.
LEMMA ProposesInTurn ==
  ASSUME NEW t, Reads(t), NEW d, NEW days, Propose(t, d, days), TalkFits(d), TalkFits(talk'),
         ToldList(talk', lastShown.list), talk'.phase # "AWAITING_CANCEL_CONFIRMATION"
  PROVE  TalkInv'
<1> DEFINE e == [d EXCEPT !.days = IF days # {} THEN days ELSE IF d.days # {} THEN d.days
                                   ELSE today..Days]
<1>1. TalkFits(e)
  BY DEF TalkFits, Over, TalkFields
<1>2. MemoryFits("offering", e)
  BY <1>1 DEF MemoryFits, Working
<1>3. Proceed(t, "offering", e)
  BY DEF Propose
<1>4. QED
  BY <1>2, <1>3, ProceedsInTurn DEF Working, ToldQuestion

LEMMA BeginDateKeeps ==
  ASSUME NEW t, Reads(t), NEW d, NEW m, beginDate(t, d, m), TalkFits(d),
         ToldList(d, lastShown.list), d.phase # "AWAITING_CANCEL_CONFIRMATION"
  PROVE  TalkInv'
<1>1. CASE \E e : /\ e = [d EXCEPT !.phase = "OFFERING", !.slots = <<>>,
                                   !.days = IF m.day = No THEN {} ELSE {m.day}]
                  /\ talk' = e /\ Reply(t, Nothing)
  <2>1. PICK e : /\ e = [d EXCEPT !.phase = "OFFERING", !.slots = <<>>,
                                  !.days = IF m.day = No THEN {} ELSE {m.day}]
                 /\ talk' = e /\ Reply(t, Nothing)
    BY <1>1
  <2>2. TalkFits(e) /\ e.slots = <<>> /\ e.phase = "OFFERING"
    BY <2>1 DEF TalkFits, Over, TalkFields
  <2>3. QED
    BY <2>1, <2>2, PlainReply DEF ToldList
<1>2. CASE talk' = [d EXCEPT !.phase = "AWAITING_DATE"] /\ Reply(t, Nothing)
  <2>1. TalkFits(talk') /\ talk'.slots = d.slots /\ talk'.phase = "AWAITING_DATE"
    BY <1>2 DEF TalkFits, Over, TalkFields
  <2>2. QED
    BY <1>2, <2>1, PlainReply DEF ToldList
<1>3. CASE talk' = d /\ Propose(t, d, {m.day})
  BY <1>3, ProposesInTurn
<1>4. QED
  BY <1>1, <1>2, <1>3 DEF beginDate

\* A dialogue about the change of a meeting of the customer's.
LEMMA ModifyKeeps ==
  ASSUME NEW t, Reads(t), NEW x \in Tries, NEW cancel, modify(t, x, cancel),
         talk.phase # "AWAITING_CANCEL_CONFIRMATION"
  PROVE  TalkInv'
<1> DEFINE d == [NoTalk EXCEPT !.mode = "RESCHEDULE", !.attempt = attempts + 1, !.meeting = x,
                          !.slot = meets[x].slot, !.email = TRUE, !.zone = TRUE,
                          !.phase = IF cancel THEN "AWAITING_CANCEL_CONFIRMATION" ELSE "OFFERING"]
<1>1. x # No
  BY DialogueAssumption DEF Tries, No
<1>2. meets[x].slot \in wanted \union {No}
  BY ReadingFits DEF CalendarFits
<1>3. /\ TalkFits(d) /\ d.slots = <<>> /\ d.meeting = x
  BY <1>2 DEF TalkFits, Over, TalkFields, NoTalk
<1>4. \/ cancel /\ talk' = d /\ Reply(t, Asks(x))
      \/ ~cancel /\ UNCHANGED talk /\ Propose(t, d, {})
  BY DEF modify
<1> HIDE DEF d
<1>5. CASE talk' = d /\ Reply(t, Asks(x))
  BY <1>1, <1>3, <1>5, RepliesInTurn, ShownFits DEF ToldList, ToldQuestion
<1>6. CASE UNCHANGED talk /\ Propose(t, d, {})
  BY <1>3, <1>6, ProposesInTurn, ReadingFits
<1>7. QED
  BY <1>4, <1>5, <1>6

\* An operation is prepared only in a dialogue that puts no question, or one that was answered.
LEMMA BookKeeps ==
  ASSUME NEW t, Reads(t), NEW d, Book(t, d), talk' = d, TalkFits(d), ToldList(d, lastShown.list),
         ToldQuestion(d, No)
  PROVE  TalkInv'
<1>1. PICK step \in {"preparing", "applying"} : Proceed(t, step, d)
  BY DEF Book
<1>2. MemoryFits(step, d)
  BY <1>1 DEF MemoryFits
<1>3. QED
  BY <1>1, <1>2, ProceedsInTurn DEF Working

\* What is about a question whether to cancel is taken for its answer.
LEMMA QuestionIsTheTopic ==
  ASSUME NEW d, NEW m, d.phase = "AWAITING_CANCEL_CONFIRMATION"
  PROVE  Topic(d, m) = "AWAITING_CANCEL_CONFIRMATION"
BY DEF Topic, InDialogue, TalkPhase, Choosing, Confirming

\* A run that reads in a dialogue without such a question.
Answers(t) == Reads(t) /\ talk.phase # "AWAITING_CANCEL_CONFIRMATION"

LEMMA IgnoreKeeps == ASSUME NEW t, Answers(t), Ignore(t) PROVE TalkInv'
BY ReadingFits, PlainReply DEF Answers, Ignore

LEMMA GiveUpKeeps == ASSUME NEW t, Answers(t), GiveUp(t) PROVE TalkInv'
<1> DEFINE d == [talk EXCEPT !.phase = "CANCELLED", !.slot = No]
<1>1. Reads(t) /\ talk' = d /\ Reply(t, Nothing)
  BY DEF Answers, GiveUp
<1>2. TalkFits(d) /\ d.slots = talk.slots /\ d.phase = "CANCELLED"
  BY <1>1, ReadingFits DEF TalkFits, Over, TalkFields
<1> HIDE DEF d
<1>3. QED
  BY <1>1, <1>2, ReadingFits, PlainReply DEF ToldList

LEMMA KeepKeeps == ASSUME NEW t, Reads(t), Keep(t) PROVE TalkInv'
<1> DEFINE d == [talk EXCEPT !.phase = "CONFIRMED"]
<1>1. talk' = d /\ Reply(t, Nothing)
  BY DEF Keep
<1>2. TalkFits(d) /\ d.slots = talk.slots /\ d.phase = "CONFIRMED"
  BY ReadingFits DEF TalkFits, Over, TalkFields
<1> HIDE DEF d
<1>3. QED
  BY <1>1, <1>2, ReadingFits, PlainReply DEF ToldList

LEMMA ApplyAgainKeeps == ASSUME NEW t, Answers(t), ApplyAgain(t) PROVE TalkInv'
BY ReadingFits, BookKeeps DEF Answers, ApplyAgain, ToldQuestion

LEMMA TellLocationKeeps ==
  ASSUME NEW t, Answers(t), NEW m, TellLocation(t, m) PROVE TalkInv'
<1> DEFINE d == [talk EXCEPT !.phase = "AWAITING_DATE", !.zone = TRUE]
           n == IF m.day # No \/ "unclear" \in m.says THEN m ELSE [Silence EXCEPT !.day = talk.asked]
<1>1. CASE Ignore(t)
  BY <1>1, IgnoreKeeps
<1>2. CASE beginDate(t, d, n)
  <2>1. TalkFits(d) /\ d.slots = talk.slots /\ d.phase = "AWAITING_DATE"
    BY ReadingFits DEF TalkFits, Over, TalkFields, Answers
  <2> HIDE DEF d, n
  <2>2. QED
    BY <1>2, <2>1, BeginDateKeeps, ReadingFits DEF Answers, ToldList
<1>3. QED
  BY <1>1, <1>2 DEF TellLocation

LEMMA CorrectLocationKeeps ==
  ASSUME NEW t, Answers(t), NEW m, CorrectLocation(t, m) PROVE TalkInv'
<1> DEFINE c == [talk EXCEPT !.phase = "AWAITING_LOCATION", !.slots = <<>>, !.slot = No,
                             !.days = {}, !.asked = m.day]
           d == [talk EXCEPT !.slots = <<>>, !.slot = No, !.days = {}, !.op = No,
                             !.attempt = attempts + 1]
           n == IF m.day # No \/ "unclear" \in m.says \/ talk.days = {} THEN m
                ELSE [Silence EXCEPT !.day = CHOOSE x \in talk.days : \A y \in talk.days : x <= y]
<1>1. CASE Ignore(t)
  BY <1>1, IgnoreKeeps
<1>2. CASE talk' = c /\ Reply(t, Nothing)
  <2>1. TalkFits(c) /\ c.slots = <<>> /\ c.phase = "AWAITING_LOCATION"
    BY ReadingFits DEF TalkFits, Over, TalkFields, Answers
  <2> HIDE DEF c
  <2>2. QED
    BY <1>2, <2>1, PlainReply DEF Answers, ToldList
<1>3. CASE beginDate(t, d, n)
  <2>1. TalkFits(d) /\ d.slots = <<>> /\ d.phase = talk.phase
    BY ReadingFits DEF TalkFits, Over, TalkFields, Answers
  <2> HIDE DEF d, n
  <2>2. QED
    BY <1>3, <2>1, BeginDateKeeps DEF Answers, ToldList
<1>4. QED
  BY <1>1, <1>2, <1>3 DEF CorrectLocation

LEMMA TellDateKeeps == ASSUME NEW t, Answers(t), NEW m, TellDate(t, m) PROVE TalkInv'
BY ReadingFits, BeginDateKeeps DEF Answers, TellDate

LEMMA SelectMeetingKeeps ==
  ASSUME NEW t, Answers(t), NEW m, SelectMeeting(t, m) PROVE TalkInv'
<1>1. CASE Ignore(t)
  BY <1>1, IgnoreKeeps
<1>2. CASE \E x \in Tries : modify(t, x, talk.forCancel)
  BY <1>2, ModifyKeeps DEF Answers
<1>3. QED
  BY <1>1, <1>2 DEF SelectMeeting, ActiveMeets

LEMMA ConfirmChangeKeeps ==
  ASSUME NEW t, Answers(t), NEW m, ConfirmChange(t, m) PROVE TalkInv'
<1> DEFINE d == [talk EXCEPT !.mode = "RESCHEDULE", !.attempt = attempts + 1]
<1>1. CASE Ignore(t)
  BY <1>1, IgnoreKeeps
<1>2. CASE Keep(t)
  BY <1>2, KeepKeeps DEF Answers
<1>3. CASE UNCHANGED talk /\ Propose(t, d, {})
  <2>1. TalkFits(d)
    BY ReadingFits DEF TalkFits, Over, TalkFields, Answers
  <2> HIDE DEF d
  <2>2. QED
    BY <1>3, <2>1, ProposesInTurn, ReadingFits DEF Answers
<1>4. QED
  BY <1>1, <1>2, <1>3 DEF ConfirmChange

\* A yes answers the question that was asked last.
LEMMA ConfirmCancelKeeps ==
  ASSUME NEW t, Reads(t), ConfirmCancel(t, heard[t]) PROVE TalkInv'
<1>1. CASE Keep(t)
  BY <1>1, KeepKeeps
<1>2. CASE "yes" \in heard[t].says /\ UNCHANGED talk /\ Book(t, talk)
  <2>1. ToldQuestion(talk, No)
    BY <1>2, ReadingFits DEF ToldQuestion, HeardFits
  <2>2. QED
    BY <1>2, <2>1, BookKeeps, ReadingFits
<1>3. CASE UNCHANGED talk /\ Reply(t, Asks(talk.meeting))
  <2>1. ToldQuestion(talk, talk.meeting)
    BY ReadingFits DEF ToldQuestion
  <2>2. Latest(Asks(talk.meeting)) = lastShown.list /\ Asks(talk.meeting).cancel = talk.meeting
    BY ShownFits DEF Latest
  <2>3. QED
    BY <1>3, <2>1, <2>2, RepliesInTurn, ReadingFits
<1>4. QED
  BY <1>1, <1>2, <1>3 DEF ConfirmCancel

LEMMA ChangeMeetingKeeps ==
  ASSUME NEW t, Answers(t), NEW m, ChangeMeeting(t, m) PROVE TalkInv'
<1>1. CASE Ignore(t)
  BY <1>1, IgnoreKeeps
<1>2. CASE \E x \in Tries : modify(t, x, Cancels(talk, m))
  BY <1>2, ModifyKeeps DEF Answers
<1>3. CASE /\ Reply(t, Nothing)
           /\ \E c, s : talk' = [NoTalk EXCEPT !.phase = "AWAITING_MEETING_SELECTION",
                                               !.mode = "RESCHEDULE", !.forCancel = c,
                                               !.choices = s]
  <2>1. PICK c, s : talk' = [NoTalk EXCEPT !.phase = "AWAITING_MEETING_SELECTION",
                                           !.mode = "RESCHEDULE", !.forCancel = c, !.choices = s]
    BY <1>3
  <2>2. TalkFits(talk') /\ talk'.slots = <<>> /\ talk'.phase = "AWAITING_MEETING_SELECTION"
    BY <2>1 DEF TalkFits, Over, TalkFields, NoTalk
  <2>3. QED
    BY <1>3, <2>2, PlainReply DEF Answers, ToldList
<1>4. QED
  BY <1>1, <1>2, <1>3 DEF ChangeMeeting, ActiveMeets

LEMMA BeginTalkKeeps == ASSUME NEW t, Answers(t), NEW m, BeginTalk(t, m) PROVE TalkInv'
<1> DEFINE known == "city" \in m.says \/ ("elsewhere" \notin m.says /\ place)
           d == [NoTalk EXCEPT !.phase = IF known THEN "OFFERING" ELSE "AWAITING_LOCATION",
                               !.attempt = attempts + 1, !.asked = m.day, !.zone = known]
<1>1. TalkFits(d) /\ d.slots = <<>> /\ d.phase \in {"OFFERING", "AWAITING_LOCATION"}
  BY DEF TalkFits, Over, TalkFields, NoTalk
<1>2. CASE beginDate(t, d, m)
  <2> HIDE DEF d
  <2>1. QED
    BY <1>1, <1>2, BeginDateKeeps DEF Answers, ToldList
<1>3. CASE talk' = d /\ Reply(t, Nothing)
  <2> HIDE DEF d
  <2>1. QED
    BY <1>1, <1>3, PlainReply DEF Answers, ToldList
<1>4. CASE \E x \in Tries :
             /\ Reply(t, Nothing)
             /\ talk' = [talk EXCEPT !.phase = "AWAITING_RESCHEDULE_CONFIRMATION", !.meeting = x,
                                     !.email = TRUE, !.zone = TRUE]
  <2>1. PICK x : talk' = [talk EXCEPT !.phase = "AWAITING_RESCHEDULE_CONFIRMATION", !.meeting = x,
                                      !.email = TRUE, !.zone = TRUE]
    BY <1>4
  <2>2. /\ TalkFits(talk') /\ talk'.slots = talk.slots
        /\ talk'.phase = "AWAITING_RESCHEDULE_CONFIRMATION"
    BY <2>1, ReadingFits DEF TalkFits, Over, TalkFields, Answers
  <2>3. QED
    BY <1>4, <2>2, PlainReply, ReadingFits DEF Answers, ToldList
<1>5. QED
  BY <1>2, <1>3, <1>4 DEF BeginTalk, ActiveMeets

LEMMA TellEmailKeeps == ASSUME NEW t, Answers(t), NEW m, TellEmail(t, m) PROVE TalkInv'
<1> DEFINE d == [talk EXCEPT !.email = TRUE]
<1>1. CASE Ignore(t)
  BY <1>1, IgnoreKeeps
<1>2. CASE talk' = d /\ Book(t, d)
  <2>1. TalkFits(d) /\ d.slots = talk.slots /\ d.phase = talk.phase
    BY ReadingFits DEF TalkFits, Over, TalkFields, Answers
  <2> HIDE DEF d
  <2>2. QED
    BY <1>2, <2>1, BookKeeps, ReadingFits DEF Answers, ToldList, ToldQuestion
<1>3. QED
  BY <1>1, <1>2 DEF TellEmail

\* What is chosen from the slots that the customer has been shown is his choice.
LEMMA ChosenIsWanted ==
  ASSUME NEW t, Reads(t) PROVE ChosenSlot(heard[t]) \in wanted \union {No}
<1>1. HeardFits(heard[t]) /\ talk.slots \in {<<>>, lastShown.list}
  BY ReadingFits DEF ToldList
<1>2. heard[t].pick \in DOMAIN talk.slots => talk.slots[heard[t].pick] \in wanted
  <2>1. DOMAIN <<>> = {}
    OBVIOUS
  <2>2. QED
    BY <1>1, <2>1 DEF HeardFits
<1>3. QED
  BY <1>1, <1>2 DEF ChosenSlot, HeardFits

LEMMA ChooseKeeps == ASSUME NEW t, Answers(t), Choose(t, heard[t]) PROVE TalkInv'
<1> DEFINE m == heard[t]
           email == talk.email \/ mail
           d == [talk EXCEPT !.slot = ChosenSlot(m), !.email = email,
                             !.phase = IF email THEN @ ELSE "AWAITING_EMAIL"]
           n == [talk EXCEPT !.attempt = attempts + 1]
<1>1. CASE Ignore(t)
  BY <1>1, IgnoreKeeps
<1>2. CASE talk' = talk /\ Reply(t, Shows(talk.slots))
  <2>1. ToldList(talk, Latest(Shows(talk.slots))) /\ ToldQuestion(talk, Shows(talk.slots).cancel)
    BY ReadingFits, ShownFits DEF ToldList, ToldQuestion, Latest, Answers
  <2>2. QED
    BY <1>2, <2>1, RepliesInTurn, ReadingFits DEF Answers
<1>3. CASE UNCHANGED talk /\ Propose(t, n, {OtherDay(m)})
  <2>1. TalkFits(n)
    BY ReadingFits DEF TalkFits, Over, TalkFields, Answers
  <2> HIDE DEF n
  <2>2. QED
    BY <1>3, <2>1, ProposesInTurn, ReadingFits DEF Answers
<1>4. CASE talk' = d /\ (Book(t, d) \/ Reply(t, Nothing))
  <2>1. /\ TalkFits(d) /\ d.slots = talk.slots
        /\ d.phase \in {talk.phase, "AWAITING_EMAIL"}
    BY ReadingFits, ChosenIsWanted DEF TalkFits, Over, TalkFields, Answers
  <2> HIDE DEF d
  <2>2. QED
    BY <1>4, <2>1, BookKeeps, PlainReply, ReadingFits DEF Answers, ToldList, ToldQuestion
<1>5. QED
  BY <1>1, <1>2, <1>3, <1>4 DEF Choose

LEMMA HandleTurnKeeps == ASSUME TalkInv, NEW t \in Turns, HandleTurn(t) PROVE TalkInv'
<1> DEFINE m == heard[t]
           topic == Topic(talk, m)
<1>1. Reads(t)
  BY DEF HandleTurn, Reads
<1>2. ASSUME topic # "AWAITING_CANCEL_CONFIRMATION" PROVE Answers(t)
  BY <1>1, <1>2, QuestionIsTheTopic DEF Answers
<1>3. CASE topic = "AWAITING_CANCEL_CONFIRMATION"
  BY <1>1, <1>3, ConfirmCancelKeeps DEF HandleTurn
<1>4. CASE topic # "AWAITING_CANCEL_CONFIRMATION"
  <2>1. Answers(t)
    BY <1>2, <1>4
  <2>2. \/ Ignore(t) \/ GiveUp(t) \/ ApplyAgain(t) \/ TellLocation(t, m) \/ CorrectLocation(t, m)
        \/ TellDate(t, m) \/ SelectMeeting(t, m) \/ ConfirmChange(t, m) \/ ChangeMeeting(t, m)
        \/ BeginTalk(t, m) \/ Choose(t, m) \/ TellEmail(t, m)
    BY <1>4 DEF HandleTurn
  <2>3. QED
    BY <2>1, <2>2, IgnoreKeeps, GiveUpKeeps, ApplyAgainKeeps, TellLocationKeeps,
       CorrectLocationKeeps, TellDateKeeps, SelectMeetingKeeps, ConfirmChangeKeeps,
       ChangeMeetingKeeps, BeginTalkKeeps, ChooseKeeps, TellEmailKeeps
<1>5. QED
  BY <1>3, <1>4

-----------------------------------------------------------------------------
(* A run at work: offer, book and what comes of it.                          *)

LEMMA WorkingFits ==
  ASSUME TalkInv, NEW t \in Turns, at[t] \in Working
  PROVE  /\ at[t] # "idle" /\ TalkFits(talk) /\ ToldList(talk, lastShown.list)
         /\ ToldQuestion(talk, No) /\ MemoryFits(at[t], mine[t]) /\ TalkFits(mine[t])
<1>1. at[t] # "idle" /\ at[t] # "answering"
  BY DEF Working
<1>2. \A u \in Turns : at[u] # "answering"
  BY <1>1, OneRun
<1>3. QED
  BY <1>1, <1>2 DEF TalkInv, TalkIsTold, MemoryFits

\* The run leaves the dialogue as it was saved.
LEMMA WorkEnds ==
  ASSUME TalkInv, NEW t \in Turns, at[t] \in Working, Reply(t, Nothing), Listens, CalendarFits',
         UNCHANGED talk
  PROVE  TalkInv'
BY WorkingFits, RepliesKeep, LatestNothing, ShownFits

LEMMA WorkGoesOn ==
  ASSUME TalkInv, NEW t \in Turns, at[t] \in Working, NEW step \in Working, NEW d,
         Proceed(t, step, d), Listens, CalendarFits', UNCHANGED talk, MemoryFits(step, d)
  PROVE  TalkInv'
BY WorkingFits, ProceedsKeep

LEMMA OfferAgainKeeps ==
  ASSUME TalkInv, NEW t \in Turns, at[t] \in Working, OfferAgain(t, mine[t]), Listens,
         CalendarFits', UNCHANGED talk
  PROVE  TalkInv'
<1> DEFINE d == [mine[t] EXCEPT !.phase = "OFFERING", !.attempt = attempts + 1, !.slot = No,
                                !.op = No]
           e == [d EXCEPT !.days = IF {} # {} THEN {} ELSE IF d.days # {} THEN d.days
                                   ELSE today..Days]
<1>1. TalkFits(d)
  BY WorkingFits DEF TalkFits, Over, TalkFields
<1> HIDE DEF d
<1>2. TalkFits(e)
  BY <1>1 DEF TalkFits, Over, TalkFields
<1>3. Proceed(t, "offering", e)
  BY DEF OfferAgain, Propose, d
<1> HIDE DEF e
<1>4. MemoryFits("offering", e)
  BY <1>2 DEF MemoryFits, Working
<1>5. QED
  BY <1>3, <1>4, WorkGoesOn DEF Working

LEMMA OfferKeeps == ASSUME TalkInv, NEW t \in Turns, Offer(t) PROVE TalkInv'
<1> DEFINE list == generateSlots(mine[t].days, mine[t].meeting)
           d == [mine[t] EXCEPT !.phase = "OFFERING", !.slots = list, !.slot = No, !.op = No]
<1>1. at[t] \in Working /\ Listens /\ CalendarFits'
  BY CalendarKept DEF Offer, Working, Listens, TalkInv, calendar, customer
<1>2. CASE UNCHANGED talk /\ Reply(t, Nothing)
  BY <1>1, <1>2, WorkEnds
<1>3. CASE talk' = d /\ Reply(t, Shows(list))
  <2>1. TalkFits(d) /\ d.slots = list /\ d.phase = "OFFERING"
    BY <1>1, WorkingFits DEF TalkFits, Over, TalkFields
  <2> HIDE DEF d, list
  <2>2. ToldList(d, Latest(Shows(list))) /\ ToldQuestion(d, Shows(list).cancel)
    BY <2>1, ShownFits DEF ToldList, ToldQuestion, Latest
  <2>3. QED
    BY <1>1, <1>3, <2>1, <2>2, WorkingFits, RepliesKeep
<1>4. QED
  BY <1>2, <1>3 DEF Offer

\* What is prepared is what the customer chose, or said yes to.
LEMMA PrepareOpKeeps == ASSUME TalkInv, NEW t \in Turns, PrepareOp(t) PROVE TalkInv'
<1> DEFINE d == mine[t]
           kind == KindOf(d)
           m == IF kind = "CREATE" THEN d.attempt ELSE d.meeting
<1>1. /\ at[t] = "preparing" /\ at[t] \in Working /\ Listens /\ UNCHANGED <<talk, today>>
      /\ CalendarFits
  BY DEF PrepareOp, Working, Listens, TalkInv, customer
<1>2. TalkFits(d) /\ ToldList(d, lastShown.list) /\ ToldQuestion(d, No)
  BY <1>1, WorkingFits DEF MemoryFits, Working
<1>3. MemoryFits("booking", d)
  BY <1>2 DEF MemoryFits
<1>4. CASE /\ UNCHANGED <<meets, ops>>
           /\ Proceed(t, "booking", d) \/ Reply(t, Nothing) \/ OfferAgain(t, d)
  <2>1. CalendarFits'
    BY <1>1, <1>4, CalendarKept DEF Listens
  <2>2. QED
    BY <1>1, <1>3, <1>4, <2>1, WorkGoesOn, WorkEnds, OfferAgainKeeps DEF Working
<1>5. CASE /\ kind = "CANCEL" \/ FreeSlot(d.slot, m)
           /\ ops' = [ops EXCEPT ![d.attempt] = [is |-> "PREPARED", kind |-> kind, meeting |-> m,
                                                 slot |-> d.slot]]
           /\ meets' = IF kind = "CREATE"
                         THEN [meets EXCEPT ![m] = [is |-> "PENDING", slot |-> d.slot]]
                         ELSE meets
           /\ Proceed(t, "booking", d)
  <2> DEFINE o == [is |-> "PREPARED", kind |-> kind, meeting |-> m, slot |-> d.slot]
  <2>1. kind = "CANCEL" => m \in agreed
    BY <1>2 DEF KindOf, TalkFits, ToldQuestion
  <2>2. kind # "CANCEL" => d.slot \in wanted
    BY <1>1, <1>2, <1>5, NoSlotIsFree DEF TalkFits
  <2>3. d.slot \in wanted \union {No}
    BY <1>2 DEF TalkFits
  <2>4. /\ Over(o, {"is", "kind", "meeting", "slot"}) /\ o.kind = kind /\ o.meeting = m
        /\ o.slot = d.slot
    BY DEF Over
  <2>5. ops' = [ops EXCEPT ![d.attempt] = o]
    BY <1>5
  <2>6. /\ UNCHANGED <<wanted, agreed>>
        /\ meets' \in {meets, [meets EXCEPT ![m] = [is |-> "PENDING", slot |-> d.slot]]}
    BY <1>1, <1>5 DEF Listens
  <2> HIDE DEF o, d, kind, m
  <2>7. Over(ops, Tries)' /\ \A a \in Tries : ops'[a] \in {ops[a], o}
    BY <1>1, <2>5 DEF CalendarFits, Over
  <2>8. meets' \in [Tries -> [is : {"NONE", "PENDING", "CONFIRMED", "CANCELLED", "FAILED"},
                              slot : wanted \union {No}]]
    BY <1>1, <2>3, <2>6 DEF CalendarFits
  <2>9. OperationsAreAskedFor'
    BY <1>1, <2>1, <2>2, <2>4, <2>6, <2>7 DEF CalendarFits, OperationsAreAskedFor
  <2>10. CalendarFits'
    BY <1>1, <2>4, <2>6, <2>7, <2>8, <2>9 DEF CalendarFits
  <2>11. QED
    BY <1>1, <1>3, <1>5, <2>10, WorkGoesOn DEF Working, d
<1>6. QED
  BY <1>4, <1>5 DEF PrepareOp

LEMMA SaveBookingKeeps == ASSUME TalkInv, NEW t \in Turns, SaveBooking(t) PROVE TalkInv'
<1> DEFINE d == [mine[t] EXCEPT !.phase = "BOOKING", !.op = mine[t].attempt]
<1>1. at[t] = "booking" /\ at[t] \in Working /\ Listens /\ CalendarFits'
  BY CalendarKept DEF SaveBooking, Working, Listens, TalkInv, calendar, customer
<1>2. talk' = d /\ Proceed(t, "applying", d)
  BY DEF SaveBooking
<1>3. TalkFits(mine[t]) /\ ToldList(mine[t], lastShown.list)
  BY <1>1, WorkingFits DEF MemoryFits, Working
<1>4. TalkFits(d) /\ d.slots = mine[t].slots /\ d.phase = "BOOKING"
  BY <1>3 DEF TalkFits, Over, TalkFields
<1> HIDE DEF d
<1>5. ToldList(d, lastShown.list) /\ ToldQuestion(d, No) /\ MemoryFits("applying", d)
  BY <1>3, <1>4 DEF ToldList, ToldQuestion, MemoryFits
<1>6. QED
  BY <1>1, <1>2, <1>4, <1>5, ProceedsKeep, WorkingFits DEF Working

LEMMA ApplyKeeps == ASSUME TalkInv, NEW t \in Turns, Apply(t) PROVE TalkInv'
<1> DEFINE o == ops[mine[t].op]
           phase == IF meets[o.meeting].is = "CANCELLED" THEN "CANCELLED" ELSE "CONFIRMED"
           d == [mine[t] EXCEPT !.meeting = o.meeting, !.phase = phase]
<1>1. at[t] = "applying" /\ at[t] \in Working /\ Listens /\ CalendarFits' /\ UNCHANGED talk
  BY CalendarKept DEF Apply, Working, Listens, TalkInv, calendar, customer
<1>2. CASE OfferAgain(t, mine[t]) \/ Reply(t, Nothing)
  BY <1>1, <1>2, OfferAgainKeeps, WorkEnds
<1>3. CASE Proceed(t, "recording", d)
  <2>1. TalkFits(mine[t]) /\ ToldList(mine[t], lastShown.list)
    BY <1>1, WorkingFits DEF MemoryFits, Working
  <2>2. phase \in {"CANCELLED", "CONFIRMED"}
    OBVIOUS
  <2> HIDE DEF phase, o
  <2>3. TalkFits(d) /\ d.slots = mine[t].slots /\ d.phase = phase
    BY <2>1 DEF TalkFits, Over, TalkFields
  <2> HIDE DEF d
  <2>4. MemoryFits("recording", d)
    BY <2>1, <2>2, <2>3 DEF MemoryFits, ToldList
  <2>5. QED
    BY <1>1, <1>3, <2>4, WorkGoesOn DEF Working
<1>4. QED
  BY <1>2, <1>3 DEF Apply

LEMMA SaveOutcomeKeeps == ASSUME TalkInv, NEW t \in Turns, SaveOutcome(t) PROVE TalkInv'
<1>1. at[t] = "recording" /\ at[t] \in Working /\ Listens /\ CalendarFits'
  BY CalendarKept DEF SaveOutcome, Working, Listens, TalkInv, calendar, customer
<1>2. /\ TalkFits(mine[t]) /\ ToldList(mine[t], lastShown.list)
      /\ mine[t].phase # "AWAITING_CANCEL_CONFIRMATION"
  BY <1>1, WorkingFits DEF MemoryFits, Working
<1>3. talk' = mine[t] /\ Reply(t, Nothing)
  BY DEF SaveOutcome
<1>4. QED
  BY <1>1, <1>2, <1>3, RepliesKeep, WorkingFits, LatestNothing DEF ToldQuestion

-----------------------------------------------------------------------------
(* Answers, messages and everybody else.                                     *)

\* The customer reads the answer: it shows or asks what the dialogue was saved with.
LEMMA SendKeeps == ASSUME TalkInv, NEW t \in Turns, Send(t) PROVE TalkInv'
<1>1. /\ at[t] = "answering" /\ newest[t]
      /\ TalkFits(talk) /\ ToldList(talk, Latest(shown[t])) /\ ToldQuestion(talk, shown[t].cancel)
  BY OneRun DEF Send, TalkInv, TalkIsTold
<1>2. /\ lastShown'.list = Latest(shown[t]) /\ lastShown'.cancel = shown[t].cancel
      /\ UNCHANGED <<talk, meets, ops, today, wanted, agreed>>
  BY <1>1 DEF Send, Latest, calendar
<1>3. \A u \in Turns : at'[u] = "idle" /\ mine'[u] \in {mine[u], NoTalk}
  BY OneRun, <1>1 DEF Send, TalkInv, OneRunFits, Over
<1>4. CalendarFits'
  BY <1>2, CalendarKept DEF TalkInv
<1>5. OneRunFits'
  BY <1>3 DEF TalkInv, OneRunFits, Over, Send
<1>6. TalkIsTold'
  BY <1>1, <1>2, <1>3 DEF TalkIsTold, TalkFits, ToldList, ToldQuestion, Working
<1>7. \A u \in Turns : TalkFits(mine[u])'
  BY <1>2, <1>3, NoTalkFits DEF TalkInv, MemoryFits, TalkFits
<1>8. \A u \in Turns : MemoryFits(at[u], mine[u])'
  BY <1>3, <1>7 DEF MemoryFits, Working
<1>9. QED
  BY <1>3, <1>4, <1>5, <1>6, <1>8 DEF TalkInv

\* The customer writes what he means by what he has read.
LEMMA WriteKeeps ==
  ASSUME TalkInv, AnswersArrive, NEW t \in Turns, NEW m, Write(t, m) PROVE TalkInv'
<1> DEFINE chosen == IF m.pick \in DOMAIN lastShown.list THEN {lastShown.list[m.pick]} ELSE {}
           named == {m.time} \ {No}
           yes == IF "yes" \in m.says THEN {lastShown.cancel} \ {No} ELSE {}
<1>1. /\ \A u \in Turns : at[u] = "idle"
      /\ at' = [at EXCEPT ![t] = "reading"] /\ heard' = [heard EXCEPT ![t] = m]
      /\ newest' = [u \in Turns |-> u = t]
      /\ wanted' = (wanted \union chosen) \union named /\ agreed' = agreed \union yes
      /\ UNCHANGED <<talk, meets, ops, today, lastShown, mine, shown>>
  BY DEF Write, calendar
<1>2. /\ m.time # No => m.time \in named
      /\ m.pick \in DOMAIN lastShown.list => lastShown.list[m.pick] \in chosen
      /\ "yes" \in m.says /\ lastShown.cancel # No => lastShown.cancel \in yes
  OBVIOUS
<1> HIDE DEF chosen, named, yes
<1>3. wanted \subseteq wanted' /\ agreed \subseteq agreed'
  BY <1>1
<1>4. /\ at'[t] = "reading" /\ heard'[t] = m /\ \A u \in Turns : u # t => at'[u] = "idle"
  BY <1>1 DEF TalkInv, OneRunFits, Over
<1>5. CalendarFits'
  <2>1. meets' \in [Tries -> [is : {"NONE", "PENDING", "CONFIRMED", "CANCELLED", "FAILED"},
                              slot : wanted' \union {No}]]
    BY <1>1, <1>3 DEF TalkInv, CalendarFits
  <2>2. OperationsAreAskedFor'
    BY <1>1, <1>3 DEF TalkInv, CalendarFits, OperationsAreAskedFor
  <2>3. QED
    BY <1>1, <2>1, <2>2 DEF TalkInv, CalendarFits
<1>6. OneRunFits'
  BY <1>1, <1>4 DEF TalkInv, OneRunFits, Over
<1>7. TalkIsTold'
  <2>1. /\ TalkFits(talk) /\ ToldList(talk, lastShown.list) /\ ToldQuestion(talk, lastShown.cancel)
    BY <1>1 DEF TalkInv, TalkIsTold
  <2>2. TalkFits(talk)' /\ ToldList(talk, lastShown.list)' /\ ToldQuestion(talk, lastShown.cancel)'
    BY <1>1, <1>3, <2>1 DEF TalkFits, ToldList, ToldQuestion
  <2>3. QED
    BY <1>4, <2>2 DEF TalkIsTold, Working
<1>8. \A u \in Turns : MemoryFits(at[u], mine[u])'
  BY <1>1, <1>3, <1>4 DEF TalkInv, MemoryFits, TalkFits, Working
<1>9. HeardFits(m)'
  BY <1>1, <1>2 DEF HeardFits
<1>10. QED
  BY <1>4, <1>5, <1>6, <1>7, <1>8, <1>9 DEF TalkInv

\* The runs go on as they were when only the calendar changes.
LEMMA OthersKeep ==
  ASSUME TalkInv, CalendarFits', UNCHANGED <<talk, customer, runVars>> PROVE TalkInv'
<1>1. UNCHANGED <<talk, lastShown, wanted, agreed, at, heard, mine, newest, shown>>
  BY DEF customer, runVars
<1>2. OneRunFits'
  BY <1>1 DEF TalkInv, OneRunFits, Over
<1>3. TalkIsTold'
  BY <1>1 DEF TalkInv, TalkIsTold, TalkFits, ToldList, ToldQuestion, Latest
<1>4. \A u \in Turns : MemoryFits(at[u], mine[u])'
  BY <1>1 DEF TalkInv, MemoryFits, TalkFits, ToldList, ToldQuestion
<1>5. \A u \in Turns : at'[u] = "reading" => HeardFits(heard[u])'
  BY <1>1 DEF TalkInv, HeardFits
<1>6. QED
  BY <1>2, <1>3, <1>4, <1>5 DEF TalkInv

LEMMA SettleOpKeeps == ASSUME TalkInv, NEW a \in Tries, SettleOp(a) PROVE TalkInv'
<1> DEFINE o == ops[a]
<1>1. /\ o.is = "PREPARED" /\ CalendarFits /\ UNCHANGED <<talk, today, customer, runVars>>
      /\ UNCHANGED <<wanted, agreed>>
  BY DEF SettleOp, TalkInv, customer
<1>2. o.kind # "CANCEL" => o.slot \in wanted
  BY <1>1 DEF CalendarFits, OperationsAreAskedFor
<1>3. PICK p : ops' = [ops EXCEPT ![a] = p] /\ \E is \in {"COMPLETED", "FAILED"} :
                                                 p = [o EXCEPT !.is = is]
  BY DEF SettleOp
<1>4. /\ Over(ops, Tries)'
      /\ \A b \in Tries : /\ Over(ops'[b], {"is", "kind", "meeting", "slot"})
                          /\ ops'[b].kind = ops[b].kind /\ ops'[b].meeting = ops[b].meeting
                          /\ ops'[b].slot = ops[b].slot
                          /\ ops'[b].is # "NONE" => ops[b].is # "NONE"
  <2>1. Over(o, {"is", "kind", "meeting", "slot"})
    BY <1>1 DEF CalendarFits
  <2>2. /\ Over(p, {"is", "kind", "meeting", "slot"}) /\ p.kind = o.kind
        /\ p.meeting = o.meeting /\ p.slot = o.slot
    BY <1>3, <2>1 DEF Over
  <2>3. Over(ops, Tries)' /\ ops'[a] = p /\ \A b \in Tries : b # a => ops'[b] = ops[b]
    BY <1>1, <1>3 DEF CalendarFits, Over
  <2>4. QED
    BY <1>1, <2>2, <2>3 DEF CalendarFits
<1>5. meets' \in [Tries -> [is : {"NONE", "PENDING", "CONFIRMED", "CANCELLED", "FAILED"},
                            slot : wanted \union {No}]]
  <2> DEFINE M == [is : {"NONE", "PENDING", "CONFIRMED", "CANCELLED", "FAILED"},
                   slot : wanted \union {No}]
             x == o.meeting
  <2>1. meets \in [Tries -> M]
    BY <1>1 DEF CalendarFits
  <2>2. \/ meets' = meets
        \/ o.kind = "CANCEL" /\ meets' = [meets EXCEPT ![x] = [@ EXCEPT !.is = "CANCELLED"]]
        \/ o.kind # "CANCEL" /\ meets' = [meets EXCEPT ![x] = [is |-> "CONFIRMED", slot |-> o.slot]]
        \/ meets' = [meets EXCEPT ![x] = [@ EXCEPT !.is = "FAILED"]]
    BY DEF SettleOp
  <2>3. o.kind # "CANCEL" => [is |-> "CONFIRMED", slot |-> o.slot] \in M
    BY <1>2
  <2>4. \A y \in M : [y EXCEPT !.is = "CANCELLED"] \in M /\ [y EXCEPT !.is = "FAILED"] \in M
    OBVIOUS
  <2> HIDE DEF M, x
  <2>5. \/ meets' = meets
        \/ \E y : (x \in Tries => y \in M) /\ meets' = [meets EXCEPT ![x] = y]
    <3>1. x \in Tries => meets[x] \in M
      BY <2>1
    <3>2. QED
      BY <2>2, <2>3, <2>4, <3>1
  <2>6. meets' \in [Tries -> M]
    BY <2>1, <2>5
  <2>7. QED
    BY <2>6 DEF M
<1>6. OperationsAreAskedFor'
  BY <1>1, <1>4 DEF CalendarFits, OperationsAreAskedFor
<1>7. CalendarFits'
  BY <1>1, <1>4, <1>5, <1>6 DEF CalendarFits
<1>8. QED
  BY <1>1, <1>7, OthersKeep

LEMMA OthersBookKeeps == ASSUME TalkInv, NEW s \in Slots, OthersBook(s) PROVE TalkInv'
<1>1. CalendarFits'
  BY CalendarKept DEF OthersBook, TalkInv, customer
<1>2. QED
  BY <1>1, OthersKeep DEF OthersBook

LEMMA DayPassesKeeps == ASSUME TalkInv, DayPasses PROVE TalkInv'
<1>1. today' \in 1..Days
  BY DialogueAssumption DEF DayPasses, TalkInv, CalendarFits
<1>2. CalendarFits'
  BY <1>1 DEF DayPasses, TalkInv, CalendarFits, OperationsAreAskedFor, customer
<1>3. QED
  BY <1>2, OthersKeep DEF DayPasses

LEMMA TalkInitFits == ASSUME TalkInit PROVE TalkInv
<1>1. /\ attempts \in 0..2 /\ wanted = 1..attempts /\ agreed = {}
      /\ \A t \in Turns : at[t] = "idle" /\ mine[t] = NoTalk
      /\ lastShown = Nothing
  BY DEF TalkInit
<1>2. OneRunFits
  BY <1>1 DEF TalkInit, OneRunFits, Over
<1>3. CalendarFits
  <2>1. ops = [a \in Tries |-> IF a <= attempts
                 THEN [is |-> "COMPLETED", kind |-> "CREATE", meeting |-> a, slot |-> a]
                 ELSE [is |-> "NONE", kind |-> "CREATE", meeting |-> No, slot |-> No]]
    BY DEF TalkInit
  <2>2. Over(ops, Tries) /\ \A a \in Tries : Over(ops[a], {"is", "kind", "meeting", "slot"})
    BY <2>1 DEF Over
  <2>3. meets \in [Tries -> [is : {"NONE", "PENDING", "CONFIRMED", "CANCELLED", "FAILED"},
                             slot : wanted \union {No}]]
    BY <1>1 DEF TalkInit, Tries
  <2>4. OperationsAreAskedFor
    <3>1. ASSUME NEW a \in Tries, ops[a].is # "NONE"
          PROVE  ops[a].kind = "CREATE" /\ ops[a].slot \in wanted
      <4>1. a <= attempts
        BY <2>1, <3>1
      <4>2. QED
        BY <1>1, <2>1, <4>1 DEF Tries
    <3>2. QED
      BY <3>1 DEF OperationsAreAskedFor
  <2>5. today \in 1..Days
    BY DialogueAssumption DEF TalkInit
  <2>6. QED
    BY <2>2, <2>3, <2>4, <2>5 DEF CalendarFits
<1>4. TalkFits(talk) /\ talk.slots = <<>> /\ talk.phase # "AWAITING_CANCEL_CONFIRMATION"
  <2>1. CASE attempts = 0
    BY <2>1, NoTalkFits DEF TalkInit
  <2>2. CASE attempts # 0
    <3>1. talk = [NoTalk EXCEPT !.phase = "CONFIRMED", !.attempt = attempts, !.slot = attempts,
                                !.meeting = attempts, !.op = attempts, !.email = TRUE,
                                !.zone = TRUE]
      BY <2>2 DEF TalkInit
    <3>2. attempts \in wanted
      BY <1>1, <2>2
    <3>3. QED
      BY <3>1, <3>2 DEF TalkFits, Over, TalkFields, NoTalk
  <2>3. QED
    BY <2>1, <2>2
<1>5. TalkIsTold
  BY <1>1, <1>4 DEF TalkIsTold, ToldList, ToldQuestion, Working
<1>6. \A t \in Turns : MemoryFits(at[t], mine[t])
  BY <1>1, NoTalkFits DEF Working
<1>7. QED
  BY <1>1, <1>2, <1>3, <1>5, <1>6 DEF TalkInv

LEMMA TalkIsInductive ==
  ASSUME AnswersArrive, TalkInv, [TalkNext]_talkVars PROVE TalkInv'
<1>1. CASE UNCHANGED talkVars
  <2>1. UNCHANGED <<talk, calendar, customer, runVars>>
    BY <1>1 DEF talkVars
  <2>2. CalendarFits'
    BY <2>1, CalendarKept DEF TalkInv, calendar, customer
  <2>3. QED
    BY <2>1, <2>2, OthersKeep
<1>2. CASE TalkNext
  BY <1>2, WriteKeeps, HandleTurnKeeps, OfferKeeps, PrepareOpKeeps, SaveBookingKeeps, ApplyKeeps,
     SaveOutcomeKeeps, SendKeeps, SettleOpKeeps, OthersBookKeeps, DayPassesKeeps
  DEF TalkNext
<1>3. QED
  BY <1>1, <1>2

\* When each answer arrives before the customer writes again, nothing is done to the calendar
\* that he did not ask for: the slot of every operation was his choice, and every cancellation
\* answers the question about that very meeting (handleTurn, offer, book, prepare).
THEOREM AskedForOperations == AnswersArrive => (TalkSpec => []OperationsAreAskedFor)
<1> SUFFICES ASSUME AnswersArrive PROVE TalkSpec => []OperationsAreAskedFor
  OBVIOUS
<1>1. TalkInit => TalkInv
  BY TalkInitFits
<1>2. TalkInv /\ [TalkNext]_talkVars => TalkInv'
  BY TalkIsInductive
<1>3. TalkInv => OperationsAreAskedFor
  BY DEF TalkInv, CalendarFits
<1>4. QED
  BY <1>1, <1>2, <1>3, PTL DEF TalkSpec
================================================================================
