------------------------------ MODULE InboundTurn ------------------------------
(***************************************************************************)
(* Gathering the messages a customer sends in a burst into one turn        *)
(* (auto-replies/inbound-turn.service.ts, its recovery scan, and the part  *)
(* of auto-reply.service.ts that claims and ends a turn).                  *)
(*                                                                         *)
(* One conversation.  A turn is named by the message that opened it.       *)
(* schedule runs in a transaction under the conversation's advisory lock,  *)
(* but reads the clock before it waits for the lock; claim, complete and   *)
(* release are single conditional updates without that lock.               *)
(*                                                                         *)
(* Time is relative: due and room count down to the instants dueAt and     *)
(* firstAt + maxWait, age counts the ticks since a schedule read its       *)
(* clock, leaseLeft counts down to the end of the processing lease.        *)
(* Negative countdowns matter only down to -MaxAge and stop there.         *)
(*                                                                         *)
(* Jobs of the queue carry no state of their own: the delayed job of       *)
(* enqueue, its rechecks and the 5 s recovery scan all end in claim, which *)
(* refuses what is not due.  So a worker may try to claim at any moment.   *)
(***************************************************************************)
EXTENDS Integers, Sequences

CONSTANTS
  Message,      \* inbound messages of the conversation
  Worker,       \* queue workers, of any replica
  Debounce,     \* HERMES_INBOUND_DEBOUNCE_MS, in ticks
  MaxWait,      \* HERMES_INBOUND_MAX_WAIT_MS, in ticks
  Lease,        \* PROCESSING_LEASE_MS, in ticks
  MaxAge,       \* ticks a schedule's transaction may take (its timeout)
  MaxFailures,  \* bound: so many schedules and runs fail or die
  Free, Other, NoTurn

ASSUME TimesAssumption ==
  /\ Debounce \in Nat \ {0} /\ MaxWait \in Nat \ {0} /\ Lease \in Nat \ {0}
  /\ MaxAge \in Nat /\ MaxFailures \in Nat
ASSUME NamesAssumption ==
  /\ Message # {}
  /\ Free \notin Message /\ Other \notin Message /\ NoTurn \notin Message
  /\ Free # Other

VARIABLES
  \* inbound_turns, by the message that opened the turn
  status, due, room, leaseLeft, token, lastMessage,
  batch,        \* the messages of the turn, by inboundTurnPosition
  lock,         \* the conversation's advisory lock
  \* one schedule per message
  sched, age, found,
  \* workers
  pc, turn, tok, source, seen,
  failures,
  considered    \* messages that some finished run of a turn took into account

turns == <<status, due, room, leaseLeft, token, lastMessage, batch>>
schedules == <<lock, sched, age, found>>
workers == <<pc, turn, tok, source, seen, failures, considered>>
vars == <<turns, schedules, workers>>

TurnStatus == {"ABSENT", "OPEN", "PROCESSING", "PROCESSED"}
NoToken == NoTurn

Floor == -MaxAge

TypeOK ==
  /\ status \in [Message -> TurnStatus]
  /\ due \in [Message -> Floor..Debounce]
  /\ room \in [Message -> Floor..MaxWait]
  /\ leaseLeft \in [Message -> 0..Lease]
  /\ token \in [Message -> Worker \union {NoToken}]
  /\ lastMessage \in [Message -> Message]
  /\ batch \in [Message -> Seq(Message)]
  /\ lock \in Message \union {Free, Other}
  /\ sched \in [Message -> {"new", "waiting", "found", "done"}]
  /\ age \in [Message -> 0..MaxAge]
  /\ found \in [Message -> Message \union {NoTurn}]
  /\ pc \in [Worker -> {"idle", "claimed", "reading", "answering",
                        "completing", "releasing"}]
  /\ turn \in [Worker -> Message]
  /\ tok \in [Worker -> Worker \union {NoToken}]
  /\ source \in [Worker -> Message]
  /\ seen \in [Worker -> SUBSET Message]
  /\ failures \in 0..MaxFailures
  /\ considered \in SUBSET Message

SomeMessage == CHOOSE m \in Message : TRUE

Init ==
  /\ status = [t \in Message |-> "ABSENT"]
  /\ due = [t \in Message |-> 0]
  /\ room = [t \in Message |-> 0]
  /\ leaseLeft = [t \in Message |-> 0]
  /\ token = [t \in Message |-> NoToken]
  /\ lastMessage = [t \in Message |-> t]
  /\ batch = [t \in Message |-> <<>>]
  /\ lock = Free
  /\ sched = [m \in Message |-> "new"]
  /\ age = [m \in Message |-> 0]
  /\ found = [m \in Message |-> NoTurn]
  /\ pc = [w \in Worker |-> "idle"]
  /\ turn = [w \in Worker |-> SomeMessage]
  /\ tok = [w \in Worker |-> NoToken]
  /\ source = [w \in Worker |-> SomeMessage]
  /\ seen = [w \in Worker |-> {}]
  /\ failures = 0
  /\ considered = {}

LeastOfFirst(a, b) == a   \* fault: the maximum wait is not applied

Least(a, b) == IF a < b THEN a ELSE b
Down(n, least) == IF n > least THEN n - 1 ELSE n

Members(t) == {batch[t][i] : i \in 1..Len(batch[t])}

ScheduledNever(m) == FALSE   \* fault: a retried event is scheduled again

Scheduled(m) == \E t \in Message : m \in Members(t)

-----------------------------------------------------------------------------
(* schedule(m).                                                            *)

Scheduling(m) == sched[m] \in {"waiting", "found"}

\* now = new Date(), before the transaction and its lock.
ReadClock(m) ==
  /\ sched[m] = "new"
  /\ sched' = [sched EXCEPT ![m] = "waiting"]
  /\ age' = [age EXCEPT ![m] = 0]
  /\ UNCHANGED <<turns, lock, found, workers>>

\* The webhook event fails after its schedule, and its retry schedules the
\* message again.
Retry(m) ==
  /\ sched[m] = "done"
  /\ failures < MaxFailures
  /\ failures' = failures + 1
  /\ sched' = [sched EXCEPT ![m] = "new"]
  /\ UNCHANGED <<turns, lock, age, found, pc, turn, tok, source, seen, considered>>

\* faults: dueAt is not asked about; compared the wrong way
JoinableLate(m) == {t \in Message : status[t] = "OPEN"}
JoinableDue(m) == {t \in Message : status[t] = "OPEN" /\ due[t] <= -age[m]}

\* The OPEN turns whose dueAt is later than the clock m has read.
Joinable(m) == {t \in Message : status[t] = "OPEN" /\ due[t] > -age[m]}

AlreadyScheduled(m) ==
  /\ sched[m] = "waiting"
  /\ lock = Free
  /\ Scheduled(m)
  /\ sched' = [sched EXCEPT ![m] = "done"]
  /\ age' = [age EXCEPT ![m] = 0]
  /\ UNCHANGED <<turns, lock, found, workers>>

\* The lock is taken and findFirst picks the joinable turn opened last.
FindOpen(m) ==
  /\ sched[m] = "waiting"
  /\ lock = Free
  /\ ~Scheduled(m)
  /\ lock' = m
  /\ sched' = [sched EXCEPT ![m] = "found"]
  /\ \/ Joinable(m) = {} /\ UNCHANGED found
     \/ \E t \in Joinable(m) :
          /\ \A u \in Joinable(m) : room[u] <= room[t]
          /\ found' = [found EXCEPT ![m] = t]
  /\ UNCHANGED <<turns, age, workers>>

\* The transaction ends.
EndSchedule(m, how) ==
  /\ sched' = [sched EXCEPT ![m] = how]
  /\ age' = [age EXCEPT ![m] = 0]
  /\ found' = [found EXCEPT ![m] = NoTurn]
  /\ lock' = IF lock = m THEN Free ELSE lock

(***************************************************************************)
(* The turn found is updated by its id alone, whatever became of it since  *)
(* it was read; the message joins it, and the transaction commits.         *)
(***************************************************************************)
Join(m) ==
  LET t == found[m] IN
  /\ sched[m] = "found" /\ t # NoTurn
  /\ due' = [due EXCEPT ![t] = Least(Debounce - age[m], room[t])]
  /\ lastMessage' = [lastMessage EXCEPT ![t] = m]
  /\ batch' = [batch EXCEPT ![t] = Append(@, m)]
  /\ EndSchedule(m, "done")
  /\ UNCHANGED <<status, room, leaseLeft, token, workers>>

OpenTurn(m) ==
  /\ sched[m] = "found" /\ found[m] = NoTurn
  /\ status' = [status EXCEPT ![m] = "OPEN"]
  /\ due' = [due EXCEPT ![m] = Least(Debounce, MaxWait) - age[m]]
  /\ room' = [room EXCEPT ![m] = MaxWait - age[m]]
  /\ lastMessage' = [lastMessage EXCEPT ![m] = m]
  /\ batch' = [batch EXCEPT ![m] = <<m>>]
  /\ EndSchedule(m, "done")
  /\ UNCHANGED <<leaseLeft, token, workers>>

\* The transaction times out or its process dies; the webhook's retry
\* schedules the message again.
AbortSchedule(m) ==
  /\ Scheduling(m)
  /\ failures < MaxFailures
  /\ failures' = failures + 1
  /\ EndSchedule(m, "new")
  /\ UNCHANGED <<turns, pc, turn, tok, source, seen, considered>>

\* Deliveries, handoffs and status changes hold the same lock.
OtherLocks ==
  /\ lock = Free
  /\ lock' = Other
  /\ UNCHANGED <<turns, sched, age, found, workers>>

OtherUnlocks ==
  /\ lock = Other
  /\ lock' = Free
  /\ UNCHANGED <<turns, sched, age, found, workers>>

-----------------------------------------------------------------------------
(* A worker runs a turn.                                                   *)

ClaimableOpen(t) == due[t] <= 0 /\ status[t] = "OPEN"   \* fault: no expiry

Claimable(t) ==
  /\ due[t] <= 0
  /\ \/ status[t] = "OPEN"
     \/ status[t] = "PROCESSING" /\ leaseLeft[t] = 0

\* The worker's name stands for the UUID of its run: it has one run at a time.
Claim(w, t) ==
  /\ pc[w] = "idle"
  /\ Claimable(t)
  /\ status' = [status EXCEPT ![t] = "PROCESSING"]
  /\ leaseLeft' = [leaseLeft EXCEPT ![t] = Lease]
  /\ token' = [token EXCEPT ![t] = w]
  /\ pc' = [pc EXCEPT ![w] = "claimed"]
  /\ turn' = [turn EXCEPT ![w] = t]
  /\ UNCHANGED <<due, room, lastMessage, batch, schedules, tok, source, seen,
                 failures, considered>>

\* claim reads the row back in a second statement.
ReadTurn(w) ==
  /\ pc[w] = "claimed"
  /\ tok' = [tok EXCEPT ![w] = token[turn[w]]]
  /\ source' = [source EXCEPT ![w] = lastMessage[turn[w]]]
  /\ pc' = [pc EXCEPT ![w] = "reading"]
  /\ UNCHANGED <<turns, schedules, turn, seen, failures, considered>>

ReadMessages(w) ==
  /\ pc[w] = "reading"
  /\ seen' = [seen EXCEPT ![w] = Members(turn[w])]
  /\ pc' = [pc EXCEPT ![w] = "answering"]
  /\ UNCHANGED <<turns, schedules, turn, tok, source, failures, considered>>

\* processTurn returns: what it saw has been answered or set aside for good.
Answer(w) ==
  /\ pc[w] = "answering"
  /\ considered' = considered \union seen[w]
  /\ pc' = [pc EXCEPT ![w] = "completing"]
  /\ UNCHANGED <<turns, schedules, turn, tok, source, seen, failures>>

\* processTurn, or a read before it, throws.
Fail(w) ==
  /\ pc[w] \in {"reading", "answering", "completing"}
  /\ failures < MaxFailures
  /\ failures' = failures + 1
  /\ pc' = [pc EXCEPT ![w] = "releasing"]
  /\ UNCHANGED <<turns, schedules, turn, tok, source, seen, considered>>

\* The run is over; the next one starts afresh.
EndRun(w) ==
  /\ pc' = [pc EXCEPT ![w] = "idle"]
  /\ turn' = [turn EXCEPT ![w] = SomeMessage]
  /\ tok' = [tok EXCEPT ![w] = NoToken]
  /\ source' = [source EXCEPT ![w] = SomeMessage]
  /\ seen' = [seen EXCEPT ![w] = {}]

\* fault: complete and release update the turn by its id alone
EndClaimOfAnyone(w, st) ==
  /\ status' = [status EXCEPT ![turn[w]] = st]
  /\ leaseLeft' = [leaseLeft EXCEPT ![turn[w]] = 0]
  /\ token' = [token EXCEPT ![turn[w]] = NoToken]

\* complete and release end the claim only if it still is the run's own.
EndClaim(w, st) ==
  LET t == turn[w] IN
  IF status[t] = "PROCESSING" /\ token[t] = tok[w]
    THEN /\ status' = [status EXCEPT ![t] = st]
         /\ leaseLeft' = [leaseLeft EXCEPT ![t] = 0]
         /\ token' = [token EXCEPT ![t] = NoToken]
    ELSE UNCHANGED <<status, leaseLeft, token>>

Complete(w) ==
  /\ pc[w] = "completing"
  /\ EndClaim(w, "PROCESSED")
  /\ EndRun(w)
  /\ UNCHANGED <<due, room, lastMessage, batch, schedules, failures, considered>>

Release(w) ==
  /\ pc[w] = "releasing"
  /\ EndClaim(w, "OPEN")
  /\ EndRun(w)
  /\ UNCHANGED <<due, room, lastMessage, batch, schedules, failures, considered>>

Crash(w) ==
  /\ pc[w] # "idle"
  /\ failures < MaxFailures
  /\ failures' = failures + 1
  /\ EndRun(w)
  /\ UNCHANGED <<turns, schedules, considered>>

\* A schedule that has reached its timeout is aborted before time goes on.
Tick ==
  /\ \A m \in Message : Scheduling(m) => age[m] < MaxAge
  /\ due' = [t \in Message |-> Down(due[t], Floor)]
  /\ room' = [t \in Message |-> Down(room[t], Floor)]
  /\ leaseLeft' = [t \in Message |-> Down(leaseLeft[t], 0)]
  /\ age' = [m \in Message |-> IF Scheduling(m) THEN age[m] + 1 ELSE age[m]]
  /\ <<due, room, leaseLeft, age>>' # <<due, room, leaseLeft, age>>
  /\ UNCHANGED <<status, token, lastMessage, batch, lock, sched, found, workers>>

ScheduleStep(m) ==
  AlreadyScheduled(m) \/ FindOpen(m) \/ Join(m) \/ OpenTurn(m)

RunStep(w) ==
  ReadTurn(w) \/ ReadMessages(w) \/ Answer(w) \/ Fail(w) \/ Complete(w) \/ Release(w)

Next ==
  \/ \E m \in Message : \/ ReadClock(m) \/ ScheduleStep(m)
                       \/ AbortSchedule(m) \/ Retry(m)
  \/ OtherLocks \/ OtherUnlocks
  \/ \E w \in Worker : (\E t \in Message : Claim(w, t)) \/ RunStep(w) \/ Crash(w)
  \/ Tick

Spec == Init /\ [][Next]_vars

(***************************************************************************)
(* Fairness: workers and schedules execute their next statement (Postgres  *)
(* grants a lock in the order it was asked for, hence SF), a due turn is   *)
(* given to an idle worker (the scan adds a job for each every 5 s, oldest *)
(* first, and the queue is first in first out, hence SF), whoever holds    *)
(* the lock lets it go, and time is not stopped by new arrivals.           *)
(***************************************************************************)
Fairness ==
  /\ \A m \in Message : SF_vars(ScheduleStep(m))
  /\ \A w \in Worker : WF_vars(RunStep(w))
  /\ \A t \in Message : SF_vars(\E w \in Worker : Claim(w, t))
  /\ WF_vars(OtherUnlocks)
  /\ SF_vars(Tick)

FairSpec == Spec /\ Fairness

-----------------------------------------------------------------------------
(* Properties.                                                             *)

(***************************************************************************)
(* No message is lost in a closed turn: when a turn is PROCESSED, some run *)
(* that finished had read every message that joined it.                    *)
(***************************************************************************)
NoMessageLeftBehind ==
  \A t \in Message : status[t] = "PROCESSED" => Members(t) \subseteq considered

\* Two turns never compete for the next message of the customer.
OneJoinableTurn ==
  \A t, u \in Message :
    /\ status[t] = "OPEN" /\ due[t] > 0
    /\ status[u] = "OPEN" /\ due[u] > 0
    => t = u

\* Every message belongs to at most one turn, once, whatever is retried.
OneTurnPerMessage ==
  /\ \A t, u \in Message : Members(t) \cap Members(u) # {} => t = u
  /\ \A t \in Message : \A i, j \in 1..Len(batch[t]) : batch[t][i] = batch[t][j] => i = j

\* A finished turn is never reopened or run again, not even by the failure of
\* a run that outlived its lease.
ProcessedIsFinal ==
  [][\A t \in Message : status[t] = "PROCESSED" => status'[t] = "PROCESSED"]_vars

\* The debounce never holds a reply back beyond MaxWait from the first
\* message of the turn, however often the customer writes.
WaitIsBounded == \A t \in Message : status[t] = "OPEN" => due[t] <= room[t]

\* Every scheduled message is eventually taken into account, through failed
\* and dead runs, lost jobs and expired leases.
EveryMessageConsidered ==
  \A m \in Message : sched[m] = "done" ~> m \in considered
=============================================================================
