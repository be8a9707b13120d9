-------------------------- MODULE AutomatedDelivery --------------------------
(***************************************************************************)
(* The durable ledger of automated WhatsApp sends                          *)
(* (automated-deliveries/automated-delivery.service.ts).                   *)
(*                                                                         *)
(* One conversation.  A batch is the rows (parts) prepared for one inbound *)
(* message; any number of callers (job workers, webhook scanners, payment  *)
(* requests, on any replica) prepare and deliver batches concurrently.     *)
(* Every step between two awaits of the code is one action; a database     *)
(* transaction is one action.  Meta is a network of requests in flight and *)
(* answers that may be lost.  Callers crash anywhere.                      *)
(*                                                                         *)
(* Time is relative: leaseLeft counts down from Lease (CLAIM_LEASE_MS) to  *)
(* 0, where claimExpiresAt has passed.  The instant at which the expiry    *)
(* equals now, neither live (l.162) nor recoverable (l.221), is folded     *)
(* into 0: the claim of such a row fails in any case (l.268).              *)
(***************************************************************************)
EXTENDS Naturals, Sequences, FiniteSets

CONSTANTS
  Worker,        \* callers of the service
  Message,       \* inbound messages of the conversation
  Kind,          \* AutomatedDeliveryKind
  MaxPart,       \* largest part index of a batch
  Request,       \* the batches callers ask for
  Lease,         \* ticks a claim lives
  MaxThrottled,  \* bound: a part is throttled by Meta at most this often
  MaxStamp,      \* bound: provider timestamps are 1..MaxStamp
  LockMayDrop,   \* whether the transaction holding the lock may die first
  Free, NoTurn

Key == [src : Message, kind : Kind, part : 0..MaxPart]

(***************************************************************************)
(* A request: the parts 0..last of one kind, whether they may go out while *)
(* handed off, whether they carry the turn's id in their metadata, and     *)
(* whether the caller first runs recoverBatch (the turn worker does).      *)
(***************************************************************************)
RequestType ==
  [kind : Kind, last : 0..MaxPart, allow : BOOLEAN, turn : BOOLEAN,
   recover : BOOLEAN]

ASSUME RequestAssumption == Request \subseteq RequestType
ASSUME LeaseAssumption == Lease \in Nat \ {0}
ASSUME MaxPartAssumption == MaxPart \in Nat
ASSUME BoundAssumption == MaxThrottled \in Nat /\ MaxStamp \in Nat \ {0}
ASSUME NonEmptyAssumption == Message # {} /\ Kind # {} /\ Request # {}
ASSUME FreeAssumption == Free \notin Worker
ASSUME NoTurnAssumption == NoTurn \notin Message

VARIABLES
  \* automated_deliveries, one row per key
  status, claimToken, leaseLeft, attempts, allowHandedOff, rowTurn,
  outbound,     \* keys whose outbound Message is persisted
  \* Meta
  wire,         \* requests in flight: <<key, claim token>>
  accepted,     \* how many times Meta took each part for the customer
  \* callers
  pc, src, req, part, snap, todo, cur, tok,
  lock,         \* pg_advisory_xact_lock(hashtext(conversationId))
  \* the rest of the CRM, as far as eligibility reads it
  inbox, stamp, turnOf, conv, handoff, optedOut, windowOpen

ledger == <<status, claimToken, leaseLeft, attempts, allowHandedOff, rowTurn,
            outbound>>
meta == <<wire, accepted>>
caller == <<pc, src, req, part, snap, todo, cur, tok, lock>>
crm == <<inbox, stamp, turnOf, conv, handoff, optedOut, windowOpen>>
vars == <<ledger, meta, caller, crm>>

TerminalStatus == {"CONFIRMED", "REJECTED", "AMBIGUOUS", "SUPPRESSED"}
RowStatus == {"PREPARED", "DISPATCHING"} \union TerminalStatus
Status == RowStatus \union {"ABSENT"}
ConversationStatus == {"ACTIVE", "PAUSED", "HANDED_OFF", "CLOSED"}

\* A claim token is a fresh UUID: the attempt number of its row stands for it.
NoToken == 0

\* Where a caller is: the statement it will execute next.
PC == {"idle", "recovering", "preparing", "locking", "batch", "claimed",
       "awaiting", "accepted", "confirming", "throttled", "rejected"}
Locked == {"batch", "claimed", "awaiting", "accepted", "confirming",
           "throttled", "rejected"}

TypeLedger ==
  /\ status \in [Key -> Status]
  /\ claimToken \in [Key -> Nat]
  /\ leaseLeft \in [Key -> 0..Lease]
  /\ attempts \in [Key -> Nat]
  /\ allowHandedOff \in [Key -> BOOLEAN]
  /\ rowTurn \in [Key -> Message \union {NoTurn}]
  /\ outbound \in SUBSET Key

TypeMeta ==
  /\ wire \in SUBSET (Key \X Nat)
  /\ accepted \in [Key -> Nat]

TypeCaller ==
  /\ pc \in [Worker -> PC]
  /\ src \in [Worker -> Message]
  /\ req \in [Worker -> Request]
  /\ part \in [Worker -> 0..MaxPart]
  /\ snap \in [Worker -> [Key -> Status]]
  /\ todo \in [Worker -> SUBSET Key]
  /\ cur \in [Worker -> Key]
  /\ tok \in [Worker -> Nat]
  /\ lock \in Worker \union {Free}

TypeCrm ==
  /\ inbox \in Seq(Message)
  /\ stamp \in [Message -> 0..MaxStamp]
  /\ turnOf \in [Message -> Message \union {NoTurn}]
  /\ conv \in ConversationStatus
  /\ handoff \in BOOLEAN
  /\ optedOut \in BOOLEAN
  /\ windowOpen \in BOOLEAN

\* A caller never prepares a part its request does not have.
PartInBatch ==
  \A w \in Worker : /\ part[w] <= req[w].last
                    /\ pc[w] \in {"idle", "recovering"} => part[w] = 0

TypeOK == TypeLedger /\ TypeMeta /\ TypeCaller /\ TypeCrm /\ PartInBatch

Nothing == [k \in Key |-> "ABSENT"]
SomeMessage == CHOOSE m \in Message : TRUE
SomeRequest == CHOOSE r \in Request : TRUE
SomeKey == CHOOSE k \in Key : TRUE

InitLedger ==
  /\ status = Nothing
  /\ claimToken = [k \in Key |-> NoToken]
  /\ leaseLeft = [k \in Key |-> 0]
  /\ attempts = [k \in Key |-> 0]
  /\ allowHandedOff = [k \in Key |-> FALSE]
  /\ rowTurn = [k \in Key |-> NoTurn]
  /\ outbound = {}
  /\ wire = {}
  /\ accepted = [k \in Key |-> 0]
  /\ pc = [w \in Worker |-> "idle"]
  /\ src = [w \in Worker |-> SomeMessage]
  /\ req = [w \in Worker |-> SomeRequest]
  /\ part = [w \in Worker |-> 0]
  /\ snap = [w \in Worker |-> Nothing]
  /\ todo = [w \in Worker |-> {}]
  /\ cur = [w \in Worker |-> SomeKey]
  /\ tok = [w \in Worker |-> NoToken]
  /\ lock = Free

InitCrm ==
  /\ inbox = <<>>
  /\ stamp = [m \in Message |-> 0]
  /\ turnOf = [m \in Message |-> NoTurn]
  /\ conv = "ACTIVE"
  /\ handoff = FALSE
  /\ optedOut = FALSE
  /\ windowOpen = TRUE

Init == InitLedger /\ InitCrm

-----------------------------------------------------------------------------
(* Rows and eligibility.                                                   *)

RowsOf(m) == {k \in Key : k.src = m /\ status[k] # "ABSENT"}

FirstOfAny(K) == K   \* fault: the rows are read without an order

\* The rows a loop ordered by partIndex may take next (kinds tie).
First(K) == {k \in K : \A j \in K : k.part <= j.part}

\* The code's latestInbound: the last one created, whatever its timestamp.
Latest == inbox[Len(inbox)]

TurnMismatch(k) == rowTurn[k] # NoTurn /\ turnOf[k.src] # rowTurn[k]

NewerTurn(k) ==
  /\ rowTurn[k] # NoTurn
  /\ turnOf[Latest] \notin {NoTurn, rowTurn[k]}

NewerInbound(k) == Latest # k.src /\ stamp[Latest] > stamp[k.src]

ConversationAllows(k) ==
  \/ conv = "ACTIVE"
  \/ allowHandedOff[k] /\ conv = "HANDED_OFF"

HandoffIgnored(k) == FALSE   \* fault: open handoffs are not looked up

HandoffBlocks(k) == handoff /\ ~allowHandedOff[k]

\* ineligibilityReason, without the reason: null iff FALSE.
Ineligible(k) ==
  \/ TurnMismatch(k)
  \/ NewerTurn(k)
  \/ NewerInbound(k)
  \/ optedOut
  \/ HandoffBlocks(k)
  \/ ~ConversationAllows(k)
  \/ ~windowOpen

-----------------------------------------------------------------------------
(* Callers.                                                                *)

LockOfAnother == TRUE   \* fault: the caller locks another key

LockFree == lock = Free

UnlockNever(w) == UNCHANGED lock   \* fault: the lock outlives the call

Unlock(w) == lock' = IF lock = w THEN Free ELSE lock

\* The call ends, by a return or a throw; the lock goes with its transaction.
Leave(w) ==
  /\ pc' = [pc EXCEPT ![w] = "idle"]
  /\ part' = [part EXCEPT ![w] = 0]
  /\ snap' = [snap EXCEPT ![w] = Nothing]
  /\ todo' = [todo EXCEPT ![w] = {}]
  /\ cur' = [cur EXCEPT ![w] = SomeKey]
  /\ tok' = [tok EXCEPT ![w] = NoToken]
  /\ Unlock(w)
  /\ UNCHANGED <<src, req>>

\* A caller takes up a message it may answer.
Begin(w, m, r) ==
  /\ pc[w] = "idle"
  /\ \E i \in 1..Len(inbox) : inbox[i] = m
  /\ r.turn => turnOf[m] # NoTurn
  /\ pc' = [pc EXCEPT ![w] = IF r.recover THEN "recovering" ELSE "preparing"]
  /\ src' = [src EXCEPT ![w] = m]
  /\ req' = [req EXCEPT ![w] = r]
  /\ UNCHANGED <<ledger, meta, crm, part, snap, todo, cur, tok, lock>>

\* recoverBatch: whatever is already prepared for the message is delivered.
Recover(w) ==
  /\ pc[w] = "recovering"
  /\ pc' = [pc EXCEPT ![w] =
              IF RowsOf(src[w]) = {} THEN "preparing" ELSE "locking"]
  /\ UNCHANGED <<ledger, meta, crm, src, req, part, snap, todo, cur, tok, lock>>

LastPart(w) == part[w] = req[w].last

(***************************************************************************)
(* prepareBatch: one upsert per part, each its own transaction.  The first *)
(* writer of a key wins; update {} leaves an existing row alone.           *)
(***************************************************************************)
PreparePart(w) ==
  LET k == [src |-> src[w], kind |-> req[w].kind, part |-> part[w]] IN
  /\ pc[w] = "preparing"
  /\ IF status[k] = "ABSENT"
       THEN /\ status' = [status EXCEPT ![k] = "PREPARED"]
            /\ allowHandedOff' = [allowHandedOff EXCEPT ![k] = req[w].allow]
            /\ rowTurn' = [rowTurn EXCEPT ![k] =
                             IF req[w].turn THEN turnOf[src[w]] ELSE NoTurn]
       ELSE UNCHANGED <<status, allowHandedOff, rowTurn>>
  /\ IF LastPart(w)
       THEN pc' = [pc EXCEPT ![w] = "locking"] /\ UNCHANGED part
       ELSE part' = [part EXCEPT ![w] = @ + 1] /\ UNCHANGED pc
  /\ UNCHANGED <<claimToken, leaseLeft, attempts, outbound, meta, crm, src,
                 req, snap, todo, cur, tok, lock>>

(***************************************************************************)
(* deliverPreparedBatch takes the conversation's lock; deliverLockedBatch  *)
(* reads the rows of every kind once and works from that snapshot.         *)
(***************************************************************************)
LockBatch(w) ==
  /\ pc[w] = "locking"
  /\ LockFree
  /\ lock' = w
  /\ pc' = [pc EXCEPT ![w] = "batch"]
  /\ snap' = [snap EXCEPT ![w] = status]
  /\ todo' = [todo EXCEPT ![w] =
                {k \in RowsOf(src[w]) : status[k] # "CONFIRMED"}]
  /\ UNCHANGED <<ledger, meta, crm, src, req, part, cur, tok>>

BatchDone(w) ==
  /\ pc[w] = "batch"
  /\ todo[w] = {}
  /\ Leave(w)
  /\ UNCHANGED <<ledger, meta, crm>>

\* The snapshot shows the next part settled badly, or claimed and alive (the
\* expiry is read from the row: a row claimed since is refused all the same).
Blocked(w, k) ==
  \/ snap[w][k] \in TerminalStatus
  \/ snap[w][k] = "DISPATCHING" /\ leaseLeft[k] > 0

BatchBlocked(w) ==
  /\ pc[w] = "batch"
  /\ \E k \in First(todo[w]) : Blocked(w, k)
  /\ Leave(w)
  /\ UNCHANGED <<ledger, meta, crm>>

(***************************************************************************)
(* claim: one transaction under a lock on the operation key, so its reads  *)
(* and its conditional update take effect together.                        *)
(***************************************************************************)
ClaimRefused(w) ==
  /\ pc[w] = "batch"
  /\ \E k \in First(todo[w]) : ~Blocked(w, k) /\ status[k] # "PREPARED"
  /\ Leave(w)
  /\ UNCHANGED <<ledger, meta, crm>>

Suppress(w) ==
  /\ pc[w] = "batch"
  /\ \E k \in First(todo[w]) :
       /\ ~Blocked(w, k)
       /\ status[k] = "PREPARED" /\ claimToken[k] = NoToken
       /\ Ineligible(k)
       /\ status' = [status EXCEPT ![k] = "SUPPRESSED"]
  /\ Leave(w)
  /\ UNCHANGED <<claimToken, leaseLeft, attempts, allowHandedOff, rowTurn,
                 outbound, meta, crm>>

Claim(w) ==
  /\ pc[w] = "batch"
  /\ \E k \in First(todo[w]) :
       /\ ~Blocked(w, k)
       /\ status[k] = "PREPARED" /\ claimToken[k] = NoToken
       /\ ~Ineligible(k)
       /\ status' = [status EXCEPT ![k] = "DISPATCHING"]
       /\ attempts' = [attempts EXCEPT ![k] = @ + 1]
       /\ claimToken' = [claimToken EXCEPT ![k] = attempts[k] + 1]
       /\ leaseLeft' = [leaseLeft EXCEPT ![k] = Lease]
       /\ cur' = [cur EXCEPT ![w] = k]
       /\ tok' = [tok EXCEPT ![w] = attempts[k] + 1]
  /\ pc' = [pc EXCEPT ![w] = "claimed"]
  /\ UNCHANGED <<allowHandedOff, rowTurn, outbound, meta, crm, src, req, part,
                 snap, todo, lock>>

\* The HTTP request leaves the process.
Dispatch(w) ==
  /\ pc[w] = "claimed"
  /\ wire' = wire \union {<<cur[w], tok[w]>>}
  /\ pc' = [pc EXCEPT ![w] = "awaiting"]
  /\ UNCHANGED <<ledger, accepted, crm, src, req, part, snap, todo, cur, tok,
                 lock>>

Owns(w) == status[cur[w]] = "DISPATCHING" /\ claimToken[cur[w]] = tok[w]

\* A conditional update of the claimed row; it matches only the own claim.
Settle(w, outcome) ==
  IF Owns(w)
    THEN /\ status' = [status EXCEPT ![cur[w]] = outcome]
         /\ claimToken' = [claimToken EXCEPT ![cur[w]] = NoToken]
         /\ leaseLeft' = [leaseLeft EXCEPT ![cur[w]] = 0]
    ELSE UNCHANGED <<status, claimToken, leaseLeft>>

(***************************************************************************)
(* confirm is one transaction, at the default isolation (read committed):  *)
(* it reads the row and checks the claim, then writes the outbound message *)
(* and updates the row by its id, whatever committed in between.           *)
(***************************************************************************)
CheckClaim(w) ==
  /\ pc[w] = "accepted"
  /\ Owns(w)
  /\ pc' = [pc EXCEPT ![w] = "confirming"]
  /\ UNCHANGED <<ledger, meta, crm, src, req, part, snap, todo, cur, tok, lock>>

Confirm(w) ==
  /\ pc[w] = "confirming"
  /\ status' = [status EXCEPT ![cur[w]] = "CONFIRMED"]
  /\ claimToken' = [claimToken EXCEPT ![cur[w]] = NoToken]
  /\ leaseLeft' = [leaseLeft EXCEPT ![cur[w]] = 0]
  /\ outbound' = outbound \union {cur[w]}
  /\ pc' = [pc EXCEPT ![w] = "batch"]
  /\ todo' = [todo EXCEPT ![w] = @ \ {cur[w]}]
  /\ UNCHANGED <<attempts, allowHandedOff, rowTurn, meta, crm, src, req, part,
                 snap, cur, tok, lock>>

\* handleDispatchFailure, for each way the send or its confirmation fails.
HandleFailure(w, outcome) ==
  /\ Settle(w, outcome)
  /\ Leave(w)
  /\ UNCHANGED <<attempts, allowHandedOff, rowTurn, outbound, meta, crm>>

\* fault: an accepted part whose commit failed counts as not sent
ConfirmFailsAsRejected(w) ==
  pc[w] \in {"accepted", "confirming"} /\ HandleFailure(w, "REJECTED")

\* Meta took the part but its row is no longer ours, or the commit failed.
ConfirmFails(w) ==
  pc[w] \in {"accepted", "confirming"} /\ HandleFailure(w, "AMBIGUOUS")

\* fault: a timeout is retried like a throttled send
NoAnswerRetried(w) == pc[w] = "awaiting" /\ HandleFailure(w, "PREPARED")

\* No usable answer: timeout, connection loss, 5xx, 200 without a wamid.
NoAnswer(w) == pc[w] = "awaiting" /\ HandleFailure(w, "AMBIGUOUS")

Throttled(w) == pc[w] = "throttled" /\ HandleFailure(w, "PREPARED")

Rejected(w) == pc[w] = "rejected" /\ HandleFailure(w, "REJECTED")

\* The process dies or the call throws before the next statement.
Crash(w) ==
  /\ pc[w] # "idle"
  /\ Leave(w)
  /\ UNCHANGED <<ledger, meta, crm>>

(***************************************************************************)
(* The lock lives in an interactive transaction; if that dies (timeout     *)
(* 360 s, lost connection) the loop goes on, since it uses other           *)
(* connections.                                                            *)
(***************************************************************************)
LockDrops(w) ==
  /\ LockMayDrop
  /\ lock = w
  /\ lock' = Free
  /\ UNCHANGED <<ledger, meta, crm, pc, src, req, part, snap, todo, cur, tok>>

-----------------------------------------------------------------------------
(* Meta, time and recovery.                                                *)

\* The answer to request q reaches its caller, if it still waits for it.
Answer(q, outcome) ==
  /\ wire' = wire \ {q}
  /\ pc' = [w \in Worker |->
              IF pc[w] = "awaiting" /\ <<cur[w], tok[w]>> = q
                THEN outcome ELSE pc[w]]
  /\ UNCHANGED <<ledger, crm, src, req, part, snap, todo, cur, tok, lock>>

MetaAccepts(q) ==
  /\ q \in wire
  /\ accepted' = [accepted EXCEPT ![q[1]] = @ + 1]
  /\ Answer(q, "accepted")

MetaThrottles(q) ==
  /\ q \in wire
  /\ attempts[q[1]] <= MaxThrottled
  /\ Answer(q, "throttled")
  /\ UNCHANGED accepted

MetaRejects(q) ==
  /\ q \in wire
  /\ Answer(q, "rejected")
  /\ UNCHANGED accepted

Tick ==
  /\ \E k \in Key : leaseLeft[k] > 0
  /\ leaseLeft' = [k \in Key |-> IF leaseLeft[k] > 0 THEN leaseLeft[k] - 1 ELSE 0]
  /\ UNCHANGED <<status, claimToken, attempts, allowHandedOff, rowTurn,
                 outbound, meta, caller, crm>>

ExpiredNever == {}   \* fault: nobody looks for expired claims

Expired == {k \in Key : status[k] = "DISPATCHING" /\ leaseLeft[k] = 0}

\* fault: expired claims are put back in the queue
RequeueExpired ==
  /\ Expired # {}
  /\ status' = [k \in Key |-> IF k \in Expired THEN "PREPARED" ELSE status[k]]
  /\ claimToken' = [k \in Key |-> IF k \in Expired THEN NoToken ELSE claimToken[k]]
  /\ UNCHANGED <<leaseLeft, attempts, allowHandedOff, rowTurn, outbound, meta,
                 caller, crm>>

\* recoverExpiredClaims, at bootstrap and every 15 s, of any replica.
RecoverExpired ==
  /\ Expired # {}
  /\ status' = [k \in Key |-> IF k \in Expired THEN "AMBIGUOUS" ELSE status[k]]
  /\ claimToken' = [k \in Key |-> IF k \in Expired THEN NoToken ELSE claimToken[k]]
  /\ UNCHANGED <<leaseLeft, attempts, allowHandedOff, rowTurn, outbound, meta,
                 caller, crm>>

-----------------------------------------------------------------------------
(* The rest of the CRM.  Messages and opt-outs are written without the     *)
(* conversation's lock; turns, handoffs and status changes wait for it.    *)

CustomerWrites(m, t) ==
  /\ \A i \in 1..Len(inbox) : inbox[i] # m
  /\ inbox' = Append(inbox, m)
  /\ stamp' = [stamp EXCEPT ![m] = t]
  /\ windowOpen' = TRUE
  /\ UNCHANGED <<turnOf, conv, handoff, optedOut, ledger, meta, caller>>

\* A turn is named by its first message.
ScheduleTurn(m, first) ==
  /\ LockFree
  /\ \E i \in 1..Len(inbox) : inbox[i] = m
  /\ turnOf[m] = NoTurn
  /\ first = m \/ turnOf[first] = first
  /\ turnOf' = [turnOf EXCEPT ![m] = first]
  /\ UNCHANGED <<inbox, stamp, conv, handoff, optedOut, windowOpen, ledger,
                 meta, caller>>

OptOut ==
  /\ ~optedOut
  /\ optedOut' = TRUE
  /\ UNCHANGED <<inbox, stamp, turnOf, conv, handoff, windowOpen, ledger, meta,
                 caller>>

WindowCloses ==
  /\ windowOpen /\ inbox # <<>>
  /\ windowOpen' = FALSE
  /\ UNCHANGED <<inbox, stamp, turnOf, conv, handoff, optedOut, ledger, meta,
                 caller>>

OpenHandoff ==
  /\ LockFree
  /\ conv # "CLOSED" /\ ~handoff
  /\ handoff' = TRUE
  /\ conv' = "HANDED_OFF"
  /\ UNCHANGED <<inbox, stamp, turnOf, optedOut, windowOpen, ledger, meta,
                 caller>>

ResolveHandoff ==
  /\ LockFree
  /\ handoff
  /\ handoff' = FALSE
  /\ conv' \in {"HANDED_OFF", "ACTIVE", "CLOSED"}
  /\ UNCHANGED <<inbox, stamp, turnOf, optedOut, windowOpen, ledger, meta,
                 caller>>

\* updateStatus, close and reopen.
UpdateStatus(st) ==
  /\ LockFree
  /\ st = "CLOSED" => ~handoff
  /\ conv' = st
  /\ UNCHANGED <<inbox, stamp, turnOf, handoff, optedOut, windowOpen, ledger,
                 meta, caller>>

CrmStep ==
  \/ \E m \in Message, t \in 1..MaxStamp : CustomerWrites(m, t)
  \/ \E m, first \in Message : ScheduleTurn(m, first)
  \/ OptOut
  \/ WindowCloses
  \/ OpenHandoff
  \/ ResolveHandoff
  \/ \E st \in ConversationStatus : UpdateStatus(st)

-----------------------------------------------------------------------------

CallerStep(w) ==
  \/ Recover(w) \/ PreparePart(w) \/ LockBatch(w)
  \/ BatchDone(w) \/ BatchBlocked(w) \/ ClaimRefused(w) \/ Suppress(w)
  \/ Claim(w) \/ Dispatch(w) \/ CheckClaim(w) \/ Confirm(w) \/ ConfirmFails(w) \/ NoAnswer(w)
  \/ Throttled(w) \/ Rejected(w)

LedgerStep ==
  \/ \E w \in Worker : CallerStep(w) \/ Crash(w) \/ LockDrops(w)
  \/ \E q \in wire : MetaAccepts(q) \/ MetaThrottles(q) \/ MetaRejects(q)
  \/ Tick
  \/ RecoverExpired

Next ==
  \/ LedgerStep
  \/ \E w \in Worker, m \in Message, r \in Request : Begin(w, m, r)
  \/ CrmStep

Spec == Init /\ [][Next]_vars

(***************************************************************************)
(* Fairness: a live process executes its next statement (every await of    *)
(* the loop ends: the HTTP client and the transaction have timeouts), the  *)
(* clock advances and the 15 s timer of recoverExpiredClaims fires.  Meta  *)
(* and the customer owe nothing.                                           *)
(***************************************************************************)
Fairness ==
  /\ \A w \in Worker : WF_vars(CallerStep(w))
  /\ WF_vars(Tick)
  /\ WF_vars(RecoverExpired)

FairSpec == Spec /\ Fairness
-----------------------------------------------------------------------------
(* Properties.                                                             *)

Before(j, k) == j.src = k.src /\ j.kind = k.kind /\ j.part < k.part

\* No part reaches the customer twice, whatever crashes, times out, expires
\* or is throttled: the reason the ledger exists.
AtMostOnce == \A k \in Key : accepted[k] <= 1

(***************************************************************************)
(* The ledger never lies.  A confirmed part was taken by Meta and is in    *)
(* the history (and only confirmed parts are); a part said to be waiting,  *)
(* rejected or suppressed was not taken and cannot be taken any more by a  *)
(* request still in flight.  Only DISPATCHING and AMBIGUOUS may be either. *)
(***************************************************************************)
LedgerTellsTruth ==
  \A k \in Key :
    /\ status[k] = "CONFIRMED" => accepted[k] = 1
    /\ status[k] = "CONFIRMED" <=> k \in outbound
    /\ status[k] \in {"ABSENT", "PREPARED", "REJECTED", "SUPPRESSED"}
         => /\ accepted[k] = 0
            /\ \A q \in wire : q[1] # k

\* A part reaches the customer only when every earlier part of its reply is
\* confirmed: no reply with a hole in it or out of order.
PartsInOrder ==
  \A j, k \in Key : Before(j, k) /\ accepted[k] > 0 => status[j] = "CONFIRMED"

\* Whole batches are serialized (comment at l.123): while one caller is
\* between two sends of its batch, no other caller is.
BatchesDoNotInterleave ==
  \A v, w \in Worker : pc[v] \in Locked /\ pc[w] \in Locked => v = w

(***************************************************************************)
(* While a human handoff is open no caller is sending a part that may not  *)
(* go out while handed off: the eligibility check of the claim and the     *)
(* lock shared with the handoff service close the window between them.     *)
(***************************************************************************)
HandoffExcludesDispatch ==
  \A w \in Worker :
    handoff /\ pc[w] \in {"claimed", "awaiting"} => allowHandedOff[cur[w]]

(***************************************************************************)
(* A settled part is settled for good: no late answer, expiry sweep, retry *)
(* or second caller revives or rewrites it, except that an ambiguous part  *)
(* may turn out to be confirmed: the sweep of expired claims can commit    *)
(* between confirm's check and its write.                                  *)
(***************************************************************************)
SettledIsFinal ==
  [][\A k \in Key :
       /\ status[k] \in TerminalStatus \ {"AMBIGUOUS"} => status'[k] = status[k]
       /\ status[k] = "AMBIGUOUS" => status'[k] \in {"AMBIGUOUS", "CONFIRMED"}]_vars

\* A claimed part does not stay claimed for ever: a crashed or lost caller's
\* claim is settled once its lease has run out.
ClaimsAreSettled ==
  \A k \in Key : status[k] = "DISPATCHING" ~> status[k] # "DISPATCHING"

\* No caller holds the conversation's lock for ever.
LockIsReleased == \A w \in Worker : lock = w ~> lock # w

-----------------------------------------------------------------------------
(* What the design document says and the code does not do                  *)
(* (2026-09-21-hermes-first-deployment-design.md).                         *)

(***************************************************************************)
(* l.114: all parts of a split message are prepared durably before the     *)
(* first part is sent, where every reply has MaxPart + 1 parts.  This does *)
(* not hold: a worker that dies between two upserts leaves a prefix, and   *)
(* the retry finds it with recoverBatch and sends it as the whole reply.   *)
(***************************************************************************)
PreparedBeforeFirstSend ==
  (\A r \in Request : r.last = MaxPart) =>
    \A j, k \in Key : Before(k, j) /\ attempts[k] > 0 => status[j] # "ABSENT"

-----------------------------------------------------------------------------
(* The inductive invariant behind the safety properties.                   *)

InFlight == {"claimed", "awaiting", "accepted", "confirming", "throttled",
             "rejected"}

\* A caller in flight with a part holds the last claim of its row, which may
\* have been given up meanwhile but never passed on; and no other caller
\* holds that row.
CallerHoldsClaim ==
  \A w \in Worker : pc[w] \in InFlight =>
    /\ tok[w] = attempts[cur[w]]
    /\ attempts[cur[w]] > 0
    /\ status[cur[w]] \in {"DISPATCHING", "AMBIGUOUS"}
    /\ \A v \in Worker : pc[v] \in InFlight /\ cur[v] = cur[w] => v = w

\* What a caller in flight knows of Meta is true.
CallerKnowsMeta ==
  \A w \in Worker : pc[w] \in InFlight =>
    /\ accepted[cur[w]] = IF pc[w] \in {"accepted", "confirming"} THEN 1 ELSE 0
    /\ pc[w] # "awaiting" => \A q \in wire : q[1] # cur[w]

\* A request in flight belongs to the last claim of its row, was not taken
\* before, and its row is still claimed or was given up as ambiguous.
WireIsCurrent ==
  \A q \in wire :
    /\ q[2] = attempts[q[1]]
    /\ status[q[1]] \in {"DISPATCHING", "AMBIGUOUS"}
    /\ accepted[q[1]] = 0

RowsConsistent ==
  \A k \in Key :
    /\ status[k] = "DISPATCHING" => claimToken[k] = attempts[k]
    /\ status[k] # "DISPATCHING" => claimToken[k] = NoToken
    /\ status[k] \in {"DISPATCHING", "CONFIRMED", "AMBIGUOUS"} => attempts[k] > 0
    /\ status[k] = "ABSENT" => attempts[k] = 0

\* Parts are created in order and claimed in order.
OrderInv ==
  /\ \A j, k \in Key : Before(j, k) =>
       /\ status[k] # "ABSENT" => status[j] # "ABSENT"
       /\ attempts[k] > 0 => status[j] = "CONFIRMED"
  /\ \A w \in Worker : pc[w] = "preparing" =>
       \A j \in Key : /\ j.src = src[w]
                      /\ j.kind = req[w].kind
                      /\ j.part < part[w]
                      => status[j] # "ABSENT"
  /\ \A w \in Worker : \A k \in todo[w] :
       /\ status[k] # "ABSENT"
       /\ \A j \in Key : Before(j, k) => j \in todo[w] \/ status[j] = "CONFIRMED"

LedgerInv ==
  /\ AtMostOnce
  /\ LedgerTellsTruth
  /\ CallerHoldsClaim
  /\ CallerKnowsMeta
  /\ WireIsCurrent
  /\ RowsConsistent
  /\ OrderInv

-----------------------------------------------------------------------------
(* The ledger implements the promise it makes.                             *)

Meaning(st) ==
  CASE st = "ABSENT" -> "none"
    [] st \in {"PREPARED", "DISPATCHING"} -> "open"
    [] st = "CONFIRMED" -> "sent"
    [] st \in {"REJECTED", "SUPPRESSED"} -> "notSent"
    [] st = "AMBIGUOUS" -> "unknown"

Fate == [k \in Key |-> Meaning(status[k])]

Promise == INSTANCE DeliveryPromise WITH fate <- Fate, received <- accepted

\* Every behaviour of the ledger is one the promise allows.
KeepsPromise == Promise!Spec
=============================================================================
