------------------------ MODULE ConversationControlProofs ------------------------
(* Machine-checked lemmas about ConversationControl, for any number of operators, *)
(* automations, users and handoffs: every statement keeps the types and, where    *)
(* nothing else writes the status, keeps one in charge of the conversation.  The  *)
(* proofs about the modules that compose it (WebhookInbox, AutoReply) rest on     *)
(* them.                                                                          *)
EXTENDS ConversationControl, TLAPS

\* Nobody is not an actor, and no request of an operator is the automation's.
LEMMA ActorNames ==
  /\ None \notin Actor /\ Operator \subseteq Actor /\ Automation \subseteq Actor
  /\ Operator \cap Automation = {} /\ None \notin Handoff
BY ControlAssumption DEF Actor

-----------------------------------------------------------------------------
(* The conversation stays well typed, whoever works on it.                  *)

LEMMA EndFits ==
  ASSUME tx \in [Actor -> Transaction], lock \in Actor \union {None}, NEW a \in Actor, End(a)
  PROVE  tx' \in [Actor -> Transaction] /\ lock' \in Actor \union {None}
BY DEF End, NoTx, Transaction

LEMMA BeginFits ==
  ASSUME tx \in [Actor -> Transaction], NEW a \in Actor,
         NEW op \in {"create", "take", "keep", "return", "resolveClosed", "close", "reopen",
                     "reply", "file"},
         NEW h \in Handoff \union {None}, NEW u \in Agent \union {None}, Begin(a, op, h, u)
  PROVE  tx' \in [Actor -> Transaction] /\ lock' \in Actor \union {None}
BY DEF Begin, Transaction

LEMMA ReadCreateFits ==
  ASSUME ControlTypeOK, NEW a \in Actor, ReadCreate(a) PROVE ControlTypeOK'
<1>1. OpenHandoffs \subseteq Handoff
  BY DEF OpenHandoffs
<1>2. PICK h \in Handoff \union {None} : Begin(a, "create", h, None)
  BY <1>1 DEF ReadCreate
<1>3. tx' \in [Actor -> Transaction] /\ lock' \in Actor \union {None}
  BY <1>2, BeginFits DEF ControlTypeOK
<1>4. QED
  BY <1>3 DEF ControlTypeOK, ReadCreate

LEMMA WriteCreateFits ==
  ASSUME ControlTypeOK, NEW a \in Actor, WriteCreate(a) PROVE ControlTypeOK'
<1>1. tx' \in [Actor -> Transaction] /\ lock' \in Actor \union {None}
  BY EndFits DEF ControlTypeOK, WriteCreate
<1>2. handoff' \in [Handoff -> OpenStatus \union {"none", "RESOLVED"}]
  BY DEF ControlTypeOK, WriteCreate, OpenStatus
<1>3. agent' \in [Handoff -> Agent \union {None}]
  BY DEF ControlTypeOK, WriteCreate
<1>4. QED
  BY <1>1, <1>2, <1>3 DEF ControlTypeOK, WriteCreate

LEMMA OperatorStepFits ==
  ASSUME ControlTypeOK, NEW a \in Operator, OperatorStep(a) PROVE ControlTypeOK'
<1>0. a \in Actor /\ tx[a] \in Transaction
  BY DEF Actor, ControlTypeOK
<1>1. CASE ReadCreate(a)
  BY <1>0, <1>1, ReadCreateFits
<1>2. CASE WriteCreate(a)
  BY <1>0, <1>2, WriteCreateFits
<1>3. CASE \E h \in Handoff, u \in Agent : ReadAssign(a, h, u)
  <2>1. PICK h \in Handoff, u \in Agent : ReadAssign(a, h, u)
    BY <1>3
  <2>2. tx' \in [Actor -> Transaction] /\ lock' \in Actor \union {None}
    BY <1>0, <2>1, BeginFits DEF ReadAssign, ControlTypeOK
  <2>3. QED
    BY <2>1, <2>2 DEF ReadAssign, ControlTypeOK
<1>4. CASE \E h \in Handoff, op \in {"keep", "return", "resolveClosed"} : ReadResolve(a, h, op)
  <2>1. PICK h \in Handoff, op \in {"keep", "return", "resolveClosed"} : ReadResolve(a, h, op)
    BY <1>4
  <2>2. tx' \in [Actor -> Transaction] /\ lock' \in Actor \union {None}
    BY <1>0, <2>1, BeginFits DEF ReadResolve, ControlTypeOK
  <2>3. QED
    BY <2>1, <2>2 DEF ReadResolve, ControlTypeOK
<1>5. CASE WriteAssign(a) \/ WriteKeep(a) \/ WriteResolve(a) \/ WriteStatus(a) \/ WriteReply(a)
           \/ Rollback(a)
  <2>1. tx' \in [Actor -> Transaction] /\ lock' \in Actor \union {None}
    BY <1>0, <1>5, EndFits
       DEF ControlTypeOK, WriteAssign, WriteKeep, WriteResolve, WriteStatus, WriteReply, Rollback
  <2>2. handoff' \in [Handoff -> OpenStatus \union {"none", "RESOLVED"}]
    BY <1>5 DEF ControlTypeOK, WriteAssign, WriteKeep, WriteResolve, WriteStatus, WriteReply,
                Rollback, OpenStatus
  <2>3. agent' \in [Handoff -> Agent \union {None}]
    BY <1>0, <1>5 DEF ControlTypeOK, WriteAssign, WriteKeep, WriteResolve, WriteStatus,
                WriteReply, Rollback, Transaction
  <2>4. status' \in {"ACTIVE", "HANDED_OFF", "CLOSED"}
    BY <1>5 DEF ControlTypeOK, WriteAssign, WriteKeep, WriteResolve, WriteStatus, WriteReply,
                Rollback
  <2>5. QED
    BY <2>1, <2>2, <2>3, <2>4 DEF ControlTypeOK
<1>6. CASE ReadClose(a) \/ ReadReopen(a) \/ ReadReply(a)
  <2>1. tx' \in [Actor -> Transaction] /\ lock' \in Actor \union {None}
    BY <1>0, <1>6, BeginFits DEF ControlTypeOK, ReadClose, ReadReopen, ReadReply
  <2>2. QED
    BY <1>6, <2>1 DEF ControlTypeOK, ReadClose, ReadReopen, ReadReply
<1>7. CASE MetaAnswers(a)
  BY <1>0, <1>7 DEF ControlTypeOK, MetaAnswers, Transaction
<1>8. QED
  BY <1>1, <1>2, <1>3, <1>4, <1>5, <1>6, <1>7 DEF OperatorStep

LEMMA ControlKept == ControlTypeOK /\ UNCHANGED control => ControlTypeOK'
BY DEF ControlTypeOK, control

-----------------------------------------------------------------------------
(* Who is in charge.                                                        *)

\* A transaction holds the conversation's lock.
LockHeld == \A a \in Actor : tx[a] # NoTx => lock = a

\* What an operation that a began still relies on when it writes.
Holds(a, op, on) ==
  /\ op = "create" => /\ status # "CLOSED"
                      /\ on = None => OpenHandoffs = {}
                      /\ on # None => on \in OpenHandoffs
  /\ op \in {"take", "keep", "return", "resolveClosed"} => on \in OpenHandoffs
  /\ op \in {"close", "reopen"} => OpenHandoffs = {}
  /\ op \in {"reply", "answered"} => MayReply(a)

ReadsHold == \A a \in Actor : Holds(a, tx[a].op, tx[a].on)

TransactionsFit == ControlTypeOK /\ LockHeld /\ ReadsHold /\ OneIsInCharge

LEMMA NoTxHolds ==
  ASSUME NEW a PROVE NoTx.op = "none" /\ Holds(a, NoTx.op, NoTx.on)
BY DEF NoTx, Holds

\* What a transaction relies on does not change as long as nobody writes.
LEMMA HoldsKept ==
  ASSUME UNCHANGED <<status, handoff, agent>>, NEW a, NEW op, NEW on, Holds(a, op, on)
  PROVE  Holds(a, op, on)'
BY DEF Holds, OpenHandoffs, MayReply

LEMMA ChargeKept ==
  ASSUME UNCHANGED <<status, handoff>>, OneIsInCharge PROVE OneIsInCharge'
BY DEF OneIsInCharge, OpenHandoffs

\* Without the lock nobody has a transaction; with it, nobody else has one.
LEMMA OthersWait ==
  ASSUME LockHeld, NEW a \in Actor, tx[a] # NoTx \/ lock = a
  PROVE  \A b \in Actor : b # a => tx[b] = NoTx
BY DEF LockHeld

LEMMA BeginKeeps ==
  ASSUME TransactionsFit, NEW a \in Actor, NEW op, NEW h, NEW u, Begin(a, op, h, u),
         ControlTypeOK', UNCHANGED <<status, handoff, agent>>, Holds(a, op, h)
  PROVE  TransactionsFit'
<1>1. tx \in [Actor -> Transaction] /\ lock = None /\ None \notin Actor
  BY ActorNames DEF TransactionsFit, ControlTypeOK, Begin
<1>2. \A b \in Actor : tx[b] = NoTx
  BY <1>1 DEF TransactionsFit, LockHeld
<1>3. /\ lock' = a /\ tx'[a] = [op |-> op, on |-> h, to |-> u]
      /\ \A b \in Actor : b # a => tx'[b] = NoTx
  BY <1>1, <1>2 DEF Begin
<1>4. LockHeld'
  BY <1>3 DEF LockHeld, NoTx
<1>5. ASSUME NEW b \in Actor PROVE Holds(b, tx[b].op, tx[b].on)'
  <2>1. CASE b = a
    <3>1. tx'[a].op = op /\ tx'[a].on = h
      BY <1>3
    <3>2. Holds(a, op, h)'
      BY HoldsKept
    <3>3. QED
      BY <2>1, <3>1, <3>2 DEF Holds, OpenHandoffs, MayReply
  <2>2. CASE b # a
    <3>1. tx'[b].op = "none"
      BY <1>3, <2>2, NoTxHolds
    <3>2. QED
      BY <3>1 DEF Holds
  <2>3. QED
    BY <2>1, <2>2
<1>6. QED
  BY <1>4, <1>5, ChargeKept DEF TransactionsFit, ReadsHold

LEMMA EndKeeps ==
  ASSUME TransactionsFit, NEW a \in Actor, End(a), ControlTypeOK', OneIsInCharge',
         tx[a] # NoTx \/ UNCHANGED <<status, handoff, agent>>
  PROVE  TransactionsFit'
<1>1. tx \in [Actor -> Transaction] /\ LockHeld /\ ReadsHold
  BY DEF TransactionsFit, ControlTypeOK
<1>2. tx'[a] = NoTx /\ \A b \in Actor : b # a => tx'[b] = tx[b]
  BY <1>1 DEF End
<1>3. LockHeld'
  <2>1. ASSUME NEW b \in Actor, tx'[b] # NoTx PROVE lock' = b
    <3>1. b # a /\ tx[b] # NoTx
      BY <1>2, <2>1
    <3>2. lock = b
      BY <1>1, <3>1 DEF LockHeld
    <3>3. QED
      BY <3>1, <3>2 DEF End
  <2>2. QED
    BY <2>1 DEF LockHeld, NoTx
<1>4. ASSUME NEW b \in Actor PROVE Holds(b, tx[b].op, tx[b].on)'
  <2>1. CASE tx'[b] = NoTx
    BY <2>1, NoTxHolds DEF Holds
  <2>2. CASE tx'[b] # NoTx
    <3>1. b # a /\ tx'[b] = tx[b] /\ tx[b] # NoTx
      BY <1>2, <2>2
    <3>2. UNCHANGED <<status, handoff, agent>>
      BY <1>1, <3>1, OthersWait
    <3>3. Holds(b, tx[b].op, tx[b].on)
      BY <1>1 DEF ReadsHold
    <3>4. QED
      BY <3>1, <3>2, <3>3 DEF Holds, OpenHandoffs, MayReply
  <2>3. QED
    BY <2>1, <2>2
<1>5. QED
  BY <1>3, <1>4 DEF TransactionsFit, ReadsHold

\* Opening a handoff, by the automation or by an operator.
LEMMA ReadCreateKeeps ==
  ASSUME TransactionsFit, NEW a \in Actor, ReadCreate(a) PROVE TransactionsFit'
<1>1. ControlTypeOK'
  BY ReadCreateFits DEF TransactionsFit
<1>2. CASE \E h \in OpenHandoffs : Begin(a, "create", h, None)
  <2>1. PICK h \in OpenHandoffs : Begin(a, "create", h, None)
    BY <1>2
  <2>2. h # None
    BY ControlAssumption DEF OpenHandoffs
  <2>3. Holds(a, "create", h)
    BY <2>2 DEF Holds, ReadCreate
  <2>4. QED
    BY <1>1, <2>1, <2>3, BeginKeeps DEF ReadCreate
<1>3. CASE OpenHandoffs = {} /\ Begin(a, "create", None, None)
  <2>1. Holds(a, "create", None)
    BY <1>3 DEF Holds, ReadCreate
  <2>2. QED
    BY <1>1, <1>3, <2>1, BeginKeeps DEF ReadCreate
<1>4. QED
  BY <1>2, <1>3 DEF ReadCreate

LEMMA WriteCreateKeeps ==
  ASSUME TransactionsFit, NEW a \in Actor, WriteCreate(a)
  PROVE  TransactionsFit' /\ status # "CLOSED"
<1>1. /\ handoff \in [Handoff -> OpenStatus \union {"none", "RESOLVED"}]
      /\ Holds(a, "create", tx[a].on) /\ OneIsInCharge
  BY DEF TransactionsFit, ControlTypeOK, ReadsHold, WriteCreate
<1>2. tx[a] # NoTx
  BY NoTxHolds DEF WriteCreate
<1>3. OneIsInCharge'
  <2>1. CASE tx[a].on = None
    <3>1. PICK h \in Handoff : handoff' = [handoff EXCEPT ![h] = "PENDING"]
      BY <2>1 DEF WriteCreate
    <3>2. OpenHandoffs = {}
      BY <1>1, <2>1 DEF Holds
    <3>3. OpenHandoffs' = {h}
      BY <1>1, <3>1, <3>2 DEF OpenHandoffs, OpenStatus
    <3>4. QED
      BY <3>3 DEF OneIsInCharge, WriteCreate
  <2>2. CASE tx[a].on # None
    <3>1. OpenHandoffs' = OpenHandoffs /\ tx[a].on \in OpenHandoffs
      BY <1>1, <2>2 DEF WriteCreate, OpenHandoffs, Holds
    <3>2. QED
      BY <1>1, <3>1 DEF OneIsInCharge, WriteCreate
  <2>3. QED
    BY <2>1, <2>2
<1>4. ControlTypeOK'
  BY WriteCreateFits DEF TransactionsFit
<1>5. TransactionsFit'
  BY <1>2, <1>3, <1>4, EndKeeps DEF WriteCreate
<1>6. QED
  BY <1>1, <1>5 DEF Holds

\* The statements of operators that end a transaction write what it relies on.
LEMMA WriteAssignKeeps ==
  ASSUME TransactionsFit, NEW a \in Actor, WriteAssign(a), ControlTypeOK' PROVE TransactionsFit'
<1>1. /\ handoff \in [Handoff -> OpenStatus \union {"none", "RESOLVED"}]
      /\ tx[a].on \in OpenHandoffs /\ OneIsInCharge
  BY DEF TransactionsFit, ControlTypeOK, ReadsHold, WriteAssign, Holds
<1>2. OpenHandoffs' = OpenHandoffs
  BY <1>1 DEF WriteAssign, OpenHandoffs, OpenStatus
<1>3. OneIsInCharge'
  BY <1>1, <1>2 DEF OneIsInCharge, WriteAssign
<1>4. tx[a] # NoTx
  BY NoTxHolds DEF WriteAssign
<1>5. QED
  BY <1>3, <1>4, EndKeeps DEF WriteAssign

LEMMA WriteKeepKeeps ==
  ASSUME TransactionsFit, NEW a \in Actor, WriteKeep(a), ControlTypeOK' PROVE TransactionsFit'
<1>1. /\ handoff \in [Handoff -> OpenStatus \union {"none", "RESOLVED"}]
      /\ tx[a].on \in OpenHandoffs /\ OneIsInCharge
  BY DEF TransactionsFit, ControlTypeOK, ReadsHold, WriteKeep, Holds
<1>2. OpenHandoffs' = OpenHandoffs
  BY <1>1 DEF WriteKeep, OpenHandoffs, OpenStatus
<1>3. OneIsInCharge'
  BY <1>1, <1>2 DEF OneIsInCharge, WriteKeep
<1>4. tx[a] # NoTx
  BY NoTxHolds DEF WriteKeep
<1>5. QED
  BY <1>3, <1>4, EndKeeps DEF WriteKeep

LEMMA WriteResolveKeeps ==
  ASSUME TransactionsFit, NEW a \in Actor, WriteResolve(a), ControlTypeOK'
  PROVE  TransactionsFit'
<1>1. /\ handoff \in [Handoff -> OpenStatus \union {"none", "RESOLVED"}]
      /\ tx[a].on \in OpenHandoffs /\ OneIsInCharge
  BY DEF TransactionsFit, ControlTypeOK, ReadsHold, WriteResolve, Holds
<1>2. OpenHandoffs = {tx[a].on}
  BY <1>1 DEF OneIsInCharge
<1>3. OpenHandoffs' = {}
  BY <1>1, <1>2 DEF WriteResolve, OpenHandoffs, OpenStatus
<1>4. OneIsInCharge'
  BY <1>3 DEF OneIsInCharge, WriteResolve
<1>5. tx[a] # NoTx
  BY NoTxHolds DEF WriteResolve
<1>6. QED
  BY <1>4, <1>5, EndKeeps DEF WriteResolve

LEMMA WriteStatusKeeps ==
  ASSUME TransactionsFit, NEW a \in Actor, WriteStatus(a), ControlTypeOK'
  PROVE  TransactionsFit'
<1>1. OpenHandoffs = {}
  BY DEF TransactionsFit, ReadsHold, WriteStatus, Holds
<1>2. OpenHandoffs' = {}
  BY <1>1 DEF WriteStatus, OpenHandoffs
<1>3. OneIsInCharge'
  BY <1>2 DEF OneIsInCharge, WriteStatus
<1>4. tx[a] # NoTx
  BY NoTxHolds DEF WriteStatus
<1>5. QED
  BY <1>3, <1>4, EndKeeps DEF WriteStatus

LEMMA MetaAnswersKeeps ==
  ASSUME TransactionsFit, NEW a \in Actor, MetaAnswers(a), ControlTypeOK'
  PROVE  TransactionsFit'
<1>1. tx \in [Actor -> Transaction] /\ LockHeld /\ ReadsHold
  BY DEF TransactionsFit, ControlTypeOK
<1>2. /\ tx[a] # NoTx /\ tx'[a].op = "answered" /\ MayReply(a)
      /\ \A b \in Actor : b # a => tx'[b] = tx[b]
  BY <1>1, NoTxHolds DEF MetaAnswers, Transaction, ReadsHold, Holds
<1>3. LockHeld'
  BY <1>1, <1>2 DEF LockHeld, MetaAnswers, NoTx
<1>4. ReadsHold'
  BY <1>1, <1>2 DEF ReadsHold, Holds, MetaAnswers, OpenHandoffs, MayReply
<1>5. QED
  BY <1>3, <1>4, ChargeKept DEF TransactionsFit, MetaAnswers

LEMMA OperatorStepKeeps ==
  ASSUME TransactionsFit, NEW a \in Operator, OperatorStep(a) PROVE TransactionsFit'
<1>1. a \in Actor /\ ControlTypeOK'
  BY ActorNames, OperatorStepFits DEF TransactionsFit
<1>2. CASE ReadCreate(a) \/ WriteCreate(a)
  BY <1>1, <1>2, ReadCreateKeeps, WriteCreateKeeps
<1>3. CASE \E h \in Handoff, u \in Agent : ReadAssign(a, h, u)
  <2>1. PICK h \in Handoff, u \in Agent : ReadAssign(a, h, u)
    BY <1>3
  <2>2. Holds(a, "take", h)
    BY <2>1 DEF Holds, ReadAssign, OpenHandoffs
  <2>3. QED
    BY <1>1, <2>1, <2>2, BeginKeeps DEF ReadAssign
<1>4. CASE \E h \in Handoff, op \in {"keep", "return", "resolveClosed"} : ReadResolve(a, h, op)
  <2>1. PICK h \in Handoff, op \in {"keep", "return", "resolveClosed"} : ReadResolve(a, h, op)
    BY <1>4
  <2>2. Holds(a, op, h)
    BY <2>1 DEF Holds, ReadResolve, OpenHandoffs
  <2>3. QED
    BY <1>1, <2>1, <2>2, BeginKeeps DEF ReadResolve
<1>5. CASE WriteAssign(a) \/ WriteKeep(a) \/ WriteResolve(a) \/ WriteStatus(a) \/ MetaAnswers(a)
  BY <1>1, <1>5, WriteAssignKeeps, WriteKeepKeeps, WriteResolveKeeps, WriteStatusKeeps,
     MetaAnswersKeeps
<1>6. CASE ReadClose(a)
  <2>1. Holds(a, "close", None)
    BY <1>6 DEF Holds, ReadClose
  <2>2. QED
    BY <1>1, <1>6, <2>1, BeginKeeps DEF ReadClose
<1>7. CASE ReadReopen(a)
  <2>1. Holds(a, "reopen", None)
    BY <1>7 DEF Holds, ReadReopen
  <2>2. QED
    BY <1>1, <1>7, <2>1, BeginKeeps DEF ReadReopen
<1>8. CASE ReadReply(a)
  <2>1. Holds(a, "reply", None)
    BY <1>8 DEF Holds, ReadReply
  <2>2. QED
    BY <1>1, <1>8, <2>1, BeginKeeps DEF ReadReply
<1>9. CASE WriteReply(a) \/ Rollback(a)
  <2>1. End(a) /\ UNCHANGED <<status, handoff, agent>>
    BY <1>9 DEF WriteReply, Rollback
  <2>2. OneIsInCharge'
    BY <2>1, ChargeKept DEF TransactionsFit
  <2>3. QED
    BY <1>1, <2>1, <2>2, EndKeeps
<1>10. QED
  BY <1>2, <1>3, <1>4, <1>5, <1>6, <1>7, <1>8, <1>9 DEF OperatorStep

\* An operator's statement leaves the transactions of others alone.
LEMMA OperatorStepLeaves ==
  ASSUME ControlTypeOK, NEW a \in Operator, OperatorStep(a), NEW b \in Actor, b # a
  PROVE  tx'[b] = tx[b]
<1>1. tx \in [Actor -> Transaction] /\ a \in Actor
  BY ActorNames DEF ControlTypeOK
<1>2. \/ \E op, h, u : Begin(a, op, h, u)
      \/ End(a) \/ MetaAnswers(a)
  BY DEF OperatorStep, ReadCreate, WriteCreate, ReadAssign, ReadResolve, WriteAssign, WriteKeep,
         WriteResolve, ReadClose, ReadReopen, WriteStatus, ReadReply, WriteReply, Rollback
<1>3. QED
  BY <1>1, <1>2 DEF Begin, End, MetaAnswers

LEMMA TransactionsKept ==
  ASSUME TransactionsFit, UNCHANGED control PROVE TransactionsFit'
<1>1. ControlTypeOK' /\ OneIsInCharge'
  BY ControlKept, ChargeKept DEF TransactionsFit, control
<1>2. LockHeld' /\ ReadsHold'
  BY DEF TransactionsFit, control, LockHeld, ReadsHold, Holds, OpenHandoffs, MayReply
<1>3. QED
  BY <1>1, <1>2 DEF TransactionsFit

-----------------------------------------------------------------------------
(* The promise of WhoAnswers is kept.                                       *)

\* Every statement of operators, scans and workers does one of these to the conversation.
FilesUnderLock(a) ==
  /\ Begin(a, "file", None, None) \/ End(a)
  /\ UNCHANGED <<status, handoff, agent>>

Resumes == status = "CLOSED" /\ status' = "ACTIVE" /\ UNCHANGED <<handoff, agent, lock, tx>>

ControlStep ==
  \/ \E a \in Operator : OperatorStep(a)
  \/ \E a \in Automation : ReadCreate(a) \/ WriteCreate(a) \/ FilesUnderLock(a)
  \/ Resumes
  \/ UNCHANGED control

\* Whoever takes or resolves a handoff writes it while it is as it was read.
TakersFit ==
  \A a \in Actor :
    /\ tx[a].op = "take" => tx[a].to \in Agent /\ agent[tx[a].on] \in {None, tx[a].to}
    /\ tx[a].op \in {"keep", "return", "resolveClosed"} => agent[tx[a].on] = User[a]

\* What the invariants say together, and the promised state they give.
HandsInv == TransactionsFit /\ TakersFit

Keeps == Promised!Next \/ UNCHANGED Promised!vars

LEMMA Holders ==
  /\ Promised!Hermes.is = "hermes" /\ Promised!Team.is = "team" /\ Promised!Nobody.is = "nobody"
  /\ \A u : Promised!Person(u).is = "person" /\ Promised!Person(u).who = u
BY DEF Promised!Hermes, Promised!Team, Promised!Nobody, Promised!Person

\* Who holds the conversation, read off its status and its open handoff.
HolderIs ==
  /\ status = "ACTIVE" => Holder = Promised!Hermes
  /\ status = "CLOSED" => Holder = Promised!Nobody
  /\ \A h : status = "HANDED_OFF" /\ OpenHandoffs = {h} =>
       /\ agent[h] = None => Holder = Promised!Team
       /\ agent[h] # None => Holder = Promised!Person(agent[h])

LEMMA HolderOf == HolderIs
<1>1. status = "ACTIVE" => Holder = Promised!Hermes
  BY DEF Holder, Promised!Hermes
<1>2. status = "CLOSED" => Holder = Promised!Nobody
  BY DEF Holder, Promised!Nobody
<1>3. ASSUME status = "HANDED_OFF", NEW h, OpenHandoffs = {h}
      PROVE  /\ agent[h] = None => Holder = Promised!Team
             /\ agent[h] # None => Holder = Promised!Person(agent[h])
  <2>1. Takers = {agent[h]} \ {None}
    BY <1>3 DEF Takers
  <2>2. CASE agent[h] = None
    <3>1. Takers = {}
      BY <2>1, <2>2
    <3>2. QED
      BY <1>3, <2>2, <3>1 DEF Holder, Promised!Team
  <2>3. CASE agent[h] # None
    <3>1. Takers = {agent[h]}
      BY <2>1, <2>3
    <3>2. (CHOOSE u \in Takers : TRUE) = agent[h]
      BY <3>1
    <3>3. QED
      BY <1>3, <2>3, <3>1, <3>2 DEF Holder, Promised!Person
  <2>4. QED
    BY <2>2, <2>3
<1>4. QED
  BY <1>1, <1>2, <1>3 DEF HolderIs

LEMMA HolderThen == HolderIs'
BY HolderOf, PTL

LEMMA HolderKept == UNCHANGED <<status, handoff, agent>> => UNCHANGED Holder
BY DEF Holder, Takers, OpenHandoffs

\* The requests whose reply is on its way, of transactions t.
RepliesIn(t) == {a \in Operator : t[a].op \in {"reply", "answered"}}

LEMMA RepliesAre == Replying = RepliesIn(tx) /\ Replying' = RepliesIn(tx')
BY DEF Replying, RepliesIn

LEMMA OnlyOneReplies ==
  ASSUME NEW t, NEW a \in Actor, \A b \in Actor : b # a => t[b] = NoTx
  PROVE  /\ t[a].op \notin {"reply", "answered"} => RepliesIn(t) = {}
         /\ a \in Operator /\ t[a].op \in {"reply", "answered"} => RepliesIn(t) = {a}
<1>1. \A b \in Operator : b \in Actor /\ (b # a => t[b].op = "none")
  BY ActorNames, NoTxHolds
<1>2. QED
  BY <1>1 DEF RepliesIn

\* A transaction that starts: nobody was replying.
LEMMA BeginHands ==
  ASSUME HandsInv, NEW a \in Actor, NEW op, NEW h, NEW u, Begin(a, op, h, u),
         UNCHANGED <<status, handoff, agent>>,
         op = "take" => u \in Agent /\ agent[h] \in {None, u},
         op \in {"keep", "return", "resolveClosed"} => agent[h] = User[a]
  PROVE  /\ TakersFit' /\ UNCHANGED Holder /\ Replying = {}
         /\ op \notin {"reply", "answered"} => Replying' = {}
         /\ a \in Operator /\ op \in {"reply", "answered"} => Replying' = {a}
<1>1. tx \in [Actor -> Transaction] /\ lock = None /\ None \notin Actor
  BY ActorNames DEF HandsInv, TransactionsFit, ControlTypeOK, Begin
<1>2. \A b \in Actor : tx[b] = NoTx
  BY <1>1 DEF HandsInv, TransactionsFit, LockHeld
<1>3. /\ tx'[a] = [op |-> op, on |-> h, to |-> u]
      /\ \A b \in Actor : b # a => tx'[b] = NoTx
  BY <1>1, <1>2 DEF Begin
<1>4. TakersFit'
  BY <1>3, NoTxHolds DEF TakersFit
<1>5. Replying = {}
  BY <1>2, NoTxHolds, OnlyOneReplies, RepliesAre
<1>6. tx'[a].op = op
  BY <1>3
<1>7. QED
  BY <1>3, <1>4, <1>5, <1>6, HolderKept, OnlyOneReplies, RepliesAre

\* A transaction that ends: nobody is replying any more.
LEMMA EndHands ==
  ASSUME HandsInv, NEW a \in Actor, End(a), tx[a] # NoTx
  PROVE  /\ TakersFit' /\ Replying' = {}
         /\ tx[a].op \notin {"reply", "answered"} => Replying = {}
         /\ a \in Operator /\ tx[a].op \in {"reply", "answered"} => Replying = {a}
<1>1. tx \in [Actor -> Transaction] /\ \A b \in Actor : b # a => tx[b] = NoTx
  BY OthersWait DEF HandsInv, TransactionsFit, ControlTypeOK
<1>2. \A b \in Actor : tx'[b] = NoTx
  BY <1>1 DEF End
<1>3. TakersFit'
  BY <1>2, NoTxHolds DEF TakersFit
<1>4. Replying' = {}
  BY <1>2, NoTxHolds, OnlyOneReplies, RepliesAre
<1>5. QED
  BY <1>1, <1>3, <1>4, OnlyOneReplies, RepliesAre

LEMMA Unmoved == ASSUME UNCHANGED <<Holder, Replying>> PROVE Keeps
BY DEF Keeps, Promised!vars

\* A transaction that ends without writing: its reply, if it had one, is over.
LEMMA EndsUnderLock ==
  ASSUME HandsInv, NEW a \in Actor, End(a), UNCHANGED <<status, handoff, agent>>
  PROVE  TakersFit' /\ Keeps
<1>1. CASE tx[a] = NoTx
  <2>1. UNCHANGED tx
    BY <1>1 DEF HandsInv, TransactionsFit, ControlTypeOK, End
  <2>2. TakersFit'
    BY <2>1 DEF HandsInv, TakersFit
  <2>3. UNCHANGED Replying
    BY <2>1 DEF Replying
  <2>4. QED
    BY <2>2, <2>3, HolderKept, Unmoved
<1>2. CASE tx[a] # NoTx /\ Replying # {}
  <2>1. TakersFit' /\ Replying' = {} /\ a \in Actor /\ tx[a].op \in {"reply", "answered"}
    BY <1>2, EndHands
  <2>2. PICK b \in Operator : tx[b].op \in {"reply", "answered"}
    BY <1>2 DEF Replying
  <2>3. a = b
    BY <1>2, <2>2, ActorNames, NoTxHolds, OthersWait DEF HandsInv, TransactionsFit
  <2>4. Replying = {a}
    BY <1>2, <2>1, <2>2, <2>3, EndHands
  <2>5. Promised!ReplyEnds(a)
    BY <2>1, <2>4, HolderKept DEF Promised!ReplyEnds
  <2>6. QED
    BY <2>1, <2>2, <2>3, <2>5 DEF Keeps, Promised!Next
<1>3. CASE tx[a] # NoTx /\ Replying = {}
  BY <1>3, EndHands, HolderKept, Unmoved
<1>4. QED
  BY <1>1, <1>2, <1>3

\* One open handoff at most, and who has it.
LEMMA OneOpen ==
  ASSUME OneIsInCharge, NEW h \in OpenHandoffs
  PROVE  status = "HANDED_OFF" /\ OpenHandoffs = {h}
BY DEF OneIsInCharge

LEMMA CreateHands ==
  ASSUME HandsInv, NEW a \in Actor, WriteCreate(a) PROVE TakersFit' /\ Keeps
<1>1. /\ ControlTypeOK /\ OneIsInCharge /\ Holds(a, "create", tx[a].on) /\ tx[a] # NoTx
      /\ status' = "HANDED_OFF"
  BY NoTxHolds DEF HandsInv, TransactionsFit, ReadsHold, WriteCreate
<1>2. TakersFit' /\ Replying = {} /\ Replying' = {}
  BY <1>1, EndHands DEF WriteCreate
<1>3. CASE tx[a].on = None
  <2>1. PICK h \in Handoff \ OpenHandoffs : /\ handoff' = [handoff EXCEPT ![h] = "PENDING"]
                                            /\ agent' = [agent EXCEPT ![h] = None]
    BY <1>3 DEF WriteCreate
  <2>2. OpenHandoffs = {} /\ status = "ACTIVE"
    BY <1>1, <1>3 DEF Holds, OneIsInCharge, ControlTypeOK
  <2>3. OpenHandoffs' = {h} /\ agent'[h] = None
    BY <1>1, <2>1, <2>2 DEF OpenHandoffs, OpenStatus, ControlTypeOK
  <2>4. Holder = Promised!Hermes
    BY <2>2, HolderOf DEF HolderIs
  <2>5. Holder' = Promised!Team
    BY <1>1, <2>3, HolderThen DEF HolderIs
  <2>6. Promised!HandOver
    BY <1>2, <2>4, <2>5 DEF Promised!HandOver, Promised!ChangesHands
  <2>7. QED
    BY <1>2, <2>6 DEF Keeps, Promised!Next
<1>4. CASE tx[a].on # None
  <2>1. UNCHANGED <<handoff, agent>> /\ status = "HANDED_OFF"
    BY <1>1, <1>4, OneOpen DEF WriteCreate, Holds
  <2>2. QED
    BY <1>1, <1>2, <2>1, HolderKept, Unmoved
<1>5. QED
  BY <1>3, <1>4

LEMMA AssignHands ==
  ASSUME HandsInv, NEW a \in Actor, WriteAssign(a) PROVE TakersFit' /\ Keeps
<1>1. /\ ControlTypeOK /\ OneIsInCharge /\ tx[a].on \in OpenHandoffs /\ tx[a] # NoTx
      /\ tx[a].to \in Agent /\ agent[tx[a].on] \in {None, tx[a].to}
  BY NoTxHolds DEF HandsInv, TransactionsFit, ReadsHold, WriteAssign, Holds, TakersFit
<1>2. TakersFit' /\ Replying = {} /\ Replying' = {}
  BY <1>1, EndHands DEF WriteAssign
<1>3. /\ status = "HANDED_OFF" /\ status' = "HANDED_OFF" /\ OpenHandoffs = {tx[a].on}
      /\ tx[a].on \in Handoff /\ tx[a].to # None
  BY <1>1, OneOpen, ControlAssumption DEF WriteAssign, OpenHandoffs
<1>4. OpenHandoffs' = {tx[a].on} /\ agent'[tx[a].on] = tx[a].to
  BY <1>1, <1>3 DEF WriteAssign, OpenHandoffs, OpenStatus, ControlTypeOK
<1>5. Holder' = Promised!Person(tx[a].to)
  BY <1>3, <1>4, HolderThen DEF HolderIs
<1>6. CASE agent[tx[a].on] = None
  <2>1. Holder = Promised!Team
    BY <1>3, <1>6, HolderOf DEF HolderIs
  <2>2. Promised!Take(tx[a].to)
    BY <1>2, <1>5, <2>1 DEF Promised!Take, Promised!ChangesHands
  <2>3. QED
    BY <1>1, <1>2, <2>2 DEF Keeps, Promised!Next
<1>7. CASE agent[tx[a].on] = tx[a].to
  <2>1. Holder = Promised!Person(tx[a].to)
    BY <1>3, <1>7, HolderOf DEF HolderIs
  <2>2. QED
    BY <1>2, <1>5, <2>1, Unmoved
<1>8. QED
  BY <1>1, <1>6, <1>7

LEMMA KeepHands ==
  ASSUME HandsInv, NEW a \in Actor, WriteKeep(a) PROVE TakersFit' /\ Keeps
<1>1. ControlTypeOK /\ OneIsInCharge /\ tx[a].on \in OpenHandoffs /\ tx[a] # NoTx
  BY NoTxHolds DEF HandsInv, TransactionsFit, ReadsHold, WriteKeep, Holds
<1>2. TakersFit' /\ Replying = {} /\ Replying' = {}
  BY <1>1, EndHands DEF WriteKeep
<1>3. status = "HANDED_OFF" /\ UNCHANGED OpenHandoffs
  BY <1>1, OneOpen DEF WriteKeep, OpenHandoffs, OpenStatus, ControlTypeOK
<1>4. UNCHANGED Holder
  BY <1>3 DEF Holder, Takers, WriteKeep
<1>5. QED
  BY <1>2, <1>4, Unmoved

LEMMA ResolveHands ==
  ASSUME HandsInv, NEW a \in Operator, WriteResolve(a) PROVE TakersFit' /\ Keeps
<1>1. /\ ControlTypeOK /\ OneIsInCharge /\ tx[a].on \in OpenHandoffs /\ tx[a] # NoTx
      /\ agent[tx[a].on] = User[a] /\ a \in Actor
  BY ActorNames, NoTxHolds
  DEF HandsInv, TransactionsFit, ReadsHold, WriteResolve, Holds, TakersFit
<1>2. TakersFit' /\ Replying = {} /\ Replying' = {}
  BY <1>1, EndHands DEF WriteResolve
<1>3. User[a] \in Agent /\ User[a] # None
  BY ControlAssumption
<1>4. Holder = Promised!Person(User[a])
  BY <1>1, <1>3, OneOpen, HolderOf DEF HolderIs
<1>5. Holder' \in {Promised!Hermes, Promised!Nobody}
  BY HolderThen DEF HolderIs, WriteResolve
<1>6. Promised!GiveUp(User[a])
  BY <1>2, <1>4, <1>5 DEF Promised!GiveUp, Promised!ChangesHands
<1>7. QED
  BY <1>2, <1>3, <1>6 DEF Keeps, Promised!Next

LEMMA StatusHands ==
  ASSUME HandsInv, NEW a \in Actor, WriteStatus(a) PROVE TakersFit' /\ Keeps
<1>1. /\ ControlTypeOK /\ OneIsInCharge /\ OpenHandoffs = {} /\ tx[a] # NoTx
  BY NoTxHolds DEF HandsInv, TransactionsFit, ReadsHold, WriteStatus, Holds
<1>2. TakersFit' /\ Replying = {} /\ Replying' = {}
  BY <1>1, EndHands DEF WriteStatus
<1>3. Holder \in {Promised!Hermes, Promised!Nobody}
  BY <1>1, HolderOf DEF HolderIs, OneIsInCharge, ControlTypeOK
<1>4. Holder' \in {Promised!Hermes, Promised!Nobody}
  BY HolderThen DEF HolderIs, WriteStatus
<1>5. CASE Holder = Holder'
  BY <1>2, <1>5, Unmoved
<1>6. CASE Holder = Promised!Hermes /\ Holder' = Promised!Nobody
  BY <1>2, <1>6 DEF Keeps, Promised!Next, Promised!Close, Promised!ChangesHands
<1>7. CASE Holder = Promised!Nobody /\ Holder' = Promised!Hermes
  BY <1>2, <1>7 DEF Keeps, Promised!Next, Promised!Resume, Promised!ChangesHands
<1>8. QED
  BY <1>3, <1>4, <1>5, <1>6, <1>7

LEMMA ReplyHands ==
  ASSUME HandsInv, NEW a \in Operator, ReadReply(a) PROVE TakersFit' /\ Keeps
<1>1. a \in Actor /\ OneIsInCharge /\ User[a] # None /\ status = "HANDED_OFF"
  BY ActorNames, ControlAssumption DEF HandsInv, TransactionsFit, ReadReply, MayReply
<1>2. PICK h \in OpenHandoffs : agent[h] = User[a]
  BY DEF ReadReply, MayReply, OpenHandoffs, OpenStatus
<1>3. Holder = Promised!Person(User[a])
  BY <1>1, <1>2, OneOpen, HolderOf DEF HolderIs
<1>4. TakersFit' /\ UNCHANGED Holder /\ Replying = {} /\ Replying' = {a}
  BY <1>1, BeginHands DEF ReadReply
<1>5. Promised!Reply(a)
  BY <1>3, <1>4 DEF Promised!Reply
<1>6. QED
  BY <1>4, <1>5 DEF Keeps, Promised!Next

LEMMA MetaHands ==
  ASSUME HandsInv, NEW a \in Actor, MetaAnswers(a) PROVE TakersFit' /\ Keeps
<1>1. /\ tx \in [Actor -> Transaction] /\ tx[a].op = "reply" /\ tx'[a].op = "answered"
      /\ \A b \in Actor : b # a => tx'[b] = tx[b]
  BY DEF HandsInv, TransactionsFit, ControlTypeOK, MetaAnswers, Transaction
<1>2. TakersFit'
  BY <1>1 DEF HandsInv, TakersFit, MetaAnswers
<1>3. \A b \in Operator : b \in Actor
  BY ActorNames
<1>4. UNCHANGED Replying
  BY <1>1, <1>3 DEF Replying
<1>5. QED
  BY <1>2, <1>4, HolderKept, Unmoved DEF MetaAnswers

LEMMA ResumeHands ==
  ASSUME HandsInv, Resumes PROVE TakersFit' /\ Keeps
<1>1. TakersFit'
  BY DEF HandsInv, TakersFit, Resumes
<1>2. UNCHANGED Replying
  BY DEF Replying, Resumes
<1>3. Replying = {}
  <2>1. \A a \in Operator : a \in Actor
    BY ActorNames
  <2>2. QED
    BY <2>1 DEF HandsInv, TransactionsFit, ReadsHold, Holds, MayReply, Replying, Resumes
<1>4. Holder = Promised!Nobody /\ Holder' = Promised!Hermes
  BY HolderOf, HolderThen DEF HolderIs, Resumes
<1>5. Promised!Resume
  BY <1>2, <1>3, <1>4 DEF Promised!Resume, Promised!ChangesHands
<1>6. QED
  BY <1>1, <1>5 DEF Keeps, Promised!Next

LEMMA ReadCreateHands ==
  ASSUME HandsInv, NEW a \in Actor, ReadCreate(a) PROVE TakersFit' /\ Keeps
<1>1. PICK h : Begin(a, "create", h, None)
  BY DEF ReadCreate
<1>2. QED
  BY <1>1, BeginHands, Unmoved DEF ReadCreate

LEMMA OperatorStepHands ==
  ASSUME HandsInv, NEW a \in Operator, OperatorStep(a) PROVE TakersFit' /\ Keeps
<1>1. a \in Actor
  BY ActorNames
<1>2. CASE ReadCreate(a) \/ WriteCreate(a)
  BY <1>1, <1>2, ReadCreateHands, CreateHands
<1>3. CASE \E h \in Handoff, u \in Agent : ReadAssign(a, h, u)
  <2>1. PICK h \in Handoff, u \in Agent : ReadAssign(a, h, u)
    BY <1>3
  <2>2. QED
    BY <1>1, <2>1, BeginHands, Unmoved DEF ReadAssign
<1>4. CASE \E h \in Handoff, op \in {"keep", "return", "resolveClosed"} : ReadResolve(a, h, op)
  <2>1. PICK h \in Handoff, op \in {"keep", "return", "resolveClosed"} : ReadResolve(a, h, op)
    BY <1>4
  <2>2. QED
    BY <1>1, <2>1, BeginHands, Unmoved DEF ReadResolve
<1>5. CASE WriteAssign(a) \/ WriteKeep(a) \/ WriteResolve(a) \/ WriteStatus(a)
  BY <1>1, <1>5, AssignHands, KeepHands, ResolveHands, StatusHands
<1>6. CASE ReadClose(a) \/ ReadReopen(a)
  BY <1>1, <1>6, BeginHands, Unmoved DEF ReadClose, ReadReopen
<1>7. CASE ReadReply(a) \/ MetaAnswers(a)
  BY <1>1, <1>7, ReplyHands, MetaHands
<1>8. CASE WriteReply(a) \/ Rollback(a)
  BY <1>1, <1>8, EndsUnderLock DEF WriteReply, Rollback
<1>9. QED
  BY <1>2, <1>3, <1>4, <1>5, <1>6, <1>7, <1>8 DEF OperatorStep

LEMMA ControlStepHands ==
  ASSUME TransactionsFit, TakersFit, ControlStep PROVE TakersFit' /\ Keeps
<1>0. HandsInv
  BY DEF HandsInv
<1>1. CASE \E a \in Operator : OperatorStep(a)
  BY <1>0, <1>1, OperatorStepHands
<1>2. ASSUME NEW a \in Automation, ReadCreate(a) \/ WriteCreate(a) \/ FilesUnderLock(a)
      PROVE  TakersFit' /\ Keeps
  <2>1. a \in Actor
    BY ActorNames
  <2>2. CASE ReadCreate(a) \/ WriteCreate(a)
    BY <1>0, <2>1, <2>2, ReadCreateHands, CreateHands
  <2>3. CASE FilesUnderLock(a) /\ Begin(a, "file", None, None)
    BY <1>0, <2>1, <2>3, BeginHands, Unmoved DEF FilesUnderLock
  <2>4. CASE FilesUnderLock(a) /\ End(a)
    BY <1>0, <2>1, <2>4, EndsUnderLock DEF FilesUnderLock
  <2>5. QED
    BY <1>2, <2>2, <2>3, <2>4 DEF FilesUnderLock
<1>3. CASE Resumes
  BY <1>0, <1>3, ResumeHands
<1>4. CASE UNCHANGED control
  <2>1. UNCHANGED Replying /\ TakersFit'
    BY <1>4 DEF control, Replying, TakersFit
  <2>2. QED
    BY <1>4, <2>1, HolderKept, Unmoved DEF control
<1>5. QED
  BY <1>1, <1>2, <1>3, <1>4 DEF ControlStep

\* A conversation starts with Hermes, and nobody has begun anything.
LEMMA ControlInitHands == ControlInit => TakersFit /\ Promised!Init
<1>1. SUFFICES ASSUME ControlInit PROVE TakersFit /\ Promised!Init
  OBVIOUS
<1>2. \A a \in Actor : tx[a] = NoTx
  BY <1>1 DEF ControlInit
<1>3. TakersFit
  BY <1>2, NoTxHolds DEF TakersFit
<1>4. Replying = {}
  BY <1>2, NoTxHolds, ActorNames DEF Replying
<1>5. Holder = Promised!Hermes
  BY <1>1, HolderOf DEF HolderIs, ControlInit
<1>6. QED
  BY <1>3, <1>4, <1>5 DEF Promised!Init
==================================================================================
