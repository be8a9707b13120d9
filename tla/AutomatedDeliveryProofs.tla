----------------------- MODULE AutomatedDeliveryProofs -----------------------
(* Machine-checked proofs about AutomatedDelivery, for any number of       *)
(* workers, messages, parts, crashes, retries and ticks: every variable    *)
(* keeps its type, LedgerInv is inductive, and what the ledger guarantees. *)
EXTENDS AutomatedDelivery, TLAPS

\* The values idle callers and absent rows carry.
LEMMA Defaults ==
  /\ SomeMessage \in Message
  /\ SomeRequest \in Request
  /\ SomeKey \in Key
  /\ Nothing \in [Key -> Status]
  /\ 0 \in 0..Lease /\ Lease \in 0..Lease /\ 0 \in 0..MaxPart
<1>1. SomeMessage \in Message
  BY NonEmptyAssumption DEF SomeMessage
<1>2. SomeRequest \in Request
  BY NonEmptyAssumption DEF SomeRequest
<1>3. SomeKey \in Key
  <2>1. PICK m \in Message, kd \in Kind : TRUE
    BY NonEmptyAssumption
  <2>2. [src |-> m, kind |-> kd, part |-> 0] \in Key
    BY MaxPartAssumption DEF Key
  <2>3. QED
    BY <2>2 DEF SomeKey
<1>4. Nothing \in [Key -> Status]
  BY DEF Nothing, Status
<1>5. QED
  BY <1>1, <1>2, <1>3, <1>4, LeaseAssumption, MaxPartAssumption

\* How the sets of statuses are nested.
LEMMA StatusNames == RowStatus \subseteq Status /\ TerminalStatus \subseteq RowStatus
BY DEF Status, RowStatus

-----------------------------------------------------------------------------
(* Type correctness.                                                       *)

\* The initial state is well typed.
LEMMA TypeInit == Init => TypeOK
<1> SUFFICES ASSUME Init PROVE TypeOK
  OBVIOUS
<1>1. TypeLedger
  BY Defaults DEF Init, InitLedger, TypeLedger, NoToken
<1>2. TypeMeta
  BY DEF Init, InitLedger, TypeMeta
<1>3. TypeCaller
  BY Defaults DEF Init, InitLedger, TypeCaller, PC, NoToken
<1>4. TypeCrm
  <2>1. inbox \in Seq(Message)
    BY DEF Init, InitCrm
  <2>2. 0 \in 0..MaxStamp
    BY BoundAssumption
  <2>3. QED
    BY <2>1, <2>2 DEF Init, InitCrm, TypeCrm, ConversationStatus
<1>5. PartInBatch
  <2>1. SomeRequest.last \in 0..MaxPart
    BY Defaults, RequestAssumption DEF RequestType
  <2>2. QED
    BY <2>1, MaxPartAssumption DEF Init, InitLedger, PartInBatch
<1>6. QED
  BY <1>1, <1>2, <1>3, <1>4, <1>5 DEF TypeOK

\* The last part of a request is a part index.
LEMMA LastIsPart == \A r \in Request : r.last \in 0..MaxPart
BY RequestAssumption DEF RequestType

\* The end of a call leaves its caller well typed.
LEMMA TypeLeave ==
  ASSUME TypeCaller, PartInBatch, NEW w \in Worker, Leave(w)
  PROVE  TypeCaller' /\ PartInBatch'
<1>1. TypeCaller'
  BY Defaults DEF Leave, Unlock, TypeCaller, PC, NoToken
<1>2. req[w].last \in Nat
  BY LastIsPart, MaxPartAssumption DEF TypeCaller
<1>3. PartInBatch'
  BY <1>2 DEF Leave, Unlock, TypeCaller, PartInBatch
<1>4. QED
  BY <1>1, <1>3

\* A conditional update leaves the ledger well typed.
LEMMA TypeSettle ==
  ASSUME TypeLedger, TypeCaller, NEW w \in Worker, NEW o \in RowStatus,
         Settle(w, o)
  PROVE  /\ status' \in [Key -> Status]
         /\ claimToken' \in [Key -> Nat]
         /\ leaseLeft' \in [Key -> 0..Lease]
<1>1. cur[w] \in Key /\ o \in Status
  BY StatusNames DEF TypeCaller
<1>2. CASE Owns(w)
  BY <1>1, <1>2, Defaults DEF Settle, TypeLedger, NoToken
<1>3. CASE ~Owns(w)
  BY <1>3 DEF Settle, TypeLedger
<1>4. QED
  BY <1>2, <1>3

\* Every step keeps the types: one case per action.
LEMMA TypeNext == TypeOK /\ [Next]_vars => TypeOK'
<1> SUFFICES ASSUME TypeOK, [Next]_vars PROVE TypeOK'
  OBVIOUS
<1>a. TypeLedger /\ TypeMeta /\ TypeCaller /\ TypeCrm /\ PartInBatch
  BY DEF TypeOK
<1>b. ASSUME UNCHANGED ledger PROVE TypeLedger'
  BY <1>a, <1>b DEF TypeLedger, ledger
<1>c. ASSUME UNCHANGED meta PROVE TypeMeta'
  BY <1>a, <1>c DEF TypeMeta, meta
<1>d. ASSUME UNCHANGED caller PROVE TypeCaller' /\ PartInBatch'
  BY <1>a, <1>d DEF TypeCaller, PartInBatch, caller
<1>f. ASSUME UNCHANGED <<part, req>>,
             \A w \in Worker : pc'[w] \in {"idle", "recovering"} =>
                                pc[w] \in {"idle", "recovering"}
      PROVE  PartInBatch'
  BY <1>a, <1>f DEF PartInBatch
<1>e. ASSUME UNCHANGED crm PROVE TypeCrm'
  BY <1>a, <1>e DEF TypeCrm, crm
<1>1. ASSUME NEW w \in Worker, Recover(w) PROVE TypeOK'
  <2>1. TypeCaller'
    BY <1>1, <1>a DEF Recover, TypeCaller, PC
  <2>2. PartInBatch'
    BY <1>1, <1>a, <1>f DEF Recover, TypeCaller
  <2>3. QED
    BY <1>1, <1>b, <1>c, <1>e, <2>1, <2>2 DEF Recover, TypeOK
<1>2. ASSUME NEW w \in Worker, PreparePart(w) PROVE TypeOK'
  <2>1. /\ src[w] \in Message /\ req[w] \in Request /\ part[w] \in 0..MaxPart
        /\ turnOf[src[w]] \in Message \union {NoTurn}
    BY <1>a DEF TypeCaller, TypeCrm
  <2>2. req[w].allow \in BOOLEAN /\ req[w].last \in 0..MaxPart
    BY <2>1, RequestAssumption DEF RequestType
  <2>3. TypeLedger'
    <3>1. status' \in [Key -> Status]
      BY <1>2, <1>a DEF PreparePart, LastPart, TypeLedger, Status, RowStatus
    <3>2. /\ allowHandedOff' \in [Key -> BOOLEAN]
          /\ rowTurn' \in [Key -> Message \union {NoTurn}]
      BY <1>2, <1>a, <2>1, <2>2 DEF PreparePart, LastPart, TypeLedger
    <3>3. QED
      BY <1>2, <1>a, <3>1, <3>2 DEF PreparePart, LastPart, TypeLedger
  <2>4. TypeCaller' /\ PartInBatch'
    <3>1. part[w] <= req[w].last
      BY <1>a DEF PartInBatch
    <3>2. CASE part[w] = req[w].last
      <4>1. /\ pc' = [pc EXCEPT ![w] = "locking"]
            /\ UNCHANGED <<src, req, part, snap, todo, cur, tok, lock>>
        BY <1>2, <3>2 DEF PreparePart, LastPart
      <4>2. TypeCaller'
        BY <4>1, <1>a DEF TypeCaller, PC
      <4>3. QED
        BY <4>1, <4>2, <1>a, <1>f DEF TypeCaller
    <3>3. CASE part[w] # req[w].last
      <4>1. /\ part' = [part EXCEPT ![w] = part[w] + 1]
            /\ UNCHANGED <<pc, src, req, snap, todo, cur, tok, lock>>
            /\ pc[w] = "preparing"
        BY <1>2, <3>3 DEF PreparePart, LastPart
      <4>2. part[w] + 1 \in 0..MaxPart /\ part[w] + 1 <= req[w].last
        BY <2>1, <2>2, <3>1, <3>3, MaxPartAssumption
      <4>3. TypeCaller'
        BY <4>1, <4>2, <1>a DEF TypeCaller
      <4>4. PartInBatch'
        BY <4>1, <4>2, <1>a DEF PartInBatch, TypeCaller
      <4>5. QED
        BY <4>3, <4>4
    <3>4. QED
      BY <3>2, <3>3
  <2>5. QED
    BY <1>2, <1>c, <1>e, <2>3, <2>4 DEF PreparePart, LastPart, TypeOK
<1>3. ASSUME NEW w \in Worker, LockBatch(w) PROVE TypeOK'
  <2>1. {k \in RowsOf(src[w]) : status[k] # "CONFIRMED"} \subseteq Key
    BY DEF RowsOf
  <2>2. TypeCaller'
    BY <1>3, <1>a, <2>1 DEF LockBatch, TypeCaller, TypeLedger, PC
  <2>3. PartInBatch'
    BY <1>3, <1>a, <1>f DEF LockBatch, TypeCaller
  <2>4. QED
    BY <1>3, <1>b, <1>c, <1>e, <2>2, <2>3 DEF LockBatch, TypeOK
<1>4. ASSUME NEW w \in Worker, BatchDone(w) \/ BatchBlocked(w) \/ ClaimRefused(w)
                               \/ Crash(w)
      PROVE TypeOK'
  BY <1>4, <1>a, <1>b, <1>c, <1>e, TypeLeave
  DEF BatchDone, BatchBlocked, ClaimRefused, Crash, TypeOK
<1>5. ASSUME NEW w \in Worker, Suppress(w) PROVE TypeOK'
  <2>1. status' \in [Key -> Status]
    BY <1>5, <1>a DEF Suppress, TypeLedger, Status, RowStatus, TerminalStatus
  <2>2. TypeLedger'
    BY <1>5, <1>a, <2>1 DEF Suppress, TypeLedger
  <2>3. QED
    BY <1>5, <1>a, <1>c, <1>e, <2>2, TypeLeave DEF Suppress, TypeOK
<1>6. ASSUME NEW w \in Worker, Claim(w) PROVE TypeOK'
  <2>1. PICK k \in First(todo[w]) :
          /\ status' = [status EXCEPT ![k] = "DISPATCHING"]
          /\ attempts' = [attempts EXCEPT ![k] = @ + 1]
          /\ claimToken' = [claimToken EXCEPT ![k] = attempts[k] + 1]
          /\ leaseLeft' = [leaseLeft EXCEPT ![k] = Lease]
          /\ cur' = [cur EXCEPT ![w] = k]
          /\ tok' = [tok EXCEPT ![w] = attempts[k] + 1]
    BY <1>6 DEF Claim
  <2>2. k \in Key
    BY <1>a, <2>1 DEF First, TypeCaller
  <2>3. attempts[k] + 1 \in Nat
    BY <1>a, <2>2 DEF TypeLedger
  <2>4. TypeLedger'
    <3>1. "DISPATCHING" \in Status
      BY DEF Status, RowStatus
    <3>2. QED
      BY <1>6, <1>a, <2>1, <2>2, <2>3, <3>1, Defaults DEF Claim, TypeLedger
  <2>5. TypeCaller'
    BY <1>6, <1>a, <2>1, <2>2, <2>3 DEF Claim, TypeCaller, PC
  <2>6. PartInBatch'
    BY <1>6, <1>a, <1>f DEF Claim, TypeCaller
  <2>7. QED
    BY <1>6, <1>c, <1>e, <2>4, <2>5, <2>6 DEF Claim, TypeOK
<1>7. ASSUME NEW w \in Worker, Dispatch(w) PROVE TypeOK'
  <2>1. <<cur[w], tok[w]>> \in Key \X Nat
    BY <1>a DEF TypeCaller
  <2>2. TypeMeta'
    BY <1>7, <1>a, <2>1 DEF Dispatch, TypeMeta
  <2>3. TypeCaller'
    BY <1>7, <1>a DEF Dispatch, TypeCaller, PC
  <2>4. PartInBatch'
    BY <1>7, <1>a, <1>f DEF Dispatch, TypeCaller
  <2>5. QED
    BY <1>7, <1>b, <1>e, <2>2, <2>3, <2>4 DEF Dispatch, TypeOK
<1>8. ASSUME NEW w \in Worker, Confirm(w) PROVE TypeOK'
  <2>1. "CONFIRMED" \in Status /\ NoToken \in Nat /\ 0 \in 0..Lease
    BY LeaseAssumption DEF Status, RowStatus, TerminalStatus, NoToken
  <2>2. TypeLedger'
    <3>1. outbound' \in SUBSET Key
      BY <1>8, <1>a DEF Confirm, TypeLedger, TypeCaller
    <3>2. QED
      BY <1>8, <1>a, <2>1, <3>1 DEF Confirm, TypeLedger
  <2>3. TypeCaller'
    BY <1>8, <1>a DEF Confirm, TypeCaller, PC
  <2>4. PartInBatch'
    BY <1>8, <1>a, <1>f DEF Confirm, TypeCaller
  <2>5. QED
    BY <1>8, <1>c, <1>e, <2>2, <2>3, <2>4 DEF Confirm, TypeOK
<1>20. ASSUME NEW w \in Worker, CheckClaim(w) PROVE TypeOK'
  <2>1. TypeCaller'
    BY <1>20, <1>a DEF CheckClaim, TypeCaller, PC
  <2>2. PartInBatch'
    BY <1>20, <1>a, <1>f DEF CheckClaim, TypeCaller
  <2>3. QED
    BY <1>20, <1>b, <1>c, <1>e, <2>1, <2>2 DEF CheckClaim, TypeOK
<1>9. ASSUME NEW w \in Worker, NEW o \in RowStatus, HandleFailure(w, o)
      PROVE  TypeOK'
  <2>1. TypeLedger'
    BY <1>9, <1>a, TypeSettle DEF HandleFailure, TypeLedger
  <2>2. QED
    BY <1>9, <1>a, <1>c, <1>e, <2>1, TypeLeave DEF HandleFailure, TypeOK
<1>10. ASSUME NEW w \in Worker,
              ConfirmFails(w) \/ NoAnswer(w) \/ Throttled(w) \/ Rejected(w)
       PROVE  TypeOK'
  BY <1>9, <1>10
  DEF ConfirmFails, NoAnswer, Throttled, Rejected, RowStatus, TerminalStatus
<1>11. ASSUME NEW w \in Worker, LockDrops(w) PROVE TypeOK'
  <2>1. TypeCaller'
    BY <1>11, <1>a DEF LockDrops, TypeCaller
  <2>2. PartInBatch'
    BY <1>11, <1>f DEF LockDrops
  <2>3. QED
    BY <1>11, <1>b, <1>c, <1>e, <2>1, <2>2 DEF LockDrops, TypeOK
<1>12. ASSUME NEW q \in wire, NEW o \in PC \ {"idle", "recovering"}, Answer(q, o),
              \/ accepted' = [accepted EXCEPT ![q[1]] = @ + 1]
              \/ UNCHANGED accepted
       PROVE  TypeOK'
  <2>1. TypeMeta'
    BY <1>12, <1>a DEF Answer, TypeMeta
  <2>2. TypeCaller'
    BY <1>12, <1>a DEF Answer, TypeCaller
  <2>3. PartInBatch'
    BY <1>12, <1>f DEF Answer
  <2>4. QED
    BY <1>12, <1>b, <1>e, <2>1, <2>2, <2>3 DEF Answer, TypeOK
<1>13. ASSUME NEW q \in wire, MetaAccepts(q) \/ MetaThrottles(q) \/ MetaRejects(q)
       PROVE  TypeOK'
  BY <1>12, <1>13 DEF MetaAccepts, MetaThrottles, MetaRejects, PC
<1>14. ASSUME Tick PROVE TypeOK'
  <2>1. ASSUME NEW k \in Key
        PROVE  (IF leaseLeft[k] > 0 THEN leaseLeft[k] - 1 ELSE 0) \in 0..Lease
    <3>1. leaseLeft[k] \in 0..Lease
      BY <1>a DEF TypeLedger
    <3>2. QED
      BY <3>1, LeaseAssumption
  <2>2. TypeLedger'
    BY <1>14, <1>a, <2>1 DEF Tick, TypeLedger
  <2>3. QED
    BY <1>14, <1>c, <1>d, <1>e, <2>2 DEF Tick, TypeOK
<1>15. ASSUME RecoverExpired PROVE TypeOK'
  <2>1. TypeLedger'
    BY <1>15, <1>a
    DEF RecoverExpired, TypeLedger, Status, RowStatus, TerminalStatus, NoToken
  <2>2. QED
    BY <1>15, <1>c, <1>d, <1>e, <2>1 DEF RecoverExpired, TypeOK
<1>16. ASSUME NEW w \in Worker, NEW m \in Message, NEW r \in Request, Begin(w, m, r)
       PROVE  TypeOK'
  <2>1. TypeCaller'
    BY <1>16, <1>a DEF Begin, TypeCaller, PC
  <2>2. PartInBatch'
    <3>1. r.last \in Nat /\ 0 <= r.last
      BY LastIsPart, MaxPartAssumption
    <3>2. QED
      BY <1>16, <1>a, <3>1 DEF Begin, TypeCaller, PartInBatch
  <2>3. QED
    BY <1>16, <1>b, <1>c, <1>e, <2>1, <2>2 DEF Begin, TypeOK
<1>17. ASSUME CrmStep PROVE TypeOK'
  <2>1. UNCHANGED <<ledger, meta, caller>>
    BY <1>17 DEF CrmStep, CustomerWrites, ScheduleTurn, OptOut, WindowCloses,
                 OpenHandoff, ResolveHandoff, UpdateStatus
  <2>2. TypeCrm'
    <3>1. ASSUME NEW m \in Message, NEW t \in 1..MaxStamp, CustomerWrites(m, t)
          PROVE TypeCrm'
      <4>1. t \in 0..MaxStamp
        BY BoundAssumption
      <4>2. QED
        BY <3>1, <4>1, <1>a DEF CustomerWrites, TypeCrm
    <3>2. ASSUME NEW m \in Message, NEW first \in Message, ScheduleTurn(m, first)
          PROVE TypeCrm'
      BY <3>2, <1>a DEF ScheduleTurn, TypeCrm
    <3>3. CASE OptOut \/ WindowCloses \/ OpenHandoff \/ ResolveHandoff
      BY <3>3, <1>a DEF OptOut, WindowCloses, OpenHandoff, ResolveHandoff,
                        TypeCrm, ConversationStatus
    <3>4. ASSUME NEW st \in ConversationStatus, UpdateStatus(st) PROVE TypeCrm'
      BY <3>4, <1>a DEF UpdateStatus, TypeCrm
    <3>5. QED
      BY <1>17, <3>1, <3>2, <3>3, <3>4 DEF CrmStep
  <2>3. QED
    BY <2>1, <2>2, <1>b, <1>c, <1>d DEF TypeOK
<1>18. CASE UNCHANGED vars
  BY <1>18, <1>b, <1>c, <1>d, <1>e DEF vars, TypeOK
<1>19. QED
  BY <1>1, <1>2, <1>3, <1>4, <1>5, <1>6, <1>7, <1>8, <1>10, <1>11, <1>13,
     <1>14, <1>15, <1>16, <1>17, <1>18, <1>20 DEF Next, LedgerStep, CallerStep

\* Type correctness: no caller, crash, answer or sweep ever leaves a value
\* outside its declared range.
THEOREM TypeCorrect == Spec => []TypeOK
<1>1. QED
  BY TypeInit, TypeNext, PTL DEF Spec

-----------------------------------------------------------------------------
(* LedgerInv is inductive.                                                 *)

\* What the steps below use of TypeOK.
Types ==
  /\ status \in [Key -> Status]
  /\ claimToken \in [Key -> Nat]
  /\ attempts \in [Key -> Nat]
  /\ allowHandedOff \in [Key -> BOOLEAN]
  /\ outbound \in SUBSET Key
  /\ wire \in SUBSET (Key \X Nat)
  /\ accepted \in [Key -> Nat]
  /\ pc \in [Worker -> PC]
  /\ src \in [Worker -> Message]
  /\ req \in [Worker -> Request]
  /\ part \in [Worker -> 0..MaxPart]
  /\ todo \in [Worker -> SUBSET Key]
  /\ cur \in [Worker -> Key]
  /\ tok \in [Worker -> Nat]
  /\ \A w \in Worker : pc[w] \in {"idle", "recovering"} => part[w] = 0

\* What the type invariant says of the variables the proofs below speak of.
LEMMA TypesHold == TypeOK => Types
BY DEF TypeOK, TypeLedger, TypeMeta, TypeCaller, PartInBatch, Types

\* What a key is made of.
LEMMA KeyParts ==
  \A k \in Key : k.part \in 0..MaxPart /\ k.kind \in Kind /\ k.src \in Message
BY DEF Key

-----------------------------------------------------------------------------
(* The rows and the wire as they are: what a caller does to itself.        *)

\* The invariant holds of an empty ledger.
LEMMA InvInit == Init => LedgerInv
<1> SUFFICES ASSUME Init PROVE LedgerInv
  OBVIOUS
<1> USE DEF Init, InitLedger, Nothing, NoToken
<1>1. AtMostOnce
  BY DEF AtMostOnce
<1>2. LedgerTellsTruth
  BY DEF LedgerTellsTruth
<1>3. CallerHoldsClaim /\ CallerKnowsMeta
  BY DEF CallerHoldsClaim, CallerKnowsMeta, InFlight
<1>4. WireIsCurrent /\ RowsConsistent
  BY DEF WireIsCurrent, RowsConsistent
<1>5. OrderInv
  BY DEF OrderInv
<1>6. QED
  BY <1>1, <1>2, <1>3, <1>4, <1>5 DEF LedgerInv

\* A caller with no part in flight may move on, rows and wire untouched.
LEMMA InvBystander ==
  ASSUME Types, LedgerInv,
         UNCHANGED <<status, claimToken, attempts, outbound, wire, accepted>>,
         NEW w \in Worker,
         pc[w] \notin InFlight,
         pc'[w] \notin InFlight,
         UNCHANGED <<cur, tok>>,
         \A v \in Worker : v # w => pc'[v] = pc[v],
         OrderInv'
  PROVE  LedgerInv'
<1>1. AtMostOnce' /\ LedgerTellsTruth' /\ WireIsCurrent' /\ RowsConsistent'
  BY DEF LedgerInv, AtMostOnce, LedgerTellsTruth, WireIsCurrent, RowsConsistent
<1>2. CallerHoldsClaim'
  BY DEF LedgerInv, CallerHoldsClaim
<1>3. CallerKnowsMeta'
  BY DEF LedgerInv, CallerKnowsMeta, InFlight
<1>4. QED
  BY <1>1, <1>2, <1>3 DEF LedgerInv

(* A caller leaves, and the rows stay as they are.                         *)
LEMMA InvLeave ==
  ASSUME Types, LedgerInv, NEW w \in Worker, Leave(w), UNCHANGED <<ledger, meta>>
  PROVE  LedgerInv'
<1>1. /\ UNCHANGED <<status, claimToken, attempts, outbound, wire, accepted>>
      /\ UNCHANGED <<src, req>>
      /\ pc' = [pc EXCEPT ![w] = "idle"]
      /\ todo' = [todo EXCEPT ![w] = {}]
      /\ part' = [part EXCEPT ![w] = 0]
      /\ cur' = [cur EXCEPT ![w] = SomeKey]
      /\ tok' = [tok EXCEPT ![w] = NoToken]
  BY DEF Leave, ledger, meta
<1>2. AtMostOnce' /\ LedgerTellsTruth' /\ WireIsCurrent' /\ RowsConsistent'
  BY <1>1 DEF LedgerInv, AtMostOnce, LedgerTellsTruth, WireIsCurrent, RowsConsistent
<1>3. \A v \in Worker : pc'[v] \in InFlight =>
        v # w /\ pc[v] = pc'[v] /\ cur'[v] = cur[v] /\ tok'[v] = tok[v]
  BY <1>1 DEF Types, InFlight
<1>4. CallerHoldsClaim'
  BY <1>1, <1>3 DEF LedgerInv, CallerHoldsClaim
<1>5. CallerKnowsMeta'
  BY <1>1, <1>3 DEF LedgerInv, CallerKnowsMeta
<1>6. OrderInv'
  BY <1>1 DEF LedgerInv, OrderInv, Types
<1>7. QED
  BY <1>2, <1>4, <1>5, <1>6 DEF LedgerInv

\* A caller that takes up a message holds no claim yet.
LEMMA InvBegin ==
  ASSUME Types, LedgerInv, NEW w \in Worker, NEW m \in Message,
         NEW r \in Request, Begin(w, m, r)
  PROVE  LedgerInv'
<1>1. /\ pc[w] = "idle"
      /\ pc' = [pc EXCEPT ![w] = IF r.recover THEN "recovering" ELSE "preparing"]
      /\ src' = [src EXCEPT ![w] = m]
      /\ req' = [req EXCEPT ![w] = r]
      /\ UNCHANGED <<status, claimToken, attempts, outbound, wire, accepted>>
      /\ UNCHANGED <<part, todo, cur, tok>>
  BY DEF Begin, ledger, meta
<1>2. part[w] = 0 /\ \A j \in Key : ~(j.part < 0)
  BY <1>1, KeyParts, MaxPartAssumption DEF Types
<1>3. OrderInv'
  BY <1>1, <1>2 DEF LedgerInv, OrderInv, Types
<1>4. QED
  BY <1>1, <1>3, InvBystander DEF Types, InFlight

\* A row is created after the rows of its earlier parts.
LEMMA InvPreparePart ==
  ASSUME Types, LedgerInv, NEW w \in Worker, PreparePart(w)
  PROVE  LedgerInv'
<1> DEFINE k == [src |-> src[w], kind |-> req[w].kind, part |-> part[w]]
<1>k. k \in Key
  BY RequestAssumption DEF Types, Key, RequestType
<1>1. /\ pc[w] = "preparing"
      /\ UNCHANGED <<claimToken, attempts, outbound, wire, accepted>>
      /\ UNCHANGED <<src, req, todo, cur, tok>>
      /\ \A v \in Worker : v # w => pc'[v] = pc[v] /\ part'[v] = part[v]
      /\ pc'[w] \in {"preparing", "locking"}
      /\ pc'[w] = "preparing" => part'[w] = part[w] + 1
  BY DEF PreparePart, LastPart, meta, Types
<1>2. /\ \A j \in Key : j # k => status'[j] = status[j]
      /\ status[k] = "ABSENT" => status'[k] = "PREPARED"
      /\ status[k] # "ABSENT" => status'[k] = status[k]
  BY <1>k DEF PreparePart, LastPart, Types
<1> HIDE DEF k
<1>3. AtMostOnce' /\ RowsConsistent'
  BY <1>1, <1>2 DEF LedgerInv, AtMostOnce, RowsConsistent
<1>4. LedgerTellsTruth'
  BY <1>1, <1>2 DEF LedgerInv, LedgerTellsTruth
<1>5. WireIsCurrent'
  BY <1>1, <1>2 DEF LedgerInv, WireIsCurrent, Types
<1>6. \A v \in Worker : pc'[v] \in InFlight => v # w /\ pc[v] = pc'[v]
  BY <1>1 DEF InFlight
<1>7. CallerHoldsClaim'
  BY <1>1, <1>2, <1>6 DEF LedgerInv, CallerHoldsClaim, Types
<1>8. CallerKnowsMeta'
  BY <1>1, <1>6 DEF LedgerInv, CallerKnowsMeta
<1>9. OrderInv'
  <2>1. \A i, j \in Key : Before(i, j) =>
          /\ status'[j] # "ABSENT" => status'[i] # "ABSENT"
          /\ attempts'[j] > 0 => status'[i] = "CONFIRMED"
    <3>1. \A i \in Key : Before(i, k) => status[i] # "ABSENT"
      BY <1>1 DEF LedgerInv, OrderInv, Before, k
    <3>2. QED
      BY <1>1, <1>2, <3>1 DEF LedgerInv, OrderInv
  <2>2. \A v \in Worker : pc'[v] = "preparing" =>
          \A j \in Key : /\ j.src = src'[v]
                         /\ j.kind = req'[v].kind
                         /\ j.part < part'[v]
                         => status'[j] # "ABSENT"
    <3>1. ASSUME NEW v \in Worker, pc'[v] = "preparing", v # w,
                 NEW j \in Key, j.src = src'[v], j.kind = req'[v].kind,
                 j.part < part'[v]
          PROVE  status'[j] # "ABSENT"
      BY <1>1, <1>2, <3>1 DEF LedgerInv, OrderInv
    <3>2. ASSUME pc'[w] = "preparing",
                 NEW j \in Key, j.src = src'[w], j.kind = req'[w].kind,
                 j.part < part'[w]
          PROVE  status'[j] # "ABSENT"
      <4>1. /\ j.part \in Nat /\ part[w] \in Nat
            /\ j.part < part[w] + 1
            /\ j.src = src[w] /\ j.kind = req[w].kind
        BY <1>1, <3>2, KeyParts DEF Types
      <4>2. CASE j.part < part[w]
        BY <1>1, <1>2, <4>1, <4>2 DEF LedgerInv, OrderInv
      <4>3. CASE j.part = part[w]
        <5>1. j = k
          BY <4>1, <4>3 DEF Key, k
        <5>2. QED
          BY <1>2, <1>k, <5>1
      <4>4. QED
        BY <4>1, <4>2, <4>3
    <3>3. QED
      BY <3>1, <3>2
  <2>3. \A v \in Worker : \A j \in todo'[v] :
          /\ status'[j] # "ABSENT"
          /\ \A i \in Key : Before(i, j) => i \in todo'[v] \/ status'[i] = "CONFIRMED"
    BY <1>1, <1>2 DEF LedgerInv, OrderInv, Types
  <2>4. QED
    BY <2>1, <2>2, <2>3 DEF OrderInv
<1>10. QED
  BY <1>3, <1>4, <1>5, <1>7, <1>8, <1>9 DEF LedgerInv

\* The snapshot of a batch leaves out confirmed rows only.
LEMMA InvLockBatch ==
  ASSUME Types, LedgerInv, NEW w \in Worker, LockBatch(w)
  PROVE  LedgerInv'
<1>1. /\ pc[w] = "locking"
      /\ pc' = [pc EXCEPT ![w] = "batch"]
      /\ todo' = [todo EXCEPT ![w] =
                    {k \in RowsOf(src[w]) : status[k] # "CONFIRMED"}]
      /\ UNCHANGED <<status, claimToken, attempts, outbound, wire, accepted>>
      /\ UNCHANGED <<src, req, part, cur, tok>>
  BY DEF LockBatch, ledger, meta
<1>2. \A k \in todo'[w] :
        /\ status[k] # "ABSENT"
        /\ \A j \in Key : Before(j, k) => j \in todo'[w] \/ status[j] = "CONFIRMED"
  BY <1>1 DEF RowsOf, LedgerInv, OrderInv, Before, Types
<1>3. OrderInv'
  BY <1>1, <1>2 DEF LedgerInv, OrderInv, Types
<1>4. QED
  BY <1>1, <1>3, InvBystander DEF Types, InFlight

\* A suppressed row was never requested of Meta.
LEMMA InvSuppress ==
  ASSUME Types, LedgerInv, NEW w \in Worker, Suppress(w)
  PROVE  LedgerInv'
<1>1. PICK k \in Key : status[k] = "PREPARED"
                      /\ status' = [status EXCEPT ![k] = "SUPPRESSED"]
  BY DEF Suppress, First, Types
<1>2. /\ UNCHANGED <<claimToken, attempts, outbound, wire, accepted, src, req>>
      /\ pc[w] = "batch"
      /\ pc' = [pc EXCEPT ![w] = "idle"]
      /\ todo' = [todo EXCEPT ![w] = {}]
      /\ cur' = [cur EXCEPT ![w] = SomeKey]
      /\ tok' = [tok EXCEPT ![w] = NoToken]
      /\ part' = [part EXCEPT ![w] = 0]
  BY DEF Suppress, Leave, meta
<1>3. /\ \A j \in Key : j # k => status'[j] = status[j]
      /\ status'[k] = "SUPPRESSED"
  BY <1>1 DEF Types
<1>4. /\ AtMostOnce' /\ RowsConsistent' /\ LedgerTellsTruth' /\ WireIsCurrent'
  BY <1>1, <1>2, <1>3
  DEF LedgerInv, AtMostOnce, RowsConsistent, LedgerTellsTruth, WireIsCurrent, Types
<1>5. \A v \in Worker : pc'[v] \in InFlight =>
        v # w /\ pc[v] = pc'[v] /\ cur'[v] = cur[v] /\ tok'[v] = tok[v]
  BY <1>2 DEF Types, InFlight
<1>6. CallerHoldsClaim'
  BY <1>1, <1>2, <1>3, <1>5 DEF LedgerInv, CallerHoldsClaim, Types
<1>7. CallerKnowsMeta'
  BY <1>2, <1>5 DEF LedgerInv, CallerKnowsMeta
<1>8. OrderInv'
  BY <1>1, <1>2, <1>3 DEF LedgerInv, OrderInv, Types
<1>9. QED
  BY <1>4, <1>6, <1>7, <1>8 DEF LedgerInv

\* A claim starts with every earlier part confirmed and no request of the row
\* in flight.
LEMMA InvClaim ==
  ASSUME Types, LedgerInv, NEW w \in Worker, Claim(w)
  PROVE  LedgerInv'
<1>1. PICK k \in First(todo[w]) :
        /\ status[k] = "PREPARED"
        /\ status' = [status EXCEPT ![k] = "DISPATCHING"]
        /\ attempts' = [attempts EXCEPT ![k] = attempts[k] + 1]
        /\ claimToken' = [claimToken EXCEPT ![k] = attempts[k] + 1]
        /\ cur' = [cur EXCEPT ![w] = k]
        /\ tok' = [tok EXCEPT ![w] = attempts[k] + 1]
  BY DEF Claim
<1>2. /\ pc[w] = "batch"
      /\ pc' = [pc EXCEPT ![w] = "claimed"]
      /\ UNCHANGED <<outbound, wire, accepted, src, req, part, todo>>
  BY DEF Claim, meta
<1>3. k \in Key /\ k \in todo[w] /\ \A j \in todo[w] : k.part <= j.part
  BY <1>1 DEF First, Types
<1>4. /\ accepted[k] = 0
      /\ \A q \in wire : q[1] # k
      /\ \A v \in Worker : pc[v] \in InFlight => cur[v] # k
  BY <1>1, <1>3 DEF LedgerInv, LedgerTellsTruth, CallerHoldsClaim
<1>5. \A j \in Key : Before(j, k) => status[j] = "CONFIRMED"
  <2>1. ASSUME NEW j \in Key, Before(j, k), j \in todo[w] PROVE FALSE
    BY <2>1, <1>3, KeyParts DEF Before
  <2>2. QED
    BY <2>1, <1>3 DEF LedgerInv, OrderInv
<1>6. AtMostOnce' /\ RowsConsistent'
  BY <1>1, <1>2, <1>3, <1>4 DEF LedgerInv, AtMostOnce, RowsConsistent, Types
<1>7. LedgerTellsTruth'
  BY <1>1, <1>2, <1>3, <1>4 DEF LedgerInv, LedgerTellsTruth, Types
<1>8. WireIsCurrent'
  BY <1>1, <1>2, <1>3, <1>4 DEF LedgerInv, WireIsCurrent, Types
<1>9. /\ pc'[w] = "claimed" /\ cur'[w] = k /\ tok'[w] = attempts'[k]
      /\ attempts'[k] > 0 /\ status'[k] = "DISPATCHING"
      /\ \A v \in Worker \ {w} : pc'[v] = pc[v] /\ cur'[v] = cur[v] /\ tok'[v] = tok[v]
  BY <1>1, <1>2, <1>3 DEF Types
<1>10. \A v \in Worker \ {w} : pc[v] \in InFlight =>
         status'[cur[v]] = status[cur[v]] /\ attempts'[cur[v]] = attempts[cur[v]]
  BY <1>1, <1>3, <1>4 DEF Types
<1>11. CallerHoldsClaim'
  BY <1>4, <1>9, <1>10 DEF LedgerInv, CallerHoldsClaim
<1>12. CallerKnowsMeta'
  BY <1>2, <1>4, <1>9 DEF LedgerInv, CallerKnowsMeta
<1>13. OrderInv'
  <2>1. \A j \in Key : j # k => status'[j] = status[j] /\ attempts'[j] = attempts[j]
    BY <1>1, <1>3 DEF Types
  <2>2. status'[k] = "DISPATCHING" /\ status[k] = "PREPARED"
    BY <1>1, <1>3 DEF Types
  <2>3. \A v \in Worker : pc'[v] = "preparing" => pc[v] = "preparing"
    BY <1>9
  <2>4. \A i, j \in Key : Before(i, j) =>
          /\ status'[j] # "ABSENT" => status'[i] # "ABSENT"
          /\ attempts'[j] > 0 => status'[i] = "CONFIRMED"
    BY <1>5, <2>1, <2>2 DEF LedgerInv, OrderInv
  <2>5. QED
    BY <1>2, <2>1, <2>2, <2>3, <2>4 DEF LedgerInv, OrderInv, Types
<1>14. QED
  BY <1>6, <1>7, <1>8, <1>11, <1>12, <1>13 DEF LedgerInv

\* The request on the wire is the one of the last claim.
LEMMA InvDispatch ==
  ASSUME Types, LedgerInv, NEW w \in Worker, Dispatch(w)
  PROVE  LedgerInv'
<1> DEFINE q == <<cur[w], tok[w]>>
<1>1. /\ pc[w] = "claimed"
      /\ pc' = [pc EXCEPT ![w] = "awaiting"]
      /\ wire' = wire \union {q}
      /\ UNCHANGED <<status, claimToken, attempts, outbound, accepted>>
      /\ UNCHANGED <<src, req, part, todo, cur, tok>>
  BY DEF Dispatch, ledger
<1>2. /\ tok[w] = attempts[cur[w]]
      /\ status[cur[w]] \in {"DISPATCHING", "AMBIGUOUS"}
      /\ accepted[cur[w]] = 0
      /\ \A v \in Worker : pc[v] \in InFlight /\ cur[v] = cur[w] => v = w
  BY <1>1 DEF LedgerInv, CallerHoldsClaim, CallerKnowsMeta, InFlight
<1>3. \A p \in wire' : p \in wire \/ (p[1] = cur[w] /\ p[2] = tok[w])
  <2>1. \A p \in wire' : p \in wire \/ p = q
    BY <1>1
  <2>2. q[1] = cur[w] /\ q[2] = tok[w]
    OBVIOUS
  <2>3. QED
    BY <2>1, <2>2
<1>4. AtMostOnce' /\ RowsConsistent'
  BY <1>1 DEF LedgerInv, AtMostOnce, RowsConsistent
<1>5. LedgerTellsTruth'
  BY <1>1, <1>2, <1>3 DEF LedgerInv, LedgerTellsTruth
<1>6. WireIsCurrent'
  BY <1>1, <1>2, <1>3 DEF LedgerInv, WireIsCurrent
<1>7. \A v \in Worker : pc'[v] \in InFlight <=> pc[v] \in InFlight
  BY <1>1 DEF Types, InFlight
<1>8. CallerHoldsClaim'
  BY <1>1, <1>7 DEF LedgerInv, CallerHoldsClaim
<1>9. CallerKnowsMeta'
  BY <1>1, <1>2, <1>3, <1>7 DEF LedgerInv, CallerKnowsMeta, Types
<1>10. OrderInv'
  BY <1>1 DEF LedgerInv, OrderInv, Types
<1>11. QED
  BY <1>4, <1>5, <1>6, <1>8, <1>9, <1>10 DEF LedgerInv

\* Between its check and its write confirm still is the only caller in flight.
LEMMA InvCheckClaim ==
  ASSUME Types, LedgerInv, NEW w \in Worker, CheckClaim(w)
  PROVE  LedgerInv'
<1>1. /\ pc[w] = "accepted" /\ pc' = [pc EXCEPT ![w] = "confirming"]
      /\ UNCHANGED <<status, claimToken, attempts, outbound, wire, accepted>>
      /\ UNCHANGED <<src, req, part, todo, cur, tok>>
  BY DEF CheckClaim, ledger, meta
<1>2. AtMostOnce' /\ LedgerTellsTruth' /\ WireIsCurrent' /\ RowsConsistent'
  BY <1>1 DEF LedgerInv, AtMostOnce, LedgerTellsTruth, WireIsCurrent, RowsConsistent
<1>3. CallerHoldsClaim' /\ CallerKnowsMeta'
  BY <1>1 DEF LedgerInv, CallerHoldsClaim, CallerKnowsMeta, InFlight, Types
<1>4. OrderInv'
  BY <1>1 DEF LedgerInv, OrderInv, Types
<1>5. QED
  BY <1>2, <1>3, <1>4 DEF LedgerInv

\* Meta has taken the part when its row is confirmed.
LEMMA InvConfirm ==
  ASSUME Types, LedgerInv, NEW w \in Worker, Confirm(w)
  PROVE  LedgerInv'
<1>1. /\ pc[w] = "confirming"
      /\ pc' = [pc EXCEPT ![w] = "batch"]
      /\ status' = [status EXCEPT ![cur[w]] = "CONFIRMED"]
      /\ claimToken' = [claimToken EXCEPT ![cur[w]] = NoToken]
      /\ outbound' = outbound \union {cur[w]}
      /\ todo' = [todo EXCEPT ![w] = todo[w] \ {cur[w]}]
      /\ UNCHANGED <<attempts, wire, accepted, src, req, part, cur, tok>>
  BY DEF Confirm, meta
<1>2. /\ accepted[cur[w]] = 1
      /\ attempts[cur[w]] > 0
      /\ \A q \in wire : q[1] # cur[w]
      /\ \A v \in Worker : pc[v] \in InFlight /\ cur[v] = cur[w] => v = w
  BY <1>1 DEF LedgerInv, CallerHoldsClaim, CallerKnowsMeta, InFlight
<1>3. /\ cur[w] \in Key
      /\ \A k \in Key : k # cur[w] =>
           status'[k] = status[k] /\ claimToken'[k] = claimToken[k]
      /\ status'[cur[w]] = "CONFIRMED" /\ claimToken'[cur[w]] = NoToken
      /\ status[cur[w]] # "ABSENT"
  BY <1>1 DEF Types, LedgerInv, CallerHoldsClaim, InFlight
<1>4. AtMostOnce' /\ RowsConsistent'
  BY <1>1, <1>2, <1>3 DEF LedgerInv, AtMostOnce, RowsConsistent
<1>5. LedgerTellsTruth'
  BY <1>1, <1>2, <1>3 DEF LedgerInv, LedgerTellsTruth
<1>6. WireIsCurrent'
  BY <1>1, <1>2, <1>3 DEF LedgerInv, WireIsCurrent, Types
<1>7. \A v \in Worker : pc'[v] \in InFlight => v # w /\ pc[v] = pc'[v]
  BY <1>1 DEF Types, InFlight
<1>8. CallerHoldsClaim'
  BY <1>1, <1>2, <1>3, <1>7 DEF LedgerInv, CallerHoldsClaim, Types
<1>9. CallerKnowsMeta'
  BY <1>1, <1>7 DEF LedgerInv, CallerKnowsMeta
<1>10. OrderInv'
  <2>1. \A k \in Key : status'[k] = "ABSENT" <=> status[k] = "ABSENT"
    BY <1>3
  <2>2. \A k \in Key : status[k] = "CONFIRMED" => status'[k] = "CONFIRMED"
    BY <1>3
  <2>3. \A v \in Worker : pc'[v] = "preparing" => pc[v] = "preparing"
    BY <1>1 DEF Types
  <2>4. \A v \in Worker : \A j \in todo[v] : j \in todo'[v] \/ j = cur[w]
    BY <1>1 DEF Types
  <2>5. \A v \in Worker : todo'[v] \subseteq todo[v]
    BY <1>1 DEF Types
  <2>6. \A i, j \in Key : Before(i, j) =>
          /\ status'[j] # "ABSENT" => status'[i] # "ABSENT"
          /\ attempts'[j] > 0 => status'[i] = "CONFIRMED"
    BY <1>1, <2>1, <2>2 DEF LedgerInv, OrderInv
  <2>7. \A v \in Worker : pc'[v] = "preparing" =>
          \A j \in Key : /\ j.src = src'[v]
                         /\ j.kind = req'[v].kind
                         /\ j.part < part'[v]
                         => status'[j] # "ABSENT"
    BY <1>1, <2>1, <2>3 DEF LedgerInv, OrderInv
  <2>8. ASSUME NEW v \in Worker, NEW k \in todo'[v]
        PROVE  /\ status'[k] # "ABSENT"
               /\ \A j \in Key : Before(j, k) =>
                    j \in todo'[v] \/ status'[j] = "CONFIRMED"
    <3>1. k \in todo[v] /\ k \in Key
      BY <2>5, <2>8 DEF Types
    <3>2. /\ status[k] # "ABSENT"
          /\ \A j \in Key : Before(j, k) =>
               j \in todo[v] \/ status[j] = "CONFIRMED"
      BY <3>1 DEF LedgerInv, OrderInv
    <3>3. QED
      BY <1>3, <2>1, <2>2, <2>4, <3>1, <3>2
  <2>9. QED
    BY <2>6, <2>7, <2>8 DEF OrderInv
<1>11. QED
  BY <1>4, <1>5, <1>6, <1>8, <1>9, <1>10 DEF LedgerInv

\* A caller gives its part up, after an answer that tells it was not taken or
\* without knowing.
LEMMA InvHandleFailure ==
  ASSUME Types, LedgerInv, NEW w \in Worker, pc[w] \in InFlight,
         NEW o \in RowStatus, HandleFailure(w, o),
         \/ o = "AMBIGUOUS"
         \/ o \in {"PREPARED", "REJECTED"} /\ pc[w] \in {"throttled", "rejected"}
  PROVE  LedgerInv'
<1>1. CASE ~Owns(w)
  <2>1. UNCHANGED <<ledger, meta>> /\ Leave(w)
    BY <1>1 DEF HandleFailure, Settle, ledger
  <2>2. QED
    BY <2>1, InvLeave
<1>2. CASE Owns(w)
  <2>1. /\ status' = [status EXCEPT ![cur[w]] = o]
        /\ claimToken' = [claimToken EXCEPT ![cur[w]] = NoToken]
        /\ UNCHANGED <<attempts, outbound, wire, accepted, src, req>>
        /\ pc' = [pc EXCEPT ![w] = "idle"]
        /\ todo' = [todo EXCEPT ![w] = {}]
        /\ cur' = [cur EXCEPT ![w] = SomeKey]
        /\ tok' = [tok EXCEPT ![w] = NoToken]
        /\ part' = [part EXCEPT ![w] = 0]
    BY <1>2 DEF HandleFailure, Settle, Leave, meta
  <2>2. /\ cur[w] \in Key
        /\ status[cur[w]] = "DISPATCHING"
        /\ status'[cur[w]] = o /\ claimToken'[cur[w]] = NoToken
        /\ \A k \in Key : k # cur[w] =>
             status'[k] = status[k] /\ claimToken'[k] = claimToken[k]
    BY <1>2, <2>1 DEF Types, Owns
  <2>3. /\ \A v \in Worker : pc[v] \in InFlight /\ cur[v] = cur[w] => v = w
        /\ o # "AMBIGUOUS" =>
             accepted[cur[w]] = 0 /\ \A q \in wire : q[1] # cur[w]
    BY DEF LedgerInv, CallerHoldsClaim, CallerKnowsMeta
  <2>4. o \in {"PREPARED", "REJECTED", "AMBIGUOUS"}
    OBVIOUS
  <2>5. AtMostOnce' /\ RowsConsistent'
    BY <2>1, <2>2, <2>4 DEF LedgerInv, AtMostOnce, RowsConsistent
  <2>6. LedgerTellsTruth'
    BY <2>1, <2>2, <2>3, <2>4 DEF LedgerInv, LedgerTellsTruth
  <2>7. WireIsCurrent'
    BY <2>1, <2>2, <2>3, <2>4 DEF LedgerInv, WireIsCurrent, Types
  <2>8. \A v \in Worker : pc'[v] \in InFlight =>
          v # w /\ pc[v] = pc'[v] /\ cur'[v] = cur[v] /\ tok'[v] = tok[v]
    BY <2>1 DEF Types, InFlight
  <2>9. CallerHoldsClaim'
    BY <2>1, <2>2, <2>3, <2>8 DEF LedgerInv, CallerHoldsClaim, Types
  <2>10. CallerKnowsMeta'
    BY <2>1, <2>8 DEF LedgerInv, CallerKnowsMeta
  <2>11. OrderInv'
    <3>1. \A k \in Key : status'[k] = "ABSENT" <=> status[k] = "ABSENT"
      BY <2>2, <2>4
    <3>2. \A k \in Key : status[k] = "CONFIRMED" => status'[k] = "CONFIRMED"
      BY <2>2
    <3>3. \A v \in Worker : pc'[v] = "preparing" => pc[v] = "preparing" /\ v # w
      BY <2>1 DEF Types
    <3>4. \A v \in Worker : todo'[v] = todo[v] \/ todo'[v] = {}
      BY <2>1 DEF Types
    <3>5. QED
      BY <2>1, <3>1, <3>2, <3>3, <3>4 DEF LedgerInv, OrderInv, Types
  <2>12. QED
    BY <2>5, <2>6, <2>7, <2>9, <2>10, <2>11 DEF LedgerInv
<1>3. QED
  BY <1>1, <1>2

\* An answer tells its caller what Meta did, and ends the request.
LEMMA InvAnswer ==
  ASSUME Types, LedgerInv, NEW q \in wire, NEW o \in {"accepted", "throttled", "rejected"},
         Answer(q, o),
         accepted' = IF o = "accepted"
                       THEN [accepted EXCEPT ![q[1]] = accepted[q[1]] + 1]
                       ELSE accepted
  PROVE  LedgerInv'
<1>1. /\ wire' = wire \ {q}
      /\ pc' = [w \in Worker |->
                  IF pc[w] = "awaiting" /\ <<cur[w], tok[w]>> = q THEN o ELSE pc[w]]
      /\ UNCHANGED <<status, claimToken, attempts, outbound>>
      /\ UNCHANGED <<src, req, part, todo, cur, tok>>
  BY DEF Answer, ledger
<1>2. PICK k \in Key, n \in Nat : q = <<k, n>>
  BY DEF Types
<1>3. /\ n = attempts[k]
      /\ status[k] \in {"DISPATCHING", "AMBIGUOUS"}
      /\ accepted[k] = 0
  BY <1>2 DEF LedgerInv, WireIsCurrent
<1>4. \A p \in wire' : p \in wire /\ p[1] # k
  <2>1. ASSUME NEW p \in wire, p[1] = k PROVE p = q
    <3>1. PICK j \in Key, i \in Nat : p = <<j, i>>
      BY DEF Types
    <3>2. i = attempts[j] /\ j = k
      BY <2>1, <3>1 DEF LedgerInv, WireIsCurrent
    <3>3. QED
      BY <1>2, <1>3, <3>1, <3>2
  <2>2. QED
    BY <1>1, <2>1
<1>5. \A w \in Worker : pc[w] \in InFlight /\ cur[w] = k =>
        pc[w] = "awaiting" /\ <<cur[w], tok[w]>> = q
  <2>1. ASSUME NEW w \in Worker, pc[w] \in InFlight, cur[w] = k
        PROVE  pc[w] = "awaiting" /\ tok[w] = attempts[k]
    BY <1>2, <2>1 DEF LedgerInv, CallerHoldsClaim, CallerKnowsMeta
  <2>2. QED
    BY <2>1, <1>2, <1>3
<1>6. \A w \in Worker :
        /\ pc'[w] \in InFlight <=> pc[w] \in InFlight
        /\ pc[w] \in InFlight /\ cur[w] = k => pc'[w] = o
        /\ cur[w] # k => pc'[w] = pc[w]
        /\ pc'[w] = "preparing" => pc[w] = "preparing"
  BY <1>1, <1>2, <1>5 DEF InFlight
<1>7. /\ accepted' \in [Key -> Nat]
      /\ \A j \in Key : j # k => accepted'[j] = accepted[j]
      /\ accepted'[k] = IF o = "accepted" THEN 1 ELSE 0
  BY <1>2, <1>3 DEF Types
<1> HIDE DEF Answer
<1>8. AtMostOnce'
  BY <1>7 DEF LedgerInv, AtMostOnce
<1>9. RowsConsistent'
  <2>1. attempts[k] > 0
    BY <1>3 DEF LedgerInv, RowsConsistent
  <2>2. QED
    BY <1>1, <1>3, <1>7, <2>1 DEF LedgerInv, RowsConsistent
<1>10. LedgerTellsTruth'
  <2>1. \A j \in Key : j # k => accepted'[j] = accepted[j]
    BY <1>7
  <2>2. QED
    BY <1>1, <1>3, <1>4, <2>1 DEF LedgerInv, LedgerTellsTruth
<1>11. WireIsCurrent'
  BY <1>1, <1>4, <1>7 DEF LedgerInv, WireIsCurrent, Types
<1>12. CallerHoldsClaim'
  BY <1>1, <1>6 DEF LedgerInv, CallerHoldsClaim
<1>13. CallerKnowsMeta'
  <2>1. ASSUME NEW w \in Worker, pc'[w] \in InFlight, cur[w] = k
        PROVE  /\ accepted'[k] = IF pc'[w] \in {"accepted", "confirming"} THEN 1 ELSE 0
               /\ \A p \in wire' : p[1] # k
    BY <2>1, <1>4, <1>6, <1>7
  <2>2. ASSUME NEW w \in Worker, pc'[w] \in InFlight, cur[w] # k
        PROVE  /\ accepted'[cur[w]] = IF pc'[w] \in {"accepted", "confirming"} THEN 1 ELSE 0
               /\ pc'[w] # "awaiting" => \A p \in wire' : p[1] # cur[w]
    BY <2>2, <1>1, <1>6, <1>7 DEF LedgerInv, CallerKnowsMeta, Types
  <2>3. QED
    BY <1>1, <2>1, <2>2 DEF CallerKnowsMeta
<1>14. OrderInv'
  BY <1>1, <1>6 DEF LedgerInv, OrderInv
<1>15. QED
  BY <1>8, <1>9, <1>10, <1>11, <1>12, <1>13, <1>14 DEF LedgerInv

\* The sweep turns claims into AMBIGUOUS, whatever Meta did with them.
LEMMA InvRecoverExpired ==
  ASSUME Types, LedgerInv, RecoverExpired
  PROVE  LedgerInv'
<1>1. /\ status' = [k \in Key |-> IF k \in Expired THEN "AMBIGUOUS" ELSE status[k]]
      /\ claimToken' = [k \in Key |-> IF k \in Expired THEN NoToken ELSE claimToken[k]]
      /\ UNCHANGED <<attempts, outbound, wire, accepted>>
      /\ UNCHANGED <<pc, src, req, part, todo, cur, tok>>
  BY DEF RecoverExpired, meta, caller
<1>2. \A k \in Key :
        \/ status'[k] = status[k] /\ claimToken'[k] = claimToken[k]
        \/ status[k] = "DISPATCHING" /\ status'[k] = "AMBIGUOUS" /\ claimToken'[k] = NoToken
  BY <1>1 DEF Expired
<1>3. AtMostOnce' /\ RowsConsistent'
  BY <1>1, <1>2 DEF LedgerInv, AtMostOnce, RowsConsistent
<1>4. LedgerTellsTruth'
  BY <1>1, <1>2 DEF LedgerInv, LedgerTellsTruth
<1>5. WireIsCurrent'
  BY <1>1, <1>2 DEF LedgerInv, WireIsCurrent, Types
<1>6. CallerHoldsClaim'
  BY <1>1, <1>2 DEF LedgerInv, CallerHoldsClaim, Types
<1>7. CallerKnowsMeta'
  BY <1>1 DEF LedgerInv, CallerKnowsMeta
<1>8. OrderInv'
  <2>1. \A k \in Key : /\ status'[k] = "ABSENT" <=> status[k] = "ABSENT"
                       /\ status[k] = "CONFIRMED" => status'[k] = "CONFIRMED"
    BY <1>2
  <2>2. QED
    BY <1>1, <2>1 DEF LedgerInv, OrderInv, Types
<1>9. QED
  BY <1>3, <1>4, <1>5, <1>6, <1>7, <1>8 DEF LedgerInv

\* Nothing the invariant speaks of changes.
LEMMA InvFrame ==
  ASSUME LedgerInv,
         UNCHANGED <<status, claimToken, attempts, outbound, wire, accepted>>,
         UNCHANGED <<pc, src, req, part, todo, cur, tok>>
  PROVE  LedgerInv'
<1>1. AtMostOnce' /\ RowsConsistent' /\ LedgerTellsTruth' /\ WireIsCurrent'
  BY DEF LedgerInv, AtMostOnce, RowsConsistent, LedgerTellsTruth, WireIsCurrent
<1>2. CallerHoldsClaim' /\ CallerKnowsMeta'
  BY DEF LedgerInv, CallerHoldsClaim, CallerKnowsMeta
<1>3. OrderInv'
  BY DEF LedgerInv, OrderInv
<1>4. QED
  BY <1>1, <1>2, <1>3 DEF LedgerInv

\* Every step keeps the invariant: one case per action.
LEMMA InvNext == TypeOK /\ LedgerInv /\ [Next]_vars => LedgerInv'
<1> SUFFICES ASSUME TypeOK, LedgerInv, [Next]_vars PROVE LedgerInv'
  OBVIOUS
<1>a. Types
  BY TypesHold
<1>1. ASSUME NEW w \in Worker, Recover(w) PROVE LedgerInv'
  <2>1. /\ pc[w] = "recovering"
        /\ pc'[w] \in {"preparing", "locking"}
        /\ UNCHANGED <<status, claimToken, attempts, outbound, wire, accepted>>
        /\ UNCHANGED <<src, req, part, todo, cur, tok>>
        /\ \A v \in Worker : v # w => pc'[v] = pc[v]
    BY <1>1, <1>a DEF Recover, ledger, meta, Types
  <2>2. OrderInv'
    <3>1. part[w] = 0 /\ \A j \in Key : ~(j.part < 0)
      BY <2>1, <1>a, KeyParts, MaxPartAssumption DEF Types
    <3>2. QED
      BY <2>1, <3>1, <1>a DEF LedgerInv, OrderInv, Types
  <2>3. QED
    BY <2>1, <2>2, <1>a, InvBystander DEF InFlight
<1>2. ASSUME NEW w \in Worker,
             BatchDone(w) \/ BatchBlocked(w) \/ ClaimRefused(w) \/ Crash(w)
      PROVE  LedgerInv'
  BY <1>2, <1>a, InvLeave DEF BatchDone, BatchBlocked, ClaimRefused, Crash
<1>3. ASSUME NEW w \in Worker,
             ConfirmFails(w) \/ NoAnswer(w) \/ Throttled(w) \/ Rejected(w)
      PROVE  LedgerInv'
  BY <1>3, <1>a, InvHandleFailure
  DEF ConfirmFails, NoAnswer, Throttled, Rejected, RowStatus, TerminalStatus, InFlight
<1>4. ASSUME NEW w \in Worker, LockDrops(w) PROVE LedgerInv'
  BY <1>4, InvFrame DEF LockDrops, ledger, meta
<1>5. ASSUME NEW q \in wire, MetaAccepts(q) \/ MetaThrottles(q) \/ MetaRejects(q)
      PROVE  LedgerInv'
  BY <1>5, <1>a, InvAnswer DEF MetaAccepts, MetaThrottles, MetaRejects
<1>6. ASSUME Tick PROVE LedgerInv'
  BY <1>6, InvFrame DEF Tick, meta, caller
<1>7. ASSUME CrmStep PROVE LedgerInv'
  BY <1>7, InvFrame
  DEF CrmStep, CustomerWrites, ScheduleTurn, OptOut, WindowCloses, OpenHandoff,
      ResolveHandoff, UpdateStatus, ledger, meta, caller
<1>8. CASE UNCHANGED vars
  BY <1>8, InvFrame DEF vars, ledger, meta, caller
<1>9. QED
  BY <1>a, <1>1, <1>2, <1>3, <1>4, <1>5, <1>6, <1>7, <1>8, InvBegin,
     InvPreparePart, InvLockBatch, InvSuppress, InvClaim, InvDispatch,
     InvCheckClaim, InvConfirm, InvRecoverExpired
  DEF Next, LedgerStep, CallerStep

(***************************************************************************)
(* The ledger's inductive invariant: whoever is in flight with a part      *)
(* holds the last claim of its row, every request on the wire belongs to   *)
(* that claim, the recorded statuses are true of Meta, and parts are       *)
(* created and claimed in order, through crashes, throttling, lost answers *)
(* and expired leases of any number of callers.                            *)
(***************************************************************************)
THEOREM LedgerCorrect == Spec => []LedgerInv
<1>1. QED
  BY InvInit, InvNext, TypeCorrect, PTL DEF Spec

-----------------------------------------------------------------------------
(* What the ledger guarantees.                                             *)

(***************************************************************************)
(* No part of a reply reaches the customer twice                           *)
(* (automated-delivery.service.ts, claim and handleDispatchFailure).       *)
(***************************************************************************)
THEOREM DeliveredAtMostOnce == Spec => []AtMostOnce
<1>1. LedgerInv => AtMostOnce
  BY DEF LedgerInv
<1>2. QED
  BY <1>1, LedgerCorrect, PTL

(***************************************************************************)
(* A part said to be confirmed was taken by Meta and is in the history; a  *)
(* part said not to be sent was not taken and cannot be taken any more.    *)
(***************************************************************************)
THEOREM LedgerIsTruthful == Spec => []LedgerTellsTruth
<1>1. LedgerInv => LedgerTellsTruth
  BY DEF LedgerInv
<1>2. QED
  BY <1>1, LedgerCorrect, PTL

(***************************************************************************)
(* A part is taken only when all earlier parts of its reply are confirmed  *)
(* (deliverLockedBatch and the claim it runs for each part in turn).       *)
(***************************************************************************)
THEOREM DeliveredInOrder == Spec => []PartsInOrder
<1>1. TypeOK /\ LedgerInv => PartsInOrder
  <2> SUFFICES ASSUME Types, LedgerInv, NEW j \in Key, NEW k \in Key,
                      Before(j, k), accepted[k] > 0
               PROVE  status[j] = "CONFIRMED"
    BY TypesHold DEF PartsInOrder
  <2>1. status[k] \in {"DISPATCHING", "CONFIRMED", "AMBIGUOUS"}
    BY DEF LedgerInv, LedgerTellsTruth, Types, Status, RowStatus, TerminalStatus
  <2>2. attempts[k] > 0
    BY <2>1 DEF LedgerInv, RowsConsistent
  <2>3. QED
    BY <2>2 DEF LedgerInv, OrderInv
<1>2. QED
  BY <1>1, LedgerCorrect, TypeCorrect, PTL

(***************************************************************************)
(* A settled part stays as it was settled: every update of the service but *)
(* confirm's is conditional on the status it leaves, and confirm's finds   *)
(* its row claimed or given up as ambiguous.                               *)
(***************************************************************************)
THEOREM SettledForGood == Spec => SettledIsFinal
<1>1. Types /\ LedgerInv /\ [Next]_vars
        => [\A k \in Key :
              /\ status[k] \in TerminalStatus \ {"AMBIGUOUS"} => status'[k] = status[k]
              /\ status[k] = "AMBIGUOUS" => status'[k] \in {"AMBIGUOUS", "CONFIRMED"}]_vars
  <2> SUFFICES ASSUME Types, LedgerInv, Next, NEW k \in Key, status[k] \in TerminalStatus
               PROVE  \/ status'[k] = status[k]
                      \/ status[k] = "AMBIGUOUS" /\ status'[k] = "CONFIRMED"
    BY DEF TerminalStatus
  <2>0. ASSUME UNCHANGED status PROVE status'[k] = status[k]
    BY <2>0
  <2>1. ASSUME NEW w \in Worker, NEW o \in Status, Settle(w, o)
        PROVE  status'[k] = status[k]
    BY <2>1 DEF Settle, Owns, Types, TerminalStatus
  <2>2. ASSUME NEW w \in Worker, PreparePart(w) PROVE status'[k] = status[k]
    BY <2>2 DEF PreparePart, LastPart, Types, TerminalStatus
  <2>3. ASSUME NEW w \in Worker, Suppress(w) \/ Claim(w) PROVE status'[k] = status[k]
    <3>1. PICK j \in Key, s \in Status :
            status[j] = "PREPARED" /\ status' = [status EXCEPT ![j] = s]
      BY <2>3 DEF Suppress, Claim, First, Types, Status, RowStatus, TerminalStatus
    <3>2. QED
      BY <3>1 DEF Types, TerminalStatus
  <2>10. ASSUME NEW w \in Worker, Confirm(w)
         PROVE  \/ status'[k] = status[k]
                \/ status[k] = "AMBIGUOUS" /\ status'[k] = "CONFIRMED"
    <3>1. status[cur[w]] \in {"DISPATCHING", "AMBIGUOUS"}
      BY <2>10 DEF Confirm, LedgerInv, CallerHoldsClaim, InFlight
    <3>2. QED
      BY <2>10, <3>1 DEF Confirm, Types, TerminalStatus
  <2>4. ASSUME NEW w \in Worker,
               ConfirmFails(w) \/ NoAnswer(w) \/ Throttled(w) \/ Rejected(w)
        PROVE  status'[k] = status[k]
    BY <2>4, <2>1, StatusNames
    DEF ConfirmFails, NoAnswer, Throttled, Rejected, HandleFailure,
        Status, RowStatus, TerminalStatus
  <2>5. CASE RecoverExpired
    BY <2>5 DEF RecoverExpired, Expired, TerminalStatus
  <2>6. ASSUME NEW w \in Worker,
               \/ Recover(w) \/ LockBatch(w) \/ BatchDone(w) \/ BatchBlocked(w)
               \/ ClaimRefused(w) \/ Dispatch(w) \/ CheckClaim(w) \/ Crash(w)
               \/ LockDrops(w)
        PROVE  UNCHANGED status
    BY <2>6 DEF Recover, LockBatch, BatchDone, BatchBlocked, ClaimRefused, Dispatch,
                CheckClaim, Crash, LockDrops, ledger
  <2>7. ASSUME \/ \E q \in wire : MetaAccepts(q) \/ MetaThrottles(q) \/ MetaRejects(q)
               \/ Tick
               \/ \E w \in Worker, m \in Message, r \in Request : Begin(w, m, r)
        PROVE  UNCHANGED status
    BY <2>7 DEF MetaAccepts, MetaThrottles, MetaRejects, Answer, Tick, Begin, ledger
  <2>8. ASSUME CrmStep PROVE UNCHANGED status
    BY <2>8 DEF CrmStep, CustomerWrites, ScheduleTurn, OptOut, WindowCloses,
                OpenHandoff, ResolveHandoff, UpdateStatus, ledger
  <2>9. QED
    BY <2>0, <2>2, <2>3, <2>4, <2>5, <2>6, <2>7, <2>8, <2>10
    DEF Next, LedgerStep, CallerStep
<1>2. QED
  BY <1>1, TypesHold, LedgerCorrect, TypeCorrect, PTL DEF Spec, SettledIsFinal

-----------------------------------------------------------------------------
(* The lock.                                                               *)

\* Whoever is between two sends of a batch holds the conversation's lock.
HoldersHaveLock == \A w \in Worker : pc[w] \in Locked => lock = w

\* Only the holder of the lock works on a batch, and handoffs wait for it.
LEMMA LockNext ==
  ASSUME ~LockMayDrop, Types, LedgerInv, HoldersHaveLock, HandoffExcludesDispatch,
         [Next]_vars
  PROVE  HoldersHaveLock' /\ HandoffExcludesDispatch'
<1>l. \A v, w \in Worker : pc[v] \in Locked /\ pc[w] \in Locked => v = w
  BY DEF HoldersHaveLock
<1>a. ASSUME NEW w \in Worker, Leave(w), UNCHANGED <<handoff, allowHandedOff>>
      PROVE  HoldersHaveLock' /\ HandoffExcludesDispatch'
  <2>1. \A v \in Worker : \/ v # w /\ pc'[v] = pc[v] /\ cur'[v] = cur[v]
                          \/ pc'[v] = "idle"
    BY <1>a DEF Leave, Types
  <2>2. \A v \in Worker : v # w => (lock = v => lock' = v)
    BY <1>a DEF Leave, Unlock
  <2>3. QED
    BY <1>a, <2>1, <2>2 DEF HoldersHaveLock, HandoffExcludesDispatch, Locked
<1>b. ASSUME NEW w \in Worker, UNCHANGED <<handoff, allowHandedOff, lock, cur>>,
             \A v \in Worker : v # w => pc'[v] = pc[v],
             pc'[w] \in Locked => pc[w] \in Locked,
             pc'[w] \in {"claimed", "awaiting"} => pc[w] \in {"claimed", "awaiting"}
      PROVE  HoldersHaveLock' /\ HandoffExcludesDispatch'
  BY <1>b DEF HoldersHaveLock, HandoffExcludesDispatch
<1>c. ASSUME UNCHANGED <<handoff, allowHandedOff, lock, cur, pc>>
      PROVE  HoldersHaveLock' /\ HandoffExcludesDispatch'
  BY <1>c DEF HoldersHaveLock, HandoffExcludesDispatch
<1>1. ASSUME NEW w \in Worker, Recover(w)
      PROVE  HoldersHaveLock' /\ HandoffExcludesDispatch'
  BY <1>1, <1>b DEF Recover, ledger, crm, Types, Locked
<1>2. ASSUME NEW w \in Worker, PreparePart(w)
      PROVE  HoldersHaveLock' /\ HandoffExcludesDispatch'
  <2>1. /\ pc[w] = "preparing" /\ pc'[w] \in {"preparing", "locking"}
        /\ \A v \in Worker : v # w => pc'[v] = pc[v]
        /\ UNCHANGED <<handoff, lock, cur>>
    BY <1>2 DEF PreparePart, LastPart, crm, Types
  <2>2. \A v \in Worker : pc[v] \in {"claimed", "awaiting"} =>
          allowHandedOff'[cur[v]] = allowHandedOff[cur[v]]
    <3>1. \A v \in Worker : pc[v] \in {"claimed", "awaiting"} => status[cur[v]] # "ABSENT"
      BY DEF LedgerInv, CallerHoldsClaim, InFlight
    <3>2. \A k \in Key : status[k] # "ABSENT" => allowHandedOff'[k] = allowHandedOff[k]
      BY <1>2 DEF PreparePart, LastPart, Types
    <3>3. QED
      BY <3>1, <3>2 DEF Types
  <2>3. QED
    BY <2>1, <2>2 DEF HoldersHaveLock, HandoffExcludesDispatch, Locked
<1>3. ASSUME NEW w \in Worker, LockBatch(w)
      PROVE  HoldersHaveLock' /\ HandoffExcludesDispatch'
  <2>1. \A v \in Worker : pc[v] \notin Locked
    BY <1>3, FreeAssumption DEF LockBatch, LockFree, HoldersHaveLock
  <2>2. \A v \in Worker : pc'[v] \in Locked => v = w /\ pc'[v] = "batch"
    BY <1>3, <2>1 DEF LockBatch, Types
  <2>3. QED
    BY <1>3, <2>2 DEF LockBatch, LockFree, HoldersHaveLock, HandoffExcludesDispatch, Locked
<1>4. ASSUME NEW w \in Worker,
             BatchDone(w) \/ BatchBlocked(w) \/ ClaimRefused(w) \/ Suppress(w) \/ Crash(w)
      PROVE  HoldersHaveLock' /\ HandoffExcludesDispatch'
  BY <1>4, <1>a DEF BatchDone, BatchBlocked, ClaimRefused, Suppress, Crash, ledger, crm
<1>5. ASSUME NEW w \in Worker, Claim(w)
      PROVE  HoldersHaveLock' /\ HandoffExcludesDispatch'
  <2>1. PICK k \in Key : ~Ineligible(k) /\ cur' = [cur EXCEPT ![w] = k]
    BY <1>5 DEF Claim, First, Types
  <2>2. /\ pc[w] = "batch" /\ pc' = [pc EXCEPT ![w] = "claimed"]
        /\ UNCHANGED <<handoff, allowHandedOff, lock>>
    BY <1>5 DEF Claim, crm
  <2>3. handoff => allowHandedOff[k]
    BY <2>1 DEF Ineligible, HandoffBlocks
  <2>4. QED
    BY <2>1, <2>2, <2>3, <1>l DEF HoldersHaveLock, HandoffExcludesDispatch, Locked, Types
<1>6. ASSUME NEW w \in Worker, Dispatch(w)
      PROVE  HoldersHaveLock' /\ HandoffExcludesDispatch'
  BY <1>6, <1>b DEF Dispatch, ledger, crm, Types, Locked
<1>7. ASSUME NEW w \in Worker, CheckClaim(w) \/ Confirm(w)
      PROVE  HoldersHaveLock' /\ HandoffExcludesDispatch'
  BY <1>7, <1>b DEF CheckClaim, Confirm, ledger, crm, Types, Locked
<1>8. ASSUME NEW w \in Worker, ConfirmFails(w) \/ NoAnswer(w) \/ Throttled(w) \/ Rejected(w)
      PROVE  HoldersHaveLock' /\ HandoffExcludesDispatch'
  BY <1>8, <1>a DEF ConfirmFails, NoAnswer, Throttled, Rejected, HandleFailure, crm
<1>9. ASSUME NEW q \in wire, MetaAccepts(q) \/ MetaThrottles(q) \/ MetaRejects(q)
      PROVE  HoldersHaveLock' /\ HandoffExcludesDispatch'
  <2>1. PICK o \in {"accepted", "throttled", "rejected"} : Answer(q, o)
    BY <1>9 DEF MetaAccepts, MetaThrottles, MetaRejects
  <2>2. \A v \in Worker : pc'[v] = pc[v] \/ (pc[v] = "awaiting" /\ pc'[v] = o)
    BY <2>1 DEF Answer
  <2>3. UNCHANGED <<handoff, allowHandedOff, lock, cur>>
    BY <2>1 DEF Answer, ledger, crm
  <2>4. QED
    BY <2>2, <2>3 DEF HoldersHaveLock, HandoffExcludesDispatch, Locked
<1>10. CASE Tick \/ RecoverExpired \/ UNCHANGED vars
  BY <1>10, <1>c DEF Tick, RecoverExpired, vars, ledger, caller, crm
<1>11. ASSUME NEW w \in Worker, NEW m \in Message, NEW r \in Request, Begin(w, m, r)
       PROVE  HoldersHaveLock' /\ HandoffExcludesDispatch'
  BY <1>11, <1>b DEF Begin, ledger, crm, Types, Locked
<1>12. CASE OpenHandoff \/ ResolveHandoff \/ \E st \in ConversationStatus : UpdateStatus(st)
  <2>1. \A v \in Worker : pc[v] \notin Locked
    BY <1>12, FreeAssumption DEF OpenHandoff, ResolveHandoff, UpdateStatus, LockFree, HoldersHaveLock
  <2>2. UNCHANGED pc
    BY <1>12 DEF OpenHandoff, ResolveHandoff, UpdateStatus, caller
  <2>3. QED
    BY <2>1, <2>2 DEF HoldersHaveLock, HandoffExcludesDispatch, Locked
<1>13. CASE \/ \E m \in Message, t \in 1..MaxStamp : CustomerWrites(m, t)
            \/ \E m, first \in Message : ScheduleTurn(m, first)
            \/ OptOut \/ WindowCloses
  BY <1>13, <1>c DEF CustomerWrites, ScheduleTurn, OptOut, WindowCloses, ledger, caller
<1>14. QED
  BY <1>1, <1>2, <1>3, <1>4, <1>5, <1>6, <1>7, <1>8, <1>9, <1>10, <1>11, <1>12, <1>13
  DEF Next, LedgerStep, CallerStep, CrmStep, LockDrops

(***************************************************************************)
(* While a handoff is open no caller is sending a part that must not go    *)
(* out while handed off (ineligibilityReason under the conversation's      *)
(* lock), provided no lock is lost with its transaction.                   *)
(***************************************************************************)
THEOREM HandoffIsRespected ==
  ASSUME ~LockMayDrop PROVE Spec => []HandoffExcludesDispatch
<1>1. Init => HoldersHaveLock /\ HandoffExcludesDispatch
  BY DEF Init, InitLedger, HoldersHaveLock, HandoffExcludesDispatch, Locked
<1>2. /\ Types /\ LedgerInv /\ HoldersHaveLock /\ HandoffExcludesDispatch
      /\ [Next]_vars
      => HoldersHaveLock' /\ HandoffExcludesDispatch'
  BY LockNext
<1>3. QED
  BY <1>1, <1>2, TypesHold, TypeCorrect, LedgerCorrect, PTL DEF Spec

(***************************************************************************)
(* Whole batches are serialized (deliverPreparedBatch, comment at l.123),  *)
(* provided no lock is lost with its transaction.                          *)
(***************************************************************************)
THEOREM BatchesAreSerialized ==
  ASSUME ~LockMayDrop PROVE Spec => []BatchesDoNotInterleave
<1>1. Init => HoldersHaveLock /\ HandoffExcludesDispatch
  BY DEF Init, InitLedger, HoldersHaveLock, HandoffExcludesDispatch, Locked
<1>2. /\ Types /\ LedgerInv /\ HoldersHaveLock /\ HandoffExcludesDispatch
      /\ [Next]_vars
      => HoldersHaveLock' /\ HandoffExcludesDispatch'
  BY LockNext
<1>3. HoldersHaveLock => BatchesDoNotInterleave
  BY DEF HoldersHaveLock, BatchesDoNotInterleave
<1>4. QED
  BY <1>1, <1>2, <1>3, TypesHold, TypeCorrect, LedgerCorrect, PTL DEF Spec

-----------------------------------------------------------------------------
(* The ledger implements DeliveryPromise.                                  *)

\* The fate each status stands for.
LEMMA Meanings ==
  /\ Meaning("ABSENT") = "none"
  /\ Meaning("PREPARED") = "open" /\ Meaning("DISPATCHING") = "open"
  /\ Meaning("CONFIRMED") = "sent"
  /\ Meaning("REJECTED") = "notSent" /\ Meaning("SUPPRESSED") = "notSent"
  /\ Meaning("AMBIGUOUS") = "unknown"
BY DEF Meaning

\* What a change of one row does to its fate.
LEMMA FateSet ==
  ASSUME Types, NEW k \in Key, NEW o, status' = [status EXCEPT ![k] = o]
  PROVE  Fate' = [Fate EXCEPT ![k] = Meaning(o)]
BY DEF Fate, Types

\* The fate of a row, from its status.
LEMMA FateOf ==
  ASSUME Types, NEW k \in Key
  PROVE  /\ status[k] = "ABSENT" => Fate[k] = "none"
         /\ status[k] \in {"PREPARED", "DISPATCHING"} => Fate[k] = "open"
         /\ status[k] = "CONFIRMED" => Fate[k] = "sent"
         /\ status[k] \in {"REJECTED", "SUPPRESSED"} => Fate[k] = "notSent"
         /\ status[k] = "AMBIGUOUS" => Fate[k] = "unknown"
BY Meanings DEF Fate

\* A step that leaves rows and customer alone is a stutter of the promise.
LEMMA FateUnchanged ==
  ASSUME UNCHANGED <<status, accepted>> PROVE UNCHANGED Promise!vars
<1>1. Fate' = Fate
  BY DEF Fate
<1>2. QED
  BY <1>1 DEF Promise!vars

\* PreparePart opens the fate of a part, or stutters.
LEMMA StepPrepares ==
  ASSUME Types, NEW w \in Worker, PreparePart(w)
  PROVE  Promise!Next \/ UNCHANGED Promise!vars
<1> DEFINE k == [src |-> src[w], kind |-> req[w].kind, part |-> part[w]]
<1>k. k \in Key
  BY RequestAssumption DEF Types, Key, RequestType
<1>1. CASE status[k] # "ABSENT"
  BY <1>1, FateUnchanged DEF PreparePart, LastPart, meta
<1>2. CASE status[k] = "ABSENT"
  <2>1. status' = [status EXCEPT ![k] = "PREPARED"] /\ UNCHANGED accepted
    BY <1>2 DEF PreparePart, LastPart, meta
  <2> HIDE DEF k
  <2>2. Fate[k] = "none" /\ Fate' = [Fate EXCEPT ![k] = "open"]
    <3>1. Fate[k] = "none"
      BY <1>k, <1>2, FateOf
    <3>2. Fate' = [Fate EXCEPT ![k] = Meaning("PREPARED")]
      BY <1>k, <2>1, FateSet
    <3>3. QED
      BY <3>1, <3>2, Meanings
  <2>3. Promise!Open(k)
    BY <2>1, <2>2 DEF Promise!Open
  <2>4. QED
    BY <1>k, <2>3 DEF Promise!Next
<1>3. QED
  BY <1>1, <1>2

\* The fate of one row is settled, or goes back to waiting.
LEMMA StepSettles ==
  ASSUME Types, NEW k \in Key, NEW o \in RowStatus, UNCHANGED accepted,
         \/ status[k] \in {"PREPARED", "DISPATCHING"}
         \/ status[k] = "AMBIGUOUS" /\ o = "CONFIRMED",
         status' = [status EXCEPT ![k] = o],
         o = "CONFIRMED" => accepted[k] = 1,
         o \in {"REJECTED", "SUPPRESSED"} => accepted[k] = 0
  PROVE  Promise!Next \/ UNCHANGED Promise!vars
<1>1. Fate[k] = "open" \/ (Fate[k] = "unknown" /\ o = "CONFIRMED")
  BY FateOf
<1>0. Fate' = [Fate EXCEPT ![k] = Meaning(o)]
  BY FateSet
<1>2. CASE o \in {"PREPARED", "DISPATCHING"}
  <2>1. Fate' = [Fate EXCEPT ![k] = "open"]
    <3>1. Meaning(o) = "open"
      BY <1>2, Meanings
    <3>2. QED
      BY <1>0, <3>1
  <2>2. Fate' = Fate
    <3>1. Fate[k] = "open"
      BY <1>1, <1>2
    <3>2. QED
      BY <2>1, <3>1 DEF Fate
  <2>3. QED
    BY <2>2 DEF Promise!vars
<1>3. CASE o = "CONFIRMED"
  <2>1. Fate' = [Fate EXCEPT ![k] = "sent"]
    BY <1>3, FateSet, Meanings
  <2>2. Promise!SettleSent(k)
    BY <1>1, <1>3, <2>1 DEF Promise!SettleSent
  <2>3. QED
    BY <2>2 DEF Promise!Next
<1>4. CASE o \in {"REJECTED", "SUPPRESSED"}
  <2>1. Fate' = [Fate EXCEPT ![k] = "notSent"]
    <3>1. Meaning(o) = "notSent"
      BY <1>4, Meanings
    <3>2. QED
      BY <1>0, <3>1
  <2>2. Promise!SettleNotSent(k)
    <3>1. Fate[k] = "open"
      BY <1>1, <1>4
    <3>2. QED
      BY <1>4, <2>1, <3>1 DEF Promise!SettleNotSent
  <2>3. QED
    BY <2>2 DEF Promise!Next
<1>5. CASE o = "AMBIGUOUS"
  <2>1. Fate' = [j \in Key |-> IF j \in {k} THEN "unknown" ELSE Fate[j]]
    <3>1. Fate' = [Fate EXCEPT ![k] = "unknown"]
      BY <1>5, FateSet, Meanings
    <3>2. QED
      BY <3>1 DEF Fate
  <2>2. Promise!SettleUnknown({k})
    BY <1>1, <1>5, <2>1 DEF Promise!SettleUnknown
  <2>3. QED
    BY <2>2 DEF Promise!Next
<1>6. QED
  BY <1>2, <1>3, <1>4, <1>5 DEF RowStatus, TerminalStatus

\* The sweep settles several fates as unknown at once.
LEMMA StepExpires ==
  ASSUME Types, RecoverExpired
  PROVE  Promise!Next
<1>1. Expired \in SUBSET Key /\ \A k \in Expired : Fate[k] = "open"
  BY FateOf DEF Expired
<1>2. Fate' = [k \in Key |-> IF k \in Expired THEN "unknown" ELSE Fate[k]]
  <2>1. \A k \in Key : status'[k] = IF k \in Expired THEN "AMBIGUOUS" ELSE status[k]
    BY DEF RecoverExpired
  <2>2. ASSUME NEW k \in Key
        PROVE  Fate'[k] = IF k \in Expired THEN "unknown" ELSE Fate[k]
    BY <2>1, Meanings DEF Fate
  <2>3. QED
    BY <2>2 DEF Fate
<1>3. Promise!SettleUnknown(Expired)
  BY <1>1, <1>2 DEF Promise!SettleUnknown, RecoverExpired, meta
<1>4. QED
  BY <1>1, <1>3 DEF Promise!Next

\* MetaAccepts is a receipt the promise allows.
LEMMA StepDelivers ==
  ASSUME Types, LedgerInv, NEW q \in wire, MetaAccepts(q)
  PROVE  Promise!Next
<1>1. PICK k \in Key : k = q[1]
  BY DEF Types
<1>2. /\ status[k] \in {"DISPATCHING", "AMBIGUOUS"}
      /\ accepted[k] = 0 /\ attempts[k] > 0
  BY <1>1 DEF LedgerInv, WireIsCurrent, RowsConsistent
<1>3. Fate[k] \in {"open", "unknown"}
  BY <1>2, FateOf
<1>4. \A j \in Key : Before(j, k) => Fate[j] = "sent"
  BY <1>2, FateOf DEF LedgerInv, OrderInv
<1>5. accepted' = [accepted EXCEPT ![k] = 1]
  BY <1>1, <1>2 DEF MetaAccepts, Types
<1>6. Fate' = Fate
  BY DEF MetaAccepts, Answer, ledger, Fate
<1>7. Promise!Receive(k)
  BY <1>2, <1>3, <1>4, <1>5, <1>6 DEF Promise!Receive
<1>8. QED
  BY <1>7 DEF Promise!Next

(***************************************************************************)
(* Every behaviour of the ledger is one DeliveryPromise allows: the parts  *)
(* reach the customer at most once and in order, and a settled fate is     *)
(* final and true.                                                         *)
(***************************************************************************)
THEOREM LedgerImplementsPromise == Spec => KeepsPromise
<1>1. Init => Promise!Init
  BY Meanings DEF Init, InitLedger, Nothing, Fate, Promise!Init
<1>2. Types /\ LedgerInv /\ [Next]_vars => [Promise!Next]_(Promise!vars)
  <2> SUFFICES ASSUME Types, LedgerInv, [Next]_vars
               PROVE  Promise!Next \/ UNCHANGED Promise!vars
    OBVIOUS
  <2>1. ASSUME NEW w \in Worker, Suppress(w)
        PROVE  Promise!Next \/ UNCHANGED Promise!vars
    <3>1. PICK k \in Key : /\ status[k] = "PREPARED"
                           /\ status' = [status EXCEPT ![k] = "SUPPRESSED"]
      BY <2>1 DEF Suppress, First, Types
    <3>2. accepted[k] = 0 /\ UNCHANGED accepted
      BY <2>1, <3>1 DEF LedgerInv, LedgerTellsTruth, Suppress, meta
    <3>3. QED
      BY <3>1, <3>2, StepSettles DEF RowStatus, TerminalStatus
  <2>2. ASSUME NEW w \in Worker, Claim(w)
        PROVE  Promise!Next \/ UNCHANGED Promise!vars
    <3>1. PICK k \in Key : /\ status[k] = "PREPARED"
                           /\ status' = [status EXCEPT ![k] = "DISPATCHING"]
      BY <2>2 DEF Claim, First, Types
    <3>2. UNCHANGED accepted
      BY <2>2 DEF Claim, meta
    <3>3. QED
      BY <3>1, <3>2, StepSettles DEF RowStatus
  <2>3. ASSUME NEW w \in Worker, pc[w] \in InFlight, NEW o \in RowStatus,
               Settle(w, o), UNCHANGED accepted,
               o \in {"PREPARED", "AMBIGUOUS", "REJECTED"},
               o = "REJECTED" => accepted[cur[w]] = 0
        PROVE  Promise!Next \/ UNCHANGED Promise!vars
    <3>1. CASE Owns(w)
      BY <2>3, <3>1, StepSettles DEF Settle, Owns, Types
    <3>2. CASE ~Owns(w)
      BY <2>3, <3>2, FateUnchanged DEF Settle
    <3>3. QED
      BY <3>1, <3>2
  <2>4. ASSUME NEW w \in Worker, Confirm(w)
        PROVE  Promise!Next \/ UNCHANGED Promise!vars
    <3>1. /\ accepted[cur[w]] = 1
          /\ status[cur[w]] \in {"DISPATCHING", "AMBIGUOUS"}
      BY <2>4 DEF Confirm, LedgerInv, CallerHoldsClaim, CallerKnowsMeta, InFlight
    <3>2. /\ cur[w] \in Key /\ UNCHANGED accepted
          /\ status' = [status EXCEPT ![cur[w]] = "CONFIRMED"]
      BY <2>4 DEF Confirm, meta, Types
    <3>3. QED
      BY <3>1, <3>2, StepSettles DEF RowStatus, TerminalStatus
  <2>5. ASSUME NEW w \in Worker,
               ConfirmFails(w) \/ NoAnswer(w) \/ Throttled(w) \/ Rejected(w)
        PROVE  Promise!Next \/ UNCHANGED Promise!vars
    <3>1. pc[w] \in InFlight /\ (pc[w] = "rejected" => accepted[cur[w]] = 0)
      BY <2>5 DEF ConfirmFails, NoAnswer, Throttled, Rejected, LedgerInv,
                  CallerKnowsMeta, InFlight
    <3>2. PICK o \in {"AMBIGUOUS", "PREPARED", "REJECTED"} :
            HandleFailure(w, o) /\ (o = "REJECTED" => pc[w] = "rejected")
      BY <2>5 DEF ConfirmFails, NoAnswer, Throttled, Rejected
    <3>3. QED
      BY <2>3, <3>1, <3>2 DEF HandleFailure, meta, RowStatus, TerminalStatus
  <2>6. ASSUME NEW w \in Worker,
               \/ Recover(w) \/ LockBatch(w) \/ BatchDone(w) \/ BatchBlocked(w)
               \/ ClaimRefused(w) \/ Dispatch(w) \/ CheckClaim(w) \/ Crash(w)
               \/ LockDrops(w)
        PROVE  UNCHANGED <<status, accepted>>
    BY <2>6 DEF Recover, LockBatch, BatchDone, BatchBlocked, ClaimRefused, Dispatch,
                CheckClaim, Crash, LockDrops, ledger, meta
  <2>7. ASSUME \/ \E q \in wire : MetaThrottles(q) \/ MetaRejects(q)
               \/ Tick
               \/ \E w \in Worker, m \in Message, r \in Request : Begin(w, m, r)
               \/ UNCHANGED vars
        PROVE  UNCHANGED <<status, accepted>>
    BY <2>7 DEF MetaThrottles, MetaRejects, Answer, Tick, Begin, ledger, meta, vars
  <2>8. ASSUME CrmStep PROVE UNCHANGED <<status, accepted>>
    BY <2>8 DEF CrmStep, CustomerWrites, ScheduleTurn, OptOut, WindowCloses,
                OpenHandoff, ResolveHandoff, UpdateStatus, ledger, meta
  <2>9. QED
    BY <2>1, <2>2, <2>4, <2>5, <2>6, <2>7, <2>8, StepPrepares, StepExpires,
       StepDelivers, FateUnchanged
    DEF Next, LedgerStep, CallerStep
<1>3. QED
  BY <1>1, <1>2, TypesHold, TypeCorrect, LedgerCorrect, PTL
  DEF Spec, KeepsPromise, Promise!Spec
=============================================================================
