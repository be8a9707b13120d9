----------------------- MODULE MeetingOperationsProofs -----------------------
(* Machine-checked proofs about MeetingOperations, for any number of       *)
(* meetings, slots, operations, runs and failures.                         *)
EXTENDS MeetingOperations, TLAPS

\* The values of what is not there.
LEMMA Defaults ==
  /\ SomeSlot \in Slot /\ SomeOp \in Op /\ SomeMeeting \in Meeting
  /\ Nobody \notin Applier
  /\ Scan \subseteq Applier
BY NamesAssumption DEF SomeSlot, SomeOp, SomeMeeting, Applier

\* What the CRM knows of meetings and of the operations on them.
booking == <<meeting, slot, status, kind, of, target>>

\* The type of a run of apply.
TypeRun ==
  /\ pc \in [Applier -> PC]
  /\ job \in [Applier -> Op]
  /\ heard \in [Applier -> BOOLEAN]

\* The type of what is booked, of the claims, and of the rest.
TypeBooking ==
  /\ meeting \in [Meeting -> MeetingStatus \union {"NONE"}]
  /\ slot \in [Meeting -> Slot]
  /\ status \in [Op -> Active \union {"NONE", "COMPLETED", "FAILED"}]
  /\ kind \in [Op -> Kind]
  /\ of \in [Op -> Meeting]
  /\ target \in [Op -> Slot]

TypeClaims ==
  /\ code \in [Op -> Code]
  /\ token \in [Op -> Applier \union {Nobody}]
  /\ over \in [Op -> BOOLEAN]
  /\ stopped \in SUBSET Op

TypeWorld ==
  /\ open \in [Meeting -> BOOLEAN]
  /\ lock \in [Meeting -> Applier \union {Nobody}]
  /\ event \in [Meeting -> Slot \union {NoSlot}]
  /\ failures \in 0..MaxFailures

\* The type invariant is made of these parts, now and in the next state.
LEMMA TypeParts ==
  TypeOK <=> TypeRun /\ TypeBooking /\ TypeClaims /\ TypeWorld /\ OneUnderWay
BY DEF TypeOK, TypeRun, TypeBooking, TypeClaims, TypeWorld

LEMMA TypePartsNext ==
  ASSUME TypeRun', TypeBooking', TypeClaims', TypeWorld', OneUnderWay'
  PROVE  TypeOK'
BY DEF TypeOK, TypeRun, TypeBooking, TypeClaims, TypeWorld

\* A run that goes on or ends is still a run.
LEMMA TypeContinue ==
  ASSUME TypeRun, NEW a \in Applier, NEW next \in PC, Continue(a, next)
  PROVE  TypeRun'
BY DEF TypeRun, Continue, Goto

LEMMA TypeLeave ==
  ASSUME TypeRun, NEW a \in Applier, Leave(a) PROVE TypeRun'
BY Defaults DEF TypeRun, Leave, Goto, PC

\* A run that gives its lock up leaves locks well typed.
LEMMA TypeUnlock ==
  ASSUME lock \in [Meeting -> Applier \union {Nobody}], NEW a \in Applier, Unlock(a)
  PROVE  lock' \in [Meeting -> Applier \union {Nobody}]
BY DEF Unlock

-----------------------------------------------------------------------------
(* The bookings: at most one operation of a meeting is under way, and it   *)
(* fits the meeting.                                                       *)

BookInv == TypeOK /\ \A o \in Op : OpFits(o)

\* Steps that leave the bookings alone leave both facts alone.
LEMMA BookKept ==
  ASSUME OneUnderWay, \A o \in Op : OpFits(o), UNCHANGED booking
  PROVE  OneUnderWay' /\ (\A o \in Op : OpFits(o))'
<1>1. OneUnderWay'
  BY DEF OneUnderWay, booking
<1>2. ASSUME NEW o \in Op PROVE OpFits(o)'
  BY DEF OpFits, booking
<1>3. QED
  BY <1>1, <1>2

LEMMA TypeBookingKept == TypeBooking /\ UNCHANGED booking => TypeBooking'
BY DEF TypeBooking, booking

\* A meeting that does not exist has no operation under way.
LEMMA NoneHasNone ==
  ASSUME BookInv, NEW m \in Meeting, meeting[m] = "NONE" PROVE UnderWay(m) = {}
BY DEF BookInv, OpFits, UnderWay

\* Recording an operation of a meeting that has none under way keeps them.
LEMMA RecordKeepsOne ==
  ASSUME BookInv, NEW o \in Op, NEW k \in Kind, NEW m \in Meeting, NEW s \in Slot,
         Record(o, k, m, s), UnderWay(m) = {}
  PROVE  /\ OneUnderWay'
         /\ \A p \in Op \ {o} : /\ status'[p] = status[p] /\ kind'[p] = kind[p]
                                /\ of'[p] = of[p] /\ target'[p] = target[p]
                                /\ status[p] \in Active => of[p] # m
         /\ status'[o] = "PREPARED" /\ kind'[o] = k /\ of'[o] = m /\ target'[o] = s
<1>t. TypeBooking /\ OneUnderWay
  BY TypeParts DEF BookInv
<1>1. \A p \in Op : status[p] \in Active => of[p] # m
  BY DEF UnderWay
<1>2. /\ \A p \in Op \ {o} : /\ status'[p] = status[p] /\ kind'[p] = kind[p]
                             /\ of'[p] = of[p] /\ target'[p] = target[p]
      /\ status'[o] = "PREPARED" /\ kind'[o] = k /\ of'[o] = m /\ target'[o] = s
  BY <1>t DEF Record, TypeBooking
<1>3. OneUnderWay'
  BY <1>t, <1>1, <1>2 DEF OneUnderWay
<1>4. QED
  BY <1>1, <1>2, <1>3

LEMMA RecordKeepsTypes ==
  ASSUME TypeOK, NEW o \in Op, NEW k \in Kind, NEW m \in Meeting, NEW s \in Slot,
         Record(o, k, m, s)
  PROVE  /\ TypeRun' /\ TypeClaims' /\ TypeWorld'
         /\ status' \in [Op -> Active \union {"NONE", "COMPLETED", "FAILED"}]
         /\ kind' \in [Op -> Kind] /\ of' \in [Op -> Meeting] /\ target' \in [Op -> Slot]
<1>t. TypeRun /\ TypeClaims /\ TypeWorld /\ TypeBooking
  BY TypeParts
<1>1. TypeRun' /\ TypeClaims' /\ TypeWorld'
  BY <1>t DEF Record, TypeRun, TypeClaims, TypeWorld, run
<1>2. /\ status' \in [Op -> Active \union {"NONE", "COMPLETED", "FAILED"}]
      /\ kind' \in [Op -> Kind] /\ of' \in [Op -> Meeting] /\ target' \in [Op -> Slot]
  BY <1>t DEF Record, TypeBooking, Active
<1>3. QED
  BY <1>1, <1>2

LEMMA BookPrepare ==
  ASSUME BookInv, NEW o \in Op, Prepare(o) PROVE BookInv'
<1>t. TypeOK /\ TypeBooking
  BY TypeParts DEF BookInv
<1>1. ASSUME NEW m \in Meeting, NEW s \in Slot, PrepareCreate(o, m, s) PROVE BookInv'
  <2>1. UnderWay(m) = {} /\ Record(o, "CREATE", m, s) /\ "CREATE" \in Kind
    BY <1>1, NoneHasNone DEF PrepareCreate, Kind
  <2>2. TypeBooking'
    BY <1>1, <1>t, <2>1, RecordKeepsTypes DEF PrepareCreate, TypeBooking, MeetingStatus
  <2>3. TypeOK'
    BY <1>t, <2>1, <2>2, RecordKeepsTypes, RecordKeepsOne, TypePartsNext
  <2>4. ASSUME NEW p \in Op PROVE OpFits(p)'
    <3>1. CASE p = o
      BY <1>1, <1>t, <2>1, <3>1, RecordKeepsOne DEF PrepareCreate, OpFits, TypeBooking
    <3>2. CASE p # o
      <4>1. status[p] \in Active => meeting'[of[p]] = meeting[of[p]] /\ slot'[of[p]] = slot[of[p]]
        BY <1>1, <1>t, <2>1, <3>2, RecordKeepsOne DEF PrepareCreate, TypeBooking
      <4>2. OpFits(p)
        BY DEF BookInv
      <4>3. QED
        BY <2>1, <3>2, <4>1, <4>2, RecordKeepsOne DEF OpFits
    <3>3. QED
      BY <3>1, <3>2
  <2>5. QED
    BY <2>3, <2>4 DEF BookInv
<1>2. ASSUME NEW m \in Meeting, PrepareChange(o, m) PROVE BookInv'
  <2>1. PICK k \in {"CANCEL", "RESCHEDULE"}, s \in Slot : Record(o, k, m, s)
    BY <1>2, <1>t DEF PrepareChange, TypeBooking
  <2>2. UnderWay(m) = {} /\ meeting[m] = "CONFIRMED" /\ k \in Kind /\ UNCHANGED <<meeting, slot>>
    BY <1>2, <2>1 DEF PrepareChange, Changeable, Kind
  <2>3. TypeBooking'
    BY <1>t, <2>1, <2>2, RecordKeepsTypes DEF TypeBooking
  <2>4. TypeOK'
    BY <1>t, <2>1, <2>2, <2>3, RecordKeepsTypes, RecordKeepsOne, TypePartsNext
  <2>5. ASSUME NEW p \in Op PROVE OpFits(p)'
    <3>1. OpFits(p)
      BY DEF BookInv
    <3>2. CASE p = o
      BY <2>1, <2>2, <3>2, RecordKeepsOne DEF OpFits
    <3>3. CASE p # o
      BY <2>1, <2>2, <3>1, <3>3, RecordKeepsOne DEF OpFits
    <3>4. QED
      BY <3>2, <3>3
  <2>6. QED
    BY <2>4, <2>5 DEF BookInv
<1>3. QED
  BY <1>1, <1>2 DEF Prepare

\* A step that leaves the bookings alone and is well typed.
LEMMA BookInvKept ==
  ASSUME BookInv, UNCHANGED booking, TypeRun', TypeClaims', TypeWorld'
  PROVE  BookInv'
<1>1. TypeBooking'
  BY TypeParts, TypeBookingKept DEF BookInv
<1>2. OneUnderWay' /\ (\A o \in Op : OpFits(o))'
  BY TypeParts, BookKept DEF BookInv
<1>3. QED
  BY <1>1, <1>2, TypePartsNext DEF BookInv

\* An operation that stays under way, or is no more, does not get in the way.
LEMMA BookStatus ==
  ASSUME BookInv, NEW o \in Op, status[o] \in Active,
         NEW t \in Active \union {"COMPLETED", "FAILED"},
         status' = [status EXCEPT ![o] = t], UNCHANGED <<kind, of, target>>,
         meeting' \in [Meeting -> MeetingStatus \union {"NONE"}],
         slot' \in [Meeting -> Slot],
         \A m \in Meeting \ {of[o]} : meeting'[m] = meeting[m] /\ slot'[m] = slot[m],
         t \in Active => UNCHANGED <<meeting, slot>>,
         TypeRun', TypeClaims', TypeWorld'
  PROVE  BookInv'
<1>t. TypeBooking /\ OneUnderWay
  BY TypeParts DEF BookInv
<1>1. TypeBooking'
  BY <1>t DEF TypeBooking
<1>2. OneUnderWay'
  BY <1>t DEF TypeBooking, OneUnderWay
<1>3. ASSUME NEW p \in Op PROVE OpFits(p)'
  <2>1. OpFits(p)
    BY DEF BookInv
  <2>2. CASE p = o
    BY <1>t, <2>1, <2>2 DEF OpFits, TypeBooking, Active
  <2>3. CASE p # o
    <3>1. status'[p] = status[p]
      BY <1>t, <2>3 DEF TypeBooking
    <3>2. status[p] \in Active => of[p] # of[o]
      BY <1>t, <2>3 DEF OneUnderWay
    <3>3. status[p] \in Active => meeting'[of[p]] = meeting[of[p]] /\ slot'[of[p]] = slot[of[p]]
      BY <1>t, <3>2 DEF TypeBooking
    <3>4. QED
      BY <2>1, <3>1, <3>3 DEF OpFits
  <2>4. QED
    BY <2>2, <2>3
<1>4. QED
  BY <1>1, <1>2, <1>3, TypePartsNext DEF BookInv

LEMMA BookClaim ==
  ASSUME BookInv, NEW a \in Applier, Claim(a) PROVE BookInv'
<1>t. TypeRun /\ TypeClaims /\ TypeWorld /\ TypeBooking
  BY TypeParts DEF BookInv
<1>1. PICK o \in Op : o = job[a]
  BY <1>t DEF TypeRun
<1>2. TypeWorld'
  BY <1>t DEF Claim, TypeWorld, crm
<1>3. CASE Due(o)
  <2>1. TypeRun'
    BY <1>1, <1>3, <1>t DEF Claim, Goto, TypeRun, PC, Claimed
  <2>2. TypeClaims'
    BY <1>1, <1>3, <1>t DEF Claim, TypeClaims
  <2>3. status[o] \in Active /\ "APPLYING" \in Active
    BY <1>3 DEF Due, Active
  <2>4. /\ status' = [status EXCEPT ![o] = "APPLYING"]
        /\ UNCHANGED <<kind, of, target, meeting, slot>>
    BY <1>1, <1>3 DEF Claim, crm
  <2>5. QED
    BY <1>t, <1>2, <2>1, <2>2, <2>3, <2>4, BookStatus DEF TypeBooking
<1>4. CASE ~Due(o)
  <2>1. TypeRun' /\ TypeClaims'
    BY <1>1, <1>4, <1>t, TypeLeave DEF Claim, TypeClaims
  <2>2. UNCHANGED booking
    BY <1>1, <1>4 DEF Claim, booking, crm
  <2>3. QED
    BY <1>2, <2>1, <2>2, BookInvKept
<1>5. QED
  BY <1>3, <1>4

LEMMA BookFinish ==
  ASSUME BookInv, NEW a \in Applier, Finish(a) PROVE BookInv'
<1>t. TypeRun /\ TypeClaims /\ TypeWorld /\ TypeBooking
  BY TypeParts DEF BookInv
<1>1. PICK o \in Op : o = job[a]
  BY <1>t DEF TypeRun
<1>2. TypeRun' /\ TypeWorld'
  BY <1>t, TypeLeave DEF Finish, TypeWorld
<1>3. CASE Owns(a)
  <2>1. TypeClaims'
    BY <1>1, <1>3, <1>t DEF Finish, TypeClaims, Code
  <2>2. status[o] \in Active
    BY <1>1, <1>3 DEF Owns, Active
  <2>3. /\ status' = [status EXCEPT ![o] = "COMPLETED"]
        /\ UNCHANGED <<kind, of, target>>
    BY <1>1, <1>3 DEF Finish
  <2>4. /\ meeting' \in [Meeting -> MeetingStatus \union {"NONE"}]
        /\ slot' \in [Meeting -> Slot]
        /\ \A m \in Meeting \ {of[o]} : meeting'[m] = meeting[m] /\ slot'[m] = slot[m]
    BY <1>1, <1>3, <1>t DEF Finish, TypeBooking, MeetingStatus
  <2>5. "COMPLETED" \notin Active
    BY DEF Active
  <2>6. QED
    BY <1>2, <2>1, <2>2, <2>3, <2>4, <2>5, BookStatus
<1>4. CASE ~Owns(a)
  <2>1. TypeClaims' /\ UNCHANGED booking
    BY <1>1, <1>4, <1>t DEF Finish, TypeClaims, booking
  <2>2. QED
    BY <1>2, <2>1, BookInvKept
<1>5. QED
  BY <1>3, <1>4

LEMMA BookFail ==
  ASSUME BookInv, NEW a \in Applier, Fail(a) PROVE BookInv'
<1>t. TypeRun /\ TypeClaims /\ TypeWorld /\ TypeBooking
  BY TypeParts DEF BookInv
<1>1. PICK o \in Op : o = job[a]
  BY <1>t DEF TypeRun
<1>2. TypeRun' /\ TypeWorld'
  BY <1>t, TypeLeave DEF Fail, TypeWorld
<1>3. CASE Owns(a)
  <2>1. TypeClaims'
    BY <1>1, <1>3, <1>t DEF Fail, TypeClaims, Code
  <2>2. status[o] \in Active
    BY <1>1, <1>3 DEF Owns, Active
  <2>3. PICK t \in {"FAILED", "RETRY"} : t = IF pc[a] = "conflicting" THEN "FAILED" ELSE "RETRY"
    OBVIOUS
  <2>4. /\ status' = [status EXCEPT ![o] = t]
        /\ UNCHANGED <<kind, of, target, slot>>
    BY <1>1, <1>3, <2>3 DEF Fail
  <2>5. /\ meeting' \in [Meeting -> MeetingStatus \union {"NONE"}]
        /\ slot' \in [Meeting -> Slot]
        /\ \A m \in Meeting \ {of[o]} : meeting'[m] = meeting[m] /\ slot'[m] = slot[m]
    BY <1>1, <1>3, <1>t DEF Fail, TypeBooking, MeetingStatus
  <2>6. t \in Active => UNCHANGED <<meeting, slot>>
    BY <1>1, <1>3, <1>t, <2>3, <2>4 DEF Fail, TypeBooking, Active
  <2>7. t \in Active \union {"COMPLETED", "FAILED"}
    BY DEF Active
  <2>8. QED
    BY <1>2, <2>1, <2>2, <2>4, <2>5, <2>6, <2>7, BookStatus
<1>4. CASE ~Owns(a)
  <2>1. TypeClaims' /\ UNCHANGED booking
    BY <1>1, <1>4, <1>t DEF Fail, TypeClaims, booking
  <2>2. QED
    BY <1>2, <2>1, BookInvKept
<1>5. QED
  BY <1>3, <1>4

\* The other steps of a run.
LEMMA QuietSteps ==
  ASSUME BookInv, NEW a \in Applier,
         \/ \E o \in Op : Begin(a, o)
         \/ ReadConversation(a) \/ GetEvent(a) \/ CheckBusy(a) \/ Lock(a)
         \/ GoogleAnswers(a) \/ GoogleAnswerLost(a) \/ Throws(a) \/ Dies(a)
  PROVE  UNCHANGED booking /\ TypeRun' /\ TypeClaims' /\ TypeWorld'
<1>t. TypeRun /\ TypeClaims /\ TypeWorld /\ TypeBooking
  BY TypeParts DEF BookInv
<1>p. {"idle", "claiming", "looking", "reading", "checking", "locking", "mutating",
       "finishing", "conflicting", "retrying"} = PC
  BY DEF PC, Claimed
<1>1. ASSUME NEW o \in Op, Begin(a, o)
      PROVE  UNCHANGED booking /\ TypeRun' /\ TypeClaims' /\ TypeWorld'
  <2>1. TypeRun'
    BY <1>1, <1>t, <1>p DEF Begin, Goto, TypeRun
  <2>2. UNCHANGED booking /\ TypeClaims' /\ TypeWorld'
    BY <1>1, <1>t DEF Begin, booking, TypeClaims, TypeWorld, crm, operation
  <2>3. QED
    BY <2>1, <2>2
<1>2. CASE ReadConversation(a)
  <2>1. TypeRun'
    BY <1>2, <1>t, <1>p DEF ReadConversation, Goto, TypeRun
  <2>2. UNCHANGED booking /\ TypeClaims' /\ TypeWorld'
    BY <1>2, <1>t DEF ReadConversation, booking, TypeClaims, TypeWorld, crm, operation
  <2>3. QED
    BY <2>1, <2>2
<1>3. CASE GetEvent(a)
  <2>1. PICK next \in PC : Continue(a, next)
    BY <1>3, <1>p DEF GetEvent, AfterEvent
  <2>2. UNCHANGED booking /\ TypeClaims' /\ TypeWorld'
    BY <1>3, <1>t DEF GetEvent, booking, TypeClaims, TypeWorld, crm, operation
  <2>3. QED
    BY <1>t, <2>1, <2>2, TypeContinue
<1>4. CASE CheckBusy(a)
  <2>1. PICK next \in PC : Continue(a, next)
    BY <1>4, <1>p DEF CheckBusy
  <2>2. UNCHANGED booking /\ TypeClaims' /\ TypeWorld'
    BY <1>4, <1>t DEF CheckBusy, booking, TypeClaims, TypeWorld, crm, operation
  <2>3. QED
    BY <1>t, <2>1, <2>2, TypeContinue
<1>5. CASE Lock(a)
  <2>1. TypeRun'
    BY <1>5, <1>t, <1>p DEF Lock, Continue, Goto, TypeRun
  <2>2. lock' \in [Meeting -> Applier \union {Nobody}]
    BY <1>5, <1>t DEF Lock, TypeWorld, TypeRun
  <2>3. UNCHANGED booking /\ TypeClaims' /\ TypeWorld'
    BY <1>5, <1>t, <2>2 DEF Lock, booking, TypeClaims, TypeWorld, crm, operation
  <2>4. QED
    BY <2>1, <2>3
<1>6. CASE GoogleAnswers(a)
  <2>1. PICK next \in PC : Continue(a, next)
    BY <1>6, <1>p DEF GoogleAnswers
  <2>2. lock' \in [Meeting -> Applier \union {Nobody}]
    BY <1>6, <1>t, TypeUnlock DEF GoogleAnswers, TypeWorld
  <2>3. event' \in [Meeting -> Slot \union {NoSlot}]
    BY <1>6, <1>t DEF GoogleAnswers, TypeWorld, TypeRun, TypeBooking
  <2>4. UNCHANGED booking /\ TypeClaims' /\ TypeWorld'
    BY <1>6, <1>t, <2>2, <2>3 DEF GoogleAnswers, booking, TypeClaims, TypeWorld, crm, operation
  <2>5. QED
    BY <1>t, <2>1, <2>4, TypeContinue
<1>7. CASE GoogleAnswerLost(a)
  <2>1. "retrying" \in PC /\ Continue(a, "retrying")
    BY <1>7, <1>p DEF GoogleAnswerLost
  <2>2. lock' \in [Meeting -> Applier \union {Nobody}]
    BY <1>7, <1>t, TypeUnlock DEF GoogleAnswerLost, TypeWorld
  <2>3. event' \in [Meeting -> Slot \union {NoSlot}]
    BY <1>7, <1>t DEF GoogleAnswerLost, TypeWorld, TypeRun, TypeBooking
  <2>4. failures' \in 0..MaxFailures
    BY <1>7, <1>t, NamesAssumption DEF GoogleAnswerLost, TypeWorld
  <2>5. UNCHANGED booking /\ TypeClaims' /\ TypeWorld'
    BY <1>7, <1>t, <2>2, <2>3, <2>4
       DEF GoogleAnswerLost, booking, TypeClaims, TypeWorld, crm, operation
  <2>6. QED
    BY <1>t, <2>1, <2>5, TypeContinue
<1>8. CASE Throws(a)
  <2>1. "retrying" \in PC /\ Continue(a, "retrying")
    BY <1>8, <1>p DEF Throws
  <2>2. lock' \in [Meeting -> Applier \union {Nobody}]
    BY <1>8, <1>t, TypeUnlock DEF Throws, TypeWorld
  <2>3. failures' \in 0..MaxFailures
    BY <1>8, <1>t, NamesAssumption DEF Throws, TypeWorld
  <2>4. UNCHANGED booking /\ TypeClaims' /\ TypeWorld'
    BY <1>8, <1>t, <2>2, <2>3 DEF Throws, booking, TypeClaims, TypeWorld, crm, operation
  <2>5. QED
    BY <1>t, <2>1, <2>4, TypeContinue
<1>9. CASE Dies(a)
  <2>1. lock' \in [Meeting -> Applier \union {Nobody}]
    BY <1>9, <1>t, TypeUnlock DEF Dies, TypeWorld
  <2>2. failures' \in 0..MaxFailures
    BY <1>9, <1>t, NamesAssumption DEF Dies, TypeWorld
  <2>3. UNCHANGED booking /\ TypeClaims' /\ TypeWorld'
    BY <1>9, <1>t, <2>1, <2>2 DEF Dies, booking, TypeClaims, TypeWorld, crm, operation
  <2>4. QED
    BY <1>9, <1>t, <2>3, TypeLeave DEF Dies
<1>10. QED
  BY <1>1, <1>2, <1>3, <1>4, <1>5, <1>6, <1>7, <1>8, <1>9

\* The steps of the surroundings.
LEMMA QuietSurroundings ==
  ASSUME BookInv,
         \/ \E o \in Op : TimePasses(o) \/ Notified(o)
         \/ \E m \in Meeting : Interrupt(m) \/ ChangeHands(m)
  PROVE  UNCHANGED booking /\ TypeRun' /\ TypeClaims' /\ TypeWorld'
<1>t. TypeRun /\ TypeClaims /\ TypeWorld
  BY TypeParts DEF BookInv
<1>1. ASSUME NEW o \in Op, TimePasses(o)
      PROVE  UNCHANGED booking /\ TypeRun' /\ TypeClaims' /\ TypeWorld'
  BY <1>1, <1>t DEF TimePasses, booking, TypeRun, TypeClaims, TypeWorld, crm, run
<1>2. ASSUME NEW o \in Op, Notified(o)
      PROVE  UNCHANGED booking /\ TypeRun' /\ TypeClaims' /\ TypeWorld'
  BY <1>2, <1>t DEF Notified, booking, TypeRun, TypeClaims, TypeWorld, crm, run, Code
<1>3. ASSUME NEW m \in Meeting, Interrupt(m)
      PROVE  UNCHANGED booking /\ TypeRun' /\ TypeClaims' /\ TypeWorld'
  <2>1. UnderWay(m) \subseteq Op
    BY DEF UnderWay
  <2>2. TypeClaims'
    BY <1>3, <1>t, <2>1 DEF Interrupt, TypeClaims, Code
  <2>3. QED
    BY <1>3, <1>t, <2>2 DEF Interrupt, booking, TypeRun, TypeWorld, crm, run
<1>4. ASSUME NEW m \in Meeting, ChangeHands(m)
      PROVE  UNCHANGED booking /\ TypeRun' /\ TypeClaims' /\ TypeWorld'
  BY <1>4, <1>t DEF ChangeHands, booking, TypeRun, TypeClaims, TypeWorld, operation, run
<1>5. QED
  BY <1>1, <1>2, <1>3, <1>4

\* Nothing happens.
LEMMA QuietStutter ==
  ASSUME BookInv, UNCHANGED vars
  PROVE  UNCHANGED booking /\ TypeRun' /\ TypeClaims' /\ TypeWorld'
BY TypeParts
   DEF BookInv, vars, crm, operation, run, booking, TypeRun, TypeClaims, TypeWorld

LEMMA BookInit == Init => BookInv
<1>1. SUFFICES ASSUME Init PROVE BookInv
  OBVIOUS
<1>2. TypeRun /\ TypeBooking /\ TypeClaims /\ TypeWorld
  BY <1>1, Defaults, NamesAssumption
     DEF Init, TypeRun, TypeBooking, TypeClaims, TypeWorld, PC, Kind, Code
<1>3. \A o \in Op : status[o] \notin Active
  BY <1>1 DEF Init, Active
<1>4. QED
  BY <1>2, <1>3, TypeParts DEF BookInv, OneUnderWay, OpFits

LEMMA BookNext == BookInv /\ [Next]_vars => BookInv'
<1>1. SUFFICES ASSUME BookInv, [Next]_vars PROVE BookInv'
  OBVIOUS
<1>2. ASSUME NEW o \in Op, Prepare(o) PROVE BookInv'
  BY <1>1, <1>2, BookPrepare
<1>3. ASSUME NEW a \in Applier, Claim(a) \/ Finish(a) \/ Fail(a) PROVE BookInv'
  BY <1>1, <1>3, BookClaim, BookFinish, BookFail
<1>4. ASSUME NEW a \in Applier,
             \/ \E o \in Op : Begin(a, o)
             \/ ReadConversation(a) \/ GetEvent(a) \/ CheckBusy(a) \/ Lock(a)
             \/ GoogleAnswers(a) \/ GoogleAnswerLost(a) \/ Throws(a) \/ Dies(a)
      PROVE  BookInv'
  BY <1>1, <1>4, QuietSteps, BookInvKept
<1>5. ASSUME \/ \E o \in Op : TimePasses(o) \/ Notified(o)
             \/ \E m \in Meeting : Interrupt(m) \/ ChangeHands(m)
      PROVE  BookInv'
  BY <1>1, <1>5, QuietSurroundings, BookInvKept
<1>6. CASE UNCHANGED vars
  BY <1>1, <1>6, QuietStutter, BookInvKept
<1>7. QED
  BY <1>1, <1>2, <1>3, <1>4, <1>5, <1>6 DEF Next, Step

(***************************************************************************)
(* The state is well typed, and at most one operation of a meeting is      *)
(* under way (the conflict check of prepare and the claims of apply).      *)
(***************************************************************************)
THEOREM TypeCorrect == Spec => []TypeOK
<1>1. BookInv => TypeOK
  BY DEF BookInv
<1>2. QED
  BY <1>1, BookInit, BookNext, PTL DEF Spec

-----------------------------------------------------------------------------
(* No double booking.                                                      *)

\* What a slot is reserved by: the meeting, or a move under way.
Takes(m, s) == meeting[m] \in {"PENDING", "CONFIRMED"} /\ slot[m] = s

Moves(m, s) ==
  \E o \in Op : /\ status[o] \in Active /\ of[o] = m
                /\ kind[o] = "RESCHEDULE" /\ target[o] = s

LEMMA ReservedHas ==
  ASSUME NEW m, NEW s PROVE s \in Reserved(m) <=> Takes(m, s) \/ Moves(m, s)
BY DEF Reserved, UnderWay, Takes, Moves

LEMMA ReservedHasNext ==
  ASSUME NEW m, NEW s PROVE s \in Reserved(m)' <=> Takes(m, s)' \/ Moves(m, s)'
BY DEF Reserved, UnderWay, Takes, Moves

\* Giving slots up books nothing twice.
LEMMA LessIsFree ==
  ASSUME NoDoubleBooking, \A m \in Meeting : Reserved(m)' \subseteq Reserved(m)
  PROVE  NoDoubleBooking'
BY DEF NoDoubleBooking

\* Reserving one more slot, free of the other meetings, books nothing twice.
LEMMA OneMoreIsFree ==
  ASSUME NoDoubleBooking, NEW m \in Meeting, NEW s, Free(m, s),
         Reserved(m)' \subseteq Reserved(m) \union {s},
         \A n \in Meeting \ {m} : Reserved(n)' \subseteq Reserved(n)
  PROVE  NoDoubleBooking'
BY DEF NoDoubleBooking, Free

LEMMA SlotsKept ==
  ASSUME NoDoubleBooking, UNCHANGED booking PROVE NoDoubleBooking'
<1>1. \A m \in Meeting : Reserved(m)' \subseteq Reserved(m)
  BY DEF Reserved, UnderWay, booking
<1>2. QED
  BY <1>1, LessIsFree

LEMMA SlotsPrepare ==
  ASSUME BookInv, NoDoubleBooking, NEW o \in Op, Prepare(o) PROVE NoDoubleBooking'
<1>t. TypeOK /\ TypeBooking
  BY TypeParts DEF BookInv
<1>1. ASSUME NEW m \in Meeting, NEW s \in Slot, PrepareCreate(o, m, s) PROVE NoDoubleBooking'
  <2>1. UnderWay(m) = {} /\ Record(o, "CREATE", m, s) /\ "CREATE" \in Kind /\ Free(m, s)
    BY <1>1, NoneHasNone DEF PrepareCreate, Kind
  <2>2. \A n, r : Moves(n, r)' => Moves(n, r)
    BY <2>1, RecordKeepsOne DEF Moves
  <2>3. \A r : Takes(m, r)' => r = s
    BY <1>1, <1>t DEF PrepareCreate, Takes, TypeBooking
  <2>4. \A n \in Meeting \ {m} : \A r : Takes(n, r)' => Takes(n, r)
    BY <1>1, <1>t DEF PrepareCreate, Takes, TypeBooking
  <2>5. \A r : r \in Reserved(m)' => r \in Reserved(m) \union {s}
    BY <2>2, <2>3, ReservedHas, ReservedHasNext
  <2>6. \A n \in Meeting \ {m} : \A r : r \in Reserved(n)' => r \in Reserved(n)
    BY <2>2, <2>4, ReservedHas, ReservedHasNext
  <2>7. QED
    BY <2>1, <2>5, <2>6, OneMoreIsFree
<1>2. ASSUME NEW m \in Meeting, PrepareChange(o, m) PROVE NoDoubleBooking'
  <2>1. UnderWay(m) = {} /\ UNCHANGED <<meeting, slot>>
    BY <1>2 DEF PrepareChange, Changeable
  <2>2. \A n, r : Takes(n, r)' => Takes(n, r)
    BY <2>1 DEF Takes
  <2>3. CASE Record(o, "CANCEL", m, slot[m])
    <3>1. \A n, r : Moves(n, r)' => Moves(n, r)
      BY <1>t, <2>1, <2>3, RecordKeepsOne DEF Moves, TypeBooking, Kind
    <3>2. \A n \in Meeting : \A r : r \in Reserved(n)' => r \in Reserved(n)
      BY <2>2, <3>1, ReservedHas, ReservedHasNext
    <3>3. QED
      BY <3>2, LessIsFree
  <2>4. ASSUME NEW s \in Slot, Free(m, s), Record(o, "RESCHEDULE", m, s)
        PROVE  NoDoubleBooking'
    <3>1. "RESCHEDULE" \in Kind
      BY DEF Kind
    <3>2. \A n, r : Moves(n, r)' => Moves(n, r) \/ (n = m /\ r = s)
      BY <2>1, <2>4, <3>1, RecordKeepsOne DEF Moves
    <3>3. \A r : r \in Reserved(m)' => r \in Reserved(m) \union {s}
      BY <2>2, <3>2, ReservedHas, ReservedHasNext
    <3>4. \A n \in Meeting \ {m} : \A r : r \in Reserved(n)' => r \in Reserved(n)
      BY <2>2, <3>2, ReservedHas, ReservedHasNext
    <3>5. QED
      BY <2>4, <3>3, <3>4, OneMoreIsFree
  <2>5. QED
    BY <1>2, <2>3, <2>4 DEF PrepareChange
<1>3. QED
  BY <1>1, <1>2 DEF Prepare

\* An operation of which only the status changes, and stays or ends.
LEMMA SlotsMoves ==
  ASSUME BookInv, NEW o \in Op, status[o] \in Active, NEW t,
         status' = [status EXCEPT ![o] = t], UNCHANGED <<kind, of, target>>,
         NEW n, NEW r, Moves(n, r)'
  PROVE  Moves(n, r)
BY TypeParts DEF BookInv, TypeBooking, Moves

LEMMA SlotsRun ==
  ASSUME BookInv, NoDoubleBooking, NEW a \in Applier, Claim(a) \/ Finish(a) \/ Fail(a)
  PROVE  NoDoubleBooking'
<1>t. TypeRun /\ TypeBooking
  BY TypeParts DEF BookInv
<1>1. PICK o \in Op : o = job[a]
  BY <1>t DEF TypeRun
<1>2. SUFFICES ASSUME ~UNCHANGED booking
               PROVE  \A n \in Meeting : \A r : r \in Reserved(n)' => r \in Reserved(n)
  BY SlotsKept, LessIsFree
<1>3. OpFits(o)
  BY DEF BookInv
<1>4. CASE Claim(a)
  <2>1. Due(o)
    BY <1>1, <1>2, <1>4 DEF Claim, booking, crm
  <2>2. /\ status[o] \in Active
        /\ status' = [status EXCEPT ![o] = "APPLYING"]
        /\ UNCHANGED <<kind, of, target, meeting, slot>>
    BY <1>1, <1>4, <2>1 DEF Claim, crm, Due, Active
  <2>3. \A n, r : Takes(n, r)' => Takes(n, r)
    BY <2>2 DEF Takes
  <2>4. QED
    BY <2>2, <2>3, SlotsMoves, ReservedHas, ReservedHasNext
<1>5. CASE Finish(a)
  <2>1. Owns(a)
    BY <1>1, <1>2, <1>5 DEF Finish, booking
  <2>2. /\ status[o] \in Active
        /\ status' = [status EXCEPT ![o] = "COMPLETED"]
        /\ UNCHANGED <<kind, of, target>>
    BY <1>1, <1>5, <2>1 DEF Finish, Owns, Active
  <2>3. \A n \in Meeting : \A r : Takes(n, r)' => Takes(n, r) \/ Moves(n, r)
    <3>1. SUFFICES ASSUME NEW n \in Meeting, NEW r, Takes(n, r)'
                   PROVE  Takes(n, r) \/ Moves(n, r)
      OBVIOUS
    <3>2. CASE n # of[o]
      BY <1>1, <1>5, <1>t, <2>1, <3>1, <3>2 DEF Finish, Takes, TypeBooking
    <3>3. CASE n = of[o]
      <4>1. kind[o] # "CANCEL" /\ r = target[o]
        BY <1>1, <1>5, <1>t, <2>1, <3>1, <3>3 DEF Finish, Takes, TypeBooking
      <4>2. CASE kind[o] = "CREATE"
        BY <1>3, <2>2, <3>3, <4>1, <4>2 DEF OpFits, Takes
      <4>3. CASE kind[o] = "RESCHEDULE"
        BY <2>2, <3>3, <4>1, <4>3 DEF Moves
      <4>4. QED
        BY <1>t, <4>1, <4>2, <4>3 DEF TypeBooking, Kind
    <3>4. QED
      BY <3>2, <3>3
  <2>4. QED
    BY <2>2, <2>3, SlotsMoves, ReservedHas, ReservedHasNext
<1>6. CASE Fail(a)
  <2>1. Owns(a)
    BY <1>1, <1>2, <1>6, <1>t DEF Fail, booking
  <2>2. PICK t : status' = [status EXCEPT ![o] = t]
    BY <1>1, <1>6, <2>1 DEF Fail
  <2>3. status[o] \in Active /\ UNCHANGED <<kind, of, target, slot>>
    BY <1>1, <1>6, <2>1 DEF Fail, Owns, Active
  <2>4. \A n \in Meeting : \A r : Takes(n, r)' => Takes(n, r)
    BY <1>1, <1>6, <1>t, <2>1 DEF Fail, Takes, TypeBooking
  <2>5. QED
    BY <2>2, <2>3, <2>4, SlotsMoves, ReservedHas, ReservedHasNext
<1>7. QED
  BY <1>4, <1>5, <1>6

LEMMA SlotsInit == Init => NoDoubleBooking
BY DEF Init, NoDoubleBooking, Reserved, UnderWay, Active

LEMMA SlotsNext ==
  ASSUME BookInv, NoDoubleBooking, [Next]_vars PROVE NoDoubleBooking'
<1>1. ASSUME NEW o \in Op, Prepare(o) PROVE NoDoubleBooking'
  BY <1>1, SlotsPrepare
<1>2. ASSUME NEW a \in Applier, Claim(a) \/ Finish(a) \/ Fail(a) PROVE NoDoubleBooking'
  BY <1>2, SlotsRun
<1>3. ASSUME NEW a \in Applier,
             \/ \E o \in Op : Begin(a, o)
             \/ ReadConversation(a) \/ GetEvent(a) \/ CheckBusy(a) \/ Lock(a)
             \/ GoogleAnswers(a) \/ GoogleAnswerLost(a) \/ Throws(a) \/ Dies(a)
      PROVE  NoDoubleBooking'
  BY <1>3, QuietSteps, SlotsKept
<1>4. ASSUME \/ \E o \in Op : TimePasses(o) \/ Notified(o)
             \/ \E m \in Meeting : Interrupt(m) \/ ChangeHands(m)
      PROVE  NoDoubleBooking'
  BY <1>4, QuietSurroundings, SlotsKept
<1>5. CASE UNCHANGED vars
  BY <1>5, QuietStutter, SlotsKept
<1>6. QED
  BY <1>1, <1>2, <1>3, <1>4, <1>5 DEF Next, Step

(***************************************************************************)
(* Meetings never take the same slot, also while one of them is being      *)
(* moved, whatever fails or is applied twice (the conflict check of        *)
(* prepare).                                                               *)
(***************************************************************************)
THEOREM NothingBookedTwice == Spec => []NoDoubleBooking
<1>1. BookInv /\ NoDoubleBooking /\ [Next]_vars => NoDoubleBooking'
  BY SlotsNext
<1>2. QED
  BY <1>1, BookInit, BookNext, SlotsInit, PTL DEF Spec

-----------------------------------------------------------------------------
(* People keep the calendar: who changes it holds the conversation's lock. *)

RunsHaveLock == \A a \in Applier : RunHasLock(a)

\* What the others do does not take a run's lock, or its operation, away.
LEMMA LockKept ==
  ASSUME BookInv, NEW b \in Applier, RunHasLock(b),
         pc'[b] = pc[b], job'[b] = job[b],
         \A o \in Op : status[o] # "NONE" => status'[o] # "NONE" /\ of'[o] = of[o],
         \A m \in Meeting : lock[m] = b => lock'[m] = b /\ open'[m] = open[m]
  PROVE  RunHasLock(b)'
BY TypeParts DEF BookInv, TypeRun, TypeBooking, RunHasLock

\* A run that goes on, other than to change the calendar, is all right.
LEMMA LockNotNeeded ==
  ASSUME BookInv, NEW a \in Applier, RunHasLock(a), pc'[a] \notin {"mutating"},
         pc'[a] # "idle" => status'[job'[a]] # "NONE"
  PROVE  RunHasLock(a)'
BY DEF RunHasLock

LEMMA LockPrepare ==
  ASSUME BookInv, RunsHaveLock, NEW o \in Op, Prepare(o) PROVE RunsHaveLock'
<1>t. TypeBooking
  BY TypeParts DEF BookInv
<1>1. PICK k \in Kind, m \in Meeting, s \in Slot : Record(o, k, m, s)
  BY <1>t DEF Prepare, PrepareCreate, PrepareChange, Kind, TypeBooking
<1>2. /\ UNCHANGED <<pc, job, lock, open>>
      /\ \A p \in Op : status[p] # "NONE" => status'[p] # "NONE" /\ of'[p] = of[p]
  BY <1>1, <1>t DEF Record, run, TypeBooking
<1>3. QED
  BY <1>2, LockKept DEF RunsHaveLock

\* What a step of run a leaves to the others.
LEMMA LockOthers ==
  ASSUME BookInv, RunsHaveLock, NEW a \in Applier,
         Step(a) \/ GoogleAnswerLost(a) \/ Throws(a) \/ Dies(a) \/ \E o \in Op : Begin(a, o)
  PROVE  /\ \A b \in Applier \ {a} : RunHasLock(b)'
         /\ \A o \in Op : status[o] # "NONE" => status'[o] # "NONE" /\ of'[o] = of[o]
<1>t. TypeRun /\ TypeBooking /\ TypeWorld
  BY TypeParts DEF BookInv
<1>1. \A b \in Applier \ {a} : pc'[b] = pc[b] /\ job'[b] = job[b]
  BY <1>t DEF TypeRun, Step, Begin, Claim, ReadConversation, GetEvent, CheckBusy, Lock,
     GoogleAnswers, GoogleAnswerLost, Throws, Finish, Fail, Dies, Continue, Leave, Goto
<1>2. of' = of /\ open' = open
  BY DEF Step, Begin, Claim, ReadConversation, GetEvent, CheckBusy, Lock,
     GoogleAnswers, GoogleAnswerLost, Throws, Finish, Fail, Dies, operation, crm
<1>3. \A o \in Op : status[o] # "NONE" => status'[o] # "NONE"
  <2>1. CASE Claim(a) \/ Finish(a) \/ Fail(a)
    BY <1>t, <2>1 DEF Claim, Finish, Fail, TypeBooking
  <2>2. CASE ~(Claim(a) \/ Finish(a) \/ Fail(a))
    BY <2>2 DEF Step, Begin, ReadConversation, GetEvent, CheckBusy, Lock,
       GoogleAnswers, GoogleAnswerLost, Throws, Dies, operation
  <2>3. QED
    BY <2>1, <2>2
<1>4. \A b \in Applier \ {a}, m \in Meeting : lock[m] = b => lock'[m] = b
  <2>1. CASE Unlock(a)
    BY <2>1, <1>t DEF Unlock, TypeWorld
  <2>2. CASE Lock(a)
    BY <2>2, <1>t, Defaults DEF Lock, TypeWorld
  <2>3. CASE ~(Unlock(a) \/ Lock(a))
    BY <2>3 DEF Step, Begin, Claim, ReadConversation, GetEvent, CheckBusy,
       GoogleAnswers, GoogleAnswerLost, Throws, Finish, Fail, Dies
  <2>4. QED
    BY <2>1, <2>2, <2>3
<1>5. QED
  BY <1>1, <1>2, <1>3, <1>4, LockKept DEF RunsHaveLock

LEMMA LockRun ==
  ASSUME BookInv, RunsHaveLock, NEW a \in Applier,
         Step(a) \/ GoogleAnswerLost(a) \/ Throws(a) \/ Dies(a) \/ \E o \in Op : Begin(a, o)
  PROVE  RunsHaveLock'
<1>t. TypeRun /\ TypeBooking /\ TypeWorld /\ RunHasLock(a)
  BY TypeParts DEF BookInv, RunsHaveLock
<1>o. \A o \in Op : status[o] # "NONE" => status'[o] # "NONE" /\ of'[o] = of[o]
  BY LockOthers
<1>1. CASE \E o \in Op : Begin(a, o)
  <2>1. PICK o \in Op : Begin(a, o)
    BY <1>1
  <2>2. pc'[a] = "claiming" /\ job'[a] = o /\ status[o] # "NONE"
    BY <1>t, <2>1 DEF Begin, Goto, TypeRun, Active
  <2>3. RunHasLock(a)'
    BY <1>t, <1>o, <2>2, LockNotNeeded
  <2>4. QED
    BY <2>3, LockOthers DEF RunsHaveLock
<1>2. CASE Lock(a)
  <2>1. CASE MayMutate(job[a])
    <3>1. /\ pc'[a] = "mutating" /\ job'[a] = job[a] /\ lock'[of[job[a]]] = a
          /\ open'[of[job[a]]] /\ of' = of /\ status' = status /\ status[job[a]] # "NONE"
      BY <1>2, <1>t, <2>1 DEF Lock, MayMutate, Continue, Goto, TypeRun, TypeBooking,
         TypeWorld, crm, operation, RunHasLock
    <3>2. RunHasLock(a)'
      BY <3>1 DEF RunHasLock
    <3>3. QED
      BY <3>2, LockOthers DEF RunsHaveLock
  <2>2. CASE ~MayMutate(job[a])
    <3>1. pc'[a] = "conflicting" /\ job'[a] = job[a] /\ status[job[a]] # "NONE"
      BY <1>2, <1>t, <2>2 DEF Lock, Goto, TypeRun, RunHasLock
    <3>2. RunHasLock(a)'
      BY <1>t, <1>o, <3>1, LockNotNeeded DEF TypeRun
    <3>3. QED
      BY <3>2, LockOthers DEF RunsHaveLock
  <2>3. QED
    BY <2>1, <2>2
<1>3. CASE Finish(a) \/ Fail(a) \/ Dies(a)
  <2>1. pc'[a] = "idle"
    BY <1>3, <1>t DEF Finish, Fail, Dies, Leave, Goto, TypeRun
  <2>2. RunHasLock(a)'
    BY <1>t, <2>1, LockNotNeeded
  <2>3. QED
    BY <2>2, LockOthers DEF RunsHaveLock
<1>4. CASE \/ Claim(a) \/ ReadConversation(a) \/ GetEvent(a) \/ CheckBusy(a)
           \/ GoogleAnswers(a) \/ GoogleAnswerLost(a) \/ Throws(a)
  <2>1. /\ pc[a] # "idle" /\ pc'[a] # "mutating"
        /\ pc'[a] # "idle" => job'[a] = job[a]
    BY <1>4, <1>t DEF Claim, ReadConversation, GetEvent, AfterEvent, CheckBusy,
       GoogleAnswers, GoogleAnswerLost, Throws, Continue, Leave, Goto, TypeRun
  <2>2. RunHasLock(a)'
    BY <1>t, <1>o, <2>1, LockNotNeeded DEF RunHasLock, TypeRun
  <2>3. QED
    BY <2>2, LockOthers DEF RunsHaveLock
<1>5. QED
  BY <1>1, <1>2, <1>3, <1>4 DEF Step

LEMMA LockSurroundings ==
  ASSUME BookInv, RunsHaveLock,
         \/ \E o \in Op : TimePasses(o) \/ Notified(o)
         \/ \E m \in Meeting : Interrupt(m) \/ ChangeHands(m)
         \/ UNCHANGED vars
  PROVE  RunsHaveLock'
<1>t. TypeWorld
  BY TypeParts DEF BookInv
<1>1. UNCHANGED <<pc, job, lock, status, of>>
  BY DEF TimePasses, Notified, Interrupt, ChangeHands, vars, run, operation
<1>2. \A m \in Meeting : lock[m] # Nobody => open'[m] = open[m]
  BY <1>t DEF TimePasses, Notified, Interrupt, ChangeHands, vars, crm, TypeWorld
<1>3. QED
  BY <1>1, <1>2, Defaults, LockKept DEF RunsHaveLock

LEMMA LockInit == Init => RunsHaveLock
BY DEF Init, RunsHaveLock, RunHasLock

LEMMA LockNext == BookInv /\ RunsHaveLock /\ [Next]_vars => RunsHaveLock'
BY LockPrepare, LockRun, LockSurroundings DEF Next

(***************************************************************************)
(* Once people have taken over, Hermes does not touch the calendar (the    *)
(* lock and the checks of mutate).                                         *)
(***************************************************************************)
THEOREM HumansAreAlone == Spec => HumansKeepCalendar
<1>1. ASSUME BookInv, RunsHaveLock, [Next]_vars
      PROVE  [\A m \in Meeting : event'[m] # event[m] => open[m]]_vars
  <2>t. TypeRun /\ TypeBooking /\ TypeWorld
    BY <1>1, TypeParts DEF BookInv
  <2>1. ASSUME NEW a \in Applier, GoogleAnswers(a) \/ GoogleAnswerLost(a),
               NEW m \in Meeting, event'[m] # event[m]
        PROVE  open[m]
    <3>1. m = of[job[a]] /\ pc[a] = "mutating"
      BY <2>t, <2>1 DEF GoogleAnswers, GoogleAnswerLost, TypeWorld
    <3>2. QED
      BY <1>1, <3>1 DEF RunsHaveLock, RunHasLock
  <2>2. ASSUME ~\E a \in Applier : GoogleAnswers(a) \/ GoogleAnswerLost(a)
        PROVE  event' = event
    <3>1. CASE \E o \in Op : Prepare(o)
      BY <3>1 DEF Prepare, PrepareCreate, PrepareChange, Record
    <3>2. CASE ~\E o \in Op : Prepare(o)
      BY <1>1, <2>2, <3>2
         DEF Next, Step, TimePasses, Notified, Begin, Claim, ReadConversation, GetEvent,
             CheckBusy, Lock, Throws, Finish, Fail, Dies, Interrupt, ChangeHands, vars
    <3>3. QED
      BY <3>1, <3>2
  <2>3. QED
    BY <2>1, <2>2
<1>2. QED
  BY <1>1, BookInit, BookNext, LockInit, LockNext, PTL DEF Spec, HumansKeepCalendar

-----------------------------------------------------------------------------
(* Google's calendar and the CRM agree, if no run outlasts its claim.      *)

\* A run with a claim has the only operation of its meeting under way, and
\* nobody else has it.
LEMMA OnlyOp ==
  ASSUME BookInv, CalendarInv, NEW a \in Applier, pc[a] \in Claimed,
         NEW p \in Op, status[p] \in Active, of[p] = of[job[a]]
  PROVE  p = job[a]
BY TypeParts DEF BookInv, CalendarInv, RunKnows, Owns, OneUnderWay, TypeRun, Active

LEMMA OnlyRun ==
  ASSUME BookInv, CalendarInv, NEW a \in Applier, pc[a] \in Claimed,
         NEW b \in Applier, pc[b] \in Claimed, of[job[a]] = of[job[b]]
  PROVE  a = b
<1>1. job[a] \in Op /\ job[b] \in Op /\ Owns(a) /\ Owns(b)
  BY TypeParts DEF BookInv, TypeRun, CalendarInv, RunKnows
<1>2. status[job[b]] \in Active
  BY <1>1 DEF Owns, Active
<1>3. job[b] = job[a]
  BY <1>1, <1>2, OnlyOp
<1>4. QED
  BY <1>1, <1>3 DEF Owns

\* What a run knows stays true as long as nobody touches its operation, its
\* meeting or the event.
LEMMA KnowsKept ==
  ASSUME NEW b \in Applier, RunKnows(b), pc'[b] = pc[b], job'[b] = job[b],
         NEW o, o = job[b], NEW m, m = of[o],
         status'[o] = status[o], kind'[o] = kind[o], of'[o] = of[o],
         target'[o] = target[o], token'[o] = token[o], over'[o] = over[o],
         slot'[m] = slot[m], event'[m] = event[m]
  PROVE  RunKnows(b)'
BY DEF RunKnows, Owns, Before, After

\* Where the event of an operation may be, likewise.
LEMMA FitsKept ==
  ASSUME NEW o \in Op, EventFits(o),
         status'[o] \in Active => status[o] \in Active,
         kind'[o] = kind[o], of'[o] = of[o], target'[o] = target[o],
         slot'[of[o]] = slot[of[o]], event'[of[o]] = event[of[o]]
  PROVE  EventFits(o)'
BY DEF EventFits, Before, After

\* If neither bookings nor events change, only runs need a look.
LEMMA CalendarKept ==
  ASSUME CalendarInv, UNCHANGED booking, event' = event,
         \A a \in Applier : pc'[a] \in Claimed => RunKnows(a)'
  PROVE  CalendarInv'
<1>1. CalendarAgrees'
  BY DEF CalendarInv, CalendarAgrees, UnderWay, booking
<1>2. ASSUME NEW o \in Op PROVE EventFits(o)'
  BY FitsKept DEF CalendarInv, booking
<1>3. QED
  BY <1>1, <1>2 DEF CalendarInv

LEMMA CalendarPrepare ==
  ASSUME BookInv, CalendarInv, NEW o \in Op, Prepare(o) PROVE CalendarInv'
<1>t. TypeBooking /\ TypeRun /\ TypeWorld
  BY TypeParts DEF BookInv
<1>1. PICK k \in Kind, m \in Meeting, s \in Slot :
        /\ Record(o, k, m, s) /\ UnderWay(m) = {}
        /\ \/ k = "CREATE" /\ meeting[m] = "NONE"
           \/ k # "CREATE" /\ meeting[m] = "CONFIRMED" /\ slot' = slot
        /\ \A n \in Meeting \ {m} : meeting'[n] = meeting[n] /\ slot'[n] = slot[n]
  <2>1. ASSUME NEW m \in Meeting, NEW s \in Slot, PrepareCreate(o, m, s)
        PROVE  /\ Record(o, "CREATE", m, s) /\ UnderWay(m) = {} /\ meeting[m] = "NONE"
               /\ \A n \in Meeting \ {m} : meeting'[n] = meeting[n] /\ slot'[n] = slot[n]
    BY <2>1, <1>t, NoneHasNone DEF PrepareCreate, TypeBooking
  <2>2. ASSUME NEW m \in Meeting, PrepareChange(o, m)
        PROVE  /\ UnderWay(m) = {} /\ meeting[m] = "CONFIRMED"
               /\ UNCHANGED <<meeting, slot>>
               /\ \E k \in {"CANCEL", "RESCHEDULE"}, s \in Slot : Record(o, k, m, s)
    BY <2>2, <1>t DEF PrepareChange, Changeable, TypeBooking
  <2>3. CASE \E m \in Meeting, s \in Slot : PrepareCreate(o, m, s)
    BY <2>1, <2>3 DEF Kind
  <2>4. CASE \E m \in Meeting : PrepareChange(o, m)
    BY <2>2, <2>4 DEF Kind
  <2>5. QED
    BY <2>3, <2>4 DEF Prepare
<1>2. /\ \A p \in Op \ {o} : /\ status'[p] = status[p] /\ kind'[p] = kind[p]
                             /\ of'[p] = of[p] /\ target'[p] = target[p]
                             /\ status[p] \in Active => of[p] # m
      /\ status'[o] = "PREPARED" /\ kind'[o] = k /\ of'[o] = m /\ target'[o] = s
  BY <1>1, RecordKeepsOne
<1>3. UNCHANGED <<event, token, over, pc, job>> /\ status[o] = "NONE"
  BY <1>1 DEF Record, run
<1>4. event[m] = IF meeting[m] = "CONFIRMED" THEN slot[m] ELSE NoSlot
  BY <1>1 DEF CalendarInv, CalendarAgrees
<1>5. ASSUME NEW n \in Meeting, UnderWay(n)' = {}
      PROVE  event'[n] = IF meeting'[n] = "CONFIRMED" THEN slot'[n] ELSE NoSlot
  <2>1. n # m
    BY <1>2, <1>5 DEF UnderWay, Active
  <2>2. UnderWay(n) = {}
    BY <1>2, <1>3, <1>5 DEF UnderWay, Active
  <2>3. QED
    BY <1>1, <1>3, <2>1, <2>2 DEF CalendarInv, CalendarAgrees
<1>6. ASSUME NEW p \in Op PROVE EventFits(p)'
  <2>1. CASE p = o
    BY <1>1, <1>2, <1>3, <1>4, <2>1 DEF EventFits, Before
  <2>2. CASE p # o /\ status[p] \in Active
    <3>1. slot'[of[p]] = slot[of[p]]
      BY <1>1, <1>2, <1>t, <2>2 DEF TypeBooking
    <3>2. EventFits(p)
      BY DEF CalendarInv
    <3>3. QED
      BY <1>2, <1>3, <2>2, <3>1, <3>2, FitsKept
  <2>3. CASE p # o /\ status[p] \notin Active
    BY <1>2, <2>3 DEF EventFits
  <2>4. QED
    BY <2>1, <2>2, <2>3
<1>7. ASSUME NEW b \in Applier, pc'[b] \in Claimed PROVE RunKnows(b)'
  <2>1. PICK p \in Op : p = job[b]
    BY <1>t DEF TypeRun
  <2>2. RunKnows(b) /\ pc'[b] = pc[b] /\ job'[b] = job[b]
    BY <1>3, <1>7 DEF CalendarInv
  <2>3. status[p] = "APPLYING"
    BY <2>1, <2>2 DEF RunKnows, Owns
  <2>4. p # o /\ of[p] # m /\ of[p] \in Meeting
    BY <1>2, <1>3, <1>t, <2>3 DEF Active, TypeBooking
  <2>5. slot'[of[p]] = slot[of[p]]
    BY <1>1, <2>4
  <2>6. QED
    BY <1>2, <1>3, <2>1, <2>2, <2>4, <2>5, KnowsKept
<1>8. QED
  BY <1>5, <1>6, <1>7 DEF CalendarInv, CalendarAgrees

LEMMA CalendarClaim ==
  ASSUME BookInv, CalendarInv, NEW a \in Applier, Claim(a) PROVE CalendarInv'
<1>t. TypeBooking /\ TypeRun /\ TypeClaims
  BY TypeParts DEF BookInv
<1>1. PICK o \in Op : o = job[a]
  BY <1>t DEF TypeRun
<1>2. UNCHANGED <<meeting, slot, event, kind, of, target>>
  BY DEF Claim, crm
<1>3. \A b \in Applier \ {a} : pc'[b] = pc[b] /\ job'[b] = job[b]
  BY <1>t DEF Claim, Leave, Goto, TypeRun
<1>4. CASE Due(o)
  <2>1. /\ status' = [status EXCEPT ![o] = "APPLYING"]
        /\ token' = [token EXCEPT ![o] = a]
        /\ over' = [over EXCEPT ![o] = FALSE]
        /\ pc'[a] = "looking" /\ job'[a] = o /\ status[o] \in Active
    BY <1>1, <1>4, <1>t DEF Claim, Goto, TypeRun, Due, Active
  <2>2. ASSUME NEW m \in Meeting, UnderWay(m)' = {} PROVE UnderWay(m) = {}
    BY <1>2, <1>t, <2>1, <2>2 DEF UnderWay, TypeBooking, Active
  <2>3. CalendarAgrees'
    BY <1>2, <2>2 DEF CalendarInv, CalendarAgrees
  <2>4. ASSUME NEW p \in Op PROVE EventFits(p)'
    <3>1. status'[p] \in Active => status[p] \in Active
      BY <1>t, <2>1 DEF TypeBooking
    <3>2. QED
      BY <1>2, <3>1, FitsKept DEF CalendarInv
  <2>5. ASSUME NEW b \in Applier, pc'[b] \in Claimed PROVE RunKnows(b)'
    <3>1. CASE b = a
      BY <1>t, <2>1, <3>1 DEF RunKnows, Owns, TypeBooking, TypeClaims
    <3>2. CASE b # a
      <4>1. RunKnows(b) /\ pc'[b] = pc[b] /\ job'[b] = job[b]
        BY <1>3, <2>5, <3>2 DEF CalendarInv
      <4>2. PICK p \in Op : p = job[b]
        BY <1>t DEF TypeRun
      <4>3. p # o
        BY <1>4, <4>1, <4>2 DEF Due, RunKnows, Owns
      <4>4. status'[p] = status[p] /\ token'[p] = token[p] /\ over'[p] = over[p]
        BY <1>t, <2>1, <4>3 DEF TypeBooking, TypeClaims
      <4>5. QED
        BY <1>2, <4>1, <4>2, <4>4, KnowsKept
    <3>3. QED
      BY <3>1, <3>2
  <2>6. QED
    BY <2>3, <2>4, <2>5 DEF CalendarInv
<1>5. CASE ~Due(o)
  <2>1. UNCHANGED <<status, token, over>> /\ pc'[a] = "idle"
    BY <1>1, <1>5, <1>t DEF Claim, Leave, Goto, TypeRun
  <2>2. UNCHANGED booking
    BY <1>2, <2>1 DEF booking
  <2>3. ASSUME NEW b \in Applier, pc'[b] \in Claimed PROVE RunKnows(b)'
    BY <1>2, <1>3, <2>1, <2>3, KnowsKept DEF CalendarInv, Claimed
  <2>4. QED
    BY <1>2, <2>2, <2>3, CalendarKept
<1>6. QED
  BY <1>4, <1>5

\* Steps of a run that read, wait, fail or end without writing.
LEMMA CalendarQuiet ==
  ASSUME BookInv, CalendarInv, NEW a \in Applier,
         \/ \E o \in Op : Begin(a, o)
         \/ ReadConversation(a) \/ GetEvent(a) \/ CheckBusy(a) \/ Lock(a)
         \/ Throws(a) \/ Dies(a)
  PROVE  CalendarInv'
<1>t. TypeBooking /\ TypeRun
  BY TypeParts DEF BookInv
<1>1. UNCHANGED booking
  BY QuietSteps
<1>2. UNCHANGED <<event, status, kind, of, target, token, over, slot, meeting>>
  BY DEF Begin, ReadConversation, GetEvent, CheckBusy, Lock, Throws, Dies, crm, operation
<1>3. \A b \in Applier \ {a} : pc'[b] = pc[b] /\ job'[b] = job[b]
  BY <1>t DEF Begin, ReadConversation, GetEvent, CheckBusy, Lock, Throws, Dies,
     Continue, Leave, Goto, TypeRun
<1>4. PICK o \in Op : o = job[a]
  BY <1>t DEF TypeRun
<1>5. EventFits(o) /\ (pc[a] \in Claimed => RunKnows(a))
  BY DEF CalendarInv
<1>6. ASSUME pc'[a] \in Claimed PROVE RunKnows(a)'
  <2>1. pc[a] \in Claimed /\ job'[a] = o
    BY <1>4, <1>6, <1>t DEF Begin, ReadConversation, GetEvent, CheckBusy, Lock, Throws,
       Dies, Continue, Leave, Goto, TypeRun, Claimed
  <2>2. Owns(a) /\ ~over[o] /\ status[o] \in Active
    BY <1>4, <1>5, <2>1 DEF RunKnows, Owns, Active
  <2>3. Owns(a)' /\ ~over'[o]
    BY <1>2, <1>4, <2>1, <2>2 DEF Owns
  <2>4. event[of[o]] \in {Before(o), After(o)}
    BY <1>5, <2>2 DEF EventFits
  <2>5. Before(o)' = Before(o) /\ After(o)' = After(o)
    BY <1>2 DEF Before, After
  <2>6. CASE GetEvent(a)
    <3>1. pc'[a] = AfterEvent(o, event[of[o]])
      BY <1>4, <1>t, <2>6 DEF GetEvent, Continue, Goto, TypeRun
    <3>2. pc'[a] = "finishing" => event[of[o]] = After(o)
      BY <3>1 DEF AfterEvent, After
    <3>3. pc'[a] \in {"checking", "locking", "mutating", "conflicting"} => event[of[o]] = Before(o)
      BY <1>t, <2>4, <3>1 DEF AfterEvent, After, Before, TypeBooking, Kind
    <3>4. QED
      BY <1>2, <1>4, <2>1, <2>3, <2>5, <3>2, <3>3 DEF RunKnows
  <2>7. CASE CheckBusy(a) \/ Lock(a)
    <3>1. /\ pc[a] \in {"checking", "locking"}
          /\ pc'[a] \in {"locking", "mutating", "conflicting"}
      BY <1>t, <2>7 DEF CheckBusy, Lock, Continue, Goto, TypeRun
    <3>2. event[of[o]] = Before(o)
      BY <1>4, <1>5, <2>1, <3>1 DEF RunKnows
    <3>3. QED
      BY <1>2, <1>4, <2>1, <2>3, <2>5, <3>1, <3>2 DEF RunKnows
  <2>8. CASE ReadConversation(a) \/ Throws(a)
    <3>1. pc'[a] \in {"reading", "retrying"}
      BY <1>t, <2>8 DEF ReadConversation, Throws, Continue, Goto, TypeRun
    <3>2. QED
      BY <1>4, <2>1, <2>3, <3>1 DEF RunKnows
  <2>9. CASE Dies(a) \/ \E p \in Op : Begin(a, p)
    BY <1>6, <1>t, <2>9 DEF Dies, Begin, Leave, Goto, TypeRun, Claimed
  <2>10. QED
    BY <2>6, <2>7, <2>8, <2>9
<1>7. ASSUME NEW b \in Applier, pc'[b] \in Claimed PROVE RunKnows(b)'
  <2>1. CASE b = a
    BY <1>6, <1>7, <2>1
  <2>2. CASE b # a
    BY <1>2, <1>3, <1>7, <2>2, KnowsKept DEF CalendarInv
  <2>3. QED
    BY <2>1, <2>2
<1>8. QED
  BY <1>1, <1>2, <1>7, CalendarKept

\* The request changes the event from where it was to where it should be.
LEMMA CalendarGoogle ==
  ASSUME BookInv, CalendarInv, NEW a \in Applier, GoogleAnswers(a) \/ GoogleAnswerLost(a)
  PROVE  CalendarInv'
<1>t. TypeBooking /\ TypeRun /\ TypeWorld
  BY TypeParts DEF BookInv
<1>1. PICK o \in Op, m \in Meeting : o = job[a] /\ m = of[o]
  BY <1>t DEF TypeRun, TypeBooking
<1>2. /\ pc[a] = "mutating" /\ pc[a] \in Claimed
      /\ UNCHANGED <<status, kind, of, target, token, over, slot, meeting>>
  BY DEF GoogleAnswers, GoogleAnswerLost, crm, operation, Claimed
<1>3. RunKnows(a) /\ status[o] \in Active /\ event[m] = Before(o)
  BY <1>1, <1>2 DEF CalendarInv, RunKnows, Owns, Active
<1>4. /\ event'[m] = After(o)
      /\ \A n \in Meeting \ {m} : event'[n] = event[n]
  BY <1>1, <1>3, <1>t, NamesAssumption
     DEF GoogleAnswers, GoogleAnswerLost, Before, After, TypeWorld, TypeBooking, Kind
<1>5. \A b \in Applier \ {a} : pc'[b] = pc[b] /\ job'[b] = job[b]
  BY <1>t DEF GoogleAnswers, GoogleAnswerLost, Continue, Goto, TypeRun
<1>6. CalendarAgrees'
  <2>1. SUFFICES ASSUME NEW n \in Meeting, UnderWay(n)' = {}
                 PROVE  event'[n] = IF meeting'[n] = "CONFIRMED" THEN slot'[n] ELSE NoSlot
    BY DEF CalendarAgrees
  <2>2. UnderWay(n) = {}
    BY <1>2, <2>1 DEF UnderWay
  <2>3. n # m
    BY <1>1, <1>3, <2>2 DEF UnderWay
  <2>4. QED
    BY <1>2, <1>4, <2>2, <2>3 DEF CalendarInv, CalendarAgrees
<1>7. ASSUME NEW p \in Op PROVE EventFits(p)'
  <2>1. CASE p = o
    BY <1>1, <1>2, <1>4, <2>1 DEF EventFits, After
  <2>2. CASE p # o /\ status[p] \in Active
    <3>1. of[p] # m /\ of[p] \in Meeting
      BY <1>1, <1>2, <1>t, <2>2, OnlyOp DEF TypeBooking
    <3>2. QED
      BY <1>2, <1>4, <3>1, FitsKept DEF CalendarInv
  <2>3. CASE status[p] \notin Active
    BY <1>2, <2>3 DEF EventFits
  <2>4. QED
    BY <2>1, <2>2, <2>3
<1>8. ASSUME NEW b \in Applier, pc'[b] \in Claimed PROVE RunKnows(b)'
  <2>1. CASE b = a
    <3>1. pc'[a] \in {"finishing", "retrying"} /\ job'[a] = o
      BY <1>1, <1>t DEF GoogleAnswers, GoogleAnswerLost, Continue, Goto, TypeRun
    <3>2. Owns(a)' /\ ~over'[o] /\ event'[of'[o]] = After(o)'
      BY <1>1, <1>2, <1>3, <1>4, <3>1 DEF RunKnows, Owns, After
    <3>3. QED
      BY <2>1, <3>1, <3>2 DEF RunKnows
  <2>2. CASE b # a
    <3>1. RunKnows(b) /\ pc[b] \in Claimed /\ job[b] \in Op
      BY <1>5, <1>8, <1>t, <2>2 DEF CalendarInv, TypeRun
    <3>2. of[job[b]] # m /\ of[job[b]] \in Meeting
      BY <1>1, <1>2, <1>t, <2>2, <3>1, OnlyRun DEF TypeBooking
    <3>3. event'[of[job[b]]] = event[of[job[b]]]
      BY <1>4, <3>2
    <3>4. QED
      BY <1>2, <1>5, <2>2, <3>1, <3>3, KnowsKept
  <2>3. QED
    BY <2>1, <2>2
<1>9. QED
  BY <1>6, <1>7, <1>8 DEF CalendarInv

\* Finish and Fail write one operation and its meeting.
LEMMA CalendarWrite ==
  ASSUME BookInv, CalendarInv, NEW a \in Applier, pc[a] \in Claimed, pc'[a] = "idle",
         NEW o \in Op, o = job[a], NEW m \in Meeting, m = of[o],
         event' = event, UNCHANGED <<kind, of, target>>,
         \A p \in Op \ {o} : status'[p] = status[p] /\ token'[p] = token[p] /\ over'[p] = over[p],
         \A n \in Meeting \ {m} : meeting'[n] = meeting[n] /\ slot'[n] = slot[n],
         \A b \in Applier \ {a} : pc'[b] = pc[b] /\ job'[b] = job[b],
         status'[o] \in Active => meeting'[m] = meeting[m] /\ slot'[m] = slot[m],
         status'[o] \notin Active =>
           event[m] = IF meeting'[m] = "CONFIRMED" THEN slot'[m] ELSE NoSlot
  PROVE  CalendarInv'
<1>t. TypeBooking /\ TypeRun
  BY TypeParts DEF BookInv
<1>1. status[o] \in Active
  BY DEF CalendarInv, RunKnows, Owns, Active
<1>2. CalendarAgrees'
  <2>1. SUFFICES ASSUME NEW n \in Meeting, UnderWay(n)' = {}
                 PROVE  event'[n] = IF meeting'[n] = "CONFIRMED" THEN slot'[n] ELSE NoSlot
    BY DEF CalendarAgrees
  <2>2. CASE n = m
    BY <2>1, <2>2 DEF UnderWay
  <2>3. CASE n # m
    <3>1. UnderWay(n) = {}
      BY <2>1, <2>3 DEF UnderWay
    <3>2. QED
      BY <2>3, <3>1 DEF CalendarInv, CalendarAgrees
  <2>4. QED
    BY <2>2, <2>3
<1>3. ASSUME NEW p \in Op PROVE EventFits(p)'
  <2>1. EventFits(p) /\ of[p] \in Meeting
    BY <1>t DEF CalendarInv, TypeBooking
  <2>2. CASE p = o
    BY <1>1, <2>1, <2>2, FitsKept DEF EventFits
  <2>3. CASE p # o /\ status[p] \in Active
    <3>1. of[p] # m
      BY <2>3, OnlyOp
    <3>2. QED
      BY <2>1, <2>3, <3>1, FitsKept
  <2>4. CASE p # o /\ status[p] \notin Active
    BY <2>4 DEF EventFits
  <2>5. QED
    BY <2>2, <2>3, <2>4
<1>4. ASSUME NEW b \in Applier, pc'[b] \in Claimed PROVE RunKnows(b)'
  <2>1. b # a
    BY <1>4 DEF Claimed
  <2>2. RunKnows(b) /\ pc[b] \in Claimed /\ job[b] \in Op
    BY <1>4, <1>t, <2>1 DEF CalendarInv, TypeRun
  <2>3. of[job[b]] # m /\ of[job[b]] \in Meeting
    BY <1>t, <2>1, <2>2, OnlyRun DEF TypeBooking
  <2>4. QED
    BY <2>1, <2>2, <2>3, KnowsKept
<1>5. QED
  BY <1>2, <1>3, <1>4 DEF CalendarInv

LEMMA CalendarFinish ==
  ASSUME BookInv, CalendarInv, NEW a \in Applier, Finish(a) PROVE CalendarInv'
<1>t. TypeBooking /\ TypeRun /\ TypeClaims
  BY TypeParts DEF BookInv
<1>1. PICK o \in Op, m \in Meeting : o = job[a] /\ m = of[o]
  BY <1>t DEF TypeRun, TypeBooking
<1>2. pc[a] \in Claimed /\ pc'[a] = "idle"
  BY <1>t DEF Finish, Leave, Goto, TypeRun, Claimed
<1>3. Owns(a) /\ event[m] = After(o)
  BY <1>1, <1>2 DEF CalendarInv, RunKnows, Finish
<1>4. event' = event /\ UNCHANGED <<kind, of, target>>
  BY DEF Finish
<1>5. \A p \in Op \ {o} : status'[p] = status[p] /\ token'[p] = token[p] /\ over'[p] = over[p]
  BY <1>1, <1>3, <1>t DEF Finish, TypeBooking, TypeClaims
<1>6. \A n \in Meeting \ {m} : meeting'[n] = meeting[n] /\ slot'[n] = slot[n]
  BY <1>1, <1>3, <1>t DEF Finish, TypeBooking
<1>7. \A b \in Applier \ {a} : pc'[b] = pc[b] /\ job'[b] = job[b]
  BY <1>t DEF Finish, Leave, Goto, TypeRun
<1>8. /\ status'[o] \notin Active
      /\ event[m] = IF meeting'[m] = "CONFIRMED" THEN slot'[m] ELSE NoSlot
  BY <1>1, <1>3, <1>t DEF Finish, TypeBooking, Active, After
<1>9. QED
  BY <1>1, <1>2, <1>4, <1>5, <1>6, <1>7, <1>8, CalendarWrite

LEMMA CalendarFail ==
  ASSUME BookInv, CalendarInv, NEW a \in Applier, Fail(a) PROVE CalendarInv'
<1>t. TypeBooking /\ TypeRun /\ TypeClaims
  BY TypeParts DEF BookInv
<1>1. PICK o \in Op, m \in Meeting : o = job[a] /\ m = of[o]
  BY <1>t DEF TypeRun, TypeBooking
<1>2. pc[a] \in Claimed /\ pc'[a] = "idle"
  BY <1>t DEF Fail, Leave, Goto, TypeRun, Claimed
<1>3. Owns(a) /\ (pc[a] = "conflicting" => event[m] = Before(o))
  BY <1>1, <1>2 DEF CalendarInv, RunKnows
<1>4. event' = event /\ UNCHANGED <<kind, of, target, slot>>
  BY DEF Fail
<1>5. \A p \in Op \ {o} : status'[p] = status[p] /\ token'[p] = token[p] /\ over'[p] = over[p]
  BY <1>1, <1>3, <1>t DEF Fail, TypeBooking, TypeClaims
<1>6. \A n \in Meeting \ {m} : meeting'[n] = meeting[n]
  BY <1>1, <1>3, <1>t DEF Fail, TypeBooking
<1>7. \A b \in Applier \ {a} : pc'[b] = pc[b] /\ job'[b] = job[b]
  BY <1>t DEF Fail, Leave, Goto, TypeRun
<1>8. OpFits(o) /\ status[o] \in Active
  BY <1>1, <1>3 DEF BookInv, Owns, Active
<1>9. CASE pc[a] = "conflicting"
  <2>1. /\ status'[o] \notin Active
        /\ meeting'[m] = IF kind[o] = "CREATE" THEN "FAILED" ELSE meeting[m]
    BY <1>1, <1>3, <1>9, <1>t DEF Fail, TypeBooking, Active
  <2>2. event[m] = IF meeting'[m] = "CONFIRMED" THEN slot'[m] ELSE NoSlot
    BY <1>1, <1>3, <1>4, <1>8, <1>9, <2>1 DEF Before, OpFits
  <2>3. QED
    BY <1>1, <1>2, <1>4, <1>5, <1>6, <1>7, <2>1, <2>2, CalendarWrite
<1>10. CASE pc[a] # "conflicting"
  <2>1. status'[o] \in Active /\ meeting'[m] = meeting[m]
    BY <1>1, <1>3, <1>10, <1>t DEF Fail, TypeBooking, Active
  <2>2. QED
    BY <1>1, <1>2, <1>4, <1>5, <1>6, <1>7, <2>1, CalendarWrite
<1>11. QED
  BY <1>9, <1>10

\* The claim of a run that goes on does not expire.
LEMMA CalendarSurroundings ==
  ASSUME LeaseOutlivesRun, BookInv, CalendarInv,
         \/ \E o \in Op : TimePasses(o) \/ Notified(o)
         \/ \E m \in Meeting : Interrupt(m) \/ ChangeHands(m)
         \/ UNCHANGED vars
  PROVE  CalendarInv'
<1>t. TypeRun /\ TypeClaims
  BY TypeParts DEF BookInv
<1>1. UNCHANGED <<event, pc, job, token>> /\ UNCHANGED booking
  BY QuietSurroundings, QuietStutter
     DEF TimePasses, Notified, Interrupt, ChangeHands, vars, run, operation
<1>2. ASSUME NEW b \in Applier, pc[b] \in Claimed PROVE over'[job[b]] = over[job[b]]
  <2>1. Owns(b) /\ job[b] \in Op
    BY <1>2, <1>t DEF CalendarInv, RunKnows, TypeRun
  <2>2. ASSUME NEW o \in Op, TimePasses(o) PROVE over'[job[b]] = over[job[b]]
    <3>1. o # job[b]
      BY <1>2, <2>1, <2>2 DEF TimePasses, Running, Owns
    <3>2. QED
      BY <1>t, <2>1, <2>2, <3>1 DEF TimePasses, TypeClaims
  <2>3. CASE ~\E o \in Op : TimePasses(o)
    BY <2>3 DEF Notified, Interrupt, ChangeHands, vars, operation
  <2>4. QED
    BY <2>2, <2>3
<1>3. ASSUME NEW b \in Applier, pc'[b] \in Claimed PROVE RunKnows(b)'
  BY <1>1, <1>2, <1>3, KnowsKept DEF CalendarInv, booking
<1>4. QED
  BY <1>1, <1>3, CalendarKept

LEMMA CalendarInit == Init => CalendarInv
BY DEF Init, CalendarInv, CalendarAgrees, EventFits, Claimed, Active

LEMMA CalendarNext ==
  ASSUME LeaseOutlivesRun, BookInv, CalendarInv, [Next]_vars PROVE CalendarInv'
<1>1. ASSUME NEW o \in Op, Prepare(o) PROVE CalendarInv'
  BY <1>1, CalendarPrepare
<1>2. ASSUME NEW a \in Applier,
             Claim(a) \/ GoogleAnswers(a) \/ GoogleAnswerLost(a) \/ Finish(a) \/ Fail(a)
      PROVE  CalendarInv'
  BY <1>2, CalendarClaim, CalendarGoogle, CalendarFinish, CalendarFail
<1>3. ASSUME NEW a \in Applier,
             \/ \E o \in Op : Begin(a, o)
             \/ ReadConversation(a) \/ GetEvent(a) \/ CheckBusy(a) \/ Lock(a)
             \/ Throws(a) \/ Dies(a)
      PROVE  CalendarInv'
  BY <1>3, CalendarQuiet
<1>4. ASSUME \/ \E o \in Op : TimePasses(o) \/ Notified(o)
             \/ \E m \in Meeting : Interrupt(m) \/ ChangeHands(m)
             \/ UNCHANGED vars
      PROVE  CalendarInv'
  BY <1>4, CalendarSurroundings
<1>5. QED
  BY <1>1, <1>2, <1>3, <1>4 DEF Next, Step

(***************************************************************************)
(* If no run of apply outlasts its claim, a meeting that no operation is   *)
(* working on is in Google's calendar exactly where the CRM says, whatever *)
(* throws, dies or is applied again (apply and recover).                   *)
(***************************************************************************)
THEOREM CalendarCorrect == LeaseOutlivesRun => (Spec => []CalendarInv)
<1>1. SUFFICES ASSUME LeaseOutlivesRun PROVE Spec => []CalendarInv
  OBVIOUS
<1>2. BookInv /\ CalendarInv /\ [Next]_vars => CalendarInv'
  BY <1>1, CalendarNext
<1>3. QED
  BY <1>2, BookInit, BookNext, CalendarInit, PTL DEF Spec

(***************************************************************************)
(* The same without what makes it inductive: no event nobody knows of, and *)
(* no confirmation of one that is not there (apply and recover).           *)
(***************************************************************************)
THEOREM GoogleAndCrmAgree == LeaseOutlivesRun => (Spec => []CalendarAgrees)
<1>1. CalendarInv => CalendarAgrees
  BY DEF CalendarInv
<1>2. QED
  BY <1>1, CalendarCorrect, PTL
=============================================================================
