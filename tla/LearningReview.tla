---------------------------- MODULE LearningReview ----------------------------
(***************************************************************************)
(* What Hermes learns from bad feedback and incidents                       *)
(* (learning/conversation-review.service.ts, feedback/feedback.service.ts): *)
(* a review is scheduled once, a worker asks a model for a lesson, and      *)
(* operators decide on the lesson.  Between two actions of a schedule, a    *)
(* run or a decision is an await.                                           *)
(*                                                                         *)
(* Left out: what lessons say; when an approval expires and the shadow      *)
(* matches of the lessons, for they are only logged.                        *)
(***************************************************************************)
EXTENDS Naturals, FiniteSets

CONSTANTS
  Complaint,    \* reviewKey: a BAD feedback, or an incident of a message
  Lesson,       \* fingerprints of what a model may propose
  Supervisor,   \* who decides
  DailyLimit,   \* LEARNING_REVIEW_DAILY_LIMIT, on one day
  PausedAt,     \* failures of the last hour that pause the reviews
  NoComplaint, NoLesson,
  MaxAccidents  \* bound: failures of the database and of processes

ASSUME LearningAssumption ==
  /\ NoComplaint \notin Complaint /\ NoLesson \notin Lesson
  /\ DailyLimit \in Nat /\ PausedAt \in Nat /\ MaxAccidents \in Nat

VARIABLES
  review,     \* ConversationReview; stale: processingAt is ten minutes old
  request,    \* per complaint: the run of scheduleBadFeedback or scheduleIncident
  reviewJob,  \* per complaint: its BullMQ job, the failed attempts, whether it has stalled
  reviewRun,  \* the worker (concurrency 1)
  lesson,     \* LearningItem
  evidence,   \* LearningEvidence: the complaints a lesson was learnt from
  decision,   \* per supervisor: the run of decide
  asked,      \* history: per complaint, how often the model was asked
  accidents

learnVars == <<review, request, reviewJob, reviewRun, lesson, evidence, decision, asked, accidents>>

\* attempts of the row, and defaultJobOptions.attempts of the queue.
MaxReviews == 3

ReviewStatus == {"none", "PENDING", "PROCESSING", "PROPOSED", "NO_LEARNING", "FAILED"}
LessonStatus == {"none", "PROPOSED", "ACTIVE", "REJECTED", "RETIRED"}
Decision == {"APPROVE", "REJECT", "RETIRE"}

NoReview == [status |-> "none", attempts |-> 0, stale |-> FALSE]
NoReviewJob == [state |-> "absent", made |-> 0, stalled |-> FALSE]
ReviewerIdle == [step |-> "idle", of |-> NoComplaint, found |-> NoLesson]
Undecided == [step |-> "idle", on |-> NoLesson, action |-> "APPROVE"]

LearnTypeOK ==
  /\ review \in [Complaint -> [status : ReviewStatus, attempts : 0..MaxReviews, stale : BOOLEAN]]
  /\ request \in [Complaint -> {"idle", "create", "enqueue"}]
  /\ reviewJob \in [Complaint -> [state : {"absent", "waiting", "active", "completed", "failed"},
                                  made : 0..MaxReviews, stalled : BOOLEAN]]
  /\ reviewRun \in [step : {"idle", "read", "ask", "propose", "fail"},
                    of : Complaint \union {NoComplaint}, found : Lesson \union {NoLesson}]
  /\ lesson \in [Lesson -> LessonStatus]
  /\ evidence \in [Lesson -> SUBSET Complaint]
  /\ decision \in [Supervisor -> [step : {"idle", "write"}, on : Lesson \union {NoLesson},
                                  action : Decision]]
  /\ asked \in [Complaint -> Nat]
  /\ accidents \in 0..MaxAccidents

LearnInit ==
  /\ review = [f \in Complaint |-> NoReview]
  /\ request = [f \in Complaint |-> "idle"]
  /\ reviewJob = [f \in Complaint |-> NoReviewJob]
  /\ reviewRun = ReviewerIdle
  /\ lesson = [l \in Lesson |-> "none"]
  /\ evidence = [l \in Lesson |-> {}]
  /\ decision = [s \in Supervisor |-> Undecided]
  /\ asked = [f \in Complaint |-> 0]
  /\ accidents = 0

Accident == accidents < MaxAccidents /\ accidents' = accidents + 1

--------------------------------------------------------------------------------
(* Scheduling: scheduleBadFeedback, again when its request is repeated, and *)
(* scheduleIncident, again when the turn is.                                *)

Requested(f, step) == request' = [request EXCEPT ![f] = step]
OnlyRequests == UNCHANGED <<reviewRun, lesson, evidence, decision, asked>>

\* pausedByErrors, where failures of more than an hour ago do not count, and the daily limit.
\* (A request whose review has gone on changes nothing and is left out.)
RequestReview(f) ==
  /\ request[f] = "idle" /\ review[f].status \in {"none", "PENDING"}
  /\ \E recent \in SUBSET {g \in Complaint : review[g].status = "FAILED"} :
       Cardinality(recent) < PausedAt
  /\ Cardinality({g \in Complaint : review[g].status # "none"}) < DailyLimit
  /\ Requested(f, "create")
  /\ OnlyRequests /\ UNCHANGED <<review, reviewJob, accidents>>

\* The upsert by reviewKey.
CreateReview(f) ==
  /\ request[f] = "create"
  /\ review' = IF review[f].status = "none" THEN [review EXCEPT ![f].status = "PENDING"] ELSE review
  /\ Requested(f, IF review'[f].status = "PENDING" THEN "enqueue" ELSE "idle")
  /\ OnlyRequests /\ UNCHANGED <<reviewJob, accidents>>

\* BullMQ has at most one job of a jobId, whatever became of it.
Add(f) ==
  reviewJob' = IF reviewJob[f].state = "absent"
               THEN [reviewJob EXCEPT ![f] = [NoReviewJob EXCEPT !.state = "waiting"]]
               ELSE reviewJob

EnqueueReview(f) ==
  /\ request[f] = "enqueue"
  /\ Add(f) /\ Requested(f, "idle")
  /\ OnlyRequests /\ UNCHANGED <<review, accidents>>

RequestFails(f) ==
  /\ request[f] # "idle" /\ Requested(f, "idle") /\ Accident
  /\ OnlyRequests /\ UNCHANGED <<review, reviewJob>>

\* onModuleInit, of any process that starts.
EnqueuePending(f) ==
  /\ review[f].status = "PENDING" /\ Add(f)
  /\ OnlyRequests /\ UNCHANGED <<review, request, accidents>>

--------------------------------------------------------------------------------
(* The worker: process.                                                     *)

Reviewing(f, step) == reviewRun.of = f /\ reviewRun.step = step
GoOnReviewing(step) == reviewRun' = [reviewRun EXCEPT !.step = step]

\* fault: only the queue counts the attempts
ReviewableAgain(f) ==
  \/ review[f].status \in {"PENDING", "FAILED"}
  \/ review[f].status = "PROCESSING" /\ review[f].stale

Reviewable(f) ==
  /\ review[f].attempts < MaxReviews
  /\ \/ review[f].status \in {"PENDING", "FAILED"}
     \/ review[f].status = "PROCESSING" /\ review[f].stale

\* A job that can claim nothing is complete.
ClaimReview(f) ==
  /\ reviewRun = ReviewerIdle /\ reviewJob[f].state = "waiting"
  /\ IF Reviewable(f)
     THEN /\ review' = [review EXCEPT ![f] =
                          [status |-> "PROCESSING", stale |-> FALSE,
                           attempts |-> IF @.attempts < MaxReviews THEN @.attempts + 1
                                        ELSE @.attempts]]
          /\ reviewJob' = [reviewJob EXCEPT ![f].state = "active"]
          /\ reviewRun' = [ReviewerIdle EXCEPT !.step = "read", !.of = f]
     ELSE reviewJob' = [reviewJob EXCEPT ![f].state = "completed"]
          /\ UNCHANGED <<review, reviewRun>>
  /\ UNCHANGED <<request, lesson, evidence, decision, asked, accidents>>

\* Ends the run and its job; the row is written by its id.
EndReview(f, status) ==
  /\ review' = [review EXCEPT ![f].status = status]
  /\ reviewJob' = [reviewJob EXCEPT ![f].state = "completed"]
  /\ reviewRun' = ReviewerIdle

\* The feedback, the message or the window of evidence is missing, or it is read.
ReadEvidence(f) ==
  /\ Reviewing(f, "read")
  /\ \/ EndReview(f, "NO_LEARNING")
     \/ GoOnReviewing("ask") /\ UNCHANGED <<review, reviewJob>>
  /\ UNCHANGED <<request, lesson, evidence, decision, asked, accidents>>

\* model.review: a lesson, none, or no usable output.
AskModel(f) ==
  /\ Reviewing(f, "ask")
  /\ asked' = [asked EXCEPT ![f] = @ + 1]
  /\ \/ EndReview(f, "NO_LEARNING")
     \/ \E l \in Lesson : reviewRun' = [reviewRun EXCEPT !.step = "propose", !.found = l]
        /\ UNCHANGED <<review, reviewJob>>
     \/ GoOnReviewing("fail") /\ UNCHANGED <<review, reviewJob>>
  /\ UNCHANGED <<request, lesson, evidence, decision, accidents>>

\* The upsert by fingerprint: a lesson that is known keeps its status.
Upsert(l) == lesson' = [lesson EXCEPT ![l] = IF @ = "none" THEN "PROPOSED" ELSE @]

Propose(f) ==
  /\ Reviewing(f, "propose")
  /\ Upsert(reviewRun.found)
  /\ evidence' = [evidence EXCEPT ![reviewRun.found] = @ \union {f}]
  /\ EndReview(f, "PROPOSED")
  /\ UNCHANGED <<request, decision, asked, accidents>>

ReviewThrows(f) ==
  /\ reviewRun.of = f /\ reviewRun.step \in {"read", "propose"}
  /\ GoOnReviewing("fail") /\ Accident
  /\ UNCHANGED <<review, request, reviewJob, lesson, evidence, decision, asked>>

\* BullMQ tries a job three times.
JobFails(f) ==
  LET made == reviewJob[f].made + 1 IN
  reviewJob' = [reviewJob EXCEPT ![f].made = made,
                                 ![f].state = IF made < MaxReviews THEN "waiting" ELSE "failed"]

\* The catch block, whose own update may fail.
MarkFailed(f) ==
  /\ Reviewing(f, "fail")
  /\ \/ review' = [review EXCEPT ![f].status = "FAILED"] /\ UNCHANGED accidents
     \/ Accident /\ UNCHANGED review
  /\ JobFails(f) /\ reviewRun' = ReviewerIdle
  /\ UNCHANGED <<request, lesson, evidence, decision, asked>>

\* The process dies: BullMQ gives a job back once when its worker is lost.
ReviewerDies(f) ==
  /\ reviewRun.of = f /\ Accident
  /\ reviewJob' = [reviewJob EXCEPT
       ![f].stalled = TRUE, ![f].state = IF reviewJob[f].stalled THEN "failed" ELSE "waiting"]
  /\ reviewRun' = ReviewerIdle
  /\ UNCHANGED <<review, request, lesson, evidence, decision, asked>>

\* The database throws before anything is claimed.
ClaimThrows(f) ==
  /\ reviewRun = ReviewerIdle /\ reviewJob[f].state = "waiting" /\ Accident
  /\ JobFails(f)
  /\ UNCHANGED <<review, request, reviewRun, lesson, evidence, decision, asked>>

TenMinutesPass(f) ==
  /\ review[f].status = "PROCESSING" /\ ~review[f].stale
  /\ review' = [review EXCEPT ![f].stale = TRUE]
  /\ UNCHANGED <<request, reviewJob, reviewRun, lesson, evidence, decision, asked, accidents>>

\* removeOnComplete, after a day.
ForgetJob(f) ==
  /\ reviewJob[f].state = "completed"
  /\ reviewJob' = [reviewJob EXCEPT ![f] = NoReviewJob]
  /\ UNCHANGED <<review, request, reviewRun, lesson, evidence, decision, asked, accidents>>

--------------------------------------------------------------------------------
(* The operators' decisions: decide.                                        *)

Before(action) == IF action = "RETIRE" THEN "ACTIVE" ELSE "PROPOSED"
After(action) ==
  CASE action = "APPROVE" -> "ACTIVE" [] action = "REJECT" -> "REJECTED" [] OTHER -> "RETIRED"

OnlyDecisions == UNCHANGED <<review, request, reviewJob, reviewRun, evidence, asked, accidents>>

ReadLesson(s, l, action) ==
  /\ decision[s] = Undecided
  /\ lesson[l] = Before(action)
  /\ action = "APPROVE" => evidence[l] # {}
  /\ decision' = [decision EXCEPT ![s] = [step |-> "write", on |-> l, action |-> action]]
  /\ UNCHANGED lesson /\ OnlyDecisions

\* fault: the lesson is updated by its id
DecideById(l, action) == TRUE

\* The status in the WHERE of the update.
Decidable(l, action) == lesson[l] = Before(action)

WriteDecision(s) ==
  LET l == decision[s].on  action == decision[s].action IN
  /\ decision[s].step = "write"
  /\ lesson' = IF Decidable(l, action) THEN [lesson EXCEPT ![l] = After(action)] ELSE lesson
  /\ decision' = [decision EXCEPT ![s] = Undecided]
  /\ OnlyDecisions

--------------------------------------------------------------------------------

LearnNext ==
  \/ \E f \in Complaint :
       \/ RequestReview(f) \/ CreateReview(f) \/ EnqueueReview(f)
       \/ RequestFails(f) \/ EnqueuePending(f)
       \/ ClaimReview(f) \/ ReadEvidence(f) \/ AskModel(f) \/ Propose(f)
       \/ ReviewThrows(f) \/ MarkFailed(f) \/ ReviewerDies(f) \/ ClaimThrows(f)
       \/ TenMinutesPass(f) \/ ForgetJob(f)
  \/ \E s \in Supervisor : \/ WriteDecision(s)
                           \/ \E l \in Lesson, action \in Decision : ReadLesson(s, l, action)

LearnSpec == LearnInit /\ [][LearnNext]_learnVars

--------------------------------------------------------------------------------

\* However often a complaint is sent again, its job is lost or retried and processes
\* restart, the model is asked about it three times at most.
ReviewsAreBounded == \A f \in Complaint : asked[f] <= MaxReviews

\* What an operator has decided stands, also when two of them decide at once and when later
\* reviews find the lesson again: it is only ever approved once, and then retired.
DecisionsStand ==
  [][\A l \in Lesson :
       lesson'[l] # lesson[l] => <<lesson[l], lesson'[l]>> \in
         {<<"none", "PROPOSED">>, <<"PROPOSED", "ACTIVE">>, <<"PROPOSED", "REJECTED">>,
          <<"ACTIVE", "RETIRED">>}]_learnVars
================================================================================
