------------------------------- MODULE MCJobs -------------------------------
(* The two kinds of work that BullMQ repeats on its own account and that    *)
(* share nothing: a behaviour is of one of them, the other does not move.   *)
EXTENDS Campaigns, LearningReview, TLC

VARIABLE part

JobsInit == part \in {"campaign", "learning"} /\ Init /\ LearnInit

JobsNext ==
  /\ UNCHANGED part
  /\ \/ part = "campaign" /\ Next /\ UNCHANGED learnVars
     \/ part = "learning" /\ LearnNext /\ UNCHANGED vars

JobsSpec == JobsInit /\ [][JobsNext]_<<vars, learnVars, part>>

Symmetric == Permutations(Job) \union Permutations(Complaint)
=============================================================================
