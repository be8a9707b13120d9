------------------------------ MODULE MCReplies ------------------------------
(* The two halves of the worker that answers: what it does to the            *)
(* conversation (AutoReply), and to the model's words (ReplyReview), which   *)
(* AutoReply chooses freely.  A behaviour is of one of them, the other does  *)
(* not move.                                                                *)
EXTENDS AutoReply, ReplyReview, TLC

CONSTANT u1

VARIABLE part

OneUser == [o \in Operator |-> u1]

SomeAsk == CHOOSE a \in Ask : TRUE

RepliesInit ==
  /\ part \in {"conversation", "words"}
  /\ Init /\ ReviewInit
  /\ part = "conversation" => ask = SomeAsk /\ engine = "nous_hermes"

RepliesNext ==
  /\ UNCHANGED part
  /\ \/ part = "conversation" /\ Next /\ UNCHANGED reviewVars
     \/ part = "words" /\ ReviewNext /\ UNCHANGED vars

RepliesSpec == RepliesInit /\ [][RepliesNext]_<<vars, reviewVars, part>>

Symmetric == Permutations(Worker) \union Permutations(Task)
=============================================================================
