------------------------------- MODULE WhoAnswers -------------------------------
(***************************************************************************)
(* What handoffs promise to the customer and to the team, with no rows,    *)
(* locks or transactions in it: the conversation is held by one at a time. *)
(* Hermes hands it to the team, somebody of the team takes it, and only    *)
(* who has taken it gives it up.  Only its holder among the users answers, *)
(* and the conversation does not change hands under a reply.               *)
(***************************************************************************)
CONSTANTS
  Agent,      \* users of the CRM
  Operator,   \* their requests
  User        \* whose request it is

VARIABLES
  holder,     \* who answers the customer
  replying    \* the requests whose reply is on its way to the customer

vars == <<holder, replying>>

Hermes == [is |-> "hermes"]
Team == [is |-> "team"]
Nobody == [is |-> "nobody"]
Person(u) == [is |-> "person", who |-> u]

Init == holder = Hermes /\ replying = {}

\* The conversation changes hands, but not under a reply.
ChangesHands(from, to) ==
  /\ holder = from /\ replying = {}
  /\ holder' = to
  /\ UNCHANGED replying

HandOver == ChangesHands(Hermes, Team)
Take(u) == ChangesHands(Team, Person(u))
GiveUp(u) == ChangesHands(Person(u), Hermes) \/ ChangesHands(Person(u), Nobody)
Close == ChangesHands(Hermes, Nobody)
Resume == ChangesHands(Nobody, Hermes)

Reply(a) ==
  /\ holder = Person(User[a]) /\ replying = {}
  /\ replying' = {a}
  /\ UNCHANGED holder

ReplyEnds(a) ==
  /\ replying = {a}
  /\ replying' = {}
  /\ UNCHANGED holder

Next ==
  \/ HandOver \/ Close \/ Resume
  \/ \E u \in Agent : Take(u) \/ GiveUp(u)
  \/ \E a \in Operator : Reply(a) \/ ReplyEnds(a)

Spec == Init /\ [][Next]_vars
=================================================================================
