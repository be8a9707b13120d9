------------------------------- MODULE MCTurns -------------------------------
(* What makes a turn (InboundTurn), and what a turn makes of the talk about  *)
(* a meeting (MeetingDialogue).  A behaviour is of one of them, the other    *)
(* does not move.                                                           *)
EXTENDS MCInboundTurn, MeetingDialogue

VARIABLE part

TurnsInit ==
  /\ part \in {"turn", "meeting"}
  /\ Init /\ TalkInit
  /\ part = "turn" => attempts = 0
  /\ attempts = 0 => ~place /\ ~mail  \* what is known of him is learnt in the talk

\* bound: all workers are busy at the same time only before the last message
TurnBound == (\A w \in Worker : pc'[w] # "idle") => \E m \in Message : sched'[m] = "new"

\* bound: a third attempt only by a customer who had two meetings to begin with, and one
\* meeting of somebody else
TalkBound ==
  /\ attempts' = 3 => \A a \in 1..2 : ops[a].is = "COMPLETED" /\ ops[a].kind = "CREATE"
  /\ taken # {} => taken' = taken

TurnsNext ==
  /\ UNCHANGED part
  /\ \/ part = "turn" /\ Next /\ TurnBound /\ UNCHANGED talkVars
     \/ part = "meeting" /\ TalkNext /\ TalkBound /\ UNCHANGED vars

TurnsSpec == TurnsInit /\ [][TurnsNext]_<<vars, talkVars, part>>
==============================================================================
