------------------------- MODULE MCMeetingOperations -------------------------
(* An instance of MeetingOperations for TLC.  Meetings, slots and operations *)
(* are numbers, and are taken in their order: nothing depends on the names. *)
EXTENDS MeetingOperations, FiniteSets

Used == {o \in Op : status[o] # "NONE"}
Made == {m \in Meeting : meeting[m] # "NONE"}

InOrder ==
  /\ \A o \in Used : \A p \in Op : p < o => p \in Used
  /\ \A m \in Made : \A n \in Meeting : n < m => n \in Made
  /\ \A o \in Used : (\A p \in Used : o <= p) => \A s \in Slot : target[o] <= s

\* bound: failures only with one meeting and two operations, and no third operation once a
\* customer has said no
Bound ==
  /\ failures > 0 => Cardinality(Made) <= 1 /\ Cardinality(Used) <= 2
  /\ Cardinality(Used) > 2 => stopped = {}

MCNext == Next /\ InOrder' /\ Bound'

MCFairSpec == Init /\ [][MCNext]_vars /\ Fairness
=============================================================================
