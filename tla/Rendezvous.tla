------------------------------ MODULE Rendezvous ------------------------------
(***************************************************************************)
(* What the address books promise, without their messages and counts: a    *)
(* host gathers members who arrive one by one knowing only the host, meet  *)
(* others who have arrived, and are sent home together.                    *)
(***************************************************************************)
CONSTANTS Member, Host

VARIABLES
  stage,   \* of each member: new, running or exited
  knows,   \* whom each member knows
  closed   \* whether the host has closed the gathering

vars == <<stage, knows, closed>>

AllMet == \A m \in Member : knows[m] = Member \cup {Host}

Init ==
  /\ stage = [m \in Member |-> "new"]
  /\ knows = [m \in Member |-> {}]
  /\ closed = FALSE

Arrive(m) ==
  /\ stage[m] = "new"
  /\ stage' = [stage EXCEPT ![m] = "running"]
  /\ knows' = [knows EXCEPT ![m] = {Host}]
  /\ UNCHANGED closed

\* m learns of o; both are there.
Meet(m, o) ==
  /\ stage[m] = "running"
  /\ stage[o] = "running"
  /\ knows' = [knows EXCEPT ![m] = @ \cup {o}]
  /\ UNCHANGED <<stage, closed>>

Close ==
  /\ ~closed
  /\ AllMet
  /\ closed' = TRUE
  /\ UNCHANGED <<stage, knows>>

Leave(m) ==
  /\ closed
  /\ stage[m] = "running"
  /\ stage' = [stage EXCEPT ![m] = "exited"]
  /\ UNCHANGED <<knows, closed>>

Next ==
  \/ Close
  \/ \E m \in Member : Arrive(m) \/ Leave(m) \/ \E o \in Member : Meet(m, o)

Spec == Init /\ [][Next]_vars
=============================================================================
