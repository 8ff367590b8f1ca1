---------------------------- MODULE MessageChannel ----------------------------
(***************************************************************************)
(* What one direction of a connection promises to whoever sends and reads  *)
(* messages: they are read whole, in order and each once, until one that   *)
(* cannot be understood is refused or the loss of the connection ends it.  *)
(***************************************************************************)
EXTENDS Naturals, Sequences

CONSTANTS
  Item,      \* what may be sent
  Meaning,   \* what is read of it
  Malformed  \* of something that cannot be understood

VARIABLES
  sent, received,
  reading    \* "on"; "refused" what came next; "off"

vars == <<sent, received, reading>>

\* A connection starts with at most two messages, its Hello said once or twice.
Init ==
  /\ sent \in {<< >>} \cup {<<x>> : x \in Item} \cup {<<x, x>> : x \in Item}
  /\ received = << >>
  /\ reading = "on"

Send(x) ==
  /\ sent' = Append(sent, x)
  /\ UNCHANGED <<received, reading>>

\* There is one that was not read.
Arrived == reading = "on" /\ Len(received) < Len(sent)

\* Reading a message may be the last thing that happens.
Read ==
  LET m == Meaning[sent[Len(received) + 1]] IN
  /\ Arrived /\ m # Malformed
  /\ received' = Append(received, m)
  /\ reading' \in {"on", "off"}
  /\ UNCHANGED sent

Refuse ==
  /\ Arrived /\ Meaning[sent[Len(received) + 1]] = Malformed
  /\ reading' = "refused"
  /\ UNCHANGED <<sent, received>>

Break ==
  /\ reading' = "off"
  /\ UNCHANGED <<sent, received>>

Next == (\E x \in Item : Send(x)) \/ Read \/ Refuse \/ Break

Spec == Init /\ [][Next]_vars
=============================================================================
