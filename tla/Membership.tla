------------------------------ MODULE Membership ------------------------------
(***************************************************************************)
(* What a node promises each peer on its first connection, without queues  *)
(* and tasks: a club that a visitor joins, is listed by, hears from as     *)
(* long as it is listed, and leaves by hanging up, openly or by no longer  *)
(* making sense.  A visitor that comes back is promised nothing, and may   *)
(* be the end of the club.                                                 *)
(***************************************************************************)
CONSTANT Peer

VARIABLES
  open,    \* whether the club is open
  asked,   \* whether it was asked to close
  hungup,  \* peers that have hung up at least once
  stage,   \* of each peer: away, joined, member, leaving, gone; back; void
  live,    \* peers in a session
  mail     \* messages to each peer that are on their way

vars == <<open, asked, hungup, stage, live, mail>>

Members == {p \in Peer : stage[p] = "member"}
Back    == {p \in Peer : stage[p] = "back"}

Request   == [kind |-> "AddressBookRequest"]
Answer(S) == [kind |-> "AddressBookResponse", peers |-> S]

Init ==
  /\ open = TRUE
  /\ asked = FALSE
  /\ hungup = {}
  /\ stage = [p \in Peer |-> "away"]
  /\ live = {}
  /\ mail = [p \in Peer |-> {}]

HangUp(p) ==
  /\ open
  /\ p \notin hungup
  /\ hungup' = hungup \cup {p}
  /\ UNCHANGED <<open, asked, stage, live, mail>>

AskToClose ==
  /\ ~asked
  /\ asked' = TRUE
  /\ UNCHANGED <<open, hungup, stage, live, mail>>

Join(p) ==
  /\ stage[p] = "away"
  /\ stage' = [stage EXCEPT ![p] = "joined"]
  /\ live' = live \cup {p}
  /\ UNCHANGED <<open, asked, hungup, mail>>

\* It hung up before it joined.
Miss(p) ==
  /\ stage[p] = "away"
  /\ p \in hungup
  /\ stage' = [stage EXCEPT ![p] = "gone"]
  /\ UNCHANGED <<open, asked, hungup, live, mail>>

List(p) ==
  /\ stage[p] = "joined"
  /\ stage' = [stage EXCEPT ![p] = "member"]
  /\ UNCHANGED <<open, asked, hungup, live, mail>>

\* An answer lists the members there are when it is written, p among them, and
\* perhaps some of those that came back.
Write(p) ==
  /\ stage[p] = "member"
  /\ UNCHANGED <<open, asked, hungup, stage, live>>
  /\ \E m \in {Request} \cup {Answer(Members \cup B) : B \in SUBSET Back} :
       mail' = [mail EXCEPT ![p] = @ \cup {m}]

\* Mail arrives, or is lost.
Deliver(p) ==
  /\ mail[p] # {}
  /\ UNCHANGED <<open, asked, hungup, stage, live>>
  /\ \E rest \in SUBSET mail[p] : mail' = [mail EXCEPT ![p] = rest]

\* A session ends only when the peer has hung up; undelivered mail may be lost.
EndSession(p) ==
  /\ p \in live
  /\ p \in hungup
  /\ live' = live \ {p}
  /\ \E rest \in SUBSET mail[p] : mail' = [mail EXCEPT ![p] = rest]
  /\ UNCHANGED <<open, asked, hungup, stage>>

Unlist(p) ==
  /\ stage[p] = "member"
  /\ p \notin live
  /\ stage' = [stage EXCEPT ![p] = "leaving"]
  /\ UNCHANGED <<open, asked, hungup, live, mail>>

\* Nothing is on its way to a peer that is forgotten.
Forget(p) ==
  /\ stage[p] = "leaving"
  /\ mail[p] = {}
  /\ stage' = [stage EXCEPT ![p] = "gone"]
  /\ UNCHANGED <<open, asked, hungup, live, mail>>

\* It had hung up.
ComeBack(p) ==
  /\ open
  /\ p \in hungup
  /\ stage[p] # "back"
  /\ stage' = [stage EXCEPT ![p] = "back"]
  /\ live' = live \ {p}
  /\ mail' = [mail EXCEPT ![p] = {}]
  /\ UNCHANGED <<open, asked, hungup>>

\* Nobody is promised anything any more.
Close ==
  /\ open
  /\ asked \/ Back # {}
  /\ open' = FALSE
  /\ stage' = [p \in Peer |-> "void"]
  /\ live' = {}
  /\ mail' = [p \in Peer |-> {}]
  /\ hungup' = {}
  /\ UNCHANGED asked

Next ==
  \/ AskToClose \/ Close
  \/ \E p \in Peer : \/ HangUp(p) \/ ComeBack(p)
                     \/ Join(p) \/ Miss(p) \/ List(p) \/ Unlist(p) \/ Forget(p)
                     \/ Write(p) \/ Deliver(p) \/ EndSession(p)

Spec == Init /\ [][Next]_vars
=============================================================================
