----------------------------- MODULE Rendezvous -----------------------------
(***************************************************************************)
(* What Send, Receive and Reply promise to the tasks, without the kernel's *)
(* queues.  A sender offers a message to one peer and is then held by that *)
(* peer: first until the peer takes the message, then until somebody       *)
(* answers.  A task that listens has no offer outstanding.                 *)
(***************************************************************************)
CONSTANTS Task, None

VARIABLES
  phase,      \* of each task as a sender: "free", "offering" or "awaiting"
  peer,       \* the task an offering task addresses, None for the others
  listening   \* the tasks that wait for a message

vars == <<phase, peer, listening>>

Init ==
  /\ phase = [t \in Task |-> "free"]
  /\ peer = [t \in Task |-> None]
  /\ listening = {}

\* s offers a message to r, which does not listen; r may be s itself.
Offer(s, r) ==
  /\ phase[s] = "free" /\ s \notin listening
  /\ r \notin listening
  /\ phase' = [phase EXCEPT ![s] = "offering"]
  /\ peer' = [peer EXCEPT ![s] = r]
  /\ UNCHANGED listening

\* s gives a message to r, which listens: r has it at once.
Hand(s, r) ==
  /\ phase[s] = "free" /\ s \notin listening
  /\ r \in listening
  /\ phase' = [phase EXCEPT ![s] = "awaiting"]
  /\ listening' = listening \ {r}
  /\ UNCHANGED peer

\* r takes the message that s has offered to it.
Take(r, s) ==
  /\ phase[r] = "free" /\ r \notin listening
  /\ phase[s] = "offering" /\ peer[s] = r
  /\ phase' = [phase EXCEPT ![s] = "awaiting"]
  /\ peer' = [peer EXCEPT ![s] = None]
  /\ UNCHANGED listening

\* r waits for a message; nobody has offered it one.
Listen(r) ==
  /\ phase[r] = "free" /\ r \notin listening
  /\ \A s \in Task : phase[s] = "offering" => peer[s] # r
  /\ listening' = listening \cup {r}
  /\ UNCHANGED <<phase, peer>>

\* t answers s, whose message has been taken (by whomever).
Answer(t, s) ==
  /\ phase[t] = "free" /\ t \notin listening
  /\ phase[s] = "awaiting"
  /\ phase' = [phase EXCEPT ![s] = "free"]
  /\ UNCHANGED <<peer, listening>>

Next ==
  \E s, r \in Task : Offer(s, r) \/ Hand(s, r) \/ Take(s, r) \/ Listen(s) \/ Answer(s, r)

Spec == Init /\ [][Next]_vars
=============================================================================
