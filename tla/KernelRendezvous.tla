-------------------------- MODULE KernelRendezvous --------------------------
(***************************************************************************)
(* The kernel implements Rendezvous: the phases are task states, the peer  *)
(* is the register x0 of a blocked sender, and the inboxes, the ready      *)
(* queue and the event queues are hidden.                                  *)
(***************************************************************************)
EXTENDS Kernel

PhaseOf(t) == IF state[t] = "SEND_BLOCKED" THEN "offering"
              ELSE IF state[t] = "REPLY_BLOCKED" THEN "awaiting" ELSE "free"

SRR == INSTANCE Rendezvous WITH
  Task      <- Table,
  None      <- NoTask,
  phase     <- [t \in Table |-> PhaseOf(t)],
  peer      <- x0,
  listening <- {t \in Table : state[t] = "RECEIVE_BLOCKED"}

\* Whatever the interleaving of senders, receivers, interrupts, births and
\* exits, every step of the kernel is a step of the rendezvous or none at all:
\* a message reaches the task it was sent to, once, and a sender is released
\* only by an answer that follows the taking of its message.
ImplementsRendezvous == SRR!Spec
=============================================================================
