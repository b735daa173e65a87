---------------------------- MODULE AtomicMailbox ----------------------------
(***************************************************************************)
(* What a mailbox promises the agents of a team (README.md:38): an inbox   *)
(* is a set of messages; a message is appended in one step, all unread     *)
(* ones are taken in one step, an inbox is created or removed in one step. *)
(* An inbox may be lost as a whole, when a write in place is interrupted.  *)
(***************************************************************************)
EXTENDS Mail

VARIABLE inbox    \* the entries of each agent's inbox, or NoFile

AtomicInit == inbox \in [Agent -> {NoFile, {}}]

Deliver(a, m)  == inbox' = [inbox EXCEPT ![a] = Appended(@, m)]
Take(a)        == inbox' = [inbox EXCEPT ![a] = MarkedRead(@)]
Create(a)      == inbox[a] = NoFile /\ inbox' = [inbox EXCEPT ![a] = {}]
RemoveInbox(a) == inbox' = [inbox EXCEPT ![a] = NoFile]
Lose(a)        == inbox' = [inbox EXCEPT ![a] = {}]

AtomicNext == \E a \in Agent : \/ \E m \in Message : Deliver(a, m)
                               \/ Take(a) \/ Create(a) \/ RemoveInbox(a) \/ Lose(a)

AtomicSpec == AtomicInit /\ [][AtomicNext]_inbox
=============================================================================
