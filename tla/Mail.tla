-------------------------------- MODULE Mail --------------------------------
(***************************************************************************)
(* Messages and the contents of an inbox file (internal/agent/mailbox.go). *)
(* A message is sent once and is told apart by its identity; its text is   *)
(* of no concern, its sender and whether it is an idle notification are.   *)
(* An inbox is the set of its entries: that new ones stand at the end is   *)
(* not modelled.                                                           *)
(***************************************************************************)
EXTENDS Integers, FiniteSets

CONSTANTS Agent,     \* agents, and so inbox files <agent>.json
          Message,   \* messages that may be sent
          Sender,    \* who sends a message, an agent or another
          Idle,      \* the messages of type idle_notify
          NoFile     \* what a missing file reads as

ASSUME IdleAssumption == Idle \subseteq Message

Entry == [msg : Message, read : BOOLEAN]

ASSUME NoFileAssumption == \A f \in SUBSET Entry : f # NoFile

(* loadInbox: a file that is missing has no messages. *)
Entries(f) == IF f = NoFile THEN {} ELSE f

Unread(f) == {e.msg : e \in {x \in Entries(f) : ~x.read}}

(* An idle notification replaces the earlier ones of its sender. *)
Supersedes(new, old) ==
    new \in Idle /\ old \in Idle /\ Sender[old] = Sender[new]

(* Wrong: an idle notification replaces every message. *)
AppendedOverAll(f, m) ==
    (IF m \in Idle THEN {} ELSE Entries(f)) \cup {[msg |-> m, read |-> FALSE]}

Appended(f, m) ==
    {e \in Entries(f) : ~Supersedes(m, e.msg)} \cup {[msg |-> m, read |-> FALSE]}

MarkedRead(f) == {[e EXCEPT !.read = TRUE] : e \in Entries(f)}
=============================================================================
