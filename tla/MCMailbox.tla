------------------------------ MODULE MCMailbox ------------------------------
(***************************************************************************)
(* A worker sends a text, to a worker or to all others, and the lead two   *)
(* idle notifications of which the later replaces the earlier; what the    *)
(* lead sends to all has two inboxes to save.                              *)
(***************************************************************************)
EXTENDS Mailbox

CONSTANTS lead, worker1, worker2,  \* the workers have inboxes
          idle1, idle2, text,      \* messages
          one, two                 \* Mailbox objects

MCSender == [m \in Message |-> IF m = text THEN worker1 ELSE lead]

(* Bound: the second notification comes after the first, and deaths and    *)
(* faults are looked at beside one notification and the text.              *)
Few == idle2 \in sent => idle1 \in sent /\ crashes = 0 /\ faults = 0

MCNext == MailboxNext /\ Few'

MCSpec == /\ MailboxInit /\ [][MCNext]_mailboxVars
          /\ \A i \in Instance : WF_mailboxVars(Save(i))
=============================================================================
