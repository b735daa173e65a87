---------------------------- MODULE MailboxProofs ----------------------------
(***************************************************************************)
(* Proofs about the mailbox: the types of its state for any number of      *)
(* Mailbox objects, and atomicity while their operations do not overlap.   *)
(***************************************************************************)
EXTENDS Mailbox, TLAPS

-----------------------------------------------------------------------------
(* The contents of an inbox stay a set of entries.                           *)

LEMMA EntriesType ==
  ASSUME NEW f \in (SUBSET Entry) \cup {NoFile}
  PROVE  Entries(f) \in SUBSET Entry
BY DEF Entries

LEMMA UnreadType ==
  ASSUME NEW f \in (SUBSET Entry) \cup {NoFile}
  PROVE  Unread(f) \in SUBSET Message
BY EntriesType DEF Unread, Entry

LEMMA NewContentsType ==
  ASSUME NEW o \in Operation, o.kind = "send" => o.msg \in Message,
         NEW f \in (SUBSET Entry) \cup {NoFile}
  PROVE  NewContents(o, f) \in SUBSET Entry
<1>1. CASE o.kind = "send"
  <2>1. [msg |-> o.msg, read |-> FALSE] \in Entry
    BY <1>1 DEF Entry
  <2>2. NewContents(o, f) = {e \in Entries(f) : ~Supersedes(o.msg, e.msg)}
                              \cup {[msg |-> o.msg, read |-> FALSE]}
    BY <1>1 DEF NewContents, Appended
  <2> QED  BY <2>1, <2>2, EntriesType
<1>2. CASE o.kind # "send"
  BY <1>2, EntriesType DEF NewContents, MarkedRead, Entry
<1> QED  BY <1>1, <1>2

LEMMA NoOperationType == NoOperation \in Operation
BY MaxTriesAssumption DEF NoOperation, Operation, Saving

-----------------------------------------------------------------------------

Shape == MailboxTypeOK /\ OperationKnown

LEMMA ShapeInit == MailboxInit => Shape
BY NoOperationType, MaxCrashesAssumption, MaxFaultsAssumption DEF MailboxInit, Shape, MailboxTypeOK, OperationKnown,
   NoOperation, Saving

(* What a step of the operation of i alone has to leave behind. *)
KnownAt(i) ==
    /\ op[i] \in Operation
    /\ op[i].pc \in Saving \cup {"load"} =>
          op[i].kind \in {"send", "receive"} /\ op[i].todo \subseteq Agent
    /\ op[i].kind = "send" => op[i].msg \in Message
    /\ op[i].pc \in Saving => op[i].cur \in op[i].todo
    /\ op[i].pc = "remove" => op[i].todo \subseteq Removable

LEMMA OperationStep ==
  ASSUME Shape, NEW i \in Instance, NEW o,
         op' = [op EXCEPT ![i] = o],
         o \in Operation,
         o.pc \in Saving \cup {"load"} =>
            o.kind \in {"send", "receive"} /\ o.todo \subseteq Agent,
         o.kind = "send" => o.msg \in Message,
         o.pc \in Saving => o.cur \in o.todo,
         o.pc = "remove" => o.todo \subseteq Removable
  PROVE  op' \in [Instance -> Operation] /\ OperationKnown'
<1>1. op \in [Instance -> Operation]
  BY DEF Shape, MailboxTypeOK
<1>2. op' \in [Instance -> Operation] /\ op'[i] = o
      /\ \A j \in Instance : j # i => op'[j] = op[j]
  BY <1>1
<1>3. ASSUME NEW j \in Instance PROVE KnownAt(j)'
  <2>1. CASE j = i
    BY <1>2, <2>1 DEF KnownAt
  <2>2. CASE j # i
    BY <1>2, <2>2 DEF KnownAt, Shape, OperationKnown
  <2> QED  BY <2>1, <2>2
<1> QED  BY <1>2, <1>3 DEF OperationKnown, KnownAt

LEMMA BeginStep ==
  ASSUME Shape, NEW i \in Instance, NEW what \in {"send", "receive", "clear"},
         NEW m \in Message \cup {NoMessage}, what = "send" => m \in Message,
         NEW S, S \subseteq (IF what = "clear" THEN Removable ELSE Agent),
         Begin(i, what, m, S)
  PROVE  op' \in [Instance -> Operation] /\ OperationKnown'
<1> DEFINE o == IF S = {} THEN NoOperation
                ELSE [op[i] EXCEPT !.pc = IF what = "clear" THEN "remove" ELSE "load",
                                   !.kind = what, !.msg = m, !.todo = S]
<1>1. op[i] \in Operation
  BY DEF Shape, MailboxTypeOK
<1>2. op' = [op EXCEPT ![i] = o]
  BY DEF Begin
<1>3. CASE S = {}
  <2>1. o = NoOperation
    BY <1>3
  <2> HIDE DEF o
  <2> QED  BY <1>2, <2>1, NoOperationType, OperationStep DEF NoOperation, Saving
<1>4. CASE S # {}
  <2>1. o = [op[i] EXCEPT !.pc = IF what = "clear" THEN "remove" ELSE "load",
                          !.kind = what, !.msg = m, !.todo = S]
    BY <1>4
  <2> HIDE DEF o
  <2>2. o \in Operation
    BY <1>1, <2>1 DEF Operation, Saving
  <2>3. /\ o.pc = IF what = "clear" THEN "remove" ELSE "load"
        /\ o.kind = what /\ o.msg = m /\ o.todo = S
    BY <1>1, <2>1 DEF Operation
  <2> QED  BY <1>2, <2>2, <2>3, OperationStep DEF Saving
<1> QED  BY <1>3, <1>4

(* A step that moves the operation of one object on, within Saving. *)
LEMMA MovesAs ==
  ASSUME Shape, NEW i \in Instance, op[i].pc \in Saving,
         NEW o \in Operation, o.pc \in Saving, o.kind = op[i].kind, o.msg = op[i].msg,
         o.cur = op[i].cur, o.todo = op[i].todo,
         op' = [op EXCEPT ![i] = o]
  PROVE  op' \in [Instance -> Operation] /\ OperationKnown'
<1>1. KnownAt(i)
  BY DEF Shape, MailboxTypeOK, OperationKnown, KnownAt
<1>2. o.pc # "remove"
  BY DEF Saving
<1> QED  BY <1>1, <1>2, OperationStep DEF KnownAt

LEMMA MovesOn ==
  ASSUME Shape, NEW i \in Instance, op[i].pc \in Saving,
         NEW step \in Saving, NEW n \in 0..MaxTries,
         op' = [op EXCEPT ![i] = [@ EXCEPT !.pc = step, !.tries = n]]
  PROVE  op' \in [Instance -> Operation] /\ OperationKnown'
<1> DEFINE o == [op[i] EXCEPT !.pc = step, !.tries = n]
<1>1. op[i] \in Operation
  BY DEF Shape, MailboxTypeOK
<1>2. o \in Operation
  BY <1>1 DEF Operation
<1>3. o.pc = step /\ o.kind = op[i].kind /\ o.msg = op[i].msg /\ o.cur = op[i].cur
      /\ o.todo = op[i].todo
  BY <1>1 DEF Operation
<1>4. op' = [op EXCEPT ![i] = o]
  OBVIOUS
<1> HIDE DEF o
<1> QED  BY <1>2, <1>3, <1>4, MovesAs

LEMMA MovesTo ==
  ASSUME Shape, NEW i \in Instance, op[i].pc \in Saving, NEW step \in Saving,
         op' = [op EXCEPT ![i].pc = step]
  PROVE  op' \in [Instance -> Operation] /\ OperationKnown'
<1>1. op \in [Instance -> Operation] /\ op[i].tries \in 0..MaxTries
  BY DEF Shape, MailboxTypeOK, Operation
<1>2. op[i] \in Operation
  BY <1>1
<1>3. op' = [op EXCEPT ![i] = [@ EXCEPT !.pc = step, !.tries = op[i].tries]]
  BY <1>1, <1>2 DEF Operation
<1> QED  BY <1>1, <1>3, MovesOn

LEMMA FaultStep ==
  ASSUME Shape, NEW i \in Instance, op[i].pc \in Saving, NEW step \in Saving,
         NEW b \in BOOLEAN, Fault(i, step, b)
  PROVE  op' \in [Instance -> Operation] /\ OperationKnown'
<1> DEFINE o == [op[i] EXCEPT !.pc = step, !.failed = b]
<1>1. op[i] \in Operation
  BY DEF Shape, MailboxTypeOK
<1>2. o \in Operation
  BY <1>1 DEF Operation
<1>3. o.pc = step /\ o.kind = op[i].kind /\ o.msg = op[i].msg /\ o.cur = op[i].cur
      /\ o.todo = op[i].todo
  BY <1>1 DEF Operation
<1>4. op' = [op EXCEPT ![i] = o]
  BY DEF Fault
<1> HIDE DEF o
<1> QED  BY <1>2, <1>3, <1>4, MovesAs

LEMMA LoadStep ==
  ASSUME Shape, NEW i \in Instance, Load(i)
  PROVE  op' \in [Instance -> Operation] /\ OperationKnown'
<1>1. PICK a \in op[i].todo :
        op' = [op EXCEPT ![i] =
                 IF @.kind = "receive" /\ Unread(file[a]) = {} THEN NoOperation
                 ELSE [@ EXCEPT !.pc = "lock", !.cur = a,
                                !.buf = NewContents(op[i], file[a]),
                                !.taken = Unread(file[a])]]
  BY DEF Load
<1>2. /\ op[i] \in Operation /\ op[i].pc = "load" /\ a \in Agent
      /\ KnownAt(i) /\ op \in [Instance -> Operation]
  BY DEF Shape, MailboxTypeOK, OperationKnown, KnownAt, Load, At
<1>3. CASE op[i].kind = "receive" /\ Unread(file[a]) = {}
  <2>1. op' = [op EXCEPT ![i] = NoOperation]
    BY <1>1, <1>3
  <2> QED  BY <2>1, NoOperationType, OperationStep DEF NoOperation, Saving
<1>4. CASE ~(op[i].kind = "receive" /\ Unread(file[a]) = {})
  <2> DEFINE o == [op[i] EXCEPT !.pc = "lock", !.cur = a,
                                !.buf = NewContents(op[i], file[a]),
                                !.taken = Unread(file[a])]
  <2>1. op' = [op EXCEPT ![i] = o]
    BY <1>1, <1>4
  <2>2. file[a] \in (SUBSET Entry) \cup {NoFile}
    BY <1>2 DEF Shape, MailboxTypeOK
  <2>3. NewContents(op[i], file[a]) \in SUBSET Entry /\ Unread(file[a]) \in SUBSET Message
    BY <1>2, <2>2, NewContentsType, UnreadType DEF KnownAt
  <2>4. o \in Operation
    BY <1>2, <2>3 DEF Operation, Saving
  <2>5. o.pc = "lock" /\ o.kind = op[i].kind /\ o.msg = op[i].msg /\ o.cur = a
        /\ o.todo = op[i].todo
    BY <1>2 DEF Operation
  <2> HIDE DEF o
  <2> QED  BY <1>2, <2>1, <2>4, <2>5, OperationStep DEF Saving, KnownAt
<1> QED  BY <1>3, <1>4

LEMMA UnlockStep ==
  ASSUME Shape, NEW i \in Instance, Unlock(i)
  PROVE  op' \in [Instance -> Operation] /\ OperationKnown'
<1>1. /\ op[i] \in Operation /\ op[i].pc = "unlock"
      /\ KnownAt(i) /\ op' = [op EXCEPT ![i] = Saved(op[i])]
  BY DEF Shape, MailboxTypeOK, OperationKnown, KnownAt, Unlock, At
<1>2. CASE op[i].todo = {op[i].cur}
  BY <1>1, <1>2, NoOperationType, OperationStep DEF NoOperation, Saving, Saved
<1>3. CASE op[i].todo # {op[i].cur}
  <2> DEFINE o == [NoOperation EXCEPT !.pc = "load", !.kind = op[i].kind, !.msg = op[i].msg,
                                      !.todo = op[i].todo \ {op[i].cur}]
  <2>1. Saved(op[i]) = o
    BY <1>3 DEF Saved
  <2>2. op[i].todo \subseteq Agent /\ op[i].kind \in {"send", "receive"}
    BY <1>1 DEF KnownAt, Saving
  <2>3. o \in Operation
    BY <1>1, <2>2, NoOperationType DEF Operation, Saving
  <2>4. o.pc = "load" /\ o.kind = op[i].kind /\ o.msg = op[i].msg /\ o.todo \subseteq op[i].todo
    BY DEF NoOperation
  <2> HIDE DEF o
  <2> QED  BY <1>1, <2>1, <2>2, <2>3, <2>4, OperationStep DEF KnownAt, Saving
<1> QED  BY <1>2, <1>3

LEMMA RemoveStep ==
  ASSUME Shape, NEW i \in Instance, RemoveOne(i)
  PROVE  op' \in [Instance -> Operation] /\ OperationKnown'
<1>1. PICK r \in op[i].todo :
 op' = [op EXCEPT ![i] = Removed(op[i], r)]
  BY DEF RemoveOne
<1>2. op[i] \in Operation /\ op[i].pc = "remove" /\ KnownAt(i) /\ op \in [Instance -> Operation]
  BY DEF Shape, MailboxTypeOK, OperationKnown, KnownAt, RemoveOne, At
<1>3. CASE op[i].todo = {r}
  BY <1>1, <1>3, NoOperationType, OperationStep DEF Removed, NoOperation, Saving
<1>4. CASE op[i].todo # {r}
  <2> DEFINE o == [op[i] EXCEPT !.todo = op[i].todo \ {r}]
  <2>1. op' = [op EXCEPT ![i] = o]
    BY <1>1, <1>4 DEF Removed
  <2>2. op[i].todo \subseteq Removable
    BY <1>2 DEF KnownAt
  <2>3. o \in Operation
    BY <1>2, <2>2 DEF Operation
  <2>4. o.pc = "remove" /\ o.kind = op[i].kind /\ o.msg = op[i].msg /\ o.todo \subseteq Removable
    BY <1>2, <2>2 DEF Operation
  <2> HIDE DEF o
  <2> QED  BY <1>2, <2>1, <2>3, <2>4, OperationStep DEF KnownAt, Saving
<1> QED  BY <1>3, <1>4
-----------------------------------------------------------------------------
(* What each step does to the types of the files.                           *)

FilesTyped ==
    /\ file \in [Agent -> (SUBSET Entry) \cup {NoFile}]
    /\ tmp \in [Agent -> (SUBSET Entry) \cup {NoFile}]
    /\ lock \in [Agent -> {"none", "fresh", "stale"}]

RestTyped ==
    /\ sent \subseteq Message
    /\ handed \in [Agent -> SUBSET Message]
    /\ ensuring \subseteq Instance \X Agent
    /\ crashes \in 0..MaxCrashes
    /\ faults \in 0..MaxFaults

restVars == <<sent, handed, ensuring, countVars>>

LEMMA SaveStep ==
  ASSUME Shape, NEW i \in Instance, Save(i)
  PROVE  Shape'
<1> USE DEF diskVars, countVars
<1>1. /\ FilesTyped /\ RestTyped /\ op[i] \in Operation /\ KnownAt(i)
      /\ op \in [Instance -> Operation]
  BY DEF Shape, MailboxTypeOK, FilesTyped, RestTyped, OperationKnown, KnownAt
<1>2. SUFFICES FilesTyped' /\ RestTyped' /\ op' \in [Instance -> Operation] /\ OperationKnown'
  BY DEF Shape, MailboxTypeOK, FilesTyped, RestTyped
<1>3. UNCHANGED restVars => RestTyped'
  BY <1>1 DEF restVars, RestTyped
<1>4. op[i].pc \in Saving => op[i].cur \in Agent
  BY <1>1 DEF KnownAt
<1>5. op[i].buf \in SUBSET Entry /\ op[i].tries \in 0..MaxTries
  BY <1>1 DEF Operation
<1>6. CASE Load(i)
  BY <1>1, <1>3, <1>6, LoadStep DEF Load, FilesTyped, restVars
<1>7. CASE TakeLock(i)
  <2>1. op[i].pc \in Saving /\ op' = [op EXCEPT ![i].pc = "write"] /\ UNCHANGED restVars
    BY <1>7 DEF TakeLock, At, Saving, restVars
  <2>2. FilesTyped'
    BY <1>1, <1>7 DEF TakeLock, FilesTyped
  <2> QED  BY <1>3, <2>1, <2>2, MovesTo DEF Saving
<1>8. CASE FindLocked(i)
  <2> DEFINE step == IF lock[op[i].cur] = "stale" THEN "break" ELSE "lock"
  <2>1. /\ op[i].pc = "lock" /\ op[i].tries + 1 \in 0..MaxTries /\ step \in Saving
        /\ UNCHANGED <<file, tmp, lock, restVars>>
    BY <1>5, <1>8, MaxTriesAssumption DEF FindLocked, At, Saving, restVars
  <2>2. op' = [op EXCEPT ![i] = [@ EXCEPT !.pc = step, !.tries = op[i].tries + 1]]
    BY <1>1, <1>8, <2>1 DEF FindLocked, Operation
  <2> HIDE DEF step
  <2>3. op[i].pc \in Saving
    BY <2>1 DEF Saving
  <2>4. FilesTyped'
    BY <1>1, <2>1 DEF FilesTyped
  <2> QED  BY <1>3, <1>5, <2>1, <2>2, <2>3, <2>4, MovesOn
<1>9. CASE BreakLock(i)
  <2>1. op[i].pc \in Saving /\ op' = [op EXCEPT ![i].pc = "lock"] /\ UNCHANGED restVars
    BY <1>9 DEF BreakLock, At, Saving, restVars
  <2>2. FilesTyped'
    BY <1>1, <1>9 DEF BreakLock, FilesTyped
  <2> QED  BY <1>3, <2>1, <2>2, MovesTo DEF Saving
<1>10. CASE GiveUp(i)
  <2>1. op[i].pc \in Saving /\ op' = [op EXCEPT ![i].pc = "write"] /\ UNCHANGED restVars
    BY <1>10 DEF GiveUp, At, Saving, restVars
  <2>2. FilesTyped'
    BY <1>1, <1>10 DEF GiveUp, FilesTyped
  <2> QED  BY <1>3, <2>1, <2>2, MovesTo DEF Saving
<1>11. CASE OpenTmp(i) \/ WriteTmp(i)
  <2>1. PICK step \in {"fill", "rename"} :
          op[i].pc \in Saving /\ op' = [op EXCEPT ![i].pc = step] /\ UNCHANGED restVars
    BY <1>11 DEF OpenTmp, WriteTmp, At, Saving, restVars
  <2>2. FilesTyped'
    BY <1>1, <1>5, <1>11 DEF OpenTmp, WriteTmp, FilesTyped
  <2> QED  BY <1>3, <2>1, <2>2, MovesTo DEF Saving
<1>12. CASE OpenDirect(i) \/ WriteDirect(i)
  <2>1. PICK step \in {"direct", "unlock"} :
          op[i].pc \in Saving /\ op' = [op EXCEPT ![i].pc = step] /\ UNCHANGED restVars
    BY <1>12 DEF OpenDirect, WriteDirect, At, Saving, restVars
  <2>2. FilesTyped'
    BY <1>1, <1>5, <1>12 DEF OpenDirect, WriteDirect, FilesTyped
  <2> QED  BY <1>3, <2>1, <2>2, MovesTo DEF Saving
<1>13. CASE Rename(i)
  <2>1. op[i].pc \in Saving /\ op' = [op EXCEPT ![i].pc = "unlock"] /\ UNCHANGED restVars
    BY <1>13 DEF Rename, At, Saving, restVars
  <2>2. FilesTyped'
    BY <1>1, <1>4, <1>13, <2>1 DEF Rename, FilesTyped
  <2> QED  BY <1>3, <2>1, <2>2, MovesTo DEF Saving
<1>14. CASE TmpFails(i) \/ DirectFails(i) \/ RenameFails(i)
  <2>1. PICK step \in Saving, b \in BOOLEAN : op[i].pc \in Saving /\ Fault(i, step, b)
    BY <1>14 DEF TmpFails, DirectFails, RenameFails, At, Saving
  <2>2. FilesTyped' /\ UNCHANGED <<sent, handed, ensuring, crashes>>
    BY <1>1, <2>1 DEF Fault, FilesTyped
  <2>3. faults < MaxFaults /\ faults' = faults + 1
    BY <2>1 DEF Fault
  <2>4. RestTyped'
    BY <1>1, <2>2, <2>3, MaxFaultsAssumption DEF RestTyped
  <2> QED  BY <2>1, <2>2, <2>4, FaultStep
<1>15. CASE Unlock(i)
  <2>1. FilesTyped'
    BY <1>1, <1>15 DEF Unlock, FilesTyped
  <2>2. HandedBy(op[i]) \in [Agent -> SUBSET Message]
    BY <1>1 DEF HandedBy, RestTyped, Operation
  <2>3. RestTyped'
    BY <1>1, <1>15, <2>2 DEF Unlock, RestTyped
  <2> QED  BY <1>15, <2>1, <2>3, UnlockStep
<1>16. CASE RemoveOne(i)
  <2>1. FilesTyped' /\ UNCHANGED restVars
    BY <1>1, <1>16 DEF RemoveOne, FilesTyped, restVars
  <2> QED  BY <1>3, <1>16, <2>1, RemoveStep
<1> QED  BY <1>6, <1>7, <1>8, <1>9, <1>10, <1>11, <1>12, <1>13, <1>14, <1>15, <1>16 DEF Save

LEMMA CallStep ==
  ASSUME Shape, NEW i \in Instance, Call(i)
  PROVE  Shape'
<1> USE DEF diskVars, countVars
<1>1. FilesTyped /\ RestTyped
  BY DEF Shape, MailboxTypeOK, FilesTyped, RestTyped
<1>2. ASSUME NEW what \in {"send", "receive", "clear"},
             NEW m \in Message \cup {NoMessage}, what = "send" => m \in Message,
             NEW S, S \subseteq (IF what = "clear" THEN Removable ELSE Agent),
             Begin(i, what, m, S), sent' \subseteq Message
      PROVE  Shape'
  <2>1. op' \in [Instance -> Operation] /\ OperationKnown'
    BY <1>2, BeginStep
  <2>2. UNCHANGED <<file, tmp, lock, handed, ensuring, crashes, faults>>
    BY <1>2 DEF Begin
  <2> QED  BY <1>1, <1>2, <2>1, <2>2 DEF Shape, MailboxTypeOK, FilesTyped, RestTyped
<1>3. sent \subseteq Message
  BY <1>1 DEF RestTyped
<1>4. ASSUME NEW m \in Message, NEW S \in SUBSET Agent, BeginSend(i, m, S)
      PROVE  Shape'
  BY <1>2, <1>3, <1>4 DEF BeginSend
<1>5. ASSUME NEW a \in Agent, Receive(i, a)
      PROVE  Shape'
  BY <1>2, <1>3, <1>5 DEF Receive
<1>6. ASSUME NEW S \in SUBSET Removable, Begin(i, "clear", NoMessage, S), UNCHANGED sent
      PROVE  Shape'
  BY <1>2, <1>3, <1>6
<1>7. ASSUME NEW a \in Agent, Clear(i, a)
      PROVE  Shape'
  BY <1>6, <1>7 DEF Clear, Removable
<1>8. CASE ClearAll(i)
  <2>1. PICK S \in SUBSET Removable :
          Begin(i, "clear", NoMessage, S) /\ UNCHANGED sent
    BY <1>8 DEF ClearAll, Removable
  <2> QED  BY <1>6, <2>1
<1>9. ASSUME NEW m \in Message, Send(i, m) \/ Broadcast(i, m)
      PROVE  Shape'
  BY <1>4, <1>9 DEF Send, Broadcast
<1> QED  BY <1>5, <1>7, <1>8, <1>9 DEF Call

LEMMA ShapeStep ==
  ASSUME Shape, [MailboxNext]_mailboxVars
  PROVE  Shape'
<1> USE DEF diskVars, countVars
<1>1. FilesTyped /\ RestTyped /\ op \in [Instance -> Operation] /\ OperationKnown
  BY DEF Shape, MailboxTypeOK, FilesTyped, RestTyped
<1> SUFFICES ASSUME TRUE
    PROVE  FilesTyped' /\ RestTyped' /\ op' \in [Instance -> Operation] /\ OperationKnown'
  BY DEF Shape, MailboxTypeOK, FilesTyped, RestTyped
<1>2. ASSUME NEW i \in Instance, Ensure(i)
      PROVE  FilesTyped' /\ RestTyped' /\ UNCHANGED op
  BY <1>1, <1>2 DEF Ensure, FindNoInbox, CreateInbox, FilesTyped, RestTyped
<1>3. ASSUME NEW i \in Instance, Crash(i)
      PROVE  FilesTyped' /\ RestTyped' /\ op' \in [Instance -> Operation] /\ OperationKnown'
  <2>1. /\ UNCHANGED <<file, tmp, lock, sent, handed, faults>> /\ ensuring' \subseteq ensuring
        /\ crashes' \in 0..MaxCrashes /\ op' = [op EXCEPT ![i] = NoOperation]
    BY <1>1, <1>3, MaxCrashesAssumption DEF Crash, RestTyped
  <2>2. op' \in [Instance -> Operation] /\ OperationKnown'
    BY <2>1, NoOperationType, OperationStep DEF NoOperation, Saving
  <2> QED  BY <1>1, <2>1, <2>2 DEF FilesTyped, RestTyped
<1>4. ASSUME NEW a \in Agent, LockAges(a)
      PROVE  FilesTyped' /\ RestTyped' /\ UNCHANGED op
  BY <1>1, <1>4 DEF LockAges, FilesTyped, RestTyped
<1>5. CASE UNCHANGED mailboxVars
  BY <1>1, <1>5 DEF mailboxVars, FilesTyped, RestTyped, OperationKnown
<1>6. ASSUME UNCHANGED op
      PROVE  op' \in [Instance -> Operation] /\ OperationKnown'
  BY <1>1, <1>6 DEF OperationKnown
<1>7. ASSUME Shape'
      PROVE  FilesTyped' /\ RestTyped' /\ op' \in [Instance -> Operation] /\ OperationKnown'
  BY <1>7 DEF Shape, MailboxTypeOK, FilesTyped, RestTyped
<1> QED  BY <1>2, <1>3, <1>4, <1>5, <1>6, <1>7, SaveStep, CallStep DEF MailboxNext

(* The files, the locks and the operations keep their types, for any        *)
(* number of Mailbox objects sharing a directory and dying at any time.     *)
THEOREM MailboxTypeCorrect == MailboxSpec => []MailboxTypeOK
<1>1. Shape => MailboxTypeOK
  BY DEF Shape
<1> QED  BY <1>1, ShapeInit, ShapeStep, PTL DEF MailboxSpec
-----------------------------------------------------------------------------
(* Who removes a lock.  Of the operations past their lock, the one that took *)
(* it removes it; those that broke or gave up a lock remove one too many,    *)
(* never one too few.                                                        *)

PastLock == {"write", "fill", "rename", "fallback", "direct", "unlock"}

LocksHeld ==
    crashes = 0 =>
        \A a \in Agent : lock[a] # "none" =>
            \E i \in Instance : op[i].pc \in PastLock /\ op[i].cur = a

LEMMA LocksHeldInit == MailboxInit => LocksHeld
BY DEF MailboxInit, LocksHeld

(* A step that makes no lock and lets no operation leave the saving of its   *)
(* inbox.                                                                    *)
LEMMA StillHeld ==
  ASSUME LocksHeld, crashes' = crashes,
         \A a \in Agent : lock'[a] # "none" => lock[a] # "none",
         \A j \in Instance : op[j].pc \in PastLock =>
            op'[j].pc \in PastLock /\ op'[j].cur = op[j].cur
  PROVE  LocksHeld'
<1> SUFFICES ASSUME crashes = 0, NEW a \in Agent, lock'[a] # "none"
             PROVE  \E i \in Instance : op'[i].pc \in PastLock /\ op'[i].cur = a
  BY DEF LocksHeld
<1>1. PICK i \in Instance : op[i].pc \in PastLock /\ op[i].cur = a
  BY DEF LocksHeld
<1> QED  BY <1>1

(* The step of an operation that is not past its lock. *)
LEMMA OutsideKeepsHeld ==
  ASSUME Shape, LocksHeld, crashes' = crashes,
         \A a \in Agent : lock'[a] # "none" => lock[a] # "none",
         NEW i \in Instance, op[i].pc \notin PastLock, NEW o, op' = [op EXCEPT ![i] = o]
  PROVE  LocksHeld'
<1>1. op \in [Instance -> Operation]
  BY DEF Shape, MailboxTypeOK
<1>2. \A j \in Instance : op[j].pc \in PastLock => op'[j] = op[j]
  BY <1>1
<1> QED  BY <1>2, StillHeld

(* The step of an operation past its lock that stays so. *)
LEMMA PastLockKeepsHeld ==
  ASSUME Shape, LocksHeld, UNCHANGED <<lock, crashes>>,
         NEW i \in Instance, NEW step \in PastLock, op' = [op EXCEPT ![i].pc = step]
  PROVE  LocksHeld'
<1>1. op \in [Instance -> Operation]
  BY DEF Shape, MailboxTypeOK
<1>2. op[i] \in Operation
  BY <1>1
<1>3. op'[i].pc = step /\ op'[i].cur = op[i].cur /\ \A j \in Instance \ {i} : op'[j] = op[j]
  BY <1>1, <1>2 DEF Operation
<1>4. \A j \in Instance : op[j].pc \in PastLock =>
         op'[j].pc \in PastLock /\ op'[j].cur = op[j].cur
  BY <1>3
<1> QED  BY <1>4, StillHeld

LEMMA TakeLockHolds ==
  ASSUME Shape, LocksHeld, NEW i \in Instance, TakeLock(i)
  PROVE  LocksHeld'
<1>1. /\ op \in [Instance -> Operation] /\ lock \in [Agent -> {"none", "fresh", "stale"}]
      /\ op[i].pc = "lock" /\ crashes' = crashes
      /\ lock' = [lock EXCEPT ![op[i].cur] = "fresh"]
      /\ op' = [op EXCEPT ![i].pc = "write"]
  BY DEF Shape, MailboxTypeOK, TakeLock, At, countVars
<1>2. op[i] \in Operation
  BY <1>1
<1>3. op'[i].pc = "write" /\ op'[i].cur = op[i].cur /\ \A j \in Instance \ {i} : op'[j] = op[j]
  BY <1>1, <1>2 DEF Operation
<1> SUFFICES ASSUME crashes = 0, NEW a \in Agent, lock'[a] # "none"
             PROVE  \E j \in Instance : op'[j].pc \in PastLock /\ op'[j].cur = a
  BY <1>1 DEF LocksHeld
<1>4. CASE a = op[i].cur
  BY <1>3, <1>4 DEF PastLock
<1>5. CASE a # op[i].cur
  <2>1. PICK j \in Instance : op[j].pc \in PastLock /\ op[j].cur = a
    BY <1>1, <1>5 DEF LocksHeld
  <2>2. j # i
    BY <1>5, <2>1
  <2> QED  BY <1>3, <2>1, <2>2
<1> QED  BY <1>4, <1>5

LEMMA UnlockHolds ==
  ASSUME Shape, LocksHeld, NEW i \in Instance, Unlock(i)
  PROVE  LocksHeld'
<1>1. /\ op \in [Instance -> Operation] /\ lock \in [Agent -> {"none", "fresh", "stale"}]
      /\ op[i].pc = "unlock" /\ crashes' = crashes
      /\ lock' = [lock EXCEPT ![op[i].cur] = "none"]
      /\ op' = [op EXCEPT ![i] = Saved(@)]
  BY DEF Shape, MailboxTypeOK, Unlock, At, countVars
<1>2. \A j \in Instance \ {i} : op'[j] = op[j]
  BY <1>1
<1> SUFFICES ASSUME crashes = 0, NEW a \in Agent, lock'[a] # "none"
             PROVE  \E j \in Instance : op'[j].pc \in PastLock /\ op'[j].cur = a
  BY <1>1 DEF LocksHeld
<1>3. a # op[i].cur /\ lock[a] # "none"
  BY <1>1
<1>4. PICK j \in Instance : op[j].pc \in PastLock /\ op[j].cur = a
  BY <1>3 DEF LocksHeld
<1> QED  BY <1>2, <1>3, <1>4

LEMMA SaveHolds ==
  ASSUME Shape, LocksHeld, NEW i \in Instance, Save(i)
  PROVE  LocksHeld'
<1> USE DEF diskVars, countVars
<1>1. op \in [Instance -> Operation] /\ lock \in [Agent -> {"none", "fresh", "stale"}]
  BY DEF Shape, MailboxTypeOK
<1>2. CASE Load(i)
  <2>1. UNCHANGED <<lock, crashes>> /\ op[i].pc \notin PastLock
    BY <1>2 DEF Load, At, PastLock
  <2>2. \E o : op' = [op EXCEPT ![i] = o]
    BY <1>2 DEF Load
  <2> QED  BY <2>1, <2>2, OutsideKeepsHeld
<1>3. CASE FindLocked(i)
  <2>1. UNCHANGED <<lock, crashes>> /\ op[i].pc \notin PastLock
    BY <1>3 DEF FindLocked, At, PastLock
  <2>2. \A j \in Instance : op[j].pc \in PastLock => op'[j] = op[j]
    BY <1>1, <1>3, <2>1 DEF FindLocked
  <2> QED  BY <2>1, <2>2, StillHeld
<1>4. CASE BreakLock(i) \/ GiveUp(i)
  <2>1. /\ crashes' = crashes /\ lock' = [lock EXCEPT ![op[i].cur] = "none"]
        /\ op[i].pc \notin PastLock
    BY <1>4 DEF BreakLock, GiveUp, At, PastLock
  <2>2. \A j \in Instance : op[j].pc \in PastLock => op'[j] = op[j]
    BY <1>1, <1>4, <2>1 DEF BreakLock, GiveUp
  <2>3. \A a \in Agent : lock'[a] # "none" => lock[a] # "none"
    BY <1>1, <2>1
  <2> QED  BY <2>1, <2>2, <2>3, StillHeld
<1>5. CASE OpenTmp(i) \/ WriteTmp(i) \/ OpenDirect(i) \/ WriteDirect(i) \/ Rename(i)
  <2>1. UNCHANGED <<lock, crashes>>
    BY <1>5 DEF OpenTmp, WriteTmp, OpenDirect, WriteDirect, Rename
  <2>2. PICK step \in PastLock : op' = [op EXCEPT ![i].pc = step]
    BY <1>5 DEF OpenTmp, WriteTmp, OpenDirect, WriteDirect, Rename, PastLock
  <2> QED  BY <2>1, <2>2, PastLockKeepsHeld
<1>6. CASE TmpFails(i) \/ DirectFails(i) \/ RenameFails(i)
  <2>1. PICK step \in PastLock, b \in BOOLEAN : Fault(i, step, b)
    BY <1>6 DEF TmpFails, DirectFails, RenameFails, PastLock
  <2>2. UNCHANGED <<lock, crashes>> /\ op[i] \in Operation
    BY <1>1, <2>1 DEF Fault
  <2>3. op'[i] = [op[i] EXCEPT !.pc = step, !.failed = b]
        /\ \A j \in Instance \ {i} : op'[j] = op[j]
    BY <1>1, <2>1 DEF Fault
  <2>4. op'[i].pc = step /\ op'[i].cur = op[i].cur
    BY <2>2, <2>3 DEF Operation
  <2>5. \A j \in Instance : op[j].pc \in PastLock =>
           op'[j].pc \in PastLock /\ op'[j].cur = op[j].cur
    BY <2>3, <2>4
  <2> QED  BY <2>2, <2>5, StillHeld
<1>7. CASE RemoveOne(i)
  <2>1. PICK r \in op[i].todo :
          /\ lock' = IF r[1] = "lock" THEN [lock EXCEPT ![r[2]] = "none"] ELSE lock
          /\ op' = [op EXCEPT ![i] = Removed(@, r)]
    BY <1>7 DEF RemoveOne
  <2>2. crashes' = crashes /\ op[i].pc \notin PastLock
    BY <1>7 DEF RemoveOne, At, PastLock
  <2>3. \A a \in Agent : lock'[a] # "none" => lock[a] # "none"
    BY <1>1, <2>1
  <2> QED  BY <2>1, <2>2, <2>3, OutsideKeepsHeld
<1> QED  BY <1>2, <1>3, <1>4, <1>5, <1>6, <1>7, TakeLockHolds, UnlockHolds DEF Save

LEMMA CallHolds ==
  ASSUME Shape, LocksHeld, NEW i \in Instance, Call(i)
  PROVE  LocksHeld'
<1> USE DEF diskVars, countVars
<1>1. /\ op \in [Instance -> Operation] /\ UNCHANGED <<lock, crashes>>
  BY DEF Shape, MailboxTypeOK, Call, Send, Broadcast, BeginSend, Receive, Clear, ClearAll, Begin
<1>2. \A j \in Instance : op[j].pc \in PastLock => op'[j] = op[j]
  <2>1. ASSUME NEW what, NEW m, NEW S, Begin(i, what, m, S)
        PROVE  \A j \in Instance : op[j].pc \in PastLock => op'[j] = op[j]
    BY <1>1, <2>1 DEF Begin, At, PastLock
  <2> QED  BY <2>1 DEF Call, Send, Broadcast, BeginSend, Receive, Clear, ClearAll
<1> QED  BY <1>1, <1>2, StillHeld

LEMMA LocksHeldStep ==
  ASSUME Shape, LocksHeld, [MailboxNext]_mailboxVars
  PROVE  LocksHeld'
<1> USE DEF diskVars, countVars
<1>1. /\ crashes \in Nat /\ lock \in [Agent -> {"none", "fresh", "stale"}]
  BY MaxCrashesAssumption DEF Shape, MailboxTypeOK
<1>2. ASSUME NEW i \in Instance, Ensure(i)
      PROVE  LocksHeld'
  BY <1>2, StillHeld DEF Ensure, FindNoInbox, CreateInbox
<1>3. ASSUME NEW i \in Instance, Crash(i)
      PROVE  LocksHeld'
  BY <1>1, <1>3 DEF Crash, LocksHeld
<1>4. ASSUME NEW a \in Agent, LockAges(a)
      PROVE  LocksHeld'
  BY <1>1, <1>4, StillHeld DEF LockAges
<1>5. CASE UNCHANGED mailboxVars
  BY <1>5, StillHeld DEF mailboxVars
<1> QED  BY <1>2, <1>3, <1>4, <1>5, SaveHolds, CallHolds DEF MailboxNext

(* While nobody dies no lock file outlives the operations, for any number   *)
(* of objects that break and give up each other's locks.                    *)
THEOREM MailboxLeavesNoLock == MailboxSpec => []NoLockLeft
<1>1. LocksHeld => NoLockLeft
  BY DEF LocksHeld, NoLockLeft, PastLock, Saving
<1> QED  BY <1>1, ShapeInit, ShapeStep, LocksHeldInit, LocksHeldStep, PTL DEF MailboxSpec
-----------------------------------------------------------------------------
(* Operations that do not overlap: what one is about to write is what an    *)
(* atomic operation would make of the inbox as it is.                       *)

Current == Shape /\ BufferCurrent /\ EnsuredMissing

BufferAt(i) ==
    /\ op[i].pc \in Pending =>
          /\ op[i].buf = NewContents(op[i], file[op[i].cur])
          /\ op[i].kind = "receive" => file[op[i].cur] # NoFile
    /\ op[i].pc = "rename" => tmp[op[i].cur] = op[i].buf
    /\ op[i].pc = "direct" => file[op[i].cur] = {}

LEMMA BufferCurrentAt ==
  ASSUME BufferCurrent, NEW i \in Instance
  PROVE  BufferAt(i)
BY DEF BufferCurrent, BufferAt

(* While an object has an operation the others have none. *)
Alone(i) == /\ \A j \in Instance \ {i} : op[j].pc = "idle"
            /\ \A e \in ensuring : e[1] = i /\ e[2] \in Agent

LEMMA BusyIsAlone ==
  ASSUME Disjoint, Shape, NEW i \in Instance, Busy(i)
  PROVE  Alone(i)
<1>1. ASSUME NEW j \in Instance \ {i} PROVE op[j].pc = "idle"
  BY <1>1 DEF Disjoint, Busy, At
<1>2. ASSUME NEW e \in ensuring PROVE e[1] = i /\ e[2] \in Agent
  <2>1. e[1] \in Instance /\ e[2] \in Agent /\ e = <<e[1], e[2]>>
    BY DEF Shape, MailboxTypeOK
  <2>2. Busy(e[1])
    BY <2>1 DEF Busy
  <2> QED  BY <2>1, <2>2 DEF Disjoint
<1> QED  BY <1>1, <1>2 DEF Alone

LEMMA BufferCurrentAfter ==
  ASSUME NEW i \in Instance, \A j \in Instance \ {i} : op'[j].pc = "idle", BufferAt(i)'
  PROVE  BufferCurrent'
BY DEF BufferCurrent, BufferAt, Pending

(* Unless it is about to write, an object's buffer is of no concern. *)
LEMMA NothingToWrite ==
  ASSUME NEW i \in Instance, \A j \in Instance \ {i} : op'[j].pc = "idle",
         op'[i].pc \notin Pending \cup {"direct"}
  PROVE  BufferCurrent'
BY BufferCurrentAfter DEF BufferAt, Pending

LEMMA MissingReadsAsEmpty == Entries(NoFile) = {} /\ Entries({}) = {}
BY DEF Entries

LEMMA UnreadOfMissing == Unread(NoFile) = {}
BY MissingReadsAsEmpty DEF Unread

(* The same for a file that is missing and one that was just created. *)
LEMMA NewContentsOfCreated ==
  ASSUME NEW o
  PROVE  NewContents(o, NoFile) = NewContents(o, {})
BY MissingReadsAsEmpty DEF NewContents, Appended, MarkedRead

(* Contents computed for an operation are not NoFile, and neither are none. *)
LEMMA BufferIsFile ==
  ASSUME Shape, NEW i \in Instance
  PROVE  op[i].buf \in SUBSET Entry /\ op[i].buf # NoFile /\ {} # NoFile
<1>1. op[i].buf \in SUBSET Entry
  BY DEF Shape, MailboxTypeOK, Operation
<1> QED  BY <1>1, NoFileAssumption

LEMMA CurrentInit == MailboxInit => Current
BY ShapeInit DEF MailboxInit, Current, BufferCurrent, EnsuredMissing, NoOperation, Pending

(* The inboxes, from the operations and the files. *)
InboxOf(o, f) ==
    [a \in Agent |->
        IF \E i \in Instance : o[i].pc = "direct" /\ o[i].cur = a
        THEN o[CHOOSE i \in Instance : o[i].pc = "direct" /\ o[i].cur = a].buf ELSE f[a]]

LEMMA InboxIs == Inbox = InboxOf(op, file) /\ Inbox' = InboxOf(op', file')
BY DEF Inbox, InboxOf, Rewrites, At

LEMMA TwoInboxes ==
  ASSUME NEW f \in [Agent -> (SUBSET Entry) \cup {NoFile}], NEW a \in Agent, NEW c \in Agent,
         a # c, NEW x, NEW y
  PROVE  [[f EXCEPT ![a] = x] EXCEPT ![c] = y] = [[f EXCEPT ![c] = y] EXCEPT ![a] = x]
OBVIOUS

LEMMA InboxIsFile ==
  ASSUME NEW o, NEW f \in [Agent -> (SUBSET Entry) \cup {NoFile}],
         \A j \in Instance : o[j].pc # "direct"
  PROVE  InboxOf(o, f) = f
BY DEF InboxOf

LEMMA InboxIsRewritten ==
  ASSUME NEW o, NEW f \in [Agent -> (SUBSET Entry) \cup {NoFile}], NEW i \in Instance,
         \A j \in Instance \ {i} : o[j].pc # "direct", o[i].pc = "direct", o[i].cur \in Agent
  PROVE  InboxOf(o, f) = [f EXCEPT ![o[i].cur] = o[i].buf]
<1>1. ASSUME NEW a \in Agent
      PROVE  InboxOf(o, f)[a] = [f EXCEPT ![o[i].cur] = o[i].buf][a]
  <2>1. CASE a = o[i].cur
    <3>1. (CHOOSE j \in Instance : o[j].pc = "direct" /\ o[j].cur = a) = i
      BY <2>1
    <3> QED  BY <2>1, <3>1 DEF InboxOf
  <2>2. CASE a # o[i].cur
    <3>1. ~\E j \in Instance : o[j].pc = "direct" /\ o[j].cur = a
      BY <2>2
    <3> QED  BY <2>2, <3>1 DEF InboxOf
  <2> QED  BY <2>1, <2>2
<1>2. InboxOf(o, f) = [a \in Agent |-> InboxOf(o, f)[a]]
  BY DEF InboxOf
<1>3. [f EXCEPT ![o[i].cur] = o[i].buf]
        = [a \in Agent |-> [f EXCEPT ![o[i].cur] = o[i].buf][a]]
  OBVIOUS
<1> QED  BY <1>1, <1>2, <1>3

(* Replacing an inbox by the contents of the operation under way. *)
LEMMA EffectIsAtomic ==
  ASSUME Current, NEW i \in Instance, op[i].pc \in {"rename", "fallback"},
         Inbox = file, Inbox' = [file EXCEPT ![op[i].cur] = op[i].buf]
  PROVE  Atomic!AtomicNext
<1> DEFINE a == op[i].cur
<1>1. op[i].pc \in Saving /\ op[i].pc \in Pending
  BY DEF Saving, Pending
<1>2. a \in Agent /\ op[i].kind \in {"send", "receive"}
      /\ (op[i].kind = "send" => op[i].msg \in Message)
  BY <1>1 DEF Current, Shape, OperationKnown
<1>3. op[i].buf = NewContents(op[i], file[a])
  BY <1>1, BufferCurrentAt DEF Current, BufferAt
<1>4. CASE op[i].kind = "send"
  <2>1. op[i].buf = Atomic!Appended(file[a], op[i].msg)
    BY <1>3, <1>4 DEF NewContents, Appended, Supersedes, Entries,
                      Atomic!Appended, Atomic!Supersedes, Atomic!Entries
  <2>2. Atomic!Deliver(a, op[i].msg)
    BY <2>1 DEF Atomic!Deliver
  <2> QED  BY <1>2, <1>4, <2>2 DEF Atomic!AtomicNext
<1>5. CASE op[i].kind = "receive"
  <2>1. op[i].buf = Atomic!MarkedRead(file[a])
    BY <1>3, <1>5 DEF NewContents, MarkedRead, Entries, Atomic!MarkedRead, Atomic!Entries
  <2>2. Atomic!Take(a)
    BY <2>1 DEF Atomic!Take
  <2> QED  BY <1>2, <2>2 DEF Atomic!AtomicNext
<1> QED  BY <1>2, <1>4, <1>5

(* The inbox that is written is not one EnsureInbox is about to create. *)
LEMMA EffectKeepsEnsured ==
  ASSUME Current, NEW i \in Instance, Alone(i),
         op[i].pc \in {"rename", "fallback", "direct"},
         NEW f, file' = [file EXCEPT ![op[i].cur] = f],
         NEW step, op' = [op EXCEPT ![i].pc = step],
         UNCHANGED ensuring
  PROVE  EnsuredMissing'
<1> DEFINE a == op[i].cur
<1>1. op[i].pc \in Saving
  BY DEF Saving
<1>2. /\ a \in op[i].todo /\ op[i].kind \in {"send", "receive"}
      /\ op \in [Instance -> Operation] /\ ensuring \subseteq Instance \X Agent
      /\ file \in [Agent -> (SUBSET Entry) \cup {NoFile}]
  BY <1>1 DEF Current, Shape, OperationKnown, MailboxTypeOK
<1>3. op[i].kind = "receive" => file[a] # NoFile
  <2>1. CASE op[i].pc = "direct"
    BY <2>1, BufferCurrentAt, BufferIsFile DEF Current, BufferAt
  <2>2. CASE op[i].pc # "direct"
    BY <2>2, BufferCurrentAt DEF Current, BufferAt, Pending
  <2> QED  BY <2>1, <2>2
<1>4. op'[i].kind = op[i].kind /\ op'[i].todo = op[i].todo
  BY <1>2 DEF Operation
<1>5. ASSUME NEW e \in ensuring
      PROVE  file'[e[2]] = NoFile /\ ~(op'[e[1]].kind = "send" /\ e[2] \in op'[e[1]].todo)
  <2>1. e[1] = i /\ e[2] \in Agent
    BY DEF Alone
  <2>2. file[e[2]] = NoFile /\ ~(op[i].kind = "send" /\ e[2] \in op[i].todo)
    BY <2>1 DEF Current, EnsuredMissing
  <2>3. e[2] # a
    BY <1>2, <1>3, <2>2
  <2> QED  BY <1>2, <1>4, <2>1, <2>2, <2>3
<1> QED  BY <1>5 DEF EnsuredMissing

(* What is left to show of a step, its types being known. *)
Advances == /\ BufferCurrent' /\ EnsuredMissing'
            /\ Atomic!AtomicNext \/ UNCHANGED Inbox

(* Files that did not change, and nobody rewriting one. *)
LEMMA InboxStays ==
  ASSUME Shape, UNCHANGED file, NEW i \in Instance,
         \A j \in Instance \ {i} : op'[j] = op[j],
         op[i].pc # "direct", op'[i].pc # "direct"
  PROVE  UNCHANGED Inbox
<1>1. \A a \in Agent, j \in Instance :
         (op'[j].pc = "direct" /\ op'[j].cur = a) <=> (op[j].pc = "direct" /\ op[j].cur = a)
  OBVIOUS
<1>2. ASSUME NEW a \in Agent PROVE Inbox'[a] = Inbox[a]
  <2> DEFINE w(o) == CHOOSE j \in Instance : o[j].pc = "direct" /\ o[j].cur = a
  <2>1. CASE \E j \in Instance : op[j].pc = "direct" /\ op[j].cur = a
    <3>1. w(op') = w(op)
      BY <1>1
    <3>2. w(op) \in Instance \ {i}
      BY <2>1
    <3>3. op'[w(op')].buf = op[w(op)].buf
      BY <3>1, <3>2
    <3>4. \E j \in Instance : op'[j].pc = "direct" /\ op'[j].cur = a
      BY <1>1, <2>1
    <3>5. InboxOf(op, file)[a] = op[w(op)].buf
      BY <2>1 DEF InboxOf
    <3>6. InboxOf(op', file')[a] = op'[w(op')].buf
      BY <3>4 DEF InboxOf
    <3> QED  BY <3>3, <3>5, <3>6, InboxIs
  <2>2. CASE ~\E j \in Instance : op[j].pc = "direct" /\ op[j].cur = a
    BY <1>1, <2>2, InboxIs DEF InboxOf
  <2> QED  BY <2>1, <2>2
<1>3. Inbox = [a \in Agent |-> Inbox[a]] /\ Inbox' = [a \in Agent |-> Inbox'[a]]
  BY DEF Inbox
<1> QED  BY <1>2, <1>3

(* The step of an object alone that neither begins nor ends a rewrite. *)
LEMMA InboxFollowsFile ==
  ASSUME Shape, Shape', NEW i \in Instance, Alone(i),
         \A j \in Instance \ {i} : op'[j] = op[j],
         op[i].pc # "direct", op'[i].pc # "direct"
  PROVE  Inbox = file /\ Inbox' = file'
<1>1. \A j \in Instance : op[j].pc # "direct" /\ op'[j].pc # "direct"
  BY DEF Alone
<1>2. /\ file \in [Agent -> (SUBSET Entry) \cup {NoFile}]
      /\ file' \in [Agent -> (SUBSET Entry) \cup {NoFile}]
  BY DEF Shape, MailboxTypeOK
<1> QED  BY <1>1, <1>2, InboxIs, InboxIsFile

(* A step that moves the program counter on and may set the lock. *)
LEMMA QuietStep ==
  ASSUME Current, NEW i \in Instance, Alone(i), UNCHANGED <<file, ensuring>>,
         \A j \in Instance \ {i} : op'[j] = op[j],
         op'[i].kind = op[i].kind, op'[i].msg = op[i].msg, op'[i].todo = op[i].todo,
         op'[i].cur = op[i].cur, op'[i].buf = op[i].buf,
         op[i].pc \in Pending, op'[i].pc \in Pending,
         op'[i].pc = "rename" => tmp'[op[i].cur] = op[i].buf
  PROVE  Advances
<1>1. BufferAt(i)
  BY BufferCurrentAt DEF Current
<1>2. NewContents(op'[i], file[op[i].cur]) = NewContents(op[i], file[op[i].cur])
  BY DEF NewContents
<1>3. op[i].pc # "direct" /\ op'[i].pc # "direct"
  BY DEF Pending
<1>4. BufferAt(i)'
  BY <1>1, <1>2, <1>3 DEF BufferAt
<1>5. BufferCurrent'
  BY <1>4, BufferCurrentAfter DEF Alone
<1>6. EnsuredMissing'
  BY DEF Current, EnsuredMissing, Alone
<1>7. UNCHANGED Inbox
  BY <1>3, InboxStays DEF Current
<1> QED  BY <1>5, <1>6, <1>7 DEF Advances

(* The end of a rewrite, done or interrupted. *)
LEMMA RewriteEnds ==
  ASSUME Current, Shape', NEW i \in Instance, Alone(i), op[i].pc = "direct",
         \A j \in Instance \ {i} : op'[j] = op[j], op'[i].pc \in {"unlock", "idle"},
         \/ file' = [file EXCEPT ![op[i].cur] = op[i].buf]
         \/ UNCHANGED file
  PROVE  BufferCurrent' /\ (Atomic!AtomicNext \/ UNCHANGED Inbox)
<1> DEFINE a == op[i].cur
<1>1. a \in Agent
  BY DEF Current, Shape, OperationKnown, Saving
<1>2. /\ file \in [Agent -> (SUBSET Entry) \cup {NoFile}]
      /\ file' \in [Agent -> (SUBSET Entry) \cup {NoFile}]
  BY DEF Current, Shape, MailboxTypeOK
<1>3. \A j \in Instance \ {i} : op[j].pc # "direct"
  BY DEF Alone
<1>4. Inbox = [file EXCEPT ![a] = op[i].buf]
  BY <1>1, <1>2, <1>3, InboxIs, InboxIsRewritten
<1>5. \A j \in Instance : op'[j].pc # "direct"
  BY <1>3
<1>6. Inbox' = file'
  BY <1>2, <1>5, InboxIs, InboxIsFile
<1>7. BufferCurrent'
  BY NothingToWrite DEF Alone, Pending
<1>8. CASE file' = [file EXCEPT ![a] = op[i].buf]
  BY <1>4, <1>6, <1>7, <1>8
<1>9. CASE UNCHANGED file
  <2>1. file[a] = {}
    BY BufferCurrentAt DEF Current, BufferAt
  <2>2. Inbox' = [Inbox EXCEPT ![a] = {}]
    BY <1>1, <1>2, <1>4, <1>6, <1>9, <2>1
  <2>3. Atomic!Lose(a)
    BY <2>2 DEF Atomic!Lose
  <2> QED  BY <1>1, <1>7, <2>3 DEF Atomic!AtomicNext
<1> QED  BY <1>8, <1>9

LEMMA SaveAdvances ==
  ASSUME Disjoint, Current, Shape', NEW i \in Instance, Save(i)
  PROVE  Advances
<1> USE DEF diskVars
<1>1. /\ op \in [Instance -> Operation] /\ op[i] \in Operation
      /\ tmp \in [Agent -> (SUBSET Entry) \cup {NoFile}]
      /\ file \in [Agent -> (SUBSET Entry) \cup {NoFile}]
  BY DEF Current, Shape, MailboxTypeOK
<1>2. BufferAt(i)
  BY BufferCurrentAt DEF Current
<1>3. op[i].pc # "idle"
  BY DEF Save, Load, TakeLock, FindLocked, BreakLock, GiveUp, OpenTmp, WriteTmp, TmpFails,
         OpenDirect, WriteDirect, DirectFails, Rename, RenameFails, Unlock, RemoveOne, At
<1>4. Alone(i)
  BY <1>3, BusyIsAlone DEF Busy, At, Current
<1>5. \A e \in ensuring :
        /\ e[1] = i /\ e[2] \in Agent /\ file[e[2]] = NoFile
        /\ ~(op[i].kind = "send" /\ e[2] \in op[i].todo)
  BY <1>4 DEF Current, EnsuredMissing, Alone
<1>6. ASSUME NEW o, op' = [op EXCEPT ![i] = o]
      PROVE  op'[i] = o /\ \A j \in Instance \ {i} : op'[j] = op[j] /\ op'[j].pc = "idle"
  BY <1>1, <1>4, <1>6 DEF Alone
<1>7. ASSUME NEW step, op' = [op EXCEPT ![i].pc = step]
      PROVE  /\ \A j \in Instance \ {i} : op'[j] = op[j] /\ op'[j].pc = "idle"
             /\ op'[i].pc = step /\ op'[i].cur = op[i].cur /\ op'[i].kind = op[i].kind
             /\ op'[i].buf = op[i].buf /\ op'[i].msg = op[i].msg /\ op'[i].todo = op[i].todo
  BY <1>1, <1>4, <1>7 DEF Alone, Operation
<1>8. ASSUME NEW step, \/ TmpFails(i) /\ step = "fallback"
                       \/ DirectFails(i) /\ step = "unlock"
                       \/ RenameFails(i) /\ step = "unlock"
      PROVE  /\ UNCHANGED <<file, tmp, ensuring>>
             /\ \A j \in Instance \ {i} : op'[j] = op[j] /\ op'[j].pc = "idle"
             /\ op'[i].pc = step /\ op'[i].cur = op[i].cur /\ op'[i].kind = op[i].kind
             /\ op'[i].buf = op[i].buf /\ op'[i].msg = op[i].msg /\ op'[i].todo = op[i].todo
  <2>1. \/ op'[i] = [op[i] EXCEPT !.pc = step, !.failed = TRUE]
        \/ op'[i] = [op[i] EXCEPT !.pc = step, !.failed = FALSE]
    BY <1>1, <1>8 DEF Fault, TmpFails, DirectFails, RenameFails
  <2>2. UNCHANGED <<file, tmp, ensuring>> /\ \A j \in Instance \ {i} : op'[j] = op[j]
    BY <1>1, <1>8 DEF Fault, TmpFails, DirectFails, RenameFails
  <2> QED  BY <1>1, <1>4, <2>1, <2>2 DEF Alone, Operation
<1>9. CASE Load(i)
  <2>1. PICK a \in op[i].todo :
          op' = [op EXCEPT ![i] =
                   IF @.kind = "receive" /\ Unread(file[a]) = {} THEN NoOperation
                   ELSE [@ EXCEPT !.pc = "lock", !.cur = a,
                                  !.buf = NewContents(op[i], file[a]),
                                  !.taken = Unread(file[a])]]
    BY <1>9 DEF Load
  <2>2. UNCHANGED <<file, tmp, lock, ensuring>> /\ op[i].pc = "load"
    BY <1>9 DEF Load, At
  <2>3. \A j \in Instance \ {i} : op'[j] = op[j] /\ op'[j].pc = "idle"
    BY <1>1, <1>4, <2>1 DEF Alone
  <2>4. CASE op[i].kind = "receive" /\ Unread(file[a]) = {}
    <3>1. op'[i] = NoOperation
      BY <1>1, <2>1, <2>4
    <3>2. EnsuredMissing'
      BY <1>5, <2>2, <3>1 DEF EnsuredMissing, NoOperation
    <3>3. op'[i].pc = "idle"
      BY <3>1 DEF NoOperation
    <3>4. UNCHANGED Inbox
      BY <2>2, <2>3, <3>3, InboxStays DEF Current
    <3>5. BufferCurrent'
      BY <2>3, <3>3, NothingToWrite DEF Pending
    <3> QED  BY <3>2, <3>4, <3>5 DEF Advances
  <2>5. CASE ~(op[i].kind = "receive" /\ Unread(file[a]) = {})
    <3>1. op'[i] = [op[i] EXCEPT !.pc = "lock", !.cur = a,
                                 !.buf = NewContents(op[i], file[a]),
                                 !.taken = Unread(file[a])]
      BY <1>1, <2>1, <2>5
    <3>2. /\ op'[i].pc = "lock" /\ op'[i].cur = a /\ op'[i].kind = op[i].kind
          /\ op'[i].buf = NewContents(op[i], file[a])
          /\ op'[i].msg = op[i].msg /\ op'[i].todo = op[i].todo
      BY <1>1, <3>1 DEF Operation
    <3>3. NewContents(op'[i], file[a]) = NewContents(op[i], file[a])
      BY <3>2 DEF NewContents
    <3>4. op[i].kind = "receive" => file[a] # NoFile
      BY <2>5, UnreadOfMissing
    <3>5. BufferAt(i)'
      BY <2>2, <3>2, <3>3, <3>4 DEF BufferAt
    <3>6. EnsuredMissing'
      BY <1>5, <2>2, <3>2 DEF EnsuredMissing
    <3>7. UNCHANGED Inbox
      BY <2>2, <2>3, <3>2, InboxStays DEF Current
    <3> QED  BY <2>3, <3>5, <3>6, <3>7, BufferCurrentAfter DEF Advances
  <2> QED  BY <2>4, <2>5
<1>10. CASE TakeLock(i)
  <2>1. op[i].pc = "lock" /\ UNCHANGED <<file, ensuring>> /\ op' = [op EXCEPT ![i].pc = "write"]
    BY <1>10 DEF TakeLock, At
  <2> QED  BY <1>4, <1>7, <2>1, QuietStep DEF Pending
<1>11. CASE FindLocked(i)
  <2>1. op[i].pc = "lock" /\ UNCHANGED <<file, ensuring>>
    BY <1>11 DEF FindLocked, At
  <2>2. /\ \A j \in Instance \ {i} : op'[j] = op[j]
        /\ op'[i].pc \in {"lock", "break"} /\ op'[i].cur = op[i].cur /\ op'[i].kind = op[i].kind
        /\ op'[i].buf = op[i].buf /\ op'[i].msg = op[i].msg /\ op'[i].todo = op[i].todo
    BY <1>1, <1>11, <2>1 DEF FindLocked, Operation
  <2> QED  BY <1>4, <2>1, <2>2, QuietStep DEF Pending
<1>12. CASE BreakLock(i)
  <2>1. op[i].pc = "break" /\ UNCHANGED <<file, ensuring>> /\ op' = [op EXCEPT ![i].pc = "lock"]
    BY <1>12 DEF BreakLock, At
  <2> QED  BY <1>4, <1>7, <2>1, QuietStep DEF Pending
<1>13. CASE GiveUp(i)
  <2>1. op[i].pc = "lock" /\ UNCHANGED <<file, ensuring>> /\ op' = [op EXCEPT ![i].pc = "write"]
    BY <1>13 DEF GiveUp, At
  <2> QED  BY <1>4, <1>7, <2>1, QuietStep DEF Pending
<1>14. CASE OpenTmp(i)
  <2>1. op[i].pc = "write" /\ UNCHANGED <<file, ensuring>> /\ op' = [op EXCEPT ![i].pc = "fill"]
    BY <1>14 DEF OpenTmp, At
  <2> QED  BY <1>4, <1>7, <2>1, QuietStep DEF Pending
<1>15. CASE WriteTmp(i)
  <2>1. /\ op[i].pc = "fill" /\ UNCHANGED <<file, ensuring>>
        /\ op' = [op EXCEPT ![i].pc = "rename"]
        /\ tmp' = [tmp EXCEPT ![op[i].cur] = op[i].buf]
    BY <1>15 DEF WriteTmp, At
  <2>2. op[i].cur \in Agent
    BY <2>1 DEF Current, Shape, OperationKnown, Saving
  <2>3. tmp'[op[i].cur] = op[i].buf
    BY <1>1, <2>1, <2>2
  <2> QED  BY <1>4, <1>7, <2>1, <2>3, QuietStep DEF Pending
<1>16. CASE TmpFails(i)
  <2>1. op[i].pc \in {"write", "fill"}
    BY <1>16 DEF TmpFails, At
  <2> QED  BY <1>4, <1>8, <1>16, <2>1, QuietStep DEF Pending
<1>17. CASE OpenDirect(i)
  <2>1. /\ op[i].pc = "fallback" /\ UNCHANGED ensuring
        /\ op' = [op EXCEPT ![i].pc = "direct"]
        /\ file' = [file EXCEPT ![op[i].cur] = {}]
    BY <1>17 DEF OpenDirect, At
  <2>2. op[i].cur \in Agent
    BY <2>1 DEF Current, Shape, OperationKnown, Saving
  <2>3. \A j \in Instance \ {i} : op[j].pc # "direct" /\ op'[j].pc # "direct"
    BY <1>4, <1>7, <2>1 DEF Alone
  <2>4. file' \in [Agent -> (SUBSET Entry) \cup {NoFile}]
    BY <1>1, <2>1
  <2>5. Inbox = file
    BY <1>1, <2>1, <2>3, InboxIs, InboxIsFile
  <2>6. Inbox' = [file' EXCEPT ![op[i].cur] = op[i].buf]
    <3>1. op'[i].pc = "direct" /\ op'[i].cur = op[i].cur /\ op'[i].buf = op[i].buf
      BY <1>7, <2>1
    <3>2. InboxOf(op', file') = [file' EXCEPT ![op'[i].cur] = op'[i].buf]
      BY <2>2, <2>3, <2>4, <3>1, InboxIsRewritten
    <3> QED  BY <3>1, <3>2, InboxIs
  <2>7. Inbox' = [file EXCEPT ![op[i].cur] = op[i].buf]
    BY <1>1, <2>1, <2>2, <2>6
  <2>8. Atomic!AtomicNext
    BY <2>1, <2>5, <2>7, EffectIsAtomic
  <2>9. BufferAt(i)'
    BY <1>1, <1>7, <2>1, <2>2 DEF BufferAt, Pending
  <2>10. EnsuredMissing'
    BY <1>4, <2>1, EffectKeepsEnsured
  <2> QED  BY <1>7, <2>1, <2>8, <2>9, <2>10, BufferCurrentAfter DEF Advances
<1>18. CASE WriteDirect(i)
  <2>1. /\ op[i].pc = "direct" /\ UNCHANGED ensuring
        /\ op' = [op EXCEPT ![i].pc = "unlock"]
        /\ file' = [file EXCEPT ![op[i].cur] = op[i].buf]
    BY <1>18 DEF WriteDirect, At
  <2>2. EnsuredMissing'
    BY <1>4, <2>1, EffectKeepsEnsured
  <2> QED  BY <1>4, <1>7, <2>1, <2>2, RewriteEnds DEF Advances
<1>19. CASE DirectFails(i)
  <2>1. op[i].pc \in {"fallback", "direct"}
    BY <1>19 DEF DirectFails, At
  <2>2. EnsuredMissing'
    BY <1>5, <1>8, <1>19, <2>1 DEF EnsuredMissing
  <2>3. CASE op[i].pc = "direct"
    BY <1>4, <1>8, <1>19, <2>1, <2>2, <2>3, RewriteEnds DEF Advances
  <2>4. CASE op[i].pc = "fallback"
    <3>1. UNCHANGED Inbox
      BY <1>8, <1>19, <2>1, <2>4, InboxStays DEF Current
    <3> QED  BY <1>8, <1>19, <2>1, <2>2, <3>1, NothingToWrite DEF Advances, Pending
  <2> QED  BY <2>1, <2>3, <2>4
<1>20. CASE Rename(i)
  <2>1. op[i].pc = "rename" /\ UNCHANGED ensuring /\ op' = [op EXCEPT ![i].pc = "unlock"]
    BY <1>20 DEF Rename, At
  <2>2. tmp[op[i].cur] = op[i].buf /\ op[i].buf # NoFile
    BY <1>2, <2>1, BufferIsFile DEF BufferAt, Current
  <2>3. file' = [file EXCEPT ![op[i].cur] = op[i].buf]
    BY <1>20, <2>2 DEF Rename
  <2>4. Inbox = file /\ Inbox' = file'
    BY <1>4, <1>7, <2>1, InboxFollowsFile DEF Current
  <2>5. Atomic!AtomicNext
    BY <2>1, <2>3, <2>4, EffectIsAtomic
  <2>6. EnsuredMissing'
    BY <1>4, <2>1, <2>3, EffectKeepsEnsured
  <2> QED  BY <1>7, <2>1, <2>5, <2>6, NothingToWrite DEF Advances, Pending
<1>21. CASE RenameFails(i)
  <2>1. op[i].pc = "rename"
    BY <1>21 DEF RenameFails, At
  <2>2. EnsuredMissing'
    BY <1>5, <1>8, <1>21, <2>1 DEF EnsuredMissing
  <2>3. UNCHANGED Inbox
    BY <1>8, <1>21, <2>1, InboxStays DEF Current
  <2> QED  BY <1>8, <1>21, <2>1, <2>2, <2>3, NothingToWrite DEF Advances, Pending
<1>22. CASE Unlock(i)
  <2>1. op[i].pc = "unlock" /\ op' = [op EXCEPT ![i] = Saved(op[i])] /\ UNCHANGED <<file, ensuring>>
    BY <1>22 DEF Unlock, At
  <2>2. op'[i].pc \in {"idle", "load"} /\ op'[i].todo \subseteq op[i].todo
        /\ op'[i].kind \in {"none", op[i].kind}
    BY <1>6, <2>1 DEF Saved, NoOperation
  <2>3. EnsuredMissing'
    BY <1>5, <2>1, <2>2 DEF EnsuredMissing
  <2>4. UNCHANGED Inbox
    BY <1>6, <2>1, <2>2, InboxStays DEF Current
  <2> QED  BY <1>6, <2>1, <2>2, <2>3, <2>4, NothingToWrite DEF Advances, Pending
<1>23. CASE RemoveOne(i)
  <2>1. PICK r \in op[i].todo :
          /\ file' = IF r[1] = "json" THEN [file EXCEPT ![r[2]] = NoFile] ELSE file
          /\ op' = [op EXCEPT ![i] = Removed(op[i], r)]
    BY <1>23 DEF RemoveOne
  <2>2. op[i].pc = "remove" /\ UNCHANGED ensuring
    BY <1>23 DEF RemoveOne, At
  <2>3. r \in Removable
    BY <2>2 DEF Current, Shape, OperationKnown
  <2>4. op'[i] = Removed(op[i], r)
    BY <1>1, <2>1
  <2>5. op'[i].pc \in {"idle", "remove"} /\ op'[i].todo \subseteq op[i].todo
        /\ op'[i].kind \in {"none", op[i].kind}
    BY <1>1, <2>2, <2>4 DEF Removed, NoOperation, Operation
  <2>6. EnsuredMissing'
    <3>1. \A e \in ensuring : file'[e[2]] = NoFile
      BY <1>1, <1>5, <2>1
    <3> QED  BY <1>5, <2>2, <2>5, <3>1 DEF EnsuredMissing
  <2>7. Inbox = file /\ Inbox' = file'
    BY <1>4, <1>6, <2>1, <2>2, <2>5, InboxFollowsFile DEF Current
  <2>8. Atomic!AtomicNext \/ UNCHANGED Inbox
    <3>1. CASE r[1] = "json"
      BY <2>1, <2>3, <2>7, <3>1 DEF Removable, Atomic!AtomicNext, Atomic!RemoveInbox
    <3>2. CASE r[1] # "json"
      BY <2>1, <2>7, <3>2
    <3> QED  BY <3>1, <3>2
  <2> QED  BY <1>6, <2>1, <2>5, <2>6, <2>8, NothingToWrite DEF Advances, Pending
<1> QED  BY <1>9, <1>10, <1>11, <1>12, <1>13, <1>14, <1>15, <1>16, <1>17, <1>18, <1>19,
            <1>20, <1>21, <1>22, <1>23 DEF Save

LEMMA CallAdvances ==
  ASSUME Current, NEW i \in Instance, Call(i)
  PROVE  Advances
<1> USE DEF diskVars
<1>1. /\ op \in [Instance -> Operation] /\ op[i] \in Operation
      /\ ensuring \subseteq Instance \X Agent
  BY DEF Current, Shape, MailboxTypeOK
<1>2. ASSUME NEW what \in {"send", "receive", "clear"}, NEW m, NEW S, Begin(i, what, m, S),
             what = "send" => \A a \in S : <<i, a>> \notin ensuring
      PROVE  Advances
  <2>1. UNCHANGED <<file, tmp, ensuring>> /\ op[i].pc = "idle"
    BY <1>2 DEF Begin, At
  <2>2. op'[i] = IF S = {} THEN NoOperation
                 ELSE [op[i] EXCEPT !.pc = IF what = "clear" THEN "remove" ELSE "load",
                                    !.kind = what, !.msg = m, !.todo = S]
    BY <1>1, <1>2 DEF Begin
  <2>3. \A j \in Instance \ {i} : op'[j] = op[j]
    BY <1>1, <1>2 DEF Begin
  <2>4. /\ op'[i].pc \in {"idle", "remove", "load"}
        /\ op'[i].kind = "send" => what = "send" /\ op'[i].todo = S
    BY <1>1, <2>2 DEF NoOperation, Operation
  <2>5. EnsuredMissing'
    <3>1. SUFFICES ASSUME NEW e \in ensuring
                   PROVE  ~(op'[e[1]].kind = "send" /\ e[2] \in op'[e[1]].todo)
      BY <2>1 DEF Current, EnsuredMissing
    <3>2. e = <<e[1], e[2]>> /\ e[1] \in Instance
      BY <1>1
    <3>3. CASE e[1] = i
      BY <1>2, <2>4, <3>2, <3>3
    <3>4. CASE e[1] # i
      BY <2>3, <3>2, <3>4 DEF Current, EnsuredMissing
    <3> QED  BY <3>3, <3>4
  <2>6. BufferCurrent'
    BY <2>1, <2>3, <2>4 DEF Current, BufferCurrent, Pending
  <2>7. UNCHANGED Inbox
    BY <2>1, <2>3, <2>4, InboxStays DEF Current
  <2> QED  BY <2>5, <2>6, <2>7 DEF Advances
<1>3. ASSUME NEW m, NEW S, BeginSend(i, m, S)
      PROVE  Advances
  BY <1>2, <1>3 DEF BeginSend
<1>4. ASSUME NEW a \in Agent, Receive(i, a) \/ Clear(i, a)
      PROVE  Advances
  BY <1>2, <1>4 DEF Receive, Clear
<1>5. CASE ClearAll(i)
  <2>1. PICK S : Begin(i, "clear", NoMessage, S)
    BY <1>5 DEF ClearAll
  <2> QED  BY <1>2, <2>1
<1> QED  BY <1>3, <1>4, <1>5 DEF Call, Send, Broadcast

LEMMA StepAdvances ==
  ASSUME Disjoint, Current, Shape', [MailboxNext]_mailboxVars
  PROVE  Advances
<1> USE DEF diskVars
<1>1. /\ op \in [Instance -> Operation]
      /\ file \in [Agent -> (SUBSET Entry) \cup {NoFile}]
      /\ ensuring \subseteq Instance \X Agent
  BY DEF Current, Shape, MailboxTypeOK
<1>2. ASSUME NEW i \in Instance, NEW a \in Agent, FindNoInbox(i, a)
      PROVE  Advances
  <2>1. /\ UNCHANGED <<file, tmp, op>> /\ ensuring' = ensuring \cup {<<i, a>>}
        /\ file[a] = NoFile /\ ~(op[i].kind = "send" /\ a \in op[i].todo)
    BY <1>2 DEF FindNoInbox
  <2>2. EnsuredMissing'
    BY <2>1 DEF Current, EnsuredMissing
  <2>3. BufferCurrent'
    BY <2>1 DEF Current, BufferCurrent
  <2> QED  BY <2>1, <2>2, <2>3, InboxIs DEF Advances
<1>3. ASSUME NEW i \in Instance, NEW a \in Agent, CreateInbox(i, a)
      PROVE  Advances
  <2>1. /\ UNCHANGED <<tmp, op>> /\ ensuring' = ensuring \ {<<i, a>>}
        /\ <<i, a>> \in ensuring /\ file' = [file EXCEPT ![a] = {}]
    BY <1>3 DEF CreateInbox
  <2>2. file[a] = NoFile
    BY <2>1 DEF Current, EnsuredMissing
  <2>3. Alone(i)
    BY <2>1, BusyIsAlone DEF Busy, Current
  <2>4. EnsuredMissing'
    <3>1. ASSUME NEW e \in ensuring' PROVE e \in ensuring /\ e[2] # a /\ e[2] \in Agent
      <4>1. e \in ensuring /\ e # <<i, a>> /\ e = <<i, e[2]>> /\ e[2] \in Agent
        BY <1>1, <2>1, <2>3, <3>1 DEF Alone
      <4> QED  BY <4>1
    <3> QED  BY <1>1, <2>1, <3>1 DEF Current, EnsuredMissing
  <2>5. BufferAt(i)
    BY BufferCurrentAt DEF Current
  <2>6. BufferAt(i)'
    <3>1. CASE op[i].cur = a
      BY <1>1, <2>1, <2>2, <2>5, <3>1, NewContentsOfCreated, BufferIsFile DEF BufferAt, Current
    <3>2. CASE op[i].cur # a
      <4>1. file'[op[i].cur] = file[op[i].cur]
        BY <1>1, <2>1, <3>2
      <4> QED  BY <2>1, <2>5, <4>1 DEF BufferAt
    <3> QED  BY <3>1, <3>2
  <2>7. BufferCurrent'
    BY <2>1, <2>3, <2>6, BufferCurrentAfter DEF Alone
  <2>8. Inbox' = [Inbox EXCEPT ![a] = {}] /\ Inbox[a] = NoFile
    <3>1. file' \in [Agent -> (SUBSET Entry) \cup {NoFile}]
      BY <1>1, <2>1
    <3>2. CASE op[i].pc = "direct"
      <4>1. op[i].cur \in Agent
        BY <3>2 DEF Current, Shape, OperationKnown, Saving
      <4>2. op[i].cur # a
        BY <2>2, <2>5, <3>2, BufferIsFile DEF BufferAt, Current
      <4>3. \A j \in Instance \ {i} : op[j].pc # "direct"
        BY <2>3 DEF Alone
      <4>4. Inbox = [file EXCEPT ![op[i].cur] = op[i].buf]
        BY <1>1, <3>2, <4>1, <4>3, InboxIs, InboxIsRewritten
      <4>5. Inbox' = [file' EXCEPT ![op[i].cur] = op[i].buf]
        BY <2>1, <3>1, <3>2, <4>1, <4>3, InboxIs, InboxIsRewritten
      <4>6. Inbox' = [Inbox EXCEPT ![a] = {}]
        BY <1>1, <2>1, <4>1, <4>2, <4>4, <4>5, TwoInboxes
      <4>7. Inbox[a] = NoFile
        BY <1>1, <2>2, <4>1, <4>2, <4>4
      <4> QED  BY <4>6, <4>7
    <3>3. CASE op[i].pc # "direct"
      <4>1. \A j \in Instance : op[j].pc # "direct"
        BY <2>3, <3>3 DEF Alone
      <4>2. Inbox = file /\ Inbox' = file'
        BY <1>1, <2>1, <3>1, <4>1, InboxIs, InboxIsFile
      <4> QED  BY <2>1, <2>2, <4>2
    <3> QED  BY <3>2, <3>3
  <2>9. Atomic!Create(a)
    BY <2>8 DEF Atomic!Create
  <2> QED  BY <2>4, <2>7, <2>9 DEF Advances, Atomic!AtomicNext
<1>4. ASSUME NEW i \in Instance, Crash(i)
      PROVE  Advances
  <2>1. /\ op' = [op EXCEPT ![i] = NoOperation] /\ UNCHANGED file
        /\ ensuring' = {e \in ensuring : e[1] # i} /\ Busy(i)
    BY <1>4 DEF Crash, Busy
  <2>2. Alone(i)
    BY <2>1, BusyIsAlone DEF Current
  <2>3. ensuring' = {}
    BY <2>1, <2>2 DEF Alone
  <2>4. EnsuredMissing'
    BY <2>3 DEF EnsuredMissing
  <2>5. op'[i].pc = "idle" /\ \A j \in Instance \ {i} : op'[j] = op[j] /\ op'[j].pc = "idle"
    BY <1>1, <2>1, <2>2 DEF Alone, NoOperation
  <2>6. CASE op[i].pc = "direct"
    BY <2>1, <2>2, <2>4, <2>5, <2>6, RewriteEnds DEF Advances
  <2>7. CASE op[i].pc # "direct"
    <3>1. UNCHANGED Inbox
      BY <2>1, <2>5, <2>7, InboxStays DEF Current
    <3> QED  BY <2>4, <2>5, <3>1, NothingToWrite DEF Advances, Pending
  <2> QED  BY <2>6, <2>7
<1>5. ASSUME NEW a \in Agent, LockAges(a)
      PROVE  Advances
  <2>1. UNCHANGED <<file, tmp, op, ensuring>>
    BY <1>5 DEF LockAges
  <2> QED  BY <2>1, InboxIs DEF Advances, Current, BufferCurrent, EnsuredMissing
<1>6. CASE UNCHANGED mailboxVars
  BY <1>6, InboxIs DEF mailboxVars, Advances, Current, BufferCurrent, EnsuredMissing
<1> QED  BY <1>2, <1>3, <1>4, <1>5, <1>6, SaveAdvances, CallAdvances DEF MailboxNext, Ensure

(* While the operations of the objects that share a directory do not        *)
(* overlap (a process alone with it, teams of one name one after the        *)
(* other), the mailbox is atomic: every step delivers one message, takes    *)
(* the unread ones, creates or removes an inbox, loses one as a whole, or   *)
(* changes nothing in the inboxes, whoever dies when and whichever writes   *)
(* and renames fail.                                                        *)
THEOREM MailboxAtomic == MailboxSpec /\ []Disjoint => AtomicPromise
<1>1. MailboxInit => Atomic!AtomicInit
  <2>1. SUFFICES ASSUME MailboxInit PROVE Inbox \in [Agent -> {NoFile, {}}]
    BY DEF Atomic!AtomicInit
  <2>2. file \in [Agent -> {NoFile, {}}] /\ \A i \in Instance : op[i].pc # "direct"
    BY <2>1 DEF MailboxInit, NoOperation
  <2>3. Inbox = file
    BY <2>2, InboxIs DEF InboxOf
  <2> QED  BY <2>2, <2>3
<1>2. Current /\ Disjoint /\ [MailboxNext]_mailboxVars
        => Current' /\ [Atomic!AtomicNext]_Inbox
  BY ShapeStep, StepAdvances DEF Current, Advances
<1> QED  BY <1>1, <1>2, CurrentInit, PTL DEF MailboxSpec, AtomicPromise, Atomic!AtomicSpec
=============================================================================
