------------------------------- MODULE Mailbox -------------------------------
(***************************************************************************)
(* The file-based mailbox of a team (internal/agent/mailbox.go).           *)
(*                                                                         *)
(* A Mailbox object serialises its own operations with a mutex; several    *)
(* objects, one per team request and process, may share a directory, since *)
(* the directory is named after the team.  Between objects there is only   *)
(* a lock file, which saveInbox takes after the inbox has been read.       *)
(*                                                                         *)
(* An operation is a small program counter per object: read the inbox,     *)
(* compute its new contents, lock, write a temporary file, rename it over  *)
(* the inbox, unlock; a broadcast does so for every inbox file it listed.  *)
(* EnsureInbox does not take the mutex and runs beside the operation.      *)
(*                                                                         *)
(* os.WriteFile empties a file before it fills it, and may fail before or  *)
(* after; a file that was not filled reads as an inbox without messages.   *)
(* When the temporary file fails, the inbox itself is written so.  Process *)
(* deaths come between any two steps.  Reads, removals and the creation of *)
(* the lock file do not fail.                                              *)
(***************************************************************************)
EXTENDS Mail

CONSTANTS Instance,     \* Mailbox objects sharing a directory
          MaxTries,     \* attempts of acquireFileLock: 10 in the code
          MaxCrashes,   \* bound: processes that die in an operation
          MaxFaults     \* bound: writes and renames that fail

ASSUME MaxTriesAssumption == MaxTries \in Nat \ {0}
ASSUME MaxCrashesAssumption == MaxCrashes \in Nat
ASSUME MaxFaultsAssumption == MaxFaults \in Nat

NoAgent == [nobody |-> TRUE]
NoMessage == [nothing |-> TRUE]

VARIABLES
    file,      \* <agent>.json
    tmp,       \* <agent>.json.tmp
    lock,      \* <agent>.json.lock: "none", "fresh", or "stale" after 5s
    sent,      \* messages some Send was called with
    handed,    \* the messages Receives returned, by agent, the save not failing
    op,        \* the operation under each object's mutex
    ensuring,  \* EnsureInbox calls that found no file and will create it
    crashes,   \* processes that died so far
    faults     \* writes and renames that failed so far

diskVars == <<file, tmp, lock>>
countVars == <<crashes, faults>>
mailboxVars == <<diskVars, sent, handed, op, ensuring, countVars>>

Removable == {"json", "tmp", "lock"} \X Agent

Saving == {"lock", "break", "write", "fill", "rename", "fallback", "direct", "unlock"}

Operation ==
    [pc    : Saving \cup {"idle", "load", "remove"},
     kind  : {"none", "send", "receive", "clear"},
     msg   : Message \cup {NoMessage},     \* the message a Send delivers
     todo  : (SUBSET Agent) \cup (SUBSET Removable),
                                           \* inboxes to save, files to remove
     cur   : Agent \cup {NoAgent},         \* the inbox being saved
     buf   : SUBSET Entry,                 \* its new contents
     taken : SUBSET Message,               \* what a Receive will return
     tries : 0..MaxTries,                  \* attempts made at the lock
     failed : BOOLEAN]                     \* the inbox could not be saved

NoOperation == [pc |-> "idle", kind |-> "none", msg |-> NoMessage, todo |-> {},
                cur |-> NoAgent, buf |-> {}, taken |-> {}, tries |-> 0,
                failed |-> FALSE]

MailboxInit ==
    /\ file \in [Agent -> {NoFile, {}}]
    /\ tmp = [a \in Agent |-> NoFile]
    /\ lock = [a \in Agent |-> "none"]
    /\ sent = {}
    /\ handed = [a \in Agent |-> {}]
    /\ op = [i \in Instance |-> NoOperation]
    /\ ensuring = {}
    /\ crashes = 0 /\ faults = 0

-----------------------------------------------------------------------------
(* The operations up to saveInbox.                                          *)

At(i, step) == op[i].pc = step

Begin(i, what, m, S) ==
    /\ At(i, "idle")
    /\ op' = [op EXCEPT ![i] =
                IF S = {} THEN NoOperation
                ELSE [@ EXCEPT !.pc = IF what = "clear" THEN "remove" ELSE "load",
                               !.kind = what, !.msg = m, !.todo = S]]
    /\ UNCHANGED <<diskVars, handed, ensuring, countVars>>

(* Wrong: a Send beside an EnsureInbox of the same inbox. *)
BeginSendAnyTime(i, m, S) ==
    /\ m \notin sent
    /\ Begin(i, "send", m, S)
    /\ sent' = sent \cup {m}

(* An inbox a message is sent to is not at the same time being created by   *)
(* the same object: a team sends to a worker only when it shuts down, and   *)
(* MessageRouter.Subscribe and Send exclude each other.                     *)
BeginSend(i, m, S) ==
    /\ m \notin sent
    /\ \A a \in S : <<i, a>> \notin ensuring
    /\ Begin(i, "send", m, S)
    /\ sent' = sent \cup {m}

Send(i, m) == \E a \in Agent : BeginSend(i, m, {a})

Broadcast(i, m) ==
    BeginSend(i, m, {a \in Agent : file[a] # NoFile} \ {Sender[m]})

Receive(i, a) == Begin(i, "receive", NoMessage, {a}) /\ UNCHANGED sent

Clear(i, a) == Begin(i, "clear", NoMessage, {<<"json", a>>}) /\ UNCHANGED sent

ClearAll(i) ==
    LET Present == {"json"} \X {a \in Agent : file[a] # NoFile}
              \cup {"tmp"}  \X {a \in Agent : tmp[a] # NoFile}
              \cup {"lock"} \X {a \in Agent : lock[a] # "none"}
    IN  Begin(i, "clear", NoMessage, Present) /\ UNCHANGED sent

Removed(o, r) ==
    IF o.todo = {r} THEN NoOperation ELSE [o EXCEPT !.todo = @ \ {r}]

(* Clear removes one file, ClearAll those it listed, one by one. *)
RemoveOne(i) ==
    /\ At(i, "remove")
    /\ \E r \in op[i].todo :
          /\ file' = IF r[1] = "json" THEN [file EXCEPT ![r[2]] = NoFile] ELSE file
          /\ tmp'  = IF r[1] = "tmp" THEN [tmp EXCEPT ![r[2]] = NoFile] ELSE tmp
          /\ lock' = IF r[1] = "lock" THEN [lock EXCEPT ![r[2]] = "none"] ELSE lock
          /\ op' = [op EXCEPT ![i] = Removed(@, r)]
    /\ UNCHANGED <<sent, handed, ensuring, countVars>>

(* Wrong: Receive marks nothing. *)
NewContentsUnmarked(o, f) == IF o.kind = "send" THEN Appended(f, o.msg) ELSE Entries(f)

(* The new contents of an inbox, from the contents that were read. *)
NewContents(o, f) == IF o.kind = "send" THEN Appended(f, o.msg) ELSE MarkedRead(f)

(* The inbox is read.  A Receive that finds nothing unread saves nothing. *)
Load(i) ==
    /\ At(i, "load")
    /\ \E a \in op[i].todo :
          op' = [op EXCEPT ![i] =
                   IF @.kind = "receive" /\ Unread(file[a]) = {} THEN NoOperation
                   ELSE [@ EXCEPT !.pc = "lock", !.cur = a,
                                  !.buf = NewContents(op[i], file[a]),
                                  !.taken = Unread(file[a])]]
    /\ UNCHANGED <<diskVars, sent, handed, ensuring, countVars>>

-----------------------------------------------------------------------------
(* acquireFileLock.                                                         *)

TakeLock(i) ==
    /\ At(i, "lock") /\ op[i].tries < MaxTries
    /\ lock[op[i].cur] = "none"
    /\ lock' = [lock EXCEPT ![op[i].cur] = "fresh"]
    /\ op' = [op EXCEPT ![i].pc = "write"]
    /\ UNCHANGED <<file, tmp, sent, handed, ensuring, countVars>>

(* Wrong: one attempt too many. *)
FindLockedAgain(i) ==
    /\ At(i, "lock") /\ op[i].tries <= MaxTries
    /\ lock[op[i].cur] # "none"
    /\ op' = [op EXCEPT ![i].tries = @ + 1,
                        ![i].pc = IF lock[op[i].cur] = "stale" THEN "break" ELSE @]
    /\ UNCHANGED <<diskVars, sent, handed, ensuring, countVars>>

(* The lock file exists: it is looked at, and removed in a later step if it *)
(* is old.                                                                  *)
FindLocked(i) ==
    /\ At(i, "lock") /\ op[i].tries < MaxTries
    /\ lock[op[i].cur] # "none"
    /\ op' = [op EXCEPT ![i].tries = @ + 1,
                        ![i].pc = IF lock[op[i].cur] = "stale" THEN "break" ELSE @]
    /\ UNCHANGED <<diskVars, sent, handed, ensuring, countVars>>

BreakLock(i) ==
    /\ At(i, "break")
    /\ lock' = [lock EXCEPT ![op[i].cur] = "none"]
    /\ op' = [op EXCEPT ![i].pc = "lock"]
    /\ UNCHANGED <<file, tmp, sent, handed, ensuring, countVars>>

(* Wrong: try for ever. *)
NeverGiveUp(i) ==
    /\ At(i, "lock") /\ op[i].tries = MaxTries
    /\ op' = [op EXCEPT ![i].tries = 0]
    /\ UNCHANGED <<diskVars, sent, handed, ensuring, countVars>>

(* "Give up - proceed without lock (better than deadlock)", mailbox.go:241. *)
GiveUp(i) ==
    /\ At(i, "lock") /\ op[i].tries = MaxTries
    /\ lock' = [lock EXCEPT ![op[i].cur] = "none"]
    /\ op' = [op EXCEPT ![i].pc = "write"]
    /\ UNCHANGED <<file, tmp, sent, handed, ensuring, countVars>>

-----------------------------------------------------------------------------
(* saveInbox under the lock, and the end of the operation.                  *)

(* Wrong: the temporary file is renamed before it is filled. *)
OpenTmpUnfilled(i) ==
    /\ At(i, "write")
    /\ tmp' = [tmp EXCEPT ![op[i].cur] = {}]
    /\ op' = [op EXCEPT ![i].pc = "rename"]
    /\ UNCHANGED <<file, lock, sent, handed, ensuring, countVars>>

(* os.WriteFile of the temporary file: emptied, then filled. *)
OpenTmp(i) ==
    /\ At(i, "write")
    /\ tmp' = [tmp EXCEPT ![op[i].cur] = {}]
    /\ op' = [op EXCEPT ![i].pc = "fill"]
    /\ UNCHANGED <<file, lock, sent, handed, ensuring, countVars>>

WriteTmp(i) ==
    /\ At(i, "fill")
    /\ tmp' = [tmp EXCEPT ![op[i].cur] = op[i].buf]
    /\ op' = [op EXCEPT ![i].pc = "rename"]
    /\ UNCHANGED <<file, lock, sent, handed, ensuring, countVars>>

(* A system call fails, and the operation goes on at that step. *)
Fault(i, step, failed) ==
    /\ faults < MaxFaults
    /\ faults' = faults + 1
    /\ op' = [op EXCEPT ![i] = [@ EXCEPT !.pc = step, !.failed = failed]]
    /\ UNCHANGED <<diskVars, sent, handed, ensuring, crashes>>

TmpFails(i) == (At(i, "write") \/ At(i, "fill")) /\ Fault(i, "fallback", FALSE)

(* The temporary file could not be written: the inbox itself is, emptied    *)
(* and then filled.                                                         *)
OpenDirect(i) ==
    /\ At(i, "fallback")
    /\ file' = [file EXCEPT ![op[i].cur] = {}]
    /\ op' = [op EXCEPT ![i].pc = "direct"]
    /\ UNCHANGED <<tmp, lock, sent, handed, ensuring, countVars>>

WriteDirect(i) ==
    /\ At(i, "direct")
    /\ file' = [file EXCEPT ![op[i].cur] = op[i].buf]
    /\ op' = [op EXCEPT ![i].pc = "unlock"]
    /\ UNCHANGED <<tmp, lock, sent, handed, ensuring, countVars>>

DirectFails(i) == (At(i, "fallback") \/ At(i, "direct")) /\ Fault(i, "unlock", TRUE)

(* The error of a rename, without a source or with one, is ignored. *)
Rename(i) ==
    /\ At(i, "rename")
    /\ IF tmp[op[i].cur] = NoFile THEN UNCHANGED <<file, tmp>>
       ELSE /\ file' = [file EXCEPT ![op[i].cur] = tmp[op[i].cur]]
            /\ tmp' = [tmp EXCEPT ![op[i].cur] = NoFile]
    /\ op' = [op EXCEPT ![i].pc = "unlock"]
    /\ UNCHANGED <<lock, sent, handed, ensuring, countVars>>

RenameFails(i) == At(i, "rename") /\ Fault(i, "unlock", TRUE)

(* The next inbox of a broadcast, or the return. *)
Saved(o) == IF o.todo = {o.cur} THEN NoOperation
            ELSE [NoOperation EXCEPT !.pc = "load", !.kind = o.kind, !.msg = o.msg,
                                     !.todo = o.todo \ {o.cur}]

(* What a Receive returns and has marked as read. *)
HandedBy(o) == [a \in Agent |-> IF o.kind = "receive" /\ ~o.failed /\ a = o.cur
                                THEN handed[a] \cup o.taken ELSE handed[a]]

(* Wrong: the lock file is kept. *)
KeepLock(i) ==
    /\ At(i, "unlock")
    /\ handed' = HandedBy(op[i])
    /\ op' = [op EXCEPT ![i] = Saved(@)]
    /\ UNCHANGED <<diskVars, sent, ensuring, countVars>>

Unlock(i) ==
    /\ At(i, "unlock")
    /\ lock' = [lock EXCEPT ![op[i].cur] = "none"]
    /\ handed' = HandedBy(op[i])
    /\ op' = [op EXCEPT ![i] = Saved(@)]
    /\ UNCHANGED <<file, tmp, sent, ensuring, countVars>>

-----------------------------------------------------------------------------
(* EnsureInbox: without the mutex, in two steps.                            *)

FindNoInbox(i, a) ==
    /\ file[a] = NoFile
    /\ <<i, a>> \notin ensuring
    /\ ~(op[i].kind = "send" /\ a \in op[i].todo)
    /\ ensuring' = ensuring \cup {<<i, a>>}
    /\ UNCHANGED <<diskVars, sent, handed, op, countVars>>

CreateInbox(i, a) ==
    /\ <<i, a>> \in ensuring
    /\ file' = [file EXCEPT ![a] = {}]
    /\ ensuring' = ensuring \ {<<i, a>>}
    /\ UNCHANGED <<tmp, lock, sent, handed, op, countVars>>

-----------------------------------------------------------------------------
(* The environment.                                                         *)

LockAges(a) ==
    /\ lock[a] = "fresh"
    /\ lock' = [lock EXCEPT ![a] = "stale"]
    /\ UNCHANGED <<file, tmp, sent, handed, op, ensuring, countVars>>

(* The process dies; a new one makes its own Mailbox for the directory. *)
Crash(i) ==
    /\ crashes < MaxCrashes
    /\ ~At(i, "idle") \/ \E a \in Agent : <<i, a>> \in ensuring
    /\ crashes' = crashes + 1
    /\ op' = [op EXCEPT ![i] = NoOperation]
    /\ ensuring' = {e \in ensuring : e[1] # i}
    /\ UNCHANGED <<diskVars, sent, handed, faults>>

Save(i) == \/ Load(i)
           \/ TakeLock(i) \/ FindLocked(i) \/ BreakLock(i) \/ GiveUp(i)
           \/ OpenTmp(i) \/ WriteTmp(i) \/ TmpFails(i)
           \/ OpenDirect(i) \/ WriteDirect(i) \/ DirectFails(i)
           \/ Rename(i) \/ RenameFails(i) \/ Unlock(i)
           \/ RemoveOne(i)

Call(i) == \/ \E m \in Message : Send(i, m) \/ Broadcast(i, m)
           \/ \E a \in Agent : Receive(i, a) \/ Clear(i, a)
           \/ ClearAll(i)

Ensure(i) == \E a \in Agent : FindNoInbox(i, a) \/ CreateInbox(i, a)

MailboxNext ==
    \/ \E i \in Instance : Save(i) \/ Call(i) \/ Ensure(i) \/ Crash(i)
    \/ \E a \in Agent : LockAges(a)

(* A running operation is a goroutine and goes on. *)
MailboxSpec == /\ MailboxInit /\ [][MailboxNext]_mailboxVars
               /\ \A i \in Instance : WF_mailboxVars(Save(i))

-----------------------------------------------------------------------------
(* Properties.                                                              *)

MailboxTypeOK ==
    /\ file \in [Agent -> (SUBSET Entry) \cup {NoFile}]
    /\ tmp \in [Agent -> (SUBSET Entry) \cup {NoFile}]
    /\ lock \in [Agent -> {"none", "fresh", "stale"}]
    /\ sent \subseteq Message
    /\ handed \in [Agent -> SUBSET Message]
    /\ op \in [Instance -> Operation]
    /\ ensuring \subseteq Instance \X Agent
    /\ crashes \in 0..MaxCrashes
    /\ faults \in 0..MaxFaults

(* The inbox as the mailbox has it: one that is being rewritten in place is *)
(* emptied but counts as what it is about to be filled with.                *)
Rewrites(i, a) == At(i, "direct") /\ op[i].cur = a

Inbox == [a \in Agent |->
             IF \E i \in Instance : Rewrites(i, a)
             THEN op[CHOOSE i \in Instance : Rewrites(i, a)].buf ELSE file[a]]

(* The step in which the operation of i takes effect on inbox a. *)
TakesEffect(i, a) == op[i].cur = a /\ (Rename(i) \/ OpenDirect(i))

Taken(a, m) ==
    \E i \in Instance : TakesEffect(i, a) /\
       \/ op[i].kind = "receive" /\ m \in op[i].taken
       \/ op[i].kind = "send" /\ Supersedes(op[i].msg, m)

Removal(a) == Inbox'[a] = NoFile /\ \E i \in Instance : RemoveOne(i)

(* The process dies, or the write fails, while a rewritten inbox is empty. *)
Damage(a) == \E i \in Instance : Rewrites(i, a) /\ (Crash(i) \/ DirectFails(i))

Gone(a) == Unread(Inbox[a]) \ Unread(Inbox'[a])

Kept == \A a \in Agent : \A m \in Gone(a) : Taken(a, m) \/ Removal(a) \/ Damage(a)

(* An unread message stays so until a Receive that has it takes effect, a   *)
(* newer idle notification replaces it, somebody removes the inbox, or a    *)
(* rewrite in place is interrupted (mailbox.go:79-100, 161-206).  This is   *)
(* so for one object; between objects see CrossProcessSafe.                 *)
KeptUntilTaken == [][Kept]_mailboxVars

(* mailbox.go:194, "File lock for cross-process safety": the same of the    *)
(* operations of several objects that share a directory.  It does not hold: *)
(* an inbox is read before it is locked.                                    *)
CrossProcessSafe == [][Kept]_mailboxVars

(* mailbox.go:199, "Atomic write: write to temp then rename": no fault and  *)
(* no death of the process loses a message that was in the inbox.  It does  *)
(* not hold: the fallback empties the inbox before it fills it.             *)
WriteIsAtomic ==
    [][\A a \in Agent : \A m \in Gone(a) : Taken(a, m) \/ Removal(a)]_mailboxVars

(* No message is handed out twice (mailbox.go:79, "returns unread messages  *)
(* for an agent and marks them as read"): what a Receive returns, no        *)
(* earlier one of the agent has returned, but for one whose save failed.    *)
HandedOutOnce ==
    [][\A i \in Instance :
          op[i].kind = "receive" /\ Unlock(i)
            => op[i].taken \cap handed[op[i].cur] = {}]_mailboxVars

(* No lock file outlives the operations, whoever broke whose lock; only a   *)
(* process that died leaves one behind.                                     *)
NoLockLeft ==
    (\A i \in Instance : op[i].pc \notin Saving) /\ crashes = 0
        => \A a \in Agent : lock[a] = "none"

(* Every operation ends, also when a dead process left its lock             *)
(* (mailbox.go:241, "better than deadlock").                                *)
OperationsEnd == \A i \in Instance : ~At(i, "idle") ~> At(i, "idle")

(* Objects whose operations do not overlap. *)
Busy(i) == ~At(i, "idle") \/ \E a \in Agent : <<i, a>> \in ensuring

Disjoint == \A i, j \in Instance : Busy(i) /\ Busy(j) => i = j

(* Why operations that do not overlap are atomic.  An operation knows what  *)
(* it is doing; until it takes effect, the contents it is about to write    *)
(* are those computed from the file as it still is; and a file EnsureInbox  *)
(* is about to create is still missing, with no Send on its way to it.      *)
OperationKnown ==
    \A i \in Instance :
        /\ op[i].pc \in Saving \cup {"load"} =>
              op[i].kind \in {"send", "receive"} /\ op[i].todo \subseteq Agent
        /\ op[i].kind = "send" => op[i].msg \in Message
        /\ op[i].pc \in Saving => op[i].cur \in op[i].todo
        /\ op[i].pc = "remove" => op[i].todo \subseteq Removable

Pending == {"lock", "break", "write", "fill", "rename", "fallback"}

BufferCurrent ==
    \A i \in Instance :
        /\ op[i].pc \in Pending =>
              /\ op[i].buf = NewContents(op[i], file[op[i].cur])
              /\ op[i].kind = "receive" => file[op[i].cur] # NoFile
        /\ op[i].pc = "rename" => tmp[op[i].cur] = op[i].buf
        /\ op[i].pc = "direct" => file[op[i].cur] = {}

EnsuredMissing ==
    \A e \in ensuring :
        file[e[2]] = NoFile /\ ~(op[e[1]].kind = "send" /\ e[2] \in op[e[1]].todo)

Atomic == INSTANCE AtomicMailbox WITH inbox <- Inbox

(* A mailbox whose operations do not overlap is atomic but for the inboxes  *)
(* it loses as a whole, deaths and faults included: README.md:38 "File-     *)
(* based inter-agent messaging with locking + broadcast".                   *)
AtomicPromise == Atomic!AtomicSpec
=============================================================================
