------------------------------ MODULE GitWatch ------------------------------
(***************************************************************************)
(* The git-watch task and the notifications it sends                       *)
(* (internal/kairos/gitwatch.go, notify.go), read by the handlers of the   *)
(* event stream (server.go:1254-1300).                                     *)
(*                                                                         *)
(* A tick loop looks at the working tree, remembers what it found and,     *)
(* if there is more than before, sends a notification: the subscribers are *)
(* listed under the notifier's lock and served without it.  Two loops can  *)
(* do so at once, one that was cancelled and one that replaced it: each    *)
(* reads the status remembered without the lock and only then replaces it. *)
(*                                                                         *)
(* A notification is the number of its Send.  The webhook and the desktop  *)
(* callback are goroutines nobody waits for and are left out.              *)
(***************************************************************************)
EXTENDS Integers, Sequences, FiniteSets, SequencesExt

CONSTANTS File,         \* files of the working tree
          NoStatus,     \* no look was taken yet
          Watcher,      \* tick loops
          Subscriber,   \* event-stream handlers, each with its channel
          Capacity,     \* of a channel: 16
          HistoryMax,   \* history is cut when longer: 100
          HistoryKept,  \* to this length: 50
          MaxSends      \* bound on notifications

ASSUME CapacityAssumption == Capacity \in Nat \ {0}
ASSUME HistoryAssumption == HistoryKept \in Nat /\ HistoryMax \in Nat /\ HistoryKept <= HistoryMax

(* git status --porcelain: a file's code in the index and in the work tree. *)
Clean == <<" ", " ">>
Unstaged == <<" ", "M">>
Untracked == <<"?", "?">>
Code == {Clean, Unstaged, <<"M", " ">>, <<"M", "M">>, Untracked}

VARIABLES
    last,          \* the tree lastGitStatus was made from
    watch,         \* the RunGitWatch of each loop
    subscribers,   \* the notifier's subscribers
    channel,       \* what waits in each one's channel
    ended,         \* handlers that returned: their channels are closed
    got,           \* the notifications each handler wrote to its client
    history, sends,
    panicked       \* a send on a closed channel: the process is gone

notifierVars == <<subscribers, channel, ended, got, history, sends, panicked>>
gitWatchVars == <<last, watch, notifierVars>>

Resting == [pc |-> "idle", curr |-> NoStatus, prev |-> NoStatus, todo |-> {}, notif |-> 0]
Sending == [Resting EXCEPT !.pc = "send"]

GitWatchInit ==
    /\ last = NoStatus
    /\ watch = [w \in Watcher |-> Resting]
    /\ subscribers = {} /\ ended = {}
    /\ channel = [s \in Subscriber |-> <<>>]
    /\ got = [s \in Subscriber |-> {}]
    /\ history = <<>> /\ sends = 0 /\ panicked = FALSE

Runs == ~panicked

-----------------------------------------------------------------------------
(* RunGitWatch.                                                             *)

(* A line is trimmed before its code is read: the code of a file modified   *)
(* in the work tree only loses its space and reads as if staged.            *)
CodeRead(c) == IF c[1] = " " THEN <<c[2], " ">> ELSE c

(* The lists of a GitStatus. *)
Status(t) ==
    [staged    |-> {f \in File : CodeRead(t[f])[1] \notin {" ", "?"}},
     modified  |-> {f \in File : CodeRead(t[f])[2] = "M"},
     untracked |-> {f \in File : CodeRead(t[f]) = Untracked}]

Total(t) == IF t = NoStatus THEN 0
            ELSE Cardinality(Status(t).staged) + Cardinality(Status(t).modified)
                   + Cardinality(Status(t).untracked)

(* What GitWatchSummary calls NEW. *)
NewModified(prev, curr) == Status(curr).modified \ Status(prev).modified

(* Somebody edits, reverts, stages or commits between two looks: each finds *)
(* any codes.                                                               *)
CheckGitStatus(w) ==
    /\ Runs /\ watch[w].pc = "idle" /\ sends < MaxSends
    /\ \E tree \in [File -> Code] :
          watch' = [watch EXCEPT ![w].pc = "found", ![w].curr = tree]
    /\ UNCHANGED <<last, notifierVars>>

(* Without the lock. *)
ReadLast(w) ==
    /\ Runs /\ watch[w].pc = "found"
    /\ watch' = [watch EXCEPT ![w].pc = "read", ![w].prev = last]
    /\ UNCHANGED <<last, notifierVars>>

(* Under the lock the status found replaces the last one, whatever that is  *)
(* by now; the sizes of the one found and the one read are compared.        *)
Compare(w) ==
    /\ Runs /\ watch[w].pc = "read"
    /\ last' = watch[w].curr
    /\ watch' = [watch EXCEPT ![w] =
                    IF Total(watch[w].curr) > Total(watch[w].prev) THEN Sending ELSE Resting]
    /\ UNCHANGED notifierVars

-----------------------------------------------------------------------------
(* Notifier.Send.                                                           *)

(* Wrong: nothing is cut, or the oldest notifications are kept. *)
KeepAll(h) == h
KeepOldest(h) == IF Len(h) > HistoryMax THEN SubSeq(h, 1, HistoryKept) ELSE h

Cut(h) == IF Len(h) > HistoryMax
          THEN SubSeq(h, Len(h) - HistoryKept + 1, Len(h)) ELSE h

(* Under the lock: the history, and a copy of the subscribers. *)
BeginSend(w) ==
    /\ Runs /\ watch[w].pc = "send"
    /\ sends' = sends + 1
    /\ history' = Cut(Append(history, sends + 1))
    /\ watch' = [watch EXCEPT ![w].pc = "serve", ![w].todo = subscribers,
                              ![w].notif = sends + 1]
    /\ UNCHANGED <<last, subscribers, channel, ended, got, panicked>>

(* Wrong: a slow subscriber is waited for. *)
ServeWaiting(w) ==
    /\ Runs /\ watch[w].pc = "serve"
    /\ \E s \in watch[w].todo :
          /\ s \in ended \/ Len(channel[s]) < Capacity
          /\ IF s \in ended
             THEN panicked' = TRUE /\ UNCHANGED <<channel, watch>>
             ELSE /\ channel' = [channel EXCEPT ![s] = Append(@, watch[w].notif)]
                  /\ watch' = [watch EXCEPT ![w].todo = @ \ {s}]
                  /\ UNCHANGED panicked
    /\ UNCHANGED <<last, subscribers, ended, got, history, sends>>

(* Wrong: a subscriber stays on the list of those to serve. *)
ServeTwice(w) ==
    /\ Runs /\ watch[w].pc = "serve"
    /\ \E s \in watch[w].todo :
          IF s \in ended
          THEN panicked' = TRUE /\ UNCHANGED <<channel, watch>>
          ELSE /\ channel' = [channel EXCEPT ![s] =
                                 IF Len(@) < Capacity THEN Append(@, watch[w].notif) ELSE @]
               /\ \E rest \in {watch[w].todo, watch[w].todo \ {s}} :
                     watch' = [watch EXCEPT ![w].todo = rest]
               /\ UNCHANGED panicked
    /\ UNCHANGED <<last, subscribers, ended, got, history, sends>>

(* Without it, one subscriber after the other: a full channel is skipped, a *)
(* closed one is a panic.                                                   *)
Serve(w) ==
    /\ Runs /\ watch[w].pc = "serve"
    /\ \E s \in watch[w].todo :
          IF s \in ended
          THEN panicked' = TRUE /\ UNCHANGED <<channel, watch>>
          ELSE /\ channel' = [channel EXCEPT ![s] =
                                 IF Len(@) < Capacity THEN Append(@, watch[w].notif) ELSE @]
               /\ watch' = [watch EXCEPT ![w].todo = @ \ {s}]
               /\ UNCHANGED panicked
    /\ UNCHANGED <<last, subscribers, ended, got, history, sends>>

Served(w) ==
    /\ Runs /\ watch[w].pc = "serve" /\ watch[w].todo = {}
    /\ watch' = [watch EXCEPT ![w] = Resting]
    /\ UNCHANGED <<last, notifierVars>>

-----------------------------------------------------------------------------
(* handleKairosSSE.                                                         *)

Subscribe(s) ==
    /\ Runs /\ s \notin subscribers \cup ended
    /\ subscribers' = subscribers \cup {s}
    /\ UNCHANGED <<last, watch, channel, ended, got, history, sends, panicked>>

Read(s) ==
    /\ Runs /\ s \in subscribers /\ channel[s] # <<>>
    /\ got' = [got EXCEPT ![s] = @ \cup {Head(channel[s])}]
    /\ channel' = [channel EXCEPT ![s] = Tail(@)]
    /\ UNCHANGED <<last, watch, subscribers, ended, history, sends, panicked>>

(* The client is gone: Unsubscribe takes the channel off and closes it. *)
Unsubscribe(s) ==
    /\ Runs /\ s \in subscribers
    /\ subscribers' = subscribers \ {s}
    /\ ended' = ended \cup {s}
    /\ UNCHANGED <<last, watch, channel, got, history, sends, panicked>>

WatcherStep(w) == \/ CheckGitStatus(w) \/ ReadLast(w) \/ Compare(w)
                  \/ BeginSend(w) \/ Serve(w) \/ Served(w)

GitWatchNext ==
    \/ \E w \in Watcher : WatcherStep(w)
    \/ \E s \in Subscriber : Subscribe(s) \/ Read(s) \/ Unsubscribe(s)

(* A loop goes on by itself; clients need not read. *)
GitWatchSpec == /\ GitWatchInit /\ [][GitWatchNext]_gitWatchVars
                /\ \A w \in Watcher : WF_gitWatchVars(WatcherStep(w))

-----------------------------------------------------------------------------

GitWatchTypeOK ==
    /\ last \in [File -> Code] \cup {NoStatus}
    /\ \A w \in Watcher : /\ watch[w].pc \in {"idle", "found", "read", "send", "serve"}
                          /\ watch[w].curr \in [File -> Code] \cup {NoStatus}
                          /\ watch[w].prev \in [File -> Code] \cup {NoStatus}
                          /\ watch[w].todo \subseteq Subscriber
                          /\ watch[w].notif \in 0..sends
    /\ subscribers \subseteq Subscriber /\ ended \subseteq Subscriber \ subscribers
    /\ \A s \in Subscriber : Len(channel[s]) <= Capacity
    /\ Len(history) <= HistoryMax /\ sends \in Nat
    /\ panicked \in BOOLEAN

(* Recent (notify.go:111): the history is the end of all that was sent, in  *)
(* order, and of it never less than HistoryKept.                            *)
RecentIsLatest ==
    /\ \A i \in DOMAIN history : history[i] = sends - Len(history) + i
    /\ Len(history) >= IF sends < HistoryKept THEN sends ELSE HistoryKept

(* One Send's notification reaches a client at most once, however slow the  *)
(* client is and whichever loops send meanwhile.  Two loops that send of    *)
(* one change send two notifications: NotifiesSinceLastCheck.               *)
DeliveredOnce ==
    \A s \in Subscriber :
        IsInjective(channel[s]) /\ ToSet(channel[s]) \cap got[s] = {}

(* History and channels, taken together, at every moment. *)
NotifierSafe == GitWatchTypeOK /\ RecentIsLatest /\ DeliveredOnce

(* A loop is about to send on a channel that Unsubscribe has closed. *)
ServesOneThatLeft == \E w \in Watcher : watch[w].pc = "serve" /\ watch[w].todo \cap ended # {}

(* A Send ends though clients do not read: the loop would hang, and with it *)
(* every task of the daemon.  It need not end when a client that is still   *)
(* to be served, by it or by the other loop, leaves: SendReachesAll.        *)
SendsEnd ==
    \A w \in Watcher : watch[w].pc = "serve" ~> watch[w].pc # "serve" \/ ServesOneThatLeft

(* notify.go:75: "Send broadcasts a notification to all subscribers and     *)
(* webhook", also to those that stand on its list behind one that leaves.   *)
SendReachesAll ==
    panicked => \A w \in Watcher : watch[w].pc = "serve" => watch[w].todo \cap subscribers = {}

(* gitwatch.go:112, "Detect new changes since previous check", and 179,     *)
(* "Notify if new changes detected": who sends has found more than the      *)
(* check before it, whichever loop made that one.                           *)
NotifiesSinceLastCheck ==
    [][\A w \in Watcher :
          Compare(w) /\ watch'[w].pc = "send" => Total(watch[w].curr) > Total(last)]_gitWatchVars

Changed(t) == {f \in File : t[f] # Clean}

(* gitwatch.go:179, "Notify if new changes detected": a file that was clean *)
(* at the look before is news.                                              *)
NewChangesNotified ==
    [][\A w \in Watcher :
          /\ Compare(w) /\ watch[w].prev # NoStatus
          /\ ~(Changed(watch[w].curr) \subseteq Changed(watch[w].prev))
             => watch'[w].pc = "send"]_gitWatchVars

(* gitwatch.go:112, "Detect new changes since previous check": the summary  *)
(* names a file that was clean at the look before and is modified now.      *)
NewChangesNamed ==
    [][\A w \in Watcher : \A f \in File :
          /\ Compare(w) /\ watch[w].prev # NoStatus
          /\ watch[w].prev[f] = Clean /\ watch[w].curr[f] = Unstaged
             => f \in NewModified(watch[w].prev, watch[w].curr)]_gitWatchVars
=============================================================================
