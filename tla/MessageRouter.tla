---------------------------- MODULE MessageRouter ----------------------------
(***************************************************************************)
(* Live delivery between agents (internal/agent/message_router.go) over    *)
(* the mailbox of one process, which is atomic (MailboxProofs) and so is   *)
(* AtomicMailbox here; of that, Lose is not taken: no rewrite of an inbox  *)
(* in place is interrupted.                                                *)
(*                                                                         *)
(* Sends hold a read lock and run beside each other, subscriptions exclude *)
(* them.  Each Subscribe makes a channel; its reader reads on after the    *)
(* channel was closed or replaced.                                         *)
(***************************************************************************)
EXTENDS AtomicMailbox, Sequences, SequencesExt

CONSTANTS To,         \* the agent a message is for, or Everyone: "*"
          Everyone,
          Capacity,   \* of a channel: 16 in the code
          Channel     \* bound: the channels Subscribe may make

ASSUME ToAssumption == To \in [Message -> Agent \cup {Everyone}]
ASSUME CapacityAssumption == Capacity \in Nat \ {0}
ASSUME EveryoneAssumption == Everyone \notin Agent

Nobody == [nobody |-> TRUE]

ASSUME NobodyAssumption == Nobody \notin Agent \cup Channel

VARIABLES
    subscribers,   \* each agent's live channel, or Nobody
    made, closed,  \* channels made so far, and those closed
    channel,       \* what waits in each channel
    got,           \* what the reader of each channel has read
    sending,       \* the state of the Send of each message
    todo,          \* the subscribers a broadcast still has to deliver to
    reader,        \* whose channel each one is
    polled         \* the messages PollMailbox returned to each agent

subscriptionVars == <<subscribers, made, closed, reader>>
routerVars == <<inbox, subscriptionVars, channel, got, sending, todo, polled>>

RouterInit ==
    /\ AtomicInit
    /\ subscribers = [a \in Agent |-> Nobody]
    /\ made = {} /\ closed = {}
    /\ reader = [c \in Channel |-> Nobody]
    /\ channel = [c \in Channel |-> <<>>]
    /\ got = [c \in Channel |-> {}]
    /\ sending = [m \in Message |-> "unsent"]
    /\ todo = [m \in Message |-> {}]
    /\ polled = [a \in Agent |-> {}]

-----------------------------------------------------------------------------

(* The write lock is free: no Send is under way. *)
Exclusive == \A m \in Message : sending[m] \in {"unsent", "sent"}

(* Wrong: no inbox is made for the subscriber. *)
SubscribeOnly(a) ==
    /\ Exclusive
    /\ \E c \in Channel \ made :
          /\ subscribers' = [subscribers EXCEPT ![a] = c]
          /\ made' = made \cup {c}
          /\ reader' = [reader EXCEPT ![c] = a]
    /\ UNCHANGED <<inbox, closed, channel, got, sending, todo, polled>>

(* The channel of an earlier subscription is replaced, not closed. *)
Subscribe(a) ==
    /\ Exclusive
    /\ \E c \in Channel \ made :
          /\ subscribers' = [subscribers EXCEPT ![a] = c]
          /\ made' = made \cup {c}
          /\ reader' = [reader EXCEPT ![c] = a]
    /\ IF inbox[a] = NoFile THEN Create(a) ELSE UNCHANGED inbox
    /\ UNCHANGED <<closed, channel, got, sending, todo, polled>>

(* Wrong: the channel is closed and still subscribed. *)
UnsubscribeHalf(a) ==
    /\ Exclusive
    /\ subscribers[a] # Nobody
    /\ closed' = closed \cup {subscribers[a]}
    /\ UNCHANGED <<inbox, subscribers, made, reader, channel, got, sending, todo, polled>>

Unsubscribe(a) ==
    /\ Exclusive
    /\ subscribers[a] # Nobody
    /\ closed' = closed \cup {subscribers[a]}
    /\ subscribers' = [subscribers EXCEPT ![a] = Nobody]
    /\ UNCHANGED <<inbox, made, reader, channel, got, sending, todo, polled>>

Online == {a \in Agent : subscribers[a] # Nobody}

(* Wrong: a direct message is saved as well. *)
SendToBoth(m) ==
    /\ sending[m] = "unsent"
    /\ sending' = [sending EXCEPT ![m] = "save"]
    /\ todo' = [todo EXCEPT ![m] = (IF To[m] = Everyone THEN Online \ {Sender[m]}
                                    ELSE {To[m]} \cap Online)]
    /\ UNCHANGED <<inbox, subscriptionVars, channel, got, polled>>

(* Send takes the read lock and sees who is subscribed. *)
Send(m) ==
    /\ sending[m] = "unsent"
    /\ IF To[m] = Everyone
       THEN /\ sending' = [sending EXCEPT ![m] = "save"]
            /\ todo' = [todo EXCEPT ![m] = Online \ {Sender[m]}]
       ELSE /\ sending' = [sending EXCEPT ![m] = IF To[m] \in Online THEN "live" ELSE "save"]
            /\ todo' = [todo EXCEPT ![m] = {To[m]} \cap Online]
    /\ UNCHANGED <<inbox, subscriptionVars, channel, got, polled>>

(* Wrong: a sender waits for room in the channel. *)
DeliverWaiting(m) ==
    /\ \E a \in todo[m] :
          /\ Len(channel[subscribers[a]]) < Capacity
          /\ channel' = [channel EXCEPT ![subscribers[a]] = Append(@, m)]
          /\ todo' = [todo EXCEPT ![m] = @ \ {a}]
    /\ UNCHANGED <<inbox, subscriptionVars, got, sending, polled>>

(* Wrong: the capacity is not looked at. *)
DeliverUnbounded(m) ==
    /\ \E a \in todo[m] :
          /\ channel' = [channel EXCEPT ![subscribers[a]] = Append(@, m)]
          /\ todo' = [todo EXCEPT ![m] = @ \ {a}]
    /\ UNCHANGED <<inbox, subscriptionVars, got, sending, polled>>

(* deliverToChannel: a full channel drops the message. *)
DeliverToChannel(m) ==
    /\ \E a \in todo[m] :
          /\ channel' = [channel EXCEPT ![subscribers[a]] =
                            IF Len(@) < Capacity THEN Append(@, m) ELSE @]
          /\ todo' = [todo EXCEPT ![m] = @ \ {a}]
    /\ UNCHANGED <<inbox, subscriptionVars, got, sending, polled>>

(* Mailbox.Send, atomic under the mutex of the mailbox. *)
SaveToMailbox(m) ==
    /\ sending[m] = "save" /\ todo[m] = {}
    /\ sending' = [sending EXCEPT ![m] = "sent"]
    /\ IF To[m] = Everyone
       THEN inbox' = [a \in Agent |-> IF inbox[a] = NoFile \/ a = Sender[m] THEN inbox[a]
                                      ELSE Appended(inbox[a], m)]
       ELSE Deliver(To[m], m)
    /\ UNCHANGED <<subscriptionVars, channel, got, todo, polled>>

Return(m) ==
    /\ sending[m] = "live" /\ todo[m] = {}
    /\ sending' = [sending EXCEPT ![m] = "sent"]
    /\ UNCHANGED <<inbox, subscriptionVars, channel, got, todo, polled>>

Read(c) ==
    /\ channel[c] # <<>>
    /\ got' = [got EXCEPT ![c] = @ \cup {Head(channel[c])}]
    /\ channel' = [channel EXCEPT ![c] = Tail(@)]
    /\ UNCHANGED <<inbox, subscriptionVars, sending, todo, polled>>

PollMailbox(a) ==
    /\ Unread(inbox[a]) # {}
    /\ polled' = [polled EXCEPT ![a] = @ \cup Unread(inbox[a])]
    /\ Take(a)
    /\ UNCHANGED <<subscriptionVars, channel, got, sending, todo>>

Continue(m) == DeliverToChannel(m) \/ SaveToMailbox(m) \/ Return(m)

RouterNext ==
    \/ \E a \in Agent : Subscribe(a) \/ Unsubscribe(a) \/ PollMailbox(a)
    \/ \E m \in Message : Send(m) \/ Continue(m)
    \/ \E c \in Channel : Read(c)

(* A Send goes on by itself; agents need neither read nor poll. *)
RouterSpec == /\ RouterInit /\ [][RouterNext]_routerVars
              /\ \A m \in Message : WF_routerVars(Continue(m))

-----------------------------------------------------------------------------

RouterTypeOK ==
    /\ inbox \in [Agent -> (SUBSET Entry) \cup {NoFile}]
    /\ subscribers \in [Agent -> Channel \cup {Nobody}]
    /\ made \subseteq Channel /\ closed \subseteq made
    /\ reader \in [Channel -> Agent \cup {Nobody}]
    /\ \A c \in Channel : channel[c] \in BoundedSeq(Message, Capacity)
    /\ got \in [Channel -> SUBSET Message]
    /\ sending \in [Message -> {"unsent", "live", "save", "sent"}]
    /\ todo \in [Message -> SUBSET Agent]
    /\ polled \in [Agent -> SUBSET Message]

(* Where a message for a has got to. *)
Live(m, a) ==
    \E c \in Channel : reader[c] = a /\ (m \in got[c] \/ m \in ToSet(channel[c]))

Saved(m, a) == m \in polled[a] \/ \E e \in Entries(inbox[a]) : e.msg = m

Replaced(m) == \E n \in Message \ {m} : Supersedes(n, m) /\ sending[n] # "unsent"

(* A direct message reaches the agent one way, live or by the mailbox       *)
(* (message_router.go:81-87), however subscriptions come and go.            *)
OneWay ==
    \A m \in Message, a \in Agent :
        To[m] # Everyone => ~(Live(m, a) /\ Saved(m, a))

(* When a broadcast returns, every agent that ever subscribed, other than   *)
(* its sender, has it in its inbox: whether its channel was full, closed or *)
(* replaced.                                                                *)
BroadcastReachesAll ==
    [][\A m \in Message :
          To[m] = Everyone /\ sending[m] # "sent" /\ sending'[m] = "sent" =>
              \A a \in Agent \ {Sender[m]} :
                  (\E c \in Channel : reader[c] = a) => Saved(m, a)']_routerVars

(* Nothing is sent on a closed channel: that would be a panic.              *)
NeverOnClosed ==
    \A m \in Message : \A a \in todo[m] : subscribers[a] \in made \ closed

(* Channels and inboxes, taken together, at every moment. *)
RouterSafe == RouterTypeOK /\ OneWay /\ NeverOnClosed

(* A Send ends, whether or not the readers read: the read lock it holds     *)
(* would keep every Subscribe and Unsubscribe out.                          *)
SendsEnd == \A m \in Message : sending[m] \in {"live", "save"} ~> sending[m] = "sent"

(* message_router.go:56: "Uses live channel if available, falls back to     *)
(* mailbox."  A direct message that was sent is on its way or has arrived.  *)
DirectDelivered ==
    \A m \in Message :
        To[m] # Everyone /\ sending[m] = "sent" /\ ~Replaced(m)
            => Live(m, To[m]) \/ Saved(m, To[m])

(* message_router.go:73: "Also persist to mailbox for offline agents": an   *)
(* agent that had a broadcast live does not find it in its mailbox again.   *)
SavedForOfflineOnly ==
    \A m \in Message, a \in Agent :
        To[m] = Everyone => ~(Saved(m, a) /\ \E c \in Channel : reader[c] = a /\ m \in got[c])
=============================================================================
