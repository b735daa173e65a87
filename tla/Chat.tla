--------------------------------- MODULE Chat ---------------------------------
(***************************************************************************)
(* The chat page and the sessions it keeps on the server:                  *)
(* web/src/pages/Chat.tsx, lib/sessions.ts, the clicks of SidePanel.tsx    *)
(* and App.tsx that reach it, and the session handlers and store           *)
(* (internal/server/server.go, internal/agent/sessions.go).                *)
(*                                                                         *)
(* One page, and the requests it has in flight: the server handles each in *)
(* a step of its own, and the page gets the answers in any order.  An      *)
(* answer of the agent arrives in chunks (EventStream), its events change  *)
(* the messages (Transcript).  Between two chunks, and while requests are  *)
(* in flight, the user may click whatever the page does not disable.       *)
(***************************************************************************)
EXTENDS EventStream, Transcript, Composer, FiniteSets

CONSTANTS Users,        \* what a user does, see User
          MaxSaves      \* saves and reads of sessions in flight at once

(* A user asks up to `asks' questions, clicks up to `clicks' times on what *)
(* is in `kinds', and gets answers of the set `answers'; up to `faults'    *)
(* requests of theirs fail.                                                *)
ClickKinds == {"open", "new", "delete", "leave", "example", "image", "mic"}

(* A turn of the agent loop: the pieces it streams, and the tools it calls *)
(* then: whether each may run beside others and whether its output is      *)
(* empty.                                                                  *)
Tool == [name : STRING, safe : BOOLEAN, empty : BOOLEAN]
Turn == [stream : Seq({"thinking", "text"}), tools : Seq(Tool)]
Answer == [turns : Seq(Turn), end : {"done", "error", "refused"}]
User == [asks : Nat, clicks : Nat, faults : Nat, kinds : SUBSET ClickKinds,
         answers : SUBSET Answer]

ASSUME ChatAssumption == Users \subseteq User /\ MaxSaves \in Nat \ {0}

NoId == 0

VARIABLES
    user,        \* what this user still does
    mounted,     \* the page is shown
    messages, sessionId, streaming, status,   \* its state (its box: Composer)
    reading,     \* send's closure while an answer is read: [ask, sid]
    events,      \* the lines of that answer
    saves,       \* saves in flight
    gets,        \* sessions being fetched
    deletes,     \* deletions the server has not done
    store,       \* the server's sessions: messages by id
    second,      \* the server's clock
    \* what the properties speak of
    asked,       \* questions asked so far
    seen,        \* for each, the questions shown when it was asked
    muddled,     \* questions whose page was changed under them, see below
    astray,      \* the page may not show all of the session it names
    kept,        \* questions that were stored
    dropped,     \* questions whose page was left, or whose save failed
    writers       \* for each session, the question whose end stored it

pageVars == <<mounted, messages, sessionId, streaming, status, reading, events>>
callVars == <<saves, gets, deletes>>
serverVars == <<store, second>>
ghostVars == <<asked, seen, muddled, astray, kept, dropped, writers>>
rest == <<streamVars, composerVars>>
chatVars == <<user, pageVars, rest, callVars, serverVars, ghostVars>>

NoReading == [ask |-> 0, sid |-> NoId]
Reads == reading # NoReading
Ids == DOMAIN store

-----------------------------------------------------------------------------
(* What the agent loop writes (agent/loop.go, handleAgentLoop): a refused  *)
(* request is answered without any event.                                  *)

Called(n, t, turn) ==
    [i \in DOMAIN turn.tools |->
        [name |-> turn.tools[i].name, call |-> <<n, t, i>>,
         result |-> IF turn.tools[i].empty THEN NoResult ELSE <<n, t, i>>]]

Event(type) == [type |-> type]
InputEvent(c) == [type |-> "tool_input", name |-> c.name, call |-> c.call]
ResultEvent(c) == [type |-> "tool_result", name |-> c.name, result |-> c.result]

TurnEvents(n, t, turn) ==
    LET calls == Called(n, t, turn)
        safe == {i \in DOMAIN calls : turn.tools[i].safe}
        together == At(calls, safe)
        unsafe == At(calls, DOMAIN calls \ safe)
        parallel == IF Len(together) > 1 THEN together ELSE <<>>
        alone == IF Len(together) > 1 THEN unsafe ELSE together \o unsafe
    IN  <<Event("status")>>
     \o [i \in DOMAIN turn.stream |-> [type |-> turn.stream[i], piece |-> <<turn.stream[i], n, <<t, i>>>>]]
     \o [i \in DOMAIN calls |-> Event("tool_start")]
     \o [i \in DOMAIN parallel |-> ResultEvent(parallel[i])]
     \o FlattenSeq([i \in DOMAIN alone |-> <<InputEvent(alone[i]), ResultEvent(alone[i])>>])

AnswerEvents(n, a) ==
    IF a.end = "refused" THEN <<>>
    ELSE FlattenSeq([t \in DOMAIN a.turns |-> TurnEvents(n, t, a.turns[t])])
      \o <<IF a.end = "done" THEN Event("done") ELSE [type |-> "error", ask |-> n],
           Event("stream_end")>>

-----------------------------------------------------------------------------
PageInit ==
    /\ mounted = TRUE /\ messages = <<>> /\ sessionId = NoId /\ streaming = FALSE
    /\ status = "" /\ reading = NoReading /\ events = <<>>

ChatInit ==
    /\ user \in Users
    /\ PageInit /\ ComposerInit
    /\ size = 0 /\ got = 0 /\ buffer = {} /\ handled = {}
    /\ saves = {} /\ gets = {} /\ deletes = {}
    /\ store = <<>> /\ second = 1
    /\ asked = 0 /\ seen = <<>> /\ muddled = {} /\ astray = FALSE
    /\ kept = {} /\ dropped = {} /\ writers = <<>>

-----------------------------------------------------------------------------
(* Asking, and reading the answer. *)

Send ==
    /\ mounted /\ ~streaming /\ user.asks > 0
    /\ user' = [user EXCEPT !.asks = @ - 1]
    /\ asked' = asked + 1
    /\ seen' = Append(seen, Asks(messages))
    /\ messages' = messages \o <<UserMessage(asked'), EmptyAnswer>>
    /\ streaming' = TRUE /\ status' = "thinking"
    /\ reading' = [ask |-> asked', sid |-> sessionId]
    /\ \E a \in user.answers :
           /\ events' = AnswerEvents(asked', a)
           /\ Open(Len(events'))
    \* a question asked before the first save was answered, or when its answer was
    \* lost, begins another session
    /\ muddled' = IF astray \/ (messages # <<>> /\ sessionId = NoId)
                  THEN muddled \union {asked'} ELSE muddled
    /\ SendBox
    /\ UNCHANGED <<mounted, sessionId, callVars, serverVars, astray, kept, dropped, writers>>

(* The lines of a chunk are handled in one task: no click comes between. *)
EventsOf(lines) == At(events, lines)

Chunk ==
    /\ Reads
    /\ \E k \in 1..3 :
           /\ Read(k)
           /\ \E es \in {EventsOf(CompleteLines(k))} :
                  /\ messages' = HandleEvents(messages, es)
                  /\ status' = StatusAfterAll(status, es)
    /\ UNCHANGED <<user, mounted, sessionId, streaming, reading, events, composerVars, callVars, serverVars, ghostVars>>

(* Wrong: only a session that has an id is saved. *)
SaveKnown(msgs) ==
    saves' = IF msgs = <<>> \/ reading.sid = NoId THEN saves
             ELSE saves \union {[ask |-> reading.ask, sid |-> reading.sid, msgs |-> msgs,
                                 id |-> NoId, served |-> FALSE, live |-> TRUE]}

(* autoSave with the id send was called with; nothing to save, no request. *)
AutoSave(msgs) ==
    saves' = IF msgs = <<>> THEN saves
             ELSE saves \union {[ask |-> reading.ask, sid |-> reading.sid, msgs |-> msgs,
                                 id |-> NoId, served |-> FALSE, live |-> TRUE]}

(* The finally of `send'. *)
EndSend(msgs) ==
    /\ messages' = msgs
    /\ streaming' = FALSE /\ status' = ""
    /\ reading' = NoReading
    /\ AutoSave(msgs)

Finish ==
    /\ Reads /\ AllRead
    /\ Cardinality(saves) < MaxSaves
    /\ EndSend(messages)
    /\ UNCHANGED <<user, mounted, sessionId, events, rest, gets, deletes, serverVars, ghostVars>>

(* The connection is lost, or never came about. *)
Break ==
    /\ Reads /\ user.faults > 0
    /\ Cardinality(saves) < MaxSaves
    /\ user' = [user EXCEPT !.faults = @ - 1]
    /\ EndSend(BreakOff(messages, reading.ask))
    /\ UNCHANGED <<mounted, sessionId, events, rest, gets, deletes, serverVars, ghostVars>>

-----------------------------------------------------------------------------
(* Saving. *)

(* An id is the second the session was first saved in. *)
IdOf(v) == IF v.sid = NoId THEN second ELSE v.sid

(* The seconds that have named a session. *)
Named == DOMAIN writers

Writers(id) == IF id \in Named THEN writers[id] ELSE <<>>

(* Saving replaces the file of the id, or makes one. *)
Put(f, id, x) == [i \in DOMAIN f \union {id} |-> IF i = id THEN x ELSE f[i]]

ServeSave(v) ==
    /\ ~v.served
    /\ saves' = (saves \ {v}) \union {[v EXCEPT !.id = IdOf(v), !.served = TRUE]}
    /\ store' = Put(store, IdOf(v), v.msgs)
    /\ writers' = Put(writers, IdOf(v), Append(Writers(IdOf(v)), v.ask))
    /\ muddled' = IF v.sid = NoId /\ second \in Named THEN muddled \union {v.ask} ELSE muddled
    /\ kept' = kept \union ToSet(Asks(v.msgs))
    /\ UNCHANGED <<user, pageVars, rest, gets, deletes, second, asked, seen, astray, dropped>>

SaveFails(v) ==
    /\ ~v.served /\ user.faults > 0
    /\ user' = [user EXCEPT !.faults = @ - 1]
    /\ saves' = saves \ {v}
    /\ dropped' = dropped \union ToSet(Asks(v.msgs))
    /\ UNCHANGED <<pageVars, rest, gets, deletes, serverVars, asked, seen, muddled, astray, kept, writers>>

(* The session is stored, but the page does not hear of it. *)
SaveAnswerLost(v) ==
    /\ v.served /\ user.faults > 0
    /\ user' = [user EXCEPT !.faults = @ - 1]
    /\ saves' = saves \ {v}
    /\ UNCHANGED <<pageVars, rest, gets, deletes, serverVars, ghostVars>>

(* The page shows something else than what this save made a session of. *)
Misnames(v) == sessionId \notin {NoId, v.id} \/ ~IsPrefix(Asks(v.msgs), Asks(messages))

(* Wrong: whatever save is answered, its session is the page's. *)
SaveAnsweredAlways(v) ==
    /\ v.served
    /\ saves' = saves \ {v}
    /\ sessionId' = IF v.live THEN v.id ELSE sessionId
    /\ astray' = (astray \/ (v.live /\ v.sid = NoId /\ Misnames(v)))
    /\ UNCHANGED <<user, mounted, messages, streaming, status, reading, events, rest,
                   gets, deletes, serverVars, asked, seen, muddled, kept, dropped, writers>>

(* A save without an id gives the page the id it got, whatever the page    *)
(* shows by then.                                                          *)
SaveAnswered(v) ==
    /\ v.served
    /\ saves' = saves \ {v}
    /\ IF v.live /\ v.sid = NoId
       THEN /\ sessionId' = v.id
            /\ astray' = (astray \/ Misnames(v))
       ELSE UNCHANGED <<sessionId, astray>>
    /\ UNCHANGED <<user, mounted, messages, streaming, status, reading, events, rest,
                   gets, deletes, serverVars, asked, seen, muddled, kept, dropped, writers>>

-----------------------------------------------------------------------------
(* The history in the side panel. *)

Click(kind) ==
    /\ user.clicks > 0 /\ kind \in user.kinds
    /\ user' = [user EXCEPT !.clicks = @ - 1]

(* What the answer being read had on the page is replaced. *)
Replaced == IF Reads THEN muddled \union {reading.ask} ELSE muddled

OpenSession(id) ==
    /\ mounted /\ Click("open")
    /\ Cardinality(gets) < MaxSaves
    /\ gets' = gets \union {[id |-> id, served |-> FALSE, found |-> FALSE, msgs |-> <<>>]}
    /\ UNCHANGED <<pageVars, rest, saves, deletes, serverVars, ghostVars>>

ServeGet(g) ==
    /\ ~g.served
    /\ gets' = (gets \ {g}) \union
               {[g EXCEPT !.served = TRUE, !.found = g.id \in Ids,
                          !.msgs = IF g.id \in Ids THEN store[g.id] ELSE <<>>]}
    /\ UNCHANGED <<user, pageVars, rest, saves, deletes, serverVars, ghostVars>>

(* A session that is not found is answered with an error, which has        *)
(* neither messages nor an id.                                             *)
GetAnswered(g) ==
    /\ g.served
    /\ gets' = gets \ {g}
    /\ messages' = g.msgs
    /\ sessionId' = IF g.found THEN g.id ELSE NoId
    /\ muddled' = Replaced
    /\ astray' = (/\ g.found
                  /\ \/ g.id \in Ids /\ Asks(store[g.id]) # Asks(g.msgs)
                     \/ \E v \in saves : ~v.served /\ v.sid = g.id)
    /\ UNCHANGED <<user, mounted, streaming, status, reading, events, rest,
                   saves, deletes, serverVars, asked, seen, kept, dropped, writers>>

GetFails(g) ==
    /\ user.faults > 0
    /\ user' = [user EXCEPT !.faults = @ - 1]
    /\ gets' = gets \ {g}
    /\ UNCHANGED <<pageVars, rest, saves, deletes, serverVars, ghostVars>>

(* Wrong: the session stays the page's. *)
NewChatKeepingId ==
    /\ mounted /\ Click("new")
    /\ messages' = <<>>
    /\ muddled' = Replaced
    /\ astray' = FALSE
    /\ UNCHANGED <<mounted, sessionId, streaming, status, reading, events, rest, callVars, serverVars,
                   asked, seen, kept, dropped, writers>>

NewChat ==
    /\ mounted /\ Click("new")
    /\ messages' = <<>> /\ sessionId' = NoId
    /\ muddled' = Replaced
    /\ astray' = FALSE
    /\ UNCHANGED <<mounted, streaming, status, reading, events, rest, callVars, serverVars,
                   asked, seen, kept, dropped, writers>>

(* The panel's delete button; the page is not told. *)
DeleteSession(id) ==
    /\ mounted /\ Click("delete")
    /\ deletes' = deletes \union {id}
    /\ UNCHANGED <<pageVars, rest, saves, gets, serverVars, ghostVars>>

ServeDelete(id) ==
    /\ deletes' = deletes \ {id}
    /\ store' = [i \in Ids \ {id} |-> store[i]]
    /\ UNCHANGED <<user, pageVars, rest, saves, gets, second, ghostVars>>

-----------------------------------------------------------------------------
(* Another page is chosen: App unmounts this one, and no continuation of   *)
(* it does anything any more; its requests stay with the server.           *)
Leave ==
    /\ mounted /\ Click("leave")
    /\ mounted' = FALSE
    /\ messages' = <<>> /\ sessionId' = NoId /\ streaming' = FALSE /\ status' = ""
    /\ reading' = NoReading /\ events' = <<>> /\ Open(0) /\ CloseBox
    /\ saves' = {[v EXCEPT !.live = FALSE] : v \in saves}
    /\ gets' = {}
    /\ dropped' = IF Reads THEN dropped \union {reading.ask} ELSE dropped
    /\ astray' = FALSE
    /\ UNCHANGED <<deletes, serverVars, asked, seen, muddled, kept, writers>>

Return ==
    /\ ~mounted
    /\ mounted' = TRUE
    /\ UNCHANGED <<user, messages, sessionId, streaming, status, reading, events, rest,
                   callVars, serverVars, ghostVars>>

(* What is put into the box, and what the browser puts into it. *)
Compose ==
    /\ mounted
    /\ \/ Click("example") /\ messages = <<>> /\ ChooseExample
       \/ Click("image") /\ (ChooseImage \/ RemoveImage)
       \/ Click("mic") /\ PressMic
    /\ UNCHANGED <<pageVars, streamVars, callVars, serverVars, ghostVars>>

BrowserNext ==
    /\ \/ \E i \in loading : ImageLoaded(i)
       \/ \E r \in mics : MicStarts(r) \/ MicEnds(r)
    /\ UNCHANGED <<user, pageVars, streamVars, callVars, serverVars, ghostVars>>

Tick ==
    /\ second \in Named
    /\ second' = second + 1
    /\ UNCHANGED <<user, pageVars, rest, callVars, store, ghostVars>>

-----------------------------------------------------------------------------
ServerNext ==
    \/ \E v \in saves : ServeSave(v)
    \/ \E g \in gets : ServeGet(g)
    \/ \E id \in deletes : ServeDelete(id)

AnswerNext ==
    \/ \E v \in saves : SaveAnswered(v)
    \/ \E g \in gets : GetAnswered(g)

ReadNext == Chunk \/ Finish

UserNext ==
    \/ Send \/ NewChat \/ Leave \/ Return \/ Compose
    \/ \E id \in Ids : OpenSession(id) \/ DeleteSession(id)

FaultNext == Break \/ (\E v \in saves : SaveFails(v) \/ SaveAnswerLost(v)) \/ (\E g \in gets : GetFails(g))

ChatNext == ServerNext \/ AnswerNext \/ ReadNext \/ BrowserNext \/ UserNext \/ FaultNext \/ Tick

(* The server answers what it is asked, and the agent's answers end        *)
(* (AgentLoop CancelledEnds, and a provider that ends its streams).        *)
ChatSpec ==
    /\ ChatInit /\ [][ChatNext]_chatVars
    /\ WF_chatVars(ReadNext) /\ WF_chatVars(ServerNext) /\ WF_chatVars(AnswerNext)
-----------------------------------------------------------------------------
(* Properties.                                                             *)
(*                                                                         *)
(* A question is muddled when the code has already mixed it up: another    *)
(* conversation was put on the page while it was answered, it was asked    *)
(* before the page knew its session, or its first save fell in a second    *)
(* that had named a session.  What is claimed holds for the others.        *)

MaxAsked == Max({u.asks : u \in Users})

(* The questions a message has something of. *)
PartsOf(m) == {p[2] : p \in {c \in ToSet(m.content) : Len(c) > 1}}
              \union {c[1] : c \in {m.call} \ {<<>>}}

(* Nothing of an answer stands under another question, but a result: that  *)
(* of a call without a bubble is put into the last one of its tool that    *)
(* shows none, if that is of an earlier question (Chat.tsx:209).           *)
InPlace(ms) ==
    \A i \in DOMAIN ms :
        /\ PartsOf(ms[i]) \ muddled \subseteq {Under(ms, i)}
        /\ ms[i].result # NoResult =>
               ms[i].result[1] \in muddled \/ Under(ms, i) <= ms[i].result[1]

(* A conversation is one that was held: up to its last question, what the  *)
(* user had before them when they asked it.                                *)
Held(ms) == Asks(ms) = <<>> \/ LET n == Last(Asks(ms)) IN Asks(ms) = Append(seen[n], n)

(* The folded part of a message hides no text of the answer; and of the    *)
(* thinking it leaves out only what follows a text that followed thinking. *)
Told(m) ==
    \A i \in DOMAIN m.content :
        /\ m.content[i][1] = "text" => ~Folded(m.content, i)
        /\ m.content[i][1] = "thinking" =>
               \/ Folded(m.content, i)
               \/ \E j, k \in 1..(i - 1) : j < k /\ m.content[j][1] = "thinking" /\ m.content[k][1] = "text"

Conversations == {messages} \union {store[id] : id \in Ids}

(* While an answer is read the page shows all of it that has arrived, in   *)
(* its order, and each result that came after its input in the bubble of   *)
(* its call.                                                               *)
Streams(e) == e.type \in {"text", "thinking"}
ResultOfInput(l) ==
    /\ events[l].type = "tool_result" /\ events[l].result # NoResult
    /\ \E k \in 1..(l - 1) : events[k].type = "tool_input" /\ events[k].call = events[l].result
AnswerShown ==
    Reads /\ reading.ask \notin muddled =>
        /\ PiecesOf(messages, reading.ask) =
               LET arrived == At(events, {l \in handled : Streams(events[l])})
               IN [i \in DOMAIN arrived |-> arrived[i].piece]
        /\ \A l \in handled : ResultOfInput(l) =>
               \E i \in DOMAIN messages : messages[i].call = events[l].result
                                         /\ messages[i].result = events[l].result

(* When the answer is read, a call still spins only if an output of its    *)
(* tool was empty.                                                         *)
OnlyEmptySpins ==
    ~Reads /\ AllRead /\ events # <<>> /\ asked \notin muddled =>
        \A i \in DOMAIN messages :
            Shown(messages[i], streaming) = "spinner" /\ messages[i].call[1] = asked =>
                \E l \in DOMAIN events : events[l].type = "tool_result" /\ events[l].result = NoResult
                                         /\ events[l].name = messages[i].name

(* The questions a session holds, and those whose ends stored it.          *)
In(id) == ToSet(Asks(store[id])) \union ToSet(writers[id])

(* The page that names a session shows all that is stored in it, unless a  *)
(* question of either was muddled.                                         *)
PageUpToDate ==
    /\ mounted /\ sessionId \in Ids /\ ~astray
    /\ (In(sessionId) \union ToSet(Asks(messages))) \cap muddled = {}
    => IsPrefix(Asks(store[sessionId]), Asks(messages))

(* A question is in one session, unless one of the two has a muddled one.  *)
OneHome ==
    \A a, b \in Ids : a # b /\ In(a) \cap In(b) # {} => (In(a) \union In(b)) \cap muddled # {}

ChatTypeOK ==
    /\ user \in User
    /\ mounted \in BOOLEAN /\ streaming \in BOOLEAN
    /\ status \in {"", "thinking", "executing", "server"}
    /\ sessionId \in Named \union {NoId} /\ Ids \subseteq Named /\ Named \subseteq 1..second
    /\ muddled \union kept \union dropped \subseteq 1..asked /\ Len(seen) = asked
    /\ streaming <=> Reads

(* The page reads each line that has arrived, shows and stores only what   *)
(* was said, and, but for muddled questions and a page astray, shows all   *)
(* of the session it names and keeps each question in one.  Words go in    *)
(* their order, an image is mentioned once, and the button for the         *)
(* microphone says that it listens only while it does.                     *)
ChatSafe ==
    /\ ChatTypeOK
    /\ ArrivedHandled
    /\ \A ms \in Conversations : Held(ms)
    /\ PageUpToDate
    /\ OneHome
    /\ WordsInOrder /\ ImagesOnce /\ ListensWhenShown

(* Each answer stands under its question, all of it that has arrived, and  *)
(* its text is in sight.                                                   *)
AnswersWhole ==
    /\ \A ms \in Conversations : InPlace(ms) /\ \A i \in DOMAIN ms : Told(ms[i])
    /\ AnswerShown /\ OnlyEmptySpins

(* What a session holds is only added to, unless it is deleted, one of its *)
(* questions was muddled, or the save that is done was sent before the one *)
(* that was done last (Save replaces the file).                            *)
NothingLost ==
    [][\A id \in Ids \cap DOMAIN store' :
          \/ In(id)' \cap muddled' # {}
          \/ Last(writers'[id]) < Last(writers[id])
          \/ IsPrefix(Asks(store[id]), Asks(store'[id]))]_chatVars

(* Every question is answered or its answer broken off, and what was said  *)
(* is stored, unless the page was left meanwhile or the save failed.       *)
EveryQuestionKept ==
    /\ \A n \in 1..MaxAsked : asked >= n ~> n \in kept \union dropped \union muddled
    /\ streaming ~> ~streaming
=============================================================================
