-------------------------------- MODULE MCP ---------------------------------
(***************************************************************************)
(* The connections to one MCP server (internal/agent/mcp_client.go): each  *)
(* connection is a child process, the pipe of its answers and a mutex held *)
(* for a whole call; the registry is mcpClients under its RWMutex, whose   *)
(* read lock a tool call holds from the look-up to the answer.             *)
(*                                                                         *)
(* MCPManager (mcp_enhanced.go) keeps a registry of its own with the same  *)
(* operations and a health check; the check is modelled here beside the    *)
(* others, so that every behaviour of either registry is one of these.     *)
(* Its map of statuses, which nothing reads, is left out.                  *)
(*                                                                         *)
(* A request is written to the server's stdin with the mutex held and with *)
(* no timer running: a server that does not read keeps the writer, and all *)
(* that wait for its locks, until it exits.                                *)
(***************************************************************************)
EXTENDS Naturals, Sequences, SequencesExt, FiniteSets

CONSTANTS Goroutine,   \* agent loops, HTTP handlers, whoever checks the health
          Client,      \* the connections, 1 to their number, in the order of their making
          Limits       \* bounds: for each connection, the calls over it and the lines
                       \* its server writes that answer nothing

(* A connection that is made has calls for its setting up, which are two.   *)
ASSUME LimitsAssumption ==
    /\ IsFiniteSet(Client) /\ Client = 1..Cardinality(Client)
    /\ Limits \subseteq [calls : [Client -> Nat \ {1}], notes : [Client -> Nat]]

ASSUME GoroutineAssumption == IsFiniteSet(Goroutine)

Nobody == 0
Nothing == [nothing |-> TRUE]

(* A line of a server: the answer to a call, well or badly formed, an RPC   *)
(* error among the bad ones, or a notification, which parses as an answer   *)
(* without a result.  What is no line at all reads as Failed.               *)
CallId == UNION {UNION {1..l.calls[c] : c \in Client} : l \in Limits}
NoteCount == UNION {UNION {0..l.notes[c] : c \in Client} : l \in Limits}
Line == [id : {0} \cup CallId, ok : BOOLEAN]
Notification == [id |-> 0, ok |-> TRUE]
Failed == [id |-> 0, ok |-> FALSE]

VARIABLES
    registry,   \* mcpClients: the client registered for the server, or Nobody
    conn,       \* each MCPClient and its process
    caller,     \* what each goroutine is doing
    limit       \* the bounds of this behaviour

mcpVars == <<registry, conn, caller, limit>>

Connection ==
    [process : {"none", "up", "exited", "killed"},
     running : BOOLEAN,
     nextID  : {0} \cup CallId,
     asked   : SUBSET CallId,   \* calls the process has read and not answered
     stdout  : Seq(Line),              \* lines nobody has read
     readers : SUBSET CallId,   \* calls whose goroutine is in ReadBytes
     torn    : BOOLEAN,                \* two of them were, so the buffer may be
     tools   : BOOLEAN,                \* tools/list gave the server's tools
     notes   : NoteCount]

Caller ==
    [pc     : {"idle", "connect", "call", "writing", "waiting", "notify", "register",
               "disconnect", "check", "reconnect", "close"},
     on     : Client \cup {Nobody},
     method : {"none", "initialize", "tools/list", "tools/call"},
     id     : {0} \cup CallId,
     got    : Line \cup {Nothing}]     \* the channel of one from its reader

New == [process |-> "none", running |-> FALSE, nextID |-> 0, asked |-> {},
           stdout |-> <<>>, readers |-> {}, torn |-> FALSE, tools |-> FALSE, notes |-> 0]
Started == [New EXCEPT !.process = "up", !.running = TRUE]

Doing(pc, c, method) == [pc |-> pc, on |-> c, method |-> method, id |-> 0, got |-> Nothing]
Idle == Doing("idle", Nobody, "none")

MCPInit ==
    /\ registry = Nobody
    /\ conn = [c \in Client |-> New]
    /\ caller = [g \in Goroutine |-> Idle]
    /\ limit \in Limits

At(g, pc) == caller[g].pc = pc

(* c.mu is held by a call that writes its request or waits for its answer. *)
InCall(g) == caller[g].pc \in {"writing", "waiting"}
Locked(c) == \E g \in Goroutine : InCall(g) /\ caller[g].on = c

(* The registry's lock: a tool call reads under it; one that waits to write *)
(* keeps new readers out, as sync.RWMutex does.                             *)
CallsUnderLock == \E g \in Goroutine : caller[g].method = "tools/call"
WriterWaits == \E g \in Goroutine : caller[g].pc \in {"register", "disconnect"}

(* Somebody can still close c: it is registered, or being set up. *)
Owned(c) == \/ registry = c
            \/ \E g \in Goroutine : /\ caller[g].on = c
                                /\ caller[g].pc \in {"call", "writing", "waiting", "notify", "register"}

(* Bound: a connection is still to be made, beyond those already promised. *)
Unmade == {c \in Client : conn[c].process = "none" /\ limit.calls[c] > 0}
Spare == Cardinality({g \in Goroutine : caller[g].pc \in {"connect", "check", "reconnect", "close"}})
            < Cardinality(Unmade)

(* Wrong: the pipes are closed and the process left. *)
ClosedPipes(k) == IF k.running
                  THEN [k EXCEPT !.running = FALSE, !.asked = {}, !.stdout = <<>>]
                  ELSE k

(* Close on a connection k: nothing when it is not running. *)
Closed(k) == IF k.running
             THEN [k EXCEPT !.running = FALSE, !.process = "killed", !.asked = {}, !.stdout = <<>>]
             ELSE k

-----------------------------------------------------------------------------

(* A goroutine of g starts an operation. *)

ConnectMCPServers(g) ==
    /\ At(g, "idle") /\ Spare
    /\ caller' = [caller EXCEPT ![g] = Doing("connect", Nobody, "none")]
    /\ UNCHANGED <<registry, conn, limit>>

CallMCPTool(g) ==
    /\ At(g, "idle") /\ ~WriterWaits
    /\ registry # Nobody /\ conn[registry].tools
    /\ conn[registry].nextID
         + Cardinality({h \in Goroutine : At(h, "call") /\ caller[h].on = registry}) < limit.calls[registry]
    /\ caller' = [caller EXCEPT ![g] = Doing("call", registry, "tools/call")]
    /\ UNCHANGED <<registry, conn, limit>>

DisconnectAllMCP(g) ==
    /\ At(g, "idle")
    /\ caller' = [caller EXCEPT ![g] = Doing("disconnect", Nobody, "none")]
    /\ UNCHANGED <<registry, conn, limit>>

HealthCheck(g) ==
    /\ At(g, "idle") /\ ~WriterWaits /\ registry # Nobody /\ Spare
    /\ caller' = [caller EXCEPT ![g] = Doing("check", registry, "none")]
    /\ UNCHANGED <<registry, conn, limit>>

-----------------------------------------------------------------------------

(* NewMCPClient starts a process, or fails to. *)
StartProcess(g) ==
    /\ At(g, "connect")
    /\ \/ /\ \E c \in Unmade :
                /\ \A d \in Unmade : c <= d
                /\ conn' = [conn EXCEPT ![c] = Started]
                /\ caller' = [caller EXCEPT ![g] = Doing("call", c, "initialize")]
       \/ /\ caller' = [caller EXCEPT ![g] = Idle]
          /\ UNCHANGED conn
    /\ UNCHANGED <<registry, limit>>

(* The call of g returns line: k is what the call made of the connection.  *)
(* A connection that cannot be initialized is closed; one that cannot list *)
(* its tools is registered without.                                        *)
CallReturns(g, k, line) ==
    /\ LET c == caller[g].on IN
       \/ /\ caller[g].method = "tools/call"
          /\ conn' = [conn EXCEPT ![c] = k]
          /\ caller' = [caller EXCEPT ![g] = Idle]
       \/ /\ caller[g].method = "initialize" /\ line.ok
          /\ conn' = [conn EXCEPT ![c] = k]
          /\ caller' = [caller EXCEPT ![g] = Doing("notify", c, "tools/list")]
       \/ /\ caller[g].method = "initialize" /\ ~line.ok
          /\ conn' = [conn EXCEPT ![c] = Closed(k)]
          /\ caller' = [caller EXCEPT ![g] = Idle]
       \/ /\ caller[g].method = "tools/list"
          /\ conn' = [conn EXCEPT ![c] =
                         [k EXCEPT !.tools = (line = [id |-> caller[g].id, ok |-> TRUE])]]
          /\ caller' = [caller EXCEPT ![g] = Doing("register", c, "none")]
    /\ UNCHANGED <<registry, limit>>

(* Take the lock and begin to write the request. *)
BeginWrite(g) ==
    LET c == caller[g].on
        i == conn[c].nextID + 1
    IN  /\ conn' = [conn EXCEPT ![c].nextID = i]
        /\ caller' = [caller EXCEPT ![g].pc = "writing", ![g].id = i]
        /\ UNCHANGED <<registry, limit>>

(* Wrong: calls are not serialised. *)
BeginCallAnyTime(g) == At(g, "call") /\ BeginWrite(g)

BeginCall(g) == At(g, "call") /\ ~Locked(caller[g].on) /\ BeginWrite(g)

(* The pipe has taken the request, when a server that does not read has    *)
(* room left in it; a goroutine reads.                                     *)
RequestTaken(g) ==
    LET c == caller[g].on IN
    /\ At(g, "writing") /\ conn[c].process = "up"
    /\ conn' = [conn EXCEPT ![c].asked = @ \cup {caller[g].id},
                            ![c].torn = @ \/ conn[c].readers # {},
                            ![c].readers = @ \cup {caller[g].id}]
    /\ caller' = [caller EXCEPT ![g].pc = "waiting"]
    /\ UNCHANGED <<registry, limit>>

(* Wrong: the write waits for a process that has gone. *)
NoBrokenPipe(g) == FALSE /\ UNCHANGED mcpVars

(* A pipe without a process at its end cannot be written to. *)
WriteFails(g) ==
    /\ At(g, "writing") /\ conn[caller[g].on].process # "up"
    /\ CallReturns(g, conn[caller[g].on], Failed)

(* notify: another write, whose failure is not looked at.                  *)
Notified(g) == caller' = [caller EXCEPT ![g].pc = "call"] /\ UNCHANGED <<registry, conn, limit>>
NotifyTaken(g) == At(g, "notify") /\ conn[caller[g].on].process = "up" /\ Notified(g)
NotifyFails(g) == At(g, "notify") /\ conn[caller[g].on].process # "up" /\ Notified(g)

(* A line, or the end of the pipe, reaches the goroutine that reads for    *)
(* call r, and call r if it still waits.                                   *)
Deliver(c, r, line) ==
    caller' = [g \in Goroutine |->
                  IF At(g, "waiting") /\ caller[g].on = c /\ caller[g].id = r
                  THEN [caller[g] EXCEPT !.got = line]
                  ELSE caller[g]]

(* Any goroutine in ReadBytes may have the next line.  bufio.Reader is not *)
(* made for two: once they met, a line may be read twice, out of order or  *)
(* as garbage.                                                             *)
ReadLine(c, r) ==
    LET k == conn[c] IN
    /\ r \in k.readers /\ k.stdout # <<>>
    /\ \E line \in IF k.torn THEN ToSet(k.stdout) \cup {Failed} ELSE {Head(k.stdout)},
          rest \in IF k.torn THEN {k.stdout, Tail(k.stdout)} ELSE {Tail(k.stdout)} :
          /\ conn' = [conn EXCEPT ![c] = [k EXCEPT !.stdout = rest, !.readers = @ \ {r}]]
          /\ Deliver(c, r, line)
    /\ UNCHANGED <<registry, limit>>

ReadEnd(c, r) ==
    /\ r \in conn[c].readers /\ conn[c].stdout = <<>> /\ conn[c].process # "up"
    /\ conn' = [conn EXCEPT ![c].readers = @ \ {r}]
    /\ Deliver(c, r, Failed)
    /\ UNCHANGED <<registry, limit>>

(* The answer has come, and call returns it without a look at its id. *)
Return(g) ==
    /\ At(g, "waiting") /\ caller[g].got # Nothing
    /\ CallReturns(g, conn[caller[g].on], caller[g].got)

(* Wrong: the connection is not marked. *)
TimeoutUnmarked(g) ==
    /\ At(g, "waiting")
    /\ CallReturns(g, conn[caller[g].on], Failed)

(* Wrong: the timer is looked at once a line has come. *)
TimeoutAfterLine(g) ==
    /\ At(g, "waiting") /\ caller[g].got # Nothing
    /\ CallReturns(g, [conn[caller[g].on] EXCEPT !.running = FALSE], Failed)

(* Thirty seconds have passed.  The reader stays. *)
Timeout(g) ==
    /\ At(g, "waiting")
    /\ CallReturns(g, [conn[caller[g].on] EXCEPT !.running = FALSE], Failed)

(* The write lock: no tool call is under way.  What was registered is      *)
(* replaced and not closed.                                                *)
Register(g) ==
    /\ At(g, "register") /\ ~CallsUnderLock
    /\ registry' = caller[g].on
    /\ caller' = [caller EXCEPT ![g] = Idle]
    /\ UNCHANGED <<conn, limit>>

Disconnect(g) ==
    /\ At(g, "disconnect") /\ ~CallsUnderLock
    /\ IF registry # Nobody
       THEN conn' = [conn EXCEPT ![registry] = Closed(conn[registry])]
       ELSE UNCHANGED conn
    /\ registry' = Nobody
    /\ caller' = [caller EXCEPT ![g] = Idle]
    /\ UNCHANGED limit

(* ProcessState is set by the Wait of Close alone, which clears running    *)
(* first: a process that exited of itself is alive to this check.          *)
IsAlive(g) ==
    /\ At(g, "check") /\ ~Locked(caller[g].on)
    /\ caller' = [caller EXCEPT ![g] = IF conn[caller[g].on].running THEN Idle
                                       ELSE Doing("reconnect", Nobody, "none")]
    /\ UNCHANGED <<registry, conn, limit>>

(* Wrong: whether there is an old connection is not looked at. *)
ReconnectBlindly(g) ==
    /\ At(g, "reconnect") /\ ~WriterWaits
    /\ caller' = [caller EXCEPT ![g] = Doing("close", registry, "none")]
    /\ UNCHANGED <<registry, conn, limit>>

Reconnect(g) ==
    /\ At(g, "reconnect") /\ ~WriterWaits
    /\ caller' = [caller EXCEPT ![g] = IF registry = Nobody THEN Doing("connect", Nobody, "none")
                                       ELSE Doing("close", registry, "none")]
    /\ UNCHANGED <<registry, conn, limit>>

CloseOld(g) ==
    /\ At(g, "close") /\ ~Locked(caller[g].on)
    /\ conn' = [conn EXCEPT ![caller[g].on] = Closed(@)]
    /\ caller' = [caller EXCEPT ![g] = Doing("connect", Nobody, "none")]
    /\ UNCHANGED <<registry, limit>>

-----------------------------------------------------------------------------

(* The server: answers what it was asked, in any order; writes lines of    *)
(* its own; exits.  Bound: a process nobody can reach does none of it, as  *)
(* nobody would see it.                                                    *)

Answer(c) ==
    /\ conn[c].process = "up" /\ Owned(c)
    /\ \E i \in conn[c].asked, ok \in BOOLEAN :
          conn' = [conn EXCEPT ![c].asked = @ \ {i},
                               ![c].stdout = Append(@, [id |-> i, ok |-> ok])]
    /\ UNCHANGED <<registry, caller, limit>>

WriteNotification(c) ==
    /\ conn[c].process = "up" /\ Owned(c) /\ conn[c].notes < limit.notes[c]
    /\ conn' = [conn EXCEPT ![c].notes = @ + 1, ![c].stdout = Append(@, Notification)]
    /\ UNCHANGED <<registry, caller, limit>>

Exit(c) ==
    /\ conn[c].process = "up" /\ Owned(c)
    /\ conn' = [conn EXCEPT ![c].process = "exited", ![c].asked = {}]
    /\ UNCHANGED <<registry, caller, limit>>

-----------------------------------------------------------------------------

Begin(g) == ConnectMCPServers(g) \/ CallMCPTool(g) \/ DisconnectAllMCP(g) \/ HealthCheck(g)

GoOn(g) == \/ StartProcess(g) \/ BeginCall(g) \/ WriteFails(g) \/ NotifyFails(g)
           \/ Return(g) \/ Register(g) \/ Disconnect(g)
           \/ IsAlive(g) \/ Reconnect(g) \/ CloseOld(g)

(* Steps of a goroutine that need a server that reads. *)
Taken(g) == RequestTaken(g) \/ NotifyTaken(g)

Read(c) == \E r \in conn[c].readers : ReadLine(c, r) \/ ReadEnd(c, r)

ServerStep(c) == Answer(c) \/ WriteNotification(c) \/ Exit(c)

MCPNext == \/ \E g \in Goroutine : Begin(g) \/ GoOn(g) \/ Taken(g) \/ Timeout(g)
           \/ \E c \in Client : Read(c) \/ ServerStep(c)

(* Goroutines go on and timers fire.  Strongly, since sync.Mutex and        *)
(* sync.RWMutex let in who waits, whatever newcomers do.  Servers need not *)
(* read or answer, nor anybody call.                                       *)
MCPSpec == MCPInit /\ [][MCPNext]_mcpVars
           /\ \A g \in Goroutine : SF_mcpVars(GoOn(g)) /\ WF_mcpVars(Timeout(g))

-----------------------------------------------------------------------------

MCPTypeOK ==
    /\ registry \in Client \cup {Nobody}
    /\ conn \in [Client -> Connection]
    /\ caller \in [Goroutine -> Caller]
    /\ \A g \in Goroutine :
          caller[g].pc \notin {"idle", "connect", "disconnect", "reconnect"}
             => caller[g].on # Nobody
    /\ limit \in Limits

(* mcp_client.go:241-253 hands a call the next line of the pipe and never  *)
(* compares ids.  That line is the call's own answer as long as no call    *)
(* timed out and the server wrote nothing of its own: calls of different   *)
(* goroutines never get each other's.                                      *)
AnswersItsOwn ==
    \A g \in Goroutine :
        LET k == conn[caller[g].on] IN
        caller[g].got # Nothing /\ caller[g].got.ok /\ k.running /\ k.notes = 0
            => caller[g].got.id = caller[g].id

(* mcp_client.go:256, "Mark as not running": a goroutine left in ReadBytes *)
(* by a call that gave up, which would take the next call's answer, is     *)
(* only on a connection that is marked, so that a health check replaces it.*)
LeftoverMarked ==
    \A c \in Client : conn[c].running /\ ~Locked(c) => conn[c].readers = {}

(* Answers are not mixed up, and what could mix them up is marked. *)
AnswersSafe == MCPTypeOK /\ AnswersItsOwn /\ LeftoverMarked

(* mcp_client.go:335, "closes all MCP server connections": a process that  *)
(* is up leaves the reach of DisconnectAllMCP in two ways only, as a call  *)
(* gave up on it, so that Close does nothing, or as another replaced it in *)
(* the registry.  A connection that fails half-way, a disconnection and a  *)
(* reconnection leave none behind.                                         *)
NoneLeftBehind ==
    [][\A c \in Client :
          Owned(c) /\ ~Owned(c)' /\ conn'[c].process = "up"
             => \/ ~conn[c].running \/ \E g \in Goroutine : Timeout(g)
                \/ registry = c /\ registry' # Nobody]_mcpVars

(* A write that is not taken, by a server that stays and does not read.    *)
Stuck(g) == caller[g].pc \in {"writing", "notify"} /\ conn[caller[g].on].process = "up"

(* Whoever calls, connects, disconnects or checks comes back, though no    *)
(* server answers: mutex and registry lock are given back in every case.   *)
(* In every case but one: no timer guards the write (mcp_client.go:226,    *)
(* 270), and while one is stuck its caller stays, and with it whoever waits *)
(* for the mutex or the registry.                                          *)
OperationsEnd ==
    (\A g \in Goroutine : []<>~Stuck(g))
        => \A g \in Goroutine : ~At(g, "idle") ~> At(g, "idle")
=============================================================================
