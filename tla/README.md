# A verification project for AniClew

AniClew (`src/`) is one Go process (`src/internal/`) that is a proxy between coding
command lines and model providers, a tool-using agent, a scheduler of teams of agents,
and a daemon (KAIROS) that watches a workspace; and a web front end (`src/web/`, React)
from which all that is used. This directory holds TLA+
modules of its stateful parts, the TLC configurations that check them on small
instances, and TLAPS proofs of the results that matter most. Every definition is
translated from the source; the comment above it, and `map` in `PROJECT.json`, say
from which lines.

Running a check, in this directory: `tlc -config MCTeam.cfg MCTeam`. Checking the
proofs of a module: `tlapm TeamProofs.tla`.

- [1. The system](#1-the-system)
- [2. Modules, and how they correspond to the code](#2-modules-and-how-they-correspond-to-the-code)
- [3. Runs](#3-runs)
- [4. Fairness](#4-fairness)
- [5. Proofs](#5-proofs)
- [6. What is not modelled, and the abstractions made](#6-what-is-not-modelled-and-the-abstractions-made)
- [7. Plan](#7-plan)

## 1. The system

For each part: its state; its operations; whom it talks to; what is hard about it; what
makes it correct. Paths are below `src/internal/`, those of the web below `src/web/src/`.

**Agent teams** (`agent/team.go`, `server/server.go:1951-2041`).
State: the task list with a status each, the workers, the mailbox directory, and two
variables of the process, `FileOwnershipChecker` and `activeWorkerID` (`agent/tools.go`).
Operations: `AddTask`, `ComputeWaves` (Kahn's algorithm, levels cut to the wave size),
`ExecuteWaves` (a goroutine and an agent loop per task of a wave, a timer over the wave),
`Verify` (a command, retried), `Shutdown`. Calls the agent loop, the mailbox and the
shell. Hard: workers end in any order and any way; the timer, the client and a shutdown
cancel them at any point; writes are checked against a global that every worker sets;
two requests may share a team name and so a directory. Correct when: waves respect the
dependencies, are disjoint and bounded and hold every task or the request is refused;
no task starts before its dependencies ended well; at most the limit runs at once;
verification runs alone; what is reported is what happened; a request ends.

**Mailbox** (`agent/mailbox.go`). State: one JSON file per agent, temporary and lock
files, a mutex per `Mailbox` object. Operations: `Send` (with broadcast), `Receive`,
`Peek`, `Clear`, `ClearAll`, `EnsureInbox`. Used by teams and by the router. Hard: file
operations interleave between objects and processes, lock files go stale, processes
die between steps, a file is emptied before it is filled. Correct when: a message stays
until it is received, is received once, no lock stays for ever, an object behaves as if
its operations were atomic.

**MessageRouter** (`agent/message_router.go`). State: a channel of 16 messages per
subscribed agent; a mailbox behind it. Operations: `Subscribe`, `Unsubscribe`, `Send`,
`PollMailbox`, `OnlineAgents`. Hard: full channels, closed channels, a broadcast that
meets agents coming and going. Correct when: a direct message arrives by one of the two
ways, a broadcast reaches everybody, nobody sends on a closed channel or is blocked.

**KAIROS daemon** (`kairos/daemon.go`, `server/server.go:1147-1226`). State: the task
list in memory and in `tasks.json` per project, the state shown to the user, the cancel
function of the tick loop. Operations: start, stop, add and remove tasks, switch of
project; a tick loop every two minutes that runs what is due. Hard: handlers and the
loop interleave, the list changes while a task runs, `select` may take a tick beside the
cancellation. Correct when: one loop runs for a daemon, Stop halts it, the saved list
is the list, due tasks run when they should.

**Cron** (`kairos/cron.go`). State: none but a daemon's clock. `ParseCron`, `Matches`,
`IsDue`. Hard: edges of fields and steps; ticks two minutes apart against expressions
that name minutes. Correct when: a field selects the values it means, and every minute
an expression names is acted on.

**Git-watch and notifier** (`kairos/gitwatch.go`, `kairos/notify.go`,
`server/server.go:1254-1300`). State: the last status seen, the subscribers' channels,
a bounded history. Operations: look and compare, `Send`, `Subscribe`, `Unsubscribe`,
the event stream of a client. Hard: clients leave while a send is under way; looks are
compared by count. Correct when: a change is noticed and named, a notification reaches
every client that stays, none twice, and neither a slow client nor one that leaves stops
anybody.

**Agent loop** (`agent/loop.go`, `concurrency.go`, `compact.go`, `normalize.go`). State:
the message history, the events of a stream being collected, the tool calls of a turn.
25 turns at most, 3 tries each; read-only tools run side by side, others in order behind
a permission dialogue; long histories are compacted. Hard: each tool call must stay
paired with its result through failures, compaction and merging.

**Autonomous modes** (`agent/chronos.go`, `subagent.go`, `planmode.go`, `plan.go`):
loops over the agent loop with phases, limits and tool restrictions of their own.

**MCP** (`agent/mcp_client.go`, `mcp_enhanced.go`, `mcp.go`). State: a child process and
its pipe per server, a map of clients. Hard: a call that timed out leaves a reader on the
pipe; clients are replaced, closed and health-checked while calls run.

**Permissions and hooks** (`hooks/`, `agent/permission.go`). State: rules from a cascade
of files captured at the start of a loop, rules persisted while it runs. Hard: files are
read, changed and written without a lock; priorities across files.

**Proxy** (`server/server.go:284-575`, `api/`, `gateway/`, `router/`, `providers/`).
State: the provider and model, retry counters, a watchdog per stream, spend per user.
Hard: retries, overload fallback and escalation in one request; timers racing events;
budgets checked before and charged after.

**Translation** (`translate/`, `stream/`). State: the open content blocks of a stream.
Hard: blocks must open and close in order for every order in which text, thinking and
parallel tool calls arrive.

**Sessions and memory** (`agent/sessions.go`, `session_memory.go`, `kairos/memory.go`):
JSON files behind a mutex; operations made of a read and a write.

**Web: the chat page** (`pages/Chat.tsx`, `lib/sessions.ts`, `components/Markdown.tsx`).
State: the messages shown, the box with its text, image and microphone, the session the
page names; on the server a JSON file per session (`agent/sessions.go`). Operations: a
question is sent, its answer read chunk by chunk and turned into messages event by event,
the conversation saved; sessions are opened, begun and deleted. Hard: `send` keeps what it
saw when it began while the user goes on clicking, chunks are cut anywhere, results name
a tool and not a call, saves and reads are answered in any order, the browser calls back
when it likes. Correct when: what is shown and what is stored are conversations that were
held, each answer under its question; a stored question stays stored; every question ends
and is stored.

**Web: shell, side panel, files** (`App.tsx`, `components/SidePanel.tsx`,
`components/ActivityBar.tsx`; `server/server.go:672-849, 2321-2427`). State: lists of
projects, folders and sessions, shown twice over (panel, status bar); the file that is
viewed or edited; the server's project. Hard: every click is a change and then several
questions, and the next click does not wait for them; the server's project is one for
everybody, and a file is named within it. Correct when: lists at rest are the server's; a
file gets back the text that was taken from it.

**Web: settings and configuration** (`pages/Settings.tsx`, `config/config.go`,
`server/server.go:915-1047`). State: provider, model and language, twice on the server (in
use, in `config.json`) and twice in the browser (page, status bar). Hard: `config.json` is
loaded, changed and saved without a lock by five handlers. Correct when: what was asked for
is in the file, what is in use is the default, the page shows what is in use.

**Web: activity** (`pages/Costs.tsx`). State: figures, asked for every five seconds; results
of comparisons. Hard: polls overlap, fail, and outlive the page. Correct when: the page
catches up with the server.

The other parts (tools, shell parsing, retrieval, plugins, observability, pages that cannot
be reached) are listed with their reasons in `PROJECT.json`.

## 2. Modules, and how they correspond to the code

| Modules | Code | Role |
|---|---|---|
| `TaskGraph` | `team.go:28-43, 102-123, 482-491` | tasks, ids, dependency entries; operators only |
| `WaveSchedule` | what `ComputeWaves` promises | abstract specification: a schedule or a refusal, in one step |
| `TeamWaves` | `team.go:90-170` | Kahn's algorithm step by step: counters, levels, cuts, deletions |
| `Team` | `team.go:175-478`, `tools.go:118-145`, `server.go:1951-2041` | a whole request, on top of `TeamWaves` |
| `Mail` | `mailbox.go:25-36, 84-115, 161-188` | entries of an inbox and what an operation makes of them |
| `AtomicMailbox` | what a mailbox promises | abstract specification: deliver, take, create, remove in one step each |
| `Mailbox` | `mailbox.go:39-248` | the same, file operation by file operation |
| `MessageRouter` | `message_router.go` | channels over `AtomicMailbox` |
| `Kairos` | `daemon.go`, `server.go:131-145, 672-701, 1147-1226, 2393` | handlers and tick loops of the daemon |
| `Cron` | `cron.go`, `daemon.go:357-366` | the fields of an expression, and the ticks that ask for them |
| `GitWatch` | `gitwatch.go`, `notify.go`, `server.go:1254-1300` | looks at a changing tree, and the delivery of what they find |
| `MCP` | `mcp_client.go:57-344`, `mcp_enhanced.go:130-142, 239-275` | connections to one server, the calls on them, the registry |
| `Stream` | `response.go:12-221`, `gemini.go:84-202`, `openai_compat.go:68-96`, `loop.go:238-300` | an answer, from the provider's chunks to what the agent loop collects |
| `AgentLoop` | `loop.go:51-474`, `compact.go:18-133`, `normalize.go:17-136` | turns, tools, and the history they leave |
| `EventStream` | `Chat.tsx:132-149` | the loop that reads an answer: chunks, lines, the rest that is kept |
| `Transcript` | `Chat.tsx:102-105, 150-237, 289-366`, `Markdown.tsx:32-63` | what each event makes of the messages, and what is shown of one; operators only |
| `Composer` | `Chat.tsx:97-123, 259-287, 371-460` | the box a question is written in, with the browser's callbacks |
| `Chat` | `Chat.tsx`, `sessions.ts`, `sessions.go:188-279` | the page, composed of the three, with its requests and the stored sessions |
| `Calls` | `api.ts:1-22` | requests of a page in flight; operators only |
| `ConfigFile` | `config.go:52-75` and the handlers that change `config.json` | load, change, save, with no lock |
| `Panel` | `SidePanel.tsx`, `App.tsx:41-65, 221-245`, `server.go:672-701, 2321-2427` | projects, folders and sessions in the panel and the bar's picker |
| `Files` | `App.tsx:91-158`, `server.go:721-849` | a file that is viewed and edited |
| `Settings` | `Settings.tsx`, `App.tsx:46-59, 179-219`, `server.go:915-1047` | provider, model and language |
| `Costs` | `Costs.tsx` | polls and comparisons |
| `App` | `App.tsx`, `ActivityBar.tsx` | the four pages, composed of `Panel`, `Files`, `Settings` and `Costs` over one `ConfigFile` |
| `MC*` | | small instances of each for TLC |
| `*Proofs` | | the theorems of section 5 |

Variables have the names of the fields they stand for where they can. An operation of
the code that others can interleave with is a program counter with one action per step
between two points where others may act (an unlock, a channel operation, a file
operation, an access to a variable without a lock); code under a mutex is one action.
Definitions marked *Wrong* are plausible mistakes: no action uses them, and
`PROJECT.json` lists which property each one breaks when put in the place of the right
definition.

*`TeamWaves` / `Team`.* `tasks` and `inDegree` are the maps of `ComputeWaves`; iteration
over a Go map is a choice of any element. In `Team`, `pc` is the handler's goroutine,
`at[x]` that of `executeTask`, `loop[x]` that of `RunLoop`; a task's `TaskOf(x)` is what
`getTask` finds. `SeenWorkerIDs` is what an unsynchronised read of `activeWorkerID` can
return while it is written: the old value, the new one or a mixture.

*`Mailbox`.* `op[i]` is the operation under the mutex of object `i`; `file`, `tmp` and
`lock` are the three files of an inbox. `os.WriteFile` is two steps, which empty the file and
fill it; either may fail, for the temporary file (`OpenTmp`, `WriteTmp`, `TmpFails`) and for
the inbox itself when the fallback writes it in place (`OpenDirect`, `WriteDirect`,
`DirectFails`), and so may the rename (`RenameFails`). `Crash` drops the operation and leaves the files as they
are, a half-written one included.

*`MessageRouter`.* A sender holds the router's read lock for its whole `Send`: `Exclusive`
is the write lock of `Subscribe` and `Unsubscribe`.

*`Kairos`.* `request` is a handler between its unlocked steps: a Start, which may find no
daemon and make one while another does the same, or the addition of a project, which sets the
workspace and then switches the daemon it finds (`SetWorkDir`, `TellDaemon`). `loop[l]` is a
tick loop with its ticker (`next`, `pending`) and its copy of the list (`todo`). A daemon's
workspace may be the empty one (`None`), whose list is neither read nor saved.

*`GitWatch`.* A watcher is a tick loop in `RunGitWatch` and then in `Send`, serving its
copy of the subscribers one after another. It looks at the tree, which may be any
(`CheckGitStatus`), reads the remembered status without the lock (`ReadLast`), and replaces it
under the lock (`Compare`): another loop may come between the last two.

*`MCP`.* `conn[c]` is one `MCPClient` with its process, its mutex and the lines in its pipe;
`caller[g]` is a goroutine in `call`, in `ConnectMCPServers`, in `DisconnectAllMCP` or in
`HealthCheck`. The registry is `mcpClients`, and `MCPManager.clients` behaves the same way
with the health check added. A call holds its connection's mutex and the registry's read
lock until it returns; a call that gives up leaves the goroutine that reads for it. The write
to the server's stdin is a wait of its own, for a server that need not read (`RequestTaken`,
`NotifyTaken`) and with no timer. The mutexes are not fair to the model beyond what section 4 says.

*`Stream`.* `reply` holds the fields of `Translator`, the events made so far, and the local
variables of `RunLoop` that collect them. The channels in between keep the order, so that
one chunk is followed to the collector in one step, each event collected as it is made; who
waits for whom makes no difference to what is collected.

*`AgentLoop`.* A message is its role, the bytes of its text, whether it is an array of
blocks, the calls and results in it, and whether it was truncated; a call is the turn and its
place in the answer, and has an id that need not be its own (`CallId`). `TruncateLargeContent`
makes a string of a message with more than 100000 bytes of text and leaves its calls and
results out, as the code does.
What a turn does to the history before it asks (compaction, then normalisation) reads and
writes variables of one goroutine and is one step. `running` holds the tools that are
running, side by side in "together" (`EndTogether`), one at a time in "serial", where the
permission check refuses a call (`Refuse`) or lets it run (`RunTool`, `EndTool`). `Answer`
is an answer whose stream was collected; `Stream` has the detail.

*`Chat`.* JavaScript runs one callback at a time: what stands between two `await`s is one
step. `reading` is the closure of `send`, with the session id it began with; `saves`, `gets`
and `deletes` are requests in flight, each served and answered in a step of its own. A piece
of text, a call and a result carry the number of their question, which is how the
properties see whose they are. A question is *muddled* when the page was already changed
under it: `muddled` and `astray` mark where the code is known to mix conversations (section
6), and the properties claim what they say of all the others. A save may fail before the
server has it (`SaveFails`) or after (`SaveAnswerLost`): then the session is stored and the
page does not know its id.

*`Composer`.* A question takes the words of the box and mentions the image on it, whose data
goes nowhere (`ImageIncluded`, section 3). A recogniser of speech is *live* while its page is shown; nobody
stops one when the page is left, and what it hears then is lost.

*`App`.* A call is one `fetch` and the function that awaits it (`next` names what that does
then). A component that is gone still awaits, and sets nothing (`live`). `blurred`, `torn`,
`stray` and `apart` mark, where the code lets answers or saves overlap, what they may have
spoilt: a mark is set by the step that does it, is as narrow as the cause, and is taken off
when the value is made good again.

## 3. Runs

A *pass* run finishes without an error; the *violation* run checks a statement of the
documentation that the code does not keep, and finds the counterexample.

| Run | What it shows |
|---|---|
| `team_request` | `ComputeWaves` on every request of two entries with any ids and dependencies, every graph of three tasks and every acyclic graph of four: each step is one of `WaveSchedule` (`ScheduleSafe`). Seven of the requests are followed to their end, in every interleaving of workers, agent loops, the client, the timer and, for one of them, another team of the same name: the barrier between waves, dependencies, verification alone, a true result, the limit on agents, nothing run twice, nothing completed after the client left, an end |
| `kairos_daemon` | one daemon in two workspaces and the empty one, and two daemons made by two first starts at once: each has one loop at most that was not told to end, the one its own Stop reaches; while there is one daemon the saved list is the list (`KairosSafe`); a cancelled loop ends from whatever step the cancellation finds it in |
| `gitwatch_notify` | two loops and a client: the history is the end of what was sent, one send's notification is delivered to a client once at most (`NotifierSafe`); a send ends though nobody reads, unless a client on a list leaves |
| `cron_day` | the expressions of the tests, the README and their edges over four hours: fields mean what they say (`CronSafe`), regular `@every` expressions run regularly |
| `mailbox_one` | one object, `EnsureInbox` beside it, a crash anywhere, two writes or renames that fail: a message is kept until taken, or replaced if it is an idle notification and a later one of its sender comes, or its inbox is lost in a rewrite in place; what was marked read is not handed out again, no lock is left, `AtomicMailbox` is implemented, operations end |
| `router_delivery` | sends, subscriptions, readers and polls: one way per direct message and no send on a closed channel (`RouterSafe`), broadcasts reach everybody, nobody blocked |
| `mcp_calls` | calls, connections, disconnections and health checks at once, calls that time out or race their answers, processes that exit: an answer goes to its own call, a reader left behind is on a connection marked as dead, a process is left behind by a timeout or a replacement only; operations end unless a server that lives does not read what is written to it |
| `stream_answers` | every answer of six chunks and two calls, from an OpenAI-compatible provider or Gemini, whole or broken off: of those that `StreamSafe` does not exclude, the agent loop collects what was sent, and content blocks nest |
| `loop_turns` | four turns over chats of several lengths, compacted, snipped, cut, merged and truncated: behind the cuts calls and results stay paired, but for a message that is null or was truncated, roles alternate but at the limit, an unsafe tool runs alone (`LoopSafe`), and a loop whose client left ends |
| `web_chat` | seven users of the chat page, who ask, write, click and leave while answers stream in chunks cut anywhere, and saves, reads and deletions of sessions come in any order: conversations shown and stored are ones that were held, words go in their order, an image is mentioned once, the microphone's button tells the truth, and but for muddled questions and a page astray one session per question, and all of the session the page names (`ChatSafe`); each answer that no click muddled is whole, under its question, its text in sight (`AnswersWhole`); no save loses a stored question (`NothingLost`); every question ends and is stored unless it was muddled, its page was left or its save failed (`EveryQuestionKept`) |
| `web_app` | sixteen plans of clicks on the rest of the pages, with requests handled, answered and lost in any order: lists and settings at rest are the server's, the last comparison is shown first (`AppSafe`); files keep their text; the configuration holds what was asked (`UpdatesKept`), each but for the values that are marked; polls catch up and no request stays open (`CatchesUp`) |
| `team_ownership` | the violation: with two workers side by side a write is judged as the last started worker's (`OwnershipEnforced`, `tools.go:123`), where `README.md:36` says "Hard enforcement" |

Further statements fail and have no run of their own. They are defined beside the others, with
the text they take their words from; to see the counterexample, put the name in the place of the
properties of the component's configuration, an action property (`[][...]`) as `PROPERTY`, a
state predicate as `INVARIANT`, with the constants given below changed.

| Statement | Module | Where the code differs |
|---|---|---|
| `DependenciesDone` | `Team` | a task whose agent ended with an error counts as completed (`team.go:346`) |
| `OwnFilesWritable` | `Team` | the ownership check refuses a worker its own file (`tools.go:123`) |
| `VerifyWithinRetries` | `Team` | the verification command runs a fourth time (`team.go:438`) |
| `CrossProcessSafe` | `Mailbox` | two objects on one directory lose a message, as the lock is taken after the read (`mailbox.go:162`); `Instance = {one, two}`, no crashes and faults |
| `WriteIsAtomic` | `Mailbox` | the fallback empties the inbox itself and may fail then: all its messages are lost (`mailbox.go:202`) |
| `StopHalts` | `Kairos` | two first starts at once make two daemons, of which Stop reaches one (`server.go:1148`) |
| `MarkedWhereRun` | `Kairos` | a project switch while a task runs: the other project's task is marked (`daemon.go:231`) |
| `GitWatchEveryTick` | `Kairos` | git-watch is skipped every other tick (`daemon.go:360`); `MaxClock = 3` |
| `StoppedIsIdle` | `Kairos` | a tick taken beside the cancellation leaves "sleeping" behind (`daemon.go:207`) |
| `SendReachesAll` | `GitWatch` | a send on a channel that was closed after the list of subscribers was copied panics, and the others are not served (`notify.go:94`); `Subscriber = {s1, s2}`, `MaxSends = 1` |
| `NotifiesSinceLastCheck` | `GitWatch` | two loops compare with the same remembered status, and both notify of one change (`gitwatch.go:171`) |
| `NewChangesNotified` | `GitWatch` | a change beside a revert leaves the count as it was, and is not noticed (`gitwatch.go:185`); `File = {f1, f2}` |
| `NewChangesNamed` | `GitWatch` | a work-tree modification is listed as staged |
| `EveryFiveMinutes`, `NoMinuteMissed` | `Cron` | ticks two minutes apart: `@every 5m` runs every ten minutes, odd minutes are never looked at (`daemon.go:365`) |
| `DirectDelivered`, `SavedForOfflineOnly` | `MessageRouter` | a full channel loses a direct message; a broadcast is found a second time in the inbox (`message_router.go:96`) |
| `EveryCallCollected` | `Stream` | of two calls side by side in one answer of an OpenAI-compatible provider the loop collects one: the second starts before the first is stopped (`loop.go:260`) |
| `CutDropped` | `Stream` | an answer that breaks off in a tool call: `End` stops a filler block, and that hands the loop the half call (`response.go:160`) |
| `Paired` | `AgentLoop` | a message with more than 100000 bytes of text becomes a string: its calls are gone, their results stay (`normalize.go:81`) |
| `ImageIncluded` | `Composer` | an image goes into no request, only a text that mentions it (`Chat.tsx:110-121`) |

What the front end does that its texts or the server's promise otherwise, found while
modelling. Each is a case the marks of `Chat` and `App` name, so that the run passes beside it:

- a session opened, or a new chat begun, in the middle of an answer gets the rest of that
  answer, and may be saved over the session the question was asked in (`Chat.tsx:72-85, 164`);
- two new conversations first saved within one second are one session (`sessions.go:219`), even
  where the first was deleted meanwhile: it comes back with the other's messages;
- a question asked before the first save was answered, or after its answer was lost, begins a
  second session (`Chat.tsx:65-68, 166`);
- a recogniser of speech goes on when the page is left, with no button to stop it (`Chat.tsx:413`);
- an empty result leaves its bubble spinning for ever, until a later result of the same tool
  is put into it: calls that run side by side have no bubble of their own, as the loop sends
  no input for them (`Chat.tsx:209-210`, `loop.go:371, 424`). That later result may be of another
  question, and stands then in an earlier one's bubble;
- an answer broken off in its thinking shows its error inside the fold (`Chat.tsx:155`);
- the server answers `null` where there are no sessions, which the panel cannot render: the
  page goes blank where it was to say "No history" (`SidePanel.tsx:304-315`); so does a
  directory or an empty file that is opened as a text (`App.tsx:150`);
- a large or binary file is shown cut or replaced, and saved as it is shown; a file opened
  while another is edited is saved with that one's text; a save's answer is not looked at
  (`App.tsx:98-137`);
- handlers that save `config.json` at once take back each other's fields, and a load while the
  file is emptied makes the defaults of all of them (`config.go:52-75`);
- adding a project does not save it as the working directory (`server.go:2392`), and removing
  the current one leaves it in use;
- "Apply" without a model saves a provider with the old provider's model as the default
  (`Settings.tsx:173-222`), and a key that was
  entered is saved, but the provider is made without it and nothing here reads it back
  (`server.go:936, 1000`);
- `README.md:56` promises tasks and memory per workspace, but a switch of projects leaves
  KAIROS and its memory where they were, which only adding a project moves (`kairosAt` of
  `Panel`; `server.go:672-701` beside `131-145`); and a chat is stored under the folder the
  server was started in, not under the project (`sessions.go:221`);
- the comparison page names no models: its answer is always an error, shown as a tie
  (`Costs.tsx:179-207`).

Bounds and why they are enough.

- `TeamWaves`: requests are finite lists of ids from 1 to 4; three tasks give every cycle,
  four every shape of acyclic graph a wave of two can be cut from (a diamond, a level longer
  than a wave). The proofs cover all others.
- `Team`: `EventBudget = 1`, the events a loop emits before it ends: workers and loops meet
  at the channel, and a second event repeats the first's steps. The requests followed to
  their end have up to three tasks: two side by side and one after them, a wave that is
  full, duplicate ids; the other requests rest when `ComputeWaves` returned (`MCNext`).
  `Crowded` names the request beside which another team of the same name runs.
- `Mailbox`: two agents so that a broadcast has more than one inbox; two tries at a lock
  (10 in the code) separate "try again" from "give up"; one crash; two faults, as an inbox is
  rewritten in place only after one and can be damaged by another. Two idle
  notifications and a text show both kinds; the second notification comes after the first and
  without crash and fault (`Few`). One object: what two lose is `CrossProcessSafe`. `MailboxProofs` covers
  any agents, messages, objects, crashes and faults.
- `MessageRouter`: channels of one message (16 in the code), so that "full" happens after
  one; two channel objects allow one resubscription.
- `Kairos`: two loops (a stop and a start again), time for two ticks; one daemon with two
  projects and two tasks (one beside a second loop), or two daemons, made by two handlers at
  once, with one project and one task each (`FewTasks`, `OneWorkspace`). Daemons and loops differ
  in name alone and are taken in order (`InOrder`), which takes the place of symmetry: that is
  not sound where liveness is checked.
- `GitWatch`: two loops, one file, channels of one, a history of two cut to one (20 and 100 to 50
  in the code); one client and three sends.
- `Cron`: one Monday, four hours of it, `Period = 2` as in the code.
- `MCP`: two goroutines; two connections, one replacing the other, with four and two calls
  (two set a connection up), or one connection whose server also writes a notification.
- `Stream`: six chunks hold reasoning and text on either side of a call, and a call in
  three pieces; two calls show every way in which one disturbs the other.
- `AgentLoop`: four turns (25 in the code) and requests of ten messages (200), so that one
  loop can be compacted (from eight messages on), snipped and cut. The conversations it starts from
  differ in length; one has two questions in a row that together are too long and are truncated
  when they are merged, one an answer in two messages. Among the answers are three calls of which two
  are safe, for both ways of running tools, the same with one id for all, and a call behind a
  text that is too long; `MaxTries`, `KeepCount` and the failures of compaction are the
  code's own.

- `Chat`: users rather than one large bound: each of `MCUsers` has the questions, clicks,
  faults and answers of one kind of trouble (reading an answer of two turns with calls side by
  side, browsing sessions, restless clicks, leaving, faults, composing). Two saves in flight
  show every order of two. A line is its head and its tail: cuts inside either do the same.
- `App`: plans for the same reason; four clicks are two that overlap, with what made them
  possible. Patient users wait for the answers, impatient ones do not. Three projects, of which
  two exist to begin with, and one that is gone; one session; a text, a large and an empty file;
  two providers of one model. Eight requests in flight: a click of the panel makes three.

`CHECK_DEADLOCK FALSE` stands where the real system may rest with nothing to do or the
bound ends the run (all but `Team` and `Mailbox`); `Team` and `Mailbox` are
checked for deadlock.

## 4. Fairness

- `Team`: goroutines that can run do run (`MainStep`, `WorkerStep`, `FinishWrite`: the Go
  scheduler); the wave's timer fires; a loop whose context is cancelled ends, since its
  model calls carry that context. Nothing forces a model to stop streaming.
- `Mailbox`: a running operation goes on; the environment (calls, crashes, failing writes, ageing
  locks) is under no fairness.
- `MessageRouter`: a sender goes on; readers need not read.
- `Kairos`: a loop's step goes on, and `Ended` is strongly fair, because Go's `select`
  picks at random among the ready cases: a cancellation that is ready again and again is
  taken at some time.
- `GitWatch`: a watcher in the middle of a look or a send goes on; clients need not read.
  `SendsEnd` claims nothing where a client that is still on a list leaves: such a send ends with
  the process (`SendReachesAll`).
- `Cron`: time passes.
- `MCP`: a goroutine in an operation goes on, strongly fairly where it waits for a lock: Go's
  mutexes give way to one that has waited a millisecond. A server owes nobody an answer; the
  timer of a call is what ends it. Nor need it read what is written to it, and no timer covers
  the write (`mcp_client.go:226, 270`): so `OperationsEnd` assumes that no goroutine stays in a write
  to a process that lives (`Stuck`), and shows that nothing else keeps an operation from ending.
- `Stream` states no liveness.
- `AgentLoop`: the loop's own steps and its tools go on, and a request whose context is
  cancelled fails, or its stream ends and what came of it is taken for the answer. A model need not answer, and the loop has no timer of its own, so that
  only a loop whose client left is claimed to end (`CancelledEnds`).
- `Chat`: the browser goes on reading what arrives, the server goes on handling what it is
  asked, and its answers arrive. That an agent's answer ends is `CancelledEnds` with a provider
  that ends its streams; that it breaks off is a fault and under no fairness. Users owe nothing.
- `App`: the server handles (panel and files, settings: one conjunct each), answers arrive (the
  same), the two timers go off. `react` renders between two of these and is no step.

## 5. Proofs

Checked by `tlapm`, for every value of the constants under the assumptions named in the
modules. For teams: ids are naturals, requests finite sequences of tasks, any wave size
and event budget. For the mailbox: any agents, messages and tries. For the router: channels
of at least one message, `Nobody` no agent or channel. For the notifier: channels of at
least one, and what is kept of the history no more than its limit. For the daemon: a period
and an end of time of at least one, `None` none of the objects. For cron: a day of at least
one minute and at most 24 hours, and ticks at most a day apart. For the connections: finitely many
goroutines, bounds on the calls of a connection. For the chat: users with finitely many
questions, clicks and faults, and at least one save in flight. For the front end: `Elsewhere` is no file, plans
start at a page, the configuration's defaults have its fields, and at least one request can be in flight.
For answers: any numbers of chunks and of calls, none included.
All but the following hold of each state the program can be in whatever else goes on.

No theorem needs an induction principle that takes an operator. Where a recursive function
computes something (`Steps` of `Cron`, `HandleEvents` of `Transcript`, the loops of
`AgentLoop` and of `Stream`, `FlattenSeq`), it is
shown that its equation has a solution and that a *set* of numbers that holds the first and
with each number the next holds all: the least number outside it would contradict `WFMin`.

**Teams** (`TeamProofs`). The properties of a schedule are not inductive: a state in the middle
of Kahn's algorithm could have counters that agree with nothing. `WavesIndInv` says what
the maps mean: a counter is the number of dependency entries of a task that are not
deleted yet, deletions are closed under dependencies, what is being cut is deleted in
whole, and no task on a cycle, or behind an id that does not exist, is ever deleted
(`Stuck` sets and `Deletions` are disjoint). From it follow `DependencyOrder`,
`VerdictRight` (a set of undeleted tasks with no zero counter is itself stuck), and that
every step is one of `WaveSchedule` or a stutter (`WavesImplementSchedule`): this is the
property `ScheduleSafe` of `team_request`, which says of the waves what the other two say
one at a time.
`TeamIndInv` joins `WavesIndInv` with the agreement of status, goroutine and
agent loop of a worker (`StatusAgrees`), the fact that only begun waves have workers and
only the current one active ones, and that finished waves are completed. It implies the
barrier (`TeamBarrier`); with `DependencyOrder` the barrier gives `TeamDependencies`.
`TeamRunsAtMostOnce` is an action property proved from the same invariant: a goroutine is
started for the workers of the next wave only, and waves are disjoint.
`RunningWithinLimit` needs the cardinality of a wave and `FS_Subset`.

**Mailbox** (`MailboxProofs`). `MailboxTypeCorrect` and `MailboxLeavesNoLock` hold for any number of objects:
while nobody dies, every lock is that of an operation past it (`LocksHeld`), and what breaks or
gives up a lock removes one too many, never one too few. `MailboxAtomic` is of behaviours in
which the operations of the objects do not overlap (`Disjoint`), which is what the mutex gives
within one object, and two teams of one name keep as long as they do not run at once; it assumes
nothing of crashes and faults. Then the mailbox implements `AtomicMailbox` with
`inbox <- Inbox`, which is the file, but the contents on their way to it while it is rewritten
in place: that rewrite takes effect when it begins, and a death or fault in it is `Lose`. The
invariant `BufferCurrent` says that what an operation is about to write is still what it computed from
the file as it is, which is why reading before locking does no harm then, and `EnsuredMissing`
that a file `EnsureInbox` is about to create is still missing with no `Send` under way to it.
That operations of several objects at once are not atomic is what `CrossProcessSafe` shows.

**Router** (also in `TeamProofs`). `OneWay` and `NeverOnClosed` say nothing of a `Send` half done. The
invariant (`RouterInv`) says that a direct message on its way live is in no mailbox, one on
its way to a mailbox in no channel, and that what a `Send` has still to serve are subscribers
with an open channel of their own (`Subscriptions`): the read lock held over the whole `Send`
is what keeps the last true.

**Notifier** (also in `KairosProofs`). `DeliveredOnce` is of the notification of one `Send`, not of a
change in the tree, of which two loops may both send (`NotifiesSinceLastCheck`). It needs that a loop has still to serve only clients that were not
told its number, and that two loops that serve have different numbers (`Numbers`): both, as
the number is taken under the lock. What is cut off the history is its beginning
(`HistoryGrows`), with `SubSeqProperties` of the library.

**Daemon** (`KairosProofs`). `KairosAlwaysSafe` is of any number of daemons, as two first starts can
make two. `OneLoopEach` is inductive once the types say that a handler works on a
daemon that was made and that a loop is of one (`KairosTypes`): a start finds `cancel` empty,
and then no live loop, in the same locked step. `ListIsSaved` is not true of two daemons of
one project, nor is `StopHalts` where Stop finds one of two: so `KairosSafe` claims the
first, and `KairosStopHalts` the second, of all states in which at most one was made (`OneMade`), which is a
condition on states and not on the constants.

**Cron** (`CronProofs`). `CronAlwaysSafe` rests on `StepsAreMultiples`: what the loop of `parseField`
collects are the multiples of its step between the bounds. `CronEveryRegular` needs what is true
after a run (`RunInv`): it was on a multiple of `n`, ticks since have kept the period's
distance, and the next multiple was not reached; so the next run is `n` minutes on, neither
sooner nor later, if the period divides `n` and `n` the hour.

**Agent loop** (`LoopProofs`). That calls are paired is said of requests only, so `LoopInv` has a
history for each place the loop can be in: `Ready` before a turn, `Sendable` as a request,
`Called` while tools run (all paired but the last message, whose calls are this turn's). A merge, a
compaction and the limit each change the front and *shift* the rest (`Behind`), under which
what stands behind the third message stays answered (`BehindKeeps`); of what a merge makes
of any history (`Together`) roles alternate, so that no filler is ever put in
(`AlternatingStays`). Truncation keeps roles, and takes calls and results out of a message that it
marks: so what is kept of each message behind the third is that it is `Settled`, answered by the
next, or null, or cut. Calls are matched with results by ids (`Match`), which need not be different. `Ready` allows one pair of neighbours of one role, the second and third:
the limit and the summary leave it, and the next merge joins it. That the fallback of a
compaction keeps calls paired needs that a message of the model's has no results and that the fourth from the end is
the model's (`SnippedReady`). `ToolsInv` says that results and queue
make up the calls, and that only the head of the queue may be one that could run beside others.

**Answers** (also in `LoopProofs`). `StreamSafe` speaks of answers that are complete, so `StreamInv`
has a phase for each moment before: no call yet (`NoCallYet`), in the only call
(`OneCallOpen`), done without or with one (`NoCallDone`, `OneCallDone`). Each says what the
translator has open, where its events stand (`BlocksDone`, `Inside` a block of one kind,
`Closed` by `message_stop`), and what the loop holds: pieces are numbers that rise, and what is
collected is the pieces sent (`InOrder`). That an answer whose reasoning comes first has its
text in one block, and that thinking still open was sent after the last text
(`ThinkingLast`), is what keeps the loop from adding the last text twice. A chunk of
several calls is several rounds of `ToolCall`: more than one call ends what is claimed of an
OpenAI-compatible answer (`OneCall`), and of Gemini, whose blocks are closed at once, each round adds
its call (`GeminiCallsDo`).

**Connections** (`MCPProofs`). That answers are not mixed up is not inductive: a reader left
behind takes the next call's answer. `MCPInv` says that a connection marked as running has
no reader but that of the call that waits on it (`OneReader`), and if the server writes nothing
of its own, that nothing is on its way but this call's answer (`OwnAnswer`); and who may be on
a connection at all (`CallerOK`, `Apart`: the mutexes). The bound on calls enters as a budget
(`InBudget`), which counts the goroutines about to call, so that the ids stay in their type.
`MCPNoneLeftBehind` is an action property from the same invariant.

**Chat** (`ChatProofs`). Three invariants side by side, of variables that do not meet, and a
fourth on top of the last.
*Reading* (`StreamInv`): what a chunk completes is computed (`LinesOfChunk`), the lines whose tails are in it. So
`ArrivedHandled` is inductive with the bounds of `got`, for any answer and any cuts, and with
it the order (`StreamHandlesInOrder`).
*The box* (`BoxInv`): words rise from what was sent to what is in the box, images are in
one place each, and a button that shows that the page listens has a live recogniser that runs.
*Sessions* (`SessionInv`). Every conversation the page, a file, a save or an answer under way
holds is `Talk(n)` for a question `n`: what was before the user when they asked it, and `n`
(`HeldInv`); no event of an answer changes that (`EventsKeep`). Two things make sessions
whole. `Root`: whatever stores a session, or is read into its page, began with the question
that stored it first, so that two sessions with a question in common have the same root, and that has stored
one only (`OneHome`). `Line`: the questions that will store a session, and the one that stored
it last, are prefixes of one another, each of the later ones, and all of them of the page
(`PageUpToDate`, `NothingLost`). Both are claimed of sessions none of whose writers is muddled: a muddled question may
be saved over another conversation, and the proof shows that it is the only kind that may.
*Answers* (`AnswerInv`). `AnswersWhole` speaks of all the lines handled so far at once; the code handles
them one at a time, and nothing of the final page says how it came about. So the invariant says
what the page shows after each number `h` of events (`Shows`): the pieces are those that arrived, each
result is in the bubble of its call, a bubble waits only if its result comes next or was
empty, and the page ends with a place for text. One event keeps that (`ShowsNext`), hence
a chunk of any number does (`ChunkWhole`); `SpinInv` says that no call is still open after the end of
an answer. It rests on what the server sends (`EventsInv`: each input is followed by its
tool's result, no other result carries that call, nothing follows an end) and on where messages stand
(`PlaceInv`: each tells of the question above it unless muddled, and names no later one,
on the page as in files, saves and reads, so that an answer never meets pieces of its own question
that were there before).

**The rest of the front end** (`AppProofs`). `AppInv` joins one invariant per part; a click is
a step of several at once, so that each part has its lemmas for "this part is left alone".
*`config.json`* (`FileInv`): a handler that is not stale has loaded what the file holds
(`LoadedInv`): what it then saves differs from the file in its own fields only, which are what
was asked. *Files* (`FilesInv`): `NotStray` says of each text on its way (read, viewed, edited, about to be
written) that it is the text of the file it would be written to, unless marked: so the
marks of `Files` name all the ways in which a file can get another's text. *Lists*
(`PanelInv`): unless all are blurred, nothing else is asked for while something is changed (`OneChange`), and
every answer on its way says what the server has now (`Fresh`); then a list that asks again is
made good by any of the answers. *Settings* (`SettingsInv`): between the server's two changes
(what is in use, what is the default) the defaults are those *with* the handler's change (`DefaultsInv`), and the page
shows what the answer under way will say (`PageInv`). *Activity* (`CostsInv`): as `CostsSafe`, with the types.

Model-checked only:

- liveness under fairness, which is out of the prover's reach: `EveryRequestEnds`,
  `OperationsEnd`, `SendsEnd`, `LoopsEnd`, `CancelledEnds`, `EveryQuestionKept`, `CatchesUp`;
- of the mailbox, `KeptUntilTaken` and `HandedOutOnce` (of one object only), and of the team
  `NothingCompletesAfterDisconnect`.

## 6. What is not modelled, and the abstractions made

- **Team.** Texts, tool calls and reports are not told apart; the event channel (100) and
  the handler's (64) never fill; only `Write` and `Edit` are checked by `ExecuteTool`, and
  shell commands that write are not writes of the model; a background command may outlive
  its agent loop; permissions do not stand between a worker and its tools; a torn read of
  `activeWorkerID` is one value equal to no worker. The handler refuses an empty task list
  (`server.go:1979`), so requests are not empty.
- **Mailbox.** Reads, removals and the creation of the lock file do not fail. A file that was
  emptied and not filled reads as an inbox without messages, as `loadInbox` takes what it cannot
  parse. The order of messages inside an inbox is left out. A team ensures a worker's inbox
  before anything is sent to it, and the router's `Subscribe` and `Send` exclude each other: so
  `BeginSend` has that guard.
- **MessageRouter.** Runs over `AtomicMailbox` (justified by `MailboxAtomic` for one process), of
  which it never takes `Lose`: while no rewrite in place is interrupted. Nothing
  under `src/` calls `Subscribe` yet: the readers are the model's own.
- **Kairos.** A task is its id and last run; the model's answer to a task is one step; the
  log is left out. A handler's `GetDaemon` and its one call on it are one step, but for the
  addition of a project, which sets the workspace before it. Saving `tasks.json` does not fail.
- **GitWatch.** Webhook and desktop callbacks are left out; `" D"` behaves as `" M"`; a
  look that fails changes nothing.
- **Cron.** Expressions are given as fields, not as characters; the date stands still.
- **MCP.** One server. `RunLoop` (`loop.go:126`) and the handler connect anew every time and
  overwrite the registered client without closing it; the model shows the process left
  behind (`NoneLeftBehind` names the only two ways), and gives a process nobody can reach no
  further steps. `Close` does nothing for a connection that timed out, and a process that
  exited is not noticed by `IsAlive`. The map of statuses, resource and prompt calls (calls
  like any other), and what two readers do to one `bufio.Reader` at the same instant, are
  left out. A write to stdin may block or fail; starting, killing and waiting for a process do not
  block.
- **Stream.** A text, a piece of reasoning or of arguments is the number of its chunk. After
  its finish a provider sends no more than usage. Token counts and stop reasons are left
  out: the loop reads neither. All of Gemini's calls carry the id `toolu_gemini`, which
  matters to the history, not here. Anthropic's events pass through unchanged.
- **AgentLoop.** Whether a history is estimated too large is a free choice. Of a text its
  bytes are kept, which decide on truncation; what is cut of one tool result
  (`truncateArrayContent`) is not told apart; retrieval and the prompt are left out. Pairing is
  by ids, which need not be different, as Gemini's are not. A rule the loop persists (`loop.go:418`) is
  read by later loops only. Tools that run side by side pass no permission check
  (`loop.go:356`), so that none can be refused there. An answer whose arguments are not JSON
  leaves a message without content (`Null`). A loop's MCP connections are those of `MCP`.
- **Chat.** Texts are pieces; two pieces of one kind are not told apart by length. The bubble
  of a call is matched by tool name, as the code does. Whether the agent answers is its own
  affair: its events are made from a turn's stream and tools (`TurnEvents`, after `loop.go:238-461`).
  A save or read that fails, or whose answer is lost, rejects a promise nobody catches. A session's name and workspace, the
  list of sessions (`setSessions`, never shown: `Chat.tsx:29`) and a rename, which no page calls,
  are left out; `streamChat` of `api.ts` has no caller.
- **App.** Figures, wording, types and icons of projects are left out. `Add project` starts at
  `D:/git`, and does nothing where that does not exist (`Start`). A page that failed to render is
  `Blank` and takes no clicks. `showToast` has no caller; the language changes wording only. Chat
  and the rest of `App` share only `loadSessionId`: what a click in the panel does to the page is in
  `Chat` (`OpenSession`, `DeleteSession`), what it does to the panel in `Panel`.
- **Pages that cannot be reached**: `Kairos`, `Memory`, `Team`, `Routes`, `Explorer`, `Workspace` and
  the old `Sidebar`. `ActivityBar` offers four pages, and `App` mounts no other. The code of these
  would be a model of nothing that runs.
- `main.go` is not in the repository: how the process starts and stops is not modelled.
- The components with status `not_modelled` in `PROJECT.json`, each with its reason. Tools,
  shell validators and allowlists, retrieval and plugins are string and file processing
  with no state of the program's own.

## 7. Plan

In this order, most important first. Done: 1 to 8, 12 to 18.

1. `TaskGraph`, `WaveSchedule`, `TeamWaves` and their proofs.
2. `Team` (composes `TeamWaves`) and its proofs.
3. `Mail`, `AtomicMailbox`, `Mailbox` and the proof that one implements the other.
4. `MessageRouter` over `AtomicMailbox`.
5. `Kairos`, `Cron`, `GitWatch` with the notifier.
6. `MCP`: connections with late answers and leftover readers.
7. `Stream`: translators composed with the collector of the agent loop.
8. `AgentLoop`: pairing of calls and results through permissions, concurrency, compaction
   and normalisation. Left for later: how long a tool's result may become.
9. `Chronos`, `SubAgent`, `PlanMode`, and the translation of requests, on top of it.
10. `Proxy`: `handleMessages` with retries, overload fallback, escalation and the gateway's
    budget; `Watchdog` composed with the stream it guards.
11. `Permissions` (cascade, snapshot, persisted rules), `Sessions`, `Memory`, the background
    commands of `bash_exec.go`.
12. Proofs of the daemon, cron and the connections.
13. The chat page: `EventStream`, `Transcript`, `Composer`, `Chat`.
14. The rest of the front end: `Calls`, `ConfigFile`, `Panel`, `Files`, `Settings`, `Costs`, `App`.
15. Proofs of the router, the notifier, and of 13 and 14.
16. Proofs of the agent loop: pairing of calls and results, roles, tools.
17. Proof of `Stream`: blocks nest, what is collected is what was sent.
18. Proof of `AnswersWhole`, by an invariant over the pieces of each message.

Runs stay one per question: a component gets one passing run, with its invariants as
conjunctions of named parts.
