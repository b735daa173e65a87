------------------------------- MODULE Kairos -------------------------------
(***************************************************************************)
(* The KAIROS daemon (internal/kairos/daemon.go) under the server's        *)
(* handlers that make, start, stop and feed it (server.go:1147-1226) and   *)
(* those that change the workspace (server.go:131-145, 672-701, 2393).     *)
(*                                                                         *)
(* A Start makes a tick loop with a context of its own; Stop cancels it    *)
(* and does not wait.  The loop works on a copy of the task list, unlocked *)
(* while a task runs, so that starts, stops, project switches and changes  *)
(* of the list fall between its steps.                                     *)
(*                                                                         *)
(* Time is a bounded count; the instants of a ticker are Period apart, and *)
(* a tick is delivered when the loop is there to take it, one at most      *)
(* waiting.  What a task's prompt says and answers, and the log, are left  *)
(* out.  Definitions called Wrong are mutations the runs must catch.       *)
(***************************************************************************)
EXTENDS Integers, Sequences, FiniteSets, SequencesExt

CONSTANTS Project,      \* workspaces
          Daemon,       \* objects NewDaemon may make
          Request,      \* handlers of several steps running side by side:
                        \* those of POST start and of a new project
          GitWatch,     \* the task the server adds by itself
          Custom,       \* the ids of tasks users add
          Loop,         \* bound: tick loops, one per effective Start
          Period,       \* TickInterval: 2 minutes
          MaxClock,     \* bound on time
          MaxTasks      \* bound on a task list

ASSUME PeriodAssumption == Period \in Nat \ {0}
ASSUME ClockAssumption == MaxClock \in Nat \ {0}
ASSUME TasksAssumption == MaxTasks \in Nat

None == [none |-> TRUE]

ASSUME NoneAssumption == None \notin Project \cup Daemon \cup Loop

Id == {GitWatch} \cup Custom
Never == 0                                   \* LastRun.IsZero()
Task == [id : Id, last : 0..MaxClock]
TaskList == BoundedSeq(Task, MaxTasks)

VARIABLES
    slot,       \* the server's daemon
    workDir,    \* the server's workspace, None when it is empty
    saved,      \* tasks.json of each project
    made,       \* the daemons that exist
    dir,        \* each daemon's project, None when it is empty
    tasks,      \* its task list
    cancel,     \* the loop its cancel function stops
    state,      \* its State
    loop,       \* the tick loops
    request,    \* the handlers of several steps
    clock

daemonVars == <<dir, tasks, cancel, state>>
serverVars == <<slot, workDir, made, request>>
kairosVars == <<serverVars, saved, daemonVars, loop, clock>>

NoLoop == [pc |-> "none", daemon |-> None, cancelled |-> FALSE, next |-> 0,
           pending |-> Never, now |-> Never, todo |-> <<>>, list |-> None, on |-> None]

Idling == [pc |-> "idle", daemon |-> None, dir |-> None]

KairosInit ==
    /\ slot = None /\ made = {}
    /\ workDir \in Project \cup {None}
    /\ saved = [p \in Project |-> <<>>]
    /\ dir = [d \in Daemon |-> None]
    /\ tasks = [d \in Daemon |-> <<>>]
    /\ cancel = [d \in Daemon |-> None]
    /\ state = [d \in Daemon |-> "idle"]
    /\ loop = [l \in Loop |-> NoLoop]
    /\ request = [r \in Request |-> Idling]
    /\ clock = 1

-----------------------------------------------------------------------------
(* handleKairosStart.                                                       *)

Asks(r, step) == request[r].pc = step
Goes(r, step) == request' = [request EXCEPT ![r].pc = step]

(* Is there a daemon? *)
Look(r) ==
    /\ Asks(r, "idle")
    /\ \E l \in Loop : loop[l].pc = "none"
    /\ request' = [request EXCEPT ![r].pc = IF slot = None THEN "make" ELSE "read",
                                  ![r].daemon = slot]
    /\ UNCHANGED <<slot, workDir, made, saved, daemonVars, loop, clock>>

(* NewDaemon, SetBaseDir, SetDaemon. *)
Make(r) ==
    /\ Asks(r, "make")
    /\ \E d \in Daemon \ made :
          /\ made' = made \cup {d}
          /\ slot' = d
          /\ request' = [request EXCEPT ![r].pc = "read", ![r].daemon = d]
    /\ UNCHANGED <<workDir, saved, daemonVars, loop, clock>>

ReadWorkDir(r) ==
    /\ Asks(r, "read")
    /\ request' = [request EXCEPT ![r].pc = "switch", ![r].dir = workDir]
    /\ UNCHANGED <<slot, workDir, made, saved, daemonVars, loop, clock>>

(* loadTasks: without a project nothing. *)
LoadTasks(p) == IF p = None THEN <<>> ELSE saved[p]

(* Daemon.SwitchProject, for the workspace the handler has read. *)
Switch(r) ==
    /\ dir' = [dir EXCEPT ![request[r].daemon] = request[r].dir]
    /\ tasks' = [tasks EXCEPT ![request[r].daemon] = LoadTasks(request[r].dir)]

(* Also when the daemon runs already, and for the project it is in. *)
SwitchProject(r) ==
    /\ Asks(r, "switch") /\ Goes(r, "check")
    /\ Switch(r)
    /\ UNCHANGED <<slot, workDir, made, saved, cancel, state, loop, clock>>

HasGitWatch(list) == \E i \in DOMAIN list : list[i].id = GitWatch

Check(r) ==
    /\ Asks(r, "check")
    /\ Goes(r, IF HasGitWatch(tasks[request[r].daemon]) THEN "start" ELSE "add")
    /\ UNCHANGED <<slot, workDir, made, saved, daemonVars, loop, clock>>

(* saveTasks: without a project nothing is written. *)
SaveTasks(d) == saved' = IF dir[d] = None THEN saved ELSE [saved EXCEPT ![dir[d]] = tasks'[d]]

(* AddTask appends the task, whatever its id, and saves the list. *)
AddTask(d, id) ==
    /\ Len(tasks[d]) < MaxTasks
    /\ tasks' = [tasks EXCEPT ![d] = Append(@, [id |-> id, last |-> Never])]
    /\ SaveTasks(d)

AddGitWatch(r) ==
    /\ Asks(r, "add") /\ Goes(r, "start")
    /\ AddTask(request[r].daemon, GitWatch)
    /\ UNCHANGED <<slot, workDir, made, dir, cancel, state, loop, clock>>

(* Wrong: a daemon that runs is started again. *)
StartAgain(r) ==
    LET d == request[r].daemon
    IN  /\ Asks(r, "start")
        /\ \E l \in Loop :
              /\ loop[l].pc = "none"
              /\ loop' = [loop EXCEPT ![l] = [NoLoop EXCEPT !.pc = "wait", !.daemon = d,
                                                            !.next = clock + Period]]
              /\ cancel' = [cancel EXCEPT ![d] = l]
        /\ request' = [request EXCEPT ![r] = Idling]
        /\ UNCHANGED <<slot, workDir, made, saved, dir, tasks, state, clock>>

(* Start: nothing if the daemon runs, else a loop and its ticker. *)
Start(r) ==
    LET d == request[r].daemon
    IN  /\ Asks(r, "start")
        /\ IF cancel[d] # None
           THEN UNCHANGED <<loop, cancel>>
           ELSE \E l \in Loop :
                  /\ loop[l].pc = "none"
                  /\ loop' = [loop EXCEPT ![l] = [NoLoop EXCEPT !.pc = "wait", !.daemon = d,
                                                                !.next = clock + Period]]
                  /\ cancel' = [cancel EXCEPT ![d] = l]
        /\ request' = [request EXCEPT ![r] = Idling]
        /\ UNCHANGED <<slot, workDir, made, saved, dir, tasks, state, clock>>

HandleStart(r) == \/ Look(r) \/ Make(r) \/ ReadWorkDir(r) \/ SwitchProject(r)
                  \/ Check(r) \/ AddGitWatch(r) \/ Start(r)

-----------------------------------------------------------------------------
(* The other handlers: each is one call under the daemon's mutex.           *)

(* Wrong: the loop is forgotten, not cancelled. *)
StopForgetting ==
    /\ slot # None
    /\ cancel' = [cancel EXCEPT ![slot] = None]
    /\ state' = [state EXCEPT ![slot] = "idle"]
    /\ UNCHANGED <<serverVars, saved, dir, tasks, loop, clock>>

Stop ==
    /\ slot # None
    /\ loop' = IF cancel[slot] = None THEN loop
               ELSE [loop EXCEPT ![cancel[slot]].cancelled = TRUE]
    /\ cancel' = [cancel EXCEPT ![slot] = None]
    /\ state' = [state EXCEPT ![slot] = "idle"]
    /\ UNCHANGED <<serverVars, saved, dir, tasks, clock>>

HandleAddTask(id) ==
    /\ slot # None
    /\ AddTask(slot, id)
    /\ UNCHANGED <<serverVars, dir, cancel, state, loop, clock>>

(* Wrong: the shorter list is not saved. *)
RemoveUnsaved(id) ==
    /\ slot # None
    /\ \E i \in DOMAIN tasks[slot] :
          /\ tasks[slot][i].id = id
          /\ tasks' = [tasks EXCEPT ![slot] = RemoveAt(@, i)]
    /\ UNCHANGED <<serverVars, saved, dir, cancel, state, loop, clock>>

(* RemoveTask: the first task of that id. *)
RemoveTask(id) ==
    /\ slot # None
    /\ \E i \in DOMAIN tasks[slot] :
          /\ tasks[slot][i].id = id /\ \A j \in 1..(i - 1) : tasks[slot][j].id # id
          /\ tasks' = [tasks EXCEPT ![slot] = RemoveAt(@, i)]
    /\ SaveTasks(slot)
    /\ UNCHANGED <<serverVars, dir, cancel, state, loop, clock>>

(* handleSetWorkspace does not tell the daemon. *)
SetWorkspace(p) ==
    /\ workDir # p
    /\ workDir' = p
    /\ UNCHANGED <<slot, made, request, saved, daemonVars, loop, clock>>

(* A project is added: SetWorkDir sets the workspace and, when it has       *)
(* unlocked the server, tells the daemon it found.                          *)
SetWorkDir(r, p) ==
    /\ Asks(r, "idle")
    /\ workDir' = p
    /\ request' = IF slot = None THEN request
                  ELSE [request EXCEPT ![r] = [pc |-> "tell", daemon |-> slot, dir |-> p]]
    /\ UNCHANGED <<slot, made, saved, daemonVars, loop, clock>>

TellDaemon(r) ==
    /\ Asks(r, "tell") /\ request' = [request EXCEPT ![r] = Idling]
    /\ Switch(r)
    /\ UNCHANGED <<slot, workDir, made, saved, cancel, state, loop, clock>>

-----------------------------------------------------------------------------
(* The tick loop.                                                           *)

At(l, step) == loop[l].pc = step

(* The ticker fires and, a tick still waiting, drops this one. *)
Fire(l) ==
    /\ loop[l].pc \notin {"none", "ended"}
    /\ clock >= loop[l].next
    /\ loop' = [loop EXCEPT ![l].next = @ + Period,
                            ![l].pending = IF @ = Never THEN clock ELSE @]
    /\ UNCHANGED <<serverVars, saved, daemonVars, clock>>

(* Wrong: break leaves the select, not the loop. *)
BreakFromSelect(l) ==
    /\ At(l, "wait") /\ loop[l].cancelled
    /\ UNCHANGED kairosVars

(* The select of tickLoop: of a tick and a cancellation either is taken. *)
Ended(l) ==
    /\ At(l, "wait") /\ loop[l].cancelled
    /\ loop' = [loop EXCEPT ![l] = [NoLoop EXCEPT !.pc = "ended", !.cancelled = TRUE,
                                                  !.daemon = loop[l].daemon]]
    /\ UNCHANGED <<serverVars, saved, daemonVars, clock>>

(* Wrong: the tick is taken for the one to come. *)
OnTickAhead(l) ==
    LET d == loop[l].daemon
    IN  /\ At(l, "wait") /\ loop[l].pending # Never
        /\ loop' = [loop EXCEPT ![l].pc = "begin", ![l].now = loop[l].next,
                                ![l].pending = Never,
                                ![l].todo = tasks[d], ![l].list = dir[d]]
        /\ UNCHANGED <<serverVars, saved, daemonVars, clock>>

(* onTick copies the list. *)
OnTick(l) ==
    LET d == loop[l].daemon
    IN  /\ At(l, "wait") /\ loop[l].pending # Never
        /\ loop' = [loop EXCEPT ![l].pc = "begin", ![l].now = loop[l].pending,
                                ![l].pending = Never,
                                ![l].todo = tasks[d], ![l].list = dir[d]]
        /\ UNCHANGED <<serverVars, saved, daemonVars, clock>>

SetState(l, s) == state' = [state EXCEPT ![loop[l].daemon] = s]

(* No tasks: sleep until the next tick. *)
Sleep(l) ==
    /\ At(l, "begin") /\ loop[l].todo = <<>>
    /\ SetState(l, "sleeping")
    /\ loop' = [loop EXCEPT ![l].pc = "wait", ![l].now = Never, ![l].list = None]
    /\ UNCHANGED <<serverVars, saved, dir, tasks, cancel, clock>>

Work(l) ==
    /\ At(l, "begin") /\ loop[l].todo # <<>>
    /\ SetState(l, "working")
    /\ loop' = [loop EXCEPT ![l].pc = "next"]
    /\ UNCHANGED <<serverVars, saved, dir, tasks, cancel, clock>>

IsTaskDue(t, now) == t.last = Never \/ now - t.last > Period

Skip(l) ==
    /\ At(l, "next") /\ loop[l].todo # <<>>
    /\ ~IsTaskDue(Head(loop[l].todo), loop[l].now)
    /\ loop' = [loop EXCEPT ![l].todo = Tail(@)]
    /\ UNCHANGED <<serverVars, saved, daemonVars, clock>>

(* executeTask: RunGitWatch looks at the project the daemon is in by now;   *)
(* for the other tasks the model is asked and its answer awaited.           *)
ExecuteTask(l) ==
    /\ At(l, "next") /\ loop[l].todo # <<>>
    /\ IsTaskDue(Head(loop[l].todo), loop[l].now)
    /\ loop' = [loop EXCEPT ![l].pc = "mark",
                            ![l].on = IF Head(loop[l].todo).id = GitWatch
                                      THEN dir[loop[l].daemon] ELSE loop[l].list]
    /\ UNCHANGED <<serverVars, saved, daemonVars, clock>>

(* LastRun of every task of the daemon that has the id now. *)
MarkRun(l) ==
    LET d == loop[l].daemon
    IN  /\ At(l, "mark")
        /\ tasks' = [tasks EXCEPT ![d] =
              [i \in DOMAIN @ |-> IF @[i].id = Head(loop[l].todo).id
                                  THEN [@[i] EXCEPT !.last = loop[l].now] ELSE @[i]]]
        /\ loop' = [loop EXCEPT ![l].pc = "next", ![l].todo = Tail(@), ![l].on = None]
        /\ UNCHANGED <<serverVars, saved, dir, cancel, state, clock>>

TickDone(l) ==
    /\ At(l, "next") /\ loop[l].todo = <<>>
    /\ SetState(l, "idle")
    /\ loop' = [loop EXCEPT ![l].pc = "wait", ![l].now = Never, ![l].list = None]
    /\ UNCHANGED <<serverVars, saved, dir, tasks, cancel, clock>>

LoopStep(l) == \/ OnTick(l) \/ Sleep(l) \/ Work(l) \/ Skip(l) \/ ExecuteTask(l)
               \/ MarkRun(l) \/ TickDone(l)

Pass ==
    /\ clock < MaxClock
    /\ clock' = clock + 1
    /\ UNCHANGED <<serverVars, saved, daemonVars, loop>>

KairosNext ==
    \/ \E r \in Request : HandleStart(r) \/ TellDaemon(r) \/ \E p \in Project : SetWorkDir(r, p)
    \/ Stop
    \/ \E id \in Custom : HandleAddTask(id)
    \/ \E id \in Id : RemoveTask(id)
    \/ \E p \in Project : SetWorkspace(p)
    \/ \E l \in Loop : Fire(l) \/ Ended(l) \/ LoopStep(l)
    \/ Pass

(* A loop goes on by itself; select takes a case that is ready time and     *)
(* again at some time, since it picks at random.                            *)
KairosSpec == /\ KairosInit /\ [][KairosNext]_kairosVars
              /\ \A l \in Loop : WF_kairosVars(LoopStep(l)) /\ SF_kairosVars(Ended(l))
-----------------------------------------------------------------------------
(* Properties.                                                              *)

KairosTypeOK ==
    /\ slot \in made \cup {None} /\ made \subseteq Daemon
    /\ workDir \in Project \cup {None}
    /\ saved \in [Project -> TaskList]
    /\ dir \in [Daemon -> Project \cup {None}]
    /\ tasks \in [Daemon -> TaskList]
    /\ cancel \in [Daemon -> Loop \cup {None}]
    /\ state \in [Daemon -> {"idle", "sleeping", "working"}]
    /\ \A l \in Loop :
          /\ loop[l].pc \in {"none", "wait", "begin", "next", "mark", "ended"}
          /\ loop[l].daemon \in made \cup {None}
          /\ loop[l].todo \in TaskList
          /\ loop[l].now \in 0..clock /\ loop[l].pending \in 0..clock
    /\ clock \in 1..MaxClock

Live(l) == loop[l].pc \notin {"none", "ended"} /\ ~loop[l].cancelled

(* A daemon has one loop that was not told to end, the one its Stop will    *)
(* cancel, or none (daemon.go:154, "already running").                      *)
OneLoopEach ==
    \A l \in Loop : Live(l) => cancel[loop[l].daemon] = l

(* tasks.json has the tasks of the project's daemon, no more and no fewer:  *)
(* what a switch away and back, or a restart, would bring back.             *)
ListIsSaved ==
    \A d \in made : dir[d] # None =>
        [i \in DOMAIN tasks[d] |-> tasks[d][i].id]
            = [i \in DOMAIN saved[dir[d]] |-> saved[dir[d]][i].id]

(* Two handlers that both find no daemon make one each: the lists of two    *)
(* daemons of one project are not kept in step.                             *)
OneMade == \A d, e \in made : d = e

(* Loops and lists agree with what the daemons were told: each has one loop *)
(* at most, and while there is one daemon its list is the one in tasks.json.*)
KairosSafe == KairosTypeOK /\ OneLoopEach /\ (OneMade => ListIsSaved)

(* A loop that was cancelled ends, whatever it is doing.                    *)
LoopsEnd == \A l \in Loop : loop[l].cancelled ~> loop[l].pc = "ended"

(* daemon.go:168, "Stop halts the daemon", and the server has the daemon    *)
(* (64): once Stop has returned, and while nobody starts it anew, no loop   *)
(* goes on.  It fails when two daemons were made: Stop reaches the last.    *)
StopHalts ==
    slot # None /\ cancel[slot] = None /\ (\A r \in Request : Asks(r, "idle"))
        => \A l \in Loop : ~Live(l)

(* A daemon whose loops have ended does not say that it sleeps or works:    *)
(* Stop made it idle.                                                       *)
StoppedIsIdle ==
    \A d \in made :
        cancel[d] = None /\ (\A l \in Loop : loop[l].daemon = d => At(l, "ended"))
            => state[d] = "idle"

(* README.md:55, "Tasks and memory isolated per workspace": a task of a     *)
(* project is marked as run when it ran for that project.                   *)
MarkedWhereRun ==
    [][\A l \in Loop :
          MarkRun(l) /\ tasks' # tasks => loop[l].on = dir[loop[l].daemon]]_kairosVars

(* daemon.go:358, "Built-in tasks (git-watch): run every tick".             *)
GitWatchEveryTick ==
    [][\A l \in Loop : Skip(l) => Head(loop[l].todo).id # GitWatch]_kairosVars
=============================================================================
