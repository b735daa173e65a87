-------------------------------- MODULE Team --------------------------------
(***************************************************************************)
(* One POST /api/team request from its task list to its "done" event:      *)
(* handleTeamExecute (internal/server/server.go:2010-2032) runs            *)
(* ExecuteWaves, Verify, Summary and Shutdown of internal/agent/team.go;   *)
(* ExecuteWaves runs ComputeWaves (module TeamWaves) and then the waves    *)
(* one after another, a goroutine of executeTask per task, each with a     *)
(* RunLoop goroutine of its own.                                           *)
(*                                                                         *)
(* Shared by all of them: Team.tasks under Team.mu, the mailbox directory, *)
(* and two process globals, FileOwnershipChecker and activeWorkerID        *)
(* (internal/agent/tools.go:118-123), written without any lock.            *)
(*                                                                         *)
(* The agent loop is abstracted to what the team can see of it: it emits   *)
(* events, writes files through ExecuteTool, and ends with a final event   *)
(* ("done" or "error") or silently when its context is cancelled.          *)
(*                                                                         *)
(* A definition marked "Wrong" is a mistake the code could have made, kept *)
(* to show that a property notices; no action uses it.                     *)
(***************************************************************************)
EXTENDS TeamWaves

CONSTANTS EventBudget,   \* bound: events an agent loop emits before it ends
          Crowded        \* the requests beside which another one uses the same
                         \* team name

ASSUME EventBudgetAssumption == EventBudget \in Nat
ASSUME CrowdedAssumption == Crowded \subseteq Request

NoWorker == -1   \* activeWorkerID before any team has run: ""
Foreign  == -2   \* the id of another request's worker
Torn     == -3   \* a string read while it is being written

MaxRetries == 3

VARIABLES
    pc,             \* where the handler's goroutine is
    waveIdx,        \* waves begun
    err,            \* what ExecuteWaves returned
    reqCtx,         \* r.Context(): cancelled when the client goes away
    waveCtx,        \* the wave's context: expired after CycleTimeout
    status,         \* TeamTask.Status, per task
    at,             \* where the executeTask goroutine of a task id is
    loop,           \* the RunLoop goroutine of that worker
    target,         \* the file its tool call is about to write
    outcome,        \* how its RunLoop ended
    emitted,        \* events emitted so far (bounded by EventBudget)
    events,         \* events in innerEventCh
    cancelled,      \* the workers whose own context was cancelled
    workers,        \* workerState.Status of Team.workers
    stopRequested,  \* inboxes with an unread shutdown_request
    notices,        \* the lead's inbox: the last idle_notify of each worker
    checker,        \* FileOwnershipChecker: nil, this team's, another's
    activeWorkerID, \* the global of the same name
    verifyCmd,      \* a verification command was configured
    attempt,        \* Verify's loop counter
    verifyRuns,     \* how often the command ran
    verdict         \* what Verify returned

loopVars   == <<loop, target, outcome, emitted>>
workerVars == <<at, events, cancelled, workers, stopRequested, notices>>
ownVars    == <<checker, activeWorkerID>>
verifyVars == <<verifyCmd, attempt, verifyRuns, verdict>>
mainVars   == <<pc, waveIdx, err>>
ctxVars    == <<reqCtx, waveCtx>>
teamVars   == <<wavesVars, mainVars, ctxVars, status, loopVars, workerVars,
                ownVars, verifyVars>>

-----------------------------------------------------------------------------

Workers == Ids(tasks)

(* getTask(id): the first task with the id. *)
TaskOf(x) == FirstIndex(tasks, x)

(* Wrong: a worker context not derived from the wave's. *)
OwnCtxErr(x) == x \in cancelled

(* workerCtx.Err() # nil: the request, the wave or the worker is cancelled. *)
CtxErr(x) == reqCtx = "cancelled" \/ waveCtx = "expired" \/ x \in cancelled

Wave == IF waveIdx \in DOMAIN waves THEN waves[waveIdx] ELSE {}

TeamInit ==
    /\ WavesInit
    /\ pc = "compute" /\ waveIdx = 0 /\ err = "none"
    /\ reqCtx = "live" /\ waveCtx = "live"
    /\ status = [i \in DOMAIN tasks |-> "pending"]
    /\ at = [x \in Workers |-> "none"]
    /\ loop = [x \in Workers |-> "off"]
    /\ target \in [Workers -> {"none"}]
    /\ outcome = [x \in Workers |-> "none"]
    /\ emitted = [x \in Workers |-> 0]
    /\ events = [x \in Workers |-> 0]
    /\ cancelled = {}
    /\ workers = [x \in Workers |-> "none"]
    /\ stopRequested = {}
    /\ notices = [x \in Workers |-> "none"]
    /\ checker = "nil" /\ activeWorkerID = NoWorker
    /\ verifyCmd \in BOOLEAN
    /\ attempt = 0 /\ verifyRuns = 0 /\ verdict = "none"

-----------------------------------------------------------------------------
(* ExecuteWaves.                                                            *)

ComputeWaves ==
    /\ pc = "compute"
    /\ WavesNext
    /\ UNCHANGED <<mainVars, ctxVars, status, loopVars, workerVars, ownVars,
                   verifyVars>>

WavesComputed ==
    /\ pc = "compute"
    /\ wpc \in {"done", "error"}
    /\ pc' = IF wpc = "done" THEN "nextWave" ELSE "verify"
    /\ err' = IF wpc = "done" THEN "none" ELSE "circular"
    /\ UNCHANGED <<wavesVars, waveIdx, ctxVars, status, loopVars, workerVars,
                   ownVars, verifyVars>>

(* Wrong: the previous wave is started again. *)
BeginWaveOffByOne ==
    /\ pc = "nextWave"
    /\ waveIdx < Len(waves)
    /\ waveIdx' = waveIdx + 1
    /\ waveCtx' = "live"
    /\ LET W == waves[IF waveIdx = 0 THEN 1 ELSE waveIdx]
       IN  at' = [x \in Workers |-> IF x \in W THEN "spawned" ELSE at[x]]
    /\ pc' = "wait"
    /\ UNCHANGED <<wavesVars, err, reqCtx, status, loopVars, events,
                   cancelled, workers, stopRequested, notices, ownVars,
                   verifyVars>>

(* A fresh timeout context and one goroutine per task.  The context of the  *)
(* request is not looked at between waves.                                  *)
BeginWave ==
    /\ pc = "nextWave"
    /\ waveIdx < Len(waves)
    /\ waveIdx' = waveIdx + 1
    /\ waveCtx' = "live"
    /\ at' = [x \in Workers |-> IF x \in waves[waveIdx + 1] THEN "spawned"
                                                            ELSE at[x]]
    /\ pc' = "wait"
    /\ UNCHANGED <<wavesVars, err, reqCtx, status, loopVars, events,
                   cancelled, workers, stopRequested, notices, ownVars,
                   verifyVars>>

AllWavesDone ==
    /\ pc = "nextWave"
    /\ waveIdx = Len(waves)
    /\ pc' = "verify"
    /\ UNCHANGED <<wavesVars, waveIdx, err, ctxVars, status, loopVars,
                   workerVars, ownVars, verifyVars>>

(* Wrong: on to the next wave without the check, or when any task of this   *)
(* one completed, or as soon as the wave's context has expired.             *)
WaitWaveOnly ==
    /\ pc = "wait"
    /\ \A x \in Wave : at[x] = "ended"
    /\ pc' = "nextWave"
    /\ UNCHANGED <<wavesVars, waveIdx, err, ctxVars, status, loopVars,
                   workerVars, ownVars, verifyVars>>

WaitWaveForAny ==
    /\ pc = "wait"
    /\ \A x \in Wave : at[x] = "ended"
    /\ IF \E x \in Wave : status[TaskOf(x)] = "completed"
       THEN pc' = "nextWave" /\ UNCHANGED err
       ELSE pc' = "verify" /\ err' = "wave"
    /\ UNCHANGED <<wavesVars, waveIdx, ctxVars, status, loopVars, workerVars,
                   ownVars, verifyVars>>

WaitWaveOrTimeout ==
    /\ pc = "wait"
    /\ waveCtx = "expired" \/ \A x \in Wave : at[x] = "ended"
    /\ IF \A x \in Wave : status[TaskOf(x)] = "completed"
       THEN pc' = "nextWave" /\ UNCHANGED err
       ELSE pc' = "verify" /\ err' = "wave"
    /\ UNCHANGED <<wavesVars, waveIdx, ctxVars, status, loopVars, workerVars,
                   ownVars, verifyVars>>

(* wg.Wait, then the check that every task of the wave completed. *)
WaitWave ==
    /\ pc = "wait"
    /\ \A x \in Wave : at[x] = "ended"
    /\ IF \A x \in Wave : status[TaskOf(x)] = "completed"
       THEN pc' = "nextWave" /\ UNCHANGED err
       ELSE pc' = "verify" /\ err' = "wave"
    /\ UNCHANGED <<wavesVars, waveIdx, ctxVars, status, loopVars, workerVars,
                   ownVars, verifyVars>>

-----------------------------------------------------------------------------
(* executeTask, one goroutine per task of the wave.                         *)

Claim(x) ==
    /\ at[x] = "spawned"
    /\ status' = [status EXCEPT ![TaskOf(x)] = "running"]
    /\ workers' = [workers EXCEPT ![x] = "running"]
    /\ cancelled' = cancelled \ {x}
    /\ at' = [at EXCEPT ![x] = "claimed"]
    /\ UNCHANGED <<wavesVars, mainVars, ctxVars, loopVars, events,
                   stopRequested, notices, ownVars, verifyVars>>

(* The two globals are assigned and the agent loop is started. *)
Arm(x) ==
    /\ at[x] = "claimed"
    /\ checker' = "this"
    /\ activeWorkerID' = x
    /\ loop' = [loop EXCEPT ![x] = "thinking"]
    /\ at' = [at EXCEPT ![x] = "draining"]
    /\ UNCHANGED <<wavesVars, mainVars, ctxVars, status, target, outcome,
                   emitted, events, cancelled, workers, stopRequested, notices,
                   verifyVars>>

(* One event is drained, then the worker's inbox is peeked at for a         *)
(* shutdown request (which stays unread).                                   *)
Drain(x) ==
    /\ at[x] = "draining"
    /\ events[x] > 0
    /\ events' = [events EXCEPT ![x] = @ - 1]
    /\ cancelled' = cancelled \cup ({x} \cap stopRequested)
    /\ UNCHANGED <<wavesVars, mainVars, ctxVars, status, loopVars, at, workers,
                   stopRequested, notices, ownVars, verifyVars>>

(* Wrong: no else branch at team.go:348. *)
SettleFailures(x) ==
    /\ at[x] = "draining"
    /\ loop[x] = "ended"
    /\ events[x] = 0
    /\ status' = [status EXCEPT ![TaskOf(x)] = IF CtxErr(x) THEN "failed" ELSE @]
    /\ workers' = [workers EXCEPT ![x] = "idle"]
    /\ at' = [at EXCEPT ![x] = "settled"]
    /\ UNCHANGED <<wavesVars, mainVars, ctxVars, loopVars, events, cancelled,
                   stopRequested, notices, ownVars, verifyVars>>

(* The channel is closed and empty: the task's status is decided by the     *)
(* context alone.                                                           *)
Settle(x) ==
    /\ at[x] = "draining"
    /\ loop[x] = "ended"
    /\ events[x] = 0
    /\ status' = [status EXCEPT ![TaskOf(x)] =
                    IF CtxErr(x) THEN "failed" ELSE "completed"]
    /\ workers' = [workers EXCEPT ![x] = "idle"]
    /\ at' = [at EXCEPT ![x] = "settled"]
    /\ UNCHANGED <<wavesVars, mainVars, ctxVars, loopVars, events, cancelled,
                   stopRequested, notices, ownVars, verifyVars>>

(* The idle notification replaces the worker's previous one; wg.Done. *)
Notify(x) ==
    /\ at[x] = "settled"
    /\ notices' = [notices EXCEPT ![x] = status[TaskOf(x)]]
    /\ at' = [at EXCEPT ![x] = "ended"]
    /\ UNCHANGED <<wavesVars, mainVars, ctxVars, status, loopVars, events,
                   cancelled, workers, stopRequested, ownVars, verifyVars>>

WorkerStep(x) == Claim(x) \/ Arm(x) \/ Drain(x) \/ Settle(x) \/ Notify(x)

-----------------------------------------------------------------------------
(* RunLoop, as far as the team can see it.                                  *)

(* CheckFileOwnership: no task that is running for someone else owns f. *)
CheckFileOwnership(workerID, f) ==
    \A i \in DOMAIN tasks :
        tasks[i].id # workerID /\ status[i] = "running" => f \notin tasks[i].files

(* Readers and writers of activeWorkerID do not synchronise: while a worker *)
(* assigns it, a reader finds the old string, the new one, or a mixture.    *)
SeenWorkerIDs ==
    LET writing == {y \in Workers : at[y] = "claimed"}
    IN  {activeWorkerID} \cup writing
            \cup (IF writing = {} \/ activeWorkerID = NoWorker THEN {} ELSE {Torn})

WriteAllowed(seen, f) ==
    \/ checker = "nil"
    \/ seen = NoWorker
    \/ checker = "this" /\ CheckFileOwnership(seen, f)
    \/ checker = "other"

WriteDenied(seen, f) ==
    /\ seen # NoWorker
    /\ \/ checker = "this" /\ ~CheckFileOwnership(seen, f)
       \/ checker = "other"

Emit(x) ==
    /\ emitted' = [emitted EXCEPT ![x] = @ + 1]
    /\ events' = [events EXCEPT ![x] = @ + 1]

LoopText(x) ==
    /\ loop[x] = "thinking"
    /\ emitted[x] < EventBudget
    /\ Emit(x)
    /\ UNCHANGED <<wavesVars, mainVars, ctxVars, status, loop, target, outcome,
                   at, cancelled, workers, stopRequested, notices, ownVars,
                   verifyVars>>

(* ExecuteTool on Write or Edit: the check and the write are two steps. *)
BeginWrite(x, f) ==
    /\ loop[x] = "thinking"
    /\ emitted[x] < EventBudget
    /\ \E seen \in SeenWorkerIDs : WriteAllowed(seen, f)
    /\ loop' = [loop EXCEPT ![x] = "writing"]
    /\ target' = [target EXCEPT ![x] = f]
    /\ UNCHANGED <<wavesVars, mainVars, ctxVars, status, outcome, emitted,
                   workerVars, ownVars, verifyVars>>

RefuseWrite(x, f) ==
    /\ loop[x] = "thinking"
    /\ emitted[x] < EventBudget
    /\ \E seen \in SeenWorkerIDs : WriteDenied(seen, f)
    /\ Emit(x)
    /\ UNCHANGED <<wavesVars, mainVars, ctxVars, status, loop, target, outcome,
                   at, cancelled, workers, stopRequested, notices, ownVars,
                   verifyVars>>

FinishWrite(x) ==
    /\ loop[x] = "writing"
    /\ loop' = [loop EXCEPT ![x] = "thinking"]
    /\ target' = [target EXCEPT ![x] = "none"]
    /\ Emit(x)
    /\ UNCHANGED <<wavesVars, mainVars, ctxVars, status, outcome, at, cancelled,
                   workers, stopRequested, notices, ownVars, verifyVars>>

(* The loop ends: the model stopped asking for tools ("done"), three calls  *)
(* failed or 25 iterations were used ("error"), or the context was          *)
(* cancelled while it waited to retry, which emits nothing.                 *)
EndLoop(x, how) ==
    /\ loop[x] = "thinking"
    /\ how = "cancelled" => CtxErr(x)
    /\ loop' = [loop EXCEPT ![x] = "ended"]
    /\ outcome' = [outcome EXCEPT ![x] = how]
    /\ events' = [events EXCEPT ![x] = IF how = "cancelled" THEN @ ELSE @ + 1]
    /\ UNCHANGED <<wavesVars, mainVars, ctxVars, status, target, emitted, at,
                   cancelled, workers, stopRequested, notices, ownVars,
                   verifyVars>>

LoopEnds(x) == \E how \in {"done", "error", "cancelled"} : EndLoop(x, how)

LoopStep(x) ==
    \/ LoopText(x)
    \/ \E f \in File : BeginWrite(x, f) \/ RefuseWrite(x, f)
    \/ FinishWrite(x)
    \/ LoopEnds(x)

-----------------------------------------------------------------------------
(* Verify, Shutdown and the end of the handler.                             *)

SkipVerify ==
    /\ pc = "verify" /\ ~verifyCmd
    /\ pc' = "shutdown"
    /\ UNCHANGED <<wavesVars, waveIdx, err, ctxVars, status, loopVars,
                   workerVars, ownVars, verifyVars>>

(* One turn of the loop at team.go:411: give up if the client is gone, else *)
(* run the command.                                                         *)
RunVerify(ok) ==
    /\ pc = "verify" /\ verifyCmd
    /\ IF reqCtx = "cancelled"
       THEN /\ verdict' = "cancelled" /\ pc' = "shutdown"
            /\ UNCHANGED <<attempt, verifyRuns>>
       ELSE /\ attempt' = attempt + 1
            /\ verifyRuns' = verifyRuns + 1
            /\ IF ok THEN verdict' = "passed" /\ pc' = "shutdown"
               ELSE /\ pc' = IF attempt' < MaxRetries THEN "retryWait"
                                                      ELSE "lastRun"
                    /\ UNCHANGED verdict
    /\ UNCHANGED <<wavesVars, waveIdx, err, ctxVars, status, loopVars,
                   workerVars, ownVars, verifyCmd>>

RetryWait ==
    /\ pc = "retryWait"
    /\ \/ pc' = "verify" /\ UNCHANGED verdict
       \/ /\ reqCtx = "cancelled"
          /\ pc' = "shutdown" /\ verdict' = "cancelled"
    /\ UNCHANGED <<wavesVars, waveIdx, err, ctxVars, status, loopVars,
                   workerVars, ownVars, verifyCmd, attempt, verifyRuns>>

(* After the loop the command is run once more for its output only. *)
LastRun ==
    /\ pc = "lastRun"
    /\ verifyRuns' = verifyRuns + 1
    /\ verdict' = "failed"
    /\ pc' = "shutdown"
    /\ UNCHANGED <<wavesVars, waveIdx, err, ctxVars, status, loopVars,
                   workerVars, ownVars, verifyCmd, attempt>>

SendShutdown ==
    /\ pc = "shutdown"
    /\ stopRequested' = stopRequested \cup {x \in Workers : workers[x] # "none"}
    /\ pc' = "cancelAll"
    /\ UNCHANGED <<wavesVars, waveIdx, err, ctxVars, status, loopVars, at,
                   events, cancelled, workers, notices, ownVars, verifyVars>>

CancelAll ==
    /\ pc = "cancelAll"
    /\ cancelled' = cancelled \cup {x \in Workers : workers[x] # "none"}
    /\ workers' = [x \in Workers |-> IF workers[x] = "none" THEN "none"
                                                            ELSE "shutdown"]
    /\ stopRequested' = {}
    /\ notices' = [x \in Workers |-> "none"]
    /\ pc' = "done"
    /\ UNCHANGED <<wavesVars, waveIdx, err, ctxVars, status, loopVars, at,
                   events, ownVars, verifyVars>>

MainStep ==
    \/ ComputeWaves \/ WavesComputed \/ BeginWave \/ AllWavesDone \/ WaitWave
    \/ SkipVerify \/ (\E ok \in BOOLEAN : RunVerify(ok)) \/ RetryWait \/ LastRun
    \/ SendShutdown \/ CancelAll

-----------------------------------------------------------------------------
(* The environment: the client, the wave's timer, and another request whose *)
(* team has the same name, hence the same mailbox directory and, through    *)
(* equal task ids, the same inboxes.                                        *)

Disconnect ==
    /\ reqCtx = "live" /\ pc # "done"
    /\ reqCtx' = "cancelled"
    /\ UNCHANGED <<wavesVars, mainVars, waveCtx, status, loopVars,
                   workerVars, ownVars, verifyVars>>

(* Wrong: a wave context without a deadline. *)
NoWaveTimeout == FALSE /\ UNCHANGED teamVars

WaveTimeout ==
    /\ pc = "wait" /\ waveCtx = "live"
    /\ waveCtx' = "expired"
    /\ UNCHANGED <<wavesVars, mainVars, reqCtx, status, loopVars, workerVars,
                   ownVars, verifyVars>>

OtherTeamArms ==
    /\ tasks \in Crowded /\ pc # "done"
    /\ checker' = "other"
    /\ activeWorkerID' = Foreign
    /\ UNCHANGED <<wavesVars, mainVars, ctxVars, status, loopVars, workerVars,
                   verifyVars>>

OtherTeamShutsDown(S) ==
    /\ tasks \in Crowded /\ pc # "done"
    /\ stopRequested' = stopRequested \cup S
    /\ UNCHANGED <<wavesVars, mainVars, ctxVars, status, loopVars, at, events,
                   cancelled, workers, notices, ownVars, verifyVars>>

OtherTeamClears ==
    /\ tasks \in Crowded /\ pc # "done"
    /\ stopRequested' = {}
    /\ notices' = [x \in Workers |-> "none"]
    /\ UNCHANGED <<wavesVars, mainVars, ctxVars, status, loopVars, at, events,
                   cancelled, workers, ownVars, verifyVars>>

OtherTeam == \/ OtherTeamArms
             \/ OtherTeamShutsDown(Workers)
             \/ OtherTeamClears

Finished == pc = "done" /\ UNCHANGED teamVars

TeamNext ==
    \/ MainStep
    \/ \E x \in Workers : WorkerStep(x) \/ LoopStep(x)
    \/ Disconnect \/ WaveTimeout \/ OtherTeam
    \/ Finished

(* Goroutines that can run do run; a tool call returns; the wave's timer    *)
(* fires; an agent loop whose context is cancelled ends, because its model  *)
(* calls carry that context.  Nothing makes a loop end otherwise: a model   *)
(* may stream for ever.                                                     *)
Fairness ==
    /\ WF_teamVars(MainStep)
    /\ WF_teamVars(WaveTimeout)
    /\ \A x \in Id :
          /\ WF_teamVars(x \in Workers /\ WorkerStep(x))
          /\ WF_teamVars(x \in Workers /\ FinishWrite(x))
          /\ WF_teamVars(x \in Workers /\ CtxErr(x) /\ LoopEnds(x))

TeamSpec == TeamInit /\ [][TeamNext]_teamVars /\ Fairness

-----------------------------------------------------------------------------
(* Properties.                                                              *)

Started(i) == status[i] # "pending"

TeamTypeOK ==
    /\ WavesTypeOK
    /\ pc \in {"compute", "nextWave", "wait", "verify", "retryWait", "lastRun",
               "shutdown", "cancelAll", "done"}
    /\ waveIdx \in Nat /\ waveIdx <= Len(waves)
    /\ err \in {"none", "circular", "wave"}
    /\ reqCtx \in {"live", "cancelled"} /\ waveCtx \in {"live", "expired"}
    /\ status \in [DOMAIN tasks -> {"pending", "running", "completed", "failed"}]
    /\ at \in [Workers -> {"none", "spawned", "claimed", "draining", "settled",
                           "ended"}]
    /\ loop \in [Workers -> {"off", "thinking", "writing", "ended"}]
    /\ target \in [Workers -> File \cup {"none"}]
    /\ outcome \in [Workers -> {"none", "done", "error", "cancelled"}]
    /\ emitted \in [Workers -> Nat]
    /\ events \in [Workers -> Nat]
    /\ cancelled \subseteq Workers
    /\ workers \in [Workers -> {"none", "running", "idle", "shutdown"}]
    /\ stopRequested \subseteq Workers
    /\ notices \in [Workers -> {"none", "completed", "failed"}]
    /\ checker \in {"nil", "this", "other"}
    /\ activeWorkerID \in Workers \cup {NoWorker, Foreign}
    /\ verifyCmd \in BOOLEAN
    /\ attempt \in Nat /\ verifyRuns \in Nat
    /\ verdict \in {"none", "passed", "failed", "cancelled"}

(* The wave barrier (team.go:213-246): once a task of a wave has started,   *)
(* every task of every earlier wave has completed.                          *)
EarlierWavesCompleted ==
    \A k \in DOMAIN waves : \A x \in waves[k] :
        Started(TaskOf(x)) =>
            \A j \in 1..(k - 1) : \A y \in waves[j] :
                status[TaskOf(y)] = "completed"

(* A task starts only after the tasks it depends on have completed          *)
(* (team.go:34): the schedule and the barrier together.                     *)
DependenciesCompleted ==
    \A i \in DOMAIN tasks : Started(i) =>
        \A d \in DependsOn(tasks, tasks[i].id) :
            d \in Workers /\ status[TaskOf(d)] = "completed"

(* The verification command and the shutdown run when no goroutine of a     *)
(* worker and no agent loop is left that could still change the files.      *)
VerifiedAlone ==
    pc \notin {"compute", "nextWave", "wait"} =>
        \A x \in Workers : at[x] \in {"none", "ended"}
                            /\ loop[x] \in {"off", "ended"}

(* What ExecuteWaves returned is what happened: success means every task    *)
(* name completed; a failed wave has a failed task and none after it ran;   *)
(* an unorderable request ran nothing.                                      *)
ResultTrue ==
    pc \notin {"compute", "nextWave", "wait"} =>
        /\ err = "none" => \A x \in Workers : status[TaskOf(x)] = "completed"
        /\ err = "wave" =>
              /\ \E x \in Wave : status[TaskOf(x)] = "failed"
              /\ \A k \in (waveIdx + 1)..Len(waves) : \A x \in waves[k] :
                    ~Started(TaskOf(x))
        /\ err = "circular" => \A i \in DOMAIN tasks : ~Started(i)

(* The inductive invariant behind these: where a worker is, what its agent  *)
(* loop does and what its task's status says always agree; only the current *)
(* wave's workers are active, and only while ExecuteWaves waits for them.   *)
StatusAgrees ==
    /\ \A x \in Workers :
          /\ at[x] \in {"claimed", "draining"} => status[TaskOf(x)] = "running"
          /\ at[x] \in {"settled", "ended"} =>
                status[TaskOf(x)] \in {"completed", "failed"} /\ loop[x] = "ended"
          /\ at[x] \in {"none", "spawned", "claimed"} <=> loop[x] = "off"
    /\ \A i \in DOMAIN tasks : Started(i) =>
          at[tasks[i].id] \notin {"none", "spawned"} /\ i = TaskOf(tasks[i].id)

OnlyBegunWavesRun ==
    \A x \in Workers : at[x] # "none" => \E k \in 1..waveIdx : x \in waves[k]

OnlyCurrentWaveActive ==
    \A x \in Workers :
        at[x] \notin {"none", "ended"} => pc = "wait" /\ x \in Wave

FinishedWavesCompleted ==
    \A k \in 1..waveIdx : k < waveIdx \/ pc = "nextWave" =>
        \A x \in waves[k] : at[x] = "ended" /\ status[TaskOf(x)] = "completed"

PhasesAgree ==
    /\ pc = "compute" => waveIdx = 0
    /\ pc \in {"compute", "nextWave", "wait"} => err = "none"
    /\ pc # "compute" => wpc \in {"done", "error"}
    /\ pc \in {"nextWave", "wait"} => wpc = "done"
    /\ pc = "wait" => waveIdx > 0

TeamIndInv ==
    /\ WavesIndInv
    /\ TeamTypeOK
    /\ StatusAgrees
    /\ OnlyBegunWavesRun
    /\ OnlyCurrentWaveActive
    /\ FinishedWavesCompleted
    /\ PhasesAgree
    /\ ResultTrue

(* No more agents run at once than team.go:23 allows, over all waves. *)
RunningWithinLimit ==
    Cardinality({x \in Workers : at[x] \in {"claimed", "draining"}
                                 \/ loop[x] \in {"thinking", "writing"}})
        <= MaxWaveSize

(* No task is run twice: a settled status is final, and a goroutine starts  *)
(* only for a task that is still pending.                                   *)
RunsAtMostOnce ==
    [][/\ \A i \in DOMAIN tasks :
             status[i] \in {"completed", "failed"} => status'[i] = status[i]
       /\ \A x \in Workers :
             at[x] # "spawned" /\ at'[x] = "spawned" => ~Started(TaskOf(x))]_teamVars

(* Once the client is gone nothing completes any more. *)
NothingCompletesAfterDisconnect ==
    [][\A i \in DOMAIN tasks :
          reqCtx = "cancelled" /\ status'[i] = "completed"
            => status[i] = "completed"]_teamVars

(* Every request ends, whatever the models do: the wave's timeout cancels   *)
(* agents that would stream for ever (team.go:227).                         *)
EveryRequestEnds == <>(pc = "done")

AllStarted == \A y \in Workers : at[y] # "claimed"

(* README.md:36, "File ownership: Hard enforcement at ExecuteTool level":   *)
(* once the workers have started, ExecuteTool lets none of them write a     *)
(* file that a running task of another worker owns.                         *)
OwnershipEnforced ==
    [][AllStarted => \A x \in Workers : \A f \in File :
          ~CheckFileOwnership(x, f) => ~BeginWrite(x, f)]_teamVars

(* tools.go:122, "activeWorkerID is set per-goroutine to identify the       *)
(* current worker": a worker is never refused a file that no other running  *)
(* task owns.                                                               *)
OwnFilesWritable ==
    [][AllStarted => \A x \in Workers : \A f \in tasks[TaskOf(x)].files :
          CheckFileOwnership(x, f) => ~RefuseWrite(x, f)]_teamVars

(* team.go:34, "task IDs that must complete first": a task runs only after  *)
(* the agents of its dependencies have finished their work.                 *)
DependenciesDone ==
    \A i \in DOMAIN tasks : Started(i) =>
        \A d \in DependsOn(tasks, tasks[i].id) : outcome[d] = "done"

(* team.go:404, "retry loop (up to maxRetries)". *)
VerifyWithinRetries == verifyRuns <= MaxRetries
=============================================================================
