------------------------------ MODULE TaskGraph ------------------------------
(***************************************************************************)
(* The task list of one POST /api/team request and its dependency graph,   *)
(* as internal/agent/team.go sees them: TeamTask (28-43), NewTeam's        *)
(* defaults (70-76) and the two maps ComputeWaves builds from DependsOn     *)
(* (111-123).                                                              *)
(*                                                                         *)
(* Nothing stops a request from naming a task twice, from depending on a   *)
(* name no task has, on itself, or on the same name twice, so a task list  *)
(* is a sequence, and a dependency is an occurrence: an edge <<i, j>> is   *)
(* the j-th entry of the DependsOn list of the i-th task.                  *)
(***************************************************************************)
EXTENDS Integers, FiniteSets, Sequences

CONSTANTS Id,                  \* task ids; their order is that of sort.Strings
          File,                \* paths the workers may write
          Request,             \* the task lists a request may carry
          ConfiguredWaveSize   \* TeamConfig.MaxWaveSize as the caller gave it

(* A file pattern of team.go:33 stands for the set of paths it matches. *)
Task == [id : Id, dependsOn : Seq(Id), files : SUBSET File]

ASSUME IdAssumption == Id \subseteq Nat
ASSUME RequestAssumption == Request \subseteq Seq(Task)
ASSUME WaveSizeAssumption == ConfiguredWaveSize \in Int

MaxWaveSize == IF ConfiguredWaveSize <= 0 THEN 5 ELSE ConfiguredWaveSize

WaveFits(W) == Cardinality(W) <= MaxWaveSize

-----------------------------------------------------------------------------

Ids(ts) == {ts[i].id : i \in DOMAIN ts}

Edges(ts) == UNION {{i} \X DOMAIN ts[i].dependsOn : i \in DOMAIN ts}

Dependent(ts, e)  == ts[e[1]].id
Dependency(ts, e) == ts[e[1]].dependsOn[e[2]]

(* What the tasks called x wait for, and the edges among them that wait for *)
(* something outside the set done: inDegree[x] counts these.                *)
DependsOn(ts, x) ==
    {Dependency(ts, e) : e \in {d \in Edges(ts) : Dependent(ts, d) = x}}

Waiting(ts, x, done) ==
    {e \in Edges(ts) : Dependent(ts, e) = x /\ Dependency(ts, e) \notin done}

(* dependents[id] is a list with one entry per edge out of id. *)
EdgesFrom(ts, id, x) ==
    {e \in Edges(ts) : Dependent(ts, e) = x /\ Dependency(ts, e) = id}

Dependents(ts, id) ==
    {Dependent(ts, e) : e \in {d \in Edges(ts) : Dependency(ts, d) = id}}

(* getTask returns the first task with an id, taskMap keeps the last one. *)
FirstWithId(ts, i) == \A j \in DOMAIN ts : ts[j].id = ts[i].id => i <= j
FirstIndex(ts, x)  == CHOOSE i \in DOMAIN ts : ts[i].id = x /\ FirstWithId(ts, i)
LastWithId(ts, i)  == \A j \in DOMAIN ts : ts[j].id = ts[i].id => j <= i

Scheduled(ws) == UNION {ws[k] : k \in DOMAIN ws}

(* Every task of X waits for a task of X or for a name no task has: a cycle, *)
(* a missing dependency, or tasks behind one. No order of execution exists   *)
(* exactly when some X is stuck.                                             *)
Stuck(ts, X) ==
    /\ X # {}
    /\ \A x \in X : \E d \in DependsOn(ts, x) : d \in X \/ d \notin Ids(ts)

Unschedulable(ts) == \E X \in SUBSET Ids(ts) : Stuck(ts, X)
=============================================================================
