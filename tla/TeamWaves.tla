------------------------------ MODULE TeamWaves ------------------------------
(***************************************************************************)
(* Team.ComputeWaves (internal/agent/team.go:101-171): Kahn's algorithm     *)
(* over the tasks of a request, every level cut into waves of at most       *)
(* MaxWaveSize tasks.  One action per loop body: the map inDegree is built, *)
(* a level is collected, its waves are cut off, its tasks are deleted one   *)
(* by one and their dependents' degrees go down.                            *)
(*                                                                          *)
(* inDegree is a Go map: decrementing a key that was deleted would create   *)
(* it again with -1, and the loop would never empty the map.                *)
(*                                                                          *)
(* A definition marked "Wrong" is no part of the specification: it is a     *)
(* mistake the code could have made, kept to show that a property notices.  *)
(***************************************************************************)
EXTENDS TaskGraph

VARIABLES
    tasks,      \* Team.tasks
    inDegree,   \* the map of the same name
    level,      \* current: the tasks of degree zero still to be deleted
    uncut,      \* the part of current not yet in a wave
    waves,      \* the waves so far, the result
    waveOf,     \* TeamTask.Wave, per task
    wpc         \* where ComputeWaves is; "done" and "error" are its returns

wavesVars == <<tasks, inDegree, level, uncut, waves, waveOf, wpc>>

WavesInit ==
    /\ tasks \in Request
    /\ inDegree = <<>>
    /\ level = {}
    /\ uncut = {}
    /\ waves = <<>>
    /\ waveOf = [i \in DOMAIN tasks |-> 0]
    /\ wpc = "build"

BuildDegrees ==
    /\ wpc = "build"
    /\ inDegree' = [x \in Ids(tasks) |-> Cardinality(Waiting(tasks, x, {}))]
    /\ wpc' = "collect"
    /\ UNCHANGED <<tasks, level, uncut, waves, waveOf>>

(* Wrong: a level one dependency too early. *)
ReadyTooSoon == {x \in DOMAIN inDegree : inDegree[x] <= 1}

Ready == {x \in DOMAIN inDegree : inDegree[x] = 0}

CollectLevel ==
    /\ wpc = "collect"
    /\ Ready # {}
    /\ level' = Ready
    /\ uncut' = Ready
    /\ wpc' = "cut"
    /\ UNCHANGED <<tasks, inDegree, waves, waveOf>>

(* Wrong: an empty level ends the loop without an error, or the error comes  *)
(* with the waves found so far.                                              *)
ReportNothing ==
    /\ wpc = "collect"
    /\ DOMAIN inDegree # {}
    /\ Ready = {}
    /\ wpc' = "done"
    /\ UNCHANGED <<tasks, inDegree, level, uncut, waves, waveOf>>

ReportWithWaves ==
    /\ wpc = "collect"
    /\ DOMAIN inDegree # {}
    /\ Ready = {}
    /\ wpc' = "error"
    /\ UNCHANGED <<tasks, inDegree, level, uncut, waves, waveOf>>

ReportCircular ==
    /\ wpc = "collect"
    /\ DOMAIN inDegree # {}
    /\ Ready = {}
    /\ waves' = <<>>
    /\ wpc' = "error"
    /\ UNCHANGED <<tasks, inDegree, level, uncut, waveOf>>

ReturnWaves ==
    /\ wpc = "collect"
    /\ DOMAIN inDegree = {}
    /\ wpc' = "done"
    /\ UNCHANGED <<tasks, inDegree, level, uncut, waves, waveOf>>

(* Wrong: end := i + MaxWaveSize + 1. *)
LongSlice(S) ==
    /\ S \subseteq uncut
    /\ Cardinality(S) = IF Cardinality(uncut) <= MaxWaveSize
                        THEN Cardinality(uncut) ELSE MaxWaveSize + 1
    /\ \A x \in S, y \in uncut \ S : x < y

(* current[i:end]: the next MaxWaveSize tasks in sort order, or all that are *)
(* left.                                                                     *)
NextSlice(S) ==
    /\ S \subseteq uncut
    /\ Cardinality(S) = IF Cardinality(uncut) < MaxWaveSize
                        THEN Cardinality(uncut) ELSE MaxWaveSize
    /\ \A x \in S, y \in uncut \ S : x < y

CutWave(S) ==
    /\ wpc = "cut"
    /\ NextSlice(S)
    /\ waves' = Append(waves, S)
    /\ waveOf' = [i \in DOMAIN tasks |->
                    IF tasks[i].id \in S /\ LastWithId(tasks, i)
                    THEN Len(waves) ELSE waveOf[i]]
    /\ uncut' = uncut \ S
    /\ wpc' = IF uncut' = {} THEN "delete" ELSE "cut"
    /\ UNCHANGED <<tasks, inDegree, level>>

(* delete(inDegree, id), then inDegree[dep]-- for every entry of the list    *)
(* dependents[id].                                                           *)
Deleted(degree, id) ==
    LET left == DOMAIN degree \ {id}
    IN  [x \in left \cup Dependents(tasks, id) |->
            (IF x \in left THEN degree[x] ELSE 0)
                - Cardinality(EdgesFrom(tasks, id, x))]

DeleteTask(id) ==
    /\ wpc = "delete"
    /\ id \in level
    /\ \A x \in level : id <= x
    /\ inDegree' = Deleted(inDegree, id)
    /\ level' = level \ {id}
    /\ wpc' = IF level' = {} THEN "collect" ELSE "delete"
    /\ UNCHANGED <<tasks, uncut, waves, waveOf>>

WavesNext ==
    \/ BuildDegrees
    \/ CollectLevel
    \/ ReportCircular
    \/ ReturnWaves
    \/ \E S \in SUBSET uncut : CutWave(S)
    \/ \E id \in level : DeleteTask(id)

WavesSpec == WavesInit /\ [][WavesNext]_wavesVars /\ WF_wavesVars(WavesNext)

-----------------------------------------------------------------------------

(* Types of the variables: degrees are never negative and only tasks of the *)
(* request have one.                                                        *)
WavesTypeOK ==
    /\ tasks \in Seq(Task)
    /\ DOMAIN inDegree \subseteq Ids(tasks)
    /\ \A x \in DOMAIN inDegree : inDegree[x] \in Nat
    /\ level \subseteq DOMAIN inDegree
    /\ uncut \subseteq level
    /\ waves \in Seq(SUBSET Ids(tasks))
    /\ waveOf \in [DOMAIN tasks -> Nat]
    /\ wpc \in {"build", "collect", "cut", "delete", "done", "error"}

(* A task is in a wave only if everything it depends on is in an earlier one *)
(* (team.go:34, "task IDs that must complete first").                        *)
DependencyOrder ==
    \A k \in DOMAIN waves : \A x \in waves[k] : \A d \in DependsOn(tasks, x) :
        \E j \in 1..(k - 1) : d \in waves[j]

(* No wave repeats a task of another, none is empty, none exceeds the size   *)
(* the team was configured with (team.go:23 and 143-150).                    *)
WavesDisjointAndBounded ==
    \A k \in DOMAIN waves :
        /\ waves[k] # {}
        /\ Cardinality(waves[k]) <= MaxWaveSize
        /\ \A j \in DOMAIN waves : j # k => waves[j] \cap waves[k] = {}

(* The verdict is right: a schedule is returned exactly for the requests     *)
(* that have one, and then holds every task; the error of team.go:138 means  *)
(* a cycle or a dependency no task of the request provides.                  *)
VerdictRight ==
    /\ wpc = "done"  => ~Unschedulable(tasks) /\ Scheduled(waves) = Ids(tasks)
    /\ wpc = "error" => Unschedulable(tasks) /\ waves = <<>>

(* Deleted tasks are those without a counter; the counter of any other task  *)
(* is the number of its dependency entries that name no deleted task, so no  *)
(* decrement ever hits a deleted key; every deleted task was in a wave, and  *)
(* none of them is part of a cycle or behind a missing dependency.           *)
Deletions == Ids(tasks) \ DOMAIN inDegree

DegreesCount ==
    wpc # "build" =>
        \A x \in DOMAIN inDegree :
            inDegree[x] = Cardinality(Waiting(tasks, x, Deletions))

DependenciesDeleted ==
    wpc # "build" =>
        \A x \in level \cup Deletions : DependsOn(tasks, x) \subseteq Deletions

CursorsAgree ==
    /\ wpc = "build" => inDegree = <<>> /\ waves = <<>>
    /\ wpc \in {"build", "collect", "done"} => level = {}
    /\ wpc = "cut" <=> uncut # {}
    /\ wpc = "delete" => level # {}
    /\ wpc = "done" => DOMAIN inDegree = {}

WavesHoldDeletions ==
    wpc \notin {"build", "error"} =>
        Scheduled(waves) = Deletions \cup (level \ uncut)

DeletionsNotStuck ==
    wpc # "build" =>
        \A X \in SUBSET Ids(tasks) : Stuck(tasks, X) => X \cap Deletions = {}

WavesIndInv ==
    /\ WavesTypeOK
    /\ DegreesCount
    /\ DependenciesDeleted
    /\ CursorsAgree
    /\ WavesHoldDeletions
    /\ DeletionsNotStuck
    /\ DependencyOrder
    /\ WavesDisjointAndBounded
    /\ VerdictRight

(* ComputeWaves keeps its promise: it hands out waves as WaveSchedule may,   *)
(* and ends where that ends.                                                 *)
Schedule == INSTANCE WaveSchedule
    WITH outcome <- IF wpc \in {"done", "error"} THEN wpc ELSE "computing"

ScheduleSafe == Schedule!ScheduleSafety
=============================================================================
