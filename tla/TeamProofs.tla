----------------------------- MODULE TeamProofs -----------------------------
(***************************************************************************)
(* Proofs about ComputeWaves, for every request, set of names and wave     *)
(* size, and about a team request for every request, team size and budget  *)
(* of events, whatever the client, the timers, the models and other        *)
(* requests do.                                                            *)
(* And about the router of the messages teams send, for any agents,        *)
(* messages and channels.                                                  *)
(*                                                                         *)
(* The inductive invariant of ComputeWaves says what the counter of a task *)
(* stands for: the number of its dependency entries whose task has not     *)
(* been deleted yet.  It comes into that of a request by WavesStepInv.     *)
(***************************************************************************)
EXTENDS Team, MessageRouter, FiniteSetTheorems, WellFoundedInduction, TLAPS

-----------------------------------------------------------------------------
(* Finiteness of a request's ids and dependencies, and the arithmetic of    *)
(* deleting one task.                                                       *)

(* A task list names finitely many tasks. *)
LEMMA IdsFinite ==
  ASSUME NEW ts \in Seq(Task)
  PROVE  IsFiniteSet(Ids(ts))
<1> DEFINE f == [i \in DOMAIN ts |-> ts[i].id]
<1>1. IsFiniteSet(DOMAIN ts)
  BY FS_Interval, DOMAIN ts = 1..Len(ts), Len(ts) \in Nat
<1>2. f \in Surjection(DOMAIN ts, Ids(ts))
  BY DEF Surjection, Ids
<1> QED  BY <1>1, <1>2, FS_Surjection

(* It has finitely many dependency entries. *)
LEMMA EdgesFinite ==
  ASSUME NEW ts \in Seq(Task)
  PROVE  IsFiniteSet(Edges(ts))
<1> DEFINE f == [i \in DOMAIN ts |-> {i} \X DOMAIN ts[i].dependsOn]
           T == {{i} \X DOMAIN ts[i].dependsOn : i \in DOMAIN ts}
<1>1. IsFiniteSet(DOMAIN ts)
  BY FS_Interval, DOMAIN ts = 1..Len(ts), Len(ts) \in Nat
<1>2. f \in Surjection(DOMAIN ts, T)
  BY DEF Surjection
<1>3. IsFiniteSet(T)
  BY <1>1, <1>2, FS_Surjection
<1>4. ASSUME NEW i \in DOMAIN ts
      PROVE  IsFiniteSet({i} \X DOMAIN ts[i].dependsOn)
  <2>1. ts[i].dependsOn \in Seq(Id)
    <3>1. ts[i] \in Task
      OBVIOUS
    <3> QED  BY <3>1 DEF Task
  <2>2. IsFiniteSet(DOMAIN ts[i].dependsOn)
    BY <2>1, FS_Interval, DOMAIN ts[i].dependsOn = 1..Len(ts[i].dependsOn),
       Len(ts[i].dependsOn) \in Nat
  <2> QED  BY <2>2, FS_Singleton, FS_Product
<1>5. \A S \in T : IsFiniteSet(S)
  BY <1>4
<1> QED  BY <1>3, <1>5, FS_UNION DEF Edges

(* Deleting id takes from every counter the number of entries naming id. *)
LEMMA DeletionCount ==
  ASSUME NEW ts \in Seq(Task), NEW done, NEW id, id \notin done, NEW x
  PROVE  /\ Cardinality(Waiting(ts, x, done)) \in Nat
         /\ Cardinality(EdgesFrom(ts, id, x)) \in Nat
         /\ Cardinality(Waiting(ts, x, done \cup {id})) =
              Cardinality(Waiting(ts, x, done))
                - Cardinality(EdgesFrom(ts, id, x))
<1> DEFINE before == Waiting(ts, x, done)
           gone   == EdgesFrom(ts, id, x)
<1>1. IsFiniteSet(before) /\ IsFiniteSet(gone)
  BY EdgesFinite, FS_Subset DEF Waiting, EdgesFrom
<1>2. Waiting(ts, x, done \cup {id}) = before \ gone
  BY DEF Waiting, EdgesFrom
<1>3. before \cap gone = gone
  BY DEF Waiting, EdgesFrom
<1> HIDE DEF before, gone
<1>4. Cardinality(before \ gone) = Cardinality(before) - Cardinality(gone)
  BY <1>1, <1>3, FS_Difference
<1>5. Cardinality(before) \in Nat /\ Cardinality(gone) \in Nat
  BY <1>1, FS_CardinalityType
<1> QED  BY <1>2, <1>4, <1>5 DEF before, gone

(* A counter is zero exactly when everything its task waits for is done. *)
LEMMA ZeroMeansReady ==
  ASSUME NEW ts \in Seq(Task), NEW done, NEW x
  PROVE  /\ Cardinality(Waiting(ts, x, done)) \in Nat
         /\ Cardinality(Waiting(ts, x, done)) = 0
              <=> DependsOn(ts, x) \subseteq done
<1>1. IsFiniteSet(Waiting(ts, x, done))
  BY EdgesFinite, FS_Subset DEF Waiting
<1>2. Waiting(ts, x, done) = {} <=> DependsOn(ts, x) \subseteq done
  BY DEF Waiting, DependsOn
<1> QED  BY <1>1, <1>2, FS_EmptySet, FS_CardinalityType

(* Appending a wave schedules its tasks and nothing else. *)
LEMMA AppendSchedules ==
  ASSUME NEW U, NEW ws \in Seq(U), NEW S \in U
  PROVE  Scheduled(Append(ws, S)) = Scheduled(ws) \cup S
<1>1. /\ DOMAIN Append(ws, S) = DOMAIN ws \cup {Len(ws) + 1}
      /\ \A k \in DOMAIN ws : Append(ws, S)[k] = ws[k]
      /\ Append(ws, S)[Len(ws) + 1] = S
  OBVIOUS
<1>2. ASSUME NEW x
      PROVE  x \in Scheduled(Append(ws, S)) <=> x \in Scheduled(ws) \cup S
  BY <1>1, Zenon DEF Scheduled
<1> QED  BY <1>2, Zenon

(* The next slice of a level is a wave within bounds. *)
LEMMA SliceBounds ==
  ASSUME WavesTypeOK, uncut # {}, NEW S, NextSlice(S)
  PROVE  /\ S # {}
         /\ Cardinality(S) <= MaxWaveSize
<1>1. IsFiniteSet(uncut)
  <2>1. tasks \in Seq(Task) /\ uncut \subseteq Ids(tasks)
    BY DEF WavesTypeOK
  <2> QED  BY <2>1, IdsFinite, FS_Subset
<1>2. Cardinality(uncut) \in Nat /\ Cardinality(uncut) # 0
  BY <1>1, FS_EmptySet, FS_CardinalityType
<1>3. MaxWaveSize \in Nat /\ MaxWaveSize > 0
  BY WaveSizeAssumption DEF MaxWaveSize
<1>4. Cardinality(S) <= MaxWaveSize /\ Cardinality(S) # 0
  BY <1>2, <1>3 DEF NextSlice
<1> QED  BY <1>4, FS_EmptySet

-----------------------------------------------------------------------------

LEMMA WavesInitInv == WavesInit => WavesIndInv
<1> SUFFICES ASSUME WavesInit PROVE WavesIndInv
  OBVIOUS
<1> USE DEF WavesInit
<1>1. DOMAIN inDegree = {} /\ DOMAIN waves = {}
  OBVIOUS
<1>2. WavesTypeOK
  BY <1>1, RequestAssumption DEF WavesTypeOK
<1>3. DegreesCount /\ DependenciesDeleted /\ CursorsAgree /\ WavesHoldDeletions
  BY DEF DegreesCount, DependenciesDeleted, CursorsAgree, WavesHoldDeletions
<1>4. DeletionsNotStuck /\ DependencyOrder /\ WavesDisjointAndBounded /\ VerdictRight
  BY <1>1 DEF DeletionsNotStuck, DependencyOrder, WavesDisjointAndBounded, VerdictRight
<1> QED  BY <1>2, <1>3, <1>4 DEF WavesIndInv

LEMMA BuildDegreesInv == WavesIndInv /\ BuildDegrees => WavesIndInv'
<1> SUFFICES ASSUME WavesIndInv, BuildDegrees PROVE WavesIndInv'
  OBVIOUS
<1> USE DEF BuildDegrees
<1>1. WavesTypeOK /\ CursorsAgree /\ DependenciesDeleted
  BY DEF WavesIndInv
<1>2. tasks \in Seq(Task) /\ level = {} /\ uncut = {} /\ waves = <<>>
  BY <1>1 DEF WavesTypeOK, CursorsAgree
<1>3. DOMAIN inDegree' = Ids(tasks) /\ Deletions' = {}
  BY DEF Deletions
<1>4. \A x \in Ids(tasks) : inDegree'[x] \in Nat
  BY <1>2, ZeroMeansReady
<1>5. WavesTypeOK'
  BY <1>1, <1>2, <1>3, <1>4 DEF WavesTypeOK
<1>6. DegreesCount'
  BY <1>3 DEF DegreesCount
<1>7. DependenciesDeleted' /\ CursorsAgree' /\ DeletionsNotStuck'
  BY <1>1, <1>2, <1>3 DEF DependenciesDeleted, CursorsAgree, DeletionsNotStuck
<1>8. WavesHoldDeletions'
  BY <1>2, <1>3 DEF WavesHoldDeletions, Scheduled
<1>9. DependencyOrder' /\ WavesDisjointAndBounded' /\ VerdictRight'
  BY <1>2 DEF DependencyOrder, WavesDisjointAndBounded, VerdictRight
<1> QED  BY <1>5, <1>6, <1>7, <1>8, <1>9 DEF WavesIndInv

LEMMA CollectLevelInv == WavesIndInv /\ CollectLevel => WavesIndInv'
<1> SUFFICES ASSUME WavesIndInv, CollectLevel PROVE WavesIndInv'
  OBVIOUS
<1> USE DEF CollectLevel
<1>1. /\ WavesTypeOK /\ CursorsAgree /\ DegreesCount /\ WavesHoldDeletions
      /\ DependenciesDeleted
  BY DEF WavesIndInv
<1>2. tasks \in Seq(Task) /\ level = {} /\ uncut = {} /\ Deletions' = Deletions
  BY <1>1 DEF WavesTypeOK, CursorsAgree, Deletions
<1>3. WavesTypeOK'
  BY <1>1 DEF WavesTypeOK, Ready
<1>4. DependenciesDeleted'
  <2> SUFFICES ASSUME NEW x \in Ready PROVE DependsOn(tasks, x) \subseteq Deletions
    BY <1>1, <1>2 DEF DependenciesDeleted
  <2>1. Cardinality(Waiting(tasks, x, Deletions)) = 0
    BY <1>1 DEF Ready, DegreesCount
  <2> QED  BY <2>1, <1>2, ZeroMeansReady
<1>5. DegreesCount' /\ CursorsAgree'
  BY <1>1, <1>2 DEF DegreesCount, CursorsAgree, Ready
<1>6. WavesHoldDeletions'
  BY <1>1, <1>2 DEF WavesHoldDeletions
<1>7. DeletionsNotStuck'
  BY <1>2 DEF WavesIndInv, DeletionsNotStuck
<1>8. DependencyOrder' /\ WavesDisjointAndBounded' /\ VerdictRight'
  BY DEF WavesIndInv, DependencyOrder, WavesDisjointAndBounded, VerdictRight
<1> QED  BY <1>3, <1>4, <1>5, <1>6, <1>7, <1>8 DEF WavesIndInv

LEMMA ReportCircularInv == WavesIndInv /\ ReportCircular => WavesIndInv'
<1> SUFFICES ASSUME WavesIndInv, ReportCircular PROVE WavesIndInv'
  OBVIOUS
<1> USE DEF ReportCircular
<1>1. WavesTypeOK /\ CursorsAgree /\ DegreesCount /\ DependenciesDeleted
  BY DEF WavesIndInv
<1>2. tasks \in Seq(Task) /\ level = {} /\ uncut = {} /\ Deletions' = Deletions
  BY <1>1 DEF WavesTypeOK, CursorsAgree, Deletions
<1>3. WavesTypeOK' /\ DegreesCount' /\ DependenciesDeleted' /\ CursorsAgree'
  BY <1>1, <1>2 DEF WavesTypeOK, DegreesCount, DependenciesDeleted, CursorsAgree
<1>4. WavesHoldDeletions' /\ DependencyOrder' /\ WavesDisjointAndBounded'
  BY DEF WavesHoldDeletions, DependencyOrder, WavesDisjointAndBounded
<1>5. DeletionsNotStuck'
  BY <1>2 DEF WavesIndInv, DeletionsNotStuck
<1>6. Stuck(tasks, DOMAIN inDegree)
  <2> SUFFICES ASSUME NEW x \in DOMAIN inDegree
               PROVE  \E d \in DependsOn(tasks, x) :
                         d \in DOMAIN inDegree \/ d \notin Ids(tasks)
    BY DEF Stuck
  <2>1. Cardinality(Waiting(tasks, x, Deletions)) # 0
    BY <1>1 DEF DegreesCount, Ready
  <2>2. ~(DependsOn(tasks, x) \subseteq Deletions)
    BY <2>1, <1>2, ZeroMeansReady
  <2> QED  BY <2>2 DEF Deletions
<1>7. VerdictRight'
  BY <1>1, <1>6 DEF VerdictRight, Unschedulable, WavesTypeOK
<1> QED  BY <1>3, <1>4, <1>5, <1>7 DEF WavesIndInv

LEMMA ReturnWavesInv == WavesIndInv /\ ReturnWaves => WavesIndInv'
<1> SUFFICES ASSUME WavesIndInv, ReturnWaves PROVE WavesIndInv'
  OBVIOUS
<1> USE DEF ReturnWaves
<1>1. /\ WavesTypeOK /\ CursorsAgree /\ WavesHoldDeletions
      /\ DeletionsNotStuck /\ DependenciesDeleted /\ DegreesCount
  BY DEF WavesIndInv
<1>2. level = {} /\ Deletions = Ids(tasks) /\ Deletions' = Deletions
  BY <1>1 DEF CursorsAgree, Deletions
<1>3. WavesTypeOK' /\ DegreesCount' /\ DependenciesDeleted' /\ CursorsAgree'
  BY <1>1, <1>2 DEF WavesTypeOK, DegreesCount, DependenciesDeleted, CursorsAgree
<1>4. WavesHoldDeletions' /\ DeletionsNotStuck'
  BY <1>1, <1>2 DEF WavesHoldDeletions, DeletionsNotStuck
<1>5. DependencyOrder' /\ WavesDisjointAndBounded'
  BY DEF WavesIndInv, DependencyOrder, WavesDisjointAndBounded
<1>6. VerdictRight'
  <2>1. ~Unschedulable(tasks)
    BY <1>1, <1>2 DEF DeletionsNotStuck, Unschedulable, Stuck
  <2>2. Scheduled(waves) = Ids(tasks)
    BY <1>1, <1>2 DEF WavesHoldDeletions
  <2> QED  BY <2>1, <2>2 DEF VerdictRight
<1> QED  BY <1>3, <1>4, <1>5, <1>6 DEF WavesIndInv

LEMMA CutWaveInv ==
  ASSUME WavesIndInv, NEW S, CutWave(S)
  PROVE  WavesIndInv'
<1> USE DEF CutWave
<1>1. WavesTypeOK /\ CursorsAgree /\ WavesHoldDeletions /\ DependenciesDeleted
  BY DEF WavesIndInv
<1>2. uncut # {} /\ S \subseteq uncut /\ S \subseteq Ids(tasks)
  BY <1>1 DEF CursorsAgree, WavesTypeOK, NextSlice
<1>3. S # {} /\ Cardinality(S) <= MaxWaveSize
  BY <1>1, <1>2, SliceBounds
<1>4. /\ waves' \in Seq(SUBSET Ids(tasks))
      /\ DOMAIN waves' = DOMAIN waves \cup {Len(waves) + 1}
      /\ \A k \in DOMAIN waves : waves'[k] = waves[k]
      /\ waves'[Len(waves) + 1] = S
      /\ Scheduled(waves') = Scheduled(waves) \cup S
  <2>1. waves \in Seq(SUBSET Ids(tasks)) /\ S \in SUBSET Ids(tasks)
    BY <1>1, <1>2 DEF WavesTypeOK
  <2>2. waves' = Append(waves, S)
    OBVIOUS
  <2>3. Scheduled(Append(waves, S)) = Scheduled(waves) \cup S
    BY <2>1, AppendSchedules
  <2> QED  BY <2>1, <2>2, <2>3
<1>5. DOMAIN waves = 1..Len(waves) /\ Len(waves) \in Nat /\ Deletions' = Deletions
  BY <1>1 DEF WavesTypeOK, Deletions
<1>6. WavesTypeOK'
  <2>1. waveOf' \in [DOMAIN tasks -> Nat]
    BY <1>1, <1>5 DEF WavesTypeOK
  <2> QED  BY <1>1, <1>4, <2>1 DEF WavesTypeOK
<1>7. DegreesCount' /\ DependenciesDeleted' /\ DeletionsNotStuck'
  BY <1>5 DEF WavesIndInv, DegreesCount, DependenciesDeleted, DeletionsNotStuck
<1>8. CursorsAgree'
  BY <1>1, <1>2 DEF CursorsAgree, WavesTypeOK
<1>9. WavesHoldDeletions'
  BY <1>1, <1>2, <1>4, <1>5 DEF WavesHoldDeletions, WavesTypeOK
<1>10. DependencyOrder'
  <2>1. ASSUME NEW x \in S, NEW d \in DependsOn(tasks, x)
        PROVE  \E j \in DOMAIN waves : d \in waves[j]
    BY <1>1, <1>2 DEF DependenciesDeleted, WavesHoldDeletions, WavesTypeOK, Scheduled
  <2>2. ASSUME NEW k \in DOMAIN waves, NEW x \in waves[k],
               NEW d \in DependsOn(tasks, x)
        PROVE  \E j \in 1..(k - 1) : d \in waves[j]
    BY DEF WavesIndInv, DependencyOrder
  <2>3. ASSUME NEW k \in DOMAIN waves', NEW x \in waves'[k],
               NEW d \in DependsOn(tasks, x)
        PROVE  \E j \in 1..(k - 1) : d \in waves'[j]
    <3>1. CASE k \in DOMAIN waves
      <4>1. PICK j \in 1..(k - 1) : d \in waves[j]
        BY <1>4, <2>2, <3>1
      <4>2. j \in DOMAIN waves
        BY <1>5, <3>1, <4>1
      <4> QED  BY <1>4, <4>1, <4>2
    <3>2. CASE k = Len(waves) + 1
      <4>1. PICK j \in DOMAIN waves : d \in waves[j]
        BY <1>4, <2>1, <3>2
      <4> QED  BY <1>4, <1>5, <3>2, <4>1
    <3> QED  BY <1>4, <3>1, <3>2
  <2> QED  BY <2>3 DEF DependencyOrder
<1>11. WavesDisjointAndBounded'
  <2>1. ASSUME NEW k \in DOMAIN waves
        PROVE  /\ waves[k] # {}
               /\ Cardinality(waves[k]) <= MaxWaveSize
               /\ \A j \in DOMAIN waves : j # k => waves[j] \cap waves[k] = {}
               /\ waves[k] \cap S = {}
    <3>1. S \cap Scheduled(waves) = {}
      BY <1>1, <1>2 DEF WavesHoldDeletions, WavesTypeOK, Deletions
    <3> QED  BY <3>1 DEF WavesIndInv, WavesDisjointAndBounded, Scheduled
  <2> QED  BY <1>3, <1>4, <2>1 DEF WavesDisjointAndBounded
<1>12. VerdictRight'
  BY DEF VerdictRight
<1> QED  BY <1>6, <1>7, <1>8, <1>9, <1>10, <1>11, <1>12 DEF WavesIndInv

LEMMA DeleteTaskInv ==
  ASSUME WavesIndInv, NEW id, DeleteTask(id)
  PROVE  WavesIndInv'
<1> USE DEF DeleteTask
<1>1. /\ WavesTypeOK /\ CursorsAgree /\ WavesHoldDeletions /\ DependenciesDeleted
      /\ DegreesCount /\ DeletionsNotStuck
  BY DEF WavesIndInv
<1>2. /\ tasks \in Seq(Task) /\ id \in DOMAIN inDegree /\ id \in Ids(tasks)
      /\ uncut = {}
  BY <1>1 DEF WavesTypeOK, CursorsAgree
<1>3. \A x \in Dependents(tasks, id) : id \in DependsOn(tasks, x) /\ x \in Ids(tasks)
  BY DEF Dependents, DependsOn, Edges, Ids, Dependent, Dependency
<1>4. Dependents(tasks, id) \subseteq DOMAIN inDegree \ level
  <2> SUFFICES ASSUME NEW x \in Dependents(tasks, id)
               PROVE  x \in DOMAIN inDegree /\ x \notin level
    OBVIOUS
  <2>1. id \in DependsOn(tasks, x) /\ x \in Ids(tasks) /\ id \notin Deletions
    BY <1>2, <1>3 DEF Deletions
  <2>2. x \notin level
    BY <1>1, <2>1 DEF DependenciesDeleted
  <2>3. x \notin Deletions
    BY <1>1, <2>1 DEF DependenciesDeleted
  <2> QED  BY <2>1, <2>2, <2>3 DEF Deletions
<1>5. DOMAIN inDegree' = DOMAIN inDegree \ {id} /\ Deletions' = Deletions \cup {id}
  BY <1>2, <1>4 DEF Deleted, Deletions
<1>6. id \notin Deletions /\ DependsOn(tasks, id) \subseteq Deletions
  BY <1>1, <1>2 DEF Deletions, DependenciesDeleted
<1>7. ASSUME NEW x \in DOMAIN inDegree'
      PROVE  /\ inDegree'[x] \in Nat
             /\ inDegree'[x] = Cardinality(Waiting(tasks, x, Deletions'))
  <2>1. inDegree'[x] = inDegree[x] - Cardinality(EdgesFrom(tasks, id, x))
    BY <1>5 DEF Deleted
  <2>2. inDegree[x] = Cardinality(Waiting(tasks, x, Deletions))
    BY <1>1, <1>5 DEF DegreesCount
  <2>3. inDegree'[x] = Cardinality(Waiting(tasks, x, Deletions'))
    BY <1>2, <1>5, <1>6, <2>1, <2>2, DeletionCount
  <2> QED  BY <1>2, <2>3, ZeroMeansReady
<1>8. WavesTypeOK'
  BY <1>1, <1>2, <1>5, <1>7 DEF WavesTypeOK
<1>9. DegreesCount'
  BY <1>7 DEF DegreesCount
<1>10. DependenciesDeleted'
  BY <1>1, <1>5, <1>6 DEF DependenciesDeleted
<1>11. CursorsAgree'
  BY <1>1, <1>2 DEF CursorsAgree
<1>12. WavesHoldDeletions'
  BY <1>1, <1>2, <1>5 DEF WavesHoldDeletions
<1>13. DeletionsNotStuck'
  <2> SUFFICES ASSUME NEW X \in SUBSET Ids(tasks), Stuck(tasks, X), id \in X
               PROVE  FALSE
    BY <1>1, <1>5 DEF DeletionsNotStuck
  <2>1. PICK d \in DependsOn(tasks, id) : d \in X \/ d \notin Ids(tasks)
    BY DEF Stuck
  <2>2. d \in Deletions /\ d \in Ids(tasks)
    BY <1>6 DEF Deletions
  <2> QED  BY <1>1, <2>1, <2>2 DEF DeletionsNotStuck
<1>14. DependencyOrder' /\ WavesDisjointAndBounded' /\ VerdictRight'
  BY DEF WavesIndInv, DependencyOrder, WavesDisjointAndBounded, VerdictRight
<1> QED  BY <1>8, <1>9, <1>10, <1>11, <1>12, <1>13, <1>14 DEF WavesIndInv

-----------------------------------------------------------------------------

(* Every step of ComputeWaves, and every step that leaves its variables     *)
(* alone, keeps the invariant: cited by the modules that build on this one. *)
THEOREM WavesStepInv == WavesIndInv /\ [WavesNext]_wavesVars => WavesIndInv'
<1> SUFFICES ASSUME WavesIndInv, [WavesNext]_wavesVars PROVE WavesIndInv'
  OBVIOUS
<1>1. CASE BuildDegrees    BY <1>1, BuildDegreesInv
<1>2. CASE CollectLevel    BY <1>2, CollectLevelInv
<1>3. CASE ReportCircular  BY <1>3, ReportCircularInv
<1>4. CASE ReturnWaves     BY <1>4, ReturnWavesInv
<1>5. CASE \E S \in SUBSET uncut : CutWave(S)  BY <1>5, CutWaveInv
<1>6. CASE \E id \in level : DeleteTask(id)    BY <1>6, DeleteTaskInv
<1>7. CASE UNCHANGED wavesVars
  BY <1>7 DEF wavesVars, WavesIndInv, WavesTypeOK, DegreesCount, Deletions,
     DependenciesDeleted, CursorsAgree, WavesHoldDeletions, DeletionsNotStuck,
     DependencyOrder, WavesDisjointAndBounded, VerdictRight
<1> QED  BY <1>1, <1>2, <1>3, <1>4, <1>5, <1>6, <1>7 DEF WavesNext

(* ComputeWaves keeps its inductive invariant. *)
THEOREM WavesInvariant == WavesSpec => []WavesIndInv
<1>1. WavesInit => WavesIndInv
  BY WavesInitInv
<1>2. WavesIndInv /\ [WavesNext]_wavesVars => WavesIndInv'
  BY WavesStepInv
<1> QED  BY <1>1, <1>2, PTL DEF WavesSpec

(* Its variables keep their types; no counter ever becomes negative. *)
THEOREM WavesTypeCorrect == WavesSpec => []WavesTypeOK
<1>1. WavesIndInv => WavesTypeOK
  BY DEF WavesIndInv
<1> QED  BY <1>1, WavesInvariant, PTL

(* What a task depends on is always in an earlier wave. *)
THEOREM WavesAreOrdered == WavesSpec => []DependencyOrder
<1>1. WavesIndInv => DependencyOrder
  BY DEF WavesIndInv
<1> QED  BY <1>1, WavesInvariant, PTL

(* The verdict is right for every request. *)
THEOREM WavesVerdictRight == WavesSpec => []VerdictRight
<1>1. WavesIndInv => VerdictRight
  BY DEF WavesIndInv
<1> QED  BY <1>1, WavesInvariant, PTL

-----------------------------------------------------------------------------
(* ComputeWaves implements WaveSchedule (its safety part): cutting off a     *)
(* slice hands out a wave, its two returns are the abstract verdicts, and    *)
(* everything else is invisible.                                             *)

LEMMA CutWaveRefines ==
  ASSUME WavesIndInv, NEW S, CutWave(S)
  PROVE  Schedule!HandOut(S) /\ S \in SUBSET Ids(tasks)
<1>1. /\ WavesTypeOK /\ CursorsAgree /\ WavesHoldDeletions
      /\ DependenciesDeleted /\ wpc = "cut"
  BY DEF WavesIndInv, CutWave
<1>2. uncut # {} /\ NextSlice(S) /\ S \subseteq uncut
  BY <1>1 DEF CursorsAgree, CutWave, NextSlice
<1>3. S # {} /\ Cardinality(S) <= MaxWaveSize
  BY <1>1, <1>2, SliceBounds
<1>4. S \cap Scheduled(waves) = {} /\ S \subseteq Ids(tasks)
  BY <1>1, <1>2 DEF WavesHoldDeletions, WavesTypeOK, Deletions
<1>5. \A x \in S : DependsOn(tasks, x) \subseteq Scheduled(waves)
  BY <1>1, <1>2 DEF DependenciesDeleted, WavesHoldDeletions, WavesTypeOK
<1>6. wpc' \in {"cut", "delete"} /\ waves' = Append(waves, S) /\ tasks' = tasks
  BY DEF CutWave
<1> QED  BY <1>1, <1>3, <1>4, <1>5, <1>6 DEF Schedule!HandOut,
            Schedule!HandedOut, WaveFits, Scheduled

LEMMA WavesStepRefines ==
  WavesIndInv /\ WavesIndInv' /\ [WavesNext]_wavesVars
    => [Schedule!ScheduleNext]_Schedule!scheduleVars
<1> SUFFICES ASSUME WavesIndInv, WavesIndInv', [WavesNext]_wavesVars
             PROVE  [Schedule!ScheduleNext]_Schedule!scheduleVars
  OBVIOUS
<1> USE DEF Schedule!scheduleVars
<1>1. CASE BuildDegrees \/ CollectLevel
  BY <1>1 DEF BuildDegrees, CollectLevel
<1>2. CASE ReportCircular
  <2>1. Unschedulable(tasks) /\ waves' = <<>>
    BY <1>2 DEF WavesIndInv, VerdictRight, ReportCircular
  <2>2. Schedule!Refuse
    BY <1>2, <2>1 DEF Schedule!Refuse, ReportCircular
  <2> QED  BY <2>2 DEF Schedule!ScheduleNext
<1>3. CASE ReturnWaves
  <2>1. Scheduled(waves) = Ids(tasks)
    BY <1>3 DEF WavesIndInv, VerdictRight, ReturnWaves
  <2>2. Schedule!Complete
    BY <1>3, <2>1 DEF Schedule!Complete, Schedule!HandedOut, Scheduled, ReturnWaves
  <2> QED  BY <2>2 DEF Schedule!ScheduleNext
<1>4. CASE \E S \in SUBSET uncut : CutWave(S)
  BY <1>4, CutWaveRefines DEF Schedule!ScheduleNext
<1>5. CASE \E id \in level : DeleteTask(id)
  BY <1>5 DEF DeleteTask
<1>6. CASE UNCHANGED wavesVars
  BY <1>6 DEF wavesVars
<1> QED  BY <1>1, <1>2, <1>3, <1>4, <1>5, <1>6 DEF WavesNext

(* Whatever ComputeWaves does, its caller sees WaveSchedule: no wave out of *)
(* order, too large or repeated, no verdict that is wrong.                  *)
THEOREM WavesImplementSchedule == WavesSpec => ScheduleSafe
<1>1. WavesInit => Schedule!ScheduleInit
  BY DEF WavesInit, Schedule!ScheduleInit
<1>2. WavesIndInv /\ WavesIndInv' /\ [WavesNext]_wavesVars
        => [Schedule!ScheduleNext]_Schedule!scheduleVars
  BY WavesStepRefines
<1> QED  BY <1>1, <1>2, WavesInvariant, PTL DEF WavesSpec, ScheduleSafe, Schedule!ScheduleSafety
-----------------------------------------------------------------------------
(* A team request.                                                          *)

(* A task name has a first task, and different names have different ones. *)
LEMMA FirstIndexExists ==
  ASSUME NEW ts \in Seq(Task), NEW x \in Ids(ts)
  PROVE  FirstIndex(ts, x) \in DOMAIN ts /\ ts[FirstIndex(ts, x)].id = x
<1> DEFINE Less == {p \in Nat \X Nat : p[1] < p[2]}
           T == {i \in DOMAIN ts : ts[i].id = x}
<1>1. T # {} /\ T \subseteq Nat
  BY DEF Ids
<1>0. IsWellFoundedOn(Less, Nat)
  BY NatLessThanWellFounded, Zenon DEF OpToRel
<1>2. PICK i \in T : \A j \in T : ~(<<j, i>> \in Less)
  BY <1>1, <1>0, WFMin
<1>3. ASSUME NEW j \in T PROVE i <= j
  <2>1. i \in Nat /\ j \in Nat
    BY <1>1
  <2>2. j < i => <<j, i>> \in Less
    BY <2>1
  <2> QED  BY <1>2, <2>1, <2>2
<1>4. \E k \in DOMAIN ts : ts[k].id = x /\ FirstWithId(ts, k)
  BY <1>3 DEF FirstWithId
<1> QED  BY <1>4 DEF FirstIndex

LEMMA TaskOfWorker ==
  ASSUME WavesTypeOK, NEW x \in Workers
  PROVE  TaskOf(x) \in DOMAIN tasks /\ tasks[TaskOf(x)].id = x
<1>1. tasks \in Seq(Task)
  BY DEF WavesTypeOK
<1> QED  BY <1>1, FirstIndexExists DEF TaskOf, Workers

-----------------------------------------------------------------------------

LEMMA TeamInitInv == TeamInit => TeamIndInv
<1> SUFFICES ASSUME TeamInit PROVE TeamIndInv
  OBVIOUS
<1>1. WavesInit /\ WavesIndInv /\ WavesTypeOK
  BY WavesInitInv DEF TeamInit, WavesIndInv
<1>2. TeamTypeOK
  BY <1>1 DEF TeamInit, WavesInit, TeamTypeOK
<1>3. StatusAgrees /\ OnlyBegunWavesRun /\ OnlyCurrentWaveActive
  <2>1. \A i \in DOMAIN tasks : ~Started(i)
    BY DEF TeamInit, Started
  <2> QED  BY <2>1 DEF TeamInit, StatusAgrees, OnlyBegunWavesRun, OnlyCurrentWaveActive
<1>4. FinishedWavesCompleted /\ PhasesAgree /\ ResultTrue
  BY DEF TeamInit, FinishedWavesCompleted, PhasesAgree, ResultTrue
<1> QED  BY <1>1, <1>2, <1>3, <1>4 DEF TeamIndInv

(* A team step is a step of ComputeWaves or leaves its variables alone, and *)
(* the task list never changes.                                             *)
LEMMA TeamStepWaves == [TeamNext]_teamVars => [WavesNext]_wavesVars /\ tasks' = tasks
<1> SUFFICES ASSUME [TeamNext]_teamVars
             PROVE  [WavesNext]_wavesVars /\ tasks' = tasks
  OBVIOUS
<1>1. CASE MainStep
  <2>1. CASE ComputeWaves
    BY <2>1 DEF ComputeWaves, WavesNext, BuildDegrees, CollectLevel,
       ReportCircular, ReturnWaves, CutWave, DeleteTask
  <2>2. CASE ~ComputeWaves
    BY <1>1, <2>2 DEF MainStep, WavesComputed, BeginWave, AllWavesDone,
       WaitWave, SkipVerify, RunVerify, RetryWait, LastRun, SendShutdown,
       CancelAll, wavesVars
  <2> QED  BY <2>1, <2>2
<1>2. ASSUME NEW x \in Workers, WorkerStep(x)
      PROVE  UNCHANGED wavesVars
  BY <1>2 DEF WorkerStep, Claim, Arm, Drain, Settle, Notify
<1>3. ASSUME NEW x \in Workers, LoopStep(x)
      PROVE  UNCHANGED wavesVars
  BY <1>3 DEF LoopStep, LoopText, BeginWrite, RefuseWrite, FinishWrite,
     LoopEnds, EndLoop
<1>4. CASE Disconnect \/ WaveTimeout \/ OtherTeam
  BY <1>4 DEF Disconnect, WaveTimeout, OtherTeam, OtherTeamArms,
     OtherTeamShutsDown, OtherTeamClears, wavesVars
<1>5. CASE UNCHANGED teamVars
  BY <1>5 DEF teamVars, wavesVars
<1> QED  BY <1>1, <1>2, <1>3, <1>4, <1>5 DEF TeamNext, Finished, wavesVars

-----------------------------------------------------------------------------
(* Types.                                                                   *)

LEMMA MainStepTypes ==
  ASSUME TeamTypeOK, WavesTypeOK', PhasesAgree, MainStep
  PROVE  TeamTypeOK'
<1>0. Len(waves) \in Nat
  BY DEF TeamTypeOK, WavesTypeOK
<1>1. CASE ComputeWaves
  <2>1. tasks' = tasks
    BY <1>1 DEF ComputeWaves, WavesNext, BuildDegrees, CollectLevel,
       ReportCircular, ReturnWaves, CutWave, DeleteTask
  <2>2. waveIdx' = 0 /\ Len(waves') \in Nat
    BY <1>1 DEF ComputeWaves, PhasesAgree, mainVars, WavesTypeOK
  <2> QED  BY <1>1, <2>1, <2>2 DEF TeamTypeOK, ComputeWaves, mainVars, ctxVars,
              loopVars, workerVars, ownVars, verifyVars, Workers
<1> USE DEF wavesVars, mainVars, ctxVars, loopVars, workerVars, ownVars,
        verifyVars, Workers
<1>2. CASE WavesComputed
  BY <1>2 DEF TeamTypeOK, WavesComputed
<1>3. CASE BeginWave
  BY <1>0, <1>3 DEF TeamTypeOK, BeginWave
<1>4. CASE AllWavesDone
  BY <1>4 DEF TeamTypeOK, AllWavesDone
<1>5. CASE WaitWave
  BY <1>5 DEF TeamTypeOK, WaitWave
<1>6. CASE SkipVerify
  BY <1>6 DEF TeamTypeOK, SkipVerify
<1>7. CASE \E ok \in BOOLEAN : RunVerify(ok)
  BY <1>7 DEF TeamTypeOK, RunVerify
<1>8. CASE RetryWait
  BY <1>8 DEF TeamTypeOK, RetryWait
<1>9. CASE LastRun
  BY <1>9 DEF TeamTypeOK, LastRun
<1>10. CASE SendShutdown
  BY <1>10 DEF TeamTypeOK, SendShutdown
<1>11. CASE CancelAll
  BY <1>11 DEF TeamTypeOK, CancelAll
<1> QED  BY <1>1, <1>2, <1>3, <1>4, <1>5, <1>6, <1>7, <1>8, <1>9, <1>10, <1>11
         DEF MainStep

LEMMA WorkerStepTypes ==
  ASSUME TeamTypeOK, WavesTypeOK', StatusAgrees, NEW x \in Workers, WorkerStep(x)
  PROVE  TeamTypeOK'
<1> USE DEF wavesVars, mainVars, ctxVars, loopVars, workerVars, ownVars,
        verifyVars, Workers
<1>1. TaskOf(x) \in DOMAIN tasks
  BY TaskOfWorker DEF TeamTypeOK
<1>2. CASE Claim(x)
  BY <1>1, <1>2 DEF TeamTypeOK, Claim
<1>3. CASE Arm(x)
  BY <1>3 DEF TeamTypeOK, Arm
<1>4. CASE Drain(x)
  BY <1>4 DEF TeamTypeOK, Drain
<1>5. CASE Settle(x)
  BY <1>1, <1>5 DEF TeamTypeOK, Settle, CtxErr
<1>6. CASE Notify(x)
  BY <1>1, <1>6 DEF TeamTypeOK, Notify, StatusAgrees
<1> QED  BY <1>2, <1>3, <1>4, <1>5, <1>6 DEF WorkerStep

LEMMA LoopStepTypes ==
  ASSUME TeamTypeOK, WavesTypeOK', NEW x \in Workers, LoopStep(x)
  PROVE  TeamTypeOK'
<1> USE DEF wavesVars, mainVars, ctxVars, loopVars, workerVars, ownVars,
        verifyVars, Workers
<1>1. CASE LoopText(x)
  BY <1>1 DEF TeamTypeOK, LoopText, Emit
<1>2. ASSUME NEW f \in File, BeginWrite(x, f) PROVE TeamTypeOK'
  BY <1>2 DEF TeamTypeOK, BeginWrite
<1>3. ASSUME NEW f \in File, RefuseWrite(x, f) PROVE TeamTypeOK'
  BY <1>3 DEF TeamTypeOK, RefuseWrite, Emit
<1>4. CASE FinishWrite(x)
  BY <1>4 DEF TeamTypeOK, FinishWrite, Emit
<1>5. CASE LoopEnds(x)
  BY <1>5 DEF TeamTypeOK, LoopEnds, EndLoop
<1> QED  BY <1>1, <1>2, <1>3, <1>4, <1>5 DEF LoopStep

LEMMA EnvironmentTypes ==
  ASSUME TeamTypeOK, WavesTypeOK', Disconnect \/ WaveTimeout \/ OtherTeam
  PROVE  TeamTypeOK'
<1> USE DEF wavesVars, mainVars, ctxVars, loopVars, workerVars, ownVars,
        verifyVars, Workers
<1>1. CASE Disconnect \/ WaveTimeout
  BY <1>1 DEF TeamTypeOK, Disconnect, WaveTimeout
<1>2. CASE OtherTeam
  BY <1>2 DEF TeamTypeOK, OtherTeam, OtherTeamArms, OtherTeamShutsDown,
     OtherTeamClears
<1> QED  BY <1>1, <1>2

(* Whatever a team step does, types are kept once ComputeWaves keeps its own. *)
LEMMA TeamTypes ==
  ASSUME TeamIndInv, [TeamNext]_teamVars
  PROVE  WavesIndInv' /\ TeamTypeOK' /\ tasks' = tasks
<1>1. WavesIndInv' /\ tasks' = tasks
  BY TeamStepWaves, WavesStepInv DEF TeamIndInv
<1>2. TeamTypeOK /\ WavesTypeOK' /\ StatusAgrees /\ PhasesAgree
  BY <1>1 DEF TeamIndInv, WavesIndInv
<1>3. CASE MainStep
  BY <1>1, <1>2, <1>3, MainStepTypes
<1>4. ASSUME NEW x \in Workers, WorkerStep(x) \/ LoopStep(x) PROVE TeamTypeOK'
  BY <1>2, <1>4, WorkerStepTypes, LoopStepTypes
<1>5. CASE Disconnect \/ WaveTimeout \/ OtherTeam
  BY <1>1, <1>2, <1>5, EnvironmentTypes
<1>6. CASE UNCHANGED teamVars
  BY <1>1, <1>2, <1>6 DEF teamVars, TeamTypeOK, wavesVars, mainVars, ctxVars, loopVars,
     workerVars, ownVars, verifyVars, Workers
<1> QED  BY <1>1, <1>3, <1>4, <1>5, <1>6 DEF TeamNext, Finished

-----------------------------------------------------------------------------
(* Steps that move no worker.                                               *)

Executing == {"compute", "nextWave", "wait"}

LEMMA FrameInv ==
  ASSUME TeamIndInv, WavesIndInv', TeamTypeOK', UNCHANGED wavesVars,
         UNCHANGED <<waveIdx, err, status, at, loop>>,
         pc' = pc \/ (pc \notin Executing /\ pc' \notin Executing)
  PROVE  TeamIndInv'
<1> USE DEF wavesVars, Workers, TaskOf, Wave, Executing
<1>1. StatusAgrees' /\ OnlyBegunWavesRun'
  BY DEF TeamIndInv, StatusAgrees, OnlyBegunWavesRun, Started
<1>2. OnlyCurrentWaveActive' /\ FinishedWavesCompleted'
  BY DEF TeamIndInv, OnlyCurrentWaveActive, FinishedWavesCompleted
<1>3. PhasesAgree' /\ ResultTrue'
  BY DEF TeamIndInv, PhasesAgree, ResultTrue, Started
<1> QED  BY <1>1, <1>2, <1>3 DEF TeamIndInv

LEMMA ComputeStepInv ==
  ASSUME TeamIndInv, WavesIndInv', TeamTypeOK', tasks' = tasks, ComputeWaves
  PROVE  TeamIndInv'
<1> USE DEF Workers, TaskOf, mainVars, loopVars, workerVars, ComputeWaves
<1>1. waveIdx = 0 /\ waveIdx' = 0 /\ pc = "compute" /\ pc' = "compute"
  BY DEF TeamIndInv, PhasesAgree
<1>2. \A x \in Workers : at[x] = "none"
  BY <1>1 DEF TeamIndInv, OnlyBegunWavesRun
<1>3. StatusAgrees' /\ OnlyBegunWavesRun' /\ OnlyCurrentWaveActive'
  BY <1>2 DEF TeamIndInv, StatusAgrees, OnlyBegunWavesRun,
     OnlyCurrentWaveActive, Started
<1>4. FinishedWavesCompleted' /\ PhasesAgree' /\ ResultTrue'
  BY <1>1 DEF TeamIndInv, FinishedWavesCompleted, PhasesAgree, ResultTrue
<1> QED  BY <1>3, <1>4 DEF TeamIndInv

LEMMA WavesComputedInv ==
  ASSUME TeamIndInv, WavesIndInv', TeamTypeOK', WavesComputed
  PROVE  TeamIndInv'
<1> USE DEF wavesVars, Workers, TaskOf, Wave, loopVars, workerVars, WavesComputed
<1>1. waveIdx = 0 /\ waveIdx' = 0
  BY DEF TeamIndInv, PhasesAgree
<1>2. \A x \in Workers : at[x] = "none"
  BY <1>1 DEF TeamIndInv, OnlyBegunWavesRun
<1>3. StatusAgrees' /\ OnlyBegunWavesRun' /\ OnlyCurrentWaveActive'
  BY <1>2 DEF TeamIndInv, StatusAgrees, OnlyBegunWavesRun,
     OnlyCurrentWaveActive, Started
<1>4. FinishedWavesCompleted' /\ PhasesAgree'
  BY <1>1 DEF TeamIndInv, FinishedWavesCompleted, PhasesAgree
<1>5. ResultTrue'
  <2>1. \A i \in DOMAIN tasks : ~Started(i)
    BY <1>2 DEF TeamIndInv, StatusAgrees, Ids
  <2> QED  BY <2>1 DEF ResultTrue, Started
<1> QED  BY <1>3, <1>4, <1>5 DEF TeamIndInv

LEMMA BeginWaveInv ==
  ASSUME TeamIndInv, WavesIndInv', TeamTypeOK', BeginWave
  PROVE  TeamIndInv'
<1> USE DEF wavesVars, Workers, TaskOf, Wave, loopVars, BeginWave
<1> DEFINE next == waveIdx + 1
<1>1. /\ WavesTypeOK /\ WavesDisjointAndBounded /\ waveIdx \in Nat
      /\ next \in DOMAIN waves /\ DOMAIN waves = 1..Len(waves)
      /\ Len(waves) \in Nat
  BY DEF TeamIndInv, TeamTypeOK, WavesIndInv, WavesTypeOK
<1>2. waves[next] \subseteq Workers
  BY <1>1 DEF WavesTypeOK
<1>3. \A x \in waves[next] : at[x] = "none" /\ loop[x] = "off"
  <2> SUFFICES ASSUME NEW x \in waves[next], at[x] # "none" PROVE FALSE
    BY <1>2 DEF TeamIndInv, StatusAgrees
  <2>1. PICK k \in 1..waveIdx : x \in waves[k]
    BY <1>2 DEF TeamIndInv, OnlyBegunWavesRun
  <2> QED  BY <1>1, <2>1 DEF WavesDisjointAndBounded
<1>4. \A x \in Workers : at[x] \in {"none", "ended"}
  BY DEF TeamIndInv, OnlyCurrentWaveActive
<1>5. at' = [x \in Workers |-> IF x \in waves[next] THEN "spawned" ELSE at[x]]
  OBVIOUS
<1>6. StatusAgrees'
  <2>1. \A x \in Workers : at[x] # at'[x] => at[x] = "none" /\ at'[x] = "spawned"
    BY <1>3, <1>5
  <2>2. \A i \in DOMAIN tasks : tasks[i].id \in Workers
    BY DEF Ids
  <2> QED  BY <2>1, <2>2 DEF TeamIndInv, StatusAgrees, Started
<1>7. OnlyBegunWavesRun'
  BY <1>1, <1>5 DEF TeamIndInv, OnlyBegunWavesRun
<1>8. OnlyCurrentWaveActive'
  BY <1>1, <1>4, <1>5 DEF OnlyCurrentWaveActive
<1>9. FinishedWavesCompleted'
  <2> SUFFICES ASSUME NEW k \in 1..waveIdx, NEW x \in waves[k]
               PROVE  at'[x] = "ended" /\ status[TaskOf(x)] = "completed"
    BY <1>1 DEF FinishedWavesCompleted
  <2>1. at[x] = "ended" /\ status[TaskOf(x)] = "completed"
    BY DEF TeamIndInv, FinishedWavesCompleted
  <2>2. x \in Workers /\ x \notin waves[next]
    BY <1>1, <1>3, <2>1 DEF WavesTypeOK
  <2> QED  BY <1>5, <2>1, <2>2
<1>10. PhasesAgree' /\ ResultTrue'
  BY <1>1 DEF TeamIndInv, PhasesAgree, ResultTrue
<1> QED  BY <1>6, <1>7, <1>8, <1>9, <1>10 DEF TeamIndInv

LEMMA AllWavesDoneInv ==
  ASSUME TeamIndInv, WavesIndInv', TeamTypeOK', AllWavesDone
  PROVE  TeamIndInv'
<1> USE DEF wavesVars, Workers, TaskOf, Wave, loopVars, workerVars, AllWavesDone
<1>1. wpc = "done" /\ err = "none" /\ err' = "none"
  BY DEF TeamIndInv, PhasesAgree
<1>2. Scheduled(waves) = Workers /\ DOMAIN waves = 1..waveIdx
  BY <1>1 DEF TeamIndInv, WavesIndInv, VerdictRight, WavesTypeOK
<1>3. \A x \in Workers : status[TaskOf(x)] = "completed"
  BY <1>2 DEF TeamIndInv, FinishedWavesCompleted, Scheduled
<1>4. StatusAgrees' /\ OnlyBegunWavesRun' /\ OnlyCurrentWaveActive'
  BY DEF TeamIndInv, StatusAgrees, OnlyBegunWavesRun, OnlyCurrentWaveActive, Started
<1>5. FinishedWavesCompleted' /\ PhasesAgree'
  BY DEF TeamIndInv, FinishedWavesCompleted, PhasesAgree
<1>6. ResultTrue'
  BY <1>1, <1>3 DEF ResultTrue
<1> QED  BY <1>4, <1>5, <1>6 DEF TeamIndInv

LEMMA WaitWaveInv ==
  ASSUME TeamIndInv, WavesIndInv', TeamTypeOK', WaitWave
  PROVE  TeamIndInv'
<1> USE DEF wavesVars, Workers, TaskOf, loopVars, workerVars, WaitWave
<1>1. /\ waveIdx \in DOMAIN waves /\ DOMAIN waves = 1..Len(waves)
      /\ waveIdx \in Nat /\ Len(waves) \in Nat
  BY DEF TeamIndInv, TeamTypeOK, WavesTypeOK, PhasesAgree
<1>2. Wave = waves[waveIdx] /\ Wave' = Wave /\ Wave \subseteq Workers
  BY <1>1 DEF Wave, TeamIndInv, TeamTypeOK, WavesTypeOK
<1>3. StatusAgrees' /\ OnlyBegunWavesRun'
  BY DEF TeamIndInv, StatusAgrees, OnlyBegunWavesRun, Started
<1>4. OnlyCurrentWaveActive'
  BY <1>2 DEF TeamIndInv, OnlyCurrentWaveActive
<1>5. FinishedWavesCompleted'
  <2> SUFFICES ASSUME NEW k \in 1..waveIdx, k < waveIdx \/ pc' = "nextWave",
                      NEW x \in waves[k]
               PROVE  at[x] = "ended" /\ status[TaskOf(x)] = "completed"
    BY DEF FinishedWavesCompleted
  <2>1. CASE k < waveIdx
    BY <2>1 DEF TeamIndInv, FinishedWavesCompleted
  <2>2. CASE k = waveIdx
    BY <1>2, <2>2
  <2> QED  BY <1>1, <2>1, <2>2
<1>6. PhasesAgree'
  BY DEF TeamIndInv, PhasesAgree
<1>7. ResultTrue'
  <2> SUFFICES ASSUME pc' = "verify", err' = "wave",
                      NEW x \in Wave, status[TaskOf(x)] # "completed"
               PROVE  /\ status[TaskOf(x)] = "failed"
                      /\ \A k \in (waveIdx + 1)..Len(waves) :
                           \A y \in waves[k] : ~Started(TaskOf(y))
    BY <1>2 DEF ResultTrue, Started
  <2>1. status[TaskOf(x)] = "failed"
    BY <1>2 DEF TeamIndInv, StatusAgrees
  <2>2. ASSUME NEW k \in (waveIdx + 1)..Len(waves), NEW y \in waves[k],
               Started(TaskOf(y))
        PROVE  FALSE
    <3>1. y \in Workers /\ k \in DOMAIN waves
      BY <1>1 DEF TeamIndInv, TeamTypeOK, WavesTypeOK
    <3>2. TaskOf(y) \in DOMAIN tasks /\ tasks[TaskOf(y)].id = y
      BY <3>1, TaskOfWorker DEF TeamIndInv, TeamTypeOK
    <3>3. at[y] # "none"
      BY <2>2, <3>2 DEF TeamIndInv, StatusAgrees
    <3>4. PICK j \in 1..waveIdx : y \in waves[j]
      BY <3>1, <3>3 DEF TeamIndInv, OnlyBegunWavesRun
    <3> QED  BY <1>1, <2>2, <3>1, <3>4
             DEF TeamIndInv, WavesIndInv, WavesDisjointAndBounded
  <2> QED  BY <2>1, <2>2
<1> QED  BY <1>3, <1>4, <1>5, <1>6, <1>7 DEF TeamIndInv

-----------------------------------------------------------------------------
(* Steps of a worker and of its agent loop.                                 *)

(* An agent loop that is still going belongs to a worker that drains it.    *)
LEMMA LoopNeedsWorker ==
  ASSUME TeamIndInv, NEW x \in Workers, loop[x] \in {"thinking", "writing"}
  PROVE  at[x] = "draining"
BY DEF TeamIndInv, TeamTypeOK, StatusAgrees

LEMMA LoopMovesInv ==
  ASSUME TeamIndInv, WavesIndInv', TeamTypeOK', UNCHANGED wavesVars,
         UNCHANGED mainVars, UNCHANGED <<status, at>>,
         NEW x \in Workers, loop[x] \in {"thinking", "writing"},
         NEW to \in {"thinking", "writing", "ended"},
         loop' = [loop EXCEPT ![x] = to]
  PROVE  TeamIndInv'
<1> USE DEF wavesVars, mainVars, Workers, TaskOf, Wave
<1>1. at[x] = "draining"
  BY LoopNeedsWorker
<1>2. \A y \in Workers : loop'[y] = IF y = x THEN to ELSE loop[y]
  BY DEF TeamIndInv, TeamTypeOK
<1>3. StatusAgrees'
  BY <1>1, <1>2 DEF TeamIndInv, StatusAgrees, Started
<1>4. OnlyBegunWavesRun' /\ OnlyCurrentWaveActive' /\ FinishedWavesCompleted'
  BY DEF TeamIndInv, OnlyBegunWavesRun, OnlyCurrentWaveActive, FinishedWavesCompleted
<1>5. PhasesAgree' /\ ResultTrue'
  BY DEF TeamIndInv, PhasesAgree, ResultTrue, Started
<1> QED  BY <1>3, <1>4, <1>5 DEF TeamIndInv

LEMMA LoopStepInv ==
  ASSUME TeamIndInv, WavesIndInv', TeamTypeOK', NEW x \in Workers, LoopStep(x)
  PROVE  TeamIndInv'
<1> USE DEF mainVars, workerVars
<1>1. CASE LoopText(x)
  BY <1>1, FrameInv DEF LoopText
<1>2. ASSUME NEW f \in File, BeginWrite(x, f) PROVE TeamIndInv'
  BY <1>2, LoopMovesInv DEF BeginWrite
<1>3. ASSUME NEW f \in File, RefuseWrite(x, f) PROVE TeamIndInv'
  BY <1>3, FrameInv DEF RefuseWrite
<1>4. CASE FinishWrite(x)
  BY <1>4, LoopMovesInv DEF FinishWrite
<1>5. CASE LoopEnds(x)
  BY <1>5, LoopMovesInv DEF LoopEnds, EndLoop
<1> QED  BY <1>1, <1>2, <1>3, <1>4, <1>5 DEF LoopStep

(* A worker of the current wave moves on: what its new place, its task's    *)
(* status and its loop have to satisfy for the invariant to survive.        *)
LEMMA WorkerMovesInv ==
  ASSUME TeamIndInv, WavesIndInv', TeamTypeOK', UNCHANGED wavesVars,
         UNCHANGED mainVars,
         NEW x \in Workers, at[x] \notin {"none", "ended"},
         NEW to, to \notin {"none", "spawned"}, at' = [at EXCEPT ![x] = to],
         \A y \in Workers \ {x} : loop'[y] = loop[y],
         \A i \in DOMAIN tasks : i # TaskOf(x) => status'[i] = status[i],
         to \in {"claimed", "draining"} => status'[TaskOf(x)] = "running",
         to \in {"settled", "ended"} =>
            status'[TaskOf(x)] \in {"completed", "failed"} /\ loop'[x] = "ended",
         to = "claimed" <=> loop'[x] = "off"
  PROVE  TeamIndInv'
<1> USE DEF wavesVars, mainVars, Workers, Wave
<1>1. pc = "wait" /\ x \in Wave /\ waveIdx \in DOMAIN waves
  BY DEF TeamIndInv, OnlyCurrentWaveActive
<1>2. /\ \A y \in Workers : at'[y] = IF y = x THEN to ELSE at[y]
      /\ \A y \in Workers : TaskOf(y)' = TaskOf(y)
  BY DEF TeamIndInv, TeamTypeOK, TaskOf
<1>3. \A y \in Workers : TaskOf(y) \in DOMAIN tasks /\ tasks[TaskOf(y)].id = y
  BY TaskOfWorker DEF TeamIndInv, TeamTypeOK
<1>4. \A y \in Workers \ {x} : status'[TaskOf(y)] = status[TaskOf(y)]
  BY <1>3
<1>5. StatusAgrees'
  <2>1. ASSUME NEW y \in Workers
        PROVE  /\ at'[y] \in {"claimed", "draining"} => status'[TaskOf(y)] = "running"
               /\ at'[y] \in {"settled", "ended"} =>
                     status'[TaskOf(y)] \in {"completed", "failed"} /\ loop'[y] = "ended"
               /\ at'[y] \in {"none", "spawned", "claimed"} <=> loop'[y] = "off"
    <3>1. CASE y = x
      BY <1>2, <3>1
    <3>2. CASE y # x
      BY <1>2, <1>4, <3>2 DEF TeamIndInv, StatusAgrees
    <3> QED  BY <3>1, <3>2
  <2>2. ASSUME NEW i \in DOMAIN tasks, status'[i] # "pending"
        PROVE  at'[tasks[i].id] \notin {"none", "spawned"} /\ i = TaskOf(tasks[i].id)
    <3>1. tasks[i].id \in Workers
      BY DEF Ids
    <3>2. CASE i = TaskOf(x)
      BY <1>2, <1>3, <3>1, <3>2
    <3>3. CASE i # TaskOf(x)
      BY <1>2, <2>2, <3>1, <3>3 DEF TeamIndInv, StatusAgrees, Started
    <3> QED  BY <3>2, <3>3
  <2> QED  BY <1>2, <2>1, <2>2 DEF StatusAgrees, Started, TaskOf
<1>6. OnlyBegunWavesRun'
  BY <1>2 DEF TeamIndInv, OnlyBegunWavesRun
<1>7. OnlyCurrentWaveActive'
  BY <1>1, <1>2 DEF TeamIndInv, OnlyCurrentWaveActive
<1>8. FinishedWavesCompleted'
  <2> SUFFICES ASSUME NEW k \in 1..waveIdx, k < waveIdx, NEW y \in waves[k]
               PROVE  at'[y] = "ended" /\ status'[TaskOf(y)] = "completed"
    BY <1>1 DEF FinishedWavesCompleted, TaskOf
  <2>1. at[y] = "ended" /\ status[TaskOf(y)] = "completed"
    BY DEF TeamIndInv, FinishedWavesCompleted
  <2>2. y \in Workers /\ y # x
    BY <2>1 DEF TeamIndInv, TeamTypeOK, WavesTypeOK
  <2> QED  BY <1>2, <1>4, <2>1, <2>2
<1>9. PhasesAgree' /\ ResultTrue'
  BY <1>1 DEF TeamIndInv, PhasesAgree, ResultTrue
<1> QED  BY <1>5, <1>6, <1>7, <1>8, <1>9 DEF TeamIndInv

LEMMA WorkerStepInv ==
  ASSUME TeamIndInv, WavesIndInv', TeamTypeOK', NEW x \in Workers, WorkerStep(x)
  PROVE  TeamIndInv'
<1>0. /\ TaskOf(x) \in DOMAIN tasks
      /\ status \in [DOMAIN tasks -> {"pending", "running", "completed", "failed"}]
      /\ loop \in [Workers -> {"off", "thinking", "writing", "ended"}]
      /\ StatusAgrees
  BY TaskOfWorker DEF TeamIndInv, TeamTypeOK
<1> USE DEF mainVars, loopVars
<1>1. CASE Claim(x)
  <2>1. loop[x] = "off"
    BY <1>0, <1>1 DEF Claim, StatusAgrees
  <2> QED  BY <1>0, <1>1, <2>1, WorkerMovesInv DEF Claim
<1>2. CASE Arm(x)
  <2>1. status[TaskOf(x)] = "running"
    BY <1>0, <1>2 DEF Arm, StatusAgrees
  <2> QED  BY <1>0, <1>2, <2>1, WorkerMovesInv DEF Arm
<1>3. CASE Drain(x)
  BY <1>3, FrameInv DEF Drain
<1>4. CASE Settle(x)
  BY <1>0, <1>4, WorkerMovesInv DEF Settle, CtxErr
<1>5. CASE Notify(x)
  <2>1. status[TaskOf(x)] \in {"completed", "failed"} /\ loop[x] = "ended"
    BY <1>0, <1>5 DEF Notify, StatusAgrees
  <2> QED  BY <1>0, <1>5, <2>1, WorkerMovesInv DEF Notify
<1> QED  BY <1>1, <1>2, <1>3, <1>4, <1>5 DEF WorkerStep

-----------------------------------------------------------------------------

LEMMA MainStepInv ==
  ASSUME TeamIndInv, WavesIndInv', TeamTypeOK', tasks' = tasks, MainStep
  PROVE  TeamIndInv'
<1> USE DEF workerVars, loopVars, Executing
<1>1. CASE SkipVerify \/ RetryWait \/ LastRun
  BY <1>1, FrameInv DEF SkipVerify, RetryWait, LastRun
<1>2. CASE \E ok \in BOOLEAN : RunVerify(ok)
  BY <1>2, FrameInv DEF RunVerify
<1>3. CASE SendShutdown \/ CancelAll
  BY <1>3, FrameInv DEF SendShutdown, CancelAll
<1> QED  BY <1>1, <1>2, <1>3, ComputeStepInv, WavesComputedInv, BeginWaveInv,
            AllWavesDoneInv, WaitWaveInv DEF MainStep

LEMMA TeamStepInv == TeamIndInv /\ [TeamNext]_teamVars => TeamIndInv'
<1> SUFFICES ASSUME TeamIndInv, [TeamNext]_teamVars PROVE TeamIndInv'
  OBVIOUS
<1>1. WavesIndInv' /\ TeamTypeOK' /\ tasks' = tasks
  BY TeamTypes
<1>2. CASE MainStep
  BY <1>1, <1>2, MainStepInv
<1>3. ASSUME NEW x \in Workers, WorkerStep(x) \/ LoopStep(x) PROVE TeamIndInv'
  BY <1>1, <1>3, WorkerStepInv, LoopStepInv
<1>4. CASE Disconnect \/ WaveTimeout \/ OtherTeam
  BY <1>1, <1>4, FrameInv DEF Disconnect, WaveTimeout, OtherTeam, OtherTeamArms,
     OtherTeamShutsDown, OtherTeamClears, mainVars, loopVars, workerVars
<1>5. CASE UNCHANGED teamVars
  BY <1>1, <1>5, FrameInv DEF teamVars, mainVars, loopVars, workerVars
<1> QED  BY <1>2, <1>3, <1>4, <1>5 DEF TeamNext, Finished

-----------------------------------------------------------------------------
(* The theorems.                                                             *)

(* The inductive invariant holds of every request. *)
THEOREM TeamInvariant == TeamSpec => []TeamIndInv
<1>1. TeamInit => TeamIndInv
  BY TeamInitInv
<1>2. TeamIndInv /\ [TeamNext]_teamVars => TeamIndInv'
  BY TeamStepInv
<1> QED  BY <1>1, <1>2, PTL DEF TeamSpec

(* The variables of a request keep their types. *)
THEOREM TeamTypeCorrect == TeamSpec => []TeamTypeOK
<1>1. TeamIndInv => TeamTypeOK
  BY DEF TeamIndInv
<1> QED  BY <1>1, TeamInvariant, PTL

(* A started task is in a wave that has begun. *)
LEMMA StartedInBegunWave ==
  ASSUME TeamIndInv, NEW i \in DOMAIN tasks, Started(i)
  PROVE  /\ tasks[i].id \in Workers
         /\ at[tasks[i].id] \notin {"none", "spawned"}
         /\ \E k \in 1..waveIdx : tasks[i].id \in waves[k]
<1>1. tasks[i].id \in Workers
  BY DEF Workers, Ids
<1>2. at[tasks[i].id] \notin {"none", "spawned"}
  BY DEF TeamIndInv, StatusAgrees
<1> QED  BY <1>1, <1>2 DEF TeamIndInv, OnlyBegunWavesRun

(* The wave barrier: no task of a wave starts before every task of the      *)
(* earlier waves completed, whatever the goroutines' order.                 *)
THEOREM TeamBarrier == TeamSpec => []EarlierWavesCompleted
<1>1. TeamIndInv => EarlierWavesCompleted
  <2> SUFFICES ASSUME TeamIndInv, NEW k \in DOMAIN waves, NEW x \in waves[k],
                      Started(TaskOf(x)), NEW j \in 1..(k - 1), NEW y \in waves[j]
               PROVE  status[TaskOf(y)] = "completed"
    BY DEF EarlierWavesCompleted
  <2>1. waves \in Seq(SUBSET Ids(tasks)) /\ waveIdx \in Nat /\ waveIdx <= Len(waves)
    BY DEF TeamIndInv, TeamTypeOK, WavesTypeOK
  <2>2. TaskOf(x) \in DOMAIN tasks /\ tasks[TaskOf(x)].id = x
    <3>1. x \in Workers /\ WavesTypeOK
      BY <2>1 DEF TeamIndInv, TeamTypeOK, Workers
    <3> QED  BY <3>1, TaskOfWorker
  <2>3. PICK m \in 1..waveIdx : x \in waves[m]
    BY <2>2, StartedInBegunWave
  <2>4. m = k
    BY <2>1, <2>3 DEF TeamIndInv, WavesIndInv, WavesDisjointAndBounded
  <2>5. j \in 1..waveIdx /\ j < waveIdx
    BY <2>1, <2>3, <2>4
  <2> QED  BY <2>5 DEF TeamIndInv, FinishedWavesCompleted
<1> QED  BY <1>1, TeamInvariant, PTL

(* No task starts before everything it depends on has completed: the order  *)
(* of the waves and the barrier between them, together.                     *)
THEOREM TeamDependencies == TeamSpec => []DependenciesCompleted
<1>1. TeamIndInv => DependenciesCompleted
  <2> SUFFICES ASSUME TeamIndInv, NEW i \in DOMAIN tasks, Started(i),
                      NEW d \in DependsOn(tasks, tasks[i].id)
               PROVE  d \in Workers /\ status[TaskOf(d)] = "completed"
    BY DEF DependenciesCompleted
  <2>1. waves \in Seq(SUBSET Ids(tasks)) /\ waveIdx \in Nat /\ waveIdx <= Len(waves)
    BY DEF TeamIndInv, TeamTypeOK, WavesTypeOK
  <2>2. PICK k \in 1..waveIdx : tasks[i].id \in waves[k]
    BY StartedInBegunWave
  <2>3. PICK j \in 1..(k - 1) : d \in waves[j]
    BY <2>1, <2>2 DEF TeamIndInv, WavesIndInv, DependencyOrder
  <2>4. j \in 1..waveIdx /\ j < waveIdx
    BY <2>1, <2>2, <2>3
  <2>5. j \in DOMAIN waves /\ d \in Workers
    BY <2>1, <2>3, <2>4 DEF Workers
  <2> QED  BY <2>3, <2>4, <2>5 DEF TeamIndInv, FinishedWavesCompleted
<1> QED  BY <1>1, TeamInvariant, PTL

(* The verification command never runs beside an agent. *)
THEOREM TeamVerifiedAlone == TeamSpec => []VerifiedAlone
<1>1. TeamIndInv => VerifiedAlone
  <2> SUFFICES ASSUME TeamIndInv, pc \notin {"compute", "nextWave", "wait"},
                      NEW x \in Workers
               PROVE  at[x] \in {"none", "ended"} /\ loop[x] \in {"off", "ended"}
    BY DEF VerifiedAlone
  <2>1. at[x] \in {"none", "ended"}
    BY DEF TeamIndInv, OnlyCurrentWaveActive
  <2> QED  BY <2>1 DEF TeamIndInv, StatusAgrees
<1> QED  BY <1>1, TeamInvariant, PTL

(* What ExecuteWaves reports is what happened to the tasks. *)
THEOREM TeamResultTrue == TeamSpec => []ResultTrue
<1>1. TeamIndInv => ResultTrue
  BY DEF TeamIndInv
<1> QED  BY <1>1, TeamInvariant, PTL

(* Never more agents at once than the team was configured with. *)
THEOREM TeamWithinLimit == TeamSpec => []RunningWithinLimit
<1>1. TeamIndInv => RunningWithinLimit
  <2> SUFFICES ASSUME TeamIndInv PROVE RunningWithinLimit
    OBVIOUS
  <2> DEFINE Busy == {x \in Workers : at[x] \in {"claimed", "draining"}
                                      \/ loop[x] \in {"thinking", "writing"}}
  <2>1. \A x \in Busy : pc = "wait" /\ x \in Wave
    <3> SUFFICES ASSUME NEW x \in Busy PROVE at[x] \notin {"none", "ended"}
      BY DEF TeamIndInv, OnlyCurrentWaveActive
    <3> QED  BY DEF TeamIndInv, StatusAgrees
  <2>2. MaxWaveSize \in Nat
    BY WaveSizeAssumption DEF MaxWaveSize
  <2>3. CASE pc = "wait"
    <3>1. waveIdx \in DOMAIN waves /\ Wave = waves[waveIdx]
      BY <2>3 DEF TeamIndInv, TeamTypeOK, WavesTypeOK, PhasesAgree, Wave
    <3>2. Wave \subseteq Ids(tasks) /\ Cardinality(Wave) <= MaxWaveSize
      BY <3>1 DEF TeamIndInv, WavesIndInv, WavesTypeOK, WavesDisjointAndBounded
    <3>3. IsFiniteSet(Wave)
      <4>1. tasks \in Seq(Task)
        BY DEF TeamIndInv, TeamTypeOK, WavesTypeOK
      <4> QED  BY <4>1, <3>2, FS_Subset, IdsFinite
    <3>4. /\ Cardinality(Busy) <= Cardinality(Wave)
          /\ Cardinality(Busy) \in Nat /\ Cardinality(Wave) \in Nat
      BY <2>1, <3>3, FS_Subset, FS_CardinalityType
    <3> QED  BY <2>2, <3>2, <3>4 DEF RunningWithinLimit
  <2>4. CASE pc # "wait"
    <3>1. Busy = {}
      BY <2>1, <2>4
    <3>2. Cardinality(Busy) = 0
      BY <3>1, FS_EmptySet
    <3> QED  BY <2>2, <3>2 DEF RunningWithinLimit
  <2> QED  BY <2>3, <2>4
<1> QED  BY <1>1, TeamInvariant, PTL

(* Nobody but the task's own goroutine changes its status.                  *)
LEMMA StatusChange ==
  ASSUME TeamIndInv, [TeamNext]_teamVars, status' # status
  PROVE  \E x \in Workers : Claim(x) \/ Settle(x)
<1>1. CASE MainStep
  BY <1>1 DEF MainStep, ComputeWaves, WavesComputed, BeginWave, AllWavesDone,
     WaitWave, SkipVerify, RunVerify, RetryWait, LastRun, SendShutdown, CancelAll
<1>2. ASSUME NEW x \in Workers, WorkerStep(x) \/ LoopStep(x)
      PROVE  Claim(x) \/ Settle(x)
  BY <1>2 DEF WorkerStep, Arm, Drain, Notify, LoopStep, LoopText, BeginWrite,
     RefuseWrite, FinishWrite, LoopEnds, EndLoop
<1>3. CASE Disconnect \/ WaveTimeout \/ OtherTeam \/ UNCHANGED teamVars
  BY <1>3 DEF Disconnect, WaveTimeout, OtherTeam, OtherTeamArms,
     OtherTeamShutsDown, OtherTeamClears, teamVars
<1> QED  BY <1>1, <1>2, <1>3 DEF TeamNext, Finished

(* Only BeginWave spawns goroutines, and only for the wave it begins.       *)
LEMMA SpawnStep ==
  ASSUME TeamIndInv, [TeamNext]_teamVars, NEW x \in Workers,
         at[x] # "spawned", at'[x] = "spawned"
  PROVE  BeginWave /\ x \in waves[waveIdx + 1]
<1> USE DEF workerVars
<1>0. at \in [Workers -> {"none", "spawned", "claimed", "draining", "settled", "ended"}]
  BY DEF TeamIndInv, TeamTypeOK
<1>1. CASE MainStep
  <2>1. CASE BeginWave
    BY <1>0, <2>1 DEF BeginWave
  <2>2. CASE ~BeginWave
    BY <1>1, <2>2 DEF MainStep, ComputeWaves, WavesComputed, AllWavesDone,
       WaitWave, SkipVerify, RunVerify, RetryWait, LastRun, SendShutdown, CancelAll
  <2> QED  BY <2>1, <2>2
<1>2. ASSUME NEW y \in Workers, WorkerStep(y) \/ LoopStep(y)
      PROVE  FALSE
  <2>1. CASE WorkerStep(y)
    BY <1>0, <2>1 DEF WorkerStep, Claim, Arm, Drain, Settle, Notify
  <2>2. CASE LoopStep(y)
    BY <2>2 DEF LoopStep, LoopText, BeginWrite, RefuseWrite, FinishWrite,
       LoopEnds, EndLoop
  <2> QED  BY <1>2, <2>1, <2>2
<1>3. CASE Disconnect \/ WaveTimeout \/ OtherTeam \/ UNCHANGED teamVars
  BY <1>3 DEF Disconnect, WaveTimeout, OtherTeam, OtherTeamArms,
     OtherTeamShutsDown, OtherTeamClears, teamVars
<1> QED  BY <1>1, <1>2, <1>3 DEF TeamNext, Finished

(* A settled status is final, and no task gets a second goroutine.          *)
THEOREM TeamRunsAtMostOnce == TeamSpec => RunsAtMostOnce
<1> DEFINE Once == /\ \A i \in DOMAIN tasks :
                        status[i] \in {"completed", "failed"} => status'[i] = status[i]
                   /\ \A x \in Workers :
                        at[x] # "spawned" /\ at'[x] = "spawned" => ~Started(TaskOf(x))
<1>1. TeamIndInv /\ [TeamNext]_teamVars => [Once]_teamVars
  <2> SUFFICES ASSUME TeamIndInv, [TeamNext]_teamVars PROVE Once
    OBVIOUS
  <2>0. /\ status \in [DOMAIN tasks -> {"pending", "running", "completed", "failed"}]
        /\ WavesTypeOK /\ waveIdx \in Nat /\ waves \in Seq(SUBSET Ids(tasks))
    BY DEF TeamIndInv, TeamTypeOK, WavesTypeOK
  <2>1. ASSUME NEW i \in DOMAIN tasks, status[i] \in {"completed", "failed"}
        PROVE  status'[i] = status[i]
    <3>1. CASE status' = status
      BY <3>1
    <3>2. CASE status' # status
      <4>1. PICK x \in Workers : Claim(x) \/ Settle(x)
        BY <3>2, StatusChange
      <4>2. at[x] \in {"spawned", "draining"}
        BY <4>1 DEF Claim, Settle
      <4>3. status[TaskOf(x)] \notin {"completed", "failed"}
        <5>1. TaskOf(x) \in DOMAIN tasks /\ tasks[TaskOf(x)].id = x
          BY <2>0, TaskOfWorker
        <5>2. CASE at[x] = "spawned"
          BY <5>1, <5>2 DEF TeamIndInv, StatusAgrees, Started
        <5>3. CASE at[x] = "draining"
          BY <5>3 DEF TeamIndInv, StatusAgrees
        <5> QED  BY <4>2, <5>2, <5>3
      <4>4. i # TaskOf(x)
        BY <2>1, <4>3
      <4> QED  BY <2>0, <4>1, <4>4 DEF Claim, Settle
    <3> QED  BY <3>1, <3>2
  <2>2. ASSUME NEW x \in Workers, at[x] # "spawned", at'[x] = "spawned",
               Started(TaskOf(x))
        PROVE  FALSE
    <3>1. TaskOf(x) \in DOMAIN tasks /\ tasks[TaskOf(x)].id = x
      BY <2>0, TaskOfWorker
    <3>2. PICK k \in 1..waveIdx : x \in waves[k]
      BY <2>2, <3>1, StartedInBegunWave
    <3>3. BeginWave /\ x \in waves[waveIdx + 1]
      BY <2>2, SpawnStep
    <3>4. k \in DOMAIN waves /\ waveIdx + 1 \in DOMAIN waves /\ k # waveIdx + 1
      BY <2>0, <3>2, <3>3 DEF BeginWave
    <3> QED  BY <3>2, <3>3, <3>4 DEF TeamIndInv, WavesIndInv, WavesDisjointAndBounded
  <2> QED  BY <2>1, <2>2
<1> QED  BY <1>1, TeamInvariant, PTL DEF TeamSpec, RunsAtMostOnce

-----------------------------------------------------------------------------
(* The router between the members of a team (MessageRouter), for any       *)
(* agents, messages, channels and capacity: a direct message goes one way, *)
(* and nothing is sent on a closed channel.                                *)
Box == (SUBSET Entry) \cup {NoFile}

(* Where a message has got to, whoever is to read it there.                *)
InChannel(m) == \E c \in Channel : m \in got[c] \/ m \in ToSet(channel[c])
InMailbox(m) == \E a \in Agent : Saved(m, a)

Types ==
    /\ inbox \in [Agent -> Box]
    /\ subscribers \in [Agent -> Channel \cup {Nobody}]
    /\ made \subseteq Channel /\ closed \subseteq made
    /\ reader \in [Channel -> Agent \cup {Nobody}]
    /\ channel \in [Channel -> Seq(Message)]
    /\ \A c \in Channel : Len(channel[c]) <= Capacity
    /\ got \in [Channel -> SUBSET Message]
    /\ sending \in [Message -> {"unsent", "live", "save", "sent"}]
    /\ todo \in [Message -> SUBSET Agent]
    /\ polled \in [Agent -> SUBSET Message]

(* A subscriber's channel is open, and its own; a Send under way has work  *)
(* to do for subscribers only, and one that is to save a direct message    *)
(* has none.                                                               *)
Subscriptions ==
    /\ \A a \in Agent : subscribers[a] # Nobody =>
           subscribers[a] \in made \ closed /\ reader[subscribers[a]] = a
    /\ \A m \in Message : \A a \in todo[m] : subscribers[a] # Nobody
    /\ \A m \in Message : todo[m] # {} => sending[m] \in {"live", "save"}
    /\ \A m \in Message : To[m] # Everyone /\ sending[m] = "save" => todo[m] = {}

(* A direct message is in no mailbox before it was sent, in no channel     *)
(* before it is sent live, and never in both.                              *)
OneWayInv ==
    \A m \in Message : To[m] # Everyone =>
        /\ sending[m] # "sent" => ~InMailbox(m)
        /\ sending[m] \in {"unsent", "save"} => ~InChannel(m)
        /\ ~(InMailbox(m) /\ InChannel(m))

RouterInv == Types /\ Subscriptions /\ OneWayInv

-----------------------------------------------------------------------------
(* Contents of inboxes and channels.                                       *)

LEMMA AppendedType ==
    ASSUME NEW f \in Box, NEW m \in Message
    PROVE  /\ Appended(f, m) \in SUBSET Entry /\ Appended(f, m) # NoFile
           /\ \A e \in Appended(f, m) : e.msg = m \/ e \in Entries(f)
<1>1. Entries(f) \in SUBSET Entry
  BY DEF Entries, Box
<1>2. [msg |-> m, read |-> FALSE] \in Entry
  BY DEF Entry
<1>3. Appended(f, m) \in SUBSET Entry
  BY <1>1, <1>2 DEF Appended
<1>4. QED
  BY <1>1, <1>3, NoFileAssumption DEF Appended

LEMMA MarkedReadType ==
    ASSUME NEW f \in Box
    PROVE  /\ MarkedRead(f) \in SUBSET Entry /\ MarkedRead(f) # NoFile
           /\ \A e \in MarkedRead(f) : \E x \in Entries(f) : x.msg = e.msg
           /\ Unread(f) \subseteq Message
           /\ \A m \in Unread(f) : \E x \in Entries(f) : x.msg = m
<1>1. Entries(f) \in SUBSET Entry
  BY DEF Entries, Box
<1>2. ASSUME NEW e \in Entries(f)
      PROVE  [e EXCEPT !.read = TRUE] \in Entry /\ [e EXCEPT !.read = TRUE].msg = e.msg
  BY <1>1 DEF Entry
<1>3. MarkedRead(f) \in SUBSET Entry
  BY <1>2 DEF MarkedRead
<1>4. MarkedRead(f) # NoFile
  BY <1>3, NoFileAssumption
<1>5. \A e \in MarkedRead(f) : \E x \in Entries(f) : x.msg = e.msg
  BY <1>2 DEF MarkedRead
<1>6. Unread(f) \subseteq Message
  BY <1>1 DEF Unread, Entry
<1>7. QED
  BY <1>3, <1>4, <1>5, <1>6 DEF Unread

LEMMA AppendSet ==
    ASSUME NEW s \in Seq(Message), NEW m \in Message
    PROVE  ToSet(Append(s, m)) = ToSet(s) \cup {m}
<1>1. Append(s, m) \in Seq(Message) /\ DOMAIN Append(s, m) = 1..(Len(s) + 1)
      /\ \A i \in 1..(Len(s) + 1) : Append(s, m)[i] = IF i <= Len(s) THEN s[i] ELSE m
  OBVIOUS
<1>2. DOMAIN s = 1..Len(s) /\ Len(s) \in Nat
  OBVIOUS
<1>3. ASSUME NEW x \in ToSet(Append(s, m)) PROVE x \in ToSet(s) \cup {m}
  BY <1>1, <1>2 DEF ToSet
<1>4. ASSUME NEW x \in ToSet(s) PROVE x \in ToSet(Append(s, m))
  <2>1. PICK i \in 1..Len(s) : x = s[i]
    BY <1>2 DEF ToSet
  <2>2. i \in DOMAIN Append(s, m) /\ Append(s, m)[i] = x
    BY <1>1, <1>2, <2>1
  <2>3. QED
    BY <2>2 DEF ToSet
<1>5. m \in ToSet(Append(s, m))
  <2>1. Len(s) + 1 \in DOMAIN Append(s, m) /\ Append(s, m)[Len(s) + 1] = m
    BY <1>1, <1>2
  <2>2. QED
    BY <2>1 DEF ToSet
<1>6. QED
  BY <1>3, <1>4, <1>5

LEMMA HeadTailSet ==
    ASSUME NEW s \in Seq(Message), s # <<>>
    PROVE  /\ Tail(s) \in Seq(Message) /\ Len(Tail(s)) <= Len(s) /\ Head(s) \in Message
           /\ ToSet(s) = ToSet(Tail(s)) \cup {Head(s)}
<1>1. DOMAIN s = 1..Len(s) /\ Len(s) \in Nat /\ Len(s) > 0
  OBVIOUS
<1>2. DOMAIN Tail(s) = 1..(Len(s) - 1) /\ \A i \in 1..(Len(s) - 1) : Tail(s)[i] = s[i + 1]
  BY <1>1
<1>3. Head(s) = s[1]
  BY <1>1
<1>4. ASSUME NEW x \in ToSet(s) PROVE x \in ToSet(Tail(s)) \cup {Head(s)}
  <2>1. PICK i \in 1..Len(s) : x = s[i]
    BY <1>1 DEF ToSet
  <2>2. CASE i = 1
    BY <1>3, <2>1, <2>2
  <2>3. CASE i # 1
    <3>1. i - 1 \in DOMAIN Tail(s) /\ Tail(s)[i - 1] = x
      BY <1>1, <1>2, <2>1, <2>3
    <3>2. QED
      BY <3>1 DEF ToSet
  <2>4. QED
    BY <2>2, <2>3
<1>5. ASSUME NEW x \in ToSet(Tail(s)) PROVE x \in ToSet(s)
  BY <1>1, <1>2 DEF ToSet
<1>6. Head(s) \in ToSet(s)
  BY <1>1, <1>3 DEF ToSet
<1>7. Tail(s) \in Seq(Message) /\ Len(Tail(s)) <= Len(s) /\ Head(s) \in Message
  BY <1>1
<1>8. QED
  BY <1>4, <1>5, <1>6, <1>7

(* What a step that puts at most m anywhere leaves true of the others.     *)
LEMMA OneWayOfOthers ==
    ASSUME OneWayInv, NEW m \in Message,
           \A n \in Message \ {m} : sending'[n] = sending[n],
           \A n \in Message \ {m} : To[n] # Everyone /\ InChannel(n)' => InChannel(n),
           \A n \in Message \ {m} : To[n] # Everyone /\ InMailbox(n)' => InMailbox(n),
           To[m] # Everyone =>
               /\ sending'[m] # "sent" => ~InMailbox(m)'
               /\ sending'[m] \in {"unsent", "save"} => ~InChannel(m)'
               /\ ~(InMailbox(m)' /\ InChannel(m)')
    PROVE  OneWayInv'
<1>1. ASSUME NEW n \in Message, n # m, To[n] # Everyone
      PROVE  /\ sending'[n] # "sent" => ~InMailbox(n)'
             /\ sending'[n] \in {"unsent", "save"} => ~InChannel(n)'
             /\ ~(InMailbox(n)' /\ InChannel(n)')
  BY <1>1 DEF OneWayInv
<1>2. QED
  BY <1>1 DEF OneWayInv

(* A step that puts no message anywhere. *)
LEMMA OneWayStays ==
    ASSUME OneWayInv, sending' = sending,
           \A n \in Message : InChannel(n)' => InChannel(n),
           \A n \in Message : InMailbox(n)' => InMailbox(n)
    PROVE  OneWayInv'
BY DEF OneWayInv

-----------------------------------------------------------------------------
LEMMA RouterInvInit == RouterInit => RouterInv
<1> SUFFICES ASSUME RouterInit PROVE RouterInv
  OBVIOUS
<1>1. inbox \in [Agent -> {NoFile, {}}]
  BY DEF RouterInit, AtomicInit
<1>2. Types
  BY <1>1, CapacityAssumption DEF RouterInit, Types, Box
<1>3. Subscriptions
  BY DEF RouterInit, Subscriptions
<1>4. \A m \in Message : ~InChannel(m)
  BY DEF RouterInit, InChannel, ToSet
<1>5. \A m \in Message : ~InMailbox(m)
  BY <1>1 DEF RouterInit, InMailbox, Saved, Entries
<1>6. QED
  BY <1>2, <1>3, <1>4, <1>5 DEF RouterInv, OneWayInv

LEMMA SubscribeKeeps == ASSUME RouterInv, NEW a \in Agent, Subscribe(a) PROVE RouterInv'
<1>1. PICK c \in Channel \ made :
          /\ subscribers' = [subscribers EXCEPT ![a] = c]
          /\ made' = made \cup {c}
          /\ reader' = [reader EXCEPT ![c] = a]
  BY DEF Subscribe
<1>2. /\ closed' = closed /\ channel' = channel /\ got' = got
      /\ sending' = sending /\ todo' = todo /\ polled' = polled
  BY DEF Subscribe
<1>3. inbox' \in [Agent -> Box] /\ \A b \in Agent : Entries(inbox'[b]) = Entries(inbox[b])
  <2>1. CASE inbox[a] = NoFile
    BY <2>1 DEF Subscribe, Create, RouterInv, Types, Box, Entries
  <2>2. CASE inbox[a] # NoFile
    BY <2>2 DEF Subscribe, RouterInv, Types
  <2>3. QED
    BY <2>1, <2>2
<1>4. Types'
  BY <1>1, <1>2, <1>3 DEF RouterInv, Types
<1>5. Subscriptions'
  BY <1>1, <1>2, NobodyAssumption DEF RouterInv, Types, Subscriptions
<1>6. \A n \in Message : InChannel(n)' <=> InChannel(n)
  BY <1>2 DEF InChannel
<1>7. \A n \in Message : InMailbox(n)' <=> InMailbox(n)
  BY <1>2, <1>3 DEF InMailbox, Saved
<1>8. QED
  BY <1>2, <1>4, <1>5, <1>6, <1>7, OneWayStays DEF RouterInv

LEMMA UnsubscribeKeeps == ASSUME RouterInv, NEW a \in Agent, Unsubscribe(a) PROVE RouterInv'
<1>1. /\ Exclusive /\ subscribers[a] # Nobody
      /\ closed' = closed \cup {subscribers[a]}
      /\ subscribers' = [subscribers EXCEPT ![a] = Nobody]
      /\ UNCHANGED <<inbox, made, reader, channel, got, sending, todo, polled>>
  BY DEF Unsubscribe
<1>2. Types'
  BY <1>1 DEF RouterInv, Types, Subscriptions
<1>3. \A m \in Message : todo[m] = {}
  BY <1>1 DEF Exclusive, RouterInv, Subscriptions
<1>4. Subscriptions'
  <2>1. ASSUME NEW b \in Agent, subscribers'[b] # Nobody
        PROVE  subscribers'[b] \in made' \ closed' /\ reader'[subscribers'[b]] = b
    <3>1. b # a /\ subscribers'[b] = subscribers[b]
      BY <1>1, <2>1 DEF RouterInv, Types
    <3>2. subscribers[b] # subscribers[a]
      BY <1>1, <2>1, <3>1 DEF RouterInv, Subscriptions
    <3>3. QED
      BY <1>1, <2>1, <3>1, <3>2 DEF RouterInv, Subscriptions
  <2>2. QED
    BY <1>1, <1>3, <2>1 DEF RouterInv, Subscriptions
<1>5. \A n \in Message : InChannel(n)' <=> InChannel(n)
  BY <1>1 DEF InChannel
<1>6. \A n \in Message : InMailbox(n)' <=> InMailbox(n)
  BY <1>1 DEF InMailbox, Saved
<1>7. QED
  BY <1>1, <1>2, <1>4, <1>5, <1>6, OneWayStays DEF RouterInv

LEMMA SendKeeps == ASSUME RouterInv, NEW m \in Message, Send(m) PROVE RouterInv'
<1>1. sending[m] = "unsent" /\ UNCHANGED <<inbox, subscriptionVars, channel, got, polled>>
  BY DEF Send
<1>2. CASE To[m] = Everyone
  <2>1. sending' = [sending EXCEPT ![m] = "save"] /\ todo' = [todo EXCEPT ![m] = Online \ {Sender[m]}]
    BY <1>2 DEF Send
  <2>2. Types'
    BY <1>1, <2>1 DEF RouterInv, Types, Online, subscriptionVars
  <2>3. Subscriptions'
    BY <1>1, <1>2, <2>1 DEF RouterInv, Types, Subscriptions, Online, subscriptionVars
  <2>4. OneWayInv'
    BY <1>1, <1>2, <2>1 DEF RouterInv, Types, OneWayInv, InChannel, InMailbox, Saved, subscriptionVars
  <2>5. QED
    BY <2>2, <2>3, <2>4 DEF RouterInv
<1>3. CASE To[m] # Everyone
  <2>1. /\ sending' = [sending EXCEPT ![m] = IF To[m] \in Online THEN "live" ELSE "save"]
        /\ todo' = [todo EXCEPT ![m] = {To[m]} \cap Online]
    BY <1>3 DEF Send
  <2>2. Types'
    BY <1>1, <2>1 DEF RouterInv, Types, Online, subscriptionVars
  <2>3. Subscriptions'
    BY <1>1, <1>3, <2>1 DEF RouterInv, Types, Subscriptions, Online, subscriptionVars
  <2>4. OneWayInv'
    BY <1>1, <1>3, <2>1 DEF RouterInv, Types, OneWayInv, InChannel, InMailbox, Saved, subscriptionVars
  <2>5. QED
    BY <2>2, <2>3, <2>4 DEF RouterInv
<1>4. QED
  BY <1>2, <1>3

LEMMA DeliverKeeps == ASSUME RouterInv, NEW m \in Message, DeliverToChannel(m) PROVE RouterInv'
<1>1. PICK a \in todo[m] :
          /\ channel' = [channel EXCEPT ![subscribers[a]] =
                            IF Len(@) < Capacity THEN Append(@, m) ELSE @]
          /\ todo' = [todo EXCEPT ![m] = @ \ {a}]
  BY DEF DeliverToChannel
<1>2. UNCHANGED <<inbox, subscriptionVars, got, sending, polled>>
  BY DEF DeliverToChannel
<1>3. a \in Agent /\ subscribers[a] \in Channel
  BY <1>1 DEF RouterInv, Types, Subscriptions
<1> DEFINE c == subscribers[a]
<1>4. channel[c] \in Seq(Message) /\ channel'[c] \in Seq(Message) /\ Len(channel'[c]) <= Capacity
      /\ ToSet(channel'[c]) \subseteq ToSet(channel[c]) \cup {m}
  BY <1>1, <1>3, AppendSet, CapacityAssumption DEF RouterInv, Types
<1>5. \A d \in Channel \ {c} : channel'[d] = channel[d]
  BY <1>1 DEF RouterInv, Types
<1>6. Types'
  <2>1. channel' \in [Channel -> Seq(Message)] /\ \A d \in Channel : Len(channel'[d]) <= Capacity
    BY <1>1, <1>4, <1>5 DEF RouterInv, Types
  <2>2. todo' \in [Message -> SUBSET Agent]
    BY <1>1 DEF RouterInv, Types
  <2>3. QED
    BY <1>2, <2>1, <2>2 DEF RouterInv, Types, subscriptionVars
<1>7. Subscriptions'
  BY <1>1, <1>2 DEF RouterInv, Types, Subscriptions, subscriptionVars
<1>8. \A n \in Message \ {m} : InChannel(n)' => InChannel(n)
  BY <1>2, <1>4, <1>5 DEF InChannel
<1>9. \A n \in Message : InMailbox(n)' <=> InMailbox(n)
  BY <1>2 DEF InMailbox, Saved
<1>10. To[m] # Everyone => sending[m] = "live"
  BY <1>1 DEF RouterInv, Subscriptions
<1>11. OneWayInv'
  BY <1>2, <1>8, <1>9, <1>10, OneWayOfOthers DEF RouterInv, OneWayInv
<1>12. QED
  BY <1>6, <1>7, <1>11 DEF RouterInv

LEMMA SaveKeeps == ASSUME RouterInv, NEW m \in Message, SaveToMailbox(m) PROVE RouterInv'
<1>1. /\ sending[m] = "save" /\ todo[m] = {} /\ sending' = [sending EXCEPT ![m] = "sent"]
      /\ UNCHANGED <<subscriptionVars, channel, got, todo, polled>>
  BY DEF SaveToMailbox
<1>2. /\ inbox' \in [Agent -> Box]
      /\ \A b \in Agent : \A e \in Entries(inbox'[b]) : e.msg = m \/ e \in Entries(inbox[b])
  <2>1. \A b \in Agent : inbox[b] \in Box
    BY DEF RouterInv, Types
  <2>2. \A b \in Agent : /\ Appended(inbox[b], m) \in Box
                         /\ Entries(Appended(inbox[b], m)) = Appended(inbox[b], m)
                         /\ \A e \in Appended(inbox[b], m) : e.msg = m \/ e \in Entries(inbox[b])
    BY <2>1, AppendedType DEF Box, Entries
  <2>3. CASE To[m] = Everyone
    <3>1. inbox' = [b \in Agent |-> IF inbox[b] = NoFile \/ b = Sender[m] THEN inbox[b]
                                    ELSE Appended(inbox[b], m)]
      BY <2>3 DEF SaveToMailbox
    <3>2. QED
      BY <2>1, <2>2, <3>1
  <2>4. CASE To[m] # Everyone
    <3>1. inbox' = [inbox EXCEPT ![To[m]] = Appended(@, m)] /\ To[m] \in Agent
      BY <2>4, ToAssumption DEF SaveToMailbox, Deliver
    <3>2. QED
      BY <2>1, <2>2, <3>1 DEF RouterInv, Types
  <2>5. QED
    BY <2>3, <2>4
<1>3. Types'
  BY <1>1, <1>2 DEF RouterInv, Types, subscriptionVars
<1>4. Subscriptions'
  BY <1>1 DEF RouterInv, Types, Subscriptions, subscriptionVars
<1>5. \A n \in Message : InChannel(n)' <=> InChannel(n)
  BY <1>1 DEF InChannel
<1>6. \A n \in Message \ {m} : InMailbox(n)' => InMailbox(n)
  BY <1>1, <1>2 DEF InMailbox, Saved
<1>7. \A n \in Message \ {m} : sending'[n] = sending[n]
  BY <1>1 DEF RouterInv, Types
<1>8. sending'[m] = "sent"
  BY <1>1 DEF RouterInv, Types
<1>9. To[m] # Everyone => ~InChannel(m)'
  BY <1>1, <1>5 DEF RouterInv, OneWayInv
<1>10. OneWayInv'
  BY <1>5, <1>6, <1>7, <1>8, <1>9, OneWayOfOthers DEF RouterInv
<1>11. QED
  BY <1>3, <1>4, <1>10 DEF RouterInv

LEMMA ReturnKeeps == ASSUME RouterInv, NEW m \in Message, Return(m) PROVE RouterInv'
<1>1. /\ sending[m] = "live" /\ todo[m] = {} /\ sending' = [sending EXCEPT ![m] = "sent"]
      /\ UNCHANGED <<inbox, subscriptionVars, channel, got, todo, polled>>
  BY DEF Return
<1>2. Types'
  BY <1>1 DEF RouterInv, Types, subscriptionVars
<1>3. Subscriptions'
  BY <1>1 DEF RouterInv, Types, Subscriptions, subscriptionVars
<1>4. \A n \in Message : (InChannel(n)' <=> InChannel(n)) /\ (InMailbox(n)' <=> InMailbox(n))
  BY <1>1 DEF InChannel, InMailbox, Saved
<1>5. \A n \in Message \ {m} : sending'[n] = sending[n]
  BY <1>1 DEF RouterInv, Types
<1>6. sending'[m] = "sent" /\ (To[m] # Everyone => ~(InMailbox(m)' /\ InChannel(m)'))
  BY <1>1, <1>4 DEF RouterInv, Types, OneWayInv
<1>7. OneWayInv'
  BY <1>4, <1>5, <1>6, OneWayOfOthers DEF RouterInv
<1>8. QED
  BY <1>2, <1>3, <1>7 DEF RouterInv

LEMMA ReadKeeps == ASSUME RouterInv, NEW c \in Channel, Read(c) PROVE RouterInv'
<1>1. /\ channel[c] # <<>>
      /\ got' = [got EXCEPT ![c] = @ \cup {Head(channel[c])}]
      /\ channel' = [channel EXCEPT ![c] = Tail(@)]
      /\ UNCHANGED <<inbox, subscriptionVars, sending, todo, polled>>
  BY DEF Read
<1>2. /\ Tail(channel[c]) \in Seq(Message) /\ Len(Tail(channel[c])) <= Len(channel[c])
      /\ Head(channel[c]) \in Message
      /\ ToSet(channel[c]) = ToSet(Tail(channel[c])) \cup {Head(channel[c])}
  BY <1>1, HeadTailSet DEF RouterInv, Types
<1>3. Types'
  <2>1. channel' \in [Channel -> Seq(Message)] /\ got' \in [Channel -> SUBSET Message]
    BY <1>1, <1>2 DEF RouterInv, Types
  <2>2. \A d \in Channel : Len(channel'[d]) <= Len(channel[d])
    BY <1>1, <1>2 DEF RouterInv, Types
  <2>3. \A d \in Channel : Len(channel'[d]) <= Capacity
    BY <2>1, <2>2, CapacityAssumption DEF RouterInv, Types
  <2>4. QED
    BY <1>1, <2>1, <2>3 DEF RouterInv, Types, subscriptionVars
<1>4. Subscriptions'
  BY <1>1 DEF RouterInv, Subscriptions, subscriptionVars
<1>5. \A n \in Message : InChannel(n)' => InChannel(n)
  BY <1>1, <1>2 DEF InChannel, RouterInv, Types
<1>6. \A n \in Message : InMailbox(n)' <=> InMailbox(n)
  BY <1>1 DEF InMailbox, Saved
<1>7. QED
  BY <1>1, <1>3, <1>4, <1>5, <1>6, OneWayStays DEF RouterInv

LEMMA PollKeeps == ASSUME RouterInv, NEW a \in Agent, PollMailbox(a) PROVE RouterInv'
<1>1. /\ polled' = [polled EXCEPT ![a] = @ \cup Unread(inbox[a])]
      /\ inbox' = [inbox EXCEPT ![a] = MarkedRead(@)]
      /\ UNCHANGED <<subscriptionVars, channel, got, sending, todo>>
  BY DEF PollMailbox, Take
<1>2. inbox[a] \in Box
  BY DEF RouterInv, Types
<1>3. /\ MarkedRead(inbox[a]) \in Box /\ Unread(inbox[a]) \subseteq Message
      /\ Entries(MarkedRead(inbox[a])) = MarkedRead(inbox[a])
      /\ \A e \in MarkedRead(inbox[a]) : \E x \in Entries(inbox[a]) : x.msg = e.msg
      /\ \A m \in Unread(inbox[a]) : \E x \in Entries(inbox[a]) : x.msg = m
  BY <1>2, MarkedReadType DEF Box, Entries
<1>4. Types'
  BY <1>1, <1>3 DEF RouterInv, Types, subscriptionVars
<1>5. Subscriptions'
  BY <1>1 DEF RouterInv, Subscriptions, subscriptionVars
<1>6. \A n \in Message : InChannel(n)' <=> InChannel(n)
  BY <1>1 DEF InChannel
<1>7. \A n \in Message : InMailbox(n)' => InMailbox(n)
  <2>1. SUFFICES ASSUME NEW n \in Message, NEW b \in Agent, Saved(n, b)'
                 PROVE  Saved(n, b)
    BY DEF InMailbox
  <2>2. CASE b = a
    BY <1>1, <1>2, <1>3, <2>1, <2>2 DEF Saved, RouterInv, Types
  <2>3. CASE b # a
    BY <1>1, <2>1, <2>3 DEF Saved, RouterInv, Types
  <2>4. QED
    BY <2>2, <2>3
<1>8. QED
  BY <1>1, <1>4, <1>5, <1>6, <1>7, OneWayStays DEF RouterInv

LEMMA RouterInvNext == RouterInv /\ [RouterNext]_routerVars => RouterInv'
<1>1. ASSUME RouterInv, UNCHANGED routerVars PROVE RouterInv'
  <2>1. UNCHANGED <<inbox, subscribers, made, closed, reader, channel, got, sending, todo, polled>>
    BY <1>1 DEF routerVars, subscriptionVars
  <2>2. \A n \in Message : (InChannel(n)' <=> InChannel(n)) /\ (InMailbox(n)' <=> InMailbox(n))
    BY <2>1 DEF InChannel, InMailbox, Saved
  <2>3. Types' /\ Subscriptions'
    BY <1>1, <2>1 DEF RouterInv, Types, Subscriptions
  <2>4. QED
    BY <1>1, <2>1, <2>2, <2>3, OneWayStays DEF RouterInv
<1>2. QED
  BY <1>1, SubscribeKeeps, UnsubscribeKeeps, PollKeeps, SendKeeps, DeliverKeeps, SaveKeeps,
     ReturnKeeps, ReadKeeps DEF RouterNext, Continue

-----------------------------------------------------------------------------
LEMMA BoundedChannel ==
    ASSUME NEW s \in Seq(Message), Len(s) <= Capacity
    PROVE  s \in BoundedSeq(Message, Capacity)
<1>1. Len(s) \in 0..Capacity /\ s \in [1..Len(s) -> Message]
  BY CapacityAssumption
<1>2. QED
  BY <1>1 DEF BoundedSeq, SeqOf

(* Of any agents, messages and channels: types; a direct message reaches   *)
(* its agent live or by the mailbox, never both ways; no Send has work to  *)
(* do on a closed channel (message_router.go:57-98).                       *)
THEOREM RouterIsSafe == RouterSpec => []RouterSafe
<1>1. RouterInv => RouterSafe
  <2>1. SUFFICES ASSUME RouterInv PROVE RouterSafe
    OBVIOUS
  <2>2. RouterTypeOK
    BY <2>1, BoundedChannel DEF RouterInv, Types, RouterTypeOK, Box
  <2>3. OneWay
    BY <2>1 DEF RouterInv, OneWayInv, OneWay, Live, InChannel, InMailbox
  <2>4. NeverOnClosed
    BY <2>1 DEF RouterInv, Types, Subscriptions, NeverOnClosed
  <2>5. QED
    BY <2>2, <2>3, <2>4 DEF RouterSafe
<1>2. QED
  BY RouterInvInit, RouterInvNext, <1>1, PTL DEF RouterSpec
=============================================================================
