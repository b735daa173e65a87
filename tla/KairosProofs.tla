----------------------------- MODULE KairosProofs -----------------------------
(***************************************************************************)
(* The KAIROS daemon (Kairos) for any daemons, handlers, tick loops and    *)
(* projects: a daemon has one loop that was not told to end, the one its   *)
(* Stop will cancel; and while the server made one daemon, its list is the *)
(* one in tasks.json.  And its notifier (GitWatch) for any number of tick  *)
(* loops and clients and for channels and a history of any size: the       *)
(* history is the end of what was sent, and what one Send sends reaches a  *)
(* client once at most.                                                    *)
(***************************************************************************)
EXTENDS Kairos, GitWatch, SequenceTheorems, TLAPS

LoopRecord ==
    [pc : {"none", "wait", "begin", "next", "mark", "ended"}, daemon : Daemon \cup {None},
     cancelled : BOOLEAN, next : Nat, pending : 0..MaxClock, now : 0..MaxClock,
     todo : TaskList, list : Project \cup {None}, on : Project \cup {None}]

RequestRecord ==
    [pc : {"idle", "make", "read", "switch", "check", "add", "start", "tell"},
     daemon : Daemon \cup {None}, dir : Project \cup {None}]

(* A loop is of a daemon that was made, and marks a task it has.            *)
LoopOK(l) ==
    /\ loop[l].pc # "none" => loop[l].daemon \in made
    /\ loop[l].pc = "mark" => loop[l].todo # <<>>

(* A handler that found or made a daemon works on one that was made.       *)
HandlerOK(r) == request[r].pc \notin {"idle", "make"} => request[r].daemon \in made

(* A daemon that was not made has no project. *)
NoProject == \A d \in Daemon \ made : dir[d] = None

KairosTypes ==
    /\ KairosTypeOK
    /\ loop \in [Loop -> LoopRecord] /\ \A l \in Loop : LoopOK(l)
    /\ request \in [Request -> RequestRecord] /\ \A r \in Request : HandlerOK(r)
    /\ NoProject

KairosInv == KairosTypes /\ OneLoopEach /\ (OneMade => ListIsSaved)

-----------------------------------------------------------------------------
(* Lists of tasks.                                                           *)

LEMMA TaskListSeq ==
  ASSUME NEW s
  PROVE  s \in TaskList <=> s \in Seq(Task) /\ Len(s) <= MaxTasks
<1>1. ASSUME s \in TaskList PROVE s \in Seq(Task) /\ Len(s) <= MaxTasks
  <2>1. PICK m \in 0..MaxTasks : s \in [1..m -> Task]
    BY <1>1 DEF TaskList, BoundedSeq, SeqOf
  <2>2. m \in Nat /\ m <= MaxTasks
    BY <2>1, TasksAssumption
  <2>3. s \in Seq(Task)
    BY <2>1, <2>2, IsASeq
  <2> QED  BY <2>1, <2>2, <2>3, LenProperties
<1>2. ASSUME s \in Seq(Task), Len(s) <= MaxTasks PROVE s \in TaskList
  <2>1. Len(s) \in 0..MaxTasks /\ s \in [1..Len(s) -> Task]
    BY <1>2, TasksAssumption, LenProperties
  <2> QED  BY <2>1 DEF TaskList, BoundedSeq, SeqOf
<1> QED  BY <1>1, <1>2

LEMMA EmptyList == <<>> \in TaskList
<1>1. <<>> \in Seq(Task) /\ Len(<<>>) <= MaxTasks
  BY EmptySeq, TasksAssumption
<1> QED  BY <1>1, TaskListSeq

LEMMA AppendTask ==
  ASSUME NEW s \in TaskList, NEW t \in Task, Len(s) < MaxTasks
  PROVE  Append(s, t) \in TaskList
<1>1. s \in Seq(Task)
  BY TaskListSeq
<1>2. Append(s, t) \in Seq(Task) /\ Len(Append(s, t)) = Len(s) + 1 /\ Len(s) \in Nat
  BY <1>1, AppendProperties
<1>3. Len(Append(s, t)) <= MaxTasks
  BY <1>2, TasksAssumption
<1> QED  BY <1>2, <1>3, TaskListSeq

LEMMA TailTasks ==
  ASSUME NEW s \in TaskList, s # <<>>
  PROVE  Tail(s) \in TaskList /\ Head(s) \in Task
<1>1. s \in Seq(Task) /\ Len(s) <= MaxTasks
  BY TaskListSeq
<1>2. Tail(s) \in Seq(Task) /\ Len(Tail(s)) = Len(s) - 1 /\ Len(s) \in Nat /\ Head(s) \in Task
  BY <1>1, HeadTailProperties
<1>3. Len(Tail(s)) <= MaxTasks
  BY <1>1, <1>2, TasksAssumption
<1> QED  BY <1>2, <1>3, TaskListSeq

LEMMA RemoveTaskAt ==
  ASSUME NEW s \in TaskList, NEW i \in DOMAIN s
  PROVE  RemoveAt(s, i) \in TaskList
<1>1. s \in Seq(Task) /\ Len(s) <= MaxTasks /\ i \in 1..Len(s) /\ Len(s) \in Nat
  BY TaskListSeq
<1>2. /\ SubSeq(s, 1, i - 1) \in Seq(Task) /\ Len(SubSeq(s, 1, i - 1)) = i - 1
      /\ SubSeq(s, i + 1, Len(s)) \in Seq(Task) /\ Len(SubSeq(s, i + 1, Len(s))) = Len(s) - i
  BY <1>1, SubSeqProperties
<1>3. RemoveAt(s, i) \in Seq(Task) /\ Len(RemoveAt(s, i)) = Len(s) - 1
  <2>1. /\ SubSeq(s, 1, i - 1) \o SubSeq(s, i + 1, Len(s)) \in Seq(Task)
        /\ Len(SubSeq(s, 1, i - 1) \o SubSeq(s, i + 1, Len(s))) = (i - 1) + (Len(s) - i)
    BY <1>2, ConcatProperties
  <2>2. (i - 1) + (Len(s) - i) = Len(s) - 1
    BY <1>1
  <2> QED  BY <2>1, <2>2, Zenon DEF RemoveAt
<1>4. Len(RemoveAt(s, i)) <= MaxTasks
  BY <1>1, <1>3, TasksAssumption
<1> QED  BY <1>3, <1>4, TaskListSeq

(* To change the tasks of a list one by one. *)
LEMMA ChangedTasks ==
  ASSUME NEW s \in TaskList, NEW f \in [DOMAIN s -> Task]
  PROVE  f \in TaskList
<1>1. s \in Seq(Task) /\ Len(s) <= MaxTasks /\ Len(s) \in Nat /\ DOMAIN s = 1..Len(s)
  BY TaskListSeq
<1>2. f \in Seq(Task) /\ Len(f) = Len(s)
  <2>1. f \in [1..Len(s) -> Task]
    BY <1>1
  <2> QED  BY <1>1, <2>1, IsASeq, LenProperties
<1> QED  BY <1>1, <1>2, TaskListSeq

Ids(list) == [i \in DOMAIN list |-> list[i].id]

LEMMA KairosInvInit == KairosInit => KairosInv
<1> SUFFICES ASSUME KairosInit PROVE KairosInv
  OBVIOUS
<1>1. loop \in [Loop -> LoopRecord] /\ \A l \in Loop : loop[l] = NoLoop /\ LoopOK(l)
  <2>1. NoLoop \in LoopRecord
    BY EmptyList, ClockAssumption DEF NoLoop, LoopRecord, Never
  <2> QED  BY <2>1 DEF KairosInit, LoopOK, NoLoop
<1>2. request \in [Request -> RequestRecord] /\ \A r \in Request : HandlerOK(r)
  BY DEF KairosInit, RequestRecord, Idling, HandlerOK
<1>3. KairosTypeOK
  <2>1. \A l \in Loop : /\ loop[l].pc \in {"none", "wait", "begin", "next", "mark", "ended"}
                        /\ loop[l].daemon \in made \cup {None}
                        /\ loop[l].todo \in TaskList
                        /\ loop[l].now \in 0..clock /\ loop[l].pending \in 0..clock
    BY <1>1, EmptyList DEF KairosInit, NoLoop, Never
  <2> QED  BY <2>1, EmptyList, ClockAssumption DEF KairosInit, KairosTypeOK
<1>4. NoProject
  BY DEF KairosInit, NoProject
<1>5. OneLoopEach
  BY <1>1 DEF OneLoopEach, Live, NoLoop
<1>6. ListIsSaved
  BY DEF KairosInit, ListIsSaved
<1> QED  BY <1>1, <1>2, <1>3, <1>4, <1>5, <1>6 DEF KairosInv, KairosTypes

-----------------------------------------------------------------------------
(* A tick loop goes on: it stays with its daemon and is cancelled or not as  *)
(* it was; the list of its daemon keeps its tasks.                           *)
LEMMA LoopGoesOn ==
  ASSUME KairosInv, NEW l \in Loop, loop[l].pc # "none",
         NEW rec \in LoopRecord, loop' = [loop EXCEPT ![l] = rec],
         rec.pc # "none", rec.daemon = loop[l].daemon, rec.cancelled = loop[l].cancelled,
         rec.pc = "mark" => rec.todo # <<>>,
         loop[l].pc # "ended",
         rec.now \in 0..clock, rec.pending \in 0..clock,
         tasks' \in [Daemon -> TaskList],
         \A d \in Daemon : Ids(tasks'[d]) = Ids(tasks[d]),
         state' \in [Daemon -> {"idle", "sleeping", "working"}],
         UNCHANGED <<serverVars, saved, dir, cancel, clock>>
  PROVE  KairosInv'
<1>0. /\ KairosTypes /\ KairosTypeOK /\ OneLoopEach /\ (OneMade => ListIsSaved)
      /\ loop \in [Loop -> LoopRecord] /\ \A j \in Loop : LoopOK(j)
      /\ UNCHANGED <<slot, workDir, made, request>>
  BY DEF KairosInv, KairosTypes, serverVars
<1>1. loop' \in [Loop -> LoopRecord] /\ loop'[l] = rec /\ \A j \in Loop \ {l} : loop'[j] = loop[j]
  BY <1>0
<1>2. KairosTypeOK'
  <2>1. ASSUME NEW j \in Loop
        PROVE  /\ loop'[j].pc \in {"none", "wait", "begin", "next", "mark", "ended"}
               /\ loop'[j].daemon \in made \cup {None}
               /\ loop'[j].todo \in TaskList
               /\ loop'[j].now \in 0..clock /\ loop'[j].pending \in 0..clock
    <3>1. CASE j = l
      BY <1>0, <1>1, <3>1 DEF LoopRecord, LoopOK
    <3>2. CASE j # l
      BY <1>0, <1>1, <3>2 DEF KairosTypeOK
    <3> QED  BY <3>1, <3>2
  <2> QED  BY <1>0, <2>1 DEF KairosTypeOK
<1>3. \A j \in Loop : LoopOK(j)'
  BY <1>0, <1>1 DEF LoopOK
<1>4. request' \in [Request -> RequestRecord] /\ \A r \in Request : HandlerOK(r)'
  BY <1>0 DEF KairosTypes, HandlerOK
<1>5. NoProject'
  BY <1>0 DEF KairosTypes, NoProject
<1>6. OneLoopEach'
  BY <1>0, <1>1 DEF OneLoopEach, Live
<1>7. ASSUME OneMade' PROVE ListIsSaved'
  <2>1. ListIsSaved /\ made \subseteq Daemon
    BY <1>0, <1>7 DEF OneMade, KairosTypeOK
  <2> QED  BY <1>0, <2>1 DEF ListIsSaved, Ids
<1> QED  BY <1>1, <1>2, <1>3, <1>4, <1>5, <1>6, <1>7 DEF KairosInv, KairosTypes

(* A handler goes on, and the lists and loops stay as they are.             *)
LEMMA HandlerGoesOn ==
  ASSUME KairosInv, NEW r \in Request, NEW rec \in RequestRecord,
         request' = [request EXCEPT ![r] = rec],
         rec.pc \notin {"idle", "make"} => rec.daemon \in made,
         UNCHANGED <<slot, workDir, made, saved, daemonVars, loop, clock>>
  PROVE  KairosInv'
<1>0. /\ KairosTypes /\ KairosTypeOK /\ UNCHANGED <<dir, tasks, cancel, state>>
  BY DEF KairosInv, KairosTypes, daemonVars
<1>1. /\ request' \in [Request -> RequestRecord] /\ request'[r] = rec
      /\ \A q \in Request \ {r} : request'[q] = request[q]
  BY <1>0 DEF KairosTypes
<1>2. ASSUME NEW q \in Request PROVE HandlerOK(q)'
  BY <1>0, <1>1 DEF KairosTypes, HandlerOK
<1>3. KairosTypeOK' /\ loop' \in [Loop -> LoopRecord] /\ (\A l \in Loop : LoopOK(l)')
      /\ NoProject'
  BY <1>0 DEF KairosTypes, KairosTypeOK, LoopOK, NoProject
<1>4. OneLoopEach' /\ (OneMade' => ListIsSaved')
  BY <1>0 DEF KairosInv, OneLoopEach, Live, OneMade, ListIsSaved
<1> QED  BY <1>1, <1>2, <1>3, <1>4 DEF KairosInv, KairosTypes

(* The list of a daemon changes and, if it has a project, is saved.         *)
LEMMA ListChanges ==
  ASSUME KairosInv, NEW d \in made, NEW new \in TaskList,
         tasks' = [tasks EXCEPT ![d] = new],
         saved' = IF dir[d] = None THEN saved ELSE [saved EXCEPT ![dir[d]] = new],
         request' \in [Request -> RequestRecord], \A r \in Request : HandlerOK(r)',
         UNCHANGED <<slot, workDir, made, dir, cancel, state, loop, clock>>
  PROVE  KairosInv'
<1>0. /\ KairosTypes /\ KairosTypeOK /\ d \in Daemon
  BY DEF KairosInv, KairosTypes, KairosTypeOK
<1>1. dir[d] # None => dir[d] \in Project
  BY <1>0 DEF KairosTypeOK
<1>2. /\ tasks' \in [Daemon -> TaskList] /\ tasks'[d] = new
      /\ \A e \in Daemon \ {d} : tasks'[e] = tasks[e]
      /\ saved' \in [Project -> TaskList] /\ (dir[d] # None => saved'[dir[d]] = new)
  BY <1>0, <1>1 DEF KairosTypeOK
<1>3. KairosTypeOK' /\ loop' \in [Loop -> LoopRecord] /\ (\A l \in Loop : LoopOK(l)')
  BY <1>0, <1>2 DEF KairosTypes, KairosTypeOK, LoopOK
<1>4. NoProject'
  BY <1>0, <1>2 DEF KairosTypes, NoProject
<1>5. OneLoopEach'
  BY DEF KairosInv, OneLoopEach, Live
<1>6. ASSUME OneMade' PROVE ListIsSaved'
  BY <1>1, <1>2, <1>6 DEF OneMade, ListIsSaved
<1> QED  BY <1>3, <1>4, <1>5, <1>6 DEF KairosInv, KairosTypes

LEMMA LoopFields ==
  ASSUME KairosInv, NEW l \in Loop
  PROVE  /\ loop[l] \in LoopRecord
         /\ loop[l].pc \in {"none", "wait", "begin", "next", "mark", "ended"}
         /\ loop[l].pc # "none" => loop[l].daemon \in Daemon /\ loop[l].daemon \in made
         /\ loop[l].next \in Nat /\ loop[l].pending \in 0..clock /\ loop[l].now \in 0..clock
         /\ loop[l].pending \in 0..MaxClock /\ loop[l].now \in 0..MaxClock
         /\ loop[l].todo \in TaskList /\ loop[l].list \in Project \cup {None}
         /\ loop[l].pc = "mark" => loop[l].todo # <<>>
         /\ clock \in 1..MaxClock
BY DEF KairosInv, KairosTypes, KairosTypeOK, LoopRecord, LoopOK

LEMMA ListsUnchanged ==
  ASSUME KairosInv, UNCHANGED daemonVars
  PROVE  /\ tasks' \in [Daemon -> TaskList]
         /\ \A d \in Daemon : Ids(tasks'[d]) = Ids(tasks[d])
         /\ state' \in [Daemon -> {"idle", "sleeping", "working"}]
         /\ UNCHANGED <<dir, cancel>>
BY DEF KairosInv, KairosTypes, KairosTypeOK, daemonVars

LEMMA LoopStepInv ==
  ASSUME KairosInv, NEW l \in Loop, Fire(l) \/ Ended(l) \/ LoopStep(l)
  PROVE  KairosInv'
<1>0. KairosTypeOK
  BY DEF KairosInv, KairosTypes
<1>1. CASE Fire(l)
  <2> DEFINE rec == [loop[l] EXCEPT !.next = @ + Period,
                                    !.pending = IF @ = Never THEN clock ELSE @]
  <2>1. /\ rec \in LoopRecord /\ rec.pc = loop[l].pc /\ rec.daemon = loop[l].daemon
        /\ rec.cancelled = loop[l].cancelled /\ rec.todo = loop[l].todo /\ rec.now = loop[l].now
        /\ rec.pending \in 0..clock
    <3>1. loop[l].next + Period \in Nat
      BY LoopFields, PeriodAssumption
    <3>2. (IF loop[l].pending = Never THEN clock ELSE loop[l].pending) \in 0..clock
      BY LoopFields
    <3>3. (IF loop[l].pending = Never THEN clock ELSE loop[l].pending) \in 0..MaxClock
      BY LoopFields, <3>2, ClockAssumption
    <3> QED  BY LoopFields, <3>1, <3>2, <3>3 DEF LoopRecord
  <2>2. loop' = [loop EXCEPT ![l] = rec]
    BY <1>1, LoopFields DEF Fire, KairosInv, KairosTypes, LoopRecord
  <2>3. loop[l].pc \notin {"none", "ended"} /\ UNCHANGED <<serverVars, saved, daemonVars, clock>>
    BY <1>1 DEF Fire
  <2> HIDE DEF rec
  <2> QED  BY LoopFields, ListsUnchanged, <2>1, <2>2, <2>3, LoopGoesOn
<1>2. CASE Ended(l)
  <2> DEFINE rec == [NoLoop EXCEPT !.pc = "ended", !.cancelled = TRUE, !.daemon = loop[l].daemon]
  <2>1. loop[l].pc = "wait" /\ loop[l].cancelled = TRUE /\ UNCHANGED <<serverVars, saved, daemonVars, clock>>
    BY <1>2, LoopFields DEF Ended, At, LoopRecord
  <2>2. /\ rec \in LoopRecord /\ rec.pc = "ended" /\ rec.daemon = loop[l].daemon
        /\ rec.cancelled = TRUE /\ rec.now = 0 /\ rec.pending = 0
    <3>1. NoLoop \in LoopRecord /\ NoLoop.now = 0 /\ NoLoop.pending = 0
      BY EmptyList, ClockAssumption DEF NoLoop, LoopRecord, Never
    <3>2. loop[l].daemon \in Daemon
      BY <2>1, LoopFields
    <3> QED  BY <3>1, <3>2 DEF LoopRecord
  <2>3. loop' = [loop EXCEPT ![l] = rec]
    BY <1>2 DEF Ended
  <2>4. 0 \in 0..clock
    BY LoopFields, ClockAssumption
  <2> HIDE DEF rec
  <2> QED  BY ListsUnchanged, <2>1, <2>2, <2>3, <2>4, LoopGoesOn
<1>3. CASE OnTick(l)
  <2> DEFINE d == loop[l].daemon
             rec == [loop[l] EXCEPT !.pc = "begin", !.now = loop[l].pending, !.pending = Never,
                                    !.todo = tasks[d], !.list = dir[d]]
  <2>1. loop[l].pc = "wait" /\ UNCHANGED <<serverVars, saved, daemonVars, clock>>
    BY <1>3 DEF OnTick, At
  <2>2. tasks[d] \in TaskList /\ dir[d] \in Project \cup {None}
    BY <1>0, <2>1, LoopFields DEF KairosTypeOK
  <2>3. 0 \in 0..clock /\ 0 \in 0..MaxClock
    BY LoopFields, ClockAssumption
  <2>4. /\ rec \in LoopRecord /\ rec.pc = "begin" /\ rec.daemon = loop[l].daemon
        /\ rec.cancelled = loop[l].cancelled /\ rec.now \in 0..clock /\ rec.pending \in 0..clock
    BY <2>2, <2>3, LoopFields DEF LoopRecord, Never
  <2>5. loop' = [loop EXCEPT ![l] = rec]
    BY <1>3, LoopFields DEF OnTick, KairosInv, KairosTypes, LoopRecord
  <2> HIDE DEF rec
  <2> QED  BY ListsUnchanged, <2>1, <2>4, <2>5, LoopGoesOn
<1>4. CASE Sleep(l) \/ TickDone(l)
  <2> DEFINE rec == [loop[l] EXCEPT !.pc = "wait", !.now = Never, !.list = None]
  <2>1. /\ loop[l].pc \in {"begin", "next"} /\ UNCHANGED <<serverVars, saved, dir, tasks, cancel, clock>>
        /\ \E s \in {"idle", "sleeping"} : SetState(l, s)
    BY <1>4 DEF Sleep, TickDone, At
  <2>2. state' \in [Daemon -> {"idle", "sleeping", "working"}]
    BY <1>0, <2>1 DEF SetState, KairosTypeOK
  <2>3. 0 \in 0..clock /\ 0 \in 0..MaxClock
    BY LoopFields, ClockAssumption
  <2>4. /\ rec \in LoopRecord /\ rec.pc = "wait" /\ rec.daemon = loop[l].daemon
        /\ rec.cancelled = loop[l].cancelled /\ rec.now \in 0..clock /\ rec.pending \in 0..clock
    BY <2>3, LoopFields DEF LoopRecord, Never
  <2>5. loop' = [loop EXCEPT ![l] = rec]
    BY <1>4, LoopFields DEF Sleep, TickDone, KairosInv, KairosTypes, LoopRecord
  <2>6. tasks' \in [Daemon -> TaskList]
    BY <1>0, <2>1 DEF KairosTypeOK
  <2> HIDE DEF rec
  <2> QED  BY <2>1, <2>2, <2>4, <2>5, <2>6, LoopGoesOn
<1>5. CASE Work(l)
  <2> DEFINE rec == [loop[l] EXCEPT !.pc = "next"]
  <2>1. loop[l].pc = "begin" /\ UNCHANGED <<serverVars, saved, dir, tasks, cancel, clock>>
    BY <1>5 DEF Work, At
  <2>2. state' \in [Daemon -> {"idle", "sleeping", "working"}]
    BY <1>0, <1>5 DEF Work, SetState, KairosTypeOK
  <2>3. /\ rec \in LoopRecord /\ rec.pc = "next" /\ rec.daemon = loop[l].daemon
        /\ rec.cancelled = loop[l].cancelled /\ rec.now \in 0..clock /\ rec.pending \in 0..clock
    BY LoopFields DEF LoopRecord
  <2>4. loop' = [loop EXCEPT ![l] = rec]
    BY <1>5, LoopFields DEF Work, KairosInv, KairosTypes, LoopRecord
  <2>5. tasks' \in [Daemon -> TaskList]
    BY <1>0, <2>1 DEF KairosTypeOK
  <2> HIDE DEF rec
  <2> QED  BY <2>1, <2>2, <2>3, <2>4, <2>5, LoopGoesOn
<1>6. CASE Skip(l)
  <2> DEFINE rec == [loop[l] EXCEPT !.todo = Tail(@)]
  <2>1. loop[l].pc = "next" /\ loop[l].todo # <<>> /\ UNCHANGED <<serverVars, saved, daemonVars, clock>>
    BY <1>6 DEF Skip, At
  <2>2. Tail(loop[l].todo) \in TaskList
    BY <2>1, LoopFields, TailTasks
  <2>3. /\ rec \in LoopRecord /\ rec.pc = "next" /\ rec.daemon = loop[l].daemon
        /\ rec.cancelled = loop[l].cancelled /\ rec.now \in 0..clock /\ rec.pending \in 0..clock
    BY <2>1, <2>2, LoopFields DEF LoopRecord
  <2>4. loop' = [loop EXCEPT ![l] = rec]
    BY <1>6, LoopFields DEF Skip, KairosInv, KairosTypes, LoopRecord
  <2> HIDE DEF rec
  <2> QED  BY ListsUnchanged, <2>1, <2>3, <2>4, LoopGoesOn
<1>7. CASE ExecuteTask(l)
  <2> DEFINE on == IF Head(loop[l].todo).id = GitWatch THEN dir[loop[l].daemon] ELSE loop[l].list
             rec == [loop[l] EXCEPT !.pc = "mark", !.on = on]
  <2>1. loop[l].pc = "next" /\ loop[l].todo # <<>> /\ UNCHANGED <<serverVars, saved, daemonVars, clock>>
    BY <1>7 DEF ExecuteTask, At
  <2>2. on \in Project \cup {None}
    BY <1>0, <2>1, LoopFields DEF KairosTypeOK
  <2>3. loop' = [loop EXCEPT ![l] = rec]
    BY <1>7, LoopFields DEF ExecuteTask, KairosInv, KairosTypes, LoopRecord
  <2> HIDE DEF on
  <2>4. /\ rec \in LoopRecord /\ rec.pc = "mark" /\ rec.daemon = loop[l].daemon /\ rec.todo = loop[l].todo
        /\ rec.cancelled = loop[l].cancelled /\ rec.now \in 0..clock /\ rec.pending \in 0..clock
    BY <2>2, LoopFields DEF LoopRecord
  <2> HIDE DEF rec
  <2> QED  BY ListsUnchanged, <2>1, <2>3, <2>4, LoopGoesOn
<1>8. CASE MarkRun(l)
  <2> DEFINE d == loop[l].daemon
             id == Head(loop[l].todo).id
             marked == [i \in DOMAIN tasks[d] |-> IF tasks[d][i].id = id
                                                  THEN [tasks[d][i] EXCEPT !.last = loop[l].now]
                                                  ELSE tasks[d][i]]
             rec == [loop[l] EXCEPT !.pc = "next", !.todo = Tail(@), !.on = None]
  <2>1. loop[l].pc = "mark" /\ loop[l].todo # <<>> /\ UNCHANGED <<serverVars, saved, dir, cancel, state, clock>>
    BY <1>8, LoopFields DEF MarkRun, At
  <2>2. Tail(loop[l].todo) \in TaskList
    BY <2>1, LoopFields, TailTasks
  <2>3. /\ rec \in LoopRecord /\ rec.pc = "next" /\ rec.daemon = loop[l].daemon
        /\ rec.cancelled = loop[l].cancelled /\ rec.now \in 0..clock /\ rec.pending \in 0..clock
    BY <2>1, <2>2, LoopFields DEF LoopRecord
  <2>4. loop' = [loop EXCEPT ![l] = rec]
    BY <1>8, LoopFields DEF MarkRun, KairosInv, KairosTypes, LoopRecord
  <2>5. d \in Daemon /\ tasks \in [Daemon -> TaskList] /\ tasks[d] \in TaskList
    BY <1>0, <2>1, LoopFields DEF KairosTypeOK
  <2>6. tasks' = [tasks EXCEPT ![d] = marked]
    BY <1>8, <2>5 DEF MarkRun
  <2>7. ASSUME NEW i \in DOMAIN tasks[d]
        PROVE  /\ marked[i] \in Task /\ marked[i].id = tasks[d][i].id
    <3>1. tasks[d][i] \in Task
      BY <2>5, TaskListSeq
    <3>2. [tasks[d][i] EXCEPT !.last = loop[l].now] \in Task
          /\ [tasks[d][i] EXCEPT !.last = loop[l].now].id = tasks[d][i].id
      BY <3>1, LoopFields DEF Task
    <3> QED  BY <3>1, <3>2
  <2>8. marked \in [DOMAIN tasks[d] -> Task] /\ Ids(marked) = Ids(tasks[d])
    BY <2>7 DEF Ids
  <2> HIDE DEF marked, rec, id
  <2>9. marked \in TaskList
    BY <2>5, <2>8, ChangedTasks
  <2>10. /\ tasks' \in [Daemon -> TaskList]
         /\ \A e \in Daemon : Ids(tasks'[e]) = Ids(tasks[e])
    BY <2>5, <2>6, <2>8, <2>9
  <2>11. state' \in [Daemon -> {"idle", "sleeping", "working"}]
    BY <1>0, <2>1 DEF KairosTypeOK
  <2> QED  BY <2>1, <2>3, <2>4, <2>10, <2>11, LoopGoesOn
<1> QED  BY <1>1, <1>2, <1>3, <1>4, <1>5, <1>6, <1>7, <1>8 DEF LoopStep

-----------------------------------------------------------------------------
(* The handlers.                                                             *)

LEMMA RequestFields ==
  ASSUME KairosInv, NEW r \in Request
  PROVE  /\ request[r] \in RequestRecord
         /\ request[r].pc \notin {"idle", "make"} => request[r].daemon \in made
         /\ made \subseteq Daemon /\ slot \in made \cup {None}
         /\ workDir \in Project \cup {None}
         /\ request \in [Request -> RequestRecord]
BY DEF KairosInv, KairosTypes, KairosTypeOK, HandlerOK

LEMMA LookInv == ASSUME KairosInv, NEW r \in Request, Look(r) PROVE KairosInv'
<1> DEFINE step == IF slot = None THEN "make" ELSE "read"
           rec == [request[r] EXCEPT !.pc = step, !.daemon = slot]
<1>1. rec \in RequestRecord /\ rec.pc = step /\ rec.daemon = slot
  BY RequestFields DEF RequestRecord
<1>2. request' = [request EXCEPT ![r] = rec]
  BY RequestFields DEF Look, RequestRecord
<1>3. UNCHANGED <<slot, workDir, made, saved, daemonVars, loop, clock>>
  BY DEF Look
<1>4. step = "read" => slot \in made
  BY RequestFields
<1> HIDE DEF rec
<1> QED  BY <1>1, <1>2, <1>3, <1>4, HandlerGoesOn

LEMMA ReadWorkDirInv == ASSUME KairosInv, NEW r \in Request, ReadWorkDir(r) PROVE KairosInv'
<1> DEFINE rec == [request[r] EXCEPT !.pc = "switch", !.dir = workDir]
<1>1. /\ rec \in RequestRecord /\ rec.pc = "switch" /\ rec.daemon = request[r].daemon
      /\ rec.dir = workDir
  BY RequestFields DEF RequestRecord
<1>2. request' = [request EXCEPT ![r] = rec]
  BY RequestFields DEF ReadWorkDir, RequestRecord
<1>3. UNCHANGED <<slot, workDir, made, saved, daemonVars, loop, clock>>
  BY DEF ReadWorkDir
<1>4. request[r].daemon \in made
  BY RequestFields DEF ReadWorkDir, Asks
<1> HIDE DEF rec
<1> QED  BY <1>1, <1>2, <1>3, <1>4, HandlerGoesOn

LEMMA CheckInv == ASSUME KairosInv, NEW r \in Request, Check(r) PROVE KairosInv'
<1> DEFINE step == IF HasGitWatch(tasks[request[r].daemon]) THEN "start" ELSE "add"
           rec == [request[r] EXCEPT !.pc = step]
<1>1. step \in {"start", "add"}
  OBVIOUS
<1>2. request' = [request EXCEPT ![r] = rec]
  BY RequestFields DEF Check, Goes, RequestRecord
<1> HIDE DEF step
<1>3. rec \in RequestRecord /\ rec.pc = step /\ rec.daemon = request[r].daemon
  BY <1>1, RequestFields DEF RequestRecord
<1>4. UNCHANGED <<slot, workDir, made, saved, daemonVars, loop, clock>>
  BY DEF Check
<1>5. request[r].daemon \in made
  BY RequestFields DEF Check, Asks
<1> HIDE DEF rec
<1> QED  BY <1>1, <1>2, <1>3, <1>4, <1>5, HandlerGoesOn

LEMMA MakeInv == ASSUME KairosInv, NEW r \in Request, Make(r) PROVE KairosInv'
<1>0. KairosTypes /\ KairosTypeOK /\ OneLoopEach /\ (OneMade => ListIsSaved)
  BY DEF KairosInv, KairosTypes
<1>1. PICK d \in Daemon \ made :
         /\ made' = made \cup {d} /\ slot' = d
         /\ request' = [request EXCEPT ![r].pc = "read", ![r].daemon = d]
  BY DEF Make
<1>2. UNCHANGED <<workDir, saved, dir, tasks, cancel, state, loop, clock>> /\ request[r].pc = "make"
  BY DEF Make, daemonVars, Asks
<1>3. /\ request' \in [Request -> RequestRecord] /\ request'[r].pc = "read" /\ request'[r].daemon = d
      /\ \A q \in Request \ {r} : request'[q] = request[q]
  <2> DEFINE rec == [request[r] EXCEPT !.pc = "read", !.daemon = d]
  <2>1. rec \in RequestRecord /\ rec.pc = "read" /\ rec.daemon = d
    BY RequestFields DEF RequestRecord
  <2>2. request' = [request EXCEPT ![r] = rec]
    BY <1>1, RequestFields DEF RequestRecord
  <2> HIDE DEF rec
  <2> QED  BY <2>1, <2>2, RequestFields
<1>4. ASSUME NEW q \in Request PROVE HandlerOK(q)'
  <2>1. CASE q = r
    BY <1>1, <1>3, <2>1 DEF HandlerOK
  <2>2. CASE q # r
    <3>1. request'[q] = request[q] /\ HandlerOK(q)
      BY <1>0, <1>3, <2>2 DEF KairosTypes
    <3> QED  BY <1>1, <1>2, <3>1 DEF HandlerOK
  <2> QED  BY <2>1, <2>2
<1>5. KairosTypeOK' /\ loop' \in [Loop -> LoopRecord] /\ (\A l \in Loop : LoopOK(l)') /\ NoProject'
  BY <1>0, <1>1, <1>2 DEF KairosTypes, KairosTypeOK, LoopOK, NoProject
<1>6. OneLoopEach'
  BY <1>0, <1>2 DEF OneLoopEach, Live
<1>7. ASSUME OneMade' PROVE ListIsSaved'
  <2>1. made = {}
    BY <1>1, <1>7 DEF OneMade
  <2>2. dir'[d] = None /\ made' = {d}
    BY <1>0, <1>1, <1>2, <2>1 DEF KairosTypes, NoProject
  <2> QED  BY <2>2 DEF ListIsSaved
<1> QED  BY <1>3, <1>4, <1>5, <1>6, <1>7 DEF KairosInv, KairosTypes

(* A handler tells its daemon of a project and goes on, or ends.           *)
LEMMA SwitchInv ==
  ASSUME KairosInv, NEW r \in Request, request[r].pc \notin {"idle", "make"}, Switch(r),
         NEW rec \in RequestRecord, request' = [request EXCEPT ![r] = rec],
         rec.pc \notin {"idle", "make"} => rec.daemon \in made,
         UNCHANGED <<slot, workDir, made, saved, cancel, state, loop, clock>>
  PROVE  KairosInv'
<1>0. KairosTypes /\ KairosTypeOK /\ OneLoopEach
  BY DEF KairosInv, KairosTypes
<1>1. PICK d \in made, p \in Project \cup {None} : d = request[r].daemon /\ p = request[r].dir
  BY RequestFields DEF RequestRecord
<1>2. LoadTasks(p) \in TaskList /\ (p # None => p \in Project /\ LoadTasks(p) = saved[p])
  BY <1>0, EmptyList DEF LoadTasks, KairosTypeOK
<1>3. /\ d \in Daemon
      /\ dir' \in [Daemon -> Project \cup {None}] /\ dir'[d] = p
      /\ tasks' \in [Daemon -> TaskList] /\ tasks'[d] = LoadTasks(p)
  BY <1>0, <1>1, <1>2 DEF Switch, KairosTypeOK
<1>4. \A e \in Daemon \ {d} : dir'[e] = dir[e] /\ tasks'[e] = tasks[e]
  BY <1>0, <1>1 DEF Switch, KairosTypeOK
<1>5. /\ request' \in [Request -> RequestRecord] /\ request'[r] = rec
      /\ \A q \in Request \ {r} : request'[q] = request[q]
  BY RequestFields
<1>6. \A q \in Request : HandlerOK(q)'
  BY <1>0, <1>5 DEF KairosTypes, HandlerOK
<1>7. KairosTypeOK' /\ loop' \in [Loop -> LoopRecord] /\ (\A l \in Loop : LoopOK(l)')
  BY <1>0, <1>3 DEF KairosTypes, KairosTypeOK, LoopOK
<1>8. NoProject'
  BY <1>0, <1>1, <1>4 DEF KairosTypes, NoProject
<1>9. OneLoopEach'
  BY <1>0 DEF OneLoopEach, Live
<1>10. ASSUME OneMade' PROVE ListIsSaved'
  BY <1>2, <1>3, <1>10 DEF ListIsSaved, OneMade
<1> QED  BY <1>5, <1>6, <1>7, <1>8, <1>9, <1>10 DEF KairosInv, KairosTypes

LEMMA SwitchProjectInv == ASSUME KairosInv, NEW r \in Request, SwitchProject(r) PROVE KairosInv'
<1> DEFINE rec == [request[r] EXCEPT !.pc = "check"]
<1>1. /\ request[r].pc = "switch" /\ Switch(r)
      /\ UNCHANGED <<slot, workDir, made, saved, cancel, state, loop, clock>>
  BY DEF SwitchProject, Asks
<1>2. rec \in RequestRecord /\ rec.pc = "check" /\ rec.daemon \in made
  BY <1>1, RequestFields DEF RequestRecord
<1>3. request' = [request EXCEPT ![r] = rec]
  BY RequestFields DEF SwitchProject, Goes, RequestRecord
<1> HIDE DEF rec
<1> QED  BY <1>1, <1>2, <1>3, SwitchInv

LEMMA TellDaemonInv == ASSUME KairosInv, NEW r \in Request, TellDaemon(r) PROVE KairosInv'
<1>1. /\ request[r].pc = "tell" /\ Switch(r) /\ request' = [request EXCEPT ![r] = Idling]
      /\ UNCHANGED <<slot, workDir, made, saved, cancel, state, loop, clock>>
  BY DEF TellDaemon, Asks
<1>2. Idling \in RequestRecord /\ Idling.pc = "idle"
  BY DEF Idling, RequestRecord
<1> QED  BY <1>1, <1>2, SwitchInv

LEMMA AddedTask ==
  ASSUME KairosInv, NEW d \in made, NEW id \in Id, AddTask(d, id)
  PROVE  \E new \in TaskList :
            /\ tasks' = [tasks EXCEPT ![d] = new]
            /\ saved' = IF dir[d] = None THEN saved ELSE [saved EXCEPT ![dir[d]] = new]
<1> DEFINE new == Append(tasks[d], [id |-> id, last |-> Never])
<1>1. d \in Daemon /\ tasks \in [Daemon -> TaskList]
  BY DEF KairosInv, KairosTypes, KairosTypeOK
<1>2. [id |-> id, last |-> Never] \in Task
  BY ClockAssumption DEF Task, Never
<1>3. new \in TaskList
  BY <1>1, <1>2, AppendTask DEF AddTask
<1>4. tasks' = [tasks EXCEPT ![d] = new]
  BY DEF AddTask
<1> HIDE DEF new
<1>5. tasks'[d] = new
  BY <1>1, <1>4
<1>6. saved' = IF dir[d] = None THEN saved ELSE [saved EXCEPT ![dir[d]] = new]
  <2>1. SaveTasks(d)
    BY DEF AddTask
  <2>2. saved' = IF dir[d] = None THEN saved ELSE [saved EXCEPT ![dir[d]] = tasks'[d]]
    BY ONLY <2>1 DEF SaveTasks
  <2> QED  BY ONLY <1>5, <2>2
<1> QED  BY <1>3, <1>4, <1>6

LEMMA AddGitWatchInv == ASSUME KairosInv, NEW r \in Request, AddGitWatch(r) PROVE KairosInv'
<1>1. PICK d \in made : d = request[r].daemon
  BY RequestFields DEF AddGitWatch, Asks
<1>2. PICK new \in TaskList :
         /\ tasks' = [tasks EXCEPT ![d] = new]
         /\ saved' = IF dir[d] = None THEN saved ELSE [saved EXCEPT ![dir[d]] = new]
  BY <1>1, AddedTask DEF AddGitWatch, Id
<1>3. UNCHANGED <<slot, workDir, made, dir, cancel, state, loop, clock>>
  BY DEF AddGitWatch
<1>4. /\ request' \in [Request -> RequestRecord] /\ request'[r].daemon = d /\ request'[r].pc = "start"
      /\ \A q \in Request \ {r} : request'[q] = request[q]
  <2> DEFINE rec == [request[r] EXCEPT !.pc = "start"]
  <2>1. rec \in RequestRecord /\ rec.pc = "start" /\ rec.daemon = d
    BY <1>1, RequestFields DEF RequestRecord
  <2>2. request' = [request EXCEPT ![r] = rec]
    BY RequestFields DEF RequestRecord, AddGitWatch, Goes
  <2> HIDE DEF rec
  <2> QED  BY <2>1, <2>2, RequestFields
<1>5. ASSUME NEW q \in Request PROVE HandlerOK(q)'
  <2>1. CASE q = r
    BY <1>1, <1>3, <1>4, <2>1 DEF HandlerOK
  <2>2. CASE q # r
    <3>1. request'[q] = request[q] /\ HandlerOK(q)
      BY <1>4, <2>2 DEF KairosInv, KairosTypes
    <3> QED  BY <1>3, <3>1 DEF HandlerOK
  <2> QED  BY <2>1, <2>2
<1> QED  BY <1>1, <1>2, <1>3, <1>4, <1>5, ListChanges

LEMMA HandleAddTaskInv == ASSUME KairosInv, NEW id \in Custom, HandleAddTask(id) PROVE KairosInv'
<1>1. PICK d \in made : d = slot
  BY DEF HandleAddTask, KairosInv, KairosTypes, KairosTypeOK
<1>2. PICK new \in TaskList :
         /\ tasks' = [tasks EXCEPT ![d] = new]
         /\ saved' = IF dir[d] = None THEN saved ELSE [saved EXCEPT ![dir[d]] = new]
  BY <1>1, AddedTask DEF HandleAddTask, Id
<1>3. UNCHANGED <<slot, workDir, made, request, dir, cancel, state, loop, clock>>
  BY DEF HandleAddTask, serverVars
<1>4. request' \in [Request -> RequestRecord] /\ \A q \in Request : HandlerOK(q)'
  BY <1>3 DEF KairosInv, KairosTypes, HandlerOK
<1> QED  BY <1>1, <1>2, <1>3, <1>4, ListChanges

LEMMA RemoveTaskInv == ASSUME KairosInv, NEW id \in Id, RemoveTask(id) PROVE KairosInv'
<1>1. PICK d \in made : d = slot
  BY DEF RemoveTask, KairosInv, KairosTypes, KairosTypeOK
<1>2. PICK i \in DOMAIN tasks[d] : tasks' = [tasks EXCEPT ![d] = RemoveAt(tasks[d], i)]
  BY <1>1 DEF RemoveTask
<1>3. d \in Daemon /\ tasks \in [Daemon -> TaskList] /\ tasks[d] \in TaskList
  BY DEF KairosInv, KairosTypes, KairosTypeOK
<1> DEFINE new == RemoveAt(tasks[d], i)
<1>4. new \in TaskList
  BY <1>3, RemoveTaskAt
<1>5. tasks' = [tasks EXCEPT ![d] = new]
  BY <1>2
<1> HIDE DEF new
<1>6. saved' = IF dir[d] = None THEN saved ELSE [saved EXCEPT ![dir[d]] = new]
  BY <1>1, <1>3, <1>5 DEF RemoveTask, SaveTasks
<1>7. UNCHANGED <<slot, workDir, made, request, dir, cancel, state, loop, clock>>
  BY DEF RemoveTask, serverVars
<1>8. request' \in [Request -> RequestRecord] /\ \A q \in Request : HandlerOK(q)'
  BY <1>7 DEF KairosInv, KairosTypes, HandlerOK
<1> QED  BY <1>4, <1>5, <1>6, <1>7, <1>8, ListChanges

LEMMA StartInv == ASSUME KairosInv, NEW r \in Request, Start(r) PROVE KairosInv'
<1>0. KairosTypes /\ KairosTypeOK /\ OneLoopEach /\ (OneMade => ListIsSaved)
  BY DEF KairosInv, KairosTypes
<1>1. PICK d \in made : d = request[r].daemon /\ d \in Daemon
  BY RequestFields DEF Start, Asks
<1>2. request' = [request EXCEPT ![r] = Idling]
      /\ UNCHANGED <<slot, workDir, made, saved, dir, tasks, state, clock>>
  BY DEF Start
<1>3. request' \in [Request -> RequestRecord] /\ \A q \in Request : HandlerOK(q)'
  <2>1. Idling \in RequestRecord /\ Idling.pc = "idle"
    BY DEF Idling, RequestRecord
  <2>2. request' \in [Request -> RequestRecord] /\ request'[r] = Idling
        /\ \A q \in Request \ {r} : request'[q] = request[q]
    BY <1>2, <2>1, RequestFields
  <2> QED  BY <1>0, <1>2, <2>1, <2>2 DEF KairosTypes, HandlerOK
<1>4. NoProject' /\ (OneMade' => ListIsSaved')
  BY <1>0, <1>2 DEF KairosTypes, NoProject, OneMade, ListIsSaved
<1>5. CASE UNCHANGED <<loop, cancel>>
  <2>1. KairosTypeOK' /\ loop' \in [Loop -> LoopRecord] /\ (\A l \in Loop : LoopOK(l)')
    BY <1>0, <1>2, <1>5 DEF KairosTypes, KairosTypeOK, LoopOK
  <2>2. OneLoopEach'
    BY <1>0, <1>5 DEF OneLoopEach, Live
  <2> QED  BY <1>3, <1>4, <2>1, <2>2 DEF KairosInv, KairosTypes
<1>6. CASE cancel[d] = None /\ \E l \in Loop :
             /\ loop[l].pc = "none"
             /\ loop' = [loop EXCEPT ![l] = [NoLoop EXCEPT !.pc = "wait", !.daemon = d,
                                                           !.next = clock + Period]]
             /\ cancel' = [cancel EXCEPT ![d] = l]
  <2>1. PICK l \in Loop :
             /\ loop' = [loop EXCEPT ![l] = [NoLoop EXCEPT !.pc = "wait", !.daemon = d,
                                                           !.next = clock + Period]]
             /\ cancel' = [cancel EXCEPT ![d] = l]
    BY <1>6
  <2> DEFINE rec == [NoLoop EXCEPT !.pc = "wait", !.daemon = d, !.next = clock + Period]
  <2>2. /\ rec \in LoopRecord /\ rec.pc = "wait" /\ rec.daemon = d /\ rec.now = 0 /\ rec.pending = 0
        /\ rec.todo = <<>>
    <3>1. NoLoop \in LoopRecord /\ NoLoop.now = 0 /\ NoLoop.pending = 0 /\ NoLoop.todo = <<>>
      BY EmptyList, ClockAssumption DEF NoLoop, LoopRecord, Never
    <3>2. clock + Period \in Nat
      BY <1>0, PeriodAssumption, ClockAssumption DEF KairosTypeOK
    <3> QED  BY <1>1, <3>1, <3>2 DEF LoopRecord
  <2>3. loop' = [loop EXCEPT ![l] = rec]
    BY <2>1
  <2> HIDE DEF rec
  <2>4. loop' \in [Loop -> LoopRecord] /\ loop'[l] = rec /\ \A j \in Loop \ {l} : loop'[j] = loop[j]
    BY <1>0, <2>2, <2>3 DEF KairosTypes
  <2>5. /\ cancel' \in [Daemon -> Loop \cup {None}] /\ cancel'[d] = l
        /\ \A e \in Daemon \ {d} : cancel'[e] = cancel[e]
    BY <1>0, <1>1, <2>1 DEF KairosTypeOK
  <2>6. KairosTypeOK'
    <3>1. 0 \in 0..clock
      BY <1>0, ClockAssumption DEF KairosTypeOK
    <3>2. ASSUME NEW j \in Loop
          PROVE  /\ loop'[j].pc \in {"none", "wait", "begin", "next", "mark", "ended"}
                 /\ loop'[j].daemon \in made \cup {None}
                 /\ loop'[j].todo \in TaskList
                 /\ loop'[j].now \in 0..clock /\ loop'[j].pending \in 0..clock
      <4>1. CASE j = l
        BY <2>2, <2>4, <3>1, <4>1, EmptyList
      <4>2. CASE j # l
        BY <1>0, <2>4, <4>2 DEF KairosTypeOK
      <4> QED  BY <4>1, <4>2
    <3> QED  BY <1>0, <1>2, <2>5, <3>2 DEF KairosTypeOK
  <2>7. \A j \in Loop : LoopOK(j)'
    BY <1>0, <1>2, <2>2, <2>4 DEF KairosTypes, LoopOK
  <2>8. OneLoopEach'
    <3> SUFFICES ASSUME NEW j \in Loop, Live(j)' PROVE cancel'[loop'[j].daemon] = j
      BY DEF OneLoopEach
    <3>1. CASE j = l
      BY <2>2, <2>4, <2>5, <3>1
    <3>2. CASE j # l
      <4>1. Live(j) /\ loop'[j] = loop[j] /\ loop[j].daemon \in Daemon
        BY <1>0, <2>4, <3>2 DEF Live, KairosTypes, KairosTypeOK, LoopOK
      <4>2. cancel[loop[j].daemon] = j /\ j # None
        BY <1>0, <4>1, NoneAssumption DEF OneLoopEach
      <4>3. loop[j].daemon # d
        BY <1>6, <4>2
      <4> QED  BY <2>5, <4>1, <4>2, <4>3
    <3> QED  BY <3>1, <3>2
  <2> QED  BY <1>3, <1>4, <2>4, <2>6, <2>7, <2>8 DEF KairosInv, KairosTypes
<1> QED  BY <1>1, <1>5, <1>6 DEF Start

LEMMA StopInv == ASSUME KairosInv, Stop PROVE KairosInv'
<1>0. KairosTypes /\ KairosTypeOK /\ OneLoopEach /\ (OneMade => ListIsSaved)
  BY DEF KairosInv, KairosTypes
<1>1. PICK d \in made : d = slot /\ d \in Daemon
  BY <1>0 DEF Stop, KairosTypeOK
<1>2. /\ cancel' = [cancel EXCEPT ![d] = None] /\ state' = [state EXCEPT ![d] = "idle"]
      /\ UNCHANGED <<slot, workDir, made, request, saved, dir, tasks, clock>>
  BY <1>1 DEF Stop, serverVars
<1>3. ASSUME NEW l \in Loop
      PROVE  \/ loop'[l] = loop[l] /\ cancel[d] # l
             \/ loop'[l] = [loop[l] EXCEPT !.cancelled = TRUE]
  BY <1>0, <1>1, NoneAssumption DEF Stop, KairosTypes
<1>4. ASSUME NEW l \in Loop
      PROVE  /\ loop'[l] \in LoopRecord /\ loop'[l].pc = loop[l].pc /\ loop'[l].daemon = loop[l].daemon
             /\ loop'[l].todo = loop[l].todo /\ loop'[l].now = loop[l].now
             /\ loop'[l].pending = loop[l].pending
             /\ (loop'[l].cancelled = loop[l].cancelled /\ cancel[d] # l) \/ loop'[l].cancelled
  <2>1. loop[l] \in LoopRecord
    BY <1>0 DEF KairosTypes
  <2>2. CASE loop'[l] = loop[l] /\ cancel[d] # l
    BY <2>1, <2>2 DEF LoopRecord
  <2>3. CASE loop'[l] = [loop[l] EXCEPT !.cancelled = TRUE]
    <3>1. loop'[l].cancelled
      BY <2>1, <2>3 DEF LoopRecord
    <3>2. loop'[l] \in LoopRecord
      BY <2>1, <2>3 DEF LoopRecord
    <3>3. /\ loop'[l].pc = loop[l].pc /\ loop'[l].daemon = loop[l].daemon
          /\ loop'[l].todo = loop[l].todo
      BY <2>1, <2>3 DEF LoopRecord
    <3>4. loop'[l].now = loop[l].now /\ loop'[l].pending = loop[l].pending
      BY <2>1, <2>3 DEF LoopRecord
    <3> QED  BY <3>1, <3>2, <3>3, <3>4
  <2> QED  BY <1>3, <2>2, <2>3
<1>5. loop' \in [Loop -> LoopRecord]
  <2>1. loop' = [l \in Loop |-> loop'[l]]
    BY <1>0 DEF Stop, KairosTypes
  <2> QED  BY <1>4, <2>1
<1>6. /\ cancel' \in [Daemon -> Loop \cup {None}] /\ \A e \in Daemon \ {d} : cancel'[e] = cancel[e]
  BY <1>0, <1>1, <1>2 DEF KairosTypeOK
<1>7. KairosTypeOK'
  BY <1>0, <1>2, <1>4, <1>6 DEF KairosTypeOK
<1>8. \A l \in Loop : LoopOK(l)'
  BY <1>0, <1>2, <1>4 DEF KairosTypes, LoopOK
<1>9. request' \in [Request -> RequestRecord] /\ (\A r \in Request : HandlerOK(r)') /\ NoProject'
      /\ (OneMade' => ListIsSaved')
  BY <1>0, <1>2 DEF KairosTypes, HandlerOK, NoProject, OneMade, ListIsSaved
<1>10. OneLoopEach'
  <2> SUFFICES ASSUME NEW l \in Loop, Live(l)' PROVE cancel'[loop'[l].daemon] = l
    BY DEF OneLoopEach
  <2>1. Live(l) /\ cancel[d] # l
    BY <1>4 DEF Live
  <2>2. cancel[loop[l].daemon] = l /\ loop[l].daemon \in Daemon
    BY <1>0, <2>1 DEF OneLoopEach, KairosTypes, KairosTypeOK, LoopOK, Live
  <2> QED  BY <1>4, <1>6, <2>1, <2>2
<1> QED  BY <1>5, <1>7, <1>8, <1>9, <1>10 DEF KairosInv, KairosTypes

LEMMA SetWorkspaceInv == ASSUME KairosInv, NEW p \in Project, SetWorkspace(p) PROVE KairosInv'
<1>1. workDir' = p /\ UNCHANGED <<slot, made, request, saved, dir, tasks, cancel, state, loop, clock>>
  BY DEF SetWorkspace, daemonVars
<1>2. KairosTypeOK' /\ loop' \in [Loop -> LoopRecord] /\ (\A l \in Loop : LoopOK(l)')
  BY <1>1 DEF KairosInv, KairosTypes, KairosTypeOK, LoopOK
<1>3. request' \in [Request -> RequestRecord] /\ (\A r \in Request : HandlerOK(r)') /\ NoProject'
  BY <1>1 DEF KairosInv, KairosTypes, HandlerOK, NoProject
<1>4. OneLoopEach' /\ (OneMade' => ListIsSaved')
  BY <1>1 DEF KairosInv, OneLoopEach, Live, OneMade, ListIsSaved
<1> QED  BY <1>2, <1>3, <1>4 DEF KairosInv, KairosTypes

LEMMA SetWorkDirInv ==
  ASSUME KairosInv, NEW r \in Request, NEW p \in Project, SetWorkDir(r, p)
  PROVE  KairosInv'
<1>1. workDir' = p /\ UNCHANGED <<slot, made, saved, dir, tasks, cancel, state, loop, clock>>
  BY DEF SetWorkDir, daemonVars
<1>2. request' \in [Request -> RequestRecord] /\ \A q \in Request : HandlerOK(q)'
  <2>1. CASE slot = None
    BY <1>1, <2>1 DEF SetWorkDir, KairosInv, KairosTypes, HandlerOK
  <2>2. CASE slot # None
    <3> DEFINE rec == [pc |-> "tell", daemon |-> slot, dir |-> p]
    <3>1. rec \in RequestRecord /\ rec.daemon \in made
      BY <2>2, RequestFields DEF RequestRecord
    <3>2. request' = [request EXCEPT ![r] = rec]
      BY <2>2 DEF SetWorkDir
    <3> HIDE DEF rec
    <3> QED  BY <1>1, <3>1, <3>2, RequestFields DEF KairosInv, KairosTypes, HandlerOK
  <2> QED  BY <2>1, <2>2
<1>3. KairosTypeOK' /\ loop' \in [Loop -> LoopRecord] /\ (\A l \in Loop : LoopOK(l)')
  BY <1>1 DEF KairosInv, KairosTypes, KairosTypeOK, LoopOK
<1>4. NoProject' /\ OneLoopEach' /\ (OneMade' => ListIsSaved')
  BY <1>1 DEF KairosInv, KairosTypes, NoProject, OneLoopEach, Live, OneMade, ListIsSaved
<1> QED  BY <1>2, <1>3, <1>4 DEF KairosInv, KairosTypes

LEMMA PassInv == ASSUME KairosInv, Pass PROVE KairosInv'
<1>1. /\ clock < MaxClock /\ clock' = clock + 1
      /\ UNCHANGED <<slot, workDir, made, request, saved, dir, tasks, cancel, state, loop>>
  BY DEF Pass, serverVars, daemonVars
<1>2. KairosTypeOK /\ clock \in 1..MaxClock /\ MaxClock \in Nat
  BY ClockAssumption DEF KairosInv, KairosTypes, KairosTypeOK
<1>3. clock' \in 1..MaxClock /\ \A n \in 0..clock : n \in 0..clock'
  BY <1>1, <1>2
<1>4. KairosTypeOK' /\ loop' \in [Loop -> LoopRecord] /\ (\A l \in Loop : LoopOK(l)')
  <2>1. \A l \in Loop : loop'[l].now \in 0..clock' /\ loop'[l].pending \in 0..clock'
    BY <1>1, <1>2, <1>3 DEF KairosTypeOK
  <2> QED  BY <1>1, <1>2, <1>3, <2>1 DEF KairosInv, KairosTypes, KairosTypeOK, LoopOK
<1>5. request' \in [Request -> RequestRecord] /\ (\A r \in Request : HandlerOK(r)') /\ NoProject'
  BY <1>1 DEF KairosInv, KairosTypes, HandlerOK, NoProject
<1>6. OneLoopEach' /\ (OneMade' => ListIsSaved')
  BY <1>1 DEF KairosInv, OneLoopEach, Live, OneMade, ListIsSaved
<1> QED  BY <1>4, <1>5, <1>6 DEF KairosInv, KairosTypes

LEMMA KairosInvNext == KairosInv /\ [KairosNext]_kairosVars => KairosInv'
<1> SUFFICES ASSUME KairosInv, [KairosNext]_kairosVars PROVE KairosInv'
  OBVIOUS
<1>1. ASSUME NEW r \in Request, HandleStart(r) PROVE KairosInv'
  BY <1>1, LookInv, MakeInv, ReadWorkDirInv, SwitchProjectInv, CheckInv, AddGitWatchInv, StartInv
     DEF HandleStart
<1>2. CASE Stop
  BY <1>2, StopInv
<1>3. ASSUME NEW id \in Custom, HandleAddTask(id) PROVE KairosInv'
  BY <1>3, HandleAddTaskInv
<1>4. ASSUME NEW id \in Id, RemoveTask(id) PROVE KairosInv'
  BY <1>4, RemoveTaskInv
<1>5. ASSUME NEW p \in Project, SetWorkspace(p) PROVE KairosInv'
  BY <1>5, SetWorkspaceInv
<1>6. ASSUME NEW l \in Loop, Fire(l) \/ Ended(l) \/ LoopStep(l) PROVE KairosInv'
  BY <1>6, LoopStepInv
<1>7. CASE Pass
  BY <1>7, PassInv
<1>8. CASE UNCHANGED kairosVars
  <2>1. UNCHANGED <<slot, workDir, made, request, saved, dir, tasks, cancel, state, loop, clock>>
    BY <1>8 DEF kairosVars, serverVars, daemonVars
  <2>2. KairosTypeOK' /\ loop' \in [Loop -> LoopRecord] /\ (\A l \in Loop : LoopOK(l)')
    BY <2>1 DEF KairosInv, KairosTypes, KairosTypeOK, LoopOK
  <2>3. request' \in [Request -> RequestRecord] /\ (\A r \in Request : HandlerOK(r)') /\ NoProject'
    BY <2>1 DEF KairosInv, KairosTypes, HandlerOK, NoProject
  <2>4. OneLoopEach' /\ (OneMade' => ListIsSaved')
    BY <2>1 DEF KairosInv, OneLoopEach, Live, OneMade, ListIsSaved
  <2> QED  BY <2>2, <2>3, <2>4 DEF KairosInv, KairosTypes
<1>9. ASSUME NEW r \in Request, TellDaemon(r) \/ \E p \in Project : SetWorkDir(r, p)
      PROVE  KairosInv'
  BY <1>9, TellDaemonInv, SetWorkDirInv
<1> QED  BY <1>1, <1>2, <1>3, <1>4, <1>5, <1>6, <1>7, <1>8, <1>9 DEF KairosNext

LEMMA KairosInvAlways == KairosSpec => []KairosInv
<1> QED  BY KairosInvInit, KairosInvNext, PTL DEF KairosSpec

-----------------------------------------------------------------------------
(* However many daemons the handlers make, each has one tick loop that was  *)
(* not told to end, the one its Stop cancels (daemon.go:151-176); and while *)
(* they made one, its list is the one in tasks.json, whatever handlers      *)
(* start it, feed it and switch it at once.                                *)
THEOREM KairosAlwaysSafe == KairosSpec => []KairosSafe
<1>1. KairosInv => KairosSafe
  BY DEF KairosInv, KairosTypes, KairosSafe
<1> QED  BY <1>1, KairosInvAlways, PTL

(* While the handlers made one daemon, no loop goes on once Stop has        *)
(* returned and nobody starts it anew (daemon.go:169-180).                  *)
THEOREM KairosStopHalts == KairosSpec => [](OneMade => StopHalts)
<1>1. ASSUME KairosInv, OneMade PROVE StopHalts
  <2> SUFFICES ASSUME slot # None, cancel[slot] = None, NEW l \in Loop, Live(l)
               PROVE  FALSE
    BY DEF StopHalts
  <2>1. cancel[loop[l].daemon] = l /\ loop[l].daemon \in made /\ slot \in made
    <3>1. loop[l].pc # "none"
      BY DEF Live
    <3>2. loop[l].daemon \in made
      BY <1>1, <3>1, LoopFields
    <3> QED  BY <1>1, <3>2 DEF KairosInv, KairosTypes, KairosTypeOK, OneLoopEach
  <2>2. loop[l].daemon = slot
    BY <1>1, <2>1 DEF OneMade
  <2> QED  BY <2>1, <2>2, NoneAssumption
<1> QED  BY <1>1, KairosInvAlways, PTL

-----------------------------------------------------------------------------
(* The notifier. *)

Statuses == [File -> Code] \cup {NoStatus}

(* What a loop's entry is, of those at rest before a Send and of all.       *)
Quiet == [pc : {"idle", "found", "read", "send"}, curr : Statuses, prev : Statuses,
          todo : SUBSET Subscriber, notif : Nat]
Entry == [pc : {"idle", "found", "read", "send", "serve"}, curr : Statuses, prev : Statuses,
          todo : SUBSET Subscriber, notif : Nat]

Types ==
    /\ last \in Statuses
    /\ watch \in [Watcher -> Entry]
    /\ subscribers \subseteq Subscriber /\ ended \subseteq Subscriber \ subscribers
    /\ channel \in [Subscriber -> Seq(Nat)]
    /\ \A s \in Subscriber : Len(channel[s]) <= Capacity
    /\ got \in [Subscriber -> SUBSET Nat]
    /\ sends \in Nat /\ panicked \in BOOLEAN

History == history \in Seq(Nat) /\ Len(history) <= HistoryMax /\ RecentIsLatest

(* A loop that serves has the number of a Send to itself, and a client     *)
(* that it still has to serve was not told that number.                    *)
Serves(w) == watch[w].pc = "serve"
Has(s, n) == n \in ToSet(channel[s]) \cup got[s]

Numbers ==
    /\ \A w \in Watcher : watch[w].notif <= sends
    /\ \A w, v \in Watcher : w # v /\ Serves(w) /\ Serves(v) => watch[w].notif # watch[v].notif
    /\ \A w \in Watcher, s \in Subscriber : Serves(w) /\ s \in watch[w].todo => ~Has(s, watch[w].notif)
    /\ \A s \in Subscriber, n \in Nat : Has(s, n) => n <= sends

NotifierInv == Types /\ History /\ Numbers /\ DeliveredOnce

-----------------------------------------------------------------------------
(* Channels. *)

LEMMA AppendOnce ==
    ASSUME NEW s \in Seq(Nat), NEW n \in Nat
    PROVE  /\ Append(s, n) \in Seq(Nat) /\ Len(Append(s, n)) = Len(s) + 1
           /\ ToSet(Append(s, n)) = ToSet(s) \cup {n}
           /\ IsInjective(s) /\ n \notin ToSet(s) => IsInjective(Append(s, n))
<1>1. Append(s, n) \in Seq(Nat) /\ DOMAIN Append(s, n) = 1..(Len(s) + 1) /\ Len(Append(s, n)) = Len(s) + 1
      /\ \A i \in 1..(Len(s) + 1) : Append(s, n)[i] = IF i <= Len(s) THEN s[i] ELSE n
  OBVIOUS
<1>2. DOMAIN s = 1..Len(s) /\ Len(s) \in Nat
  OBVIOUS
<1>3. \A i \in DOMAIN Append(s, n) : \/ i \in DOMAIN s /\ Append(s, n)[i] = s[i]
                                     \/ i = Len(s) + 1 /\ Append(s, n)[i] = n
  BY <1>1, <1>2
<1>4. \A i \in DOMAIN s : i \in DOMAIN Append(s, n) /\ Append(s, n)[i] = s[i]
  BY <1>1, <1>2
<1>5. Len(s) + 1 \in DOMAIN Append(s, n) /\ Append(s, n)[Len(s) + 1] = n
  BY <1>1, <1>2
<1>6. ToSet(Append(s, n)) = ToSet(s) \cup {n}
  BY <1>3, <1>4, <1>5 DEF ToSet
<1>7. ASSUME IsInjective(s), n \notin ToSet(s) PROVE IsInjective(Append(s, n))
  <2>1. ASSUME NEW i \in DOMAIN Append(s, n), NEW j \in DOMAIN Append(s, n), Append(s, n)[i] = Append(s, n)[j]
        PROVE  i = j
    BY <1>3, <1>7, <2>1 DEF IsInjective, ToSet
  <2>2. QED
    BY <2>1 DEF IsInjective
<1>8. QED
  BY <1>1, <1>6, <1>7

LEMMA TailOnce ==
    ASSUME NEW s \in Seq(Nat), s # <<>>
    PROVE  /\ Tail(s) \in Seq(Nat) /\ Len(Tail(s)) <= Len(s) /\ Head(s) \in Nat
           /\ ToSet(s) = ToSet(Tail(s)) \cup {Head(s)}
           /\ IsInjective(s) => IsInjective(Tail(s)) /\ Head(s) \notin ToSet(Tail(s))
<1>1. DOMAIN s = 1..Len(s) /\ Len(s) \in Nat /\ Len(s) > 0
  OBVIOUS
<1>2. DOMAIN Tail(s) = 1..(Len(s) - 1) /\ \A i \in 1..(Len(s) - 1) : Tail(s)[i] = s[i + 1]
  BY <1>1
<1>3. Head(s) = s[1] /\ 1 \in DOMAIN s
  BY <1>1
<1>4. \A i \in DOMAIN Tail(s) : i + 1 \in DOMAIN s /\ i + 1 # 1 /\ Tail(s)[i] = s[i + 1]
  BY <1>1, <1>2
<1>5. \A i \in DOMAIN s : i # 1 => i - 1 \in DOMAIN Tail(s) /\ Tail(s)[i - 1] = s[i]
  BY <1>1, <1>2
<1>6. ToSet(s) = ToSet(Tail(s)) \cup {Head(s)}
  <2>1. ASSUME NEW x \in ToSet(s) PROVE x \in ToSet(Tail(s)) \cup {Head(s)}
    <3>1. PICK i \in DOMAIN s : s[i] = x
      BY DEF ToSet
    <3>2. QED
      BY <1>3, <1>5, <3>1 DEF ToSet
  <2>2. ToSet(Tail(s)) \subseteq ToSet(s)
    BY <1>4 DEF ToSet
  <2>3. Head(s) \in ToSet(s)
    BY <1>3 DEF ToSet
  <2>4. QED
    BY <2>1, <2>2, <2>3
<1>7. ASSUME IsInjective(s) PROVE IsInjective(Tail(s)) /\ Head(s) \notin ToSet(Tail(s))
  <2>1. ASSUME NEW i \in DOMAIN Tail(s), NEW j \in DOMAIN Tail(s), Tail(s)[i] = Tail(s)[j]
        PROVE  i = j
    <3>1. i + 1 = j + 1
      BY <1>4, <1>7, <2>1 DEF IsInjective
    <3>2. QED
      BY <1>2, <3>1
  <2>2. ASSUME NEW i \in DOMAIN Tail(s) PROVE Tail(s)[i] # Head(s)
    BY <1>3, <1>4, <1>7 DEF IsInjective
  <2>3. QED
    BY <2>1, <2>2 DEF IsInjective, ToSet
<1>8. QED
  BY <1>1, <1>6, <1>7

(* The end of a sequence. *)
LEMMA EndOf ==
    ASSUME NEW h \in Seq(Nat), NEW k \in Nat, k < Len(h)
    PROVE  /\ SubSeq(h, Len(h) - k + 1, Len(h)) \in Seq(Nat)
           /\ Len(SubSeq(h, Len(h) - k + 1, Len(h))) = k
           /\ \A i \in 1..k : SubSeq(h, Len(h) - k + 1, Len(h))[i] = h[Len(h) - k + i]
<1> DEFINE m == Len(h) - k + 1
           n == Len(h)
<1>1. m \in Int /\ n \in Int /\ n - m + 1 = k /\ (IF m <= n THEN n - m + 1 ELSE 0) = k
  OBVIOUS
<1>2. \A i \in m..n : h[i] \in Nat
  OBVIOUS
<1>3. \A i \in 1..k : m + i - 1 = Len(h) - k + i
  OBVIOUS
<1>4. /\ SubSeq(h, m, n) \in Seq(Nat)
      /\ Len(SubSeq(h, m, n)) = IF m <= n THEN n - m + 1 ELSE 0
      /\ \A i \in 1..(n - m + 1) : SubSeq(h, m, n)[i] = h[m + i - 1]
  <2> HIDE DEF m, n
  <2>1. QED
    BY <1>1, <1>2, SubSeqProperties
<1>5. Len(SubSeq(h, m, n)) = k
  BY ONLY <1>1, <1>4
<1>6. ASSUME NEW i \in 1..k PROVE SubSeq(h, m, n)[i] = h[Len(h) - k + i]
  <2>1. i \in 1..(n - m + 1)
    BY <1>1
  <2>2. SubSeq(h, m, n)[i] = h[m + i - 1]
    BY <1>4, <2>1
  <2>3. QED
    BY <1>3, <2>2
<1>7. QED
  BY <1>4, <1>5, <1>6

(* The history: what is cut off it is its beginning.                       *)
LEMMA HistoryGrows ==
    ASSUME History, sends \in Nat, sends' = sends + 1,
           history' = Cut(Append(history, sends + 1))
    PROVE  History'
<1> DEFINE h == Append(history, sends + 1)
<1>1. history \in Seq(Nat) /\ Len(history) \in Nat /\ Len(history) <= HistoryMax
      /\ \A i \in 1..Len(history) : history[i] = sends - Len(history) + i
  BY DEF History, RecentIsLatest
<1>2. h \in Seq(Nat) /\ Len(h) = Len(history) + 1
      /\ \A i \in 1..Len(h) : h[i] = sends' - Len(h) + i
  BY <1>1
<1>3. Len(history) >= IF sends < HistoryKept THEN sends ELSE HistoryKept
  BY DEF History, RecentIsLatest
<1>4. history' = Cut(h)
  OBVIOUS
<1> HIDE DEF h
<1>5. CASE Len(h) > HistoryMax
  <2>1. history' = SubSeq(h, Len(h) - HistoryKept + 1, Len(h))
    BY <1>5, <1>4 DEF Cut
  <2>2. HistoryKept \in Nat /\ HistoryKept < Len(h)
    BY <1>5, <1>1, <1>2, HistoryAssumption
  <2>3. history' \in Seq(Nat) /\ Len(history') = HistoryKept
        /\ \A i \in 1..HistoryKept : history'[i] = h[Len(h) - HistoryKept + i]
    <3>1. /\ SubSeq(h, Len(h) - HistoryKept + 1, Len(h)) \in Seq(Nat)
          /\ Len(SubSeq(h, Len(h) - HistoryKept + 1, Len(h))) = HistoryKept
          /\ \A i \in 1..HistoryKept : SubSeq(h, Len(h) - HistoryKept + 1, Len(h))[i]
                                          = h[Len(h) - HistoryKept + i]
      BY <1>2, <2>2, EndOf
    <3>2. QED
      BY ONLY <2>1, <3>1
  <2>4. \A i \in 1..HistoryKept : Len(h) - HistoryKept + i \in 1..Len(h)
    BY <1>1, <1>2, <2>2
  <2>5. ASSUME NEW i \in 1..HistoryKept PROVE history'[i] = sends' - HistoryKept + i
    <3>1. h[Len(h) - HistoryKept + i] = sends' - Len(h) + (Len(h) - HistoryKept + i)
      BY <1>2, <2>4
    <3>2. sends' \in Nat /\ Len(h) \in Nat
      BY <1>1, <1>2
    <3>3. sends' - Len(h) + (Len(h) - HistoryKept + i) = sends' - HistoryKept + i
      BY <2>2, <3>2
    <3>4. QED
      BY <2>3, <3>1, <3>3
  <2>6. Len(history') <= HistoryMax /\ Len(history') >= IF sends' < HistoryKept THEN sends' ELSE HistoryKept
    BY <2>2, <2>3, HistoryAssumption
  <2>7. DOMAIN history' = 1..Len(history')
    BY <2>3
  <2>8. QED
    BY <2>3, <2>5, <2>6, <2>7 DEF History, RecentIsLatest
<1>6. CASE Len(h) <= HistoryMax
  <2>1. history' = h
    BY <1>1, <1>2, <1>6, <1>4, HistoryAssumption DEF Cut
  <2>2. Len(h) >= IF sends' < HistoryKept THEN sends' ELSE HistoryKept
    BY <1>1, <1>2, <1>3, HistoryAssumption
  <2>3. DOMAIN h = 1..Len(h)
    BY <1>2
  <2>4. QED
    BY <1>2, <1>6, <2>1, <2>2, <2>3 DEF History, RecentIsLatest
<1>7. QED
  BY <1>1, <1>2, <1>5, <1>6, HistoryAssumption

-----------------------------------------------------------------------------
LEMMA NotifierInvInit == GitWatchInit => NotifierInv
<1> SUFFICES ASSUME GitWatchInit PROVE NotifierInv
  OBVIOUS
<1>1. Types
  <2>1. watch \in [Watcher -> Entry]
    <3>1. Resting \in Entry
      BY DEF Resting, Entry, Statuses
    <3>2. QED
      BY <3>1 DEF GitWatchInit
  <2>2. channel \in [Subscriber -> Seq(Nat)] /\ \A s \in Subscriber : Len(channel[s]) <= Capacity
    BY CapacityAssumption DEF GitWatchInit
  <2>3. QED
    BY <2>1, <2>2 DEF GitWatchInit, Types, Statuses
<1>2. History
  BY HistoryAssumption DEF GitWatchInit, History, RecentIsLatest
<1>3. \A s \in Subscriber : ToSet(channel[s]) = {} /\ got[s] = {} /\ IsInjective(channel[s])
  BY DEF GitWatchInit, ToSet, IsInjective
<1>4. Numbers
  BY <1>3 DEF GitWatchInit, Numbers, Serves, Has, Resting
<1>5. DeliveredOnce
  BY <1>3 DEF DeliveredOnce
<1>6. QED
  BY <1>1, <1>2, <1>4, <1>5 DEF NotifierInv

(* A step that tells nobody anything and begins no Send.                   *)
LEMMA QuietKeeps ==
    ASSUME NotifierInv, Types', UNCHANGED <<channel, got, history, sends>>,
           \A w \in Watcher : watch'[w].notif = watch[w].notif \/ watch'[w].notif = 0,
           \A w \in Watcher : Serves(w)' => Serves(w) /\ watch'[w] = watch[w]
    PROVE  NotifierInv'
<1>1. History' /\ DeliveredOnce'
  BY DEF NotifierInv, History, RecentIsLatest, DeliveredOnce
<1>2. \A s \in Subscriber, n \in Nat : Has(s, n)' <=> Has(s, n)
  BY DEF Has
<1>3. Numbers'
  <2>1. \A w \in Watcher : watch'[w].notif <= sends'
    <3>1. sends \in Nat /\ sends' = sends
      BY DEF NotifierInv, Types
    <3>2. \A w \in Watcher : watch[w].notif <= sends
      BY DEF NotifierInv, Numbers
    <3>3. ASSUME NEW w \in Watcher PROVE watch'[w].notif <= sends'
      BY <3>1, <3>2
    <3>4. QED
      BY <3>3
  <2>2. \A w, v \in Watcher : w # v /\ Serves(w)' /\ Serves(v)' => watch'[w].notif # watch'[v].notif
    BY DEF NotifierInv, Numbers
  <2>3. \A w \in Watcher, s \in Subscriber : Serves(w)' /\ s \in watch'[w].todo => ~Has(s, watch[w].notif)'
    <3>1. \A w \in Watcher : watch[w].notif' \in Nat
      BY DEF Types, Entry
    <3>2. QED
      BY <1>2, <3>1 DEF NotifierInv, Numbers
  <2>4. \A s \in Subscriber, n \in Nat : Has(s, n)' => n <= sends'
    BY <1>2 DEF NotifierInv, Numbers
  <2>5. QED
    BY <2>1, <2>2, <2>3, <2>4 DEF Numbers
<1>4. QED
  BY <1>1, <1>3 DEF NotifierInv

LEMMA LooksKeep ==
    ASSUME NotifierInv, NEW w \in Watcher, CheckGitStatus(w) \/ ReadLast(w) \/ Compare(w) \/ Served(w)
    PROVE  NotifierInv'
<1>1. watch \in [Watcher -> Entry]
  BY DEF NotifierInv, Types
<1>2. UNCHANGED notifierVars /\ last' \in Statuses
  <2>1. last \in Statuses /\ watch[w].curr \in Statuses
    BY <1>1 DEF NotifierInv, Types, Entry
  <2>2. QED
    BY <2>1 DEF CheckGitStatus, ReadLast, Compare, Served, notifierVars
<1>3. \E e \in Quiet : watch' = [watch EXCEPT ![w] = e] /\ (e.notif = watch[w].notif \/ e.notif = 0)
  <2>1. NoStatus \in Statuses /\ last \in Statuses /\ watch[w] \in Entry
    BY <1>1 DEF NotifierInv, Types, Statuses
  <2>2. CASE CheckGitStatus(w)
    <3>1. PICK tree \in [File -> Code] : watch' = [watch EXCEPT ![w].pc = "found", ![w].curr = tree]
      BY <2>2 DEF CheckGitStatus
    <3> DEFINE e == [watch[w] EXCEPT !.pc = "found", !.curr = tree]
    <3>2. watch' = [watch EXCEPT ![w] = e]
      BY <1>1, <3>1
    <3>3. e \in Quiet /\ e.notif = watch[w].notif
      BY <2>1 DEF Entry, Quiet, Statuses
    <3>4. QED
      BY <3>2, <3>3
  <2>3. CASE ReadLast(w)
    <3> DEFINE e == [watch[w] EXCEPT !.pc = "read", !.prev = last]
    <3>1. watch' = [watch EXCEPT ![w] = e]
      BY <1>1, <2>3 DEF ReadLast
    <3>2. e \in Quiet /\ e.notif = watch[w].notif
      BY <2>1 DEF Entry, Quiet
    <3>3. QED
      BY <3>1, <3>2
  <2>4. Resting \in Quiet /\ Resting.notif = 0 /\ Sending \in Quiet /\ Sending.notif = 0
    BY <2>1 DEF Resting, Sending, Quiet
  <2>5. CASE Compare(w)
    BY <2>4, <2>5 DEF Compare
  <2>6. CASE Served(w)
    BY <2>4, <2>6 DEF Served
  <2>7. QED
    BY <2>2, <2>3, <2>5, <2>6
<1>4. Types'
  <2>1. Quiet \subseteq Entry
    BY DEF Quiet, Entry
  <2>2. watch' \in [Watcher -> Entry]
    BY <1>1, <1>3, <2>1
  <2>3. QED
    BY <1>2, <2>2 DEF NotifierInv, Types, notifierVars
<1>5. \A v \in Watcher : watch'[v].notif = watch[v].notif \/ watch'[v].notif = 0
  BY <1>1, <1>3
<1>6. \A v \in Watcher : Serves(v)' => Serves(v) /\ watch'[v] = watch[v]
  BY <1>1, <1>3 DEF Serves, Quiet
<1>7. QED
  BY <1>2, <1>4, <1>5, <1>6, QuietKeeps DEF notifierVars

LEMMA ComeAndGoKeeps ==
    ASSUME NotifierInv, NEW s \in Subscriber, Subscribe(s) \/ Unsubscribe(s)
    PROVE  NotifierInv'
<1>1. UNCHANGED <<last, watch, channel, got, history, sends, panicked>>
  BY DEF Subscribe, Unsubscribe
<1>2. Types'
  BY <1>1 DEF Subscribe, Unsubscribe, NotifierInv, Types
<1>3. QED
  BY <1>1, <1>2, QuietKeeps DEF Serves

LEMMA BeginSendKeeps == ASSUME NotifierInv, NEW w \in Watcher, BeginSend(w) PROVE NotifierInv'
<1>1. /\ sends' = sends + 1 /\ history' = Cut(Append(history, sends + 1))
      /\ UNCHANGED <<last, subscribers, channel, ended, got, panicked>>
      /\ watch' = [watch EXCEPT ![w].pc = "serve", ![w].todo = subscribers, ![w].notif = sends + 1]
  BY DEF BeginSend
<1>2. sends \in Nat /\ watch \in [Watcher -> Entry]
  BY DEF NotifierInv, Types
<1> DEFINE e == [watch[w] EXCEPT !.pc = "serve", !.todo = subscribers, !.notif = sends + 1]
<1>3. watch' = [watch EXCEPT ![w] = e] /\ e \in Entry /\ e.pc = "serve" /\ e.notif = sends + 1
  <2>1. watch' = [watch EXCEPT ![w] = e]
    BY <1>1, <1>2
  <2>2. subscribers \in SUBSET Subscriber
    BY DEF NotifierInv, Types
  <2>3. watch[w] \in Entry /\ sends + 1 \in Nat
    BY <1>2
  <2>4. e \in Entry /\ e.pc = "serve" /\ e.notif = sends + 1
    BY ONLY <2>2, <2>3 DEF Entry, e
  <2>5. QED
    BY <2>1, <2>4
<1> HIDE DEF e
<1>4. Types'
  <2>1. watch' \in [Watcher -> Entry]
    BY <1>2, <1>3
  <2>2. QED
    BY <1>1, <1>2, <2>1 DEF NotifierInv, Types
<1>5. History'
  BY <1>1, <1>2, HistoryGrows DEF NotifierInv
<1>6. DeliveredOnce'
  BY <1>1 DEF NotifierInv, DeliveredOnce
<1>7. \A s \in Subscriber, n \in Nat : Has(s, n)' <=> Has(s, n)
  BY <1>1 DEF Has
<1>8. Numbers'
  <2>1. watch'[w].notif = sends + 1 /\ \A v \in Watcher \ {w} : watch'[v] = watch[v]
    BY <1>2, <1>3
  <2>2. \A v \in Watcher : watch[v].notif <= sends
    BY DEF NotifierInv, Numbers
  <2>3. ASSUME NEW v \in Watcher PROVE watch'[v].notif <= sends'
    <3>1. watch[v].notif \in Nat /\ watch[v].notif <= sends
      BY <1>2, <2>2 DEF Entry
    <3>2. QED
      BY <1>1, <1>2, <2>1, <3>1
  <2>4. \A u, v \in Watcher : u # v /\ Serves(u)' /\ Serves(v)' => watch'[u].notif # watch'[v].notif
    <3>1. \A v \in Watcher : watch[v].notif # sends + 1
      BY <1>2, <2>2 DEF Entry
    <3>2. \A v \in Watcher \ {w} : Serves(v)' => Serves(v)
      BY <2>1 DEF Serves
    <3>3. QED
      BY <2>1, <3>1, <3>2 DEF NotifierInv, Numbers
  <2>5. \A s \in Subscriber, n \in Nat : Has(s, n)' => n <= sends
    BY <1>7 DEF NotifierInv, Numbers
  <2>6. ASSUME NEW v \in Watcher, NEW s \in Subscriber, Serves(v)', s \in watch'[v].todo
        PROVE  ~Has(s, watch[v].notif)'
    <3>1. CASE v = w
      <4>1. ~Has(s, sends + 1)
        BY <1>2 DEF NotifierInv, Numbers
      <4>2. QED
        BY <1>2, <1>7, <2>1, <3>1, <4>1
    <3>2. CASE v # w
      <4>1. watch'[v] = watch[v] /\ watch[v].notif \in Nat
        BY <1>2, <2>1, <3>2 DEF Entry
      <4>2. Serves(v) /\ s \in watch[v].todo
        BY <2>6, <4>1 DEF Serves
      <4>3. QED
        BY <1>7, <4>1, <4>2 DEF NotifierInv, Numbers
    <3>3. QED
      BY <3>1, <3>2
  <2>7. \A s \in Subscriber, n \in Nat : Has(s, n)' => n <= sends'
    BY <1>1, <1>2, <2>5
  <2>8. QED
    BY <2>3, <2>4, <2>6, <2>7 DEF Numbers
<1>9. QED
  BY <1>4, <1>5, <1>6, <1>8 DEF NotifierInv

LEMMA ServeKeeps == ASSUME NotifierInv, NEW w \in Watcher, Serve(w) PROVE NotifierInv'
<1>1. PICK s \in watch[w].todo :
          IF s \in ended
          THEN panicked' = TRUE /\ UNCHANGED <<channel, watch>>
          ELSE /\ channel' = [channel EXCEPT ![s] =
                                 IF Len(@) < Capacity THEN Append(@, watch[w].notif) ELSE @]
               /\ watch' = [watch EXCEPT ![w].todo = @ \ {s}]
               /\ UNCHANGED panicked
  BY DEF Serve
<1>2. UNCHANGED <<last, subscribers, ended, got, history, sends>> /\ Serves(w)
  BY DEF Serve, Serves
<1>3. /\ watch \in [Watcher -> Entry]
      /\ s \in Subscriber /\ channel[s] \in Seq(Nat) /\ watch[w].notif \in Nat
  BY <1>1 DEF NotifierInv, Types, Entry
<1>4. CASE s \in ended
  <2>1. Types'
    BY <1>1, <1>2, <1>4 DEF NotifierInv, Types
  <2>2. QED
    BY <1>1, <1>2, <1>4, <2>1, QuietKeeps DEF Serves
<1>5. CASE s \notin ended
  <2> DEFINE n == watch[w].notif
  <2>1. /\ watch' = [watch EXCEPT ![w] = [pc |-> watch[w].pc, curr |-> watch[w].curr, prev |-> watch[w].prev,
                                          todo |-> watch[w].todo \ {s}, notif |-> n]]
        /\ panicked' = panicked
    BY <1>1, <1>3, <1>5 DEF Entry
  <2>2. /\ watch'[w].pc = watch[w].pc /\ watch'[w].notif = n /\ watch'[w].todo = watch[w].todo \ {s}
        /\ \A v \in Watcher \ {w} : watch'[v] = watch[v]
    BY <1>3, <2>1
  <2>3. /\ \A r \in Subscriber \ {s} : channel'[r] = channel[r]
        /\ channel'[s] = channel[s] \/ (Len(channel[s]) < Capacity /\ channel'[s] = Append(channel[s], n))
    <3>1. channel' = [channel EXCEPT ![s] =
                         IF Len(channel[s]) < Capacity THEN Append(channel[s], n) ELSE channel[s]]
      BY <1>1, <1>5
    <3>2. channel \in [Subscriber -> Seq(Nat)]
      BY DEF NotifierInv, Types
    <3>3. channel'[s] = IF Len(channel[s]) < Capacity THEN Append(channel[s], n) ELSE channel[s]
      BY <1>3, <3>1, <3>2
    <3>4. \A r \in Subscriber \ {s} : channel'[r] = channel[r]
      BY <3>1, <3>2
    <3>5. QED
      BY <3>3, <3>4
  <2>4. ~Has(s, n)
    BY <1>1, <1>2, <1>3 DEF NotifierInv, Numbers
  <2>5. /\ channel'[s] \in Seq(Nat) /\ Len(channel'[s]) <= Capacity
        /\ ToSet(channel'[s]) \subseteq ToSet(channel[s]) \cup {n} /\ IsInjective(channel'[s])
    <3>1. IsInjective(channel[s]) /\ Len(channel[s]) <= Capacity
      BY <1>3 DEF NotifierInv, DeliveredOnce, Types
    <3>2. n \notin ToSet(channel[s])
      BY <2>4 DEF Has
    <3>3. QED
      <4>1. CASE channel'[s] = channel[s]
        BY <1>3, <3>1, <4>1
      <4>2. CASE Len(channel[s]) < Capacity /\ channel'[s] = Append(channel[s], n)
        <5>1. /\ Append(channel[s], n) \in Seq(Nat) /\ Len(Append(channel[s], n)) = Len(channel[s]) + 1
              /\ ToSet(Append(channel[s], n)) = ToSet(channel[s]) \cup {n}
              /\ IsInjective(Append(channel[s], n))
          BY <1>3, <3>1, <3>2, AppendOnce
        <5>2. Len(channel[s]) + 1 <= Capacity
          BY <1>3, <4>2, CapacityAssumption
        <5>3. QED
          BY <4>2, <5>1, <5>2
      <4>3. QED
        BY <2>3, <4>1, <4>2
  <2>6. Types'
    <3>1. channel' \in [Subscriber -> Seq(Nat)]
      <4>1. channel' = [channel EXCEPT ![s] = channel'[s]] /\ channel \in [Subscriber -> Seq(Nat)]
        BY <1>1, <1>3, <1>5 DEF NotifierInv, Types
      <4>2. QED
        BY <2>5, <4>1
    <3>2. watch' \in [Watcher -> Entry]
      <4>1. [pc |-> watch[w].pc, curr |-> watch[w].curr, prev |-> watch[w].prev,
              todo |-> watch[w].todo \ {s}, notif |-> n] \in Entry
        BY <1>3 DEF Entry
      <4>2. QED
        BY <1>3, <2>1, <4>1
    <3>3. \A r \in Subscriber : Len(channel'[r]) <= Capacity
      BY <2>3, <2>5 DEF NotifierInv, Types
    <3>4. QED
      BY <1>2, <2>1, <3>1, <3>2, <3>3 DEF NotifierInv, Types
  <2>7. History'
    BY <1>2 DEF NotifierInv, History, RecentIsLatest
  <2>8. DeliveredOnce'
    <3>1. n \notin got[s]
      BY <2>4 DEF Has
    <3>2. QED
      BY <1>2, <2>3, <2>5, <3>1 DEF NotifierInv, DeliveredOnce
  <2>9. /\ \A r \in Subscriber \ {s} : \A k \in Nat : Has(r, k)' <=> Has(r, k)
        /\ \A k \in Nat : Has(s, k)' => Has(s, k) \/ k = n
    BY <1>2, <2>3, <2>5 DEF Has
  <2>10. Numbers'
    <3>1. \A v \in Watcher : watch'[v].notif = watch[v].notif /\ (Serves(v)' <=> Serves(v))
                             /\ watch'[v].todo \subseteq watch[v].todo
      BY <2>2 DEF Serves
    <3>2. \A v \in Watcher : watch'[v].notif <= sends'
      BY <1>2, <3>1 DEF NotifierInv, Numbers
    <3>3. \A u, v \in Watcher : u # v /\ Serves(u)' /\ Serves(v)' => watch'[u].notif # watch'[v].notif
      BY <3>1 DEF NotifierInv, Numbers
    <3>4. ASSUME NEW v \in Watcher, NEW r \in Subscriber, Serves(v)', r \in watch'[v].todo
          PROVE  ~Has(r, watch[v].notif)'
      <4>1. ~Has(r, watch[v].notif) /\ Serves(v) /\ watch[v].notif \in Nat
        BY <1>3, <3>1, <3>4 DEF NotifierInv, Numbers, Entry
      <4>2. CASE r # s
        BY <2>9, <3>1, <4>1, <4>2
      <4>3. CASE r = s
        <5>1. v # w
          BY <2>2, <3>4, <4>3
        <5>2. watch[v].notif # n
          BY <1>2, <4>1, <5>1 DEF NotifierInv, Numbers
        <5>3. QED
          BY <2>9, <3>1, <4>1, <4>3, <5>2
      <4>4. QED
        BY <4>2, <4>3
    <3>5. \A r \in Subscriber, k \in Nat : Has(r, k)' => k <= sends'
      BY <1>2, <2>9 DEF NotifierInv, Numbers
    <3>6. QED
      BY <3>2, <3>3, <3>4, <3>5 DEF Numbers
  <2>11. QED
    BY <2>6, <2>7, <2>8, <2>10 DEF NotifierInv
<1>6. QED
  BY <1>4, <1>5

LEMMA ReadKeeps == ASSUME NotifierInv, NEW s \in Subscriber, Read(s) PROVE NotifierInv'
<1>1. /\ channel[s] # <<>>
      /\ got' = [got EXCEPT ![s] = @ \cup {Head(channel[s])}]
      /\ channel' = [channel EXCEPT ![s] = Tail(@)]
      /\ UNCHANGED <<last, watch, subscribers, ended, history, sends, panicked>>
  BY DEF Read
<1>2. /\ Tail(channel[s]) \in Seq(Nat) /\ Len(Tail(channel[s])) <= Len(channel[s]) /\ Head(channel[s]) \in Nat
      /\ ToSet(channel[s]) = ToSet(Tail(channel[s])) \cup {Head(channel[s])}
      /\ IsInjective(Tail(channel[s])) /\ Head(channel[s]) \notin ToSet(Tail(channel[s]))
  BY <1>1, TailOnce DEF NotifierInv, Types, DeliveredOnce
<1>3. /\ channel'[s] = Tail(channel[s]) /\ got'[s] = got[s] \cup {Head(channel[s])}
      /\ \A r \in Subscriber \ {s} : channel'[r] = channel[r] /\ got'[r] = got[r]
  BY <1>1 DEF NotifierInv, Types
<1>4. Types'
  <2>1. channel' \in [Subscriber -> Seq(Nat)] /\ got' \in [Subscriber -> SUBSET Nat]
    <3>1. channel \in [Subscriber -> Seq(Nat)] /\ got \in [Subscriber -> SUBSET Nat]
      BY DEF NotifierInv, Types
    <3>2. channel' = [channel EXCEPT ![s] = Tail(channel[s])]
          /\ got' = [got EXCEPT ![s] = got[s] \cup {Head(channel[s])}]
      BY <1>1
    <3>3. got[s] \cup {Head(channel[s])} \in SUBSET Nat
      BY <1>2, <3>1
    <3>4. channel' \in [Subscriber -> Seq(Nat)]
      BY <1>2, <3>1, <3>2
    <3>5. got' \in [Subscriber -> SUBSET Nat]
      BY <3>1, <3>2, <3>3
    <3>6. QED
      BY <3>4, <3>5
  <2>2. \A r \in Subscriber : Len(channel'[r]) <= Len(channel[r])
    <3>1. \A r \in Subscriber : Len(channel[r]) \in Nat
      BY DEF NotifierInv, Types
    <3>2. \A r \in Subscriber \ {s} : Len(channel'[r]) = Len(channel[r])
      BY <1>3
    <3>3. Len(channel'[s]) <= Len(channel[s])
      BY <1>2, <1>3
    <3>4. QED
      BY <3>1, <3>2, <3>3
  <2>3. \A r \in Subscriber : Len(channel'[r]) <= Capacity
    BY <2>1, <2>2, CapacityAssumption DEF NotifierInv, Types
  <2>4. QED
    BY <1>1, <2>1, <2>3 DEF NotifierInv, Types
<1>5. History'
  BY <1>1 DEF NotifierInv, History, RecentIsLatest
<1>6. DeliveredOnce'
  BY <1>2, <1>3 DEF NotifierInv, DeliveredOnce
<1>7. \A r \in Subscriber, n \in Nat : Has(r, n)' <=> Has(r, n)
  BY <1>2, <1>3 DEF Has
<1>8. Numbers'
  <2>1. \A w \in Watcher : watch'[w] = watch[w] /\ watch[w].notif \in Nat /\ (Serves(w)' <=> Serves(w))
    BY <1>1 DEF NotifierInv, Types, Serves, Entry
  <2>2. \A w \in Watcher, r \in Subscriber : Serves(w)' /\ r \in watch'[w].todo => ~Has(r, watch[w].notif)'
    BY <1>7, <2>1 DEF NotifierInv, Numbers
  <2>3. QED
    BY <1>1, <1>7, <2>1, <2>2 DEF NotifierInv, Numbers
<1>9. QED
  BY <1>4, <1>5, <1>6, <1>8 DEF NotifierInv

LEMMA NotifierInvNext == NotifierInv /\ [GitWatchNext]_gitWatchVars => NotifierInv'
<1>1. ASSUME NotifierInv, UNCHANGED gitWatchVars PROVE NotifierInv'
  <2>1. UNCHANGED <<last, watch, subscribers, channel, ended, got, history, sends, panicked>>
    BY <1>1 DEF gitWatchVars, notifierVars
  <2>2. Types'
    BY <1>1, <2>1 DEF NotifierInv, Types
  <2>3. QED
    BY <1>1, <2>1, <2>2, QuietKeeps DEF Serves
<1>2. QED
  BY <1>1, LooksKeep, BeginSendKeeps, ServeKeeps, ComeAndGoKeeps, ReadKeeps
     DEF GitWatchNext, WatcherStep

-----------------------------------------------------------------------------
(* Of any loops, clients and sizes: the history is the end of what was     *)
(* sent, no shorter than HistoryKept and no longer than HistoryMax, and the *)
(* notification of one Send is in no channel twice and in none of a client *)
(* that has it, though two loops may serve at once and clients leave       *)
(* meanwhile (notify.go:75-108).  Two loops that saw one change send two   *)
(* notifications of it, and the theorem says nothing of that.              *)
THEOREM NotifierIsSafe == GitWatchSpec => []NotifierSafe
<1>1. NotifierInv => NotifierSafe
  <2>1. SUFFICES ASSUME NotifierInv PROVE NotifierSafe
    OBVIOUS
  <2>2. GitWatchTypeOK
    <3>1. \A w \in Watcher : watch[w] \in Entry /\ watch[w].notif <= sends
      BY <2>1 DEF NotifierInv, Types, Numbers
    <3>2. sends \in Nat
      BY <2>1 DEF NotifierInv, Types
    <3>3. \A w \in Watcher : /\ watch[w].pc \in {"idle", "found", "read", "send", "serve"}
                             /\ watch[w].curr \in [File -> Code] \cup {NoStatus}
                             /\ watch[w].prev \in [File -> Code] \cup {NoStatus}
                             /\ watch[w].todo \subseteq Subscriber
                             /\ watch[w].notif \in 0..sends
      BY <3>1, <3>2 DEF Entry, Statuses
    <3>4. QED
      BY <2>1, <3>3 DEF NotifierInv, Types, History, GitWatchTypeOK, Statuses
  <2>3. QED
    BY <2>1, <2>2 DEF NotifierInv, History, NotifierSafe
<1>2. QED
  BY NotifierInvInit, NotifierInvNext, <1>1, PTL DEF GitWatchSpec
=============================================================================
