---------------------------- MODULE WaveSchedule ----------------------------
(***************************************************************************)
(* What ComputeWaves promises its caller, without saying how: waves are    *)
(* handed out one after another, a task only after all it depends on was   *)
(* handed out in earlier waves, at most MaxWaveSize tasks at a time; the   *)
(* computation ends with every task in a wave, or with an error and no     *)
(* waves, and with the error only for a request that cannot be ordered.    *)
(***************************************************************************)
EXTENDS Sequences

CONSTANTS Request,           \* the task lists a caller may hand over
          Ids(_),            \* the names of the tasks of a list
          DependsOn(_, _),   \* the names a task of a list waits for
          WaveFits(_),       \* the waves the team's settings allow
          Unschedulable(_)   \* the lists no order of execution exists for

VARIABLES tasks, waves, outcome

scheduleVars == <<tasks, waves, outcome>>

HandedOut == UNION {waves[k] : k \in DOMAIN waves}

ScheduleInit == /\ tasks \in Request
                /\ waves = <<>>
                /\ outcome = "computing"

HandOut(W) ==
    /\ outcome = "computing"
    /\ W # {}
    /\ WaveFits(W)
    /\ W \cap HandedOut = {}
    /\ \A x \in W : DependsOn(tasks, x) \subseteq HandedOut
    /\ waves' = Append(waves, W)
    /\ UNCHANGED <<tasks, outcome>>

Complete ==
    /\ outcome = "computing"
    /\ HandedOut = Ids(tasks)
    /\ outcome' = "done"
    /\ UNCHANGED <<tasks, waves>>

Refuse ==
    /\ outcome = "computing"
    /\ Unschedulable(tasks)
    /\ outcome' = "error"
    /\ waves' = <<>>
    /\ UNCHANGED tasks

ScheduleNext == \/ \E W \in SUBSET Ids(tasks) : HandOut(W)
                \/ Complete
                \/ Refuse

(* What may be handed out; when the computation ends is not promised here. *)
ScheduleSafety == ScheduleInit /\ [][ScheduleNext]_scheduleVars
=============================================================================
