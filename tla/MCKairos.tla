------------------------------ MODULE MCKairos ------------------------------
(***************************************************************************)
(* Daemons that are started, stopped and started again, two loops, time    *)
(* for two ticks.  Users choose ids freely, the server's own included:     *)
(* with gw as the id they add, lists have no task, one, or two that share  *)
(* it, and removal and marking meet duplicates.                            *)
(*                                                                         *)
(* Two stories are told.  In one, one daemon goes between two workspaces   *)
(* and the empty one.  In the other, a second handler finds no daemon      *)
(* beside the first, and there are two from then on, in one workspace.     *)
(***************************************************************************)
EXTENDS Kairos

CONSTANTS p1, p2,      \* workspaces
          d1, d2,      \* daemons
          r1, r2,      \* requests
          gw,          \* the server's task
          l1, l2       \* loops

(* Daemons and loops differ in name alone: the first is taken first.       *)
InOrder == /\ d2 \in made => d1 \in made
           /\ At(l1, "none") => At(l2, "none")

(* The second handler is a first Start.                                    *)
FirstStarts == Asks(r2, "idle") /\ slot # None => UNCHANGED request[r2]

TwoAtOnce == d2 \in made \/ ~Asks(r2, "idle")

(* Bounds on tasks: two, over both projects, and one beside a second loop  *)
(* or a second daemon.                                                     *)
FewTasks == /\ Len(saved[p1]) + Len(saved[p2]) <= IF At(l2, "none") THEN 2 ELSE 1
            /\ TwoAtOnce => \A d \in made : Len(tasks[d]) <= 1

(* Bound: two daemons have one workspace, and no project is added.         *)
OneWorkspace == TwoAtOnce => /\ workDir = p1 /\ saved[p2] = <<>>
                             /\ \A d \in made : dir[d] # p2
                             /\ ~Asks(r1, "tell")

MCNext == KairosNext /\ FirstStarts /\ (InOrder /\ FewTasks /\ OneWorkspace)'

MCSpec == /\ KairosInit /\ [][MCNext]_kairosVars
          /\ \A l \in Loop : WF_kairosVars(LoopStep(l)) /\ SF_kairosVars(Ended(l))
=============================================================================
