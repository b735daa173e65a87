------------------------------- MODULE MCTeam -------------------------------
(***************************************************************************)
(* Team requests small enough to check.                                    *)
(*                                                                         *)
(* Followed to their end, each chosen for what it makes possible: two      *)
(* tasks side by side that own a file each; a chain, alone and crowded; a  *)
(* task after two parallel ones; an id used twice; a task that waits for   *)
(* itself; three tasks for waves of two.                                   *)
(*                                                                         *)
(* Followed until ComputeWaves has returned, so that every shape its maps  *)
(* can take occurs: two entries with any ids and any dependencies          *)
(* (duplicate ids, self-dependencies, names no task has), three tasks that *)
(* depend on each other in any way (every cycle), and four tasks that      *)
(* depend on earlier ones (every acyclic graph, the diamond included).     *)
(***************************************************************************)
EXTENDS Team

CONSTANTS f, g   \* two files

Job(id, deps, files) == [id |-> id, dependsOn |-> deps, files |-> files]

SideBySide == <<Job(1, <<>>, {f}), Job(2, <<>>, {g})>>
Chain      == <<Job(2, <<1>>, {f}), Job(1, <<>>, {f})>>
Beside     == <<Job(2, <<1>>, {g}), Job(1, <<>>, {f})>>
Join       == <<Job(1, <<>>, {f}), Job(2, <<>>, {g}), Job(3, <<1, 2>>, {f, g})>>
Twice      == <<Job(1, <<>>, {f}), Job(1, <<>>, {g})>>
Cycle      == <<Job(1, <<>>, {f}), Job(2, <<2>>, {g})>>
Wide       == <<Job(1, <<>>, {f}), Job(2, <<>>, {g}), Job(3, <<>>, {})>>

Followed == {SideBySide, Chain, Beside, Join, Twice, Cycle, Wide}
MCCrowded == {Beside}
Pair == {SideBySide, Chain}
Nobody == {}

(* Dependency lists up to the order of their entries, which the counts of  *)
(* ComputeWaves cannot see: {}, one name, or two that may be equal.        *)
Lists(S) == {<<>>} \cup {<<a>> : a \in S}
                   \cup {<<p[1], p[2]>> : p \in {q \in S \X S : q[1] <= q[2]}}

AnyTwo == {<<Job(a, d, {}), Job(b, e, {})>> :
              a \in 1..3, b \in 1..3, d \in Lists(1..3), e \in Lists(1..3)}

AnyThree == {<<Job(1, d, {}), Job(2, e, {}), Job(3, h, {})>> :
                d \in Lists(1..3), e \in Lists(1..3), h \in Lists(1..3)}

AcyclicFour == {<<Job(1, <<>>, {}), Job(2, d, {}), Job(3, e, {}), Job(4, h, {})>> :
                   d \in Lists(1..1), e \in Lists(1..2),
                   h \in Lists(1..3) \cup {<<1, 2, 3>>}}

MCRequest == Followed \cup AnyTwo \cup AnyThree \cup AcyclicFour

(* The requests of the second kind rest once their waves are computed; the *)
(* fairness of Team excludes that rest, never a computation that loops.    *)
MCNext == \/ (tasks \in Followed \/ pc = "compute") /\ TeamNext
          \/ tasks \notin Followed /\ pc # "compute" /\ UNCHANGED teamVars

MCSpec == TeamInit /\ [][MCNext]_teamVars /\ Fairness
=============================================================================
