--------------------------------- MODULE Costs ---------------------------------
(***************************************************************************)
(* The activity page (web/src/pages/Costs.tsx): it asks for four kinds of  *)
(* figures every five seconds, whether or not it has been answered, and    *)
(* shows them when all four are there; and it compares two models.         *)
(***************************************************************************)
EXTENDS Naturals, FiniteSets, FiniteSetsExt, Sequences

CONSTANTS MaxUsage,     \* uses counted
          MaxLoads,     \* loads in flight at once
          MaxResults,   \* comparisons shown
          Others        \* figures beside the costs

ASSUME CostsAssumption == MaxUsage \in Nat /\ MaxLoads \in Nat \ {0} /\ MaxResults \in Nat \ {0}

Figures == {"costs"} \union Others
None == MaxUsage + 1    \* no figure
NoFigures == [f \in Figures |-> None]

VARIABLES
    usage,      \* what the server has counted
    loads,      \* loads in flight, by number: the figures answered so far
    figures,    \* what the page shows
    comparing,  \* a comparison is on its way, the button disabled
    compared,   \* comparisons answered since the page was opened
    results     \* those shown, newest first

costsVars == <<usage, loads, figures, comparing, compared, results>>
compareVars == <<comparing, compared, results>>

Without(i) == [j \in DOMAIN loads \ {i} |-> loads[j]]

OpenCosts ==
    /\ loads' = [i \in {1} |-> [f \in {} |-> None]]
    /\ figures' = NoFigures
    /\ comparing' = FALSE /\ compared' = 0 /\ results' = <<>>
    /\ UNCHANGED usage

(* What is still on its way is of no use to anyone. *)
CloseCosts ==
    /\ loads' = [i \in {} |-> NoFigures]
    /\ UNCHANGED <<usage, figures, compareVars>>

(* Somebody uses a model. *)
Use ==
    /\ usage < MaxUsage
    /\ usage' = usage + 1
    /\ UNCHANGED <<loads, figures, compareVars>>

(* The timer. *)
LoadFigures ==
    LET free == (1..MaxLoads) \ DOMAIN loads
    IN /\ free # {}
       /\ loads' = [i \in DOMAIN loads \union {Min(free)} |->
                       IF i = Min(free) THEN [f \in {} |-> None] ELSE loads[i]]
       /\ UNCHANGED <<usage, figures, compareVars>>

FigureIs(i, f, value) ==
    /\ f \notin DOMAIN loads[i]
    /\ loads' = [loads EXCEPT ![i] = [g \in DOMAIN @ \union {f} |-> IF g = f THEN value ELSE @[g]]]
    /\ UNCHANGED <<usage, figures, compareVars>>

FigureServed(i, f) == FigureIs(i, f, usage)

(* Without the costs the whole load is lost, without another figure that   *)
(* figure is.                                                              *)
FigureFails(i, f) ==
    \/ f # "costs" /\ FigureIs(i, f, None)
    \/ /\ f = "costs" /\ f \notin DOMAIN loads[i]
       /\ loads' = Without(i)
       /\ UNCHANGED <<usage, figures, compareVars>>

FiguresShown(i) ==
    /\ DOMAIN loads[i] = Figures
    /\ figures' = loads[i]
    /\ loads' = Without(i)
    /\ UNCHANGED <<usage, compareVars>>

(* The page names no models to compare: what is answered is an error, and  *)
(* is shown as a result all the same.                                      *)
Compare ==
    /\ ~comparing
    /\ comparing' = TRUE
    /\ UNCHANGED <<usage, loads, figures, compared, results>>

(* Wrong: the newest comparison comes last. *)
CompareAnsweredLast ==
    /\ comparing
    /\ comparing' = FALSE
    /\ compared' = compared + 1
    /\ results' = SubSeq(results \o <<compared + 1>>, 1, Min({MaxResults, Len(results) + 1}))
    /\ UNCHANGED <<usage, loads, figures>>

CompareAnswered ==
    /\ comparing
    /\ comparing' = FALSE
    /\ compared' = compared + 1
    /\ results' = SubSeq(<<compared + 1>> \o results, 1, Min({MaxResults, Len(results) + 1}))
    /\ UNCHANGED <<usage, loads, figures>>

CompareFails ==
    /\ comparing
    /\ comparing' = FALSE
    /\ UNCHANGED <<usage, loads, figures, compared, results>>

CostsInit ==
    /\ usage = 0
    /\ loads = [i \in {} |-> NoFigures]
    /\ figures = NoFigures
    /\ comparing = FALSE /\ compared = 0 /\ results = <<>>

-----------------------------------------------------------------------------
CostsTypeOK ==
    /\ usage \in 0..MaxUsage
    /\ DOMAIN loads \subseteq 1..MaxLoads
    /\ \A i \in DOMAIN loads : DOMAIN loads[i] \subseteq Figures /\ loads[i] \in [DOMAIN loads[i] -> 0..None]
    /\ figures \in [Figures -> 0..None]
    /\ comparing \in BOOLEAN

(* The last comparisons are shown, newest first (Costs.tsx:193). *)
LastCompared ==
    results = [n \in 1..Min({MaxResults, compared}) |-> compared + 1 - n]

UpToDate == \A f \in Figures : figures[f] = usage
=============================================================================
