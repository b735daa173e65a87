--------------------------------- MODULE Calls ---------------------------------
(***************************************************************************)
(* Requests a page has in flight (web/src/lib/api.ts), by number: each is  *)
(* asked, handled by the server in one step or several, and answered.      *)
(* Answers come in any order, because each belongs to an await of its own. *)
(* A call is a record with at least the fields                             *)
(*   by      the component that asked                                      *)
(*   what    which request                                                 *)
(*   step    "asked", or how far the server is, or "served"                *)
(*   live    FALSE when that component is gone: the function that awaits   *)
(*           goes on, but nothing it sets is shown                         *)
(***************************************************************************)
EXTENDS Naturals, FiniteSets, FiniteSetsExt

CONSTANT MaxCalls       \* requests of a page in flight at once

ASSUME CallsAssumption == MaxCalls \in Nat \ {0}

Slots == 1..MaxCalls

NoCalls == [i \in {} |-> {}]
InFlight(calls) == DOMAIN calls
Room(calls, n) == Cardinality(InFlight(calls)) + n <= MaxCalls

Ask(calls, call) ==
    LET i == Min(Slots \ DOMAIN calls)
    IN [j \in DOMAIN calls \union {i} |-> IF j = i THEN call ELSE calls[j]]

Stepped(calls, i, step) == [calls EXCEPT ![i].step = step]
Gone(calls, i) == [j \in DOMAIN calls \ {i} |-> calls[j]]

(* The component that asked is unmounted. *)
Orphaned(calls, by) == [i \in DOMAIN calls |-> [calls[i] EXCEPT !.live = @ /\ calls[i].by # by]]
=============================================================================
