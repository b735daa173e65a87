------------------------------ MODULE EventStream ------------------------------
(***************************************************************************)
(* How the front end reads an answer that is streamed to it: the loop of   *)
(* `send' (web/src/pages/Chat.tsx:134-149), and the same loop in           *)
(* lib/api.ts streamChat and pages/Team.tsx runTeam.                       *)
(*                                                                         *)
(* The server writes one event per line; the network cuts the bytes into   *)
(* chunks where it likes.  A line is two pieces here, its head (number     *)
(* 2l - 1) and its tail with the line break (number 2l): every place of a  *)
(* cut that matters is one of "between lines" and "inside a line".         *)
(***************************************************************************)
EXTENDS Naturals

VARIABLES
    size,       \* how many lines the server writes in all
    got,        \* pieces that have arrived
    buffer,     \* pieces kept for the next chunk
    handled     \* lines given to the event handler

streamVars == <<size, got, buffer, handled>>

IsTail(p) == p % 2 = 0
HeadOf(l) == 2 * l - 1
TailOf(l) == 2 * l

Open(n) ==
    /\ size' = n
    /\ got' = 0 /\ buffer' = {} /\ handled' = {}

(* What `buffer' holds after a chunk of k pieces was added to it. *)
Joined(k) == buffer \union (got + 1)..(got + k)

(* A line is handled when both its pieces are there: a tail alone is no    *)
(* "data: " line, or its JSON does not parse.                              *)
CompleteLines(k) == {l \in 1..size : {HeadOf(l), TailOf(l)} \subseteq Joined(k)}

(* Wrong: what follows the last line break is thrown away. *)
NothingKept(k) == {}

(* `lines.pop()': what follows the last line break. *)
Incomplete(k) == {p \in Joined(k) : ~\E q \in Joined(k) : q >= p /\ IsTail(q)}

Read(k) ==
    /\ k \in 1..(2 * size - got)
    /\ got' = got + k
    /\ buffer' = Incomplete(k)
    /\ handled' = handled \union CompleteLines(k)
    /\ UNCHANGED size

AllRead == got = 2 * size

-----------------------------------------------------------------------------
StreamInit == /\ size \in Nat
              /\ got = 0 /\ buffer = {} /\ handled = {}

StreamNext == \/ \E k \in Nat : Read(k)
              \/ AllRead /\ \E n \in Nat : Open(n)

StreamSpec == StreamInit /\ [][StreamNext]_streamVars

-----------------------------------------------------------------------------
(* However the network cuts the answer, every line that has arrived whole  *)
(* was given to the handler, no other was, and none stays in the buffer to *)
(* be given again (Chat.tsx:139-149).                                      *)
ArrivedHandled ==
    /\ handled = 1..(got \div 2)
    /\ buffer = {p \in {got} : ~IsTail(p)}

(* The lines are handled in their order: those of a chunk are numbered     *)
(* above all that were handled before it.                                  *)
HandledInOrder ==
    [][\A l \in handled' \ handled : \A e \in handled : e < l]_streamVars
=============================================================================
