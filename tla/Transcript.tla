------------------------------ MODULE Transcript ------------------------------
(***************************************************************************)
(* The messages of a chat as ChatPage keeps and shows them                 *)
(* (web/src/pages/Chat.tsx handleAgentEvent and the list of messages,      *)
(* components/Markdown.tsx): what each event of an answer makes of them.   *)
(*                                                                         *)
(* A content is a sequence of pieces: what was typed, the texts of an      *)
(* answer, and the tags put around its thinking.  Each piece, and each     *)
(* call of a tool, carries the number of the question it answers.          *)
(***************************************************************************)
EXTENDS Naturals, Sequences, SequencesExt

(* The elements of a sequence at certain places, in their order. *)
At(s, places) == FlattenSeq([i \in DOMAIN s |-> IF i \in places THEN <<s[i]>> ELSE <<>>])

OpenTag  == <<"<think>">>
CloseTag == <<"</think>">>
ErrorPiece(ask) == <<"error", ask>>
NoResult == <<>>

UserMessage(ask) ==
    [role |-> "user", content |-> <<<<"typed", ask>>>>, name |-> "", call |-> <<>>, result |-> NoResult]
EmptyAnswer ==
    [role |-> "assistant", content |-> <<>>, name |-> "", call |-> <<>>, result |-> NoResult]
ToolMessage(name, call) ==
    [role |-> "tool", content |-> <<>>, name |-> name, call |-> call, result |-> NoResult]

Has(m, tag) == Contains(m.content, tag)
EndsWithAnswer(ms) == ms # <<>> /\ Last(ms).role = "assistant"

Extended(ms, pieces) ==
    [ms EXCEPT ![Len(ms)].content = @ \o pieces]

AddThinking(ms, p) ==
    IF EndsWithAnswer(ms)
    THEN Extended(ms, (IF Has(Last(ms), OpenTag) THEN <<>> ELSE <<OpenTag>>) \o <<p>>)
    ELSE ms

(* Wrong: the thinking is not closed. *)
AddTextAsItIs(ms, p) == IF EndsWithAnswer(ms) THEN Extended(ms, <<p>>) ELSE ms

AddText(ms, p) ==
    IF EndsWithAnswer(ms)
    THEN Extended(ms, (IF Has(Last(ms), OpenTag) /\ ~Has(Last(ms), CloseTag)
                       THEN <<CloseTag>> ELSE <<>>) \o <<p>>)
    ELSE ms

(* The bubbles of a tool that show no result: an empty result is none. *)
Waiting(ms, name) ==
    {i \in DOMAIN ms : ms[i].role = "tool" /\ ms[i].name = name /\ ms[i].result = NoResult}

(* Wrong: the oldest bubble gets the result. *)
AddResultToOldest(ms, name, result) ==
    Append(IF Waiting(ms, name) = {} THEN ms
           ELSE [ms EXCEPT ![Min(Waiting(ms, name))].result = result],
           EmptyAnswer)

AddResult(ms, name, result) ==
    Append(IF Waiting(ms, name) = {} THEN ms
           ELSE [ms EXCEPT ![Max(Waiting(ms, name))].result = result],
           EmptyAnswer)

DropEmptyAnswer(ms) ==
    IF EndsWithAnswer(ms) /\ Last(ms).content = <<>> THEN Front(ms) ELSE ms

AddError(ms, ask) ==
    Append(ms, [EmptyAnswer EXCEPT !.content = <<ErrorPiece(ask)>>])

HandleEvent(ms, e) ==
    CASE e.type = "thinking"    -> AddThinking(ms, e.piece)
      [] e.type = "text"        -> AddText(ms, e.piece)
      [] e.type = "tool_input"  -> Append(ms, ToolMessage(e.name, e.call))
      [] e.type = "tool_result" -> AddResult(ms, e.name, e.result)
      [] e.type \in {"done", "stream_end"} -> DropEmptyAnswer(ms)
      [] e.type = "error"       -> AddError(ms, e.ask)
      [] OTHER                  -> ms

(* Several, one after the other. *)
HandleEvents(ms, es) ==
    LET after[i \in 0..Len(es)] == IF i = 0 THEN ms ELSE HandleEvent(after[i - 1], es[i])
    IN  after[Len(es)]

StatusAfter(status, e) ==
    CASE e.type = "tool_start" -> "executing"
      [] e.type = "status"     -> "server"
      [] e.type \in {"tool_result", "done", "stream_end"} -> ""
      [] OTHER -> status

StatusAfterAll(status, es) ==
    LET after[i \in 0..Len(es)] == IF i = 0 THEN status ELSE StatusAfter(after[i - 1], es[i])
    IN  after[Len(es)]

(* The catch of `send': the answer broke off. *)
BreakOff(ms, ask) ==
    IF EndsWithAnswer(ms) THEN Extended(ms, <<ErrorPiece(ask)>>) ELSE ms

-----------------------------------------------------------------------------
(* What is shown. *)

Shown(m, streaming) ==
    CASE m.role = "user" -> "bubble"
      [] m.role = "tool" -> IF m.result = NoResult THEN "spinner" ELSE "result"
      [] m.role = "assistant" /\ m.content = <<>> -> IF streaming THEN "dots" ELSE "nothing"
      [] OTHER -> "bubble"

(* Markdown cuts a content at <think>: a piece is in a folded block when a *)
(* tag was opened before it and none was closed since.                     *)
Folded(content, i) ==
    \E j \in 1..(i - 1) : /\ content[j] = OpenTag
                          /\ \A k \in j..i : content[k] # CloseTag

-----------------------------------------------------------------------------
(* Words of the properties. *)

IsAsk(m) == m.role = "user"
Ask(m) == m.content[1][2]

(* The questions of a conversation, in order. *)
Asks(ms) == FlattenSeq([i \in DOMAIN ms |-> IF IsAsk(ms[i]) THEN <<Ask(ms[i])>> ELSE <<>>])

(* The question a message stands under; 0 before the first. *)
Under(ms, i) ==
    LET before == {j \in 1..i : IsAsk(ms[j])}
    IN IF before = {} THEN 0 ELSE Ask(ms[Max(before)])

(* The pieces of the answer to a question, in the order they are shown. *)
PiecesOf(ms, ask) ==
    LET Mine(c) == {j \in DOMAIN c : Len(c[j]) = 3 /\ c[j][2] = ask}
    IN FlattenSeq([i \in DOMAIN ms |-> At(ms[i].content, Mine(ms[i].content))])
=============================================================================
