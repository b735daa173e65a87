------------------------------- MODULE Stream --------------------------------
(***************************************************************************)
(* One answer of a model on its way to the agent: what an OpenAI-          *)
(* compatible provider or Gemini sends is translated to events             *)
(* (translate/response.go, providers/gemini.go), which the agent loop      *)
(* collects into text and tool calls (agent/loop.go).  The channels        *)
(* between them keep the order, so each chunk is followed to its end in    *)
(* one step, and each event is collected as it is made.                    *)
(*                                                                         *)
(* A piece of text, of reasoning or of arguments is the number of its      *)
(* chunk; a tool call is its place among the calls of the answer.          *)
(***************************************************************************)
EXTENDS Naturals, Sequences, SequencesExt, FiniteSets

CONSTANTS MaxCalls,    \* bound: calls of an answer
          MaxChunks    \* bound: its chunks

ASSUME BoundsAssumption == MaxCalls \in Nat /\ MaxChunks \in Nat

Call == 1..MaxCalls
NoCall == 0
Filler == 0   \* the piece "(No text output - only reasoning was produced)"
Piece == 0..MaxChunks

(* What a chunk says of a call: that it starts, and some of its arguments. *)
Entry == [call : Call, starts : BOOLEAN, args : BOOLEAN]
Chunk == [reasoning : BOOLEAN, text : BOOLEAN, tools : Seq(Entry), finish : BOOLEAN]
Empty == [reasoning |-> FALSE, text |-> FALSE, tools |-> <<>>, finish |-> FALSE]

Event == [type : {"start", "delta", "stop", "message_stop"}, index : Nat,
          block : {"none", "text", "thinking", "tool_use"}, call : Call \cup {NoCall},
          piece : Piece]
ToolUse == [call : Call, input : Seq(Piece)]

(* The Translator, with the events it has made, and the local variables of *)
(* RunLoop that collect them.                                              *)
Reply == [blockIndex : Nat, textOpen : BOOLEAN, thinkingOpen : BOOLEAN,
          toolCalls : SUBSET Call, events : Seq(Event),
          currentText : Seq(Piece), currentTool : Seq(ToolUse),
          textContent : Seq(Piece), toolUses : Seq(ToolUse)]

VARIABLES
    provider,     \* who answers
    chunks,       \* what the provider has sent
    reply,        \* what has been made of it
    ended         \* the channel of events is closed

streamVars == <<provider, chunks, reply, ended>>

StreamInit ==
    /\ provider \in {"openai", "gemini"}
    /\ chunks = <<>>
    /\ reply = [blockIndex |-> 0, textOpen |-> FALSE, thinkingOpen |-> FALSE,
                toolCalls |-> {}, events |-> <<>>,
                currentText |-> <<>>, currentTool |-> <<>>,
                textContent |-> <<>>, toolUses |-> <<>>]
    /\ ended = FALSE

-----------------------------------------------------------------------------

(* Wrong: a call that starts waits behind the one that has not stopped. *)
QueueCall(t, k) == [t EXCEPT !.currentTool = Append(@, [call |-> k, input |-> <<>>])]

(* A call that starts displaces the one that has not stopped. *)
StartCall(t, k) == [t EXCEPT !.currentTool = <<[call |-> k, input |-> <<>>]>>]

(* Wrong: the text of the block before goes on. *)
ContinueText(t) == t

StartText(t) == [t EXCEPT !.currentText = <<>>]

(* The loop collects the event e.  Whatever stops while no call is open,   *)
(* thinking too, adds the last text to the answer's.                       *)
Collect(t, e) ==
    CASE e.type = "start" /\ e.block = "text" -> StartText(t)
      [] e.type = "start" /\ e.block = "tool_use" -> StartCall(t, e.call)
      [] e.type = "delta" /\ e.block = "text" ->
            [t EXCEPT !.currentText = Append(@, e.piece)]
      [] e.type = "delta" /\ e.block = "tool_use" /\ t.currentTool # <<>> ->
            [t EXCEPT !.currentTool[1].input = Append(@, e.piece)]
      [] e.type = "stop" /\ t.currentTool # <<>> ->
            [t EXCEPT !.toolUses = @ \o t.currentTool, !.currentTool = <<>>]
      [] e.type = "stop" /\ t.currentTool = <<>> ->
            [t EXCEPT !.textContent = @ \o t.currentText]
      [] OTHER -> t

(* One event more. *)
Made(t, type, block, call, piece) ==
    LET e == [type |-> type, index |-> t.blockIndex, block |-> block,
              call |-> call, piece |-> piece]
    IN  Collect([t EXCEPT !.events = Append(@, e)], e)

StartBlock(t, block, call) == Made(t, "start", block, call, Filler)
Delta(t, block, piece) == Made(t, "delta", block, NoCall, piece)
StopBlock(t) == [Made(t, "stop", "none", NoCall, Filler) EXCEPT !.blockIndex = @ + 1]
MessageStop(t) == Made(t, "message_stop", "none", NoCall, Filler)

CloseText(t) == IF t.textOpen THEN [StopBlock(t) EXCEPT !.textOpen = FALSE] ELSE t
CloseThinking(t) == IF t.thinkingOpen THEN [StopBlock(t) EXCEPT !.thinkingOpen = FALSE] ELSE t

-----------------------------------------------------------------------------

OpenThinking(t) ==
    IF t.thinkingOpen THEN t
    ELSE [StartBlock(CloseText(t), "thinking", NoCall) EXCEPT !.thinkingOpen = TRUE]
OpenText(t) ==
    IF t.textOpen THEN t ELSE [StartBlock(t, "text", NoCall) EXCEPT !.textOpen = TRUE]

Reasoning(t, n) == Delta(OpenThinking(t), "thinking", n)

(* Wrong: a text starts inside the thinking. *)
TextInThinking(t, n) == Delta(OpenText(t), "text", n)

Text(t, n) == Delta(OpenText(CloseThinking(t)), "text", n)

(* One entry of tool_calls.  A call starts in the block of the one before, *)
(* whose index stands, and none is closed before the end.                  *)
OpenCall(t, e) ==
    IF e.starts
    THEN [StartBlock(t, "tool_use", e.call) EXCEPT !.toolCalls = @ \cup {e.call}]
    ELSE t
ToolCall(t, e, n) ==
    LET open == OpenCall(CloseText(t), e)
    IN  IF e.args THEN Delta(open, "tool_use", n) ELSE open

ToolCalls(t, entries, n) ==
    LET called[k \in 0..Len(entries)] ==
            IF k = 0 THEN t ELSE ToolCall(called[k - 1], entries[k], n)
    IN  called[Len(entries)]

(* Wrong: calls are left open. *)
FinishText(t) == MessageStop([CloseText(CloseThinking(t)) EXCEPT !.toolCalls = {}])

StopBlocks(t, number) ==
    LET stopped[k \in 0..number] == IF k = 0 THEN t ELSE StopBlock(stopped[k - 1])
    IN  stopped[number]

Finish(t) ==
    LET closed == StopBlocks(CloseText(CloseThinking(t)), Cardinality(t.toolCalls))
    IN  MessageStop([closed EXCEPT !.toolCalls = {}])

(* Translate, for the n-th chunk. *)
Translate(t, chunk, n) ==
    LET reasoned == IF chunk.reasoning THEN Reasoning(t, n) ELSE t
        written  == IF chunk.text THEN Text(reasoned, n) ELSE reasoned
        called   == ToolCalls(written, chunk.tools, n)
    IN  IF chunk.finish THEN Finish(called) ELSE called

(* End, for a stream without a finish: a text in place of one that is      *)
(* missing, as it seems; calls are not closed.                             *)
EndUnfinished(t) ==
    LET closed == CloseThinking(t)
        filled == IF ~closed.textOpen /\ closed.blockIndex > 0
                  THEN StopBlock(Delta(StartBlock(closed, "text", NoCall), "text", Filler))
                  ELSE CloseText(closed)
    IN  MessageStop(filled)

-----------------------------------------------------------------------------

(* Gemini sends texts and whole calls, and nothing that says the answer is *)
(* complete: what is open is closed when the body ends.                    *)

(* Wrong: the text before a call stays open. *)
GeminiCallInText(t, e, n) ==
    StopBlock(Delta(StartBlock(t, "tool_use", e.call), "tool_use", n))

GeminiCall(t, e, n) ==
    StopBlock(Delta(StartBlock(CloseText(t), "tool_use", e.call), "tool_use", n))

GeminiCalls(t, entries, n) ==
    LET called[k \in 0..Len(entries)] ==
            IF k = 0 THEN t ELSE GeminiCall(called[k - 1], entries[k], n)
    IN  called[Len(entries)]

GeminiParts(t, chunk, n) ==
    GeminiCalls(IF chunk.text THEN Text(t, n) ELSE t, chunk.tools, n)

GeminiEnd(t) == MessageStop(CloseText(t))

-----------------------------------------------------------------------------

(* What the provider has sent of calls. *)
Entries(n) == ToSet(chunks[n].tools)
StartedCalls == {k \in Call : \E n \in DOMAIN chunks : \E e \in Entries(n) : e.call = k /\ e.starts}
Finished == chunks # <<>> /\ Last(chunks).finish

(* What may be said of a call: calls start in their order, once, and       *)
(* before their arguments.                                                 *)
MaySay(e) ==
    /\ e.starts = (e.call \notin StartedCalls)
    /\ e.call = 1 \/ e.call - 1 \in StartedCalls

(* The chunks a provider sends.  Most say one thing: what is said together *)
(* is taken in a fixed order, as if it came in chunks of its own.  Some    *)
(* providers send all their calls at once.  Gemini does not send reasoning,*)
(* or a part of a call, or a finish that is acted on.                      *)
Whole(k) == [call |-> k, starts |-> TRUE, args |-> TRUE]
AllCalls == [Empty EXCEPT !.tools = [k \in Call |-> Whole(k)]]
Sent ==
    {[Empty EXCEPT !.text = TRUE]}
    \cup {[Empty EXCEPT !.tools = <<e>>] :
              e \in {e \in Entry : MaySay(e) /\ (provider = "gemini" => e = Whole(e.call))}}
    \cup {c \in {AllCalls} : StartedCalls = {}}
    \cup {c \in {[Empty EXCEPT !.reasoning = TRUE], [Empty EXCEPT !.finish = TRUE]} :
              provider = "openai"}

(* After its finish a provider sends at most usage, which Translate skips. *)
Receive(chunk) ==
    /\ ~ended /\ ~Finished /\ Len(chunks) < MaxChunks
    /\ chunks' = Append(chunks, chunk)
    /\ reply' = IF provider = "openai" THEN Translate(reply, chunk, Len(chunks'))
                                       ELSE GeminiParts(reply, chunk, Len(chunks'))
    /\ UNCHANGED <<provider, ended>>

(* The provider has nothing more to say, or the connection breaks. *)
EndStream ==
    /\ ~ended
    /\ ended' = TRUE
    /\ reply' = CASE provider = "gemini" -> GeminiEnd(reply)
                  [] provider # "gemini" /\ Finished -> reply
                  [] OTHER -> EndUnfinished(reply)
    /\ UNCHANGED <<provider, chunks>>

StreamNext == (\E chunk \in Sent : Receive(chunk)) \/ EndStream

StreamSpec == StreamInit /\ [][StreamNext]_streamVars

-----------------------------------------------------------------------------

StreamTypeOK ==
    /\ provider \in {"openai", "gemini"}
    /\ chunks \in Seq(Chunk)
    /\ reply \in Reply /\ Len(reply.currentTool) <= 1
    /\ ended \in BOOLEAN

(* The chunks with a piece of the text, and of the arguments of call k. *)
SentText == {n \in DOMAIN chunks : chunks[n].text}
SentArgs(k) == {n \in DOMAIN chunks : \E e \in Entries(n) : e.call = k /\ e.args}

(* s is the numbers of S, each once and in order. *)
InOrder(s, S) == ToSet(s) = S /\ \A i, j \in DOMAIN s : i < j => s[i] < s[j]

SentCallsCollected ==
    /\ DOMAIN reply.toolUses = StartedCalls
    /\ \A k \in StartedCalls : /\ reply.toolUses[k].call = k
                               /\ InOrder(reply.toolUses[k].input, SentArgs(k))

Complete == ended /\ (Finished \/ provider = "gemini")
OneCall == \A k, m \in StartedCalls : k = m
ReasoningFirst ==
    \A m, n \in DOMAIN chunks : chunks[m].reasoning /\ chunks[n].text => m <= n
CallsLast ==
    \A m, n \in DOMAIN chunks :
        chunks[m].tools # <<>> /\ (chunks[n].reasoning \/ chunks[n].text) => n <= m
TextBeforeCall ==
    StartedCalls # {} => \A m \in DOMAIN chunks :
                            chunks[m].reasoning => \E n \in m..Len(chunks) : chunks[n].text

(* The translation and loop.go:244-300 together, "Collect response": what  *)
(* the agent collects is what the model sent.  Calls: each once and in     *)
(* order, with all of its arguments; of an OpenAI-compatible provider an   *)
(* answer with one call, whatever text and reasoning went before it (the   *)
(* others: EveryCallCollected).  Text: each piece once and in order; of an *)
(* OpenAI-compatible provider when reasoning, text and one call at most    *)
(* come in this order, since reasoning after a text, and each call beyond  *)
(* the first, add the last text once more (loop.go:293).                   *)
CallsCollected ==
    Complete /\ (provider = "openai" => OneCall /\ CallsLast) => SentCallsCollected
TextOnce ==
    Complete /\ (provider = "openai" => OneCall /\ CallsLast /\ ReasoningFirst)
        => InOrder(reply.textContent, SentText)
AnswerCollected == CallsCollected /\ TextOnce

(* response.go:12, "converts OpenAI stream chunks into Anthropic SSE       *)
(* events": blocks start, grow and stop one after another, numbered from   *)
(* zero, and message_stop comes last, whether the provider finishes or the *)
(* connection breaks: of Gemini in every answer, of others in answers of   *)
(* one call at most that follows a text.                                   *)
NestedOf(p) ==
    p = "openai" => OneCall /\ CallsLast /\ TextBeforeCall /\ (Finished \/ StartedCalls = {})
EventFits(E, i) ==
    /\ E[i].type \in {"delta", "stop"} =>
          /\ i > 1 /\ E[i - 1].type \in {"start", "delta"}
          /\ E[i].index = E[i - 1].index
          /\ E[i].type = "delta" => E[i].block = E[i - 1].block
    /\ E[i].type \in {"start", "message_stop"} => i = 1 \/ E[i - 1].type = "stop"
    /\ E[i].type = "start" => E[i].index = IF i = 1 THEN 0 ELSE E[i - 1].index + 1

BlocksNest ==
    ended /\ NestedOf(provider) =>
        /\ Last(reply.events).type = "message_stop"
        /\ \A i \in DOMAIN reply.events : EventFits(reply.events, i)

(* What the loop collects is what was sent, and the blocks it collects it  *)
(* from nest, at every moment.                                             *)
StreamSafe == StreamTypeOK /\ AnswerCollected /\ BlocksNest

(* The same of every answer, with as many calls as it has: all calls of an *)
(* answer that is complete reach the agent, which README.md:31 runs side   *)
(* by side ("Parallel tool execution").                                    *)
EveryCallCollected == Complete => SentCallsCollected

(* A call whose answer broke off is not run.  (End stops the filler's      *)
(* block, and that makes the loop collect the call that is open.)          *)
CutDropped == ended /\ ~Complete => reply.toolUses = <<>>
=============================================================================
