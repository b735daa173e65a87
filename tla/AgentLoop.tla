------------------------------ MODULE AgentLoop -------------------------------
(***************************************************************************)
(* The agent loop (agent/loop.go): turns of asking the model, running the  *)
(* tools it calls, and putting calls and results into the history, which   *)
(* is compacted (agent/compact.go) and normalised (agent/normalize.go)     *)
(* before each request.                                                    *)
(*                                                                         *)
(* Of a message the model keeps its role, how long its text is, whether    *)
(* its content is an array of blocks, the ids of the calls and results     *)
(* among these, and whether it is what a truncation has left.              *)
(* What a request looks like is said of `messages' while pc = "ask".       *)
(***************************************************************************)
EXTENDS Naturals, Sequences, SequencesExt, FiniteSets

CONSTANTS Histories,       \* the histories a client may begin with
          Answers,         \* the answers a model may give, see Answer
          CallId,          \* the ids models give; Gemini's calls share one (gemini.go:173)
          MaxIterations,   \* turns of a loop; 25 in the code
          MaxMessages      \* messages of a request; 200 in the code

KeepCount == 4             \* messages a compaction keeps
MinMessagesForCompact == 8
MaxCompactFailures == 3
MaxTries == 3              \* tries of a request
MaxMessageSize == 100000   \* bytes of text a message keeps its blocks with

(* An answer is how long its text is, and its calls: their ids, whether    *)
(* the tool may run beside others, and whether the arguments are JSON.     *)
AnswerType == [text : Nat, calls : Seq([id : CallId, safe : BOOLEAN, valid : BOOLEAN])]

Message == [role : {"user", "assistant"}, text : Nat, array : BOOLEAN,
            calls : Seq(CallId), results : Seq(CallId), cut : BOOLEAN]

TextMessage(role, text) ==
    [role |-> role, text |-> text, array |-> FALSE, calls |-> <<>>, results |-> <<>>, cut |-> FALSE]

ASSUME ConstantsAssumption ==
    /\ Answers \subseteq AnswerType
    /\ MaxIterations \in Nat /\ MaxMessages \in Nat /\ MaxMessages > KeepCount

(* A loop begins with a conversation, from a question to a question, of    *)
(* which what tools did is no part (Chat.tsx:116-121, bridge.go:79-83,     *)
(* team.go:284-290).                                                       *)
Plain(m) == m.calls = <<>> /\ m.results = <<>>

ASSUME HistoriesAssumption ==
    \A h \in Histories :
        /\ h \in Seq(Message) /\ h # <<>>
        /\ h[1].role = "user" /\ h[Len(h)].role = "user"
        /\ \A k \in DOMAIN h : Plain(h[k])

VARIABLES
    messages,          \* the history
    iteration,         \* turns begun before this one
    compactFailures,   \* compactions that failed since the last that did not
    tries,             \* requests of this turn that failed
    calls,             \* the calls of this turn's answer
    running,           \* the calls whose tools are running
    queue,             \* the calls to be run one by one
    results,           \* the calls that have their result, in its order
    pc,                \* where the loop is
    cancelled,         \* its context is
    outcome            \* how it ended

loopVars == <<messages, iteration, compactFailures, tries, calls, running, queue, results,
              pc, cancelled, outcome>>
toolVars == <<calls, running, queue, results>>

LoopInit ==
    /\ messages \in Histories
    /\ iteration = 0 /\ compactFailures = 0 /\ tries = 0
    /\ calls = <<>> /\ running = {} /\ queue = <<>> /\ results = <<>>
    /\ pc = "start" /\ cancelled = FALSE /\ outcome = "none"

End(how) == pc' = "ended" /\ outcome' = how

(* The loop is prepared, or the last message is a command that needs no    *)
(* model, or is not known.                                                 *)
Start ==
    /\ pc = "start"
    /\ \/ pc' = "turn" /\ UNCHANGED outcome
       \/ \E how \in {"command", "done", "failed"} : End(how)
    /\ UNCHANGED <<messages, iteration, compactFailures, tries, toolVars, cancelled>>

-----------------------------------------------------------------------------

(* Normalisation. *)

(* Two neighbours c and m of one role as one message.  Texts on both sides *)
(* leave a text alone; a text on m's leaves m, its blocks counted twice.   *)
Joined(c, m) ==
    LET kept == IF m.text > 0 /\ c.text = 0 THEN m ELSE c
    IN  IF c.text > 0 /\ m.text > 0 THEN TextMessage(c.role, c.text + 2 + m.text)
        ELSE IF kept.array /\ m.array
             THEN [kept EXCEPT !.text = IF m.text > 0 THEN @ + 1 + m.text ELSE @,
                               !.calls = @ \o m.calls, !.results = @ \o m.results]
             ELSE kept

(* The element of a set of one: what a step of a loop makes, once. *)
The(S) == CHOOSE x \in S : TRUE

(* A message is put behind those before it, or joined to the last of them. *)
Merged(out, m) ==
    IF out # <<>> /\ Last(out).role = m.role
    THEN Append(Front(out), Joined(Last(out), m)) ELSE Append(out, m)

MergeConsecutiveSameRole(h) ==
    LET merged[k \in 0..Len(h)] ==
            IF k = 0 THEN <<>> ELSE The({Merged(out, h[k]) : out \in {merged[k - 1]}})
    IN  merged[Len(h)]

(* Of a message whose text is too long the ends of the text are left, and  *)
(* none of its blocks; results that are too long are cut one by one.       *)
Truncated(m) ==
    IF m.text > MaxMessageSize
    THEN [role |-> m.role, text |-> MaxMessageSize \div 2 + 23 + MaxMessageSize \div 4,
          array |-> FALSE, calls |-> <<>>, results |-> <<>>, cut |-> TRUE]
    ELSE m

TruncateLargeContent(h) == [k \in DOMAIN h |-> Truncated(h[k])]

Other(role) == IF role = "assistant" THEN "user" ELSE "assistant"

Continued == 11            \* "(continued)"

(* The same, but with a filler between two of one role. *)
Filled(out, m) ==
    IF out # <<>> /\ Last(out).role = m.role
    THEN Append(Append(out, TextMessage(Other(m.role), Continued)), m) ELSE Append(out, m)

EnsureAlternatingRoles(h) ==
    LET filled[k \in 0..Len(h)] ==
            IF k = 0 THEN <<>> ELSE The({Filled(out, h[k]) : out \in {filled[k - 1]}})
    IN  filled[Len(h)]

(* Wrong: the first two are kept beyond the limit. *)
CapAfterTwo(h) ==
    IF Len(h) <= MaxMessages THEN h
    ELSE SubSeq(h, 1, 2) \o SubSeq(h, Len(h) - MaxMessages + 1, Len(h))

CapMessageCount(h) ==
    IF Len(h) <= MaxMessages THEN h
    ELSE SubSeq(h, 1, 2) \o SubSeq(h, Len(h) - (MaxMessages - 2) + 1, Len(h))

(* Wrong: neighbours of one role stay. *)
NormalizeCount(h) == CapMessageCount(h)

NormalizeMessages(h) ==
    CapMessageCount(EnsureAlternatingRoles(TruncateLargeContent(MergeConsecutiveSameRole(h))))

-----------------------------------------------------------------------------

(* Compaction. *)

LastMessages(h) == SubSeq(h, Len(h) - KeepCount + 1, Len(h))
OldMessages(h) == SubSeq(h, 1, Len(h) - KeepCount)

Summary == 1000            \* bytes of a summary, for any number far below MaxMessageSize

(* The model's summary in place of the old messages, and the fallback.     *)
Compacted(h) ==
    <<TextMessage("user", Summary), TextMessage("assistant", Summary)>> \o LastMessages(h)
Snipped(h) ==
    IF Len(h) > 8
    THEN SubSeq(h, 1, 2) \o <<TextMessage("user", Summary)>> \o LastMessages(h) ELSE h

(* What CompactMessages and its fallback make of the history: nothing when *)
(* there is nothing to summarise, else a summary, or a failure.            *)
Compactions(h, failures) ==
    IF \A k \in DOMAIN OldMessages(h) : h[k].text = 0
    THEN {[messages |-> h, failures |-> 0]}
    ELSE {[messages |-> Compacted(h), failures |-> 0],
          [messages |-> Snipped(h), failures |-> failures + 1]}

MayCompact == compactFailures < MaxCompactFailures /\ Len(messages) >= MinMessagesForCompact

(* A turn begins: the history is compacted if it is estimated too large,   *)
(* and normalised.                                                         *)
BeginTurn ==
    /\ pc = "turn" /\ iteration < MaxIterations
    /\ \E c \in {[messages |-> messages, failures |-> compactFailures]}
                \cup (IF MayCompact THEN Compactions(messages, compactFailures) ELSE {}) :
          /\ messages' = NormalizeMessages(c.messages)
          /\ compactFailures' = c.failures
    /\ pc' = "ask" /\ tries' = 0
    /\ UNCHANGED <<iteration, toolVars, cancelled, outcome>>

StopAfterMaxIterations ==
    /\ pc = "turn" /\ iteration = MaxIterations
    /\ End("max")
    /\ UNCHANGED <<messages, iteration, compactFailures, tries, toolVars, cancelled>>

-----------------------------------------------------------------------------

(* Wrong: a failure is tried again and not counted. *)
AskAgain ==
    /\ pc = "ask"
    /\ pc' = "wait"
    /\ UNCHANGED <<messages, iteration, compactFailures, tries, toolVars, cancelled, outcome>>

(* A request fails, as it does at once when the context is cancelled. *)
AskFails ==
    /\ pc = "ask"
    /\ tries' = tries + 1
    /\ IF tries' = MaxTries THEN End("failed") ELSE pc' = "wait" /\ UNCHANGED outcome
    /\ UNCHANGED <<messages, iteration, compactFailures, toolVars, cancelled>>

(* Two seconds, or the cancellation, whichever select takes. *)
WaitOver ==
    /\ pc = "wait"
    /\ pc' = "ask"
    /\ UNCHANGED <<messages, iteration, compactFailures, tries, toolVars, cancelled, outcome>>

StopWaiting ==
    /\ pc = "wait" /\ cancelled
    /\ End("cancelled")
    /\ UNCHANGED <<messages, iteration, compactFailures, tries, toolVars, cancelled>>

(* The calls of an answer by their places, those that may run side by side *)
(* and the others, in their order.                                         *)
Places(a, safe) ==
    LET places[k \in 0..Len(a.calls)] ==
            IF k = 0 THEN <<>>
            ELSE IF a.calls[k].safe = safe THEN Append(places[k - 1], k) ELSE places[k - 1]
    IN  places[Len(a.calls)]

Concurrent(a) == Places(a, TRUE)
Serial(a) == Places(a, FALSE)

(* Wrong: a single call that could run beside others is forgotten. *)
PartitionStrictly(a) ==
    IF Len(Concurrent(a)) > 1 THEN [together |-> ToSet(Concurrent(a)), after |-> Serial(a)]
    ELSE [together |-> {}, after |-> Serial(a)]

(* Wrong: whatever comes with calls that may run side by side does. *)
PartitionNothing(a) ==
    IF Len(Concurrent(a)) > 1 THEN [together |-> DOMAIN a.calls, after |-> <<>>]
    ELSE [together |-> {}, after |-> Concurrent(a) \o Serial(a)]

Partition(a) ==
    IF Len(Concurrent(a)) > 1 THEN [together |-> ToSet(Concurrent(a)), after |-> Serial(a)]
    ELSE [together |-> {}, after |-> Concurrent(a) \o Serial(a)]

(* The assistant's message: null when the arguments of a call are not JSON.*)
AssistantMessage(a) ==
    LET ok == \A k \in DOMAIN a.calls : a.calls[k].valid
    IN  [role |-> "assistant", text |-> IF ok THEN a.text ELSE 0, array |-> ok,
         calls |-> IF ok THEN [k \in DOMAIN a.calls |-> a.calls[k].id] ELSE <<>>,
         results |-> <<>>, cut |-> FALSE]

(* The stream has ended, perhaps with the context in its middle, and what  *)
(* came is the answer: the loop is done, or its tools start.               *)
Answer(a) ==
    /\ pc = "ask"
    /\ IF a.calls = <<>>
       THEN End("done") /\ UNCHANGED <<messages, toolVars>>
       ELSE LET parts == Partition(a) IN
            /\ messages' = Append(messages, AssistantMessage(a))
            /\ calls' = a.calls
            /\ running' = parts.together /\ queue' = parts.after /\ results' = <<>>
            /\ pc' = IF parts.together # {} THEN "together" ELSE "serial"
            /\ UNCHANGED outcome
    /\ UNCHANGED <<iteration, compactFailures, tries, cancelled>>

(* One of the tools that run side by side ends.  When all have, their      *)
(* results are taken in the order of the calls.                            *)
EndTogether(k) ==
    /\ pc = "together" /\ k \in running
    /\ running' = running \ {k}
    /\ IF running' = {}
       THEN results' = Concurrent([calls |-> calls]) /\ pc' = "serial"
       ELSE UNCHANGED <<results, pc>>
    /\ UNCHANGED <<messages, iteration, compactFailures, tries, calls, queue, cancelled, outcome>>

(* The tools that run one by one, after the permission check. *)
AtNextCall == pc = "serial" /\ running = {} /\ queue # <<>>

(* Wrong: a call that was refused is run all the same. *)
RefuseAndKeep ==
    /\ AtNextCall
    /\ results' = Append(results, Head(queue))
    /\ running' = {Head(queue)}
    /\ UNCHANGED <<messages, iteration, compactFailures, tries, calls, queue, pc, cancelled, outcome>>

Refuse ==
    /\ AtNextCall
    /\ results' = Append(results, Head(queue)) /\ queue' = Tail(queue)
    /\ UNCHANGED <<messages, iteration, compactFailures, tries, calls, running, pc, cancelled,
                   outcome>>

RunTool ==
    /\ AtNextCall
    /\ running' = {Head(queue)}
    /\ UNCHANGED <<messages, iteration, compactFailures, tries, calls, queue, results, pc,
                   cancelled, outcome>>

EndTool ==
    /\ pc = "serial" /\ running # {}
    /\ results' = Append(results, Head(queue)) /\ queue' = Tail(queue)
    /\ running' = {}
    /\ UNCHANGED <<messages, iteration, compactFailures, tries, calls, pc, cancelled, outcome>>

AddResults ==
    /\ pc = "serial" /\ running = {} /\ queue = <<>>
    /\ messages' = Append(messages,
                          [role |-> "user", text |-> 0, array |-> TRUE, calls |-> <<>>,
                           results |-> [k \in DOMAIN results |-> calls[results[k]].id],
                           cut |-> FALSE])
    /\ iteration' = iteration + 1
    /\ pc' = "turn"
    /\ UNCHANGED <<compactFailures, tries, toolVars, cancelled, outcome>>

(* The client leaves, or the time of a bridge's request is over. *)
Cancel ==
    /\ pc # "ended" /\ ~cancelled
    /\ cancelled' = TRUE
    /\ UNCHANGED <<messages, iteration, compactFailures, tries, toolVars, pc, outcome>>

LoopGoesOn ==
    \/ Start \/ BeginTurn \/ StopAfterMaxIterations \/ WaitOver \/ StopWaiting
    \/ \E k \in running : EndTogether(k)
    \/ Refuse \/ RunTool \/ EndTool \/ AddResults

LoopNext == LoopGoesOn \/ AskFails \/ (\E a \in Answers : Answer(a)) \/ Cancel

(* Steps of the loop and its tools go on, and a request of a cancelled     *)
(* context fails, or its stream ends.  A model need not answer otherwise.  *)
LoopSpec == LoopInit /\ [][LoopNext]_loopVars
            /\ WF_loopVars(LoopGoesOn)
            /\ WF_loopVars(cancelled /\ (AskFails \/ \E a \in Answers : Answer(a)))

-----------------------------------------------------------------------------

(* What is sent (normalize.go:124) is never longer than maxTotalMessages. *)
LoopTypeOK ==
    /\ messages \in Seq(Message) /\ (pc = "ask" => Len(messages) <= MaxMessages)
    /\ iteration \in 0..MaxIterations
    /\ compactFailures \in 0..MaxCompactFailures /\ tries \in 0..MaxTries
    /\ running \subseteq DOMAIN calls /\ queue \in Seq(DOMAIN calls)
    /\ results \in Seq(DOMAIN calls)
    /\ pc \in {"start", "turn", "ask", "wait", "together", "serial", "ended"}
    /\ cancelled \in BOOLEAN
    /\ outcome \in {"none", "command", "done", "failed", "cancelled", "max"}
    /\ (outcome # "none") = (pc = "ended")

Request == pc = "ask"

(* Of each call there is one result, and no other result, in some order.   *)
(* Results name their calls by id: of calls that share one there are as    *)
(* many results.                                                           *)
Match(called, answered) ==
    /\ Len(called) = Len(answered)
    /\ \E call \in Surjection(DOMAIN answered, DOMAIN called) :
          \A j \in DOMAIN answered : answered[j] = called[call[j]]

(* Message k + 1 of a history h has the results of the calls of message k. *)
CallsOf(h, k) == IF k \in DOMAIN h THEN h[k].calls ELSE <<>>
ResultsOf(h, k) == IF k \in DOMAIN h THEN h[k].results ELSE <<>>
Answered(h, k) == Match(CallsOf(h, k), ResultsOf(h, k + 1))

(* A message without content, as that of an answer with arguments that are *)
(* not JSON (loop.go:488).                                                 *)
Null(h, k) == k \in DOMAIN h /\ h[k].text = 0 /\ ~h[k].array

(* A message that had too much text, and lost its blocks (normalize.go:81).*)
Cut(h, k) == k \in DOMAIN h /\ h[k].cut

(* loop.go:324 and 464: calls and results stand side by side in what is    *)
(* sent, each call with one result.  Compactions, the limit, and merges    *)
(* after them, part them in front only: behind the third message all are   *)
(* paired, but for the results of an answer that could not be kept, or     *)
(* whose calls were lost with the end of its text.                         *)
PairedBehindCuts ==
    Request => \A k \in DOMAIN messages :
                   k >= 3 => Answered(messages, k) \/ Null(messages, k) \/ Cut(messages, k)

(* normalize.go:33, "API requires alternating user/assistant": the roles   *)
(* of what is sent alternate, the user's first, whatever a compaction left;*)
(* only where the limit cut the history two neighbours may have one role.  *)
AlternatingButAtLimit ==
    Request => /\ messages[1].role = "user"
               /\ \A k \in 1..(Len(messages) - 1) :
                     messages[k].role = messages[k + 1].role
                         => k = 2 /\ Len(messages) = MaxMessages

(* README.md:31, "Read-only tools run concurrently, write tools serial": a *)
(* tool that may not run beside others runs alone, and after those.        *)
UnsafeRunsAlone ==
    \A k \in running : ~calls[k].safe
        => running = {k} /\ \A j \in DOMAIN calls : calls[j].safe => j \in ToSet(results)

(* What the loop sends and runs, taken together, at every moment. *)
LoopSafe == LoopTypeOK /\ PairedBehindCuts /\ AlternatingButAtLimit /\ UnsafeRunsAlone

(* loop.go:227: a loop whose client has left comes to its end.             *)
CancelledEnds == cancelled ~> pc = "ended"

(* normalize.go:18, "Fixes issues that cause API errors or waste tokens":  *)
(* every request has each call and its results side by side.  It is        *)
(* NormalizeMessages that parts them: a long text takes its calls with it. *)
Paired == Request => \A k \in 0..Len(messages) : Answered(messages, k)
=============================================================================
