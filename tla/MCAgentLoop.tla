----------------------------- MODULE MCAgentLoop ------------------------------
(***************************************************************************)
(* Chats of up to eleven messages, one with a long question asked twice    *)
(* and one with an answer in two parts, of which the first is empty,       *)
(* followed for four turns; answers without a call, with one whose         *)
(* arguments are not JSON, with two that run one by one, with three of one *)
(* id of which two may run side by side, and with one behind a text that   *)
(* is cut.  Requests hold ten messages, so that histories are long enough  *)
(* to be compacted (eight) and to be cut.                                  *)
(***************************************************************************)
EXTENDS AgentLoop

Text(k) == TextMessage(IF k % 2 = 1 THEN "user" ELSE "assistant", 20)
Chat(n) == [k \in 1..n |-> Text(k)]
Twice == <<TextMessage("user", 60000), TextMessage("user", 60000)>>
InParts == <<Text(1), TextMessage("assistant", 0), Text(2), Text(3)>>
MCHistories == {Chat(1), Chat(3), Chat(9), Chat(11), Twice, InParts}

MCIds == {"one", "two", "toolu_gemini"}
Call(id, safe, valid) == [id |-> id, safe |-> safe, valid |-> valid]
Gemini(safe) == Call("toolu_gemini", safe, TRUE)
MCAnswers ==
    {[text |-> 20, calls |-> <<>>],
     [text |-> 20, calls |-> <<Call("one", TRUE, TRUE), Call("two", FALSE, TRUE)>>],
     [text |-> 0, calls |-> <<Call("one", TRUE, FALSE)>>],
     [text |-> 0, calls |-> <<Gemini(TRUE), Gemini(FALSE), Gemini(TRUE)>>],
     [text |-> MaxMessageSize + 1, calls |-> <<Call("one", TRUE, TRUE)>>]}

(* One question, and answers the loop can keep. *)
MCQuestion == {Chat(1)}
MCGoodAnswers == {a \in MCAnswers : \A k \in DOMAIN a.calls : a.calls[k].valid}
=============================================================================
