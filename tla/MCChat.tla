-------------------------------- MODULE MCChat --------------------------------
(* The chat page for TLC: who asks what, and the answers they get.         *)
EXTENDS Chat

Calls(name, safe, empty) == [name |-> name, safe |-> safe, empty |-> empty]
Says(stream, tools) == [stream |-> stream, tools |-> tools]

Plain == [turns |-> <<Says(<<"text">>, <<>>)>>, end |-> "done"]
Refused == [turns |-> <<>>, end |-> "refused"]

(* Thinking before and after text, a call alone, calls beside each other,  *)
(* an empty output, a second call of the same name, an error at the end.   *)
Thoughtful == [turns |-> <<Says(<<"thinking", "text", "thinking">>, <<Calls("edit", FALSE, FALSE)>>),
                           Says(<<"text">>, <<>>)>>, end |-> "done"]
Alone == [turns |-> <<Says(<<"thinking">>, <<Calls("read", TRUE, TRUE)>>),
                      Says(<<>>, <<Calls("read", TRUE, FALSE), Calls("edit", FALSE, FALSE)>>)>>,
          end |-> "error"]
Beside == [turns |-> <<Says(<<"text">>, <<Calls("edit", FALSE, TRUE), Calls("read", TRUE, FALSE),
                                          Calls("grep", TRUE, FALSE), Calls("edit", FALSE, FALSE)>>),
                       Says(<<"text">>, <<>>)>>, end |-> "done"]
Acting == [turns |-> <<Says(<<"text">>, <<Calls("edit", FALSE, FALSE)>>), Says(<<"text">>, <<>>)>>, end |-> "done"]

Reader == [asks |-> 1, clicks |-> 0, faults |-> 1, kinds |-> {}, answers |-> {Thoughtful, Alone, Beside}]
Rereader == [asks |-> 2, clicks |-> 0, faults |-> 0, kinds |-> {}, answers |-> {Alone, Beside}]
Browser == [asks |-> 3, clicks |-> 1, faults |-> 0, kinds |-> {"open", "new", "delete"}, answers |-> {Plain}]
Restless == [asks |-> 2, clicks |-> 2, faults |-> 0, kinds |-> {"open", "new"}, answers |-> {Plain, Refused}]
Leaver == [asks |-> 2, clicks |-> 1, faults |-> 1, kinds |-> {"leave"}, answers |-> {Plain}]
Unlucky == [asks |-> 2, clicks |-> 1, faults |-> 1, kinds |-> {"open"}, answers |-> {Acting}]

Composing == [asks |-> 2, clicks |-> 2, faults |-> 0, kinds |-> {"example", "image", "mic", "leave"}, answers |-> {Refused}]

MCUsers == {Composing, Reader, Rereader, Browser, Restless, Leaver, Unlucky}
=============================================================================
