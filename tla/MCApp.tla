--------------------------------- MODULE MCApp ---------------------------------
(***************************************************************************)
(* Three projects on disk and one that is gone; a text, a file too large   *)
(* to be shown and empty ones; two providers of a model each.              *)
(***************************************************************************)
EXTENDS App

MCFields == {"projects", "workDir", "provider", "model", "lang", "keys"}
MCModels == [ollama |-> {"qwen"}, openai |-> {"gpt"}]
MCQuick == <<"ollama", "qwen">>
MCLangs == {"auto", "ko"}
MCFolders == {"/", "/a", "/b"}
MCProjects == MCFolders \union {"/gone"}
MCParent == [f \in MCFolders |-> "/"]
MCPaths == {"x", "y"}
MCKind == [f \in MCProjects \X MCPaths |->
              IF f[2] = "x" THEN "text" ELSE IF f[1] = "/a" THEN "large" ELSE "empty"]
MCValues == SUBSET (MCProjects \union {"ollama", "openai", "qwen", "gpt", "auto", "ko"})
MCDefaults == [f \in MCFields |-> {}]
MCHandlers == {"panel", "settings"} \X Slots
MCSessions == {"s"}
MCOthers == {"metrics"}

(* A user who starts at page `first', with all answered. *)
User(first, clicked, clicks) ==
    [page |-> first, clicked |-> clicked, clicks |-> clicks, patient |-> TRUE, losses |-> 0,
     atRest |-> TRUE, polls |-> FALSE, registered |-> {"/a", "/b"}, project |-> "/a",
     histories |-> [p \in MCProjects |-> IF p \in {"/a", "/b"} THEN {"s"} ELSE {}],
     active |-> MCQuick, lang |-> "auto"]

Impatient(user) == [user EXCEPT !.patient = FALSE]
Unlucky(user) == [user EXCEPT !.losses = 1]
Knowing(user, projects) == [user EXCEPT !.registered = projects]
NewTo(user, p) == [user EXCEPT !.histories[p] = {}]

MCPlans == {
    \* the start of the program, a request lost
    Unlucky([User("chat", {}, 0) EXCEPT !.atRest = FALSE]),
    \* the panel and the picker
    User("chat", {"switch", "remove", "add", "delete", "picker", "page"}, 4),
    NewTo(User("chat", {"switch", "page"}, 3), "/b"),
    Unlucky(Knowing(User("chat", {"switch", "remove", "add"}, 3), {"/gone"})),
    Knowing(Impatient(User("chat", {"switch", "remove"}, 2)), {"/b"}),
    Knowing(Impatient(User("costs", {"picker", "page"}, 2)), {"/b"}),
    \* two handlers that save the configuration
    Impatient(User("chat", {"remove", "bar"}, 2)),
    \* files, one of them large, the project switched meanwhile
    User("files", {"files", "picker"}, 5),
    Unlucky(User("files", {"files"}, 4)),
    User("files", {"files", "page"}, 3),
    \* the model
    [Impatient(User("settings", {"settings"}, 2)) EXCEPT !.active = <<"openai", "gpt">>],
    User("settings", {"settings", "bar", "page"}, 3),
    Unlucky(Impatient(User("settings", {"settings", "page"}, 2))),
    [Unlucky(User("settings", {"bar"}, 2)) EXCEPT !.polls = TRUE],
    \* the activity page
    Unlucky(Impatient(User("costs", {"use", "costs"}, 3))),
    Impatient(User("costs", {"costs"}, 4)) }
=============================================================================
