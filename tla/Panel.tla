--------------------------------- MODULE Panel ---------------------------------
(***************************************************************************)
(* The side panel (web/src/components/SidePanel.tsx), the project picker   *)
(* of the status bar (web/src/App.tsx), and the handlers of projects,      *)
(* workspace, tree, folders and session lists (internal/server/server.go). *)
(*                                                                         *)
(* A click changes something on the server and then asks for the lists it  *)
(* knows of again.  Nothing stops a second click meanwhile, and the        *)
(* picker and the panel do not tell each other everything.                 *)
(***************************************************************************)
EXTENDS Calls, ConfigFile, Files

CONSTANTS Sessions,         \* ids of stored sessions
          Folders,          \* that exist on the server's disk, of the Projects
          Parent,           \* folder above each
          Start,            \* folder the browser starts at (SidePanel.tsx:136)
          Home,             \* the folder the server was started in
          Nowhere,          \* undefined: no path
          Unset             \* '': no path yet

ASSUME PanelAssumption ==
    /\ Folders \subseteq Projects
    /\ Parent \in [Folders -> Folders]
    /\ Home \in Folders /\ Start \in Projects /\ {Nowhere, Unset} \cap Projects = {}
    /\ {"projects", "workDir"} \subseteq Fields /\ Defaults["projects"] \subseteq Projects

VARIABLES
    calls,      \* requests of the panel and of the picker
    panel,      \* what the side panel shows
    picker,     \* what the status bar's project picker shows
    stored,     \* sessions by project
    kairosAt,   \* project of the KAIROS daemon and memory
    blurred     \* lists that may not be as the server has them

uiVars == <<panel, picker>>
panelVars == <<calls, uiVars, stored, kairosAt, blurred>>

NoProjects == [all |-> {}, active |-> Nowhere]

(* `nothing' is TRUE when the list of sessions is null instead of empty.   *)
EmptyPanel == [projects |-> NoProjects, tree |-> Nowhere, sessions |-> {}, nothing |-> FALSE,
               list |-> FALSE, adding |-> FALSE, at |-> Unset]

Lists == {"projects", "sessions", "tree", "picker"}
PanelLists == Lists \ {"picker"}

Listed(all, at) == [all |-> all, active |-> IF at \in all THEN at ELSE Nowhere]

(* arg: the path or id that is asked for; next: what the function that     *)
(* awaits does then; found, at: the answer.                                *)
Call(by, what, arg, next) ==
    [by |-> by, what |-> what, arg |-> arg, next |-> next, step |-> "asked", live |-> TRUE,
     found |-> {}, at |-> Nowhere]

Changing == {i \in InFlight(calls) : calls[i].what \in {"switch", "add", "remove", "delete"}}

-----------------------------------------------------------------------------
(* Clicks.  One that is made while requests are in flight may get answers  *)
(* of before it after its own.                                             *)

Blurring(more, less) ==
    IF InFlight(calls) = {} THEN (blurred \ less) \union more ELSE Lists

ToggleList ==
    /\ panel' = [panel EXCEPT !.list = ~@, !.adding = FALSE]
    /\ UNCHANGED <<calls, picker, stored, kairosAt, blurred>>

InList(p) == panel.list /\ ~panel.adding /\ p \in panel.projects.all

ClickProject(p) ==
    /\ InList(p) /\ Room(calls, 1)
    /\ calls' = Ask(calls, Call("panel", "switch", p, ""))
    /\ blurred' = Blurring({}, Lists)
    /\ UNCHANGED <<uiVars, stored, kairosAt>>

(* The picker's list is not asked for again. *)
ClickRemove(p) ==
    /\ InList(p) /\ Room(calls, 1)
    /\ calls' = Ask(calls, Call("panel", "remove", p, ""))
    /\ blurred' = Blurring({"picker"}, {"projects"})
    /\ UNCHANGED <<uiVars, stored, kairosAt>>

Browse(dir) ==
    /\ Room(calls, 1)
    /\ calls' = Ask(calls, Call("panel", "browse", dir, ""))

OpenFolderBrowser ==
    /\ panel.list /\ ~panel.adding
    /\ Browse(IF panel.at \in Folders THEN panel.at ELSE Start)
    /\ panel' = [panel EXCEPT !.adding = TRUE]
    /\ UNCHANGED <<picker, stored, kairosAt, blurred>>

Back ==
    /\ panel.adding
    /\ panel' = [panel EXCEPT !.adding = FALSE]
    /\ UNCHANGED <<calls, picker, stored, kairosAt, blurred>>

(* Up, or into a folder.  From '' up is the server's own; from undefined   *)
(* there is no way: taking a part of it throws.                            *)
GoTo(dir) ==
    /\ panel.adding /\ panel.at # Nowhere
    /\ IF panel.at = Unset THEN dir = Unset
                          ELSE dir \in Folders /\ (dir = Parent[panel.at] \/ Parent[dir] = panel.at)
    /\ Browse(dir)
    /\ UNCHANGED <<uiVars, stored, kairosAt, blurred>>

(* This folder, or one of those in it. *)
ClickAdd(dir) ==
    /\ panel.adding /\ Room(calls, 1)
    /\ dir = panel.at \/ (dir \in Folders /\ Parent[dir] = panel.at)
    /\ calls' = Ask(calls, Call("panel", "add", dir, ""))
    /\ blurred' = Blurring({}, Lists)
    /\ UNCHANGED <<uiVars, stored, kairosAt>>

ClickDelete(s) ==
    /\ s \in panel.sessions /\ Room(calls, 1)
    /\ calls' = Ask(calls, Call("panel", "delete", s, ""))
    /\ blurred' = Blurring({}, {"sessions"})
    /\ UNCHANGED <<uiVars, stored, kairosAt>>

TogglePicker ==
    /\ picker' = [picker EXCEPT !.open = ~@]
    /\ UNCHANGED <<calls, panel, stored, kairosAt, blurred>>

(* The panel is not told. *)
PickProject(p) ==
    /\ picker.open /\ p \in picker.projects.all /\ Room(calls, 1)
    /\ calls' = Ask(calls, Call("picker", "switch", p, ""))
    /\ blurred' = Blurring(PanelLists, {"picker"})
    /\ UNCHANGED <<uiVars, stored, kairosAt>>

-----------------------------------------------------------------------------
(* The server's side. *)

Handler(i) == <<"panel", i>>

Served(i, found, at) ==
    [calls EXCEPT ![i].step = "served", ![i].found = found, ![i].at = at]

(* Requests that change nothing: the lists, the project, the tree of its   *)
(* files, what is in a folder.  A folder that cannot be read is answered   *)
(* with an error, which has no path.                                       *)
ServeQuestion(i) ==
    LET c == calls[i]
    IN /\ c.step = "asked"
       /\ \/ c.what = "projects" /\ calls' = Served(i, Readable["projects"], workDir)
          \/ c.what \in {"workspace", "tree"} /\ calls' = Served(i, {}, workDir)
          \/ /\ c.what = "browse"
             /\ calls' = Served(i, {}, IF c.arg = Unset THEN Home
                                       ELSE IF c.arg \in Folders THEN c.arg ELSE Nowhere)
          \/ /\ c.what = "sessions"
             /\ calls' = Served(i, IF c.arg = Nowhere THEN UNION {stored[p] : p \in Projects}
                                                     ELSE stored[c.arg], Nowhere)
       /\ blurred' = IF half = {} THEN blurred ELSE Lists
       /\ UNCHANGED <<uiVars, stored, kairosAt, fileVars, filesVars>>

ServeDelete(i) ==
    /\ calls[i].step = "asked" /\ calls[i].what = "delete"
    /\ stored' = [p \in Projects |-> stored[p] \ {calls[i].arg}]
    /\ calls' = Served(i, {}, Nowhere)
    /\ UNCHANGED <<uiVars, kairosAt, blurred, fileVars, filesVars>>

(* handleSetWorkspace, handleAddProject: no such directory *)
Refuse(i) ==
    /\ calls[i].step = "asked" /\ calls[i].what \in {"switch", "add"}
    /\ calls[i].arg \notin Folders
    /\ calls' = Served(i, {}, Nowhere)
    /\ UNCHANGED <<uiVars, stored, kairosAt, blurred, fileVars, filesVars>>

(* handleSetWorkspace: the project is another one at once; the file        *)
(* follows.  Neither the daemon nor the memory is told.                    *)
BeginSwitch(i) ==
    /\ calls[i].step = "asked" /\ calls[i].what = "switch" /\ calls[i].arg \in Folders
    /\ MoveTo(calls[i].arg)
    /\ Load(Handler(i))
    /\ calls' = Stepped(calls, i, "begun")
    /\ UNCHANGED <<uiVars, stored, kairosAt, blurred>>

(* handleAddProject, handleDeleteProject *)
BeginChange(i) ==
    /\ calls[i].step = "asked"
    /\ calls[i].what = "remove" \/ (calls[i].what = "add" /\ calls[i].arg \in Folders)
    /\ Load(Handler(i))
    /\ calls' = Stepped(calls, i, "begun")
    /\ UNCHANGED <<uiVars, stored, kairosAt, blurred, filesVars>>

(* There is nothing to add or to remove. *)
Pointless(i) ==
    \/ calls[i].what = "add" /\ calls[i].arg \in loaded[Handler(i)]["projects"]
    \/ calls[i].what = "remove" /\ calls[i].arg \notin loaded[Handler(i)]["projects"]

GiveUp(i) ==
    /\ calls[i].step = "begun" /\ Pointless(i)
    /\ Abandon(Handler(i))
    /\ calls' = Served(i, {}, Nowhere)
    /\ UNCHANGED <<uiVars, stored, kairosAt, blurred, filesVars>>

BeginSave(i) ==
    /\ calls[i].step = "begun" /\ ~Pointless(i)
    /\ Empty(Handler(i))
    /\ calls' = Stepped(calls, i, "saving")
    /\ UNCHANGED <<uiVars, stored, kairosAt, blurred, filesVars>>

EndSave(i) ==
    LET c == calls[i]
    IN /\ c.step = "saving"
       /\ \/ /\ c.what = "switch"
             /\ Put(Handler(i), [f \in {"workDir"} |-> {c.arg}])
             /\ calls' = Served(i, {}, Nowhere)
          \/ /\ c.what = "remove"
             /\ Amend(Handler(i), "projects", {}, {c.arg})
             /\ calls' = Served(i, {}, Nowhere)
          \/ /\ c.what = "add"
             /\ Amend(Handler(i), "projects", {c.arg}, {})
             /\ calls' = Stepped(calls, i, "saved")
       /\ UNCHANGED <<uiVars, stored, kairosAt, blurred, filesVars>>

(* SetWorkDir: the daemon and the memory go along; the file does not say   *)
(* that this is the project now.                                           *)
EndAdd(i) ==
    /\ calls[i].step = "saved"
    /\ MoveTo(calls[i].arg)
    /\ kairosAt' = calls[i].arg
    /\ calls' = Served(i, {}, Nowhere)
    /\ UNCHANGED <<uiVars, stored, blurred, fileVars>>

ServePanel(i) ==
    \/ ServeQuestion(i) \/ ServeDelete(i) \/ Refuse(i)
    \/ BeginSwitch(i) \/ BeginChange(i) \/ GiveUp(i) \/ BeginSave(i) \/ EndSave(i) \/ EndAdd(i)

-----------------------------------------------------------------------------
(* Answers. *)

PanelShows(i, new) == panel' = IF calls[i].live THEN new ELSE panel

Asking(i, what, arg, next) == [Call(calls[i].by, what, arg, next) EXCEPT !.live = calls[i].live]

(* Wrong: the lists of the project before stay. *)
ProjectsShownAlone(i, found, at) ==
    /\ calls[i].by = "panel"
    /\ PanelShows(i, [panel EXCEPT !.projects = Listed(found, at)])
    /\ calls' = Gone(calls, i)
    /\ UNCHANGED picker

(* loadProjects: then switchProject and addProject go on. *)
ProjectsShown(i, found, at) ==
    /\ calls[i].by = "panel"
    /\ LET c == calls[i]
           projects == Listed(found, at)
       IN IF c.next = ""
          THEN /\ PanelShows(i, [panel EXCEPT !.projects = projects])
               /\ calls' = Gone(calls, i)
          ELSE /\ PanelShows(i, [panel EXCEPT !.projects = projects, !.list = FALSE,
                                             !.adding = @ /\ c.next # "add"])
               /\ Room(calls, 2)
               /\ calls' = Ask(Ask(Ask(Gone(calls, i), Asking(i, "workspace", Nowhere, "")),
                                   Asking(i, "tree", Nowhere, "")),
                               Call("picker", "projects", Nowhere, ""))
    /\ UNCHANGED picker

PickerShown(i, found, at) ==
    /\ calls[i].by = "picker"
    /\ picker' = [projects |-> Listed(found, at), open |-> picker.open /\ calls[i].next = ""]
    /\ calls' = Gone(calls, i)
    /\ UNCHANGED panel

(* What is answered to a click is not looked at, whatever it is. *)
Clicked(i) ==
    LET c == calls[i]
    IN /\ \/ c.what \in {"switch", "add"} /\ calls' = Ask(Gone(calls, i), Asking(i, "projects", Nowhere, c.what))
          \/ c.what = "remove" /\ calls' = Ask(Gone(calls, i), Asking(i, "projects", Nowhere, ""))
          \/ c.what = "delete" /\ calls' = Ask(Gone(calls, i), Asking(i, "workspace", Nowhere, ""))
       /\ UNCHANGED uiVars

AskSessions(i, at) ==
    /\ calls' = Ask(Gone(calls, i), Asking(i, "sessions", at, ""))
    /\ UNCHANGED uiVars

Shows(i, new) ==
    /\ PanelShows(i, new)
    /\ calls' = Gone(calls, i)
    /\ UNCHANGED picker

Answered(i) ==
    LET c == calls[i]
    IN /\ c.step = "served"
       /\ \/ c.what = "projects" /\ (ProjectsShown(i, c.found, c.at) \/ PickerShown(i, c.found, c.at))
          \/ c.what = "workspace" /\ AskSessions(i, c.at)
          \/ c.what = "sessions" /\ Shows(i, [panel EXCEPT !.sessions = c.found, !.nothing = (c.found = {})])
          \/ c.what = "tree" /\ Shows(i, [panel EXCEPT !.tree = c.at])
          \/ c.what = "browse" /\ Shows(i, [panel EXCEPT !.at = c.at])
          \/ Clicked(i)
       /\ UNCHANGED <<stored, kairosAt, blurred>>

(* The request or its answer is lost: lists are shown empty, all sessions  *)
(* are asked for, and what a click would do next is not done.              *)
Lost(i) ==
    LET c == calls[i]
    IN /\ c.step \in {"asked", "served"}
       /\ \/ c.what = "projects" /\ (ProjectsShown(i, {}, Nowhere) \/ PickerShown(i, {}, Nowhere))
          \/ c.what = "workspace" /\ AskSessions(i, Nowhere)
          \/ c.what = "tree" /\ Shows(i, [panel EXCEPT !.tree = Nowhere])
          \/ c.what \notin {"projects", "workspace", "tree"} /\ Shows(i, panel)
       /\ blurred' = Lists
       /\ UNCHANGED <<stored, kairosAt>>

-----------------------------------------------------------------------------
(* The panel is there on two pages of four. *)

MountPanel ==
    /\ Room(calls, 3)
    /\ panel' = EmptyPanel
    /\ calls' = Ask(Ask(Ask(calls, Call("panel", "projects", Nowhere, "")),
                        Call("panel", "workspace", Nowhere, "")),
                    Call("panel", "tree", Nowhere, ""))
    /\ blurred' = IF Changing = {} THEN blurred \ PanelLists ELSE Lists
    /\ UNCHANGED <<picker, stored, kairosAt>>

UnmountPanel ==
    /\ panel' = EmptyPanel
    /\ calls' = Orphaned(calls, "panel")
    /\ UNCHANGED <<picker, stored, kairosAt, blurred>>

ClickAdding ==
    \/ ToggleList \/ OpenFolderBrowser \/ Back
    \/ \E dir \in Projects \union {Nowhere, Unset} : GoTo(dir) \/ ClickAdd(dir)

ClickPicker == TogglePicker \/ \E p \in Projects : PickProject(p)

-----------------------------------------------------------------------------
PanelTypeOK ==
    /\ calls \in [InFlight(calls) ->
           [by : {"panel", "picker"}, live : BOOLEAN, arg : Projects \union Sessions \union {Nowhere, Unset},
            what : {"projects", "workspace", "sessions", "tree", "browse", "switch", "add", "remove", "delete"},
            next : {"", "switch", "add"}, step : {"asked", "begun", "saving", "saved", "served"},
            found : SUBSET (Projects \union Sessions), at : Projects \union {Nowhere}]]
    /\ InFlight(calls) \subseteq Slots
    /\ panel.projects.all \subseteq Projects /\ panel.sessions \subseteq Sessions
    /\ picker.projects.all \subseteq Projects
    /\ stored \in [Projects -> SUBSET Sessions]
    /\ kairosAt \in Projects /\ blurred \subseteq Lists

(* When all is answered, what is listed is what the server has, but for a  *)
(* click among answers, a lost call, the picker's list after a removal and *)
(* the panel's after the picker switched (SidePanel.tsx:99-127).           *)
ListsFresh(shown) ==
    InFlight(calls) = {} =>
        LET projects == Listed(file["projects"], workDir)
        IN /\ "picker" \in blurred \/ "projects" \in torn \/ picker.projects = projects
           /\ shown => /\ "projects" \in blurred \/ "projects" \in torn \/ panel.projects = projects
                       /\ "tree" \in blurred \/ panel.tree = workDir
                       /\ "sessions" \in blurred \/ panel.sessions = stored[workDir]
=============================================================================
