---------------------------------- MODULE App ----------------------------------
(***************************************************************************)
(* The web front end but for the chat (web/src/App.tsx, components,        *)
(* pages): four pages, a status bar and a side panel over one server.      *)
(*                                                                         *)
(* What the user does is planned: where the page starts, what is clicked   *)
(* on, how often, and how many requests are lost.                          *)
(***************************************************************************)
EXTENDS Panel, Settings, Costs

CONSTANT Plans

Pages == {"chat", "files", "costs", "settings"}     \* components/ActivityBar.tsx

(* The program starts at the chat page, and asks for four lists            *)
(* (App.tsx:25, 46-57, SidePanel.tsx:91-95).                               *)
ASSUME PlansAssumption ==
    \A p \in Plans :
        /\ p.page \in Pages /\ p.atRest \in BOOLEAN
        /\ p.atRest \/ (p.page = "chat" /\ MaxCalls >= 4)
        /\ p.project \in Projects /\ p.registered \subseteq Projects
        /\ p.histories \in [Projects -> SUBSET Sessions]
        /\ p.active \in Offers /\ p.lang \in Langs

VARIABLES page, plan

appVars == <<page, plan, panelVars, filesVars, fileVars, settingsVars, costsVars>>

PanelThere(p) == p \in {"chat", "files"}

(* React takes the whole page away when something cannot be rendered:      *)
(* null for a list of sessions (SidePanel.tsx:304), an object for a text   *)
(* (App.tsx:150).                                                          *)
Blank ==
    \/ page = "chat" /\ panel.nothing
    \/ page = "files" /\ ~editMode /\ \E v \in viewing : ~v.renders

Contents(p) ==
    [f \in Fields |-> CASE f = "projects" -> p.registered [] f = "workDir" -> {p.project}
                        [] f = "provider" -> {p.active[1]} [] f = "model" -> {p.active[2]}
                        [] f = "lang" -> {p.lang} [] OTHER -> {}]

(* The App's two lists are asked for, and what the first page asks for; or *)
(* all that has been answered.                                             *)
AppInit ==
    /\ plan \in Plans
    /\ page = plan.page
    /\ FileInit(Contents(plan))
    /\ FilesInit /\ workDir = plan.project /\ kairosAt = workDir
    /\ stored = plan.histories
    /\ active = plan.active /\ lang = plan.lang
    /\ CostsInit
    /\ LET projects == Listed(plan.registered, plan.project)
           opened == [EmptyPanel EXCEPT !.projects = projects, !.tree = workDir,
                                        !.sessions = stored[workDir], !.nothing = (stored[workDir] = {}), !.list = TRUE]
           asked == <<Call("picker", "projects", Nowhere, ""), Call("panel", "projects", Nowhere, ""),
                      Call("panel", "workspace", Nowhere, ""), Call("panel", "tree", Nowhere, "")>>
       IN /\ panel = IF plan.atRest /\ PanelThere(page) THEN opened ELSE EmptyPanel
          /\ picker = [projects |-> IF plan.atRest THEN projects ELSE NoProjects, open |-> plan.atRest]
          /\ calls = IF plan.atRest THEN NoCalls ELSE asked
    /\ blurred = {}
    /\ asks = IF plan.atRest THEN NoCalls ELSE Ask(NoCalls, Get("bar", ""))
    /\ status = IF plan.atRest THEN active ELSE Offline
    /\ picking = plan.atRest
    /\ IF plan.atRest /\ page = "settings"
       THEN shown = active /\ sel = active /\ shownLang = lang
       ELSE shown = Offline /\ sel = Offline /\ shownLang = Unchosen
    /\ astray = FALSE /\ apart = FALSE

-----------------------------------------------------------------------------
(* What a step of one part leaves alone. *)
RestOfPanel == UNCHANGED <<filesVars, fileVars, settingsVars, costsVars, page>>
RestOfFiles == UNCHANGED <<panelVars, fileVars, settingsVars, costsVars, page>>
RestOfSettings == UNCHANGED <<panelVars, filesVars, costsVars, page>>
RestOfCosts == UNCHANGED <<panelVars, filesVars, fileVars, settingsVars, page>>

(* One of the clicks of the plan.  The patient wait for the answers to     *)
(* what they clicked before.                                               *)
Click(on) ==
    /\ ~Blank
    /\ plan.patient => InFlight(calls) = {} /\ Setting = {}
    /\ on \in plan.clicked /\ plan.clicks > 0
    /\ plan' = [plan EXCEPT !.clicks = @ - 1]

Loses == plan.losses > 0 /\ plan' = [plan EXCEPT !.losses = @ - 1]

(* ActivityBar: what belonged to the page that is left goes with it. *)
Navigate(p) ==
    /\ Click("page") /\ p # page
    /\ page' = p
    /\ IF PanelThere(p) /\ ~PanelThere(page) THEN MountPanel
       ELSE IF PanelThere(page) /\ ~PanelThere(p) THEN UnmountPanel
       ELSE UNCHANGED panelVars
    /\ IF p = "settings" THEN MountSettings
       ELSE IF page = "settings" THEN UnmountSettings
       ELSE UNCHANGED settingsVars
    /\ IF p = "costs" THEN OpenCosts ELSE IF page = "costs" THEN CloseCosts ELSE UNCHANGED costsVars
    /\ UNCHANGED <<filesVars, fileVars>>

UsePanel ==
    /\ PanelThere(page)
    /\ \/ Click("switch") /\ \E p \in Projects : ClickProject(p)
       \/ Click("remove") /\ \E p \in Projects : ClickRemove(p)
       \/ Click("add") /\ ClickAdding
       \/ Click("delete") /\ page = "chat" /\ \E s \in Sessions : ClickDelete(s)
    /\ RestOfPanel

UsePicker == Click("picker") /\ ClickPicker /\ RestOfPanel

UseFiles ==
    /\ page = "files" /\ Click("files")
    /\ \/ \E path \in Paths : panel.tree # Nowhere /\ OpenFile(path)
       \/ \E v \in viewing : Edit(v) \/ SaveFile(v)
       \/ Cancel \/ Close
    /\ RestOfFiles

UseSettings == page = "settings" /\ Click("settings") /\ ClickSettings /\ UNCHANGED fileVars /\ RestOfSettings
UseBar == Click("bar") /\ ClickBar /\ UNCHANGED fileVars /\ RestOfSettings
UseCosts == page = "costs" /\ Click("costs") /\ Compare /\ RestOfCosts
UseModel == Click("use") /\ Use /\ RestOfCosts

-----------------------------------------------------------------------------
(* The server, and the timers and answers of the page. *)

ServesPanel(i) == i \in InFlight(calls) /\ ServePanel(i) /\ UNCHANGED <<settingsVars, costsVars, page, plan>>
ServesSettings(i) == i \in InFlight(asks) /\ ServeSettings(i) /\ RestOfSettings /\ UNCHANGED plan
ServesFiles ==
    /\ \/ \E r \in reads : ServeRead(r)
       \/ \E w \in writes : ServeWrite(w) \/ WriteRefused(w)
    /\ RestOfFiles /\ UNCHANGED plan

PanelHears(i) == ~Blank /\ i \in InFlight(calls) /\ Answered(i) /\ RestOfPanel /\ UNCHANGED plan
SettingsHear(i) == i \in InFlight(asks) /\ SettingsAnswered(i) /\ UNCHANGED fileVars /\ RestOfSettings /\ UNCHANGED plan
FilesHear ==
    /\ \/ \E r \in reads : FileShown(r)
       \/ \E w \in writes : WriteAnswered(w)
    /\ ~Blank /\ RestOfFiles /\ UNCHANGED plan
CostsHear ==
    /\ \/ \E i \in DOMAIN loads : FiguresShown(i) \/ \E f \in Figures : FigureServed(i, f)
       \/ CompareAnswered
    /\ RestOfCosts /\ UNCHANGED plan

PollsStatus == ~Blank /\ plan.polls /\ Poll /\ UNCHANGED fileVars /\ RestOfSettings /\ UNCHANGED plan
PollsFigures == page = "costs" /\ LoadFigures /\ RestOfCosts /\ UNCHANGED plan

Loss ==
    /\ Loses
    /\ \/ \E i \in InFlight(calls) : ~Blank /\ Lost(i) /\ RestOfPanel
       \/ \E i \in InFlight(asks) : SettingsLost(i) /\ UNCHANGED fileVars /\ RestOfSettings
       \/ ~Blank /\ (\E r \in reads : OpenFails(r) \/ \E w \in writes : WriteFails(w)) /\ RestOfFiles
       \/ ((\E i \in DOMAIN loads, f \in Figures : FigureFails(i, f)) \/ CompareFails) /\ RestOfCosts

AppNext ==
    \/ \E p \in Pages : Navigate(p)
    \/ UsePanel \/ UsePicker \/ UseFiles \/ UseSettings \/ UseBar \/ UseCosts \/ UseModel
    \/ \E i \in Slots : ServesPanel(i) \/ PanelHears(i) \/ ServesSettings(i) \/ SettingsHear(i)
    \/ ServesFiles \/ FilesHear \/ CostsHear
    \/ PollsStatus \/ PollsFigures
    \/ Loss

(* The server goes on handling what it is asked, what it answers goes on   *)
(* arriving, and timers go off.  Clicks need never come.                   *)
AppFairness ==
    /\ WF_appVars(ServesFiles \/ \E i \in Slots : ServesPanel(i))
    /\ WF_appVars(FilesHear \/ \E i \in Slots : PanelHears(i))
    /\ WF_appVars(\E i \in Slots : ServesSettings(i))
    /\ WF_appVars(\E i \in Slots : SettingsHear(i))
    /\ WF_appVars(CostsHear)
    /\ WF_appVars(PollsStatus) /\ WF_appVars(PollsFigures)

AppSpec == AppInit /\ [][AppNext]_appVars /\ AppFairness

-----------------------------------------------------------------------------
AppTypeOK ==
    /\ page \in Pages
    /\ PanelTypeOK /\ FilesTypeOK /\ SettingsTypeOK /\ CostsTypeOK

(* See Panel.tla *)
PanelFresh == ~Blank => ListsFresh(PanelThere(page))

(* See Settings.tla *)
SettingsTrue == PageShowsActive(page = "settings") /\ DefaultsAreActive

AppSafe == AppTypeOK /\ PanelFresh /\ SettingsTrue /\ LastCompared

(* Once nobody clicks and nothing is lost any more, the bar comes to show  *)
(* the model in use and the activity page what is counted, for good, and   *)
(* no request of the panel stays open (App.tsx:46-57, Costs.tsx:13-31).    *)
CatchesUp ==
    /\ plan.polls => <>[](Blank \/ status = active)
    /\ <>[](page = "costs" => UpToDate)
    /\ <>[](Blank \/ InFlight(calls) = {})
=============================================================================
