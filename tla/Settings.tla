------------------------------- MODULE Settings -------------------------------
(***************************************************************************)
(* The provider and the model: the settings page                           *)
(* (web/src/pages/Settings.tsx), the status bar and its model picker       *)
(* (web/src/App.tsx), and the handlers of the configuration                *)
(* (internal/server/server.go).                                            *)
(*                                                                         *)
(* The server has them twice: in use, and as the defaults in config.json.  *)
(* The browser has them twice: on the bar, which asks every 15 seconds,    *)
(* and on the page, which asks once and then believes its own clicks.      *)
(***************************************************************************)
EXTENDS Calls, ConfigFile

CONSTANTS Models,       \* the models of each provider
          Quick,        \* the choice of the quick start
          Langs, Unchosen,
          MaxPolls      \* questions of the bar in flight at once

Providers == DOMAIN Models
Offers == UNION {{p} \X Models[p] : p \in Providers}
Offline == <<Unchosen, Unchosen>>

ASSUME SettingsAssumption ==
    /\ Quick \in Offers
    /\ Unchosen \notin Providers \union Langs /\ \A p \in Providers : Unchosen \notin Models[p]
    /\ {"provider", "model", "lang", "keys"} \subseteq Fields

VARIABLES
    active,     \* the server's provider and model
    lang,       \* the server's answer language
    asks,       \* requests of the page and of the bar
    status,     \* what the bar shows
    picking,    \* the model picker is open
    shown,      \* what the page shows at its top; Offline for nothing
    sel,        \* what is selected on the page
    shownLang,  \* the language marked on it
    astray,     \* the page may show something else than the server uses
    apart       \* so may the defaults be

pageVars == <<shown, sel, shownLang>>
barVars == <<status, picking>>
settingsVars == <<active, lang, asks, pageVars, barVars, astray, apart>>

(* choice, lang: what is asked to be set, Unchosen for what is not; next:  *)
(* what the function that awaits does then; got: the answer.               *)
Request(by, what, choice, newLang, next) ==
    [by |-> by, what |-> what, choice |-> choice, lang |-> newLang, next |-> next,
     step |-> "asked", live |-> TRUE, got |-> Offline, gotLang |-> Unchosen]

Get(by, next) == Request(by, "config", Offline, Unchosen, next)
Set(by, choice, newLang, next) == Request(by, "set", choice, newLang, next)

(* Settings on their way, and questions of a page. *)
Setting == {i \in InFlight(asks) : asks[i].what # "config"}
Mounting == {i \in InFlight(asks) : asks[i].by = "page" /\ asks[i].what = "config"}

-----------------------------------------------------------------------------
(* The bar. *)

Poll ==
    /\ Room(asks, 1)
    /\ Cardinality({i \in InFlight(asks) : asks[i].by = "bar" /\ asks[i].what = "config"}) < MaxPolls
    /\ asks' = Ask(asks, Get("bar", ""))
    /\ UNCHANGED <<active, lang, pageVars, barVars, astray, apart>>

TogglePicking ==
    /\ picking' = ~picking
    /\ UNCHANGED <<active, lang, asks, status, pageVars, astray, apart>>

(* The page is not told. *)
PickModel(choice) ==
    /\ picking /\ Room(asks, 1)
    /\ asks' = Ask(asks, Set("bar", choice, Unchosen, "pick"))
    /\ astray' = TRUE /\ apart' = (apart \/ Setting # {})
    /\ UNCHANGED <<active, lang, pageVars, barVars>>

-----------------------------------------------------------------------------
(* The page. *)

MountSettings ==
    /\ Room(asks, 1)
    /\ shown' = Offline /\ sel' = Offline /\ shownLang' = Unchosen
    /\ asks' = Ask(asks, Get("page", ""))
    /\ astray' = (Setting # {})
    /\ UNCHANGED <<active, lang, barVars, apart>>

UnmountSettings ==
    /\ asks' = Orphaned(asks, "page")
    /\ shown' = Offline /\ sel' = Offline /\ shownLang' = Unchosen
    /\ UNCHANGED <<active, lang, barVars, astray, apart>>

(* Set while something else is set or asked, either may come last. *)
PageAsks(call, unshown, unused) ==
    /\ Room(asks, 1)
    /\ asks' = Ask(asks, call)
    /\ astray' = (astray \/ unshown \/ Setting \union Mounting # {})
    /\ apart' = (apart \/ unused \/ Setting # {})
    /\ UNCHANGED <<active, lang, barVars>>

QuickStart == PageAsks(Set("page", Quick, Unchosen, "quick"), FALSE, FALSE) /\ UNCHANGED pageVars

(* A card, or the lists of the form and of the advanced settings. *)
Select(choice) ==
    /\ sel' = choice
    /\ UNCHANGED <<active, lang, asks, shown, shownLang, barVars, astray, apart>>

(* The form is there for a provider that is not the local one. *)
ApplyWithKey(keyed) ==
    /\ sel[1] \notin {Unchosen, Quick[1]} /\ sel[2] # Unchosen
    /\ PageAsks(IF keyed THEN Request("page", "register", sel, Unchosen, "apply")
                         ELSE Set("page", sel, Unchosen, "apply"), FALSE, FALSE)
    /\ UNCHANGED pageVars

(* Apply of the advanced settings: the page goes on to show the old ones;  *)
(* with no model selected, the provider becomes a default alone.           *)
ApplyAdvanced ==
    /\ PageAsks(Set("page", sel, Unchosen, ""), TRUE, sel[2] = Unchosen)
    /\ UNCHANGED pageVars

ChooseLang(l) ==
    /\ shownLang' = l
    /\ PageAsks(Set("page", Offline, l, ""), FALSE, FALSE)
    /\ UNCHANGED <<shown, sel>>

-----------------------------------------------------------------------------
(* The server's side. *)

AskHandler(i) == <<"settings", i>>
ServerRest == UNCHANGED <<pageVars, barVars, astray, apart>>

ServeConfig(i) ==
    /\ asks[i].step = "asked" /\ asks[i].what = "config"
    /\ asks' = [asks EXCEPT ![i].step = "served", ![i].got = active, ![i].gotLang = lang]
    /\ UNCHANGED <<active, lang, fileVars>> /\ ServerRest

(* handleRegisterProvider: the key goes into the file, not to a provider. *)
BeginRegister(i) ==
    /\ asks[i].step = "asked" /\ asks[i].what = "register"
    /\ Load(AskHandler(i))
    /\ asks' = Stepped(asks, i, "begun")
    /\ UNCHANGED <<active, lang>> /\ ServerRest

(* handleSetConfig: a provider is switched to only with a model. *)
BeginSet(i) ==
    LET c == asks[i]
    IN /\ c.step = "asked" /\ c.what = "set"
       /\ active' = IF Unchosen \in {c.choice[1], c.choice[2]} THEN active ELSE c.choice
       /\ lang' = IF c.lang = Unchosen THEN lang ELSE c.lang
       /\ Load(AskHandler(i))
       /\ asks' = Stepped(asks, i, "begun")
       /\ ServerRest

BeginAskSave(i) ==
    /\ asks[i].step = "begun"
    /\ Empty(AskHandler(i))
    /\ asks' = Stepped(asks, i, "saving")
    /\ UNCHANGED <<active, lang>> /\ ServerRest

Asked(c) ==
    LET new == [provider |-> c.choice[1], model |-> c.choice[2], lang |-> c.lang]
        given == {f \in DOMAIN new : new[f] # Unchosen}
    IN [f \in given |-> {new[f]}]

EndAskSave(i) ==
    LET c == asks[i]
    IN /\ c.step = "saving"
       /\ \/ c.what = "set" /\ Put(AskHandler(i), Asked(c))
          \/ c.what = "register" /\ Amend(AskHandler(i), "keys", {c.choice[1]}, {})
       /\ asks' = Stepped(asks, i, "served")
       /\ UNCHANGED <<active, lang>> /\ ServerRest

ServeSettings(i) ==
    ServeConfig(i) \/ BeginRegister(i) \/ BeginSet(i) \/ BeginAskSave(i) \/ EndAskSave(i)

-----------------------------------------------------------------------------
(* Answers. *)

(* Wrong: the bar is filled once. *)
ConfigShownOnce(i) ==
    LET c == asks[i]
    IN /\ c.what = "config"
       /\ IF c.by = "bar"
          THEN /\ status' = IF status = Offline THEN c.got ELSE status
               /\ picking' = (picking /\ c.next = "")
               /\ UNCHANGED pageVars
          ELSE /\ IF c.live THEN shown' = c.got /\ sel' = c.got /\ shownLang' = c.gotLang
                            ELSE UNCHANGED pageVars
               /\ UNCHANGED barVars
       /\ asks' = Gone(asks, i)

ConfigShown(i) ==
    LET c == asks[i]
    IN /\ c.what = "config"
       /\ IF c.by = "bar"
          THEN /\ status' = c.got /\ picking' = (picking /\ c.next = "")
               /\ UNCHANGED pageVars
          ELSE /\ IF c.live THEN shown' = c.got /\ sel' = c.got /\ shownLang' = c.gotLang
                            ELSE UNCHANGED pageVars
               /\ UNCHANGED barVars
       /\ asks' = Gone(asks, i)

(* Wrong: only the quick start is told to the page. *)
ToldQuick(c) == IF c.live /\ shown # Offline /\ c.next = "quick" THEN c.choice ELSE shown

(* setConfig: nothing when the page shows nothing. *)
Told(c) == IF c.live /\ shown # Offline /\ c.next \in {"quick", "apply"} THEN c.choice ELSE shown

SetAnswered(i) ==
    LET c == asks[i]
    IN /\ c.what # "config"
       /\ \/ c.what = "register" /\ asks' = Ask(Gone(asks, i), [Set("page", c.choice, Unchosen, c.next) EXCEPT !.live = c.live])
             /\ UNCHANGED pageVars
          \/ c.what = "set" /\ c.next = "pick" /\ asks' = Ask(Gone(asks, i), Get("bar", "pick"))
             /\ UNCHANGED pageVars
          \/ /\ c.what = "set" /\ c.next # "pick"
             /\ asks' = Gone(asks, i)
             /\ shown' = Told(c)
             /\ sel' = IF c.live /\ c.next = "quick" THEN c.choice ELSE sel
             /\ UNCHANGED shownLang
       /\ UNCHANGED barVars

SettingsAnswered(i) ==
    /\ asks[i].step = "served"
    /\ ConfigShown(i) \/ SetAnswered(i)
    /\ UNCHANGED <<active, lang, astray, apart>>

(* Only the bar's timer looks at a failure. *)
SettingsLost(i) ==
    LET c == asks[i]
    IN /\ c.step \in {"asked", "served"}
       /\ status' = IF c.what = "config" /\ c.by = "bar" /\ c.next = "" THEN Offline ELSE status
       /\ asks' = Gone(asks, i)
       /\ astray' = TRUE
       /\ UNCHANGED <<active, lang, pageVars, picking, apart>>

-----------------------------------------------------------------------------
ClickSettings ==
    \/ QuickStart \/ ApplyAdvanced
    \/ \E choice \in Offers \union {<<p, Unchosen>> : p \in Providers} : choice # sel /\ Select(choice)
    \/ \E keyed \in BOOLEAN : ApplyWithKey(keyed)
    \/ \E l \in Langs : ChooseLang(l)

ClickBar == TogglePicking \/ \E choice \in Offers : PickModel(choice)

-----------------------------------------------------------------------------
Selections == Offers \union {<<p, Unchosen>> : p \in Providers} \union {Offline}

SettingsTypeOK ==
    /\ active \in Offers /\ lang \in Langs
    /\ asks \in [InFlight(asks) ->
           [by : {"bar", "page"}, what : {"config", "set", "register"}, choice : Selections,
            lang : Langs \union {Unchosen}, next : {"", "pick", "quick", "apply"},
            step : {"asked", "begun", "saving", "served"}, live : BOOLEAN,
            got : Selections, gotLang : Langs \union {Unchosen}]]
    /\ status \in Selections /\ picking \in BOOLEAN
    /\ shown \in Selections /\ sel \in Selections /\ shownLang \in Langs \union {Unchosen}
    /\ astray \in BOOLEAN /\ apart \in BOOLEAN

(* When all is answered, the page shows what the server uses, but for      *)
(* settings made at once, lost ones, and ones made elsewhere or under      *)
(* Advanced (Settings.tsx:32-55, 217).                                     *)
PageShowsActive(there) ==
    there /\ Setting \union Mounting = {} /\ ~astray => shown = active /\ shownLang = lang

(* The defaults a restart would take are what is in use, but for settings  *)
(* made at once, a provider saved alone, or saves of others in between     *)
(* (server.go:987-1047).                                                   *)
DefaultsAreActive ==
    Setting = {} /\ ~apart /\ {"provider", "model", "lang"} \cap torn = {} =>
        <<file["provider"], file["model"], file["lang"]>> = <<{active[1]}, {active[2]}, {lang}>>
=============================================================================
