------------------------------ MODULE ConfigFile ------------------------------
(***************************************************************************)
(* config.json, which the server's handlers change                         *)
(* (internal/server/server.go, internal/config/config.go): each loads the  *)
(* file, changes something of what it loaded, and saves all of it.  No     *)
(* lock is held, so another handler may load or save in between; and       *)
(* os.WriteFile first empties the file, which a Load then takes for the    *)
(* defaults.                                                               *)
(***************************************************************************)
EXTENDS Naturals

CONSTANTS Fields,       \* of the file
          Values,       \* what they may hold
          Defaults,     \* what an unreadable file is taken for
          Handlers      \* requests that may change it

ASSUME ConfigAssumption == Defaults \in [Fields -> Values]

VARIABLES
    file,       \* what was last saved, by field
    loaded,     \* what each handler at work has loaded
    stale,      \* handlers since whose load another has saved
    half,       \* handlers that have emptied the file and not written it yet
    crossed,    \* those of them since whose emptying another has written it
    latest,     \* what the requests so far have asked the fields to be
    torn        \* fields that a stale handler has saved as they were before

fileVars == <<file, loaded, stale, half, crossed, latest, torn>>

AtWork == DOMAIN loaded
Readable == IF half = {} THEN file ELSE Defaults

FileInit(contents) ==
    /\ file = contents /\ latest = contents
    /\ loaded = [h \in {} |-> contents]
    /\ stale = {} /\ half = {} /\ crossed = {} /\ torn = {}

(* config.Load: the error of json.Unmarshal is not looked at. *)
Load(h) ==
    /\ h \notin AtWork
    /\ loaded' = [g \in AtWork \union {h} |-> IF g = h THEN Readable ELSE loaded[g]]
    /\ stale' = IF half = {} THEN stale ELSE stale \union {h}
    /\ UNCHANGED <<file, half, crossed, latest, torn>>

(* The handler refuses the request: nothing is saved. *)
Abandon(h) ==
    /\ h \in AtWork \ half
    /\ loaded' = [g \in AtWork \ {h} |-> loaded[g]]
    /\ stale' = stale \ {h}
    /\ UNCHANGED <<file, half, crossed, latest, torn>>

(* config.Save, first half *)
Empty(h) ==
    /\ h \in AtWork \ half
    /\ half' = half \union {h}
    /\ UNCHANGED <<file, loaded, stale, crossed, latest, torn>>

(* config.Save, second half.  What another has written in between is       *)
(* longer, and its end stays behind the new text: the file is no JSON any  *)
(* more.  Or it is not.                                                    *)
Save(h, contents, own) ==
    /\ h \in half
    /\ loaded' = [g \in AtWork \ {h} |-> loaded[g]]
    /\ stale' = (stale \union AtWork) \ {h}
    /\ half' = half \ {h}
    /\ crossed' = (crossed \union half) \ {h}
    /\ \/ /\ file' = contents
          /\ torn' = (IF h \in stale THEN Fields ELSE torn) \ own
       \/ /\ h \in crossed
          /\ file' = Defaults
          /\ torn' = Fields

(* The fields of `change' are given new values. *)
Changed(contents, change) ==
    [f \in Fields |-> IF f \in DOMAIN change THEN change[f] ELSE contents[f]]

(* Wrong: what is not given becomes what it is by default. *)
PutAlone(h, change) ==
    /\ Save(h, Changed(Defaults, change), DOMAIN change)
    /\ latest' = Changed(latest, change)

Put(h, change) ==
    /\ Save(h, Changed(loaded[h], change), DOMAIN change)
    /\ latest' = Changed(latest, change)

(* A list is lengthened or shortened. *)
Amended(contents, field, more, less) ==
    [contents EXCEPT ![field] = (@ \union more) \ less]

Amend(h, field, more, less) ==
    /\ Save(h, Amended(loaded[h], field, more, less), {})
    /\ latest' = Amended(latest, field, more, less)

-----------------------------------------------------------------------------
FileNext ==
    \E h \in Handlers :
        \/ Load(h) \/ Abandon(h) \/ Empty(h)
        \/ \E F \in SUBSET Fields : \E change \in [F -> Values] : Put(h, change)
        \/ \E f \in Fields, more, less \in Values : Amend(h, f, more, less)

FileSpec == (\E contents \in [Fields -> Values] : FileInit(contents)) /\ [][FileNext]_fileVars

(* What requests asked for is in the file, but where a handler saved that  *)
(* had loaded it before another one's save (server.go:688, 1027, 2376).    *)
UpdatesKept == \A f \in Fields \ torn : file[f] = latest[f]
=============================================================================
