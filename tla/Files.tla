--------------------------------- MODULE Files ---------------------------------
(***************************************************************************)
(* Looking at a file and editing it (web/src/App.tsx:91-157), and the      *)
(* handlers that read and write it (internal/server/server.go).            *)
(*                                                                         *)
(* The page names a file by its path within the project, and the server    *)
(* takes the project it is at when it handles the request.  A text is      *)
(* modelled by where it comes from: the file <<project, path>> it was read *)
(* from, or Elsewhere for a text that stands for no file.                  *)
(***************************************************************************)
EXTENDS Naturals, FiniteSets

CONSTANTS Projects, Paths,
          Kind,         \* what is on disk at first, by file
          MaxRequests   \* reads, and writes, in flight at once

Kinds == {"text", "large", "binary", "empty", "missing"}
AllFiles == Projects \X Paths
Elsewhere == <<>>
Origins == AllFiles \union {Elsewhere}

ASSUME FilesAssumption ==
    /\ Kind \in [AllFiles -> Kinds]
    /\ Elsewhere \notin AllFiles
    /\ MaxRequests \in Nat

VARIABLES
    workDir,    \* the server's project
    disk,       \* of which file the text in each file is
    kind,       \* what each file is
    viewing,    \* set of at most one: [path, text, renders, stray]
    editMode, editText, editStray,
    reads, writes,  \* requests in flight
    hurt        \* files that got a text that may not be theirs

(* `stray' marks a text that may not be the whole text of the file it is   *)
(* shown for: it is not shown whole, a file was opened while it was        *)
(* edited, or the project was switched since.                              *)

fileServerVars == <<disk, kind, hurt>>
viewVars == <<viewing, editMode, editText, editStray>>
filesVars == <<workDir, fileServerVars, viewVars, reads, writes>>

FilesInit ==
    /\ workDir \in Projects
    /\ disk = [f \in AllFiles |-> f] /\ kind = Kind
    /\ viewing = {} /\ editMode = FALSE /\ editText = Elsewhere /\ editStray = FALSE
    /\ reads = {} /\ writes = {} /\ hurt = {}

File(path) == <<workDir, path>>

-----------------------------------------------------------------------------
(* Opening. *)

OpenFile(path) ==
    /\ Cardinality(reads) < MaxRequests
    /\ reads' = reads \union {[path |-> path, served |-> FALSE, text |-> Elsewhere,
                               renders |-> TRUE, stray |-> FALSE]}
    /\ UNCHANGED <<workDir, fileServerVars, viewVars, writes>>

(* handleReadFile: only a text that is not too large is answered whole; an *)
(* empty one, or an error, makes the page show the answer itself, an       *)
(* object, which does not render.                                          *)
ServeRead(r) ==
    /\ ~r.served
    /\ LET k == kind[File(r.path)]
       IN reads' = (reads \ {r}) \union
              {[r EXCEPT !.served = TRUE,
                         !.text = IF k \in {"text", "large"} THEN disk[File(r.path)] ELSE Elsewhere,
                         !.renders = k \notin {"empty", "missing"},
                         !.stray = k # "text" \/ File(r.path) \in hurt]}
    /\ UNCHANGED <<workDir, fileServerVars, viewVars, writes>>

Shown(r) == [path |-> r.path, text |-> r.text, renders |-> r.renders, stray |-> r.stray]

(* The edit goes on, of the text it had, under the name of another file. *)
FileShown(r) ==
    /\ r.served
    /\ reads' = reads \ {r}
    /\ viewing' = {Shown(r)}
    /\ editStray' = (editStray \/ editMode)
    /\ UNCHANGED <<workDir, fileServerVars, editMode, editText, writes>>

(* 'Failed to load file' *)
OpenFails(r) ==
    /\ reads' = reads \ {r}
    /\ viewing' = {[path |-> r.path, text |-> Elsewhere, renders |-> TRUE, stray |-> TRUE]}
    /\ editStray' = (editStray \/ editMode)
    /\ UNCHANGED <<workDir, fileServerVars, editMode, editText, writes>>

-----------------------------------------------------------------------------
(* Editing. *)

(* Wrong: the text of the last edit is still there. *)
EditOnly(v) ==
    /\ v \in viewing /\ v.renders /\ ~editMode
    /\ editMode' = TRUE /\ editStray' = v.stray
    /\ UNCHANGED <<workDir, fileServerVars, viewing, editText, reads, writes>>

(* Only of what is shown: an object shows nothing, and no page any more. *)
Edit(v) ==
    /\ v \in viewing /\ v.renders /\ ~editMode
    /\ editMode' = TRUE
    /\ editText' = v.text /\ editStray' = v.stray
    /\ UNCHANGED <<workDir, fileServerVars, viewing, reads, writes>>

Cancel ==
    /\ editMode
    /\ editMode' = FALSE /\ editText' = Elsewhere
    /\ editStray' = FALSE
    /\ UNCHANGED <<workDir, fileServerVars, viewing, reads, writes>>

Close ==
    /\ viewing # {}
    /\ viewing' = {} /\ editMode' = FALSE
    /\ UNCHANGED <<workDir, fileServerVars, editText, editStray, reads, writes>>

(* Save: the view gets the text when the write is answered, well or not. *)
SaveFile(v) ==
    /\ v \in viewing /\ editMode
    /\ Cardinality(writes) < MaxRequests
    /\ writes' = writes \union {[path |-> v.path, text |-> editText, stray |-> editStray, served |-> FALSE]}
    /\ UNCHANGED <<workDir, fileServerVars, viewVars, reads>>

ServeWrite(w) ==
    /\ ~w.served
    /\ writes' = (writes \ {w}) \union {[w EXCEPT !.served = TRUE]}
    /\ disk' = [disk EXCEPT ![File(w.path)] = w.text]
    /\ kind' = [kind EXCEPT ![File(w.path)] = "text"]
    /\ hurt' = IF w.stray THEN hurt \union {File(w.path)} ELSE hurt \ {File(w.path)}
    /\ UNCHANGED <<workDir, viewVars, reads>>

(* The answer that it could not be written is taken as if it was. *)
WriteRefused(w) ==
    /\ ~w.served
    /\ writes' = (writes \ {w}) \union {[w EXCEPT !.served = TRUE]}
    /\ UNCHANGED <<workDir, fileServerVars, viewVars, reads>>

WriteAnswered(w) ==
    /\ w.served
    /\ writes' = writes \ {w}
    /\ viewing' = {[path |-> w.path, text |-> w.text, renders |-> TRUE, stray |-> w.stray]}
    /\ editMode' = FALSE
    /\ UNCHANGED <<workDir, fileServerVars, editText, editStray, reads>>

(* The request is lost: the edit goes on. *)
WriteFails(w) ==
    /\ writes' = writes \ {w}
    /\ UNCHANGED <<workDir, fileServerVars, viewVars, reads>>

-----------------------------------------------------------------------------
(* handleSetWorkspace, SetWorkDir: what was read before is of another      *)
(* project, and so is what an edit in progress would save.                 *)
MoveTo(dir) ==
    /\ workDir' = dir
    /\ viewing' = {[v EXCEPT !.stray = TRUE] : v \in viewing}
    /\ editStray' = editMode
    /\ reads' = {[r EXCEPT !.stray = @ \/ r.served] : r \in reads}
    /\ writes' = {[w EXCEPT !.stray = TRUE] : w \in writes}
    /\ UNCHANGED <<fileServerVars, editMode, editText>>

FilesNext ==
    \/ \E path \in Paths : OpenFile(path)
    \/ \E r \in reads : ServeRead(r) \/ FileShown(r) \/ OpenFails(r)
    \/ \E v \in viewing : Edit(v) \/ SaveFile(v)
    \/ Cancel \/ Close
    \/ \E w \in writes : ServeWrite(w) \/ WriteRefused(w) \/ WriteAnswered(w) \/ WriteFails(w)
    \/ \E dir \in Projects : MoveTo(dir)

FilesSpec == FilesInit /\ [][FilesNext]_filesVars

-----------------------------------------------------------------------------
FilesTypeOK ==
    /\ workDir \in Projects
    /\ disk \in [AllFiles -> Origins] /\ kind \in [AllFiles -> Kinds]
    /\ viewing \subseteq [path : Paths, text : Origins, renders : BOOLEAN, stray : BOOLEAN]
    /\ editMode \in BOOLEAN /\ editText \in Origins /\ editStray \in BOOLEAN
    /\ reads \subseteq [path : Paths, served : BOOLEAN, text : Origins, renders : BOOLEAN, stray : BOOLEAN]
    /\ writes \subseteq [path : Paths, text : Origins, stray : BOOLEAN, served : BOOLEAN]
    /\ hurt \subseteq AllFiles

(* A file holds a text that came from it, unless the text that was saved   *)
(* was not shown whole, another file was opened while it was edited, or    *)
(* the project was switched between reading and writing (App.tsx:122-137). *)
FilesKeepTheirText == \A f \in AllFiles \ hurt : disk[f] = f
=============================================================================
