-------------------------------- MODULE AppProofs --------------------------------
(***************************************************************************)
(* The web front end but for the chat, for any projects, files, handlers,  *)
(* providers and plans of a user.                                          *)
(***************************************************************************)
EXTENDS App, FiniteSetTheorems, WellFoundedInduction, SequenceTheorems, TLAPS

-----------------------------------------------------------------------------
(* config.json keeps what the requests asked for, for any fields, values   *)
(* and handlers at work at once, but for the fields `torn' names           *)
(* (ConfigFile).                                                           *)

(* What a handler has loaded is what the file holds, unless it is stale.   *)
LoadedInv ==
    /\ half \subseteq AtWork
    /\ \A h \in AtWork : DOMAIN loaded[h] = Fields
    /\ \A h \in AtWork \ stale : loaded[h] = file

FileInv ==
    /\ DOMAIN file = Fields /\ DOMAIN latest = Fields
    /\ LoadedInv
    /\ UpdatesKept

(* What is common to Put and Amend.                                        *)
LEMMA SaveKeepsLoaded ==
    ASSUME FileInv, NEW h, NEW contents, NEW own, Save(h, contents, own), DOMAIN contents = Fields
    PROVE  LoadedInv' /\ DOMAIN file' = Fields
<1>1. h \in half /\ loaded' = [g \in AtWork \ {h} |-> loaded[g]]
      /\ half' = half \ {h} /\ stale' = (stale \union AtWork) \ {h}
  BY DEF Save
<1>2. AtWork' = AtWork \ {h}
  BY <1>1 DEF AtWork
<1>3. half' \subseteq AtWork'
  BY <1>1, <1>2 DEF FileInv, LoadedInv
<1>4. \A g \in AtWork' : DOMAIN loaded'[g] = Fields
  BY <1>1, <1>2 DEF FileInv, LoadedInv
<1>5. AtWork' \ stale' = {}
  BY <1>1, <1>2
<1>6. DOMAIN file' = Fields
  BY ConfigAssumption DEF Save
<1>7. QED
  BY <1>3, <1>4, <1>5, <1>6 DEF LoadedInv

(* Which text is saved, if it is: over the file of a stale handler all     *)
(* fields but its own may be torn.                                         *)
LEMMA SaveTears ==
    ASSUME FileInv, NEW h, NEW contents, NEW own, Save(h, contents, own)
    PROVE  \/ torn' = Fields
           \/ file' = contents /\ h \in stale /\ torn' = Fields \ own
           \/ file' = contents /\ h \notin stale /\ loaded[h] = file /\ torn' = torn \ own
BY DEF Save, FileInv, LoadedInv, AtWork

LEMMA FileInvPut ==
    ASSUME FileInv, NEW h, NEW change, DOMAIN change \subseteq Fields, Put(h, change)
    PROVE  FileInv'
<1> DEFINE contents == Changed(loaded[h], change)
           F == DOMAIN change
<1>1. Save(h, contents, F) /\ latest' = Changed(latest, change)
  BY DEF Put
<1>2. DOMAIN contents = Fields /\ DOMAIN latest' = Fields
  BY <1>1 DEF Changed
<1>3. LoadedInv' /\ DOMAIN file' = Fields
  BY <1>1, <1>2, SaveKeepsLoaded
<1>4. UpdatesKept'
  <2>1. SUFFICES ASSUME NEW f \in Fields, f \notin torn'
                 PROVE  file'[f] = latest'[f]
    BY DEF UpdatesKept
  <2>2. latest'[f] = IF f \in F THEN change[f] ELSE latest[f]
    BY <1>1 DEF Changed
  <2>3. contents[f] = IF f \in F THEN change[f] ELSE loaded[h][f]
    BY DEF Changed
  <2>4. \/ file' = contents /\ f \in F
        \/ file' = contents /\ loaded[h] = file /\ (f \in F \/ f \notin torn)
    BY <1>1, <2>1, SaveTears
  <2>5. QED
    BY <2>2, <2>3, <2>4 DEF FileInv, UpdatesKept
<1>5. QED
  BY <1>2, <1>3, <1>4 DEF FileInv

LEMMA FileInvAmend ==
    ASSUME FileInv, NEW h, NEW field \in Fields, NEW more, NEW less, Amend(h, field, more, less)
    PROVE  FileInv'
<1> DEFINE contents == Amended(loaded[h], field, more, less)
<1>1. Save(h, contents, {}) /\ latest' = Amended(latest, field, more, less)
  BY DEF Amend
<1>2. h \in AtWork
  BY <1>1 DEF Save, FileInv, LoadedInv
<1>3. DOMAIN contents = Fields /\ DOMAIN latest' = Fields
  BY <1>1, <1>2 DEF Amended, FileInv, LoadedInv
<1>4. LoadedInv' /\ DOMAIN file' = Fields
  BY <1>1, <1>3, SaveKeepsLoaded
<1>5. UpdatesKept'
  <2>1. SUFFICES ASSUME NEW f \in Fields, f \notin torn'
                 PROVE  file'[f] = latest'[f]
    BY DEF UpdatesKept
  <2>2. file' = contents /\ loaded[h] = file /\ f \notin torn
    BY <1>1, <2>1, SaveTears
  <2>3. file[f] = latest[f]
    BY <2>2 DEF FileInv, UpdatesKept
  <2>4. QED
    BY <1>1, <2>2, <2>3 DEF Amended, FileInv
<1>6. QED
  BY <1>3, <1>4, <1>5 DEF FileInv

LEMMA FileInvInit == ASSUME NEW contents \in [Fields -> Values], FileInit(contents) PROVE FileInv
BY DEF FileInit, FileInv, LoadedInv, UpdatesKept, AtWork

LEMMA FileInvLoad == ASSUME FileInv, NEW h, Load(h) PROVE FileInv'
<1>1. AtWork' = AtWork \union {h} /\ half' = half /\ file' = file
  BY DEF Load, AtWork
<1>2. \A g \in AtWork' : loaded'[g] = IF g = h THEN Readable ELSE loaded[g]
  BY <1>1 DEF Load
<1>3. half = {} => Readable = file
  BY DEF Readable
<1>4. DOMAIN Readable = Fields
  BY ConfigAssumption DEF Readable, FileInv
<1>5. stale' = IF half = {} THEN stale ELSE stale \union {h}
  BY DEF Load
<1>6. LoadedInv'
  BY <1>1, <1>2, <1>3, <1>4, <1>5 DEF FileInv, LoadedInv
<1>7. QED
  BY <1>6 DEF Load, FileInv, UpdatesKept

LEMMA FileInvAbandon == ASSUME FileInv, NEW h, Abandon(h) PROVE FileInv'
<1>1. AtWork' = AtWork \ {h} /\ half' = half /\ h \notin half /\ file' = file
      /\ stale' = stale \ {h} /\ \A g \in AtWork' : loaded'[g] = loaded[g]
  BY DEF Abandon, AtWork
<1>2. LoadedInv'
  BY <1>1 DEF FileInv, LoadedInv
<1>3. QED
  BY <1>2 DEF Abandon, FileInv, UpdatesKept

LEMMA FileInvEmpty == ASSUME FileInv, NEW h, Empty(h) PROVE FileInv'
BY DEF Empty, FileInv, LoadedInv, UpdatesKept, AtWork

LEMMA FileInvSame == ASSUME FileInv, UNCHANGED fileVars PROVE FileInv'
BY DEF fileVars, FileInv, LoadedInv, UpdatesKept, AtWork

LEMMA FileInvNext == FileInv /\ [FileNext]_fileVars => FileInv'
BY FileInvLoad, FileInvAbandon, FileInvEmpty, FileInvPut, FileInvAmend, FileInvSame DEF FileNext

(* What requests asked the configuration to be is in config.json, except   *)
(* in fields saved by a handler that had loaded the file before another    *)
(* one's save, or in between its two halves (server.go:688, 1027, 2376).   *)
THEOREM FileUpdatesKept == FileSpec => []UpdatesKept
<1>1. (\E contents \in [Fields -> Values] : FileInit(contents)) => FileInv
  BY FileInvInit
<1>2. FileInv => UpdatesKept
  BY DEF FileInv
<1>3. QED
  BY <1>1, FileInvNext, <1>2, PTL DEF FileSpec

-----------------------------------------------------------------------------
(* Files keep their text, for any projects, paths, files on disk and       *)
(* requests in flight (Files).                                             *)

ViewType == [path : Paths, text : Origins, renders : BOOLEAN, stray : BOOLEAN]
ReadType == [path : Paths, served : BOOLEAN, text : Origins, renders : BOOLEAN, stray : BOOLEAN]
WriteType == [path : Paths, text : Origins, stray : BOOLEAN, served : BOOLEAN]

(* A text that is not stray is that of the file it is shown, edited, or    *)
(* about to be written for, in the project the server is at.               *)
TrueView(v) == ~v.stray => v.text = File(v.path)
TrueRead(r) == r.served /\ ~r.stray => r.text = File(r.path)
TrueWrite(w) == ~w.stray => w.text = File(w.path)

NotStray ==
    /\ \A u, v \in viewing : u = v
    /\ \A v \in viewing : TrueView(v)
    /\ editMode /\ ~editStray => \A v \in viewing : editText = File(v.path)
    /\ \A r \in reads : TrueRead(r)
    /\ \A w \in writes : TrueWrite(w)

FilesInv == FilesTypeOK /\ NotStray /\ FilesKeepTheirText

LEMMA FileType == ASSUME workDir \in Projects, NEW path \in Paths PROVE File(path) \in AllFiles
BY DEF File, AllFiles

LEMMA FilesInvInit == FilesInit => FilesInv
<1> SUFFICES ASSUME FilesInit PROVE FilesInv
  OBVIOUS
<1>1. FilesTypeOK
  BY FilesAssumption DEF FilesInit, FilesTypeOK, Origins
<1>2. NotStray
  BY DEF FilesInit, NotStray
<1>3. FilesKeepTheirText
  BY DEF FilesInit, FilesKeepTheirText
<1>4. QED
  BY <1>1, <1>2, <1>3 DEF FilesInv

-----------------------------------------------------------------------------
(* Opening: a read takes its text from the file of the project that is     *)
(* current when it is handled, and is shown under the path it asked for.   *)

LEMMA OpenFileKeeps == ASSUME FilesInv, NEW path \in Paths, OpenFile(path) PROVE FilesInv'
<1> DEFINE r == [path |-> path, served |-> FALSE, text |-> Elsewhere, renders |-> TRUE, stray |-> FALSE]
<1>1. r \in ReadType /\ TrueRead(r)'
  BY DEF ReadType, Origins, TrueRead
<1>2. reads' = reads \union {r}
  BY DEF OpenFile
<1>3. FilesTypeOK'
  BY <1>1, <1>2 DEF OpenFile, FilesInv, FilesTypeOK, fileServerVars, viewVars, ReadType
<1>4. NotStray'
  BY <1>1, <1>2 DEF OpenFile, FilesInv, NotStray, viewVars, TrueView, TrueRead, TrueWrite, File
<1>5. FilesKeepTheirText'
  BY DEF OpenFile, FilesInv, FilesKeepTheirText, fileServerVars
<1>6. QED
  BY <1>3, <1>4, <1>5 DEF FilesInv

LEMMA ServeReadKeeps == ASSUME FilesInv, NEW r \in reads, ServeRead(r) PROVE FilesInv'
<1> DEFINE f == File(r.path)
           answer == [r EXCEPT !.served = TRUE,
                               !.text = IF kind[f] \in {"text", "large"} THEN disk[f] ELSE Elsewhere,
                               !.renders = kind[f] \notin {"empty", "missing"},
                               !.stray = kind[f] # "text" \/ f \in hurt]
<1>1. r \in ReadType /\ f \in AllFiles /\ disk[f] \in Origins /\ Elsewhere \in Origins
  BY FileType DEF FilesInv, FilesTypeOK, ReadType, Origins
<1>2. answer \in ReadType
  BY <1>1 DEF ReadType
<1>3. ~answer.stray => answer.text = disk[f] /\ f \notin hurt
  BY <1>1 DEF ReadType
<1>4. answer.path = r.path
  BY <1>1 DEF ReadType
<1>5. TrueRead(answer)
  BY <1>1, <1>3, <1>4 DEF TrueRead, FilesInv, FilesKeepTheirText
<1>6. reads' = (reads \ {r}) \union {answer}
  BY DEF ServeRead
<1>7. FilesTypeOK'
  BY <1>2, <1>6 DEF ServeRead, FilesInv, FilesTypeOK, fileServerVars, viewVars, ReadType
<1>8. NotStray'
  BY <1>5, <1>6 DEF ServeRead, FilesInv, NotStray, viewVars, TrueView, TrueRead, TrueWrite, File
<1>9. FilesKeepTheirText'
  BY DEF ServeRead, FilesInv, FilesKeepTheirText, fileServerVars
<1>10. QED
  BY <1>7, <1>8, <1>9 DEF FilesInv

LEMMA FileShownKeeps == ASSUME FilesInv, NEW r \in reads, FileShown(r) PROVE FilesInv'
<1>1. r \in ReadType /\ r.served /\ TrueRead(r)
  BY DEF FileShown, FilesInv, FilesTypeOK, ReadType, NotStray
<1>2. Shown(r) \in ViewType /\ TrueView(Shown(r))
  BY <1>1 DEF Shown, ViewType, ReadType, TrueView, TrueRead
<1>3. FilesTypeOK'
  BY <1>2 DEF FileShown, FilesInv, FilesTypeOK, fileServerVars, ViewType
<1>4. NotStray'
  BY <1>2 DEF FileShown, FilesInv, FilesTypeOK, NotStray, TrueView, TrueRead, TrueWrite, File
<1>5. FilesKeepTheirText'
  BY DEF FileShown, FilesInv, FilesKeepTheirText, fileServerVars
<1>6. QED
  BY <1>3, <1>4, <1>5 DEF FilesInv

LEMMA OpenFailsKeeps == ASSUME FilesInv, NEW r \in reads, OpenFails(r) PROVE FilesInv'
<1> DEFINE v == [path |-> r.path, text |-> Elsewhere, renders |-> TRUE, stray |-> TRUE]
<1>1. v \in ViewType /\ TrueView(v)
  BY DEF FilesInv, FilesTypeOK, ViewType, Origins, TrueView
<1>2. viewing' = {v}
  BY DEF OpenFails
<1>3. FilesTypeOK'
  BY <1>1, <1>2 DEF OpenFails, FilesInv, FilesTypeOK, fileServerVars, ViewType
<1>4. NotStray'
  BY <1>1, <1>2 DEF OpenFails, FilesInv, FilesTypeOK, NotStray, TrueView, TrueRead, TrueWrite, File
<1>5. FilesKeepTheirText'
  BY DEF OpenFails, FilesInv, FilesKeepTheirText, fileServerVars
<1>6. QED
  BY <1>3, <1>4, <1>5 DEF FilesInv

-----------------------------------------------------------------------------
(* Editing: what is edited is what is shown, and stays so until another    *)
(* file is opened or the project switched.                                 *)

LEMMA EditKeeps == ASSUME FilesInv, NEW v \in viewing, Edit(v) PROVE FilesInv'
<1>1. v \in ViewType /\ TrueView(v) /\ \A u \in viewing : u = v
  BY DEF FilesInv, FilesTypeOK, ViewType, NotStray
<1>2. FilesTypeOK'
  BY <1>1 DEF Edit, FilesInv, FilesTypeOK, fileServerVars, ViewType
<1>3. NotStray'
  BY <1>1 DEF Edit, FilesInv, NotStray, TrueView, TrueRead, TrueWrite, File
<1>4. FilesKeepTheirText'
  BY DEF Edit, FilesInv, FilesKeepTheirText, fileServerVars
<1>5. QED
  BY <1>2, <1>3, <1>4 DEF FilesInv

LEMMA CancelKeeps == ASSUME FilesInv, Cancel PROVE FilesInv'
<1>1. FilesTypeOK'
  BY DEF Cancel, FilesInv, FilesTypeOK, fileServerVars, Origins
<1>2. NotStray'
  BY DEF Cancel, FilesInv, NotStray, TrueView, TrueRead, TrueWrite, File
<1>3. FilesKeepTheirText'
  BY DEF Cancel, FilesInv, FilesKeepTheirText, fileServerVars
<1>4. QED
  BY <1>1, <1>2, <1>3 DEF FilesInv

LEMMA CloseKeeps == ASSUME FilesInv, Close PROVE FilesInv'
<1>1. FilesTypeOK'
  BY DEF Close, FilesInv, FilesTypeOK, fileServerVars
<1>2. NotStray'
  BY DEF Close, FilesInv, NotStray, TrueView, TrueRead, TrueWrite, File
<1>3. FilesKeepTheirText'
  BY DEF Close, FilesInv, FilesKeepTheirText, fileServerVars
<1>4. QED
  BY <1>1, <1>2, <1>3 DEF FilesInv

LEMMA SaveFileKeeps == ASSUME FilesInv, NEW v \in viewing, SaveFile(v) PROVE FilesInv'
<1> DEFINE w == [path |-> v.path, text |-> editText, stray |-> editStray, served |-> FALSE]
<1>1. w \in WriteType
  BY DEF FilesInv, FilesTypeOK, WriteType
<1>2. TrueWrite(w)
  BY DEF SaveFile, FilesInv, NotStray, TrueWrite
<1>3. writes' = writes \union {w}
  BY DEF SaveFile
<1>4. FilesTypeOK'
  BY <1>1, <1>3 DEF SaveFile, FilesInv, FilesTypeOK, fileServerVars, viewVars, WriteType
<1>5. NotStray'
  BY <1>2, <1>3 DEF SaveFile, FilesInv, NotStray, viewVars, TrueView, TrueRead, TrueWrite, File
<1>6. FilesKeepTheirText'
  BY DEF SaveFile, FilesInv, FilesKeepTheirText, fileServerVars
<1>7. QED
  BY <1>4, <1>5, <1>6 DEF FilesInv

-----------------------------------------------------------------------------
(* Writing. *)

(* A write that is handled, well or not, stays what it was.                *)
LEMMA ServedWrite ==
    ASSUME FilesInv, NEW w \in writes
    PROVE  /\ [w EXCEPT !.served = TRUE] \in WriteType
           /\ TrueWrite([w EXCEPT !.served = TRUE])
<1>1. w \in WriteType /\ TrueWrite(w)
  BY DEF FilesInv, FilesTypeOK, WriteType, NotStray
<1>2. QED
  BY <1>1 DEF WriteType, TrueWrite

LEMMA ServeWriteKeeps == ASSUME FilesInv, NEW w \in writes, ServeWrite(w) PROVE FilesInv'
<1> DEFINE f == File(w.path)
           done == [w EXCEPT !.served = TRUE]
<1>1. w \in WriteType /\ f \in AllFiles /\ w.text \in Origins
  BY FileType DEF FilesInv, FilesTypeOK, WriteType
<1>2. writes' = (writes \ {w}) \union {done} /\ disk' = [disk EXCEPT ![f] = w.text]
      /\ kind' = [kind EXCEPT ![f] = "text"]
      /\ hurt' = IF w.stray THEN hurt \union {f} ELSE hurt \ {f}
  BY DEF ServeWrite
<1>3. done \in WriteType /\ TrueWrite(done)
  BY ServedWrite
<1>4. FilesTypeOK'
  <2>1. disk' \in [AllFiles -> Origins] /\ kind' \in [AllFiles -> Kinds] /\ hurt' \subseteq AllFiles
    BY <1>1, <1>2 DEF FilesInv, FilesTypeOK, Kinds
  <2>2. writes' \subseteq WriteType
    BY <1>2, <1>3 DEF FilesInv, FilesTypeOK, WriteType
  <2>3. QED
    BY <2>1, <2>2 DEF ServeWrite, FilesInv, FilesTypeOK, viewVars, WriteType
<1>5. NotStray'
  BY <1>2, <1>3 DEF ServeWrite, FilesInv, NotStray, viewVars, TrueView, TrueRead, TrueWrite, File
<1>6. FilesKeepTheirText'
  <2>1. SUFFICES ASSUME NEW g \in AllFiles, g \notin hurt' PROVE disk'[g] = g
    BY DEF FilesKeepTheirText
  <2>2. CASE g = f
    BY <1>1, <1>2, <2>1, <2>2 DEF FilesInv, FilesTypeOK, NotStray, TrueWrite
  <2>3. CASE g # f
    BY <1>1, <1>2, <2>1, <2>3 DEF FilesInv, FilesTypeOK, FilesKeepTheirText
  <2>4. QED
    BY <2>2, <2>3
<1>7. QED
  BY <1>4, <1>5, <1>6 DEF FilesInv

LEMMA WriteRefusedKeeps == ASSUME FilesInv, NEW w \in writes, WriteRefused(w) PROVE FilesInv'
<1> DEFINE done == [w EXCEPT !.served = TRUE]
<1>1. done \in WriteType /\ TrueWrite(done)
  BY ServedWrite
<1>2. writes' = (writes \ {w}) \union {done}
  BY DEF WriteRefused
<1>3. FilesTypeOK'
  BY <1>1, <1>2 DEF WriteRefused, FilesInv, FilesTypeOK, fileServerVars, viewVars, WriteType
<1>4. NotStray'
  BY <1>1, <1>2 DEF WriteRefused, FilesInv, NotStray, viewVars, TrueView, TrueRead, TrueWrite, File
<1>5. FilesKeepTheirText'
  BY DEF WriteRefused, FilesInv, FilesKeepTheirText, fileServerVars
<1>6. QED
  BY <1>3, <1>4, <1>5 DEF FilesInv

LEMMA WriteAnsweredKeeps == ASSUME FilesInv, NEW w \in writes, WriteAnswered(w) PROVE FilesInv'
<1> DEFINE v == [path |-> w.path, text |-> w.text, renders |-> TRUE, stray |-> w.stray]
<1>1. v \in ViewType /\ TrueView(v)
  BY DEF FilesInv, FilesTypeOK, NotStray, ViewType, TrueView, TrueWrite
<1>2. viewing' = {v} /\ editMode' = FALSE
  BY DEF WriteAnswered
<1>3. FilesTypeOK'
  BY <1>1, <1>2 DEF WriteAnswered, FilesInv, FilesTypeOK, fileServerVars, ViewType
<1>4. NotStray'
  BY <1>1, <1>2 DEF WriteAnswered, FilesInv, NotStray, TrueView, TrueRead, TrueWrite, File
<1>5. FilesKeepTheirText'
  BY DEF WriteAnswered, FilesInv, FilesKeepTheirText, fileServerVars
<1>6. QED
  BY <1>3, <1>4, <1>5 DEF FilesInv

LEMMA WriteFailsKeeps == ASSUME FilesInv, NEW w \in writes, WriteFails(w) PROVE FilesInv'
<1>1. FilesTypeOK'
  BY DEF WriteFails, FilesInv, FilesTypeOK, fileServerVars, viewVars
<1>2. NotStray'
  BY DEF WriteFails, FilesInv, NotStray, viewVars, TrueView, TrueRead, TrueWrite, File
<1>3. FilesKeepTheirText'
  BY DEF WriteFails, FilesInv, FilesKeepTheirText, fileServerVars
<1>4. QED
  BY <1>1, <1>2, <1>3 DEF FilesInv

-----------------------------------------------------------------------------
(* The project is switched: every text that was read before is stray.      *)

LEMMA MoveToKeeps == ASSUME FilesInv, NEW dir \in Projects, MoveTo(dir) PROVE FilesInv'
<1>1. viewing' = {[v EXCEPT !.stray = TRUE] : v \in viewing} /\ editStray' = editMode
      /\ reads' = {[r EXCEPT !.stray = @ \/ r.served] : r \in reads}
      /\ writes' = {[w EXCEPT !.stray = TRUE] : w \in writes}
      /\ editMode' = editMode /\ editText' = editText /\ workDir' = dir
  BY DEF MoveTo
<1>2. viewing \subseteq ViewType /\ reads \subseteq ReadType /\ writes \subseteq WriteType
  BY DEF FilesInv, FilesTypeOK, ViewType, ReadType, WriteType
<1>3. \A v \in viewing' : v \in ViewType /\ v.stray
  BY <1>1, <1>2 DEF ViewType
<1>4. \A w \in writes' : w \in WriteType /\ w.stray
  BY <1>1, <1>2 DEF WriteType
<1>5. \A r \in reads' : r \in ReadType /\ (r.served => r.stray)
  BY <1>1, <1>2 DEF ReadType
<1>6. FilesTypeOK'
  BY <1>1, <1>3, <1>4, <1>5 DEF MoveTo, FilesInv, FilesTypeOK, fileServerVars, ViewType, ReadType, WriteType
<1>7. \A u, v \in viewing' : u = v
  BY <1>1 DEF FilesInv, NotStray
<1>8. NotStray'
  BY <1>1, <1>3, <1>4, <1>5, <1>7 DEF NotStray, TrueView, TrueRead, TrueWrite
<1>9. FilesKeepTheirText'
  BY DEF MoveTo, FilesInv, FilesKeepTheirText, fileServerVars
<1>10. QED
  BY <1>6, <1>8, <1>9 DEF FilesInv

-----------------------------------------------------------------------------
LEMMA FilesInvNext == FilesInv /\ [FilesNext]_filesVars => FilesInv'
<1>1. ASSUME FilesInv, UNCHANGED filesVars PROVE FilesInv'
  BY <1>1 DEF filesVars, fileServerVars, viewVars, FilesInv, FilesTypeOK, NotStray, FilesKeepTheirText,
              TrueView, TrueRead, TrueWrite, File
<1>2. QED
  BY <1>1, OpenFileKeeps, ServeReadKeeps, FileShownKeeps, OpenFailsKeeps, EditKeeps, CancelKeeps,
     CloseKeeps, SaveFileKeeps, ServeWriteKeeps, WriteRefusedKeeps, WriteAnsweredKeeps,
     WriteFailsKeeps, MoveToKeeps DEF FilesNext

(* The variables of the files pages and handlers keep their types.         *)
THEOREM FilesTypeCorrect == FilesSpec => []FilesTypeOK
<1>1. FilesInv => FilesTypeOK
  BY DEF FilesInv
<1>2. QED
  BY FilesInvInit, FilesInvNext, <1>1, PTL DEF FilesSpec

(* A file holds a text that came from it, unless what was saved was not    *)
(* shown whole, another file was opened while it was edited, or the        *)
(* project was switched between reading and writing (App.tsx:122-137).     *)
THEOREM FilesTextKept == FilesSpec => []FilesKeepTheirText
<1>1. FilesInv => FilesKeepTheirText
  BY DEF FilesInv
<1>2. QED
  BY FilesInvInit, FilesInvNext, <1>1, PTL DEF FilesSpec
-----------------------------------------------------------------------------
(* Least numbers. *)

LEMMA LeastNumber ==
    ASSUME NEW S \in SUBSET Nat, S # {}
    PROVE  Min(S) \in S /\ \A y \in S : Min(S) <= y
<1> DEFINE Less == {p \in Nat \X Nat : p[1] < p[2]}
<1>1. IsWellFoundedOn(Less, Nat)
  BY NatLessThanWellFounded, Zenon DEF OpToRel
<1>2. PICK x \in S : \A y \in S : ~(<<y, x>> \in Less)
  BY <1>1, WFMin
<1>3. ASSUME NEW y \in S PROVE x <= y
  <2>1. x \in Nat /\ y \in Nat
    OBVIOUS
  <2>2. y < x => <<y, x>> \in Less
    BY <2>1
  <2>3. QED
    BY <1>2, <2>1, <2>2
<1>4. \E m \in S : \A y \in S : m <= y
  BY <1>3
<1>5. QED
  BY <1>4, Zenon DEF Min

LEMMA LeastOfTwo ==
    ASSUME NEW a \in Nat, NEW b \in Nat
    PROVE  Min({a, b}) = IF a <= b THEN a ELSE b
<1>1. Min({a, b}) \in {a, b} /\ Min({a, b}) <= a /\ Min({a, b}) <= b
  BY LeastNumber
<1>2. QED
  BY <1>1

-----------------------------------------------------------------------------
(* The activity page (Costs). *)

CostsInv ==
    /\ CostsTypeOK
    /\ compared \in Nat /\ LastCompared

LEMMA NoneIs == MaxUsage \in Nat /\ None \in Nat /\ MaxUsage < None
BY CostsAssumption DEF None

LEMMA CostsInvInit == CostsInit => CostsInv
<1> SUFFICES ASSUME CostsInit PROVE CostsInv
  OBVIOUS
<1>1. usage = 0 /\ figures = NoFigures /\ comparing = FALSE /\ compared = 0 /\ results = <<>>
      /\ DOMAIN loads = {}
  BY DEF CostsInit
<1>2. NoFigures \in [Figures -> 0..None]
  BY NoneIs DEF NoFigures
<1>3. CostsTypeOK
  <2>1. usage \in 0..MaxUsage
    BY <1>1, NoneIs
  <2>2. figures \in [Figures -> 0..None]
    BY <1>1, <1>2
  <2>3. QED
    BY <1>1, <2>1, <2>2 DEF CostsTypeOK
<1>4. Min({MaxResults, 0}) = 0
  BY LeastOfTwo, CostsAssumption
<1>5. [n \in 1..0 |-> 0 + 1 - n] = <<>>
  OBVIOUS
<1>6. LastCompared
  BY <1>1, <1>4, <1>5 DEF LastCompared
<1>7. QED
  BY <1>1, <1>3, <1>6 DEF CostsInv

(* The newest comparison comes first, and the oldest goes when there is no *)
(* room for it.                                                            *)
LEMMA NewestFirst ==
    ASSUME NEW c \in Nat, NEW M \in Nat \ {0}, NEW old,
           old = [n \in 1..Min({M, c}) |-> c + 1 - n]
    PROVE  SubSeq(<<c + 1>> \o old, 1, Min({M, Len(old) + 1})) = [n \in 1..Min({M, c + 1}) |-> c + 1 + 1 - n]
<1>1. PICK m \in Nat : m = Min({M, c}) /\ m = IF M <= c THEN M ELSE c
  BY LeastOfTwo
<1>2. PICK k \in Nat : k = Min({M, c + 1}) /\ k = IF M <= c + 1 THEN M ELSE c + 1
  BY LeastOfTwo
<1>3. old \in Seq(Int) /\ Len(old) = m /\ \A n \in 1..m : old[n] = c + 1 - n
  <2>1. old \in [1..m -> Int]
    BY <1>1
  <2>2. old \in Seq(Int)
    BY <2>1, SeqDef
  <2>3. QED
    BY <1>1, <2>1, <2>2, LenProperties
<1>4. Min({M, Len(old) + 1}) = k
  <2>1. Min({M, m + 1}) = IF M <= m + 1 THEN M ELSE m + 1
    BY LeastOfTwo
  <2>2. QED
    BY <1>1, <1>2, <1>3, <2>1
<1>5. PICK longer \in Seq(Int) :
          /\ longer = <<c + 1>> \o old
          /\ \A n \in 1..(m + 1) : longer[n] = IF n <= 1 THEN c + 1 ELSE old[n - 1]
  <2>0. <<c + 1>> \in Seq(Int) /\ Len(<<c + 1>>) = 1 /\ <<c + 1>>[1] = c + 1
    OBVIOUS
  <2>1. PICK one \in Seq(Int) : one = <<c + 1>> /\ Len(one) = 1 /\ one[1] = c + 1
    BY <2>0
  <2>2. one \o old \in Seq(Int)
        /\ \A n \in 1..(Len(one) + Len(old)) : (one \o old)[n] = IF n <= Len(one) THEN one[n] ELSE old[n - Len(one)]
    BY <1>3, ConcatProperties
  <2>3. \A n \in 1..(m + 1) : (one \o old)[n] = IF n <= 1 THEN c + 1 ELSE old[n - 1]
    <3>1. Len(one) + Len(old) = m + 1
      <4>1. Len(one) = 1
        BY <2>1
      <4>2. Len(old) = m
        BY <1>3
      <4>3. 1 + m = m + 1
        OBVIOUS
      <4>4. QED
        BY <4>1, <4>2, <4>3
    <3>2. \A n \in 1..(m + 1) : n <= 1 => n = 1
      OBVIOUS
    <3>3. QED
      BY <2>1, <2>2, <3>1, <3>2
  <2>4. QED
    BY <2>1, <2>2, <2>3
<1>6. k \in 1..(m + 1)
  BY <1>1, <1>2
<1>7. ASSUME NEW n \in 1..k PROVE longer[n] = c + 1 + 1 - n
  <2>1. CASE n = 1
    BY <2>1, <1>5, <1>6
  <2>2. CASE n # 1
    <3>0. n \in Nat
      BY <1>2
    <3>1. n \in 1..(m + 1) /\ ~(n <= 1) /\ n - 1 \in 1..m
      BY <2>2, <1>6
    <3>2. longer[n] = old[n - 1]
      BY <3>1, <1>5
    <3>3. old[n - 1] = c + 1 - (n - 1)
      BY <3>1, <1>3
    <3>4. QED
      BY <3>0, <3>2, <3>3
  <2>3. QED
    BY <2>1, <2>2
<1> DEFINE new == [n \in 1..k |-> c + 1 + 1 - n]
<1>8. SubSeq(longer, 1, k) \in Seq(Int) /\ Len(SubSeq(longer, 1, k)) = k
      /\ \A n \in 1..k : SubSeq(longer, 1, k)[n] = longer[n]
  <2>1. \A n \in 1..k : longer[n] \in Int
    <3>1. \A n \in 1..k : c + 1 + 1 - n \in Int
      OBVIOUS
    <3>2. QED
      BY <1>7, <3>1
  <2>2. QED
    BY <2>1, <1>6, SubSeqProperties
<1>9. new \in Seq(Int) /\ Len(new) = k
  <2>1. new \in [1..k -> Int]
    OBVIOUS
  <2>2. new \in Seq(Int)
    BY <2>1, SeqDef
  <2>3. QED
    BY <2>1, <2>2, LenProperties
<1>10. SubSeq(longer, 1, k) = new
  BY <1>7, <1>8, <1>9, SeqEqual
<1>11. QED
  BY <1>2, <1>4, <1>5, <1>10

(* The loads, and the figures shown, are bounded by what is counted.       *)
LEMMA LoadKeepsType ==
    ASSUME CostsTypeOK, NEW i, NEW f \in Figures, NEW value \in 0..None, i \in DOMAIN loads, FigureIs(i, f, value)
    PROVE  CostsTypeOK'
<1>1. loads' = [loads EXCEPT ![i] = [g \in DOMAIN @ \union {f} |-> IF g = f THEN value ELSE @[g]]]
      /\ usage' = usage /\ figures' = figures /\ comparing' = comparing
  BY DEF FigureIs, compareVars
<1>2. DOMAIN loads' = DOMAIN loads
  BY <1>1
<1>3. ASSUME NEW j \in DOMAIN loads
      PROVE  DOMAIN loads'[j] \subseteq Figures /\ loads'[j] \in [DOMAIN loads'[j] -> 0..None]
  BY <1>1 DEF CostsTypeOK
<1>4. QED
  BY <1>1, <1>2, <1>3 DEF CostsTypeOK

CostsStep ==
    \/ OpenCosts \/ CloseCosts \/ Use \/ LoadFigures
    \/ \E i \in DOMAIN loads : FiguresShown(i) \/ \E f \in Figures : FigureServed(i, f) \/ FigureFails(i, f)
    \/ Compare \/ CompareAnswered \/ CompareFails

LEMMA CostsInvNext == CostsInv /\ [CostsStep]_costsVars => CostsInv'
<1> SUFFICES ASSUME CostsInv, [CostsStep]_costsVars PROVE CostsInv'
  OBVIOUS
<1> USE DEF compareVars
<1>1. CASE OpenCosts
  <2>1. usage' = usage /\ figures' = NoFigures /\ comparing' = FALSE /\ compared' = 0 /\ results' = <<>>
        /\ loads' = [i \in {1} |-> [f \in {} |-> None]]
    BY <1>1 DEF OpenCosts
  <2>2. NoFigures \in [Figures -> 0..None]
    BY NoneIs DEF NoFigures
  <2>3. Min({MaxResults, 0}) = 0
    BY LeastOfTwo, CostsAssumption
  <2>4. [n \in 1..0 |-> 0 + 1 - n] = <<>>
    OBVIOUS
  <2>5. LastCompared'
    BY <2>1, <2>3, <2>4 DEF LastCompared
  <2>6. CostsTypeOK'
    <3>1. DOMAIN loads' = {1} /\ DOMAIN loads'[1] = {} /\ 1 \in 1..MaxLoads
      BY <2>1, CostsAssumption
    <3>2. QED
      BY <2>1, <2>2, <3>1 DEF CostsInv, CostsTypeOK
  <2>7. QED
    BY <2>1, <2>5, <2>6 DEF CostsInv
<1>2. CASE CloseCosts
  BY <1>2 DEF CloseCosts, CostsInv, CostsTypeOK, LastCompared
<1>3. CASE Use
  BY <1>3, NoneIs DEF Use, CostsInv, CostsTypeOK, LastCompared
<1>4. CASE LoadFigures
  <2> DEFINE free == (1..MaxLoads) \ DOMAIN loads
  <2>1. PICK n \in free : loads' = [i \in DOMAIN loads \union {n} |-> IF i = n THEN [f \in {} |-> None] ELSE loads[i]]
    BY <1>4, LeastNumber DEF LoadFigures
  <2>2. CostsTypeOK'
    <3>1. DOMAIN loads' \subseteq 1..MaxLoads /\ DOMAIN loads'[n] = {}
          /\ \A i \in DOMAIN loads : i # n => loads'[i] = loads[i]
      BY <2>1 DEF CostsInv, CostsTypeOK
    <3>2. QED
      BY <1>4, <2>1, <3>1 DEF LoadFigures, CostsInv, CostsTypeOK
  <2>3. QED
    BY <1>4, <2>2 DEF LoadFigures, CostsInv, LastCompared
<1>5. ASSUME NEW i \in DOMAIN loads, FiguresShown(i) PROVE CostsInv'
  <2>1. loads[i] \in [Figures -> 0..None] /\ figures' = loads[i]
    BY <1>5 DEF FiguresShown, CostsInv, CostsTypeOK
  <2>2. DOMAIN loads' \subseteq DOMAIN loads /\ \A j \in DOMAIN loads' : loads'[j] = loads[j]
    BY <1>5 DEF FiguresShown, Without
  <2>3. CostsTypeOK'
    BY <1>5, <2>1, <2>2 DEF FiguresShown, CostsInv, CostsTypeOK
  <2>4. QED
    BY <1>5, <2>3 DEF FiguresShown, CostsInv, LastCompared
<1>6. ASSUME NEW i \in DOMAIN loads, NEW f \in Figures, NEW value \in 0..None, FigureIs(i, f, value) PROVE CostsInv'
  <2>1. CostsTypeOK'
    BY <1>6, LoadKeepsType DEF CostsInv
  <2>2. QED
    BY <1>6, <2>1 DEF FigureIs, CostsInv, LastCompared
<1>7. ASSUME NEW i \in DOMAIN loads, NEW f \in Figures, FigureServed(i, f) PROVE CostsInv'
  <2>1. usage \in 0..None
    BY NoneIs DEF CostsInv, CostsTypeOK
  <2>2. QED
    BY <1>6, <1>7, <2>1 DEF FigureServed
<1>8. ASSUME NEW i \in DOMAIN loads, NEW f \in Figures, FigureFails(i, f) PROVE CostsInv'
  <2>1. CASE FigureIs(i, f, None)
    <3>1. None \in 0..None
      BY NoneIs
    <3>2. QED
      BY <1>6, <2>1, <3>1
  <2>2. CASE loads' = Without(i) /\ UNCHANGED <<usage, figures, compareVars>>
    BY <2>2 DEF Without, CostsInv, CostsTypeOK, LastCompared
  <2>3. QED
    BY <1>8, <2>1, <2>2 DEF FigureFails
<1>9. CASE Compare
  BY <1>9 DEF Compare, CostsInv, CostsTypeOK, LastCompared
<1>10. CASE CompareAnswered
  <2>1. compared \in Nat /\ MaxResults \in Nat \ {0}
    BY CostsAssumption DEF CostsInv
  <2>2. results' = [n \in 1..Min({MaxResults, compared + 1}) |-> compared + 1 + 1 - n]
    BY <1>10, <2>1, NewestFirst DEF CompareAnswered, CostsInv, LastCompared
  <2>3. compared' = compared + 1 /\ compared' \in Nat
    BY <1>10, <2>1 DEF CompareAnswered
  <2>0. LastCompared'
    BY <2>2, <2>3 DEF LastCompared
  <2>4. CostsTypeOK'
    BY <1>10 DEF CompareAnswered, CostsInv, CostsTypeOK
  <2>5. QED
    BY <2>0, <2>3, <2>4 DEF CostsInv
<1>11. CASE CompareFails
  BY <1>11 DEF CompareFails, CostsInv, CostsTypeOK, LastCompared
<1>12. CASE UNCHANGED costsVars
  BY <1>12 DEF costsVars, CostsInv, CostsTypeOK, LastCompared
<1>13. QED
  BY <1>1, <1>2, <1>3, <1>4, <1>5, <1>7, <1>8, <1>9, <1>10, <1>11, <1>12 DEF CostsStep
-----------------------------------------------------------------------------
(* Requests in flight (Calls). *)

AddsCall(before, after, k, call) ==
    /\ k \in Slots \ DOMAIN before
    /\ after = [j \in DOMAIN before \union {k} |-> IF j = k THEN call ELSE before[j]]

(* A request that is asked takes a number that no other has.               *)
LEMMA AskTakesFree ==
    ASSUME NEW cs, NEW call, Slots \ DOMAIN cs # {}
    PROVE  \E k \in Slots : AddsCall(cs, Ask(cs, call), k, call)
<1> DEFINE k == Min(Slots \ DOMAIN cs)
<1>1. k \in Slots \ DOMAIN cs
  BY LeastNumber, CallsAssumption DEF Slots
<1>2. Ask(cs, call) = [j \in DOMAIN cs \union {k} |-> IF j = k THEN call ELSE cs[j]]
  BY DEF Ask
<1>3. QED
  BY <1>1, <1>2 DEF AddsCall

(* Where there is room for n + 1 there is a number, and room for n beside. *)
LEMMA RoomForOne ==
    ASSUME NEW cs, DOMAIN cs \subseteq Slots, NEW n \in Nat, Room(cs, n + 1)
    PROVE  /\ Slots \ DOMAIN cs # {}
           /\ \A k \in Slots : \A call : AddsCall(cs, Ask(cs, call), k, call) => Room(Ask(cs, call), n)
<1>1. IsFiniteSet(Slots) /\ Cardinality(Slots) = MaxCalls /\ MaxCalls \in Nat
  BY FS_Interval, CallsAssumption DEF Slots
<1>2. IsFiniteSet(DOMAIN cs) /\ Cardinality(DOMAIN cs) \in Nat
  BY <1>1, FS_Subset, FS_CardinalityType
<1>3. Cardinality(DOMAIN cs) + (n + 1) <= MaxCalls
  BY DEF Room, InFlight
<1>4. DOMAIN cs # Slots
  BY <1>1, <1>2, <1>3
<1>5. ASSUME NEW k \in Slots, NEW call, AddsCall(cs, Ask(cs, call), k, call) PROVE Room(Ask(cs, call), n)
  <2>1. DOMAIN Ask(cs, call) = DOMAIN cs \union {k} /\ k \notin DOMAIN cs
    BY <1>5 DEF AddsCall
  <2>2. Cardinality(DOMAIN Ask(cs, call)) = Cardinality(DOMAIN cs) + 1
    BY <1>2, <2>1, FS_AddElement
  <2>3. QED
    BY <1>2, <1>3, <2>2 DEF Room, InFlight
<1>6. QED
  BY <1>4, <1>5

LEMMA RoomForThis ==
    ASSUME NEW cs, DOMAIN cs \subseteq Slots, Room(cs, 1), NEW call
    PROVE  \E k \in Slots : AddsCall(cs, Ask(cs, call), k, call)
<1>1. Room(cs, 0 + 1)
  OBVIOUS
<1>2. QED
  BY <1>1, RoomForOne, AskTakesFree

(* What is answered leaves its number to what is asked next.               *)
LEMMA AskInTurn ==
    ASSUME NEW cs, NEW i \in Slots, NEW call
    PROVE  \E k \in Slots : AddsCall(Gone(cs, i), Ask(Gone(cs, i), call), k, call)
<1>1. i \in Slots \ DOMAIN Gone(cs, i)
  BY DEF Gone
<1>2. QED
  BY <1>1, AskTakesFree

-----------------------------------------------------------------------------
(* The provider and the model (Settings). *)

AskType ==
    [by : {"bar", "page"}, what : {"config", "set", "register"}, choice : Selections,
     lang : Langs \union {Unchosen}, next : {"", "pick", "quick", "apply"},
     step : {"asked", "begun", "saving", "served"}, live : BOOLEAN,
     got : Selections, gotLang : Langs \union {Unchosen}]

(* A setting names a provider with its model, or a language.               *)
Whole(c) ==
    \/ c.choice \in Offers /\ c.lang = Unchosen
    \/ c.choice = Offline /\ c.lang \in Langs /\ c.what = "set"

Agrees(contents) ==
    <<contents["provider"], contents["model"], contents["lang"]>> = <<{active[1]}, {active[2]}, {lang}>>

(* The server changes what is in use before it changes the defaults.       *)
Between(c) == c.what = "set" /\ c.step \in {"begun", "saving"}

AsksInv ==
    /\ SettingsTypeOK
    /\ InFlight(asks) \subseteq Slots
    /\ \A i \in InFlight(asks) : asks[i].what = "config" => asks[i].step \in {"asked", "served"}
    /\ \A i \in InFlight(asks) : asks[i].what = "register" => asks[i].by = "page"

DefaultsInv ==
    ~apart =>
        /\ \A i, j \in Setting : i = j
        /\ \A i \in Setting : Whole(asks[i])
        /\ \A i \in Setting : Between(asks[i]) => Agrees(Changed(latest, Asked(asks[i])))
        /\ (\A i \in Setting : ~Between(asks[i])) => Agrees(latest)

(* What the page has been told, or is about to be.                         *)
Coming(c) ==
    /\ c.live /\ shown # Offline
    /\ c.what = "register" => shown = active /\ shownLang = lang /\ c.choice \in Offers /\ c.next = "apply"
    /\ c.what = "set" =>
         \/ /\ c.choice \in Offers /\ c.lang = Unchosen /\ c.next \in {"quick", "apply"}
            /\ shownLang = lang
            /\ IF c.step = "asked" THEN shown = active ELSE active = c.choice
         \/ /\ c.choice = Offline /\ c.lang \in Langs /\ c.next = ""
            /\ shown = active /\ shownLang = c.lang
            /\ c.step # "asked" => lang = c.lang

PageInv ==
    page = "settings" /\ ~astray =>
        /\ \A i, j \in Setting : i = j
        /\ Setting # {} => Mounting = {}
        /\ \A i \in Setting : Coming(asks[i])
        /\ \A i \in Mounting : asks[i].live /\ asks[i].step = "served" =>
               asks[i].got = active /\ asks[i].gotLang = lang
        /\ Setting = {} /\ (\A i \in Mounting : ~asks[i].live) => shown = active /\ shownLang = lang

(* No answer is for a page that is not there.                              *)
Unheard == page # "settings" => \A i \in InFlight(asks) : asks[i].by = "page" => ~asks[i].live

SettingsInv == AsksInv /\ DefaultsInv /\ PageInv /\ Unheard

LEMMA AsksInvIs ==
    ASSUME SettingsTypeOK', DOMAIN asks' \subseteq Slots,
           \A j \in DOMAIN asks' : asks'[j].what = "config" => asks'[j].step \in {"asked", "served"},
           \A j \in DOMAIN asks' : asks'[j].what = "register" => asks'[j].by = "page"
    PROVE  AsksInv'
BY DEF AsksInv, InFlight

LEMMA AddsToSetting ==
    ASSUME NEW k, NEW c, AddsCall(asks, asks', k, c), c.what \in {"set", "register"}
    PROVE  Setting' = Setting \union {k} /\ Mounting' = Mounting
<1>1. DOMAIN asks' = DOMAIN asks \union {k} /\ asks'[k] = c /\ \A i \in DOMAIN asks : asks'[i] = asks[i]
  BY DEF AddsCall
<1>2. k \notin DOMAIN asks
  BY DEF AddsCall
<1>3. \A i \in DOMAIN asks' : i \in Setting' <=> i \in Setting \union {k}
  BY <1>1 DEF Setting, InFlight
<1>4. \A i \in DOMAIN asks' : i \in Mounting' <=> i \in Mounting
  BY <1>1, <1>2 DEF Mounting, InFlight
<1>5. QED
  BY <1>1, <1>3, <1>4 DEF Setting, Mounting, InFlight

LEMMA Offered ==
    ASSUME NEW o \in Offers
    PROVE  o = <<o[1], o[2]>> /\ o[1] # Unchosen /\ o[2] # Unchosen /\ o # Offline /\ o \in Selections
BY SettingsAssumption DEF Offers, Offline, Selections

LEMMA Selected == \A s \in Selections : s[2] # Unchosen => s \in Offers
BY DEF Selections, Offline

(* What a setting asks for is what becomes of those three fields; the      *)
(* others stay.                                                            *)
LEMMA AskedChoice ==
    ASSUME NEW c, c.choice \in Offers, c.lang = Unchosen, NEW contents
    PROVE  LET new == Changed(contents, Asked(c))
           IN  /\ new["provider"] = {c.choice[1]} /\ new["model"] = {c.choice[2]}
               /\ new["lang"] = contents["lang"]
<1>1. c.choice[1] # Unchosen /\ c.choice[2] # Unchosen
  BY Offered
<1>2. Asked(c) = [f \in {"provider", "model"} |-> {[provider |-> c.choice[1], model |-> c.choice[2], lang |-> c.lang][f]}]
  <2> DEFINE new == [provider |-> c.choice[1], model |-> c.choice[2], lang |-> c.lang]
  <2>1. {f \in DOMAIN new : new[f] # Unchosen} = {"provider", "model"}
    BY <1>1
  <2>2. QED
    BY <2>1 DEF Asked
<1>3. QED
  BY <1>2, SettingsAssumption DEF Changed

LEMMA AskedLanguage ==
    ASSUME NEW c, c.choice = Offline, c.lang \in Langs, NEW contents
    PROVE  LET new == Changed(contents, Asked(c))
           IN  /\ new["lang"] = {c.lang}
               /\ new["provider"] = contents["provider"] /\ new["model"] = contents["model"]
<1>1. c.lang # Unchosen
  BY SettingsAssumption
<1>2. Asked(c) = [f \in {"lang"} |-> {c.lang}]
  <2> DEFINE new == [provider |-> c.choice[1], model |-> c.choice[2], lang |-> c.lang]
  <2>1. {f \in DOMAIN new : new[f] # Unchosen} = {"lang"}
    BY <1>1 DEF Offline
  <2>2. QED
    BY <2>1 DEF Asked
<1>3. QED
  BY <1>2, SettingsAssumption DEF Changed

(* Which field a setting changes does not depend on how far it is.         *)
LEMMA AskedOf ==
    ASSUME NEW c, NEW d, c.choice = d.choice, c.lang = d.lang
    PROVE  Asked(c) = Asked(d)
BY DEF Asked

(* A step that changes nothing these three speak of.                       *)
DefaultsStay ==
    /\ latest'["provider"] = latest["provider"] /\ latest'["model"] = latest["model"]
    /\ latest'["lang"] = latest["lang"]

LEMMA QuietKeeps ==
    ASSUME SettingsInv, UNCHANGED <<active, lang, asks, status, shown, shownLang, astray, apart>>,
           DefaultsStay, page' = "settings" <=> page = "settings",
           sel' \in Selections, picking' \in BOOLEAN
    PROVE  SettingsInv'
<1>1. Setting' = Setting /\ Mounting' = Mounting
  BY DEF Setting, Mounting
<1>2. AsksInv'
  BY DEF SettingsInv, AsksInv, SettingsTypeOK, InFlight, Selections
<1>3. ASSUME NEW c PROVE Agrees(Changed(latest, Asked(c)))' <=> Agrees(Changed(latest, Asked(c)))
  BY SettingsAssumption DEF Agrees, Changed, DefaultsStay
<1>4. DefaultsInv'
  <2>1. Agrees(latest)' <=> Agrees(latest)
    BY DEF Agrees, DefaultsStay
  <2>2. ASSUME NEW i PROVE Agrees(Changed(latest, Asked(asks[i])))' <=> Agrees(Changed(latest, Asked(asks[i])))
    <3>1. asks'[i] = asks[i]
      OBVIOUS
    <3>2. QED
      BY <1>3, <3>1
  <2>3. QED
    BY <1>1, <2>1, <2>2 DEF SettingsInv, DefaultsInv
<1>5. PageInv'
  BY <1>1 DEF SettingsInv, PageInv, Coming
<1>6. Unheard'
  BY DEF SettingsInv, Unheard, InFlight
<1>7. QED
  BY <1>2, <1>4, <1>5, <1>6 DEF SettingsInv

(* A question of the bar takes the place of nothing, or of a setting of    *)
(* the bar's that has been answered.                                       *)
LEMMA BarAskKeeps ==
    ASSUME SettingsInv, NEW k \in Slots, NEW next \in {"", "pick"}, AddsCall(asks, asks', k, Get("bar", next)),
           UNCHANGED <<active, lang, pageVars, barVars, astray, apart>>, DefaultsStay, page' = page
    PROVE  SettingsInv'
<1> DEFINE c == Get("bar", next)
<1>1. c \in AskType /\ c.by = "bar" /\ c.what = "config" /\ c.step = "asked"
  BY DEF Get, Request, AskType, Selections
<1>2. DOMAIN asks' = DOMAIN asks \union {k} /\ k \notin DOMAIN asks /\ asks'[k] = c
      /\ \A i \in DOMAIN asks : asks'[i] = asks[i]
  BY DEF AddsCall
<1>3. Setting' = Setting /\ Mounting' = Mounting
  BY <1>1, <1>2 DEF Setting, Mounting, InFlight
<1>4. AsksInv'
  <2>1. asks' \in [DOMAIN asks' -> AskType]
    BY <1>1, <1>2 DEF SettingsInv, AsksInv, SettingsTypeOK, AskType, InFlight, AddsCall
  <2>2. SettingsTypeOK'
    BY <2>1 DEF SettingsInv, AsksInv, SettingsTypeOK, AskType, InFlight, pageVars, barVars
  <2>3. \A j \in DOMAIN asks' : asks'[j].what = "config" => asks'[j].step \in {"asked", "served"}
    BY <1>1, <1>2 DEF SettingsInv, AsksInv, InFlight
  <2>4. \A j \in DOMAIN asks' : asks'[j].what = "register" => asks'[j].by = "page"
    BY <1>1, <1>2 DEF SettingsInv, AsksInv, InFlight
  <2>5. DOMAIN asks' \subseteq Slots
    BY <1>2 DEF SettingsInv, AsksInv, InFlight
  <2>6. QED
    BY <2>2, <2>3, <2>4, <2>5, AsksInvIs
<1>5. DefaultsInv'
  <2>1. Agrees(latest)' <=> Agrees(latest)
    BY DEF Agrees, DefaultsStay
  <2>2. ASSUME NEW i \in Setting
        PROVE  /\ asks'[i] = asks[i]
               /\ Agrees(Changed(latest, Asked(asks[i])))' <=> Agrees(Changed(latest, Asked(asks[i])))
    <3>1. asks'[i] = asks[i]
      BY <1>2 DEF Setting, InFlight
    <3>2. QED
      BY <3>1, SettingsAssumption DEF Agrees, Changed, DefaultsStay
  <2>3. QED
    BY <1>3, <2>1, <2>2 DEF SettingsInv, DefaultsInv
<1>6. PageInv'
  <2>1. \A i \in Setting \union Mounting : asks'[i] = asks[i]
    BY <1>2 DEF Setting, Mounting, InFlight
  <2>2. ASSUME NEW i \in Setting PROVE Coming(asks[i])' <=> Coming(asks[i])
    BY <2>1 DEF Coming, pageVars
  <2>3. QED
    BY <1>3, <2>1, <2>2 DEF SettingsInv, PageInv, pageVars
<1>7. Unheard'
  BY <1>1, <1>2 DEF SettingsInv, Unheard, InFlight
<1>8. QED
  BY <1>4, <1>5, <1>6, <1>7 DEF SettingsInv

(* A setting, of the page or of the bar, is asked for: more than one at    *)
(* once is apart.                                                          *)
LEMMA SettingAskedDefaults ==
    ASSUME SettingsInv, NEW k \in Slots, NEW c, AddsCall(asks, asks', k, c),
           c.what \in {"set", "register"}, c.step = "asked",
           NEW unused \in BOOLEAN, ~unused => Whole(c), apart' = (apart \/ unused \/ Setting # {}),
           UNCHANGED <<active, lang>>, DefaultsStay
    PROVE  DefaultsInv'
<1> SUFFICES ASSUME ~apart' PROVE DefaultsInv'
  BY DEF DefaultsInv
<1>1. ~apart /\ ~unused /\ Setting = {}
  OBVIOUS
<1>2. DOMAIN asks' = DOMAIN asks \union {k} /\ asks'[k] = c /\ \A i \in DOMAIN asks : asks'[i] = asks[i]
  BY DEF AddsCall
<1>3. Setting' = {k}
  BY <1>1, <1>2 DEF Setting, InFlight
<1>4. ~Between(c) /\ Whole(c)
  BY <1>1 DEF Between
<1>5. Agrees(latest)
  BY <1>1 DEF SettingsInv, DefaultsInv
<1>6. Agrees(latest)'
  BY <1>5 DEF Agrees, DefaultsStay
<1>7. Whole(asks[k])' /\ ~Between(asks[k])'
  BY <1>2, <1>4 DEF Whole, Between
<1>8. QED
  BY <1>3, <1>6, <1>7 DEF DefaultsInv

LEMMA SettingAskedType ==
    ASSUME AsksInv, NEW k \in Slots, NEW c \in AskType, AddsCall(asks, asks', k, c), c.step = "asked",
           c.what = "register" => c.by = "page",
           UNCHANGED <<active, lang, status>>, picking' \in BOOLEAN,
           shown' \in Selections, sel' \in Selections, shownLang' \in Langs \union {Unchosen},
           astray' \in BOOLEAN, apart' \in BOOLEAN
    PROVE  AsksInv'
<1>1. DOMAIN asks' = DOMAIN asks \union {k} /\ asks'[k] = c /\ \A i \in DOMAIN asks : asks'[i] = asks[i]
  BY DEF AddsCall
<1>2. asks' \in [DOMAIN asks' -> AskType]
  BY <1>1 DEF AsksInv, SettingsTypeOK, AskType, InFlight, AddsCall
<1>3. SettingsTypeOK'
  BY <1>2 DEF AsksInv, SettingsTypeOK, AskType, InFlight
<1>4. QED
  BY <1>1, <1>3 DEF AsksInv, InFlight

LEMMA PickModelKeeps ==
    ASSUME SettingsInv, NEW choice \in Offers, PickModel(choice), DefaultsStay, page' = page
    PROVE  SettingsInv'
<1> DEFINE c == Set("bar", choice, Unchosen, "pick")
<1>1. c \in AskType /\ c.what = "set" /\ c.step = "asked" /\ Whole(c)
  BY Offered DEF Set, Request, AskType, Selections, Whole
<1>2. PICK k \in Slots : AddsCall(asks, asks', k, c)
  BY RoomForThis DEF PickModel, SettingsInv, AsksInv, InFlight
<1>3. DefaultsInv'
  <2>1. apart' = (apart \/ FALSE \/ Setting # {}) /\ UNCHANGED <<active, lang>>
    BY DEF PickModel
  <2>2. QED
    BY <1>1, <1>2, <2>1, SettingAskedDefaults
<1>4. AsksInv'
  BY <1>1, <1>2, SettingAskedType DEF PickModel, pageVars, barVars, SettingsInv, AsksInv, SettingsTypeOK
<1>5. PageInv'
  BY DEF PickModel, PageInv
<1>6. Unheard'
  BY <1>1, <1>2 DEF SettingsInv, Unheard, InFlight, AddsCall, Set, Request
<1>7. QED
  BY <1>3, <1>4, <1>5, <1>6 DEF SettingsInv

LEMMA PageAsksKeeps ==
    ASSUME SettingsInv, page = "settings", page' = page, DefaultsStay,
           NEW c \in AskType, c.by = "page", c.what \in {"set", "register"}, c.step = "asked", c.live,
           NEW unshown \in BOOLEAN, NEW unused \in BOOLEAN, PageAsks(c, unshown, unused),
           shown' = shown, sel' = sel, shownLang' \in Langs \union {Unchosen},
           ~unused => Whole(c),
           ~unshown => \/ /\ c.choice \in Offers /\ c.lang = Unchosen /\ shownLang' = shownLang
                          /\ c.next = "apply" \/ (c.next = "quick" /\ c.what = "set")
                       \/ /\ c.choice = Offline /\ c.lang \in Langs /\ shownLang' = c.lang
                          /\ c.what = "set" /\ c.next = ""
    PROVE  SettingsInv'
<1>1. PICK k \in Slots : AddsCall(asks, asks', k, c)
  BY RoomForThis DEF PageAsks, SettingsInv, AsksInv, InFlight
<1>2. apart' = (apart \/ unused \/ Setting # {}) /\ astray' = (astray \/ unshown \/ Setting \union Mounting # {})
      /\ UNCHANGED <<active, lang, status, picking>>
  BY DEF PageAsks, barVars
<1>3. DefaultsInv'
  BY <1>1, <1>2, SettingAskedDefaults
<1>4. AsksInv'
  BY <1>1, <1>2, SettingAskedType DEF SettingsInv, AsksInv, SettingsTypeOK
<1>5. PageInv'
  <2>1. SUFFICES ASSUME ~astray' PROVE PageInv'
    BY DEF PageInv
  <2>2. ~astray /\ ~unshown /\ Setting = {} /\ Mounting = {}
    BY <1>2, <2>1
  <2>3. shown = active /\ shownLang = lang
    BY <2>2 DEF SettingsInv, PageInv
  <2>4. DOMAIN asks' = DOMAIN asks \union {k} /\ asks'[k] = c /\ \A i \in DOMAIN asks : asks'[i] = asks[i]
    BY <1>1 DEF AddsCall
  <2>5. Setting' = {k} /\ Mounting' = {}
    BY <1>1, <2>2, AddsToSetting
  <2>6. active # Offline
    BY Offered DEF SettingsInv, AsksInv, SettingsTypeOK
  <2>7. Coming(c)'
    BY <1>2, <2>2, <2>3, <2>6 DEF Coming
  <2>8. Coming(asks[k])'
    BY <2>4, <2>7
  <2>9. QED
    BY <2>5, <2>8 DEF PageInv
<1>6. Unheard'
  BY DEF Unheard
<1>7. QED
  BY <1>3, <1>4, <1>5, <1>6 DEF SettingsInv

LEMMA ClickSettingsKeeps ==
    ASSUME SettingsInv, page = "settings", page' = page, DefaultsStay, ClickSettings
    PROVE  SettingsInv'
<1> USE DEF pageVars
<1>0. sel \in Selections /\ shownLang \in Langs \union {Unchosen}
  BY DEF SettingsInv, AsksInv, SettingsTypeOK
<1>1. CASE QuickStart
  <2> DEFINE c == Set("page", Quick, Unchosen, "quick")
  <2>1. c \in AskType /\ c.by = "page" /\ c.what = "set" /\ c.step = "asked" /\ c.live /\ Whole(c)
        /\ c.choice \in Offers /\ c.lang = Unchosen /\ c.next = "quick"
    BY SettingsAssumption DEF Set, Request, AskType, Selections, Whole
  <2>2. PageAsks(c, FALSE, FALSE) /\ UNCHANGED pageVars
    BY <1>1 DEF QuickStart
  <2>3. QED
    BY <1>0, <2>1, <2>2, PageAsksKeeps
<1>2. CASE ApplyAdvanced
  <2> DEFINE c == Set("page", sel, Unchosen, "")
  <2>1. c \in AskType /\ c.by = "page" /\ c.what = "set" /\ c.step = "asked" /\ c.live
        /\ c.choice = sel /\ c.lang = Unchosen
    BY <1>0 DEF Set, Request, AskType, Selections
  <2>2. sel[2] # Unchosen => Whole(c)
    BY <1>0, <2>1, Selected DEF Whole
  <2>3. PageAsks(c, TRUE, sel[2] = Unchosen) /\ UNCHANGED pageVars
    BY <1>2 DEF ApplyAdvanced
  <2>4. QED
    BY <1>0, <2>1, <2>2, <2>3, PageAsksKeeps
<1>3. ASSUME NEW choice \in Selections, Select(choice) PROVE SettingsInv'
  BY <1>3, QuietKeeps DEF Select, barVars, SettingsInv, AsksInv, SettingsTypeOK
<1>4. ASSUME NEW keyed \in BOOLEAN, ApplyWithKey(keyed) PROVE SettingsInv'
  <2> DEFINE c == IF keyed THEN Request("page", "register", sel, Unchosen, "apply")
                           ELSE Set("page", sel, Unchosen, "apply")
  <2>1. sel \in Offers
    BY <1>0, <1>4, Selected DEF ApplyWithKey
  <2>2. c \in AskType /\ c.by = "page" /\ c.what \in {"set", "register"} /\ c.step = "asked" /\ c.live /\ Whole(c)
        /\ c.choice \in Offers /\ c.lang = Unchosen /\ c.next = "apply"
    BY <1>0, <2>1 DEF Set, Request, AskType, Selections, Whole
  <2>3. PageAsks(c, FALSE, FALSE) /\ UNCHANGED pageVars
    BY <1>4 DEF ApplyWithKey
  <2>4. QED
    BY <1>0, <2>2, <2>3, PageAsksKeeps
<1>5. ASSUME NEW l \in Langs, ChooseLang(l) PROVE SettingsInv'
  <2> DEFINE c == Set("page", Offline, l, "")
  <2>1. c \in AskType /\ c.by = "page" /\ c.what = "set" /\ c.step = "asked" /\ c.live /\ Whole(c)
        /\ c.choice = Offline /\ c.lang = l /\ c.next = ""
    BY DEF Set, Request, AskType, Selections, Whole
  <2>2. PageAsks(c, FALSE, FALSE) /\ shownLang' = l /\ shown' = shown /\ sel' = sel
    BY <1>5 DEF ChooseLang
  <2>3. QED
    BY <2>1, <2>2, PageAsksKeeps
<1>6. Offers \union {<<p, Unchosen>> : p \in Providers} \subseteq Selections
  BY DEF Selections
<1>7. QED
  BY <1>1, <1>2, <1>3, <1>4, <1>5, <1>6 DEF ClickSettings

(* The page comes, and asks; or it goes, and hears no answer.              *)
LEMMA MountSettingsKeeps ==
    ASSUME SettingsInv, page # "settings", page' = "settings", MountSettings, DefaultsStay
    PROVE  SettingsInv'
<1> DEFINE c == Get("page", "")
<1> USE DEF pageVars, barVars
<1>1. c \in AskType /\ c.by = "page" /\ c.what = "config" /\ c.step = "asked" /\ c.live
  BY DEF Get, Request, AskType, Selections
<1>2. PICK k \in Slots : AddsCall(asks, asks', k, c)
  BY RoomForThis DEF MountSettings, SettingsInv, AsksInv, InFlight
<1>3. DOMAIN asks' = DOMAIN asks \union {k} /\ k \notin DOMAIN asks /\ asks'[k] = c
      /\ \A i \in DOMAIN asks : asks'[i] = asks[i]
  BY <1>2 DEF AddsCall
<1>4. Setting' = Setting /\ k \in Mounting'
  BY <1>1, <1>3 DEF Setting, Mounting, InFlight
<1>5. AsksInv'
  <2>1. Offline \in Selections
    BY DEF Selections
  <2>2. QED
    BY <1>1, <1>2, <2>1, SettingAskedType DEF MountSettings, SettingsInv, AsksInv, SettingsTypeOK
<1>6. DefaultsInv'
  <2>1. Agrees(latest)' <=> Agrees(latest)
    BY DEF Agrees, DefaultsStay, MountSettings
  <2>2. ASSUME NEW i \in Setting
        PROVE  /\ asks'[i] = asks[i]
               /\ Agrees(Changed(latest, Asked(asks[i])))' <=> Agrees(Changed(latest, Asked(asks[i])))
    <3>1. asks'[i] = asks[i]
      BY <1>3 DEF Setting, InFlight
    <3>2. QED
      BY <3>1, SettingsAssumption DEF Agrees, Changed, DefaultsStay, MountSettings
  <2>3. QED
    BY <1>4, <2>1, <2>2 DEF SettingsInv, DefaultsInv, MountSettings
<1>7. PageInv'
  <2>1. SUFFICES ASSUME page' = "settings", ~astray' PROVE PageInv'
    BY DEF PageInv
  <2>2. Setting = {}
    BY <2>1 DEF MountSettings
  <2>3. asks'[k].live /\ asks'[k].step = "asked"
    BY <1>1, <1>3
  <2>4. ASSUME NEW i \in Mounting', i # k PROVE ~asks'[i].live
    BY <1>3, <2>4 DEF Mounting, InFlight, SettingsInv, Unheard
  <2>5. QED
    BY <1>4, <2>2, <2>3, <2>4 DEF PageInv
<1>8. Unheard'
  BY DEF MountSettings, Unheard
<1>9. QED
  BY <1>5, <1>6, <1>7, <1>8 DEF SettingsInv

LEMMA UnmountSettingsKeeps ==
    ASSUME SettingsInv, page' # "settings", UnmountSettings, DefaultsStay
    PROVE  SettingsInv'
<1> USE DEF pageVars, barVars
<1>1. asks' = [i \in DOMAIN asks |-> [asks[i] EXCEPT !.live = @ /\ asks[i].by # "page"]]
  BY DEF UnmountSettings, Orphaned
<1>2. ASSUME NEW i \in DOMAIN asks
      PROVE  /\ asks[i] \in AskType /\ asks'[i] \in AskType
             /\ asks'[i].by = asks[i].by /\ asks'[i].what = asks[i].what /\ asks'[i].choice = asks[i].choice
             /\ asks'[i].lang = asks[i].lang /\ asks'[i].step = asks[i].step
             /\ asks'[i].by = "page" => ~asks'[i].live
  <2>1. asks[i] \in AskType
    BY DEF SettingsInv, AsksInv, SettingsTypeOK, AskType, InFlight
  <2>2. QED
    BY <1>1, <2>1 DEF AskType
<1>3. DOMAIN asks' = DOMAIN asks /\ asks' \in [DOMAIN asks' -> AskType]
  BY <1>1, <1>2
<1>4. AsksInv'
  <2>1. Offline \in Selections
    BY DEF Selections
  <2>2. SettingsTypeOK'
    BY <1>3, <2>1 DEF UnmountSettings, SettingsInv, AsksInv, SettingsTypeOK, AskType, InFlight
  <2>3. QED
    BY <1>2, <1>3, <2>2 DEF SettingsInv, AsksInv, InFlight
<1>5. Setting' = Setting
  BY <1>2, <1>3 DEF Setting, InFlight
<1>6. DefaultsInv'
  <2>1. Agrees(latest)' <=> Agrees(latest)
    BY DEF Agrees, DefaultsStay, UnmountSettings
  <2>2. ASSUME NEW i \in Setting
        PROVE  /\ Whole(asks[i])' <=> Whole(asks[i])
               /\ Between(asks[i])' <=> Between(asks[i])
               /\ Agrees(Changed(latest, Asked(asks[i])))' <=> Agrees(Changed(latest, Asked(asks[i])))
    <3>1. asks'[i].choice = asks[i].choice /\ asks'[i].lang = asks[i].lang
          /\ asks'[i].what = asks[i].what /\ asks'[i].step = asks[i].step
      BY <1>2 DEF Setting, InFlight
    <3>2. Asked(asks[i])' = Asked(asks[i])
      BY <3>1, AskedOf DEF Asked
    <3>3. QED
      BY <3>1, <3>2, SettingsAssumption DEF Agrees, Changed, DefaultsStay, UnmountSettings, Whole, Between
  <2>3. QED
    BY <1>5, <2>1, <2>2 DEF SettingsInv, DefaultsInv, UnmountSettings
<1>7. PageInv'
  BY DEF PageInv
<1>8. Unheard'
  BY <1>2, <1>3 DEF Unheard, InFlight
<1>9. QED
  BY <1>4, <1>6, <1>7, <1>8 DEF SettingsInv

(* The server goes on with a request: its step changes, and what it        *)
(* answers.                                                                *)
GoesOn(i, step) ==
    /\ i \in DOMAIN asks /\ asks' = [asks EXCEPT ![i] = asks'[i]]
    /\ asks'[i] \in AskType
    /\ asks'[i] = [asks[i] EXCEPT !.step = step, !.got = asks'[i].got, !.gotLang = asks'[i].gotLang]

LEMMA GoesOnIs ==
    ASSUME AsksInv, NEW i, NEW step, GoesOn(i, step)
    PROVE  /\ DOMAIN asks' = DOMAIN asks /\ asks' \in [DOMAIN asks' -> AskType]
           /\ \A j \in DOMAIN asks : j # i => asks'[j] = asks[j]
           /\ \A j \in DOMAIN asks :
                  /\ asks'[j].by = asks[j].by /\ asks'[j].what = asks[j].what /\ asks'[j].choice = asks[j].choice
                  /\ asks'[j].lang = asks[j].lang /\ asks'[j].next = asks[j].next /\ asks'[j].live = asks[j].live
           /\ asks'[i].step = step
           /\ Setting' = Setting /\ Mounting' = Mounting
<1>1. DOMAIN asks' = DOMAIN asks /\ \A j \in DOMAIN asks : j # i => asks'[j] = asks[j]
  BY DEF GoesOn
<1>2. asks \in [DOMAIN asks -> AskType]
  BY DEF AsksInv, SettingsTypeOK, AskType, InFlight
<1>3. asks' \in [DOMAIN asks' -> AskType]
  BY <1>1, <1>2 DEF GoesOn
<1>4. asks[i] \in AskType
  BY <1>2 DEF GoesOn
<1>5. /\ asks'[i].by = asks[i].by /\ asks'[i].what = asks[i].what /\ asks'[i].choice = asks[i].choice
      /\ asks'[i].lang = asks[i].lang /\ asks'[i].next = asks[i].next /\ asks'[i].live = asks[i].live
      /\ asks'[i].step = step
  BY <1>4 DEF GoesOn, AskType
<1>6. \A j \in DOMAIN asks : asks'[j].by = asks[j].by /\ asks'[j].what = asks[j].what
  BY <1>1, <1>5
<1>7. Setting' = Setting /\ Mounting' = Mounting
  BY <1>1, <1>6 DEF Setting, Mounting, InFlight
<1>8. QED
  BY <1>1, <1>3, <1>5, <1>7

LEMMA GoesOnUnheard ==
    ASSUME SettingsInv, NEW i, NEW step, GoesOn(i, step), page' = page
    PROVE  Unheard'
BY GoesOnIs DEF SettingsInv, Unheard, InFlight

LEMMA GoesOnTypes ==
    ASSUME SettingsInv, NEW i, NEW step, GoesOn(i, step), active' \in Offers, lang' \in Langs,
           asks[i].what = "config" => step = "served",
           ServerRest
    PROVE  AsksInv'
<1>1. asks' \in [DOMAIN asks' -> AskType] /\ DOMAIN asks' = DOMAIN asks
  BY GoesOnIs DEF SettingsInv
<1>2. SettingsTypeOK'
  BY <1>1 DEF SettingsInv, AsksInv, SettingsTypeOK, AskType, InFlight, ServerRest, pageVars, barVars
<1>3. \A j \in DOMAIN asks' : asks'[j].what = "config" => asks'[j].step \in {"asked", "served"}
  BY GoesOnIs DEF SettingsInv, AsksInv, InFlight
<1>4. \A j \in DOMAIN asks' : asks'[j].what = "register" => asks'[j].by = "page"
  BY GoesOnIs DEF SettingsInv, AsksInv, InFlight
<1>5. DOMAIN asks' \subseteq Slots
  BY <1>1 DEF SettingsInv, AsksInv, InFlight
<1>6. QED
  BY <1>2, <1>3, <1>4, <1>5, AsksInvIs

(* The defaults follow what is in use: as one setting takes its steps they *)
(* agree, or will when it has saved.                                       *)
LEMMA GoesOnDefaults ==
    ASSUME SettingsInv, NEW i, NEW step, GoesOn(i, step), ServerRest,
           ~apart => \/ /\ i \notin Setting /\ UNCHANGED <<active, lang>> /\ DefaultsStay
                     \/ /\ i \in Setting
                        /\ Between(asks[i])' => Agrees(Changed(latest, Asked(asks[i])))'
                        /\ ~Between(asks[i])' => Agrees(latest)'
    PROVE  DefaultsInv'
<1> SUFFICES ASSUME ~apart' PROVE DefaultsInv'
  BY DEF DefaultsInv
<1>0. ~apart /\ Setting' = Setting
  BY GoesOnIs DEF ServerRest, SettingsInv
<1>1. \A j \in Setting : Whole(asks[j])'
  BY <1>0, GoesOnIs DEF SettingsInv, DefaultsInv, Whole, Setting, InFlight
<1>2. CASE i \notin Setting /\ UNCHANGED <<active, lang>> /\ DefaultsStay
  <2>1. Agrees(latest)' <=> Agrees(latest)
    BY <1>2 DEF Agrees, DefaultsStay
  <2>2. ASSUME NEW j \in Setting
        PROVE  /\ asks'[j] = asks[j]
               /\ Agrees(Changed(latest, Asked(asks[j])))' <=> Agrees(Changed(latest, Asked(asks[j])))
    <3>1. asks'[j] = asks[j]
      BY <1>2, <2>2, GoesOnIs DEF Setting, InFlight, SettingsInv
    <3>2. QED
      BY <1>2, <3>1, SettingsAssumption DEF Agrees, Changed, DefaultsStay
  <2>3. QED
    BY <1>0, <1>1, <2>1, <2>2 DEF SettingsInv, DefaultsInv
<1>3. CASE /\ i \in Setting
           /\ Between(asks[i])' => Agrees(Changed(latest, Asked(asks[i])))'
           /\ ~Between(asks[i])' => Agrees(latest)'
  <2>1. Setting' = {i}
    BY <1>0, <1>3 DEF SettingsInv, DefaultsInv
  <2>2. QED
    BY <1>0, <1>1, <1>3, <2>1 DEF DefaultsInv
<1>4. QED
  BY <1>0, <1>2, <1>3

LEMMA GoesOnPage ==
    ASSUME SettingsInv, NEW i, NEW step, GoesOn(i, step), ServerRest, page' = page,
           \/ /\ i \notin Setting /\ UNCHANGED <<active, lang>>
              /\ asks'[i].got = active /\ asks'[i].gotLang = lang
           \/ i \in Setting /\ (Coming(asks[i]) => Coming(asks[i])')
    PROVE  PageInv'
<1> SUFFICES ASSUME page' = "settings", ~astray' PROVE PageInv'
  BY DEF PageInv
<1>1. page = "settings" /\ ~astray /\ UNCHANGED <<shown, shownLang>>
  BY DEF ServerRest, pageVars
<1>2. Setting' = Setting /\ Mounting' = Mounting
  BY GoesOnIs DEF SettingsInv
<1>3. CASE /\ i \notin Setting /\ UNCHANGED <<active, lang>>
           /\ asks'[i].got = active /\ asks'[i].gotLang = lang
  <2>1. ASSUME NEW j \in Setting PROVE Coming(asks[j])' <=> Coming(asks[j])
    <3>1. asks'[j] = asks[j]
      BY <1>3, <2>1, GoesOnIs DEF Setting, InFlight, SettingsInv
    <3>2. QED
      BY <1>1, <1>3, <3>1 DEF Coming
  <2>2. ASSUME NEW j \in Mounting, asks'[j].live, asks'[j].step = "served"
        PROVE  asks'[j].got = active /\ asks'[j].gotLang = lang
    <3>1. CASE j = i
      BY <1>3, <3>1
    <3>2. CASE j # i
      <4>1. asks'[j] = asks[j]
        BY <3>2, GoesOnIs DEF Mounting, InFlight, SettingsInv
      <4>2. QED
        BY <1>1, <2>2, <4>1 DEF SettingsInv, PageInv
    <3>3. QED
      BY <3>1, <3>2
  <2>3. \A j \in Mounting : asks'[j].live = asks[j].live
    BY GoesOnIs DEF Mounting, InFlight, SettingsInv
  <2>4. QED
    BY <1>1, <1>2, <1>3, <2>1, <2>2, <2>3 DEF SettingsInv, PageInv
<1>4. CASE i \in Setting /\ (Coming(asks[i]) => Coming(asks[i])')
  <2>1. Setting' = {i} /\ Mounting' = {} /\ Coming(asks[i])
    BY <1>1, <1>2, <1>4 DEF SettingsInv, PageInv
  <2>2. QED
    BY <1>4, <2>1 DEF PageInv
<1>5. QED
  BY <1>3, <1>4

LEMMA ServeConfigKeeps ==
    ASSUME SettingsInv, NEW i \in InFlight(asks), ServeConfig(i), page' = page
    PROVE  SettingsInv'
<1>1. asks[i] \in AskType /\ active \in Offers /\ lang \in Langs
  BY DEF SettingsInv, AsksInv, SettingsTypeOK, AskType
<1>2. asks[i].what = "config" /\ UNCHANGED <<active, lang>> /\ DefaultsStay /\ ServerRest
  BY DEF ServeConfig, DefaultsStay, fileVars
<1>3. asks'[i] = [asks[i] EXCEPT !.step = "served", !.got = active, !.gotLang = lang]
      /\ asks' = [asks EXCEPT ![i] = asks'[i]]
  BY <1>1 DEF ServeConfig, InFlight, AskType
<1>4. asks'[i].got = active /\ asks'[i].gotLang = lang /\ asks'[i] \in AskType
  BY <1>1, <1>3 DEF AskType, Selections
<1>5. GoesOn(i, "served")
  BY <1>3, <1>4 DEF GoesOn, InFlight
<1>6. i \notin Setting
  BY <1>2 DEF Setting
<1>7. AsksInv'
  BY <1>1, <1>2, <1>5, GoesOnTypes
<1>8. DefaultsInv'
  BY <1>2, <1>5, <1>6, GoesOnDefaults
<1>9. PageInv'
  BY <1>2, <1>4, <1>5, <1>6, GoesOnPage
<1>10. Unheard'
  BY <1>5, GoesOnUnheard
<1>11. QED
  BY <1>7, <1>8, <1>9, <1>10 DEF SettingsInv

(* One step of a handler that saves. *)
LEMMA StepIsGoing ==
    ASSUME AsksInv, NEW i \in InFlight(asks), NEW step \in {"begun", "saving", "served"}, asks' = Stepped(asks, i, step)
    PROVE  GoesOn(i, step)
<1>1. asks[i] \in AskType
  BY DEF AsksInv, SettingsTypeOK, AskType
<1>2. asks'[i] = [asks[i] EXCEPT !.step = step] /\ asks' = [asks EXCEPT ![i] = asks'[i]]
  BY <1>1 DEF Stepped, InFlight, AskType
<1>3. asks'[i] \in AskType /\ asks'[i].got = asks[i].got /\ asks'[i].gotLang = asks[i].gotLang
  BY <1>1, <1>2 DEF AskType
<1>4. asks'[i] = [asks[i] EXCEPT !.step = step, !.got = asks'[i].got, !.gotLang = asks'[i].gotLang]
  BY <1>1, <1>2, <1>3 DEF AskType
<1>5. QED
  BY <1>2, <1>3, <1>4 DEF GoesOn, InFlight

LEMMA SettingGoesOn ==
    ASSUME SettingsInv, NEW i \in InFlight(asks), NEW step \in {"begun", "saving", "served"},
           asks' = Stepped(asks, i, step), ServerRest, page' = page, asks[i].what # "config",
           active' \in Offers, lang' \in Langs,
           Coming(asks[i]) => Coming(asks[i])',
           ~apart /\ Between(asks[i])' => Agrees(Changed(latest, Asked(asks[i])))',
           ~apart /\ ~Between(asks[i])' => Agrees(latest)'
    PROVE  SettingsInv'
<1>1. GoesOn(i, step)
  BY StepIsGoing DEF SettingsInv
<1>2. i \in Setting
  BY DEF Setting
<1>3. AsksInv'
  BY <1>1, GoesOnTypes
<1>4. DefaultsInv'
  BY <1>1, <1>2, GoesOnDefaults
<1>5. PageInv'
  BY <1>1, <1>2, GoesOnPage
<1>6. Unheard'
  BY <1>1, GoesOnUnheard
<1>7. QED
  BY <1>3, <1>4, <1>5, <1>6 DEF SettingsInv

LEMMA BeginRegisterKeeps ==
    ASSUME SettingsInv, NEW i \in InFlight(asks), BeginRegister(i), page' = page
    PROVE  SettingsInv'
<1>1. asks' = Stepped(asks, i, "begun") /\ ServerRest /\ UNCHANGED <<active, lang, latest>>
      /\ asks[i].what = "register" /\ asks[i].step = "asked"
  BY DEF BeginRegister, Load
<1>2. GoesOn(i, "begun")
  BY <1>1, StepIsGoing DEF SettingsInv
<1>3. asks'[i].what = "register" /\ asks'[i].choice = asks[i].choice /\ asks'[i].live = asks[i].live
      /\ asks'[i].next = asks[i].next
  BY <1>1, <1>2, GoesOnIs DEF SettingsInv, InFlight
<1>4. Coming(asks[i]) => Coming(asks[i])'
  BY <1>1, <1>3 DEF Coming, ServerRest, pageVars
<1>5. ~Between(asks[i])' /\ ~Between(asks[i])
  BY <1>1, <1>3 DEF Between
<1>6. ~apart => Agrees(latest)
  BY <1>1, <1>5 DEF SettingsInv, DefaultsInv, Setting
<1>7. ~apart => Agrees(latest)'
  BY <1>1, <1>6 DEF Agrees
<1>8. QED
  BY <1>1, <1>4, <1>5, <1>7, SettingGoesOn DEF SettingsInv, AsksInv, SettingsTypeOK

LEMMA BeginSetKeeps ==
    ASSUME SettingsInv, NEW i \in InFlight(asks), BeginSet(i), page' = page
    PROVE  SettingsInv'
<1> DEFINE c == asks[i]
<1>0. c \in AskType /\ active \in Offers /\ lang \in Langs
  BY DEF SettingsInv, AsksInv, SettingsTypeOK, AskType
<1>1. asks' = Stepped(asks, i, "begun") /\ ServerRest /\ latest' = latest
      /\ c.what = "set" /\ c.step = "asked"
      /\ active' = (IF Unchosen \in {c.choice[1], c.choice[2]} THEN active ELSE c.choice)
      /\ lang' = (IF c.lang = Unchosen THEN lang ELSE c.lang)
  BY DEF BeginSet, Load
<1>2. active' \in Offers /\ lang' \in Langs
  BY <1>0, <1>1, Selected DEF AskType
<1>3. GoesOn(i, "begun")
  BY <1>1, StepIsGoing DEF SettingsInv
<1>4. asks'[i].what = c.what /\ asks'[i].choice = c.choice /\ asks'[i].live = c.live
      /\ asks'[i].next = c.next /\ asks'[i].lang = c.lang /\ asks'[i].step = "begun"
  BY <1>1, <1>3, GoesOnIs DEF SettingsInv, InFlight
<1>5. ASSUME c.choice \in Offers, c.lang = Unchosen
      PROVE  active' = c.choice /\ lang' = lang
  BY <1>1, <1>5, Offered
<1>6. ASSUME c.choice = Offline, c.lang \in Langs
      PROVE  active' = active /\ lang' = c.lang
  BY <1>1, <1>6, SettingsAssumption DEF Offline
<1>7. Coming(asks[i]) => Coming(asks[i])'
  BY <1>1, <1>4, <1>5, <1>6 DEF Coming, ServerRest, pageVars
<1>8. ~apart => Whole(c) /\ Agrees(latest)
  BY <1>1 DEF SettingsInv, DefaultsInv, Setting, Between
<1>9. ~apart => Agrees(Changed(latest, Asked(asks[i])))'
  <2>1. Asked(asks[i])' = Asked(c)
    BY <1>4 DEF Asked
  <2>2. SUFFICES ASSUME ~apart PROVE Agrees(Changed(latest, Asked(c)))'
    BY <1>1, <2>1
  <2>3. CASE c.choice \in Offers /\ c.lang = Unchosen
    BY <1>1, <1>5, <1>8, <2>1, <2>2, <2>3, AskedChoice DEF Agrees
  <2>4. CASE c.choice = Offline /\ c.lang \in Langs
    BY <1>1, <1>6, <1>8, <2>1, <2>2, <2>4, AskedLanguage DEF Agrees
  <2>5. QED
    BY <1>8, <2>2, <2>3, <2>4 DEF Whole
<1>10. Between(asks[i])'
  BY <1>1, <1>4 DEF Between
<1>11. QED
  BY <1>1, <1>2, <1>7, <1>9, <1>10, SettingGoesOn

LEMMA BeginAskSaveKeeps ==
    ASSUME SettingsInv, NEW i \in InFlight(asks), BeginAskSave(i), page' = page
    PROVE  SettingsInv'
<1> DEFINE c == asks[i]
<1>1. asks' = Stepped(asks, i, "saving") /\ ServerRest /\ UNCHANGED <<active, lang, latest>> /\ c.step = "begun"
  BY DEF BeginAskSave, Empty
<1>2. GoesOn(i, "saving") /\ c.what # "config"
  BY <1>1, StepIsGoing DEF SettingsInv, AsksInv
<1>3. asks'[i].what = c.what /\ asks'[i].choice = c.choice /\ asks'[i].live = c.live
      /\ asks'[i].next = c.next /\ asks'[i].lang = c.lang /\ asks'[i].step = "saving"
  BY <1>1, <1>2, GoesOnIs DEF SettingsInv, InFlight
<1>4. Coming(asks[i]) => Coming(asks[i])'
  BY <1>1, <1>3 DEF Coming, ServerRest, pageVars
<1>5. Between(asks[i])' <=> Between(asks[i])
  BY <1>1, <1>3 DEF Between
<1>6. Asked(asks[i])' = Asked(c)
  BY <1>3 DEF Asked
<1>7. ~apart => /\ Between(asks[i])' => Agrees(Changed(latest, Asked(asks[i])))'
                /\ ~Between(asks[i])' => Agrees(latest)'
  BY <1>1, <1>2, <1>5, <1>6 DEF SettingsInv, DefaultsInv, Setting, Agrees
<1>8. QED
  BY <1>1, <1>2, <1>4, <1>7, SettingGoesOn DEF SettingsInv, AsksInv, SettingsTypeOK

LEMMA EndAskSaveKeeps ==
    ASSUME SettingsInv, NEW i \in InFlight(asks), EndAskSave(i), page' = page
    PROVE  SettingsInv'
<1> DEFINE c == asks[i]
<1>1. asks' = Stepped(asks, i, "served") /\ ServerRest /\ UNCHANGED <<active, lang>> /\ c.step = "saving"
      /\ c.what \in {"set", "register"}
  BY DEF EndAskSave
<1>2. GoesOn(i, "served")
  BY <1>1, StepIsGoing DEF SettingsInv
<1>3. asks'[i].what = c.what /\ asks'[i].choice = c.choice /\ asks'[i].live = c.live
      /\ asks'[i].next = c.next /\ asks'[i].lang = c.lang /\ asks'[i].step = "served"
  BY <1>1, <1>2, GoesOnIs DEF SettingsInv, InFlight
<1>4. Coming(asks[i]) => Coming(asks[i])'
  BY <1>1, <1>3 DEF Coming, ServerRest, pageVars
<1>5. ~Between(asks[i])'
  BY <1>1, <1>3 DEF Between
<1>6. ASSUME ~apart PROVE Agrees(latest)'
  <2>1. CASE c.what = "set"
    <3>1. latest' = Changed(latest, Asked(c))
      BY <2>1 DEF EndAskSave, Put
    <3>2. Agrees(Changed(latest, Asked(c)))
      BY <1>1, <1>6, <2>1 DEF SettingsInv, DefaultsInv, Setting, Between
    <3>3. QED
      BY <1>1, <3>1, <3>2 DEF Agrees
  <2>2. CASE c.what = "register"
    <3>1. latest' = Amended(latest, "keys", {c.choice[1]}, {})
      BY <2>2 DEF EndAskSave, Amend
    <3>2. DefaultsStay
      BY <3>1 DEF Amended, DefaultsStay
    <3>3. Agrees(latest)
      BY <1>1, <1>6, <2>2 DEF SettingsInv, DefaultsInv, Setting, Between
    <3>4. QED
      BY <1>1, <3>2, <3>3 DEF Agrees, DefaultsStay
  <2>3. QED
    BY <1>1, <2>1, <2>2
<1>7. QED
  BY <1>1, <1>4, <1>5, <1>6, SettingGoesOn DEF SettingsInv, AsksInv, SettingsTypeOK

LEMMA ServeSettingsKeeps ==
    ASSUME SettingsInv, NEW i \in InFlight(asks), ServeSettings(i), page' = page
    PROVE  SettingsInv'
BY ServeConfigKeeps, BeginRegisterKeeps, BeginSetKeeps, BeginAskSaveKeeps, EndAskSaveKeeps DEF ServeSettings

(* What is answered, or lost, is gone. *)
LEMMA GoneIs ==
    ASSUME AsksInv, NEW i \in InFlight(asks), asks' = Gone(asks, i)
    PROVE  /\ DOMAIN asks' = DOMAIN asks \ {i} /\ asks' \in [DOMAIN asks' -> AskType]
           /\ \A j \in DOMAIN asks' : asks'[j] = asks[j]
           /\ Setting' = Setting \ {i} /\ Mounting' = Mounting \ {i}
<1>1. DOMAIN asks' = DOMAIN asks \ {i} /\ \A j \in DOMAIN asks' : asks'[j] = asks[j]
  BY DEF Gone
<1>2. asks \in [DOMAIN asks -> AskType]
  BY DEF AsksInv, SettingsTypeOK, AskType, InFlight
<1>3. asks' \in [DOMAIN asks' -> AskType]
  BY <1>1, <1>2 DEF Gone
<1>4. Setting' = Setting \ {i}
  BY <1>1 DEF Setting, InFlight
<1>5. Mounting' = Mounting \ {i}
  BY <1>1 DEF Mounting, InFlight
<1>6. QED
  BY <1>1, <1>3, <1>4, <1>5

LEMMA GoneTypes ==
    ASSUME SettingsInv, NEW i \in InFlight(asks), asks' = Gone(asks, i), UNCHANGED <<active, lang, apart>>, page' = page,
           status' \in Selections, picking' \in BOOLEAN, shown' \in Selections, sel' \in Selections,
           shownLang' \in Langs \union {Unchosen}, astray' \in BOOLEAN
    PROVE  AsksInv' /\ Unheard'
<1>1. DOMAIN asks' = DOMAIN asks \ {i} /\ asks' \in [DOMAIN asks' -> AskType]
      /\ \A j \in DOMAIN asks' : asks'[j] = asks[j]
  BY GoneIs DEF SettingsInv
<1>2. SettingsTypeOK'
  BY <1>1 DEF SettingsInv, AsksInv, SettingsTypeOK, AskType, InFlight
<1>3. AsksInv'
  BY <1>1, <1>2 DEF SettingsInv, AsksInv, InFlight
<1>4. Unheard'
  BY <1>1 DEF SettingsInv, Unheard, InFlight
<1>5. QED
  BY <1>3, <1>4

LEMMA GoneDefaults ==
    ASSUME SettingsInv, NEW i \in InFlight(asks), UNCHANGED <<active, lang, apart, latest>>, ~Between(asks[i]),
           Setting' = Setting \ {i}, \A j \in Setting' : asks'[j] = asks[j]
    PROVE  DefaultsInv'
<1> SUFFICES ASSUME ~apart' PROVE DefaultsInv'
  BY DEF DefaultsInv
<1>1. Agrees(latest)' <=> Agrees(latest)
  BY DEF Agrees
<1>2. CASE i \in Setting
  <2>1. Setting = {i}
    BY <1>2 DEF SettingsInv, DefaultsInv
  <2>2. Agrees(latest)
    BY <2>1 DEF SettingsInv, DefaultsInv
  <2>3. QED
    BY <1>1, <2>1, <2>2 DEF DefaultsInv
<1>3. CASE i \notin Setting
  <2>1. ASSUME NEW j \in Setting
        PROVE  /\ asks'[j] = asks[j]
               /\ Agrees(Changed(latest, Asked(asks[j])))' <=> Agrees(Changed(latest, Asked(asks[j])))
    <3>1. asks'[j] = asks[j]
      BY <1>3
    <3>2. QED
      BY <3>1 DEF Agrees
  <2>2. QED
    BY <1>1, <1>3, <2>1 DEF SettingsInv, DefaultsInv
<1>4. QED
  BY <1>2, <1>3

LEMMA SettingsLostKeeps ==
    ASSUME SettingsInv, NEW i \in InFlight(asks), SettingsLost(i), page' = page, latest' = latest
    PROVE  SettingsInv'
<1> USE DEF pageVars
<1>1. asks' = Gone(asks, i) /\ astray' = TRUE /\ UNCHANGED <<active, lang, apart, shown, sel, shownLang, picking>>
  BY DEF SettingsLost
<1>2. status' \in Selections
  BY DEF SettingsLost, SettingsInv, AsksInv, SettingsTypeOK, Selections
<1>3. AsksInv' /\ Unheard'
  BY <1>1, <1>2, GoneTypes DEF SettingsInv, AsksInv, SettingsTypeOK
<1>4. ~Between(asks[i])
  BY DEF SettingsLost, Between
<1>5. Setting' = Setting \ {i} /\ \A j \in Setting' : asks'[j] = asks[j]
  BY <1>1, GoneIs DEF SettingsInv, Setting, InFlight
<1>6. DefaultsInv'
  BY <1>1, <1>4, <1>5, GoneDefaults
<1>7. PageInv'
  BY <1>1 DEF PageInv
<1>8. QED
  BY <1>3, <1>6, <1>7 DEF SettingsInv

(* An answered question of the bar or of the page is shown, and gone.      *)
LEMMA ConfigShownKeeps ==
    ASSUME SettingsInv, NEW i \in InFlight(asks), ConfigShown(i), UNCHANGED <<active, lang, astray, apart>>,
           asks[i].step = "served", page' = page, latest' = latest
    PROVE  SettingsInv'
<1> USE DEF pageVars, barVars
<1>1. asks' = Gone(asks, i) /\ asks[i].what = "config" /\ asks[i] \in AskType
  BY DEF ConfigShown, SettingsInv, AsksInv, SettingsTypeOK, AskType
<1>2. Setting' = Setting \ {i} /\ Mounting' = Mounting \ {i} /\ \A j \in DOMAIN asks' : asks'[j] = asks[j]
  BY <1>1, GoneIs DEF SettingsInv
<1>3. i \notin Setting /\ ~Between(asks[i])
  BY <1>1 DEF Setting, Between
<1>4. asks[i].got \in Selections /\ asks[i].gotLang \in Langs \union {Unchosen}
  BY <1>1 DEF AskType
<1>5. AsksInv' /\ Unheard'
  <2>1. status' \in Selections /\ picking' \in BOOLEAN /\ shown' \in Selections /\ sel' \in Selections
        /\ shownLang' \in Langs \union {Unchosen}
    BY <1>4 DEF ConfigShown, SettingsInv, AsksInv, SettingsTypeOK
  <2>2. QED
    BY <1>1, <2>1, GoneTypes DEF SettingsInv, AsksInv, SettingsTypeOK
<1>6. DefaultsInv'
  <2>1. \A j \in Setting' : asks'[j] = asks[j]
    BY <1>2 DEF Setting, InFlight
  <2>2. QED
    BY <1>2, <1>3, <2>1, GoneDefaults
<1>7. PageInv'
  <2>1. SUFFICES ASSUME page = "settings", ~astray PROVE PageInv'
    BY DEF PageInv
  <2>2. \A j \in Setting' \union Mounting' : asks'[j] = asks[j]
    BY <1>2 DEF Setting, Mounting, InFlight
  <2>3. CASE asks[i].by = "page" /\ asks[i].live
    <3>1. i \in Mounting /\ Setting = {} /\ asks[i].got = active /\ asks[i].gotLang = lang
      BY <1>1, <2>1, <2>3 DEF SettingsInv, PageInv, Mounting
    <3>2. shown' = active /\ shownLang' = lang
      BY <1>1, <2>3, <3>1 DEF ConfigShown
    <3>3. \A j \in Mounting' : asks'[j].live /\ asks'[j].step = "served" =>
              asks'[j].got = active /\ asks'[j].gotLang = lang
      BY <1>2, <2>1, <2>2 DEF SettingsInv, PageInv
    <3>4. Setting' = {}
      BY <1>2, <3>1
    <3>5. QED
      BY <3>2, <3>3, <3>4 DEF PageInv
  <2>4. CASE ~(asks[i].by = "page" /\ asks[i].live)
    <3>1. shown' = shown /\ shownLang' = shownLang
      BY <1>1, <2>4 DEF ConfigShown, AskType
    <3>2. Setting' = Setting /\ (i \in Mounting => ~asks[i].live)
      BY <1>2, <1>3, <2>4 DEF Mounting
    <3>3. ASSUME NEW j \in Setting PROVE Coming(asks[j])' <=> Coming(asks[j])
      BY <2>2, <3>1, <3>2 DEF Coming
    <3>4. \A j \in Mounting' : asks'[j].live /\ asks'[j].step = "served" =>
              asks'[j].got = active /\ asks'[j].gotLang = lang
      BY <1>2, <2>1, <2>2 DEF SettingsInv, PageInv
    <3>5. (\A j \in Mounting' : ~asks'[j].live) => \A j \in Mounting : ~asks[j].live
      BY <1>2, <2>2, <3>2
    <3>6. QED
      BY <1>2, <2>1, <3>1, <3>2, <3>3, <3>4, <3>5 DEF SettingsInv, PageInv
  <2>5. QED
    BY <2>3, <2>4
<1>8. QED
  BY <1>5, <1>6, <1>7 DEF SettingsInv

(* What is answered makes place for what is asked next.                    *)
LEMMA ReplacedIs ==
    ASSUME SettingsInv, NEW i \in InFlight(asks), NEW k \in Slots, NEW c \in AskType,
           AddsCall(Gone(asks, i), asks', k, c), c.what = "register" => c.by = "page", c.step = "asked"
    PROVE  /\ DOMAIN asks' = (DOMAIN asks \ {i}) \union {k} /\ asks'[k] = c /\ k \notin DOMAIN asks \ {i}
           /\ \A j \in DOMAIN asks \ {i} : asks'[j] = asks[j]
           /\ UNCHANGED <<active, lang, pageVars, barVars, astray, apart>> => AsksInv'
<1>1. DOMAIN Gone(asks, i) = DOMAIN asks \ {i} /\ \A j \in DOMAIN asks \ {i} : Gone(asks, i)[j] = asks[j]
  BY DEF Gone
<1>2. DOMAIN asks' = (DOMAIN asks \ {i}) \union {k} /\ asks'[k] = c /\ k \notin DOMAIN asks \ {i}
      /\ \A j \in DOMAIN asks \ {i} : asks'[j] = asks[j]
  BY <1>1 DEF AddsCall
<1>3. asks \in [DOMAIN asks -> AskType] /\ DOMAIN asks \subseteq Slots
  BY DEF SettingsInv, AsksInv, SettingsTypeOK, AskType, InFlight
<1>4. asks' \in [DOMAIN asks' -> AskType] /\ DOMAIN asks' \subseteq Slots
  <2>1. asks' = [j \in DOMAIN Gone(asks, i) \union {k} |-> IF j = k THEN c ELSE Gone(asks, i)[j]]
    BY DEF AddsCall
  <2>2. \A j \in DOMAIN asks' : asks'[j] \in AskType
    BY <1>2, <1>3
  <2>3. QED
    BY <1>2, <1>3, <2>1, <2>2
<1>5. ASSUME UNCHANGED <<active, lang, pageVars, barVars, astray, apart>> PROVE AsksInv'
  <2>1. SettingsTypeOK'
    BY <1>4, <1>5 DEF SettingsInv, AsksInv, SettingsTypeOK, AskType, InFlight, pageVars, barVars
  <2>2. \A j \in DOMAIN asks' : asks'[j].what = "config" => asks'[j].step \in {"asked", "served"}
    BY <1>2 DEF SettingsInv, AsksInv, InFlight
  <2>3. \A j \in DOMAIN asks' : asks'[j].what = "register" => asks'[j].by = "page"
    BY <1>2 DEF SettingsInv, AsksInv, InFlight
  <2>4. QED
    BY <1>4, <2>1, <2>2, <2>3, AsksInvIs
<1>6. QED
  BY <1>2, <1>5

(* The key is there: the provider is set now.                              *)
LEMMA SetAfterRegisterKeeps ==
    ASSUME SettingsInv, NEW i \in InFlight(asks), asks[i].step = "served", asks[i].what = "register",
           NEW c \in AskType, c.by = "page", c.what = "set", c.step = "asked", c.live = asks[i].live,
           c.choice = asks[i].choice, c.next = asks[i].next, c.lang = Unchosen,
           NEW k \in Slots, AddsCall(Gone(asks, i), asks', k, c),
           UNCHANGED <<active, lang, pageVars, barVars, astray, apart>>, page' = page, latest' = latest
    PROVE  SettingsInv'
<1>1. asks[i] \in AskType /\ asks[i].by = "page"
  BY DEF SettingsInv, AsksInv, SettingsTypeOK, AskType, InFlight
<1>2. DOMAIN asks' = (DOMAIN asks \ {i}) \union {k} /\ asks'[k] = c /\ k \notin DOMAIN asks \ {i}
      /\ \A j \in DOMAIN asks \ {i} : asks'[j] = asks[j]
  BY ReplacedIs
<1>3. AsksInv'
  BY ReplacedIs
<1>4. i \in Setting /\ i \notin Mounting /\ Setting' = (Setting \ {i}) \union {k}
  BY <1>2 DEF Setting, Mounting, InFlight
<1>5. Mounting' = Mounting
  BY <1>2, <1>4 DEF Mounting, InFlight
<1>6. DefaultsInv'
  <2>1. SUFFICES ASSUME ~apart PROVE DefaultsInv'
    BY DEF DefaultsInv
  <2>2. Setting = {i} /\ Whole(asks[i]) /\ ~Between(asks[i])
    BY <1>4, <2>1 DEF SettingsInv, DefaultsInv, Between
  <2>3. Agrees(latest)'
    BY <2>1, <2>2 DEF SettingsInv, DefaultsInv, Agrees
  <2>4. Whole(c) /\ ~Between(c)
    BY <2>2 DEF Whole, Between
  <2>5. Whole(asks[k])' /\ ~Between(asks[k])'
    BY <1>2, <2>4 DEF Whole, Between
  <2>6. Setting' = {k}
    BY <1>4, <2>2
  <2>7. QED
    BY <2>3, <2>5, <2>6 DEF DefaultsInv
<1>7. PageInv'
  <2>1. SUFFICES ASSUME page = "settings", ~astray PROVE PageInv'
    BY DEF PageInv
  <2>2. Setting = {i} /\ Mounting = {} /\ Coming(asks[i])
    BY <1>4, <2>1 DEF SettingsInv, PageInv
  <2>3. /\ asks'[k].live = asks[i].live /\ asks'[k].what = "set" /\ asks'[k].step = "asked"
        /\ asks'[k].choice = asks[i].choice /\ asks'[k].next = asks[i].next /\ asks'[k].lang = Unchosen
    BY <1>2
  <2>4. Coming(asks[k])'
    BY <2>2, <2>3 DEF Coming, pageVars
  <2>5. Setting' = {k} /\ Mounting' = {}
    BY <1>4, <1>5, <2>2
  <2>6. QED
    BY <2>4, <2>5 DEF PageInv
<1>8. Unheard'
  <2>1. asks[i].by = "page" /\ asks'[k].live = asks[i].live
    BY <1>1, <1>2
  <2>2. QED
    BY <1>2, <2>1 DEF SettingsInv, Unheard, InFlight
<1>9. QED
  BY <1>3, <1>6, <1>7, <1>8 DEF SettingsInv

LEMMA RegisteredKeeps ==
    ASSUME SettingsInv, NEW i \in InFlight(asks), asks[i].step = "served", asks[i].what = "register",
           asks' = Ask(Gone(asks, i), [Set("page", asks[i].choice, Unchosen, asks[i].next) EXCEPT !.live = asks[i].live]),
           UNCHANGED <<active, lang, pageVars, barVars, astray, apart>>, page' = page, latest' = latest
    PROVE  SettingsInv'
<1>1. asks[i] \in AskType /\ i \in Slots
  BY DEF SettingsInv, AsksInv, SettingsTypeOK, AskType, InFlight
<1>2. [Set("page", asks[i].choice, Unchosen, asks[i].next) EXCEPT !.live = asks[i].live] \in AskType
  BY <1>1 DEF Set, Request, AskType, Selections
<1>3. PICK c \in AskType : /\ asks' = Ask(Gone(asks, i), c)
                          /\ c.by = "page" /\ c.what = "set" /\ c.step = "asked" /\ c.live = asks[i].live
                          /\ c.choice = asks[i].choice /\ c.next = asks[i].next /\ c.lang = Unchosen
  BY <1>2 DEF Set, Request
<1>4. PICK k \in Slots : AddsCall(Gone(asks, i), asks', k, c)
  BY <1>1, <1>3, AskInTurn
<1>5. QED
  BY <1>3, <1>4, SetAfterRegisterKeeps

(* The bar has set a model, and asks which one it is.                      *)
LEMMA PickedKeeps ==
    ASSUME SettingsInv, NEW i \in InFlight(asks), asks[i].step = "served", asks[i].what = "set", asks[i].next = "pick",
           asks' = Ask(Gone(asks, i), Get("bar", "pick")),
           UNCHANGED <<active, lang, pageVars, barVars, astray, apart>>, page' = page, latest' = latest
    PROVE  SettingsInv'
<1> DEFINE c == Get("bar", "pick")
<1>1. i \in Slots
  BY DEF SettingsInv, AsksInv
<1>2. c \in AskType /\ c.by = "bar" /\ c.what = "config" /\ c.step = "asked"
  BY DEF Get, Request, AskType, Selections
<1>3. PICK k \in Slots : AddsCall(Gone(asks, i), asks', k, c)
  BY <1>1, AskInTurn
<1>4. DOMAIN asks' = (DOMAIN asks \ {i}) \union {k} /\ asks'[k] = c /\ k \notin DOMAIN asks \ {i}
      /\ \A j \in DOMAIN asks \ {i} : asks'[j] = asks[j]
  BY <1>2, <1>3, ReplacedIs
<1>5. AsksInv'
  BY <1>2, <1>3, ReplacedIs
<1>6. i \in Setting /\ Setting' = Setting \ {i}
  BY <1>2, <1>4 DEF Setting, InFlight
<1>7. DefaultsInv'
  <2>1. \A j \in Setting' : asks'[j] = asks[j]
    BY <1>4, <1>6 DEF Setting, InFlight
  <2>2. ~Between(asks[i])
    BY DEF Between
  <2>3. QED
    BY <1>6, <2>1, <2>2, GoneDefaults
<1>8. PageInv'
  <2>1. ASSUME page = "settings", ~astray PROVE FALSE
    BY <1>6, <2>1, Offered DEF SettingsInv, PageInv, Coming
  <2>2. QED
    BY <2>1 DEF PageInv
<1>9. Unheard'
  BY <1>2, <1>4 DEF SettingsInv, Unheard, InFlight
<1>10. QED
  BY <1>5, <1>7, <1>8, <1>9 DEF SettingsInv

(* The page has set something, and shows it.                               *)
LEMMA ToldKeeps ==
    ASSUME SettingsInv, NEW i \in InFlight(asks), asks[i].step = "served", asks[i].what = "set",
           asks' = Gone(asks, i), shown' = Told(asks[i]),
           sel' = IF asks[i].live /\ asks[i].next = "quick" THEN asks[i].choice ELSE sel,
           UNCHANGED <<active, lang, shownLang, barVars, astray, apart>>, page' = page, latest' = latest
    PROVE  SettingsInv'
<1> USE DEF barVars
<1>1. asks[i] \in AskType /\ i \in Setting
  BY DEF SettingsInv, AsksInv, SettingsTypeOK, AskType, Setting
<1>2. Setting' = Setting \ {i} /\ Mounting' = Mounting \ {i} /\ \A j \in DOMAIN asks' : asks'[j] = asks[j]
  BY GoneIs DEF SettingsInv
<1>3. AsksInv' /\ Unheard'
  <2>1. shown' \in Selections /\ sel' \in Selections
    BY <1>1 DEF Told, AskType, SettingsInv, AsksInv, SettingsTypeOK
  <2>2. QED
    BY <2>1, GoneTypes DEF SettingsInv, AsksInv, SettingsTypeOK
<1>4. DefaultsInv'
  <2>1. \A j \in Setting' : asks'[j] = asks[j]
    BY <1>2 DEF Setting, InFlight
  <2>2. ~Between(asks[i])
    BY DEF Between
  <2>3. QED
    BY <1>2, <2>1, <2>2, GoneDefaults
<1>5. PageInv'
  <2>1. SUFFICES ASSUME page = "settings", ~astray PROVE PageInv'
    BY DEF PageInv
  <2>2. Setting = {i} /\ Mounting = {} /\ Coming(asks[i])
    BY <1>1, <2>1 DEF SettingsInv, PageInv
  <2>3. shown' = active /\ shownLang' = lang
    BY <2>2 DEF Coming, Told
  <2>4. QED
    BY <1>2, <2>2, <2>3 DEF PageInv
<1>6. QED
  BY <1>3, <1>4, <1>5 DEF SettingsInv

LEMMA SettingsAnsweredKeeps ==
    ASSUME SettingsInv, NEW i \in InFlight(asks), SettingsAnswered(i), page' = page, latest' = latest
    PROVE  SettingsInv'
<1>1. asks[i].step = "served" /\ UNCHANGED <<active, lang, astray, apart>>
  BY DEF SettingsAnswered
<1>2. CASE ConfigShown(i)
  BY <1>1, <1>2, ConfigShownKeeps
<1>3. CASE SetAnswered(i)
  BY <1>1, <1>3, RegisteredKeeps, PickedKeeps, ToldKeeps DEF SetAnswered, pageVars
<1>4. QED
  BY <1>2, <1>3 DEF SettingsAnswered

(* The bar asks every 15 seconds.                                          *)
LEMMA PollKeeps ==
    ASSUME SettingsInv, Poll, DefaultsStay, page' = page
    PROVE  SettingsInv'
<1>1. PICK k \in Slots : AddsCall(asks, asks', k, Get("bar", ""))
  BY RoomForThis DEF Poll, SettingsInv, AsksInv, InFlight
<1>2. QED
  BY <1>1, BarAskKeeps DEF Poll

LEMMA ClickBarKeeps ==
    ASSUME SettingsInv, ClickBar, DefaultsStay, page' = page
    PROVE  SettingsInv'
<1>1. ASSUME TogglePicking PROVE SettingsInv'
  BY <1>1, QuietKeeps DEF TogglePicking, pageVars, SettingsInv, AsksInv, SettingsTypeOK
<1>2. QED
  BY <1>1, PickModelKeeps DEF ClickBar

-----------------------------------------------------------------------------
(* The handlers of the front end's requests, and config.json: of the list  *)
(* of projects each takes away, or adds what is a project; the others save *)
(* it as they loaded it.                                                   *)

SavesProjects == \E h, more, less : more \subseteq Projects /\ Amend(h, "projects", more, less)
SavesOther ==
    \E h :
        \/ Load(h) \/ Abandon(h) \/ Empty(h)
        \/ \E change : DOMAIN change \subseteq Fields \ {"projects"} /\ Put(h, change)
        \/ \E more, less : Amend(h, "keys", more, less)

(* What is in the list, and in what handlers have loaded of it.            *)
ListInv ==
    /\ file["projects"] \subseteq Projects
    /\ \A h \in AtWork : loaded[h]["projects"] \subseteq Projects

(* The list is as it was, as far as it can be told.                        *)
ListStays ==
    /\ "projects" \in torn => "projects" \in torn'
    /\ "projects" \notin torn' => file'["projects"] = file["projects"]

LEMMA FileStepKeeps == ASSUME FileInv, SavesProjects \/ SavesOther \/ UNCHANGED fileVars PROVE FileInv'
<1>1. {"projects", "keys"} \subseteq Fields
  BY PanelAssumption, SettingsAssumption
<1>2. ASSUME NEW h, NEW change, DOMAIN change \subseteq Fields \ {"projects"}, Put(h, change) PROVE FileInv'
  BY <1>2, FileInvPut
<1>3. QED
  BY <1>1, <1>2, FileInvLoad, FileInvAbandon, FileInvEmpty, FileInvAmend, FileInvSame DEF SavesProjects, SavesOther

LEMMA SaveKeepsList ==
    ASSUME FileInv, ListInv, NEW h, NEW contents, NEW own, Save(h, contents, own),
           h \in AtWork => contents["projects"] \subseteq Projects
    PROVE  ListInv'
<1>1. h \in half /\ loaded' = [g \in AtWork \ {h} |-> loaded[g]] /\ (file' = contents \/ file' = Defaults)
  BY DEF Save
<1>2. h \in AtWork
  BY <1>1 DEF FileInv, LoadedInv
<1>3. file'["projects"] \subseteq Projects
  BY <1>1, <1>2, PanelAssumption
<1>4. \A g \in AtWork' : loaded'[g]["projects"] \subseteq Projects
  BY <1>1 DEF ListInv, AtWork
<1>5. QED
  BY <1>3, <1>4 DEF ListInv

LEMMA ListStepKeeps == ASSUME FileInv, ListInv, SavesProjects \/ SavesOther \/ UNCHANGED fileVars PROVE ListInv'
<1>1. ASSUME NEW h, Load(h) PROVE ListInv'
  <2>1. file' = file /\ loaded' = [g \in AtWork \union {h} |-> IF g = h THEN Readable ELSE loaded[g]]
    BY <1>1 DEF Load
  <2>2. Readable["projects"] \subseteq Projects
    BY PanelAssumption DEF Readable, ListInv
  <2>3. QED
    BY <2>1, <2>2 DEF ListInv, AtWork
<1>2. ASSUME NEW h, Abandon(h) PROVE ListInv'
  BY <1>2 DEF Abandon, ListInv, AtWork
<1>3. ASSUME NEW h, Empty(h) PROVE ListInv'
  BY <1>3 DEF Empty, ListInv, AtWork
<1>4. ASSUME NEW h, NEW change, DOMAIN change \subseteq Fields \ {"projects"}, Put(h, change) PROVE ListInv'
  <2>1. h \in AtWork => Changed(loaded[h], change)["projects"] \subseteq Projects
    BY <1>4, PanelAssumption DEF Changed, ListInv
  <2>2. QED
    BY <1>4, <2>1, SaveKeepsList DEF Put
<1>5. ASSUME NEW h, NEW field \in {"projects", "keys"}, NEW more, NEW less,
             field = "projects" => more \subseteq Projects, Amend(h, field, more, less)
      PROVE  ListInv'
  <2>1. h \in AtWork => Amended(loaded[h], field, more, less)["projects"] \subseteq Projects
    BY <1>5, PanelAssumption DEF Amended, ListInv, FileInv, LoadedInv
  <2>2. QED
    BY <1>5, <2>1, SaveKeepsList DEF Amend
<1>6. ASSUME UNCHANGED fileVars PROVE ListInv'
  BY <1>6 DEF fileVars, ListInv, AtWork
<1>7. QED
  BY <1>1, <1>2, <1>3, <1>4, <1>5, <1>6 DEF SavesProjects, SavesOther

LEMMA SavesOtherKeepsList == ASSUME FileInv, SavesOther \/ UNCHANGED fileVars PROVE ListStays
<1>1. ASSUME NEW h, Load(h) \/ Abandon(h) \/ Empty(h) PROVE ListStays
  BY <1>1 DEF Load, Abandon, Empty, ListStays
<1>2. ASSUME NEW h, NEW contents, NEW own, Save(h, contents, own), "projects" \notin own,
             h \in AtWork => contents["projects"] = loaded[h]["projects"]
      PROVE  ListStays
  <2>1. h \in AtWork
    BY <1>2 DEF Save, FileInv, LoadedInv
  <2>2. "projects" \in Fields
    BY PanelAssumption
  <2>3. "projects" \in torn => "projects" \in torn'
    BY <1>2, <2>2 DEF Save
  <2>4. "projects" \notin torn' => file'["projects"] = file["projects"]
    BY <1>2, <2>1, <2>2, SaveTears
  <2>5. QED
    BY <2>3, <2>4 DEF ListStays
<1>3. ASSUME NEW h, NEW change, DOMAIN change \subseteq Fields \ {"projects"}, Put(h, change) PROVE ListStays
  <2>1. Changed(loaded[h], change)["projects"] = loaded[h]["projects"]
    BY <1>3, PanelAssumption DEF Changed
  <2>2. QED
    BY <1>2, <1>3, <2>1 DEF Put
<1>4. ASSUME NEW h, NEW more, NEW less, Amend(h, "keys", more, less) PROVE ListStays
  <2>1. Amended(loaded[h], "keys", more, less)["projects"] = loaded[h]["projects"]
    BY DEF Amended
  <2>2. QED
    BY <1>2, <1>4, <2>1 DEF Amend
<1>5. ASSUME UNCHANGED fileVars PROVE ListStays
  BY <1>5 DEF fileVars, ListStays
<1>6. QED
  BY <1>1, <1>3, <1>4, <1>5 DEF SavesOther

(* What the settings' handlers do to it, and what that is to the defaults  *)
(* of the provider, the model and the language.                            *)
LEMMA SettingsSave == ASSUME NEW i, ServeSettings(i) PROVE SavesOther \/ UNCHANGED fileVars
<1>1. ASSUME EndAskSave(i) PROVE SavesOther
  <2>1. DOMAIN Asked(asks[i]) \subseteq {"provider", "model", "lang"}
    BY DEF Asked
  <2>2. DOMAIN Asked(asks[i]) \subseteq Fields \ {"projects"}
    BY <2>1, SettingsAssumption
  <2>3. QED
    BY <1>1, <2>2 DEF EndAskSave, SavesOther
<1>2. QED
  BY <1>1 DEF ServeSettings, ServeConfig, BeginRegister, BeginSet, BeginAskSave, SavesOther, fileVars

(* The panel's handlers change the list of projects, or the project.       *)
LEMMA PanelSave ==
    ASSUME NEW i, ServePanel(i), calls[i].what = "add" /\ calls[i].step = "saving" => calls[i].arg \in Projects
    PROVE  SavesProjects \/ SavesOther \/ UNCHANGED fileVars
<1> USE DEF Handler
<1>1. ASSUME EndSave(i) PROVE SavesProjects \/ SavesOther
  <2>1. CASE calls[i].what = "switch"
    <3>1. DOMAIN [f \in {"workDir"} |-> {calls[i].arg}] \subseteq Fields \ {"projects"}
      BY PanelAssumption
    <3>2. QED
      BY <1>1, <2>1, <3>1 DEF EndSave, SavesOther
  <2>2. CASE calls[i].what = "remove"
    BY <1>1, <2>2 DEF EndSave, SavesProjects
  <2>3. CASE calls[i].what = "add"
    BY <1>1, <2>3 DEF EndSave, SavesProjects
  <2>4. QED
    BY <1>1, <2>1, <2>2, <2>3 DEF EndSave
<1>2. CASE ServeQuestion(i) \/ ServeDelete(i) \/ Refuse(i) \/ EndAdd(i)
  BY <1>2 DEF ServeQuestion, ServeDelete, Refuse, EndAdd
<1>3. CASE BeginSwitch(i) \/ BeginChange(i) \/ GiveUp(i) \/ BeginSave(i)
  BY <1>3 DEF BeginSwitch, BeginChange, GiveUp, BeginSave, SavesOther
<1>4. QED
  BY <1>1, <1>2, <1>3 DEF ServePanel

-----------------------------------------------------------------------------
(* Requests of the panel and of the picker (Panel).                        *)

CallType ==
    [by : {"panel", "picker"}, live : BOOLEAN, arg : Projects \union Sessions \union {Nowhere, Unset},
     what : {"projects", "workspace", "sessions", "tree", "browse", "switch", "add", "remove", "delete"},
     next : {"", "switch", "add"}, step : {"asked", "begun", "saving", "saved", "served"},
     found : SUBSET (Projects \union Sessions), at : Projects \union {Nowhere}]

ListType == [all : SUBSET Projects, active : Projects \union {Nowhere}]
PanelType ==
    [projects : ListType, tree : Projects \union {Nowhere}, sessions : SUBSET Sessions, nothing : BOOLEAN,
     list : BOOLEAN, adding : BOOLEAN, at : Projects \union {Nowhere, Unset}]
PickerType == [projects : ListType, open : BOOLEAN]

(* What only some requests can be, and what of them is answered.           *)
CallTrue(c) ==
    /\ c.by = "picker" => c.what \in {"projects", "switch"}
    /\ c.step \in {"begun", "saving"} => c.what \in {"switch", "add", "remove"}
    /\ c.step = "saved" => c.what = "add"
    /\ c.what \in {"switch", "add"} /\ c.step \in {"begun", "saving", "saved"} => c.arg \in Folders
    /\ c.what = "projects" => c.found \subseteq Projects
    /\ c.what = "sessions" => c.found \subseteq Sessions /\ c.arg \in Projects \union {Nowhere}

CallsInv ==
    /\ calls \in [DOMAIN calls -> CallType] /\ DOMAIN calls \subseteq Slots
    /\ \A i \in DOMAIN calls : CallTrue(calls[i])
    /\ ~PanelThere(page) => \A i \in DOMAIN calls : calls[i].by = "panel" => ~calls[i].live

ShownInv ==
    /\ panel \in PanelType /\ picker \in PickerType
    /\ stored \in [Projects -> SUBSET Sessions]
    /\ kairosAt \in Projects /\ blurred \subseteq Lists

LEMMA PanelTyped == CallsInv /\ ShownInv => PanelTypeOK
BY DEF CallsInv, ShownInv, PanelTypeOK, CallType, PanelType, PickerType, ListType, InFlight

LEMMA ListedType == ASSUME NEW all \in SUBSET Projects, NEW at PROVE Listed(all, at) \in ListType
BY DEF Listed, ListType

(* What may be asked for, and what is asked for then.                      *)
CanAsk(by, what, arg, next) ==
    /\ by \in {"panel", "picker"} /\ arg \in Projects \union Sessions \union {Nowhere, Unset}
    /\ what \in {"projects", "workspace", "sessions", "tree", "browse", "switch", "add", "remove", "delete"}
    /\ next \in {"", "switch", "add"}
    /\ by = "picker" => what \in {"projects", "switch"}
    /\ what = "sessions" => arg \in Projects \union {Nowhere}

IsAsked(c, by, what, arg, next) ==
    /\ c \in CallType /\ CallTrue(c)
    /\ c.by = by /\ c.what = what /\ c.arg = arg /\ c.next = next /\ c.step = "asked"

LEMMA NewCall ==
    ASSUME NEW by, NEW what, NEW arg, NEW next, CanAsk(by, what, arg, next)
    PROVE  IsAsked(Call(by, what, arg, next), by, what, arg, next) /\ Call(by, what, arg, next).live = TRUE
<1> DEFINE c == Call(by, what, arg, next)
<1>1. c.by = by /\ c.what = what /\ c.arg = arg /\ c.next = next /\ c.step = "asked" /\ c.found = {} /\ c.at = Nowhere
      /\ c.live = TRUE
  BY DEF Call
<1>2. c \in CallType
  BY DEF Call, CallType, CanAsk
<1>3. CallTrue(c)
  BY <1>1 DEF CallTrue, CanAsk
<1>4. QED
  BY <1>1, <1>2, <1>3 DEF IsAsked

(* The same on behalf of a function that goes on, shown or not.            *)
LEMMA NewAsking ==
    ASSUME NEW i, NEW what, NEW arg, NEW next, CanAsk(calls[i].by, what, arg, next), calls[i].live \in BOOLEAN
    PROVE  /\ IsAsked(Asking(i, what, arg, next), calls[i].by, what, arg, next)
           /\ Asking(i, what, arg, next).live = calls[i].live
<1> DEFINE c == Asking(i, what, arg, next)
<1>1. PICK r : r = Call(calls[i].by, what, arg, next) /\ IsAsked(r, calls[i].by, what, arg, next)
  BY NewCall
<1>2. c = [r EXCEPT !.live = calls[i].live]
  BY <1>1 DEF Asking
<1>3. c \in CallType /\ c.by = r.by /\ c.what = r.what /\ c.arg = r.arg /\ c.next = r.next /\ c.step = r.step
      /\ c.found = r.found /\ c.live = calls[i].live
  BY <1>1, <1>2 DEF CallType, IsAsked
<1>4. CallTrue(c)
  BY <1>1, <1>3 DEF CallTrue, IsAsked
<1>5. QED
  BY <1>1, <1>3, <1>4 DEF IsAsked

(* Some requests stay, one is answered, others are asked for.              *)
Follow(i, new) ==
    /\ DOMAIN calls' = (DOMAIN calls \ {i}) \union new /\ (DOMAIN calls \ {i}) \intersect new = {}
    /\ \A j \in DOMAIN calls \ {i} : calls'[j] = calls[j]

LEMMA CallsInvFollow ==
    ASSUME CallsInv, NEW i, NEW new \in SUBSET Slots, Follow(i, new), calls' = [j \in DOMAIN calls' |-> calls'[j]],
           PanelThere(page') <=> PanelThere(page),
           \A k \in new : /\ calls'[k] \in CallType /\ CallTrue(calls'[k])
                          /\ ~PanelThere(page) /\ calls'[k].by = "panel" => ~calls'[k].live
    PROVE  CallsInv'
<1>1. \A j \in DOMAIN calls' : calls'[j] \in CallType /\ CallTrue(calls'[j])
  BY DEF CallsInv, Follow
<1>2. calls' \in [DOMAIN calls' -> CallType] /\ DOMAIN calls' \subseteq Slots
  BY <1>1 DEF CallsInv, Follow
<1>3. ~PanelThere(page') => \A j \in DOMAIN calls' : calls'[j].by = "panel" => ~calls'[j].live
  BY DEF CallsInv, Follow
<1>4. QED
  BY <1>1, <1>2, <1>3 DEF CallsInv, CallTrue

(* One request is asked for, and none answered.                            *)
LEMMA AskFollows ==
    ASSUME DOMAIN calls \subseteq Slots, Room(calls, 1), NEW c, calls' = Ask(calls, c)
    PROVE  \E k \in Slots : /\ k \notin DOMAIN calls /\ Follow(k, {k}) /\ calls'[k] = c
                            /\ DOMAIN calls' = DOMAIN calls \union {k} /\ \A j \in DOMAIN calls : calls'[j] = calls[j]
                            /\ calls' = [j \in DOMAIN calls' |-> calls'[j]]
<1>1. PICK k \in Slots : AddsCall(calls, calls', k, c)
  BY RoomForThis
<1>2. QED
  BY <1>1 DEF AddsCall, Follow

(* One is answered; or answered, and another asked for.                    *)
LEMMA GoneFollows ==
    ASSUME NEW i, calls' = Gone(calls, i)
    PROVE  Follow(i, {}) /\ calls' = [j \in DOMAIN calls' |-> calls'[j]]
BY DEF Gone, Follow

LEMMA NextFollows ==
    ASSUME NEW i \in Slots, NEW c, calls' = Ask(Gone(calls, i), c)
    PROVE  \E k \in Slots : Follow(i, {k}) /\ calls'[k] = c /\ calls' = [j \in DOMAIN calls' |-> calls'[j]]
<1>1. PICK k \in Slots : AddsCall(Gone(calls, i), calls', k, c)
  BY AskInTurn
<1>2. DOMAIN Gone(calls, i) = DOMAIN calls \ {i} /\ \A j \in DOMAIN calls \ {i} : Gone(calls, i)[j] = calls[j]
  BY DEF Gone
<1>3. QED
  BY <1>1, <1>2 DEF AddsCall, Follow

IsFunction(f) == f = [x \in DOMAIN f |-> f[x]]

(* Three are asked for at once.                                            *)
AddsThree(cs, all, a, b, c, i, j, k) ==
    /\ i # j /\ j # k /\ i # k /\ {i, j, k} \intersect DOMAIN cs = {}
    /\ DOMAIN all = DOMAIN cs \union {i, j, k}
    /\ all[i] = a /\ all[j] = b /\ all[k] = c /\ \A n \in DOMAIN cs : all[n] = cs[n]
    /\ IsFunction(all)

LEMMA AskThree ==
    ASSUME NEW cs, DOMAIN cs \subseteq Slots, Room(cs, 2 + 1), NEW a, NEW b, NEW c, NEW all,
           all = Ask(Ask(Ask(cs, a), b), c)
    PROVE  \E i, j, k \in Slots : AddsThree(cs, all, a, b, c, i, j, k)
<1>1. PICK i \in Slots : AddsCall(cs, Ask(cs, a), i, a) /\ Room(Ask(cs, a), 2)
  BY RoomForOne, AskTakesFree
<1>2. PICK one : one = Ask(cs, a) /\ AddsCall(cs, one, i, a) /\ Room(one, 1 + 1)
  BY <1>1
<1>3. DOMAIN one \subseteq Slots
  BY <1>2 DEF AddsCall
<1>4. PICK j \in Slots : AddsCall(one, Ask(one, b), j, b) /\ Room(Ask(one, b), 1)
  BY <1>2, <1>3, RoomForOne, AskTakesFree
<1>5. PICK two : two = Ask(one, b) /\ AddsCall(one, two, j, b) /\ Room(two, 1)
  BY <1>4
<1>6. DOMAIN two \subseteq Slots
  BY <1>3, <1>5 DEF AddsCall
<1>7. PICK k \in Slots : AddsCall(two, all, k, c)
  BY <1>2, <1>5, <1>6, RoomForThis
<1>8. DOMAIN one = DOMAIN cs \union {i} /\ i \notin DOMAIN cs /\ one[i] = a /\ \A n \in DOMAIN cs : one[n] = cs[n]
  BY <1>2 DEF AddsCall
<1>9. DOMAIN two = DOMAIN one \union {j} /\ j \notin DOMAIN one /\ two[j] = b /\ \A n \in DOMAIN one : two[n] = one[n]
  BY <1>5 DEF AddsCall
<1>10. DOMAIN all = DOMAIN two \union {k} /\ k \notin DOMAIN two /\ all[k] = c /\ \A n \in DOMAIN two : all[n] = two[n]
       /\ IsFunction(all)
  BY <1>7 DEF AddsCall, IsFunction
<1>11. AddsThree(cs, all, a, b, c, i, j, k)
  BY <1>8, <1>9, <1>10 DEF AddsThree
<1>12. QED
  BY <1>11

LEMMA GoneRoom ==
    ASSUME NEW cs, DOMAIN cs \subseteq Slots, NEW i \in DOMAIN cs, NEW n \in Nat, Room(cs, n)
    PROVE  Room(Gone(cs, i), n + 1)
<1>0. IsFiniteSet(Slots)
  BY FS_Interval, CallsAssumption DEF Slots
<1>1. IsFiniteSet(DOMAIN cs) /\ Cardinality(DOMAIN cs) \in Nat
  BY <1>0, FS_Subset, FS_CardinalityType
<1>2. DOMAIN Gone(cs, i) = DOMAIN cs \ {i}
  BY DEF Gone
<1>3. Cardinality(DOMAIN cs \ {i}) = Cardinality(DOMAIN cs) - 1
  BY <1>1, FS_RemoveElement
<1>4. Cardinality(DOMAIN cs) + n <= MaxCalls /\ MaxCalls \in Nat
  BY CallsAssumption DEF Room, InFlight
<1>5. QED
  BY <1>1, <1>2, <1>3, <1>4 DEF Room, InFlight

-----------------------------------------------------------------------------
(* What is listed, and what is still asked of it (Panel).                  *)

(* A switch, or an addition, ends with the question for all lists.         *)
Follows(c) == c.what \in {"switch", "add"} \/ (c.what = "projects" /\ c.next # "")

(* Handling what is left of this request will show list `l' anew.          *)
Renews(c, l) ==
    \/ l = "picker" /\ (c.by = "picker" \/ Follows(c))
    \/ /\ c.by = "panel" /\ c.live
       /\ \/ l \in PanelLists /\ Follows(c)
          \/ l = "projects" /\ c.what \in {"projects", "remove"}
          \/ l = "sessions" /\ c.what \in {"sessions", "workspace", "delete"}
          \/ l = "tree" /\ c.what = "tree"

Right(l) ==
    /\ l = "picker" => "projects" \in torn \/ picker.projects = Listed(file["projects"], workDir)
    /\ l = "projects" => "projects" \in torn \/ panel.projects = Listed(file["projects"], workDir)
    /\ l = "tree" => panel.tree = workDir
    /\ l = "sessions" => panel.sessions = stored[workDir]

Kept(l) == Right(l) \/ \E i \in DOMAIN calls : Renews(calls[i], l)

(* The answers that will be shown somewhere where it matters are as the    *)
(* server has it.                                                          *)
Matters(c) == IF c.by = "panel" THEN c.live ELSE "picker" \notin blurred
Fresh(c) ==
    Matters(c) =>
        /\ c.step = "served" /\ c.what = "projects" =>
               c.at = workDir /\ ("projects" \in torn \/ c.found = file["projects"])
        /\ c.step = "served" /\ c.what \in {"workspace", "tree"} => c.at = workDir
        /\ c.what = "sessions" => c.arg = workDir /\ (c.step = "served" => c.found = stored[workDir])

(* While something is changed, no list is asked for.                       *)
OneChange ==
    \A i \in Changing :
        /\ \A j \in DOMAIN calls \ {i} : calls[j].what = "browse"
        /\ calls[i].by = "picker" => PanelLists \subseteq blurred
        /\ calls[i].by = "panel" /\ PanelThere(page) => calls[i].live
        /\ calls[i].what = "remove" => "picker" \in blurred

Seen(l) == l \in Lists \ blurred /\ (l = "picker" \/ PanelThere(page))

ListsInv ==
    blurred # Lists =>
        /\ OneChange
        /\ \A i \in DOMAIN calls : Fresh(calls[i])
        /\ \A l \in Lists : Seen(l) => Kept(l)

LEMMA ListsShown == ListsInv => ListsFresh(PanelThere(page))
<1> SUFFICES ASSUME ListsInv, DOMAIN calls = {} PROVE ListsFresh(PanelThere(page))
  BY DEF ListsFresh, InFlight
<1>1. CASE blurred = Lists
  BY <1>1 DEF ListsFresh, Lists
<1>2. CASE blurred # Lists
  <2>1. \A l \in Lists : Seen(l) => Right(l)
    BY <1>2 DEF ListsInv, Kept
  <2>2. QED
    BY <2>1 DEF ListsFresh, Seen, Right, Lists
<1>3. QED
  BY <1>1, <1>2

(* The server's part of the lists, and the lists, stay as they are.        *)
ServerStays == workDir' = workDir /\ stored' = stored /\ ListStays
ShownStays ==
    /\ panel'.projects = panel.projects /\ panel'.tree = panel.tree /\ panel'.sessions = panel.sessions
    /\ picker'.projects = picker.projects

LEMMA RightStays == ASSUME ServerStays, ShownStays, NEW l, Right(l) PROVE Right(l)'
BY DEF ServerStays, ShownStays, ListStays, Right, Listed

LEMMA FreshStays ==
    ASSUME ServerStays, NEW c, Fresh(c), Matters(c)' => Matters(c)
    PROVE  Fresh(c)'
BY DEF ServerStays, ListStays, Fresh

LEMMA QuietLists ==
    ASSUME ListsInv, ServerStays, ShownStays, UNCHANGED <<calls, blurred>>, PanelThere(page') <=> PanelThere(page)
    PROVE  ListsInv'
<1> SUFFICES ASSUME blurred # Lists PROVE ListsInv'
  BY DEF ListsInv
<1>1. OneChange'
  BY DEF ListsInv, OneChange, Changing, InFlight, PanelThere
<1>2. ASSUME NEW i \in DOMAIN calls PROVE Fresh(calls[i])'
  <2>1. Fresh(calls[i])
    BY DEF ListsInv
  <2>2. Matters(calls[i])' => Matters(calls[i])
    BY DEF Matters
  <2>3. QED
    BY <2>1, <2>2 DEF ServerStays, ListStays, Fresh, Matters
<1>3. ASSUME NEW l \in Lists, Seen(l)' PROVE Kept(l)'
  <2>1. Kept(l)
    BY <1>3 DEF ListsInv, Seen, PanelThere
  <2>2. QED
    BY <2>1, RightStays DEF Kept, Renews, Follows
<1>4. QED
  BY <1>1, <1>2, <1>3 DEF ListsInv

(* One request is answered, or none, and others are asked for that change  *)
(* nothing.                                                                *)
LEMMA FollowLists ==
    ASSUME ListsInv, NEW i, NEW new, Follow(i, new), ServerStays, blurred' = blurred, page' = page,
           \A k \in new : /\ calls'[k].what \notin {"switch", "add", "remove", "delete"}
                          /\ blurred # Lists => Fresh(calls[k])'
                          /\ calls'[k].what = "browse" \/ (i \in DOMAIN calls /\ calls[i].what # "browse"),
           blurred # Lists =>
               \A l \in Lists : Seen(l) =>
                   /\ Right(l) => Right(l)'
                   /\ i \in DOMAIN calls /\ Renews(calls[i], l) => Right(l)' \/ \E k \in new : Renews(calls'[k], l)
    PROVE  ListsInv'
<1> SUFFICES ASSUME blurred # Lists PROVE ListsInv'
  BY DEF ListsInv
<1>1. \A j \in DOMAIN calls' : j \in new \/ (j \in DOMAIN calls \ {i} /\ calls'[j] = calls[j])
  BY DEF Follow
<1>2. OneChange'
  <2>1. SUFFICES ASSUME NEW c \in Changing'
                 PROVE  /\ \A j \in DOMAIN calls' \ {c} : calls'[j].what = "browse"
                        /\ calls'[c].by = "picker" => PanelLists \subseteq blurred
                        /\ calls'[c].by = "panel" /\ PanelThere(page) => calls'[c].live
                        /\ calls'[c].what = "remove" => "picker" \in blurred
    BY DEF OneChange, PanelThere
  <2>2. c \in Changing /\ c # i /\ calls'[c] = calls[c] /\ c \notin new
    BY <1>1 DEF Changing, InFlight
  <2>3. \A j \in DOMAIN calls \ {c} : calls[j].what = "browse"
    BY <2>2 DEF ListsInv, OneChange
  <2>4. \A k \in new : calls'[k].what = "browse"
    BY <2>2, <2>3
  <2>5. QED
    BY <1>1, <2>2, <2>3, <2>4 DEF ListsInv, OneChange
<1>3. ASSUME NEW j \in DOMAIN calls' PROVE Fresh(calls[j])'
  <2>1. CASE j \in DOMAIN calls \ {i} /\ calls'[j] = calls[j]
    <3>1. Fresh(calls[j])
      BY <2>1 DEF ListsInv
    <3>2. QED
      BY <2>1, <3>1 DEF ServerStays, ListStays, Fresh, Matters
  <2>2. QED
    BY <1>1, <2>1
<1>4. ASSUME NEW l \in Lists, Seen(l)' PROVE Kept(l)'
  <2>1. Seen(l) /\ Kept(l)
    BY <1>4 DEF ListsInv, Seen, PanelThere
  <2>2. ASSUME NEW j \in DOMAIN calls \ {i}, Renews(calls[j], l) PROVE Kept(l)'
    <3>1. j \in DOMAIN calls' /\ calls'[j] = calls[j]
      BY DEF Follow
    <3>2. QED
      BY <2>2, <3>1 DEF Kept, Renews, Follows
  <2>3. CASE Right(l)
    BY <2>1, <2>3 DEF Kept
  <2>4. CASE i \in DOMAIN calls /\ Renews(calls[i], l)
    <3>1. CASE Right(l)'
      BY <3>1 DEF Kept
    <3>2. ASSUME NEW k \in new, Renews(calls'[k], l) PROVE Kept(l)'
      <4>1. k \in DOMAIN calls'
        BY DEF Follow
      <4>2. QED
        BY <3>2, <4>1 DEF Kept, Renews, Follows
    <3>3. QED
      BY <2>1, <2>4, <3>1, <3>2
  <2>5. QED
    BY <2>1, <2>2, <2>3, <2>4 DEF Kept
<1>5. QED
  BY <1>2, <1>3, <1>4 DEF ListsInv

(* The server goes on with a request.                                      *)
LEMMA ServeLists ==
    ASSUME ListsInv, NEW i \in DOMAIN calls, Follow(i, {i}), blurred' = blurred, page' = page, ShownStays,
           calls'[i].by = calls[i].by, calls'[i].what = calls[i].what,
           calls'[i].next = calls[i].next, calls'[i].live = calls[i].live,
           blurred # Lists => Fresh(calls[i])',
           ServerStays \/ i \in Changing,
           blurred # Lists => \A l \in Lists : Seen(l) /\ Right(l) => Right(l)' \/ Renews(calls[i], l)
    PROVE  ListsInv'
<1> SUFFICES ASSUME blurred # Lists PROVE ListsInv'
  BY DEF ListsInv
<1>1. DOMAIN calls' = DOMAIN calls
      /\ \A j \in DOMAIN calls : /\ calls'[j].by = calls[j].by /\ calls'[j].what = calls[j].what
                                 /\ calls'[j].next = calls[j].next /\ calls'[j].live = calls[j].live
      /\ \A k \in DOMAIN calls : k # i => calls'[k] = calls[k]
  BY DEF Follow
<1>2. OneChange'
  <2>1. Changing' = Changing
    BY <1>1 DEF Changing, InFlight
  <2>2. QED
    BY <1>1, <2>1 DEF ListsInv, OneChange, Changing, InFlight, PanelThere
<1>3. ASSUME NEW j \in DOMAIN calls' PROVE Fresh(calls[j])'
  <2>1. CASE j # i /\ ServerStays
    <3>1. Fresh(calls[j]) /\ calls'[j] = calls[j]
      BY <1>1, <2>1 DEF ListsInv
    <3>2. QED
      BY <2>1, <3>1 DEF ServerStays, ListStays, Fresh, Matters
  <2>2. CASE j # i /\ i \in Changing
    <3>1. calls'[j].what = "browse"
      BY <1>1, <2>2 DEF ListsInv, OneChange
    <3>2. QED
      BY <3>1 DEF Fresh
  <2>3. QED
    BY <2>1, <2>2
<1>4. ASSUME NEW l \in Lists, Seen(l)' PROVE Kept(l)'
  <2>1. Seen(l) /\ Kept(l)
    BY <1>4 DEF ListsInv, Seen, PanelThere
  <2>2. ASSUME NEW j \in DOMAIN calls, Renews(calls[j], l) PROVE Kept(l)'
    <3>1. Renews(calls'[j], l)
      <4>1. calls'[j].by = calls[j].by /\ calls'[j].what = calls[j].what
            /\ calls'[j].next = calls[j].next /\ calls'[j].live = calls[j].live
        BY <1>1
      <4>2. QED
        BY <2>2, <4>1 DEF Renews, Follows
    <3>2. QED
      BY <1>1, <3>1 DEF Kept, Renews, Follows
  <2>3. QED
    BY <2>1, <2>2 DEF Kept
<1>5. QED
  BY <1>2, <1>3, <1>4 DEF ListsInv

(* Something is asked to be changed.                                       *)
LEMMA BlurringLists ==
    ASSUME ListsInv, blurred \subseteq Lists, NEW more, NEW less, more # Lists,
           NEW k, k \notin DOMAIN calls, Follow(k, {k}), ServerStays, ShownStays, page' = page,
           blurred' = Blurring(more, less),
           calls'[k].by = "picker" => PanelLists \subseteq more,
           calls'[k].by = "panel" => calls'[k].live,
           calls'[k].what \in {"switch", "add", "remove", "delete"},
           calls'[k].what = "remove" => "picker" \in more,
           \A l \in less : l = "picker" \/ PanelThere(page) => Renews(calls'[k], l)
    PROVE  ListsInv'
<1> SUFFICES ASSUME blurred' # Lists PROVE ListsInv'
  BY DEF ListsInv
<1>1. DOMAIN calls = {} /\ blurred' = (blurred \ less) \union more
  BY DEF Blurring, InFlight
<1>2. DOMAIN calls' = {k}
  BY <1>1 DEF Follow
<1>3. OneChange'
  BY <1>1, <1>2 DEF OneChange, Changing, InFlight
<1>4. Fresh(calls[k])'
  BY DEF Fresh
<1>5. ASSUME NEW l \in Lists, Seen(l)' PROVE Kept(l)'
  <2>1. CASE l \in less
    <3>1. Renews(calls'[k], l)
      BY <1>5, <2>1 DEF Seen, PanelThere
    <3>2. QED
      BY <1>2, <3>1 DEF Kept, Renews, Follows
  <2>2. CASE l \notin less
    <3>1. Seen(l) /\ blurred # Lists
      BY <1>1, <1>5, <2>2 DEF Seen, PanelThere
    <3>2. Right(l)
      BY <1>1, <3>1 DEF ListsInv, Kept
    <3>3. QED
      BY <3>2, RightStays DEF Kept
  <2>3. QED
    BY <2>1, <2>2
<1>6. QED
  BY <1>2, <1>3, <1>4, <1>5 DEF ListsInv

PanelInv == CallsInv /\ ShownInv /\ ListsInv

LEMMA SameStays == ASSUME UNCHANGED <<workDir, stored>>, UNCHANGED fileVars PROVE ServerStays
BY DEF ServerStays, ListStays, fileVars

(* What is only shown or hidden.                                           *)
LEMMA ToggleKeeps ==
    ASSUME PanelInv, ServerStays, UNCHANGED <<calls, kairosAt, blurred>>, PanelThere(page') <=> PanelThere(page),
           panel' = panel \/ (\E l, a \in BOOLEAN : panel' = [panel EXCEPT !.list = l, !.adding = a]),
           picker' = picker \/ (\E o \in BOOLEAN : picker' = [picker EXCEPT !.open = o])
    PROVE  PanelInv'
<1>1. CallsInv'
  BY DEF PanelInv, CallsInv, CallTrue, PanelThere
<1>2. panel' \in PanelType /\ panel'.projects = panel.projects /\ panel'.tree = panel.tree
      /\ panel'.sessions = panel.sessions
  BY DEF PanelInv, ShownInv, PanelType
<1>3. picker' \in PickerType /\ picker'.projects = picker.projects
  BY DEF PanelInv, ShownInv, PickerType
<1>4. ShownInv'
  BY <1>2, <1>3 DEF PanelInv, ShownInv, ServerStays
<1>5. ListsInv'
  BY <1>2, <1>3, QuietLists DEF PanelInv, ShownStays
<1>6. QED
  BY <1>1, <1>4, <1>5 DEF PanelInv

LEMMA OneAsked ==
    ASSUME CallsInv, NEW i, NEW k \in Slots, Follow(i, {k}), calls' = [j \in DOMAIN calls' |-> calls'[j]], page' = page,
           calls'[k] \in CallType, CallTrue(calls'[k]),
           ~PanelThere(page) /\ calls'[k].by = "panel" => ~calls'[k].live
    PROVE  CallsInv'
<1>1. {k} \in SUBSET Slots /\ (PanelThere(page') <=> PanelThere(page))
  BY DEF PanelThere
<1>2. \A n \in {k} : /\ calls'[n] \in CallType /\ CallTrue(calls'[n])
                     /\ ~PanelThere(page) /\ calls'[n].by = "panel" => ~calls'[n].live
  OBVIOUS
<1>3. QED
  BY <1>1, <1>2, CallsInvFollow

LEMMA BrowsingLists ==
    ASSUME ListsInv, NEW k, k \notin DOMAIN calls, Follow(k, {k}), calls'[k].what = "browse",
           ServerStays, ShownStays, blurred' = blurred, page' = page
    PROVE  ListsInv'
<1>1. \A n \in {k} : /\ calls'[n].what \notin {"switch", "add", "remove", "delete"}
                     /\ Fresh(calls[n])' /\ calls'[n].what = "browse"
  BY DEF Fresh
<1>2. \A l \in Lists : Right(l) => Right(l)'
  BY RightStays
<1>3. QED
  BY <1>1, <1>2, FollowLists

(* Something is asked for, by a click.                                     *)
LEMMA AskingKeeps ==
    ASSUME PanelInv, ServerStays, page' = page, UNCHANGED <<uiVars, stored, kairosAt>>,
           NEW by, NEW what, NEW arg, CanAsk(by, what, arg, ""), Room(calls, 1), by = "panel" => PanelThere(page),
           calls' = Ask(calls, Call(by, what, arg, "")),
           \/ what = "browse" /\ blurred' = blurred
           \/ /\ what \in {"switch", "add", "remove", "delete"}
              /\ \E more, less \in SUBSET Lists :
                    /\ more # Lists /\ blurred' = Blurring(more, less)
                    /\ by = "picker" => PanelLists \subseteq more
                    /\ what = "remove" => "picker" \in more
                    /\ \A l \in less : l = "picker" \/ PanelThere(page) =>
                           Renews([by |-> by, what |-> what, next |-> "", live |-> TRUE], l)
    PROVE  PanelInv'
<1>1. PICK c : /\ c = Call(by, what, arg, "") /\ IsAsked(c, by, what, arg, "") /\ c.live = TRUE
  BY NewCall
<1>2. PICK k \in Slots : /\ k \notin DOMAIN calls /\ Follow(k, {k}) /\ calls'[k] = c
                         /\ calls' = [j \in DOMAIN calls' |-> calls'[j]]
  BY <1>1, AskFollows DEF PanelInv, CallsInv
<1>3. CallsInv'
  BY <1>1, <1>2, OneAsked DEF PanelInv, IsAsked
<1>4. blurred' \subseteq Lists
  BY DEF PanelInv, ShownInv, Blurring
<1>5. ShownInv'
  BY <1>4 DEF PanelInv, ShownInv, uiVars
<1>6. ShownStays
  BY DEF ShownStays, uiVars
<1>7. CASE what = "browse" /\ blurred' = blurred
  <2>1. calls'[k].what = "browse"
    BY <1>1, <1>2, <1>7 DEF IsAsked
  <2>2. ListsInv'
    BY <1>2, <1>6, <1>7, <2>1, BrowsingLists DEF PanelInv
  <2>3. QED
    BY <1>3, <1>5, <2>2 DEF PanelInv
<1>8. ASSUME what \in {"switch", "add", "remove", "delete"}, NEW more \in SUBSET Lists, NEW less \in SUBSET Lists,
             more # Lists, blurred' = Blurring(more, less),
             by = "picker" => PanelLists \subseteq more, what = "remove" => "picker" \in more,
             \A l \in less : l = "picker" \/ PanelThere(page) =>
                 Renews([by |-> by, what |-> what, next |-> "", live |-> TRUE], l)
      PROVE  PanelInv'
  <2>1. calls'[k].by = by /\ calls'[k].what = what /\ calls'[k].next = "" /\ calls'[k].live
    BY <1>1, <1>2 DEF IsAsked
  <2>2. ASSUME NEW l, Renews([by |-> by, what |-> what, next |-> "", live |-> TRUE], l) PROVE Renews(calls'[k], l)
    BY <2>1, <2>2 DEF Renews, Follows
  <2>3. ListsInv'
    BY <1>2, <1>6, <1>8, <2>1, <2>2, BlurringLists DEF PanelInv, ShownInv
  <2>4. QED
    BY <1>3, <1>5, <2>3 DEF PanelInv
<1>9. QED
  BY <1>7, <1>8

LEMMA ClickPanelKeeps ==
    ASSUME PanelInv, ServerStays, page' = page, PanelThere(page),
           \/ \E p \in Projects : ClickProject(p) \/ ClickRemove(p)
           \/ ClickAdding
           \/ \E s \in Sessions : ClickDelete(s)
    PROVE  PanelInv'
<1>1. ASSUME NEW p \in Projects, ClickProject(p) PROVE PanelInv'
  <2>1. CanAsk("panel", "switch", p, "")
    BY DEF CanAsk
  <2>2. \A l \in Lists : Renews([by |-> "panel", what |-> "switch", next |-> "", live |-> TRUE], l)
    BY DEF Renews, Follows, PanelLists
  <2>3. {} \in SUBSET Lists /\ Lists \in SUBSET Lists /\ {} # Lists
    BY DEF Lists
  <2>4. QED
    BY <1>1, <2>1, <2>2, <2>3, AskingKeeps DEF ClickProject
<1>2. ASSUME NEW p \in Projects, ClickRemove(p) PROVE PanelInv'
  <2>1. CanAsk("panel", "remove", p, "")
    BY DEF CanAsk
  <2>2. Renews([by |-> "panel", what |-> "remove", next |-> "", live |-> TRUE], "projects")
    BY DEF Renews
  <2>3. {"picker"} \in SUBSET Lists /\ {"projects"} \in SUBSET Lists /\ {"picker"} # Lists
    BY DEF Lists
  <2>4. QED
    BY <1>2, <2>1, <2>2, <2>3, AskingKeeps DEF ClickRemove
<1>3. ASSUME NEW s \in Sessions, ClickDelete(s) PROVE PanelInv'
  <2>1. CanAsk("panel", "delete", s, "")
    BY DEF CanAsk
  <2>2. Renews([by |-> "panel", what |-> "delete", next |-> "", live |-> TRUE], "sessions")
    BY DEF Renews
  <2>3. {} \in SUBSET Lists /\ {"sessions"} \in SUBSET Lists /\ {} # Lists
    BY DEF Lists
  <2>4. QED
    BY <1>3, <2>1, <2>2, <2>3, AskingKeeps DEF ClickDelete
<1>4. CASE ToggleList
  <2>1. panel' = [panel EXCEPT !.list = ~@, !.adding = FALSE]
    BY <1>4 DEF ToggleList
  <2>2. panel.list \in BOOLEAN
    BY DEF PanelInv, ShownInv, PanelType
  <2>3. \E l, a \in BOOLEAN : panel' = [panel EXCEPT !.list = l, !.adding = a]
    BY <2>1, <2>2
  <2>4. QED
    BY <1>4, <2>3, ToggleKeeps DEF ToggleList
<1>5. CASE Back
  <2>1. panel' = [panel EXCEPT !.list = panel.list, !.adding = FALSE] /\ panel.list \in BOOLEAN
    BY <1>5 DEF Back, PanelInv, ShownInv, PanelType
  <2>2. QED
    BY <1>5, <2>1, ToggleKeeps DEF Back
<1>6. ASSUME NEW dir \in Projects \union {Nowhere, Unset}, GoTo(dir) PROVE PanelInv'
  <2>1. CanAsk("panel", "browse", dir, "")
    BY DEF CanAsk
  <2>2. QED
    BY <1>6, <2>1, AskingKeeps DEF GoTo, Browse
<1>7. ASSUME NEW dir \in Projects \union {Nowhere, Unset}, ClickAdd(dir) PROVE PanelInv'
  <2>1. CanAsk("panel", "add", dir, "")
    BY DEF CanAsk
  <2>2. \A l \in Lists : Renews([by |-> "panel", what |-> "add", next |-> "", live |-> TRUE], l)
    BY DEF Renews, Follows, PanelLists
  <2>3. {} \in SUBSET Lists /\ Lists \in SUBSET Lists /\ {} # Lists
    BY DEF Lists
  <2>4. QED
    BY <1>7, <2>1, <2>2, <2>3, AskingKeeps DEF ClickAdd
<1>8. CASE OpenFolderBrowser
  <2> DEFINE dir == IF panel.at \in Folders THEN panel.at ELSE Start
  <2>1. CanAsk("panel", "browse", dir, "")
    BY PanelAssumption DEF CanAsk
  <2>2. panel' = [panel EXCEPT !.adding = TRUE] /\ Browse(dir) /\ UNCHANGED <<picker, stored, kairosAt, blurred>>
    BY <1>8 DEF OpenFolderBrowser
  <2>3. PICK c : /\ c = Call("panel", "browse", dir, "") /\ IsAsked(c, "panel", "browse", dir, "") /\ c.live = TRUE
    BY <2>1, NewCall
  <2>4. PICK k \in Slots : /\ k \notin DOMAIN calls /\ Follow(k, {k}) /\ calls'[k] = c
                           /\ calls' = [j \in DOMAIN calls' |-> calls'[j]]
    BY <2>2, <2>3, AskFollows DEF Browse, PanelInv, CallsInv
  <2>5. CallsInv'
    BY <2>3, <2>4, OneAsked DEF PanelInv, IsAsked
  <2>6. panel' \in PanelType /\ ShownStays
    BY <2>2 DEF PanelInv, ShownInv, PanelType, ShownStays
  <2>7. ShownInv'
    BY <2>2, <2>6 DEF PanelInv, ShownInv
  <2>8. calls'[k].what = "browse"
    BY <2>3, <2>4 DEF IsAsked
  <2>9. ListsInv'
    BY <2>2, <2>4, <2>6, <2>8, BrowsingLists DEF PanelInv
  <2>10. QED
    BY <2>5, <2>7, <2>9 DEF PanelInv
<1>9. QED
  BY <1>1, <1>2, <1>3, <1>4, <1>5, <1>6, <1>7, <1>8 DEF ClickAdding

LEMMA ClickPickerKeeps == ASSUME PanelInv, ServerStays, page' = page, ClickPicker PROVE PanelInv'
<1>1. CASE TogglePicker
  <2>1. picker' = [picker EXCEPT !.open = ~@]
    BY <1>1 DEF TogglePicker
  <2>2. picker.open \in BOOLEAN
    BY DEF PanelInv, ShownInv, PickerType
  <2>3. \E o \in BOOLEAN : picker' = [picker EXCEPT !.open = o]
    BY <2>1, <2>2
  <2>4. QED
    BY <1>1, <2>3, ToggleKeeps DEF TogglePicker
<1>2. ASSUME NEW p \in Projects, PickProject(p) PROVE PanelInv'
  <2>1. CanAsk("picker", "switch", p, "")
    BY DEF CanAsk
  <2>2. Renews([by |-> "picker", what |-> "switch", next |-> "", live |-> TRUE], "picker")
    BY DEF Renews
  <2>3. PanelLists \in SUBSET Lists /\ {"picker"} \in SUBSET Lists /\ PanelLists # Lists
    BY DEF Lists, PanelLists
  <2>4. QED
    BY <1>2, <2>1, <2>2, <2>3, AskingKeeps DEF PickProject
<1>3. QED
  BY <1>1, <1>2 DEF ClickPicker

(* What the server does with a request.                                    *)
LEMMA ServedCall ==
    ASSUME CallsInv, NEW i \in DOMAIN calls, page' = page,
           NEW found \in SUBSET (Projects \union Sessions), NEW at \in Projects \union {Nowhere},
           calls' = Served(i, found, at),
           calls[i].what = "projects" => found \subseteq Projects,
           calls[i].what = "sessions" => found \subseteq Sessions
    PROVE  /\ CallsInv' /\ Follow(i, {i})
           /\ calls'[i].by = calls[i].by /\ calls'[i].what = calls[i].what
           /\ calls'[i].next = calls[i].next /\ calls'[i].live = calls[i].live /\ calls'[i].arg = calls[i].arg
           /\ calls'[i].step = "served" /\ calls'[i].found = found /\ calls'[i].at = at
<1>1. calls[i] \in CallType /\ CallTrue(calls[i]) /\ i \in Slots
  BY DEF CallsInv
<1>2. PICK c : c = [calls[i] EXCEPT !.step = "served", !.found = found, !.at = at]
  OBVIOUS
<1>3. calls' = [calls EXCEPT ![i] = c]
  BY <1>2 DEF Served
<1>4. /\ c \in CallType /\ c.by = calls[i].by /\ c.what = calls[i].what /\ c.next = calls[i].next
      /\ c.live = calls[i].live /\ c.arg = calls[i].arg /\ c.step = "served" /\ c.found = found /\ c.at = at
  BY <1>1, <1>2 DEF CallType
<1>5. CallTrue(c)
  BY <1>1, <1>4 DEF CallTrue
<1>6. Follow(i, {i}) /\ calls'[i] = c /\ calls' = [j \in DOMAIN calls' |-> calls'[j]]
  BY <1>3 DEF Follow, CallsInv
<1>7. CallsInv'
  BY <1>1, <1>4, <1>5, <1>6, OneAsked DEF CallsInv
<1>8. QED
  BY <1>4, <1>6, <1>7

LEMMA SteppedCall ==
    ASSUME CallsInv, NEW i \in DOMAIN calls, page' = page,
           NEW step \in {"begun", "saving", "saved"}, calls' = Stepped(calls, i, step),
           calls[i].what \in {"switch", "add", "remove"}, step = "saved" => calls[i].what = "add",
           calls[i].what \in {"switch", "add"} => calls[i].arg \in Folders
    PROVE  /\ CallsInv' /\ Follow(i, {i})
           /\ calls'[i].by = calls[i].by /\ calls'[i].what = calls[i].what
           /\ calls'[i].next = calls[i].next /\ calls'[i].live = calls[i].live
<1>1. calls[i] \in CallType /\ CallTrue(calls[i]) /\ i \in Slots
  BY DEF CallsInv
<1>2. PICK c : c = [calls[i] EXCEPT !.step = step]
  OBVIOUS
<1>3. calls' = [calls EXCEPT ![i] = c]
  BY <1>2 DEF Stepped
<1>4. /\ c \in CallType /\ c.by = calls[i].by /\ c.what = calls[i].what /\ c.next = calls[i].next
      /\ c.live = calls[i].live /\ c.arg = calls[i].arg /\ c.step = step /\ c.found = calls[i].found
  BY <1>1, <1>2 DEF CallType
<1>5. CallTrue(c)
  BY <1>1, <1>4 DEF CallTrue
<1>6. Follow(i, {i}) /\ calls'[i] = c /\ calls' = [j \in DOMAIN calls' |-> calls'[j]]
  BY <1>3 DEF Follow, CallsInv
<1>7. CallsInv'
  BY <1>1, <1>4, <1>5, <1>6, OneAsked DEF CallsInv
<1>8. QED
  BY <1>4, <1>6, <1>7

(* Whatever it changes will be shown anew.                                 *)
LEMMA ChangeRenews ==
    ASSUME CallsInv, ListsInv, blurred # Lists, NEW i \in Changing, ShownStays,
           NEW l \in Lists, Seen(l), Right(l),
           calls[i].what = "delete" => workDir' = workDir /\ ListStays,
           calls[i].what = "remove" => workDir' = workDir /\ stored' = stored
    PROVE  Right(l)' \/ Renews(calls[i], l)
<1>1. i \in DOMAIN calls /\ calls[i].what \in {"switch", "add", "remove", "delete"}
  BY DEF Changing, InFlight
<1>2. calls[i].by \in {"panel", "picker"} /\ (calls[i].by = "picker" => calls[i].what = "switch")
  BY <1>1 DEF CallsInv, CallType, CallTrue
<1>3. /\ calls[i].by = "picker" => PanelLists \subseteq blurred
      /\ calls[i].by = "panel" /\ PanelThere(page) => calls[i].live
      /\ calls[i].what = "remove" => "picker" \in blurred
  BY DEF ListsInv, OneChange
<1>4. l \in Lists \ blurred /\ (l = "picker" \/ PanelThere(page)) /\ (l = "picker" \/ l \in PanelLists)
  BY DEF Seen, PanelLists
<1>5. CASE calls[i].by = "picker"
  BY <1>3, <1>4, <1>5 DEF Renews
<1>6. CASE calls[i].by = "panel" /\ calls[i].what \in {"switch", "add"}
  BY <1>3, <1>4, <1>6 DEF Renews, Follows
<1>7. CASE calls[i].by = "panel" /\ calls[i].what = "remove"
  <2>1. l # "picker" /\ calls[i].live /\ l \in {"projects", "tree", "sessions"}
    BY <1>3, <1>4, <1>7 DEF Lists
  <2>2. l = "projects" => Renews(calls[i], l)
    BY <1>7, <2>1 DEF Renews
  <2>3. l \in {"tree", "sessions"} => Right(l)'
    BY <1>7 DEF Right, ShownStays
  <2>4. QED
    BY <2>1, <2>2, <2>3
<1>8. CASE calls[i].by = "panel" /\ calls[i].what = "delete"
  <2>1. l = "sessions" => Renews(calls[i], l)
    BY <1>3, <1>4, <1>8 DEF Renews
  <2>2. l # "sessions" => Right(l)'
    BY <1>8 DEF Right, ShownStays, ListStays
  <2>3. QED
    BY <2>1, <2>2
<1>9. QED
  BY <1>1, <1>2, <1>5, <1>6, <1>7, <1>8

LEMMA ServeQuestionKeeps ==
    ASSUME PanelInv, ListInv, workDir \in Projects, NEW i \in DOMAIN calls, ServeQuestion(i), page' = page
    PROVE  PanelInv'
<1>1. calls[i] \in CallType /\ CallTrue(calls[i])
  BY DEF PanelInv, CallsInv
<1>2. UNCHANGED <<uiVars, stored, kairosAt, workDir>> /\ UNCHANGED fileVars
      /\ blurred' = (IF half = {} THEN blurred ELSE Lists) /\ calls[i].step = "asked"
  BY DEF ServeQuestion, filesVars
<1>3. ServerStays /\ ShownStays
  BY <1>2, SameStays DEF ShownStays, uiVars
<1>4. ASSUME NEW found \in SUBSET (Projects \union Sessions), NEW at \in Projects \union {Nowhere},
             calls' = Served(i, found, at), calls[i].what \notin {"switch", "add", "remove", "delete"},
             calls[i].what = "projects" => found \subseteq Projects,
             calls[i].what = "sessions" => found \subseteq Sessions,
             half = {} /\ calls[i].what = "projects" => at = workDir /\ found = file["projects"],
             calls[i].what \in {"workspace", "tree"} => at = workDir,
             calls[i].what = "sessions" /\ calls[i].arg = workDir => found = stored[workDir]
      PROVE  PanelInv'
  <2>1. /\ CallsInv' /\ Follow(i, {i})
        /\ calls'[i].by = calls[i].by /\ calls'[i].what = calls[i].what
        /\ calls'[i].next = calls[i].next /\ calls'[i].live = calls[i].live /\ calls'[i].arg = calls[i].arg
        /\ calls'[i].step = "served" /\ calls'[i].found = found /\ calls'[i].at = at
    BY <1>4, ServedCall DEF PanelInv
  <2>2. ShownInv'
    BY <1>2 DEF PanelInv, ShownInv, uiVars
  <2>3. CASE half # {}
    BY <1>2, <2>1, <2>2, <2>3 DEF PanelInv, ListsInv
  <2>4. CASE half = {}
    <3>1. blurred' = blurred
      BY <1>2, <2>4
    <3>2. ASSUME blurred # Lists PROVE Fresh(calls[i])'
      <4>1. Fresh(calls[i])
        BY <3>2 DEF PanelInv, ListsInv
      <4>2. Matters(calls[i])' => Matters(calls[i])
        BY <2>1, <3>1 DEF Matters
      <4>3. file' = file /\ torn' = torn /\ workDir' = workDir /\ stored' = stored
        BY <1>2 DEF fileVars
      <4>4. SUFFICES ASSUME Matters(calls[i]) PROVE Fresh(calls[i])'
        BY <4>2 DEF Fresh
      <4>5. calls[i].what = "sessions" => calls[i].arg = workDir
        BY <4>1, <4>4 DEF Fresh
      <4>6. QED
        BY <1>4, <2>1, <2>4, <4>3, <4>5 DEF Fresh
    <3>3. \A l \in Lists : Right(l) => Right(l)'
      BY <1>3, RightStays
    <3>4. ListsInv'
      BY <1>3, <2>1, <3>1, <3>2, <3>3, ServeLists DEF PanelInv
    <3>5. QED
      BY <2>1, <2>2, <3>4 DEF PanelInv
  <2>5. QED
    BY <2>3, <2>4
<1>5. CASE calls[i].what = "projects"
  <2>1. Readable["projects"] \subseteq Projects /\ (half = {} => Readable["projects"] = file["projects"])
    BY PanelAssumption DEF Readable, ListInv
  <2>2. calls' = Served(i, Readable["projects"], workDir)
    BY <1>5 DEF ServeQuestion
  <2>3. QED
    BY <1>4, <1>5, <2>1, <2>2
<1>6. CASE calls[i].what \in {"workspace", "tree"}
  <2>1. calls' = Served(i, {}, workDir)
    BY <1>6 DEF ServeQuestion
  <2>2. QED
    BY <1>4, <1>6, <2>1
<1>7. CASE calls[i].what = "browse"
  <2>1. PICK at \in Projects \union {Nowhere} : calls' = Served(i, {}, at)
    BY <1>7, PanelAssumption DEF ServeQuestion
  <2>2. QED
    BY <1>4, <1>7, <2>1
<1>8. CASE calls[i].what = "sessions"
  <2>1. PICK found : /\ calls' = Served(i, found, Nowhere)
                     /\ found = IF calls[i].arg = Nowhere THEN UNION {stored[p] : p \in Projects} ELSE stored[calls[i].arg]
    BY <1>8 DEF ServeQuestion
  <2>2. calls[i].arg \in Projects \union {Nowhere}
    BY <1>1, <1>8 DEF CallTrue
  <2>3. stored \in [Projects -> SUBSET Sessions]
    BY DEF PanelInv, ShownInv
  <2>4. found \subseteq Sessions
    BY <2>1, <2>2, <2>3
  <2>5. calls[i].arg = workDir => found = stored[workDir]
    BY <2>1, PanelAssumption
  <2>6. QED
    BY <1>4, <1>8, <2>1, <2>4, <2>5
<1>9. QED
  BY <1>5, <1>6, <1>7, <1>8 DEF ServeQuestion

(* Each step of a request that changes something.                          *)
LEMMA ServeChangeKeeps ==
    ASSUME PanelInv, workDir \in Projects, NEW i \in DOMAIN calls, page' = page, UNCHANGED <<uiVars, blurred>>,
           calls[i].what \in {"switch", "add", "remove", "delete"},
           stored' \in [Projects -> SUBSET Sessions], kairosAt' \in Projects,
           calls[i].what = "delete" => workDir' = workDir /\ ListStays,
           calls[i].what = "remove" => workDir' = workDir /\ stored' = stored,
           \/ calls' = Served(i, {}, Nowhere)
           \/ \E step \in {"begun", "saving", "saved"} :
                 /\ calls' = Stepped(calls, i, step)
                 /\ calls[i].what # "delete" /\ (step = "saved" => calls[i].what = "add")
                 /\ calls[i].what \in {"switch", "add"} => calls[i].arg \in Folders
    PROVE  PanelInv'
<1>1. /\ CallsInv' /\ Follow(i, {i})
      /\ calls'[i].by = calls[i].by /\ calls'[i].what = calls[i].what
      /\ calls'[i].next = calls[i].next /\ calls'[i].live = calls[i].live
  <2>1. CASE calls' = Served(i, {}, Nowhere)
    <3>1. {} \in SUBSET (Projects \union Sessions) /\ Nowhere \in Projects \union {Nowhere}
      OBVIOUS
    <3>2. QED
      BY <2>1, <3>1, ServedCall DEF PanelInv
  <2>2. ASSUME NEW step \in {"begun", "saving", "saved"}, calls' = Stepped(calls, i, step),
               calls[i].what # "delete" /\ (step = "saved" => calls[i].what = "add"),
               calls[i].what \in {"switch", "add"} => calls[i].arg \in Folders
        PROVE  /\ CallsInv' /\ Follow(i, {i})
               /\ calls'[i].by = calls[i].by /\ calls'[i].what = calls[i].what
               /\ calls'[i].next = calls[i].next /\ calls'[i].live = calls[i].live
    BY <2>2, SteppedCall DEF PanelInv
  <2>3. QED
    BY <2>1, <2>2
<1>2. ShownInv'
  BY DEF PanelInv, ShownInv, uiVars
<1>3. ShownStays /\ i \in Changing
  BY DEF ShownStays, uiVars, Changing, InFlight
<1>4. Fresh(calls[i])'
  BY <1>1 DEF Fresh
<1>5. blurred # Lists => \A l \in Lists : Seen(l) /\ Right(l) => Right(l)' \/ Renews(calls[i], l)
  BY <1>3, ChangeRenews DEF PanelInv
<1>6. ListsInv'
  BY <1>1, <1>3, <1>4, <1>5, ServeLists DEF PanelInv
<1>7. QED
  BY <1>1, <1>2, <1>6 DEF PanelInv

LEMMA ServePanelKeeps ==
    ASSUME PanelInv, ListInv, workDir \in Projects, NEW i \in DOMAIN calls, ServePanel(i), page' = page
    PROVE  PanelInv'
<1>1. /\ calls[i] \in CallType /\ CallTrue(calls[i])
      /\ stored \in [Projects -> SUBSET Sessions] /\ kairosAt \in Projects
  BY DEF PanelInv, CallsInv, ShownInv
<1>2. CASE ServeQuestion(i)
  BY <1>2, ServeQuestionKeeps
<1>3. CASE ServeDelete(i)
  <2>1. stored' \in [Projects -> SUBSET Sessions] /\ ListStays /\ workDir' = workDir
    BY <1>1, <1>3 DEF ServeDelete, ListStays, fileVars, filesVars
  <2>2. QED
    BY <1>1, <1>3, <2>1, ServeChangeKeeps DEF ServeDelete
<1>4. CASE Refuse(i)
  BY <1>1, <1>4, ServeChangeKeeps DEF Refuse
<1>5. CASE BeginSwitch(i)
  BY <1>1, <1>5, ServeChangeKeeps DEF BeginSwitch
<1>6. CASE BeginChange(i)
  BY <1>1, <1>6, ServeChangeKeeps DEF BeginChange, filesVars
<1>7. CASE GiveUp(i)
  BY <1>1, <1>7, ServeChangeKeeps DEF GiveUp, filesVars, CallTrue
<1>8. CASE BeginSave(i)
  BY <1>1, <1>8, ServeChangeKeeps DEF BeginSave, filesVars, CallTrue
<1>9. CASE EndSave(i)
  BY <1>1, <1>9, ServeChangeKeeps DEF EndSave, filesVars, CallTrue
<1>10. CASE EndAdd(i)
  <2>1. kairosAt' \in Projects
    BY <1>1, <1>10, PanelAssumption DEF EndAdd, CallTrue
  <2>2. QED
    BY <1>1, <1>10, <2>1, ServeChangeKeeps DEF EndAdd, CallTrue
<1>11. QED
  BY <1>2, <1>3, <1>4, <1>5, <1>6, <1>7, <1>8, <1>9, <1>10 DEF ServePanel

(* What is answered is gone, and the function that awaited it may go on.   *)
LEMMA GoneCalls ==
    ASSUME CallsInv, page' = page, NEW i \in DOMAIN calls, calls' = Gone(calls, i)
    PROVE  CallsInv' /\ Follow(i, {})
<1>1. Follow(i, {}) /\ calls' = [j \in DOMAIN calls' |-> calls'[j]]
  BY GoneFollows
<1>2. {} \in SUBSET Slots
  OBVIOUS
<1>3. QED
  BY <1>1, <1>2, CallsInvFollow

LEMMA NextCalls ==
    ASSUME CallsInv, page' = page, NEW i \in DOMAIN calls,
           NEW what, NEW arg, NEW next, CanAsk(calls[i].by, what, arg, next),
           calls' = Ask(Gone(calls, i), Asking(i, what, arg, next))
    PROVE  CallsInv' /\ \E k \in Slots : /\ Follow(i, {k}) /\ calls'[k].live = calls[i].live
                                         /\ IsAsked(calls'[k], calls[i].by, what, arg, next)
<1>1. i \in Slots /\ calls[i].live \in BOOLEAN /\ (~PanelThere(page) /\ calls[i].by = "panel" => ~calls[i].live)
  BY DEF CallsInv, CallType
<1>2. PICK c : c = Asking(i, what, arg, next) /\ IsAsked(c, calls[i].by, what, arg, next) /\ c.live = calls[i].live
  BY <1>1, NewAsking
<1>3. PICK k \in Slots : Follow(i, {k}) /\ calls'[k] = c /\ calls' = [j \in DOMAIN calls' |-> calls'[j]]
  BY <1>1, <1>2, NextFollows
<1>4. {k} \in SUBSET Slots
  OBVIOUS
<1>5. c \in CallType /\ CallTrue(c) /\ c.by = calls[i].by
  BY <1>2 DEF IsAsked
<1>6. CallsInv'
  BY <1>1, <1>2, <1>3, <1>4, <1>5, CallsInvFollow
<1>7. QED
  BY <1>2, <1>3, <1>6

LEMMA NextKeeps ==
    ASSUME PanelInv, ServerStays, page' = page, UNCHANGED <<uiVars, stored, kairosAt, blurred>>,
           NEW i \in DOMAIN calls, calls[i].what # "browse",
           NEW what \in {"projects", "workspace", "sessions"}, NEW arg, NEW next, CanAsk(calls[i].by, what, arg, next),
           calls' = Ask(Gone(calls, i), Asking(i, what, arg, next)),
           what = "sessions" /\ blurred # Lists /\ Matters(calls[i]) => arg = workDir,
           \A c : (/\ c.by = calls[i].by /\ c.what = what /\ c.next = next /\ c.live = calls[i].live)
                      => \A l \in Lists : Renews(calls[i], l) => Renews(c, l)
    PROVE  PanelInv'
<1>1. CallsInv'
  BY NextCalls DEF PanelInv
<1>2. PICK k \in Slots : /\ Follow(i, {k}) /\ calls'[k].live = calls[i].live
                         /\ IsAsked(calls'[k], calls[i].by, what, arg, next)
  BY NextCalls DEF PanelInv
<1>3. /\ calls'[k].by = calls[i].by /\ calls'[k].what = what /\ calls'[k].next = next
      /\ calls'[k].arg = arg /\ calls'[k].step = "asked"
  BY <1>2 DEF IsAsked
<1>4. ShownStays
  BY DEF ShownStays, uiVars
<1>5. ASSUME blurred # Lists PROVE Fresh(calls[k])'
  <2>1. Matters(calls[k])' => Matters(calls[i])
    BY <1>2, <1>3 DEF Matters
  <2>2. QED
    BY <1>3, <1>5, <2>1 DEF Fresh, ServerStays
<1>6. \A l \in Lists : (Right(l) => Right(l)') /\ (Renews(calls[i], l) => Renews(calls'[k], l))
  BY <1>2, <1>3, <1>4, RightStays
<1>7. ListsInv'
  BY <1>2, <1>3, <1>5, <1>6, FollowLists DEF PanelInv
<1>8. ShownInv'
  BY DEF PanelInv, ShownInv, uiVars
<1>9. QED
  BY <1>1, <1>7, <1>8 DEF PanelInv

LEMMA AnswerShownKeeps ==
    ASSUME PanelInv, ServerStays, page' = page, UNCHANGED <<stored, kairosAt, blurred>>,
           NEW i \in DOMAIN calls, calls' = Gone(calls, i), panel' \in PanelType, picker' \in PickerType,
           blurred # Lists => \A l \in Lists : Seen(l) => /\ Right(l) => Right(l)'
                                                          /\ Renews(calls[i], l) => Right(l)'
    PROVE  PanelInv'
<1>1. CallsInv' /\ Follow(i, {})
  BY GoneCalls DEF PanelInv
<1>2. ShownInv'
  BY DEF PanelInv, ShownInv
<1>3. ListsInv'
  BY <1>1, FollowLists DEF PanelInv
<1>4. QED
  BY <1>1, <1>2, <1>3 DEF PanelInv

LEMMA GoneAskThree ==
    ASSUME NEW cs, DOMAIN cs \subseteq Slots, NEW i \in DOMAIN cs, Room(cs, 2), NEW a, NEW b, NEW c, NEW all,
           all = Ask(Ask(Ask(Gone(cs, i), a), b), c)
    PROVE  \E j, k, n \in Slots : AddsThree(Gone(cs, i), all, a, b, c, j, k, n)
<1>1. Room(Gone(cs, i), 2 + 1)
  BY GoneRoom
<1>2. DOMAIN Gone(cs, i) \subseteq Slots
  BY DEF Gone
<1>3. QED
  BY <1>1, <1>2, AskThree

(* After a switch or an addition, the rest of the panel is asked for, and  *)
(* the picker's list.                                                      *)
LEMMA RestCalls ==
    ASSUME CallsInv, page' = page, NEW i \in DOMAIN calls, calls[i].by = "panel", Room(calls, 2),
           calls' = Ask(Ask(Ask(Gone(calls, i), Asking(i, "workspace", Nowhere, "")), Asking(i, "tree", Nowhere, "")),
                        Call("picker", "projects", Nowhere, ""))
    PROVE  CallsInv' /\ \E j, k, n \in Slots :
               /\ Follow(i, {j, k, n})
               /\ IsAsked(calls'[j], "panel", "workspace", Nowhere, "") /\ calls'[j].live = calls[i].live
               /\ IsAsked(calls'[k], "panel", "tree", Nowhere, "") /\ calls'[k].live = calls[i].live
               /\ IsAsked(calls'[n], "picker", "projects", Nowhere, "")
<1>1. i \in Slots /\ calls[i].live \in BOOLEAN /\ DOMAIN calls \subseteq Slots /\ (~PanelThere(page) => ~calls[i].live)
  BY DEF CallsInv, CallType
<1>2. /\ CanAsk(calls[i].by, "workspace", Nowhere, "") /\ CanAsk(calls[i].by, "tree", Nowhere, "")
      /\ CanAsk("picker", "projects", Nowhere, "")
  BY DEF CanAsk
<1>3. PICK a : a = Asking(i, "workspace", Nowhere, "") /\ IsAsked(a, "panel", "workspace", Nowhere, "") /\ a.live = calls[i].live
  BY <1>1, <1>2, NewAsking
<1>4. PICK b : b = Asking(i, "tree", Nowhere, "") /\ IsAsked(b, "panel", "tree", Nowhere, "") /\ b.live = calls[i].live
  BY <1>1, <1>2, NewAsking
<1>5. PICK c : c = Call("picker", "projects", Nowhere, "") /\ IsAsked(c, "picker", "projects", Nowhere, "")
  BY <1>2, NewCall
<1>6. calls' = Ask(Ask(Ask(Gone(calls, i), a), b), c)
  BY <1>3, <1>4, <1>5
<1>7. PICK j, k, n \in Slots : AddsThree(Gone(calls, i), calls', a, b, c, j, k, n)
  BY <1>1, <1>6, GoneAskThree
<1>8. /\ Follow(i, {j, k, n}) /\ {j, k, n} \in SUBSET Slots /\ IsFunction(calls')
      /\ calls'[j] = a /\ calls'[k] = b /\ calls'[n] = c
  BY <1>7 DEF Follow, AddsThree, Gone
<1>9. CallsInv'
  <2>1. /\ a \in CallType /\ CallTrue(a) /\ a.live = calls[i].live
        /\ b \in CallType /\ CallTrue(b) /\ b.live = calls[i].live
        /\ c \in CallType /\ CallTrue(c) /\ c.by = "picker"
    BY <1>3, <1>4, <1>5 DEF IsAsked
  <2>2. \A m \in {j, k, n} : /\ calls'[m] \in CallType /\ CallTrue(calls'[m])
                             /\ ~PanelThere(page) /\ calls'[m].by = "panel" => ~calls'[m].live
    BY <1>1, <1>8, <2>1
  <2>3. QED
    BY <1>8, <2>2, CallsInvFollow DEF IsFunction
<1>10. QED
  BY <1>3, <1>4, <1>5, <1>8, <1>9

LEMMA RestKeeps ==
    ASSUME PanelInv, ServerStays, page' = page, UNCHANGED <<picker, stored, kairosAt, blurred>>,
           NEW i \in DOMAIN calls, calls[i].by = "panel", calls[i].what = "projects", Room(calls, 2),
           calls' = Ask(Ask(Ask(Gone(calls, i), Asking(i, "workspace", Nowhere, "")), Asking(i, "tree", Nowhere, "")),
                        Call("picker", "projects", Nowhere, "")),
           panel' \in PanelType, panel'.tree = panel.tree, panel'.sessions = panel.sessions,
           blurred # Lists /\ calls[i].live => Right("projects")',
           ~calls[i].live => panel'.projects = panel.projects
    PROVE  PanelInv'
<1>1. CallsInv'
  BY RestCalls DEF PanelInv
<1>2. PICK j, k, n \in Slots :
               /\ Follow(i, {j, k, n})
               /\ IsAsked(calls'[j], "panel", "workspace", Nowhere, "") /\ calls'[j].live = calls[i].live
               /\ IsAsked(calls'[k], "panel", "tree", Nowhere, "") /\ calls'[k].live = calls[i].live
               /\ IsAsked(calls'[n], "picker", "projects", Nowhere, "")
  BY RestCalls DEF PanelInv
<1>3. /\ calls'[j].by = "panel" /\ calls'[j].what = "workspace" /\ calls'[j].step = "asked"
      /\ calls'[k].by = "panel" /\ calls'[k].what = "tree" /\ calls'[k].step = "asked"
      /\ calls'[n].by = "picker" /\ calls'[n].what = "projects" /\ calls'[n].step = "asked"
  BY <1>2 DEF IsAsked
<1>4. ShownInv'
  BY DEF PanelInv, ShownInv
<1>5. \A m \in {j, k, n} : Fresh(calls[m])' /\ calls'[m].what \notin {"switch", "add", "remove", "delete"}
  BY <1>3 DEF Fresh
<1>6. ASSUME blurred # Lists, NEW l \in Lists, Right(l) PROVE Right(l)'
  <2>1. CASE calls[i].live /\ l = "projects"
    BY <1>6, <2>1
  <2>2. CASE calls[i].live /\ l # "projects"
    BY <1>6, <2>2 DEF Right, ServerStays, ListStays, Listed
  <2>3. CASE ~calls[i].live
    BY <1>6, <2>3, RightStays DEF ShownStays
  <2>4. QED
    BY <2>1, <2>2, <2>3
<1>7. ASSUME blurred # Lists, NEW l \in Lists, Renews(calls[i], l)
      PROVE  Right(l)' \/ \E m \in {j, k, n} : Renews(calls'[m], l)
  <2>1. CASE l = "picker"
    BY <1>3, <2>1 DEF Renews
  <2>2. CASE l # "picker"
    <3>1. calls[i].live
      BY <1>7, <2>2 DEF Renews
    <3>2. l = "projects" => Right(l)'
      BY <1>7, <3>1
    <3>3. l = "sessions" => Renews(calls'[j], l)
      BY <1>2, <1>3, <3>1 DEF Renews
    <3>4. l = "tree" => Renews(calls'[k], l)
      BY <1>2, <1>3, <3>1 DEF Renews
    <3>5. QED
      BY <2>2, <3>2, <3>3, <3>4 DEF Lists
  <2>3. QED
    BY <2>1, <2>2
<1>8. PICK new : new = {j, k, n} /\ Follow(i, new)
  BY <1>2
<1>9. \A m \in new : /\ calls'[m].what \notin {"switch", "add", "remove", "delete"}
                     /\ blurred # Lists => Fresh(calls[m])'
                     /\ calls'[m].what = "browse" \/ (i \in DOMAIN calls /\ calls[i].what # "browse")
  BY <1>5, <1>8
<1>10. blurred # Lists =>
           \A l \in Lists : Seen(l) =>
               /\ Right(l) => Right(l)'
               /\ i \in DOMAIN calls /\ Renews(calls[i], l) => Right(l)' \/ \E m \in new : Renews(calls'[m], l)
  BY <1>6, <1>7, <1>8
<1>11. ListsInv'
  BY <1>8, <1>9, <1>10, FollowLists DEF PanelInv
<1>12. QED
  BY <1>1, <1>4, <1>11 DEF PanelInv

(* What the panel may show of an answer.                                   *)
LEMMA PanelShowsType ==
    ASSUME PanelInv, NEW i \in DOMAIN calls, NEW new \in PanelType, PanelShows(i, new)
    PROVE  panel' \in PanelType
BY DEF PanelShows, PanelInv, ShownInv

LEMMA ListedIs ==
    ASSUME NEW i, ServerStays, Fresh(calls[i]), Matters(calls[i]), calls[i].step = "served", calls[i].what = "projects"
    PROVE  "projects" \in torn' \/ Listed(calls[i].found, calls[i].at) = Listed(file["projects"], workDir)'
<1>1. calls[i].at = workDir /\ ("projects" \in torn \/ calls[i].found = file["projects"])
  BY DEF Fresh
<1>2. workDir' = workDir /\ ("projects" \in torn' \/ (file'["projects"] = file["projects"] /\ "projects" \notin torn))
  BY DEF ServerStays, ListStays
<1>3. QED
  BY <1>1, <1>2 DEF Listed

LEMMA ProjectsShownKeeps ==
    ASSUME PanelInv, ServerStays, page' = page, UNCHANGED <<stored, kairosAt, blurred>>,
           NEW i \in DOMAIN calls, calls[i].step = "served", calls[i].what = "projects",
           ProjectsShown(i, calls[i].found, calls[i].at)
    PROVE  PanelInv'
<1>1. /\ calls[i] \in CallType /\ calls[i].found \subseteq Projects /\ calls[i].at \in Projects \union {Nowhere}
      /\ calls[i].by = "panel" /\ panel \in PanelType /\ picker \in PickerType /\ picker' = picker
  BY DEF PanelInv, CallsInv, CallType, CallTrue, ShownInv, ProjectsShown
<1>2. PICK list : list = Listed(calls[i].found, calls[i].at) /\ list \in ListType
  BY <1>1, ListedType
<1>3. ASSUME blurred # Lists, calls[i].live PROVE "projects" \in torn' \/ list = Listed(file["projects"], workDir)'
  <2>1. Fresh(calls[i]) /\ Matters(calls[i])
    BY <1>1, <1>3 DEF PanelInv, ListsInv, Matters
  <2>2. QED
    BY <1>2, <2>1, ListedIs
<1>4. CASE calls[i].next = ""
  <2>1. calls' = Gone(calls, i) /\ panel' = IF calls[i].live THEN [panel EXCEPT !.projects = list] ELSE panel
    BY <1>2, <1>4 DEF ProjectsShown, PanelShows
  <2>2. panel' \in PanelType /\ panel'.tree = panel.tree /\ panel'.sessions = panel.sessions
        /\ panel'.projects = IF calls[i].live THEN list ELSE panel.projects
    BY <1>1, <1>2, <2>1 DEF PanelType
  <2>3. ASSUME blurred # Lists, NEW l \in Lists, Right(l) PROVE Right(l)'
    <3>1. CASE calls[i].live
      BY <1>1, <1>3, <2>2, <2>3, <3>1 DEF Right, ServerStays, ListStays, Listed
    <3>2. CASE ~calls[i].live
      BY <1>1, <2>2, <2>3, <3>2, RightStays DEF ShownStays
    <3>3. QED
      BY <3>1, <3>2
  <2>4. ASSUME blurred # Lists, NEW l \in Lists, Renews(calls[i], l) PROVE Right(l)'
    <3>1. l = "projects" /\ calls[i].live
      BY <1>1, <1>4, <2>4 DEF Renews, Follows
    <3>2. QED
      BY <1>3, <2>2, <2>4, <3>1 DEF Right
  <2>5. QED
    BY <1>1, <2>1, <2>2, <2>3, <2>4, AnswerShownKeeps
<1>5. CASE calls[i].next # ""
  <2>1. PICK a \in BOOLEAN : panel' = IF calls[i].live
                                      THEN [panel EXCEPT !.projects = list, !.list = FALSE, !.adding = a] ELSE panel
    <3>1. (panel.adding /\ calls[i].next # "add") \in BOOLEAN
      OBVIOUS
    <3>2. QED
      BY <1>2, <1>5, <3>1 DEF ProjectsShown, PanelShows
  <2>2. panel' \in PanelType /\ panel'.tree = panel.tree /\ panel'.sessions = panel.sessions
        /\ panel'.projects = IF calls[i].live THEN list ELSE panel.projects
    BY <1>1, <1>2, <2>1 DEF PanelType
  <2>3. blurred # Lists /\ calls[i].live => Right("projects")'
    BY <1>3, <2>2 DEF Right
  <2>4. /\ Room(calls, 2)
        /\ calls' = Ask(Ask(Ask(Gone(calls, i), Asking(i, "workspace", Nowhere, "")), Asking(i, "tree", Nowhere, "")),
                        Call("picker", "projects", Nowhere, ""))
    BY <1>5 DEF ProjectsShown
  <2>5. QED
    BY <1>1, <2>2, <2>3, <2>4, RestKeeps
<1>6. QED
  BY <1>4, <1>5

LEMMA PickerShownKeeps ==
    ASSUME PanelInv, ServerStays, page' = page, UNCHANGED <<stored, kairosAt, blurred>>,
           NEW i \in DOMAIN calls, calls[i].step = "served", calls[i].what = "projects",
           PickerShown(i, calls[i].found, calls[i].at)
    PROVE  PanelInv'
<1>1. /\ calls[i].found \subseteq Projects /\ calls[i].by = "picker" /\ panel' = panel /\ panel \in PanelType
      /\ picker \in PickerType /\ calls' = Gone(calls, i)
  BY DEF PanelInv, CallsInv, CallTrue, ShownInv, PickerShown
<1>2. PICK list : list = Listed(calls[i].found, calls[i].at) /\ list \in ListType
  BY <1>1, ListedType
<1>3. picker' = [projects |-> list, open |-> picker.open /\ calls[i].next = ""]
  BY <1>2 DEF PickerShown
<1>4. picker' \in PickerType /\ picker'.projects = list
  BY <1>2, <1>3 DEF PickerType
<1>5. ASSUME blurred # Lists, "picker" \notin blurred
      PROVE  "projects" \in torn' \/ list = Listed(file["projects"], workDir)'
  <2>1. Fresh(calls[i]) /\ Matters(calls[i])
    BY <1>1, <1>5 DEF PanelInv, ListsInv, Matters
  <2>2. QED
    BY <1>2, <2>1, ListedIs
<1>6. ASSUME blurred # Lists, NEW l \in Lists, Seen(l), Right(l) \/ Renews(calls[i], l) PROVE Right(l)'
  <2>1. CASE l = "picker"
    BY <1>4, <1>5, <1>6, <2>1 DEF Right, Seen
  <2>2. CASE l # "picker"
    <3>1. Right(l)
      BY <1>1, <1>6, <2>2 DEF Renews
    <3>2. QED
      BY <1>1, <2>2, <3>1 DEF Right, ServerStays, ListStays, Listed
  <2>3. QED
    BY <2>1, <2>2
<1>7. QED
  BY <1>1, <1>4, <1>6, AnswerShownKeeps

(* What is answered to a click is followed by the question for lists.      *)
LEMMA ClickedKeeps ==
    ASSUME PanelInv, ServerStays, page' = page, UNCHANGED <<stored, kairosAt, blurred>>,
           NEW i \in DOMAIN calls, Clicked(i)
    PROVE  PanelInv'
<1>1. calls[i] \in CallType /\ CallTrue(calls[i])
  BY DEF PanelInv, CallsInv
<1>2. UNCHANGED <<uiVars, stored, kairosAt, blurred>>
  BY DEF Clicked
<1>3. ASSUME NEW what \in {"projects", "workspace"}, NEW next \in {"", "switch", "add"},
             calls' = Ask(Gone(calls, i), Asking(i, what, Nowhere, next)),
             calls[i].what \in {"switch", "add", "remove", "delete"},
             calls[i].by = "picker" => what = "projects",
             \A c : (/\ c.by = calls[i].by /\ c.what = what /\ c.next = next /\ c.live = calls[i].live)
                        => \A l \in Lists : Renews(calls[i], l) => Renews(c, l)
      PROVE  PanelInv'
  <2>1. CanAsk(calls[i].by, what, Nowhere, next)
    BY <1>1, <1>3 DEF CanAsk, CallType
  <2>2. QED
    BY <1>2, <1>3, <2>1, NextKeeps
<1>4. CASE calls[i].what \in {"switch", "add"}
  <2>1. calls' = Ask(Gone(calls, i), Asking(i, "projects", Nowhere, calls[i].what))
    BY <1>4 DEF Clicked
  <2>2. \A c : (/\ c.by = calls[i].by /\ c.what = "projects" /\ c.next = calls[i].what /\ c.live = calls[i].live)
                   => \A l \in Lists : Renews(calls[i], l) => Renews(c, l)
    BY <1>4 DEF Renews, Follows
  <2>3. QED
    BY <1>3, <1>4, <2>1, <2>2
<1>5. CASE calls[i].what = "remove"
  <2>1. calls' = Ask(Gone(calls, i), Asking(i, "projects", Nowhere, ""))
    BY <1>5 DEF Clicked
  <2>2. \A c : (/\ c.by = calls[i].by /\ c.what = "projects" /\ c.next = "" /\ c.live = calls[i].live)
                   => \A l \in Lists : Renews(calls[i], l) => Renews(c, l)
    BY <1>5 DEF Renews, Follows
  <2>3. QED
    BY <1>3, <1>5, <2>1, <2>2
<1>6. CASE calls[i].what = "delete"
  <2>1. calls' = Ask(Gone(calls, i), Asking(i, "workspace", Nowhere, "")) /\ calls[i].by # "picker"
    BY <1>1, <1>6 DEF Clicked, CallTrue
  <2>2. \A c : (/\ c.by = calls[i].by /\ c.what = "workspace" /\ c.next = "" /\ c.live = calls[i].live)
                   => \A l \in Lists : Renews(calls[i], l) => Renews(c, l)
    BY <1>6, <2>1 DEF Renews, Follows
  <2>3. QED
    BY <1>3, <1>6, <2>1, <2>2
<1>7. QED
  BY <1>4, <1>5, <1>6 DEF Clicked

(* The panel shows what it asked for.                                      *)
LEMMA ShowsKeeps ==
    ASSUME PanelInv, ServerStays, page' = page, UNCHANGED <<stored, kairosAt, blurred>>,
           NEW i \in DOMAIN calls, NEW new \in PanelType, Shows(i, new), calls[i].by = "panel",
           new.projects = panel.projects, calls[i].what \in {"sessions", "tree", "browse"},
           calls[i].what # "sessions" => new.sessions = panel.sessions,
           calls[i].what # "tree" => new.tree = panel.tree,
           blurred # Lists /\ calls[i].live =>
               /\ calls[i].what = "sessions" => new.sessions = stored[workDir]
               /\ calls[i].what = "tree" => new.tree = workDir
    PROVE  PanelInv'
<1>1. calls' = Gone(calls, i) /\ picker' = picker /\ panel' = IF calls[i].live THEN new ELSE panel
  BY DEF Shows, PanelShows
<1>2. panel' \in PanelType /\ picker' \in PickerType /\ panel'.projects = panel.projects
  BY <1>1 DEF PanelInv, ShownInv
<1>3. ASSUME blurred # Lists, NEW l \in Lists, Right(l) PROVE Right(l)'
  <2>1. CASE calls[i].live
    <3>1. l \in {"projects", "picker"} => Right(l)'
      BY <1>1, <1>2, <1>3 DEF Right, ServerStays, ListStays, Listed
    <3>2. l = "tree" => Right(l)'
      BY <1>1, <1>3, <2>1 DEF Right, ServerStays
    <3>3. l = "sessions" => Right(l)'
      BY <1>1, <1>3, <2>1 DEF Right, ServerStays
    <3>4. QED
      BY <3>1, <3>2, <3>3 DEF Lists
  <2>2. CASE ~calls[i].live
    BY <1>1, <1>3, <2>2, RightStays DEF ShownStays
  <2>3. QED
    BY <2>1, <2>2
<1>4. ASSUME blurred # Lists, NEW l \in Lists, Renews(calls[i], l) PROVE Right(l)'
  <2>1. calls[i].live /\ l = calls[i].what /\ l \in {"sessions", "tree"}
    BY <1>4 DEF Renews, Follows
  <2>2. QED
    BY <1>1, <1>4, <2>1 DEF Right, ServerStays
<1>5. QED
  BY <1>1, <1>2, <1>3, <1>4, AnswerShownKeeps

LEMMA AnsweredKeeps ==
    ASSUME PanelInv, ServerStays, page' = page, NEW i \in DOMAIN calls, Answered(i)
    PROVE  PanelInv'
<1>1. calls[i] \in CallType /\ CallTrue(calls[i]) /\ panel \in PanelType /\ calls[i].step = "served"
      /\ UNCHANGED <<stored, kairosAt, blurred>>
  BY DEF PanelInv, CallsInv, ShownInv, Answered
<1>2. calls[i].at \in Projects \union {Nowhere} /\ calls[i].by \in {"panel", "picker"}
  BY <1>1 DEF CallType
<1>3. blurred # Lists /\ Matters(calls[i]) =>
          /\ calls[i].what \in {"workspace", "tree"} => calls[i].at = workDir
          /\ calls[i].what = "sessions" => calls[i].found = stored[workDir]
  BY <1>1 DEF PanelInv, ListsInv, Fresh
<1>4. CASE calls[i].what = "projects" /\ (ProjectsShown(i, calls[i].found, calls[i].at) \/ PickerShown(i, calls[i].found, calls[i].at))
  BY <1>1, <1>4, ProjectsShownKeeps, PickerShownKeeps
<1>5. CASE calls[i].what = "workspace" /\ AskSessions(i, calls[i].at)
  <2>1. calls[i].by = "panel" /\ CanAsk(calls[i].by, "sessions", calls[i].at, "")
    BY <1>1, <1>2, <1>5 DEF CanAsk, CallTrue
  <2>2. \A c : (/\ c.by = calls[i].by /\ c.what = "sessions" /\ c.next = "" /\ c.live = calls[i].live)
                   => \A l \in Lists : Renews(calls[i], l) => Renews(c, l)
    BY <1>5, <2>1 DEF Renews, Follows
  <2>3. calls' = Ask(Gone(calls, i), Asking(i, "sessions", calls[i].at, "")) /\ UNCHANGED <<uiVars, stored, kairosAt, blurred>>
    BY <1>1, <1>5 DEF AskSessions
  <2>4. QED
    BY <1>3, <1>5, <2>1, <2>2, <2>3, NextKeeps
<1>6. CASE calls[i].what = "sessions" /\ Shows(i, [panel EXCEPT !.sessions = calls[i].found, !.nothing = (calls[i].found = {})])
  <2>1. PICK new : new = [panel EXCEPT !.sessions = calls[i].found, !.nothing = (calls[i].found = {})]
    OBVIOUS
  <2>2. new \in PanelType /\ new.projects = panel.projects /\ new.sessions = calls[i].found /\ new.tree = panel.tree
    BY <1>1, <1>6, <2>1 DEF PanelType, CallTrue
  <2>3. calls[i].by = "panel" /\ Shows(i, new)
    BY <1>1, <1>2, <1>6, <2>1 DEF CallTrue
  <2>4. blurred # Lists /\ calls[i].live => new.sessions = stored[workDir]
    BY <1>3, <1>6, <2>2, <2>3 DEF Matters
  <2>5. QED
    BY <1>1, <1>6, <2>2, <2>3, <2>4, ShowsKeeps
<1>7. CASE calls[i].what = "tree" /\ Shows(i, [panel EXCEPT !.tree = calls[i].at])
  <2>1. PICK new : new = [panel EXCEPT !.tree = calls[i].at]
    OBVIOUS
  <2>2. new \in PanelType /\ new.projects = panel.projects /\ new.sessions = panel.sessions /\ new.tree = calls[i].at
    BY <1>1, <1>2, <2>1 DEF PanelType
  <2>3. calls[i].by = "panel" /\ Shows(i, new)
    BY <1>1, <1>2, <1>7, <2>1 DEF CallTrue
  <2>4. blurred # Lists /\ calls[i].live => new.tree = workDir
    BY <1>3, <1>7, <2>2, <2>3 DEF Matters
  <2>5. QED
    BY <1>1, <1>7, <2>2, <2>3, <2>4, ShowsKeeps
<1>8. CASE calls[i].what = "browse" /\ Shows(i, [panel EXCEPT !.at = calls[i].at])
  <2>1. PICK new : new = [panel EXCEPT !.at = calls[i].at]
    OBVIOUS
  <2>2. new \in PanelType /\ new.projects = panel.projects /\ new.sessions = panel.sessions /\ new.tree = panel.tree
    BY <1>1, <1>2, <2>1 DEF PanelType
  <2>3. calls[i].by = "panel" /\ Shows(i, new)
    BY <1>1, <1>2, <1>8, <2>1 DEF CallTrue
  <2>4. QED
    BY <1>1, <1>8, <2>2, <2>3, ShowsKeeps
<1>9. CASE Clicked(i)
  BY <1>1, <1>9, ClickedKeeps
<1>10. QED
  BY <1>4, <1>5, <1>6, <1>7, <1>8, <1>9 DEF Answered

(* A lost call leaves nothing to be said of the lists.                     *)
LEMMA LostKeeps ==
    ASSUME PanelInv, page' = page, NEW i \in DOMAIN calls, Lost(i)
    PROVE  PanelInv'
<1>1. /\ calls[i] \in CallType /\ CallTrue(calls[i]) /\ panel \in PanelType /\ picker \in PickerType
      /\ stored' = stored /\ kairosAt' = kairosAt /\ blurred' = Lists
  BY DEF PanelInv, CallsInv, ShownInv, Lost
<1>2. ListsInv'
  BY <1>1 DEF ListsInv, Lists
<1>3. PICK list : list = Listed({}, Nowhere) /\ list \in ListType
  BY ListedType
<1>4. CASE ProjectsShown(i, {}, Nowhere)
  <2>1. CASE calls[i].next = ""
    <3>1. calls' = Gone(calls, i) /\ picker' = picker
          /\ panel' = IF calls[i].live THEN [panel EXCEPT !.projects = list] ELSE panel
      BY <1>3, <1>4, <2>1 DEF ProjectsShown, PanelShows
    <3>2. panel' \in PanelType
      BY <1>1, <1>3, <3>1 DEF PanelType
    <3>3. CallsInv' /\ ShownInv'
      BY <1>1, <3>1, <3>2, GoneCalls DEF PanelInv, ShownInv, Lists
    <3>4. QED
      BY <1>2, <3>3 DEF PanelInv
  <2>2. CASE calls[i].next # ""
    <3>1. PICK a \in BOOLEAN : panel' = IF calls[i].live
                                        THEN [panel EXCEPT !.projects = list, !.list = FALSE, !.adding = a] ELSE panel
      <4>1. (panel.adding /\ calls[i].next # "add") \in BOOLEAN
        OBVIOUS
      <4>2. QED
        BY <1>3, <1>4, <2>2, <4>1 DEF ProjectsShown, PanelShows
    <3>2. panel' \in PanelType
      BY <1>1, <1>3, <3>1 DEF PanelType
    <3>3. /\ Room(calls, 2) /\ calls[i].by = "panel" /\ picker' = picker
          /\ calls' = Ask(Ask(Ask(Gone(calls, i), Asking(i, "workspace", Nowhere, "")), Asking(i, "tree", Nowhere, "")),
                          Call("picker", "projects", Nowhere, ""))
      BY <1>4, <2>2 DEF ProjectsShown
    <3>4. CallsInv'
      BY <3>3, RestCalls DEF PanelInv
    <3>5. ShownInv'
      BY <1>1, <3>2, <3>3 DEF PanelInv, ShownInv, Lists
    <3>6. QED
      BY <1>2, <3>4, <3>5 DEF PanelInv
  <2>3. QED
    BY <2>1, <2>2
<1>5. CASE PickerShown(i, {}, Nowhere)
  <2>1. /\ calls' = Gone(calls, i) /\ panel' = panel
        /\ picker' = [projects |-> list, open |-> picker.open /\ calls[i].next = ""]
    BY <1>3, <1>5 DEF PickerShown
  <2>2. picker' \in PickerType
    BY <1>3, <2>1 DEF PickerType
  <2>3. CallsInv' /\ ShownInv'
    BY <1>1, <2>1, <2>2, GoneCalls DEF PanelInv, ShownInv, Lists
  <2>4. QED
    BY <1>2, <2>3 DEF PanelInv
<1>6. CASE calls[i].what = "workspace" /\ AskSessions(i, Nowhere)
  <2>1. CanAsk(calls[i].by, "sessions", Nowhere, "")
    BY <1>1, <1>6 DEF CanAsk, CallTrue, CallType
  <2>2. calls' = Ask(Gone(calls, i), Asking(i, "sessions", Nowhere, "")) /\ UNCHANGED uiVars
    BY <1>6 DEF AskSessions
  <2>3. CallsInv' /\ ShownInv'
    BY <1>1, <2>1, <2>2, NextCalls DEF PanelInv, ShownInv, uiVars, Lists
  <2>4. QED
    BY <1>2, <2>3 DEF PanelInv
<1>7. ASSUME NEW new \in PanelType, Shows(i, new) PROVE PanelInv'
  <2>1. calls' = Gone(calls, i) /\ picker' = picker /\ panel' \in PanelType
    BY <1>1, <1>7 DEF Shows, PanelShows
  <2>2. CallsInv' /\ ShownInv'
    BY <1>1, <2>1, GoneCalls DEF PanelInv, ShownInv, Lists
  <2>3. QED
    BY <1>2, <2>2 DEF PanelInv
<1>8. [panel EXCEPT !.tree = Nowhere] \in PanelType
  BY <1>1 DEF PanelType
<1>9. QED
  BY <1>1, <1>4, <1>5, <1>6, <1>7, <1>8 DEF Lost

(* The panel is mounted, with three questions; or unmounted.               *)
LEMMA EmptyPanelType == EmptyPanel \in PanelType
BY DEF EmptyPanel, PanelType, NoProjects, ListType

LEMMA MountPanelKeeps ==
    ASSUME PanelInv, ServerStays, ~PanelThere(page), PanelThere(page'), MountPanel
    PROVE  PanelInv'
<1>1. /\ CanAsk("panel", "projects", Nowhere, "") /\ CanAsk("panel", "workspace", Nowhere, "")
      /\ CanAsk("panel", "tree", Nowhere, "")
  BY DEF CanAsk
<1>2. PICK a : a = Call("panel", "projects", Nowhere, "") /\ IsAsked(a, "panel", "projects", Nowhere, "") /\ a.live = TRUE
  BY <1>1, NewCall
<1>3. PICK b : b = Call("panel", "workspace", Nowhere, "") /\ IsAsked(b, "panel", "workspace", Nowhere, "") /\ b.live = TRUE
  BY <1>1, NewCall
<1>4. PICK c : c = Call("panel", "tree", Nowhere, "") /\ IsAsked(c, "panel", "tree", Nowhere, "") /\ c.live = TRUE
  BY <1>1, NewCall
<1>5. DOMAIN calls \subseteq Slots /\ \A m \in DOMAIN calls : calls[m] \in CallType /\ CallTrue(calls[m])
  BY DEF PanelInv, CallsInv
<1>6. Room(calls, 2 + 1) /\ calls' = Ask(Ask(Ask(calls, a), b), c)
  <2>1. Room(calls, 3)
    BY DEF MountPanel
  <2>2. Room(calls, 2 + 1)
    BY <2>1 DEF Room
  <2>3. calls' = Ask(Ask(Ask(calls, a), b), c)
    BY <1>2, <1>3, <1>4 DEF MountPanel
  <2>4. QED
    BY <2>2, <2>3
<1>7. PICK j, k, n \in Slots : AddsThree(calls, calls', a, b, c, j, k, n)
  BY <1>5, <1>6, AskThree
<1>8. /\ IsFunction(calls') /\ calls'[j] = a /\ calls'[k] = b /\ calls'[n] = c
      /\ DOMAIN calls' = DOMAIN calls \union {j, k, n} /\ {j, k, n} \intersect DOMAIN calls = {}
      /\ \A m \in DOMAIN calls : calls'[m] = calls[m]
  BY <1>7 DEF AddsThree
<1>9. /\ a \in CallType /\ CallTrue(a) /\ a.by = "panel" /\ a.what = "projects" /\ a.step = "asked"
      /\ b \in CallType /\ CallTrue(b) /\ b.by = "panel" /\ b.what = "workspace" /\ b.step = "asked"
      /\ c \in CallType /\ CallTrue(c) /\ c.by = "panel" /\ c.what = "tree" /\ c.step = "asked"
  BY <1>2, <1>3, <1>4 DEF IsAsked
<1>10. CallsInv'
  <2>1. \A m \in DOMAIN calls' : calls'[m] \in CallType /\ CallTrue(calls'[m])
    BY <1>5, <1>8, <1>9
  <2>2. calls' \in [DOMAIN calls' -> CallType] /\ DOMAIN calls' \subseteq Slots
    BY <1>5, <1>8, <2>1 DEF IsFunction
  <2>3. QED
    BY <2>1, <2>2 DEF CallsInv, CallTrue
<1>11. ShownInv'
  <2>1. panel' = EmptyPanel /\ UNCHANGED <<picker, stored, kairosAt>> /\ blurred' \subseteq Lists
    BY DEF MountPanel, PanelInv, ShownInv
  <2>2. QED
    BY <2>1, EmptyPanelType DEF PanelInv, ShownInv
<1>12. ListsInv'
  <2>1. SUFFICES ASSUME blurred' # Lists PROVE ListsInv'
    BY DEF ListsInv
  <2>2. Changing = {} /\ blurred' = blurred \ PanelLists
    BY <2>1 DEF MountPanel
  <2>3. Changing' = {}
    BY <1>8, <1>9, <2>2 DEF Changing, InFlight
  <2>4. OneChange'
    BY <2>3 DEF OneChange
  <2>5. ASSUME NEW m \in DOMAIN calls' PROVE Fresh(calls[m])'
    <3>1. CASE m \in {j, k, n}
      BY <1>8, <1>9, <3>1 DEF Fresh
    <3>2. CASE m \in DOMAIN calls /\ calls[m].by = "panel"
      <4>1. ~calls[m].live
        BY <3>2 DEF PanelInv, CallsInv
      <4>2. QED
        BY <1>8, <3>2, <4>1 DEF Fresh, Matters
    <3>3. CASE m \in DOMAIN calls /\ calls[m].by # "panel" /\ "picker" \notin blurred
      <4>1. Fresh(calls[m]) /\ calls'[m] = calls[m]
        BY <1>8, <3>3 DEF PanelInv, ListsInv, Lists
      <4>2. QED
        BY <3>3, <4>1 DEF ServerStays, ListStays, Fresh, Matters
    <3>4. CASE m \in DOMAIN calls /\ calls[m].by # "panel" /\ "picker" \in blurred
      <4>1. "picker" \in blurred' /\ calls'[m] = calls[m]
        BY <1>8, <2>2, <3>4 DEF PanelLists, Lists
      <4>2. QED
        BY <3>4, <4>1 DEF Fresh, Matters
    <3>5. QED
      BY <1>8, <3>1, <3>2, <3>3, <3>4
  <2>6. ASSUME NEW l \in Lists, Seen(l)' PROVE Kept(l)'
    <3>1. CASE l = "picker"
      <4>1. l \notin blurred
        BY <2>2, <2>6, <3>1 DEF Seen, PanelLists, Lists
      <4>2. Kept(l)
        BY <3>1, <4>1 DEF PanelInv, ListsInv, Seen, Lists
      <4>3. CASE Right(l)
        BY <3>1, <4>3 DEF Kept, Right, ServerStays, ListStays, MountPanel, Listed
      <4>4. ASSUME NEW m \in DOMAIN calls, Renews(calls[m], l) PROVE Kept(l)'
        <5>1. m \in DOMAIN calls' /\ Renews(calls'[m], l)
          BY <1>8, <4>4
        <5>2. QED
          BY <5>1 DEF Kept, Renews, Follows
      <4>5. QED
        BY <4>2, <4>3, <4>4 DEF Kept
    <3>2. CASE l = "projects"
      <4>1. Renews(calls'[j], l)
        BY <1>2, <1>8, <1>9, <3>2 DEF Renews
      <4>2. QED
        BY <1>8, <4>1 DEF Kept, Renews, Follows
    <3>3. CASE l = "sessions"
      <4>1. Renews(calls'[k], l)
        BY <1>3, <1>8, <1>9, <3>3 DEF Renews
      <4>2. QED
        BY <1>8, <4>1 DEF Kept, Renews, Follows
    <3>4. CASE l = "tree"
      <4>1. Renews(calls'[n], l)
        BY <1>4, <1>8, <1>9, <3>4 DEF Renews
      <4>2. QED
        BY <1>8, <4>1 DEF Kept, Renews, Follows
    <3>5. QED
      BY <3>1, <3>2, <3>3, <3>4 DEF Lists
  <2>7. QED
    BY <2>4, <2>5, <2>6 DEF ListsInv
<1>13. QED
  BY <1>10, <1>11, <1>12 DEF PanelInv

LEMMA UnmountPanelKeeps ==
    ASSUME PanelInv, ServerStays, ~PanelThere(page'), UnmountPanel
    PROVE  PanelInv'
<1>1. /\ calls' = Orphaned(calls, "panel") /\ panel' = EmptyPanel /\ UNCHANGED <<picker, stored, kairosAt, blurred>>
  BY DEF UnmountPanel
<1>2. DOMAIN calls \subseteq Slots /\ \A m \in DOMAIN calls : calls[m] \in CallType /\ CallTrue(calls[m])
  BY DEF PanelInv, CallsInv
<1>3. DOMAIN calls' = DOMAIN calls /\ calls' = [m \in DOMAIN calls' |-> calls'[m]]
  BY <1>1 DEF Orphaned
<1>4. ASSUME NEW m \in DOMAIN calls
      PROVE  /\ calls'[m] \in CallType /\ CallTrue(calls'[m])
             /\ calls'[m].by = calls[m].by /\ calls'[m].what = calls[m].what /\ calls'[m].next = calls[m].next
             /\ calls'[m].by = "panel" => ~calls'[m].live
             /\ calls[m].by # "panel" => calls'[m] = calls[m]
  <2>1. PICK r : r = calls[m] /\ r \in CallType /\ CallTrue(r)
    BY <1>2, <1>4
  <2>2. calls'[m] = [r EXCEPT !.live = @ /\ calls[m].by # "panel"]
    BY <1>1, <1>4, <2>1 DEF Orphaned
  <2>3. PICK live \in BOOLEAN : live = (r.live /\ r.by # "panel")
    OBVIOUS
  <2>4. calls'[m] = [r EXCEPT !.live = live]
    BY <2>1, <2>2, <2>3
  <2>5. /\ calls'[m] \in CallType /\ calls'[m].by = r.by /\ calls'[m].what = r.what /\ calls'[m].next = r.next
        /\ calls'[m].step = r.step /\ calls'[m].arg = r.arg /\ calls'[m].found = r.found /\ calls'[m].live = live
    BY <2>1, <2>4 DEF CallType
  <2>6. CallTrue(calls'[m])
    BY <2>1, <2>5 DEF CallTrue
  <2>7. r.by # "panel" => calls'[m] = r
    <3>1. r.live \in BOOLEAN /\ r = [r EXCEPT !.live = r.live]
      BY <2>1 DEF CallType
    <3>2. r.by # "panel" => live = r.live
      BY <2>3, <3>1
    <3>3. QED
      BY <2>4, <3>1, <3>2
  <2>8. QED
    BY <2>1, <2>3, <2>5, <2>6, <2>7
<1>5. CallsInv'
  <2>1. calls' \in [DOMAIN calls' -> CallType] /\ DOMAIN calls' \subseteq Slots
    BY <1>2, <1>3, <1>4
  <2>2. QED
    BY <1>3, <1>4, <2>1 DEF CallsInv, CallTrue
<1>6. ShownInv'
  BY <1>1, EmptyPanelType DEF PanelInv, ShownInv
<1>7. ListsInv'
  <2>1. SUFFICES ASSUME blurred # Lists PROVE ListsInv'
    BY <1>1 DEF ListsInv
  <2>2. OneChange'
    <3>1. SUFFICES ASSUME NEW c \in Changing'
                   PROVE  /\ \A j \in DOMAIN calls' \ {c} : calls'[j].what = "browse"
                          /\ calls'[c].by = "picker" => PanelLists \subseteq blurred
                          /\ calls'[c].what = "remove" => "picker" \in blurred
      BY <1>1 DEF OneChange, PanelThere
    <3>2. c \in Changing /\ c \in DOMAIN calls
      BY <1>3, <1>4 DEF Changing, InFlight
    <3>3. QED
      BY <1>3, <1>4, <2>1, <3>2 DEF PanelInv, ListsInv, OneChange
  <2>3. ASSUME NEW m \in DOMAIN calls' PROVE Fresh(calls[m])'
    <3>1. CASE calls[m].by = "panel"
      BY <1>3, <1>4, <3>1 DEF Fresh, Matters
    <3>2. CASE calls[m].by # "panel"
      <4>1. Fresh(calls[m]) /\ calls'[m] = calls[m]
        BY <1>3, <1>4, <2>1, <3>2 DEF PanelInv, ListsInv
      <4>2. QED
        BY <1>1, <3>2, <4>1 DEF ServerStays, ListStays, Fresh, Matters
    <3>3. QED
      BY <3>1, <3>2
  <2>4. ASSUME NEW l \in Lists, Seen(l)' PROVE Kept(l)'
    <3>1. l = "picker" /\ Seen(l)
      BY <1>1, <2>4 DEF Seen
    <3>2. Kept(l)
      BY <2>1, <3>1 DEF PanelInv, ListsInv
    <3>3. CASE Right(l)
      BY <1>1, <3>1, <3>3 DEF Kept, Right, ServerStays, ListStays, Listed
    <3>4. ASSUME NEW m \in DOMAIN calls, Renews(calls[m], l) PROVE Kept(l)'
      <4>1. m \in DOMAIN calls' /\ Renews(calls'[m], l)
        BY <1>3, <1>4, <3>1, <3>4 DEF Renews, Follows
      <4>2. QED
        BY <4>1 DEF Kept, Renews, Follows
    <3>5. QED
      BY <3>2, <3>3, <3>4 DEF Kept
  <2>5. QED
    BY <2>2, <2>3, <2>4 DEF ListsInv
<1>8. QED
  BY <1>5, <1>6, <1>7 DEF PanelInv

(* The rest of the program leaves the panel alone, but for config.json.    *)
LEMMA PanelAside ==
    ASSUME PanelInv, ServerStays, UNCHANGED panelVars, PanelThere(page') <=> PanelThere(page)
    PROVE  PanelInv'
BY ToggleKeeps DEF panelVars, uiVars

-----------------------------------------------------------------------------
(* All of it (App): how it starts.                                         *)

LEMMA PlanTrue ==
    ASSUME AppInit
    PROVE  /\ plan.page \in Pages /\ plan.atRest \in BOOLEAN /\ (plan.atRest \/ (page = "chat" /\ MaxCalls >= 4))
           /\ plan.project \in Projects /\ plan.registered \subseteq Projects
           /\ plan.histories \in [Projects -> SUBSET Sessions] /\ plan.active \in Offers /\ plan.lang \in Langs
           /\ page = plan.page
BY PlansAssumption DEF AppInit

LEMMA ContentsIs ==
    ASSUME NEW p
    PROVE  /\ DOMAIN Contents(p) = Fields /\ Contents(p)["projects"] = p.registered
           /\ Contents(p)["provider"] = {p.active[1]} /\ Contents(p)["model"] = {p.active[2]}
           /\ Contents(p)["lang"] = {p.lang}
BY PanelAssumption, SettingsAssumption DEF Contents

LEMMA FileStarts == AppInit => FileInv /\ ListInv
<1> SUFFICES ASSUME AppInit PROVE FileInv /\ ListInv
  OBVIOUS
<1>1. FileInit(Contents(plan)) /\ plan.registered \subseteq Projects
  BY PlanTrue DEF AppInit
<1>2. file = Contents(plan) /\ latest = Contents(plan) /\ loaded = [h \in {} |-> Contents(plan)] /\ half = {}
  BY <1>1 DEF FileInit
<1>3. FileInv
  BY <1>2, ContentsIs DEF FileInv, LoadedInv, UpdatesKept, AtWork
<1>4. ListInv
  BY <1>1, <1>2, ContentsIs DEF ListInv, AtWork
<1>5. QED
  BY <1>3, <1>4

LEMMA SettingsStart == AppInit => SettingsInv
<1> SUFFICES ASSUME AppInit PROVE SettingsInv
  OBVIOUS
<1>1. /\ active \in Offers /\ lang \in Langs /\ astray = FALSE /\ apart = FALSE
      /\ latest["provider"] = {active[1]} /\ latest["model"] = {active[2]} /\ latest["lang"] = {lang}
  BY PlanTrue, ContentsIs DEF AppInit, FileInit
<1>2. Agrees(latest)
  BY <1>1 DEF Agrees
<1>3. Offline \in Selections /\ active \in Selections
  BY <1>1 DEF Selections
<1>4. /\ status \in Selections /\ picking \in BOOLEAN
      /\ shown \in Selections /\ sel \in Selections /\ shownLang \in Langs \union {Unchosen}
  BY <1>1, <1>3, PlanTrue DEF AppInit
<1>5. CASE plan.atRest
  <2>1. asks = NoCalls
    BY <1>5 DEF AppInit
  <2>2. DOMAIN asks = {} /\ asks = [i \in {} |-> {}]
    BY <2>1 DEF NoCalls
  <2>3. SettingsTypeOK
    BY <1>1, <1>4, <2>2 DEF SettingsTypeOK, InFlight
  <2>4. AsksInv /\ Unheard
    BY <2>2, <2>3 DEF AsksInv, Unheard, InFlight
  <2>5. Setting = {} /\ Mounting = {}
    BY <2>2 DEF Setting, Mounting, InFlight
  <2>6. DefaultsInv
    BY <1>2, <2>5 DEF DefaultsInv
  <2>7. page = "settings" => shown = active /\ shownLang = lang
    BY <1>5 DEF AppInit
  <2>8. PageInv
    BY <2>5, <2>7 DEF PageInv
  <2>9. QED
    BY <2>4, <2>6, <2>8 DEF SettingsInv
<1>6. CASE ~plan.atRest
  <2>1. asks = Ask(NoCalls, Get("bar", "")) /\ page = "chat"
    BY <1>6, PlanTrue DEF AppInit
  <2>2. DOMAIN NoCalls = {} /\ 1 \in Slots
    BY CallsAssumption DEF NoCalls, Slots
  <2>3. PICK k \in Slots : AddsCall(NoCalls, Ask(NoCalls, Get("bar", "")), k, Get("bar", ""))
    BY <2>2, AskTakesFree
  <2>4. PICK c : c = Get("bar", "") /\ c \in AskType /\ c.by = "bar" /\ c.what = "config" /\ c.step = "asked"
    <3> DEFINE g == Get("bar", "")
    <3>1. g \in AskType /\ g.by = "bar" /\ g.what = "config" /\ g.step = "asked"
      BY DEF Get, Request, AskType, Selections
    <3>2. QED
      BY <3>1
  <2>5. DOMAIN asks = {k} /\ asks = [j \in {k} |-> c]
    BY <2>1, <2>2, <2>3, <2>4 DEF AddsCall
  <2>6. SettingsTypeOK
    BY <1>1, <1>4, <2>4, <2>5 DEF SettingsTypeOK, InFlight, AskType
  <2>7. AsksInv /\ Unheard
    BY <2>4, <2>5, <2>6 DEF AsksInv, Unheard, InFlight
  <2>8. Setting = {}
    BY <2>4, <2>5 DEF Setting, InFlight
  <2>9. DefaultsInv
    BY <1>2, <2>8 DEF DefaultsInv
  <2>10. QED
    BY <2>1, <2>7, <2>9 DEF SettingsInv, PageInv
<1>7. QED
  BY <1>5, <1>6, PlanTrue

LEMMA PanelStarts == AppInit => PanelInv
<1> SUFFICES ASSUME AppInit PROVE PanelInv
  OBVIOUS
<1>1. /\ workDir = plan.project /\ workDir \in Projects /\ kairosAt = workDir /\ stored = plan.histories
      /\ stored \in [Projects -> SUBSET Sessions] /\ blurred = {}
      /\ file["projects"] = plan.registered /\ plan.registered \subseteq Projects
  BY PlanTrue, ContentsIs DEF AppInit, FileInit
<1>2. PICK list : list = Listed(plan.registered, plan.project) /\ list \in ListType
  BY <1>1, ListedType
<1>3. NoProjects \in ListType
  BY DEF NoProjects, ListType
<1>4. CASE plan.atRest
  <2>1. calls = NoCalls /\ DOMAIN calls = {}
    BY <1>4 DEF AppInit, NoCalls
  <2>2. PICK nothing \in BOOLEAN : nothing = (stored[workDir] = {})
    OBVIOUS
  <2>3. PICK opened : opened = [EmptyPanel EXCEPT !.projects = list, !.tree = workDir, !.sessions = stored[workDir],
                                                  !.nothing = nothing, !.list = TRUE]
    OBVIOUS
  <2>4. opened \in PanelType /\ opened.projects = list /\ opened.tree = workDir /\ opened.sessions = stored[workDir]
    BY <1>1, <1>2, <2>3, EmptyPanelType DEF PanelType
  <2>5. picker = [projects |-> list, open |-> TRUE] /\ panel = IF PanelThere(page) THEN opened ELSE EmptyPanel
    BY <1>2, <1>4, <2>2, <2>3 DEF AppInit
  <2>6. CallsInv
    BY <2>1 DEF CallsInv, NoCalls
  <2>7. ShownInv
    BY <1>1, <1>2, <2>4, <2>5, EmptyPanelType DEF ShownInv, PickerType
  <2>8. \A l \in Lists : Seen(l) => Right(l)
    BY <1>1, <1>2, <2>4, <2>5 DEF Seen, Right
  <2>9. ListsInv
    BY <2>1, <2>8 DEF ListsInv, OneChange, Changing, InFlight, Kept
  <2>10. QED
    BY <2>6, <2>7, <2>9 DEF PanelInv
<1>5. CASE ~plan.atRest
  <2>1. /\ CanAsk("picker", "projects", Nowhere, "") /\ CanAsk("panel", "projects", Nowhere, "")
        /\ CanAsk("panel", "workspace", Nowhere, "") /\ CanAsk("panel", "tree", Nowhere, "")
    BY DEF CanAsk
  <2>2. PICK a : a = Call("picker", "projects", Nowhere, "") /\ IsAsked(a, "picker", "projects", Nowhere, "")
    BY <2>1, NewCall
  <2>3. PICK b : b = Call("panel", "projects", Nowhere, "") /\ IsAsked(b, "panel", "projects", Nowhere, "") /\ b.live = TRUE
    BY <2>1, NewCall
  <2>4. PICK c : c = Call("panel", "workspace", Nowhere, "") /\ IsAsked(c, "panel", "workspace", Nowhere, "") /\ c.live = TRUE
    BY <2>1, NewCall
  <2>5. PICK d : d = Call("panel", "tree", Nowhere, "") /\ IsAsked(d, "panel", "tree", Nowhere, "") /\ d.live = TRUE
    BY <2>1, NewCall
  <2>6. calls = <<a, b, c, d>> /\ panel = EmptyPanel /\ picker = [projects |-> NoProjects, open |-> FALSE] /\ page = "chat"
    BY <1>5, <2>2, <2>3, <2>4, <2>5, PlanTrue DEF AppInit
  <2>7. /\ DOMAIN calls = {1, 2, 3, 4} /\ DOMAIN calls \subseteq Slots
        /\ calls[1] = a /\ calls[2] = b /\ calls[3] = c /\ calls[4] = d /\ calls = [i \in DOMAIN calls |-> calls[i]]
    <3>1. MaxCalls \in Nat /\ MaxCalls >= 4
      BY <1>5, PlanTrue, CallsAssumption
    <3>2. QED
      BY <2>6, <3>1 DEF Slots
  <2>8. /\ a \in CallType /\ CallTrue(a) /\ a.by = "picker" /\ a.what = "projects" /\ a.step = "asked"
        /\ b \in CallType /\ CallTrue(b) /\ b.by = "panel" /\ b.what = "projects" /\ b.step = "asked"
        /\ c \in CallType /\ CallTrue(c) /\ c.by = "panel" /\ c.what = "workspace" /\ c.step = "asked"
        /\ d \in CallType /\ CallTrue(d) /\ d.by = "panel" /\ d.what = "tree" /\ d.step = "asked"
    BY <2>2, <2>3, <2>4, <2>5 DEF IsAsked
  <2>9. CallsInv
    <3>1. \A i \in DOMAIN calls : calls[i] \in CallType /\ CallTrue(calls[i])
      BY <2>7, <2>8
    <3>2. calls \in [DOMAIN calls -> CallType]
      BY <2>7, <3>1
    <3>3. QED
      BY <2>6, <2>7, <3>1, <3>2 DEF CallsInv, PanelThere
  <2>10. ShownInv
    BY <1>1, <1>3, <2>6, EmptyPanelType DEF ShownInv, PickerType
  <2>11. OneChange
    BY <2>7, <2>8 DEF OneChange, Changing, InFlight
  <2>12. \A i \in DOMAIN calls : Fresh(calls[i])
    BY <2>7, <2>8 DEF Fresh
  <2>13. Renews(a, "picker") /\ Renews(b, "projects") /\ Renews(c, "sessions") /\ Renews(d, "tree")
    BY <2>3, <2>4, <2>5, <2>8 DEF Renews
  <2>14. \A l \in Lists : Kept(l)
    BY <2>7, <2>13 DEF Kept, Lists
  <2>15. QED
    BY <2>9, <2>10, <2>11, <2>12, <2>14 DEF PanelInv, ListsInv
<1>6. QED
  BY <1>4, <1>5, PlanTrue

AppInv ==
    /\ page \in Pages
    /\ FileInv /\ ListInv
    /\ FilesInv /\ CostsInv
    /\ SettingsInv /\ PanelInv

LEMMA AppInvInit == AppInit => AppInv
<1> SUFFICES ASSUME AppInit PROVE AppInv
  OBVIOUS
<1>1. page \in Pages
  BY PlanTrue
<1>2. FilesInv /\ CostsInv
  BY FilesInvInit, CostsInvInit DEF AppInit
<1>3. QED
  BY <1>1, <1>2, FileStarts, SettingsStart, PanelStarts DEF AppInv

-----------------------------------------------------------------------------
(* All of it: its steps.  A step of one part leaves the others alone, but  *)
(* for the files, which the panel's handlers take to another project, and  *)
(* config.json.                                                            *)

LEMMA SettingsAside ==
    ASSUME SettingsInv, UNCHANGED settingsVars, DefaultsStay, page' = "settings" <=> page = "settings"
    PROVE  SettingsInv'
<1>1. sel' \in Selections /\ picking' \in BOOLEAN
  BY DEF SettingsInv, AsksInv, SettingsTypeOK, settingsVars, pageVars, barVars
<1>2. QED
  BY <1>1, QuietKeeps DEF settingsVars, pageVars, barVars

LEMMA FileAside ==
    ASSUME UNCHANGED fileVars
    PROVE  /\ DefaultsStay
           /\ UNCHANGED <<workDir, stored>> => ServerStays
BY SameStays DEF DefaultsStay, fileVars

LEMMA FilesAside == ASSUME FilesInv, UNCHANGED filesVars PROVE FilesInv'
BY FilesInvNext

LEMMA CostsAside == ASSUME CostsInv, UNCHANGED costsVars PROVE CostsInv'
BY CostsInvNext

LEMMA PanelStepKeeps == ASSUME AppInv, RestOfPanel, PanelInv' PROVE AppInv'
<1>1. UNCHANGED fileVars /\ UNCHANGED filesVars /\ UNCHANGED settingsVars /\ UNCHANGED costsVars /\ page' = page
  BY DEF RestOfPanel
<1>2. QED
  BY <1>1, FileStepKeeps, ListStepKeeps, FileAside, FilesAside, CostsAside, SettingsAside DEF AppInv

LEMMA FilesStepKeeps == ASSUME AppInv, RestOfFiles, FilesNext, workDir' = workDir PROVE AppInv'
<1>1. UNCHANGED fileVars /\ UNCHANGED panelVars /\ UNCHANGED settingsVars /\ UNCHANGED costsVars /\ page' = page
  BY DEF RestOfFiles
<1>2. FilesInv'
  BY FilesInvNext DEF AppInv
<1>3. ServerStays /\ DefaultsStay
  BY <1>1, FileAside DEF panelVars
<1>4. PanelInv'
  BY <1>1, <1>3, PanelAside DEF AppInv
<1>5. QED
  BY <1>1, <1>2, <1>3, <1>4, FileStepKeeps, ListStepKeeps, CostsAside, SettingsAside DEF AppInv

LEMMA CostsStepKeeps == ASSUME AppInv, RestOfCosts, CostsStep PROVE AppInv'
<1>1. UNCHANGED fileVars /\ UNCHANGED panelVars /\ UNCHANGED filesVars /\ UNCHANGED settingsVars /\ page' = page
  BY DEF RestOfCosts
<1>2. CostsInv'
  BY CostsInvNext DEF AppInv
<1>3. ServerStays /\ DefaultsStay
  BY <1>1, FileAside DEF panelVars, filesVars
<1>4. PanelInv'
  BY <1>1, <1>3, PanelAside DEF AppInv
<1>5. QED
  BY <1>1, <1>2, <1>3, <1>4, FileStepKeeps, ListStepKeeps, FilesAside, SettingsAside DEF AppInv

LEMMA SettingsStepKeeps ==
    ASSUME AppInv, RestOfSettings, SavesOther \/ UNCHANGED fileVars, SettingsInv'
    PROVE  AppInv'
<1>1. UNCHANGED panelVars /\ UNCHANGED filesVars /\ UNCHANGED costsVars /\ page' = page
  BY DEF RestOfSettings
<1>2. ServerStays
  BY <1>1, SavesOtherKeepsList DEF AppInv, ServerStays, panelVars, filesVars
<1>3. PanelInv'
  BY <1>1, <1>2, PanelAside DEF AppInv
<1>4. QED
  BY <1>1, <1>3, FileStepKeeps, ListStepKeeps, FilesAside, CostsAside DEF AppInv

(* No request of the panel touches the defaults of the provider, the model *)
(* and the language.                                                       *)
LEMMA PanelKeepsDefaults == ASSUME NEW i, ServePanel(i) PROVE DefaultsStay
<1>1. ASSUME NEW h, Put(h, [f \in {"workDir"} |-> {calls[i].arg}]) PROVE DefaultsStay
  BY <1>1, SettingsAssumption DEF Put, Changed, DefaultsStay
<1>2. ASSUME NEW h, NEW more, NEW less, Amend(h, "projects", more, less) PROVE DefaultsStay
  BY <1>2 DEF Amend, Amended, DefaultsStay
<1>3. CASE EndSave(i)
  BY <1>1, <1>2, <1>3 DEF EndSave
<1>4. CASE ServeQuestion(i) \/ ServeDelete(i) \/ Refuse(i) \/ EndAdd(i)
  BY <1>4, FileAside DEF ServeQuestion, ServeDelete, Refuse, EndAdd
<1>5. CASE BeginSwitch(i) \/ BeginChange(i) \/ GiveUp(i) \/ BeginSave(i)
  BY <1>5 DEF BeginSwitch, BeginChange, GiveUp, BeginSave, Load, Abandon, Empty, DefaultsStay
<1>6. QED
  BY <1>3, <1>4, <1>5 DEF ServePanel

LEMMA ServesPanelKeeps == ASSUME AppInv, NEW i, ServesPanel(i) PROVE AppInv'
<1>1. i \in DOMAIN calls /\ ServePanel(i) /\ UNCHANGED settingsVars /\ UNCHANGED costsVars /\ page' = page
  BY DEF ServesPanel, InFlight
<1>2. workDir \in Projects
  BY DEF AppInv, FilesInv, FilesTypeOK
<1>3. CallTrue(calls[i])
  BY <1>1 DEF AppInv, PanelInv, CallsInv
<1>4. PanelInv'
  BY <1>1, <1>2, ServePanelKeeps DEF AppInv
<1>5. SavesProjects \/ SavesOther \/ UNCHANGED fileVars
  BY <1>1, <1>3, PanelSave, PanelAssumption DEF CallTrue
<1>6. FilesInv'
  <2>1. CASE UNCHANGED filesVars
    BY <2>1, FilesAside DEF AppInv
  <2>2. ASSUME NEW dir \in Projects, MoveTo(dir) PROVE FilesInv'
    BY <2>2, MoveToKeeps DEF AppInv
  <2>3. CASE BeginSwitch(i) \/ EndAdd(i)
    <3>1. calls[i].arg \in Projects
      BY <1>3, <2>3, PanelAssumption DEF BeginSwitch, EndAdd, CallTrue
    <3>2. QED
      BY <2>2, <2>3, <3>1 DEF BeginSwitch, EndAdd
  <2>4. QED
    BY <1>1, <2>1, <2>3 DEF ServePanel, ServeQuestion, ServeDelete, Refuse, BeginChange, GiveUp, BeginSave, EndSave
<1>7. SettingsInv'
  BY <1>1, PanelKeepsDefaults, SettingsAside DEF AppInv
<1>8. QED
  BY <1>1, <1>4, <1>5, <1>6, <1>7, FileStepKeeps, ListStepKeeps, CostsAside DEF AppInv

LEMMA NavigateKeeps == ASSUME AppInv, NEW p \in Pages, Navigate(p) PROVE AppInv'
<1>1. page' = p /\ p # page /\ UNCHANGED filesVars /\ UNCHANGED fileVars
  BY DEF Navigate
<1>2. DefaultsStay
  BY <1>1, FileAside
<1>3. ServerStays
  <2>1. stored' = stored
    BY DEF Navigate, MountPanel, UnmountPanel, panelVars
  <2>2. QED
    BY <1>1, <2>1, FileAside DEF filesVars
<1>4. PanelInv'
  <2>1. CASE PanelThere(p) /\ ~PanelThere(page)
    BY <1>1, <1>3, <2>1, MountPanelKeeps DEF Navigate, AppInv
  <2>2. CASE PanelThere(page) /\ ~PanelThere(p)
    BY <1>1, <1>3, <2>2, UnmountPanelKeeps DEF Navigate, AppInv
  <2>3. CASE PanelThere(page) <=> PanelThere(p)
    BY <1>1, <1>3, <2>3, PanelAside DEF Navigate, AppInv
  <2>4. QED
    BY <2>1, <2>2, <2>3
<1>5. SettingsInv'
  <2>1. CASE p = "settings"
    BY <1>1, <1>2, <2>1, MountSettingsKeeps DEF Navigate, AppInv
  <2>2. CASE p # "settings" /\ page = "settings"
    BY <1>1, <1>2, <2>2, UnmountSettingsKeeps DEF Navigate, AppInv
  <2>3. CASE p # "settings" /\ page # "settings"
    BY <1>1, <1>2, <2>3, SettingsAside DEF Navigate, AppInv
  <2>4. QED
    BY <2>1, <2>2, <2>3
<1>6. CostsInv'
  BY CostsInvNext DEF Navigate, AppInv, CostsStep
<1>7. QED
  BY <1>1, <1>4, <1>5, <1>6, FileStepKeeps, ListStepKeeps, FilesAside DEF AppInv

LEMMA PanelUseKeeps == ASSUME AppInv, UsePanel \/ UsePicker \/ (\E i \in Slots : PanelHears(i)) PROVE AppInv'
<1>1. RestOfPanel
  BY DEF UsePanel, UsePicker, PanelHears
<1>2. page' = page /\ UNCHANGED fileVars /\ workDir' = workDir
  BY <1>1 DEF RestOfPanel, filesVars
<1>3. ASSUME stored' = stored PROVE ServerStays
  BY <1>2, <1>3, FileAside
<1>4. CASE UsePanel
  <2>1. /\ PanelThere(page)
        /\ \/ \E p \in Projects : ClickProject(p) \/ ClickRemove(p)
           \/ ClickAdding
           \/ \E s \in Sessions : ClickDelete(s)
    BY <1>4 DEF UsePanel
  <2>2. stored' = stored
    BY <2>1 DEF ClickProject, ClickRemove, ClickDelete, ClickAdding, ToggleList, OpenFolderBrowser, Back, GoTo, ClickAdd
  <2>3. PanelInv'
    BY <1>2, <1>3, <2>1, <2>2, ClickPanelKeeps DEF AppInv
  <2>4. QED
    BY <1>1, <2>3, PanelStepKeeps
<1>5. CASE UsePicker
  <2>1. ClickPicker
    BY <1>5 DEF UsePicker
  <2>2. stored' = stored
    BY <2>1 DEF ClickPicker, TogglePicker, PickProject
  <2>3. PanelInv'
    BY <1>2, <1>3, <2>1, <2>2, ClickPickerKeeps DEF AppInv
  <2>4. QED
    BY <1>1, <2>3, PanelStepKeeps
<1>6. ASSUME NEW i \in Slots, PanelHears(i) PROVE AppInv'
  <2>1. i \in DOMAIN calls /\ Answered(i)
    BY <1>6 DEF PanelHears, InFlight
  <2>2. stored' = stored
    BY <2>1 DEF Answered
  <2>3. PanelInv'
    BY <1>2, <1>3, <2>1, <2>2, AnsweredKeeps DEF AppInv
  <2>4. QED
    BY <1>1, <2>3, PanelStepKeeps
<1>7. QED
  BY <1>4, <1>5, <1>6

LEMMA SettingsUseKeeps ==
    ASSUME AppInv, UseSettings \/ UseBar \/ PollsStatus \/ (\E i \in Slots : ServesSettings(i) \/ SettingsHear(i))
    PROVE  AppInv'
<1>1. RestOfSettings /\ page' = page
  BY DEF UseSettings, UseBar, PollsStatus, ServesSettings, SettingsHear, RestOfSettings
<1>2. SettingsInv
  BY DEF AppInv
<1>3. ASSUME UNCHANGED fileVars PROVE DefaultsStay /\ latest' = latest
  BY <1>3, FileAside DEF fileVars
<1>4. CASE UseSettings
  <2>1. SettingsInv' /\ UNCHANGED fileVars
    BY <1>1, <1>2, <1>3, <1>4, ClickSettingsKeeps DEF UseSettings
  <2>2. QED
    BY <1>1, <2>1, SettingsStepKeeps
<1>5. CASE UseBar
  <2>1. SettingsInv' /\ UNCHANGED fileVars
    BY <1>1, <1>2, <1>3, <1>5, ClickBarKeeps DEF UseBar
  <2>2. QED
    BY <1>1, <2>1, SettingsStepKeeps
<1>6. CASE PollsStatus
  <2>1. SettingsInv' /\ UNCHANGED fileVars
    BY <1>1, <1>2, <1>3, <1>6, PollKeeps DEF PollsStatus
  <2>2. QED
    BY <1>1, <2>1, SettingsStepKeeps
<1>7. ASSUME NEW i \in Slots, ServesSettings(i) PROVE AppInv'
  <2>1. i \in InFlight(asks) /\ ServeSettings(i)
    BY <1>7 DEF ServesSettings
  <2>2. SettingsInv' /\ (SavesOther \/ UNCHANGED fileVars)
    BY <1>1, <1>2, <2>1, ServeSettingsKeeps, SettingsSave
  <2>3. QED
    BY <1>1, <2>2, SettingsStepKeeps
<1>8. ASSUME NEW i \in Slots, SettingsHear(i) PROVE AppInv'
  <2>1. i \in InFlight(asks) /\ SettingsAnswered(i) /\ UNCHANGED fileVars
    BY <1>8 DEF SettingsHear
  <2>2. SettingsInv'
    BY <1>1, <1>2, <1>3, <2>1, SettingsAnsweredKeeps
  <2>3. QED
    BY <1>1, <2>1, <2>2, SettingsStepKeeps
<1>9. QED
  BY <1>4, <1>5, <1>6, <1>7, <1>8

LEMMA FilesUseKeeps == ASSUME AppInv, UseFiles \/ ServesFiles \/ FilesHear PROVE AppInv'
<1>1. RestOfFiles
  BY DEF UseFiles, ServesFiles, FilesHear
<1>2. FilesNext /\ workDir' = workDir
  BY DEF UseFiles, ServesFiles, FilesHear, FilesNext, OpenFile, Edit, SaveFile, Cancel, Close, ServeRead, FileShown,
         ServeWrite, WriteRefused, WriteAnswered
<1>3. QED
  BY <1>1, <1>2, FilesStepKeeps

LEMMA CostsUseKeeps == ASSUME AppInv, UseCosts \/ UseModel \/ CostsHear \/ PollsFigures PROVE AppInv'
<1>1. RestOfCosts
  BY DEF UseCosts, UseModel, CostsHear, PollsFigures
<1>2. CostsStep
  BY DEF UseCosts, UseModel, CostsHear, PollsFigures, CostsStep
<1>3. QED
  BY <1>1, <1>2, CostsStepKeeps

LEMMA LossKeeps == ASSUME AppInv, Loss PROVE AppInv'
<1>1. ASSUME NEW i \in InFlight(calls), Lost(i), RestOfPanel PROVE AppInv'
  <2>1. page' = page
    BY <1>1 DEF RestOfPanel
  <2>2. PanelInv'
    BY <1>1, <2>1, LostKeeps DEF AppInv, InFlight
  <2>3. QED
    BY <1>1, <2>2, PanelStepKeeps
<1>2. ASSUME NEW i \in InFlight(asks), SettingsLost(i), UNCHANGED fileVars, RestOfSettings PROVE AppInv'
  <2>1. page' = page /\ latest' = latest
    BY <1>2 DEF RestOfSettings, fileVars
  <2>2. SettingsInv'
    BY <1>2, <2>1, SettingsLostKeeps DEF AppInv
  <2>3. QED
    BY <1>2, <2>2, SettingsStepKeeps
<1>3. ASSUME (\E r \in reads : OpenFails(r)) \/ (\E w \in writes : WriteFails(w)), RestOfFiles PROVE AppInv'
  <2>1. FilesNext /\ workDir' = workDir
    BY <1>3 DEF FilesNext, OpenFails, WriteFails
  <2>2. QED
    BY <1>3, <2>1, FilesStepKeeps
<1>4. ASSUME (\E i \in DOMAIN loads, f \in Figures : FigureFails(i, f)) \/ CompareFails, RestOfCosts PROVE AppInv'
  <2>1. CostsStep
    BY <1>4 DEF CostsStep
  <2>2. QED
    BY <1>4, <2>1, CostsStepKeeps
<1>5. QED
  BY <1>1, <1>2, <1>3, <1>4 DEF Loss

LEMMA AppInvNext == AppInv /\ [AppNext]_appVars => AppInv'
<1> SUFFICES ASSUME AppInv, [AppNext]_appVars PROVE AppInv'
  OBVIOUS
<1>1. CASE UNCHANGED appVars
  <2>1. UNCHANGED fileVars /\ UNCHANGED panelVars /\ UNCHANGED filesVars /\ UNCHANGED settingsVars
        /\ UNCHANGED costsVars /\ page' = page
    BY <1>1 DEF appVars
  <2>2. ServerStays /\ DefaultsStay
    BY <2>1, FileAside DEF panelVars, filesVars
  <2>3. QED
    BY <2>1, <2>2, PanelAside, FileStepKeeps, ListStepKeeps, FilesAside, CostsAside, SettingsAside DEF AppInv
<1>2. CASE AppNext
  BY <1>2, NavigateKeeps, ServesPanelKeeps, PanelUseKeeps, SettingsUseKeeps, FilesUseKeeps, CostsUseKeeps, LossKeeps
     DEF AppNext
<1>3. QED
  BY <1>1, <1>2

(* For any projects, folders, sessions, providers, languages, plans and    *)
(* numbers of requests in flight: when all is answered, the lists show     *)
(* what the server has, the settings page and the defaults say what is in  *)
(* use, and the activity page lists the last comparisons, each but for     *)
(* what its definition excepts (SidePanel.tsx:91-127, Settings.tsx:32-55,  *)
(* Costs.tsx:193).                                                         *)
THEOREM AppAlwaysSafe == AppSpec => []AppSafe
<1>1. AppInv => AppSafe
  <2> SUFFICES ASSUME AppInv PROVE AppSafe
    OBVIOUS
  <2>1. AppTypeOK
    BY PanelTyped DEF AppInv, PanelInv, FilesInv, SettingsInv, AsksInv, CostsInv, AppTypeOK
  <2>2. PanelFresh
    BY ListsShown DEF AppInv, PanelInv, PanelFresh
  <2>3. PageShowsActive(page = "settings")
    BY DEF AppInv, SettingsInv, PageInv, PageShowsActive
  <2>4. DefaultsAreActive
    <3>1. SUFFICES ASSUME Setting = {}, ~apart, {"provider", "model", "lang"} \intersect torn = {}
                   PROVE  Agrees(file)
      BY DEF DefaultsAreActive, Agrees
    <3>2. Agrees(latest)
      BY <3>1 DEF AppInv, SettingsInv, DefaultsInv
    <3>3. file["provider"] = latest["provider"] /\ file["model"] = latest["model"] /\ file["lang"] = latest["lang"]
      BY <3>1, SettingsAssumption DEF AppInv, FileInv, UpdatesKept
    <3>4. QED
      BY <3>2, <3>3 DEF Agrees
  <2>5. LastCompared
    BY DEF AppInv, CostsInv
  <2>6. QED
    BY <2>1, <2>2, <2>3, <2>4, <2>5 DEF AppSafe, SettingsTrue
<1>2. QED
  BY AppInvInit, AppInvNext, <1>1, PTL DEF AppSpec

(* In the whole front end too, with the panel's switches between the reads *)
(* and the writes, a file holds a text that came from it, or is one of     *)
(* those that were hurt (App.tsx:122-137).                                 *)
THEOREM AppFilesTextKept == AppSpec => []FilesKeepTheirText
<1>1. AppInv => FilesKeepTheirText
  BY DEF AppInv, FilesInv
<1>2. QED
  BY AppInvInit, AppInvNext, <1>1, PTL DEF AppSpec

(* And config.json, which the handlers of the panel and of the settings    *)
(* change at once, holds what the requests asked for in every field but    *)
(* the torn ones: of those a handler saved that had loaded the file before *)
(* another's save, or while it was empty, nothing is claimed               *)
(* (server.go:688, 1027, 2376).                                            *)
THEOREM AppUpdatesKept == AppSpec => []UpdatesKept
<1>1. AppInv => UpdatesKept
  BY DEF AppInv, FileInv
<1>2. QED
  BY AppInvInit, AppInvNext, <1>1, PTL DEF AppSpec
=============================================================================
