------------------------------- MODULE MCPProofs -------------------------------
(***************************************************************************)
(* The connections to an MCP server, for any goroutines, any number of     *)
(* connections and any bounds: answers are not mixed up, and no process is *)
(* left behind (MCP).                                                      *)
(***************************************************************************)
EXTENDS MCP, FiniteSetTheorems, SequenceTheorems, TLAPS

(* Who is on a connection.  One being set up is known to the goroutine that *)
(* sets it up alone; a tool call is on the connection that is registered,   *)
(* since it holds the registry's read lock; a call that writes or waits     *)
(* holds the mutex of its connection.                                       *)
Calling == {"call", "writing", "waiting", "notify"}
SettingUp(g) == caller[g].method \in {"initialize", "tools/list"} \/ At(g, "register")
Waits(g, c) == At(g, "waiting") /\ caller[g].on = c
Awaited(c) == \E g \in Goroutine : Waits(g, c)

CallerOK(g) ==
    /\ caller[g].pc \in Calling <=> caller[g].method # "none"
    /\ InCall(g) => caller[g].id \in CallId
    /\ At(g, "notify") => caller[g].method = "tools/list"
    /\ caller[g].got # Nothing => At(g, "waiting")
    /\ caller[g].pc \in {"idle", "connect", "disconnect", "reconnect"} => caller[g].on = Nobody
    /\ caller[g].method = "tools/call" => caller[g].on = registry
    /\ SettingUp(g) => caller[g].on # registry
    /\ caller[g].method = "initialize" =>
          conn[caller[g].on].nextID = IF At(g, "call") THEN 0 ELSE 1

Apart(g, h) ==
    caller[g].on = caller[h].on /\ (SettingUp(g) \/ (InCall(g) /\ InCall(h))) => g = h

(* A connection that is not made is known to nobody; one that is made has  *)
(* calls left for whoever is about to call.                                *)
Unknown(c) ==
    conn[c].process = "none" =>
        conn[c] = New /\ registry # c /\ \A g \in Goroutine : caller[g].on # c

ToCall(g) == caller[g].pc \in {"call", "notify"}
AboutToCall(c) == {g \in Goroutine : ToCall(g) /\ caller[g].on = c}
InBudget(c) == conn[c].nextID + Cardinality(AboutToCall(c)) <= limit.calls[c]

Shape ==
    /\ MCPTypeOK
    /\ \A g \in Goroutine : CallerOK(g)
    /\ \A g, h \in Goroutine : Apart(g, h)
    /\ \A c \in Client : Unknown(c) /\ InBudget(c)

(* A connection that is marked as running has one reader at most, that of   *)
(* the call that waits; and if the server wrote nothing of its own, what is *)
(* on its way is that call's answer.                                        *)
OnItsWay(c, id) ==
    \/ conn[c].asked = {id} /\ conn[c].stdout = <<>>
    \/ conn[c].asked = {} /\ conn[c].stdout = <<>>
    \/ conn[c].asked = {} /\ \E ok \in BOOLEAN : conn[c].stdout = <<[id |-> id, ok |-> ok]>>

OneReader(c) ==
    /\ ~conn[c].torn
    /\ ~Awaited(c) => conn[c].readers = {}
    /\ \A g \in Goroutine : Waits(g, c) =>
          conn[c].readers = IF caller[g].got = Nothing THEN {caller[g].id} ELSE {}

OwnAnswer(c) ==
    /\ conn[c].process # "up" => conn[c].asked = {}
    /\ ~Awaited(c) => conn[c].asked = {} /\ conn[c].stdout = <<>>
    /\ \A g \in Goroutine : Waits(g, c) =>
          IF caller[g].got = Nothing THEN OnItsWay(c, caller[g].id)
          ELSE /\ conn[c].asked = {} /\ conn[c].stdout = <<>>
               /\ caller[g].got.ok => caller[g].got.id = caller[g].id

InTurn(c) == conn[c].running => OneReader(c) /\ (conn[c].notes = 0 => OwnAnswer(c))

MCPInv == Shape /\ \A c \in Client : InTurn(c)

-----------------------------------------------------------------------------
(* Types of small things.                                                    *)

LEMMA NobodyIsNoClient == Nobody \notin Client
BY LimitsAssumption, FS_CardinalityType DEF Nobody

LEMMA LimitsType ==
  ASSUME limit \in Limits, NEW c \in Client
  PROVE  /\ limit.calls[c] \in Nat \ {1} /\ limit.notes[c] \in Nat
         /\ 1..limit.calls[c] \subseteq CallId
         /\ 0..limit.notes[c] \subseteq NoteCount
<1>1. limit \in [calls : [Client -> Nat \ {1}], notes : [Client -> Nat]]
  BY LimitsAssumption
<1>2. limit.calls[c] \in Nat \ {1} /\ limit.notes[c] \in Nat
  BY <1>1
<1>3. 1..limit.calls[c] \subseteq CallId
  <2>1. 1..limit.calls[c] \subseteq UNION {1..limit.calls[d] : d \in Client}
    OBVIOUS
  <2> QED  BY <2>1 DEF CallId
<1>4. 0..limit.notes[c] \subseteq NoteCount
  <2>1. 0..limit.notes[c] \subseteq UNION {0..limit.notes[d] : d \in Client}
    OBVIOUS
  <2> QED  BY <2>1 DEF NoteCount
<1> QED  BY <1>2, <1>3, <1>4

LEMMA LineTypes ==
  /\ Failed \in Line /\ Notification \in Line /\ ~Failed.ok
  /\ Nothing \notin Line
  /\ \A id \in CallId, ok \in BOOLEAN : [id |-> id, ok |-> ok] \in Line
<1>1. \A line \in Line : line # Nothing
  <2>1. DOMAIN Nothing = {"nothing"}
    BY DEF Nothing
  <2>2. \A line \in Line : DOMAIN line = {"id", "ok"}
    BY DEF Line
  <2>3. "nothing" # "id"
    OBVIOUS
  <2> QED  BY <2>1, <2>2, <2>3
<1> QED  BY <1>1 DEF Failed, Notification, Line

LEMMA DoingType ==
  ASSUME NEW pc \in {"idle", "connect", "call", "notify", "register", "disconnect", "check",
                     "reconnect", "close"},
         NEW c \in Client \cup {Nobody},
         NEW method \in {"none", "initialize", "tools/list", "tools/call"}
  PROVE  /\ Doing(pc, c, method) \in Caller
         /\ Doing(pc, c, method).pc = pc /\ Doing(pc, c, method).on = c
         /\ Doing(pc, c, method).method = method /\ Doing(pc, c, method).got = Nothing
BY DEF Doing, Caller

LEMMA NewTypes ==
  /\ New.process = "none" /\ ~New.running /\ New.nextID = 0
  /\ Started.process = "up" /\ Started.nextID = 0 /\ Started.running /\ ~Started.torn
  /\ Started.readers = {} /\ Started.asked = {} /\ Started.stdout = <<>>
BY DEF New, Started

LEMMA NewIsConnection ==
  ASSUME limit \in Limits, NEW c \in Client
  PROVE  New \in Connection /\ Started \in Connection
<1>1. 0 \in NoteCount
  BY LimitsType
<1>2. /\ New.process = "none" /\ New.running = FALSE /\ New.nextID = 0 /\ New.asked = {}
      /\ New.stdout = <<>> /\ New.readers = {} /\ New.torn = FALSE /\ New.tools = FALSE
  BY DEF New
<1>3. <<>> \in Seq(Line)
  OBVIOUS
<1>4. New \in Connection
  BY <1>1, <1>3 DEF New, Connection
<1>5. Started \in Connection
  BY <1>4 DEF Started, Connection
<1> QED  BY <1>4, <1>5

LEMMA ClosedType ==
  ASSUME NEW k \in Connection
  PROVE  /\ Closed(k) \in Connection /\ Closed(k).nextID = k.nextID /\ ~Closed(k).running
         /\ Closed(k).process = IF k.running THEN "killed" ELSE k.process
<1>1. CASE k.running
  <2>1. <<>> \in Seq(Line) /\ {} \in SUBSET CallId
    OBVIOUS
  <2>2. Closed(k) = [k EXCEPT !.running = FALSE, !.process = "killed", !.asked = {}, !.stdout = <<>>]
    BY <1>1 DEF Closed
  <2> HIDE DEF Line, CallId, NoteCount
  <2> QED  BY <1>1, <2>1, <2>2 DEF Connection
<1>2. CASE ~k.running
  BY <1>2 DEF Closed, Connection
<1> QED  BY <1>1, <1>2

LEMMA MCPInvInit == MCPInit => MCPInv
<1> SUFFICES ASSUME MCPInit PROVE MCPInv
  OBVIOUS
<1>1. MCPTypeOK
  BY DoingType, NewIsConnection DEF MCPInit, MCPTypeOK, Idle, Nobody
<1>2. ASSUME NEW g \in Goroutine PROVE CallerOK(g) /\ ~SettingUp(g) /\ ~InCall(g) /\ ~ToCall(g)
                                     /\ caller[g].on = Nobody
  BY DoingType, NobodyIsNoClient DEF MCPInit, CallerOK, SettingUp, At, Idle, Calling, InCall, ToCall
<1>3. ASSUME NEW g \in Goroutine, NEW h \in Goroutine PROVE Apart(g, h)
  BY <1>2 DEF Apart
<1>4. ASSUME NEW c \in Client PROVE Unknown(c) /\ InBudget(c) /\ InTurn(c)
  <2>1. AboutToCall(c) = {}
    BY <1>2 DEF AboutToCall
  <2>2. conn[c] = New /\ limit.calls[c] \in Nat
    BY LimitsType DEF MCPInit
  <2>3. InBudget(c)
    BY <2>1, <2>2, NewTypes, FS_EmptySet DEF InBudget
  <2>4. registry # c
    BY NobodyIsNoClient DEF MCPInit
  <2> QED  BY <1>2, <2>2, <2>3, <2>4, NewTypes, NobodyIsNoClient DEF Unknown, InTurn
<1> QED  BY <1>1, <1>2, <1>3, <1>4 DEF MCPInv, Shape

-----------------------------------------------------------------------------
(* What several steps share.                                                 *)

LEMMA IdsAreNumbers == CallId \subseteq Nat /\ NoteCount \subseteq Nat
<1>1. ASSUME NEW l \in Limits, NEW c \in Client PROVE l.calls[c] \in Nat /\ l.notes[c] \in Nat
  <2>1. l \in [calls : [Client -> Nat \ {1}], notes : [Client -> Nat]]
    BY LimitsAssumption
  <2> QED  BY <2>1
<1>2. ASSUME NEW n \in CallId PROVE n \in Nat
  <2>1. PICK l \in Limits : n \in UNION {1..l.calls[c] : c \in Client}
    BY DEF CallId
  <2>2. PICK c \in Client : n \in 1..l.calls[c]
    BY <2>1
  <2> QED  BY <1>1, <2>2
<1>3. ASSUME NEW n \in NoteCount PROVE n \in Nat
  <2>1. PICK l \in Limits : n \in UNION {0..l.notes[c] : c \in Client}
    BY DEF NoteCount
  <2>2. PICK c \in Client : n \in 0..l.notes[c]
    BY <2>1
  <2> QED  BY <1>1, <2>2
<1> QED  BY <1>2, <1>3

LEMMA FieldTypes ==
  ASSUME NEW k \in Connection
  PROVE  /\ k.process \in {"none", "up", "exited", "killed"} /\ k.running \in BOOLEAN
         /\ k.nextID \in {0} \cup CallId /\ k.nextID \in Nat
         /\ k.asked \subseteq CallId /\ k.stdout \in Seq(Line) /\ k.readers \subseteq CallId
         /\ k.torn \in BOOLEAN /\ k.tools \in BOOLEAN /\ k.notes \in NoteCount /\ k.notes \in Nat
<1>1. /\ k.process \in {"none", "up", "exited", "killed"} /\ k.running \in BOOLEAN
      /\ k.nextID \in {0} \cup CallId
      /\ k.asked \subseteq CallId /\ k.stdout \in Seq(Line) /\ k.readers \subseteq CallId
      /\ k.torn \in BOOLEAN /\ k.tools \in BOOLEAN /\ k.notes \in NoteCount
  BY DEF Connection
<1>2. k.nextID \in Nat /\ k.notes \in Nat
  <2>1. k.notes \in Nat
    BY <1>1, IdsAreNumbers
  <2>2. CASE k.nextID = 0
    BY <2>1, <2>2
  <2>3. CASE k.nextID \in CallId
    BY <2>1, <2>3, IdsAreNumbers
  <2> QED  BY <1>1, <2>2, <2>3
<1> QED  BY <1>1, <1>2

LEMMA CallerTypes ==
  ASSUME MCPTypeOK, NEW g \in Goroutine
  PROVE  /\ caller[g] \in Caller /\ caller[g].on \in Client \cup {Nobody}
         /\ caller[g].pc \in {"idle", "connect", "call", "writing", "waiting", "notify", "register",
                              "disconnect", "check", "reconnect", "close"}
         /\ caller[g].method \in {"none", "initialize", "tools/list", "tools/call"}
         /\ caller[g].got \in Line \cup {Nothing}
         /\ caller[g].id \in {0} \cup CallId
         /\ caller[g].pc \in Calling \cup {"register", "check", "close"} => caller[g].on \in Client
BY DEF MCPTypeOK, Caller, Calling

LEMMA AboutToCallFinite ==
  ASSUME NEW c
  PROVE  IsFiniteSet(AboutToCall(c)) /\ Cardinality(AboutToCall(c)) \in Nat
<1>1. AboutToCall(c) \subseteq Goroutine
  BY DEF AboutToCall
<1> QED  BY <1>1, GoroutineAssumption, FS_Subset, FS_CardinalityType

(* Whoever is about to call has a number for the call.                      *)
LEMMA NextCall ==
  ASSUME Shape, NEW g \in Goroutine, NEW c \in Client, At(g, "call"), caller[g].on = c
  PROVE  conn[c].nextID + 1 \in CallId
<1>1. g \in AboutToCall(c)
  BY DEF AboutToCall, ToCall, At
<1>2. Cardinality(AboutToCall(c)) # 0
  BY <1>1, AboutToCallFinite, FS_EmptySet
<1>3. conn[c].nextID + Cardinality(AboutToCall(c)) <= limit.calls[c]
  BY DEF Shape, InBudget
<1>4. /\ conn[c].nextID \in Nat /\ limit.calls[c] \in Nat /\ 1..limit.calls[c] \subseteq CallId
  BY FieldTypes, LimitsType DEF Shape, MCPTypeOK
<1>5. conn[c].nextID + 1 \in 1..limit.calls[c]
  BY <1>2, <1>3, <1>4, AboutToCallFinite
<1> QED  BY <1>4, <1>5

LEMMA BudgetKept ==
  ASSUME MCPTypeOK, MCPTypeOK', NEW c \in Client, limit' = limit, InBudget(c),
         conn'[c].nextID = conn[c].nextID, AboutToCall(c)' \subseteq AboutToCall(c)
  PROVE  InBudget(c)'
<1>1. Cardinality(AboutToCall(c)') <= Cardinality(AboutToCall(c)) /\ Cardinality(AboutToCall(c)') \in Nat
  BY AboutToCallFinite, FS_Subset, FS_CardinalityType
<1>2. conn[c].nextID \in Nat /\ limit.calls[c] \in Nat
  BY LimitsType, FieldTypes DEF MCPTypeOK
<1> QED  BY <1>1, <1>2, AboutToCallFinite DEF InBudget

LEMMA TurnKept ==
  ASSUME NEW c \in Client, InTurn(c),
         conn'[c].running =>
            /\ conn[c].running /\ conn'[c].process = conn[c].process
            /\ conn'[c].torn = conn[c].torn /\ conn'[c].readers = conn[c].readers
            /\ conn'[c].notes = conn[c].notes /\ conn'[c].asked = conn[c].asked
            /\ conn'[c].stdout = conn[c].stdout,
         \A h \in Goroutine : Waits(h, c)' <=> Waits(h, c),
         \A h \in Goroutine : Waits(h, c) => caller'[h].id = caller[h].id /\ caller'[h].got = caller[h].got
  PROVE  InTurn(c)'
<1> SUFFICES ASSUME conn'[c].running PROVE OneReader(c)' /\ (conn'[c].notes = 0 => OwnAnswer(c)')
  BY DEF InTurn
<1>1. OneReader(c) /\ (conn'[c].notes = 0 => OwnAnswer(c))
  BY DEF InTurn
<1>2. Awaited(c)' <=> Awaited(c)
  BY DEF Awaited
<1>3. OneReader(c)'
  BY <1>1, <1>2 DEF OneReader
<1>4. ASSUME NEW id PROVE OnItsWay(c, id)' <=> OnItsWay(c, id)
  BY DEF OnItsWay
<1>5. ASSUME conn'[c].notes = 0 PROVE OwnAnswer(c)'
  BY <1>1, <1>2, <1>4, <1>5 DEF OwnAnswer
<1> QED  BY <1>3, <1>5

LEMMA CallerChange ==
  ASSUME MCPTypeOK, NEW g \in Goroutine, NEW d \in Caller, caller' = [caller EXCEPT ![g] = d]
  PROVE  /\ caller' \in [Goroutine -> Caller] /\ caller'[g] = d
         /\ \A h \in Goroutine \ {g} : caller'[h] = caller[h]
BY DEF MCPTypeOK

(* Who sets up, who is about to call and who waits is on a connection.      *)
LEMMA SettingUpOnClient ==
  ASSUME Shape, NEW g \in Goroutine
  PROVE  /\ SettingUp(g) => caller[g].on \in Client /\ caller[g].pc \in Calling \cup {"register"}
         /\ caller[g].pc \in Calling \cup {"register"} =>
               caller[g].on \in Client /\ conn[caller[g].on].process # "none"
<1>1. CallerOK(g) /\ MCPTypeOK
  BY DEF Shape
<1>2. SettingUp(g) => caller[g].pc \in Calling \cup {"register"}
  BY <1>1 DEF CallerOK, SettingUp, At, Calling
<1>3. ASSUME caller[g].pc \in Calling \cup {"register"}
      PROVE  caller[g].on \in Client /\ conn[caller[g].on].process # "none"
  <2>1. caller[g].on \in Client
    BY <1>1, <1>3, CallerTypes
  <2>2. Unknown(caller[g].on)
    BY <2>1 DEF Shape
  <2> QED  BY <2>1, <2>2 DEF Unknown
<1> QED  BY <1>2, <1>3

(* A step of g that leaves what it did, closes connections or none, and    *)
(* sets the registry.                                                      *)
LEMMA MovesOn ==
  ASSUME MCPInv, NEW g \in Goroutine, caller[g].pc \notin Calling,
         NEW pc \in {"idle", "connect", "disconnect", "check", "reconnect", "close"},
         NEW r \in Client \cup {Nobody},
         pc \in {"check", "close"} => r # Nobody, r # Nobody => pc \in {"check", "close"},
         r \in {Nobody, registry},
         caller' = [caller EXCEPT ![g] = Doing(pc, r, "none")],
         \/ registry' = registry
         \/ ~CallsUnderLock /\ r = Nobody /\ registry' = Nobody
         \/ ~CallsUnderLock /\ r = Nobody /\ registry' = caller[g].on /\ At(g, "register"),
         conn' \in [Client -> Connection],
         \A c \in Client : conn'[c] = conn[c] \/ conn'[c] = Closed(conn[c]),
         limit' = limit
  PROVE  MCPInv'
<1> DEFINE d == Doing(pc, r, "none")
<1>0. /\ Shape /\ MCPTypeOK /\ \A c \in Client : InTurn(c)
      /\ \A h \in Goroutine : CallerOK(h)
      /\ \A c \in Client : Unknown(c) /\ InBudget(c)
  BY DEF MCPInv, Shape
<1>1. /\ d \in Caller /\ d.pc = pc /\ d.on = r /\ d.method = "none" /\ d.got = Nothing
  BY DoingType
<1>2. /\ caller' \in [Goroutine -> Caller] /\ caller'[g] = d
      /\ \A h \in Goroutine \ {g} : caller'[h] = caller[h]
  BY <1>0, <1>1, CallerChange
<1>3. caller[g].method = "none" /\ caller[g].got = Nothing
  BY <1>0 DEF CallerOK, At, Calling
<1>4. /\ registry' \in Client \cup {Nobody}
  BY <1>0, CallerTypes DEF MCPTypeOK
<1>5. MCPTypeOK'
  BY <1>0, <1>1, <1>2, <1>4 DEF MCPTypeOK
<1>6. ASSUME NEW c \in Client
      PROVE  /\ conn'[c].nextID = conn[c].nextID
             /\ conn'[c].running => conn'[c] = conn[c]
             /\ conn'[c].process = "none" => conn[c].process = "none" /\ conn'[c] = conn[c]
  <2>1. conn[c] \in Connection
    BY <1>0 DEF MCPTypeOK
  <2>2. CASE conn'[c] = conn[c]
    BY <2>2
  <2>3. CASE conn'[c] = Closed(conn[c])
    <3>1. CASE conn[c].running
      BY <2>1, <2>3, <3>1, ClosedType
    <3>2. CASE ~conn[c].running
      BY <2>3, <3>2 DEF Closed
    <3> QED  BY <3>1, <3>2
  <2> QED  BY <2>2, <2>3
<1>7. ~SettingUp(g)' /\ ~InCall(g)' /\ ~ToCall(g)' /\ ~InCall(g)
  BY <1>1, <1>2 DEF SettingUp, At, InCall, ToCall, Calling
<1>8. ASSUME NEW h \in Goroutine PROVE CallerOK(h)'
  <2>1. CASE h = g
    BY <1>1, <1>2, <1>7, <2>1 DEF CallerOK, At, Calling
  <2>2. CASE h # g
    <3>1. caller'[h] = caller[h] /\ CallerOK(h) /\ (SettingUp(h)' <=> SettingUp(h))
      BY <1>0, <1>2, <2>2 DEF SettingUp, At
    <3>2. caller[h].method = "tools/call" => caller[h].on = registry'
      BY <3>1 DEF CallerOK, CallsUnderLock
    <3>3. ASSUME SettingUp(h) PROVE caller[h].on # registry'
      <4>1. caller[h].on # registry /\ caller[h].on # Nobody
        BY <1>0, <3>1, <3>3, SettingUpOnClient, NobodyIsNoClient DEF CallerOK
      <4>2. At(g, "register") => caller[h].on # caller[g].on
        BY <2>2, <3>3 DEF MCPInv, Shape, Apart, SettingUp
      <4> QED  BY <4>1, <4>2
    <3>4. caller[h].method = "initialize" =>
            conn'[caller[h].on].nextID = IF At(h, "call") THEN 0 ELSE 1
      BY <1>0, <1>6, <3>1, SettingUpOnClient DEF CallerOK, SettingUp
    <3> QED  BY <3>1, <3>2, <3>3, <3>4 DEF CallerOK, At, InCall
  <2> QED  BY <2>1, <2>2
<1>9. ASSUME NEW h \in Goroutine, NEW i \in Goroutine PROVE Apart(h, i)'
  <2> SUFFICES ASSUME caller'[h].on = caller'[i].on,
                      SettingUp(h)' \/ (InCall(h)' /\ InCall(i)'), h # i
               PROVE  FALSE
    BY DEF Apart
  <2>1. h # g /\ (SettingUp(h) <=> SettingUp(h)') /\ (InCall(h) <=> InCall(h)')
    BY <1>2, <1>7 DEF SettingUp, At, InCall
  <2>2. caller'[h].on = caller[h].on
    BY <1>2, <2>1
  <2>3. CASE i = g
    <3>1. caller[h].on = r /\ SettingUp(h)
      BY <1>1, <1>2, <1>7, <2>1, <2>2, <2>3
    <3>2. caller[h].on # registry /\ caller[h].on # Nobody
      BY <1>0, <3>1, SettingUpOnClient, NobodyIsNoClient DEF CallerOK
    <3> QED  BY <3>1, <3>2
  <2>4. CASE i # g
    BY <1>2, <2>1, <2>2, <2>4 DEF MCPInv, Shape, Apart, SettingUp, At, InCall
  <2> QED  BY <2>3, <2>4
<1>10. ASSUME NEW c \in Client PROVE Unknown(c)'
  <2> SUFFICES ASSUME conn'[c].process = "none"
               PROVE  conn'[c] = New /\ registry' # c /\ \A h \in Goroutine : caller'[h].on # c
    BY DEF Unknown
  <2>1. conn'[c] = New /\ registry # c /\ \A h \in Goroutine : caller[h].on # c
    BY <1>0, <1>6 DEF Unknown
  <2>2. registry' # c /\ r # c
    BY <2>1, NobodyIsNoClient
  <2> QED  BY <1>1, <1>2, <2>1, <2>2
<1>11. ASSUME NEW c \in Client PROVE InBudget(c)'
  <2>1. AboutToCall(c)' \subseteq AboutToCall(c)
    BY <1>2, <1>7 DEF AboutToCall, ToCall
  <2> QED  BY <1>0, <1>5, <1>6, <2>1, BudgetKept
<1>12. ASSUME NEW c \in Client PROVE InTurn(c)'
  <2>1. \A h \in Goroutine : Waits(h, c)' <=> Waits(h, c)
    BY <1>2, <1>7 DEF Waits, At, InCall
  <2>2. \A h \in Goroutine : Waits(h, c) => caller'[h] = caller[h]
    BY <1>2, <1>7 DEF Waits, At, InCall
  <2> QED  BY <1>0, <1>6, <2>1, <2>2, TurnKept
<1> QED  BY <1>5, <1>8, <1>9, <1>10, <1>11, <1>12 DEF MCPInv, Shape

(* The call of g ends: its connection is k, nobody else waits for it, and,  *)
(* if k is marked as running, nothing of an earlier call is left.          *)
LEMMA CallEnds ==
  ASSUME MCPInv, NEW g \in Goroutine, NEW c \in Client, caller[g].on = c, InCall(g),
         NEW k \in Connection, k.process # "none",
         k.nextID = conn[c].nextID,
         k.running => /\ k.readers = {} /\ ~k.torn
                      /\ k.notes = 0 => k.asked = {} /\ k.stdout = <<>>,
         \A h \in Goroutine \ {g} : ~Waits(h, c),
         conn' = [conn EXCEPT ![c] = k],
         NEW d \in Caller, caller' = [caller EXCEPT ![g] = d],
         d.pc \in {"idle", "notify", "register"}, d.got = Nothing,
         d.pc = "idle" => d.on = Nobody /\ d.method = "none",
         d.pc # "idle" => d.on = c,
         d.pc = "notify" => d.method = "tools/list" /\ caller[g].method = "initialize",
         d.pc = "register" => d.method = "none" /\ caller[g].method = "tools/list",
         UNCHANGED <<registry, limit>>
  PROVE  MCPInv'
<1>0. /\ Shape /\ MCPTypeOK /\ \A e \in Client : InTurn(e)
      /\ \A h \in Goroutine : CallerOK(h)
      /\ \A e \in Client : Unknown(e) /\ InBudget(e)
  BY DEF MCPInv, Shape
<1>1. /\ caller' \in [Goroutine -> Caller] /\ caller'[g] = d
      /\ \A h \in Goroutine \ {g} : caller'[h] = caller[h]
  BY <1>0, CallerChange
<1>2. conn[c].process # "none" /\ d.on \in {c, Nobody} /\ c # Nobody
  BY <1>0, SettingUpOnClient, NobodyIsNoClient DEF InCall, Calling
<1>3. conn' \in [Client -> Connection] /\ conn'[c] = k /\ \A e \in Client \ {c} : conn'[e] = conn[e]
  BY <1>0, <1>2 DEF MCPTypeOK
<1>4. MCPTypeOK'
  BY <1>0, <1>1, <1>2, <1>3 DEF MCPTypeOK
<1>5. ~InCall(g)' /\ ~At(g, "waiting")' /\ (SettingUp(g)' => SettingUp(g) /\ d.on = c) /\ ~ToCall(g)
  BY <1>1 DEF SettingUp, At, InCall, ToCall
<1>6. ASSUME NEW h \in Goroutine PROVE CallerOK(h)'
  <2>1. CASE h = g
    <3>1. SettingUp(g)' => d.on # registry'
      BY <1>0, <1>5 DEF CallerOK
    <3>2. d.method \in {"none", "tools/list"}
      OBVIOUS
    <3> QED  BY <1>1, <1>5, <2>1, <3>1, <3>2 DEF CallerOK, At, Calling
  <2>2. CASE h # g
    <3>1. caller'[h] = caller[h] /\ CallerOK(h) /\ (SettingUp(h)' <=> SettingUp(h))
      BY <1>0, <1>1, <2>2 DEF SettingUp, At
    <3>2. caller[h].method = "initialize" => caller[h].on # c /\ caller[h].on \in Client
      BY <1>0, <2>2, SettingUpOnClient DEF Shape, Apart, SettingUp
    <3> QED  BY <1>3, <3>1, <3>2 DEF CallerOK, At, InCall
  <2> QED  BY <2>1, <2>2
<1>7. ASSUME NEW h \in Goroutine, NEW i \in Goroutine PROVE Apart(h, i)'
  <2> SUFFICES ASSUME caller'[h].on = caller'[i].on,
                      SettingUp(h)' \/ (InCall(h)' /\ InCall(i)'), h # i
               PROVE  FALSE
    BY DEF Apart
  <2>1. (SettingUp(h)' => SettingUp(h)) /\ (InCall(h)' => InCall(h))
        /\ (InCall(i)' => InCall(i))
    BY <1>1, <1>5 DEF SettingUp, At, InCall
  <2>2. caller'[h].on = caller[h].on
    BY <1>1, <1>5
  <2>3. caller'[i].on = caller[i].on
    <3>1. CASE i = g
      <4>1. SettingUp(h) /\ h # g
        BY <1>5, <2>1, <3>1
      <4>2. caller[h].on # Nobody
        BY <1>0, <4>1, SettingUpOnClient, NobodyIsNoClient
      <4> QED  BY <1>1, <1>2, <2>2, <3>1, <4>2
    <3>2. CASE i # g
      BY <1>1, <3>2
    <3> QED  BY <3>1, <3>2
  <2> QED  BY <2>1, <2>2, <2>3 DEF MCPInv, Shape, Apart
<1>8. ASSUME NEW e \in Client PROVE Unknown(e)'
  <2> SUFFICES ASSUME conn'[e].process = "none"
               PROVE  conn'[e] = New /\ registry' # e /\ \A h \in Goroutine : caller'[h].on # e
    BY DEF Unknown
  <2>1. e # c
    BY <1>3
  <2>2. conn[e] = New /\ registry # e /\ \A h \in Goroutine : caller[h].on # e
    BY <1>0, <1>3, <2>1 DEF Unknown
  <2> QED  BY <1>1, <1>2, <1>3, <2>1, <2>2, NobodyIsNoClient
<1>9. ASSUME NEW e \in Client PROVE InBudget(e)'
  <2>1. CASE e # c
    <3>1. AboutToCall(e)' \subseteq AboutToCall(e)
      BY <1>1, <1>2, <2>1, NobodyIsNoClient DEF AboutToCall, ToCall
    <3> QED  BY <1>0, <1>3, <1>4, <2>1, <3>1, BudgetKept
  <2>2. CASE e = c /\ d.pc = "notify"
    <3>1. AboutToCall(c)' \subseteq {g}
      <4>1. SettingUp(g)
        BY <2>2 DEF SettingUp
      <4>2. \A h \in Goroutine : caller[h].on = c => h = g
        BY <1>0, <4>1 DEF Shape, Apart
      <4> QED  BY <1>1, <4>2 DEF AboutToCall, ToCall
    <3>2. Cardinality(AboutToCall(c)') <= 1 /\ Cardinality(AboutToCall(c)') \in Nat
      <4>1. IsFiniteSet({g}) /\ Cardinality({g}) = 1
        BY FS_Singleton
      <4> QED  BY <3>1, <4>1, FS_Subset, FS_CardinalityType
    <3>3. conn'[c].nextID = 1 /\ conn[c].nextID = 1
      BY <1>0, <1>3, <2>2 DEF CallerOK, At, InCall
    <3>4. limit.calls[c] \in Nat \ {1} /\ limit.calls[c] >= 1
      <4>1. conn[c].nextID + Cardinality(AboutToCall(c)) <= limit.calls[c]
        BY <1>0, <1>2 DEF InBudget
      <4>2. limit.calls[c] \in Nat \ {1}
        BY <1>0, <1>2, LimitsType DEF MCPTypeOK
      <4> QED  BY <3>3, <4>1, <4>2, AboutToCallFinite
    <3> QED  BY <2>2, <3>2, <3>3, <3>4 DEF InBudget
  <2>3. CASE e = c /\ d.pc # "notify"
    <3>1. AboutToCall(c)' \subseteq AboutToCall(c)
      BY <1>1, <2>3 DEF AboutToCall, ToCall
    <3> QED  BY <1>0, <1>2, <1>3, <1>4, <2>3, <3>1, BudgetKept
  <2> QED  BY <2>1, <2>2, <2>3
<1>10. ASSUME NEW e \in Client PROVE InTurn(e)'
  <2>1. CASE e # c
    <3>1. \A h \in Goroutine : Waits(h, e)' <=> Waits(h, e)
      BY <1>1, <1>5, <2>1 DEF Waits, At
    <3>2. \A h \in Goroutine : Waits(h, e) => caller'[h] = caller[h]
      BY <1>1, <2>1 DEF Waits, At
    <3> QED  BY <1>0, <1>3, <2>1, <3>1, <3>2, TurnKept
  <2>2. CASE e = c
    <3>1. \A h \in Goroutine : ~Waits(h, c)'
      BY <1>1, <1>5 DEF Waits, At
    <3> QED  BY <1>3, <2>2, <3>1 DEF InTurn, OneReader, OwnAnswer, Awaited
  <2> QED  BY <2>1, <2>2
<1> QED  BY <1>4, <1>6, <1>7, <1>8, <1>9, <1>10 DEF MCPInv, Shape

LEMMA CallReturnsInv ==
  ASSUME MCPInv, NEW g \in Goroutine, NEW c \in Client, caller[g].on = c, InCall(g),
         NEW k \in Connection, k.process = conn[c].process,
         k.nextID = conn[c].nextID,
         k.running => /\ k.readers = {} /\ ~k.torn
                      /\ k.notes = 0 => k.asked = {} /\ k.stdout = <<>>,
         \A h \in Goroutine \ {g} : ~Waits(h, c),
         NEW line \in Line,
         CallReturns(g, k, line)
  PROVE  MCPInv'
<1>1. k.process # "none"
  BY SettingUpOnClient DEF MCPInv, InCall, Calling
<1>2. UNCHANGED <<registry, limit>>
  BY DEF CallReturns
<1>3. CASE /\ caller[g].method = "tools/call"
           /\ conn' = [conn EXCEPT ![c] = k] /\ caller' = [caller EXCEPT ![g] = Idle]
  <2>1. /\ Idle \in Caller /\ Idle.pc = "idle" /\ Idle.got = Nothing /\ Idle.on = Nobody
        /\ Idle.method = "none"
    BY DoingType DEF Idle
  <2> QED  BY <1>1, <1>2, <1>3, <2>1, CallEnds
<1>4. CASE /\ caller[g].method = "initialize" /\ line.ok
           /\ conn' = [conn EXCEPT ![c] = k]
           /\ caller' = [caller EXCEPT ![g] = Doing("notify", c, "tools/list")]
  <2> DEFINE d == Doing("notify", c, "tools/list")
  <2>1. d \in Caller /\ d.pc = "notify" /\ d.got = Nothing /\ d.on = c /\ d.method = "tools/list"
    BY DoingType
  <2>2. caller' = [caller EXCEPT ![g] = d]
    BY <1>4
  <2> HIDE DEF d
  <2> QED  BY <1>1, <1>2, <1>4, <2>1, <2>2, CallEnds
<1>5. CASE /\ caller[g].method = "initialize" /\ ~line.ok
           /\ conn' = [conn EXCEPT ![c] = Closed(k)] /\ caller' = [caller EXCEPT ![g] = Idle]
  <2>1. /\ Closed(k) \in Connection /\ Closed(k).nextID = k.nextID /\ ~Closed(k).running
        /\ Closed(k).process # "none"
    BY <1>1, ClosedType
  <2>2. /\ Idle \in Caller /\ Idle.pc = "idle" /\ Idle.got = Nothing /\ Idle.on = Nobody
        /\ Idle.method = "none"
    BY DoingType DEF Idle
  <2> QED  BY <1>1, <1>2, <1>5, <2>1, <2>2, CallEnds
<1>6. CASE /\ caller[g].method = "tools/list"
           /\ conn' = [conn EXCEPT ![c] =
                          [k EXCEPT !.tools = (line = [id |-> caller[g].id, ok |-> TRUE])]]
           /\ caller' = [caller EXCEPT ![g] = Doing("register", c, "none")]
  <2> DEFINE j == [k EXCEPT !.tools = (line = [id |-> caller[g].id, ok |-> TRUE])]
  <2>1. /\ j \in Connection /\ j.process = k.process /\ j.nextID = k.nextID /\ j.running = k.running
        /\ j.readers = k.readers /\ j.torn = k.torn /\ j.notes = k.notes /\ j.asked = k.asked
        /\ j.stdout = k.stdout
    BY DEF Connection
  <2> HIDE DEF j
  <2>2. conn' = [conn EXCEPT ![c] = j]
    BY <1>6 DEF j
  <2> DEFINE d == Doing("register", c, "none")
  <2>3. d \in Caller /\ d.pc = "register" /\ d.got = Nothing /\ d.on = c /\ d.method = "none"
    BY DoingType
  <2>4. caller' = [caller EXCEPT ![g] = d]
    BY <1>6
  <2> HIDE DEF d
  <2>5. /\ j.process # "none"
        /\ j.nextID = conn[c].nextID
        /\ j.running => /\ j.readers = {} /\ ~j.torn
                        /\ j.notes = 0 => j.asked = {} /\ j.stdout = <<>>
    BY <1>1, <2>1
  <2>6. j \in Connection /\ caller[g].method = "tools/list"
    BY <1>6, <2>1
  <2> QED  BY <1>2, <2>2, <2>3, <2>4, <2>5, <2>6, CallEnds
<1> QED  BY <1>3, <1>4, <1>5, <1>6 DEF CallReturns

-----------------------------------------------------------------------------
(* The actions.                                                              *)

(* The connection c alone changes, and what has come to its waiting call.   *)
LEMMA ConnectionChanges ==
  ASSUME MCPInv, NEW c \in Client, NEW k \in Connection, conn[c].process # "none",
         k.process # "none", k.nextID = conn[c].nextID,
         conn' = [conn EXCEPT ![c] = k],
         caller' \in [Goroutine -> Caller],
         \A h \in Goroutine : /\ caller'[h].pc = caller[h].pc /\ caller'[h].on = caller[h].on
                              /\ caller'[h].method = caller[h].method /\ caller'[h].id = caller[h].id
                              /\ Waits(h, c) \/ caller'[h] = caller[h],
         InTurn(c)',
         UNCHANGED <<registry, limit>>
  PROVE  MCPInv'
<1>0. /\ Shape /\ MCPTypeOK /\ \A e \in Client : InTurn(e)
      /\ \A h \in Goroutine : CallerOK(h)
      /\ \A e \in Client : Unknown(e) /\ InBudget(e)
  BY DEF MCPInv, Shape
<1>1. conn' \in [Client -> Connection] /\ conn'[c] = k /\ \A e \in Client \ {c} : conn'[e] = conn[e]
  BY <1>0 DEF MCPTypeOK
<1>2. MCPTypeOK'
  BY <1>0, <1>1 DEF MCPTypeOK
<1>3. \A h \in Goroutine : /\ SettingUp(h)' <=> SettingUp(h)
                           /\ At(h, "waiting")' <=> At(h, "waiting")
                           /\ At(h, "notify")' <=> At(h, "notify")
                           /\ At(h, "call")' <=> At(h, "call")
                           /\ InCall(h)' <=> InCall(h)
                           /\ ToCall(h)' <=> ToCall(h)
  BY DEF SettingUp, At, InCall, ToCall
<1>4. ASSUME NEW h \in Goroutine PROVE CallerOK(h)'
  <2>1. caller'[h].got # Nothing => At(h, "waiting")
    BY <1>0 DEF CallerOK, Waits
  <2>2. caller[h].method = "initialize" => caller[h].on \in Client
    BY <1>0, SettingUpOnClient DEF SettingUp
  <2>3. \A e \in Client : conn'[e].nextID = conn[e].nextID
    BY <1>1
  <2>4. caller[h].method = "initialize" =>
            conn'[caller[h].on].nextID = IF At(h, "call") THEN 0 ELSE 1
    BY <1>0, <2>2, <2>3 DEF CallerOK
  <2> QED  BY <1>0, <1>3, <2>1, <2>4 DEF CallerOK
<1>5. \A h, i \in Goroutine : Apart(h, i)'
  BY <1>0, <1>3 DEF Shape, Apart
<1>6. ASSUME NEW e \in Client PROVE Unknown(e)'
  BY <1>0, <1>1 DEF Unknown
<1>7. ASSUME NEW e \in Client PROVE InBudget(e)'
  <2>1. AboutToCall(e)' \subseteq AboutToCall(e)
    BY <1>3 DEF AboutToCall
  <2> QED  BY <1>0, <1>1, <1>2, <2>1, BudgetKept
<1>8. ASSUME NEW e \in Client PROVE InTurn(e)'
  <2>1. CASE e = c
    BY <2>1
  <2>2. CASE e # c
    <3>1. \A h \in Goroutine : Waits(h, e)' <=> Waits(h, e)
      BY <1>3 DEF Waits
    <3>2. \A h \in Goroutine : Waits(h, e) => caller'[h] = caller[h]
      BY <2>2 DEF Waits
    <3> QED  BY <1>0, <1>1, <2>2, <3>1, <3>2, TurnKept
  <2> QED  BY <2>1, <2>2
<1> QED  BY <1>2, <1>4, <1>5, <1>6, <1>7, <1>8 DEF MCPInv, Shape

LEMMA CallMCPToolInv ==
  ASSUME MCPInv, NEW g \in Goroutine, CallMCPTool(g)
  PROVE  MCPInv'
<1> DEFINE d == Doing("call", registry, "tools/call")
<1>0. /\ Shape /\ MCPTypeOK /\ \A e \in Client : InTurn(e)
      /\ \A h \in Goroutine : CallerOK(h)
      /\ \A e \in Client : Unknown(e) /\ InBudget(e)
      /\ At(g, "idle")
  BY DEF MCPInv, Shape, CallMCPTool
<1>1. PICK c \in Client : c = registry
  BY <1>0 DEF MCPTypeOK, CallMCPTool
<1>2. d \in Caller /\ d.pc = "call" /\ d.on = c /\ d.method = "tools/call" /\ d.got = Nothing
  BY <1>1, DoingType
<1>3. /\ caller' \in [Goroutine -> Caller] /\ caller'[g] = d
      /\ \A h \in Goroutine \ {g} : caller'[h] = caller[h]
      /\ UNCHANGED <<registry, conn, limit>>
  BY <1>0, <1>2, CallerChange DEF CallMCPTool
<1>4. MCPTypeOK'
  BY <1>0, <1>1, <1>2, <1>3, NobodyIsNoClient DEF MCPTypeOK
<1>5. ~SettingUp(g)' /\ ~InCall(g)' /\ ~InCall(g)
  BY <1>0, <1>2, <1>3 DEF SettingUp, At, InCall
<1>6. ASSUME NEW h \in Goroutine PROVE CallerOK(h)'
  BY <1>0, <1>1, <1>2, <1>3, <1>5, <1>6 DEF CallerOK, SettingUp, At, Calling, InCall
<1>7. ASSUME NEW h \in Goroutine, NEW i \in Goroutine PROVE Apart(h, i)'
  <2> SUFFICES ASSUME caller'[h].on = caller'[i].on,
                      SettingUp(h)' \/ (InCall(h)' /\ InCall(i)'), h # i
               PROVE  FALSE
    BY DEF Apart
  <2>1. h # g
    BY <1>5
  <2>2. CASE i = g
    BY <1>0, <1>1, <1>2, <1>3, <1>5, <2>1, <2>2 DEF CallerOK, SettingUp, At, InCall
  <2>3. CASE i # g
    BY <1>0, <1>3, <2>1, <2>3 DEF Shape, Apart, SettingUp, At, InCall
  <2> QED  BY <2>2, <2>3
<1>8. ASSUME NEW e \in Client PROVE Unknown(e)'
  BY <1>0, <1>1, <1>2, <1>3 DEF Unknown
<1>9. ASSUME NEW e \in Client PROVE InBudget(e)'
  <2>1. CASE e = c
    <3>1. AboutToCall(c)' \subseteq AboutToCall(c) \cup {g}
      BY <1>3 DEF AboutToCall, ToCall
    <3>2. /\ IsFiniteSet(AboutToCall(c) \cup {g})
          /\ Cardinality(AboutToCall(c) \cup {g}) <= Cardinality(AboutToCall(c)) + 1
      BY AboutToCallFinite, FS_AddElement
    <3>3. /\ Cardinality(AboutToCall(c)') <= Cardinality(AboutToCall(c)) + 1
          /\ Cardinality(AboutToCall(c)') \in Nat
      BY <3>1, <3>2, AboutToCallFinite, FS_Subset, FS_CardinalityType
    <3>4. conn[c].nextID + Cardinality(AboutToCall(c)) < limit.calls[c]
      <4>1. AboutToCall(c) = {h \in Goroutine : At(h, "call") /\ caller[h].on = c}
        <5>1. \A h \in Goroutine : At(h, "notify") => caller[h].on # c
          BY <1>0, <1>1 DEF CallerOK, SettingUp
        <5> QED  BY <5>1 DEF AboutToCall, ToCall, At
      <4> QED  BY <1>1, <4>1 DEF CallMCPTool
    <3>5. conn[c].nextID \in Nat /\ limit.calls[c] \in Nat
      BY <1>0, LimitsType, FieldTypes DEF MCPTypeOK
    <3> QED  BY <1>3, <2>1, <3>3, <3>4, <3>5, AboutToCallFinite DEF InBudget
  <2>2. CASE e # c
    <3>1. AboutToCall(e)' \subseteq AboutToCall(e)
      BY <1>2, <1>3, <2>2 DEF AboutToCall, ToCall
    <3> QED  BY <1>0, <1>3, <1>4, <3>1, BudgetKept
  <2> QED  BY <2>1, <2>2
<1>10. ASSUME NEW e \in Client PROVE InTurn(e)'
  <2>1. \A h \in Goroutine : Waits(h, e)' <=> Waits(h, e)
    BY <1>3, <1>5 DEF Waits, At, InCall
  <2>2. \A h \in Goroutine : Waits(h, e) => caller'[h] = caller[h]
    BY <1>3, <1>5 DEF Waits, At, InCall
  <2> QED  BY <1>0, <1>3, <2>1, <2>2, TurnKept
<1> QED  BY <1>4, <1>6, <1>7, <1>8, <1>9, <1>10 DEF MCPInv, Shape

LEMMA StartProcessInv ==
  ASSUME MCPInv, NEW g \in Goroutine, At(g, "connect"), NEW c \in Unmade,
         conn' = [conn EXCEPT ![c] = Started],
         caller' = [caller EXCEPT ![g] = Doing("call", c, "initialize")],
         UNCHANGED <<registry, limit>>
  PROVE  MCPInv'
<1> DEFINE d == Doing("call", c, "initialize")
<1>0. /\ Shape /\ MCPTypeOK /\ \A e \in Client : InTurn(e)
      /\ \A h \in Goroutine : CallerOK(h)
      /\ \A e \in Client : Unknown(e) /\ InBudget(e)
      /\ c \in Client /\ conn[c].process = "none" /\ limit.calls[c] > 0
  BY DEF MCPInv, Shape, Unmade
<1>1. registry # c /\ c # Nobody /\ \A h \in Goroutine : caller[h].on # c
  BY <1>0, NobodyIsNoClient DEF Unknown
<1>2. d \in Caller /\ d.pc = "call" /\ d.on = c /\ d.method = "initialize" /\ d.got = Nothing
  BY <1>0, DoingType
<1>3. /\ caller' \in [Goroutine -> Caller] /\ caller'[g] = d
      /\ \A h \in Goroutine \ {g} : caller'[h] = caller[h]
  BY <1>0, <1>2, CallerChange
<1>4. /\ conn' \in [Client -> Connection] /\ conn'[c] = Started
      /\ \A e \in Client \ {c} : conn'[e] = conn[e]
  BY <1>0, NewIsConnection DEF MCPTypeOK
<1>5. MCPTypeOK'
  BY <1>0, <1>1, <1>2, <1>3, <1>4 DEF MCPTypeOK
<1>6. ~InCall(g)' /\ ~InCall(g) /\ \A h \in Goroutine : caller'[h].on = c <=> h = g
  BY <1>1, <1>2, <1>3 DEF At, InCall
<1>7. ASSUME NEW h \in Goroutine PROVE CallerOK(h)'
  <2>1. CASE h = g
    BY <1>1, <1>2, <1>3, <1>4, <1>6, <2>1, NewTypes DEF CallerOK, At, Calling
  <2>2. CASE h # g
    <3>1. caller'[h] = caller[h] /\ CallerOK(h) /\ (SettingUp(h)' <=> SettingUp(h))
      BY <1>0, <1>3, <2>2 DEF SettingUp, At
    <3>2. caller[h].method = "initialize" => caller[h].on # c /\ caller[h].on \in Client
      BY <1>0, <1>1, SettingUpOnClient DEF SettingUp
    <3> QED  BY <1>4, <3>1, <3>2 DEF CallerOK, At, InCall
  <2> QED  BY <2>1, <2>2
<1>8. ASSUME NEW h \in Goroutine, NEW i \in Goroutine PROVE Apart(h, i)'
  <2>1. CASE h = g \/ i = g
    BY <1>2, <1>3, <1>6, <2>1 DEF Apart
  <2>2. CASE h # g /\ i # g
    BY <1>0, <1>3, <2>2 DEF Shape, Apart, SettingUp, At, InCall
  <2> QED  BY <2>1, <2>2
<1>9. ASSUME NEW e \in Client PROVE Unknown(e)'
  BY <1>0, <1>2, <1>3, <1>4, NewTypes DEF Unknown
<1>10. ASSUME NEW e \in Client PROVE InBudget(e)'
  <2>1. CASE e = c
    <3>1. AboutToCall(c)' \subseteq {g}
      BY <1>6 DEF AboutToCall
    <3>2. IsFiniteSet({g}) /\ Cardinality({g}) = 1
      BY FS_Singleton
    <3>3. Cardinality(AboutToCall(c)') <= 1 /\ Cardinality(AboutToCall(c)') \in Nat
      BY <3>1, <3>2, FS_Subset, FS_CardinalityType
    <3>4. limit.calls[c] \in Nat
      BY <1>0, LimitsType DEF MCPTypeOK
    <3> QED  BY <1>0, <1>4, <2>1, <3>3, <3>4, NewTypes DEF InBudget
  <2>2. CASE e # c
    <3>1. AboutToCall(e)' \subseteq AboutToCall(e)
      BY <1>2, <1>3, <2>2 DEF AboutToCall, ToCall
    <3> QED  BY <1>0, <1>4, <1>5, <2>2, <3>1, BudgetKept
  <2> QED  BY <2>1, <2>2
<1>11. ASSUME NEW e \in Client PROVE InTurn(e)'
  <2>1. CASE e = c
    <3>1. \A h \in Goroutine : ~Waits(h, c)'
      BY <1>6 DEF Waits, At, InCall
    <3> QED  BY <1>4, <2>1, <3>1, NewTypes DEF InTurn, OneReader, OwnAnswer, Awaited
  <2>2. CASE e # c
    <3>1. \A h \in Goroutine : Waits(h, e)' <=> Waits(h, e)
      BY <1>3, <1>6 DEF Waits, At, InCall
    <3>2. \A h \in Goroutine : Waits(h, e) => caller'[h] = caller[h]
      BY <1>3, <1>6 DEF Waits, At, InCall
    <3> QED  BY <1>0, <1>4, <2>2, <3>1, <3>2, TurnKept
  <2> QED  BY <2>1, <2>2
<1> QED  BY <1>5, <1>7, <1>8, <1>9, <1>10, <1>11 DEF MCPInv, Shape

(* What g does with its connection c goes on: its number of calls, and the  *)
(* steps of the call, change.                                               *)
LEMMA CallGoesOn ==
  ASSUME MCPInv, NEW g \in Goroutine, NEW c \in Client, caller[g].on = c, caller[g].pc \in Calling,
         NEW k \in Connection, k.process = conn[c].process, conn' = [conn EXCEPT ![c] = k],
         NEW d \in Caller, caller' = [caller EXCEPT ![g] = d],
         d.on = c, d.method = caller[g].method, d.got = Nothing, d.pc \in {"call", "writing", "waiting"},
         d.pc = "call" => At(g, "notify"),
         d.pc # "call" => d.id \in CallId /\ \A h \in Goroutine \ {g} : InCall(h) => caller[h].on # c,
         k.nextID = conn[c].nextID + (IF d.pc = "writing" THEN 1 ELSE 0),
         d.pc = "writing" <=> At(g, "call"),
         InTurn(c)', UNCHANGED <<registry, limit>>
  PROVE  MCPInv'
<1>0. /\ Shape /\ MCPTypeOK /\ \A e \in Client : InTurn(e)
      /\ \A h \in Goroutine : CallerOK(h)
      /\ \A e \in Client : Unknown(e) /\ InBudget(e)
  BY DEF MCPInv, Shape
<1>1. /\ caller' \in [Goroutine -> Caller] /\ caller'[g] = d
      /\ \A h \in Goroutine \ {g} : caller'[h] = caller[h]
  BY <1>0, CallerChange
<1>2. conn' \in [Client -> Connection] /\ conn'[c] = k /\ \A e \in Client \ {c} : conn'[e] = conn[e]
  BY <1>0 DEF MCPTypeOK
<1>3. MCPTypeOK'
  BY <1>0, <1>1, <1>2, NobodyIsNoClient DEF MCPTypeOK
<1>4. /\ conn[c].nextID \in Nat /\ k.nextID \in Nat /\ limit.calls[c] \in Nat
  BY <1>0, FieldTypes, LimitsType DEF MCPTypeOK
<1>5. /\ SettingUp(g)' => SettingUp(g)
      /\ \A h \in Goroutine : caller'[h].on = caller[h].on
  BY <1>1 DEF SettingUp, At
<1>6. ASSUME NEW h \in Goroutine PROVE CallerOK(h)'
  <2>1. CASE h = g
    <3>1. ASSUME d.method = "initialize" PROVE k.nextID = 1 /\ d.pc # "call"
      <4>1. CallerOK(g)
        BY <1>0
      <4>2. ~At(g, "notify")
        BY <3>1, <4>1 DEF CallerOK
      <4>3. conn[c].nextID = IF At(g, "call") THEN 0 ELSE 1
        BY <3>1, <4>1 DEF CallerOK
      <4> QED  BY <4>2, <4>3
    <3>2. d.method # "none" /\ (d.method = "tools/call" => c = registry)
      BY <1>0 DEF CallerOK
    <3>3. SettingUp(g)' => c # registry
      BY <1>0, <1>5 DEF CallerOK
    <3>4. d.got = Nothing /\ d.pc # "notify" /\ d.pc \in Calling
      BY DEF Calling
    <3>5. InCall(g)' => d.id \in CallId
      BY <1>1 DEF InCall
    <3>6. d.pc \notin {"idle", "connect", "disconnect", "reconnect"}
      OBVIOUS
    <3> QED  BY <1>1, <1>2, <2>1, <3>1, <3>2, <3>3, <3>4, <3>5, <3>6 DEF CallerOK, At
  <2>2. CASE h # g
    <3>1. caller'[h] = caller[h] /\ CallerOK(h) /\ (SettingUp(h)' <=> SettingUp(h))
      BY <1>0, <1>1, <2>2 DEF SettingUp, At
    <3>2. caller[h].method = "initialize" => caller[h].on # c /\ caller[h].on \in Client
      BY <1>0, <2>2, SettingUpOnClient DEF Shape, Apart, SettingUp
    <3> QED  BY <1>2, <3>1, <3>2 DEF CallerOK, At, InCall
  <2> QED  BY <2>1, <2>2
<1>7. ASSUME NEW h \in Goroutine, NEW i \in Goroutine PROVE Apart(h, i)'
  <2> SUFFICES ASSUME caller[h].on = caller[i].on, SettingUp(h)' \/ (InCall(h)' /\ InCall(i)'), h # i
               PROVE  FALSE
    BY <1>5 DEF Apart
  <2>1. CASE SettingUp(h)'
    <3>1. SettingUp(h)
      BY <1>1, <1>5, <2>1 DEF SettingUp, At
    <3> QED  BY <1>0, <3>1 DEF Shape, Apart
  <2>2. CASE InCall(h)' /\ InCall(i)'
    <3>1. CASE h # g /\ i # g
      BY <1>0, <1>1, <2>2, <3>1 DEF Shape, Apart, InCall
    <3>2. CASE h = g
      BY <1>1, <2>2, <3>2 DEF InCall
    <3>3. CASE i = g
      BY <1>1, <2>2, <3>3 DEF InCall
    <3> QED  BY <3>1, <3>2, <3>3
  <2> QED  BY <2>1, <2>2
<1>8. ASSUME NEW e \in Client PROVE Unknown(e)'
  <2>1. CASE e = c
    <3>1. conn[c].process # "none"
      BY <1>0, SettingUpOnClient
    <3> QED  BY <1>2, <2>1, <3>1 DEF Unknown
  <2>2. CASE e # c
    <3>1. registry' = registry /\ conn'[e] = conn[e] /\ Unknown(e)
      BY <1>0, <1>2, <2>2
    <3>2. \A h \in Goroutine : caller'[h].on = caller[h].on
      BY <1>5
    <3> QED  BY <3>1, <3>2 DEF Unknown
  <2> QED  BY <2>1, <2>2
<1>9. ASSUME NEW e \in Client PROVE InBudget(e)'
  <2>1. AboutToCall(e)' \subseteq AboutToCall(e)
    BY <1>1, <1>5 DEF AboutToCall, ToCall, At
  <2>2. CASE e = c /\ d.pc = "writing"
    <3>1. g \in AboutToCall(c) /\ AboutToCall(c)' \subseteq AboutToCall(c) \ {g}
      BY <1>1, <2>1, <2>2 DEF AboutToCall, ToCall, At
    <3>2. /\ IsFiniteSet(AboutToCall(c) \ {g})
          /\ Cardinality(AboutToCall(c) \ {g}) = Cardinality(AboutToCall(c)) - 1
      BY <3>1, AboutToCallFinite, FS_RemoveElement
    <3>3. /\ Cardinality(AboutToCall(c)') <= Cardinality(AboutToCall(c)) - 1
          /\ Cardinality(AboutToCall(c)') \in Nat
      BY <3>1, <3>2, FS_Subset, FS_CardinalityType
    <3>4. conn[c].nextID + Cardinality(AboutToCall(c)) <= limit.calls[c] /\ k.nextID = conn[c].nextID + 1
      BY <1>0, <2>2 DEF InBudget
    <3> QED  BY <1>2, <1>4, <2>2, <3>3, <3>4, AboutToCallFinite DEF InBudget
  <2>3. CASE e = c /\ d.pc # "writing"
    <3>1. conn'[e].nextID = conn[e].nextID
      BY <1>2, <1>4, <2>3
    <3> QED  BY <1>0, <1>3, <2>1, <3>1, BudgetKept
  <2>4. CASE e # c
    BY <1>0, <1>2, <1>3, <2>1, <2>4, BudgetKept
  <2> QED  BY <2>2, <2>3, <2>4
<1>10. ASSUME NEW e \in Client PROVE InTurn(e)'
  <2>1. CASE e # c
    <3>1. \A h \in Goroutine : Waits(h, e)' <=> Waits(h, e)
      BY <1>1, <2>1 DEF Waits, At
    <3>2. \A h \in Goroutine : Waits(h, e) => caller'[h] = caller[h]
      BY <1>1, <2>1 DEF Waits
    <3> QED  BY <1>0, <1>2, <2>1, <3>1, <3>2, TurnKept
  <2>2. CASE e = c
    BY <2>2
  <2> QED  BY <2>1, <2>2
<1> QED  BY <1>3, <1>6, <1>7, <1>8, <1>9, <1>10 DEF MCPInv, Shape

(* A call takes the mutex and a number.                                     *)
LEMMA BeginCallInv ==
  ASSUME MCPInv, NEW g \in Goroutine, BeginCall(g)
  PROVE  MCPInv'
<1>0. MCPTypeOK /\ CallerOK(g) /\ caller[g] \in Caller /\ At(g, "call") /\ caller[g].pc \in Calling
  BY CallerTypes DEF MCPInv, Shape, BeginCall, At, Calling
<1>1. PICK c \in Client : c = caller[g].on
  BY <1>0, CallerTypes
<1> DEFINE id == conn[c].nextID + 1
           k == [conn[c] EXCEPT !.nextID = id]
           d == [caller[g] EXCEPT !.pc = "writing", !.id = id]
<1>2. id \in CallId /\ conn[c] \in Connection /\ InTurn(c)
  BY <1>0, <1>1, NextCall DEF MCPInv, MCPTypeOK
<1>3. conn' = [conn EXCEPT ![c] = k] /\ caller' = [caller EXCEPT ![g] = d] /\ UNCHANGED <<registry, limit>>
  BY <1>0, <1>1, <1>2 DEF BeginCall, BeginWrite, MCPTypeOK, Connection, Caller
<1> HIDE DEF id
<1>4. /\ k \in Connection /\ k.process = conn[c].process /\ k.nextID = id /\ k.running = conn[c].running
      /\ k.torn = conn[c].torn /\ k.readers = conn[c].readers /\ k.notes = conn[c].notes
      /\ k.asked = conn[c].asked /\ k.stdout = conn[c].stdout
  BY <1>2 DEF Connection
<1>5. d \in Caller /\ d.pc = "writing" /\ d.id = id /\ d.on = c /\ d.method = caller[g].method /\ d.got = Nothing
  BY <1>0, <1>1, <1>2 DEF Caller, CallerOK, At
<1> HIDE DEF k, d
<1>6. \A h \in Goroutine : InCall(h) => caller[h].on # c
  BY <1>1 DEF BeginCall, Locked
<1>7. InTurn(c)'
  <2>1. conn'[c] = k /\ caller'[g] = d /\ \A h \in Goroutine \ {g} : caller'[h] = caller[h]
    BY <1>0, <1>3, <1>5, CallerChange DEF MCPTypeOK
  <2>2. \A h \in Goroutine : Waits(h, c)' <=> Waits(h, c)
    BY <1>0, <1>5, <2>1 DEF Waits, At
  <2>3. \A h \in Goroutine : Waits(h, c) => caller'[h] = caller[h]
    BY <1>0, <2>1 DEF Waits, At
  <2> QED  BY <1>2, <1>4, <2>1, <2>2, <2>3, TurnKept
<1>8. k.nextID = conn[c].nextID + (IF d.pc = "writing" THEN 1 ELSE 0)
  BY <1>4, <1>5 DEF id
<1> QED  BY <1>0, <1>1, <1>2, <1>3, <1>4, <1>5, <1>6, <1>7, <1>8, CallGoesOn

(* A request is taken: a reader for it alone, as the mutex was free.        *)
LEMMA RequestTakenInv ==
  ASSUME MCPInv, NEW g \in Goroutine, RequestTaken(g)
  PROVE  MCPInv'
<1>0. /\ MCPTypeOK /\ CallerOK(g) /\ caller[g] \in Caller /\ At(g, "writing") /\ caller[g].pc \in Calling
      /\ InCall(g) /\ caller[g].id \in CallId
  BY CallerTypes DEF MCPInv, Shape, RequestTaken, At, Calling, InCall, CallerOK
<1>1. PICK c \in Client : c = caller[g].on
  BY <1>0, CallerTypes
<1> DEFINE id == caller[g].id
           k == [conn[c] EXCEPT !.asked = @ \cup {id}, !.torn = @ \/ conn[c].readers # {},
                                !.readers = @ \cup {id}]
           d == [caller[g] EXCEPT !.pc = "waiting"]
<1>2. /\ conn[c] \in Connection /\ InTurn(c) /\ conn[c].asked \cup {id} \subseteq CallId
      /\ conn[c].readers \cup {id} \subseteq CallId /\ conn[c].nextID \in Nat
  BY <1>0, <1>1, FieldTypes DEF MCPInv, MCPTypeOK
<1>3. conn' = [conn EXCEPT ![c] = k] /\ caller' = [caller EXCEPT ![g] = d] /\ UNCHANGED <<registry, limit>>
  BY <1>0, <1>1, <1>2 DEF RequestTaken, MCPTypeOK, Connection, Caller
<1>4. /\ k \in Connection /\ k.process = conn[c].process /\ k.process = "up"
      /\ k.nextID = conn[c].nextID /\ k.running = conn[c].running
      /\ k.torn = (conn[c].torn \/ conn[c].readers # {}) /\ k.readers = conn[c].readers \cup {id}
      /\ k.notes = conn[c].notes /\ k.asked = conn[c].asked \cup {id} /\ k.stdout = conn[c].stdout
  BY <1>1, <1>2 DEF Connection, RequestTaken
<1>5. d \in Caller /\ d.pc = "waiting" /\ d.id = id /\ d.on = c /\ d.method = caller[g].method /\ d.got = Nothing
  BY <1>0, <1>1 DEF Caller, CallerOK, At
<1> HIDE DEF k, d
<1>6. \A h \in Goroutine \ {g} : InCall(h) => caller[h].on # c
  BY <1>0, <1>1 DEF MCPInv, Shape, Apart
<1>7. InTurn(c)'
  <2>1. conn'[c] = k /\ caller'[g] = d /\ \A h \in Goroutine \ {g} : caller'[h] = caller[h]
    BY <1>0, <1>3, <1>5, CallerChange DEF MCPTypeOK
  <2>2. \A h \in Goroutine : ~Waits(h, c)
    BY <1>0, <1>6 DEF Waits, At, InCall
  <2>3. \A h \in Goroutine : Waits(h, c)' <=> h = g
    BY <1>5, <1>6, <2>1 DEF Waits, At, InCall
  <2> SUFFICES ASSUME conn'[c].running PROVE OneReader(c)' /\ (conn'[c].notes = 0 => OwnAnswer(c)')
    BY DEF InTurn
  <2>4. OneReader(c) /\ (conn'[c].notes = 0 => OwnAnswer(c))
    BY <1>2, <1>4, <2>1 DEF InTurn
  <2>5. conn[c].readers = {} /\ ~conn[c].torn
    BY <2>2, <2>4 DEF OneReader, Awaited
  <2>6. Awaited(c)'
    BY <2>3 DEF Awaited
  <2>7. OneReader(c)'
    <3>1. ~conn'[c].torn
      BY <1>4, <2>1, <2>5
    <3>2. conn'[c].readers = {id}
      BY <1>4, <2>1, <2>5
    <3>3. \A h \in Goroutine : Waits(h, c)' => caller'[h].got = Nothing /\ caller'[h].id = id
      BY <1>5, <2>1, <2>3
    <3> QED  BY <2>6, <3>1, <3>2, <3>3 DEF OneReader
  <2>8. ASSUME conn'[c].notes = 0 PROVE OwnAnswer(c)'
    <3>1. conn'[c].asked = {id} /\ conn'[c].stdout = <<>>
      BY <1>4, <2>1, <2>2, <2>4, <2>8 DEF OwnAnswer, Awaited
    <3> QED  BY <1>4, <1>5, <2>1, <2>3, <2>6, <3>1 DEF OwnAnswer, OnItsWay
  <2> QED  BY <2>7, <2>8
<1>8. k.nextID = conn[c].nextID + (IF d.pc = "writing" THEN 1 ELSE 0)
  BY <1>2, <1>4, <1>5
<1> QED  BY <1>0, <1>1, <1>3, <1>4, <1>5, <1>6, <1>7, <1>8, CallGoesOn DEF At

(* The notification of the handshake is written, or could not be.           *)
LEMMA NotifiedInv ==
  ASSUME MCPInv, NEW g \in Goroutine, At(g, "notify"), Notified(g)
  PROVE  MCPInv'
<1>0. /\ MCPTypeOK /\ CallerOK(g) /\ caller[g] \in Caller /\ caller[g].pc \in Calling
  BY CallerTypes DEF MCPInv, Shape, At, Calling
<1>1. PICK c \in Client : c = caller[g].on
  BY <1>0, CallerTypes
<1> DEFINE d == [caller[g] EXCEPT !.pc = "call"]
           k == conn[c]
<1>2. k \in Connection /\ InTurn(c) /\ k.nextID \in Nat
  BY <1>0, FieldTypes DEF MCPInv, MCPTypeOK
<1>3. conn' = [conn EXCEPT ![c] = k] /\ caller' = [caller EXCEPT ![g] = d] /\ UNCHANGED <<registry, limit>>
  BY <1>0, <1>1 DEF Notified, MCPTypeOK, Caller
<1>5. d \in Caller /\ d.pc = "call" /\ d.on = c /\ d.method = caller[g].method /\ d.got = Nothing
  BY <1>0, <1>1 DEF Caller, CallerOK, At
<1> HIDE DEF d
<1>7. InTurn(c)'
  <2>1. conn'[c] = k /\ caller'[g] = d /\ \A h \in Goroutine \ {g} : caller'[h] = caller[h]
    BY <1>0, <1>3, <1>5, CallerChange DEF MCPTypeOK
  <2>2. \A h \in Goroutine : Waits(h, c)' <=> Waits(h, c)
    BY <1>5, <2>1 DEF Waits, At
  <2>3. \A h \in Goroutine : Waits(h, c) => caller'[h] = caller[h]
    BY <2>1 DEF Waits, At
  <2> QED  BY <1>2, <2>1, <2>2, <2>3, TurnKept
<1>8. k.nextID = conn[c].nextID + (IF d.pc = "writing" THEN 1 ELSE 0)
  BY <1>2, <1>5
<1> QED  BY <1>0, <1>1, <1>2, <1>3, <1>5, <1>7, <1>8, CallGoesOn DEF At

(* A line, or the end of the pipe, reaches a reader.                        *)
LEMMA DeliveredTypes ==
  ASSUME MCPTypeOK, NEW c \in Client, NEW r, NEW line \in Line, Deliver(c, r, line)
  PROVE  /\ caller' \in [Goroutine -> Caller]
         /\ \A h \in Goroutine : /\ caller'[h].pc = caller[h].pc /\ caller'[h].on = caller[h].on
                                 /\ caller'[h].method = caller[h].method /\ caller'[h].id = caller[h].id
                                 /\ Waits(h, c) \/ caller'[h] = caller[h]
                                 /\ caller'[h].got = IF Waits(h, c) /\ caller[h].id = r THEN line
                                                     ELSE caller[h].got
<1>1. ASSUME NEW h \in Goroutine
      PROVE  /\ caller'[h] \in Caller
             /\ caller'[h].pc = caller[h].pc /\ caller'[h].on = caller[h].on
             /\ caller'[h].method = caller[h].method /\ caller'[h].id = caller[h].id
             /\ Waits(h, c) \/ caller'[h] = caller[h]
             /\ caller'[h].got = IF Waits(h, c) /\ caller[h].id = r THEN line ELSE caller[h].got
  <2>1. caller[h] \in Caller
    BY CallerTypes
  <2>2. CASE Waits(h, c) /\ caller[h].id = r
    <3>1. caller'[h] = [caller[h] EXCEPT !.got = line]
      BY <2>2 DEF Deliver, Waits
    <3> QED  BY <2>1, <2>2, <3>1 DEF Caller
  <2>3. CASE ~(Waits(h, c) /\ caller[h].id = r)
    <3>1. caller'[h] = caller[h]
      BY <2>3 DEF Deliver, Waits
    <3> QED  BY <2>1, <2>3, <3>1
  <2> QED  BY <2>2, <2>3
<1>2. caller' = [h \in Goroutine |-> caller'[h]]
  BY DEF Deliver
<1> QED  BY <1>1, <1>2

LEMMA Delivered ==
  ASSUME MCPInv, NEW c \in Client, NEW r \in conn[c].readers, NEW line \in Line, NEW rest \in Seq(Line),
         conn' = [conn EXCEPT ![c] = [conn[c] EXCEPT !.stdout = rest, !.readers = @ \ {r}]],
         Deliver(c, r, line), UNCHANGED <<registry, limit>>,
         \* unless the reader is torn, it has the next line, or the end of the pipe
         ~conn[c].torn =>
            \/ conn[c].stdout # <<>> /\ line = Head(conn[c].stdout) /\ rest = Tail(conn[c].stdout)
            \/ conn[c].stdout = <<>> /\ line = Failed /\ rest = <<>> /\ conn[c].process # "up"
  PROVE  MCPInv'
<1> DEFINE k == [conn[c] EXCEPT !.stdout = rest, !.readers = @ \ {r}]
<1>0. MCPTypeOK /\ Shape /\ InTurn(c) /\ Unknown(c)
  BY DEF MCPInv, Shape
<1>1. conn[c] \in Connection /\ conn[c].readers \subseteq CallId
  BY <1>0, FieldTypes DEF MCPTypeOK
<1>2. /\ k \in Connection /\ k.process = conn[c].process /\ k.nextID = conn[c].nextID
      /\ k.running = conn[c].running /\ k.torn = conn[c].torn /\ k.notes = conn[c].notes
      /\ k.asked = conn[c].asked /\ k.stdout = rest /\ k.readers = conn[c].readers \ {r}
  <2>1. conn[c].readers \ {r} \subseteq CallId
    BY <1>1
  <2> QED  BY <1>1, <2>1 DEF Connection
<1>3. conn[c].process # "none"
  BY <1>0, NewTypes DEF Unknown, New
<1>4. conn' = [conn EXCEPT ![c] = k]
  OBVIOUS
<1> HIDE DEF k
<1>5. conn'[c] = k
  BY <1>0, <1>4 DEF MCPTypeOK
<1>6. /\ caller' \in [Goroutine -> Caller]
      /\ \A h \in Goroutine : /\ caller'[h].pc = caller[h].pc /\ caller'[h].on = caller[h].on
                              /\ caller'[h].method = caller[h].method /\ caller'[h].id = caller[h].id
                              /\ Waits(h, c) \/ caller'[h] = caller[h]
                              /\ caller'[h].got = IF Waits(h, c) /\ caller[h].id = r THEN line
                                                  ELSE caller[h].got
  BY <1>0, DeliveredTypes
<1>7. InTurn(c)'
  <2> SUFFICES ASSUME conn'[c].running PROVE OneReader(c)' /\ (conn'[c].notes = 0 => OwnAnswer(c)')
    BY DEF InTurn
  <2>1. OneReader(c) /\ (conn'[c].notes = 0 => OwnAnswer(c)) /\ ~conn[c].torn
    BY <1>0, <1>2, <1>5 DEF InTurn, OneReader
  <2>2. PICK g \in Goroutine : Waits(g, c)
    BY <2>1 DEF OneReader, Awaited
  <2>3. caller[g].got = Nothing /\ caller[g].id = r /\ conn[c].readers = {r}
    BY <2>1, <2>2 DEF OneReader
  <2>4. \A h \in Goroutine : Waits(h, c)' <=> h = g
    BY <1>0, <1>6, <2>2 DEF Shape, Apart, Waits, At, InCall
  <2>5. Awaited(c)' /\ conn'[c].readers = {} /\ caller'[g].got = line /\ line # Nothing
    BY <1>2, <1>5, <1>6, <2>2, <2>3, <2>4, LineTypes DEF Awaited, Waits
  <2>6. OneReader(c)'
    BY <1>2, <1>5, <2>1, <2>4, <2>5 DEF OneReader
  <2>7. ASSUME conn'[c].notes = 0 PROVE OwnAnswer(c)'
    <3>1. OnItsWay(c, r) /\ (conn[c].process # "up" => conn[c].asked = {})
      BY <2>1, <2>2, <2>3, <2>7 DEF OwnAnswer
    <3>2. /\ conn[c].asked = {} /\ rest = <<>>
          /\ line.ok => line.id = r
      <4>1. CASE conn[c].stdout = <<>>
        BY <2>1, <3>1, <4>1, LineTypes DEF OnItsWay
      <4>2. CASE conn[c].stdout # <<>>
        <5>1. PICK ok \in BOOLEAN : conn[c].asked = {} /\ conn[c].stdout = <<[id |-> r, ok |-> ok]>>
          BY <3>1, <4>2 DEF OnItsWay
        <5>2. line = [id |-> r, ok |-> ok] /\ rest = <<>>
          BY <2>1, <4>2, <5>1
        <5> QED  BY <5>1, <5>2
      <4> QED  BY <4>1, <4>2
    <3> QED  BY <1>2, <1>5, <1>6, <2>3, <2>4, <2>5, <3>2 DEF OwnAnswer
  <2> QED  BY <2>6, <2>7
<1>8. \A h \in Goroutine : /\ caller'[h].pc = caller[h].pc /\ caller'[h].on = caller[h].on
                           /\ caller'[h].method = caller[h].method /\ caller'[h].id = caller[h].id
                           /\ Waits(h, c) \/ caller'[h] = caller[h]
  BY <1>6
<1>9. k \in Connection /\ k.process # "none" /\ k.nextID = conn[c].nextID
  BY <1>2, <1>3
<1>10. caller' \in [Goroutine -> Caller]
  BY <1>6
<1> QED  BY <1>3, <1>4, <1>7, <1>8, <1>9, <1>10, ConnectionChanges

LEMMA ReadInv ==
  ASSUME MCPInv, NEW c \in Client, NEW r \in conn[c].readers, ReadLine(c, r) \/ ReadEnd(c, r)
  PROVE  MCPInv'
<1> DEFINE k == conn[c]
<1>1. k \in Connection /\ k.stdout \in Seq(Line)
  BY FieldTypes DEF MCPInv, Shape, MCPTypeOK
<1>2. CASE ReadLine(c, r)
  <2>1. PICK line \in IF k.torn THEN ToSet(k.stdout) \cup {Failed} ELSE {Head(k.stdout)},
             rest \in IF k.torn THEN {k.stdout, Tail(k.stdout)} ELSE {Tail(k.stdout)} :
             /\ conn' = [conn EXCEPT ![c] = [k EXCEPT !.stdout = rest, !.readers = @ \ {r}]]
             /\ Deliver(c, r, line)
    BY <1>2 DEF ReadLine
  <2>2. k.stdout # <<>> /\ UNCHANGED <<registry, limit>>
    BY <1>2 DEF ReadLine
  <2>3. rest \in Seq(Line)
    <3>1. Tail(k.stdout) \in Seq(Line)
      BY <1>1, <2>2
    <3> QED  BY <1>1, <3>1
  <2>4. line \in Line
    <3>1. Head(k.stdout) \in Line
      BY <1>1, <2>2
    <3>2. ToSet(k.stdout) \subseteq Line
      BY <1>1 DEF ToSet
    <3> QED  BY <3>1, <3>2, LineTypes
  <2>5. ~k.torn => line = Head(k.stdout) /\ rest = Tail(k.stdout)
    OBVIOUS
  <2> QED  BY <2>1, <2>2, <2>3, <2>4, <2>5, Delivered
<1>3. CASE ReadEnd(c, r)
  <2>1. /\ conn' = [conn EXCEPT ![c] = [k EXCEPT !.stdout = k.stdout, !.readers = @ \ {r}]]
        /\ Deliver(c, r, Failed) /\ UNCHANGED <<registry, limit>>
        /\ k.stdout = <<>> /\ k.process # "up"
    <3>1. [k EXCEPT !.stdout = k.stdout, !.readers = @ \ {r}] = [k EXCEPT !.readers = @ \ {r}]
      BY <1>1 DEF Connection
    <3>2. conn' = [conn EXCEPT ![c] = [k EXCEPT !.readers = @ \ {r}]]
      BY <1>3 DEF ReadEnd, MCPInv, Shape, MCPTypeOK
    <3> QED  BY <1>3, <3>1, <3>2 DEF ReadEnd
  <2>2. Failed \in Line
    BY LineTypes
  <2> QED  BY <1>1, <2>1, <2>2, Delivered
<1> QED  BY <1>2, <1>3

LEMMA AnswerInv ==
  ASSUME MCPInv, NEW c \in Client, Answer(c)
  PROVE  MCPInv'
<1> DEFINE j == conn[c]
<1>0. /\ MCPTypeOK /\ InTurn(c)
      /\ j.process = "up" /\ UNCHANGED <<registry, caller, limit>>
  BY DEF MCPInv, Shape, Answer
<1>1. PICK i \in j.asked, ok \in BOOLEAN :
         conn' = [conn EXCEPT ![c].asked = @ \ {i}, ![c].stdout = Append(@, [id |-> i, ok |-> ok])]
  BY DEF Answer
<1> DEFINE line == [id |-> i, ok |-> ok]
           k == [j EXCEPT !.asked = @ \ {i}, !.stdout = Append(@, line)]
<1>2. j \in Connection /\ j.asked \subseteq CallId /\ j.stdout \in Seq(Line) /\ line \in Line
  BY <1>0, FieldTypes, LineTypes DEF MCPTypeOK
<1>3. /\ k \in Connection /\ k.process = "up" /\ k.nextID = j.nextID /\ k.running = j.running
      /\ k.torn = j.torn /\ k.notes = j.notes /\ k.readers = j.readers
      /\ k.asked = j.asked \ {i} /\ k.stdout = Append(j.stdout, line)
  <2>1. j.asked \ {i} \subseteq CallId /\ Append(j.stdout, line) \in Seq(Line)
    BY <1>2
  <2> HIDE DEF line
  <2> QED  BY <1>0, <1>2, <2>1 DEF Connection
<1>4. conn' = [conn EXCEPT ![c] = k]
  BY <1>0, <1>1, <1>2 DEF MCPTypeOK, Connection
<1> HIDE DEF k
<1>5. conn'[c] = k
  BY <1>0, <1>4 DEF MCPTypeOK
<1>6. InTurn(c)'
  <2> SUFFICES ASSUME conn'[c].running PROVE OneReader(c)' /\ (conn'[c].notes = 0 => OwnAnswer(c)')
    BY DEF InTurn
  <2>1. OneReader(c) /\ (conn'[c].notes = 0 => OwnAnswer(c))
    BY <1>0, <1>3, <1>5 DEF InTurn
  <2>2. (Awaited(c)' <=> Awaited(c)) /\ \A h \in Goroutine : Waits(h, c)' <=> Waits(h, c)
    BY <1>0 DEF Awaited, Waits, At
  <2>3. OneReader(c)'
    BY <1>0, <1>3, <1>5, <2>1, <2>2 DEF OneReader
  <2>4. ASSUME conn'[c].notes = 0 PROVE OwnAnswer(c)'
    <3>1. OwnAnswer(c) /\ Awaited(c)
      BY <2>1, <2>4 DEF OwnAnswer
    <3>2. ASSUME NEW h \in Goroutine, Waits(h, c)
          PROVE  caller[h].got = Nothing /\ j.asked = {caller[h].id} /\ j.stdout = <<>>
      <4>1. caller[h].got = Nothing
        BY <3>1, <3>2 DEF OwnAnswer
      <4>2. OnItsWay(c, caller[h].id)
        BY <3>1, <3>2, <4>1 DEF OwnAnswer
      <4> QED  BY <4>1, <4>2 DEF OnItsWay
    <3>3. ASSUME NEW h \in Goroutine, Waits(h, c) PROVE OnItsWay(c, caller[h].id)'
      <4>1. k.asked = {} /\ k.stdout = <<[id |-> caller[h].id, ok |-> ok]>>
        <5>1. j.asked = {caller[h].id} /\ j.stdout = <<>> /\ i = caller[h].id
          BY <3>2, <3>3
        <5>2. k.asked = {}
          BY <1>3, <5>1
        <5>3. k.stdout = <<line>>
          BY <1>3, <5>1
        <5> QED  BY <5>1, <5>2, <5>3
      <4> QED  BY <1>0, <1>5, <4>1 DEF OnItsWay
    <3>4. caller' = caller
      BY <1>0
    <3> QED  BY <1>3, <1>5, <2>2, <3>1, <3>2, <3>3, <3>4 DEF OwnAnswer
  <2> QED  BY <2>3, <2>4
<1>7. caller' \in [Goroutine -> Caller]
  BY <1>0 DEF MCPTypeOK
<1> QED  BY <1>0, <1>3, <1>4, <1>6, <1>7, ConnectionChanges

LEMMA WriteNotificationInv ==
  ASSUME MCPInv, NEW c \in Client, WriteNotification(c)
  PROVE  MCPInv'
<1> DEFINE j == conn[c]
           k == [j EXCEPT !.notes = @ + 1, !.stdout = Append(@, Notification)]
<1>0. /\ MCPTypeOK /\ InTurn(c)
      /\ j.process = "up" /\ UNCHANGED <<registry, caller, limit>>
      /\ j.notes < limit.notes[c]
  BY DEF MCPInv, Shape, WriteNotification
<1>2. j \in Connection /\ j.notes \in Nat /\ j.stdout \in Seq(Line) /\ Notification \in Line
  BY <1>0, FieldTypes, LineTypes DEF MCPTypeOK
<1>3. /\ k \in Connection /\ k.process = "up" /\ k.nextID = j.nextID /\ k.running = j.running
      /\ k.torn = j.torn /\ k.notes > 0 /\ k.readers = j.readers
  <2>1. j.notes + 1 \in NoteCount /\ j.notes + 1 > 0
    <3>1. j.notes + 1 \in 0..limit.notes[c] /\ 0..limit.notes[c] \subseteq NoteCount
      BY <1>0, <1>2, LimitsType DEF MCPTypeOK
    <3> QED  BY <1>2, <3>1
  <2>2. Append(j.stdout, Notification) \in Seq(Line)
    BY <1>2
  <2> QED  BY <1>0, <1>2, <2>1, <2>2 DEF Connection
<1>4. conn' = [conn EXCEPT ![c] = k]
  BY <1>0, <1>2 DEF MCPTypeOK, Connection, WriteNotification
<1> HIDE DEF k
<1>5. conn'[c] = k
  BY <1>0, <1>4 DEF MCPTypeOK
<1>6. InTurn(c)'
  <2>1. conn'[c].notes # 0
    BY <1>3, <1>5
  <2>2. (Awaited(c)' <=> Awaited(c)) /\ \A h \in Goroutine : Waits(h, c)' <=> Waits(h, c)
    BY <1>0 DEF Awaited, Waits, At
  <2>3. conn'[c].running => OneReader(c)'
    BY <1>0, <1>3, <1>5, <2>2 DEF InTurn, OneReader
  <2> QED  BY <2>1, <2>3 DEF InTurn
<1>7. caller' \in [Goroutine -> Caller]
  BY <1>0 DEF MCPTypeOK
<1> QED  BY <1>0, <1>3, <1>4, <1>6, <1>7, ConnectionChanges

LEMMA ExitInv ==
  ASSUME MCPInv, NEW c \in Client, Exit(c)
  PROVE  MCPInv'
<1> DEFINE j == conn[c]
           k == [j EXCEPT !.process = "exited", !.asked = {}]
<1>0. /\ MCPTypeOK /\ InTurn(c)
      /\ j.process = "up" /\ UNCHANGED <<registry, caller, limit>>
  BY DEF MCPInv, Shape, Exit
<1>2. j \in Connection
  BY <1>0 DEF MCPTypeOK
<1>3. /\ k \in Connection /\ k.process = "exited" /\ k.nextID = j.nextID /\ k.running = j.running
      /\ k.torn = j.torn /\ k.notes = j.notes /\ k.readers = j.readers /\ k.asked = {}
      /\ k.stdout = j.stdout
  BY <1>0, <1>2 DEF Connection
<1>4. conn' = [conn EXCEPT ![c] = k]
  BY <1>0, <1>2 DEF MCPTypeOK, Connection, Exit
<1> HIDE DEF k
<1>5. conn'[c] = k
  BY <1>0, <1>4 DEF MCPTypeOK
<1>6. InTurn(c)'
  <2> SUFFICES ASSUME conn'[c].running PROVE OneReader(c)' /\ (conn'[c].notes = 0 => OwnAnswer(c)')
    BY DEF InTurn
  <2>1. OneReader(c) /\ (conn'[c].notes = 0 => OwnAnswer(c))
    BY <1>0, <1>3, <1>5 DEF InTurn
  <2>2. (Awaited(c)' <=> Awaited(c)) /\ \A h \in Goroutine : Waits(h, c)' <=> Waits(h, c)
    BY <1>0 DEF Awaited, Waits, At
  <2>3. OneReader(c)'
    BY <1>0, <1>3, <1>5, <2>1, <2>2 DEF OneReader
  <2>4. ASSUME NEW id, OnItsWay(c, id) PROVE OnItsWay(c, id)'
    BY <1>3, <1>5, <2>4 DEF OnItsWay
  <2>5. ASSUME conn'[c].notes = 0 PROVE OwnAnswer(c)'
    <3>1. OwnAnswer(c) /\ caller' = caller
      BY <1>0, <2>1, <2>5
    <3> QED  BY <1>3, <1>5, <2>2, <2>4, <3>1 DEF OwnAnswer
  <2> QED  BY <2>3, <2>5
<1>7. caller' \in [Goroutine -> Caller]
  BY <1>0 DEF MCPTypeOK
<1> QED  BY <1>0, <1>3, <1>4, <1>6, <1>7, ConnectionChanges

(* A step of g. *)
LEMMA CallerStepInv ==
  ASSUME MCPInv, NEW g \in Goroutine, Begin(g) \/ GoOn(g) \/ Taken(g) \/ Timeout(g)
  PROVE  MCPInv'
<1>0. /\ MCPTypeOK /\ \A e \in Client : conn[e] \in Connection /\ InTurn(e)
      /\ \A h \in Goroutine : CallerOK(h)
      /\ caller[g].pc \in Calling => caller[g].on \in Client
  BY CallerTypes DEF MCPInv, Shape, MCPTypeOK
<1>1. ASSUME UNCHANGED conn
      PROVE  /\ conn' \in [Client -> Connection]
             /\ \A e \in Client : conn'[e] = conn[e] \/ conn'[e] = Closed(conn[e])
  BY <1>0, <1>1 DEF MCPTypeOK
<1>2. ASSUME NEW c \in Client, conn' = [conn EXCEPT ![c] = Closed(conn[c])]
      PROVE  /\ conn' \in [Client -> Connection]
             /\ \A e \in Client : conn'[e] = conn[e] \/ conn'[e] = Closed(conn[e])
  <2>1. Closed(conn[c]) \in Connection
    BY <1>0, ClosedType
  <2> QED  BY <1>0, <1>2, <2>1 DEF MCPTypeOK
<1>3. CASE ConnectMCPServers(g)
  BY <1>1, <1>3, MovesOn DEF ConnectMCPServers, At, Calling
<1>4. CASE CallMCPTool(g)
  BY <1>4, CallMCPToolInv
<1>5. CASE DisconnectAllMCP(g)
  BY <1>1, <1>5, MovesOn DEF DisconnectAllMCP, At, Calling
<1>6. CASE HealthCheck(g)
  BY <1>0, <1>1, <1>6, MovesOn DEF HealthCheck, At, MCPTypeOK, Calling
<1>7. CASE StartProcess(g)
  <2>1. CASE caller' = [caller EXCEPT ![g] = Idle] /\ UNCHANGED conn
    BY <1>1, <1>7, <2>1, MovesOn DEF StartProcess, At, Idle, Calling
  <2>2. CASE \E c \in Unmade : /\ conn' = [conn EXCEPT ![c] = Started]
                               /\ caller' = [caller EXCEPT ![g] = Doing("call", c, "initialize")]
    BY <1>7, <2>2, StartProcessInv DEF StartProcess
  <2> QED  BY <1>7, <2>1, <2>2 DEF StartProcess
<1>8. CASE BeginCall(g)
  BY <1>8, BeginCallInv
<1>17. CASE Taken(g)
  BY <1>17, RequestTakenInv, NotifiedInv DEF Taken, NotifyTaken
<1>18. CASE NotifyFails(g)
  BY <1>18, NotifiedInv DEF NotifyFails
<1>9. ASSUME InCall(g), NEW c \in Client, c = caller[g].on
      PROVE  \A h \in Goroutine \ {g} : ~InCall(h) \/ caller[h].on # c
  BY <1>9 DEF MCPInv, Shape, Apart
<1>19. ASSUME InCall(g), NEW c \in Client, c = caller[g].on
      PROVE  \A h \in Goroutine \ {g} : ~Waits(h, c)
  BY <1>9, <1>19 DEF InCall, Waits, At
<1>20. CASE WriteFails(g)
  <2>1. At(g, "writing") /\ InCall(g)
    BY <1>20 DEF WriteFails, At, InCall
  <2>2. PICK c \in Client : c = caller[g].on
    BY <1>0, <2>1 DEF InCall, Calling
  <2>3. CallReturns(g, conn[c], Failed)
    BY <1>20, <2>2 DEF WriteFails
  <2>4. \A h \in Goroutine : ~Waits(h, c)
    BY <1>19, <2>1, <2>2 DEF Waits, At
  <2>5. conn[c].running => /\ conn[c].readers = {} /\ ~conn[c].torn
                           /\ conn[c].notes = 0 => conn[c].asked = {} /\ conn[c].stdout = <<>>
    BY <1>0, <2>4 DEF InTurn, OneReader, OwnAnswer, Awaited
  <2> QED  BY <1>0, <2>1, <2>2, <2>3, <2>4, <2>5, LineTypes, CallReturnsInv
<1>10. CASE Return(g)
  <2>1. At(g, "waiting") /\ caller[g].got # Nothing /\ InCall(g)
    BY <1>10 DEF Return, At, InCall
  <2>2. PICK c \in Client : c = caller[g].on
    BY <1>0, <2>1 DEF InCall, Calling
  <2>3. caller[g].got \in Line
    BY <1>0, <2>1, CallerTypes
  <2>4. CallReturns(g, conn[c], caller[g].got)
    BY <1>10, <2>2 DEF Return
  <2>5. conn[c].running => /\ conn[c].readers = {} /\ ~conn[c].torn
                           /\ conn[c].notes = 0 => conn[c].asked = {} /\ conn[c].stdout = <<>>
    BY <1>0, <2>1, <2>2 DEF InTurn, OneReader, OwnAnswer, Waits
  <2> QED  BY <1>0, <1>19, <2>1, <2>2, <2>3, <2>4, <2>5, CallReturnsInv
<1>11. CASE Timeout(g)
  <2>1. PICK c \in Client : c = caller[g].on
    BY <1>0, <1>11 DEF At, Timeout, Calling
  <2> DEFINE k == [conn[c] EXCEPT !.running = FALSE]
  <2>2. k \in Connection /\ k.process = conn[c].process /\ k.nextID = conn[c].nextID /\ ~k.running
    BY <1>0 DEF Connection
  <2>3. InCall(g) /\ CallReturns(g, k, Failed)
    BY <1>11, <2>1 DEF Timeout, At, InCall
  <2> HIDE DEF k
  <2> QED  BY <1>19, <2>1, <2>2, <2>3, LineTypes, CallReturnsInv
<1>12. CASE Register(g)
  <2>1. caller[g].on \in Client
    BY <1>0, <1>12, CallerTypes DEF Register, At
  <2> QED  BY <1>1, <1>12, <2>1, MovesOn DEF Register, At, Idle, Calling
<1>13. CASE Disconnect(g)
  <2>1. /\ conn' \in [Client -> Connection]
        /\ \A e \in Client : conn'[e] = conn[e] \/ conn'[e] = Closed(conn[e])
    <3>1. CASE registry # Nobody
      BY <1>0, <1>2, <1>13, <3>1 DEF Disconnect, MCPTypeOK
    <3>2. CASE registry = Nobody
      BY <1>1, <1>13, <3>2 DEF Disconnect
    <3> QED  BY <3>1, <3>2
  <2> QED  BY <1>13, <2>1, MovesOn DEF Disconnect, At, Idle, Calling
<1>14. CASE IsAlive(g)
  <2>1. CASE caller' = [caller EXCEPT ![g] = Idle]
    BY <1>1, <1>14, <2>1, MovesOn DEF IsAlive, At, Idle, Calling
  <2>2. CASE caller' = [caller EXCEPT ![g] = Doing("reconnect", Nobody, "none")]
    BY <1>1, <1>14, <2>2, MovesOn DEF IsAlive, At, Calling
  <2> QED  BY <1>14, <2>1, <2>2 DEF IsAlive
<1>15. CASE Reconnect(g)
  <2>1. CASE caller' = [caller EXCEPT ![g] = Doing("connect", Nobody, "none")]
    BY <1>1, <1>15, <2>1, MovesOn DEF Reconnect, At, Calling
  <2>2. CASE registry # Nobody /\ caller' = [caller EXCEPT ![g] = Doing("close", registry, "none")]
    BY <1>0, <1>1, <1>15, <2>2, MovesOn DEF Reconnect, At, MCPTypeOK, Calling
  <2> QED  BY <1>15, <2>1, <2>2 DEF Reconnect
<1>16. CASE CloseOld(g)
  <2>1. PICK c \in Client : c = caller[g].on
    BY <1>0, <1>16, CallerTypes DEF CloseOld, At
  <2>2. conn' = [conn EXCEPT ![c] = Closed(conn[c])]
    BY <1>0, <1>16, <2>1 DEF CloseOld, MCPTypeOK
  <2> QED  BY <1>2, <1>16, <2>2, MovesOn DEF CloseOld, At, Calling
<1> QED  BY <1>3, <1>4, <1>5, <1>6, <1>7, <1>8, <1>17, <1>18, <1>20, <1>10, <1>11, <1>12, <1>13, <1>14, <1>15,
            <1>16 DEF Begin, GoOn

LEMMA MCPInvNext == MCPInv /\ [MCPNext]_mcpVars => MCPInv'
<1> SUFFICES ASSUME MCPInv, [MCPNext]_mcpVars PROVE MCPInv'
  OBVIOUS
<1>1. CASE UNCHANGED mcpVars
  <2>0. UNCHANGED registry /\ UNCHANGED conn /\ UNCHANGED caller /\ UNCHANGED limit
    BY <1>1 DEF mcpVars
  <2>1. MCPTypeOK /\ MCPTypeOK'
    BY <2>0 DEF MCPInv, Shape, MCPTypeOK
  <2>2. \A g \in Goroutine : CallerOK(g)'
    BY <2>0 DEF MCPInv, Shape, CallerOK, SettingUp, At, InCall
  <2>3. \A g, h \in Goroutine : Apart(g, h)'
    BY <2>0 DEF MCPInv, Shape, Apart, SettingUp, At, InCall
  <2>4. ASSUME NEW c \in Client PROVE Unknown(c)' /\ InBudget(c)' /\ InTurn(c)'
    <3>1. Unknown(c)'
      BY <2>0 DEF MCPInv, Shape, Unknown
    <3>2. AboutToCall(c)' \subseteq AboutToCall(c)
      BY <2>0 DEF AboutToCall, ToCall
    <3>3. InBudget(c)'
      BY <2>0, <2>1, <3>2, BudgetKept DEF MCPInv, Shape
    <3>4. \A h \in Goroutine : Waits(h, c)' <=> Waits(h, c)
      BY <2>0 DEF Waits, At
    <3>5. InTurn(c)'
      BY <2>0, <3>4, TurnKept DEF MCPInv
    <3> QED  BY <3>1, <3>3, <3>5
  <2> QED  BY <2>1, <2>2, <2>3, <2>4 DEF MCPInv, Shape
<1>2. ASSUME NEW g \in Goroutine, Begin(g) \/ GoOn(g) \/ Taken(g) \/ Timeout(g) PROVE MCPInv'
  BY <1>2, CallerStepInv
<1>3. ASSUME NEW c \in Client, Read(c) \/ ServerStep(c) PROVE MCPInv'
  BY <1>3, ReadInv, AnswerInv, WriteNotificationInv, ExitInv DEF Read, ServerStep
<1> QED  BY <1>1, <1>2, <1>3 DEF MCPNext

LEMMA MCPInvAlways == MCPSpec => []MCPInv
<1> QED  BY MCPInvInit, MCPInvNext, PTL DEF MCPSpec

-----------------------------------------------------------------------------
(* What the checks state.                                                    *)

(* No call gets the answer of another over a connection that is marked as   *)
(* running and whose server wrote nothing of its own, and a connection with *)
(* a goroutine left in ReadBytes is marked as not running, however many     *)
(* call, connect, disconnect and check at once (mcp_client.go:209-258).     *)
THEOREM MCPAnswersSafe == MCPSpec => []AnswersSafe
<1>1. ASSUME MCPInv PROVE AnswersSafe
  <2>0. MCPTypeOK /\ (\A c \in Client : InTurn(c)) /\ \A g \in Goroutine : CallerOK(g)
    BY <1>1 DEF MCPInv, Shape
  <2>1. AnswersItsOwn
    <3> SUFFICES ASSUME NEW g \in Goroutine, caller[g].got # Nothing, caller[g].got.ok,
                        conn[caller[g].on].running, conn[caller[g].on].notes = 0
                 PROVE  caller[g].got.id = caller[g].id
      BY DEF AnswersItsOwn
    <3>1. PICK c \in Client : c = caller[g].on
      BY <2>0, CallerTypes DEF CallerOK, At, Calling
    <3>2. Waits(g, c)
      BY <2>0, <3>1 DEF CallerOK, Waits
    <3> QED  BY <2>0, <3>1, <3>2 DEF InTurn, OwnAnswer
  <2>2. LeftoverMarked
    <3>1. \A c \in Client : Awaited(c) => Locked(c)
      BY DEF Awaited, Waits, Locked, InCall, At
    <3> QED  BY <2>0, <3>1 DEF LeftoverMarked, InTurn, OneReader
  <2> QED  BY <2>0, <2>1, <2>2 DEF AnswersSafe
<1> QED  BY <1>1, MCPInvAlways, PTL

(* Who owns a connection keeps it unless it is the one that goes on, or the *)
(* registry changes.                                                       *)
LEMMA OwnedKept ==
  ASSUME NEW c, Owned(c), registry' = registry,
         \A h \in Goroutine : caller[h].on = c /\ caller[h].pc \in Calling \cup {"register"}
            => caller'[h].on = c /\ caller'[h].pc \in Calling \cup {"register"}
  PROVE  Owned(c)'
BY DEF Owned, Calling

LEMMA ReturnLeavesNone ==
  ASSUME MCPInv, NEW g \in Goroutine, InCall(g), NEW k \in Connection,
         NEW line, CallReturns(g, k, line), NEW c \in Client, Owned(c), conn'[c].process = "up",
         k.running \/ k.process # "up"
  PROVE  Owned(c)'
<1>0. MCPTypeOK /\ CallerOK(g) /\ caller[g].on \in Client /\ caller[g] \in Caller
      /\ caller \in [Goroutine -> Caller] /\ conn \in [Client -> Connection]
  BY CallerTypes DEF MCPInv, Shape, MCPTypeOK, InCall, Calling
<1>1. registry' = registry
  BY DEF CallReturns
<1>2. \A h \in Goroutine \ {g} : caller'[h] = caller[h]
  BY <1>0 DEF CallReturns
<1>3. CASE c # caller[g].on
  BY <1>1, <1>2, <1>3, OwnedKept
<1>4. CASE c = caller[g].on
  <2>1. CASE caller[g].method = "tools/call"
    BY <1>0, <1>1, <1>4, <2>1 DEF CallerOK, Owned
  <2>2. CASE caller[g].method = "initialize" /\ caller' = [caller EXCEPT ![g] = Doing("notify", c, "tools/list")]
    <3>1. caller'[g].pc = "notify" /\ caller'[g].on = c
      BY <1>0, <2>2, DoingType
    <3> QED  BY <3>1 DEF Owned
  <2>3. CASE caller[g].method = "initialize" /\ conn' = [conn EXCEPT ![c] = Closed(k)]
    <3>1. conn'[c] = Closed(k)
      BY <1>0, <2>3
    <3> QED  BY <3>1, ClosedType
  <2>4. CASE caller[g].method = "tools/list" /\ caller' = [caller EXCEPT ![g] = Doing("register", c, "none")]
    <3>1. caller'[g].pc = "register" /\ caller'[g].on = c
      BY <1>0, <2>4, DoingType
    <3> QED  BY <3>1 DEF Owned
  <2> QED  BY <1>4, <2>1, <2>2, <2>3, <2>4 DEF CallReturns
<1> QED  BY <1>3, <1>4

LEMMA StepLeavesNone ==
  ASSUME MCPInv, MCPNext, NEW c \in Client, Owned(c), ~Owned(c)', conn'[c].process = "up",
         conn[c].running, \A g \in Goroutine : ~Timeout(g)
  PROVE  registry = c /\ registry' # Nobody
<1>0. /\ MCPTypeOK /\ \A e \in Client : conn[e] \in Connection
      /\ \A h \in Goroutine : CallerOK(h) /\ caller[h] \in Caller
      /\ caller \in [Goroutine -> Caller] /\ conn \in [Client -> Connection]
      /\ registry \in Client \cup {Nobody}
  BY CallerTypes DEF MCPInv, Shape, MCPTypeOK
<1>1. ASSUME NEW e \in Client, Read(e) \/ ServerStep(e) PROVE FALSE
  <2>1. registry' = registry
    BY <1>1 DEF Read, ServerStep, ReadLine, ReadEnd, Answer, WriteNotification, Exit
  <2>2. \A h \in Goroutine : caller'[h].pc = caller[h].pc /\ caller'[h].on = caller[h].on
    <3>1. CASE UNCHANGED caller
      BY <3>1
    <3>2. CASE \E r, line : Deliver(e, r, line)
      <4>1. PICK r, line : Deliver(e, r, line)
        BY <3>2
      <4>2. ASSUME NEW h \in Goroutine
            PROVE  caller'[h] = caller[h] \/ caller'[h] = [caller[h] EXCEPT !.got = line]
        BY <4>1 DEF Deliver
      <4> QED  BY <1>0, <4>2 DEF Caller
    <3> QED  BY <1>1, <3>1, <3>2 DEF Read, ServerStep, ReadLine, ReadEnd, Answer, WriteNotification, Exit
  <2> QED  BY <2>1, <2>2, OwnedKept
<1>2. ASSUME NEW g \in Goroutine, Begin(g) \/ StartProcess(g) \/ IsAlive(g) \/ Reconnect(g) \/ CloseOld(g)
      PROVE  FALSE
  <2>1. registry' = registry /\ caller[g].pc \notin Calling \cup {"register"}
    BY <1>2 DEF Calling, Begin, ConnectMCPServers, CallMCPTool, DisconnectAllMCP, HealthCheck, StartProcess,
       IsAlive, Reconnect, CloseOld, At
  <2>2. \E d : caller' = [caller EXCEPT ![g] = d]
    BY <1>2 DEF Begin, ConnectMCPServers, CallMCPTool, DisconnectAllMCP, HealthCheck, StartProcess,
       IsAlive, Reconnect, CloseOld
  <2>3. \A h \in Goroutine \ {g} : caller'[h] = caller[h]
    BY <1>0, <2>2
  <2> QED  BY <2>1, <2>3, OwnedKept
<1>3. ASSUME NEW g \in Goroutine, BeginCall(g) \/ Taken(g) \/ NotifyFails(g) PROVE FALSE
  <2>1. registry' = registry
    BY <1>3 DEF BeginCall, BeginWrite, Taken, RequestTaken, NotifyTaken, NotifyFails, Notified
  <2>2. ASSUME NEW h \in Goroutine
        PROVE  caller'[h] = caller[h] \/ (caller'[h].pc \in Calling /\ caller'[h].on = caller[h].on)
    <3>1. CASE BeginCall(g)
      BY <1>0, <3>1 DEF BeginCall, BeginWrite, Caller, Calling
    <3>2. CASE RequestTaken(g)
      BY <1>0, <3>2 DEF RequestTaken, Caller, Calling
    <3>3. CASE NotifyTaken(g) \/ NotifyFails(g)
      BY <1>0, <3>3 DEF NotifyTaken, NotifyFails, Notified, Caller, Calling
    <3> QED  BY <1>3, <3>1, <3>2, <3>3 DEF Taken
  <2> QED  BY <2>1, <2>2, OwnedKept
<1>7. ASSUME NEW g \in Goroutine, WriteFails(g) PROVE FALSE
  <2>1. PICK e \in Client : e = caller[g].on
    BY <1>0, <1>7, CallerTypes DEF WriteFails, At, Calling
  <2>2. CallReturns(g, conn[e], Failed) /\ InCall(g) /\ conn[e].process # "up"
    BY <1>7, <2>1 DEF WriteFails, At, InCall
  <2> QED  BY <1>0, <2>2, ReturnLeavesNone
<1>4. ASSUME NEW g \in Goroutine, Return(g) PROVE FALSE
  <2>1. PICK e \in Client : e = caller[g].on
    BY <1>0, <1>4, CallerTypes DEF Return, At, Calling
  <2>2. CallReturns(g, conn[e], caller[g].got) /\ InCall(g)
    BY <1>4, <2>1 DEF Return, At, InCall
  <2>3. CASE e = c
    BY <1>0, <2>2, <2>3, ReturnLeavesNone
  <2>4. CASE e # c
    <3>1. registry' = registry /\ \A h \in Goroutine \ {g} : caller'[h] = caller[h]
      BY <1>0, <2>2 DEF CallReturns
    <3> QED  BY <2>1, <2>4, <3>1, OwnedKept
  <2> QED  BY <2>3, <2>4
<1>5. ASSUME NEW g \in Goroutine, Register(g) PROVE registry = c /\ registry' # Nobody
  <2>1. /\ registry' = caller[g].on /\ caller[g].on \in Client
        /\ \A h \in Goroutine \ {g} : caller'[h] = caller[h]
    BY <1>0, <1>5, CallerTypes DEF Register, At
  <2> QED  BY <2>1, NobodyIsNoClient DEF Owned
<1>6. ASSUME NEW g \in Goroutine, Disconnect(g) PROVE FALSE
  <2>1. /\ caller[g].pc = "disconnect" /\ \A h \in Goroutine \ {g} : caller'[h] = caller[h]
    BY <1>0, <1>6 DEF Disconnect, At
  <2>2. CASE registry = c
    <3>1. conn'[c] = Closed(conn[c])
      BY <1>0, <1>6, <2>2, NobodyIsNoClient DEF Disconnect
    <3> QED  BY <1>0, <3>1, ClosedType
  <2>3. CASE registry # c
    BY <2>1, <2>3 DEF Owned
  <2> QED  BY <2>2, <2>3
<1> QED  BY <1>1, <1>2, <1>3, <1>4, <1>5, <1>6, <1>7 DEF MCPNext, GoOn

(* A process that is up leaves the reach of DisconnectAllMCP only as a call *)
(* gives up on it or as another replaces it in the registry: no connection  *)
(* that fails half-way, no disconnection and no reconnection leaves one     *)
(* behind (mcp_client.go:63-112, 290-345, mcp_enhanced.go:158-209).         *)
THEOREM MCPNoneLeftBehind == MCPSpec => NoneLeftBehind
<1> DEFINE Left == \A c \in Client :
                      Owned(c) /\ ~Owned(c)' /\ conn'[c].process = "up"
                         => \/ ~conn[c].running \/ \E g \in Goroutine : Timeout(g)
                            \/ registry = c /\ registry' # Nobody
<1>1. ASSUME MCPInv, [MCPNext]_mcpVars PROVE [Left]_mcpVars
  <2>1. CASE MCPNext
    BY <1>1, <2>1, StepLeavesNone
  <2>2. CASE UNCHANGED mcpVars
    BY <2>2
  <2> QED  BY <1>1, <2>1, <2>2
<1>2. MCPSpec => [][Left]_mcpVars
  BY <1>1, MCPInvAlways, PTL DEF MCPSpec
<1> QED  BY <1>2 DEF NoneLeftBehind

=============================================================================
