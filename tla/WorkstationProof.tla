--------------------------- MODULE WorkstationProof ---------------------------
(***************************************************************************)
(* Proofs about Workstation: its types, that a displayed export is of the  *)
(* session as it is, and that a session and its database belong together.  *)
(*                                                                         *)
(* The argument is about the calls in flight.  CallFits says what a call   *)
(* carries and what its answer may be; CallIsCurrent says what a live call *)
(* still agrees with.  Commit is the only way the session changes, so the  *)
(* lemmas about it carry most of the induction.                            *)
(***************************************************************************)
EXTENDS Workstation, TLAPS, SequenceTheorems

\* What a call carries, and what its answer may be.
CallFits(c) ==
    /\ c.op \in {"save", "adopt", "create", "export"} => c.content \in Contents
    /\ c.op = "adopt" => c.db \in Projects /\ c.content.project = c.db
    /\ c.op \in {"start", "cancel", "poll"} => c.job \in Jobs
    /\ c.op = "load" =>
        /\ c.db \in Projects
        /\ c.reply \in {None, Refused} \/ (c.content \in Contents /\ c.content.project = c.db)
    /\ c.op = "create" => c.reply \in Projects \union {None, Refused}
    /\ c.op = "import" => c.reply \in Jobs \union {None, Refused}
    /\ c.op \in {"cancel", "poll"} => c.reply \in Status \union {None, Refused}

\* What a live call agrees with.
CallIsCurrent(c, u) ==
    /\ c.op = "load" /\ c.live => c.db = u.path
    /\ c.op = "export" /\ c.live => c.content = u.preview

CallsOK == \A i \in DOMAIN calls : CallFits(calls[i]) /\ CallIsCurrent(calls[i], ui)

IInv == TypeOK /\ CallsOK /\ ExportIsCurrent /\ ProjectIdentity

\* What a call must satisfy before a step to u, to be current after it.
StaysCurrent(c, u) ==
    /\ c.op = "load" /\ c.live /\ u.path = ui.path => c.db = u.path
    /\ c.op = "export" /\ c.live /\ ~PreviewCleared(u) => c.content = u.preview

Ready(cs, u) ==
    /\ cs \in Seq(CallType)
    /\ \A i \in DOMAIN cs : CallFits(cs[i]) /\ StaysCurrent(cs[i], u)

-----------------------------------------------------------------------------
(* A call that is no longer live. *)

\* Lowering the mark of a call changes nothing else that matters.
LEMMA MarkLowered ==
    ASSUME NEW c \in CallType, NEW l \in BOOLEAN, l => c.live, NEW u
    PROVE  LET d == [c EXCEPT !.live = l] IN
           /\ d \in CallType
           /\ CallFits(c) => CallFits(d)
           /\ StaysCurrent(c, u) => StaysCurrent(d, u)
           /\ d.op = c.op /\ d.db = c.db /\ d.content = c.content /\ d.live = l
<1> DEFINE d == [c EXCEPT !.live = l]
<1>1. /\ d \in CallType
      /\ d.op = c.op /\ d.db = c.db /\ d.content = c.content /\ d.job = c.job
      /\ d.reply = c.reply /\ d.live = l
  BY DEF CallType
<1>2. CallFits(c) => CallFits(d)
  BY <1>1 DEF CallFits
<1>3. StaysCurrent(c, u) => StaysCurrent(d, u)
  BY <1>1 DEF StaysCurrent
<1> QED BY <1>1, <1>2, <1>3

\* A new generation, or a new monitor, leaves every call as it should be.
LEMMA DroppedIsReady ==
    ASSUME NEW cs, NEW u, NEW op, Ready(cs, u)
    PROVE  Ready(Dropped(cs, op), u)
<1> DEFINE ds == Dropped(cs, op)
           low(i) == cs[i].live /\ cs[i].op # op
<1>1. /\ cs \in Seq(CallType) /\ DOMAIN cs = 1 .. Len(cs) /\ Len(cs) \in Nat
      /\ \A i \in 1 .. Len(cs) : cs[i] \in CallType
  BY DEF Ready
<1>2. DOMAIN ds = 1 .. Len(cs) /\ \A i \in 1 .. Len(cs) : ds[i] = [cs[i] EXCEPT !.live = low(i)]
  BY <1>1 DEF Dropped, CallType
<1>3. ASSUME NEW i \in 1 .. Len(cs)
      PROVE  ds[i] \in CallType /\ CallFits(ds[i]) /\ StaysCurrent(ds[i], u)
  <2>1. low(i) \in BOOLEAN /\ (low(i) => cs[i].live)
    BY <1>1 DEF CallType
  <2>2. CallFits(cs[i]) /\ StaysCurrent(cs[i], u)
    BY <1>1 DEF Ready
  <2> HIDE DEF low
  <2> QED BY <1>1, <1>2, <2>1, <2>2, MarkLowered
<1>4. ds \in Seq(CallType)
  BY <1>1, <1>2, <1>3 DEF Dropped
<1> QED BY <1>2, <1>3, <1>4 DEF Ready

\* The last call may be joined by another.
LEMMA AppendIsReady ==
    ASSUME NEW cs, NEW u, NEW c \in CallType, Ready(cs, u), CallFits(c), StaysCurrent(c, u)
    PROVE  Ready(Append(cs, c), u)
BY DEF Ready

\* The oldest call may leave.
LEMMA TailIsReady ==
    ASSUME NEW cs, NEW u, Ready(cs, u), cs # <<>>
    PROVE  Ready(Tail(cs), u)
<1>1. /\ Tail(cs) \in Seq(CallType) /\ Len(Tail(cs)) = Len(cs) - 1
      /\ \A i \in 1 .. Len(Tail(cs)) : Tail(cs)[i] = cs[i + 1] /\ i + 1 \in 1 .. Len(cs)
  BY DEF Ready
<1> QED BY <1>1 DEF Ready

\* The calls in flight are ready for a step that keeps the preview or clears it.
LEMMA CallsAreReady ==
    ASSUME TypeOK, CallsOK, NEW u, u.preview \in {None, ui.preview}
    PROVE  Ready(calls, u)
<1> SUFFICES ASSUME NEW i \in DOMAIN calls PROVE StaysCurrent(calls[i], u)
  BY DEF Ready, CallsOK, TypeOK
<1>1. CallIsCurrent(calls[i], ui)
  BY DEF CallsOK
<1> QED BY <1>1 DEF CallIsCurrent, StaysCurrent, PreviewCleared

-----------------------------------------------------------------------------
(* Commit. *)

\* After a commit every call is as it should be.
LEMMA CommitKeepsCalls ==
    ASSUME TypeOK, NEW u \in UiType, NEW cs, Ready(cs, u), Commit(u, cs)
    PROVE  ui' \in UiType /\ calls' \in Seq(CallType) /\ CallsOK'
<1> DEFINE low(i) == cs[i].live /\ ~Overtaken(cs[i], u)
<1>1. /\ cs \in Seq(CallType) /\ DOMAIN cs = 1 .. Len(cs) /\ Len(cs) \in Nat
      /\ \A i \in 1 .. Len(cs) : cs[i] \in CallType
  BY DEF Ready
<1>2. /\ DOMAIN calls' = 1 .. Len(cs)
      /\ \A i \in 1 .. Len(cs) : calls'[i] = [cs[i] EXCEPT !.live = low(i)]
  BY <1>1 DEF Commit, CallType
<1>3. /\ ui' \in UiType /\ ui'.path = u.path /\ ui'.preview = u.preview
  BY DEF Commit, UiType
<1>4. ASSUME NEW i \in 1 .. Len(cs)
      PROVE  calls'[i] \in CallType /\ CallFits(calls'[i]) /\ CallIsCurrent(calls'[i], ui')
  <2>1. PICK l \in BOOLEAN : /\ calls'[i] = [cs[i] EXCEPT !.live = l]
                             /\ l => cs[i].live /\ ~Overtaken(cs[i], u)
    <3>1. low(i) \in BOOLEAN /\ (low(i) => cs[i].live /\ ~Overtaken(cs[i], u))
      BY <1>1 DEF CallType
    <3> HIDE DEF low
    <3> QED BY <1>2, <3>1
  <2>2. CallFits(cs[i]) /\ StaysCurrent(cs[i], u) /\ cs[i] \in CallType
    BY <1>1 DEF Ready
  <2>3. LET d == [cs[i] EXCEPT !.live = l] IN
        /\ d \in CallType /\ CallFits(d) /\ StaysCurrent(d, u)
        /\ d.op = cs[i].op /\ d.live = l
    BY <2>1, <2>2, MarkLowered
  <2>4. CallIsCurrent(calls'[i], ui')
    BY <1>3, <2>1, <2>3 DEF CallIsCurrent, StaysCurrent, Overtaken
  <2> QED BY <2>1, <2>3, <2>4
<1>5. calls' \in Seq(CallType)
  <2>1. calls' = [i \in 1 .. Len(cs) |-> calls'[i]]
    BY <1>1, <1>2 DEF Commit
  <2> QED BY <1>1, <1>4, <2>1
<1> QED BY <1>2, <1>3, <1>4, <1>5 DEF CallsOK

-----------------------------------------------------------------------------
(* The session a step leaves behind. *)

Homed(u) == u.session.project \in Projects => u.path = u.session.project \/ u.session.fromFile

Prepared(u) ==
    /\ u \in UiType
    /\ u.preview # None => u.preview = Content(u.session)
    /\ PreviewCleared(u) \/ (u.shown # None => u.shown = u.preview)
    /\ Homed(u)

\* A commit of a prepared session keeps the invariant, when the native side does not move.
LEMMA CommitKeepsInvariant ==
    ASSUME IInv, NEW u, NEW cs, Prepared(u), Ready(cs, u), Commit(u, cs), UNCHANGED nativeVars
    PROVE  IInv'
<1>1. ui' \in UiType /\ calls' \in Seq(CallType) /\ CallsOK'
  BY CommitKeepsCalls DEF IInv, Prepared
<1>2. TypeOK'
  BY <1>1 DEF IInv, TypeOK, nativeVars
<1>3. /\ ui'.session = u.session /\ ui'.path = u.path /\ ui'.preview = u.preview
      /\ ui'.shown = IF PreviewCleared(u) THEN None ELSE u.shown
  BY DEF Commit, Prepared, UiType
<1>4. ExportIsCurrent'
  <2>1. ui'.preview # None => ui'.preview = Content(ui'.session)
    BY <1>3 DEF Prepared
  <2>2. ui'.shown # None => ui'.shown = ui'.preview
    BY <1>3 DEF Prepared
  <2> QED BY <2>1, <2>2 DEF ExportIsCurrent, Content
<1>5. ProjectIdentity'
  BY <1>3 DEF IInv, ProjectIdentity, Prepared, Homed, nativeVars
<1> QED BY <1>1, <1>2, <1>4, <1>5 DEF IInv

\* A session whose preview was cleared is prepared, whatever else changed in it.
LEMMA ClearedIsPrepared ==
    ASSUME IInv, NEW v \in UiType, v.preview = None, v.shown \in {ui.shown, None}, Homed(v)
    PROVE  Prepared(v) /\ Ready(calls, v)
<1>1. PreviewCleared(v) \/ (v.shown # None => v.shown = v.preview)
  BY DEF IInv, ExportIsCurrent, PreviewCleared
<1>2. Ready(calls, v)
  BY CallsAreReady DEF IInv
<1> QED BY <1>1, <1>2 DEF Prepared

\* So is one that kept its content, its database and its preview.
LEMMA KeptIsPrepared ==
    ASSUME IInv, NEW v \in UiType, v.session = ui.session, v.path = ui.path,
           v.preview = ui.preview, v.shown \in {ui.shown, None}
    PROVE  Prepared(v) /\ Ready(calls, v)
<1>1. Homed(v)
  BY DEF IInv, ProjectIdentity, Homed
<1>2. v.preview # None => v.preview = Content(v.session)
  BY DEF IInv, ExportIsCurrent
<1>3. v.shown # None => v.shown = v.preview
  BY DEF IInv, ExportIsCurrent
<1>4. Ready(calls, v)
  BY CallsAreReady DEF IInv
<1> QED BY <1>1, <1>2, <1>3, <1>4 DEF Prepared

\* Snapshots and sessions.
LEMMA SnapshotTypes ==
    /\ \A s \in Sessions : Content(s) \in Contents
    /\ \A c \in Contents, f \in BOOLEAN :
        Session(c, f) \in Sessions /\ Session(c, f).project = c.project
                                   /\ Session(c, f).fromFile = f
    /\ \A p \in Projects \union {Draft} :
        /\ NewContent(p) \in Contents /\ NewContent(p).project = p
        /\ \A c \in Snapshots(p) : c \in Contents /\ c.project = p
<1>1. \A s \in Sessions : Content(s) \in Contents
  BY DEF Sessions, Content, Contents
<1>2. \A c \in Contents, f \in BOOLEAN :
        Session(c, f) \in Sessions /\ Session(c, f).project = c.project
                                   /\ Session(c, f).fromFile = f
  BY DEF Sessions, Session, Contents
<1>3. ASSUME NEW p \in Projects \union {Draft}
      PROVE  /\ NewContent(p) \in Contents /\ NewContent(p).project = p
             /\ \A c \in Snapshots(p) : c \in Contents /\ c.project = p
  <2>1. NewContent(p) \in Contents /\ NewContent(p).project = p
    BY WorkstationAssumption DEF NewContent, Contents
  <2>2. ASSUME NEW c \in Snapshots(p) PROVE c \in Contents /\ c.project = p
    <3>1. c \in [project : {p}, text : Saved, jobs : [Jobs -> Status \union {None}]]
      BY DEF Snapshots
    <3> QED BY <3>1, WorkstationAssumption DEF Contents
  <2> QED BY <2>1, <2>2
<1> QED BY <1>1, <1>2, <1>3

\* What a dispatch makes of the state of App: the reducer's new session, no preview.
LEMMA DispatchedTypes ==
    ASSUME NEW u \in UiType, NEW s \in Sessions
    PROVE  LET v == Dispatched(u, s) IN
           /\ v \in UiType /\ v.session = s /\ v.path = u.path /\ v.monitor = u.monitor
           /\ v.preview = None /\ v.shown = u.shown
BY DEF Dispatched, UiType

\* A recorded attempt only clears the preview.
LEMMA RecordedIsPrepared ==
    ASSUME IInv
    PROVE  /\ Recorded(ui) \in UiType /\ Prepared(Recorded(ui)) /\ Ready(calls, Recorded(ui))
           /\ Recorded(ui).session = ui.session /\ Recorded(ui).path = ui.path
           /\ Recorded(ui).preview = None /\ Recorded(ui).shown = ui.shown
<1> DEFINE v == Recorded(ui)
<1>1. ui \in UiType /\ ui.session \in Sessions
  BY DEF IInv, TypeOK, UiType
<1>2. /\ v \in UiType /\ v.session = ui.session /\ v.path = ui.path
      /\ v.preview = None /\ v.shown = ui.shown
  BY <1>1, DispatchedTypes DEF Recorded
<1>3. Homed(v)
  BY <1>2 DEF IInv, ProjectIdentity, Homed
<1> HIDE DEF v
<1>4. Prepared(v) /\ Ready(calls, v)
  BY <1>2, <1>3, ClearedIsPrepared
<1> QED BY <1>2, <1>4 DEF v

-----------------------------------------------------------------------------
(* The reviewer, up to the await. *)

\* What a handler sends carries what it needs.
LEMMA SentCall ==
    ASSUME IInv, NEW u, NEW cs, Ready(cs, u), NEW c \in CallType, CallFits(c),
           StaysCurrent(c, u), Prepared(u), Send(u, cs, c)
    PROVE  IInv'
BY AppendIsReady, CommitKeepsInvariant DEF Send

\* The fields of a call that has just been made.
LEMMA NewCall ==
    ASSUME IInv, NEW op \in {"save", "create", "export", "import", "start", "cancel", "poll"}
    PROVE  /\ Call(op).op = op /\ Call(op).live /\ Call(op).db = ui.path
           /\ Call(op).project = ui.session.project /\ Call(op).job = None
           /\ Call(op).content = None /\ Call(op).reply = None
           /\ Call(op) \in CallType
           /\ \A s \in Contents : /\ [Call(op) EXCEPT !.content = s] \in CallType
                                  /\ op \in {"save", "create", "export"} =>
                                        CallFits([Call(op) EXCEPT !.content = s])
           /\ \A j \in Jobs : /\ [Call(op) EXCEPT !.job = j] \in CallType
                              /\ op \in {"start", "cancel", "poll"} =>
                                    CallFits([Call(op) EXCEPT !.job = j])
           /\ op = "import" => CallFits(Call(op))
<1>1. ui.path \in Projects \union {None} /\ ui.session.project \in Projects \union {Draft}
  BY DEF IInv, TypeOK, UiType, Sessions
<1>2. Call(op) = [op |-> op, live |-> TRUE, db |-> ui.path, project |-> ui.session.project,
                  job |-> None, content |-> None, reply |-> None]
  BY DEF Call
<1>3. Call(op) \in CallType
  BY <1>1, <1>2 DEF CallType
<1>4. ASSUME NEW s \in Contents
      PROVE  LET d == [Call(op) EXCEPT !.content = s] IN
             d \in CallType /\ (op \in {"save", "create", "export"} => CallFits(d))
  <2> DEFINE d == [Call(op) EXCEPT !.content = s]
  <2>1. /\ d.op = op /\ d.content = s /\ d.reply = None
    BY <1>2
  <2>2. d \in CallType
    BY <1>3 DEF CallType
  <2>3. op \in {"save", "create", "export"} => CallFits(d)
    <3> HIDE DEF d
    <3> QED BY <2>1 DEF CallFits
  <2> QED BY <2>2, <2>3
<1>5. ASSUME NEW j \in Jobs
      PROVE  LET d == [Call(op) EXCEPT !.job = j] IN
             d \in CallType /\ (op \in {"start", "cancel", "poll"} => CallFits(d))
  <2> DEFINE d == [Call(op) EXCEPT !.job = j]
  <2>1. /\ d.op = op /\ d.job = j /\ d.reply = None
    BY <1>2
  <2>2. d \in CallType
    BY <1>3 DEF CallType
  <2>3. op \in {"start", "cancel", "poll"} => CallFits(d)
    <3> HIDE DEF d
    <3> QED BY <2>1 DEF CallFits
  <2> QED BY <2>2, <2>3
<1>6. op = "import" => CallFits(Call(op))
  <2>1. Call(op).op = op /\ Call(op).reply = None
    BY <1>2
  <2> QED BY <2>1 DEF CallFits
<1>7. /\ Call(op).op = op /\ Call(op).live /\ Call(op).db = ui.path
      /\ Call(op).project = ui.session.project /\ Call(op).job = None
      /\ Call(op).content = None /\ Call(op).reply = None
  BY <1>2
<1>8. /\ \A s \in Contents : /\ [Call(op) EXCEPT !.content = s] \in CallType
                             /\ op \in {"save", "create", "export"} =>
                                   CallFits([Call(op) EXCEPT !.content = s])
      /\ \A j \in Jobs : /\ [Call(op) EXCEPT !.job = j] \in CallType
                         /\ op \in {"start", "cancel", "poll"} =>
                               CallFits([Call(op) EXCEPT !.job = j])
  BY <1>4, <1>5, Zenon
<1> QED BY <1>3, <1>6, <1>7, <1>8, Zenon

\* An export that is invalid is no longer shown.
LEMMA InvalidatedTypes ==
    ASSUME NEW u \in UiType
    PROVE  LET v == Invalidated(u) IN
           /\ v \in UiType /\ v.session = u.session /\ v.path = u.path
           /\ v.monitor = u.monitor /\ v.preview = u.preview /\ v.shown = None
BY DEF Invalidated, UiType

LEMMA EditKeeps == ASSUME IInv, NEW t \in Texts, Edit(t) PROVE IInv'
<1> DEFINE s == [ui.session EXCEPT !.text = t]
           v == Invalidated(Dispatched(ui, s))
<1>1. ui \in UiType /\ ui.session \in Sessions
  BY DEF IInv, TypeOK, UiType
<1>2. s \in Sessions /\ s.project = ui.session.project /\ s.fromFile = ui.session.fromFile
  BY <1>1 DEF Sessions
<1>3. /\ v \in UiType /\ v.session = s /\ v.path = ui.path /\ v.preview = None
      /\ v.shown = None
  BY <1>1, <1>2, DispatchedTypes, InvalidatedTypes
<1>4. Homed(v)
  BY <1>2, <1>3 DEF IInv, ProjectIdentity, Homed
<1>5. Commit(v, NextGeneration(calls)) /\ UNCHANGED nativeVars
  BY DEF Edit
<1> HIDE DEF s, v
<1>6. Prepared(v) /\ Ready(NextGeneration(calls), v)
  BY <1>3, <1>4, ClearedIsPrepared, DroppedIsReady DEF NextGeneration
<1> QED BY <1>5, <1>6, CommitKeepsInvariant

\* A call that saves a snapshot names the project of it.
LEMMA SavingCall ==
    ASSUME IInv, NEW p \in Projects \union {Draft}, NEW u
    PROVE  SaveCall(p) \in CallType /\ CallFits(SaveCall(p)) /\ StaysCurrent(SaveCall(p), u)
<1>1. NewContent(p) \in Contents
  BY SnapshotTypes
<1>2. SaveCall(p) \in CallType /\ CallFits(SaveCall(p))
  BY <1>1, NewCall DEF SaveCall
<1>3. SaveCall(p).op = "save"
  BY DEF SaveCall, Call
<1> QED BY <1>2, <1>3 DEF StaysCurrent

LEMMA SaveDraftKeeps == ASSUME IInv, SaveDraft PROVE IInv'
<1> DEFINE c == SaveCall(ui.session.project)
<1>1. ui \in UiType /\ ui.session.project \in Projects \union {Draft}
  BY DEF IInv, TypeOK, UiType, Sessions
<1>2. Prepared(ui) /\ Ready(calls, ui)
  BY <1>1, KeptIsPrepared
<1>3. c \in CallType /\ CallFits(c) /\ StaysCurrent(c, ui)
  BY <1>1, SavingCall
<1>4. Send(ui, calls, c)
  BY DEF SaveDraft
<1> HIDE DEF c
<1> QED BY <1>2, <1>3, <1>4, SentCall

LEMMA ExportPacketKeeps == ASSUME IInv, ExportPacket PROVE IInv'
<1> DEFINE s == Content(ui.session)
           u == [Invalidated(ui) EXCEPT !.preview = s]
           cs == NextGeneration(calls)
           c == [Call("export") EXCEPT !.content = s]
<1>1. ui \in UiType /\ s \in Contents
  BY SnapshotTypes DEF IInv, TypeOK, UiType
<1>2. /\ u \in UiType /\ u.session = ui.session /\ u.path = ui.path /\ u.preview = s
      /\ u.shown = None
  BY <1>1 DEF Invalidated, UiType
<1>3. Prepared(u)
  BY <1>2 DEF Prepared, Homed, IInv, ProjectIdentity
<1>4. Ready(cs, u)
  <2>1. Ready(cs, ui)
    BY <1>1, KeptIsPrepared, DroppedIsReady DEF NextGeneration
  <2>2. ASSUME NEW i \in DOMAIN cs PROVE cs[i].op = "export" => ~cs[i].live
    <3>1. calls[i] \in CallType
      BY DEF NextGeneration, Dropped, IInv, TypeOK
    <3>2. /\ cs[i].op = calls[i].op
          /\ cs[i].live = (calls[i].live /\ calls[i].op # "export")
      BY <3>1 DEF NextGeneration, Dropped, CallType
    <3> QED BY <3>2
  <2> HIDE DEF cs, u
  <2> QED BY <1>2, <2>1, <2>2 DEF Ready, StaysCurrent
<1>5. c \in CallType /\ CallFits(c) /\ c.op = "export" /\ c.content = s
  <2>1. c.op = "export" /\ c.content = s
    BY DEF Call
  <2> QED BY <1>1, <2>1, NewCall
<1>6. StaysCurrent(c, u)
  BY <1>2, <1>5 DEF StaysCurrent
<1>7. (Commit(u, cs) /\ UNCHANGED nativeVars) \/ Send(u, cs, c)
  BY DEF ExportPacket
<1> HIDE DEF u, cs, c
<1> QED BY <1>3, <1>4, <1>5, <1>6, <1>7, SentCall, CommitKeepsInvariant

LEMMA ReplacedTypes ==
    ASSUME NEW u \in UiType, NEW c \in Contents, NEW f \in BOOLEAN
    PROVE  LET v == Replaced(u, c, f) IN
           /\ v \in UiType /\ v.session.project = c.project /\ v.session.fromFile = f
           /\ v.path = u.path /\ v.preview = None /\ v.shown = u.shown
<1> DEFINE w == [u EXCEPT !.monitor = None]
<1>1. w \in UiType /\ w.path = u.path /\ w.shown = u.shown
  BY DEF UiType
<1>2. Session(c, f) \in Sessions /\ Session(c, f).project = c.project
                                 /\ Session(c, f).fromFile = f
  BY SnapshotTypes
<1>3. Replaced(u, c, f) = Dispatched(w, Session(c, f))
  BY DEF Replaced
<1> HIDE DEF w
<1>4. LET v == Dispatched(w, Session(c, f)) IN
        /\ v \in UiType /\ v.session = Session(c, f) /\ v.path = w.path
        /\ v.preview = None /\ v.shown = w.shown
  BY <1>1, <1>2, DispatchedTypes
<1> QED BY <1>1, <1>2, <1>3, <1>4

LEMMA ClearLocalDraftKeeps == ASSUME IInv, ClearLocalDraft PROVE IInv'
<1> DEFINE w == Replaced(ui, NewContent(Draft), FALSE)
           v == [w EXCEPT !.path = None]
<1>1. ui \in UiType
  BY DEF IInv, TypeOK
<1>2. /\ w \in UiType /\ w.session.project = Draft /\ w.preview = None /\ w.shown = ui.shown
  <2>1. NewContent(Draft) \in Contents /\ NewContent(Draft).project = Draft
    BY SnapshotTypes
  <2> QED BY <1>1, <2>1, ReplacedTypes
<1>3. Commit(v, calls) /\ UNCHANGED nativeVars
  BY DEF ClearLocalDraft
<1> HIDE DEF w
<1>4. v \in UiType /\ v.session.project = Draft /\ v.preview = None /\ v.shown = ui.shown
  BY <1>2 DEF UiType
<1>5. Homed(v)
  BY <1>4, WorkstationAssumption DEF Homed
<1> HIDE DEF v
<1>6. Prepared(v) /\ Ready(calls, v)
  BY <1>4, <1>5, ClearedIsPrepared
<1> QED BY <1>3, <1>6, CommitKeepsInvariant

LEMMA CreateProjectKeeps == ASSUME IInv, CreateProject PROVE IInv'
<1>1. ui \in UiType /\ Content(ui.session) \in Contents
  BY SnapshotTypes DEF IInv, TypeOK, UiType
<1>2. Prepared(ui) /\ Ready(calls, ui)
  BY <1>1, KeptIsPrepared
<1> DEFINE c == [Call("create") EXCEPT !.content = Content(ui.session)]
<1>3. c \in CallType /\ CallFits(c)
  BY <1>1, NewCall
<1>4. c.op = "create"
  BY DEF Call
<1>5. StaysCurrent(c, ui)
  BY <1>4 DEF StaysCurrent
<1>6. Send(ui, calls, c)
  BY DEF CreateProject
<1> HIDE DEF c
<1> QED BY <1>2, <1>3, <1>5, <1>6, SentCall

LEMMA ImportMediaKeeps == ASSUME IInv, ImportMedia PROVE IInv'
<1> DEFINE v == Invalidated(ui)
<1>1. ui \in UiType
  BY DEF IInv, TypeOK
<1>2. /\ v \in UiType /\ v.session = ui.session /\ v.path = ui.path
      /\ v.preview = ui.preview /\ v.shown = None
  BY <1>1, InvalidatedTypes
<1>3. Send(v, NextGeneration(calls), Call("import"))
  BY DEF ImportMedia
<1> HIDE DEF v
<1>4. Prepared(v) /\ Ready(NextGeneration(calls), v)
  BY <1>2, KeptIsPrepared, DroppedIsReady DEF NextGeneration
<1>5. Call("import") \in CallType /\ CallFits(Call("import")) /\ Call("import").op = "import"
  BY NewCall
<1>6. StaysCurrent(Call("import"), v)
  BY <1>5 DEF StaysCurrent
<1> QED BY <1>3, <1>4, <1>5, <1>6, SentCall

LEMMA ImportSnapshotKeeps ==
    ASSUME IInv, NEW s \in SnapshotFiles, ImportSnapshot(s) PROVE IInv'
<1> DEFINE v == Replaced(ui, s, TRUE)
           c == SaveCall(s.project)
<1>1. ui \in UiType /\ s \in Contents /\ s.project \in Projects \union {Draft}
  BY SnapshotTypes DEF IInv, TypeOK, SnapshotFiles
<1>2. /\ v \in UiType /\ v.session.fromFile /\ v.preview = None /\ v.shown = ui.shown
  BY <1>1, ReplacedTypes
<1>3. (Commit(v, calls) /\ UNCHANGED nativeVars) \/ Send(v, calls, c)
  BY DEF ImportSnapshot
<1> HIDE DEF v
<1>4. Homed(v)
  BY <1>2 DEF Homed
<1>5. Prepared(v) /\ Ready(calls, v)
  BY <1>2, <1>4, ClearedIsPrepared
<1>6. c \in CallType /\ CallFits(c) /\ StaysCurrent(c, v)
  BY <1>1, SavingCall
<1> HIDE DEF c
<1> QED BY <1>3, <1>5, <1>6, SentCall, CommitKeepsInvariant

\* A start or a cancellation reads the session and changes nothing in it.
LEMMA StartOrCancelKeeps ==
    ASSUME IInv, NEW j \in Jobs, StartProxy(j) \/ CancelProxy(j) PROVE IInv'
<1> DEFINE c(op) == [Call(op) EXCEPT !.job = j]
<1>1. Prepared(ui) /\ Ready(calls, ui)
  BY KeptIsPrepared DEF IInv, TypeOK
<1>2. ASSUME NEW op \in {"start", "cancel"}, Send(ui, calls, c(op)) PROVE IInv'
  <2>1. c(op) \in CallType /\ CallFits(c(op))
    BY NewCall
  <2>2. c(op).op = op
    BY DEF Call
  <2>3. StaysCurrent(c(op), ui)
    BY <2>2 DEF StaysCurrent
  <2> HIDE DEF c
  <2> QED BY <1>1, <1>2, <2>1, <2>3, SentCall
<1>3. Send(ui, calls, c("start")) \/ Send(ui, calls, c("cancel"))
  BY DEF StartProxy, CancelProxy
<1> HIDE DEF c
<1> QED BY <1>2, <1>3

LEMMA PollKeeps == ASSUME IInv, Poll PROVE IInv'
<1> DEFINE c == [Call("poll") EXCEPT !.job = ui.monitor]
<1>1. ui.monitor \in Jobs /\ calls \in Seq(CallType)
  BY DEF IInv, TypeOK, UiType, Poll
<1>2. c \in CallType /\ CallFits(c) /\ c.op = "poll"
  <2>1. c.op = "poll"
    BY DEF Call
  <2> QED BY <1>1, <2>1, NewCall
<1>3. calls' = Append(calls, c) /\ UNCHANGED <<ui, nativeVars>>
  BY DEF Poll
<1> HIDE DEF c
<1>4. calls' \in Seq(CallType) /\ CallsOK'
  <2>1. CallIsCurrent(c, ui)
    BY <1>2 DEF CallIsCurrent
  <2>2. /\ calls' \in Seq(CallType) /\ DOMAIN calls' = 1 .. Len(calls) + 1
        /\ \A i \in 1 .. Len(calls) : calls'[i] = calls[i]
        /\ calls'[Len(calls) + 1] = c
    BY <1>1, <1>2, <1>3
  <2>3. \A i \in DOMAIN calls' : CallFits(calls'[i]) /\ CallIsCurrent(calls'[i], ui)
    BY <1>1, <1>2, <2>1, <2>2 DEF IInv, CallsOK
  <2> QED BY <1>3, <2>2, <2>3 DEF CallsOK
<1> QED BY <1>3, <1>4
        DEF IInv, TypeOK, ExportIsCurrent, ProjectIdentity, nativeVars

-----------------------------------------------------------------------------
(* The native side. *)

\* The answer r is one that a call like c may have.
Answers(c, r) ==
    /\ r \in Projects \union Jobs \union Status \union {None, Refused, "ok"}
    /\ c.op = "load" => r \in {None, Refused}
    /\ c.op = "create" => r \in Projects \union {None, Refused}
    /\ c.op = "import" => r \in Jobs \union {None, Refused}
    /\ c.op \in {"cancel", "poll"} => r \in Status \union {None, Refused}

\* Replacing a call by one that fits, and is as current as it was, keeps the calls.
LEMMA ReplacedCall ==
    ASSUME IInv, NEW i \in DOMAIN calls, NEW d \in CallType, CallFits(d), CallIsCurrent(d, ui),
           calls' = [calls EXCEPT ![i] = d], ui' = ui
    PROVE  calls' \in Seq(CallType) /\ CallsOK'
<1>1. calls \in Seq(CallType)
  BY DEF IInv, TypeOK
<1>2. /\ calls' \in Seq(CallType) /\ DOMAIN calls' = DOMAIN calls
      /\ \A k \in DOMAIN calls : calls'[k] = IF k = i THEN d ELSE calls[k]
  BY <1>1
<1>3. \A k \in DOMAIN calls' : CallFits(calls'[k]) /\ CallIsCurrent(calls'[k], ui)
  BY <1>2 DEF IInv, CallsOK
<1> QED BY <1>2, <1>3 DEF CallsOK

\* An answer keeps the types and the facts about the calls.
LEMMA AnswerKeepsCalls ==
    ASSUME IInv, NEW i \in DOMAIN calls, NEW r, Answers(calls[i], r), Answer(i, r)
    PROVE  ui' = ui /\ calls' \in Seq(CallType) /\ CallsOK'
<1> DEFINE c == calls[i]
           d == [c EXCEPT !.reply = r]
<1>1. calls \in Seq(CallType) /\ c \in CallType /\ CallFits(c) /\ CallIsCurrent(c, ui)
  BY DEF IInv, TypeOK, CallsOK
<1>2. /\ d \in CallType
      /\ d.op = c.op /\ d.live = c.live /\ d.db = c.db /\ d.content = c.content
      /\ d.job = c.job /\ d.reply = r
  BY <1>1 DEF CallType, Answers
<1>3. calls' = [calls EXCEPT ![i] = d] /\ ui' = ui
  BY DEF Answer
<1>4. Answers(c, r)
  OBVIOUS
<1> HIDE DEF c, d
<1>5. CallFits(d)
  BY <1>1, <1>2, <1>4 DEF CallFits, Answers
<1>6. CallIsCurrent(d, ui)
  BY <1>1, <1>2 DEF CallIsCurrent
<1> QED BY <1>2, <1>3, <1>5, <1>6, ReplacedCall

\* When the session stays as it was, the invariant is about the calls and the native side.
LEMMA SessionStays ==
    ASSUME IInv, ui' = ui, calls' \in Seq(CallType), CallsOK',
           doc' \in [Projects -> Projects \union {None}], created' \subseteq Projects,
           home' \in [Jobs -> Projects \union {None}], row' \in [Jobs -> Status],
           thread' \in [Jobs -> {"none", "waiting", "running"}], poisoned' \in BOOLEAN,
           \A p \in Projects : doc'[p] \in {p, None}
    PROVE  IInv'
<1>1. TypeOK'
  BY DEF IInv, TypeOK
<1>2. ExportIsCurrent' /\ ProjectIdentity'
  BY DEF IInv, ExportIsCurrent, ProjectIdentity
<1> QED BY <1>1, <1>2 DEF IInv

LEMMA ServeSaveKeeps ==
    ASSUME IInv, NEW i \in DOMAIN calls, ServeSave(i) PROVE IInv'
<1> DEFINE c == calls[i]
<1>1. c \in CallType /\ c.op \in {"save", "adopt"}
  BY DEF IInv, TypeOK, ServeSave
<1>2. Answers(c, "ok") /\ Answers(c, Refused)
  BY <1>1 DEF Answers
<1>3. \/ /\ c.content.project = c.db
         /\ doc' = [doc EXCEPT ![c.db] = c.content.project] /\ Answer(i, "ok")
      \/ Answer(i, Refused) /\ doc' = doc
  BY DEF ServeSave
<1>4. ui' = ui /\ calls' \in Seq(CallType) /\ CallsOK'
  BY <1>2, <1>3, AnswerKeepsCalls
<1>5. c.content \in Contents /\ c.content.project \in Projects \union {Draft}
      /\ c.db \in Projects \union {None}
  BY <1>1 DEF IInv, CallsOK, CallFits, CallType, Contents
<1>6. c.content.project = c.db => c.db \in Projects
  BY <1>5, WorkstationAssumption
<1>7. /\ doc' \in [Projects -> Projects \union {None}]
      /\ \A p \in Projects : doc'[p] \in {p, None}
  BY <1>3, <1>6 DEF IInv, TypeOK, ProjectIdentity
<1> QED BY <1>4, <1>7, SessionStays DEF ServeSave, IInv, TypeOK

LEMMA ServeLoadKeeps ==
    ASSUME IInv, NEW i \in DOMAIN calls, ServeLoad(i) PROVE IInv'
<1> DEFINE c == calls[i]
<1>1. c \in CallType /\ c.op = "load" /\ CallFits(c) /\ CallIsCurrent(c, ui) /\ c.db \in Projects
  BY DEF IInv, TypeOK, ServeLoad, CallsOK, CallFits
<1>2. PICK s \in Snapshots(doc[c.db]) : calls' = [calls EXCEPT ![i].reply = "ok", ![i].content = s]
  BY DEF ServeLoad
<1>3. doc[c.db] = c.db
  BY <1>1 DEF ServeLoad, IInv, ProjectIdentity
<1>4. s \in Contents /\ s.project = c.db
  BY <1>1, <1>2, <1>3, SnapshotTypes
<1> DEFINE d == [c EXCEPT !.reply = "ok", !.content = s]
<1>5. /\ d \in CallType /\ d.op = "load" /\ d.db = c.db /\ d.live = c.live /\ d.content = s
  BY <1>1, <1>4 DEF CallType
<1>6. calls' = [calls EXCEPT ![i] = d] /\ ui' = ui /\ UNCHANGED nativeVars
  <2>1. calls \in Seq(CallType)
    BY DEF IInv, TypeOK
  <2> QED BY <1>2, <2>1 DEF ServeLoad
<1> HIDE DEF c, d
<1>7. CallFits(d) /\ CallIsCurrent(d, ui)
  BY <1>1, <1>4, <1>5 DEF CallFits, CallIsCurrent
<1>8. ui' = ui /\ calls' \in Seq(CallType) /\ CallsOK'
  BY <1>5, <1>6, <1>7, ReplacedCall
<1> QED BY <1>6, <1>8, SessionStays DEF IInv, TypeOK, ProjectIdentity, nativeVars

LEMMA ServeCreateKeeps ==
    ASSUME IInv, NEW i \in DOMAIN calls, ServeCreate(i) PROVE IInv'
<1>1. PICK p \in Projects \ created : created' = created \union {p} /\ Answer(i, p)
  BY DEF ServeCreate
<1>2. Answers(calls[i], p)
  BY DEF Answers, ServeCreate
<1>3. ui' = ui /\ calls' \in Seq(CallType) /\ CallsOK'
  BY <1>1, <1>2, AnswerKeepsCalls
<1> QED BY <1>1, <1>3, SessionStays DEF ServeCreate, IInv, TypeOK, ProjectIdentity

LEMMA ServeImportKeeps ==
    ASSUME IInv, NEW i \in DOMAIN calls, ServeImport(i) PROVE IInv'
<1>1. PICK j \in Jobs : home' = [home EXCEPT ![j] = calls[i].db] /\ Answer(i, j)
  BY DEF ServeImport
<1>2. Answers(calls[i], j)
  BY DEF Answers, ServeImport
<1>3. ui' = ui /\ calls' \in Seq(CallType) /\ CallsOK'
  BY <1>1, <1>2, AnswerKeepsCalls
<1>4. calls[i].db \in Projects \union {None}
  <2>1. calls[i] \in CallType
    BY DEF IInv, TypeOK
  <2> QED BY <2>1 DEF CallType
<1>5. home' \in [Jobs -> Projects \union {None}]
  BY <1>1, <1>4 DEF IInv, TypeOK
<1> QED BY <1>3, <1>5, SessionStays DEF ServeImport, IInv, TypeOK, ProjectIdentity

LEMMA ServeStartKeeps ==
    ASSUME IInv, NEW i \in DOMAIN calls, ServeStart(i) PROVE IInv'
<1>1. Answers(calls[i], "ok") /\ Answers(calls[i], Refused)
  BY DEF Answers, ServeStart
<1>2. \/ thread' = [thread EXCEPT ![calls[i].job] = "waiting"] /\ Answer(i, "ok")
      \/ Answer(i, Refused) /\ thread' = thread
  BY DEF ServeStart
<1>3. ui' = ui /\ calls' \in Seq(CallType) /\ CallsOK'
  BY <1>1, <1>2, AnswerKeepsCalls
<1>4. thread' \in [Jobs -> {"none", "waiting", "running"}]
  BY <1>2 DEF IInv, TypeOK
<1> QED BY <1>3, <1>4, SessionStays DEF ServeStart, IInv, TypeOK, ProjectIdentity

\* The calls that change nothing but their own answer.
LEMMA ServeOtherKeeps ==
    ASSUME IInv, NEW i \in DOMAIN calls,
           ServeExport(i) \/ ServeCancel(i) \/ ServePoll(i) \/ ServeFails(i)
    PROVE  IInv'
<1>1. calls[i].op \in {"cancel", "poll"} => calls[i].job \in Jobs
  BY DEF IInv, CallsOK, CallFits
<1>2. row \in [Jobs -> Status]
  BY DEF IInv, TypeOK
<1>3. PICK r : Answers(calls[i], r) /\ Answer(i, r)
  <2>1. CASE ServeExport(i)
    BY <2>1 DEF ServeExport, Answers
  <2>2. CASE ServeCancel(i)
    BY <2>2, <1>1, <1>2 DEF ServeCancel, Answers
  <2>3. CASE ServePoll(i)
    BY <2>3, <1>1, <1>2 DEF ServePoll, Answers
  <2>4. CASE ServeFails(i)
    BY <2>4 DEF ServeFails, Answers
  <2> QED BY <2>1, <2>2, <2>3, <2>4
<1>4. ui' = ui /\ calls' \in Seq(CallType) /\ CallsOK'
  BY <1>3, AnswerKeepsCalls
<1>5. UNCHANGED nativeVars
  BY DEF ServeExport, ServeCancel, ServePoll, ServeFails
<1> QED BY <1>4, <1>5, SessionStays DEF IInv, TypeOK, ProjectIdentity, nativeVars

LEMMA ServeKeeps == ASSUME IInv, Serve PROVE IInv'
BY ServeSaveKeeps, ServeLoadKeeps, ServeCreateKeeps, ServeImportKeeps, ServeStartKeeps,
   ServeOtherKeeps DEF Serve

\* Proxy threads write rows; the session is told by its calls only.
LEMMA WorkKeeps == ASSUME IInv, NEW j \in Jobs, Work(j) PROVE IInv'
<1>1. row \in [Jobs -> Status] /\ thread \in [Jobs -> {"none", "waiting", "running"}]
      /\ poisoned \in BOOLEAN
  BY DEF IInv, TypeOK
<1>2. \A r \in Status : Recording(j, r) \subseteq [Jobs -> Status]
  BY <1>1 DEF Recording
<1>3. row' \in [Jobs -> Status] /\ thread' \in [Jobs -> {"none", "waiting", "running"}]
      /\ poisoned' \in BOOLEAN
  <2>1. CASE Claim(j)
    BY <1>1, <2>1 DEF Claim, Status
  <2>2. CASE ClaimFails(j)
    BY <1>1, <2>2 DEF ClaimFails
  <2>3. ASSUME NEW r \in Ended, End(j, r)
        PROVE  row' \in [Jobs -> Status] /\ thread' \in [Jobs -> {"none", "waiting", "running"}]
               /\ poisoned' \in BOOLEAN
    BY <1>1, <1>2, <2>3 DEF End, Status
  <2>4. CASE Panics(j)
    BY <1>1, <1>2, <2>4 DEF Panics, Status, Ended
  <2> QED BY <2>1, <2>2, <2>3, <2>4 DEF Work
<1>4. CallsOK'
  BY DEF IInv, CallsOK, Work
<1> QED BY <1>3, <1>4, SessionStays DEF IInv, TypeOK, ProjectIdentity, Work

-----------------------------------------------------------------------------
(* After the await. *)

\* The oldest call, when it is answered, and what is left of the others.
LEMMA AnsweredCall ==
    ASSUME IInv, NEW op, Answered(op)
    PROVE  /\ calls[1] \in CallType /\ calls[1].op = op /\ calls[1].reply = Reply
           /\ CallFits(calls[1]) /\ CallIsCurrent(calls[1], ui) /\ Reply # None
           /\ \A u : Ready(calls, u) => Ready(Tail(calls), u)
<1>1. calls \in Seq(CallType) /\ calls # <<>> /\ 1 \in DOMAIN calls
  BY DEF IInv, TypeOK, Answered
<1>2. \A u : Ready(calls, u) => Ready(Tail(calls), u)
  BY <1>1, TailIsReady
<1>3. calls[1] \in CallType /\ CallFits(calls[1]) /\ CallIsCurrent(calls[1], ui)
  BY <1>1 DEF IInv, CallsOK
<1> QED BY <1>2, <1>3 DEF Answered, Reply

\* A handler that ends in a prepared session.
LEMMA ResumeKeeps ==
    ASSUME IInv, NEW op, Answered(op), NEW u, Prepared(u), Ready(calls, u), Resume(u)
    PROVE  IInv'
BY AnsweredCall, CommitKeepsInvariant DEF Resume

LEMMA UiTyped == ASSUME IInv PROVE ui \in UiType /\ ui.session \in Sessions
BY DEF IInv, TypeOK, UiType

LEMMA SaveReplyKeeps == ASSUME IInv, SaveReply PROVE IInv'
BY RecordedIsPrepared, ResumeKeeps DEF SaveReply

\* A live export is of the preview, so what it shows is the preview.
LEMMA ExportReplyKeeps == ASSUME IInv, ExportReply PROVE IInv'
<1>1. Answered("export")
  BY DEF ExportReply
<1>2. calls[1] \in CallType /\ CallFits(calls[1]) /\ CallIsCurrent(calls[1], ui)
      /\ calls[1].op = "export"
  BY <1>1, AnsweredCall
<1>3. CASE Resume(ui)
  <2>1. Prepared(ui) /\ Ready(calls, ui)
    BY UiTyped, KeptIsPrepared
  <2> QED BY <1>1, <1>3, <2>1, ResumeKeeps
<1>4. CASE calls[1].live /\ Resume([ui EXCEPT !.shown = calls[1].content])
  <2> DEFINE v == [ui EXCEPT !.shown = calls[1].content]
  <2>1. calls[1].content = ui.preview /\ calls[1].content \in Contents
    BY <1>2, <1>4 DEF CallIsCurrent, CallFits
  <2>2. /\ v \in UiType /\ v.session = ui.session /\ v.path = ui.path
        /\ v.preview = ui.preview /\ v.shown = ui.preview
    BY <2>1, UiTyped DEF UiType
  <2> HIDE DEF v
  <2>3. Prepared(v)
    BY <2>2 DEF Prepared, Homed, IInv, ProjectIdentity, ExportIsCurrent
  <2>4. Ready(calls, v)
    BY <2>2, CallsAreReady DEF IInv
  <2> QED BY <1>1, <1>4, <2>3, <2>4, ResumeKeeps DEF v
<1> QED BY <1>3, <1>4 DEF ExportReply

LEMMA CreateReplyKeeps == ASSUME IInv, CreateReply PROVE IInv'
<1> DEFINE c == calls[1]
           adopt == [c EXCEPT !.op = "adopt", !.db = Reply, !.project = Reply,
                              !.content.project = Reply, !.reply = None]
           rest == NextGeneration(Tail(calls))
           w == Recorded(ui)
           v == Invalidated(w)
<1>1. Answered("create")
  BY DEF CreateReply
<1>2. /\ c \in CallType /\ CallFits(c) /\ c.op = "create" /\ c.reply = Reply /\ Reply # None
      /\ \A u : Ready(calls, u) => Ready(Tail(calls), u)
  BY <1>1, AnsweredCall
<1>3. c.content \in Contents /\ Reply \in Projects \union {Refused}
  BY <1>2 DEF CallFits
<1>4. w \in UiType /\ w.session = ui.session /\ w.path = ui.path /\ w.preview = None
  BY RecordedIsPrepared
<1> HIDE DEF w
<1>5. /\ v \in UiType /\ v.session = ui.session /\ v.path = ui.path /\ v.preview = None
      /\ v.shown = None
  BY <1>4, InvalidatedTypes
<1> HIDE DEF v
<1>6. Homed(v)
  BY <1>5 DEF Homed, IInv, ProjectIdentity
<1>7. Prepared(v) /\ Ready(calls, v)
  BY <1>5, <1>6, ClearedIsPrepared
<1>8. Ready(rest, v)
  BY <1>2, <1>7, DroppedIsReady DEF NextGeneration
<1>9. ASSUME Reply \in Projects
      PROVE  adopt \in CallType /\ CallFits(adopt) /\ StaysCurrent(adopt, v)
  <2>1. c.content.project \in Projects \union {Draft}
    BY <1>3 DEF Contents
  <2>2. [c.content EXCEPT !.project = Reply] \in Contents
        /\ [c.content EXCEPT !.project = Reply].project = Reply
    BY <1>3, <1>9 DEF Contents
  <2>3. adopt = [c EXCEPT !.op = "adopt", !.db = Reply, !.project = Reply,
                          !.content = [c.content EXCEPT !.project = Reply], !.reply = None]
    BY <1>2 DEF CallType
  <2> HIDE DEF adopt, c
  <2>4. /\ adopt \in CallType /\ adopt.op = "adopt" /\ adopt.db = Reply
        /\ adopt.content = [c.content EXCEPT !.project = Reply]
    BY <1>2, <1>9, <2>2, <2>3 DEF CallType
  <2>5. CallFits(adopt)
    BY <1>9, <2>2, <2>4 DEF CallFits
  <2>6. StaysCurrent(adopt, v)
    BY <2>4 DEF StaysCurrent
  <2> QED BY <2>4, <2>5, <2>6
<1>10. /\ Commit(v, IF Reply = Refused THEN rest ELSE Append(rest, adopt))
       /\ UNCHANGED nativeVars
  BY DEF CreateReply, v, w
<1> HIDE DEF adopt, rest
<1>11. Ready(IF Reply = Refused THEN rest ELSE Append(rest, adopt), v)
  BY <1>3, <1>8, <1>9, AppendIsReady
<1> QED BY <1>7, <1>10, <1>11, CommitKeepsInvariant

LEMMA AdoptReplyKeeps == ASSUME IInv, AdoptReply PROVE IInv'
<1> DEFINE c == calls[1]
           w == Replaced(ui, c.content, FALSE)
           v == [w EXCEPT !.path = c.db]
<1>1. Answered("adopt")
  BY DEF AdoptReply
<1>2. c \in CallType /\ CallFits(c) /\ c.op = "adopt"
  BY <1>1, AnsweredCall
<1>3. c.db \in Projects /\ c.content \in Contents /\ c.content.project = c.db
  BY <1>2 DEF CallFits
<1>4. CASE Resume(Recorded(ui))
  BY <1>1, <1>4, RecordedIsPrepared, ResumeKeeps
<1>5. CASE Resume(v)
  <2>1. /\ w \in UiType /\ w.session.project = c.db /\ w.preview = None /\ w.shown = ui.shown
    BY <1>3, UiTyped, ReplacedTypes
  <2> HIDE DEF w, c
  <2>2. /\ v \in UiType /\ v.session.project = v.path /\ v.preview = None /\ v.shown = ui.shown
    BY <1>3, <2>1 DEF UiType
  <2> HIDE DEF v
  <2>3. Homed(v)
    BY <2>2 DEF Homed
  <2>4. Prepared(v) /\ Ready(calls, v)
    BY <2>2, <2>3, ClearedIsPrepared
  <2> QED BY <1>1, <1>5, <2>4, ResumeKeeps
<1> QED BY <1>4, <1>5 DEF AdoptReply

\* A job of the session gets another status.
LEMMA MarkedTypes ==
    ASSUME NEW s \in Sessions, NEW j \in Jobs, NEW r \in Status \union {None}
    PROVE  LET t == [s EXCEPT !.jobs[j] = r] IN
           t \in Sessions /\ t.project = s.project /\ t.fromFile = s.fromFile
BY DEF Sessions

LEMMA ImportReplyKeeps == ASSUME IInv, ImportReply PROVE IInv'
<1> DEFINE s == [ui.session EXCEPT !.jobs[Reply] = "queued"]
           v == Dispatched(ui, s)
           w == Recorded(ui)
           x == Invalidated(w)
<1>1. Answered("import")
  BY DEF ImportReply
<1>2. /\ Reply \in Jobs \union {Refused}
      /\ \A u : Ready(calls, u) => Ready(Tail(calls), u)
  BY <1>1, AnsweredCall DEF CallFits
<1>3. CASE Commit(x, NextGeneration(Tail(calls))) /\ UNCHANGED nativeVars
  <2>1. w \in UiType /\ w.session = ui.session /\ w.path = ui.path /\ w.preview = None
    BY RecordedIsPrepared
  <2> HIDE DEF w
  <2>2. /\ x \in UiType /\ x.session = ui.session /\ x.path = ui.path /\ x.preview = None
        /\ x.shown = None
    BY <2>1, InvalidatedTypes
  <2> HIDE DEF x
  <2>3. Homed(x)
    BY <2>2 DEF Homed, IInv, ProjectIdentity
  <2>4. Prepared(x) /\ Ready(calls, x)
    BY <2>2, <2>3, ClearedIsPrepared
  <2>5. Ready(NextGeneration(Tail(calls)), x)
    BY <1>2, <2>4, DroppedIsReady DEF NextGeneration
  <2> QED BY <1>3, <2>4, <2>5, CommitKeepsInvariant
<1>4. CASE Reply # Refused /\ Resume(v)
  <2>1. Reply \in Jobs
    BY <1>2, <1>4
  <2>2. "queued" \in Status \union {None}
    BY DEF Status
  <2>3. s \in Sessions /\ s.project = ui.session.project /\ s.fromFile = ui.session.fromFile
    BY <2>1, <2>2, UiTyped, MarkedTypes
  <2> HIDE DEF s
  <2>4. /\ v \in UiType /\ v.session = s /\ v.path = ui.path /\ v.preview = None
        /\ v.shown = ui.shown
    BY <2>3, UiTyped, DispatchedTypes
  <2> HIDE DEF v
  <2>5. Homed(v)
    BY <2>3, <2>4 DEF Homed, IInv, ProjectIdentity
  <2>6. Prepared(v) /\ Ready(calls, v)
    BY <2>4, <2>5, ClearedIsPrepared
  <2> QED BY <1>1, <1>4, <2>6, ResumeKeeps
<1> QED BY <1>3, <1>4 DEF ImportReply

LEMMA StartReplyKeeps == ASSUME IInv, StartReply PROVE IInv'
<1> DEFINE w == Recorded(ui)
           v == [w EXCEPT !.monitor = calls[1].job]
<1>1. Answered("start")
  BY DEF StartReply
<1>2. /\ calls[1].job \in Jobs
      /\ \A u : Ready(calls, u) => Ready(Tail(calls), u)
  BY <1>1, AnsweredCall DEF CallFits
<1>3. CASE Resume(Recorded(ui))
  BY <1>1, <1>3, RecordedIsPrepared, ResumeKeeps
<1>4. CASE Commit(v, Dropped(Tail(calls), "poll")) /\ UNCHANGED nativeVars
  <2>1. /\ w \in UiType /\ w.session = ui.session /\ w.path = ui.path /\ w.preview = None
        /\ w.shown = ui.shown
    BY RecordedIsPrepared
  <2> HIDE DEF w
  <2>2. /\ v \in UiType /\ v.session = ui.session /\ v.path = ui.path /\ v.preview = None
        /\ v.shown = ui.shown
    BY <1>2, <2>1 DEF UiType
  <2> HIDE DEF v
  <2>3. Homed(v)
    BY <2>2 DEF Homed, IInv, ProjectIdentity
  <2>4. Prepared(v) /\ Ready(calls, v)
    BY <2>2, <2>3, ClearedIsPrepared
  <2>5. Ready(Dropped(Tail(calls), "poll"), v)
    BY <1>2, <2>4, DroppedIsReady
  <2> QED BY <1>4, <2>4, <2>5, CommitKeepsInvariant
<1> QED BY <1>3, <1>4 DEF StartReply

\* A reconciled job, and the end of its monitor, leave a prepared session.
LEMMA ReconciledIsPrepared ==
    ASSUME IInv, NEW j \in Jobs, NEW r \in Status
    PROVE  LET v == Settled(Reconciled(ui, j, r), r) IN Prepared(v) /\ Ready(calls, v)
<1> DEFINE r1 == IF ui.session.jobs[j] = None THEN None ELSE r
           s == [ui.session EXCEPT !.jobs[j] = r1]
           w == Dispatched(ui, s)
           v == Settled(w, r)
<1>1. Reconciled(ui, j, r) = w
  BY UiTyped DEF Reconciled, Sessions
<1>2. s \in Sessions /\ s.project = ui.session.project /\ s.fromFile = ui.session.fromFile
  <2>1. r1 \in Status \union {None}
    OBVIOUS
  <2> HIDE DEF r1
  <2> QED BY <2>1, UiTyped, MarkedTypes
<1> HIDE DEF s
<1>3. /\ w \in UiType /\ w.session = s /\ w.path = ui.path /\ w.preview = None
      /\ w.shown = ui.shown
  BY <1>2, UiTyped, DispatchedTypes
<1> HIDE DEF w
<1>4. /\ v \in UiType /\ v.session = s /\ v.path = ui.path /\ v.preview = None
      /\ v.shown = ui.shown
  BY <1>3 DEF Settled, UiType
<1> HIDE DEF v
<1>5. Homed(v)
  BY <1>2, <1>4 DEF Homed, IInv, ProjectIdentity
<1>6. Prepared(v) /\ Ready(calls, v)
  BY <1>4, <1>5, ClearedIsPrepared
<1>7. v = Settled(Reconciled(ui, j, r), r)
  BY <1>1 DEF v
<1> QED BY <1>6, <1>7

LEMMA CancelReplyKeeps == ASSUME IInv, CancelReply PROVE IInv'
<1>1. Answered("cancel")
  BY DEF CancelReply
<1>2. calls[1].job \in Jobs /\ Reply \in Status \union {Refused}
  BY <1>1, AnsweredCall DEF CallFits
<1>3. CASE Resume(ui)
  <2>1. Prepared(ui) /\ Ready(calls, ui)
    BY UiTyped, KeptIsPrepared
  <2> QED BY <1>1, <1>3, <2>1, ResumeKeeps
<1>4. CASE Reply # Refused /\ Resume(Settled(Reconciled(ui, calls[1].job, Reply), Reply))
  <2>1. Reply \in Status
    BY <1>2, <1>4
  <2> QED BY <1>1, <1>2, <1>4, <2>1, ReconciledIsPrepared, ResumeKeeps
<1> QED BY <1>3, <1>4 DEF CancelReply

LEMMA PollReplyKeeps == ASSUME IInv, PollReply PROVE IInv'
<1> DEFINE v == [ui EXCEPT !.monitor = None]
<1>1. Answered("poll")
  BY DEF PollReply
<1>2. calls[1].job \in Jobs /\ Reply \in Status \union {Refused}
  BY <1>1, AnsweredCall DEF CallFits
<1>3. CASE Resume(ui)
  <2>1. Prepared(ui) /\ Ready(calls, ui)
    BY UiTyped, KeptIsPrepared
  <2> QED BY <1>1, <1>3, <2>1, ResumeKeeps
<1>4. CASE Resume(v)
  <2>1. /\ v \in UiType /\ v.session = ui.session /\ v.path = ui.path
        /\ v.preview = ui.preview /\ v.shown = ui.shown
    BY UiTyped DEF UiType
  <2> HIDE DEF v
  <2>2. Prepared(v) /\ Ready(calls, v)
    BY <2>1, KeptIsPrepared
  <2> QED BY <1>1, <1>4, <2>2, ResumeKeeps
<1>5. CASE Reply # Refused /\ Resume(Settled(Reconciled(ui, calls[1].job, Reply), Reply))
  <2>1. Reply \in Status
    BY <1>2, <1>5
  <2> QED BY <1>1, <1>2, <1>5, <2>1, ReconciledIsPrepared, ResumeKeeps
<1> QED BY <1>3, <1>4, <1>5 DEF PollReply

\* A live load is for the database that is open, and brings that database's project.
LEMMA LoadReplyKeeps == ASSUME IInv, LoadReply PROVE IInv'
<1> DEFINE c == calls[1]
           w == Replaced(ui, c.content, FALSE)
           v == Recorded(w)
<1>1. Answered("load")
  BY DEF LoadReply
<1>2. CallFits(c) /\ CallIsCurrent(c, ui) /\ c.op = "load" /\ c.reply = Reply /\ Reply # None
  BY <1>1, AnsweredCall
<1>3. CASE Resume(ui)
  <2>1. Prepared(ui) /\ Ready(calls, ui)
    BY UiTyped, KeptIsPrepared
  <2> QED BY <1>1, <1>3, <2>1, ResumeKeeps
<1>4. CASE Resume(Recorded(ui))
  BY <1>1, <1>4, RecordedIsPrepared, ResumeKeeps
<1>5. CASE c.live /\ Reply # Refused /\ Resume(v)
  <2>1. c.content \in Contents /\ c.content.project = c.db /\ c.db = ui.path
    BY <1>2, <1>5 DEF CallFits, CallIsCurrent
  <2> HIDE DEF c
  <2>2. /\ w \in UiType /\ w.session.project = ui.path /\ w.path = ui.path
        /\ w.preview = None /\ w.shown = ui.shown
    BY <2>1, UiTyped, ReplacedTypes
  <2> HIDE DEF w
  <2>3. w.session \in Sessions
    BY <2>2 DEF UiType
  <2>4. /\ v \in UiType /\ v.session.project = v.path /\ v.preview = None /\ v.shown = ui.shown
    BY <2>2, <2>3, DispatchedTypes DEF Recorded
  <2> HIDE DEF v
  <2>5. Homed(v)
    BY <2>4 DEF Homed
  <2>6. Prepared(v) /\ Ready(calls, v)
    BY <2>4, <2>5, ClearedIsPrepared
  <2> QED BY <1>1, <1>5, <2>6, ResumeKeeps
<1> QED BY <1>3, <1>4, <1>5 DEF LoadReply

-----------------------------------------------------------------------------
(* The invariant. *)

LEMMA InitEstablishes == Init => IInv
<1> SUFFICES ASSUME Init PROVE IInv
  OBVIOUS
<1>1. PICK last \in Known \union {None} :
        \E c \in {NewContent(Draft)} \union (IF last = None THEN {} ELSE Snapshots(last)) :
        /\ ui = [session |-> Session(c, FALSE), path |-> last, monitor |-> None,
                 preview |-> None, shown |-> None]
        /\ calls = IF last = None THEN <<>> ELSE
                   << [op |-> "load", live |-> TRUE, db |-> last, project |-> last,
                       job |-> None, content |-> None, reply |-> None] >>
  BY DEF Init
<1>2. PICK c \in {NewContent(Draft)} \union (IF last = None THEN {} ELSE Snapshots(last)) :
        ui = [session |-> Session(c, FALSE), path |-> last, monitor |-> None,
              preview |-> None, shown |-> None]
  BY <1>1
<1>3. last \in Projects \union {None} /\ Draft \notin Projects
  BY <1>1, WorkstationAssumption
<1> DEFINE p == c.project
<1>4. c \in Contents /\ p \in Projects \union {Draft} /\ (p = last \/ p = Draft)
  BY <1>2, <1>3, SnapshotTypes
<1>5. Session(c, FALSE) \in Sessions /\ Session(c, FALSE).project = p
  BY <1>4, SnapshotTypes
<1> HIDE DEF p
<1>6. /\ ui \in UiType /\ ui.preview = None /\ ui.shown = None /\ ui.path = last
      /\ ui.session.project = p
  BY <1>2, <1>3, <1>5 DEF UiType
<1>7. calls \in Seq(CallType) /\ CallsOK
  <2>1. CASE calls = <<>>
    BY <2>1 DEF CallsOK
  <2>2. CASE last # None
    <3> DEFINE d == [op |-> "load", live |-> TRUE, db |-> last, project |-> last,
                     job |-> None, content |-> None, reply |-> None]
    <3>1. calls = <<d>>
      BY <1>1, <2>2
    <3>2. d \in CallType
      BY <1>3, <2>2 DEF CallType
    <3>3. CallFits(d) /\ CallIsCurrent(d, ui)
      BY <1>3, <1>6, <2>2 DEF CallFits, CallIsCurrent
    <3> HIDE DEF d
    <3> QED BY <3>1, <3>2, <3>3 DEF CallsOK
  <2> QED BY <1>1, <2>1, <2>2
<1>8. TypeOK
  <2>1. /\ doc \in [Projects -> Projects \union {None}] /\ created \subseteq Projects
        /\ home \in [Jobs -> Projects \union {None}] /\ row \in [Jobs -> Status]
    BY WorkstationAssumption DEF Init
  <2> QED BY <1>6, <1>7, <2>1 DEF TypeOK, Init
<1>9. ExportIsCurrent
  BY <1>6 DEF ExportIsCurrent
<1>10. ProjectIdentity
  BY <1>3, <1>4, <1>6 DEF ProjectIdentity, Init
<1> QED BY <1>7, <1>8, <1>9, <1>10 DEF IInv

LEMMA NextKeeps == IInv /\ [Next]_vars => IInv'
<1> SUFFICES ASSUME IInv, [Next]_vars PROVE IInv'
  OBVIOUS
<1>1. ASSUME NEW t \in Texts, Edit(t) PROVE IInv'
  BY <1>1, EditKeeps
<1>2. CASE SaveDraft
  BY <1>2, SaveDraftKeeps
<1>3. CASE ExportPacket
  BY <1>3, ExportPacketKeeps
<1>4. CASE ClearLocalDraft
  BY <1>4, ClearLocalDraftKeeps
<1>5. CASE CreateProject
  BY <1>5, CreateProjectKeeps
<1>6. CASE ImportMedia
  BY <1>6, ImportMediaKeeps
<1>7. ASSUME NEW c \in SnapshotFiles, ImportSnapshot(c) PROVE IInv'
  BY <1>7, ImportSnapshotKeeps
<1>8. ASSUME NEW j \in Jobs, StartProxy(j) \/ CancelProxy(j) \/ Work(j) PROVE IInv'
  BY <1>8, StartOrCancelKeeps, WorkKeeps
<1>9. CASE Poll
  BY <1>9, PollKeeps
<1>10. CASE Serve
  BY <1>10, ServeKeeps
<1>11. CASE Replies
  BY <1>11, SaveReplyKeeps, ExportReplyKeeps, CreateReplyKeeps, AdoptReplyKeeps,
     ImportReplyKeeps, StartReplyKeeps, CancelReplyKeeps, PollReplyKeeps, LoadReplyKeeps
     DEF Replies
<1>12. CASE UNCHANGED vars
  BY <1>12 DEF vars, nativeVars, IInv, TypeOK, CallsOK, ExportIsCurrent, ProjectIdentity
<1> QED BY <1>1, <1>2, <1>3, <1>4, <1>5, <1>6, <1>7, <1>8, <1>9, <1>10, <1>11, <1>12
        DEF Next

LEMMA Inductive == Spec => []IInv
BY InitEstablishes, NextKeeps, PTL DEF Spec

\* The state of the session, the calls in flight and the native state keep their types:
\* what a handler reads after its await from the call it made is what it needs
\* (App.tsx, the handlers and effects).
THEOREM TypeCorrect == Spec => []TypeOK
<1>1. IInv => TypeOK
  BY DEF IInv
<1> QED BY <1>1, Inductive, PTL

\* For any number of projects, jobs, edits and overlapping calls, a native export is shown
\* only beside the preview it was made from, and the preview is of the session as it is: the
\* generation of App.tsx:278-283 and 784 and withInvalidatedExport leave no way round them.
THEOREM ShownExportIsCurrent == Spec => []ExportIsCurrent
<1>1. IInv => ExportIsCurrent
  BY DEF IInv
<1> QED BY <1>1, Inductive, PTL

\* For any number of projects and overlapping calls, a session of a native project that was
\* not read from a file has its own database open, and no database holds a snapshot of
\* another project (App.tsx:388, 862-886, save_project_snapshot).
THEOREM ProjectsKeepTheirDatabases == Spec => []ProjectIdentity
<1>1. IInv => ProjectIdentity
  BY DEF IInv
<1> QED BY <1>1, Inductive, PTL

=============================================================================
