----------------------------- MODULE Workstation -----------------------------
(***************************************************************************)
(* The open review session of the frontend (App.tsx, workstationState.ts)  *)
(* beside the native project it works on: what the reviewer edits, the     *)
(* handlers that await a native command, the effects that poll a proxy job *)
(* and load the last project, and the evidence export that is shown.       *)
(*                                                                         *)
(* A handler runs in one step up to its await and in one step after it;    *)
(* the render and the effects of its dispatches belong to that step.  What *)
(* it read before the await it uses after it.  The commands are            *)
(* synchronous: the main thread answers them one by one, and the answers   *)
(* arrive in that order.                                                   *)
(***************************************************************************)
EXTENDS Naturals, Sequences

CONSTANTS
    Projects,   \* identities of native projects; a database is named by its project
    Known,      \* the projects that exist before the launch
    Earlier,    \* the jobs that earlier launches may have left in their databases
    Jobs,       \* proxy jobs, one per imported media asset
    Texts,      \* what all the edited fields may hold together
    Blank,      \* what they hold in a new session
    Draft,      \* the identity of a session that has no native project
    None,
    Refused,    \* the answer of a command that failed
    Saved,      \* bound: what those fields hold in snapshots of earlier launches and in files
    Outdated,   \* bound: the statuses a job may have in a snapshot, besides the one of its row
    MaxCalls,   \* bound: a handler calls a command when fewer than these await an answer
    Uses,       \* what the reviewer does beyond importing media and starting jobs
    Failing     \* "load", "poll": the command fails, because a database cannot be read;
                \* "record": a thread cannot claim its row or record its end; "panic"

ASSUME WorkstationAssumption ==
    /\ Blank \in Texts
    /\ Saved \subseteq Texts
    /\ Outdated \subseteq {"queued", "running", "failed"}
    /\ Known \subseteq Projects
    /\ Earlier \subseteq Jobs
    /\ Draft \notin Projects
    /\ None \notin Projects \union Jobs \union {Draft, Refused}
    /\ MaxCalls \in Nat
    /\ Uses \subseteq {"edit", "save", "export", "clear", "create", "snapshot", "cancel"}

VARIABLES
    ui,         \* the state of the App component: the workstation reducer's session and
                \* preview (latestPacket and latestProjectSnapshot), activeNativeSqlitePath,
                \* activeProxyJob and latestNativeExport
    calls,      \* the awaited commands, oldest first; one that is no longer live was
                \* overtaken: its effect was cleaned up, or the export generation moved on
    \* the native side
    doc,        \* the project named in the snapshot that a database holds, None when it
                \* holds none
    created,    \* projects whose directory and database exist
    home,       \* the database that has the row of a job
    row,        \* its status
    thread,     \* its thread: "none", "waiting" for the execution mutex, "running"
    poisoned    \* whether a thread panicked while it held that mutex

nativeVars == <<doc, created, home, row, thread, poisoned>>
vars == <<ui, calls, nativeVars>>

\* "failed" stands for blocked and cancelled as well: they end a job, which may be
\* started again
Ended == {"complete", "failed"}
Restartable == {"queued", "failed"}
Status == Ended \union {"queued", "running"}

\* createProjectSnapshot: what a snapshot of a session holds
Content(s) == [project |-> s.project, text |-> s.text, jobs |-> s.jobs]
Contents == [project : Projects \union {Draft}, text : Texts,
             jobs : [Jobs -> Status \union {None}]]

\* stateFromSnapshot; fromFile remembers that the snapshot was an imported file
Session(c, file) == [project |-> c.project, text |-> c.text, jobs |-> c.jobs, fromFile |-> file]
NewContent(p) == [project |-> p, text |-> Blank, jobs |-> [j \in Jobs |-> None]]

\* what a snapshot says of a job whose row is r: it was saved at any time since the import
Past(r) == {r} \union (IF r = "queued" THEN {} ELSE Outdated)

\* what snapshots may hold: nothing reconciles the statuses in them with the rows
Snapshots(p) ==
    {c \in [project : {p}, text : Saved, jobs : [Jobs -> Status \union {None}]] :
        \A j \in Jobs : c.jobs[j] = None \/ (home[j] = p /\ c.jobs[j] \in Past(row[j]))}

----------------------------------------------------------------------------
(* What a handler leaves behind: u is the new state of App, cs the calls.  *)

\* what the polling effect depends on
Watched(u) == <<u.path, u.monitor, u.session.project>>

\* the effects that run when a dispatch has cleared the preview
PreviewCleared(u) == u.preview = None /\ ui.preview # None

\* mutant: a load is not cancelled when its project is left
LoadSurvives(c, u) ==
    \/ c.op = "poll" /\ Watched(u) # Watched(ui)
    \/ c.op = "export" /\ PreviewCleared(u)

\* mutant: a dispatch that clears the preview does not begin a new export generation
ExportSurvives(c, u) ==
    \/ c.op = "poll" /\ Watched(u) # Watched(ui)
    \/ c.op = "load" /\ u.path # ui.path

\* the clean-up of an effect whose dependencies changed, and a new export generation
Overtaken(c, u) ==
    \/ c.op = "poll" /\ Watched(u) # Watched(ui)
    \/ c.op = "load" /\ u.path # ui.path
    \/ c.op = "export" /\ PreviewCleared(u)

Commit(u, cs) ==
    /\ ui' = [u EXCEPT !.shown = IF PreviewCleared(u) THEN None ELSE @]
    /\ calls' = [i \in DOMAIN cs |-> [cs[i] EXCEPT !.live = @ /\ ~Overtaken(cs[i], u)]]

\* withInvalidatedExport
Dispatched(u, s) == [u EXCEPT !.session = s, !.preview = None]

\* record_native_attempt: the attempts are not modelled, that the export is invalid is
Recorded(u) == Dispatched(u, u.session)

\* replace_project
Replaced(u, c, file) == Dispatched([u EXCEPT !.monitor = None], Session(c, file))

\* invalidateLatestExport
Invalidated(u) == [u EXCEPT !.shown = None]
Dropped(cs, op) == [i \in DOMAIN cs |-> [cs[i] EXCEPT !.live = @ /\ cs[i].op # op]]
NextGeneration(cs) == Dropped(cs, "export")

Call(op) == [op |-> op, live |-> TRUE, db |-> ui.path, project |-> ui.session.project,
             job |-> None, content |-> None, reply |-> None]

\* Of a snapshot that is saved the rest of its content is not looked at; what a load
\* brings back is any of Snapshots.
SaveCall(project) == [Call("save") EXCEPT !.content = NewContent(project)]

\* the effects call whatever the handlers await
Awaited == SelectSeq(calls, LAMBDA c : c.op \notin {"poll", "load"})
MayCall == Len(Awaited) < MaxCalls
Send(u, cs, c) == /\ MayCall
                  /\ Commit(u, Append(cs, c))
                  /\ UNCHANGED nativeVars

----------------------------------------------------------------------------
\* A launch: nothing was kept, or the last project is being loaded while the session
\* shows the browser's snapshot of it or an empty draft.  A row of an earlier launch is
\* as that launch left it: one that was running when it crashed says so still.
Init ==
    /\ home \in [Jobs -> Known \union {None}]
    /\ \A j \in Jobs \ Earlier : home[j] = None
    /\ row \in [Jobs -> Status]
    /\ \A j \in Jobs : home[j] = None => row[j] = "queued"
    /\ thread = [j \in Jobs |-> "none"]
    /\ poisoned = FALSE
    /\ created = Known
    /\ doc = [p \in Projects |-> IF p \in Known THEN p ELSE None]
    /\ \E last \in Known \union {None} :
        \E c \in {NewContent(Draft)} \union (IF last = None THEN {} ELSE Snapshots(last)) :
        /\ ui = [session |-> Session(c, FALSE), path |-> last, monitor |-> None,
                 preview |-> None, shown |-> None]
        /\ calls = IF last = None THEN <<>> ELSE
                   << [op |-> "load", live |-> TRUE, db |-> last, project |-> last,
                       job |-> None, content |-> None, reply |-> None] >>

----------------------------------------------------------------------------
(* The reviewer: what happens up to the await.                             *)

\* an edit of the incident, the timeline, a slot or a review
Edit(t) ==
    /\ "edit" \in Uses
    /\ Commit(Invalidated(Dispatched(ui, [ui.session EXCEPT !.text = t])), NextGeneration(calls))
    /\ UNCHANGED nativeVars

SaveDraft ==
    /\ "save" \in Uses
    /\ ui.path # None
    /\ Send(ui, calls, SaveCall(ui.session.project))

\* Without a native project the preview is all there is; with one the export is awaited.
ExportPacket ==
    /\ "export" \in Uses
    /\ LET u == [Invalidated(ui) EXCEPT !.preview = Content(ui.session)] IN
        IF ui.path = None
        THEN Commit(u, NextGeneration(calls)) /\ UNCHANGED nativeVars
        ELSE Send(u, NextGeneration(calls),
                  [Call("export") EXCEPT !.content = Content(ui.session)])

ClearLocalDraft ==
    /\ "clear" \in Uses
    /\ Commit([Replaced(ui, NewContent(Draft), FALSE) EXCEPT !.path = None], calls)
    /\ UNCHANGED nativeVars

CreateProject ==
    /\ "create" \in Uses
    /\ Send(ui, calls, [Call("create") EXCEPT !.content = Content(ui.session)])

\* The export is invalidated before the await.
ImportMedia ==
    /\ ui.path # None
    /\ Send(Invalidated(ui), NextGeneration(calls), Call("import"))

\* A snapshot file: one that was saved from a native project, or from a draft.
SnapshotFiles ==
    UNION {Snapshots(p) : p \in created \union {Draft}}

ImportSnapshot(c) ==
    /\ "snapshot" \in Uses
    /\ IF ui.path = None
       THEN Commit(Replaced(ui, c, TRUE), calls) /\ UNCHANGED nativeVars
       ELSE Send(Replaced(ui, c, TRUE), calls, SaveCall(c.project))

StartProxy(j) ==
    /\ ui.path # None
    /\ ui.session.jobs[j] \in Restartable
    /\ Send(ui, calls, [Call("start") EXCEPT !.job = j])

CancelProxy(j) ==
    /\ "cancel" \in Uses
    /\ ui.path # None
    /\ ui.session.jobs[j] = "running"
    /\ Send(ui, calls, [Call("cancel") EXCEPT !.job = j])

\* The polling effect: at once when it starts, then on its timer.
Poll ==
    /\ None \notin {ui.monitor, ui.path}
    /\ \A i \in DOMAIN calls : ~(calls[i].op = "poll" /\ calls[i].live)
    /\ calls' = Append(calls, [Call("poll") EXCEPT !.job = ui.monitor])
    /\ UNCHANGED <<ui, nativeVars>>

----------------------------------------------------------------------------
(* The main thread answers the oldest call that waits.                     *)

Oldest(i) == calls[i].reply = None /\ \A k \in 1 .. i - 1 : calls[k].reply # None
Answer(i, r) == /\ calls' = [calls EXCEPT ![i].reply = r]
                /\ UNCHANGED ui

\* verify_project_identity, and the row of the job
Own(c) == c.project = c.db
HasJob(c) == Own(c) /\ home[c.job] = c.db

\* A database takes the snapshots of its own project only.
ServeSave(i) ==
    LET c == calls[i] IN
    /\ c.op \in {"save", "adopt"}
    /\ IF c.content.project = c.db
       THEN doc' = [doc EXCEPT ![c.db] = c.content.project] /\ Answer(i, "ok")
       ELSE Answer(i, Refused) /\ UNCHANGED doc
    /\ UNCHANGED <<created, home, row, thread, poisoned>>

ServeLoad(i) ==
    LET c == calls[i] IN
    /\ c.op = "load"
    /\ doc[c.db] # None
    /\ \E s \in Snapshots(doc[c.db]) :
        calls' = [calls EXCEPT ![i].reply = "ok", ![i].content = s]
    /\ UNCHANGED <<ui, nativeVars>>

ServeCreate(i) ==
    /\ calls[i].op = "create"
    /\ \E p \in Projects \ created :
        /\ created' = created \union {p}
        /\ Answer(i, p)
    /\ UNCHANGED <<doc, home, row, thread, poisoned>>

ServeExport(i) ==
    /\ calls[i].op = "export"
    /\ Answer(i, IF Own(calls[i]) THEN "ok" ELSE Refused)
    /\ UNCHANGED nativeVars

ServeImport(i) ==
    LET c == calls[i] IN
    /\ c.op = "import"
    /\ Own(c)
    /\ \E j \in Jobs :
        /\ home[j] = None
        /\ home' = [home EXCEPT ![j] = c.db]
        /\ Answer(i, j)
    /\ UNCHANGED <<doc, created, row, thread, poisoned>>

ServeStart(i) ==
    LET c == calls[i] IN
    /\ c.op = "start"
    /\ IF HasJob(c) /\ thread[c.job] = "none"
       THEN thread' = [thread EXCEPT ![c.job] = "waiting"] /\ Answer(i, "ok")
       ELSE Answer(i, Refused) /\ UNCHANGED thread
    /\ UNCHANGED <<doc, created, home, row, poisoned>>

\* A thread that is told to cancel may end its job as failed, as it may without.
ServeCancel(i) ==
    LET c == calls[i] IN
    /\ c.op = "cancel"
    /\ Answer(i, IF thread[c.job] # "none" /\ HasJob(c) THEN row[c.job] ELSE Refused)
    /\ UNCHANGED nativeVars

ServePoll(i) ==
    /\ calls[i].op = "poll"
    /\ Answer(i, IF HasJob(calls[i]) THEN row[calls[i].job] ELSE Refused)
    /\ UNCHANGED nativeVars

\* A creation or an import may also name a directory or a file that is not there.
ServeFails(i) ==
    /\ calls[i].op \in Failing \union {"create", "import"}
    /\ Answer(i, Refused)
    /\ UNCHANGED nativeVars

Serve == \E i \in DOMAIN calls :
    /\ Oldest(i)
    /\ \/ ServeSave(i) \/ ServeLoad(i) \/ ServeCreate(i) \/ ServeExport(i) \/ ServeImport(i)
       \/ ServeStart(i) \/ ServeCancel(i) \/ ServePoll(i) \/ ServeFails(i)

----------------------------------------------------------------------------
(* Proxy threads, one at a time; ProxyJobs has the detail.                 *)

MutexIsFree == \A k \in Jobs : thread[k] # "running"

\* The thread gets the mutex and claims the row.
Claim(j) ==
    /\ thread[j] = "waiting"
    /\ MutexIsFree /\ ~poisoned
    /\ row[j] \in Restartable
    /\ thread' = [thread EXCEPT ![j] = "running"]
    /\ row' = [row EXCEPT ![j] = "running"]
    /\ UNCHANGED poisoned

\* A poisoned mutex, a row that claim_proxy_job refuses or a database that cannot be
\* written ends the thread and leaves the row as it is.
ClaimFails(j) ==
    /\ thread[j] = "waiting"
    /\ MutexIsFree
    /\ poisoned \/ row[j] \notin Restartable \/ "record" \in Failing
    /\ thread' = [thread EXCEPT ![j] = "none"]
    /\ UNCHANGED <<row, poisoned>>

\* The row after its thread recorded r, an error of which is discarded.
Recording(j, r) ==
    {[row EXCEPT ![j] = r]} \union (IF "record" \in Failing THEN {row} ELSE {})

End(j, r) ==
    /\ thread[j] = "running"
    /\ thread' = [thread EXCEPT ![j] = "none"]
    /\ row' \in Recording(j, r)
    /\ UNCHANGED poisoned

\* The unwinding drops the guard of the mutex; what catch_unwind returns is recorded.
Panics(j) ==
    /\ "panic" \in Failing
    /\ thread[j] = "running"
    /\ thread' = [thread EXCEPT ![j] = "none"]
    /\ row' \in Recording(j, "failed")
    /\ poisoned' = TRUE

Work(j) ==
    /\ Claim(j) \/ ClaimFails(j) \/ (\E r \in Ended : End(j, r)) \/ Panics(j)
    /\ UNCHANGED <<ui, calls, doc, created, home>>

----------------------------------------------------------------------------
(* What happens after the await: the oldest call is answered.              *)

Answered(op) == calls # <<>> /\ calls[1].op = op /\ calls[1].reply # None
Reply == calls[1].reply
Resume(u) == Commit(u, Tail(calls)) /\ UNCHANGED nativeVars

SaveReply == Answered("save") /\ Resume(Recorded(ui))

\* An export that was overtaken is dropped.
ExportReply ==
    /\ Answered("export")
    /\ Resume(IF calls[1].live /\ Reply = "ok" THEN [ui EXCEPT !.shown = calls[1].content]
                                              ELSE ui)

\* The created project takes over the snapshot that was made before the first await.
CreateReply ==
    /\ Answered("create")
    /\ LET c == calls[1]
           adopt == [c EXCEPT !.op = "adopt", !.db = Reply, !.project = Reply,
                              !.content.project = Reply, !.reply = None]
           rest == NextGeneration(Tail(calls))
       IN Commit(Invalidated(Recorded(ui)),
                 IF Reply = Refused THEN rest ELSE Append(rest, adopt))
    /\ UNCHANGED nativeVars

AdoptReply ==
    /\ Answered("adopt")
    /\ Resume(IF Reply = Refused THEN Recorded(ui)
              ELSE [Replaced(ui, calls[1].content, FALSE) EXCEPT !.path = calls[1].db])

ImportReply ==
    /\ Answered("import")
    /\ IF Reply = Refused
       THEN /\ Commit(Invalidated(Recorded(ui)), NextGeneration(Tail(calls)))
            /\ UNCHANGED nativeVars
       ELSE Resume(Dispatched(ui, [ui.session EXCEPT !.jobs[Reply] = "queued"]))

\* There is one monitor: the job that was started last.
StartReply ==
    /\ Answered("start")
    /\ IF Reply = Refused
       THEN Resume(Recorded(ui))
       ELSE /\ Commit([Recorded(ui) EXCEPT !.monitor = calls[1].job],
                      Dropped(Tail(calls), "poll"))
            /\ UNCHANGED nativeVars

\* reconcile_proxy_job
Reconciled(u, j, r) ==
    Dispatched(u, [u.session EXCEPT !.jobs[j] = IF @ = None THEN None ELSE r])
\* isTerminalProxyStatus
Settled(u, r) == [u EXCEPT !.monitor = IF r \in Ended THEN None ELSE @]

CancelReply ==
    /\ Answered("cancel")
    /\ Resume(IF Reply = Refused THEN ui
              ELSE Settled(Reconciled(ui, calls[1].job, Reply), Reply))

\* mutant: a poll that fails is tried again
PollReplyPatient ==
    /\ Answered("poll")
    /\ Resume(IF ~calls[1].live \/ Reply = Refused THEN ui
              ELSE Settled(Reconciled(ui, calls[1].job, Reply), Reply))

PollReply ==
    /\ Answered("poll")
    /\ Resume(IF ~calls[1].live THEN ui
              ELSE IF Reply = Refused THEN [ui EXCEPT !.monitor = None]
              ELSE Settled(Reconciled(ui, calls[1].job, Reply), Reply))

LoadReply ==
    /\ Answered("load")
    /\ Resume(IF ~calls[1].live THEN ui
              ELSE IF Reply = Refused THEN Recorded(ui)
              ELSE Recorded(Replaced(ui, calls[1].content, FALSE)))

----------------------------------------------------------------------------
Replies == \/ SaveReply \/ ExportReply \/ CreateReply \/ AdoptReply \/ ImportReply
           \/ StartReply \/ CancelReply \/ PollReply \/ LoadReply

Next ==
    \/ \E t \in Texts : Edit(t)
    \/ SaveDraft
    \/ ExportPacket
    \/ ClearLocalDraft
    \/ CreateProject
    \/ ImportMedia
    \/ \E c \in SnapshotFiles : ImportSnapshot(c)
    \/ \E j \in Jobs : StartProxy(j) \/ CancelProxy(j) \/ Work(j)
    \/ Poll
    \/ Serve
    \/ Replies

Spec == Init /\ [][Next]_vars

\* The main thread answers, the answers arrive, timers fire and threads go on; the
\* reviewer need not do anything.
FairSpec == /\ Spec
            /\ WF_vars(Serve)
            /\ WF_vars(Replies)
            /\ WF_vars(Poll)
            /\ \A j \in Jobs : WF_vars(Work(j))
----------------------------------------------------------------------------
(* Properties                                                              *)

CallType == [op : {"save", "adopt", "load", "create", "export", "import", "start",
                   "cancel", "poll"},
             live : BOOLEAN,
             db : Projects \union {None},
             project : Projects \union {Draft},
             job : Jobs \union {None},
             content : Contents \union {None},
             reply : Projects \union Jobs \union Status \union {None, Refused, "ok"}]

Sessions == [project : Projects \union {Draft}, text : Texts,
             jobs : [Jobs -> Status \union {None}], fromFile : BOOLEAN]

UiType == [session : Sessions,
           path : Projects \union {None},
           monitor : Jobs \union {None},
           preview : Contents \union {None},
           shown : Contents \union {None}]

TypeOK ==
    /\ ui \in UiType
    /\ calls \in Seq(CallType)
    /\ doc \in [Projects -> Projects \union {None}]
    /\ created \subseteq Projects
    /\ home \in [Jobs -> Projects \union {None}]
    /\ row \in [Jobs -> Status]
    /\ thread \in [Jobs -> {"none", "waiting", "running"}]
    /\ poisoned \in BOOLEAN

\* The preview, and the verified files of the native export beside it, are of the session
\* as it is: an edit, a reconciled job or another project that arrives while an export is
\* written overtakes it (App.tsx:278-283, 784 and withInvalidatedExport).
ExportIsCurrent ==
    /\ ui.preview # None => ui.preview = Content(ui.session)
    /\ ui.shown # None => ui.shown = ui.preview

\* A session of a native project has that project's database open, unless it was read from
\* a file, and a database holds snapshots of its own project: a load, a save or a creation
\* that answers late does not leave one project on the database of another (the clean-up of
\* App.tsx:388, the order of 862-886, save_project_snapshot).
ProjectIdentity ==
    /\ ui.session.project \in Projects =>
            ui.path = ui.session.project \/ ui.session.fromFile
    /\ \A p \in Projects : doc[p] \in {p, None}

\* The row says that the job goes on, and no thread works on it: a crash or a failed
\* write left it running, or its thread could not claim it (proxy_worker.rs:209-221,
\* project_store.rs:2476).  Nothing of the native side changes this until the next start.
Orphaned(j) == thread[j] = "none" /\ row[j] \notin Ended

\* Polling a job comes to an end, whatever else is cleared or loaded meanwhile, unless the
\* project is left, the reviewer never stops starting jobs or the row of the job is orphaned,
\* which the poll waits for for ever (the effect of App.tsx:393-442).
Starting == \E i \in DOMAIN calls : calls[i].op = "start"
MonitorEnds ==
    \A j \in Jobs : (ui.monitor = j /\ ui.path # None) ~>
                       (ui.monitor # j \/ ui.path = None \/ Starting \/ []Orphaned(j))

\* A job that the session shows as running is shown as something else in the end.
ShownRunningEnds ==
    \A j \in Jobs : (ui.session.jobs[j] = "running") ~> (ui.session.jobs[j] # "running")

=============================================================================
