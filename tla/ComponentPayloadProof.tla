------------------------- MODULE ComponentPayloadProof -------------------------
(***************************************************************************)
(* Proofs about ComponentPayload and the processes that it runs.           *)
(*                                                                         *)
(* Processes, for calls that follow one another: a reader that came to its *)
(* end did so when nobody held the pipe any more (WholeIsRead), and nobody *)
(* can hold it again, because only a running program shares it and a       *)
(* running program holds both pipes itself (RunningHolds).  The thread of  *)
(* an install is such a sequence of calls (InstallCallsInTurn).            *)
(*                                                                         *)
(* Downloads: while a body is read, broken off or settled, the file, the   *)
(* hash and the counter are the first blocks of one version, the next      *)
(* block of the connection is the one that follows, and an ETag that was   *)
(* taken is of that version (DownloadInv): so an answer with the same ETag *)
(* that begins at the next block continues it.                             *)
(*                                                                         *)
(* Payloads: what is left to do is the end of the plan of the component,   *)
(* and what was kept and run is, item by item and in order, what the steps *)
(* before had to leave (PlanInv).                                          *)
(*                                                                         *)
(* The catalog: what the search has visited can be installed by itself, in *)
(* some order (IsFinished), because every dependency of a component that   *)
(* is finished was visited before it; while it is being visited each one   *)
(* before the next was, or is the component above it (FrameInv).           *)
(***************************************************************************)
EXTENDS ComponentPayload, TLAPS

(* Processes.                                                              *)

allVars == <<cancelled, processVars>>

\* the job sets its cancellation at any time, and clears it with the next job
CancelFlag == cancelled' \in BOOLEAN /\ UNCHANGED processVars

Calls ==
    \/ \E cancellable \in BOOLEAN : Call(cancellable)
    \/ Taken
    \/ CancelFlag
    \/ ProcessNext

CallsSpec == ProcessInit /\ [][Calls]_allVars

-----------------------------------------------------------------------------
\* nothing is left of the previous call
BetweenCalls ==
    monitor \in {"idle", "spawn"} =>
        /\ program = "none"
        /\ \A s \in Streams : holders[s] = {} /\ reader[s] = "none"

\* a reader that came to the end has everything that will ever be written
WholeIsRead ==
    \A s \in Streams :
        /\ reader[s] = "reading" => taken[s] =< OutputLimit
        /\ reader[s] = "whole" => /\ holders[s] = {}
                                  /\ taken[s] = written[s]
                                  /\ taken[s] =< OutputLimit

\* a running program holds both pipes, unless its readers could not be started
RunningHolds ==
    program = "running" =>
        \/ \A s \in Streams : "program" \in holders[s]
        \/ /\ monitor = "answered" /\ verdict = "panic"
           /\ \A s \in Streams : holders[s] = {}

\* where the caller stands, and what it knows there
CallerKnows ==
    /\ monitor \in {"joinStdout", "joinStderr"} =>
          /\ program # "running"
          /\ verdict \in Exits => program = verdict
    /\ monitor = "kill" => verdict \in Stops
    /\ monitor = "joinStderr" => reader["stdout"] = "whole"
    /\ monitor = "answered" =>
          /\ verdict \in Exits =>
                program = verdict /\ \A s \in Streams : reader[s] = "whole"
          /\ program = "running" => verdict = "panic"

ProcessInv == ProcessTypeOK /\ BetweenCalls /\ WholeIsRead /\ RunningHolds /\ CallerKnows

-----------------------------------------------------------------------------
LEMMA ProcessInitIsSound == ProcessInit => ProcessInv
<1> SUFFICES ASSUME ProcessInit PROVE ProcessInv
    OBVIOUS
<1> USE DEF ProcessInit, Streams, Exits
<1>1. ProcessTypeOK
    BY DEF ProcessTypeOK, Programs, Readers, Monitors, Verdicts
<1>2. BetweenCalls /\ WholeIsRead /\ RunningHolds /\ CallerKnows
    BY BoundedProcessAssumption DEF BetweenCalls, WholeIsRead, RunningHolds, CallerKnows
<1> QED BY <1>1, <1>2 DEF ProcessInv

\* every action by itself
LEMMA ProcessStepIsSound == ProcessInv /\ [Calls]_allVars => ProcessInv'
<1> SUFFICES ASSUME ProcessInv, [Calls]_allVars PROVE ProcessInv'
    OBVIOUS
<1> USE BoundedProcessAssumption
    DEF ProcessInv, ProcessTypeOK, BetweenCalls, WholeIsRead, RunningHolds, CallerKnows,
        Streams, Programs, Exits, Readers, ReaderErrors, Monitors, Verdicts, Stops
<1>1. ASSUME NEW cancellable \in BOOLEAN, Call(cancellable) PROVE ProcessInv'
    <2>1. ProcessTypeOK'
        <3>1. watched' \in BOOLEAN
            BY <1>1, Zenon DEF Call
        <3> QED BY <1>1, <3>1 DEF Call
    <2>2. (BetweenCalls /\ WholeIsRead /\ RunningHolds /\ CallerKnows)'
        BY <1>1 DEF Call
    <2> QED BY <2>1, <2>2
<1>2. CASE Taken
    BY <1>2 DEF Taken
<1>3. CASE CancelFlag
    BY <1>3 DEF CancelFlag, processVars
<1>4. CASE Spawn
    <2>1. ProcessTypeOK'
        BY <1>4 DEF Spawn
    <2>2. (BetweenCalls /\ WholeIsRead /\ CallerKnows)'
        BY <1>4 DEF Spawn
    <2>3. RunningHolds'
        BY <1>4 DEF Spawn
    <2> QED BY <2>1, <2>2, <2>3
<1>5. CASE SpawnFails
    BY <1>5 DEF SpawnFails
<1>6. CASE ReaderIsNotStarted
    BY <1>6 DEF ReaderIsNotStarted
<1>7. CASE Poll
    BY <1>7 DEF Poll
<1>8. CASE Kill
    BY <1>8 DEF Kill, Kills
<1>9. CASE JoinReaders
    BY <1>9 DEF JoinReaders, Join
<1>10. CASE TimeIsOver
    BY <1>10 DEF TimeIsOver
<1>11. ASSUME NEW s \in Streams, Read(s) PROVE ProcessInv'
    BY <1>11 DEF Read
<1>12. ASSUME NEW s \in Streams, EndOfStream(s) PROVE ProcessInv'
    BY <1>12 DEF EndOfStream
<1>13. ASSUME NEW s \in Streams, ReadFails(s) PROVE ProcessInv'
    BY <1>13 DEF ReadFails
<1>14. CASE StartChild
    BY <1>14 DEF StartChild
<1>15. CASE ChildEnds
    BY <1>15 DEF ChildEnds
<1>16. CASE Exit
    BY <1>16 DEF Exit
<1>17. ASSUME NEW s \in Streams, Write(s) PROVE ProcessInv'
    BY <1>17 DEF Write
<1>18. CASE UNCHANGED allVars
    BY <1>18 DEF allVars, processVars
<1> QED
    BY <1>1, <1>2, <1>3, <1>4, <1>5, <1>6, <1>7, <1>8, <1>9, <1>10, <1>11, <1>12, <1>13, <1>14,
       <1>15, <1>16, <1>17, <1>18
    DEF Calls, ProcessNext, RunStep, ProgramStep

LEMMA SoundImpliesWhole == ProcessInv => OutputIsWhole
BY DEF ProcessInv, CallerKnows, WholeIsRead, OutputIsWhole

LEMMA ProcessAlwaysSound == CallsSpec => []ProcessInv
BY ProcessInitIsSound, ProcessStepIsSound, PTL DEF CallsSpec

-----------------------------------------------------------------------------
(* Every variable of a call keeps its type, whatever is printed and        *)
(* whatever the limits (run_bounded_process_cancellable).                  *)
THEOREM ProcessTypeCorrect == CallsSpec => []ProcessTypeOK
<1>1. ProcessInv => ProcessTypeOK
    BY DEF ProcessInv
<1> QED BY <1>1, ProcessAlwaysSound, PTL

(* For every limit and every amount of output: an exit is answered with    *)
(* the whole output of the program and of what it left behind, and an      *)
(* error leaves no program running unless a reader could not be started    *)
(* (run_bounded_process_cancellable, read_bounded).                        *)
THEOREM AnswersAreWhole == CallsSpec => []OutputIsWhole
BY SoundImpliesWhole, ProcessAlwaysSound, PTL

-----------------------------------------------------------------------------
(* The catalog.                                                            *)

\* sets of components that can be installed by themselves, in some order
IsFinished(ids) ==
    /\ ids \subseteq Ids(catalog)
    /\ \A id \in ids : ToSet(Dependencies(id)) \subseteq ids
    /\ \A cs \in (SUBSET ids) \ {{}} : \E c \in cs : ToSet(Dependencies(c)) \intersect cs = {}

\* a component that is being visited: all its dependencies before the next one were visited,
\* or the last of them is, above it
FrameInv(i) ==
    /\ stack[i].id \notin visited
    /\ \A k \in 1 .. i - 1 : stack[k].id # stack[i].id
    /\ stack[i].next =< Len(Dependencies(stack[i].id)) + 1
    /\ \A m \in 1 .. stack[i].next - 1 :
          \/ Dependencies(stack[i].id)[m] \in visited
          \/ /\ i > 1 /\ m = stack[i].next - 1
             /\ Dependencies(stack[i].id)[m] = stack[i - 1].id

\* every component that was searched from is in such a set
SearchInv ==
    /\ searched \in 0 .. Len(catalog)
    /\ stack \in Seq(Frames)
    /\ IsFinished(visited)
    /\ \A i \in 1 .. Len(stack) : FrameInv(i)
    /\ stack # <<>> => searched > 0 /\ stack[Len(stack)].id = catalog[searched].id
    /\ \A k \in 1 .. searched : (stack # <<>> => k < searched) =>
           \E ids \in SUBSET Ids(catalog) : IsFinished(ids) /\ catalog[k].id \in ids

CatalogInv ==
    /\ catalog \in Catalogs
    /\ loaded \in {"no", "visiting", "accepted", "refused"}
    /\ loaded \in {"visiting", "accepted"} => ComponentsAreValid
    /\ IF loaded = "visiting" THEN SearchInv ELSE searched = 0 /\ stack = <<>> /\ visited = {}
    /\ loaded = "accepted" => HasInstallOrder(catalog)

-----------------------------------------------------------------------------
\* the first component that has an id is the only one
LEMMA NamedIsThere ==
    ASSUME catalog \in Catalogs, ComponentsAreValid, NEW id \in Ids(catalog)
    PROVE  \E i \in DOMAIN catalog : Named(catalog, id) = catalog[i]
<1>1. catalog \in Seq(ToSet(catalog))
    BY CatalogAssumption
<1>2. PICK i \in DOMAIN catalog : catalog[i].id = id
    BY DEF Ids
<1>3. \A k \in DOMAIN catalog : catalog[k].id = id => k = i
    BY <1>2 DEF ComponentsAreValid, IdsAreUnique
<1>4. DOMAIN catalog = 1 .. Len(catalog) /\ Len(catalog) \in Nat
    BY <1>1
<1>5. {k \in 1 .. Len(catalog) : catalog[k].id = id} = {i}
    BY <1>2, <1>3, <1>4
<1>6. Min({i}) = i
    BY <1>2, <1>4 DEF Min
<1>7. Component(catalog, id) = i
    BY <1>5, <1>6 DEF Component, SelectInSeq
<1> QED BY <1>2, <1>7 DEF Named

LEMMA DependenciesAreListed ==
    ASSUME catalog \in Catalogs, ComponentsAreValid, NEW id \in Ids(catalog)
    PROVE  Dependencies(id) \in Seq(Ids(catalog))
<1>1. PICK i \in DOMAIN catalog : Named(catalog, id) = catalog[i]
    BY NamedIsThere
<1>2. Dependencies(id) \in Seq(ToSet(Dependencies(id)))
    BY <1>1, CatalogAssumption DEF Dependencies
<1>3. ToSet(Dependencies(id)) \subseteq Ids(catalog)
    BY <1>1 DEF Dependencies, ComponentsAreValid, DependenciesAreKnown
<1> QED BY <1>2, <1>3

\* a component whose dependencies were visited can be installed after them
LEMMA FinishOne ==
    ASSUME NEW ids, IsFinished(ids), NEW id \in Ids(catalog) \ ids,
           ToSet(Dependencies(id)) \subseteq ids
    PROVE  IsFinished(ids \union {id})
<1>1. ASSUME NEW cs \in (SUBSET (ids \union {id})) \ {{}}
      PROVE  \E c \in cs : ToSet(Dependencies(c)) \intersect cs = {}
    <2>1. CASE cs \intersect ids = {}
        <3>0. cs \subseteq ids \union {id} /\ cs # {}
            BY <1>1
        <3>1. cs = {id}
            BY <2>1, <3>0, Zenon
        <3>2. ToSet(Dependencies(id)) \intersect cs = {}
            BY <2>1
        <3> QED BY <3>1, <3>2
    <2>2. CASE cs \intersect ids # {}
        <3>1. PICK c \in cs \intersect ids :
                  ToSet(Dependencies(c)) \intersect (cs \intersect ids) = {}
            BY <2>2 DEF IsFinished
        <3>2. ToSet(Dependencies(c)) \subseteq ids
            BY <3>1 DEF IsFinished
        <3> QED BY <3>1, <3>2
    <2> QED BY <2>1, <2>2
<1> QED BY <1>1 DEF IsFinished

LEMMA NothingIsFinished == IsFinished({})
<1>1. ASSUME NEW cs \in (SUBSET {}) \ {{}} PROVE FALSE
    <2>1. cs \subseteq {} /\ cs # {}
        BY <1>1
    <2> QED BY <2>1, Zenon
<1> QED BY <1>1 DEF IsFinished

\* sets that are finished make a catalog that can be installed
LEMMA AllAreFinished ==
    ASSUME \A k \in DOMAIN catalog :
               \E ids \in SUBSET Ids(catalog) : IsFinished(ids) /\ catalog[k].id \in ids
    PROVE  HasInstallOrder(catalog)
<1> SUFFICES ASSUME NEW cs \in (SUBSET Ids(catalog)) \ {{}}
             PROVE  \E c \in cs : ToSet(Named(catalog, c).dependencies) \intersect cs = {}
    BY DEF HasInstallOrder
<1>1. PICK k \in DOMAIN catalog : catalog[k].id \in cs
    <2>1. cs \subseteq Ids(catalog) /\ cs # {}
        OBVIOUS
    <2>2. PICK id : id \in cs
        BY <2>1, Zenon
    <2> QED BY <2>1, <2>2 DEF Ids
<1>2. PICK ids \in SUBSET Ids(catalog) : IsFinished(ids) /\ catalog[k].id \in ids
    OBVIOUS
<1>3. PICK c \in cs \intersect ids : ToSet(Dependencies(c)) \intersect (cs \intersect ids) = {}
    BY <1>1, <1>2 DEF IsFinished
<1>4. ToSet(Dependencies(c)) \subseteq ids
    BY <1>2, <1>3 DEF IsFinished
<1> QED BY <1>3, <1>4 DEF Dependencies

-----------------------------------------------------------------------------
LEMMA SameCatalog ==
    ASSUME catalog' = catalog
    PROVE  /\ \A id : Dependencies(id)' = Dependencies(id)
           /\ \A ids : IsFinished(ids)' <=> IsFinished(ids)
           /\ Ids(catalog)' = Ids(catalog) /\ Frames' = Frames
           /\ ComponentsAreValid' <=> ComponentsAreValid
           /\ HasInstallOrder(catalog)' <=> HasInstallOrder(catalog)
<1>1. \A id : Dependencies(id)' = Dependencies(id)
    BY DEF Dependencies
<1>2. \A ids : IsFinished(ids)' <=> IsFinished(ids)
    BY <1>1 DEF IsFinished
<1>3. Ids(catalog)' = Ids(catalog) /\ Frames' = Frames
    BY DEF Frames
<1>4. ComponentsAreValid' <=> ComponentsAreValid
    BY DEF ComponentsAreValid
<1>5. HasInstallOrder(catalog)' <=> HasInstallOrder(catalog)
    OBVIOUS
<1> QED BY <1>1, <1>2, <1>3, <1>4, <1>5

\* what the component on the top needs next
LEMMA TopNeeds ==
    ASSUME CatalogInv, loaded = "visiting", stack # <<>>
    PROVE  /\ SearchInv
           /\ stack \in Seq(Frames) /\ Len(stack) \in Nat \ {0}
           /\ Head(stack) = stack[1] /\ stack[1] \in Frames /\ FrameInv(1)
           /\ Dependencies(Head(stack).id) \in Seq(Ids(catalog))
<1>1. SearchInv
    BY DEF CatalogInv
<1>2. stack \in Seq(Frames)
    BY <1>1 DEF SearchInv
<1>3. Len(stack) \in Nat \ {0} /\ Head(stack) = stack[1] /\ stack[1] \in Frames
    BY <1>2
<1>4. FrameInv(1)
    BY <1>1, <1>3 DEF SearchInv
<1>5. Head(stack).id \in Ids(catalog)
    BY <1>3 DEF Frames
<1> QED BY <1>1, <1>2, <1>3, <1>4, <1>5, DependenciesAreListed DEF CatalogInv

\* the stack after a look at that dependency
LEMMA PassedStack ==
    ASSUME CatalogInv, loaded = "visiting", stack # <<>>
    PROVE  /\ Passed \in Seq(Frames) /\ Len(Passed) = Len(stack)
           /\ Passed[1] = [id |-> stack[1].id, next |-> stack[1].next + 1]
           /\ \A i \in 2 .. Len(stack) : Passed[i] = stack[i]
           /\ \A i \in 1 .. Len(stack) : Passed[i].id = stack[i].id
<1>1. /\ stack \in Seq(Frames) /\ Len(stack) \in Nat \ {0} /\ Head(stack) = stack[1]
      /\ stack[1] \in Frames
    BY TopNeeds
<1> DEFINE frame == [Head(stack) EXCEPT !.next = @ + 1]
<1>2. frame = [id |-> stack[1].id, next |-> stack[1].next + 1] /\ frame \in Frames
    BY <1>1 DEF Frames
<1>3. /\ Tail(stack) \in Seq(Frames) /\ Len(Tail(stack)) = Len(stack) - 1
      /\ \A i \in 1 .. Len(stack) - 1 : Tail(stack)[i] = stack[i + 1]
    BY <1>1
<1> HIDE DEF frame
<1>4. /\ <<frame>> \o Tail(stack) \in Seq(Frames)
      /\ Len(<<frame>> \o Tail(stack)) = Len(stack)
      /\ (<<frame>> \o Tail(stack))[1] = frame
    BY <1>1, <1>2, <1>3
<1>5. ASSUME NEW i \in 2 .. Len(stack) PROVE (<<frame>> \o Tail(stack))[i] = stack[i]
    <2>1. i - 1 \in 1 .. Len(stack) - 1 /\ (i - 1) + 1 = i
        BY <1>1
    <2>2. (<<frame>> \o Tail(stack))[i] = Tail(stack)[i - 1]
        BY <1>1, <1>3, <2>1
    <2> QED BY <1>3, <2>1, <2>2
<1>6. Passed = <<frame>> \o Tail(stack)
    BY DEF Passed, frame
<1>7. ASSUME NEW i \in 1 .. Len(stack) PROVE Passed[i].id = stack[i].id
    <2>1. CASE i = 1
        BY <1>2, <1>4, <1>6, <2>1
    <2>2. CASE i # 1
        <3>1. i \in 2 .. Len(stack)
            BY <1>1, <2>2
        <3> QED BY <1>5, <1>6, <3>1
    <2> QED BY <2>1, <2>2
<1> QED BY <1>2, <1>4, <1>5, <1>6, <1>7

LEMMA PassVisitedKeeps ==
    ASSUME CatalogInv, loaded = "visiting", PassVisited
    PROVE  CatalogInv'
<1>1. /\ stack # <<>> /\ stack' = Passed /\ Dependency \in visited
      /\ UNCHANGED <<catalog, loaded, searched, visited>>
      /\ Head(stack).next =< Len(Dependencies(Head(stack).id))
    BY DEF PassVisited, AtDependency, IsVisited
<1>2. /\ SearchInv /\ Len(stack) \in Nat \ {0} /\ Head(stack) = stack[1] /\ stack[1] \in Frames
      /\ FrameInv(1) /\ Dependencies(stack[1].id) \in Seq(Ids(catalog))
    BY <1>1, TopNeeds
<1>3. /\ stack' \in Seq(Frames) /\ Len(stack') = Len(stack)
      /\ stack'[1] = [id |-> stack[1].id, next |-> stack[1].next + 1]
      /\ \A i \in 2 .. Len(stack) : stack'[i] = stack[i]
      /\ \A i \in 1 .. Len(stack) : stack'[i].id = stack[i].id
    BY <1>1, PassedStack
<1>4. ASSUME NEW i \in 1 .. Len(stack) PROVE FrameInv(i)'
    <2>1. /\ stack'[i].id \notin visited'
          /\ \A k \in 1 .. i - 1 : stack'[k].id # stack'[i].id
        <3>1. FrameInv(i) /\ \A k \in 1 .. i - 1 : k \in 1 .. Len(stack)
            BY <1>2 DEF SearchInv
        <3> QED BY <1>1, <1>3, <3>1 DEF FrameInv
    <2>2. CASE i = 1
        <3>1. Len(Dependencies(stack[1].id)) \in Nat /\ stack[1].next \in Nat \ {0}
            BY <1>2 DEF Frames
        <3>2. stack'[1].id = stack[1].id /\ stack'[1].next = stack[1].next + 1
            BY <1>3
        <3>3. stack'[1].next =< Len(Dependencies(stack[1].id)) + 1
            BY <1>1, <1>2, <3>1, <3>2
        <3>4. ASSUME NEW m \in 1 .. stack'[1].next - 1
              PROVE  Dependencies(stack[1].id)[m] \in visited
            <4>1. CASE m = stack[1].next
                BY <1>1, <1>2, <4>1 DEF Dependency
            <4>2. CASE m # stack[1].next
                <5>1. m \in 1 .. stack[1].next - 1
                    BY <3>1, <3>2, <4>2
                <5> QED BY <1>2, <5>1 DEF FrameInv
            <4> QED BY <4>1, <4>2
        <3> QED BY <1>1, <2>1, <2>2, <3>2, <3>3, <3>4, SameCatalog DEF FrameInv
    <2>3. CASE i # 1
        <3>1. i \in 2 .. Len(stack) /\ i - 1 \in 1 .. Len(stack)
            BY <1>2, <2>3
        <3>2. stack'[i] = stack[i] /\ stack'[i - 1].id = stack[i - 1].id
            BY <1>3, <3>1
        <3>3. FrameInv(i)
            BY <1>2 DEF SearchInv
        <3> QED BY <1>1, <2>1, <3>2, <3>3, SameCatalog DEF FrameInv
    <2> QED BY <2>2, <2>3
<1>5. stack' # <<>> /\ searched > 0 /\ stack'[Len(stack')].id = catalog[searched].id
    BY <1>1, <1>2, <1>3 DEF SearchInv
<1>6. SearchInv'
    BY <1>1, <1>2, <1>3, <1>4, <1>5, SameCatalog DEF SearchInv
<1> QED BY <1>1, <1>6, SameCatalog DEF CatalogInv

LEMMA VisitKeeps ==
    ASSUME CatalogInv, loaded = "visiting", Visit
    PROVE  CatalogInv'
<1>1. /\ stack # <<>> /\ stack' = Enter(Dependency) \o Passed
      /\ Dependency \notin visited /\ ~IsVisiting(Dependency)
      /\ UNCHANGED <<catalog, loaded, searched, visited>>
      /\ Head(stack).next =< Len(Dependencies(Head(stack).id))
    BY DEF Visit, AtDependency, IsVisited
<1>2. /\ SearchInv /\ Len(stack) \in Nat \ {0} /\ Head(stack) = stack[1] /\ stack[1] \in Frames
      /\ FrameInv(1) /\ Dependencies(stack[1].id) \in Seq(Ids(catalog))
    BY <1>1, TopNeeds
<1>3. /\ Passed \in Seq(Frames) /\ Len(Passed) = Len(stack)
      /\ Passed[1] = [id |-> stack[1].id, next |-> stack[1].next + 1]
      /\ \A i \in 2 .. Len(stack) : Passed[i] = stack[i]
      /\ \A i \in 1 .. Len(stack) : Passed[i].id = stack[i].id
    BY <1>1, PassedStack
<1>4. /\ Len(Dependencies(stack[1].id)) \in Nat /\ stack[1].next \in Nat \ {0}
      /\ stack[1].next \in 1 .. Len(Dependencies(stack[1].id))
      /\ Dependency = Dependencies(stack[1].id)[stack[1].next] /\ Dependency \in Ids(catalog)
    BY <1>1, <1>2 DEF Frames, Dependency
<1> DEFINE frame == [id |-> Dependency, next |-> 1]
<1>5. frame \in Frames
    BY <1>4 DEF Frames
<1>6. /\ stack' \in Seq(Frames) /\ Len(stack') = Len(stack) + 1
      /\ stack'[1] = frame
      /\ \A i \in 2 .. Len(stack) + 1 : stack'[i] = Passed[i - 1]
    <2>1. stack' = <<frame>> \o Passed
        BY <1>1 DEF Enter
    <2> HIDE DEF frame
    <2> QED BY <1>2, <1>3, <1>5, <2>1
<1>7. ASSUME NEW i \in 1 .. Len(stack) + 1 PROVE FrameInv(i)'
    <2>1. CASE i = 1
        <3>1. stack'[1].id = Dependency /\ stack'[1].next = 1
            BY <1>6
        <3>2. Dependencies(Dependency) \in Seq(Ids(catalog))
            BY <1>4, DependenciesAreListed DEF CatalogInv, SearchInv
        <3>3. 1 =< Len(Dependencies(Dependency)) + 1
            BY <3>2
        <3>4. Dependencies(stack[1].id)' = Dependencies(Dependency)
            BY <1>1, <3>1, SameCatalog
        <3> QED BY <1>1, <2>1, <3>1, <3>3, <3>4 DEF FrameInv
    <2>2. CASE i = 2
        <3>1. /\ stack'[2].id = stack[1].id /\ stack'[2].next = stack[1].next + 1
              /\ stack'[1].id = Dependency
            BY <1>2, <1>3, <1>6
        <3>2. stack[1].id # Dependency
            BY <1>1, <1>2 DEF IsVisiting
        <3>3. \A k \in 1 .. 2 - 1 : stack'[k].id # stack'[2].id
            BY <3>1, <3>2
        <3>4. stack'[2].next =< Len(Dependencies(stack[1].id)) + 1
            BY <1>4, <3>1
        <3>5. ASSUME NEW m \in 1 .. stack'[2].next - 1
              PROVE  \/ Dependencies(stack[1].id)[m] \in visited
                     \/ /\ 2 > 1 /\ m = stack'[2].next - 1
                        /\ Dependencies(stack[1].id)[m] = stack'[2 - 1].id
            <4>1. CASE m = stack[1].next
                BY <1>4, <3>1, <4>1
            <4>2. CASE m # stack[1].next
                <5>1. m \in 1 .. stack[1].next - 1
                    BY <1>4, <3>1, <4>2
                <5> QED BY <1>2, <5>1 DEF FrameInv
            <4> QED BY <4>1, <4>2
        <3>6. Dependencies(stack[2].id)' = Dependencies(stack[1].id)
            BY <1>1, <3>1, SameCatalog
        <3>7. stack'[2].id \notin visited'
            BY <1>1, <1>2, <3>1 DEF FrameInv
        <3> QED BY <2>2, <3>3, <3>4, <3>5, <3>6, <3>7, <1>1 DEF FrameInv
    <2>3. CASE i \notin {1, 2}
        <3>1. i - 1 \in 2 .. Len(stack) /\ i \in 2 .. Len(stack) + 1 /\ i - 1 \in 2 .. Len(stack) + 1
            BY <1>2, <2>3
        <3>2. FrameInv(i - 1)
            BY <1>2, <3>1 DEF SearchInv
        <3>3. stack'[i] = stack[i - 1] /\ stack'[i - 1].id = stack[i - 1 - 1].id
            <4>1. i - 1 - 1 \in 1 .. Len(stack)
                BY <1>2, <3>1
            <4> QED BY <1>3, <1>6, <3>1, <4>1
        <3>4. \A k \in 1 .. i - 1 : stack'[k].id # stack'[i].id
            <4> TAKE k \in 1 .. i - 1
            <4>1. CASE k = 1
                <5>1. stack[i - 1].id # Dependency
                    BY <1>1, <1>2, <3>1 DEF IsVisiting, SearchInv
                <5> QED BY <1>6, <3>3, <4>1, <5>1
            <4>2. CASE k # 1
                <5>1. /\ k - 1 \in 1 .. (i - 1) - 1 /\ k - 1 \in 1 .. Len(stack)
                      /\ k \in 2 .. Len(stack) + 1
                    BY <1>2, <3>1, <4>2
                <5>2. stack'[k].id = stack[k - 1].id
                    BY <1>3, <1>6, <5>1
                <5>3. stack[k - 1].id # stack[i - 1].id
                    BY <3>2, <5>1 DEF FrameInv
                <5> QED BY <3>3, <5>2, <5>3
            <4> QED BY <4>1, <4>2
        <3>5. Dependencies(stack[i].id)' = Dependencies(stack[i - 1].id)
            BY <1>1, <3>3, SameCatalog
        <3>6. i > 1 /\ i - 1 > 1
            BY <3>1
        <3> QED BY <1>1, <3>2, <3>3, <3>4, <3>5, <3>6 DEF FrameInv
    <2> QED BY <2>1, <2>2, <2>3
<1>8. stack' # <<>> /\ searched > 0 /\ stack'[Len(stack')].id = catalog[searched].id
    <2>1. Len(stack) \in 1 .. Len(stack) /\ Len(stack) + 1 \in 2 .. Len(stack) + 1
        BY <1>2
    <2>2. stack'[Len(stack) + 1].id = stack[Len(stack)].id
        <3> DEFINE last == Len(stack) + 1
        <3>1. last - 1 = Len(stack) /\ last \in 2 .. Len(stack) + 1
            BY <1>2, <2>1
        <3> HIDE DEF last
        <3>2. stack'[last].id = stack[last - 1].id
            BY <1>3, <1>6, <2>1, <3>1
        <3> QED BY <3>1, <3>2 DEF last
    <2>3. stack' # <<>>
        BY <1>2, <1>6
    <2> QED BY <1>1, <1>2, <1>6, <2>2, <2>3 DEF SearchInv
<1>9. SearchInv'
    BY <1>1, <1>2, <1>6, <1>7, <1>8, SameCatalog DEF SearchInv
<1> QED BY <1>1, <1>9, SameCatalog DEF CatalogInv

LEMMA FinishedNext ==
    ASSUME UNCHANGED catalog, NEW CONSTANT ids, IsFinished(ids), visited' = ids
    PROVE  IsFinished(visited)'
BY SameCatalog DEF IsFinished

LEMMA ReturnKeeps ==
    ASSUME CatalogInv, loaded = "visiting", Return
    PROVE  CatalogInv'
<1>1. /\ stack # <<>> /\ stack' = Tail(stack) /\ visited' = visited \union {Head(stack).id}
      /\ UNCHANGED <<catalog, loaded, searched>>
      /\ ~(Head(stack).next =< Len(Dependencies(Head(stack).id)))
    BY DEF Return, AtDependency
<1>2. /\ SearchInv /\ Len(stack) \in Nat \ {0} /\ Head(stack) = stack[1] /\ stack[1] \in Frames
      /\ FrameInv(1) /\ Dependencies(stack[1].id) \in Seq(Ids(catalog)) /\ stack \in Seq(Frames)
    BY <1>1, TopNeeds
<1> DEFINE top == stack[1].id
<1>3. /\ top \in Ids(catalog) \ visited /\ visited' = visited \union {top}
      /\ stack[1].next \in Nat \ {0}
    BY <1>1, <1>2 DEF Frames, FrameInv
<1>4. ToSet(Dependencies(top)) \subseteq visited
    <2>1. /\ DOMAIN Dependencies(top) = 1 .. Len(Dependencies(top))
          /\ Len(Dependencies(top)) \in Nat
        BY <1>2
    <2>2. ASSUME NEW m \in DOMAIN Dependencies(top) PROVE Dependencies(top)[m] \in visited
        <3>1. m \in 1 .. stack[1].next - 1
            BY <1>1, <1>2, <1>3, <2>1
        <3> QED BY <1>2, <3>1 DEF FrameInv
    <2> QED BY <2>2 DEF ToSet
<1>5. IsFinished(visited')
    <2> HIDE DEF top
    <2>1. IsFinished(visited)
        BY <1>2 DEF SearchInv
    <2>2. IsFinished(visited \union {top})
        BY <1>3, <1>4, <2>1, FinishOne
    <2> QED BY <1>3, <2>2
<1>6. /\ stack' \in Seq(Frames) /\ Len(stack') = Len(stack) - 1
      /\ \A i \in 1 .. Len(stack) - 1 : stack'[i] = stack[i + 1]
    BY <1>1, <1>2
<1>7. ASSUME NEW i \in 1 .. Len(stack) - 1 PROVE FrameInv(i)'
    <2>1. /\ i + 1 \in 1 .. Len(stack) /\ 1 \in 1 .. (i + 1) - 1 /\ i + 1 > 1 /\ (i + 1) - 1 = i
          /\ i \in 1 .. Len(stack)
        BY <1>2
    <2>2. FrameInv(i + 1) /\ stack'[i] = stack[i + 1]
        BY <1>2, <1>6, <2>1 DEF SearchInv
    <2>3. stack'[i].id \notin visited'
        BY <1>3, <2>1, <2>2 DEF FrameInv
    <2>4. \A k \in 1 .. i - 1 : stack'[k].id # stack'[i].id
        <3> TAKE k \in 1 .. i - 1
        <3>1. k \in 1 .. Len(stack) - 1 /\ k + 1 \in 1 .. (i + 1) - 1
            BY <1>2
        <3>2. stack'[k] = stack[k + 1]
            BY <1>6, <3>1
        <3> QED BY <2>2, <3>1, <3>2 DEF FrameInv
    <2>5. ASSUME NEW m \in 1 .. stack[i + 1].next - 1
          PROVE  \/ Dependencies(stack[i + 1].id)[m] \in visited'
                 \/ /\ i > 1 /\ m = stack[i + 1].next - 1
                    /\ Dependencies(stack[i + 1].id)[m] = stack'[i - 1].id
        <3>1. CASE Dependencies(stack[i + 1].id)[m] \in visited
            BY <1>3, <3>1
        <3>2. CASE /\ m = stack[i + 1].next - 1
                   /\ Dependencies(stack[i + 1].id)[m] = stack[i].id
            <4>1. CASE i = 1
                BY <1>3, <3>2, <4>1
            <4>2. CASE i # 1
                <5>1. i - 1 \in 1 .. Len(stack) - 1 /\ (i - 1) + 1 = i /\ i > 1
                    BY <1>2, <4>2
                <5>2. stack'[i - 1] = stack[i]
                    BY <1>6, <5>1
                <5> QED BY <3>2, <5>1, <5>2
            <4> QED BY <4>1, <4>2
        <3> QED BY <2>1, <2>2, <3>1, <3>2 DEF FrameInv
    <2>6. Dependencies(stack[i].id)' = Dependencies(stack[i + 1].id)
        BY <1>1, <2>2, SameCatalog
    <2>7. stack'[i].next =< Len(Dependencies(stack[i + 1].id)) + 1
        BY <2>2 DEF FrameInv
    <2> QED BY <2>2, <2>3, <2>4, <2>5, <2>6, <2>7 DEF FrameInv
<1>8. stack' # <<>> => searched > 0 /\ stack'[Len(stack')].id = catalog[searched].id
    <2> SUFFICES ASSUME stack' # <<>>
                 PROVE  searched > 0 /\ stack'[Len(stack')].id = catalog[searched].id
        OBVIOUS
    <2>1. Len(stack) - 1 \in 1 .. Len(stack) - 1 /\ (Len(stack) - 1) + 1 = Len(stack)
        BY <1>2, <1>6
    <2>2. stack'[Len(stack) - 1] = stack[Len(stack)]
        BY <1>6, <2>1
    <2> QED BY <1>1, <1>2, <1>6, <2>2 DEF SearchInv
<1>9. ASSUME NEW k \in 1 .. searched, stack' # <<>> => k < searched
      PROVE  \E ids \in SUBSET Ids(catalog) : IsFinished(ids) /\ catalog[k].id \in ids
    <2>1. CASE k < searched
        BY <1>2, <2>1 DEF SearchInv
    <2>2. CASE ~(k < searched)
        <3>1. k = searched /\ stack' = <<>>
            BY <1>2, <1>9, <2>2 DEF SearchInv
        <3>2. Len(stack) = 1
            BY <1>2, <1>6, <3>1
        <3>3. catalog[k].id = top
            BY <1>1, <1>2, <3>1, <3>2 DEF SearchInv
        <3>4. visited' \in SUBSET Ids(catalog) /\ top \in visited'
            BY <1>3, <1>5 DEF IsFinished
        <3> QED BY <1>5, <3>3, <3>4
    <2> QED BY <2>1, <2>2
<1>10. SearchInv'
    <2>1. IsFinished(visited)'
        <3> HIDE DEF top
        <3>1. IsFinished(visited \union {top})
            BY <1>3, <1>5
        <3> QED BY <1>1, <1>3, <3>1, FinishedNext
    <2>2. (\A k \in 1 .. searched : (stack # <<>> => k < searched) =>
              \E ids \in SUBSET Ids(catalog) : IsFinished(ids) /\ catalog[k].id \in ids)'
        BY <1>1, <1>9, SameCatalog
    <2> QED BY <1>1, <1>2, <1>6, <1>7, <1>8, <2>1, <2>2, SameCatalog DEF SearchInv
<1> QED BY <1>1, <1>10, SameCatalog DEF CatalogInv

LEMMA SearchFromKeeps ==
    ASSUME CatalogInv, SearchFrom
    PROVE  CatalogInv'
<1>1. /\ loaded = "visiting" /\ stack = <<>> /\ searched < Len(catalog)
      /\ searched' = searched + 1 /\ stack' = Enter(catalog[searched + 1].id) /\ visited' = {}
      /\ UNCHANGED <<catalog, loaded>>
    BY DEF SearchFrom
<1>2. SearchInv /\ catalog \in Seq(ToSet(catalog)) /\ ComponentsAreValid
    BY <1>1, CatalogAssumption DEF CatalogInv
<1>3. /\ Len(catalog) \in Nat /\ DOMAIN catalog = 1 .. Len(catalog) /\ searched \in Nat
      /\ searched + 1 \in 1 .. Len(catalog)
    BY <1>1, <1>2 DEF SearchInv
<1> DEFINE root == catalog[searched + 1].id
<1>4. root \in Ids(catalog)
    BY <1>3 DEF Ids
<1>5. stack' \in Seq(Frames) /\ Len(stack') = 1 /\ stack'[1] = [id |-> root, next |-> 1]
    BY <1>1, <1>4 DEF Enter, Frames
<1>6. Dependencies(root) \in Seq(Ids(catalog))
    BY <1>2, <1>4, DependenciesAreListed DEF CatalogInv
<1>7. FrameInv(1)'
    <2>1. Dependencies(stack[1].id)' = Dependencies(root)
        BY <1>1, <1>5, SameCatalog
    <2>2. 1 =< Len(Dependencies(root)) + 1
        BY <1>6
    <2> QED BY <1>1, <1>5, <2>1, <2>2 DEF FrameInv
<1>8. \A k \in 1 .. searched :
          \E ids \in SUBSET Ids(catalog) : IsFinished(ids) /\ catalog[k].id \in ids
    BY <1>1, <1>2 DEF SearchInv
<1>9. SearchInv'
    <2>1. searched' \in 0 .. Len(catalog)' /\ searched' > 0
        BY <1>1, <1>3
    <2>2. \A i \in 1 .. Len(stack') : FrameInv(i)'
        BY <1>5, <1>7
    <2>3. stack' # <<>> /\ stack'[Len(stack')].id = catalog'[searched'].id
        BY <1>1, <1>5
    <2>4. IsFinished(visited)'
        BY <1>1, NothingIsFinished, SameCatalog DEF IsFinished
    <2>5. \A k \in 1 .. searched' : k < searched' => k \in 1 .. searched
        BY <1>1, <1>3
    <2>6. (\A k \in 1 .. searched : (stack # <<>> => k < searched) =>
              \E ids \in SUBSET Ids(catalog) : IsFinished(ids) /\ catalog[k].id \in ids)'
        BY <1>1, <1>8, <2>3, <2>5, SameCatalog
    <2> QED BY <1>1, <1>5, <2>1, <2>2, <2>3, <2>4, <2>6, SameCatalog DEF SearchInv
<1> QED BY <1>1, <1>9, SameCatalog DEF CatalogInv

LEMMA AcceptKeeps ==
    ASSUME CatalogInv, AcceptCatalog
    PROVE  CatalogInv'
<1>1. /\ loaded = "visiting" /\ stack = <<>> /\ searched = Len(catalog)
      /\ loaded' = "accepted" /\ searched' = 0 /\ visited' = {} /\ UNCHANGED <<catalog, stack>>
    BY DEF AcceptCatalog
<1>2. SearchInv /\ catalog \in Seq(ToSet(catalog))
    BY <1>1, CatalogAssumption DEF CatalogInv
<1>3. \A k \in DOMAIN catalog :
          \E ids \in SUBSET Ids(catalog) : IsFinished(ids) /\ catalog[k].id \in ids
    BY <1>1, <1>2 DEF SearchInv
<1>4. HasInstallOrder(catalog)
    BY <1>3, AllAreFinished
<1> QED BY <1>1, <1>4, SameCatalog DEF CatalogInv

LEMMA CheckKeeps ==
    ASSUME CatalogInv, CheckComponents
    PROVE  CatalogInv'
<1>1. /\ loaded = "no" /\ stack = <<>> /\ searched = 0 /\ visited = {}
      /\ loaded' = (IF ComponentsAreValid THEN "visiting" ELSE "refused")
      /\ UNCHANGED <<catalog, searched, stack, visited>>
    BY DEF CheckComponents, CatalogInv
<1>2. catalog \in Seq(ToSet(catalog))
    BY CatalogAssumption DEF CatalogInv
<1>3. SearchInv'
    <2>1. 0 \in 0 .. Len(catalog) /\ 1 .. 0 = {}
        BY <1>2
    <2>2. IsFinished(visited)'
        BY <1>1, NothingIsFinished, SameCatalog DEF IsFinished
    <2>3. <<>> \in Seq(Frames') /\ Len(<<>>) = 0
        OBVIOUS
    <2> QED BY <1>1, <2>1, <2>2, <2>3 DEF SearchInv
<1> QED BY <1>1, <1>3, SameCatalog DEF CatalogInv

LEMMA CatalogKept ==
    ASSUME CatalogInv, UNCHANGED catalogVars PROVE CatalogInv'
<1>1. UNCHANGED <<catalog, loaded, searched, stack, visited>>
    BY DEF catalogVars
<1>2. ASSUME SearchInv PROVE SearchInv'
    <2>1. \A i \in 1 .. Len(stack) : FrameInv(i)'
        BY <1>1, <1>2, SameCatalog DEF SearchInv, FrameInv
    <2>2. IsFinished(visited)'
        BY <1>1, <1>2, SameCatalog DEF SearchInv, IsFinished
    <2> QED BY <1>1, <1>2, <2>1, <2>2, SameCatalog DEF SearchInv
<1> QED BY <1>1, <1>2, SameCatalog DEF CatalogInv

LEMMA LoadKeeps ==
    ASSUME CatalogInv, Load PROVE CatalogInv'
<1>1. stack # <<>> => loaded = "visiting"
    BY DEF CatalogInv
<1>2. CASE CheckComponents
    BY <1>2, CheckKeeps
<1>3. CASE SearchFrom
    BY <1>3, SearchFromKeeps
<1>4. CASE PassVisited
    BY <1>1, <1>4, PassVisitedKeeps DEF PassVisited, AtDependency
<1>5. CASE Visit
    BY <1>1, <1>5, VisitKeeps DEF Visit, AtDependency
<1>6. CASE FindCycle
    BY <1>6, SameCatalog DEF FindCycle, CatalogInv
<1>7. CASE Return
    BY <1>1, <1>7, ReturnKeeps DEF Return
<1>8. CASE AcceptCatalog
    BY <1>8, AcceptKeeps
<1> QED BY <1>2, <1>3, <1>4, <1>5, <1>6, <1>7, <1>8 DEF Load

LEMMA CatalogInitIsSound == CatalogInit => CatalogInv
BY DEF CatalogInit, CatalogInv

LEMMA CatalogTypes == CatalogInv => CatalogTypeOK
<1> SUFFICES ASSUME CatalogInv PROVE CatalogTypeOK
    OBVIOUS
<1>1. CASE loaded = "visiting"
    BY <1>1 DEF CatalogInv, SearchInv, IsFinished, CatalogTypeOK
<1>2. CASE loaded # "visiting"
    <2>1. Len(catalog) \in Nat
        BY CatalogAssumption DEF CatalogInv
    <2>2. 0 \in 0 .. Len(catalog) /\ <<>> \in Seq(Frames)
        BY <2>1
    <2> QED BY <1>2, <2>2 DEF CatalogInv, CatalogTypeOK
<1> QED BY <1>1, <1>2

-----------------------------------------------------------------------------
(* Downloads and payloads.                                                 *)

IsOfVersion(v) ==
    /\ file = hashed /\ total = Len(file) /\ total =< BodyLength(v)
    /\ \A i \in 1 .. total : file[i] = <<v, i>>
    /\ etag \in {NoValue, v}
    /\ phase = "read" => served = [version |-> v, next |-> total + 1]

Loading == phase \in {"read", "restart", "settle"}

\* a server may fall silent before its answer or during it
DownloadInv ==
    /\ Loading => \E v \in Versions : IsOfVersion(v)
    /\ phase = "silent" => NoDownload \/ \E v \in Versions : IsOfVersion(v)
    /\ ~Loading /\ phase # "silent" => NoDownload

IsAt(n) ==
    /\ Len(steps) = Len(Plan(Current)) - n
    /\ \A i \in 1 .. Len(steps) : steps[i] = Plan(Current)[n + i]
    /\ MadeAsPlanned(n)

PlanInv ==
    /\ Loading => steps # <<>> /\ Head(steps).kind = "download"
    /\ phase = "program" => steps # <<>> /\ Head(steps).kind = "program"
    /\ Loading \/ phase \in {"work", "program"} => \E n \in 0 .. Len(Plan(Current)) : IsAt(n)
    /\ staging => phase # "idle" \/ "disk" \in Faults

LEMMA PlanIsSequence == \A c : Plan(c) \in Seq(StepTypes)
<1> TAKE c
<1>1. \A name \in StepNames :
          Download(name) \in Seq(StepTypes) /\ Files(name) \in Seq(StepTypes)
              /\ Program(name) \in Seq(StepTypes)
    BY DEF Download, Files, Program, StepTypes
<1>2. \A s, t \in Seq(StepTypes) : s \o t \in Seq(StepTypes)
    OBVIOUS
<1>3. <<>> \in Seq(StepTypes)
    OBVIOUS
<1> USE DEF StepNames
<1>4. WheelSteps \in Seq(StepTypes)
    <2>1. Files("wheel") \in Seq(StepTypes) /\ Program("uv venv") \in Seq(StepTypes)
        BY <1>1
    <2>2. Program("uv pip install") \in Seq(StepTypes) /\ Files("marker") \in Seq(StepTypes)
        BY <1>1
    <2>3. Program("module probe") \in Seq(StepTypes)
        BY <1>1
    <2> QED BY <2>1, <2>2, <2>3, <1>2 DEF WheelSteps
<1>5. FfmpegSteps \in Seq(StepTypes)
    <2>1. Files("unpack") \in Seq(StepTypes) /\ Files("hashes") \in Seq(StepTypes)
        BY <1>1
    <2>2. Program("ffmpeg") \in Seq(StepTypes) /\ Program("ffprobe") \in Seq(StepTypes)
        BY <1>1
    <2> QED BY <2>1, <2>2, <1>2 DEF FfmpegSteps
<1>6. ReleaseSteps \in Seq(StepTypes)
    <2>1. Download("manifest") \in Seq(StepTypes) /\ Files("manifest") \in Seq(StepTypes)
        BY <1>1
    <2>2. Files("unpack bounded") \in Seq(StepTypes) /\ Files("payload") \in Seq(StepTypes)
        BY <1>1
    <2> QED BY <2>1, <2>2, <1>2 DEF ReleaseSteps
<1>7. StrategySteps(c) \in Seq(StepTypes)
    <2>1. Files("copy") \in Seq(StepTypes) /\ Files("unpack") \in Seq(StepTypes)
        BY <1>1
    <2> QED BY <2>1, <1>4, <1>5, <1>6, Zenon DEF StrategySteps
<1>8. BootstrapSteps(c) \in Seq(StepTypes)
    <2>1. /\ Download("python") \in Seq(StepTypes) /\ Program("python") \in Seq(StepTypes)
          /\ Program("uv python install") \in Seq(StepTypes)
        BY <1>1
    <2> QED BY <2>1, <1>2, <1>3 DEF BootstrapSteps
<1>9. Download("artifact") \in Seq(StepTypes)
    BY <1>1
<1> QED
    BY <1>2, <1>7, <1>8, <1>9, Zenon DEF Plan

\* one more item, at a place after all the others
LEMMA OneMore ==
    ASSUME NEW X, NEW s \in Seq(X), NEW x \in X, NEW places \in SUBSET Nat, NEW n \in Nat,
           NEW at \in InOrder(s, places), \A p \in places : p < n
    PROVE  LET more == [i \in 1 .. Len(s) + 1 |-> IF i = Len(s) + 1 THEN n ELSE at[i]]
           IN  more \in InOrder(Append(s, x), places \union {n})
<1> DEFINE more == [i \in 1 .. Len(s) + 1 |-> IF i = Len(s) + 1 THEN n ELSE at[i]]
<1>1. /\ at \in [1 .. Len(s) -> places]
      /\ \A p \in places : \E i \in 1 .. Len(s) : at[i] = p
      /\ \A i, k \in 1 .. Len(s) : i < k => at[i] < at[k]
    BY DEF InOrder, Surjection
<1>2. DOMAIN Append(s, x) = 1 .. Len(s) + 1 /\ Len(s) \in Nat
    OBVIOUS
<1>3. more \in [1 .. Len(s) + 1 -> places \union {n}]
    BY <1>1, <1>2
<1>4. \A p \in places \union {n} : \E i \in 1 .. Len(s) + 1 : more[i] = p
    <2> TAKE p \in places \union {n}
    <2>1. CASE p = n
        BY <2>1, <1>2
    <2>2. CASE p # n
        <3>1. PICK i \in 1 .. Len(s) : at[i] = p
            BY <1>1, <2>2
        <3> QED BY <3>1, <1>2
    <2> QED BY <2>1, <2>2
<1>5. ASSUME NEW i \in 1 .. Len(s) + 1, NEW k \in 1 .. Len(s) + 1, i < k
      PROVE  more[i] < more[k]
    <2>0. i \in 1 .. Len(s)
        BY <1>2, <1>5
    <2>1. i \in 1 .. Len(s) /\ more[i] = at[i] /\ at[i] \in places /\ at[i] < n
        <3>1. i # Len(s) + 1
            BY <1>2, <2>0
        <3>2. more[i] = at[i]
            BY <3>1
        <3>3. at[i] \in places
            BY <1>1, <2>0
        <3> QED BY <2>0, <3>2, <3>3
    <2>2. CASE k = Len(s) + 1
        BY <2>1, <2>2
    <2>3. CASE k # Len(s) + 1
        <3>1. k \in 1 .. Len(s) /\ more[k] = at[k]
            BY <2>3, <1>2, <1>5
        <3> HIDE DEF more
        <3> QED BY <1>1, <1>5, <2>1, <3>1
    <2> QED BY <2>2, <2>3
<1> QED
    BY <1>2, <1>3, <1>4, <1>5 DEF InOrder, Surjection

LEMMA NextPlace ==
    ASSUME NEW n \in Nat, NEW kind
    PROVE  /\ StepsOf(kind, n) \in SUBSET Nat
           /\ \A p \in StepsOf(kind, n) : p < n + 1
           /\ Plan(Current)[n + 1].kind = kind =>
                  StepsOf(kind, n + 1) = StepsOf(kind, n) \union {n + 1}
           /\ Plan(Current)[n + 1].kind # kind => StepsOf(kind, n + 1) = StepsOf(kind, n)
BY DEF StepsOf

\* bodies
LEMMA BodyLengths == \A v \in Versions : BodyLength(v) \in Nat
BY DEF BodyLength

LEMMA WholeBody ==
    ASSUME InstallTypeOK, NEW v \in Versions, IsOfVersion(v)
    PROVE  BodyIsOneVersion
<1>0. BodyLength(v) \in Nat
    BY DEF BodyLength
<1>1. /\ Body(v) \in [1 .. BodyLength(v) -> Versions \X Nat]
      /\ \A i \in 1 .. BodyLength(v) : Body(v)[i] = <<v, i>>
    BY <1>0 DEF Body
<1>2. Len(Body(v)) = BodyLength(v) /\ Body(v) \in Seq(Versions \X Nat)
    BY <1>0, <1>1
<1>3. /\ Len(file) =< BodyLength(v) /\ file \in Seq(Blocks) /\ Len(file) \in Nat
      /\ \A i \in 1 .. Len(file) : file[i] = <<v, i>>
    BY DEF IsOfVersion, InstallTypeOK
<1>4. SubSeq(file, 1, Len(file)) = SubSeq(Body(v), 1, Len(file))
    <2>1. SubSeq(file, 1, Len(file)) = [i \in 1 .. Len(file) |-> <<v, i>>]
        BY <1>3
    <2>2. \A i \in 1 .. Len(file) : i \in 1 .. BodyLength(v)
        BY <1>0, <1>3
    <2>3. SubSeq(Body(v), 1, Len(file)) = [i \in 1 .. Len(file) |-> <<v, i>>]
        BY <1>0, <1>1, <1>2, <1>3, <2>2
    <2> QED BY <2>1, <2>3
<1>5. IsPrefix(file, Body(v))
    BY <1>2, <1>3, <1>4 DEF IsPrefix
<1> QED
    BY <1>5 DEF BodyIsOneVersion, IsOfVersion

SamePlan == Plan(Current)' = Plan(Current)

LEMMA PlanIsKept == UNCHANGED <<catalog, pending>> => SamePlan
BY DEF SamePlan, Current

LEMMA StepsOfSamePlan ==
    ASSUME SamePlan PROVE \A kind, n : StepsOf(kind, n)' = StepsOf(kind, n)
BY DEF SamePlan, StepsOf

LEMMA SamePlace ==
    ASSUME NEW n, IsAt(n), UNCHANGED <<catalog, pending, steps, kept, ran>>
    PROVE  IsAt(n)'
<1>1. SamePlan
    BY PlanIsKept
<1>2. MadeAsPlanned(n)'
    BY <1>1, StepsOfSamePlan DEF MadeAsPlanned, IsAt, SamePlan
<1> QED BY <1>1, <1>2 DEF IsAt, SamePlan

\* the first of the steps that are left is the next one of the plan
LEMMA HeadIsNext ==
    ASSUME InstallTypeOK, NEW n \in 0 .. Len(Plan(Current)), IsAt(n), steps # <<>>
    PROVE  /\ n + 1 \in 0 .. Len(Plan(Current))
           /\ Head(steps) = Plan(Current)[n + 1] /\ Head(steps) \in StepTypes
           /\ Tail(steps) \in Seq(StepTypes) /\ Len(Tail(steps)) = Len(Plan(Current)) - (n + 1)
           /\ \A i \in 1 .. Len(Tail(steps)) : Tail(steps)[i] = Plan(Current)[n + 1 + i]
<1>1. /\ steps \in Seq(StepTypes) /\ Len(steps) \in Nat /\ Len(steps) > 0
      /\ Len(Plan(Current)) \in Nat
    BY PlanIsSequence DEF InstallTypeOK
<1>2. /\ Len(steps) = Len(Plan(Current)) - n
      /\ \A i \in 1 .. Len(steps) : steps[i] = Plan(Current)[n + i]
    BY DEF IsAt
<1>3. /\ Tail(steps) \in Seq(StepTypes) /\ Len(Tail(steps)) = Len(steps) - 1
      /\ \A i \in 1 .. Len(steps) - 1 : Tail(steps)[i] = steps[i + 1]
    BY <1>1
<1>4. Head(steps) = steps[1] /\ Head(steps) \in StepTypes /\ 1 \in 1 .. Len(steps)
    BY <1>1
<1>5. \A i \in 1 .. Len(steps) - 1 :
          i + 1 \in 1 .. Len(steps) /\ n + (i + 1) = n + 1 + i
    BY <1>1
<1>6. \A i \in 1 .. Len(steps) - 1 : Tail(steps)[i] = Plan(Current)[n + 1 + i]
    BY <1>2, <1>3, <1>5
<1>7. n + 1 \in 0 .. Len(Plan(Current)) /\ Len(Tail(steps)) = Len(Plan(Current)) - (n + 1)
    BY <1>1, <1>2, <1>3
<1> QED BY <1>2, <1>3, <1>4, <1>6, <1>7

LEMMA FilesDone ==
    ASSUME InstallTypeOK, NEW n \in 0 .. Len(Plan(Current)), IsAt(n), steps # <<>>,
           Head(steps).kind = "files",
           steps' = Tail(steps), UNCHANGED <<catalog, pending, kept, ran>>
    PROVE  n + 1 \in 0 .. Len(Plan(Current))' /\ IsAt(n + 1)'
<1>1. SamePlan
    BY PlanIsKept
<1>2. Plan(Current)[n + 1].kind = "files" /\ n \in Nat
    BY HeadIsNext
<1>3. /\ StepsOf("download", n + 1) = StepsOf("download", n)
      /\ StepsOf("program", n + 1) = StepsOf("program", n)
    BY <1>2, NextPlace
<1>4. MadeAsPlanned(n + 1)'
    BY <1>1, <1>3, StepsOfSamePlan DEF MadeAsPlanned, IsAt, SamePlan
<1> QED BY <1>1, <1>4, HeadIsNext DEF IsAt, SamePlan

LEMMA DownloadDone ==
    ASSUME InstallTypeOK, NEW n \in 0 .. Len(Plan(Current)), IsAt(n), steps # <<>>,
           Head(steps).kind = "download",
           <<Head(steps).of, Body("pinned")>> \in StepNames \X Seq(Blocks),
           kept' = Append(kept, <<Head(steps).of, Body("pinned")>>),
           steps' = Tail(steps), UNCHANGED <<catalog, pending, ran>>
    PROVE  n + 1 \in 0 .. Len(Plan(Current))' /\ IsAt(n + 1)'
<1>1. SamePlan
    BY PlanIsKept
<1>2. /\ Plan(Current)[n + 1].kind = "download" /\ Plan(Current)[n + 1].of = Head(steps).of
      /\ n \in Nat
    BY HeadIsNext
<1>3. /\ StepsOf("download", n + 1) = StepsOf("download", n) \union {n + 1}
      /\ StepsOf("program", n + 1) = StepsOf("program", n)
      /\ StepsOf("download", n) \in SUBSET Nat
      /\ \A p \in StepsOf("download", n) : p < n + 1
    BY <1>2, NextPlace
<1> DEFINE item == <<Head(steps).of, Body("pinned")>>
<1>4. PICK at \in InOrder(kept, StepsOf("download", n)) :
          \A i \in DOMAIN kept : kept[i] = <<Plan(Current)[at[i]].of, Body("pinned")>>
    BY DEF IsAt, MadeAsPlanned
<1> DEFINE more == [i \in 1 .. Len(kept) + 1 |-> IF i = Len(kept) + 1 THEN n + 1 ELSE at[i]]
<1>5. kept \in Seq(StepNames \X Seq(Blocks)) /\ n + 1 \in Nat
    BY <1>2 DEF InstallTypeOK
<1>6. more \in InOrder(Append(kept, item), StepsOf("download", n + 1))
    <2> HIDE DEF item
    <2>1. item \in StepNames \X Seq(Blocks)
        BY DEF item
    <2>2. more \in InOrder(Append(kept, item), StepsOf("download", n) \union {n + 1})
        BY <1>3, <1>4, <1>5, <2>1, OneMore
    <2> QED BY <1>3, <2>2
<1>7. /\ DOMAIN kept = 1 .. Len(kept) /\ Len(kept) \in Nat
      /\ DOMAIN Append(kept, item) = 1 .. Len(kept) + 1
      /\ Append(kept, item)[Len(kept) + 1] = item
      /\ \A i \in 1 .. Len(kept) : Append(kept, item)[i] = kept[i]
    BY <1>5
<1>8. ASSUME NEW i \in DOMAIN Append(kept, item)
      PROVE  Append(kept, item)[i] = <<Plan(Current)[more[i]].of, Body("pinned")>>
    <2>1. CASE i = Len(kept) + 1
        <3>1. more[i] = n + 1
            BY <2>1, <1>7
        <3> HIDE DEF more
        <3> QED BY <1>2, <1>7, <2>1, <3>1
    <2>2. CASE i # Len(kept) + 1
        <3>1. i \in 1 .. Len(kept)
            BY <2>2, <1>7, <1>8
        <3>2. more[i] = at[i]
            BY <3>1, <2>2, <1>7
        <3> HIDE DEF more
        <3> QED BY <1>4, <1>7, <3>1, <3>2
    <2> QED BY <2>1, <2>2
<1>9. MadeAsPlanned(n + 1)'
    <2> HIDE DEF more
    <2>1. \E a \in InOrder(Append(kept, item), StepsOf("download", n + 1)) :
              \A i \in DOMAIN Append(kept, item) :
                  Append(kept, item)[i] = <<Plan(Current)[a[i]].of, Body("pinned")>>
        BY <1>6, <1>8
    <2> HIDE DEF item
    <2>2. kept' = Append(kept, item)
        BY DEF item
    <2>3. StepsOf("program", n + 1)' = StepsOf("program", n)
        BY <1>1, <1>3, StepsOfSamePlan
    <2>4. StepsOf("download", n + 1)' = StepsOf("download", n + 1)
        BY <1>1, StepsOfSamePlan
    <2>5. InOrder(ran, StepsOf("program", n)) # {} /\ \A i \in DOMAIN ran : ran[i] = "succeeded"
        BY DEF IsAt, MadeAsPlanned
    <2> QED BY <1>1, <2>1, <2>2, <2>3, <2>4, <2>5 DEF MadeAsPlanned, SamePlan
<1> QED BY <1>1, <1>9, HeadIsNext DEF IsAt, SamePlan

LEMMA ProgramDone ==
    ASSUME InstallTypeOK, NEW n \in 0 .. Len(Plan(Current)), IsAt(n), steps # <<>>,
           Head(steps).kind = "program",
           ran' = Append(ran, "succeeded"),
           steps' = Tail(steps), UNCHANGED <<catalog, pending, kept>>
    PROVE  n + 1 \in 0 .. Len(Plan(Current))' /\ IsAt(n + 1)'
<1>1. SamePlan
    BY PlanIsKept
<1>2. Plan(Current)[n + 1].kind = "program" /\ n \in Nat
    BY HeadIsNext
<1>3. /\ StepsOf("program", n + 1) = StepsOf("program", n) \union {n + 1}
      /\ StepsOf("download", n + 1) = StepsOf("download", n)
      /\ StepsOf("program", n) \in SUBSET Nat
      /\ \A p \in StepsOf("program", n) : p < n + 1
    BY <1>2, NextPlace
<1>4. PICK at : at \in InOrder(ran, StepsOf("program", n))
    BY DEF IsAt, MadeAsPlanned
<1>5. ran \in Seq(Verdicts) /\ n + 1 \in Nat /\ "succeeded" \in Verdicts
    BY <1>2 DEF InstallTypeOK, Verdicts, Exits
<1>6. InOrder(Append(ran, "succeeded"), StepsOf("program", n + 1)) # {}
    BY <1>3, <1>4, <1>5, OneMore
<1>7. \A i \in DOMAIN Append(ran, "succeeded") : Append(ran, "succeeded")[i] = "succeeded"
    <2>1. \A i \in DOMAIN ran : ran[i] = "succeeded"
        BY DEF IsAt, MadeAsPlanned
    <2> QED BY <2>1, <1>5
<1>8. MadeAsPlanned(n + 1)'
    <2>3. StepsOf("download", n + 1)' = StepsOf("download", n)
        BY <1>1, <1>3, StepsOfSamePlan
    <2>4. StepsOf("program", n + 1)' = StepsOf("program", n + 1)
        BY <1>1, StepsOfSamePlan
    <2>5. \E a \in InOrder(kept, StepsOf("download", n)) :
              \A i \in DOMAIN kept : kept[i] = <<Plan(Current)[a[i]].of, Body("pinned")>>
        BY DEF IsAt, MadeAsPlanned
    <2> QED BY <1>1, <1>6, <1>7, <2>3, <2>4, <2>5 DEF MadeAsPlanned, SamePlan
<1> QED BY <1>1, <1>8, HeadIsNext DEF IsAt, SamePlan

Sound == ProcessTypeOK /\ InstallTypeOK /\ DownloadInv /\ PlanInv

Active == Loading \/ phase \in {"work", "program"}

LEMMA FailSound ==
    ASSUME Sound, ProcessTypeOK', NEW from, Fail(from)
    PROVE  Sound'
<1>1. InstallTypeOK'
    <2>1. /\ steps' \in Seq(StepTypes) /\ hashed' \in Seq(Blocks) /\ file' \in Seq(Blocks)
          /\ kept' \in Seq(StepNames \X Seq(Blocks)) /\ ran' \in Seq(Verdicts)
        BY DEF Fail
    <2>2. staging' \in BOOLEAN
        BY DEF Fail
    <2>3. resumes' \in 0 .. ResumeLimit /\ restarts' \in 0 .. 1 /\ total' \in Nat
        BY DEF Fail, ResumeLimit
    <2>4. /\ phase' \in Phases
          /\ served' \in [version : Versions, next : Nat] \union {NoValue}
          /\ etag' \in Versions \union {NoValue}
        BY DEF Fail, Goto, Phases, Sound, InstallTypeOK
    <2> QED BY <2>1, <2>2, <2>3, <2>4 DEF InstallTypeOK
<1>2. DownloadInv'
    BY DEF Fail, Goto, DownloadInv, Loading, NoDownload
<1>3. PlanInv'
    BY DEF Fail, Goto, PlanInv, Loading
<1> QED BY <1>1, <1>2, <1>3 DEF Sound

\* the thread stays at its place of the plan
LEMMA PlanStays ==
    ASSUME PlanInv, Active, UNCHANGED <<catalog, pending, steps, kept, ran, staging>>,
           phase' # "idle",
           Loading' => steps # <<>> /\ Head(steps).kind = "download",
           phase' = "program" => steps # <<>> /\ Head(steps).kind = "program"
    PROVE  PlanInv'
<1>1. Len(Plan(Current))' = Len(Plan(Current))
    BY PlanIsKept DEF SamePlan
<1>2. (\E n \in 0 .. Len(Plan(Current)) : IsAt(n))'
    <2>1. PICK n \in 0 .. Len(Plan(Current)) : IsAt(n)
        BY DEF PlanInv, Active
    <2>2. IsAt(n)'
        BY <2>1, SamePlace
    <2> QED BY <1>1, <2>1, <2>2
<1> QED BY <1>2 DEF PlanInv

LEMMA BeginSound == ASSUME Sound, ProcessTypeOK', Begin PROVE Sound'
<1> USE DEF Begin, Goto, jobVars, catalogVars, downloadVars
<1>1. InstallTypeOK'
    BY PlanIsSequence DEF Sound, InstallTypeOK, Phases
<1>2. DownloadInv'
    BY DEF Sound, DownloadInv, Loading, NoDownload
<1>3. IsAt(0)'
    <2>1. SamePlan
        BY PlanIsKept
    <2>2. steps' = Plan(Current) /\ Plan(Current) \in Seq(StepTypes)
        BY PlanIsSequence
    <2>3. Len(steps') = Len(Plan(Current)) - 0
        BY <2>2
    <2>4. \A i \in 1 .. Len(steps') : steps'[i] = Plan(Current)[0 + i]
        BY <2>2
    <2>5. \A kind : StepsOf(kind, 0)' = {}
        BY DEF StepsOf
    <2>6. <<>> \in InOrder(<<>>, {})
        BY DEF InOrder, Surjection
    <2>7. MadeAsPlanned(0)'
        <3>1. kept' = <<>> /\ ran' = <<>> /\ DOMAIN kept' = {} /\ DOMAIN ran' = {}
            OBVIOUS
        <3>2. /\ <<>> \in InOrder(kept, StepsOf("download", 0))'
              /\ <<>> \in InOrder(ran, StepsOf("program", 0))'
            BY <2>5, <2>6, <3>1
        <3> QED BY <3>1, <3>2 DEF MadeAsPlanned
    <2> QED BY <2>1, <2>3, <2>4, <2>7 DEF IsAt, SamePlan
<1>4. 0 \in 0 .. Len(Plan(Current))'
    BY PlanIsSequence, PlanIsKept DEF SamePlan
<1>5. PlanInv'
    BY <1>3, <1>4 DEF PlanInv, Loading
<1> QED BY <1>1, <1>2, <1>5 DEF Sound

LEMMA RequestSound == ASSUME Sound, ProcessTypeOK', Request PROVE Sound'
<1>1. PICK v \in VersionsServed : \E tag \in ETags(v) : Accept(v, tag)
    BY Zenon DEF Request
<1>2. PICK tag \in ETags(v) : Accept(v, tag)
    BY <1>1
<1> USE DEF Request, AtStep, Accept, jobVars, catalogVars, stagingVars
<1>3. v \in Versions /\ tag \in {NoValue, v}
    BY DEF VersionsServed, Versions, ETags
<1>4. InstallTypeOK'
    BY <1>2, <1>3 DEF Sound, InstallTypeOK, Phases, ResumeLimit
<1>5. IsOfVersion(v)'
    BY <1>2, <1>3, BodyLengths DEF IsOfVersion
<1>6. DownloadInv'
    BY <1>3, <1>5 DEF DownloadInv, Loading
<1>7. PlanInv'
    <2>1. Active /\ phase' = "read" /\ PlanInv
        BY DEF Active, Sound
    <2> QED BY <2>1, PlanStays
<1> QED BY <1>4, <1>6, <1>7 DEF Sound

LEMMA RestartSound == ASSUME Sound, ProcessTypeOK', Restart PROVE Sound'
<1>1. PICK v \in VersionsServed : \E tag \in ETags(v) : Accept(v, tag)
    BY Zenon DEF Restart
<1>2. PICK tag \in ETags(v) : Accept(v, tag)
    BY <1>1
<1> USE DEF Restart, Goto, Accept, jobVars, catalogVars, stagingVars
<1>3. v \in Versions /\ tag \in {NoValue, v}
    BY DEF VersionsServed, Versions, ETags
<1>4. InstallTypeOK'
    BY <1>2, <1>3 DEF Sound, InstallTypeOK, Phases, ResumeLimit
<1>5. IsOfVersion(v)'
    BY <1>2, <1>3, BodyLengths DEF IsOfVersion
<1>6. DownloadInv'
    BY <1>3, <1>5 DEF DownloadInv, Loading
<1>7. PlanInv'
    <2>1. Active /\ phase' = "read" /\ PlanInv /\ Loading
        BY DEF Active, Sound, Loading
    <2>2. steps # <<>> /\ Head(steps).kind = "download"
        BY <2>1 DEF PlanInv
    <2> QED BY <2>1, <2>2, PlanStays
<1> QED BY <1>4, <1>6, <1>7 DEF Sound

\* what the thread is loading, it goes on with
LEMMA LoadingStays ==
    ASSUME Sound, Loading, Loading', UNCHANGED <<catalog, pending, steps, kept, ran, staging>>
    PROVE  PlanInv'
<1>1. Active /\ phase' # "idle" /\ phase' # "program" /\ PlanInv
    BY DEF Active, Loading, Sound
<1> QED BY <1>1, PlanStays DEF PlanInv

LEMMA ReadBlockSound == ASSUME Sound, ProcessTypeOK', ReadBlock PROVE Sound'
<1> USE DEF ReadBlock, jobVars, catalogVars, stagingVars
<1>1. PICK v \in Versions : IsOfVersion(v)
    BY DEF Sound, DownloadInv, Loading
<1>2. served = [version |-> v, next |-> total + 1] /\ total \in Nat /\ total + 1 \in Nat
    BY <1>1 DEF IsOfVersion, Sound, InstallTypeOK
<1> DEFINE block == <<v, total + 1>>
<1>3. /\ total + 1 =< BodyLength(v)
      /\ hashed' = Append(hashed, block) /\ file' = Append(file, block)
    BY <1>2 DEF HasMore
<1>4. block \in Blocks
    BY <1>2 DEF Blocks
<1>5. served' = [version |-> v, next |-> total + 2]
    BY <1>2
<1>6. InstallTypeOK'
    <2> HIDE DEF block
    <2>1. hashed' \in Seq(Blocks) /\ file' \in Seq(Blocks)
        <3>1. hashed \in Seq(Blocks) /\ file \in Seq(Blocks)
            BY DEF Sound, InstallTypeOK
        <3>2. Append(hashed, block) \in Seq(Blocks) /\ Append(file, block) \in Seq(Blocks)
            BY <1>4, <3>1
        <3> HIDE DEF ReadBlock
        <3> QED BY <1>3, <3>2
    <2>2. served' \in [version : Versions, next : Nat]
        BY <1>2, <1>5
    <2> QED BY <1>2, <2>1, <2>2 DEF Sound, InstallTypeOK
<1>7. IsOfVersion(v)'
    <2>1. file = hashed /\ total = Len(file) /\ etag \in {NoValue, v} /\ file \in Seq(Blocks)
        BY <1>1 DEF IsOfVersion, Sound, InstallTypeOK
    <2>2. \A i \in 1 .. total : file[i] = <<v, i>>
        BY <1>1 DEF IsOfVersion
    <2>3. \A i \in 1 .. total + 1 : Append(file, block)[i] = <<v, i>>
        <3> TAKE i \in 1 .. total + 1
        <3>1. CASE i = total + 1
            <4>1. Append(file, block)[total + 1] = block
                BY <1>4, <2>1
            <4> QED BY <4>1, <3>1
        <3>2. CASE i # total + 1
            <4>1. i \in 1 .. total
                BY <1>2, <3>2
            <4> HIDE DEF block
            <4>2. Append(file, block)[i] = file[i]
                BY <1>4, <2>1, <4>1
            <4> QED BY <4>1, <4>2, <2>2
        <3> QED BY <3>1, <3>2
    <2>4. Len(Append(file, block)) = total + 1
        <3> HIDE DEF block
        <3> QED BY <1>4, <2>1
    <2> HIDE DEF block
    <2>5. total' + 1 = total + 2
        BY <1>2
    <2> QED BY <1>3, <1>5, <2>1, <2>3, <2>4, <2>5 DEF IsOfVersion
<1>8. DownloadInv' /\ PlanInv'
    <2>1. Loading /\ Loading'
        BY DEF Loading
    <2> QED BY <1>7, <2>1, LoadingStays DEF DownloadInv
<1> QED BY <1>6, <1>8 DEF Sound

LEMMA EndOfBodySound == ASSUME Sound, ProcessTypeOK', EndOfBody PROVE Sound'
<1> USE DEF EndOfBody, Goto, jobVars, catalogVars, stagingVars, downloadVars
<1>1. InstallTypeOK'
    BY DEF Sound, InstallTypeOK, Phases
<1>2. Loading /\ Loading'
    BY DEF Loading
<1>3. DownloadInv'
    BY <1>2 DEF Sound, DownloadInv, IsOfVersion
<1> QED BY <1>1, <1>2, <1>3, LoadingStays DEF Sound

LEMMA FallsSilentSound == ASSUME Sound, ProcessTypeOK', FallsSilent PROVE Sound'
<1> USE DEF FallsSilent, AtStep, jobVars, catalogVars, stagingVars, downloadVars
<1>1. InstallTypeOK'
    BY DEF Sound, InstallTypeOK, Phases
<1>2. DownloadInv'
    <2>1. CASE Loading
        BY <2>1 DEF Sound, DownloadInv, Loading, IsOfVersion
    <2>2. CASE ~Loading
        BY <2>2 DEF Sound, DownloadInv, Loading, NoDownload
    <2> QED BY <2>1, <2>2
<1>3. PlanInv'
    BY DEF Sound, PlanInv, Loading
<1> QED BY <1>1, <1>2, <1>3 DEF Sound

LEMMA BreakOffSound == ASSUME Sound, ProcessTypeOK', BreakOff PROVE Sound'
<1> USE DEF BreakOff, Broken, jobVars, catalogVars, stagingVars, downloadVars
<1>1. InstallTypeOK'
    BY DEF Sound, InstallTypeOK, Phases
<1>2. Loading /\ Loading'
    BY DEF Loading
<1>3. DownloadInv'
    BY <1>2 DEF Sound, DownloadInv, IsOfVersion
<1> QED BY <1>1, <1>2, <1>3, LoadingStays DEF Sound

\* a connection that is resumed goes on with the version of the file, as its ETag says
LEMMA ResumeSound == ASSUME Sound, ProcessTypeOK', Resume PROVE Sound'
<1> USE DEF Resume, Broken, jobVars, catalogVars, stagingVars
<1>1. Loading /\ Loading'
    BY DEF Loading
<1>2. PICK v \in Versions : IsOfVersion(v)
    BY <1>1 DEF Sound, DownloadInv
<1>3. etag = v /\ total \in Nat /\ resumes + 1 \in 0 .. ResumeLimit
    BY <1>2 DEF MayResume, IsOfVersion, Sound, InstallTypeOK, ResumeLimit
<1>4. InstallTypeOK' /\ IsOfVersion(v)'
    <2>1. CASE phase' = "restart" /\ UNCHANGED served
        <3>1. InstallTypeOK'
            BY <1>3, <2>1 DEF Sound, InstallTypeOK, Phases
        <3>2. IsOfVersion(v)'
            BY <1>2, <2>1 DEF IsOfVersion
        <3> QED BY <3>1, <3>2
    <2>2. ASSUME NEW status \in {200, 206}, NEW w \in Versions, NEW first \in {1, total + 1},
                 NEW tag \in ETags(w), ResumeIsValid(status, tag, first),
                 served' = [version |-> w, next |-> first], UNCHANGED phase
          PROVE  InstallTypeOK' /\ IsOfVersion(v)'
        <3>1. tag = v /\ first = total + 1
            BY <2>2, <1>3 DEF ResumeIsValid
        <3>2. w = v
            BY <3>1, PayloadAssumption DEF ETags
        <3>3. served' = [version |-> v, next |-> total + 1] /\ total + 1 \in Nat
            BY <2>2, <3>1, <3>2, <1>3
        <3>4. InstallTypeOK'
            BY <1>3, <2>2, <3>3 DEF Sound, InstallTypeOK
        <3>5. IsOfVersion(v)'
            BY <1>2, <3>3 DEF IsOfVersion
        <3> QED BY <3>4, <3>5
    <2> QED BY <2>1, <2>2
<1> QED BY <1>1, <1>4, LoadingStays DEF Sound, DownloadInv

LEMMA SettleSound == ASSUME Sound, ProcessTypeOK', Settle PROVE Sound'
<1> USE DEF Settle, Goto, jobVars, catalogVars
<1>1. Loading
    BY DEF Loading
<1>2. steps # <<>> /\ Head(steps).kind = "download"
    BY <1>1 DEF Sound, PlanInv
<1>3. PICK n \in 0 .. Len(Plan(Current)) : IsAt(n)
    BY <1>1 DEF Sound, PlanInv
<1>4. Head(steps) \in StepTypes /\ Tail(steps) \in Seq(StepTypes)
    BY <1>2, <1>3, HeadIsNext DEF Sound
<1>5. file = Body("pinned") /\ file \in Seq(Blocks)
    BY <1>1 DEF DigestMatches, Sound, InstallTypeOK, DownloadInv, IsOfVersion
<1>6. <<Head(steps).of, Body("pinned")>> \in StepNames \X Seq(Blocks)
    BY <1>4, <1>5 DEF StepTypes
<1>7. InstallTypeOK'
    <2>1. kept' \in Seq(StepNames \X Seq(Blocks))
        BY <1>5, <1>6 DEF Sound, InstallTypeOK
    <2> QED BY <1>4, <2>1 DEF Sound, InstallTypeOK, Phases, ResumeLimit
<1>8. DownloadInv'
    BY DEF DownloadInv, Loading, NoDownload
<1>9. n + 1 \in 0 .. Len(Plan(Current))' /\ IsAt(n + 1)'
    <2>1. kept' = Append(kept, <<Head(steps).of, Body("pinned")>>)
        BY <1>5
    <2> QED BY <1>2, <1>3, <1>6, <2>1, DownloadDone DEF Sound
<1>10. PlanInv'
    BY <1>9 DEF PlanInv, Loading
<1> QED BY <1>7, <1>8, <1>10 DEF Sound

LEMMA DoFilesSound == ASSUME Sound, ProcessTypeOK', DoFiles PROVE Sound'
<1> USE DEF DoFiles, AtStep, jobVars, catalogVars, stagingVars, downloadVars
<1>1. PICK n \in 0 .. Len(Plan(Current)) : IsAt(n)
    BY DEF Sound, PlanInv
<1>2. Tail(steps) \in Seq(StepTypes)
    BY <1>1, HeadIsNext DEF Sound
<1>3. InstallTypeOK'
    BY <1>2 DEF Sound, InstallTypeOK
<1>4. DownloadInv'
    BY DEF Sound, DownloadInv, Loading, NoDownload
<1>5. n + 1 \in 0 .. Len(Plan(Current))' /\ IsAt(n + 1)'
    BY <1>1, FilesDone DEF Sound
<1>6. PlanInv'
    BY <1>5 DEF PlanInv, Loading
<1> QED BY <1>3, <1>4, <1>6 DEF Sound

LEMMA RunProgramSound == ASSUME Sound, ProcessTypeOK', RunProgram PROVE Sound'
<1> USE DEF RunProgram, AtStep, jobVars, catalogVars, stagingVars, downloadVars
<1>1. InstallTypeOK'
    BY DEF Sound, InstallTypeOK, Phases
<1>2. DownloadInv'
    BY DEF Sound, DownloadInv, Loading, NoDownload
<1>3. PlanInv'
    BY PlanStays DEF Sound, Active, Loading
<1> QED BY <1>1, <1>2, <1>3 DEF Sound

LEMMA ProgramEndsSound == ASSUME Sound, ProcessTypeOK', ProgramEnds PROVE Sound'
<1> USE DEF ProgramEnds, Goto, jobVars, catalogVars, downloadVars
<1>1. PICK n \in 0 .. Len(Plan(Current)) : IsAt(n)
    BY DEF Sound, PlanInv
<1>2. steps # <<>> /\ Head(steps).kind = "program"
    BY DEF Sound, PlanInv
<1>3. Tail(steps) \in Seq(StepTypes)
    BY <1>1, <1>2, HeadIsNext DEF Sound
<1>4. InstallTypeOK'
    <2>1. ran' \in Seq(Verdicts)
        BY DEF Sound, InstallTypeOK, ProcessTypeOK
    <2> QED BY <1>3, <2>1 DEF Sound, InstallTypeOK, Phases
<1>5. DownloadInv'
    BY DEF Sound, DownloadInv, Loading, NoDownload
<1>6. n + 1 \in 0 .. Len(Plan(Current))' /\ IsAt(n + 1)'
    <2>1. ran' = Append(ran, "succeeded")
        BY DEF ProgramSucceeded
    <2> QED BY <1>1, <1>2, <2>1, ProgramDone DEF Sound
<1>7. PlanInv'
    BY <1>6 DEF PlanInv, Loading
<1> QED BY <1>4, <1>5, <1>7 DEF Sound

LEMMA ThreadDiesSound == ASSUME Sound, ProcessTypeOK', ThreadDies PROVE Sound'
<1> USE DEF ThreadDies, Goto, jobVars, catalogVars, stagingVars, downloadVars
<1>1. InstallTypeOK'
    BY DEF Sound, InstallTypeOK, Phases
<1>2. DownloadInv'
    BY DEF Sound, DownloadInv, Loading, NoDownload
<1>3. PlanInv'
    BY DEF Sound, PlanInv, Loading
<1> QED BY <1>1, <1>2, <1>3 DEF Sound

LEMMA SealSound == ASSUME Sound, ProcessTypeOK', Seal PROVE Sound'
<1> USE DEF Seal, downloadVars
<1>1. InstallTypeOK'
    BY DEF Sound, InstallTypeOK, Phases
<1>2. DownloadInv'
    BY DEF Sound, DownloadInv, Loading, NoDownload
<1>3. PlanInv'
    BY DEF Sound, PlanInv, Loading
<1> QED BY <1>1, <1>2, <1>3 DEF Sound

\* what the manager and the process do beside the thread
LEMMA BesideSound ==
    ASSUME Sound, ProcessTypeOK',
           UNCHANGED <<phase, steps, downloadVars, stagingVars, catalog>>,
           pending' = pending \/ phase = "idle"
    PROVE  Sound'
<1> USE DEF stagingVars, downloadVars
<1>1. InstallTypeOK'
    BY DEF Sound, InstallTypeOK
<1>2. DownloadInv'
    BY DEF Sound, DownloadInv, Loading, NoDownload, IsOfVersion
<1>3. PlanInv'
    <2>1. CASE phase = "idle"
        BY <2>1 DEF Sound, PlanInv, Loading
    <2>2. CASE phase \in {"dead", "silent"}
        BY <2>2 DEF Sound, PlanInv, Loading
    <2>3. CASE phase \notin {"idle", "dead", "silent"}
        <3>1. Active /\ pending' = pending
            BY <2>3 DEF Active, Loading, Sound, InstallTypeOK, Phases
        <3> QED BY <2>3, <3>1, PlanStays DEF Sound, PlanInv, Loading
    <2> QED BY <2>1, <2>2, <2>3
<1> QED BY <1>1, <1>2, <1>3 DEF Sound

PayloadInv == Sound /\ ProcessInv /\ CatalogInv

\* only load writes the catalog's state, and none writes the catalog
LEMMA ThreadLeavesCatalog == Thread => UNCHANGED catalogVars
BY DEF Thread, Begin, BeginIsCancelled, Request, RequestFails, ReadBlock, ReadStops, EndOfBody,
    Resume, BreakOff, Restart, GiveUp, FallsSilent, Settle, SettleFails, DoFiles, DoFilesFails,
    RunProgram, ProgramEnds, ProgramFails, ThreadDies, Seal, SealFails, Fail, jobVars

LEMMA LoadLeavesCatalog == Load => UNCHANGED catalog
BY DEF Load, CheckComponents, SearchFrom, PassVisited, Visit, FindCycle, Return, AcceptCatalog

LEMMA PayloadInitIsSound == Init => PayloadInv
<1> SUFFICES ASSUME Init PROVE PayloadInv
    OBVIOUS
<1>1. ProcessInv
    BY ProcessInitIsSound DEF Init
<1>2. InstallTypeOK
    <2>1. ProcessTypeOK
        BY <1>1 DEF ProcessInv
    <2>2. /\ steps \in Seq(StepTypes) /\ hashed \in Seq(Blocks) /\ file \in Seq(Blocks)
          /\ kept \in Seq(StepNames \X Seq(Blocks)) /\ ran \in Seq(Verdicts)
        BY DEF Init, NoDownload
    <2>3. resumes \in 0 .. ResumeLimit /\ restarts \in 0 .. 1 /\ total \in Nat
        BY DEF Init, NoDownload, ResumeLimit
    <2>4. /\ phase \in Phases /\ staging \in BOOLEAN
          /\ served \in [version : Versions, next : Nat] \union {NoValue}
          /\ etag \in Versions \union {NoValue}
        BY DEF Init, NoDownload, Phases
    <2> QED BY <2>1, <2>2, <2>3, <2>4 DEF InstallTypeOK
<1>3. DownloadInv
    BY DEF Init, DownloadInv, Loading
<1>4. PlanInv
    BY DEF Init, PlanInv, Loading
<1>5. CatalogInv
    BY CatalogInitIsSound DEF Init
<1> QED BY <1>1, <1>2, <1>3, <1>4, <1>5 DEF PayloadInv, Sound, ProcessInv

\* every step of an install, seen by its processes
LEMMA StepIsACall == ProcessTypeOK /\ [Next]_vars => [Calls]_allVars
<1> SUFFICES ASSUME ProcessTypeOK, [Next]_vars PROVE [Calls]_allVars
    OBVIOUS
<1>1. cancelled \in BOOLEAN
    BY DEF ProcessTypeOK
<1>2. CASE Loads
    BY <1>2 DEF Loads, allVars
<1>3. ASSUME NEW request \in Requests, NEW digests \in {{}, {"current"}}, Start(request, digests)
      PROVE  [Calls]_allVars
    BY <1>3 DEF Start, Calls, CancelFlag
<1>4. CASE Cancel
    BY <1>4 DEF Cancel, Calls, CancelFlag
<1>5. CASE Thread
    <2>1. CASE RunProgram
        BY <2>1 DEF RunProgram, Calls, IsCancellable
    <2>2. CASE ProgramEnds \/ ProgramFails \/ ThreadDies
        BY <2>2 DEF ProgramEnds, ProgramFails, ThreadDies, Calls
    <2>3. CASE Begin \/ BeginIsCancelled \/ Request \/ RequestFails
        BY <2>3 DEF Begin, BeginIsCancelled, Request, RequestFails, allVars
    <2>4. CASE ReadBlock \/ ReadStops \/ EndOfBody \/ Resume \/ BreakOff
        BY <2>4 DEF ReadBlock, ReadStops, EndOfBody, Resume, BreakOff, allVars
    <2>5. CASE Restart \/ GiveUp \/ FallsSilent \/ Settle \/ SettleFails
        BY <2>5 DEF Restart, GiveUp, FallsSilent, Settle, SettleFails, allVars
    <2>6. CASE DoFiles \/ DoFilesFails \/ Seal \/ SealFails
        BY <2>6 DEF DoFiles, DoFilesFails, Seal, SealFails, allVars
    <2> QED BY <1>5, <2>1, <2>2, <2>3, <2>4, <2>5, <2>6 DEF Thread
<1>6. CASE ProgramRuns
    BY <1>6 DEF ProgramRuns, Calls
<1>7. CASE UNCHANGED vars
    BY <1>7 DEF vars, allVars
<1> QED BY <1>2, <1>3, <1>4, <1>5, <1>6, <1>7 DEF Next

\* every action by itself
LEMMA PayloadStepIsSound == PayloadInv /\ [Next]_vars => PayloadInv'
<1> SUFFICES ASSUME PayloadInv, [Next]_vars PROVE PayloadInv'
    OBVIOUS
<1>1. Sound /\ ProcessInv /\ CatalogInv
    BY DEF PayloadInv
<1>2. ProcessInv'
    BY <1>1, StepIsACall, ProcessStepIsSound DEF Sound
<1>3. ProcessTypeOK'
    BY <1>2 DEF ProcessInv
<1>4. CASE Loads
    <2>1. CatalogInv'
        BY <1>1, <1>4, LoadKeeps DEF Loads
    <2>2. Sound'
        BY <1>1, <1>3, <1>4, LoadLeavesCatalog, BesideSound DEF Loads
    <2> QED BY <1>2, <2>1, <2>2 DEF PayloadInv
<1>5. ASSUME NEW request \in Requests, NEW digests \in {{}, {"current"}}, Start(request, digests)
      PROVE  PayloadInv'
    <2>1. phase = "idle" /\ UNCHANGED catalogVars /\ UNCHANGED catalog
        BY <1>5 DEF Start, catalogVars
    <2>2. Sound'
        BY <1>1, <1>3, <1>5, <2>1, BesideSound DEF Start
    <2> QED BY <1>1, <1>2, <2>1, <2>2, CatalogKept DEF PayloadInv
<1>6. CASE Cancel
    <2>1. UNCHANGED catalogVars /\ UNCHANGED <<catalog, pending>>
        BY <1>6 DEF Cancel, jobVars, catalogVars
    <2>2. Sound'
        BY <1>1, <1>3, <1>6, <2>1, BesideSound DEF Cancel
    <2> QED BY <1>1, <1>2, <2>1, <2>2, CatalogKept DEF PayloadInv
<1>7. CASE ProgramRuns
    <2>1. UNCHANGED catalogVars /\ UNCHANGED <<catalog, pending>>
        BY <1>7 DEF ProgramRuns, jobVars, catalogVars
    <2>2. Sound'
        BY <1>1, <1>3, <1>7, <2>1, BesideSound DEF ProgramRuns
    <2> QED BY <1>1, <1>2, <2>1, <2>2, CatalogKept DEF PayloadInv
<1>8. CASE UNCHANGED vars
    <2>1. UNCHANGED catalogVars /\ UNCHANGED <<catalog, pending>>
        BY <1>8 DEF vars, jobVars, catalogVars
    <2>2. Sound'
        BY <1>1, <1>3, <1>8, <2>1, BesideSound DEF vars
    <2> QED BY <1>1, <1>2, <2>1, <2>2, CatalogKept DEF PayloadInv
<1>9. CASE Thread
    <2> SUFFICES Sound'
        BY <1>1, <1>2, <1>9, ThreadLeavesCatalog, CatalogKept DEF PayloadInv
    <2>1. CASE BeginIsCancelled \/ RequestFails \/ ReadStops \/ GiveUp
        BY <1>1, <1>3, <2>1, FailSound DEF BeginIsCancelled, RequestFails, ReadStops, GiveUp
    <2>2. CASE SettleFails \/ DoFilesFails \/ ProgramFails \/ SealFails
        BY <1>1, <1>3, <2>2, FailSound DEF SettleFails, DoFilesFails, ProgramFails, SealFails
    <2>3. CASE Begin
        BY <1>1, <1>3, <2>3, BeginSound
    <2>4. CASE Request \/ Restart
        BY <1>1, <1>3, <2>4, RequestSound, RestartSound
    <2>5. CASE ReadBlock \/ EndOfBody
        BY <1>1, <1>3, <2>5, ReadBlockSound, EndOfBodySound
    <2>6. CASE Resume \/ BreakOff \/ FallsSilent
        BY <1>1, <1>3, <2>6, ResumeSound, BreakOffSound, FallsSilentSound
    <2>7. CASE Settle \/ DoFiles
        BY <1>1, <1>3, <2>7, SettleSound, DoFilesSound
    <2>8. CASE RunProgram \/ ProgramEnds \/ ThreadDies
        BY <1>1, <1>3, <2>8, RunProgramSound, ProgramEndsSound, ThreadDiesSound
    <2>9. CASE Seal
        BY <1>1, <1>3, <2>9, SealSound
    <2> QED BY <1>9, <2>1, <2>2, <2>3, <2>4, <2>5, <2>6, <2>7, <2>8, <2>9 DEF Thread
<1> QED BY <1>4, <1>5, <1>6, <1>7, <1>8, <1>9 DEF Next

LEMMA PayloadAlwaysSound == Spec => []PayloadInv
BY PayloadInitIsSound, PayloadStepIsSound, PTL DEF Spec

LEMMA SoundBodies == Sound => BodyIsOneVersion
<1> SUFFICES ASSUME Sound PROVE BodyIsOneVersion
    OBVIOUS
<1>1. CASE Loading
    BY <1>1, WholeBody DEF Sound, DownloadInv
<1>2. CASE \E v \in Versions : IsOfVersion(v)
    BY <1>2, WholeBody DEF Sound
<1>3. CASE ~Loading /\ ~\E v \in Versions : IsOfVersion(v)
    <2>1. file = <<>> /\ hashed = <<>> /\ total = 0
        BY <1>3 DEF Sound, DownloadInv, NoDownload
    <2>2. Len(Body("pinned")) = 2 /\ Body("pinned") \in Seq(Versions \X Nat)
        BY DEF Body, BodyLength, Versions
    <2>3. IsPrefix(<<>>, Body("pinned"))
        BY <2>2 DEF IsPrefix
    <2> QED BY <2>1, <2>3 DEF BodyIsOneVersion, Versions
<1> QED BY <1>1, <1>2, <1>3

LEMMA SoundPayloads == Sound => SealedIsVerified
<1> SUFFICES ASSUME Sound PROVE SealedIsVerified
    OBVIOUS
<1>1. ASSUME phase = "work", steps = <<>> PROVE MadeAsPlanned(Len(Plan(Current)))
    <2>1. PICK n \in 0 .. Len(Plan(Current)) : IsAt(n)
        BY <1>1 DEF Sound, PlanInv
    <2>2. Len(Plan(Current)) \in Nat
        BY PlanIsSequence
    <2>3. n = Len(Plan(Current))
        BY <1>1, <2>1, <2>2 DEF IsAt
    <2> QED BY <2>1, <2>3 DEF IsAt
<1> QED BY <1>1 DEF SealedIsVerified, Sound, PlanInv

-----------------------------------------------------------------------------
(* Every variable of an install keeps its type, whatever the catalog and   *)
(* the requests are (install_one, download_verified).                      *)
THEOREM TypeCorrect == Spec => []TypeOK
<1>1. PayloadInv => TypeOK
    BY CatalogTypes DEF PayloadInv, Sound, TypeOK
<1> QED BY <1>1, PayloadAlwaysSound, PTL

(* For every catalog: the search that calls itself refuses every catalog   *)
(* with a cycle, so what it accepts can be installed in some order, with   *)
(* one digest for a license (visit_dependencies, validate_catalog).        *)
THEOREM AcceptedCatalogsAreSound == Spec => []CatalogIsSound
<1>1. PayloadInv => CatalogIsSound
    BY DEF PayloadInv, CatalogInv, CatalogIsSound, ComponentsAreValid
<1> QED BY <1>1, PayloadAlwaysSound, PTL

(* For every catalog: whatever breaks, is resumed and is restarted, the    *)
(* file is what was hashed and counted, in order, of one version           *)
(* (download_verified_with_client, validate_resume_response).              *)
THEOREM BodiesAreOneVersion == Spec => []BodyIsOneVersion
<1>1. PayloadInv => BodyIsOneVersion
    BY SoundBodies DEF PayloadInv
<1> QED BY <1>1, PayloadAlwaysSound, PTL

(* For every catalog: what is sealed was made from the files its catalog   *)
(* pins, whole and in the order of its plan, and by programs that all      *)
(* succeeded; a staging directory is left only if it could not be removed  *)
(* (install_one, install_strategy, install_bootstrap).                     *)
THEOREM SealedPayloadsAreVerified == Spec => []SealedIsVerified
<1>1. PayloadInv => SealedIsVerified
    BY SoundPayloads DEF PayloadInv
<1> QED BY <1>1, PayloadAlwaysSound, PTL

(* An install uses run_bounded_process only as its specification assumes:  *)
(* one call at a time, each answer taken before the next one, and a        *)
(* cancellation that may come at any time (install_one).                   *)
THEOREM InstallCallsInTurn == Spec => CallsSpec
<1>1. Init => ProcessInit
    BY DEF Init
<1>2. PayloadInv /\ [Next]_vars => [Calls]_allVars
    BY StepIsACall DEF PayloadInv, Sound
<1> QED BY <1>1, <1>2, PayloadAlwaysSound, PTL DEF Spec, CallsSpec

(* So an install sees every exit of its programs with their whole output   *)
(* (install_bootstrap, run_bounded_process_cancellable).                   *)
THEOREM InstallSeesWholeOutput == Spec => []OutputIsWhole
BY InstallCallsInTurn, AnswersAreWhole, PTL
=============================================================================
