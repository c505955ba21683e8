--------------------------- MODULE DependencyCatalog ---------------------------
(***************************************************************************)
(* The catalog of managed components, validate_catalog and the checks of   *)
(* start on a request (src-tauri/src/dependency_manager.rs).               *)
(*                                                                         *)
(* A catalog is a sequence of components.  The form of ids, URLs, hex      *)
(* digests and relative paths is one field, wellFormed, of the record that *)
(* holds them; so is, as "fixed", whether every text of a strategy and of  *)
(* what it installs is the one that is written in the program.             *)
(*                                                                         *)
(* The search for cycles calls itself: what it has called and not finished *)
(* is the stack, the call that runs first.                                 *)
(***************************************************************************)
EXTENDS Naturals, Sequences, SequencesExt

CONSTANTS
    NoValue,    \* a field that a catalog leaves out
    Catalogs    \* what the packaged catalog may be

\* a catalog is a list of components, each with a list of dependencies
ASSUME CatalogAssumption ==
    \A components \in Catalogs :
        /\ components \in Seq(ToSet(components))
        /\ \A i \in DOMAIN components :
               components[i].dependencies \in Seq(ToSet(components[i].dependencies))

VARIABLES
    catalog,
    loaded,      \* what load says of it
    searched,    \* the components that visit_dependencies was called for
    stack,       \* the components that are being visited, and the dependency that is next
    visited      \* those that were

catalogVars == <<catalog, loaded, searched, stack, visited>>

ArchiveLimit == 16    \* GiB
ManifestLimit == 4    \* MiB

Ids(components) == {components[i].id : i \in DOMAIN components}

\* component of DependencyManager: the first that has the id
Component(components, id) == SelectInSeq(components, LAMBDA c : c.id = id)
Named(components, id) == components[Component(components, id)]

-----------------------------------------------------------------------------
(* validate_catalog, component by component.                               *)

IdsAreUnique(components) ==
    \A i, k \in DOMAIN components : components[i].id = components[k].id => i = k

Licenses(c) == {c.license} \union (IF c.bootstrap = NoValue THEN {} ELSE {c.bootstrap.license})

\* a license is consented to by its digest, so one id has one digest
LicensesAgree(components) ==
    LET all == UNION {Licenses(components[i]) : i \in DOMAIN components}
    IN  /\ \A l \in all : l.digest # "blank"
        /\ \A l, m \in all : l.id = m.id => l.digest = m.digest

DownloadIsValid(a) == a.wellFormed /\ a.max > 0 /\ a.archive \in {"file", "zip"}

ArtifactIsValid(c) ==
    /\ c.available => c.artifact # NoValue
    /\ c.artifact # NoValue =>
           /\ DownloadIsValid(c.artifact)
           /\ c.artifact.size # NoValue => c.artifact.size \in 1 .. c.artifact.max

BootstrapIsValid(c) ==
    c.bootstrap # NoValue =>
        /\ c.id = "uv-python"
        /\ c.bootstrap.wellFormed
        /\ c.available => c.bootstrap.artifact # NoValue
        /\ c.bootstrap.artifact # NoValue =>
               DownloadIsValid(c.bootstrap.artifact) /\ c.bootstrap.artifact.archive = "file"

\* validate_roadwatcher_release_catalog_contract
ReleaseKind(id) ==
    CASE id = "york-valhalla-tiles" -> "tiles" [] id = "cv-yolo11n" -> "model" [] OTHER -> "none"

ReleaseContract(c) ==
    /\ ReleaseKind(c.id) # "none"
    /\ c.bootstrap = NoValue /\ c.imports = <<>> /\ c.license.consentRequired
    /\ c.dependencies = IF c.id = "york-valhalla-tiles" THEN <<"managed-valhalla">> ELSE <<>>
    /\ c.artifact.archive = "zip" /\ c.artifact.max =< ArchiveLimit
    /\ c.artifact.size # NoValue
    /\ c.manifest # NoValue
    /\ c.manifest.wellFormed
    /\ c.manifest.kind = ReleaseKind(c.id)
    /\ c.manifest.max \in 1 .. ManifestLimit
    /\ c.manifest.release = c.artifact.release

StrategyIsValid(c) ==
    CASE c.strategy = "uv-wheel-environment" ->
            /\ c.id = "managed-valhalla" /\ c.fixed
            /\ c.artifact.archive = "file"
            /\ c.dependencies = <<"uv-python">>
      [] c.strategy = "verified-ffmpeg-archive" ->
            /\ c.id = "ffmpeg" /\ c.fixed
            /\ c.artifact.archive = "zip"
            /\ c.dependencies = <<>>
      [] c.strategy = "roadwatcher-release-archive" -> ReleaseContract(c)
      [] OTHER -> FALSE

InstallIsValid(c) ==
    /\ IF c.strategy = NoValue THEN c.manifest = NoValue
                               ELSE c.artifact # NoValue /\ StrategyIsValid(c)
    /\ c.artifact # NoValue /\ c.artifact.size # NoValue =>
           c.strategy = "roadwatcher-release-archive"

HasReference(c, id, kind) ==
    \E i \in DOMAIN c.references :
        c.references[i].id = id /\ c.references[i].kind = kind /\ c.references[i].fixed

ExpectedReferences(c) ==
    CASE c.strategy = "uv-wheel-environment"    -> {<<"service-executable", "file">>}
      [] c.strategy = "verified-ffmpeg-archive" -> {<<"binary-directory", "directory">>}
      [] c.id = "york-valhalla-tiles"           -> {<<"config", "file">>, <<"tiles", "directory">>}
      [] OTHER                                  -> {<<"model", "file">>, <<"labels", "file">>}

AreDistinct(items) == \A i, k \in DOMAIN items : items[i].id = items[k].id => i = k

ReferencesAreValid(c) ==
    /\ AreDistinct(c.references)
    /\ \A i \in DOMAIN c.references :
           c.references[i].wellFormed /\ c.references[i].kind \in {"file", "directory"}
    /\ c.bootstrap # NoValue =>
           HasReference(c, "executable", "file") /\ HasReference(c, "python-installations", "directory")
    /\ c.strategy # NoValue =>
           /\ Len(c.references) = (IF c.strategy = "roadwatcher-release-archive" THEN 2 ELSE 1)
           /\ \A r \in ExpectedReferences(c) : HasReference(c, r[1], r[2])

ImportsAreValid(c) ==
    AreDistinct(c.imports) /\ \A i \in DOMAIN c.imports : c.imports[i].wellFormed

DependenciesAreKnown(components) ==
    \A i \in DOMAIN components : ToSet(components[i].dependencies) \subseteq Ids(components)

-----------------------------------------------------------------------------
(* load, and visit_dependencies: a depth-first search from every component. *)

ComponentsAreValid ==
    /\ IdsAreUnique(catalog)
    /\ LicensesAgree(catalog)
    /\ \A i \in DOMAIN catalog :
           /\ catalog[i].wellFormed
           /\ ArtifactIsValid(catalog[i])
           /\ BootstrapIsValid(catalog[i])
           /\ InstallIsValid(catalog[i])
           /\ ReferencesAreValid(catalog[i])
           /\ ImportsAreValid(catalog[i])
    /\ DependenciesAreKnown(catalog)

CatalogInit ==
    /\ catalog \in Catalogs
    /\ loaded = "no"
    /\ searched = 0 /\ stack = <<>> /\ visited = {}

CheckComponents ==
    /\ loaded = "no"
    /\ loaded' = IF ComponentsAreValid THEN "visiting" ELSE "refused"
    /\ UNCHANGED <<catalog, searched, stack, visited>>

\* what is on the stack
Frames == [id : Ids(catalog), next : Nat \ {0}]

Enter(id) == <<[id |-> id, next |-> 1]>>

\* each component anew
SearchFrom ==
    /\ loaded = "visiting"
    /\ stack = <<>> /\ searched < Len(catalog)
    /\ searched' = searched + 1
    /\ stack' = Enter(catalog[searched + 1].id)
    /\ visited' = {}
    /\ UNCHANGED <<catalog, loaded>>

Dependencies(id) == Named(catalog, id).dependencies
AtDependency == stack # <<>> /\ Head(stack).next =< Len(Dependencies(Head(stack).id))
Dependency == Dependencies(Head(stack).id)[Head(stack).next]
Passed == <<[Head(stack) EXCEPT !.next = @ + 1]>> \o Tail(stack)

IsVisiting(id) == \E i \in DOMAIN stack : stack[i].id = id

\* mutant: a component that is being visited counts as visited
IsVisitedOrVisiting(id) == id \in visited \/ IsVisiting(id)

IsVisited(id) == id \in visited

PassVisited ==
    /\ AtDependency
    /\ IsVisited(Dependency)
    /\ stack' = Passed
    /\ UNCHANGED <<catalog, loaded, searched, visited>>

Visit ==
    /\ AtDependency
    /\ ~IsVisited(Dependency) /\ ~IsVisiting(Dependency)
    /\ stack' = Enter(Dependency) \o Passed
    /\ UNCHANGED <<catalog, loaded, searched, visited>>

FindCycle ==
    /\ AtDependency
    /\ ~IsVisited(Dependency) /\ IsVisiting(Dependency)
    /\ loaded' = "refused"
    /\ searched' = 0 /\ stack' = <<>> /\ visited' = {}
    /\ UNCHANGED catalog

Return ==
    /\ stack # <<>> /\ ~AtDependency
    /\ stack' = Tail(stack)
    /\ visited' = visited \union {Head(stack).id}
    /\ UNCHANGED <<catalog, loaded, searched>>

AcceptCatalog ==
    /\ loaded = "visiting"
    /\ stack = <<>> /\ searched = Len(catalog)
    /\ loaded' = "accepted"
    /\ searched' = 0 /\ visited' = {}
    /\ UNCHANGED <<catalog, stack>>

Load ==
    \/ CheckComponents \/ SearchFrom \/ PassVisited \/ Visit \/ FindCycle \/ Return
    \/ AcceptCatalog

CatalogTypeOK ==
    /\ loaded \in {"no", "visiting", "accepted", "refused"}
    /\ searched \in 0 .. Len(catalog)
    /\ stack \in Seq(Frames)
    /\ visited \subseteq Ids(catalog)

-----------------------------------------------------------------------------
(* start of DependencyManager.                                             *)

Consented(c, digests) == \A l \in Licenses(c) : l.consentRequired => l.digest \in digests

RequestIsAccepted(components, request, digests, ready) ==
    /\ request # <<>>
    /\ IsInjective(request)
    /\ \A i \in DOMAIN request :
           /\ request[i] \in Ids(components)
           /\ Named(components, request[i]).available
           /\ Named(components, request[i]).artifact # NoValue
           /\ Consented(Named(components, request[i]), digests)
           /\ ToSet(Named(components, request[i]).dependencies) \subseteq ready \union ToSet(request)

-----------------------------------------------------------------------------
(* Nothing that a validated catalog offers is part of a cycle or needs what    *)
(* is not in it, told without a search: every set of components that is not    *)
(* empty has one that needs none of the others or itself, so that some order   *)
(* of installation exists (visit_dependencies).                                *)
HasInstallOrder(components) ==
    \A cs \in (SUBSET Ids(components)) \ {{}} :
        \E c \in cs : ToSet(Named(components, c).dependencies) \intersect cs = {}
=============================================================================
