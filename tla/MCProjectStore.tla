--------------------------- MODULE MCProjectStore ---------------------------
EXTENDS ProjectStore

Row(table, status, rows) == [table |-> table, status |-> status, rows |-> rows, declared |-> rows]
Job(type, status, subject) == [type |-> type, status |-> status, subject |-> subject]

\* A project of a release: its jobs without subjects, and the rows of snapshots
Project(version, jobs, subjects, points, features) ==
    [version |-> version, recorded |-> version, scripts |-> 1..(version - 1), project |-> TRUE,
     jobs |-> [j \in JobIds |-> IF j \in DOMAIN jobs THEN jobs[j] ELSE NoJobRow],
     subjects |-> [s \in SubjectIds |-> IF s \in DOMAIN subjects THEN subjects[s] ELSE NoRow],
     points |-> points, features |-> features]

Proxy(status) == [j \in {"legacy-proxy"} |-> Job("proxy", status, NoSubject)]
Media(status) == [s \in {"legacy-media"} |-> Row("media", status, 0)]
Match(status) == [j \in {"legacy-valhalla"} |-> Job("valhalla", status, NoSubject)]
Projection(status) == [j \in {"legacy-gis"} |-> Job("gis", status, NoSubject)]
Scan(status) == [j \in {"legacy-cv"} |-> Job("cv", status, NoSubject)]
Empty == [x \in {} |-> NoRow]

\* a project of this release, without rows
MCProject == {Project(8, Empty, Empty, 0, 0)}

\* the projects of the migration tests, with jobs that wait and that were interrupted
MCDatabases ==
    {Project(1, Proxy("queued"), Media("queued"), 2, 1)}
    \union {Project(2, Proxy(s), Media(s), 0, 0) : s \in {"queued", "running"}}
    \union {Project(3, Match(s), Empty, n, 0) : s \in {"running", "failed"}, n \in {0, 2}}
    \union {Project(4, Projection(s), Empty, 0, 1) : s \in {"running", "complete"}}
    \union {Project(6, Scan("running"), Empty, 0, 0)}
    \union MCProject

Point(t, timed) == [time |-> t, timed |-> timed, placed |-> TRUE]
MCRouteFiles == {<<Point(3, TRUE), Point(4, TRUE)>>, <<Point(3, TRUE), Point(3, TRUE)>>,
                 <<Point(1, TRUE), Point(2, FALSE)>>, <<Point(1, TRUE)>>}

Feature(id, kind) == [id |-> id, kind |-> kind, shape |-> "Point"]
Layer(name, crs, features) == [name |-> name, crs |-> crs, features |-> features]
MCDatasets ==
    {[direct |-> TRUE, layers |-> {Layer("official", "", <<Feature(1, "stop_sign"),
                                                           Feature(2, "crosswalk")>>)}],
     [direct |-> FALSE, layers |-> {Layer("a", "EPSG:26917", <<Feature(1, "")>>),
                                    Layer("b", "", <<Feature(1, "crosswalk"),
                                                     Feature(1, "stop_sign")>>)}]}
MCGisRequests ==
    {[crs |-> "EPSG:4326", layer |-> "", kind |-> "stop_sign"],
     [crs |-> "EPSG:4326", layer |-> "b", kind |-> ""],
     [crs |-> "AUTO", layer |-> "a", kind |-> "bike_lane"]}
=============================================================================
