-------------------------- MODULE MCComponentPayload --------------------------
(* Every way in which three components may need each other, and catalogs of    *)
(* components that can be installed, with one mistake or none.                 *)
EXTENDS ComponentPayload

MIT == [id |-> "MIT", digest |-> "current", consentRequired |-> TRUE]
Free == [id |-> "Public-Domain", digest |-> "none", consentRequired |-> FALSE]

Plain(id, needs) ==
    [id |-> id, dependencies |-> needs, available |-> FALSE, license |-> Free, wellFormed |-> TRUE,
     fixed |-> TRUE, artifact |-> NoValue, manifest |-> NoValue, bootstrap |-> NoValue,
     strategy |-> NoValue, references |-> <<>>, imports |-> <<>>]

Tools == <<"a", "b", "c">>
Needs == {<<>>, <<"a">>, <<"b">>, <<"c">>, <<"x">>, <<"a", "b">>, <<"b", "c">>, <<"c", "a">>}
Graphs == {[i \in 1 .. 3 |-> Plain(Tools[i], needs[i])] : needs \in [1 .. 3 -> Needs]}

Artifact(archive) ==
    [wellFormed |-> TRUE, max |-> 2, size |-> NoValue, archive |-> archive, release |-> "1"]
Reference(id, kind) == [id |-> id, kind |-> kind, wellFormed |-> TRUE, fixed |-> TRUE]

Offered(id, needs, archive) ==
    [Plain(id, needs) EXCEPT !.available = TRUE, !.license = MIT, !.artifact = Artifact(archive)]

Uv == [Offered("uv-python", <<>>, "zip") EXCEPT
          !.bootstrap = [wellFormed |-> TRUE, license |-> Free, artifact |-> Artifact("file")],
          !.references = <<Reference("executable", "file"),
                           Reference("python-installations", "directory")>>]
Valhalla == [Offered("managed-valhalla", <<"uv-python">>, "file") EXCEPT
                !.strategy = "uv-wheel-environment",
                !.references = <<Reference("service-executable", "file")>>]
Ffmpeg == [Offered("ffmpeg", <<>>, "zip") EXCEPT
              !.strategy = "verified-ffmpeg-archive",
              !.references = <<Reference("binary-directory", "directory")>>]
Release(id, needs, kind) ==
    [Offered(id, needs, "zip") EXCEPT
        !.strategy = "roadwatcher-release-archive", !.artifact.size = 2,
        !.manifest = [wellFormed |-> TRUE, kind |-> kind, max |-> 2, release |-> "1"]]
Model == [Release("cv-yolo11n", <<>>, "model") EXCEPT
             !.references = <<Reference("model", "file"), Reference("labels", "file")>>]
Tiles == [Release("york-valhalla-tiles", <<"managed-valhalla">>, "tiles") EXCEPT
             !.references = <<Reference("config", "file"), Reference("tiles", "directory")>>]
Gis == [Offered("york-official-gis", <<>>, "file") EXCEPT
           !.imports = <<[id |-> "lights", wellFormed |-> TRUE]>>]

Mistakes ==
    {<<[Uv EXCEPT !.bootstrap.license = [Free EXCEPT !.id = "MIT"]]>>,
     <<Uv, Uv>>,
     <<[Uv EXCEPT !.bootstrap.artifact = NoValue]>>,
     <<[Uv EXCEPT !.artifact.size = 2]>>,
     <<Uv, [Valhalla EXCEPT !.dependencies = <<>>]>>,
     <<[Model EXCEPT !.artifact.size = 3]>>,
     <<[Model EXCEPT !.manifest.release = "2"]>>,
     <<[Ffmpeg EXCEPT !.references = <<>>]>>,
     <<[Gis EXCEPT !.manifest = Model.manifest]>>}

SmallCatalogs ==
    Graphs \union Mistakes \union {<<Uv, Valhalla, Tiles>>, <<Ffmpeg, Gis>>, <<Model>>}

Launches == {{}}
Asked == {<<"uv-python", "managed-valhalla">>, <<"managed-valhalla", "uv-python">>, <<"ffmpeg">>,
          <<"york-official-gis">>, <<"cv-yolo11n">>, <<"york-valhalla-tiles">>}

Entries(sizes) == [i \in DOMAIN sizes |-> [inside |-> TRUE, size |-> sizes[i]]]
Manifest(id, kind) ==
    [id |-> id, kind |-> kind, size |-> 2, license |-> "MIT",
     sources |-> <<[id |-> "osm", publisher |-> FALSE, retrieval |-> TRUE]>>,
     tools |-> <<[id |-> "valhalla"]>>]
Holds(entries) == [entries |-> entries, pinnedFiles |-> TRUE]

Archives == [
    id \in {"uv-python", "managed-valhalla", "ffmpeg", "york-official-gis", "cv-yolo11n",
            "york-valhalla-tiles"} |->
    CASE id = "york-valhalla-tiles" ->
            [entries |-> Entries(<<1, 1, 1>>), size |-> 2, manifest |-> Manifest(id, "tiles"),
             root |-> {[name |-> "valhalla.json", kind |-> "file", size |-> 1],
                       [name |-> "tiles", kind |-> "directory", size |-> 0]},
             config |-> [tileDir |-> "token", selects |-> {}], tiles |-> <<[kind |-> "gph", size |-> 1]>>]
      [] id = "cv-yolo11n" ->
            [entries |-> Entries(<<3, 1>>), size |-> 2, manifest |-> Manifest(id, "model"),
             root |-> {[name |-> "yolo11n.onnx", kind |-> "file", size |-> 3],
                       [name |-> "labels.txt", kind |-> "file", size |-> 1]},
             labels |-> <<"bicycle", "car">>]
      [] OTHER -> Holds(Entries(<<1>>))]
=============================================================================
