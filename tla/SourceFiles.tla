----------------------------- MODULE SourceFiles -----------------------------
(***************************************************************************)
(* What an import makes of a source file before it touches the project:    *)
(* import_gpx and parse_gpx_str (src-tauri/src/route_import.rs), import_gis *)
(* and parse_geojson_features (gis_import.rs), normalize_with_gdal         *)
(* (gdal_adapter.rs).                                                      *)
(*                                                                         *)
(* A GPX file is the sequence of its track points [time, timed, placed]:   *)
(* "timed" and "placed" say whether its time and its coordinates can be    *)
(* read.  A GIS dataset is a set of layers.  XML, JSON and coordinates are  *)
(* left out; identities and kinds of features and the time of a track      *)
(* point are kept.                                                         *)
(***************************************************************************)
EXTENDS Naturals, Sequences, FiniteSets

NoRows == <<>>

-----------------------------------------------------------------------------
(* GPX.  An error anywhere refuses the file.                               *)

InOrder(points) ==
    \A i \in 1..(Len(points) - 1) : points[i].time < points[i + 1].time

GpxIsValid(points) ==
    /\ Len(points) >= 2
    /\ \A i \in DOMAIN points : points[i].timed /\ points[i].placed
    /\ InOrder(points)

\* times are seconds from the first point
RoutePoints(points) == [i \in DOMAIN points |-> points[i].time - points[1].time]

\* validate_route_points, which an import asks once more
RoutePointsAreValid(times) ==
    /\ Len(times) >= 2
    /\ \A i \in DOMAIN times : \A k \in DOMAIN times : i < k => times[i] < times[k]

-----------------------------------------------------------------------------
(* GIS.  A dataset is [direct, layers], direct for a GeoJSON file, which is *)
(* read without GDAL when its CRS is given; a layer is [name, crs,         *)
(* features], "" where nothing is found; a request is [crs, layer, kind].  *)

ReadsDirectly(dataset, request) ==
    dataset.direct /\ request.crs \in {"EPSG:4326", "EPSG:3857"} /\ request.layer = ""

\* select_layer: the one of that name, or the only one
SelectedLayers(dataset, request) ==
    LET named == {l \in dataset.layers : l.name # ""}
    IN  {l \in named : \/ l.name = request.layer
                       \/ request.layer = "" /\ Cardinality(named) = 1}

\* the CRS of the request, or the one the layer declares
SourceCrs(layer, request) == IF request.crs = "AUTO" THEN layer.crs ELSE request.crs

\* normalize_feature: [id, kind, shape]; what is not of the requested kind, has no
\* kind at all or no usable geometry is left out
FeatureKind(feature, request) == IF feature.kind # "" THEN feature.kind ELSE request.kind

IsSupported(feature, request) ==
    /\ feature.shape \in {"Point", "LineString"}
    /\ FeatureKind(feature, request) # ""
    /\ request.kind = "" \/ FeatureKind(feature, request) = request.kind

Supported(features, request) ==
    SelectSeq(features, LAMBDA feature : IsSupported(feature, request))

\* the features an import may persist: of the file itself, or of the layer that ogr2ogr
\* converted
Normalized(dataset, request) ==
    LET layers == IF ReadsDirectly(dataset, request)
                  THEN dataset.layers
                  ELSE {l \in SelectedLayers(dataset, request) : SourceCrs(l, request) # ""}
    IN  {Supported(l.features, request) : l \in layers} \ {NoRows}
=============================================================================
