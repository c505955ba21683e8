-------------------------- MODULE MCManagedRuntime --------------------------
EXTENDS ManagedRuntime

\* Environments of every kind: none, incomplete, usable, of someone else, with and
\* without the managed component; those of an earlier release with another Python; in
\* one case nothing is in the way of any of them.
MCDirectories ==
    {[gpstitch |-> g, cv |-> "foreign", valhalla |-> v, component |-> m] :
        g \in {"none", "broken"}, v \in {"none", "usable"}, m \in {"none", "component"}}
    \union {[gpstitch |-> "otherPython", cv |-> "usable", valhalla |-> v,
             component |-> "none"] : v \in {"otherPython", "usable"}}
    \union {[gpstitch |-> "broken", cv |-> "usable", valhalla |-> "none",
             component |-> "component"]}
MCSources == {"gpstitch-source", "cv-source", "valhalla-source"}
MCTools == {"ffmpeg", "ffprobe", "uv"}
=============================================================================
