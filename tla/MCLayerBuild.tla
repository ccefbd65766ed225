---------------------------- MODULE MCLayerBuild ----------------------------
(* Small recipes for LayerBuild. *)
EXTENDS LayerBuild

\* Three layers: the first has a git checkout, the second
\* depends on it, the third only runs after it.
MCTasks    == <<{"a"}, {"c"}, {"d"}>>
MCDepends  == <<{}, {1}, {}>>
MCRunAfter == <<{}, {}, {1}>>
MCSources  == <<{"git"}, {}, {}>>

\* Two layers: the second depends on the first.
MCTasks2   == <<{"a", "b"}, {"c"}>>
MCDepends2 == <<{}, {1}>>
MCSources2 == <<{"git"}, {}>>
MCNone2    == <<{}, {}>>
=============================================================================
