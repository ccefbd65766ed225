--------------------------- MODULE MCConfigBuild -----------------------------
(***************************************************************************)
(* A symbol that is turned on and off, and one with a value of two digits  *)
(* that the Kconfig files may lose.                                        *)
(***************************************************************************)
EXTENDS ConfigBuild, TLC

CONSTANTS B, S

Both(b, s) == (B :> b) @@ (S :> s)

MCConfigs  == {Both("y", "12"), Both(NotSet, "1")}
MCReadable == MCConfigs \cup {Both(NotSet, Hidden)}

\* Of CONFIG_S=12 the first digit may be left.
MCShortened == [v \in {"y", "12", "1"} |-> IF v = "12" THEN {"1"} ELSE {}]
=============================================================================
