---------------------------- MODULE MCGuiconfig ------------------------------
(***************************************************************************)
(* A menu tree for the graphical interface, as _finalize_node leaves it:   *)
(*                                                                         *)
(*   config O  bool "O" if n, default y if A                               *)
(*   comment K depends on O          (an implicit submenu of O)            *)
(*   config A  bool "A"                                                    *)
(*   menu "sub", visible if A                                              *)
(*     menu "inner", depends on A                                          *)
(*       config P  bool "P"                                                *)
(*       comment C depends on O                                            *)
(*                                                                         *)
(* MODULES, here M, is not defined.                                        *)
(***************************************************************************)
EXTENDS Guiconfig, MCReading, TLC

CONSTANTS
    M, A, O, P

I(i) == <<"item", i>>
And(a, b) == <<"and", a, b>>

MCSyms    == {M, A, O, P}
MCType    == [i \in MCSyms |-> "bool"]
MCExprs   == {Y, N, I(A), I(O), And(I(O), I(A)), And(I(A), I(A))}
MCPrompts == (M :> <<>>) @@ (A :> <<Y>>) @@ (O :> <<N>>) @@ (P :> <<And(I(A), I(A))>>)
MCDefaults == [i \in MCSyms |-> IF i = O THEN << <<Y, I(A)>> >> ELSE <<>>]
MCNoDep   == [s \in MCSyms |-> N]
MCDirect  == [s \in MCSyms |-> IF s = P THEN I(A) ELSE Y]
MCChoiceOf == [s \in MCSyms |-> None]
MCMembers == <<>>
MCOptional == <<>>
MCGiven   == [i \in MCSyms |-> {}]
MCOrder   == <<M, O, A, P>>
MCDependents == TreeDependents
MCHasPrompt  == {A, O, P}

MCNodeOrder == <<"top", "O", "K", "A", "sub", "inner", "P", "C">>
MCParentOf  == [n \in Below |-> CASE n = "K" -> "O" [] n = "inner" -> "sub" [] n \in {"P", "C"} -> "inner"
                                    [] OTHER -> "top"]
MCItemOf    == [n \in Nodes |-> CASE n = "A" -> A [] n = "O" -> O [] n = "P" -> P
                                    [] n \in {"K", "C"} -> "comment" [] OTHER -> "menu"]
MCPromptCond == [n \in Nodes |-> CASE n = "K" -> I(O) [] n = "O" -> N
                                     [] n = "C" -> And(I(O), I(A))
                                     [] n = "inner" -> I(A)
                                     [] n = "P" -> And(I(A), I(A)) [] OTHER -> Y]
MCVisibleIf == [n \in Nodes |-> IF n = "sub" THEN I(A) ELSE Y]
MCMenus     == {"top", "sub", "inner"}

\* A file that assigns a symbol that does not exist.
MCInitFiles == {<< <<"GONE", 2>>, <<A, 2>> >>}

\* The theorems of GuiconfigProofs are about trees like this one, but for the
\* menu that may hide: of every configuration there is,
ASSUME MCConfigurationsAssumption ==
    \A user \in [Items -> {None, 0, 2}] :
    \A x \in {Config([q \in Cells |-> IF q[2] = "user" THEN user[q[1]] ELSE None])} :
        /\ HiddenMenusAreEmpty(x) /\ ModeIsInferred(x) /\ DefaultsReturn(x)
=============================================================================
