---------------------------- MODULE MCMenuconfig -----------------------------
(***************************************************************************)
(* A menu tree for the terminal interface, as _finalize_node leaves it:    *)
(*                                                                         *)
(*   config O  bool "O" if n, default y if A                               *)
(*   comment K depends on O          (an implicit submenu of O)            *)
(*   config A  bool "A"                                                    *)
(*   menu "sub", visible if A                                              *)
(*     choice Ch                                                           *)
(*       config P  bool "P"                                                *)
(*       config Q  bool "Q", depends on O                                  *)
(*                                                                         *)
(* MODULES, here M, is not defined.                                        *)
(***************************************************************************)
EXTENDS Menuconfig, MCReading, TLC

CONSTANTS M, A, O, P, Q, Ch

I(i) == <<"item", i>>
And(a, b) == <<"and", a, b>>

MCSyms    == {M, A, O, P, Q}
MCType    == [i \in {M, A, O, P, Q, Ch} |-> "bool"]
QDep      == And(I(O), I(Ch))
MCExprs   == {Y, N, I(A), I(O), I(Ch), And(I(Ch), I(A)), QDep, And(QDep, I(A))}
MCPrompts == (M :> <<>>) @@ (A :> <<Y>>) @@ (O :> <<N>>) @@ (Ch :> <<I(A)>>)
                @@ (P :> <<And(I(Ch), I(A))>>) @@ (Q :> <<And(QDep, I(A))>>)
MCDefaults == [i \in {M, A, O, P, Q, Ch} |->
                  IF i = O THEN << <<Y, I(A)>> >> ELSE <<>>]
MCNoDep   == [s \in MCSyms |-> N]
MCDirect  == [s \in MCSyms |-> CASE s = P -> I(Ch) [] s = Q -> QDep [] OTHER -> Y]
MCChoiceOf == [s \in MCSyms |-> IF s \in {P, Q} THEN Ch ELSE None]
MCMembers == Ch :> <<P, Q>>
MCOptional == Ch :> FALSE
MCGiven   == [i \in {M, A, O, P, Q, Ch} |-> {}]
MCOrder   == <<M, O, A, P, Q>>
MCDependents == TreeDependents
MCHasPrompt  == {A, O, P, Q}

MCNodeOrder == <<"top", "O", "K", "A", "sub", "Ch", "P", "Q">>
MCParentOf  == [n \in Below |-> CASE n = "K" -> "O" [] n = "Ch" -> "sub" [] n \in {"P", "Q"} -> "Ch"
                                    [] OTHER -> "top"]
MCItemOf    == ("top" :> "menu") @@ ("sub" :> "menu") @@ ("K" :> "comment")
                  @@ ("A" :> A) @@ ("O" :> O) @@ ("Ch" :> Ch) @@ ("P" :> P) @@ ("Q" :> Q)
MCPromptCond == [n \in Nodes |-> CASE n = "K" -> I(O) [] n = "O" -> N [] n \in {"top", "sub"} -> Y
                                     [] OTHER -> MCPrompts[MCItemOf[n]][1]]
MCVisibleIf == [n \in Nodes |-> IF n = "sub" THEN I(A) ELSE Y]
MCMenus     == {"top", "sub", "Ch"}
MCSearchOrder == <<"A", "O", "P", "Q", "Ch", "sub", "K">>

\* A file that assigns a symbol that does not exist, and m to a bool.
MCInitFiles == {<< <<"GONE", 2>>, <<P, 1>>, <<A, 2>> >>}

\* The theorems of MenuconfigProofs are about trees like this one.
ASSUME MCTreeAssumption == NoChoiceInItself /\ OncePerChoice

\* Of every configuration there is.
ASSUME MCConfigurationsAssumption ==
    \A user \in [Items -> {None, 0, 2}], usel \in {None, P, Q} :
    \A x \in {Config([q \in Cells |-> CASE q[2] = "user" -> user[q[1]] [] q[2] = "usel" -> usel
                                        [] OTHER -> None])} :
        /\ HiddenMenusAreEmpty(x) /\ VisibleIsShown(x) /\ DefaultsFit(x)
        /\ ModeIsInferred(x) /\ DefaultsReturn(x)
=============================================================================
