----------------------------- MODULE MCKconfig ------------------------------
(***************************************************************************)
(* Small menu trees for KconfigTree and KconfigValues.  Each is given the  *)
(* way _finalize_node leaves it: conditions already include the parents'.  *)
(***************************************************************************)
EXTENDS MCReading, TLC

CONSTANTS M, A, B, C, D, P, Q, Ch

I(i) == <<"item", i>>
And(a, b) == <<"and", a, b>>
Not(a) == <<"not", a>>
AIsM == <<"eq", A, 1>>

MCHasPrompt  == {s \in Syms : Prompts[s] # <<>>}
MCDependents == TreeDependents

(***************************************************************************)
(* config M "option modules"; tristate A; tristate B imply C; C without a  *)
(* prompt, depends on A; bool D depends on C, selected by B if A = m.      *)
(***************************************************************************)
SelectSyms     == {M, A, B, C, D}
SelectOrder    == <<M, A, B, C, D>>
SelectType     == [s \in SelectSyms |-> IF s \in {M, D} THEN "bool" ELSE "tristate"]
SelectPrompts  == [s \in SelectSyms |-> CASE s = C -> <<>> [] s = D -> <<I(C)>> [] OTHER -> <<Y>>]
SelectDefaults == [s \in SelectSyms |-> CASE s = A -> << <<I(M), Y>> >>
                                          [] s = D -> << <<I(C), I(C)>> >>
                                          [] OTHER -> <<>>]
SelectRev      == [s \in SelectSyms |-> IF s = D THEN And(I(B), AIsM) ELSE N]
SelectWeak     == [s \in SelectSyms |-> IF s = C THEN I(B) ELSE N]
SelectDirect   == [s \in SelectSyms |-> CASE s = C -> I(A) [] s = D -> I(C) [] OTHER -> Y]
SelectChoiceOf == [s \in SelectSyms |-> None]
SelectExprs    == {Y, N, I(M), I(A), I(B), I(C), AIsM, And(I(B), AIsM)}
SelectGiven    == (M :> {2}) @@ (A :> {1, 2}) @@ (B :> {1, 2}) @@ (C :> {2}) @@ (D :> {0, 1})
NoChoices      == <<>>

(***************************************************************************)
(* A tristate choice Ch, default Q, with a tristate P and a bool Q that    *)
(* depends on !D.                                                          *)
(***************************************************************************)
ChoiceTreeSyms  == {M, D, P, Q}
ChoiceOrder     == <<M, D, P, Q>>
ChoiceTreeType  == [i \in {M, D, P, Q, Ch} |-> IF i \in {P, Ch} THEN "tristate" ELSE "bool"]
QDep            == And(Not(I(D)), I(Ch))
ChoicePrompts   == [i \in {M, D, P, Q, Ch} |->
                       CASE i = P -> <<I(Ch)>> [] i = Q -> <<QDep>> [] OTHER -> <<Y>>]
ChoiceDefaults  == [i \in {M, D, P, Q, Ch} |-> IF i = Ch THEN << <<Q, Y>> >> ELSE <<>>]
ChoiceNoSelect  == [s \in ChoiceTreeSyms |-> N]
ChoiceDirect    == [s \in ChoiceTreeSyms |->
                       CASE s = P -> I(Ch) [] s = Q -> QDep [] OTHER -> Y]
ChoiceChoiceOf  == [s \in ChoiceTreeSyms |-> IF s \in {P, Q} THEN Ch ELSE None]
ChoiceExprs     == {Y, N, I(Ch), I(D), Not(I(D)), QDep}
ChoiceGiven     == (M :> {2}) @@ (D :> {2}) @@ (P :> {1, 2}) @@ (Q :> {0, 2}) @@ (Ch :> {2})
PQ              == Ch :> <<P, Q>>
ChoiceOptional  == Ch :> FALSE

(***************************************************************************)
(* A tristate A; a bool B depends on A, default y, that selects C if A is  *)
(* m and implies D; an optional tristate choice Ch depends on A, with a    *)
(* tristate P and a bool Q that depends on B.                              *)
(***************************************************************************)
MixedSyms     == {M, A, B, C, D, P, Q}
MixedItems    == MixedSyms \cup {Ch}
MixedOrder    == <<M, A, B, C, D, P, Q>>
MixedType     == [i \in MixedItems |-> IF i \in {M, B, Q} THEN "bool" ELSE "tristate"]
MixedDep      == [i \in MixedItems |-> CASE i \in {B, Ch} -> I(A) [] i = D -> I(M)
                                         [] i = P -> I(Ch) [] i = Q -> And(I(B), I(Ch))
                                         [] OTHER -> Y]
MixedPrompts  == [i \in MixedItems |-> <<MixedDep[i]>>]
MixedDefaults == [i \in MixedItems |-> IF i = B THEN << <<Y, I(A)>> >> ELSE <<>>]
MixedRev      == [s \in MixedSyms |-> IF s = C THEN And(I(B), And(AIsM, I(A))) ELSE N]
MixedWeak     == [s \in MixedSyms |-> IF s = D THEN And(I(B), I(A)) ELSE N]
MixedDirect   == [s \in MixedSyms |-> MixedDep[s]]
MixedChoiceOf == [s \in MixedSyms |-> IF s \in {P, Q} THEN Ch ELSE None]
MixedOptional == Ch :> TRUE
MixedExprs    == {Y, N, I(M), I(A), I(B), I(Ch), AIsM, And(I(B), I(A)), And(I(B), I(Ch)),
                  And(AIsM, I(A)), And(I(B), And(AIsM, I(A)))}
MixedGiven    == (M :> {2}) @@ (A :> {1, 2}) @@ (B :> {0, 2}) @@ (C :> {0, 1}) @@ (D :> {0, 1})
                    @@ (P :> {1, 2}) @@ (Q :> {2}) @@ (Ch :> {1, 2})

\* What AssignableIsRespectedThm supposes of promotions follows from this, by
\* SelectedOrImpliedIsEnough.
ASSUME PromotionsAreSeen == SelectedOrImplied
=============================================================================
