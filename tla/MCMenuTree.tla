------------------------------ MODULE MCMenuTree ------------------------------
(***************************************************************************)
(* Instances of MenuTree: three symbols, a choice, and the statements that *)
(* define and use them.                                                    *)
(***************************************************************************)
EXTENDS MenuTree

CONSTANTS A, B, C, CH

Plain ==
    [kind |-> "config", item |-> None, prompt |-> None, dep |-> {}, visibility |-> {},
     selects |-> {}, implies |-> {}, defaults |-> {}]

MCStatements == {
    \* config A, prompt, select B
    [Plain EXCEPT !.item = A, !.prompt = {}, !.selects = {<<B, {}>>}],
    \* config B, no prompt, depends on A, default y
    [Plain EXCEPT !.item = B, !.dep = {A}, !.defaults = {<<Yes, Yes>>}],
    \* config C, prompt if B, default y if A
    [Plain EXCEPT !.item = C, !.prompt = {B}, !.defaults = {<<Yes, {A}>>}],
    \* menuconfig C, prompt, depends on A, select A if B
    [Plain EXCEPT !.kind = "menuconfig", !.item = C, !.prompt = {}, !.dep = {A},
                  !.selects = {<<A, {B}>>}],
    \* configdefault C, default B if A
    [Plain EXCEPT !.kind = "configdefault", !.item = C, !.defaults = {<<{B}, {A}>>}],
    \* config A, prompt, imply B if C
    [Plain EXCEPT !.item = A, !.prompt = {}, !.implies = {<<B, {C}>>}],
    [Plain EXCEPT !.kind = "comment", !.prompt = {}, !.dep = {B}],
    [Plain EXCEPT !.kind = "if", !.dep = {B}],
    [Plain EXCEPT !.kind = "menu", !.prompt = {}, !.dep = {A}, !.visibility = {C}],
    \* choice, prompt if C
    [Plain EXCEPT !.kind = "choice", !.item = CH, !.prompt = {C}]}

\* A choice with 'prompt if C', its symbols, and a menu that may be inside it.
MCChoiceStatements == {
    [Plain EXCEPT !.item = A, !.prompt = {}],
    [Plain EXCEPT !.item = C, !.prompt = {}],
    [Plain EXCEPT !.kind = "menu", !.prompt = {}],
    [Plain EXCEPT !.kind = "choice", !.item = CH, !.prompt = {C}]}

\* Bound: a single definition of the choice.
ChoiceIsDefinedOnce == Cardinality({k \in NodeIds : IsChoice(lexical[k])}) <= 1
=============================================================================
