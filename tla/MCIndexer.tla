------------------------------ MODULE MCIndexer ------------------------------
(* A source with an include, and two headers of one name in two directories.  *)
EXTENDS Indexer, TLC

src == <<"rtl", "s">>
near == <<"rtl", "inc", "h">>
far == <<"lib", "h">>
ThreeFiles == {src, near, far}
TwoHeaders == {near, far}
Order == src :> 2 @@ near :> 1 @@ far :> 0
SomeNames == {"m", "h", "s", "rtl", "inc", "lib"}
Plain == [modules |-> {}, classes |-> {}, others |-> {}, macros |-> {}, uses |-> {}, includes |-> {}]
Texts ==
    src :> {[Plain EXCEPT !.modules = {"s"}, !.includes = {<<"h">>}, !.uses = {"m"}],
            [Plain EXCEPT !.modules = {"m"}]}
    @@ near :> {[Plain EXCEPT !.others = {"m"}, !.macros = {"m"}, !.includes = {<<"lib", "h">>}],
                [Plain EXCEPT !.modules = {"m"}]}
    @@ far :> {[Plain EXCEPT !.classes = {"m"}, !.macros = {"m"}]}
AllFiles == {ThreeFiles, {src, near}}
OnlySource == {{src}}
OnlyFar == {far}
Library == {<<"lib">>, <<>>}
=============================================================================
