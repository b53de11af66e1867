------------------------------ MODULE MCPablo ------------------------------
(* Pablo on a ROM of three pages, with two images of this machine that      *)
(* share the page with the footer, one of another machine that shares a     *)
(* page with each of them, a file whose header is wrong, a damaged one and  *)
(* one for a machine without an AVR.  Two pages of the new image are alike, *)
(* as those that fill a ROM are.                                            *)
EXTENDS Pablo
Old == [p \in Pages |-> <<"old0", "old1", "mine">>[p + 1]]
New == [p \in Pages |-> <<"blank", "blank", "mine">>[p + 1]]
Other == [p \in Pages |-> <<"old0", "blank", "other">>[p + 1]]
MCImages == {Old, New, Other}
MCContents == {"old0", "old1", "blank", "mine", "other"}
MCTags == {"m1", "m2", "k20"}
MCAvrTags == {"m1", "m2"}
MCTagIn == [c \in MCContents |-> IF c = "mine" THEN "m1" ELSE "m2"]
File(t, d) == [tag |-> t, fits |-> TRUE, data |-> d]
MCFiles == {File("m1", New), File("m1", Other), File("m2", Other),
            [File("m1", Old) EXCEPT !.fits = FALSE],
            File("m1", [New EXCEPT ![1] = "old1"]), File("k20", New)}
MCOptions == {{}, {"flash"}, {"file", "flash"}, {"file", "verify", "stay"}}
==============================================================================
