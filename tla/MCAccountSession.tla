--------------------------- MODULE MCAccountSession ---------------------------
(***************************************************************************)
(* Three operations: one that asks, one that restores or asks, one that    *)
(* signs in or out, with "ann" signed in on disk or nobody.                *)
(***************************************************************************)
EXTENDS AccountSession

MCKinds == [p1 |-> {"model"},
            p2 |-> {"restore", "profile", "password"},
            p3 |-> {"login", "logout"}]
MCLogins == {<<"ann", TRUE>>, <<"bob", FALSE>>}
=============================================================================
