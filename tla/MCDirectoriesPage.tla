--------------------------- MODULE MCDirectoriesPage ---------------------------
(***************************************************************************)
(* DirectoriesPage with small constants: both accounts have a container f1,*)
(* and the list of users typed has a comma, a semicolon and a blank.       *)
(***************************************************************************)
EXTENDS DirectoriesPage, TLC

CONSTANTS a1, a2, f1, f2, n1

MCAccounts == {a1, a2}
MCFileSystems == {f1, f2}
MCListed == (a1 :> {f1, f2}) @@ (a2 :> {f1})
MCNames == {n1}
MCTexts == {<<>>, <<"ann", Comma, "bob", Semicolon, Blank, "eve">>}
=============================================================================
