---------------------------- MODULE MCFriendlyNames ----------------------------
(***************************************************************************)
(* FriendlyNames with small constants.                                     *)
(***************************************************************************)
EXTENDS FriendlyNames

CONSTANTS r1, r2, a1, a2, n1

MCRequests == {r1, r2}
MCAccounts == {a1, a2}
MCNames == {n1}
=============================================================================
