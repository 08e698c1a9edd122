-------------------------- MODULE MCFileSystemsPage --------------------------
(***************************************************************************)
(* FileSystemsPage with small constants.                                   *)
(***************************************************************************)
EXTENDS FileSystemsPage

CONSTANTS a1, a2, a3

MCAccounts == {a1, a2, a3}
=============================================================================
