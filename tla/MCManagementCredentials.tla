----------------------- MODULE MCManagementCredentials -----------------------
(***************************************************************************)
(* ManagementCredentials with small constants.                             *)
(***************************************************************************)
EXTENDS ManagementCredentials

CONSTANTS t1, t2, t3

MCThreads == {t1, t2, t3}
=============================================================================
