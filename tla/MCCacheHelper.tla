---------------------------- MODULE MCCacheHelper ----------------------------
(***************************************************************************)
(* CacheHelper with small constants.                                       *)
(***************************************************************************)
EXTENDS CacheHelper

CONSTANTS r1, r2, k1, v1, v2

MCRequests == {r1, r2}
MCKeys == {k1}
MCValues == {v1, v2}
=============================================================================
