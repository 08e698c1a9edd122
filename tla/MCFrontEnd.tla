------------------------------ MODULE MCFrontEnd ------------------------------
(***************************************************************************)
(* FrontEnd with small constants: three people have access to the          *)
(* containers of a1, eleven to those of a2.                                *)
(***************************************************************************)
EXTENDS FrontEnd, TLC

CONSTANTS a1, a2

MCAccounts == {a1, a2}
MCMembers == (a1 :> 3) @@ (a2 :> 11)
MCMissing == {{}, {"MANAGED_SUBSCRIPTIONS", "others"}, {"STORAGE_FRIENDLY_TAG_NAME"}}
=============================================================================
