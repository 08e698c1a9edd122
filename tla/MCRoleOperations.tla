--------------------------- MODULE MCRoleOperations ---------------------------
(***************************************************************************)
(* RoleOperations with small constants: storage account a1 in subscription *)
(* s1, a2 in s2 or in s3, whose id has a blank before it in the settings,  *)
(* and assignments on one container, on a container that no longer exists, *)
(* on a whole account, above the account, in the subscription that is      *)
(* never read, and of a role that gives no access to data.                 *)
(***************************************************************************)
EXTENDS RoleOperations, TLC

CONSTANTS r1, r2, s1, s2, s3, a1, a2, c1, c2, reader, contributor, owner

MCOneRequest == {r1}
MCTwoRequests == {r1, r2}
MCSubscriptions == {s1, s2}
MCWithMalformed == {s1, s3}
MCMalformed == {s3}
MCNoMalformed == {}
MCAccounts == {a1, a2}
MCDataRoles == {reader, contributor}
MCExisting == (a1 :> {c1}) @@ (a2 :> {c1, c2})

Grant(s, role, a, c) == [sub |-> s, role |-> role, account |-> a, container |-> c]

MCGrants == {
    Grant(s1, reader, a1, c1),
    Grant(s1, contributor, a1, c2),
    Grant(s1, reader, a1, Whole),
    Grant(s1, contributor, a1, Whole),
    Grant(s1, owner, a1, Whole),
    Grant(s1, reader, NoAccount, Whole),
    Grant(s2, reader, a2, c1) }

MCAssignments == SUBSET MCGrants

\* Those that no report shows: of another role, or in the malformed subscription.
MCUnseen == {Grant(s1, owner, a1, c1), Grant(s3, reader, a2, c1)}

MCSeen == {
    Grant(s1, contributor, a1, c2),
    Grant(s1, reader, a1, Whole),
    Grant(s1, contributor, a1, Whole),
    Grant(s1, reader, NoAccount, Whole) }

\* The unseen ones come together or not at all, to keep the run short: as long as
\* nothing shows them, they have no effect on any step.
MCFewGrants == MCSeen \cup MCUnseen
MCFewAssignments == {S \in SUBSET MCFewGrants : MCUnseen \subseteq S \/ MCUnseen \cap S = {}}
=============================================================================
