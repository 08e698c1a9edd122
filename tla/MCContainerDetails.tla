-------------------------- MODULE MCContainerDetails --------------------------
(***************************************************************************)
(* ContainerDetails with small constants: a user with a role on the whole  *)
(* account, a group with one on a container, a service principal, and a    *)
(* role that is not one of the storage data plane.                         *)
(***************************************************************************)
EXTENDS ContainerDetails

CONSTANTS c1, c2, user, group, service, whole

MCContainers == {c1, c2}

Grant(p, t, r, c) == [principal |-> p, type |-> t, role |-> r, container |-> c]

MCGrants ==
    {Grant(user, "User", "reader", whole),
     Grant(group, "Group", "owner", c1),
     Grant(service, "ServicePrincipal", "reader", c1),
     Grant(user, "User", "contributor of another kind", c2)}

MCDataRoles == {"reader", "owner"}
MCShownTypes == {"User", "Group"}
=============================================================================
