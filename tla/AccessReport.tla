---------------------------- MODULE AccessReport ----------------------------
(***************************************************************************)
(* What a caller of GetAccessibleContainersForPrincipal may rely on: the   *)
(* report is computed as if in one step from the role assignments of some  *)
(* of the subscriptions (those that could be read) and the containers of   *)
(* some of the storage accounts (those that could be listed).  In which    *)
(* order the assignments arrived and were merged cannot be told from it.   *)
(* A subscription whose configured id does not parse is never read and not *)
(* counted among those missed: its assignments are in no report, not even  *)
(* in one for which nothing failed.  RoleOperations implements this.       *)
(***************************************************************************)

CONSTANTS
    Requests,       \* concurrent computations
    Subscriptions,  \* the managed subscriptions
    Malformed,      \* those whose configured id does not parse
    Accounts,       \* storage accounts
    Assignments,    \* the sets of role assignments that the principal may have
    DataRoles,      \* the built-in "Storage Blob Data ..." roles
    Existing,       \* Existing[a]: the containers account a has
    Whole,          \* the container of an assignment on a whole account
    NoRow,          \* the report has no row for the account
    Idle,           \* the request asks nothing
    Pending         \* the request waits

VARIABLES
    granted,        \* the role assignments the principal has
    report          \* report[r]: Idle, Pending, or the report given: its rows,
                    \* and what could not be read or listed for it

vars == <<granted, report>>

\* The assignments that a report sees, when those of the subscriptions in missed
\* could not be read.  Those of Malformed subscriptions it never sees, because the
\* blanks around an id are not trimmed (Configuration.cs:42).
Visible(missed) ==
    {g \in granted : g.role \in DataRoles /\ g.sub \notin missed \cup Malformed}

\* The row of account a: every container of the account if one assignment is
\* on the whole of it (none if they cannot be listed), else the containers
\* assigned one by one.
Row(S, dark, a) ==
    LET mine == {g \in S : g.account = a}
        all == \E g \in mine : g.container = Whole
    IN  IF mine = {} THEN NoRow
        ELSE [containers |-> IF ~all THEN {g.container : g \in mine}
                             ELSE IF a \in dark THEN {} ELSE Existing[a],
              all |-> all]

Report(S, dark) == [a \in Accounts |-> Row(S, dark, a)]

Init ==
    /\ granted \in Assignments
    /\ report = [r \in Requests |-> Idle]

Ask(r) ==
    /\ report[r] = Idle
    /\ report' = [report EXCEPT ![r] = Pending]
    /\ UNCHANGED granted

Answer(r, missed, dark) ==
    /\ report[r] = Pending
    /\ report' = [report EXCEPT ![r] = [rows |-> Report(Visible(missed), dark),
                                        missed |-> missed,
                                        dark |-> dark]]
    /\ UNCHANGED granted

\* The answer was consumed, or an exception ended the request.
End(r) ==
    /\ report' = [report EXCEPT ![r] = Idle]
    /\ UNCHANGED granted

Next ==
    \E r \in Requests :
        \/ Ask(r)
        \/ End(r)
        \/ \E missed \in SUBSET Subscriptions, dark \in SUBSET Accounts :
              Answer(r, missed, dark)

Spec == Init /\ [][Next]_vars
=============================================================================
