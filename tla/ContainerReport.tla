---------------------------- MODULE ContainerReport ----------------------------
(***************************************************************************)
(* What a caller of GET StorageAccounts/{account} may rely on: the answer  *)
(* is as if computed in one step from the role assignments.  Every row is  *)
(* one the container can have, and a container that was listed has a row   *)
(* unless an exception was thrown.  How many workers made the rows, and in *)
(* which order their calls returned, cannot be told from it.               *)
(* ContainerDetails is shown to implement this.                            *)
(***************************************************************************)
CONSTANTS
    Containers,
    Grants,         \* conceivable role assignments: [principal, type, role, container]
    DataRoles,      \* the built-in "Storage Blob Data ..." roles
    ShownTypes,     \* principal types on display: users and groups
    Whole,          \* the container of an assignment on the account or above it
    NoList,         \* the caller's report has no row for the account
    NoRow,          \* no row for the container
    Idle,           \* nobody asks
    Pending         \* the caller waits

VARIABLES
    assigned,       \* the role assignments there are (fixed)
    accessible,     \* the containers of the account in the caller's report
    answer          \* Idle, Pending, or the answer given: its rows, the containers
                    \* listed, those of them whose assignments could not be read,
                    \* and whether an exception was thrown

vars == <<assigned, accessible, answer>>

Entries == [grant : Grants, inherited : BOOLEAN, named : BOOLEAN]
Answers == [rows : [Containers -> [access : SUBSET Entries] \cup {NoRow}],
            listed : SUBSET Containers,
            blind : SUBSET Containers,
            threw : BOOLEAN]

Shown(c) ==
    {g \in assigned : g.container \in {c, Whole} /\ g.role \in DataRoles /\ g.type \in ShownTypes}

\* The rows container c can have: one entry for each assignment on display,
\* and any of the principals may have no name.
RowsOf(c, blind) ==
    IF c \in blind THEN {[access |-> {}]}
    ELSE {[access |-> {[grant |-> g, inherited |-> g.container = Whole, named |-> g \in N] :
                          g \in Shown(c)}] : N \in SUBSET Shown(c)}

Truthful(A) ==
    /\ A.listed # {} => accessible # NoList /\ A.listed \subseteq accessible
    /\ A.blind \subseteq A.listed
    /\ \A c \in Containers : A.rows[c] # NoRow =>
            c \in A.listed /\ A.rows[c] \in RowsOf(c, A.blind)
    /\ ~A.threw => \A c \in A.listed : A.rows[c] # NoRow

Init ==
    /\ assigned \in SUBSET Grants
    /\ accessible = NoList
    /\ answer = Idle

Ask(S) ==
    /\ answer = Idle
    /\ accessible' = S
    /\ answer' = Pending
    /\ UNCHANGED assigned

Answer ==
    /\ answer = Pending
    /\ answer' \in Answers
    /\ Truthful(answer')
    /\ UNCHANGED <<assigned, accessible>>

\* The answer was received, or the request failed.
End ==
    /\ answer # Idle
    /\ accessible' = NoList
    /\ answer' = Idle
    /\ UNCHANGED assigned

Next ==
    \/ \E S \in {NoList} \cup SUBSET Containers : Ask(S)
    \/ Answer
    \/ End

Spec == Init /\ [][Next]_vars
=============================================================================
