--------------------------- MODULE ContainerDetails ---------------------------
(***************************************************************************)
(* GET StorageAccounts/{account} (Endpoints/StorageAccounts.cs): the       *)
(* containers of one account that the caller can access, each with the     *)
(* users and groups that have a role on it.                                *)
(*                                                                         *)
(* The containers are those of the caller's report, which may be an hour   *)
(* old, that exist now.  A worker of Parallel.ForEach makes the row of     *)
(* each: it finds the role definitions, reads the assignments on the       *)
(* container, asks for the name of each principal and puts the row into a  *)
(* bag.  Whatever is thrown on the way, from listing the containers to the *)
(* last name, is caught and logged outside the loop, and the rows that are *)
(* in the bag by then are the answer.                                      *)
(***************************************************************************)
CONSTANTS
    Containers,
    Grants,         \* conceivable role assignments: [principal, type, role, container]
    DataRoles,      \* the built-in "Storage Blob Data ..." roles
    ShownTypes,     \* principal types on display: users and groups
    Whole,          \* the container of an assignment on the account or above it
    NoList,         \* null: the report has no row for the account
    NoRow,          \* no row for the container in the bag
    Idle, Pending

Entries == [grant : Grants, inherited : BOOLEAN, named : BOOLEAN]
Rows == [access : SUBSET Entries]
Answers == [rows : [Containers -> Rows \cup {NoRow}], listed : SUBSET Containers,
            blind : SUBSET Containers, threw : BOOLEAN]

ASSUME DetailsAssumption ==
    /\ \A S \in SUBSET Containers : S # NoList
    /\ NoRow \notin Rows
    /\ Idle # Pending
    /\ {Idle, Pending} \cap Answers = {}

VARIABLES
    assigned,   \* the role assignments there are (fixed)
    known,      \* are the account's definitions in the static dictionary?
    pc,         \* where the request stands
    accessible, \* accessibleContainers, from the cached report
    found,      \* did the resource graph find the account?
    worker,     \* worker[c]: where the worker for container c stands
    todo,       \* todo[c]: assignments on c whose principals have no name yet
    access,     \* access[c]: entries made for c so far
    rows,       \* rows[c]: the row of c in the bag
    blind       \* containers whose assignments could not be read
\* No action reads blind.

request == <<accessible, found>>
vars == <<assigned, known, pc, accessible, found, worker, todo, access, rows, blind>>

Running == {"define", "assign", "name"}

TypeOK ==
    /\ assigned \subseteq Grants
    /\ known \in BOOLEAN
    /\ pc \in {"idle", "list", "loop", "done"}
    /\ accessible \in {NoList} \cup SUBSET Containers
    /\ found \in BOOLEAN
    /\ worker \in [Containers -> {"none", "waiting", "done", "threw"} \cup Running]
    /\ todo \in [Containers -> SUBSET Grants]
    /\ access \in [Containers -> SUBSET Entries]
    /\ rows \in [Containers -> Rows \cup {NoRow}]
    /\ blind \subseteq Containers
    /\ \A c \in Containers : worker[c] # "none" => accessible # NoList

\* Nothing is under way for any container.
Fresh ==
    /\ worker = [c \in Containers |-> "none"]
    /\ todo = [c \in Containers |-> {}]
    /\ access = [c \in Containers |-> {}]
    /\ rows = [c \in Containers |-> NoRow]
    /\ blind = {}

Init ==
    /\ assigned \in SUBSET Grants
    /\ known = FALSE
    /\ pc = "idle"
    /\ accessible = NoList
    /\ found = FALSE
    /\ Fresh

-----------------------------------------------------------------------------
(* Before the loop. *)

\* The report is there, from the cache or computed: S are the containers it
\* has for the account.
Begin(S) ==
    /\ pc = "idle"
    /\ pc' = "list"
    /\ accessible' = S
    /\ UNCHANGED <<assigned, known, found, worker, todo, access, rows, blind>>

\* No client for the directory can be made: not caught, the request fails.
GraphFails ==
    /\ pc = "list"
    /\ pc' = "idle"
    /\ accessible' = NoList
    /\ UNCHANGED <<assigned, known, found, worker, todo, access, rows, blind>>

\* A mistake: without a list, no container is filtered out.
ListUnfiltered(E, f) ==
    /\ pc = "list"
    /\ pc' = "loop"
    /\ found' = f
    /\ worker' = [c \in Containers |->
                    IF c \in E /\ (accessible = NoList \/ c \in accessible) THEN "waiting" ELSE "none"]
    /\ UNCHANGED <<assigned, known, accessible, todo, access, rows, blind>>

\* The account has the containers of E; the accessible ones get a worker.
List(E, f) ==
    /\ pc = "list"
    /\ accessible = NoList => E = {}
    /\ pc' = "loop"
    /\ found' = f
    /\ worker' = [c \in Containers |->
                    IF c \in E /\ c \in accessible THEN "waiting" ELSE "none"]
    /\ UNCHANGED <<assigned, known, accessible, todo, access, rows, blind>>

\* The containers cannot be listed, there is no list to compare them with, or
\* the resource graph cannot be asked: caught, and answered with no rows.
ListFails ==
    /\ pc = "list"
    /\ pc' = "done"
    /\ UNCHANGED <<assigned, known, request, worker, todo, access, rows, blind>>

-----------------------------------------------------------------------------
(* The workers of Parallel.ForEach, one per container. *)

Go(c, from, to) ==
    /\ pc = "loop"
    /\ worker[c] = from
    /\ worker' = [worker EXCEPT ![c] = to]
    /\ UNCHANGED <<assigned, pc, request>>

Threw == \E c \in Containers : worker[c] = "threw"

\* The scope of an account that was not found has no subscription id, and so no
\* definitions.  No worker starts once another has thrown.
FindDefinitions(c) ==
    /\ ~Threw
    /\ Go(c, "waiting", IF known \/ ~found THEN "assign" ELSE "define")
    /\ UNCHANGED <<known, todo, access, rows, blind>>

ListDefinitions(c) ==
    /\ Go(c, "define", "assign")
    /\ known' = TRUE
    /\ UNCHANGED <<todo, access, rows, blind>>

ListDefinitionsFails(c) ==
    /\ Go(c, "define", "threw")
    /\ UNCHANGED <<known, todo, access, rows, blind>>

\* A mistake: service principals are on display too.
ShownAnyType(c) ==
    {g \in assigned : g.container \in {c, Whole} /\ g.role \in DataRoles}

\* The assignments on c that are on display.
Shown(c) ==
    {g \in assigned : /\ g.container \in {c, Whole}
                      /\ g.role \in DataRoles
                      /\ g.type \in ShownTypes}

ReadAssignments(c) ==
    /\ found
    /\ Go(c, "assign", "name")
    /\ todo' = [todo EXCEPT ![c] = Shown(c)]
    /\ UNCHANGED <<known, access, rows, blind>>

\* The account was not found, or reading throws, which is caught: no assignments.
ReadAssignmentsFails(c) ==
    /\ Go(c, "assign", "name")
    /\ blind' = blind \cup {c}
    /\ UNCHANGED <<known, todo, access, rows>>

\* A mistake: a principal without a name has its entry and is asked for again.
NameUntilKnown(c, g, n) ==
    /\ g \in todo[c]
    /\ Go(c, "name", "name")
    /\ todo' = [todo EXCEPT ![c] = IF n THEN @ \ {g} ELSE @]
    /\ access' = [access EXCEPT ![c] = @ \cup
            {[grant |-> g, inherited |-> g.container = Whole, named |-> n]}]
    /\ UNCHANGED <<known, rows, blind>>

\* The principal of g has a name, or null for one (n is FALSE).
Name(c, g, n) ==
    /\ g \in todo[c]
    /\ Go(c, "name", "name")
    /\ todo' = [todo EXCEPT ![c] = @ \ {g}]
    /\ access' = [access EXCEPT ![c] = @ \cup
            {[grant |-> g, inherited |-> g.container = Whole, named |-> n]}]
    /\ UNCHANGED <<known, rows, blind>>

\* The cache cannot be reached, or an object comes without a name.
NameFails(c) ==
    /\ todo[c] # {}
    /\ Go(c, "name", "threw")
    /\ UNCHANGED <<known, todo, access, rows, blind>>

AddRow(c) ==
    /\ todo[c] = {}
    /\ Go(c, "name", "done")
    /\ rows' = [rows EXCEPT ![c] = [access |-> access[c]]]
    /\ UNCHANGED <<known, todo, access, blind>>

-----------------------------------------------------------------------------
(* After the loop. *)

Settled ==
    /\ pc = "loop"
    /\ pc' = "done"
    /\ UNCHANGED <<assigned, known, request, worker, todo, access, rows, blind>>

\* A mistake: the loop ends as soon as no worker is running.
SettleEarly ==
    /\ \A c \in Containers : worker[c] \notin Running
    /\ Settled

\* A mistake: a worker that threw is waited for by those that never start.
SettleAfterAll ==
    /\ \A c \in Containers : worker[c] \in {"none", "done", "threw"}
    /\ Settled

\* No worker is running, and none will start: the exception of the one that
\* threw is caught, if there is one.
Settle ==
    /\ \A c \in Containers : worker[c] \notin Running
    /\ Threw \/ \A c \in Containers : worker[c] # "waiting"
    /\ Settled

\* Nothing is left of the request.
Over ==
    /\ pc' = "idle"
    /\ accessible' = NoList
    /\ found' = FALSE
    /\ worker' = [c \in Containers |-> "none"]
    /\ todo' = [c \in Containers |-> {}]
    /\ access' = [c \in Containers |-> {}]
    /\ rows' = [c \in Containers |-> NoRow]
    /\ blind' = {}
    /\ UNCHANGED assigned

\* The rows are answered, sorted by name.
Finish == pc = "done" /\ Over /\ UNCHANGED known

\* Another request has listed the definitions of the account's subscription.
OthersListDefinitions ==
    /\ ~known
    /\ known' = TRUE
    /\ UNCHANGED <<assigned, pc, request, worker, todo, access, rows, blind>>

\* The function host is recycled, and the dictionary with it.
HostRestart == pc # "idle" /\ Over /\ known' = FALSE

-----------------------------------------------------------------------------

Work(c) ==
    \/ FindDefinitions(c)
    \/ ListDefinitions(c) \/ ListDefinitionsFails(c)
    \/ ReadAssignments(c) \/ ReadAssignmentsFails(c)
    \/ \E g \in Grants, n \in BOOLEAN : Name(c, g, n)
    \/ NameFails(c)
    \/ AddRow(c)

\* Everything a request does once it has its report.
Step ==
    \/ GraphFails
    \/ \E E \in SUBSET Containers, f \in BOOLEAN : List(E, f)
    \/ ListFails
    \/ \E c \in Containers : Work(c)
    \/ Settle
    \/ Finish

Next ==
    \/ \E S \in {NoList} \cup SUBSET Containers : Begin(S)
    \/ Step
    \/ OthersListDefinitions
    \/ HostRestart

Spec == Init /\ [][Next]_vars

\* A request that started keeps running: its workers are scheduled and their
\* calls return, with an answer or an exception.
FairSpec == Spec /\ WF_vars(Step)

-----------------------------------------------------------------------------
(* Properties. *)

\* The contract of ContainerReport: whatever workers run, and in whatever order
\* their calls return, the answer is one that a single step could have given.
Answer == [rows |-> rows, listed |-> {c \in Containers : worker[c] # "none"},
           blind |-> blind, threw |-> Threw]

Abs == INSTANCE ContainerReport WITH
            answer <- IF pc = "idle" THEN Idle ELSE IF pc = "done" THEN Answer ELSE Pending

ImplementsContainerReport == Abs!Spec

\* The grants that have an entry in S.
GrantsOf(S) == {e.grant : e \in S}

\* A row that is answered is the whole truth about its container, or shows no
\* entry because its assignments could not be read: the container is one of
\* the caller's, each user and group with a storage role on it is there, as
\* inherited or not, and nobody else is.  StorageAccounts.cs:139-152.
RowsAreTrue ==
    \A c \in Containers : rows[c] # NoRow =>
        /\ accessible # NoList /\ c \in accessible
        /\ \A g \in Grants : g \in GrantsOf(rows[c].access) <=>
              /\ c \notin blind
              /\ g \in assigned /\ g.container \in {c, Whole}
              /\ g.role \in DataRoles /\ g.type \in ShownTypes
        /\ \A e \in rows[c].access : e.inherited <=> e.grant.container = Whole

\* No container is lost without an exception: when the loop has ended and no
\* worker threw, each that was listed has its row.  StorageAccounts.cs:97-107.
NothingLostQuietly ==
    pc = "done" /\ ~Threw =>
        \A c \in Containers : worker[c] # "none" => rows[c] # NoRow

\* An exception in one worker, with others waiting or running, does not keep
\* the answer from coming.
AnswerComes == pc # "idle" ~> pc = "idle"

\* docs/API_v2.md:27 "Retrieves the list of containers and container details the
\* signed in user can access.": each container that was listed is answered.
AnswerIsComplete ==
    pc = "done" => \A c \in Containers : worker[c] # "none" => rows[c] # NoRow

-----------------------------------------------------------------------------
(* Why rows are true: entries made and entries to make are those shown. *)

OneEntryEach(c) ==
    /\ \A e \in access[c] : e.grant \notin todo[c]
    /\ \A e1, e2 \in access[c] : e1.grant = e2.grant => e1 = e2

EntriesAddUp ==
    /\ \A c \in Containers : worker[c] # "none" => c \in accessible
    /\ \A c \in Containers : worker[c] \in {"name", "done"} =>
          GrantsOf(access[c]) \cup todo[c] = IF c \in blind THEN {} ELSE Shown(c)
    /\ \A c \in Containers : worker[c] \in {"none", "waiting", "define", "assign"} =>
          access[c] = {} /\ todo[c] = {} /\ c \notin blind
    /\ \A c \in Containers : \A e \in access[c] : e.inherited <=> e.grant.container = Whole
    /\ \A c \in Containers : OneEntryEach(c)
    /\ \A c \in Containers : rows[c] # NoRow <=> worker[c] = "done"
    /\ \A c \in Containers : worker[c] = "done" => rows[c] = [access |-> access[c]] /\ todo[c] = {}
    /\ pc \in {"idle", "list"} => Fresh
    /\ pc = "done" => Threw \/ \A c \in Containers : worker[c] \in {"none", "done"}

IInv == TypeOK /\ EntriesAddUp
=============================================================================
