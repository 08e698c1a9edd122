--------------------------- MODULE RoleOperations ---------------------------
(***************************************************************************)
(* Which storage accounts and containers a principal can access            *)
(* (Services/RoleOperations.cs, GetAccessibleContainersForPrincipal).      *)
(*                                                                         *)
(* For each managed subscription a worker of Parallel.ForEach finds the    *)
(* role definitions (kept in a static dictionary that all requests of the  *)
(* process share), reads the principal's role assignments and keeps those  *)
(* of a storage data role in an unordered bag.  When all workers are done  *)
(* the assignments are merged one by one, in whatever order the bag gives  *)
(* them, into one row per storage account.                                 *)
(*                                                                         *)
(* A subscription whose id does not parse (one after a comma and a blank,  *)
(* since Configuration.cs:42 trims the ids to no effect) has no role       *)
(* definitions, and its assignments are never found.                       *)
(*                                                                         *)
(* Some failures end the request with an exception (listing definitions,   *)
(* credentials, the Redis read of the account properties, tags of an       *)
(* account that cannot be read), others are swallowed and leave the report *)
(* incomplete (reading assignments, listing containers).  missed and dark  *)
(* record the latter; no action reads them.                                *)
(***************************************************************************)
CONSTANTS
    Requests, Subscriptions, Malformed, Accounts, DataRoles, Existing, Whole,
    Grants,         \* conceivable role assignments of the principal
    Assignments,    \* the sets of them that it may have
    NoAccount,      \* account of an assignment above storage account level
    NoRow, Idle, Pending

Containers == (UNION {Existing[a] : a \in Accounts}) \cup {g.container : g \in Grants}
Rows == [containers : SUBSET Containers, all : BOOLEAN]
Answers == [rows : [Accounts -> Rows \cup {NoRow}],
            missed : SUBSET Subscriptions,
            dark : SUBSET Accounts]

ASSUME RoleAssumption ==
    /\ Malformed \subseteq Subscriptions
    /\ Assignments \subseteq SUBSET Grants
    /\ \A g \in Grants : g.sub \in Subscriptions /\ g.account \in Accounts \cup {NoAccount}
    /\ NoAccount \notin Accounts
    /\ NoRow \notin Rows
    /\ Idle # Pending
    /\ {Idle, Pending} \cap Answers = {}

VARIABLES
    granted,    \* the role assignments the principal has (fixed)
    known,      \* subscriptions in the static roleDefinitions dictionary
    pc,         \* pc[r]: where request r stands
    worker,     \* worker[r][s]: where its worker for subscription s stands
    bag,        \* bag[r]: assignments collected by the workers
    todo,       \* todo[r]: assignments not merged yet
    results,    \* results[r][a]: the row of account a, or NoRow
    missed,     \* missed[r]: subscriptions whose assignments could not be read
    dark        \* dark[r]: accounts whose containers could not be listed

vars == <<granted, known, pc, worker, bag, todo, results, missed, dark>>

TypeOK ==
    /\ granted \subseteq Grants
    /\ known \subseteq Subscriptions \ Malformed
    /\ pc \in [Requests -> {"idle", "reading", "prepare", "merge", "done"}]
    /\ worker \in [Requests -> [Subscriptions ->
                        {"waiting", "list", "assign", "done", "threw"}]]
    /\ bag \in [Requests -> SUBSET Grants]
    /\ todo \in [Requests -> SUBSET Grants]
    /\ results \in [Requests -> [Accounts -> Rows \cup {NoRow}]]
    /\ missed \in [Requests -> SUBSET Subscriptions]
    /\ dark \in [Requests -> SUBSET Accounts]

NoRows == [a \in Accounts |-> NoRow]
AllWaiting == [s \in Subscriptions |-> "waiting"]

Init ==
    /\ granted \in Assignments
    /\ known = {}
    /\ pc = [r \in Requests |-> "idle"]
    /\ worker = [r \in Requests |-> AllWaiting]
    /\ bag = [r \in Requests |-> {}]
    /\ todo = [r \in Requests |-> {}]
    /\ results = [r \in Requests |-> NoRows]
    /\ missed = [r \in Requests |-> {}]
    /\ dark = [r \in Requests |-> {}]

\* Request r goes to p and everything local to it is as new.
Clear(r, p) ==
    /\ pc' = [pc EXCEPT ![r] = p]
    /\ worker' = [worker EXCEPT ![r] = AllWaiting]
    /\ bag' = [bag EXCEPT ![r] = {}]
    /\ todo' = [todo EXCEPT ![r] = {}]
    /\ results' = [results EXCEPT ![r] = NoRows]
    /\ missed' = [missed EXCEPT ![r] = {}]
    /\ dark' = [dark EXCEPT ![r] = {}]
    /\ UNCHANGED <<granted, known>>

Start(r) == pc[r] = "idle" /\ Clear(r, "reading")

-----------------------------------------------------------------------------
(* The workers of Parallel.ForEach, one per subscription. *)

Go(r, s, from, to) ==
    /\ pc[r] = "reading"
    /\ worker[r][s] = from
    /\ worker' = [worker EXCEPT ![r][s] = to]
    /\ UNCHANGED <<granted, pc, todo, results, dark>>

Threw(r) == \E s \in Subscriptions : worker[r][s] = "threw"

\* A mistake: the id of the subscription is not checked before its use.
FindDefinitionsUnchecked(r, s) ==
    /\ ~Threw(r)
    /\ Go(r, s, "waiting", IF s \in known THEN "assign" ELSE "list")
    /\ UNCHANGED <<known, bag, missed>>

\* A subscription whose id cannot be parsed has no definitions; the dictionary
\* is looked up otherwise.  No worker starts once another has thrown.
FindDefinitions(r, s) ==
    /\ ~Threw(r)
    /\ Go(r, s, "waiting", IF s \in Malformed \cup known THEN "assign" ELSE "list")
    /\ UNCHANGED <<known, bag, missed>>

\* Two workers may both get here for one subscription: TryAdd keeps the first.
ListDefinitions(r, s) ==
    /\ Go(r, s, "list", "assign")
    /\ known' = known \cup {s}
    /\ UNCHANGED <<bag, missed>>

\* Azure or the credentials fail: the exception leaves the worker.
ListDefinitionsFails(r, s) ==
    /\ Go(r, s, "list", "threw")
    /\ UNCHANGED <<known, bag, missed>>

\* A mistake: assignments are not joined with the storage data roles.
ReadAssignmentsUnjoined(r, s) ==
    /\ Go(r, s, "assign", "done")
    /\ bag' = [bag EXCEPT ![r] = @ \cup {g \in granted : g.sub = s /\ s \notin Malformed}]
    /\ UNCHANGED <<known, missed>>

\* The assignments of the subscription, joined with its definitions.
ReadAssignments(r, s) ==
    /\ Go(r, s, "assign", "done")
    /\ bag' = [bag EXCEPT ![r] = @ \cup
                 {g \in granted : g.sub = s /\ s \notin Malformed /\ g.role \in DataRoles}]
    /\ UNCHANGED <<known, missed>>

\* A mistake: what the other workers have read is lost as well.
ReadAssignmentsFailsAll(r, s) ==
    /\ Go(r, s, "assign", "done")
    /\ bag' = [bag EXCEPT ![r] = {}]
    /\ missed' = [missed EXCEPT ![r] = @ \cup {s}]
    /\ UNCHANGED known

\* Any exception is logged, and the subscription has no assignments.
ReadAssignmentsFails(r, s) ==
    /\ Go(r, s, "assign", "done")
    /\ missed' = [missed EXCEPT ![r] = @ \cup {s}]
    /\ UNCHANGED <<known, bag>>

Join(r) ==
    /\ pc[r] = "reading"
    /\ \A s \in Subscriptions : worker[r][s] = "done"
    /\ pc' = [pc EXCEPT ![r] = "prepare"]
    /\ UNCHANGED <<granted, known, worker, bag, todo, results, missed, dark>>

\* A mistake: the workers that never started are waited for.
JoinThrowsAfterAll(r) ==
    /\ pc[r] = "reading"
    /\ Threw(r)
    /\ \A s \in Subscriptions : worker[r][s] \in {"done", "threw"}
    /\ Clear(r, "idle")

\* Workers that were running when another threw end first; the request fails.
JoinThrows(r) ==
    /\ pc[r] = "reading"
    /\ Threw(r)
    /\ \A s \in Subscriptions : worker[r][s] \notin {"list", "assign"}
    /\ Clear(r, "idle")

-----------------------------------------------------------------------------
(* The merge. *)

\* Credentials for the resource graph, then the account properties from Redis.
Prepare(r) ==
    /\ pc[r] = "prepare"
    /\ pc' = [pc EXCEPT ![r] = "merge"]
    /\ todo' = [todo EXCEPT ![r] = bag[r]]
    /\ UNCHANGED <<granted, known, worker, bag, results, missed, dark>>

PrepareFails(r) == pc[r] = "prepare" /\ Clear(r, "idle")

Merged(r, g) ==
    /\ pc[r] = "merge"
    /\ g \in todo[r]
    /\ todo' = [todo EXCEPT ![r] = @ \ {g}]
    /\ UNCHANGED <<granted, known, pc, worker, bag, missed>>

\* The row of account a so far, a new one if the account is met first.
RowOf(r, a) ==
    IF results[r][a] = NoRow THEN [containers |-> {}, all |-> FALSE]
    ELSE results[r][a]

\* An account is met first, and its tags come in a form that cannot be read.
MergeThrows(r, g) ==
    /\ pc[r] = "merge"
    /\ g \in todo[r]
    /\ g.account # NoAccount
    /\ results[r][g.account] = NoRow
    /\ Clear(r, "idle")

\* Assignments above account level match no pattern and are passed over.
SkipHigher(r, g) ==
    /\ Merged(r, g)
    /\ g.account = NoAccount
    /\ UNCHANGED <<results, dark>>

\* A mistake: containers are added to rows that already hold all of them.
MergeContainerAlways(r, g) ==
    /\ Merged(r, g)
    /\ g.account # NoAccount /\ g.container # Whole
    /\ results' = [results EXCEPT ![r][g.account] =
          [RowOf(r, g.account) EXCEPT !.containers = @ \cup {g.container}]]
    /\ UNCHANGED dark

MergeContainer(r, g) ==
    /\ Merged(r, g)
    /\ g.account # NoAccount /\ g.container # Whole
    /\ results' = [results EXCEPT ![r][g.account] =
          LET row == RowOf(r, g.account)
          IN  IF row.all THEN row
              ELSE [containers |-> row.containers \cup {g.container}, all |-> FALSE]]
    /\ UNCHANGED dark

\* The first assignment on a whole account replaces the containers of its row
\* by all the account has, or by none if they cannot be listed.
MergeAccount(r, g) ==
    /\ Merged(r, g)
    /\ g.account # NoAccount /\ g.container = Whole
    /\ ~RowOf(r, g.account).all
    /\ \/ /\ results' = [results EXCEPT ![r][g.account] =
                            [containers |-> Existing[g.account], all |-> TRUE]]
          /\ UNCHANGED dark
       \/ /\ results' = [results EXCEPT ![r][g.account] =
                            [containers |-> {}, all |-> TRUE]]
          /\ dark' = [dark EXCEPT ![r] = @ \cup {g.account}]

\* Further ones find nothing left to do.
MergeAccountAgain(r, g) ==
    /\ Merged(r, g)
    /\ g.account # NoAccount /\ g.container = Whole
    /\ RowOf(r, g.account).all
    /\ UNCHANGED <<results, dark>>

\* The account properties are saved; a failure to save them is swallowed.
Return(r) ==
    /\ pc[r] = "merge"
    /\ todo[r] = {}
    /\ pc' = [pc EXCEPT ![r] = "done"]
    /\ UNCHANGED <<granted, known, worker, bag, todo, results, missed, dark>>

Finish(r) == pc[r] = "done" /\ Clear(r, "idle")

-----------------------------------------------------------------------------

Work(r, s) ==
    \/ FindDefinitions(r, s)
    \/ ListDefinitions(r, s) \/ ListDefinitionsFails(r, s)
    \/ ReadAssignments(r, s) \/ ReadAssignmentsFails(r, s)

Merge(r, g) ==
    \/ SkipHigher(r, g)
    \/ MergeContainer(r, g)
    \/ MergeAccount(r, g)
    \/ MergeAccountAgain(r, g)

\* Everything a request does once it has started.
Step(r) ==
    \/ \E s \in Subscriptions : Work(r, s)
    \/ Join(r) \/ JoinThrows(r)
    \/ Prepare(r) \/ PrepareFails(r)
    \/ \E g \in Grants : Merge(r, g) \/ MergeThrows(r, g)
    \/ Return(r) \/ Finish(r)

Next == \E r \in Requests : Start(r) \/ Step(r)

Spec == Init /\ [][Next]_vars

\* A request that started keeps running: its workers are scheduled and the
\* calls they make return, with an answer or an exception.
FairSpec == Spec /\ \A r \in Requests : WF_vars(Step(r))

-----------------------------------------------------------------------------
(* Properties. *)

\* The contract of AccessReport: whatever the order of the assignments in the
\* bag, a report is determined by what could and could not be read for it.
Answer(r) == [rows |-> results[r], missed |-> missed[r], dark |-> dark[r]]

Abs == INSTANCE AccessReport WITH
            report <- [r \in Requests |-> IF pc[r] = "idle" THEN Idle
                                          ELSE IF pc[r] = "done" THEN Answer(r)
                                          ELSE Pending]

ImplementsAccessReport == Abs!Spec

\* A report never shows more than the principal was granted: an account only
\* with a data role on it or in it, a container only with a data role on it,
\* or with one on the account it exists in.
NeverMoreThanGranted ==
    \A r \in Requests, a \in Accounts : results[r][a] # NoRow =>
        LET mine == {g \in granted : g.account = a /\ g.role \in DataRoles}
        IN  /\ mine # {}
            /\ \A c \in results[r][a].containers : \E g \in mine :
                  g.container = c \/ (g.container = Whole /\ c \in Existing[a])

\* Everything the principal was granted by way of a data role.
Assigned == {g \in granted : g.role \in DataRoles}

\* A failure hides what it concerns and nothing else: an account whose containers
\* were listed without failure, and whose assignments are all in subscriptions that
\* could be read and whose ids parse, has the row that all assignments granted give
\* it (RoleOperations.cs:413-418, and where the containers of an account are
\* listed).  Accounts with an assignment in a malformed subscription are excepted:
\* that is never read, and nothing records it (Configuration.cs:41-42, where the ids
\* are meant to be trimmed).
LossIsLocal ==
    \A r \in Requests, a \in Accounts :
        /\ pc[r] = "done"
        /\ a \notin dark[r]
        /\ \A g \in Assigned : g.account = a => g.sub \notin missed[r] \cup Malformed
        => results[r][a] = Abs!Row(Assigned, {}, a)

\* At every moment of the merge the rows are those of the assignments merged
\* so far, and the bag holds what the workers that are done could read.
SoFar(r) ==
    /\ todo[r] \subseteq bag[r]
    /\ bag[r] = {g \in Abs!Visible(missed[r]) : worker[r][g.sub] = "done"}
    /\ \A s \in missed[r] : worker[r][s] = "done"
    /\ \A s \in Malformed : worker[r][s] # "list"
    /\ \A a \in dark[r] : results[r][a] # NoRow /\ results[r][a].all
    /\ results[r] = Abs!Report(IF pc[r] \in {"merge", "done"} THEN bag[r] \ todo[r] ELSE {},
                               dark[r])
    /\ pc[r] \notin {"merge", "done"} => dark[r] = {} /\ todo[r] = {}
    /\ pc[r] = "done" => todo[r] = {}
    /\ pc[r] \in {"prepare", "merge", "done"} =>
          \A s \in Subscriptions : worker[r][s] = "done"

MergedSoFar == \A r \in Requests : SoFar(r)

IInv == TypeOK /\ MergedSoFar

\* Whatever throws and whenever, a request comes to its end: no worker is
\* waited for that never starts.
EveryRequestEnds == \A r \in Requests : pc[r] # "idle" ~> pc[r] = "idle"

\* RoleOperations.cs:84 "Retrieves a complete list of storage accounts and
\* containers in those storage accounts that the specified principal ID can
\* access": every report returned has all that was granted.
ReturnedListIsComplete ==
    \A r \in Requests : pc[r] = "done" =>
        results[r] = Abs!Report(Assigned, {})
=============================================================================
