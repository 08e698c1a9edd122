--------------------------- MODULE FileSystemsPage ---------------------------
(***************************************************************************)
(* The page that lists the containers of the selected storage account      *)
(* (front/src/components/FileSystemsPage/FileSystemsPage.js).              *)
(*                                                                         *)
(* Its state hooks are the variables.  An effect that depends on a hook is *)
(* part of the action that changes the hook: React 17 runs it before the   *)
(* next update.  What follows an await is an action of its own, so the     *)
(* user and other answers come in between.  Nothing cancels a request when *)
(* the selection changes, and answers carry no mark of their request.      *)
(***************************************************************************)
EXTENDS Naturals, Sequences, SequencesExt, ServiceClient, Widgets

CONSTANTS
    Accounts,       \* storage accounts the API may list
    NoAccount,      \* '' : nothing selected
    NoTable,        \* the table was cleared
    NoRow,          \* the details dialog is closed
    MaxRequests     \* bound on requests in flight

ASSUME PageAssumption ==
    /\ NoAccount \notin Accounts
    /\ NoRow \notin Accounts
    /\ NoTable \notin [account : Accounts, rows : BOOLEAN]
    /\ MaxRequests \in Nat \ {0}

VARIABLES
    list,           \* the request for the accounts
    storageAccounts,
    selected,       \* selectedStorageAccount
    requests,       \* getFileSystems calls in flight, oldest first
    fileSystems,    \* the table: whose containers, and are there any
    loading,        \* the spinner
    toast,          \* the message shown, if any, and its severity
    details,        \* the account whose row the details dialog shows
    lastFailed,     \* did the request that settled last fail?
    overtaken,      \* did a request settle before an older one in flight?
    hasty           \* was a request in flight when the dialog was opened?
\* No action depends on lastFailed, overtaken and hasty.

dialog == <<details, hasty>>
vars == <<list, storageAccounts, selected, requests, fileSystems, loading, toast,
          details, lastFailed, overtaken, hasty>>

Tables == [account : Accounts, rows : BOOLEAN]
NoToast == <<"none", "none">>
Toasts == {NoToast} \cup {"success"} \X {"accountsLoaded", "containersLoaded"}
                    \cup {"error"} \X {"noAccountsLoaded", "noContainersLoaded"}

TypeOK ==
    /\ list \in {"unasked", "asked", "loaded", "empty", "failed"}
    /\ storageAccounts \in SUBSET Accounts
    /\ selected \in storageAccounts \cup {NoAccount}
    /\ requests \in Seq(Accounts) /\ Len(requests) <= MaxRequests
    /\ fileSystems \in Tables \cup {NoTable}
    /\ loading \in BOOLEAN
    /\ toast \in Toasts
    /\ details \in Accounts \cup {NoRow}
    /\ hasty \in BOOLEAN
    /\ lastFailed \in BOOLEAN
    /\ overtaken \in BOOLEAN

Init ==
    /\ list = "unasked"
    /\ storageAccounts = {}
    /\ selected = NoAccount
    /\ requests = <<>>
    /\ fileSystems = NoTable
    /\ loading = FALSE
    /\ toast = NoToast
    /\ details = NoRow
    /\ hasty = FALSE
    /\ lastFailed = FALSE
    /\ overtaken = FALSE

-----------------------------------------------------------------------------

\* useAuthentication learns who the user is: the first effect asks for the
\* accounts.
Authenticated ==
    /\ list = "unasked"
    /\ list' = "asked"
    /\ loading' = TRUE
    /\ UNCHANGED <<storageAccounts, selected, requests, fileSystems, toast, dialog,
                   lastFailed, overtaken>>

displayToast(message) == toast' = <<"success", message>>
displayErrorToast(message) == toast' = <<"error", message>>

\* A mistake: the spinner is not shown for the containers.
SelectQuietly(a) ==
    /\ selected' = a
    /\ fileSystems' = NoTable
    /\ requests' = Append(requests, a)
    /\ overtaken' = (overtaken /\ requests # <<>>)
    /\ UNCHANGED loading

\* setSelectedStorageAccount and the second effect it triggers.
Select(a) ==
    /\ selected' = a
    /\ fileSystems' = NoTable
    /\ loading' = TRUE
    /\ requests' = Append(requests, a)
    /\ overtaken' = (overtaken /\ requests # <<>>)

\* The accounts arrive and the first of them is selected.
AccountsLoaded(S, first) ==
    /\ list = "asked"
    /\ first \in S
    /\ list' = "loaded"
    /\ storageAccounts' = S
    /\ Select(first)
    /\ displayToast("accountsLoaded")
    /\ UNCHANGED <<dialog, lastFailed>>

\* No accounts: the spinner stays.
NoAccountsLoaded ==
    /\ list = "asked"
    /\ list' = "empty"
    /\ displayErrorToast("noAccountsLoaded")
    /\ UNCHANGED <<storageAccounts, selected, requests, fileSystems, loading, dialog,
                   lastFailed, overtaken>>

\* The error goes to the console only.
AccountsFail ==
    /\ list = "asked"
    /\ list' = "failed"
    /\ UNCHANGED <<storageAccounts, selected, requests, fileSystems, loading, toast,
                   dialog, lastFailed, overtaken>>

\* A mistake: the page behind the dialog can be used.
ChooseBehind(a) ==
    /\ Picks(storageAccounts, selected, a)
    /\ Len(requests) < MaxRequests
    /\ Select(a)
    /\ UNCHANGED <<list, storageAccounts, toast, dialog, lastFailed>>

\* The user picks another account, unless the dialog covers the page.  The overlay
\* of the spinner (PageLoader.css) keeps the mouse from the selector and not the
\* keyboard: a choice with the spinner on is one made by keyboard.
Choose(a) ==
    /\ details = NoRow
    /\ Picks(storageAccounts, selected, a)
    /\ Len(requests) < MaxRequests
    /\ Select(a)
    /\ UNCHANGED <<list, storageAccounts, toast, dialog, lastFailed>>

\* Request i is the one that settles.
Settle(i) ==
    /\ i \in DOMAIN requests
    /\ requests' = RemoveAt(requests, i)
    /\ overtaken' = (overtaken \/ i # 1)

populated(i, rows) ==
    /\ fileSystems' = [account |-> requests[i], rows |-> rows]
    /\ lastFailed' = FALSE
    /\ UNCHANGED <<list, storageAccounts, selected, dialog>>

\* A mistake: the spinner is left on.
FileSystemsLoadedSpinning(i, rows) ==
    /\ Settle(i)
    /\ populated(i, rows)
    /\ IF rows THEN displayToast("containersLoaded") ELSE displayErrorToast("noContainersLoaded")
    /\ UNCHANGED loading

\* A mistake: a table that has rows already is left alone.
FileSystemsLoadedOnce(i, rows) ==
    /\ Settle(i)
    /\ IF fileSystems = NoTable THEN populated(i, rows)
       ELSE lastFailed' = FALSE /\ UNCHANGED <<list, storageAccounts, selected, fileSystems, dialog>>
    /\ loading' = FALSE
    /\ IF rows THEN displayToast("containersLoaded") ELSE displayErrorToast("noContainersLoaded")

\* A mistake: the message does not depend on the rows.
FileSystemsLoadedCheerful(i, rows) ==
    /\ Settle(i)
    /\ populated(i, rows)
    /\ loading' = FALSE
    /\ displayToast("containersLoaded")

\* Whatever is selected by now, the rows go into the table.
FileSystemsLoaded(i, rows) ==
    /\ Settle(i)
    /\ populated(i, rows)
    /\ loading' = FALSE
    /\ IF rows THEN displayToast("containersLoaded") ELSE displayErrorToast("noContainersLoaded")

\* The error goes to the console only: table, spinner and toast stay.
FileSystemsFail(i) ==
    /\ Settle(i)
    /\ lastFailed' = TRUE
    /\ UNCHANGED <<list, storageAccounts, selected, fileSystems, loading, toast, dialog>>

\* The icon in a row opens the dialog with what the row shows at that moment.
onDetails ==
    /\ details = NoRow
    /\ fileSystems # NoTable /\ fileSystems.rows
    /\ details' = fileSystems.account
    /\ hasty' = (requests # <<>>)
    /\ UNCHANGED <<list, storageAccounts, selected, requests, fileSystems, loading, toast,
                   lastFailed, overtaken>>

handleCancelDetails ==
    /\ details # NoRow
    /\ details' = NoRow
    /\ hasty' = FALSE
    /\ UNCHANGED <<list, storageAccounts, selected, requests, fileSystems, loading, toast,
                   lastFailed, overtaken>>

\* The toast goes after five seconds, or when it is closed.
CloseToast ==
    /\ toast # NoToast
    /\ toast' = NoToast
    /\ UNCHANGED <<list, storageAccounts, selected, requests, fileSystems, loading,
                   dialog, lastFailed, overtaken>>

-----------------------------------------------------------------------------

AccountsSettle ==
    \E r \in Responses :
        \/ /\ getStorageAccounts(r)
           /\ \/ \E S \in SUBSET Accounts, a \in Accounts : AccountsLoaded(S, a)
              \/ NoAccountsLoaded
        \/ ~getStorageAccounts(r) /\ AccountsFail

FileSystemsSettle(i) ==
    \E r \in Responses :
        \/ getFileSystems(r) /\ \E rows \in BOOLEAN : FileSystemsLoaded(i, rows)
        \/ ~getFileSystems(r) /\ FileSystemsFail(i)

Next ==
    \/ Authenticated
    \/ AccountsSettle
    \/ \E a \in Accounts : Choose(a)
    \/ \E i \in 1..MaxRequests : FileSystemsSettle(i)
    \/ onDetails
    \/ handleCancelDetails
    \/ CloseToast

Spec == Init /\ [][Next]_vars

\* Every fetch settles some day; the user owes the page nothing.
FairSpec ==
    /\ Spec
    /\ WF_vars(AccountsSettle)
    /\ WF_vars(\E i \in 1..MaxRequests : FileSystemsSettle(i))

-----------------------------------------------------------------------------
(* Properties. *)

\* FileSystemsPage.js:51 "retrieve the list of File Systems for the selected
\* Azure Data Lake Storage Account": when nothing is in flight any more and
\* the last answer was not an error, the table is the selected account's.
SettledTableIsSelected ==
    requests = <<>> /\ selected # NoAccount /\ ~lastFailed =>
        fileSystems # NoTable /\ fileSystems.account = selected

\* The same, unless a request overtook an older one: as long as answers come in
\* the order of their requests, nothing else can leave another account's
\* containers in the table, however often the selection changes meanwhile.
InOrderTableIsSelected == ~overtaken => SettledTableIsSelected

\* Any answer takes the spinner away, also one for an account selected before
\* (FileSystemsPage.js:87-98), and the table without it may have no rows, or those
\* of another account, while the selected account's are on their way.  But it is
\* always an answer, never what clearing the table left, and if it is not the
\* answer for the selected account there is a reason: that one is still to come, a
\* failure was the last to come, or answers came in another order than requests.
SpinnerlessTableExplained ==
    selected # NoAccount /\ ~loading =>
        /\ fileSystems # NoTable
        /\ \/ fileSystems.account = selected
           \/ \E i \in DOMAIN requests : requests[i] = selected
           \/ lastFailed
           \/ overtaken

\* A message about containers that is still up is about the rows in the table.
ToastAgrees ==
    fileSystems # NoTable =>
        /\ toast[2] = "containersLoaded" => fileSystems.rows
        /\ toast[2] = "noContainersLoaded" => ~fileSystems.rows

\* The dialog keeps a copy of its row (FileSystemsPage.js:132), and what arrives
\* behind it may replace the table.  Unless it was opened while a request was
\* under way, the table behind it is still the one its row was taken from.
DetailsOfTable ==
    details # NoRow /\ ~hasty => fileSystems # NoTable /\ fileSystems.account = details

\* The spinner goes away unless a request failed or there are no accounts.
SpinnerEnds ==
    loading ~> ~loading \/ lastFailed \/ list \in {"empty", "failed"}

-----------------------------------------------------------------------------
(* Why. *)

\* While requests settle in order, the newest one in flight is for the account
\* selected, and when none is left its rows are in the table.
NewestIsSelected ==
    ~overtaken =>
        /\ requests # <<>> => requests[Len(requests)] = selected
        /\ requests = <<>> /\ selected # NoAccount /\ ~lastFailed =>
              fileSystems # NoTable /\ fileSystems.account = selected

ClearedIsLoading ==
    selected # NoAccount /\ fileSystems = NoTable => loading

NothingBeforeAccounts ==
    /\ list # "loaded" => /\ requests = <<>> /\ fileSystems = NoTable
                          /\ selected = NoAccount /\ storageAccounts = {}
    /\ list = "unasked" => toast = NoToast

\* Nothing can arrive behind a dialog that was opened with nothing under way.
QuietBehindDetails ==
    details # NoRow => list = "loaded" /\ (~hasty => requests = <<>>)

IInv ==
    /\ TypeOK
    /\ NothingBeforeAccounts
    /\ QuietBehindDetails
    /\ NewestIsSelected
    /\ ClearedIsLoading
    /\ ToastAgrees
    /\ DetailsOfTable
=============================================================================
