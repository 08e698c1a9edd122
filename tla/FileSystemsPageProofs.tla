------------------------ MODULE FileSystemsPageProofs ------------------------
(***************************************************************************)
(* For every set of accounts and every number of requests in flight: what  *)
(* the page shows agrees with itself, and with the selection as long as    *)
(* requests settle in the order they were sent; and it does not wait when  *)
(* nothing is under way, unless something failed.                          *)
(***************************************************************************)
EXTENDS FileSystemsPage, TLAPS

LEMMA RemoveAtFacts ==
    ASSUME NEW S, NEW s \in Seq(S), NEW i \in DOMAIN s
    PROVE  /\ RemoveAt(s, i) \in Seq(S)
           /\ Len(RemoveAt(s, i)) = Len(s) - 1
           /\ i = 1 /\ Len(s) > 1 => RemoveAt(s, i)[Len(s) - 1] = s[Len(s)]
  <1> DEFINE front == SubSeq(s, 1, i - 1)
             back == SubSeq(s, i + 1, Len(s))
  <1>1. RemoveAt(s, i) = front \o back
    BY DEF RemoveAt
  <1>2. front \in Seq(S) /\ Len(front) = i - 1
    OBVIOUS
  <1>3. back \in Seq(S) /\ Len(back) = Len(s) - i
    OBVIOUS
  <1>4. front \o back \in Seq(S) /\ Len(front \o back) = Len(s) - 1
    <2>1. Len(s) \in Nat /\ i \in Nat
      OBVIOUS
    <2> HIDE DEF front, back
    <2> QED
      BY <1>2, <1>3, <2>1
  <1>5. ASSUME i = 1, Len(s) > 1
        PROVE  (front \o back)[Len(s) - 1] = s[Len(s)]
    <2>1. back[Len(s) - 1] = s[Len(s)]
      BY <1>5
    <2>2. Len(front) = 0
      BY <1>2, <1>5
    <2> QED
      BY <1>2, <1>3, <1>5, <2>1, <2>2
  <1> QED
    BY <1>1, <1>4, <1>5

LEMMA InitIInv == Init => IInv
  <1> SUFFICES ASSUME Init
               PROVE  IInv
    OBVIOUS
  <1>1. <<>> \in Seq(Accounts) /\ Len(<<>>) = 0 /\ 0 <= MaxRequests
    BY PageAssumption
  <1>2. TypeOK
    BY <1>1 DEF Init, TypeOK, Toasts
  <1>3. NothingBeforeAccounts /\ NewestIsSelected /\ ClearedIsLoading /\ ToastAgrees
    BY DEF Init, NothingBeforeAccounts, NewestIsSelected, ClearedIsLoading, ToastAgrees
  <1>4. QuietBehindDetails /\ DetailsOfTable
    BY DEF Init, QuietBehindDetails, DetailsOfTable
  <1> QED
    BY <1>2, <1>3, <1>4 DEF IInv

\* Selecting an account empties the table, shows the spinner and sends the
\* newest request.
LEMMA SelectFacts ==
    ASSUME TypeOK, NEW a \in Accounts, Select(a), Len(requests) < MaxRequests
    PROVE  /\ requests' \in Seq(Accounts) /\ Len(requests') <= MaxRequests
           /\ requests' # <<>> /\ requests'[Len(requests')] = a
           /\ selected' = a /\ loading' = TRUE /\ fileSystems' = NoTable
           /\ overtaken' \in BOOLEAN
  BY PageAssumption DEF TypeOK, Select

LEMMA ToastsFacts ==
    /\ NoToast \in Toasts
    /\ \A m \in {"accountsLoaded", "containersLoaded"} : <<"success", m>> \in Toasts
    /\ \A m \in {"noAccountsLoaded", "noContainersLoaded"} : <<"error", m>> \in Toasts
  BY DEF Toasts

\* What a request that settles leaves behind, whether it failed or not.
LEMMA SettleFacts ==
    ASSUME IInv, NEW i, Settle(i)
    PROVE  /\ requests' \in Seq(Accounts) /\ Len(requests') <= MaxRequests
           /\ overtaken' \in BOOLEAN
           /\ requests[i] \in Accounts
           /\ list = "loaded"
           /\ details # NoRow => hasty
           /\ ~overtaken' => ~overtaken /\ i = 1
           /\ requests' = <<>> => Len(requests) = 1
           /\ requests' # <<>> => Len(requests) > 1 /\ Len(requests') = Len(requests) - 1
           /\ i = 1 /\ Len(requests) > 1 => requests'[Len(requests) - 1] = requests[Len(requests)]
  <1>1. i \in DOMAIN requests /\ requests \in Seq(Accounts) /\ Len(requests) <= MaxRequests
    BY DEF Settle, IInv, TypeOK
  <1>2. /\ requests' \in Seq(Accounts) /\ Len(requests') = Len(requests) - 1
        /\ i = 1 /\ Len(requests) > 1 =>
              requests'[Len(requests) - 1] = requests[Len(requests)]
    BY <1>1, RemoveAtFacts DEF Settle
  <1>3. requests # <<>>
    BY <1>1
  <1>4. list = "loaded" /\ (details # NoRow => hasty)
    BY <1>3 DEF IInv, NothingBeforeAccounts, QuietBehindDetails
  <1>5. overtaken' \in BOOLEAN /\ (~overtaken' => ~overtaken /\ i = 1)
    BY DEF Settle
  <1>6. Len(requests') <= MaxRequests
    BY <1>1, <1>2, PageAssumption
  <1>7. requests' = <<>> => Len(requests) = 1
    BY <1>1, <1>2
  <1>8. requests' # <<>> => Len(requests) > 1
    BY <1>1, <1>2
  <1> QED
    BY <1>1, <1>2, <1>4, <1>5, <1>6, <1>7, <1>8

LEMMA LoadedIInv ==
    ASSUME IInv, NEW i, NEW rows \in BOOLEAN, FileSystemsLoaded(i, rows)
    PROVE  IInv'
  <1>1. Settle(i)
    BY DEF FileSystemsLoaded
  <1> DEFINE table == [account |-> requests[i], rows |-> rows]
  <1>2. /\ fileSystems' = table /\ lastFailed' = FALSE /\ loading' = FALSE
        /\ UNCHANGED <<list, storageAccounts, selected, dialog>>
    BY DEF FileSystemsLoaded, populated
  <1>3. UNCHANGED <<details, hasty>>
    BY <1>2 DEF dialog
  <1>4. toast' = IF rows THEN <<"success", "containersLoaded">> ELSE <<"error", "noContainersLoaded">>
    BY DEF FileSystemsLoaded, displayToast, displayErrorToast
  <1>5. table \in Tables /\ table # NoTable /\ table.account = requests[i] /\ table.rows = rows
    BY <1>1, SettleFacts, PageAssumption DEF Tables
  <1> HIDE DEF table
  <1>6. TypeOK'
    <2>1. toast' \in Toasts
      BY <1>4, ToastsFacts
    <2> QED
      BY <1>1, <1>2, <1>3, <1>5, <2>1, SettleFacts DEF TypeOK, IInv
  <1>7. NewestIsSelected'
    BY <1>1, <1>2, <1>5, SettleFacts DEF NewestIsSelected, IInv
  <1>8. ClearedIsLoading'
    BY <1>2, <1>5 DEF ClearedIsLoading
  <1>9. ToastAgrees'
    BY <1>2, <1>4, <1>5 DEF ToastAgrees
  <1>10. NothingBeforeAccounts'
    BY <1>1, <1>2, SettleFacts DEF NothingBeforeAccounts
  <1>11. QuietBehindDetails' /\ DetailsOfTable'
    BY <1>1, <1>2, <1>3, SettleFacts DEF QuietBehindDetails, DetailsOfTable
  <1> QED
    BY <1>6, <1>7, <1>8, <1>9, <1>10, <1>11 DEF IInv

LEMMA FailIInv ==
    ASSUME IInv, NEW i, FileSystemsFail(i)
    PROVE  IInv'
  <1>1. Settle(i) /\ lastFailed' = TRUE
    BY DEF FileSystemsFail
  <1>2. UNCHANGED <<list, storageAccounts, selected, fileSystems, loading, toast, details, hasty>>
    BY DEF FileSystemsFail, dialog
  <1>3. TypeOK'
    BY <1>1, <1>2, SettleFacts DEF TypeOK, IInv
  <1>4. NewestIsSelected'
    BY <1>1, <1>2, SettleFacts DEF NewestIsSelected, IInv
  <1>5. ClearedIsLoading' /\ ToastAgrees'
    BY <1>2 DEF ClearedIsLoading, ToastAgrees, IInv
  <1>6. NothingBeforeAccounts' /\ QuietBehindDetails' /\ DetailsOfTable'
    BY <1>1, <1>2, SettleFacts DEF NothingBeforeAccounts, QuietBehindDetails, DetailsOfTable
  <1> QED
    BY <1>3, <1>4, <1>5, <1>6 DEF IInv

\* Selecting an account keeps the invariant, with the dialog closed.
LEMMA SelectIInv ==
    ASSUME IInv, NEW a \in Accounts, Select(a), Len(requests) < MaxRequests,
           a \in storageAccounts', storageAccounts' \in SUBSET Accounts,
           details = NoRow, list' = "loaded", toast' \in Toasts,
           UNCHANGED <<dialog, lastFailed>>
    PROVE  IInv'
  <1>1. TypeOK
    BY DEF IInv
  <1>2. UNCHANGED <<details, hasty, lastFailed>>
    BY DEF dialog
  <1>3. TypeOK'
    BY <1>1, <1>2, SelectFacts DEF TypeOK
  <1>4. NewestIsSelected' /\ ClearedIsLoading' /\ ToastAgrees' /\ NothingBeforeAccounts'
    BY <1>1, SelectFacts DEF NewestIsSelected, ClearedIsLoading, ToastAgrees, NothingBeforeAccounts
  <1>5. QuietBehindDetails' /\ DetailsOfTable'
    BY <1>2 DEF QuietBehindDetails, DetailsOfTable
  <1> QED
    BY <1>3, <1>4, <1>5 DEF IInv

LEMMA StepIInv == IInv /\ [Next]_vars => IInv'
  <1> SUFFICES ASSUME IInv, [Next]_vars
               PROVE  IInv'
    OBVIOUS
  <1> USE DEF IInv, NothingBeforeAccounts, QuietBehindDetails, NewestIsSelected,
              ClearedIsLoading, ToastAgrees, DetailsOfTable, dialog
  <1>1. CASE Authenticated
    BY <1>1 DEF Authenticated, TypeOK
  <1>2. ASSUME NEW S \in SUBSET Accounts, NEW a \in Accounts, AccountsLoaded(S, a)
        PROVE  IInv'
    <2>1. requests = <<>> /\ Len(requests) < MaxRequests /\ details = NoRow
      BY <1>2, PageAssumption DEF AccountsLoaded
    <2>2. toast' \in Toasts
      BY <1>2, ToastsFacts DEF AccountsLoaded, displayToast
    <2>3. Select(a) /\ a \in storageAccounts' /\ storageAccounts' \in SUBSET Accounts
          /\ list' = "loaded" /\ UNCHANGED <<dialog, lastFailed>>
      BY <1>2 DEF AccountsLoaded
    <2> QED
      BY <2>1, <2>2, <2>3, SelectIInv
  <1>3. CASE NoAccountsLoaded
    <2>1. toast' \in Toasts /\ toast'[2] = "noAccountsLoaded"
      BY <1>3, ToastsFacts DEF NoAccountsLoaded, displayErrorToast
    <2> QED
      BY <1>3, <2>1 DEF NoAccountsLoaded, TypeOK
  <1>4. CASE AccountsFail
    BY <1>4 DEF AccountsFail, TypeOK
  <1>5. ASSUME NEW a \in Accounts, Choose(a)
        PROVE  IInv'
    <2>1. /\ Select(a) /\ Len(requests) < MaxRequests /\ details = NoRow
          /\ a \in storageAccounts /\ UNCHANGED <<list, storageAccounts, toast, dialog, lastFailed>>
      BY <1>5 DEF Choose, Picks
    <2>2. list = "loaded"
      BY <2>1
    <2>3. storageAccounts \in SUBSET Accounts /\ toast \in Toasts
      BY DEF TypeOK
    <2> QED
      BY <2>1, <2>2, <2>3, SelectIInv
  <1>6. ASSUME NEW i \in 1..MaxRequests, FileSystemsSettle(i)
        PROVE  IInv'
    BY <1>6, LoadedIInv, FailIInv DEF FileSystemsSettle
  <1>7. CASE onDetails
    <2>1. fileSystems \in Tables /\ requests \in Seq(Accounts) /\ list = "loaded"
      BY <1>7 DEF onDetails, TypeOK
    <2>2. fileSystems.account \in Accounts
      BY <2>1 DEF Tables
    <2> QED
      BY <1>7, <2>1, <2>2 DEF onDetails, TypeOK
  <1>8. CASE handleCancelDetails
    BY <1>8 DEF handleCancelDetails, TypeOK
  <1>9. CASE CloseToast
    BY <1>9, ToastsFacts DEF CloseToast, TypeOK, NoToast
  <1>10. CASE UNCHANGED vars
    BY <1>10 DEF vars, TypeOK
  <1> QED
    BY <1>1, <1>2, <1>3, <1>4, <1>5, <1>6, <1>7, <1>8, <1>9, <1>10
       DEF Next, AccountsSettle

THEOREM PageInvariant == Spec => []IInv
  BY InitIInv, StepIInv, PTL DEF Spec

\* What the page keeps is well formed, and the account selected is one of those
\* that were loaded.
THEOREM TypeCorrect == Spec => []TypeOK
  <1>1. IInv => TypeOK
    BY DEF IInv
  <1> QED
    BY <1>1, PageInvariant, PTL

\* A dialog opened with nothing in flight shows a row of the table behind it for
\* as long as it is open.
THEOREM DetailsStayOfTable == Spec => []DetailsOfTable
  <1>1. IInv => DetailsOfTable
    BY DEF IInv
  <1> QED
    BY <1>1, PageInvariant, PTL

LEMMA Explained == IInv => SpinnerlessTableExplained
  <1> SUFFICES ASSUME IInv, selected # NoAccount, ~loading, ~lastFailed, ~overtaken
               PROVE  /\ fileSystems # NoTable
                      /\ \/ fileSystems.account = selected
                         \/ \E i \in DOMAIN requests : requests[i] = selected
    BY DEF SpinnerlessTableExplained, IInv, ClearedIsLoading
  <1>1. fileSystems # NoTable
    BY DEF IInv, ClearedIsLoading
  <1>2. CASE requests = <<>>
    BY <1>1, <1>2 DEF IInv, NewestIsSelected
  <1>3. CASE requests # <<>>
    <2>1. requests \in Seq(Accounts) /\ Len(requests) \in DOMAIN requests
      BY <1>3 DEF IInv, TypeOK
    <2>2. requests[Len(requests)] = selected
      BY <1>3 DEF IInv, NewestIsSelected
    <2> QED
      BY <1>1, <2>1, <2>2
  <1> QED
    BY <1>2, <1>3

\* A table without the spinner is an answer, and if it is not the one for the
\* selected account, that one is in flight, or the last answer was a failure, or
\* answers came in another order than requests; for any number of requests.
THEOREM SpinnerlessTableHasReason == Spec => []SpinnerlessTableExplained
  BY PageInvariant, Explained, PTL

\* Whatever the order of the answers, a message about containers that is still
\* up tells the truth about the table.
THEOREM PageToastAgrees == Spec => []ToastAgrees
  <1>1. IInv => ToastAgrees
    BY DEF IInv
  <1> QED
    BY <1>1, PageInvariant, PTL

\* While requests settle in the order they were sent, the page settles on the
\* containers of the selected account.
THEOREM SettledInOrder == Spec => []InOrderTableIsSelected
  <1>1. IInv => InOrderTableIsSelected
    BY DEF IInv, NewestIsSelected, InOrderTableIsSelected, SettledTableIsSelected
  <1> QED
    BY <1>1, PageInvariant, PTL
-----------------------------------------------------------------------------
(* Nobody waits for nothing: what has to hold for SpinnerEnds to be true. *)

\* The spinner always waits for a request, unless one failed or there are no
\* accounts.
SpinnerHasReason ==
    loading => list \in {"asked", "empty", "failed"} \/ requests # <<>> \/ lastFailed

\* Once there are accounts one of them is selected.
OneIsSelected == list = "loaded" => selected # NoAccount

\* Accounts were loaded, and their containers are on display, on their way, or
\* could not be had.
ContainersOnTheirWay ==
    list = "loaded" => fileSystems # NoTable \/ requests # <<>> \/ lastFailed

LEMMA InitReason == Init => SpinnerHasReason /\ OneIsSelected
  BY DEF Init, SpinnerHasReason, OneIsSelected

LEMMA StepReason ==
    IInv /\ SpinnerHasReason /\ OneIsSelected /\ [Next]_vars => SpinnerHasReason' /\ OneIsSelected'
  <1> SUFFICES ASSUME IInv, SpinnerHasReason, OneIsSelected, [Next]_vars
               PROVE  SpinnerHasReason' /\ OneIsSelected'
    OBVIOUS
  <1> USE DEF SpinnerHasReason, OneIsSelected
  <1>0. TypeOK
    BY DEF IInv
  <1>1. CASE Authenticated
    BY <1>1 DEF Authenticated
  <1>2. ASSUME NEW S \in SUBSET Accounts, NEW a \in Accounts, AccountsLoaded(S, a)
        PROVE  SpinnerHasReason' /\ OneIsSelected'
    <2>1. Select(a) /\ requests = <<>>
      BY <1>2 DEF AccountsLoaded, IInv, NothingBeforeAccounts
    <2>2. Len(requests) < MaxRequests
      BY <2>1, PageAssumption
    <2> QED
      BY <1>0, <2>1, <2>2, SelectFacts, PageAssumption
  <1>3. CASE NoAccountsLoaded \/ AccountsFail
    BY <1>3 DEF NoAccountsLoaded, AccountsFail
  <1>4. ASSUME NEW a \in Accounts, Choose(a)
        PROVE  SpinnerHasReason' /\ OneIsSelected'
    BY <1>0, <1>4, SelectFacts, PageAssumption DEF Choose
  <1>5. ASSUME NEW i \in 1..MaxRequests, FileSystemsSettle(i)
        PROVE  SpinnerHasReason' /\ OneIsSelected'
    <2>1. UNCHANGED <<list, selected>> /\ (~loading' \/ lastFailed')
      BY <1>5 DEF FileSystemsSettle, FileSystemsLoaded, FileSystemsFail, populated
    <2> QED
      BY <2>1
  <1>6. CASE onDetails \/ handleCancelDetails \/ CloseToast
    BY <1>6 DEF onDetails, handleCancelDetails, CloseToast
  <1>7. CASE UNCHANGED vars
    BY <1>7 DEF vars
  <1> QED
    BY <1>1, <1>2, <1>3, <1>4, <1>5, <1>6, <1>7 DEF Next, AccountsSettle

LEMMA OnTheirWay == IInv /\ SpinnerHasReason /\ OneIsSelected => ContainersOnTheirWay
  BY DEF IInv, ClearedIsLoading, SpinnerHasReason, OneIsSelected, ContainersOnTheirWay

\* The page is never idle behind a spinner, nor empty with nothing under way, for
\* any order of selections, answers and failures.
THEOREM SpinnerWaitsForSomething == Spec => [](SpinnerHasReason /\ ContainersOnTheirWay)
  BY PageInvariant, InitReason, StepReason, OnTheirWay, PTL DEF Spec
=============================================================================
