------------------------- MODULE DirectoriesPageProofs -------------------------
(***************************************************************************)
(* For all accounts, containers and folders, and any number of calls in    *)
(* flight: to a user who waits for answers the page shows the folders of   *)
(* the container selected, in the end all that there are and no others;    *)
(* what is sent to be created is what the editor showed; and the list of   *)
(* users sent is the one typed, for texts of any length.                   *)
(***************************************************************************)
EXTENDS DirectoriesPage, FiniteSetTheorems, WellFoundedInduction, TLAPS

LEMMA ModalFacts ==
    /\ NoModal # Editor /\ NoModal \notin Gone /\ Editor \notin Gone
    /\ \A d : Details(d) \notin {NoModal, Editor} \cup Gone
  BY DEF NoModal, Editor, Crashed, Gone, Details

LEMMA ToastFacts ==
    /\ NoToast \in Toasts
    /\ <<"success", "accountsLoaded">> \in Toasts
    /\ \A m \in {"noAccountsLoaded", "message"} : <<"error", m>> \in Toasts
    /\ \A d \in Folders : Created(d) \in Toasts
    /\ \A d : /\ Created(d) # NoToast /\ Created(d) # <<"success", "accountsLoaded">>
              /\ \A m : Created(d) # <<"error", m>>
    /\ \A d, e : Created(d) = Created(e) => d = e
  BY DEF Toasts, NoToast, Created

\* Removing an element leaves elements that were there.
LEMMA Removed ==
    ASSUME NEW S, NEW s \in Seq(S), NEW i \in DOMAIN s
    PROVE  /\ RemoveAt(s, i) \in Seq(S)
           /\ Len(RemoveAt(s, i)) = Len(s) - 1
           /\ \A k \in DOMAIN RemoveAt(s, i) : \E k0 \in DOMAIN s : RemoveAt(s, i)[k] = s[k0]
  <1> DEFINE front == SubSeq(s, 1, i - 1)
             back == SubSeq(s, i + 1, Len(s))
  <1>1. RemoveAt(s, i) = front \o back
    BY DEF RemoveAt
  <1>2. front \in Seq(S) /\ Len(front) = i - 1 /\ \A j \in 1..(i - 1) : front[j] = s[j]
    OBVIOUS
  <1>3. back \in Seq(S) /\ Len(back) = Len(s) - i /\ \A j \in 1..(Len(s) - i) : back[j] = s[i + j]
    OBVIOUS
  <1>4. i \in 1..Len(s) /\ Len(s) \in Nat
    OBVIOUS
  <1> HIDE DEF front, back
  <1>5. front \o back \in Seq(S) /\ Len(front \o back) = Len(s) - 1
    BY <1>2, <1>3, <1>4
  <1>6. ASSUME NEW k \in DOMAIN (front \o back)
        PROVE  \E k0 \in DOMAIN s : (front \o back)[k] = s[k0]
    <2>1. k \in 1..(Len(s) - 1)
      BY <1>4, <1>5
    <2>2. CASE k < i
      <3>1. (front \o back)[k] = front[k]
        BY <1>2, <1>3, <1>4, <2>1, <2>2
      <3>2. front[k] = s[k] /\ k \in DOMAIN s
        BY <1>2, <1>4, <2>1, <2>2
      <3> QED
        BY <3>1, <3>2
    <2>3. CASE k >= i
      <3>1. (front \o back)[k] = back[k - (i - 1)]
        BY <1>2, <1>3, <1>4, <2>1, <2>3
      <3>2. back[k - (i - 1)] = s[k + 1] /\ k + 1 \in DOMAIN s
        BY <1>3, <1>4, <2>1, <2>3
      <3> QED
        BY <3>1, <3>2
    <2> QED
      BY <1>4, <2>1, <2>2, <2>3
  <1> QED
    BY <1>1, <1>5, <1>6

\* And all of the others.
LEMMA OthersStay ==
    ASSUME NEW S, NEW s \in Seq(S), NEW i \in DOMAIN s, NEW k0 \in DOMAIN s, k0 # i
    PROVE  \E k \in DOMAIN RemoveAt(s, i) : RemoveAt(s, i)[k] = s[k0]
  <1> DEFINE front == SubSeq(s, 1, i - 1)
             back == SubSeq(s, i + 1, Len(s))
  <1>1. RemoveAt(s, i) = front \o back
    BY DEF RemoveAt
  <1>2. front \in Seq(S) /\ Len(front) = i - 1 /\ \A j \in 1..(i - 1) : front[j] = s[j]
    OBVIOUS
  <1>3. back \in Seq(S) /\ Len(back) = Len(s) - i /\ \A j \in 1..(Len(s) - i) : back[j] = s[i + j]
    OBVIOUS
  <1>4. i \in 1..Len(s) /\ k0 \in 1..Len(s) /\ Len(s) \in Nat
    OBVIOUS
  <1> HIDE DEF front, back
  <1>5. DOMAIN (front \o back) = 1..(Len(s) - 1)
    BY <1>2, <1>3, <1>4
  <1>6. CASE k0 < i
    <2>1. (front \o back)[k0] = front[k0] /\ front[k0] = s[k0]
      BY <1>2, <1>3, <1>4, <1>6
    <2>2. k0 \in 1..(Len(s) - 1)
      BY <1>4, <1>6
    <2> QED
      BY <1>1, <1>5, <2>1, <2>2
  <1>7. CASE k0 > i
    <2>1. (front \o back)[k0 - 1] = back[k0 - i]
      BY <1>2, <1>3, <1>4, <1>7
    <2>2. back[k0 - i] = s[k0]
      BY <1>3, <1>4, <1>7
    <2>3. k0 - 1 \in 1..(Len(s) - 1)
      BY <1>4, <1>7
    <2> QED
      BY <1>1, <1>5, <2>1, <2>2, <2>3
  <1> QED
    BY <1>4, <1>6, <1>7

LEMMA OfFacts ==
    ASSUME NEW rows \in SUBSET Folders, NEW a, NEW f
    PROVE  /\ Of(rows, a, f) \in SUBSET Folders
           /\ Of(Of(rows, a, f), a, f) = Of(rows, a, f)
           /\ f = None => Of(rows, a, f) = {}
  BY DirectoriesAssumption DEF Of, Folders

LEMMA InitIInv == Init => IInv
  <1> SUFFICES ASSUME Init
               PROVE  IInv
    OBVIOUS
  <1> USE DEF Init
  <1>1. Empty \in Forms
    BY DirectoriesAssumption DEF Empty, Forms
  <1>2. /\ IsFiniteSet(creates) /\ Cardinality(creates) = 0
        /\ lists \in Seq(Lists) /\ Len(lists) = 0
    BY FS_EmptySet
  <1>3. TypeOK
    <2>1. Len(lists) + Cardinality(creates) <= MaxCalls
      BY <1>2, DirectoriesAssumption
    <2> QED
      BY <1>1, <1>2, <2>1, ToastFacts DEF TypeOK
  <1>4. EditorFaithful
    BY <1>1, ModalFacts DEF EditorFaithful
  <1>5. SubmittedIsMeant /\ ListIsOfForm /\ CallsOfSelection
    BY DEF SubmittedIsMeant, ListIsOfForm, CallsOfSelection
  <1>6. TableIsSelected /\ NoFolderMissing
    BY DEF TableIsSelected, NoFolderMissing, Of
  <1>7. NothingBeforeAccounts
    BY DEF NothingBeforeAccounts
  <1> QED
    BY <1>2, <1>3, <1>4, <1>5, <1>6, <1>7 DEF IInv

-----------------------------------------------------------------------------
(* The accounts. *)

\* Only the message, the dialog and the request for the accounts change.
LEMMA CalmIInv ==
    ASSUME IInv,
           list' \in {"unasked", "asked", "loaded", "empty", "failed"}, list = "loaded" => list' = "loaded",
           toast' \in Toasts,
           modal' \in {modal, NoModal} \cup {Details(d) : d \in Folders},
           formData' \in Forms, meant' \in [fileSystem : FileSystems \cup {None}, form : Forms],
           modal' = Editor => UNCHANGED editor,
           UNCHANGED <<selection, directories, calls, stored, hasty, lacking>>
    PROVE  IInv'
  <1> USE DEF IInv, selection, calls, editor
  <1>1. TypeOK' /\ NothingBeforeAccounts'
    BY ModalFacts DEF TypeOK, NothingBeforeAccounts
  <1>2. EditorFaithful'
    BY ModalFacts DEF EditorFaithful
  <1>3. SubmittedIsMeant' /\ ListIsOfForm' /\ CallsOfSelection'
    BY DEF SubmittedIsMeant, ListIsOfForm, CallsOfSelection
  <1>4. TableIsSelected' /\ NoFolderMissing'
    BY DEF TableIsSelected, NoFolderMissing
  <1> QED
    BY <1>1, <1>2, <1>3, <1>4

\* Before the accounts are there, no container can have been selected.
LEMMA AccountsLoadedIInv ==
    ASSUME IInv, NEW first \in Accounts, AccountsLoaded(first)
    PROVE  IInv'
  <1> USE DEF IInv
  <1>1. /\ list' = "loaded" /\ selectedStorageAccount' = first /\ selectedFileSystem = None
        /\ toast' = <<"success", "accountsLoaded">>
        /\ UNCHANGED <<selectedFileSystem, directories, lists, creates, modal, formData, meant,
                       stored, hasty, lacking>>
    BY DEF AccountsLoaded, displayToast, calls, editor, NothingBeforeAccounts
  <1>2. TypeOK' /\ NothingBeforeAccounts'
    BY <1>1, ToastFacts DEF TypeOK, NothingBeforeAccounts
  <1>3. EditorFaithful' /\ SubmittedIsMeant' /\ ListIsOfForm'
    BY <1>1 DEF EditorFaithful, SubmittedIsMeant, ListIsOfForm
  <1>4. TableIsSelected'
    <2>1. ~hasty => directories = {}
      BY <1>1, OfFacts DEF TableIsSelected, TypeOK
    <2> QED
      BY <1>1, <2>1 DEF TableIsSelected, Of
  <1>5. NoFolderMissing'
    BY <1>1, OfFacts DEF NoFolderMissing, TypeOK
  <1>6. CallsOfSelection'
    <2> SUFFICES ASSUME ~hasty
                 PROVE  CallsOfSelection'
      BY <1>1 DEF CallsOfSelection
    <2>1. lists = <<>> /\ lists' = <<>>
      BY <1>1 DEF AccountsLoaded, NothingBeforeAccounts
    <2>2. ASSUME NEW c \in creates
          PROVE  /\ c.fileSystem = None
                 /\ c.directories = Of(c.directories, first, None)
      <3>1. /\ c.fileSystem = None /\ c.directories \in SUBSET Folders
            /\ c.directories = Of(c.directories, selectedStorageAccount, None)
        BY <1>1 DEF CallsOfSelection, TypeOK
      <3>2. c.directories = {}
        BY <3>1, OfFacts
      <3> QED
        BY <3>1, <3>2 DEF Of
    <2> QED
      BY <1>1, <2>1, <2>2 DEF CallsOfSelection
  <1> QED
    BY <1>1, <1>2, <1>3, <1>4, <1>5, <1>6

-----------------------------------------------------------------------------
(* The selection and the folders. *)

LEMMA AccountChangeIInv ==
    ASSUME IInv, NEW a \in Accounts, handleStorageAccountChange(a)
    PROVE  IInv'
  <1> USE DEF IInv
  <1>1. /\ modal = NoModal /\ list = "loaded" /\ selectedStorageAccount' = a /\ selectedFileSystem' = None
        /\ directories' = (IF selectedFileSystem = None THEN directories ELSE {})
        /\ hasty' = (Busy \/ (hasty /\ selectedFileSystem = None))
        /\ UNCHANGED <<list, lists, creates, modal, formData, meant, toast, stored, lacking>>
    BY DEF handleStorageAccountChange, Picks, storageAccountItems, calls, editor
  <1>2. TypeOK' /\ NothingBeforeAccounts'
    <2>1. hasty' \in BOOLEAN
      BY <1>1 DEF TypeOK
    <2> QED
      BY <1>1, <2>1 DEF TypeOK, NothingBeforeAccounts
  <1>3. EditorFaithful' /\ SubmittedIsMeant' /\ ListIsOfForm'
    BY <1>1, ModalFacts DEF EditorFaithful, SubmittedIsMeant, ListIsOfForm
  <1>4. ~hasty' => lists = <<>> /\ creates = {} /\ directories' = {}
    <2>1. ~hasty /\ selectedFileSystem = None => directories = {}
      BY OfFacts DEF TableIsSelected, TypeOK
    <2> QED
      BY <1>1, <2>1 DEF Busy
  <1>5. TableIsSelected' /\ CallsOfSelection'
    BY <1>1, <1>4 DEF TableIsSelected, CallsOfSelection, Of
  <1>6. NoFolderMissing'
    BY <1>1, <1>4, OfFacts DEF NoFolderMissing, TypeOK
  <1> QED
    BY <1>1, <1>2, <1>3, <1>5, <1>6

LEMMA FileSystemChangeIInv ==
    ASSUME IInv, NEW f \in FileSystems, handleFileSystemChange(f)
    PROVE  IInv'
  <1> USE DEF IInv
  <1> DEFINE since == Of(stored, selectedStorageAccount, f)
             call == [account |-> selectedStorageAccount, fileSystem |-> f, since |-> since]
  <1>1. /\ modal = NoModal /\ selectedFileSystem' = f
        /\ selectedStorageAccount # None /\ f \in Listed[selectedStorageAccount]
        /\ directories' = {} /\ lists' = Append(lists, call) /\ lacking' = FALSE
        /\ hasty' = Busy /\ Len(lists) + Cardinality(creates) < MaxCalls
        /\ UNCHANGED <<list, selectedStorageAccount, creates, modal, formData, meant, toast, stored>>
    BY DEF handleFileSystemChange, Picks, fileSystemItems, Room, editor
  <1>2. /\ call \in Lists /\ call.account = selectedStorageAccount /\ call.fileSystem = f
        /\ call.since = since
    BY <1>1, OfFacts DEF TypeOK, Lists
  <1> HIDE DEF call
  <1>3. lists' \in Seq(Lists) /\ Len(lists') = Len(lists) + 1 /\ Len(lists) \in Nat
        /\ lists'[Len(lists) + 1] = call
    BY <1>1, <1>2 DEF TypeOK
  <1>4. TypeOK' /\ NothingBeforeAccounts'
    <2>1. Cardinality(creates) \in Nat
      BY FS_CardinalityType
    <2>2. Len(lists') + Cardinality(creates) <= MaxCalls
      BY <1>1, <1>3, <2>1, DirectoriesAssumption
    <2>3. list = "loaded" /\ hasty' \in BOOLEAN
      BY <1>1 DEF NothingBeforeAccounts, Busy
    <2>4. selectedStorageAccount \in Accounts
      BY <1>1 DEF TypeOK
    <2> QED
      BY <1>1, <1>3, <2>2, <2>3, <2>4 DEF TypeOK, NothingBeforeAccounts
  <1>5. EditorFaithful' /\ SubmittedIsMeant' /\ ListIsOfForm'
    BY <1>1, ModalFacts DEF EditorFaithful, SubmittedIsMeant, ListIsOfForm
  <1>6. ~hasty' => lists = <<>> /\ creates = {}
    BY <1>1 DEF Busy
  <1>7. ~hasty' => DOMAIN lists' = {1} /\ lists'[1] = call
    BY <1>3, <1>6
  <1>8. CallsOfSelection'
    <2> SUFFICES ASSUME ~hasty'
                 PROVE  CallsOfSelection'
      BY DEF CallsOfSelection
    <2>1. creates' = {} /\ Len(lists') = 1 /\ DOMAIN lists' = {1} /\ lists'[1] = call
      BY <1>1, <1>3, <1>6, <1>7
    <2>2. <<lists'[1].account, lists'[1].fileSystem>> = selection'
      BY <1>1, <1>2, <2>1 DEF selection
    <2> QED
      BY <2>1, <2>2 DEF CallsOfSelection
  <1>9. TableIsSelected'
    BY <1>1 DEF TableIsSelected, Of
  <1>10. NoFolderMissing'
    BY <1>1, <1>2, <1>6, <1>7 DEF NoFolderMissing
  <1> QED
    BY <1>1, <1>4, <1>5, <1>8, <1>9, <1>10

\* A list call that is over leaves the others.
LEMMA ListOver ==
    ASSUME IInv, NEW i \in DOMAIN lists, lists' = RemoveAt(lists, i),
           UNCHANGED <<list, selection, creates, modal, editor, toast, stored, hasty>>,
           directories' \in SUBSET Folders, lacking' \in BOOLEAN
    PROVE  /\ TypeOK' /\ NothingBeforeAccounts' /\ EditorFaithful' /\ SubmittedIsMeant' /\ ListIsOfForm'
           /\ CallsOfSelection'
           /\ ~hasty => lists' = <<>> /\ creates = {}
  <1> USE DEF IInv, selection, editor
  <1>1. /\ lists' \in Seq(Lists) /\ Len(lists') = Len(lists) - 1
        /\ \A k \in DOMAIN lists' : \E k0 \in DOMAIN lists : lists'[k] = lists[k0]
    BY Removed DEF TypeOK
  <1>2. lists # <<>> /\ Len(lists) \in Nat \ {0}
    BY DEF TypeOK
  <1>3. ~hasty => lists' = <<>> /\ creates = {}
    BY <1>1, <1>2 DEF CallsOfSelection
  <1>4. TypeOK'
    <2>1. Cardinality(creates) \in Nat
      BY FS_CardinalityType
    <2>2. Len(lists') + Cardinality(creates) <= MaxCalls
      BY <1>1, <1>2, <2>1, DirectoriesAssumption DEF TypeOK
    <2> QED
      BY <1>1, <2>2 DEF TypeOK
  <1>5. NothingBeforeAccounts'
    BY <1>2 DEF NothingBeforeAccounts
  <1>6. EditorFaithful' /\ SubmittedIsMeant' /\ ListIsOfForm'
    BY DEF EditorFaithful, SubmittedIsMeant, ListIsOfForm
  <1>7. CallsOfSelection'
    BY <1>3 DEF CallsOfSelection
  <1> QED
    BY <1>3, <1>4, <1>5, <1>6, <1>7

LEMMA DirectoriesLoadedIInv ==
    ASSUME IInv, NEW i \in DOMAIN lists,
           NEW rows \in SUBSET Of(Folders, lists[i].account, lists[i].fileSystem),
           DirectoriesLoaded(i, rows)
    PROVE  IInv'
  <1> USE DEF IInv
  <1>1. /\ lists[i].since \subseteq rows
        /\ lists' = RemoveAt(lists, i) /\ directories' = rows /\ lacking' = FALSE
        /\ UNCHANGED <<list, selection, creates, modal, editor, toast, stored, hasty>>
    BY DEF DirectoriesLoaded
  <1>2. rows \in SUBSET Folders
    BY DEF Of
  <1>3. /\ TypeOK' /\ NothingBeforeAccounts' /\ EditorFaithful' /\ SubmittedIsMeant' /\ ListIsOfForm'
        /\ CallsOfSelection'
        /\ ~hasty => lists' = <<>> /\ creates = {}
    BY <1>1, <1>2, ListOver
  <1>4. ~hasty => <<lists[i].account, lists[i].fileSystem>> = selection
    BY DEF CallsOfSelection
  <1>5. TableIsSelected'
    BY <1>1, <1>4 DEF TableIsSelected, Of, selection
  <1>6. NoFolderMissing'
    BY <1>1, <1>3 DEF NoFolderMissing, selection
  <1> QED
    BY <1>1, <1>3, <1>5, <1>6

LEMMA DirectoriesFailIInv ==
    ASSUME IInv, NEW i \in DOMAIN lists, DirectoriesFail(i)
    PROVE  IInv'
  <1> USE DEF IInv
  <1>1. /\ lists' = RemoveAt(lists, i) /\ lacking' = TRUE
        /\ UNCHANGED <<list, selection, directories, creates, modal, editor, toast, stored, hasty>>
    BY DEF DirectoriesFail
  <1>2. /\ TypeOK' /\ NothingBeforeAccounts' /\ EditorFaithful' /\ SubmittedIsMeant' /\ ListIsOfForm'
        /\ CallsOfSelection'
        /\ ~hasty => lists' = <<>> /\ creates = {}
    BY <1>1, ListOver DEF TypeOK
  <1>3. TableIsSelected' /\ NoFolderMissing'
    BY <1>1, <1>2 DEF TableIsSelected, NoFolderMissing, selection
  <1> QED
    BY <1>1, <1>2, <1>3
-----------------------------------------------------------------------------
(* The editor. *)

LEMMA EmptyFacts == Empty \in Forms /\ [fileSystem |-> None, form |-> Empty] \in [fileSystem : FileSystems \cup {None}, form : Forms]
  BY DirectoriesAssumption DEF Empty, Forms

LEMMA AddIInv ==
    ASSUME IInv, handleAdd
    PROVE  IInv'
  <1> USE DEF IInv, selection, calls, editor
  <1>1. /\ modal' = Editor /\ formData' = Empty
        /\ meant' = [fileSystem |-> selectedFileSystem, form |-> Empty]
        /\ UNCHANGED <<list, selection, directories, calls, toast, stored, hasty, lacking>>
    BY DEF handleAdd
  <1>2. selectedFileSystem \in FileSystems \cup {None}
    BY DirectoriesAssumption DEF TypeOK
  <1>3. TypeOK' /\ NothingBeforeAccounts'
    BY <1>1, EmptyFacts DEF TypeOK, NothingBeforeAccounts
  <1>4. EditorFaithful'
    BY <1>1, <1>2, EmptyFacts DEF EditorFaithful
  <1>5. SubmittedIsMeant' /\ ListIsOfForm' /\ CallsOfSelection'
    BY <1>1 DEF SubmittedIsMeant, ListIsOfForm, CallsOfSelection
  <1>6. TableIsSelected' /\ NoFolderMissing'
    BY <1>1 DEF TableIsSelected, NoFolderMissing
  <1> QED
    BY <1>1, <1>3, <1>4, <1>5, <1>6

LEMMA InputIInv ==
    ASSUME IInv, NEW id \in {"name", "userAccess"},
           NEW v \in (IF id = "name" THEN Names ELSE Texts), handleInputChange(id, v)
    PROVE  IInv'
  <1> USE DEF IInv, selection, calls
  <1>1. /\ modal = Editor /\ modal' = Editor
        /\ formData' = [formData EXCEPT ![id] = v]
        /\ meant' = [meant EXCEPT !.form[id] = v]
        /\ UNCHANGED <<list, selection, directories, calls, toast, stored, hasty, lacking>>
    BY DEF handleInputChange
  <1>2. /\ formData \in Forms /\ meant \in [fileSystem : FileSystems \cup {None}, form : Forms]
        /\ meant.form = formData /\ meant.fileSystem = selectedFileSystem
    BY <1>1 DEF TypeOK, EditorFaithful
  <1>3. formData' \in Forms
    BY <1>1, <1>2 DEF Forms
  <1>4. meant' = [fileSystem |-> meant.fileSystem, form |-> formData']
    BY <1>1, <1>2
  <1>5. TypeOK' /\ NothingBeforeAccounts'
    BY <1>1, <1>3 DEF TypeOK, NothingBeforeAccounts
  <1>6. EditorFaithful'
    BY <1>1, <1>2, <1>3, <1>4 DEF EditorFaithful
  <1>7. SubmittedIsMeant' /\ ListIsOfForm' /\ CallsOfSelection'
    BY <1>1 DEF SubmittedIsMeant, ListIsOfForm, CallsOfSelection
  <1>8. TableIsSelected' /\ NoFolderMissing'
    BY <1>1 DEF TableIsSelected, NoFolderMissing
  <1> QED
    BY <1>1, <1>5, <1>6, <1>7, <1>8

LEMMA SubmitIInv ==
    ASSUME IInv, submitForm
    PROVE  IInv'
  <1> USE DEF IInv, selection
  <1> DEFINE call == [account |-> selectedStorageAccount, fileSystem |-> selectedFileSystem,
                      form |-> formData,
                      userAccessList |-> UserAccessList(formData.userAccess),
                      directories |-> directories, meant |-> meant]
  <1>1. /\ modal = Editor /\ modal' = NoModal /\ formData' = Empty
        /\ meant' = [fileSystem |-> None, form |-> Empty]
        /\ Len(lists) + Cardinality(creates) < MaxCalls
        /\ creates' = creates \cup {call}
        /\ hasty' = (hasty \/ Busy)
        /\ UNCHANGED <<list, selection, directories, lists, toast, stored, lacking>>
    BY DEF submitForm, HideEditor, Room
  <1>2. /\ call.account = selectedStorageAccount /\ call.fileSystem = selectedFileSystem
        /\ call.form = formData /\ call.directories = directories /\ call.meant = meant
        /\ call.userAccessList = UserAccessList(formData.userAccess)
    OBVIOUS
  <1> HIDE DEF call
  <1>3. IsFiniteSet(creates') /\ Cardinality(creates') <= Cardinality(creates) + 1
        /\ Cardinality(creates) \in Nat /\ Cardinality(creates') \in Nat
    BY <1>1, FS_AddElement, FS_CardinalityType
  <1>4. TypeOK' /\ NothingBeforeAccounts'
    <2>1. Len(lists') + Cardinality(creates') <= MaxCalls
      <3>1. Len(lists) \in Nat
        BY DEF TypeOK
      <3> QED
        BY <1>1, <1>3, <3>1, DirectoriesAssumption
    <2>2. \A c \in creates' : c.form \in Forms /\ c.directories \in SUBSET Folders
      BY <1>1, <1>2 DEF TypeOK
    <2>3. hasty' \in BOOLEAN
      BY <1>1 DEF Busy, TypeOK
    <2> QED
      BY <1>1, <2>1, <2>2, <2>3, EmptyFacts DEF TypeOK, NothingBeforeAccounts
  <1>5. EditorFaithful'
    BY <1>1, ModalFacts, EmptyFacts DEF EditorFaithful
  <1>6. SubmittedIsMeant' /\ ListIsOfForm'
    BY <1>1, <1>2 DEF SubmittedIsMeant, ListIsOfForm, EditorFaithful
  <1>7. ~hasty' => ~hasty /\ lists = <<>> /\ creates' = {call}
    BY <1>1 DEF Busy
  <1>8. CallsOfSelection'
    BY <1>1, <1>2, <1>7 DEF CallsOfSelection, TableIsSelected
  <1>9. TableIsSelected'
    BY <1>1, <1>7 DEF TableIsSelected
  <1>10. NoFolderMissing'
    BY <1>1, <1>2, <1>7 DEF NoFolderMissing
  <1> QED
    BY <1>3, <1>4, <1>5, <1>6, <1>8, <1>9, <1>10

\* A creation that is over leaves the others.
LEMMA CreateOver ==
    ASSUME IInv, NEW c \in creates, creates' = creates \ {c},
           UNCHANGED <<list, selection, lists, modal, editor, hasty>>, lacking' \in BOOLEAN,
           directories' \in SUBSET Folders, stored' \in SUBSET Folders, toast' \in Toasts
    PROVE  /\ TypeOK' /\ NothingBeforeAccounts' /\ EditorFaithful' /\ SubmittedIsMeant' /\ ListIsOfForm'
           /\ CallsOfSelection' /\ IsFiniteSet(creates')
           /\ ~hasty => creates' = {} /\ lists = <<>>
  <1> USE DEF IInv, selection, editor
  <1>1. IsFiniteSet(creates') /\ Cardinality(creates') <= Cardinality(creates)
        /\ Cardinality(creates) \in Nat /\ Cardinality(creates') \in Nat
    BY FS_Subset, FS_CardinalityType
  <1>2. TypeOK' /\ NothingBeforeAccounts'
    <2>1. Len(lists') + Cardinality(creates') <= MaxCalls
      <3>1. Len(lists) \in Nat
        BY DEF TypeOK
      <3> QED
        BY <1>1, <3>1, DirectoriesAssumption DEF TypeOK
    <2> QED
      BY <2>1 DEF TypeOK, NothingBeforeAccounts
  <1>3. EditorFaithful' /\ SubmittedIsMeant' /\ ListIsOfForm'
    BY DEF EditorFaithful, SubmittedIsMeant, ListIsOfForm
  <1>4. ~hasty => creates' = {} /\ lists = <<>>
    BY DEF CallsOfSelection
  <1>5. CallsOfSelection'
    BY <1>4 DEF CallsOfSelection
  <1> QED
    BY <1>1, <1>2, <1>3, <1>4, <1>5

LEMMA FolderCreatedIInv ==
    ASSUME IInv, NEW c \in creates, NEW d \in Asked(c), FolderCreated(c, d)
    PROVE  IInv'
  <1> USE DEF IInv
  <1>1. /\ creates' = creates \ {c} /\ stored' = stored \cup {d}
        /\ directories' = c.directories \cup {d} /\ toast' = Created(d)
        /\ UNCHANGED <<list, selection, lists, modal, editor, hasty, lacking>>
    BY DEF FolderCreated, displayToast
  <1>2. d \in Folders /\ d.account = c.account /\ d.fileSystem = c.fileSystem
    BY DEF Asked
  <1>3. c.directories \in SUBSET Folders /\ stored \in SUBSET Folders
    BY DEF TypeOK
  <1>4. /\ TypeOK' /\ NothingBeforeAccounts' /\ EditorFaithful' /\ SubmittedIsMeant' /\ ListIsOfForm'
        /\ CallsOfSelection' /\ IsFiniteSet(creates')
        /\ ~hasty => creates' = {} /\ lists = <<>>
    <2>1. directories' \in SUBSET Folders /\ stored' \in SUBSET Folders /\ toast' \in Toasts
      BY <1>1, <1>2, <1>3, ToastFacts
    <2> QED
      BY <1>1, <2>1, CreateOver DEF TypeOK
  <1>5. c.fileSystem # None
    BY <1>2, DirectoriesAssumption DEF Folders
  <1>6. ~hasty => /\ <<d.account, d.fileSystem>> = selection
                 /\ c.directories = Of(c.directories, selectedStorageAccount, selectedFileSystem)
    BY <1>2, <1>5 DEF CallsOfSelection, selection
  <1>7. TableIsSelected'
    BY <1>1, <1>6 DEF TableIsSelected, Of, selection
  <1>8. NoFolderMissing'
    BY <1>1, <1>4, <1>6 DEF NoFolderMissing, Of, selection
  <1> QED
    BY <1>4, <1>7, <1>8

LEMMA FolderRefusedIInv ==
    ASSUME IInv, NEW c \in creates, FolderRefused(c)
    PROVE  IInv'
  <1> USE DEF IInv
  <1>1. /\ creates' = creates \ {c} /\ toast' = <<"error", "message">>
        /\ lacking' = (lacking \/ stored' # stored)
        /\ UNCHANGED <<list, selection, directories, lists, modal, editor, hasty>>
    BY DEF FolderRefused, displayErrorToast
  <1>2. stored' \in SUBSET Folders
    BY DEF FolderRefused, Asked, TypeOK
  <1>3. /\ TypeOK' /\ NothingBeforeAccounts' /\ EditorFaithful' /\ SubmittedIsMeant' /\ ListIsOfForm'
        /\ CallsOfSelection' /\ IsFiniteSet(creates')
        /\ ~hasty => creates' = {} /\ lists = <<>>
    <2>1. directories' \in SUBSET Folders /\ toast' \in Toasts /\ lacking' \in BOOLEAN
      BY <1>1, ToastFacts DEF TypeOK
    <2> QED
      BY <1>1, <1>2, <2>1, CreateOver
  <1>4. TableIsSelected'
    BY <1>1 DEF TableIsSelected, selection
  <1>5. NoFolderMissing'
    <2>1. ~lacking' => ~lacking /\ stored' = stored
      BY <1>1
    <2>2. lists' = lists /\ directories' = directories /\ hasty' = hasty
      BY <1>1
    <2>3. UNCHANGED <<selectedStorageAccount, selectedFileSystem>>
      BY <1>1 DEF selection
    <2> QED
      BY <1>3, <2>1, <2>2, <2>3 DEF NoFolderMissing
  <1> QED
    BY <1>3, <1>4, <1>5

\* A page that is gone is as good as new.
LEMMA CrashIInv ==
    ASSUME IInv, NEW of \in {"toast", "details"}, Crash(of), stored' \in SUBSET Folders
    PROVE  IInv'
  <1> USE DEF IInv
  <1>1. /\ list' = "unasked" /\ selectedStorageAccount' = None /\ selectedFileSystem' = None
        /\ directories' = {} /\ lists' = <<>> /\ creates' = {} /\ formData' = Empty
        /\ meant' = [fileSystem |-> None, form |-> Empty] /\ modal' \in Gone
        /\ toast' = NoToast /\ hasty' = FALSE /\ lacking' = FALSE
    BY DEF Crash, Gone
  <1>2. /\ IsFiniteSet(creates') /\ Cardinality(creates') = 0
        /\ lists' \in Seq(Lists) /\ Len(lists') = 0
    BY <1>1, FS_EmptySet
  <1>3. TypeOK' /\ NothingBeforeAccounts'
    <2>1. Len(lists') + Cardinality(creates') <= MaxCalls
      BY <1>2, DirectoriesAssumption
    <2> QED
      BY <1>1, <1>2, <2>1, EmptyFacts, ToastFacts DEF TypeOK, NothingBeforeAccounts
  <1>4. EditorFaithful' /\ SubmittedIsMeant' /\ ListIsOfForm' /\ CallsOfSelection'
    BY <1>1, EmptyFacts, ModalFacts
       DEF EditorFaithful, SubmittedIsMeant, ListIsOfForm, CallsOfSelection
  <1>5. TableIsSelected'
    BY <1>1 DEF TableIsSelected, Of
  <1>6. NoFolderMissing'
    <2>1. Of(stored', None, None) = {}
      BY OfFacts
    <2> QED
      BY <1>1, <2>1 DEF NoFolderMissing
  <1> QED
    BY <1>2, <1>3, <1>4, <1>5, <1>6

LEMMA FolderUnknownIInv ==
    ASSUME IInv, NEW c \in creates, FolderUnknown(c)
    PROVE  IInv'
  <1>1. stored' \in SUBSET Folders /\ Crash("toast")
    BY DEF FolderUnknown, Asked, IInv, TypeOK
  <1> QED
    BY <1>1, CrashIInv

LEMMA DetailsIncompleteIInv ==
    ASSUME IInv, NEW d \in Folders, handleDetailsIncomplete(d)
    PROVE  IInv'
  <1>1. stored' \in SUBSET Folders /\ Crash("details")
    BY DEF handleDetailsIncomplete, IInv, TypeOK
  <1> QED
    BY <1>1, CrashIInv

-----------------------------------------------------------------------------
(* The list of users.  What a recursive function computes is shown here by the
   least number for which it would not: a set of numbers that has 0 and with
   each number the next is the set of all. *)

Below == {ss \in Nat \X Nat : ss[1] < ss[2]}

LEMMA BelowIsWellFounded == IsWellFoundedOn(Below, Nat)
  <1>1. OpToRel(<, Nat) = Below
    BY DEF OpToRel, Below
  <1> QED
    BY <1>1, NatLessThanWellFounded

LEMMA LeastNumber ==
    ASSUME NEW T \in SUBSET Nat, T # {}
    PROVE  \E m \in T : \A k \in T : m <= k
  <1>1. PICK x \in T : \A y \in T : <<y, x>> \notin Below
    BY BelowIsWellFounded, WFMin
  <1>2. \A k \in T : ~(k < x)
    BY <1>1 DEF Below
  <1> QED
    BY <1>2

LEMMA AllNumbers ==
    ASSUME NEW S \in SUBSET Nat, 0 \in S, \A n \in S : n + 1 \in S
    PROVE  S = Nat
  <1> SUFFICES ASSUME Nat \ S # {}
               PROVE  FALSE
    OBVIOUS
  <1>1. PICK m \in Nat \ S : \A k \in Nat \ S : m <= k
    BY LeastNumber
  <1>2. m - 1 \in Nat /\ m - 1 \in S
    BY <1>1
  <1>3. (m - 1) + 1 = m
    BY <1>1
  <1> QED
    BY <1>1, <1>2, <1>3

\* The items after each character.
Items(text, m, g) ==
    g = [n \in 0..m |-> IF n = 0 THEN << <<>> >> ELSE Typed(g[n - 1], text[n])]

LEMMA ItemsExist ==
    ASSUME NEW text, NEW L \in Nat
    PROVE  \E g : Items(text, L, g)
  <1> DEFINE S == {m \in Nat : \E g : Items(text, m, g)}
  <1>1. 0 \in S
    <2> DEFINE g == [n \in 0..0 |-> << <<>> >>]
    <2>1. \A n \in 0..0 : n = 0
      OBVIOUS
    <2>2. Items(text, 0, g)
      BY <2>1 DEF Items
    <2> QED
      BY <2>2
  <1>2. ASSUME NEW m \in S
        PROVE  m + 1 \in S
    <2>1. PICK g : Items(text, m, g)
      OBVIOUS
    <2> DEFINE h == [n \in 0..(m + 1) |-> IF n = m + 1 THEN Typed(g[m], text[m + 1]) ELSE g[n]]
    <2>2. ASSUME NEW n \in 0..(m + 1)
          PROVE  h[n] = IF n = 0 THEN << <<>> >> ELSE Typed(h[n - 1], text[n])
      <3>1. CASE n = m + 1
        <4>1. h[n] = Typed(g[m], text[n]) /\ m \in 0..(m + 1) /\ m # m + 1
          BY <3>1
        <4>2. h[m] = g[m] /\ n - 1 = m /\ n # 0
          BY <3>1, <4>1
        <4> QED
          BY <4>1, <4>2
      <3>2. CASE n # m + 1
        <4>1. n \in 0..m
          BY <3>2
        <4>2. h[n] = g[n] /\ g[n] = IF n = 0 THEN << <<>> >> ELSE Typed(g[n - 1], text[n])
          BY <2>1, <3>2, <4>1 DEF Items
        <4>3. n # 0 => n - 1 \in 0..(m + 1) /\ n - 1 # m + 1
          BY <4>1
        <4>4. n # 0 => h[n - 1] = g[n - 1]
          BY <4>3
        <4> QED
          BY <4>2, <4>4
      <3> QED
        BY <3>1, <3>2
    <2>3. h = [n \in 0..(m + 1) |-> IF n = 0 THEN << <<>> >> ELSE Typed(h[n - 1], text[n])]
      <3> HIDE DEF h
      <3> DEFINE k == [n \in 0..(m + 1) |-> IF n = 0 THEN << <<>> >> ELSE Typed(h[n - 1], text[n])]
      <3>1. \A n \in 0..(m + 1) : h[n] = k[n]
        BY <2>2
      <3>2. h = [n \in DOMAIN h |-> h[n]] /\ DOMAIN h = 0..(m + 1)
        BY DEF h
      <3> QED
        BY <3>1, <3>2
    <2>4. Items(text, m + 1, h)
      BY <2>3 DEF Items
    <2> QED
      BY <2>4
  <1>3. S = Nat
    <2> HIDE DEF S
    <2> QED
      BY <1>1, <1>2, AllNumbers DEF S
  <1> QED
    BY <1>3

LEMMA SplitIsLast ==
    ASSUME NEW Char, NEW text \in Seq(Char)
    PROVE  \E g : Items(text, Len(text), g) /\ Split(text) = g[Len(text)]
  <1> DEFINE g == CHOOSE g : Items(text, Len(text), g)
  <1>1. Items(text, Len(text), g)
    BY ItemsExist
  <1>2. Split(text) = g[Len(text)]
    BY DEF Split, Items
  <1> QED
    BY <1>1, <1>2

\* The first k names of a text, each an item; and the same with an item begun.
NamesOf(text, k) == [i \in 1..k |-> <<text[2 * i - 1]>>]
Begun(text, k) == [i \in 1..(k + 1) |-> IF i = k + 1 THEN <<>> ELSE <<text[2 * i - 1]>>]

LEMMA CommaTyped ==
    ASSUME NEW text, NEW k \in Nat
    PROVE  Typed(NamesOf(text, k), Comma) = Begun(text, k)
  <1> DEFINE Singles == {<<text[2 * i - 1]>> : i \in 1..k}
  <1>1. NamesOf(text, k) \in [1..k -> Singles]
    BY DEF NamesOf
  <1>2. NamesOf(text, k) \in Seq(Singles) /\ Len(NamesOf(text, k)) = k
    <2> HIDE DEF Singles
    <2> QED
      BY <1>1
  <1>3. /\ Len(Append(NamesOf(text, k), <<>>)) = k + 1
        /\ \A i \in 1..k : Append(NamesOf(text, k), <<>>)[i] = NamesOf(text, k)[i]
        /\ Append(NamesOf(text, k), <<>>)[k + 1] = <<>>
    <2> HIDE DEF Singles
    <2> QED
      BY <1>2
  <1>4. Append(NamesOf(text, k), <<>>) = [i \in 1..(k + 1) |-> Append(NamesOf(text, k), <<>>)[i]]
    <2>1. Append(NamesOf(text, k), <<>>) \in Seq(Singles \cup {<<>>})
      <3> HIDE DEF Singles
      <3> QED
        BY <1>2
    <2> DEFINE appended == Append(NamesOf(text, k), <<>>)
               All == Singles \cup {<<>>}
    <2>2. appended \in Seq(All) /\ Len(appended) = k + 1 /\ k + 1 \in Nat
      BY <1>3, <2>1
    <2> HIDE DEF appended, All
    <2>3. appended = [i \in 1..(k + 1) |-> appended[i]]
      BY <2>2
    <2> QED
      BY <2>3 DEF appended
  <1>5. \A i \in 1..(k + 1) : Append(NamesOf(text, k), <<>>)[i] = IF i = k + 1 THEN <<>> ELSE <<text[2 * i - 1]>>
    BY <1>3 DEF NamesOf
  <1>6. Append(NamesOf(text, k), <<>>) = Begun(text, k)
    BY <1>4, <1>5 DEF Begun
  <1> QED
    BY <1>6 DEF Typed

LEMMA NameTyped ==
    ASSUME NEW text, NEW k \in Nat, text[2 * k + 1] # Comma
    PROVE  Typed(Begun(text, k), text[2 * k + 1]) = NamesOf(text, k + 1)
  <1>1. DOMAIN Begun(text, k) = 1..(k + 1) /\ Len(Begun(text, k)) = k + 1 /\ Begun(text, k)[k + 1] = <<>>
    BY DEF Begun
  <1>2. Typed(Begun(text, k), text[2 * k + 1]) = [Begun(text, k) EXCEPT ![k + 1] = <<text[2 * k + 1]>>]
    BY <1>1 DEF Typed
  <1>3. 2 * (k + 1) - 1 = 2 * k + 1
    OBVIOUS
  <1> DEFINE one == [Begun(text, k) EXCEPT ![k + 1] = <<text[2 * k + 1]>>]
  <1>4. DOMAIN one = 1..(k + 1) /\ DOMAIN NamesOf(text, k + 1) = 1..(k + 1)
    BY <1>1 DEF NamesOf
  <1>5. ASSUME NEW i \in 1..(k + 1)
        PROVE  one[i] = NamesOf(text, k + 1)[i]
    <2>1. CASE i = k + 1
      BY <1>1, <1>3, <2>1 DEF NamesOf
    <2>2. CASE i # k + 1
      BY <1>1, <2>2 DEF NamesOf, Begun
    <2> QED
      BY <2>1, <2>2
  <1>6. one = NamesOf(text, k + 1)
    BY <1>4, <1>5 DEF NamesOf
  <1> QED
    BY <1>2, <1>6

\* Splitting n + 1 names with commas between them gives the names.
LEMMA SplitNames ==
    ASSUME NEW Char, NEW text \in Seq(Char), NEW n \in Nat, Len(text) = 2 * n + 1,
           \A i \in 1..(n + 1) : text[2 * i - 1] # Comma,
           \A i \in 1..n : text[2 * i] = Comma
    PROVE  Split(text) = NamesOf(text, n + 1)
  <1>1. PICK g : Items(text, Len(text), g) /\ Split(text) = g[Len(text)]
    BY SplitIsLast
  <1>2. /\ g[0] = << <<>> >>
        /\ \A m \in 1..(2 * n + 1) : g[m] = Typed(g[m - 1], text[m])
    BY <1>1 DEF Items
  <1> DEFINE S == {k \in Nat : k <= n => g[2 * k] = Begun(text, k)}
  <1>3. ASSUME NEW k \in Nat, k <= n, g[2 * k] = Begun(text, k)
        PROVE  g[2 * k + 1] = NamesOf(text, k + 1)
    <2>1. 2 * k + 1 \in 1..(2 * n + 1) /\ (2 * k + 1) - 1 = 2 * k
      BY <1>3
    <2>2. k + 1 \in 1..(n + 1) /\ 2 * (k + 1) - 1 = 2 * k + 1
      BY <1>3
    <2>3. text[2 * k + 1] # Comma
      BY <2>2
    <2>4. g[2 * k + 1] = Typed(Begun(text, k), text[2 * k + 1])
      BY <1>2, <1>3, <2>1
    <2> QED
      BY <2>3, <2>4, NameTyped
  <1>4. 0 \in S
    <2>1. Begun(text, 0) = << <<>> >>
      <3>1. 1..(0 + 1) = 1..1
        OBVIOUS
      <3>2. Begun(text, 0) = [i \in 1..1 |-> <<>>]
        BY <3>1 DEF Begun
      <3>3. << <<>> >> = [i \in 1..1 |-> <<>>]
        OBVIOUS
      <3> QED
        BY <3>2, <3>3
    <2>2. 2 * 0 = 0
      OBVIOUS
    <2>3. g[2 * 0] = Begun(text, 0)
      BY <1>2, <2>1, <2>2
    <2> QED
      BY <2>3
  <1>5. ASSUME NEW k \in S
        PROVE  k + 1 \in S
    <2> SUFFICES ASSUME k + 1 <= n
                 PROVE  g[2 * (k + 1)] = Begun(text, k + 1)
      OBVIOUS
    <2>1. k \in Nat /\ k <= n /\ g[2 * k] = Begun(text, k)
      OBVIOUS
    <2> HIDE DEF S
    <2>2. g[2 * k + 1] = NamesOf(text, k + 1)
      BY <1>3, <2>1
    <2>3. k + 1 \in 1..n /\ 2 * (k + 1) \in 1..(2 * n + 1) /\ 2 * (k + 1) - 1 = 2 * k + 1
      BY <2>1
    <2>4. g[2 * (k + 1)] = Typed(NamesOf(text, k + 1), Comma)
      <3>1. g[2 * (k + 1)] = Typed(g[2 * (k + 1) - 1], text[2 * (k + 1)])
        BY <1>2, <2>3
      <3>2. text[2 * (k + 1)] = Comma
        BY <2>3
      <3> QED
        BY <2>2, <2>3, <3>1, <3>2
    <2> QED
      BY <2>1, <2>4, CommaTyped
  <1>6. g[2 * n] = Begun(text, n)
    <2>1. S = Nat
      <3> HIDE DEF S
      <3> QED
        BY <1>4, <1>5, AllNumbers DEF S
    <2>2. n \in S
      BY <2>1
    <2> QED
      BY <2>2
  <1> QED
    BY <1>1, <1>3, <1>6

\* Replacing what does not occur changes nothing.
LEMMA ReplaceAbsent ==
    ASSUME NEW Char, NEW text \in Seq(Char), NEW old, NEW new, \A i \in DOMAIN text : text[i] # old
    PROVE  ReplaceFirst(text, old, new) = text
  <1>1. SelectInSeq(text, LAMBDA ch : ch = old) = 0
    BY DEF SelectInSeq
  <1> QED
    BY <1>1 DEF ReplaceFirst

\* Where it occurs once, that occurrence is replaced.
LEMMA ReplaceOnly ==
    ASSUME NEW Char, NEW text \in Seq(Char), NEW old, NEW new, NEW at \in DOMAIN text,
           \A i \in DOMAIN text : text[i] = old <=> i = at
    PROVE  ReplaceFirst(text, old, new) = SubSeq(text, 1, at - 1) \o new \o SubSeq(text, at + 1, Len(text))
  <1>1. {i \in 1..Len(text) : text[i] = old} = {at}
    OBVIOUS
  <1>2. Min({at}) = at
    BY DEF Min
  <1>3. SelectInSeq(text, LAMBDA ch : ch = old) = at
    BY <1>1, <1>2 DEF SelectInSeq
  <1>4. at # 0
    OBVIOUS
  <1> QED
    BY <1>3, <1>4 DEF ReplaceFirst

LEMMA CommaFacts ==
    ASSUME NEW Char, Comma \in Char
    PROVE  <<Comma>> \in Seq(Char) /\ Len(<<Comma>>) = 1 /\ <<Comma>>[1] = Comma
  OBVIOUS

\* Without the blanks, a text of names in turn has no blank and at most one
\* semicolon; with that one replaced it is split at each of its separators.
LEMMA NamesSent ==
    ASSUME NEW Char, Comma \in Char, NEW words \in Seq(Char), NEW n \in Nat, NamesInTurn(words, n)
    PROVE  /\ \A i \in DOMAIN words : words[i] # Blank
           /\ Split(ReplaceFirst(words, Semicolon, <<Comma>>)) = NamesOf(words, n + 1)
  <1>1. ASSUME NEW i \in DOMAIN words
        PROVE  \/ i % 2 = 1 /\ words[i] \notin Marks
               \/ i % 2 = 0 /\ i \div 2 \in 1..n /\ i = 2 * (i \div 2) /\ words[i] \in {Semicolon, Comma}
    <2>1. i \in 1..(2 * n + 1)
      BY DEF NamesInTurn
    <2>2. CASE i % 2 = 0
      <3>1. i \div 2 \in 1..n /\ i = 2 * (i \div 2)
        BY <2>1, <2>2
      <3> QED
        BY <2>2, <3>1 DEF NamesInTurn
    <2>3. CASE i % 2 = 1
      <3> DEFINE j == (i + 1) \div 2
      <3>1. j \in 1..(n + 1) /\ i = 2 * j - 1
        BY <2>1, <2>3
      <3>2. words[2 * j - 1] \notin Marks
        BY <3>1 DEF NamesInTurn
      <3> QED
        BY <2>3, <3>1, <3>2
    <2> QED
      BY <2>1, <2>2, <2>3
  <1>2. \A i \in DOMAIN words : words[i] # Blank
    BY <1>1 DEF Marks, Blank, Semicolon, Comma
  <1> DEFINE sent == ReplaceFirst(words, Semicolon, <<Comma>>)
             Replaced == /\ sent \in Seq(Char) /\ Len(sent) = 2 * n + 1
                         /\ \A i \in DOMAIN words : sent[i] = IF words[i] = Semicolon THEN Comma ELSE words[i]
  <1>3. Replaced
    <2>1. CASE \A i \in DOMAIN words : words[i] # Semicolon
      <3>1. sent = words
        BY <2>1, ReplaceAbsent
      <3>2. Len(words) = 2 * n + 1
        BY DEF NamesInTurn
      <3> HIDE DEF sent
      <3> QED
        BY <2>1, <3>1, <3>2
    <2>2. ASSUME NEW at \in DOMAIN words, words[at] = Semicolon
          PROVE  Replaced
      <3>1. ASSUME NEW i \in DOMAIN words, words[i] = Semicolon
            PROVE  i = at
        <4>1. i \div 2 \in 1..n /\ i = 2 * (i \div 2) /\ at \div 2 \in 1..n /\ at = 2 * (at \div 2)
          BY <1>1, <2>2, <3>1 DEF Marks
        <4>2. i \div 2 = at \div 2
          BY <2>2, <3>1, <4>1 DEF NamesInTurn
        <4> QED
          BY <4>1, <4>2
      <3> DEFINE front == SubSeq(words, 1, at - 1)
                 back == SubSeq(words, at + 1, Len(words))
      <3>2. sent = front \o <<Comma>> \o back
        BY <2>2, <3>1, ReplaceOnly
      <3>3. at \in 1..Len(words) /\ Len(words) \in Nat
        OBVIOUS
      <3>4. front \in Seq(Char) /\ Len(front) = at - 1 /\ \A j \in 1..(at - 1) : front[j] = words[j]
        OBVIOUS
      <3>5. back \in Seq(Char) /\ Len(back) = Len(words) - at /\ \A j \in 1..(Len(words) - at) : back[j] = words[at + j]
        OBVIOUS
      <3>6. <<Comma>> \in Seq(Char) /\ Len(<<Comma>>) = 1 /\ <<Comma>>[1] = Comma
        BY CommaFacts
      <3> HIDE DEF front, back, sent
      <3> DEFINE begin == front \o <<Comma>>
      <3>7. begin \in Seq(Char) /\ Len(begin) = at /\ begin[at] = Comma /\ \A j \in 1..(at - 1) : begin[j] = words[j]
        BY <3>3, <3>4, <3>6
      <3>8. sent = begin \o back
        BY <3>2
      <3> HIDE DEF begin
      <3>9. sent \in Seq(Char) /\ Len(sent) = Len(words)
        BY <3>3, <3>5, <3>7, <3>8
      <3>10. ASSUME NEW i \in DOMAIN words
             PROVE  sent[i] = IF i = at THEN Comma ELSE words[i]
        <4>1. i \in 1..Len(words)
          OBVIOUS
        <4>2. CASE i <= at
          <5>1. sent[i] = begin[i]
            BY <3>3, <3>5, <3>7, <3>8, <4>1, <4>2
          <5> QED
            BY <3>3, <3>7, <4>1, <4>2, <5>1
        <4>3. CASE i > at
          <5>1. sent[i] = back[i - at]
            BY <3>3, <3>5, <3>7, <3>8, <4>1, <4>3
          <5>2. back[i - at] = words[i]
            BY <3>3, <3>5, <4>1, <4>3
          <5> QED
            BY <3>3, <4>3, <5>1, <5>2
        <4> QED
          BY <3>3, <4>1, <4>2, <4>3
      <3> QED
        BY <2>2, <3>1, <3>9, <3>10 DEF NamesInTurn
    <2> QED
      BY <2>1, <2>2
  <1> HIDE DEF sent
  <1>4. ASSUME NEW i \in 1..(n + 1)
        PROVE  sent[2 * i - 1] = words[2 * i - 1] /\ sent[2 * i - 1] # Comma
    <2>1. 2 * i - 1 \in DOMAIN words /\ words[2 * i - 1] \notin Marks
      BY DEF NamesInTurn
    <2> QED
      BY <1>3, <2>1 DEF Marks
  <1>5. ASSUME NEW i \in 1..n
        PROVE  sent[2 * i] = Comma
    <2>1. 2 * i \in DOMAIN words /\ words[2 * i] \in {Semicolon, Comma}
      BY DEF NamesInTurn
    <2> QED
      BY <1>3, <2>1
  <1>6. Split(sent) = NamesOf(sent, n + 1)
    BY <1>3, <1>4, <1>5, SplitNames
  <1>7. NamesOf(sent, n + 1) = NamesOf(words, n + 1)
    BY <1>4 DEF NamesOf
  <1> QED
    BY <1>2, <1>6, <1>7 DEF sent

\* A text that is such a list of names, but for one blank, is sent as the names.
LEMMA ListOfNames ==
    ASSUME NEW Char, Comma \in Char, NEW text \in Seq(Char), NEW words, NEW n \in Nat, NamesInTurn(words, n),
           \/ words = text
           \/ \E i \in DOMAIN text : text[i] = Blank /\ words = RemoveAt(text, i)
    PROVE  UserAccessList(text) = NamesOf(words, n + 1)
  <1>1. words \in Seq(Char)
    BY Removed
  <1>2. text # <<>>
    BY DEF NamesInTurn
  <1>3. ReplaceFirst(text, Blank, <<>>) = words
    <2>1. CASE words = text
      BY <1>1, <2>1, NamesSent, ReplaceAbsent
    <2>2. ASSUME NEW at \in DOMAIN text, text[at] = Blank, words = RemoveAt(text, at)
          PROVE  ReplaceFirst(text, Blank, <<>>) = words
      <3>1. ASSUME NEW i \in DOMAIN text, text[i] = Blank
            PROVE  i = at
        <4>1. \A k \in DOMAIN words : words[k] # Blank
          BY <1>1, NamesSent
        <4> QED
          BY <2>2, <3>1, <4>1, OthersStay
      <3>2. ReplaceFirst(text, Blank, <<>>) = SubSeq(text, 1, at - 1) \o <<>> \o SubSeq(text, at + 1, Len(text))
        BY <2>2, <3>1, ReplaceOnly
      <3>3. SubSeq(text, 1, at - 1) \o <<>> = SubSeq(text, 1, at - 1)
        OBVIOUS
      <3> QED
        BY <2>2, <3>2, <3>3 DEF RemoveAt
    <2> QED
      BY <2>1, <2>2
  <1> QED
    BY <1>1, <1>2, <1>3, NamesSent DEF UserAccessList

-----------------------------------------------------------------------------
(* Every step, and the theorems. *)

LEMMA StepIInv == IInv /\ [Next]_vars => IInv'
  <1> SUFFICES ASSUME IInv, [Next]_vars
               PROVE  IInv'
    OBVIOUS
  <1>1. /\ toast \in Toasts /\ formData \in Forms
        /\ list \in {"unasked", "asked", "loaded", "empty", "failed"}
        /\ meant \in [fileSystem : FileSystems \cup {None}, form : Forms]
    BY DEF IInv, TypeOK, EditorFaithful
  <1>2. CASE UNCHANGED vars
    BY <1>1, <1>2, CalmIInv DEF vars, editor
  <1>3. CASE Authenticated
    BY <1>1, <1>3, CalmIInv DEF Authenticated, editor
  <1>4. CASE AccountsSettle
    <2>1. ASSUME NEW a \in Accounts, AccountsLoaded(a)
          PROVE  IInv'
      BY <2>1, AccountsLoadedIInv
    <2>2. CASE NoAccountsLoaded
      BY <1>1, <2>2, CalmIInv, ToastFacts DEF NoAccountsLoaded, displayErrorToast, editor
    <2>3. CASE AccountsFail
      BY <1>1, <2>3, CalmIInv DEF AccountsFail, editor
    <2> QED
      BY <1>4, <2>1, <2>2, <2>3 DEF AccountsSettle
  <1>5. ASSUME NEW a \in Accounts, handleStorageAccountChange(a)
        PROVE  IInv'
    BY <1>5, AccountChangeIInv
  <1>6. ASSUME NEW f \in FileSystems, handleFileSystemChange(f)
        PROVE  IInv'
    BY <1>6, FileSystemChangeIInv
  <1>7. CASE DirectoriesSettle
    BY <1>7, DirectoriesLoadedIInv, DirectoriesFailIInv DEF DirectoriesSettle
  <1>8. ASSUME NEW d \in Folders, handleDetails(d)
        PROVE  IInv'
    BY <1>1, <1>8, CalmIInv, ModalFacts DEF handleDetails, editor
  <1>9. CASE handleCancelDetails
    BY <1>1, <1>9, CalmIInv, ModalFacts DEF handleCancelDetails, editor
  <1>10. CASE handleAdd
    BY <1>10, AddIInv
  <1>11. ASSUME NEW n \in Names, handleInputChange("name", n)
         PROVE  IInv'
    BY <1>11, InputIInv
  <1>12. ASSUME NEW t \in Texts, handleInputChange("userAccess", t)
         PROVE  IInv'
    BY <1>12, InputIInv
  <1>13. CASE handleCancelEdit
    BY <1>1, <1>13, CalmIInv, ModalFacts, EmptyFacts DEF handleCancelEdit, HideEditor, editor
  <1>14. CASE submitForm
    BY <1>14, SubmitIInv
  <1>15. CASE FolderSettles
    BY <1>15, FolderCreatedIInv, FolderRefusedIInv, FolderUnknownIInv DEF FolderSettles
  <1>16. CASE CloseToast
    BY <1>1, <1>16, CalmIInv, ToastFacts DEF CloseToast, editor
  <1>17. ASSUME NEW d \in Folders, handleDetailsIncomplete(d)
         PROVE  IInv'
    BY <1>17, DetailsIncompleteIInv
  <1> QED
    BY <1>2, <1>3, <1>4, <1>5, <1>6, <1>7, <1>8, <1>9, <1>10, <1>11, <1>12, <1>13, <1>14,
       <1>15, <1>16, <1>17 DEF Next

\* The inductive invariant: in peace at most one call is in flight, it is about
\* the selection, and no folder of the selection can get lost.
THEOREM DirectoriesInvariant == Spec => []IInv
  BY InitIInv, StepIInv, PTL DEF Spec

\* Every variable of the page stays in its domain, a selected container is one
\* of the selected account, and the calls in flight keep to their bound.
THEOREM TypeCorrect == Spec => []TypeOK
  <1>1. IInv => TypeOK
    BY DEF IInv
  <1> QED
    BY <1>1, DirectoriesInvariant, PTL

\* A user who waits for answers sees the folders of the container selected, of
\* the account selected (StorageAccountsPage.js:58-78 and 127-136).
THEOREM TableOfSelection == Spec => []TableIsSelected
  <1>1. IInv => TableIsSelected
    BY DEF IInv
  <1> QED
    BY <1>1, DirectoriesInvariant, PTL

LEMMA OnlyStoredStep == IInv /\ OnlyStored /\ [Next]_vars => OnlyStored'
  <1> SUFFICES ASSUME IInv, OnlyStored, [Next]_vars
               PROVE  OnlyStored'
    OBVIOUS
  <1> USE DEF OnlyStored
  <1>1. UNCHANGED <<directories, stored, creates, hasty>> => OnlyStored'
    OBVIOUS
  <1>2. CASE \/ Authenticated \/ AccountsSettle \/ handleCancelDetails \/ handleAdd
             \/ handleCancelEdit \/ CloseToast \/ UNCHANGED vars
             \/ (\E d \in Folders : handleDetails(d))
             \/ (\E n \in Names : handleInputChange("name", n))
             \/ (\E t \in Texts : handleInputChange("userAccess", t))
    <2>1. UNCHANGED <<directories, stored, creates, hasty>>
      BY <1>2 DEF Authenticated, AccountsSettle, AccountsLoaded, NoAccountsLoaded, AccountsFail,
                  handleCancelDetails, handleAdd, handleCancelEdit, CloseToast, vars, calls,
                  handleDetails, handleInputChange
    <2> QED
      BY <1>1, <2>1
  <1>3. ASSUME NEW a \in Accounts, handleStorageAccountChange(a)
        PROVE  OnlyStored'
    <2>1. /\ directories' = IF selectedFileSystem = None THEN directories ELSE {}
          /\ hasty' = (Busy \/ (hasty /\ selectedFileSystem = None))
          /\ UNCHANGED <<stored, creates>>
      BY <1>3 DEF handleStorageAccountChange, calls
    <2>2. ~hasty' => creates = {} /\ (directories' = {} \/ (~hasty /\ directories' = directories))
      BY <2>1 DEF Busy
    <2> QED
      BY <2>1, <2>2
  <1>4. ASSUME NEW f \in FileSystems, handleFileSystemChange(f)
        PROVE  OnlyStored'
    BY <1>4 DEF handleFileSystemChange, Busy
  <1>5. ASSUME NEW i \in DOMAIN lists,
               NEW rows \in SUBSET Of(Folders, lists[i].account, lists[i].fileSystem),
               DirectoriesLoaded(i, rows)
        PROVE  OnlyStored'
    <2>1. UNCHANGED <<stored, creates, hasty>> /\ directories' = rows
      BY <1>5 DEF DirectoriesLoaded
    <2>2. ~hasty => creates = {}
      <3>1. lists # <<>>
        BY DEF IInv, TypeOK
      <3> QED
        BY <3>1 DEF IInv, CallsOfSelection
    <2>3. creates = {} => rows \subseteq stored
      BY <1>5 DEF DirectoriesLoaded, Of
    <2> QED
      BY <2>1, <2>2, <2>3
  <1>6. ASSUME NEW i \in DOMAIN lists, DirectoriesFail(i)
        PROVE  OnlyStored'
    BY <1>1, <1>6 DEF DirectoriesFail
  <1>7. CASE submitForm
    <2> DEFINE new == [account |-> selectedStorageAccount, fileSystem |-> selectedFileSystem,
                       form |-> formData, userAccessList |-> UserAccessList(formData.userAccess),
                       directories |-> directories, meant |-> meant]
    <2>1. UNCHANGED <<directories, stored>> /\ creates' = creates \cup {new}
      BY <1>7 DEF submitForm
    <2>2. hasty' = (hasty \/ Busy)
      BY <1>7 DEF submitForm
    <2>3. new.directories = directories
      OBVIOUS
    <2> HIDE DEF new
    <2> QED
      BY <2>1, <2>2, <2>3
  <1>8. ASSUME NEW c \in creates, NEW d \in Asked(c), FolderCreated(c, d)
        PROVE  OnlyStored'
    BY <1>8 DEF FolderCreated
  <1>9. ASSUME NEW c \in creates, FolderRefused(c)
        PROVE  OnlyStored'
    <2>1. stored \subseteq stored' /\ creates' \subseteq creates
      BY <1>9 DEF FolderRefused
    <2>2. UNCHANGED <<directories, hasty>>
      BY <1>9 DEF FolderRefused
    <2> QED
      BY <2>1, <2>2
  <1>10. ASSUME NEW c \in creates, FolderUnknown(c)
         PROVE  OnlyStored'
    BY <1>10 DEF FolderUnknown, Crash
  <1>11. CASE DirectoriesSettle
    BY <1>5, <1>6, <1>11 DEF DirectoriesSettle
  <1>12. CASE FolderSettles
    BY <1>8, <1>9, <1>10, <1>12 DEF FolderSettles
  <1>13. ASSUME NEW d \in Folders, handleDetailsIncomplete(d)
         PROVE  OnlyStored'
    BY <1>13 DEF handleDetailsIncomplete, Crash
  <1> QED
    BY <1>2, <1>3, <1>4, <1>7, <1>11, <1>12, <1>13 DEF Next

\* For a user who waits for answers the table ends up with exactly the folders
\* there are in the container selected: none is missing, none is invented, none
\* is another container's (StorageAccountsPage.js:58-78 and 94-136).
THEOREM TableExact == Spec => []TableIsExact
  <1>1. Init => OnlyStored
    BY DEF Init, OnlyStored
  <1>2. IInv /\ OnlyStored => TableIsExact
    <2> SUFFICES ASSUME IInv, OnlyStored, ~hasty, ~Busy, ~lacking
                 PROVE  directories = Of(stored, selectedStorageAccount, selectedFileSystem)
      BY DEF TableIsExact
    <2>1. Of(stored, selectedStorageAccount, selectedFileSystem) \subseteq directories
      BY DEF IInv, NoFolderMissing, Busy
    <2>2. directories = Of(directories, selectedStorageAccount, selectedFileSystem)
      BY DEF IInv, TableIsSelected
    <2>3. directories \subseteq stored
      BY DEF OnlyStored
    <2> QED
      BY <2>1, <2>2, <2>3 DEF Of
  <1> QED
    BY <1>1, <1>2, OnlyStoredStep, DirectoriesInvariant, PTL DEF Spec

\* What is sent is what the editor showed, in the container it was opened for
\* (DirectoryEditorModal.js:31-62, StorageAccountsPage.js:94-100).
THEOREM SubmittedMeant == Spec => []SubmittedIsMeant
  <1>1. IInv => SubmittedIsMeant
    BY DEF IInv
  <1> QED
    BY <1>1, DirectoriesInvariant, PTL

\* The users named in the text of the editor are sent as the list of their
\* names, whatever those are and wherever the blank and the semicolon stand
\* (StorageManager.service.js:116).
THEOREM UsersSent == Spec => []UserListFaithful
  <1>1. IInv => UserListFaithful
    <2> SUFFICES ASSUME IInv, NEW c \in creates,
                        NEW words, NEW n \in 0..Len(c.form.userAccess),
                        \/ words = c.form.userAccess
                        \/ \E i \in DOMAIN c.form.userAccess :
                              c.form.userAccess[i] = Blank /\ words = RemoveAt(c.form.userAccess, i),
                        NamesInTurn(words, n)
                 PROVE  c.userAccessList = NamesOf(words, n + 1)
      BY DEF UserListFaithful, NamesOf
    <2> DEFINE text == c.form.userAccess
               Char == STRING \cup {Comma}
    <2>1. c.userAccessList = UserAccessList(text)
      BY DEF IInv, ListIsOfForm
    <2>2. text \in Seq(STRING)
      BY DirectoriesAssumption DEF IInv, TypeOK, Forms
    <2>3. text \in Seq(Char) /\ Comma \in Char /\ Len(text) \in Nat
      BY <2>2
    <2>4. UserAccessList(text) = NamesOf(words, n + 1)
      <3> HIDE DEF Char
      <3> QED
        BY <2>3, ListOfNames
    <2> QED
      BY <2>1, <2>4
  <1> QED
    BY <1>1, DirectoriesInvariant, PTL
=============================================================================
