---------------------------- MODULE DirectoriesPage ----------------------------
(***************************************************************************)
(* The page that lists the folders of a container and creates new ones     *)
(* (StorageAccountsPage.js with DirectoriesManager.js,                     *)
(* DirectoriesTable.js and DirectoryEditorModal.js).                       *)
(*                                                                         *)
(* As in FileSystemsPage, hooks are variables and what follows an await is *)
(* an action.  The answer to a creation puts back the table that was on    *)
(* display when the form was submitted, with the new folder added.  A      *)
(* dialog, of the editor or of a folder's details, covers the page.        *)
(***************************************************************************)
EXTENDS Naturals, Sequences, SequencesExt, FiniteSets, ServiceClient, Widgets

CONSTANTS
    Accounts,
    FileSystems,    \* names of containers, which accounts may share
    Listed,         \* Listed[a]: the containers of account a
    Names,          \* names of folders
    Texts,          \* what is typed as the list of users
    None,           \* '' : nothing selected, nothing typed
    MaxCalls,       \* bound on the calls in flight
    MaxCreates      \* bound on those of them that create a folder

ASSUME DirectoriesAssumption ==
    /\ None \notin Accounts \cup FileSystems \cup Names
    /\ Listed \in [Accounts -> SUBSET FileSystems]
    /\ Texts \subseteq Seq(STRING) /\ <<>> \in Texts
    /\ MaxCalls \in Nat \ {0}
    /\ MaxCreates \in Nat \ {0}

VARIABLES
    list,               \* the request for the accounts
    selectedStorageAccount,
    selectedFileSystem,
    directories,        \* the table
    lists,              \* getDirectories calls in flight
    creates,            \* createFolder calls in flight
    modal,              \* the dialog that covers the page, or what took the page away
    formData,           \* of the editor
    meant,              \* what the user sees: the fields, and the selection behind the editor
    toast,
    stored,             \* the folders there are
    hasty,              \* selected or submitted while a call was in flight,
                        \* and the table was not emptied in peace since
    lacking             \* may the table lack a folder: the last list failed, or a folder
                        \* was made although the answer was only a message
\* No action depends on meant, hasty and lacking.

selection == <<selectedStorageAccount, selectedFileSystem>>
calls == <<lists, creates>>
editor == <<formData, meant>>
vars == <<list, selection, directories, calls, modal, editor, toast,
          stored, hasty, lacking>>

Folders == [account : Accounts, fileSystem : FileSystems, name : Names]
Of(rows, a, f) == {d \in rows : d.account = a /\ d.fileSystem = f}

Forms == [name : Names \cup {None}, userAccess : Texts]
Empty == [name |-> None, userAccess |-> <<>>]

\* A list call knows which folders there were when it was sent.
Lists == [account : Accounts, fileSystem : FileSystems, since : SUBSET Folders]

NoModal == <<"none">>
Editor == <<"editor">>
Details(d) == <<"details", d>>

\* An exception while rendering takes the page away: of the toast, or of a dialog.
Crashed(of) == <<"crashed", of>>
Gone == {Crashed("toast"), Crashed("details")}

NoToast == <<"none">>
Created(d) == <<"created", d>>
Toasts ==
    {NoToast, <<"success", "accountsLoaded">>, <<"error", "noAccountsLoaded">>, <<"error", "message">>}
    \cup {Created(d) : d \in Folders}

TypeOK ==
    /\ list \in {"unasked", "asked", "loaded", "empty", "failed"}
    /\ selectedStorageAccount \in Accounts \cup {None}
    /\ selectedFileSystem # None =>
            /\ selectedStorageAccount \in Accounts
            /\ selectedFileSystem \in Listed[selectedStorageAccount]
    /\ directories \in SUBSET Folders
    /\ lists \in Seq(Lists)
    /\ \A c \in creates : c.form \in Forms /\ c.directories \in SUBSET Folders
    /\ Len(lists) + Cardinality(creates) <= MaxCalls
    /\ modal \in {NoModal, Editor} \cup Gone \cup {Details(d) : d \in Folders}
    /\ formData \in Forms
    /\ toast \in Toasts
    /\ stored \in SUBSET Folders
    /\ {hasty, lacking} \subseteq BOOLEAN

Init ==
    /\ list = "unasked"
    /\ selectedStorageAccount = None
    /\ selectedFileSystem = None
    /\ directories = {}
    /\ lists = <<>>
    /\ creates = {}
    /\ modal = NoModal
    /\ formData = Empty
    /\ meant = [fileSystem |-> None, form |-> Empty]
    /\ toast = NoToast
    /\ stored = {}
    /\ hasty = FALSE
    /\ lacking = FALSE

\* The folder that call c asks for, if a container was selected and a name typed.
Asked(c) == {d \in Folders : <<d.account, d.fileSystem, d.name>> = <<c.account, c.fileSystem, c.form.name>>}

Busy == lists # <<>> \/ creates # {}
Room == Len(lists) + Cardinality(creates) < MaxCalls

\* No error boundary keeps the page, and its hooks are gone; what is still in
\* flight finds nobody.
Crash(of) ==
    /\ modal' = Crashed(of)
    /\ list' = "unasked"
    /\ selectedStorageAccount' = None
    /\ selectedFileSystem' = None
    /\ directories' = {}
    /\ lists' = <<>>
    /\ creates' = {}
    /\ formData' = Empty
    /\ meant' = [fileSystem |-> None, form |-> Empty]
    /\ toast' = NoToast
    /\ hasty' = FALSE
    /\ lacking' = FALSE

-----------------------------------------------------------------------------
(* The accounts. *)

Authenticated ==
    /\ modal \notin Gone
    /\ list = "unasked"
    /\ list' = "asked"
    /\ UNCHANGED <<selection, directories, calls, modal, editor, toast, stored, hasty, lacking>>

displayToast(message) == toast' = message
displayErrorToast(message) == toast' = <<"error", message>>

AccountsLoaded(first) ==
    /\ list = "asked"
    /\ list' = "loaded"
    /\ selectedStorageAccount' = first
    /\ displayToast(<<"success", "accountsLoaded">>)
    /\ UNCHANGED <<selectedFileSystem, directories, calls, modal, editor, stored, hasty, lacking>>

NoAccountsLoaded ==
    /\ list = "asked"
    /\ list' = "empty"
    /\ displayErrorToast("noAccountsLoaded")
    /\ UNCHANGED <<selection, directories, calls, modal, editor, stored, hasty, lacking>>

\* The error goes to the console only.
AccountsFail ==
    /\ list = "asked"
    /\ list' = "failed"
    /\ UNCHANGED <<selection, directories, calls, modal, editor, toast, stored, hasty, lacking>>

-----------------------------------------------------------------------------
(* The selection and the folders. *)

storageAccountItems == IF list = "loaded" THEN Accounts ELSE {}

fileSystemItems ==
    IF selectedStorageAccount = None THEN {} ELSE Listed[selectedStorageAccount]

\* A mistake: the container stays selected, although it is of the account before.
handleStorageAccountChangeOnly(a) ==
    /\ modal = NoModal
    /\ Picks(storageAccountItems, selectedStorageAccount, a)
    /\ selectedStorageAccount' = a
    /\ hasty' = (Busy \/ hasty)
    /\ UNCHANGED <<list, selectedFileSystem, directories, calls, modal, editor, toast, stored, lacking>>

\* The container is cleared first.  The effect that empties the table runs only
\* when that is a change.
handleStorageAccountChange(a) ==
    /\ modal = NoModal
    /\ Picks(storageAccountItems, selectedStorageAccount, a)
    /\ selectedStorageAccount' = a
    /\ selectedFileSystem' = None
    /\ directories' = IF selectedFileSystem = None THEN directories ELSE {}
    /\ hasty' = (Busy \/ (hasty /\ selectedFileSystem = None))
    /\ UNCHANGED <<list, calls, modal, editor, toast, stored, lacking>>

\* A mistake: the table is kept until the answer comes.
handleFileSystemChangeKeeping(f) ==
    /\ modal = NoModal
    /\ Room
    /\ Picks(fileSystemItems, selectedFileSystem, f)
    /\ selectedFileSystem' = f
    /\ lists' = Append(lists, [account |-> selectedStorageAccount, fileSystem |-> f,
                               since |-> Of(stored, selectedStorageAccount, f)])
    /\ hasty' = Busy
    /\ lacking' = FALSE
    /\ UNCHANGED <<list, selectedStorageAccount, directories, creates, modal, editor, toast, stored>>

\* Another container: the table is emptied and its folders are asked for.
handleFileSystemChange(f) ==
    /\ modal = NoModal
    /\ Room
    /\ Picks(fileSystemItems, selectedFileSystem, f)
    /\ selectedFileSystem' = f
    /\ directories' = {}
    /\ lists' = Append(lists, [account |-> selectedStorageAccount, fileSystem |-> f,
                               since |-> Of(stored, selectedStorageAccount, f)])
    /\ hasty' = Busy
    /\ lacking' = FALSE
    /\ UNCHANGED <<list, selectedStorageAccount, creates, modal, editor, toast, stored>>

\* Folders whose creation is under way may be there already.
DirectoriesLoaded(i, rows) ==
    /\ LET call == lists[i]
           there == stored \cup UNION {Asked(c) : c \in creates}
       IN  call.since \subseteq rows /\ rows \subseteq Of(there, call.account, call.fileSystem)
    /\ lists' = RemoveAt(lists, i)
    /\ directories' = rows
    /\ lacking' = FALSE
    /\ UNCHANGED <<list, selection, creates, modal, editor, toast, stored, hasty>>

\* The error goes to the console only.
DirectoriesFail(i) ==
    /\ lists' = RemoveAt(lists, i)
    /\ lacking' = TRUE
    /\ UNCHANGED <<list, selection, directories, creates, modal, editor, toast, stored, hasty>>

handleDetails(d) ==
    /\ modal = NoModal
    /\ d \in directories
    /\ modal' = Details(d)
    /\ UNCHANGED <<list, selection, directories, calls, editor, toast, stored, hasty, lacking>>

\* The dialog reads metadata and access of the row, which the service may have
\* left out: the exception comes while it is rendered.
handleDetailsIncomplete(d) ==
    /\ modal = NoModal
    /\ d \in directories
    /\ Crash("details")
    /\ UNCHANGED stored

handleCancelDetails ==
    /\ modal \notin {NoModal, Editor} \cup Gone
    /\ modal' = NoModal
    /\ UNCHANGED <<list, selection, directories, calls, editor, toast, stored, hasty, lacking>>

-----------------------------------------------------------------------------
(* The editor. *)

\* The editor is mounted with its default values.
handleAdd ==
    /\ modal = NoModal
    /\ modal' = Editor
    /\ formData' = Empty
    /\ meant' = [fileSystem |-> selectedFileSystem, form |-> Empty]
    /\ UNCHANGED <<list, selection, directories, calls, toast, stored, hasty, lacking>>

\* A mistake: the other fields are not carried over.
handleInputChangeAlone(id, v) ==
    /\ modal = Editor
    /\ formData[id] # v
    /\ formData' = [Empty EXCEPT ![id] = v]
    /\ meant' = [meant EXCEPT !.form[id] = v]
    /\ UNCHANGED <<list, selection, directories, calls, modal, toast, stored, hasty, lacking>>

\* A field is filled in.
handleInputChange(id, v) ==
    /\ modal = Editor
    /\ formData[id] # v
    /\ formData' = [formData EXCEPT ![id] = v]
    /\ meant' = [meant EXCEPT !.form[id] = v]
    /\ UNCHANGED <<list, selection, directories, calls, modal, toast, stored, hasty, lacking>>

\* The editor is unmounted, and its form is gone.
HideEditor ==
    /\ modal = Editor
    /\ modal' = NoModal
    /\ formData' = Empty
    /\ meant' = [fileSystem |-> None, form |-> Empty]

handleCancelEdit ==
    /\ HideEditor
    /\ UNCHANGED <<list, selection, directories, calls, toast, stored, hasty, lacking>>

\* The button, or Enter in the fund code.  While the user is not known the
\* handler throws and nothing happens.  It does not ask whether a container is
\* selected: then there is nothing the API could create.
submitForm ==
    /\ HideEditor
    /\ list # "unasked"
    /\ Room /\ Cardinality(creates) < MaxCreates
    /\ creates' = creates \cup
          {[account |-> selectedStorageAccount, fileSystem |-> selectedFileSystem,
            form |-> formData,
            userAccessList |-> UserAccessList(formData.userAccess),
            directories |-> directories, meant |-> meant]}
    /\ hasty' = (hasty \/ Busy)
    /\ UNCHANGED <<list, selection, directories, lists, toast, stored, lacking>>

\* The table of the moment of submission, with the folder.
FolderCreated(c, d) ==
    /\ d \in Asked(c)
    /\ creates' = creates \ {c}
    /\ stored' = stored \cup {d}
    /\ directories' = c.directories \cup {d}
    /\ displayToast(Created(d))
    /\ UNCHANGED <<list, selection, lists, modal, editor, hasty, lacking>>

\* A mistake: the folder is shown all the same.
FolderRefusedShown(c) ==
    /\ creates' = creates \ {c}
    /\ \E made \in BOOLEAN : stored' = IF made THEN stored \cup Asked(c) ELSE stored
    /\ lacking' = (lacking \/ stored' # stored)
    /\ directories' = c.directories \cup Asked(c)
    /\ displayErrorToast("message")
    /\ UNCHANGED <<list, selection, lists, modal, editor, hasty>>

\* Only a message came back: nothing was made, or what had to follow failed.  The
\* table stays, and lacks what was made.
FolderRefused(c) ==
    /\ creates' = creates \ {c}
    /\ \E made \in BOOLEAN : stored' = IF made THEN stored \cup Asked(c) ELSE stored
    /\ lacking' = (lacking \/ stored' # stored)
    /\ displayErrorToast("message")
    /\ UNCHANGED <<list, selection, directories, lists, modal, editor, hasty>>

\* undefined came back, whether or not the folder was made: using it throws, and
\* the exception itself becomes the message of the toast, which React refuses to
\* render.
FolderUnknown(c) ==
    /\ \E made \in BOOLEAN : stored' = IF made THEN stored \cup Asked(c) ELSE stored
    /\ Crash("toast")

\* The toast goes after five seconds.
CloseToast ==
    /\ toast # NoToast
    /\ toast' = NoToast
    /\ UNCHANGED <<list, selection, directories, calls, modal, editor, stored, hasty, lacking>>

-----------------------------------------------------------------------------

AccountsSettle ==
    \/ /\ \E r \in Responses : getFileSystems(r)
       /\ (\E a \in Accounts : AccountsLoaded(a)) \/ NoAccountsLoaded
    \/ (\E r \in Responses : ~getFileSystems(r)) /\ AccountsFail

DirectoriesSettle ==
    \E i \in DOMAIN lists :
        \/ /\ \E r \in Responses : getDirectories(r)
           /\ \E rows \in SUBSET Of(Folders, lists[i].account, lists[i].fileSystem) : DirectoriesLoaded(i, rows)
        \/ (\E r \in Responses : ~getDirectories(r)) /\ DirectoriesFail(i)

FolderSettles ==
    \E c \in creates, outcome \in {createFolder(r) : r \in Responses} :
        \/ outcome = "folder" /\ \E d \in Asked(c) : FolderCreated(c, d)
        \/ outcome = "message" /\ FolderRefused(c)
        \/ outcome = "undefined" /\ FolderUnknown(c)

Next ==
    \/ Authenticated
    \/ AccountsSettle
    \/ \E a \in Accounts : handleStorageAccountChange(a)
    \/ \E f \in FileSystems : handleFileSystemChange(f)
    \/ DirectoriesSettle
    \/ \E d \in Folders : handleDetails(d) \/ handleDetailsIncomplete(d)
    \/ handleCancelDetails
    \/ handleAdd
    \/ \E n \in Names : handleInputChange("name", n)
    \/ \E t \in Texts : handleInputChange("userAccess", t)
    \/ handleCancelEdit
    \/ submitForm
    \/ FolderSettles
    \/ CloseToast

Spec == Init /\ [][Next]_vars

-----------------------------------------------------------------------------
(* Properties. *)

Marks == {Blank, Semicolon, Comma}

\* n + 1 names and what separates them: commas, and at most one semicolon.
NamesInTurn(words, n) ==
    /\ Len(words) = 2 * n + 1
    /\ \A i \in 1..(n + 1) : words[2 * i - 1] \notin Marks
    /\ \A i \in 1..n : words[2 * i] \in {Semicolon, Comma}
    /\ \A i, j \in 1..n : words[2 * i] = Semicolon /\ words[2 * j] = Semicolon => i = j

\* For a user who waits for answers before the next selection or submission,
\* the folders on display are of the container selected, even when accounts
\* have containers of the same name (StorageAccountsPage.js:78, where the effect
\* ignores the account, and 127-131).
TableIsSelected ==
    ~hasty => directories = Of(directories, selectedStorageAccount, selectedFileSystem)

\* For such a user, with nothing under way, the table is exactly the folders there
\* are in the container selected, whatever was created, refused, selected or left
\* before (StorageAccountsPage.js:100, where the answer to a creation puts back
\* the table of the submission).  Two things excuse a folder that is missing, until
\* the container is listed again: the last list failed, or the folder was made
\* although the answer to its creation was only a message.
TableIsExact ==
    ~hasty /\ ~Busy /\ ~lacking =>
        directories = Of(stored, selectedStorageAccount, selectedFileSystem)

\* What is sent to be created is what the fields of this very editor showed, in
\* the container that was selected when it was opened, whatever was typed into
\* editors before it and whatever arrives behind it.
SubmittedIsMeant ==
    \A c \in creates : c.form = c.meant.form /\ c.fileSystem = c.meant.fileSystem

\* A text of names with a comma or a semicolon between any two, at most one
\* semicolon and at most one blank, wherever that is, is sent as the list of its
\* names (StorageManager.service.js:116, where only the first blank and the
\* first semicolon are replaced).
UserListFaithful ==
    \A c \in creates :
        LET text == c.form.userAccess
            Unspaced == {text} \cup {RemoveAt(text, i) : i \in {j \in DOMAIN text : text[j] = Blank}}
        IN  \A words \in Unspaced, n \in 0..Len(text) :
                NamesInTurn(words, n) => c.userAccessList = [i \in 1..(n + 1) |-> <<words[2 * i - 1]>>]

\* StorageAccountsPage.js:114 "Log and display the error message": a failed
\* creation leaves the page in place.
PageSurvives == modal # Crashed("toast")

-----------------------------------------------------------------------------
(* Why. *)

\* Behind the editor the selection stays, and the form is what its fields show.
EditorFaithful ==
    /\ meant \in [fileSystem : FileSystems \cup {None}, form : Forms]
    /\ modal = Editor => meant.form = formData /\ meant.fileSystem = selectedFileSystem

\* In peace there is at most one call in flight, and it is about the selection.
CallsOfSelection ==
    ~hasty =>
        /\ Len(lists) <= 1
        /\ creates # {} => lists = <<>>
        /\ \A c1, c2 \in creates : c1 = c2
        /\ \A i \in DOMAIN lists : <<lists[i].account, lists[i].fileSystem>> = selection
        /\ \A c \in creates : /\ c.fileSystem = selectedFileSystem
                              /\ c.fileSystem # None => c.account = selectedStorageAccount
                              /\ c.directories = Of(c.directories, selectedStorageAccount, selectedFileSystem)

\* In peace no folder of the selection is missing from the table, or from the
\* answer that will replace it.
NoFolderMissing ==
    LET there == Of(stored, selectedStorageAccount, selectedFileSystem)
    IN  ~hasty =>
            /\ \A i \in DOMAIN lists : there \subseteq lists[i].since
            /\ ~lacking => /\ lists = <<>> => there \subseteq directories
                              /\ \A c \in creates : there \subseteq c.directories

\* In peace no row is of a folder that was never made.
OnlyStored ==
    ~hasty => directories \subseteq stored /\ \A c \in creates : c.directories \subseteq stored

\* The list of users is made of the text when the form is submitted, and stays.
ListIsOfForm == \A c \in creates : c.userAccessList = UserAccessList(c.form.userAccess)

NothingBeforeAccounts ==
    list # "loaded" => selectedStorageAccount = None /\ selectedFileSystem = None /\ lists = <<>>

IInv ==
    /\ TypeOK
    /\ NothingBeforeAccounts
    /\ IsFiniteSet(creates)
    /\ EditorFaithful
    /\ SubmittedIsMeant
    /\ ListIsOfForm
    /\ CallsOfSelection
    /\ TableIsSelected
    /\ NoFolderMissing
=============================================================================
