------------------------------- MODULE FrontEnd -------------------------------
(***************************************************************************)
(* The front end as a whole (App.js): the header and, until the user turns *)
(* out to be logged in, the landing page; then the page with the           *)
(* containers, and in front of it the dialog with the details of a row.    *)
(*                                                                         *)
(* Each component that calls useAuthentication asks who the user is for    *)
(* itself, once, when it is mounted.  Buttons that log in or out leave the *)
(* page for a link, and everything starts from the beginning.              *)
(***************************************************************************)
EXTENDS FileSystemsPage

CONSTANTS
    Members, Delay, MaxTimers,      \* of the dialog
    MissingSettings     \* what may be missing from the server's settings

VARIABLES
    auth,               \* per component: "unmounted", "asked", "user" or "none"
    missing,            \* the settings the server lacks, while the landing page is up
    serverStatus,       \* the settings its message names
    answers,            \* what the request in flight may answer, {} when there is none
    fresh,              \* was the last answer given by the server as it is now?
    asked,              \* requests sent since the server started, or this page was
                        \* loaded, whichever came last; no more than MaxAsked are counted
    copied, popover, value, timers, clipboard
\* No action depends on fresh and asked.

Dialog == INSTANCE DetailsDialog WITH Rows <- Accounts

landing == <<missing, serverStatus, answers, fresh, asked>>
page == <<list, storageAccounts, selected, requests, fileSystems, loading, toast,
          details, lastFailed, overtaken, hasty>>
inside == <<copied, popover, value, timers, clipboard>>
allVars == <<page, auth, landing, inside>>

MaxAsked == 3

Hooks == {"App", "Header", "FileSystemsPage"}
Settings == {"MANAGED_SUBSCRIPTIONS", "STORAGE_FRIENDLY_TAG_NAME", "others"}

\* Configuration.Validate: the name of the tag is missing when the subscriptions
\* are.
Validate(S) ==
    (S \ {"STORAGE_FRIENDLY_TAG_NAME"})
    \cup IF "MANAGED_SUBSCRIPTIONS" \in S THEN {"STORAGE_FRIENDLY_TAG_NAME"} ELSE {}

ASSUME FrontEndAssumption ==
    /\ Dialog!Parameters
    /\ MissingSettings \in SUBSET SUBSET Settings

FrontEndTypeOK ==
    /\ TypeOK
    /\ Dialog!TypeOK
    /\ auth \in [Hooks -> {"unmounted", "asked", "user", "none"}]
    /\ auth["FileSystemsPage"] = "unmounted" <=> auth["App"] # "user"
    /\ list # "unasked" => auth["FileSystemsPage"] = "user"
    /\ auth["App"] = "user" => answers = {}
    /\ missing \in SUBSET Settings
    /\ serverStatus \in SUBSET Settings
    /\ answers \in SUBSET SUBSET Settings
    /\ fresh \in BOOLEAN
    /\ asked \in 0..MaxAsked

FrontEndInit ==
    /\ Init
    /\ Dialog!Init
    /\ auth = [h \in Hooks |-> IF h = "FileSystemsPage" THEN "unmounted" ELSE "asked"]
    /\ missing \in MissingSettings
    /\ serverStatus = {}
    /\ answers = {Validate(missing)}
    /\ fresh = FALSE
    /\ asked = 1

-----------------------------------------------------------------------------
(* Who is the user? *)

\* Not logged in, or the request failed, which nobody notices.  For the header
\* that is the same as an answer that never comes.
Unknown(h) ==
    /\ h # "Header"
    /\ auth[h] = "asked"
    /\ auth' = [auth EXCEPT ![h] = "none"]
    /\ UNCHANGED <<page, landing, inside>>

HeaderKnows ==
    /\ auth["Header"] = "asked"
    /\ auth' = [auth EXCEPT !["Header"] = "user"]
    /\ UNCHANGED <<page, landing, inside>>

\* A mistake: the landing page is hidden and goes on asking.
AppKnowsBehind ==
    /\ auth["App"] = "asked"
    /\ auth' = [auth EXCEPT !["App"] = "user", !["FileSystemsPage"] = "asked"]
    /\ UNCHANGED <<page, landing, inside>>

\* The page takes the place of the landing page, and asks again who the user is.
\* The site was loaded at the path '/', the only one the router of App knows.
AppKnows ==
    /\ auth["App"] = "asked"
    /\ auth' = [auth EXCEPT !["App"] = "user", !["FileSystemsPage"] = "asked"]
    /\ missing' = {}
    /\ serverStatus' = {}
    /\ answers' = {}
    /\ fresh' = FALSE
    /\ asked' = 0
    /\ UNCHANGED <<page, inside>>

\* A mistake: the first effect runs when the page is mounted, and never again.
PageKnowsOnMount ==
    /\ auth["FileSystemsPage"] = "asked"
    /\ auth' = [auth EXCEPT !["FileSystemsPage"] = "user"]
    /\ UNCHANGED <<page, landing, inside>>

PageKnows ==
    /\ auth["FileSystemsPage"] = "asked"
    /\ auth' = [auth EXCEPT !["FileSystemsPage"] = "user"]
    /\ Authenticated
    /\ UNCHANGED <<landing, inside>>

HookSettles(h) ==
    \/ Unknown(h)
    \/ h = "Header" /\ HeaderKnows
    \/ h = "App" /\ AppKnows
    \/ h = "FileSystemsPage" /\ PageKnows

\* The browser follows a link, and the site is loaded anew.
Load ==
    /\ auth' = [h \in Hooks |-> IF h = "FileSystemsPage" THEN "unmounted" ELSE "asked"]
    /\ missing' \in MissingSettings
    /\ serverStatus' = {}
    /\ answers' = {Validate(missing')}
    /\ fresh' = FALSE
    /\ asked' = 1
    /\ list' = "unasked" /\ storageAccounts' = {} /\ selected' = NoAccount
    /\ requests' = <<>> /\ fileSystems' = NoTable /\ loading' = FALSE /\ toast' = NoToast
    /\ details' = NoRow /\ hasty' = FALSE /\ lastFailed' = FALSE /\ overtaken' = FALSE
    /\ copied' = FALSE /\ popover' = FALSE /\ value' = 0
    /\ timers' = <<>> /\ clipboard' = NoRow

LogIn == auth["App"] # "user" /\ Load

LogOut == auth["Header"] = "user" /\ details = NoRow /\ Load

-----------------------------------------------------------------------------
(* The landing page. *)

\* The server starts again with other settings.  A request in flight was
\* answered before or is answered after.
Restart(S) ==
    /\ auth["App"] # "user"
    /\ missing # S
    /\ missing' = S
    /\ answers' = IF answers = {} THEN {} ELSE answers \cup {Validate(S)}
    /\ fresh' = FALSE
    /\ asked' = 0
    /\ UNCHANGED <<page, auth, serverStatus, inside>>

\* The landing page is rendered, and the effect, which has no dependencies, asks.
Rendered ==
    /\ answers' = {Validate(missing)}
    /\ asked' = IF asked < MaxAsked THEN asked + 1 ELSE asked

NotRendered ==
    /\ answers' = {}
    /\ UNCHANGED asked

Answered ==
    /\ fresh' = (answers = {Validate(missing)})
    /\ UNCHANGED <<page, auth, missing, inside>>

\* A mistake: every answer makes the page render again.
StatusLoadedAlways(message) ==
    /\ serverStatus' = message
    /\ Rendered
    /\ Answered

\* A mistake: an empty message is not shown.
StatusLoadedTruthy(message) ==
    /\ serverStatus' = IF message = {} THEN serverStatus ELSE message
    /\ IF serverStatus' = serverStatus THEN NotRendered ELSE Rendered
    /\ Answered

\* A message other than the one shown renders the page.
StatusLoaded(message) ==
    /\ serverStatus' = message
    /\ IF message = serverStatus THEN NotRendered ELSE Rendered
    /\ Answered

\* Nobody catches the error: the message stays, and nothing asks again.
StatusFails ==
    /\ NotRendered
    /\ UNCHANGED <<page, auth, missing, serverStatus, fresh, inside>>

StatusSettles ==
    \E message \in answers, ok \in {getServerStatus(r) : r \in Responses} :
        \/ ok /\ StatusLoaded(message)
        \/ ~ok /\ StatusFails

-----------------------------------------------------------------------------
(* The page with the containers and the dialog in front of it. *)

OpenDetails == onDetails /\ Dialog!Opened(fileSystems.account)

CloseDetails == handleCancelDetails /\ Dialog!Closed

Behind == AccountsSettle \/ (\E i \in 1..MaxRequests : FileSystemsSettle(i)) \/ CloseToast

FrontEndNext ==
    \/ \E h \in Hooks : HookSettles(h)
    \/ LogIn
    \/ LogOut
    \/ \E S \in MissingSettings : Restart(S)
    \/ StatusSettles
    \/ Behind /\ UNCHANGED <<auth, landing, inside>>
    \/ (\E a \in Accounts : Choose(a)) /\ UNCHANGED <<auth, landing, inside>>
    \/ OpenDetails /\ UNCHANGED <<auth, landing>>
    \/ CloseDetails /\ UNCHANGED <<auth, landing>>
    \/ Dialog!Inside /\ UNCHANGED <<page, auth, landing>>

FrontEndSpec == FrontEndInit /\ [][FrontEndNext]_allVars

\* Requests settle, and the timers of the browser fire; neither the user nor the
\* operator of the server owes anything.
FrontEndFairSpec ==
    /\ FrontEndSpec
    /\ \A h \in Hooks \ {"Header"} : WF_allVars(HookSettles(h))
    /\ WF_allVars(AccountsSettle /\ UNCHANGED <<auth, landing, inside>>)
    /\ WF_allVars((\E i \in 1..MaxRequests : FileSystemsSettle(i)) /\ UNCHANGED <<auth, landing, inside>>)
    /\ WF_allVars(Dialog!Tick /\ UNCHANGED <<page, auth, landing>>)
    /\ WF_allVars((\E i \in 1..MaxTimers : Dialog!unsetCopied(i)) /\ UNCHANGED <<page, auth, landing>>)

-----------------------------------------------------------------------------
(* Properties. *)

\* The marks and names inside the dialog, in the company of the page behind it:
\* see DetailsDialog.
MarkTellsTruth == Dialog!MarkTellsTruth
MarkStays == Dialog!MarkStays
MarkEnds == Dialog!MarkEnds

\* The landing page asks no more than twice for the status of a server that stays
\* as it is, although its effect runs after every rendering (LandingPage.js:16):
\* there is no endless loop of requests.
AskingEnds == asked <= 2

\* A status given by the server as it is now names every setting that is missing
\* except that of the tag, and names nothing when nothing is missing: testing
\* the wrong setting for the tag (Configuration.cs:117) hides no other.
MissingAreNamed ==
    fresh =>
        /\ missing \ {"STORAGE_FRIENDLY_TAG_NAME"} \subseteq serverStatus
        /\ missing = {} => serverStatus = {}

\* A user the application knows comes to see containers, unless a request fails,
\* there are no accounts, or the page, which asks again who the user is, is told
\* otherwise (App.js:15, FileSystemsPage.js:36, 51-108).
UserSeesContainers ==
    auth["App"] = "user" ~>
        \/ fileSystems # NoTable
        \/ lastFailed
        \/ list \in {"empty", "failed"}
        \/ auth["FileSystemsPage"] \in {"none", "unmounted"}

-----------------------------------------------------------------------------
(* Why. *)

\* Since the server started, a second request can only follow an answer that was
\* given before, and what the second answers is what the message then says.
SettlesDown ==
    /\ asked <= 2
    /\ asked >= 1 => answers \subseteq {Validate(missing)}
    /\ asked = 2 => serverStatus = Validate(missing)

FrontEndIInv ==
    /\ IInv
    /\ Dialog!IInv
    /\ FrontEndTypeOK
    /\ MissingAreNamed
    /\ SettlesDown
=============================================================================
