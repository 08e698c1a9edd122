# Formal models of Storage as a Service

TLA+ models of the application in `src/`: an Azure Functions API in C#
(`src/src/api`) that reports which storage accounts and containers a user can
access, and a React front end (`src/src/front`) that shows them. The modules are
checked with TLC on small instances; every safety property and every refinement that
holds is also proved with TLAPS for all values of the constants.

Contents: [the system](#the-system), [plan](#plan), [modules](#modules),
[runs](#runs), [fairness](#fairness), [proofs](#proofs),
[disagreements between text and code](#disagreements-between-text-and-code),
[what is not modelled](#what-is-not-modelled).

## The system

A user opens the site. Until the application knows who the user is, it shows the
landing page, with the status of the server; then the containers page. That page
asks the API for the user's storage accounts, selects the first, and asks for its
containers, each with who has access to it. A row opens a dialog with its details
and instructions for connecting. The API computes the list of accounts and
containers from the user's role assignments in Azure and keeps the result in Redis
for an hour, as it does with directory objects (users and groups). The names under
which accounts are shown come from tags in Azure and are meant to be kept in Redis
too. A page for the folders of a container is part of the source, but no route
leads to it.

```
 App: landing page, then
 containers page --getStorageAccounts, getFileSystems--> StorageAccounts endpoint
                                                          |            |
                                    GetFromCache (Items)  |            | Parallel.ForEach
                                                          v            v   over containers
                     Redis <---------------------- CacheHelper    RoleOperations, Microsoft Graph
                       ^                                  |            |
                       | account properties               | miss       | AuthMgtClient
                       +------------------------- RoleOperations ------+--> Azure
                                                  Parallel.ForEach over subscriptions
```

### Components, their state and what is hard about them

| Component | State | Operations | What is hard | What makes it correct |
|---|---|---|---|---|
| Redis cache helper (`Services/Cache.cs`) | entries in Redis with an absolute expiry, shared by all hosts | `Items` and its wrappers: get, update on a miss, set | calls overlap; the update is slow; the write may be lost, refused or applied without an answer; entries expire and are evicted; the host restarts | nothing stale for more than an hour is handed out; when the world stops changing, so does the cache |
| Role operations (`Services/RoleOperations.cs`) | per request: workers, a bag of assignments, rows; per process: a dictionary of role definitions | `GetAccessibleContainersForPrincipal`, `GetAllStorageDataPlaneRoleAssignments`, `GetRoleDefinitions`, ... | workers in parallel, a dictionary with check-then-act, unordered results, failures that are swallowed beside failures that end the request | the report does not depend on any order and never shows more than was granted; every request ends |
| Management credentials (same file) | `_accessToken`, `_tokenCredentials`, `_amClient`, a lock | the getters `TokenCredentials`, `AuthMgtClient` | lazy initialisation by several threads, half inside a lock; a fetch that throws | one fetch per expired token; what is found outside the lock is the last token; no getter waits for ever |
| Friendly names (same file, `Data/StorageAccountProperties.cs`, `Services/ResourceGraphOperations.cs`) | one Redis entry for all accounts, without expiry | read, extend, write back whole | concurrent read-modify-write; failures that look like names | no name older than the request; no mixed lists |
| StorageAccounts endpoint (`Endpoints/StorageAccounts.cs`) | per request: list of accessible containers, workers, a bag of rows | `GET StorageAccounts[/{account}]` | one worker throws while others run or wait; a catch around everything; a list up to an hour old compared with containers that exist now | each row is true; nothing is lost without an exception; an answer always comes |
| Directory names (`Services/MicrosoftGraphOperations.cs`) | none beyond the cache | `GetDisplayName` | null answers, objects without a name | null is never cached |
| Resource graph (`Services/ResourceGraphOperations.cs`) | none | resource id, tag value | every failure looks like "no result" | see friendly names |
| FileSystems endpoint, `FileSystemOperations` | none | `GetFileSystemDetail`, `GetContainers` | the container goes between `Exists` and `GetProperties`; retries | an answer is true of some moment of the request |
| Roles endpoint, access tokens | an access token per user in Redis | `POST Roles` | a token that cannot be cached takes the roles with it | roles are those of the claims |
| Caller identity (`UserOperations`, `ClaimsPrincipalResult`) | none | decode the header, reject or accept | malformed or anonymous headers | no report without a user id |
| Configuration, ServerStatus | settings read at start | `GetSubscriptions`, `Validate`, `ValidateSharedKey` | blanks around ids, missing settings | each id gets its worker; each missing setting is named |
| Front end as a whole (`App.js`, `Header.js`, `useAuthentication.js`, the log in and log out buttons) | per component: who the user is | each component asks for itself; log in and log out load the site anew | components may be told different things | a user the application knows comes to see containers |
| Landing page (`LandingPage.js`, `Endpoints/ServerStatus.cs`, `Configuration.Validate`) | the status shown | an effect without dependencies asks after each rendering | requests that lead to requests; a server that restarts with other settings | asking ends; what is missing is named |
| Containers page (`FileSystemsPage.js`, `Selector.js`) | React hooks: accounts, selection, table, spinner, message, the row in the dialog | effects, answers, user's choices | answers out of order, failures that only reach the console | what is shown belongs to what is selected, or something is under way or went wrong; the spinner ends |
| Details dialog (`DirectoryDetails.js`, `DirectoriesTableMembers.js`, `ConnectDetails.js`) | the copied mark, the open list of names, the tab | copy, hover, change tabs, close | timers that overlap and outlive the dialog | the mark is about the row shown, stays its three seconds and goes |
| Directories page (`StorageAccountsPage.js`, `DirectoriesManager.js`, `DirectoryEditorModal.js`, `DirectoriesTable.js`) | two selections, the folders, the editor's form, the dialog | list folders, create one | the answer to a creation puts back an older table; containers of the same name; an exception as a message | folders shown are the selection's, all of them and no others; what was typed is what is sent |
| Service client (`StorageManager.service.js`) | none | five calls of the API | reading calls throw, the writing one never does | callers learn of failures; the list of users is the one typed |
| Azure, Redis (external) | role assignments, tags, containers, directory | | change at any time, fail, answer late | |

The hazards this list leads to are in `PROJECT.json`, each at its line, with the
properties that would catch it.

## Plan

The order puts first what the rest relies on and where interleavings matter most.

Done:

1. `CacheHelper`, implementing `BoundedStaleness`: everything the API answers
   passes through it.
2. `RoleOperations`, implementing `AccessReport`: the report is the product of
   the application.
3. `FileSystemsPage`: what the user finally sees.
4. `ManagementCredentials` and `FriendlyNames`: state inside a report that
   threads and requests share.
5. `ContainerDetails`, implementing `ContainerReport`: the second request of the page.
6. `ServiceClient`, `Widgets`: what the pages share.
7. `DetailsDialog`, and `FrontEnd`, which composes the landing page, the
   containers page and the dialog.
8. `DirectoriesPage`: the page with folders.

Next, in this order:

9. `FileSystemDetail`: `GET FileSystems/{account}/{container}` with its shared
   key, `Exists`, `GetProperties` and one retry, while containers come and go.
   Abstract specification: the answer is true of some moment of the request.
10. `Identity` and `Settings`: pure operators for the caller's claims and the list
    of subscriptions (the trimmed strings are lost, `Configuration.cs:41`), each
    against a reference definition.
11. `Login`: the Roles endpoint, which caches the access token before it answers
    with the roles.
12. `SaasSystem`: composes `CacheHelper`, `RoleOperations` (as its update method)
    and `ContainerDetails`, so that the list a user's containers are filtered by
    is the report some earlier call computed. `?refresh=true` of
    `docs/API_v2.md:12`, which no code reads, belongs here. Abstract
    specification: every container answered was granted less than an hour ago.

Theorems planned beyond those below: the safety of `FileSystemDetail` by the
same scheme, and for `SaasSystem` that an answer shows nothing withdrawn an hour
or more before, from `CacheNeverStale` and `ReportsOnlyGranted`. The abstract
specifications `BoundedStaleness`, `AccessReport` and `ContainerReport` exist so that
this composition can rest on them and not on the details.

## Modules

For each component: the specification `X`, its small instance `MCX`, and its
theorems `XProofs`. Definitions that begin with the comment "A mistake" are not
part of any specification: each is a variant of the definition next to it with a
plausible bug, kept to show that the properties notice it (`PROJECT.json`,
"mutants").

### CacheHelper, BoundedStaleness

One action per step of `CacheHelper.Items` between two calls that leave the
process: `Call` (the expiry is computed here, before the cache is read), `GetHit`
or `GetMiss`, `Update` or `UpdateNull`, `Set` or `SetReplyLost`, and `Fails` for
every exception (Redis, update method, an expiry already past). Around them:
`Change` of the outside value, `Evict`, `HostRestart`, `Tick`.

`pc[r]` is where a call stands, `left[r]` the time to the expiry it computed,
`store[k]` the Redis entry. Time is relative: entries have an age and a remaining
life that `Tick` changes, so time needs no bound; an hour is `TTL` ticks.
`lapsed[k][v]` (how long ago `v` was last the value of `k`) and the ages are only
read by properties.

`BoundedStaleness` knows no cache: a request is answered with a value that was
current less than `TTL` ticks before the answer, with nothing, or is dropped.

### RoleOperations, AccessReport

A request starts (`Start`), and a worker per subscription goes through
`FindDefinitions` (the shared dictionary `known`), `ListDefinitions` if they are
not there, `ReadAssignments`. `ListDefinitionsFails` leaves the worker with an
exception, after which no worker starts (`Parallel.ForEach`), `JoinThrows` waits
for those running, and the request fails; `ReadAssignmentsFails` is caught in the
code and leaves a gap that only the variable `missed` knows about. After `Join`
and `Prepare` (Redis, credentials) the assignments are merged one at a time in
any order (`MergeContainer`, `MergeAccount`, `MergeAccountAgain`, `SkipHigher`;
`MergeThrows` when the tags of an account cannot be read), then `Return`.

`granted` is chosen from `Assignments` in the initial state and fixed; `Existing[a]` are the
containers of an account. `dark` are the accounts whose containers could not be
listed. Scopes are abstracted to (subscription, account or above, container or
whole account); a subscription id that does not parse is in `Malformed`: it has no
definitions, so its assignments appear in no report and are not counted as `missed`.

`AccessReport` computes the report in one step from `granted`, `missed` and
`dark`. That `RoleOperations` implements it says that no interleaving of workers,
no order of the bag and no other request can be told from the report. It leaves out
the assignments of malformed subscriptions as the code does. `LossIsLocal` and
`ReturnedListIsComplete` do not: they compare with all that was granted by way of a
data role (`Assigned`), and `LossIsLocal` names the accounts it excepts.

### ManagementCredentials

The two getters as several threads run them: `FindClient`/`MissClient`, `ReadCreds`
(outside the lock), `Enter`, `Check`, `Fetch`/`FetchFails`, `Publish`, `Return` (the
field is read again outside the lock), `Build`, and `ReturnClient`, where the client
is read again, too. Tokens are numbered; credentials and clients are the number of the
token they carry.

### FriendlyNames

One request reads the entry (`ReadList`), meets its accounts one by one
(`MeetAccount` with the tag's value, `MeetAccountUntold` when Azure does not know
the account or cannot be asked, `MeetAccountThrows` when it comes without tags)
and writes its list back (`Save`, `SaveFails`). `Retag` changes names meanwhile.
`ReadList` always gives an empty list: `StorageAccountProperties.Value` has no
setter, and the serializer leaves such a property as the constructor made it.
`seen` and `had` are only read by properties.

### ContainerDetails, ContainerReport

`Begin` takes the containers the caller's report has for the account (or null),
`List` intersects them with those that exist and gives each a worker:
`FindDefinitions`, `ListDefinitions`, `ReadAssignments`, one `Name` per principal,
`AddRow`. Whatever a worker throws ends in `Settle`, where the exception is caught
and the rows so far are the answer; `ListFails` is the same before the loop.
`OthersListDefinitions` and `HostRestart` are what the rest of the process does.

`ContainerReport` knows no workers: in one step a request is answered with a row for
each container listed, or for some of them if an exception was thrown, or it is dropped.
A row has one entry for each assignment to be shown, with or without a name, or none if
the assignments could not be read.

### ServiceClient, Widgets

`ServiceClient` says of each function of `StorageManager.service.js` which answers
of `fetch` it resolves: the four that read resolve a 200 with JSON and throw
everything else; `createFolder` always resolves, with a folder, with a message, or
with undefined. The pages' actions take their branches from it. `UserAccessList` is
the conversion of the text typed as the list of users: one blank removed, one
semicolon replaced, split at commas.

`Widgets` holds what `Selector.js` (`Picks`: only another item is reported) and
`DirectoriesTableMembers.js` (`Collapsed`: more than ten) decide for their pages.

### FileSystemsPage

The hooks of the page are variables. An effect is part of the action that changes
the hook it depends on (`Select`); what follows an `await` is an action
(`AccountsLoaded`, `FileSystemsLoaded`, ...). `requests` are the calls in flight,
oldest first; which one settles is free. `overtaken` remembers that one settled
before an older one. `Choose` is possible while the spinner is on: its overlay
(`PageLoader.css`) covers the page and takes the mouse, but not the keyboard.
`onDetails` opens the dialog with a copy of a row; while it is
open the page behind it cannot be used, but answers still arrive there.

### DetailsDialog

`handleCopyUrl` sets the mark and starts a timer; `unsetCopied(i)` is timer `i`
firing; `Tick` is time passing, and a timer that is due may be late. `Closed`
unmounts the dialog: its state goes, its timers run on without effect (`mine`
becomes false). `handlePopoverOpen`, `handlePopoverClose` and `handleChange` are the
names of a long list and the tabs.

### FrontEnd

Extends `FileSystemsPage`, instantiates `DetailsDialog`, and adds the rest of
`App.js`. `auth[h]` is what the hook of component `h` has learnt (`HookSettles`).
`AppKnows` puts the page in the place of the landing page, and the page asks again
who the user is (`PageKnows`, with the page's `Authenticated`). The site is loaded
at the path `/`, the only one App's router has a page for. `LogIn` and `LogOut`
follow a link, after which everything begins anew (`Load`).

The landing page has at most one request in flight: an answer with another message
renders the page, whose effect asks again (`StatusLoaded`, `Rendered`). `answers` is
what the server may say to that request: its settings when it arrived, or after a
`Restart` that happened meanwhile. `Validate` is `Configuration.Validate`, with the
tag tested through the subscriptions. `OpenDetails` and `CloseDetails` are steps of
page and dialog together.

### DirectoriesPage

Again hooks are variables. `handleFileSystemChange` empties the table and sends a list
call; `handleStorageAccountChange` clears the container, and the effect that empties
the table runs only if that is a change. `handleAdd`, `handleInputChange`,
`handleCancelEdit` and `submitForm` are the editor; a creation in flight carries what
its closure captured (selection, form, table). Its answer is `FolderCreated` (which
puts that table back, with the folder), `FolderRefused` or `FolderUnknown`, and after
either of these the folder may be there or not. `FolderUnknown` ends with the page
gone (`Crash`), and so does `handleDetailsIncomplete`: the dialog reads `metadata` and
`access` of its row, which the service may have left out. `stored` are the folders
there are; a list answers with those that existed when it was sent and any created
since. `meant`, `hasty` and `lacking` are only read by properties.

## Runs

| Run | Instance | States | What it shows |
|---|---|---|---|
| `cache` | 2 calls, 1 key, 2 values, hour of 3 ticks | 18,848 | `NoStaleEntry`; `ImplementsBoundedStaleness`; `Converges` |
| `role` | 2 requests, 2 subscriptions (one malformed), 2 accounts, 16 subsets of 4 assignments, each with and without 2 more that no report shows | 96,768 | `NeverMoreThanGranted`; `LossIsLocal`; `ImplementsAccessReport`; `EveryRequestEnds` |
| `role_completeness` | 1 request, 2 subscriptions, any subset of 7 assignments | violated | `ReturnedListIsComplete` |
| `credentials` | 3 threads, 3 tokens | 81,958 | `OneTokenAtATime`; `LastTokenPublished`; `EveryCallEnds` |
| `names_fresh` | 2 requests, 2 accounts, 1 tag value | 894,671 | `NamesAreFresh`; `SavedListIsOneRequests` |
| `names_cached` | the same | violated | `CachedListIsUsed` |
| `details_rows` | 2 containers, any subset of 4 assignments | 6,404 | `RowsAreTrue`; `NothingLostQuietly`; `ImplementsContainerReport`; `AnswerComes` |
| `details_complete` | the same | violated | `AnswerIsComplete` |
| `front_end` | 2 accounts, 2 requests in flight, 2 timers, delay of 1 tick, 3 sets of missing settings | 82,724 | the page: `InOrderTableIsSelected`, `SpinnerlessTableExplained`, `ToastAgrees`, `DetailsOfTable`, `SpinnerEnds`; the dialog: `MarkTellsTruth`, `MarkStays`, `MarkEnds`; the landing page: `MissingAreNamed`, `AskingEnds`; together: `UserSeesContainers` |
| `page_stale` | the page alone, 3 accounts, 3 requests in flight | violated | `SettledTableIsSelected` |
| `directories` | 2 accounts, 2 containers, one name shared, 1 folder name, 2 calls in flight, 1 of them a creation | 513,293 | `TableIsSelected`; `TableIsExact`; `SubmittedIsMeant`; `UserListFaithful` |
| `directories_crash` | the same | violated | `PageSurvives` |

One run of each component also checks its `TypeOK`; that of the containers page is part
of `FrontEndTypeOK`. A run named "violated" is one in
which TLC finds a counterexample; see [below](#disagreements-between-text-and-code).

Why the instances are large enough:

- **Cache.** Keys share nothing but the calls, so one key is enough; two calls and
  two values give every overlap of a slow and a fast call, including an old value
  written over a new one. The hour must be longer than two ticks for an entry to
  age between its reading and its writing and again before it is used.
- **Roles.** The assignments are one of each kind the merge tells apart: on a
  container (one that no longer exists), on the account with two data roles, above the
  account, of a role that gives no access to data, and one in the malformed
  subscription, of an account that then is in no report. These last two are granted
  together or not at all; neither is read by any step after the worker's. Requests can
  only meet in the dictionary, so two of them and both kinds of subscription show
  every way they could disturb each other. `role_completeness` has a second
  subscription whose assignments can be lost alone.
- **Credentials.** Three threads are the fewest for one inside the lock, one
  waiting at it and one that has passed the check outside. `MaxTokens` bounds how
  often a token expires; the step from one token to the next occurs twice.
- **Names.** Two requests and two accounts give every mixture of lists; with the
  account's own name there are two names to change between.
- **Details.** Two containers are the fewest for one worker to throw while the
  other waits, runs or is done. The four assignments are inherited, direct, of a
  service principal and of a role that is not shown.
- **Front end.** Two requests in flight (`MaxRequests`) allow an answer to be
  overtaken, and an account to be selected again while its first request is under
  way. Two timers (`MaxTimers`) are one left over from a dialog that was closed
  beside one of the dialog open, or two of the same dialog. With a delay of one tick
  a timer can be due, late or not yet due. One account has three members, the other
  eleven, so that one list is collapsed. The settings missing are none, the tag
  alone (which is not reported) and the subscriptions with others. `asked` counts
  requests to three, one more than the property allows.
- **Directories.** The two accounts share the name of a container, and one has a
  second container. With two calls in flight (`MaxCalls`) two lists overtake each
  other, or a list and a creation; `MaxCreates` is 1 to keep the run short (with 2,
  3,685,475 states, the same properties hold). One folder name is enough for a
  folder to be created again, or elsewhere. The one text typed has a comma, a
  semicolon and a blank; that names are kept for every text is proved.

Deadlock is not checked for `directories`, whose page may be gone for good, nor for
`page_stale`: when its answers have come and the message is closed, the page alone
waits for a user. In `front_end` log in and log out are always possible in the end,
and deadlock is checked.

## Fairness

- `CacheHelper!TickingSpec`: time passes (`WF(Tick)`), nothing else. Calls may
  hang for ever and `Converges` still holds, because what they could write
  expires with the hour computed at their entry.
- `RoleOperations!FairSpec`, `ContainerDetails!FairSpec`: a request that started
  keeps taking steps (`WF` of all its steps together). The thread pool runs it, and
  the calls to Azure and Redis return with an answer or, after the clients' own
  timeouts, with an exception. Which of these happens is not constrained. Requests
  need not start.
- `ManagementCredentials!FairSpec`: threads keep running, and one that waits for
  the lock gets it in the end (`SF(Enter)`). .NET monitors do not promise this to
  a thread that competes with others for ever, but the threads of a request call
  the getters a bounded number of times; the model lets them call without end and
  needs strong fairness to say the same.
- `FrontEnd!FrontEndFairSpec`: each `fetch` of the page and of the hooks of App and
  page settles (`WF` of each), as browsers guarantee, and timers fire (`WF` of `Tick`
  and `unsetCopied`). The header's hook, the status request, the user and the
  operator of the server are not assumed to do anything. `FileSystemsPage!FairSpec`
  and `DetailsDialog!FairSpec` say the same of the parts.
- `DirectoriesPage`: no liveness is claimed.

## Proofs

All are of the form: an inductive invariant `IInv`, shown to hold initially and to
be kept by each action, implies the property. `IInv` was checked with TLC first.
Assumptions are the `ASSUME`s of the modules, which only say that the special
values (`NoEntry`, `NoRow`, ...) are not ordinary ones and that bounds are
positive; the sets are arbitrary, finite or not.

| Module | Theorems | The invariant and why it is needed |
|---|---|---|
| `CacheHelperProofs` | `TypeCorrect`, `CacheNeverStale`, `AnswersNeverStale`, `SettledAfterHour`, `SettledStays` | `Budget`: the age of a value and the life it has left never exceed the hour together, and a value was current no longer ago than its age. "No stale entry" alone is not inductive: it says nothing about the values that calls are holding. `AnswersNeverStale` is the refinement of `BoundedStaleness`, step by step. The last two follow from it: an hour after its last change only the current value is in the cache or in a call that can still write, and no step but a change undoes that. |
| `RoleOperationsProofs` | `TypeCorrect`, `ReportsOnlyGranted`, `OrderDoesNotMatter`, `LossesAreLocal` | `MergedSoFar`: at each moment the rows are the abstract report of the assignments merged so far, and the bag is what the workers that are done could read. Lemmas show that adding one assignment to a report is what each merge action does. `OrderDoesNotMatter` is the refinement of `AccessReport`. `LossesAreLocal` compares the row of one account in two abstract reports, the one given and that of everything assigned. |
| `ManagementCredentialsProofs` | `TypeCorrect`, `FetchesAreShared`, `LastTokenIsPublished` | `LockProtects`: a thread is between check and publish exactly if it holds the lock, and there the token and the credentials agree as far as it has got; who is about to read credentials or client again finds some. |
| `FriendlyNamesProofs` | `TypeCorrect`, `NamesNeverOlder`, `SavedLists` | `ListIsRows`: the list a request will save is what its rows show. It holds because nothing is ever read back from the entry. |
| `ContainerDetailsProofs` | `TypeCorrect`, `AnsweredRowsAreTrue`, `LostOnlyByException`, `OneStepAnswer` | `EntriesAddUp`: the entries a worker has made and those it still has to make are the assignments to be shown, and no assignment has two entries. `OneStepAnswer` is the refinement of `ContainerReport`. |
| `FileSystemsPageProofs` | `TypeCorrect`, `SpinnerlessTableHasReason`, `PageToastAgrees`, `SettledInOrder`, `DetailsStayOfTable`, `SpinnerWaitsForSomething` | `NewestIsSelected`: while no answer has overtaken an older request's, the newest request in flight is for the selected account, and the table is that account's when none is left. `QuietBehindDetails`: nothing can arrive behind a dialog opened with nothing under way, because the page behind it cannot be used. `SpinnerWaitsForSomething` adds two conjuncts of its own (`SpinnerHasReason`, `OneIsSelected`). |
| `FrontEndProofs` | `FrontEndTypeCorrect`, `PageInFrontEnd`, `MarksAreTrue`, `MarksStay`, `StatusIsTrue`, `AskingIsBounded`, `PageIsItself`, `DialogIsItself`, `UsersAreServed`, `MarksHaveTimers` | The page's invariant and the dialog's are kept by the steps of both, so that what holds of the page holds of it in company. `AloneIsFirst`: a timer started alone is due no later than any other of its dialog; so no other can take its mark away. `SettlesDown`: since the server started, a second request follows an answer of the server as it is, and repeats it; the message then stays. `PageIsItself` and `DialogIsItself` say that nothing moves page or dialog but their own actions and a load of the site; `UsersAreServed` and `MarksHaveTimers` rest on them. |
| `DirectoriesPageProofs` | `TypeCorrect`, `TableOfSelection`, `TableExact`, `SubmittedMeant`, `UsersSent` | `CallsOfSelection`: for a user who waits, at most one call is in flight and it is about the selection, which the captured table of a creation is too. `NoFolderMissing`: unless `lacking` says why, no folder of the selection is missing from the table or from the answer or captured table that will replace it. `EditorFaithful`: the form is what the editor's fields show, and behind it the selection stays. `OnlyStored`, a second layer on top of `IInv`: no row is of a folder that was never made. `ListIsOfForm`: the list of users is made of the text submitted. |

`UsersSent` is about every text, of any length, and needs induction over the text:
what `Split` makes of the first n of its items. The induction theorems of the library
take an operator as a parameter and cannot be used here. `DirectoriesPageProofs` takes
another way: a set of numbers that is not empty has a least element
(`LeastNumber`, from `BelowIsWellFounded` and the library's `WFMin`), so a set that has
0 and n + 1 for each n in it has every number (`AllNumbers`). The set is that of the
numbers n for which the statement holds.

Liveness (`Converges`, `EveryRequestEnds`, `EveryCallEnds`, `AnswerComes`, `SpinnerEnds`,
`MarkEnds`, `UserSeesContainers`) is only model-checked, because the proof system does
not handle fairness. For four of these the part that is safety is proved: nothing that
is waited for has been forgotten. `SettledAfterHour` and `SettledStays` are that part of
`Converges`, `SpinnerWaitsForSomething` of `SpinnerEnds`, `UsersAreServed` of
`UserSeesContainers`, and `MarksHaveTimers` of `MarkEnds`. What is left to fairness is
that time passes, and that requests settle and timers fire. Of the violations, of course,
nothing is proved.

## Disagreements between text and code

Each is a run in which TLC finds a behaviour of the model that the text excludes.

- **The report may be incomplete** (`role_completeness`). `RoleOperations.cs:84`
  promises "a complete list"; an exception while the assignments of one
  subscription are read is caught (line 413), and the rest is returned and cached
  for an hour as if it were everything.
- **Containers may be missing from the details** (`details_complete`).
  `docs/API_v2.md:27` promises "the list of containers"; an exception in one
  worker is caught around the loop (`StorageAccounts.cs:104`), and the rows
  finished by then are answered with status 200.
- **The table may be of another account** (`page_stale`).
  `FileSystemsPage.js:51` speaks of "the selected" account; when the answer for an
  earlier selection arrives last, its containers stay in the table. The second
  account is chosen by keyboard, because the spinner's overlay takes the mouse.
- **The cached names are never used** (`names_cached`). `RoleOperations.cs:108`
  says "Get the existing storage account properties from the cache"; the property
  `Value` has no setter and comes back empty. A side effect is that the missing
  expiry of that entry (`Cache.cs:75`) does no harm: `NamesAreFresh` holds because
  of it, and would not if the list were read.
- **A failed creation takes the page away** (`directories_crash`).
  `StorageAccountsPage.js:115` says "Log and display the error message"; when
  `createFolder` comes back with undefined (no answer, or one that is not JSON), an
  exception object becomes the message (line 122), and React refuses to render it.

Met on the way, and not runs of their own:

- `Configuration.cs:41` says "Remove leading and trailing spaces from each item", and
  the trimmed strings are assigned to a lambda's parameter and lost (line 42). The
  subscription of an id after a comma and a blank is malformed, and accounts whose
  assignments are there are missing from every report without a trace; `LossIsLocal`
  excepts them, and shows that accounts elsewhere are not affected.
- `Configuration.cs:117` tests the subscriptions where it means the tag: a missing tag
  is never reported alone. `MissingAreNamed` shows that nothing else is hidden by it.
- A second copy within three seconds loses its mark to the first one's timer; hence
  `MarkStays` speaks of copies made with no other timer of the dialog running.
- `DirectoryDetails.js:70` opens `data.storageExplorerURI`, but rows of containers
  carry `storageExplorerDirectLink`; and it reads `data.access` and `data.metadata`,
  which rows of folders need not have: then the page is gone
  (`handleDetailsIncomplete`).
- A folder that was made although its creation was answered with only a message is
  missing from the table until its container is listed again; `TableIsExact` excepts it.
- `StorageAccountsPage.js:35` calls `getFileSystems()` without an account.
- `App.test.js` looks for a text that is not there; `Support.js` does not compile
  ("reutrn") and is used nowhere.

## What is not modelled

- `RoleOperations.Dispose`, which would set the static dictionary to null: nothing
  in the repository calls it.
- The read-back in `Items` under `DEBUG`, logging, the wording of messages, the
  order and casing of what is listed (friendly names are told apart up to casing),
  metadata, links and costs of containers.
- `AccessTokens`, `GetAccessToken` of the cache helper: no caller outside the tests.
- Folders that others create, change or delete while the directories page is open;
  the API has no endpoints for folders, so what the service does is taken from how
  the page uses it. The fund code, the owner and the order of folders are left out.
- The Roles endpoint, the caller's identity, the FileSystems endpoint
  (`FileSystemOperations.cs:31`: the container goes between `Exists` and
  `GetProperties`; `Roles.cs:50`: a token that cannot be cached) and the parsing of
  settings: planned.
- Static markup (Footer, Slider, Support, the text of the
  instructions), deployment scripts, workflows.
- Several hosts are not distinguished where only Redis is shared: a `HostRestart`
  of the cache model ends all calls, and fewer are ended by `Fails`.
