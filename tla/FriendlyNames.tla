----------------------------- MODULE FriendlyNames -----------------------------
(***************************************************************************)
(* Under which name a storage account is shown: the value of a tag in      *)
(* Azure, kept in one Redis entry for all accounts and all users           *)
(* (Services/RoleOperations.cs 108-146 and 177-179, Services/Cache.cs).    *)
(*                                                                         *)
(* A request reads the entry, looks up each account it meets, asks Azure   *)
(* for those that are not there, and writes its list back whole, over      *)
(* whatever another request wrote meanwhile and without an expiry.  The    *)
(* list has no setter (Data/StorageAccountProperties.cs:8), so what is     *)
(* read back is always an empty one.                                       *)
(*                                                                         *)
(* Names are told apart up to the casing that StorageAccount.FriendlyName  *)
(* gives them.                                                             *)
(***************************************************************************)
CONSTANTS
    Requests,
    Accounts,
    Names,          \* values of the tag
    AccountName,    \* shown for want of one: the name of the account itself
    NotListed,      \* the account is not in a list
    NoEntry         \* no entry in Redis

Shown == Names \cup {AccountName}
Lists == [Accounts -> Shown \cup {NotListed}]

ASSUME NamesAssumption ==
    /\ AccountName \notin Names
    /\ NotListed \notin Shown
    /\ NoEntry \notin Lists

VARIABLES
    tag,        \* tag[a]: the value of the tag of a now; AccountName if it has none
    entry,      \* the Redis entry
    pc,         \* pc[r]: where request r stands
    todo,       \* todo[r]: accounts it has still to meet
    props,      \* props[r]: storageAccountProperties
    rows,       \* rows[r]: names of the accounts met so far
    seen,       \* seen[r][a]: values the tag of a had since r started
    had         \* had[r]: accounts in the entry when r read it
\* No action reads seen and had.

vars == <<tag, entry, pc, todo, props, rows, seen, had>>

Nothing == [a \in Accounts |-> NotListed]
Listed(l) == {a \in Accounts : l[a] # NotListed}

TypeOK ==
    /\ tag \in [Accounts -> Shown]
    /\ entry \in Lists \cup {NoEntry}
    /\ pc \in [Requests -> {"idle", "read", "meet"}]
    /\ todo \in [Requests -> SUBSET Accounts]
    /\ props \in [Requests -> Lists]
    /\ rows \in [Requests -> Lists]
    /\ seen \in [Requests -> [Accounts -> SUBSET Shown]]
    /\ had \in [Requests -> SUBSET Accounts]

Init ==
    /\ tag \in [Accounts -> Shown]
    /\ entry = NoEntry
    /\ pc = [r \in Requests |-> "idle"]
    /\ todo = [r \in Requests |-> {}]
    /\ props = [r \in Requests |-> Nothing]
    /\ rows = [r \in Requests |-> Nothing]
    /\ seen = [r \in Requests |-> [a \in Accounts |-> {}]]
    /\ had = [r \in Requests |-> {}]

-----------------------------------------------------------------------------

\* The role assignments of r name the accounts of S, in any order.
Start(r, S) ==
    /\ pc[r] = "idle"
    /\ pc' = [pc EXCEPT ![r] = "read"]
    /\ todo' = [todo EXCEPT ![r] = S]
    /\ seen' = [seen EXCEPT ![r] = [a \in Accounts |-> {tag[a]}]]
    /\ UNCHANGED <<tag, entry, props, rows, had>>

\* The list in the entry, or a new one.
Read(r, list) ==
    /\ pc[r] = "read"
    /\ pc' = [pc EXCEPT ![r] = "meet"]
    /\ props' = [props EXCEPT ![r] = list]
    /\ had' = [had EXCEPT ![r] = IF entry = NoEntry THEN {} ELSE Listed(entry)]
    /\ UNCHANGED <<tag, entry, todo, rows, seen>>

\* A mistake: the list could be set.
ReadListKept(r) == Read(r, IF entry = NoEntry THEN Nothing ELSE entry)

\* A mistake: no list is made when there is no entry.
ReadListNull(r) == Read(r, IF entry = NoEntry THEN NoEntry ELSE Nothing)

\* Nothing of the entry finds its way into the list.
ReadList(r) == Read(r, Nothing)

Clear(r) ==
    /\ pc' = [pc EXCEPT ![r] = "idle"]
    /\ todo' = [todo EXCEPT ![r] = {}]
    /\ props' = [props EXCEPT ![r] = Nothing]
    /\ rows' = [rows EXCEPT ![r] = Nothing]
    /\ seen' = [seen EXCEPT ![r] = [a \in Accounts |-> {}]]
    /\ had' = [had EXCEPT ![r] = {}]

\* Redis cannot be reached: the request ends with an exception.
ReadFails(r) ==
    /\ pc[r] = "read"
    /\ Clear(r)
    /\ UNCHANGED <<tag, entry>>

\* r meets account a and shows it as name; a new name goes into the list.
Meet(r, a, name) ==
    /\ pc[r] = "meet"
    /\ a \in todo[r]
    /\ todo' = [todo EXCEPT ![r] = @ \ {a}]
    /\ rows' = [rows EXCEPT ![r][a] = name]
    /\ props' = [props EXCEPT ![r][a] = name]
    /\ UNCHANGED <<tag, entry, pc, seen, had>>

\* An account that is in the list is shown as the list has it, another one by
\* the tag it has now.
MeetAccount(r, a) ==
    Meet(r, a, IF props[r][a] # NotListed THEN props[r][a] ELSE tag[a])

\* A mistake: the name of an account Azure was not asked about successfully is
\* not put into the list.
MeetAccountUntoldUnsaved(r, a) ==
    /\ pc[r] = "meet"
    /\ a \in todo[r] /\ props[r][a] = NotListed
    /\ todo' = [todo EXCEPT ![r] = @ \ {a}]
    /\ rows' = [rows EXCEPT ![r][a] = AccountName]
    /\ UNCHANGED <<tag, entry, pc, props, seen, had>>

\* Azure does not know the account or cannot be asked: that too is a name, and
\* it is saved like any other.
MeetAccountUntold(r, a) ==
    /\ props[r][a] = NotListed
    /\ Meet(r, a, AccountName)

\* Azure knows the account but sends no tags with it: looking up the tag throws,
\* and the request ends.
MeetAccountThrows(r, a) ==
    /\ pc[r] = "meet"
    /\ a \in todo[r]
    /\ props[r][a] = NotListed
    /\ Clear(r)
    /\ UNCHANGED <<tag, entry>>

\* Every account is met: the list replaces the entry, and the rows are returned.
Save(r) ==
    /\ pc[r] = "meet"
    /\ todo[r] = {}
    /\ entry' = props[r]
    /\ Clear(r)
    /\ UNCHANGED tag

\* The list cannot be written, which is logged and forgotten.
SaveFails(r) ==
    /\ pc[r] = "meet"
    /\ todo[r] = {}
    /\ Clear(r)
    /\ UNCHANGED <<tag, entry>>

-----------------------------------------------------------------------------
(* The outside world. *)

Retag(a, name) ==
    /\ name # tag[a]
    /\ tag' = [tag EXCEPT ![a] = name]
    /\ seen' = [r \in Requests |->
                  IF pc[r] = "idle" THEN seen[r]
                  ELSE [seen[r] EXCEPT ![a] = @ \cup {name}]]
    /\ UNCHANGED <<entry, pc, todo, props, rows, had>>

Evict ==
    /\ entry # NoEntry
    /\ entry' = NoEntry
    /\ UNCHANGED <<tag, pc, todo, props, rows, seen, had>>

Next ==
    \/ \E r \in Requests :
          \/ \E S \in SUBSET Accounts : Start(r, S)
          \/ ReadList(r) \/ ReadFails(r)
          \/ \E a \in Accounts :
                MeetAccount(r, a) \/ MeetAccountUntold(r, a) \/ MeetAccountThrows(r, a)
          \/ Save(r) \/ SaveFails(r)
    \/ \E a \in Accounts, name \in Shown : Retag(a, name)
    \/ Evict

Spec == Init /\ [][Next]_vars

-----------------------------------------------------------------------------
(* Properties. *)

\* A name that is shown was the tag's value while the request ran, or is the
\* account's own: the entry, which never expires, cannot bring back a name
\* that was changed before.
NamesAreFresh ==
    \A r \in Requests, a \in Accounts :
        rows[r][a] # NotListed => rows[r][a] \in seen[r][a] \cup {AccountName}

\* The entry always is the list of one single request, with the names that
\* request shows and no account it did not meet: lists are never mixed, so a
\* request that saves last takes the others' accounts out of it.
SavedListIsOneRequests ==
    [][entry' \notin {entry, NoEntry} =>
          \E r \in Requests : pc[r] = "meet" /\ todo[r] = {} /\ entry' = rows[r]]_vars

\* RoleOperations.cs:108 "Get the existing storage account properties from the
\* cache.": the list a request works from has every account the entry had.
CachedListIsUsed ==
    \A r \in Requests : pc[r] = "meet" => had[r] \subseteq Listed(props[r])

-----------------------------------------------------------------------------
(* Why the names are fresh: the list holds what the rows hold. *)

ListIsRows ==
    \A r \in Requests :
        /\ props[r] = rows[r]
        /\ pc[r] # "idle" => \A a \in Accounts : tag[a] \in seen[r][a]
        /\ pc[r] \in {"idle", "read"} => rows[r] = Nothing
        /\ \A a \in todo[r] : rows[r][a] = NotListed

IInv == TypeOK /\ ListIsRows /\ NamesAreFresh
=============================================================================
