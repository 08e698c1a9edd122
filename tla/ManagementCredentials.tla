------------------------ MODULE ManagementCredentials ------------------------
(***************************************************************************)
(* How the threads of one request come by a client for Azure's management  *)
(* API (Services/RoleOperations.cs, AuthMgtClient and TokenCredentials).   *)
(*                                                                         *)
(* One RoleOperations is shared by the workers of a Parallel.ForEach.  Its *)
(* client is made on first use without a lock; its credentials are checked *)
(* outside a lock and made inside it, where the token (not the             *)
(* credentials) is checked once more.  So several threads may make clients *)
(* and credentials, but they should not fetch several tokens.              *)
(*                                                                         *)
(* Tokens are numbered in the order they are fetched; a client and         *)
(* credentials are the number of the token they carry.                     *)
(***************************************************************************)
EXTENDS Naturals

CONSTANTS
    Threads,    \* threads that share the RoleOperations
    NoThread,   \* nobody holds tokenCredentialsLock
    MaxTokens   \* bound on the tokens fetched

ASSUME CredentialsAssumption == NoThread \notin Threads /\ MaxTokens \in Nat \ {0}

None == 0
Tokens == 1..MaxTokens

VARIABLES
    pc,         \* pc[t]: where thread t stands in the two getters
    wants,      \* wants[t]: the client, or only the credentials
    hand,       \* hand[t]: the token in what t was given, None so far
    lock,       \* who holds tokenCredentialsLock
    token,      \* _accessToken: the last token fetched
    expired,    \* how many of the tokens have expired
    creds,      \* _tokenCredentials
    client      \* _amClient

vars == <<pc, wants, hand, lock, token, expired, creds, client>>

TypeOK ==
    /\ pc \in [Threads -> {"idle", "readClient", "readCreds", "enter", "check", "fetch",
                           "publish", "return", "build", "returnClient", "done"}]
    /\ wants \in [Threads -> {"client", "credentials"}]
    /\ hand \in [Threads -> Tokens \cup {None}]
    /\ lock \in Threads \cup {NoThread}
    /\ {token, expired, creds, client} \subseteq Tokens \cup {None}
    /\ \A t \in Threads : pc[t] \in {"build", "done"} => hand[t] # None

Init ==
    /\ pc = [t \in Threads |-> "idle"]
    /\ wants = [t \in Threads |-> "client"]
    /\ hand = [t \in Threads |-> None]
    /\ lock = NoThread
    /\ token = None
    /\ expired = 0
    /\ creds = None
    /\ client = None

-----------------------------------------------------------------------------

Go(t, from, to) ==
    /\ pc[t] = from
    /\ pc' = [pc EXCEPT ![t] = to]

\* The workers want the client; the resource graph takes the credentials.
Ask(t, w) ==
    /\ Go(t, "idle", IF w = "client" THEN "readClient" ELSE "readCreds")
    /\ wants' = [wants EXCEPT ![t] = w]
    /\ UNCHANGED <<hand, lock, token, expired, creds, client>>

\* The client is there already.
FindClient(t) ==
    /\ client # None
    /\ Go(t, "readClient", "returnClient")
    /\ UNCHANGED <<wants, hand, lock, token, expired, creds, client>>

\* It is not, so this thread makes one, as others may be doing.
MissClient(t) ==
    /\ client = None
    /\ Go(t, "readClient", "readCreds")
    /\ UNCHANGED <<wants, hand, lock, token, expired, creds, client>>

\* Credentials found here are used whether or not their token has expired.
ReadCreds(t) ==
    /\ Go(t, "readCreds", IF creds = None THEN "enter" ELSE "return")
    /\ UNCHANGED <<wants, hand, lock, token, expired, creds, client>>

\* A mistake: the lock keeps nobody out.
EnterUnlocked(t) ==
    /\ Go(t, "enter", "check")
    /\ lock' = t
    /\ UNCHANGED <<wants, hand, token, expired, creds, client>>

Enter(t) ==
    /\ lock = NoThread
    /\ Go(t, "enter", "check")
    /\ lock' = t
    /\ UNCHANGED <<wants, hand, token, expired, creds, client>>

\* A token another thread fetched meanwhile is used, unless it has expired.
Check(t) ==
    /\ Go(t, "check", IF token = None \/ token = expired THEN "fetch" ELSE "publish")
    /\ UNCHANGED <<wants, hand, lock, token, expired, creds, client>>

Fetch(t) ==
    /\ Go(t, "fetch", "publish")
    /\ token' = token + 1
    /\ UNCHANGED <<wants, hand, lock, expired, creds, client>>

\* A mistake: an exception leaves the lock taken.
FetchFailsLocked(t) ==
    /\ Go(t, "fetch", "idle")
    /\ UNCHANGED <<wants, hand, lock, token, expired, creds, client>>

\* The exception leaves the lock and both getters.
FetchFails(t) ==
    /\ Go(t, "fetch", "idle")
    /\ lock' = NoThread
    /\ UNCHANGED <<wants, hand, token, expired, creds, client>>

\* A mistake: credentials made by another thread meanwhile are kept.
PublishFirst(t) ==
    /\ Go(t, "publish", "return")
    /\ creds' = IF creds = None THEN token ELSE creds
    /\ lock' = NoThread
    /\ UNCHANGED <<wants, hand, token, expired, client>>

\* New credentials for the token at hand, then out of the lock.
Publish(t) ==
    /\ Go(t, "publish", "return")
    /\ creds' = token
    /\ lock' = NoThread
    /\ UNCHANGED <<wants, hand, token, expired, client>>

\* A mistake: nothing is handed over.
ReturnNothing(t) ==
    /\ Go(t, "return", IF wants[t] = "client" THEN "build" ELSE "done")
    /\ UNCHANGED <<wants, hand, lock, token, expired, creds, client>>

\* What is returned is read once more, outside the lock.
Return(t) ==
    /\ Go(t, "return", IF wants[t] = "client" THEN "build" ELSE "done")
    /\ hand' = [hand EXCEPT ![t] = creds]
    /\ UNCHANGED <<wants, lock, token, expired, creds, client>>

\* A client of another thread is replaced by this one's.
Build(t) ==
    /\ Go(t, "build", "returnClient")
    /\ client' = hand[t]
    /\ UNCHANGED <<wants, hand, lock, token, expired, creds>>

\* The client, too, is read once more, and may be another thread's by now.
ReturnClient(t) ==
    /\ Go(t, "returnClient", "done")
    /\ hand' = [hand EXCEPT ![t] = client]
    /\ UNCHANGED <<wants, lock, token, expired, creds, client>>

Leave(t) ==
    /\ Go(t, "done", "idle")
    /\ hand' = [hand EXCEPT ![t] = None]
    /\ UNCHANGED <<wants, lock, token, expired, creds, client>>

\* The last token fetched expires; bounded, so that another can be fetched.
Expire ==
    /\ expired < token
    /\ token < MaxTokens
    /\ expired' = token
    /\ UNCHANGED <<pc, wants, hand, lock, token, creds, client>>

-----------------------------------------------------------------------------

Step(t) ==
    \/ FindClient(t) \/ MissClient(t) \/ ReadCreds(t)
    \/ Enter(t) \/ Check(t) \/ Fetch(t) \/ FetchFails(t) \/ Publish(t)
    \/ Return(t) \/ Build(t) \/ ReturnClient(t) \/ Leave(t)

Next ==
    \/ \E t \in Threads : Step(t) \/ \E w \in {"client", "credentials"} : Ask(t, w)
    \/ Expire

Spec == Init /\ [][Next]_vars

\* Threads that run keep running.  A request calls the getters finitely often,
\* so a thread that waits for the lock gets it in the end; in this model, where
\* the others may call for ever, strong fairness says so.
FairSpec == Spec /\ \A t \in Threads : WF_vars(Step(t)) /\ SF_vars(Enter(t))

-----------------------------------------------------------------------------
(* Properties. *)

\* RoleOperations.cs:271-276: however many threads ask at once, a new token is
\* fetched only after the one before it has expired.
OneTokenAtATime == token <= expired + 1

\* RoleOperations.cs:280: whenever the lock is free, the credentials that all
\* threads will find are those of the last token fetched.
LastTokenPublished == lock = NoThread => creds = token

\* A getter that was entered is left, with what was asked for or by an
\* exception: a failed fetch does not keep the lock from the others.
EveryCallEnds == \A t \in Threads : pc[t] # "idle" ~> pc[t] = "idle"

-----------------------------------------------------------------------------
(* Why. *)

Inside(t) == pc[t] \in {"check", "fetch", "publish"}

LockProtects ==
    /\ \A t \in Threads : Inside(t) <=> lock = t
    /\ \A t \in Threads : pc[t] \in {"check", "fetch"} => creds = token
    /\ \A t \in Threads : pc[t] = "fetch" => token = expired
    /\ \A t \in Threads : pc[t] = "publish" => token # None
    /\ \A t \in Threads : pc[t] = "return" => creds # None
    /\ \A t \in Threads : pc[t] = "returnClient" => client # None
    /\ expired <= token /\ expired < MaxTokens

IInv == TypeOK /\ LockProtects /\ OneTokenAtATime /\ LastTokenPublished
=============================================================================
