----------------------------- MODULE CacheHelper -----------------------------
(***************************************************************************)
(* The read-through cache of the API (Services/Cache.cs): CacheHelper.Items *)
(* over a Redis cache shared by every call of every host.                  *)
(*                                                                         *)
(* A call computes the moment its entry will expire when it ENTERS         *)
(* (Cache.cs:143), reads the cache, on a miss invokes the update method    *)
(* (slow: it asks Azure), then writes the cache with the expiry it         *)
(* computed at entry.  Between any two of these steps other calls run,     *)
(* time passes, entries expire and the outside world changes.              *)
(*                                                                         *)
(* Time is relative, so that it needs no bound: an entry carries its age   *)
(* (ticks since its value was read from the outside world) and the ticks   *)
(* it has left.  One hour is TTL ticks.                                    *)
(***************************************************************************)
EXTENDS Integers

CONSTANTS
    Requests,   \* concurrent calls of Items
    Keys,       \* cache keys, "{itemName}_{key}"
    Values,     \* what an update method may return, null apart
    TTL,        \* the one hour of Cache.cs:144, in ticks
    NoKey,      \* key of a call that is not running
    NoValue,    \* null
    NoEntry,    \* no entry in the cache
    Pending     \* no answer yet (only in the abstract view)

Entries == [val : Values, age : 0..TTL, left : 1..TTL]

ASSUME CacheAssumption ==
    /\ TTL \in Nat \ {0}
    /\ NoKey \notin Keys
    /\ NoValue \notin Values
    /\ NoEntry \notin Entries
    /\ Pending \notin Values \cup {NoValue}

VARIABLES
    source,     \* source[k]: what the update method for k would find now
    lapsed,     \* lapsed[k][v]: ticks since v was last the value of k, up to TTL
    store,      \* store[k]: the Redis entry of k
    pc,         \* pc[r]: where call r stands in Items
    key,        \* key[r]: nameKey
    left,       \* left[r]: ticks until the expiry computed at entry
    got,        \* got[r]: value in hand: from the update method, or returned
    age         \* age[r]: ticks since got[r] was read from the source

outside == <<source, lapsed>>
call == <<pc, key, left, got, age>>
vars == <<source, lapsed, store, pc, key, left, got, age>>

TypeOK ==
    /\ source \in [Keys -> Values]
    /\ lapsed \in [Keys -> [Values -> 0..TTL]]
    /\ store \in [Keys -> Entries \cup {NoEntry}]
    /\ pc \in [Requests -> {"idle", "get", "update", "set", "done"}]
    /\ key \in [Requests -> Keys \cup {NoKey}]
    /\ left \in [Requests -> 0..TTL]
    /\ got \in [Requests -> Values \cup {NoValue}]
    /\ age \in [Requests -> 0..TTL]
    /\ \A r \in Requests : key[r] = NoKey <=> pc[r] = "idle"
    /\ \A r \in Requests : pc[r] = "set" => got[r] \in Values

Init ==
    /\ source \in [Keys -> Values]
    /\ lapsed = [k \in Keys |-> [v \in Values |-> IF v = source[k] THEN 0 ELSE TTL]]
    /\ store = [k \in Keys |-> NoEntry]
    /\ pc = [r \in Requests |-> "idle"]
    /\ key = [r \in Requests |-> NoKey]
    /\ left = [r \in Requests |-> 0]
    /\ got = [r \in Requests |-> NoValue]
    /\ age = [r \in Requests |-> 0]

-----------------------------------------------------------------------------
(* One call of Items. *)

\* Enter: the expiry is fixed here, before the cache is even read.
Call(r, k) ==
    /\ pc[r] = "idle"
    /\ pc' = [pc EXCEPT ![r] = "get"]
    /\ key' = [key EXCEPT ![r] = k]
    /\ left' = [left EXCEPT ![r] = TTL]
    /\ UNCHANGED <<source, lapsed, store, got, age>>

\* Items returns v to its caller.
Return(r, v) ==
    /\ pc' = [pc EXCEPT ![r] = "done"]
    /\ got' = [got EXCEPT ![r] = v]
    /\ left' = [left EXCEPT ![r] = 0]
    /\ age' = [age EXCEPT ![r] = 0]
    /\ UNCHANGED key

\* The calls of S are over: the caller consumed the answer, or an exception
\* left Items.
Leave(S) ==
    /\ pc' = [r \in Requests |-> IF r \in S THEN "idle" ELSE pc[r]]
    /\ key' = [r \in Requests |-> IF r \in S THEN NoKey ELSE key[r]]
    /\ got' = [r \in Requests |-> IF r \in S THEN NoValue ELSE got[r]]
    /\ left' = [r \in Requests |-> IF r \in S THEN 0 ELSE left[r]]
    /\ age' = [r \in Requests |-> IF r \in S THEN 0 ELSE age[r]]

\* A mistake: a hit renews the entry, as a sliding expiration would.
GetHitRenewing(r) ==
    /\ pc[r] = "get"
    /\ store[key[r]] # NoEntry
    /\ Return(r, store[key[r]].val)
    /\ store' = [store EXCEPT ![key[r]].left = TTL, ![key[r]].age = 0]
    /\ UNCHANGED outside

GetHit(r) ==
    /\ pc[r] = "get"
    /\ store[key[r]] # NoEntry
    /\ Return(r, store[key[r]].val)
    /\ UNCHANGED <<outside, store>>

GetMiss(r) ==
    /\ pc[r] = "get"
    /\ store[key[r]] = NoEntry
    /\ pc' = [pc EXCEPT ![r] = "update"]
    /\ UNCHANGED <<source, lapsed, store, key, left, got, age>>

\* The update method reads the outside world; it returns at some later moment.
Update(r) ==
    /\ pc[r] = "update"
    /\ pc' = [pc EXCEPT ![r] = "set"]
    /\ got' = [got EXCEPT ![r] = source[key[r]]]
    /\ UNCHANGED <<source, lapsed, store, key, left, age>>

\* A mistake: null is written to the cache like any other value.
UpdateNullCached(r) ==
    /\ pc[r] = "update"
    /\ pc' = [pc EXCEPT ![r] = "set"]
    /\ got' = [got EXCEPT ![r] = NoValue]
    /\ UNCHANGED <<source, lapsed, store, key, left, age>>

\* The update method returns null, which is returned and never cached.
UpdateNull(r) ==
    /\ pc[r] = "update"
    /\ Return(r, NoValue)
    /\ UNCHANGED <<outside, store>>

\* A mistake: the expiry is computed when the cache is written.
WrittenFullHour(r) ==
    [store EXCEPT ![key[r]] = [val |-> got[r], age |-> age[r], left |-> TTL]]

\* What the write leaves in Redis: the value with the expiry of its call.
Written(r) ==
    [store EXCEPT ![key[r]] = [val |-> got[r], age |-> age[r], left |-> left[r]]]

\* A mistake: an expiry already past is rounded up instead of refused.
SetRoundingUp(r) ==
    /\ pc[r] = "set"
    /\ store' = [store EXCEPT ![key[r]] =
                    [val |-> got[r], age |-> age[r], left |-> IF left[r] > 0 THEN left[r] ELSE 1]]
    /\ Return(r, got[r])
    /\ UNCHANGED outside

Set(r) ==
    /\ pc[r] = "set"
    /\ left[r] > 0
    /\ store' = Written(r)
    /\ Return(r, got[r])
    /\ UNCHANGED outside

\* Redis times out although the write was applied: no answer, but an entry.
SetReplyLost(r) ==
    /\ pc[r] = "set"
    /\ left[r] > 0
    /\ store' = Written(r)
    /\ Leave({r})
    /\ UNCHANGED outside

\* An exception leaves Items and the cache is as it was: Redis could not be
\* reached for the read or the write, the update method threw, or the expiry
\* computed at entry is already past and the Redis client refuses it.
Fails(r) ==
    /\ pc[r] \in {"get", "update", "set"}
    /\ Leave({r})
    /\ UNCHANGED <<outside, store>>

Finish(r) ==
    /\ pc[r] = "done"
    /\ Leave({r})
    /\ UNCHANGED <<outside, store>>

\* The function host is recycled: every running call dies, Redis stays.
HostRestart ==
    /\ \E r \in Requests : pc[r] # "idle"
    /\ Leave(Requests)
    /\ UNCHANGED <<outside, store>>

-----------------------------------------------------------------------------
(* The outside world, Redis and the clock. *)

Change(k, v) ==
    /\ v # source[k]
    /\ source' = [source EXCEPT ![k] = v]
    /\ lapsed' = [lapsed EXCEPT ![k][v] = 0]
    /\ UNCHANGED <<store, call>>

\* Redis may evict an entry at any moment.
Evict(k) ==
    /\ store[k] # NoEntry
    /\ store' = [store EXCEPT ![k] = NoEntry]
    /\ UNCHANGED <<outside, call>>

Older(n) == IF n < TTL THEN n + 1 ELSE TTL
Sooner(n) == IF n > 0 THEN n - 1 ELSE 0

Aged(e) ==
    IF e = NoEntry \/ e.left = 1 THEN NoEntry
    ELSE [val |-> e.val, age |-> e.age + 1, left |-> e.left - 1]

Tick ==
    /\ lapsed' = [k \in Keys |-> [v \in Values |->
                    IF v = source[k] THEN 0 ELSE Older(lapsed[k][v])]]
    /\ store' = [k \in Keys |-> Aged(store[k])]
    /\ left' = [r \in Requests |-> Sooner(left[r])]
    /\ age' = [r \in Requests |-> IF pc[r] = "set" THEN Older(age[r]) ELSE age[r]]
    /\ UNCHANGED <<source, pc, key, got>>

-----------------------------------------------------------------------------

Next ==
    \/ \E r \in Requests, k \in Keys : Call(r, k)
    \/ \E r \in Requests :
          \/ GetHit(r) \/ GetMiss(r)
          \/ Update(r) \/ UpdateNull(r)
          \/ Set(r) \/ SetReplyLost(r)
          \/ Fails(r) \/ Finish(r)
    \/ HostRestart
    \/ \E k \in Keys, v \in Values : Change(k, v)
    \/ \E k \in Keys : Evict(k)
    \/ Tick

Spec == Init /\ [][Next]_vars

\* Time never stops; nothing else is assumed.
TickingSpec == Spec /\ WF_vars(Tick)

-----------------------------------------------------------------------------
(* Properties. *)

\* No cache entry holds a value that stopped being current TTL or more ticks
\* ago, whatever the order in which slow calls wrote it: Cache.cs:144 fixes
\* the expiry before the value is computed.
NoStaleEntry ==
    \A k \in Keys : store[k] # NoEntry => lapsed[k][store[k].val] < TTL

\* Neither does a call about to write hold one it could still write.
NoStaleWrite ==
    \A r \in Requests :
        pc[r] = "set" /\ left[r] > 0 => lapsed[key[r]][got[r]] < TTL

\* Why: the age of a value and the lifetime it still has never add up to more
\* than TTL, and a value was current no longer ago than its age.
Budget ==
    /\ \A k \in Keys : lapsed[k][source[k]] = 0
    /\ \A k \in Keys : store[k] # NoEntry =>
          /\ store[k].age + store[k].left <= TTL
          /\ lapsed[k][store[k].val] <= store[k].age
    /\ \A r \in Requests : pc[r] = "set" =>
          /\ age[r] + left[r] <= TTL
          /\ lapsed[key[r]][got[r]] <= age[r]
    /\ \A r \in Requests : pc[r] \in {"idle", "get", "update"} => age[r] = 0

IInv == TypeOK /\ Budget

\* The contract of BoundedStaleness: every answer was current less than TTL
\* ticks before it was given.
Abs == INSTANCE BoundedStaleness WITH
            asked <- key,
            answer <- [r \in Requests |-> IF pc[r] = "done" THEN got[r] ELSE Pending]

ImplementsBoundedStaleness == Abs!Spec

\* If the outside world settles on a value, the cache ends up with nothing
\* else for good, although slow calls may still write older values over it.
Converges ==
    \A k \in Keys, v \in Values :
        <>[](source[k] = v) => <>[](store[k] = NoEntry \/ store[k].val = v)
=============================================================================
