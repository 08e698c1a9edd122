-------------------------- MODULE CacheHelperProofs --------------------------
(***************************************************************************)
(* For every number of calls, keys, values and every lifetime: the cache   *)
(* of CacheHelper is well typed, holds no entry older than its lifetime,   *)
(* gives no answer older than that, and holds nothing but the current      *)
(* value of a key whose value has not changed for that long.               *)
(***************************************************************************)
EXTENDS CacheHelper, TLAPS

\* Three facts about the clock.
LEMMA OlderFacts ==
    ASSUME NEW n \in 0..TTL
    PROVE  Older(n) \in 0..TTL /\ Older(n) <= n + 1
  BY CacheAssumption, SMT DEF Older

LEMMA SoonerFacts ==
    ASSUME NEW n \in 0..TTL
    PROVE  /\ Sooner(n) \in 0..TTL
           /\ n > 0 => Sooner(n) = n - 1
           /\ n = 0 => Sooner(n) = 0
  BY CacheAssumption, SMT DEF Sooner

LEMMA AgedFacts ==
    ASSUME NEW e \in Entries \cup {NoEntry},
           e # NoEntry => e.age + e.left <= TTL
    PROVE  /\ Aged(e) \in Entries \cup {NoEntry}
           /\ Aged(e) # NoEntry =>
                 /\ e # NoEntry
                 /\ Aged(e).val = e.val
                 /\ Aged(e).age = e.age + 1
                 /\ Aged(e).left = e.left - 1
  <1>1. CASE e = NoEntry
    BY <1>1 DEF Aged
  <1>2. CASE e # NoEntry /\ e.left = 1
    BY <1>2 DEF Aged
  <1>3. CASE e # NoEntry /\ e.left # 1
    <2>1. e \in Entries /\ e.age \in 0..TTL /\ e.left \in 2..TTL /\ e.val \in Values
      BY <1>3, CacheAssumption DEF Entries
    <2>2. e.age + 1 \in 0..TTL /\ e.left - 1 \in 1..TTL
      BY <2>1, <1>3, CacheAssumption
    <2>3. Aged(e) = [val |-> e.val, age |-> e.age + 1, left |-> e.left - 1]
      BY <1>3 DEF Aged
    <2> QED
      BY <1>3, <2>1, <2>2, <2>3 DEF Entries
  <1> QED
    BY <1>1, <1>2, <1>3

LEMMA InitIInv == Init => IInv
  BY CacheAssumption DEF Init, IInv, TypeOK, Budget

\* One step of the cache keeps the types and the budget.
LEMMA StepIInv == IInv /\ [Next]_vars => IInv'
  <1> SUFFICES ASSUME IInv, [Next]_vars
               PROVE  IInv'
    OBVIOUS
  <1> USE CacheAssumption DEF IInv, TypeOK, Budget
  <1>1. ASSUME NEW r \in Requests, NEW k \in Keys, Call(r, k)
        PROVE  IInv'
    BY <1>1 DEF Call
  <1>2. ASSUME NEW r \in Requests, GetHit(r)
        PROVE  IInv'
    <2>1. store[key[r]] \in Entries /\ store[key[r]].val \in Values
      BY <1>2 DEF GetHit, Entries
    <2> QED
      BY <1>2, <2>1 DEF GetHit, Return, outside
  <1>3. ASSUME NEW r \in Requests, GetMiss(r)
        PROVE  IInv'
    BY <1>3 DEF GetMiss
  <1>4. ASSUME NEW r \in Requests, Update(r)
        PROVE  IInv'
    BY <1>4 DEF Update
  <1>5. ASSUME NEW r \in Requests, UpdateNull(r)
        PROVE  IInv'
    BY <1>5 DEF UpdateNull, Return, outside
  <1>6. ASSUME NEW r \in Requests, Set(r)
        PROVE  IInv'
    BY <1>6 DEF Set, Return, Written, Entries, outside
  <1>7. ASSUME NEW r \in Requests, SetReplyLost(r)
        PROVE  IInv'
    BY <1>7 DEF SetReplyLost, Leave, Written, Entries, outside
  <1>8. ASSUME NEW r \in Requests, Fails(r)
        PROVE  IInv'
    BY <1>8 DEF Fails, Leave, outside
  <1>9. ASSUME NEW r \in Requests, Finish(r)
        PROVE  IInv'
    BY <1>9 DEF Finish, Leave, outside
  <1>10. CASE HostRestart
    BY <1>10 DEF HostRestart, Leave, outside
  <1>11. ASSUME NEW k \in Keys, NEW v \in Values, Change(k, v)
         PROVE  IInv'
    BY <1>11 DEF Change, call, Entries
  <1>12. ASSUME NEW k \in Keys, Evict(k)
         PROVE  IInv'
    BY <1>12 DEF Evict, outside, call
  <1>13. CASE Tick
    <2>1. UNCHANGED <<source, pc, key, got>>
      BY <1>13 DEF Tick
    <2>2. \A k \in Keys, v \in Values :
             /\ lapsed'[k][v] \in 0..TTL
             /\ lapsed'[k][v] <= lapsed[k][v] + 1
             /\ v = source[k] => lapsed'[k][v] = 0
      BY <1>13, OlderFacts DEF Tick
    <2>3. lapsed' \in [Keys -> [Values -> 0..TTL]]
      BY <1>13, OlderFacts DEF Tick
    <2>4. \A k \in Keys :
             /\ store'[k] \in Entries \cup {NoEntry}
             /\ store'[k] # NoEntry =>
                   /\ store[k] # NoEntry
                   /\ store'[k].val = store[k].val
                   /\ store'[k].age = store[k].age + 1
                   /\ store'[k].left = store[k].left - 1
      BY <1>13, AgedFacts DEF Tick
    <2>5. store' \in [Keys -> Entries \cup {NoEntry}]
      BY <1>13, <2>4 DEF Tick
    <2>6. \A r \in Requests :
             /\ left'[r] \in 0..TTL
             /\ left[r] > 0 => left'[r] = left[r] - 1
             /\ left[r] = 0 => left'[r] = 0
      BY <1>13, SoonerFacts DEF Tick
    <2>7. \A r \in Requests :
             /\ age'[r] \in 0..TTL
             /\ age'[r] <= age[r] + 1
             /\ pc[r] # "set" => age'[r] = age[r]
      BY <1>13, OlderFacts DEF Tick
    <2>8. left' \in [Requests -> 0..TTL] /\ age' \in [Requests -> 0..TTL]
      BY <1>13, <2>6, <2>7 DEF Tick
    <2>9. TypeOK'
      BY <2>1, <2>3, <2>5, <2>8
    <2>10. ASSUME NEW k \in Keys, store'[k] # NoEntry
           PROVE  /\ store'[k].age + store'[k].left <= TTL
                  /\ lapsed'[k][store'[k].val] <= store'[k].age
      <3>1. store[k] \in Entries
        BY <2>4, <2>10
      <3>2. store[k].val \in Values /\ store[k].age \in Int /\ store[k].left \in Int
        BY <3>1 DEF Entries
      <3>3. lapsed[k][store[k].val] \in Int /\ lapsed'[k][store[k].val] \in Int
        BY <3>2, <2>2
      <3> QED
        BY <2>2, <2>4, <2>10, <3>2, <3>3
    <2>11. ASSUME NEW r \in Requests, pc'[r] = "set"
           PROVE  /\ age'[r] + left'[r] <= TTL
                  /\ lapsed'[key'[r]][got'[r]] <= age'[r]
      <3>1. key[r] \in Keys /\ got[r] \in Values /\ pc[r] = "set"
        BY <2>1, <2>11
      <3>2. age'[r] = IF age[r] < TTL THEN age[r] + 1 ELSE TTL
        BY <1>13, <3>1 DEF Tick, Older
      <3>3. age[r] \in 0..TTL /\ left[r] \in 0..TTL /\ age[r] + left[r] <= TTL
        BY <3>1
      <3>4. /\ lapsed[key[r]][got[r]] \in 0..TTL
            /\ lapsed[key[r]][got[r]] <= age[r]
            /\ lapsed'[key[r]][got[r]] \in 0..TTL
            /\ lapsed'[key[r]][got[r]] <= lapsed[key[r]][got[r]] + 1
        BY <2>2, <3>1
      <3>5. key' = key /\ got' = got
        BY <2>1
      <3> QED
        BY <2>6, <3>2, <3>3, <3>4, <3>5
    <2>12. \A k \in Keys : lapsed'[k][source'[k]] = 0
      BY <2>1, <2>2
    <2>13. \A r \in Requests : pc'[r] \in {"idle", "get", "update"} => age'[r] = 0
      BY <2>1, <2>7
    <2> QED
      BY <2>9, <2>10, <2>11, <2>12, <2>13
  <1>14. CASE UNCHANGED vars
    BY <1>14 DEF vars
  <1> QED
    BY <1>1, <1>2, <1>3, <1>4, <1>5, <1>6, <1>7, <1>8, <1>9, <1>10, <1>11,
       <1>12, <1>13, <1>14 DEF Next

\* Spec keeps the strengthened invariant: types and budget together.
THEOREM BudgetKept == Spec => []IInv
  BY InitIInv, StepIInv, PTL DEF Spec

\* Every state of the cache is well typed.
THEOREM TypeCorrect == Spec => []TypeOK
  <1>1. IInv => TypeOK
    BY DEF IInv
  <1> QED
    BY <1>1, BudgetKept, PTL

\* An entry's age is below its lifetime, because it has at least one tick left.
LEMMA BudgetSuffices == IInv => NoStaleEntry /\ NoStaleWrite
  <1> SUFFICES ASSUME IInv
               PROVE  NoStaleEntry /\ NoStaleWrite
    OBVIOUS
  <1> USE CacheAssumption DEF IInv, TypeOK, Budget
  <1>1. ASSUME NEW k \in Keys, store[k] # NoEntry
        PROVE  lapsed[k][store[k].val] < TTL
    <2>1. store[k] \in Entries
      BY <1>1
    <2>2. /\ store[k].val \in Values
          /\ store[k].age \in 0..TTL
          /\ store[k].left \in 1..TTL
      BY <2>1 DEF Entries
    <2>3. lapsed[k][store[k].val] \in 0..TTL
      BY <2>2
    <2> QED
      BY <1>1, <2>2, <2>3
  <1>2. ASSUME NEW r \in Requests, pc[r] = "set", left[r] > 0
        PROVE  lapsed[key[r]][got[r]] < TTL
    <2>1. key[r] \in Keys /\ got[r] \in Values
      BY <1>2
    <2>2. lapsed[key[r]][got[r]] \in 0..TTL /\ age[r] \in 0..TTL /\ left[r] \in 1..TTL
      BY <1>2, <2>1
    <2> QED
      BY <1>2, <2>2
  <1> QED
    BY <1>1, <1>2 DEF NoStaleEntry, NoStaleWrite

\* No cache entry outlives the currency of its value by TTL ticks.
THEOREM CacheNeverStale == Spec => []NoStaleEntry
  <1>1. IInv => NoStaleEntry
    BY BudgetSuffices
  <1> QED
    BY <1>1, BudgetKept, PTL

-----------------------------------------------------------------------------
(* Why the cache converges: what Converges needs besides a clock that ticks. *)

\* For TTL ticks the value of k has been the one it is.
Settled(k) == \A v \in Values : v # source[k] => lapsed[k][v] = TTL

\* Nothing but the current value of k is in the cache, or can still be written.
OnlyCurrent(k) ==
    /\ store[k] # NoEntry => store[k].val = source[k]
    /\ \A r \in Requests : pc[r] = "set" /\ key[r] = k /\ left[r] > 0 => got[r] = source[k]

SettledIsAll == \A k \in Keys : Settled(k) => OnlyCurrent(k)

LEMMA SettledFacts == IInv => SettledIsAll
  <1> SUFFICES ASSUME IInv, NEW k \in Keys, Settled(k)
               PROVE  OnlyCurrent(k)
    BY DEF SettledIsAll
  <1>0. NoStaleEntry /\ NoStaleWrite /\ TypeOK
    BY BudgetSuffices DEF IInv
  <1>1. \A v \in Values : lapsed[k][v] < TTL => v = source[k]
    BY CacheAssumption DEF Settled
  <1>2. ASSUME store[k] # NoEntry
        PROVE  store[k].val = source[k]
    <2>1. store[k].val \in Values
      BY <1>0, <1>2 DEF TypeOK, Entries
    <2> QED
      BY <1>0, <1>1, <1>2, <2>1 DEF NoStaleEntry
  <1>3. ASSUME NEW r \in Requests, pc[r] = "set", key[r] = k, left[r] > 0
        PROVE  got[r] = source[k]
    BY <1>0, <1>1, <1>3 DEF TypeOK, NoStaleWrite
  <1> QED
    BY <1>2, <1>3 DEF OnlyCurrent

\* An hour after its last change the value of a key is the only one left: in the
\* cache, and in the hands of every call that could still write, however slow.
THEOREM SettledAfterHour == Spec => []SettledIsAll
  BY SettledFacts, BudgetKept, PTL

\* And it stays so until the value changes: no other step undoes it.
THEOREM SettledStays ==
    Spec => [][\A k \in Keys : Settled(k) /\ source'[k] = source[k] =>
                    Settled(k)' /\ OnlyCurrent(k)']_vars
  <1>1. IInv /\ [Next]_vars => \A k \in Keys : Settled(k) /\ source'[k] = source[k] => Settled(k)'
    <2> SUFFICES ASSUME IInv, [Next]_vars, NEW k \in Keys, Settled(k), source'[k] = source[k],
                        NEW v \in Values, v # source'[k]
                 PROVE  lapsed'[k][v] = TTL
      BY DEF Settled
    <2>1. lapsed[k][v] = TTL
      BY DEF Settled
    <2>2. UNCHANGED lapsed => lapsed'[k][v] = TTL
      BY <2>1
    <2>3. CASE Tick
      BY <2>1, <2>3, CacheAssumption DEF Tick, Older
    <2>4. ASSUME NEW k0 \in Keys, NEW w \in Values, Change(k0, w)
          PROVE  lapsed'[k][v] = TTL
      BY <2>1, <2>4 DEF Change, IInv, TypeOK
    <2>5. CASE \/ \E r \in Requests, k0 \in Keys : Call(r, k0)
               \/ \E r \in Requests :
                    \/ GetHit(r) \/ GetMiss(r) \/ Update(r) \/ UpdateNull(r)
                    \/ Set(r) \/ SetReplyLost(r) \/ Fails(r) \/ Finish(r)
               \/ HostRestart
               \/ \E k0 \in Keys : Evict(k0)
               \/ UNCHANGED vars
      <3>1. UNCHANGED lapsed
        BY <2>5 DEF Call, GetHit, GetMiss, Update, UpdateNull, Set, SetReplyLost, Fails, Finish,
                    HostRestart, Evict, vars, outside
      <3> QED
        BY <2>2, <3>1
    <2> QED
      BY <2>3, <2>4, <2>5 DEF Next
  <1>2. IInv' => SettledIsAll'
    BY SettledFacts, PTL
  <1>3. IInv /\ [Next]_vars =>
            [\A k \in Keys : Settled(k) /\ source'[k] = source[k] =>
                Settled(k)' /\ OnlyCurrent(k)']_vars
    BY <1>1, <1>2, StepIInv DEF SettledIsAll
  <1> QED
    BY <1>3, BudgetKept, PTL DEF Spec

-----------------------------------------------------------------------------
(* The cache implements the contract of BoundedStaleness. *)

Shown == [r \in Requests |-> IF pc[r] = "done" THEN got[r] ELSE Pending]

LEMMA InitRefines == Init => Abs!Init
  BY DEF Init, Abs!Init

\* Calls that leave Items, whatever the reason, end in the abstract view.
LEMMA LeaveRefines ==
    ASSUME TypeOK, NEW S \in SUBSET Requests, Leave(S), UNCHANGED outside
    PROVE  Abs!End(S)
  <1>1. key' = [r \in Requests |-> IF r \in S THEN NoKey ELSE key[r]]
    BY DEF Leave
  <1>2. Shown' = [r \in Requests |-> IF r \in S THEN Pending ELSE Shown[r]]
    BY DEF Leave, Shown
  <1> QED
    BY <1>1, <1>2 DEF Abs!End, Shown, outside

\* A call that returns v is answered v, or told there is nothing.
LEMMA ReturnRefines ==
    ASSUME TypeOK, NEW r \in Requests, NEW v, Return(r, v),
           pc[r] \in {"get", "update", "set"}
    PROVE  /\ Abs!Waiting(r)
           /\ Shown' = [Shown EXCEPT ![r] = v]
           /\ key' = key
  <1>1. key[r] # NoKey /\ key' = key
    BY CacheAssumption DEF TypeOK, Return
  <1>2. Shown[r] = Pending
    BY DEF Shown
  <1>3. Shown' = [Shown EXCEPT ![r] = v]
    BY DEF TypeOK, Return, Shown
  <1> QED
    BY <1>1, <1>2, <1>3 DEF Abs!Waiting, Shown

LEMMA StepRefines == IInv /\ [Next]_vars => [Abs!Next]_(Abs!vars)
  <1> SUFFICES ASSUME IInv, [Next]_vars
               PROVE  Abs!Next \/ UNCHANGED <<source, lapsed, key, Shown>>
    BY DEF Abs!vars, Shown
  <1>t. TypeOK /\ NoStaleEntry /\ NoStaleWrite
    BY BudgetSuffices DEF IInv
  <1>1. ASSUME NEW r \in Requests, NEW k \in Keys, Call(r, k)
        PROVE  Abs!Next
    <2>1. key[r] = NoKey
      BY <1>1, <1>t DEF Call, TypeOK
    <2>2. Shown' = Shown
      BY <1>1, <1>t DEF Call, TypeOK, Shown
    <2>3. Abs!Ask(r, k)
      BY <1>1, <2>1, <2>2 DEF Call, Abs!Ask, Shown
    <2> QED
      BY <2>3 DEF Abs!Next
  <1>2. ASSUME NEW r \in Requests, GetHit(r)
        PROVE  Abs!Next
    <2>1. key[r] \in Keys
      BY <1>2, <1>t DEF GetHit, TypeOK
    <2>2. store[key[r]].val \in Values
      BY <1>2, <1>t, <2>1 DEF GetHit, TypeOK, Entries
    <2>3. lapsed[key[r]][store[key[r]].val] < TTL
      BY <1>2, <1>t, <2>1 DEF GetHit, NoStaleEntry
    <2>4. \E v \in Values : Abs!Answer(r, v)
      BY <1>2, <1>t, <2>2, <2>3, ReturnRefines DEF GetHit, Abs!Answer, Shown, outside
    <2> QED
      BY <2>4 DEF Abs!Next
  <1>3. ASSUME NEW r \in Requests, GetMiss(r)
        PROVE  UNCHANGED <<source, lapsed, key, Shown>>
    BY <1>3, <1>t DEF GetMiss, Shown, TypeOK
  <1>4. ASSUME NEW r \in Requests, Update(r)
        PROVE  UNCHANGED <<source, lapsed, key, Shown>>
    BY <1>4, <1>t DEF Update, Shown, TypeOK
  <1>5. ASSUME NEW r \in Requests, UpdateNull(r)
        PROVE  Abs!Next
    <2>1. Abs!AnswerNothing(r)
      BY <1>5, <1>t, ReturnRefines DEF UpdateNull, Abs!AnswerNothing, Shown, outside
    <2> QED
      BY <2>1 DEF Abs!Next
  <1>6. ASSUME NEW r \in Requests, Set(r)
        PROVE  Abs!Next
    <2>1. got[r] \in Values
      BY <1>6, <1>t DEF Set, TypeOK
    <2>2. lapsed[key[r]][got[r]] < TTL
      BY <1>6, <1>t DEF Set, NoStaleWrite
    <2>3. \E v \in Values : Abs!Answer(r, v)
      BY <1>6, <1>t, <2>1, <2>2, ReturnRefines DEF Set, Abs!Answer, Shown, outside
    <2> QED
      BY <2>3 DEF Abs!Next
  <1>7. ASSUME NEW r \in Requests, SetReplyLost(r) \/ Fails(r) \/ Finish(r)
        PROVE  Abs!Next
    <2>1. Leave({r}) /\ UNCHANGED outside
      BY <1>7 DEF SetReplyLost, Fails, Finish, outside
    <2>2. Abs!End({r})
      BY <1>t, <2>1, LeaveRefines
    <2> QED
      BY <2>2 DEF Abs!Next
  <1>8. CASE HostRestart
    <2>1. Abs!End(Requests)
      BY <1>8, <1>t, LeaveRefines DEF HostRestart, outside
    <2> QED
      BY <2>1 DEF Abs!Next
  <1>9. ASSUME NEW k \in Keys, NEW v \in Values, Change(k, v)
        PROVE  Abs!Next
    <2>1. Abs!Change(k, v)
      BY <1>9 DEF Change, call, Abs!Change
    <2> QED
      BY <2>1 DEF Abs!Next
  <1>10. ASSUME NEW k \in Keys, Evict(k)
         PROVE  UNCHANGED <<source, lapsed, key, Shown>>
    BY <1>10 DEF Evict, outside, call, Shown
  <1>11. CASE Tick
    <2>1. Abs!Tick
      BY <1>11 DEF Tick, Older, Abs!Tick
    <2> QED
      BY <2>1 DEF Abs!Next
  <1>12. CASE UNCHANGED vars
    BY <1>12 DEF vars, Shown
  <1> QED
    BY <1>1, <1>2, <1>3, <1>4, <1>5, <1>6, <1>7, <1>8, <1>9, <1>10, <1>11,
       <1>12 DEF Next

\* Whatever the calls, their order and their failures, no answer is older
\* than the lifetime of an entry.
THEOREM AnswersNeverStale == Spec => ImplementsBoundedStaleness
  <1>1. Spec => Abs!Init
    BY InitRefines, PTL DEF Spec
  <1>2. Spec => [][Abs!Next]_(Abs!vars)
    BY BudgetKept, StepRefines, PTL DEF Spec
  <1> QED
    BY <1>1, <1>2, PTL DEF ImplementsBoundedStaleness, Abs!Spec
=============================================================================
