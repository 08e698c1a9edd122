-------------------------- MODULE BoundedStaleness --------------------------
(***************************************************************************)
(* What a caller of the read-through cache may rely on, with no cache in   *)
(* sight.  Somebody outside owns, for every key, a current value that may  *)
(* change at any time.  A request asks for a key and either is dropped (an *)
(* exception reached the caller), is told there is nothing, or is answered *)
(* with a value that was the current one less than TTL ticks before the    *)
(* answer.  CacheHelper is shown to implement this.                        *)
(***************************************************************************)
EXTENDS Integers

CONSTANTS
    Requests,   \* concurrent calls
    Keys,       \* what they ask for
    Values,     \* what the outside world may answer
    TTL,        \* lifetime of an answer, in ticks
    NoKey,      \* a request that asks nothing
    NoValue,    \* the answer "there is nothing" (null)
    Pending     \* not answered yet

VARIABLES
    source,     \* source[k]: the value of k in the outside world
    lapsed,     \* lapsed[k][v]: ticks since v was last the value of k, up to TTL
    asked,      \* asked[r]: the key request r asks for
    answer      \* answer[r]: what it was told

vars == <<source, lapsed, asked, answer>>

Init ==
    /\ source \in [Keys -> Values]
    /\ lapsed = [k \in Keys |-> [v \in Values |-> IF v = source[k] THEN 0 ELSE TTL]]
    /\ asked = [r \in Requests |-> NoKey]
    /\ answer = [r \in Requests |-> Pending]

Ask(r, k) ==
    /\ asked[r] = NoKey
    /\ asked' = [asked EXCEPT ![r] = k]
    /\ UNCHANGED <<source, lapsed, answer>>

Waiting(r) == asked[r] # NoKey /\ answer[r] = Pending

\* The heart of the contract: an answer is never older than TTL.
Answer(r, v) ==
    /\ Waiting(r)
    /\ lapsed[asked[r]][v] < TTL
    /\ answer' = [answer EXCEPT ![r] = v]
    /\ UNCHANGED <<source, lapsed, asked>>

AnswerNothing(r) ==
    /\ Waiting(r)
    /\ answer' = [answer EXCEPT ![r] = NoValue]
    /\ UNCHANGED <<source, lapsed, asked>>

\* Requests end: answered ones retire, waiting ones may be dropped, and a
\* restart of the host ends any number of them at once.
End(S) ==
    /\ asked' = [r \in Requests |-> IF r \in S THEN NoKey ELSE asked[r]]
    /\ answer' = [r \in Requests |-> IF r \in S THEN Pending ELSE answer[r]]
    /\ UNCHANGED <<source, lapsed>>

Change(k, v) ==
    /\ source' = [source EXCEPT ![k] = v]
    /\ lapsed' = [lapsed EXCEPT ![k][v] = 0]
    /\ UNCHANGED <<asked, answer>>

Tick ==
    /\ lapsed' = [k \in Keys |-> [v \in Values |->
                    IF v = source[k] THEN 0
                    ELSE IF lapsed[k][v] < TTL THEN lapsed[k][v] + 1 ELSE TTL]]
    /\ UNCHANGED <<source, asked, answer>>

Next ==
    \/ \E r \in Requests, k \in Keys : Ask(r, k)
    \/ \E r \in Requests, v \in Values : Answer(r, v)
    \/ \E r \in Requests : AnswerNothing(r)
    \/ \E S \in SUBSET Requests : End(S)
    \/ \E k \in Keys, v \in Values : Change(k, v)
    \/ Tick

Spec == Init /\ [][Next]_vars
=============================================================================
