--------------------- MODULE ManagementCredentialsProofs ---------------------
(***************************************************************************)
(* For any number of threads and tokens: the lock and the second check     *)
(* under it keep the threads from fetching a token while the last one is   *)
(* good.  The invariant says what holds at every point between the check   *)
(* of the token and the publication of credentials made from it.           *)
(***************************************************************************)
EXTENDS ManagementCredentials, TLAPS

LEMMA InitIInv == Init => IInv
  BY CredentialsAssumption
     DEF Init, IInv, TypeOK, LockProtects, OneTokenAtATime, LastTokenPublished,
         Inside, Tokens, None

LEMMA StepIInv == IInv /\ [Next]_vars => IInv'
  <1> SUFFICES ASSUME IInv, [Next]_vars
               PROVE  IInv'
    OBVIOUS
  <1> USE CredentialsAssumption
      DEF IInv, TypeOK, LockProtects, OneTokenAtATime, LastTokenPublished,
          Inside, Tokens, None, Go
  <1>1. ASSUME NEW t \in Threads, NEW w \in {"client", "credentials"}, Ask(t, w)
        PROVE  IInv'
    BY <1>1 DEF Ask
  <1>2. ASSUME NEW t \in Threads, FindClient(t)
        PROVE  IInv'
    BY <1>2 DEF FindClient
  <1>3. ASSUME NEW t \in Threads, MissClient(t)
        PROVE  IInv'
    BY <1>3 DEF MissClient
  <1>4. ASSUME NEW t \in Threads, ReadCreds(t)
        PROVE  IInv'
    BY <1>4 DEF ReadCreds
  <1>5. ASSUME NEW t \in Threads, Enter(t)
        PROVE  IInv'
    BY <1>5 DEF Enter
  <1>6. ASSUME NEW t \in Threads, Check(t)
        PROVE  IInv'
    BY <1>6 DEF Check
  <1>7. ASSUME NEW t \in Threads, Fetch(t)
        PROVE  IInv'
    BY <1>7 DEF Fetch
  <1>8. ASSUME NEW t \in Threads, FetchFails(t)
        PROVE  IInv'
    BY <1>8 DEF FetchFails
  <1>9. ASSUME NEW t \in Threads, Publish(t)
        PROVE  IInv'
    <2>1. /\ pc[t] = "publish" /\ lock = t /\ token \in 1..MaxTokens
          /\ creds' = token /\ lock' = NoThread
          /\ UNCHANGED <<wants, hand, token, expired, client>>
      BY <1>9 DEF Publish
    <2>2. pc' = [pc EXCEPT ![t] = "return"]
      BY <1>9 DEF Publish
    <2>3. TypeOK'
      BY <2>1, <2>2
    <2>4. OneTokenAtATime' /\ LastTokenPublished'
      BY <2>1
    <2>5. \A u \in Threads : u # t => ~Inside(u)
      BY <2>1
    <2>6. LockProtects'
      BY <2>1, <2>2, <2>5
    <2> QED
      BY <2>3, <2>4, <2>6
  <1>10. ASSUME NEW t \in Threads, Return(t)
         PROVE  IInv'
    BY <1>10 DEF Return
  <1>11. ASSUME NEW t \in Threads, Build(t)
         PROVE  IInv'
    BY <1>11 DEF Build
  <1>12. ASSUME NEW t \in Threads, Leave(t)
         PROVE  IInv'
    BY <1>12 DEF Leave
  <1>13. CASE Expire
    BY <1>13 DEF Expire
  <1>14. CASE UNCHANGED vars
    BY <1>14 DEF vars
  <1>15. ASSUME NEW t \in Threads, ReturnClient(t)
         PROVE  IInv'
    BY <1>15 DEF ReturnClient
  <1> QED
    BY <1>1, <1>2, <1>3, <1>4, <1>5, <1>6, <1>7, <1>8, <1>9, <1>10, <1>11, <1>12,
       <1>13, <1>14, <1>15
       DEF Next, Step

THEOREM CredentialsInvariant == Spec => []IInv
  BY InitIInv, StepIInv, PTL DEF Spec

\* Credentials are well formed, and no getter hands over nothing.
THEOREM TypeCorrect == Spec => []TypeOK
  <1>1. IInv => TypeOK
    BY DEF IInv
  <1> QED
    BY <1>1, CredentialsInvariant, PTL

\* Any number of threads share one fetch for as long as its token lives.
THEOREM FetchesAreShared == Spec => []OneTokenAtATime
  <1>1. IInv => OneTokenAtATime
    BY DEF IInv
  <1> QED
    BY <1>1, CredentialsInvariant, PTL

\* Outside the lock, the credentials are those of the last token.
THEOREM LastTokenIsPublished == Spec => []LastTokenPublished
  <1>1. IInv => LastTokenPublished
    BY DEF IInv
  <1> QED
    BY <1>1, CredentialsInvariant, PTL
=============================================================================
