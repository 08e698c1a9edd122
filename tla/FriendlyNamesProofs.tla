-------------------------- MODULE FriendlyNamesProofs --------------------------
(***************************************************************************)
(* For any requests, accounts and names: no name older than the request    *)
(* that shows it, and no entry mixed from several requests.                *)
(***************************************************************************)
EXTENDS FriendlyNames, TLAPS

LEMMA NothingIsList == Nothing \in Lists
  BY DEF Nothing, Lists

LEMMA InitIInv == Init => IInv
  BY NothingIsList DEF Init, IInv, TypeOK, ListIsRows, NamesAreFresh, Nothing, Lists

\* What a request is left with when it is over.
LEMMA ClearFacts ==
    ASSUME IInv, NEW r \in Requests, Clear(r), UNCHANGED tag,
           entry' \in Lists \cup {NoEntry}
    PROVE  IInv'
  <1>1. TypeOK'
    BY NothingIsList DEF IInv, TypeOK, Clear
  <1>2. ListIsRows'
    BY DEF IInv, TypeOK, ListIsRows, Clear
  <1>3. NamesAreFresh'
    BY DEF IInv, TypeOK, NamesAreFresh, Clear, Nothing
  <1> QED
    BY <1>1, <1>2, <1>3 DEF IInv

\* Meeting an account is the same for every name that the tag has, had since
\* the request started, or stands for none.
LEMMA MeetFacts ==
    ASSUME IInv, NEW r \in Requests, NEW a \in Accounts,
           NEW name \in seen[r][a] \cup {AccountName}, Meet(r, a, name)
    PROVE  IInv'
  <1>1. name \in Shown
    BY DEF IInv, TypeOK, Shown
  <1>2. TypeOK'
    BY <1>1 DEF IInv, TypeOK, Meet, Lists
  <1>3. ListIsRows'
    BY DEF IInv, TypeOK, ListIsRows, Meet, Lists
  <1>4. NamesAreFresh'
    BY DEF IInv, TypeOK, NamesAreFresh, Meet, Lists
  <1> QED
    BY <1>2, <1>3, <1>4 DEF IInv

LEMMA StepIInv == IInv /\ [Next]_vars => IInv'
  <1> SUFFICES ASSUME IInv, [Next]_vars
               PROVE  IInv'
    OBVIOUS
  <1>1. ASSUME NEW r \in Requests, NEW S \in SUBSET Accounts, Start(r, S)
        PROVE  IInv'
    <2>1. TypeOK'
      BY <1>1 DEF IInv, TypeOK, Start
    <2>2. ListIsRows'
      BY <1>1 DEF IInv, TypeOK, ListIsRows, Start, Nothing
    <2>3. NamesAreFresh'
      BY <1>1 DEF IInv, TypeOK, ListIsRows, NamesAreFresh, Start, Nothing
    <2> QED
      BY <2>1, <2>2, <2>3 DEF IInv
  <1>2. ASSUME NEW r \in Requests, ReadList(r)
        PROVE  IInv'
    <2>1. TypeOK'
      BY <1>2, NothingIsList DEF IInv, TypeOK, ReadList, Read, Listed
    <2>2. ListIsRows'
      BY <1>2 DEF IInv, TypeOK, ListIsRows, ReadList, Read
    <2>3. NamesAreFresh'
      BY <1>2 DEF IInv, TypeOK, NamesAreFresh, ReadList, Read
    <2> QED
      BY <2>1, <2>2, <2>3 DEF IInv
  <1>3. ASSUME NEW r \in Requests, ReadFails(r)
        PROVE  IInv'
    BY <1>3, ClearFacts DEF ReadFails, IInv, TypeOK
  <1>4. ASSUME NEW r \in Requests, NEW a \in Accounts, MeetAccount(r, a)
        PROVE  IInv'
    <2>1. props[r][a] = NotListed
      BY <1>4 DEF MeetAccount, Meet, IInv, ListIsRows
    <2>2. tag[a] \in seen[r][a]
      BY <1>4 DEF MeetAccount, Meet, IInv, ListIsRows
    <2>3. Meet(r, a, tag[a])
      BY <1>4, <2>1 DEF MeetAccount
    <2> QED
      BY <2>2, <2>3, MeetFacts
  <1>5. ASSUME NEW r \in Requests, NEW a \in Accounts, MeetAccountUntold(r, a)
        PROVE  IInv'
    BY <1>5, MeetFacts DEF MeetAccountUntold
  <1>t. ASSUME NEW r \in Requests, NEW a \in Accounts, MeetAccountThrows(r, a)
        PROVE  IInv'
    BY <1>t, ClearFacts DEF MeetAccountThrows, IInv, TypeOK
  <1>6. ASSUME NEW r \in Requests, Save(r)
        PROVE  IInv'
    BY <1>6, ClearFacts DEF Save, IInv, TypeOK
  <1>7. ASSUME NEW r \in Requests, SaveFails(r)
        PROVE  IInv'
    BY <1>7, ClearFacts DEF SaveFails, IInv, TypeOK
  <1>8. ASSUME NEW a \in Accounts, NEW name \in Shown, Retag(a, name)
        PROVE  IInv'
    <2>1. TypeOK'
      BY <1>8 DEF IInv, TypeOK, Retag
    <2>2. ListIsRows'
      BY <1>8 DEF IInv, TypeOK, ListIsRows, Retag
    <2>3. NamesAreFresh'
      BY <1>8 DEF IInv, TypeOK, NamesAreFresh, Retag
    <2> QED
      BY <2>1, <2>2, <2>3 DEF IInv
  <1>9. CASE Evict
    BY <1>9 DEF Evict, IInv, TypeOK, ListIsRows, NamesAreFresh
  <1>10. CASE UNCHANGED vars
    BY <1>10 DEF vars, IInv, TypeOK, ListIsRows, NamesAreFresh
  <1> QED
    BY <1>1, <1>2, <1>3, <1>4, <1>5, <1>t, <1>6, <1>7, <1>8, <1>9, <1>10 DEF Next

THEOREM NamesInvariant == Spec => []IInv
  BY InitIInv, StepIInv, PTL DEF Spec

\* Requests, lists and the entry are well formed.
THEOREM TypeCorrect == Spec => []TypeOK
  <1>1. IInv => TypeOK
    BY DEF IInv
  <1> QED
    BY <1>1, NamesInvariant, PTL

\* No request shows a name that the tag did not have while it ran.
THEOREM NamesNeverOlder == Spec => []NamesAreFresh
  <1>1. IInv => NamesAreFresh
    BY DEF IInv
  <1> QED
    BY <1>1, NamesInvariant, PTL

\* Every list written to the cache is the one its request shows.
THEOREM SavedLists == Spec => SavedListIsOneRequests
  <1> DEFINE Saved == entry' \notin {entry, NoEntry} =>
          \E r \in Requests : pc[r] = "meet" /\ todo[r] = {} /\ entry' = rows[r]
  <1>1. ASSUME IInv, [Next]_vars
        PROVE  [Saved]_vars
    <2>1. ASSUME NEW r \in Requests, Save(r)
          PROVE  Saved
      BY <1>1, <2>1 DEF Save, IInv, ListIsRows
    <2>2. ASSUME entry' # entry, entry' # NoEntry
          PROVE  \E r \in Requests : Save(r)
      BY <1>1, <2>2
         DEF Next, vars, Start, ReadList, Read, ReadFails, MeetAccount, MeetAccountUntold,
             Meet, MeetAccountThrows, SaveFails, Retag, Evict
    <2> QED
      BY <2>1, <2>2
  <1> QED
    BY <1>1, NamesInvariant, PTL DEF Spec, SavedListIsOneRequests
=============================================================================
