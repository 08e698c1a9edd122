------------------------- MODULE RoleOperationsProofs -------------------------
(***************************************************************************)
(* For every set of requests, subscriptions, accounts and assignments: the *)
(* report of GetAccessibleContainersForPrincipal does not depend on the    *)
(* order of the bag, never shows more than was granted, and lacks nothing  *)
(* but what could not be read or listed.                                   *)
(***************************************************************************)
EXTENDS RoleOperations, TLAPS

-----------------------------------------------------------------------------
(* How the row of an account changes when one more assignment is merged. *)

LEMMA RowOther ==
    ASSUME NEW S, NEW d, NEW g, NEW a, g.account # a
    PROVE  Abs!Row(S \cup {g}, d, a) = Abs!Row(S, d, a)
  <1>1. {h \in S \cup {g} : h.account = a} = {h \in S : h.account = a}
    OBVIOUS
  <1> QED
    BY <1>1 DEF Abs!Row

LEMMA RowOtherDark ==
    ASSUME NEW S, NEW d, NEW a, NEW b, a # b
    PROVE  Abs!Row(S, d \cup {b}, a) = Abs!Row(S, d, a)
  BY DEF Abs!Row

Mine(S, a) == {g \in S : g.account = a}
All(S, a) == \E g \in Mine(S, a) : g.container = Whole
Full(S, d, a) ==
    [containers |-> IF ~All(S, a) THEN {g.container : g \in Mine(S, a)}
                    ELSE IF a \in d THEN {} ELSE Existing[a],
     all |-> All(S, a)]

\* An account has a row exactly if an assignment of it was merged.
LEMMA RowCases ==
    ASSUME NEW S \in SUBSET Grants, NEW d, NEW a \in Accounts
    PROVE  /\ Mine(S, a) = {} => Abs!Row(S, d, a) = NoRow
           /\ Mine(S, a) # {} =>
                 /\ Abs!Row(S, d, a) = Full(S, d, a)
                 /\ Abs!Row(S, d, a) \in Rows
                 /\ Abs!Row(S, d, a) # NoRow
  <1>1. Mine(S, a) = {} => Abs!Row(S, d, a) = NoRow
    BY DEF Abs!Row, Mine
  <1>2. ASSUME Mine(S, a) # {}
        PROVE  Abs!Row(S, d, a) = Full(S, d, a)
    BY <1>2 DEF Abs!Row, Mine, All, Full
  <1>3. {g.container : g \in Mine(S, a)} \in SUBSET Containers
    <2>1. \A g \in Mine(S, a) : g \in Grants
      BY DEF Mine
    <2>2. \A g \in Grants : g.container \in Containers
      BY DEF Containers
    <2> QED
      BY <2>1, <2>2
  <1>4. Existing[a] \in SUBSET Containers
    BY DEF Containers
  <1>5. All(S, a) \in BOOLEAN
    BY DEF All
  <1>6. Full(S, d, a) \in Rows
    BY <1>3, <1>4, <1>5 DEF Full, Rows
  <1> QED
    BY <1>1, <1>2, <1>6, RoleAssumption

\* The row a merge starts from, and what one container makes of it.
Begun(row) == IF row = NoRow THEN [containers |-> {}, all |-> FALSE] ELSE row
With(row, c) ==
    IF row.all THEN row
    ELSE [containers |-> row.containers \cup {c}, all |-> FALSE]

LEMMA RowContainer ==
    ASSUME NEW S \in SUBSET Grants, NEW d, NEW g \in Grants,
           g.account \in Accounts, g.container # Whole
    PROVE  Abs!Row(S \cup {g}, d, g.account) =
              With(Begun(Abs!Row(S, d, g.account)), g.container)
  <1> DEFINE a == g.account
             T == S \cup {g}
             row == Begun(Abs!Row(S, d, a))
  <1>0. row = IF Abs!Row(S, d, a) = NoRow
              THEN [containers |-> {}, all |-> FALSE]
              ELSE Abs!Row(S, d, a)
    BY DEF Begun
  <1> HIDE DEF row
  <1>1. T \in SUBSET Grants /\ Mine(T, a) = Mine(S, a) \cup {g}
    BY DEF Mine
  <1>2. Abs!Row(T, d, a) = Full(T, d, a)
    BY <1>1, RowCases
  <1>3. All(T, a) = All(S, a) /\ All(S, a) \in BOOLEAN
    BY <1>1 DEF All
  <1>4. {h.container : h \in Mine(T, a)} =
            {h.container : h \in Mine(S, a)} \cup {g.container}
    BY <1>1
  <1>5. ASSUME Mine(S, a) = {}
        PROVE  Abs!Row(T, d, a) = With(row, g.container)
    <2>1. row = [containers |-> {}, all |-> FALSE]
      BY <1>0, <1>5, RowCases
    <2>2. All(S, a) = FALSE
      BY <1>3, <1>5 DEF All
    <2>3. {h.container : h \in Mine(T, a)} = {g.container}
      BY <1>4, <1>5
    <2>4. Full(T, d, a) = [containers |-> {g.container}, all |-> FALSE]
      BY <1>3, <2>2, <2>3 DEF Full
    <2>5. row.containers \cup {g.container} = {g.container}
      BY <2>1
    <2>6. row.all = FALSE
      BY <2>1
    <2> QED
      BY <1>2, <2>4, <2>5, <2>6 DEF With
  <1>6. ASSUME Mine(S, a) # {}, All(S, a)
        PROVE  Abs!Row(T, d, a) = With(row, g.container)
    <2>1. row = Full(S, d, a)
      BY <1>0, <1>6, RowCases
    <2>2. Full(T, d, a) = Full(S, d, a) /\ Full(S, d, a).all
      BY <1>3, <1>6 DEF Full
    <2> QED
      BY <1>2, <2>1, <2>2 DEF With
  <1>7. ASSUME Mine(S, a) # {}, ~All(S, a)
        PROVE  Abs!Row(T, d, a) = With(row, g.container)
    <2> DEFINE was == {h.container : h \in Mine(S, a)}
               now == {h.container : h \in Mine(T, a)}
    <2>1. All(S, a) = FALSE
      BY <1>3, <1>7
    <2>2. row = Full(S, d, a)
      BY <1>0, <1>7, RowCases
    <2>3. Full(S, d, a) = [containers |-> was, all |-> FALSE]
      BY <2>1 DEF Full
    <2>4. Full(T, d, a) = [containers |-> now, all |-> FALSE]
      BY <1>3, <2>1 DEF Full
    <2>5. now = was \cup {g.container}
      BY <1>4
    <2> HIDE DEF was, now
    <2>6. row = [containers |-> was, all |-> FALSE]
      BY <2>2, <2>3
    <2>7. row.all = FALSE
      BY <2>6
    <2>8. row.containers = was
      BY <2>6
    <2> QED
      BY <1>2, <2>4, <2>5, <2>7, <2>8 DEF With
  <1> QED
    BY <1>5, <1>6, <1>7 DEF row

LEMMA RowAccount ==
    ASSUME NEW S \in SUBSET Grants, NEW d, NEW g \in Grants,
           g.account \in Accounts, g.container = Whole
    PROVE  Abs!Row(S \cup {g}, d, g.account) =
              [containers |-> IF g.account \in d THEN {} ELSE Existing[g.account],
               all |-> TRUE]
  <1> DEFINE a == g.account
             T == S \cup {g}
  <1>1. T \in SUBSET Grants /\ Mine(T, a) = Mine(S, a) \cup {g}
    BY DEF Mine
  <1>2. All(T, a)
    BY <1>1 DEF All
  <1>3. Abs!Row(T, d, a) = Full(T, d, a)
    BY <1>1, RowCases
  <1> QED
    BY <1>2, <1>3 DEF Full

\* A row that has all its containers stays as it is when one more assignment
\* on the whole account is merged.
LEMMA RowAgain ==
    ASSUME NEW S \in SUBSET Grants, NEW d, NEW g \in Grants,
           g.account \in Accounts, g.container = Whole,
           Abs!Row(S, d, g.account) # NoRow, Abs!Row(S, d, g.account).all
    PROVE  Abs!Row(S \cup {g}, d, g.account) = Abs!Row(S, d, g.account)
  <1>1. Abs!Row(S, d, g.account) = Full(S, d, g.account)
    BY RowCases
  <1>2. All(S, g.account)
    BY <1>1 DEF Full
  <1> QED
    BY <1>1, <1>2, RowAccount DEF Full

LEMMA ReportType ==
    ASSUME NEW S \in SUBSET Grants, NEW d
    PROVE  Abs!Report(S, d) \in [Accounts -> Rows \cup {NoRow}]
  BY RowCases DEF Abs!Report

-----------------------------------------------------------------------------
(* The merge, one assignment at a time. *)

\* Merging g turns the report of S into the report of S with g.
LEMMA MergeExtends ==
    ASSUME NEW r \in Requests, NEW g \in Grants, Merge(r, g), TypeOK,
           NEW S \in SUBSET Grants,
           results[r] = Abs!Report(S, dark[r]),
           \A a \in dark[r] : results[r][a] # NoRow /\ results[r][a].all
    PROVE  /\ results'[r] = Abs!Report(S \cup {g}, dark'[r])
           /\ \A a \in dark'[r] : results'[r][a] # NoRow /\ results'[r][a].all
           /\ dark'[r] \in SUBSET Accounts
  <1> DEFINE b == g.account
             T == S \cup {g}
  <1>1. \A a \in Accounts : results[r][a] = Abs!Row(S, dark[r], a)
    BY DEF Abs!Report
  <1>2. dark[r] \in SUBSET Accounts /\ results[r] \in [Accounts -> Rows \cup {NoRow}]
    BY DEF TypeOK
  <1>3. b \in Accounts \cup {NoAccount}
    BY RoleAssumption
  <1>4. \A a \in Accounts \ {b} :
           Abs!Row(T, dark[r], a) = Abs!Row(S, dark[r], a)
    BY RowOther
  <1>5. ASSUME results' = [results EXCEPT ![r][b] = Abs!Row(T, dark[r], b)],
               b \in Accounts, dark'[r] = dark[r],
               b \in dark[r] => Abs!Row(T, dark[r], b) # NoRow /\ Abs!Row(T, dark[r], b).all
        PROVE  /\ results'[r] = Abs!Report(T, dark'[r])
               /\ \A a \in dark'[r] : results'[r][a] # NoRow /\ results'[r][a].all
    <2>1. \A a \in Accounts : results'[r][a] = Abs!Row(T, dark[r], a)
      BY <1>1, <1>2, <1>4, <1>5 DEF TypeOK
    <2>2. results'[r] = [a \in Accounts |-> Abs!Row(T, dark[r], a)]
      BY <1>2, <1>5, <2>1 DEF TypeOK
    <2>3. \A a \in dark[r] : results'[r][a] # NoRow /\ results'[r][a].all
      BY <1>1, <1>2, <1>4, <1>5, <2>1
    <2> QED
      BY <1>5, <2>2, <2>3 DEF Abs!Report
  <1>6. ASSUME UNCHANGED <<results, dark>>,
               \A a \in Accounts : Abs!Row(T, dark[r], a) = Abs!Row(S, dark[r], a)
        PROVE  /\ results'[r] = Abs!Report(T, dark'[r])
               /\ \A a \in dark'[r] : results'[r][a] # NoRow /\ results'[r][a].all
    BY <1>6 DEF Abs!Report
  <1>7. CASE SkipHigher(r, g)
    <2>1. \A a \in Accounts : a # b
      BY <1>7, RoleAssumption DEF SkipHigher
    <2> QED
      BY <1>2, <1>4, <1>6, <1>7, <2>1 DEF SkipHigher
  <1>8. CASE MergeContainer(r, g)
    <2>1. b \in Accounts /\ g.container # Whole /\ dark' = dark
      BY <1>3, <1>8 DEF MergeContainer
    <2>2. RowOf(r, b) = Begun(Abs!Row(S, dark[r], b))
      BY <1>1, <2>1 DEF RowOf, Begun
    <2>3. Abs!Row(T, dark[r], b) =
             With(RowOf(r, b), g.container)
      BY <2>1, <2>2, RowContainer
    <2>4. results' = [results EXCEPT ![r][b] = Abs!Row(T, dark[r], b)]
      BY <1>8, <2>3 DEF MergeContainer, With
    <2>5. b \in dark[r] => Abs!Row(T, dark[r], b) = results[r][b]
      BY <2>3 DEF RowOf, With
    <2> QED
      BY <1>2, <1>5, <2>1, <2>4, <2>5
  <1>9. CASE MergeAccount(r, g)
    <2>1. b \in Accounts /\ g.container = Whole /\ ~RowOf(r, b).all
      BY <1>3, <1>9 DEF MergeAccount
    <2>2. b \notin dark[r]
      BY <2>1 DEF RowOf
    <2>3. CASE /\ results' = [results EXCEPT ![r][b] =
                                 [containers |-> Existing[b], all |-> TRUE]]
               /\ UNCHANGED dark
      <3>1. Abs!Row(T, dark[r], b) = [containers |-> Existing[b], all |-> TRUE]
        BY <2>1, <2>2, RowAccount
      <3> QED
        BY <1>2, <1>5, <2>1, <2>2, <2>3, <3>1
    <2>4. CASE /\ results' = [results EXCEPT ![r][b] =
                                 [containers |-> {}, all |-> TRUE]]
               /\ dark' = [dark EXCEPT ![r] = @ \cup {b}]
      <3>1. dark'[r] = dark[r] \cup {b}
        BY <2>4 DEF TypeOK
      <3>2. Abs!Row(T, dark'[r], b) = [containers |-> {}, all |-> TRUE]
        BY <2>1, <3>1, RowAccount
      <3>3. ASSUME NEW a \in Accounts \ {b}
            PROVE  Abs!Row(T, dark'[r], a) = Abs!Row(S, dark[r], a)
        <4>1. Abs!Row(T, dark[r] \cup {b}, a) = Abs!Row(T, dark[r], a)
          BY RowOtherDark
        <4> QED
          BY <1>4, <3>1, <4>1
      <3>4. \A a \in Accounts : results'[r][a] = Abs!Row(T, dark'[r], a)
        BY <1>1, <1>2, <2>1, <2>4, <3>2, <3>3 DEF TypeOK
      <3>5. results'[r] = [a \in Accounts |-> Abs!Row(T, dark'[r], a)]
        BY <1>2, <2>4, <3>4 DEF TypeOK
      <3>6. Abs!Row(T, dark'[r], b) # NoRow /\ Abs!Row(T, dark'[r], b).all
        <4>1. [containers |-> {}, all |-> TRUE] \in Rows
          BY DEF Rows
        <4> QED
          BY <3>2, <4>1, RoleAssumption
      <3>7. ASSUME NEW a \in dark'[r]
            PROVE  results'[r][a] # NoRow /\ results'[r][a].all
        <4>1. CASE a = b
          BY <2>1, <3>4, <3>6, <4>1
        <4>2. CASE a # b
          <5>1. a \in dark[r] /\ a \in Accounts
            BY <1>2, <3>1, <4>2
          <5>2. results'[r][a] = results[r][a]
            BY <1>1, <3>3, <3>4, <4>2, <5>1
          <5> QED
            BY <5>1, <5>2
        <4> QED
          BY <4>1, <4>2
      <3> QED
        BY <1>2, <2>1, <3>1, <3>5, <3>7 DEF Abs!Report
    <2> QED
      BY <1>9, <2>3, <2>4 DEF MergeAccount
  <1>10. CASE MergeAccountAgain(r, g)
    <2>1. b \in Accounts /\ g.container = Whole /\ RowOf(r, b).all
      BY <1>3, <1>10 DEF MergeAccountAgain
    <2>2. results[r][b] # NoRow /\ results[r][b].all
      BY <2>1 DEF RowOf
    <2>3. Abs!Row(T, dark[r], b) = Abs!Row(S, dark[r], b)
      BY <1>1, <2>1, <2>2, RowAgain
    <2> QED
      BY <1>2, <1>4, <1>6, <1>10, <2>3 DEF MergeAccountAgain
  <1> QED
    BY <1>7, <1>8, <1>9, <1>10 DEF Merge

-----------------------------------------------------------------------------
(* The invariant. *)

\* A request that does not move keeps its part of the invariant.
LEMMA Frame ==
    ASSUME NEW r \in Requests, SoFar(r), UNCHANGED granted,
           pc'[r] = pc[r], worker'[r] = worker[r], bag'[r] = bag[r],
           todo'[r] = todo[r], results'[r] = results[r],
           missed'[r] = missed[r], dark'[r] = dark[r]
    PROVE  SoFar(r)'
  <1>1. Abs!Visible(missed[r])' = Abs!Visible(missed[r])
    BY DEF Abs!Visible
  <1> QED
    BY <1>1 DEF SoFar

LEMMA EmptyReport == \A d : Abs!Report({}, d) = NoRows
  BY DEF Abs!Report, Abs!Row, NoRows

LEMMA InitIInv == Init => IInv
  <1> SUFFICES ASSUME Init
               PROVE  IInv
    OBVIOUS
  <1>1. TypeOK
    BY RoleAssumption DEF Init, TypeOK, NoRows, AllWaiting
  <1>2. ASSUME NEW r \in Requests
        PROVE  SoFar(r)
    <2>1. bag[r] = {g \in Abs!Visible(missed[r]) : worker[r][g.sub] = "done"}
      <3>1. \A g \in Abs!Visible(missed[r]) : worker[r][g.sub] # "done"
        BY RoleAssumption DEF Init, AllWaiting, Abs!Visible
      <3> QED
        BY <3>1 DEF Init
    <2> QED
      BY <2>1, EmptyReport, RoleAssumption DEF Init, SoFar, AllWaiting
  <1> QED
    BY <1>1, <1>2 DEF IInv, MergedSoFar

\* A request that starts, fails or is over is as new.
LEMMA ClearKeeps ==
    ASSUME IInv, NEW r \in Requests, NEW p \in {"idle", "reading"}, Clear(r, p)
    PROVE  IInv'
  <1>1. TypeOK'
    BY DEF IInv, TypeOK, Clear, NoRows, AllWaiting
  <1>2. ASSUME NEW q \in Requests, q # r
        PROVE  SoFar(q)'
    BY <1>2, Frame DEF IInv, MergedSoFar, TypeOK, Clear
  <1>3. SoFar(r)'
    <2>1. /\ pc'[r] = p /\ worker'[r] = AllWaiting /\ bag'[r] = {} /\ todo'[r] = {}
          /\ results'[r] = NoRows /\ missed'[r] = {} /\ dark'[r] = {}
          /\ granted' = granted
      BY DEF IInv, TypeOK, Clear
    <2>2. granted \subseteq Grants
      BY DEF IInv, TypeOK
    <2>3. \A g \in Abs!Visible(missed[r])' : worker'[r][g.sub] # "done"
      BY <2>1, <2>2, RoleAssumption DEF AllWaiting, Abs!Visible
    <2>4. bag'[r] = {g \in Abs!Visible(missed[r])' : worker'[r][g.sub] = "done"}
      BY <2>1, <2>3
    <2>5. results'[r] = Abs!Report({}, dark'[r])
      BY <2>1, EmptyReport
    <2> QED
      BY <2>1, <2>4, <2>5, RoleAssumption DEF SoFar, AllWaiting
  <1> QED
    BY <1>1, <1>2, <1>3 DEF IInv, MergedSoFar

\* Worker s of request r moves on from one place to another that is not "done".
LEMMA WorkerMoves ==
    ASSUME IInv, NEW r \in Requests, NEW s \in Subscriptions,
           NEW to \in {"list", "assign", "threw"},
           pc[r] = "reading", worker[r][s] # "done", to = "list" => s \notin Malformed,
           worker' = [worker EXCEPT ![r][s] = to],
           UNCHANGED <<granted, pc, todo, results, dark, bag, missed>>
    PROVE  /\ worker' \in [Requests -> [Subscriptions ->
                        {"waiting", "list", "assign", "done", "threw"}]]
           /\ MergedSoFar'
  <1>1. \A q \in Requests, t \in Subscriptions :
           worker'[q][t] = IF q = r /\ t = s THEN to ELSE worker[q][t]
    BY DEF IInv, TypeOK
  <1>2. worker' \in [Requests -> [Subscriptions ->
                        {"waiting", "list", "assign", "done", "threw"}]]
    BY DEF IInv, TypeOK
  <1>3. ASSUME NEW q \in Requests, q # r
        PROVE  SoFar(q)'
    BY <1>3, Frame DEF IInv, MergedSoFar, TypeOK
  <1>4. SoFar(r)'
    <2>1. \A t \in Subscriptions : worker'[r][t] = "done" <=> worker[r][t] = "done"
      BY <1>1
    <2>2. Abs!Visible(missed[r])' = Abs!Visible(missed[r])
      BY DEF Abs!Visible
    <2>3. \A g \in Abs!Visible(missed[r]) : g.sub \in Subscriptions
      BY RoleAssumption DEF Abs!Visible, IInv, TypeOK
    <2>a. bag[r] = {g \in Abs!Visible(missed[r]) : worker[r][g.sub] = "done"}
      BY DEF IInv, MergedSoFar, SoFar
    <2>4. bag'[r] = {g \in Abs!Visible(missed[r])' : worker'[r][g.sub] = "done"}
      BY <2>1, <2>2, <2>3, <2>a
    <2>b. missed[r] \subseteq Subscriptions /\ \A t \in missed[r] : worker[r][t] = "done"
      BY DEF IInv, MergedSoFar, SoFar, TypeOK
    <2>5. \A t \in missed'[r] : worker'[r][t] = "done"
      BY <2>1, <2>b
    <2>x. /\ pc'[r] = "reading" /\ todo'[r] = {} /\ dark'[r] = {}
          /\ results'[r] = Abs!Report({}, dark'[r])
      BY DEF IInv, MergedSoFar, SoFar, TypeOK
    <2>c. \A t \in Malformed : worker'[r][t] # "list"
      <3>1. \A t \in Malformed : t \in Subscriptions /\ worker[r][t] # "list"
        BY RoleAssumption DEF IInv, MergedSoFar, SoFar
      <3> QED
        BY <1>1, <3>1
    <2> QED
      BY <2>4, <2>5, <2>c, <2>x DEF SoFar
  <1> QED
    BY <1>2, <1>3, <1>4 DEF MergedSoFar

\* A worker that read its assignments added those that count to the bag.
LEMMA ReadKeeps ==
    ASSUME IInv, NEW r \in Requests, NEW s \in Subscriptions, ReadAssignments(r, s)
    PROVE  IInv'
  <1>0. /\ pc[r] = "reading" /\ worker[r][s] = "assign"
        /\ worker' = [worker EXCEPT ![r][s] = "done"]
        /\ UNCHANGED <<granted, pc, todo, results, dark, known, missed>>
    BY DEF ReadAssignments, Go
  <1>1. \A q \in Requests, t \in Subscriptions :
           worker'[q][t] = IF q = r /\ t = s THEN "done" ELSE worker[q][t]
    BY <1>0 DEF IInv, TypeOK
  <1>2. TypeOK'
    BY <1>0 DEF IInv, TypeOK, ReadAssignments
  <1>3. ASSUME NEW q \in Requests, q # r
        PROVE  SoFar(q)'
    BY <1>0, <1>3, Frame DEF IInv, MergedSoFar, TypeOK, ReadAssignments
  <1>4. SoFar(r)'
    <2>1. s \notin missed[r]
      BY <1>0 DEF IInv, MergedSoFar, SoFar
    <2>2. Abs!Visible(missed[r])' = Abs!Visible(missed[r])
      BY <1>0 DEF Abs!Visible
    <2>3. \A g \in Abs!Visible(missed[r]) : g.sub \in Subscriptions
      BY RoleAssumption DEF Abs!Visible, IInv, TypeOK
    <2>4. bag'[r] = bag[r] \cup {g \in Abs!Visible(missed[r]) : g.sub = s}
      BY <2>1 DEF ReadAssignments, Abs!Visible, IInv, TypeOK
    <2>5. bag[r] = {g \in Abs!Visible(missed[r]) : worker[r][g.sub] = "done"}
      BY DEF IInv, MergedSoFar, SoFar
    <2>6. bag'[r] = {g \in Abs!Visible(missed[r])' : worker'[r][g.sub] = "done"}
      BY <1>0, <1>1, <2>2, <2>3, <2>4, <2>5
    <2>a. missed[r] \subseteq Subscriptions /\ \A t \in missed[r] : worker[r][t] = "done"
      BY DEF IInv, MergedSoFar, SoFar, TypeOK
    <2>7. \A t \in missed'[r] : worker'[r][t] = "done"
      BY <1>0, <1>1, <2>a
    <2>x. /\ pc'[r] = "reading" /\ todo'[r] = {} /\ dark'[r] = {}
          /\ results'[r] = Abs!Report({}, dark'[r])
      BY <1>0 DEF IInv, MergedSoFar, SoFar, TypeOK
    <2>c. \A t \in Malformed : worker'[r][t] # "list"
      <3>1. \A t \in Malformed : t \in Subscriptions /\ worker[r][t] # "list"
        BY RoleAssumption DEF IInv, MergedSoFar, SoFar
      <3> QED
        BY <1>1, <3>1
    <2> QED
      BY <2>6, <2>7, <2>c, <2>x DEF SoFar
  <1> QED
    BY <1>2, <1>3, <1>4 DEF IInv, MergedSoFar

\* A worker that could not read them took its subscription out of view.
LEMMA ReadFailsKeeps ==
    ASSUME IInv, NEW r \in Requests, NEW s \in Subscriptions, ReadAssignmentsFails(r, s)
    PROVE  IInv'
  <1>0. /\ pc[r] = "reading" /\ worker[r][s] = "assign"
        /\ worker' = [worker EXCEPT ![r][s] = "done"]
        /\ UNCHANGED <<granted, pc, todo, results, dark, known, bag>>
    BY DEF ReadAssignmentsFails, Go
  <1>1. \A q \in Requests, t \in Subscriptions :
           worker'[q][t] = IF q = r /\ t = s THEN "done" ELSE worker[q][t]
    BY <1>0 DEF IInv, TypeOK
  <1>2. TypeOK'
    BY <1>0 DEF IInv, TypeOK, ReadAssignmentsFails
  <1>3. ASSUME NEW q \in Requests, q # r
        PROVE  SoFar(q)'
    BY <1>0, <1>3, Frame DEF IInv, MergedSoFar, TypeOK, ReadAssignmentsFails
  <1>4. SoFar(r)'
    <2>1. missed'[r] = missed[r] \cup {s}
      BY DEF ReadAssignmentsFails, IInv, TypeOK
    <2>2. Abs!Visible(missed[r])' = {g \in Abs!Visible(missed[r]) : g.sub # s}
      BY <1>0, <2>1 DEF Abs!Visible
    <2>3. \A g \in Abs!Visible(missed[r]) : g.sub \in Subscriptions
      BY RoleAssumption DEF Abs!Visible, IInv, TypeOK
    <2>4. bag[r] = {g \in Abs!Visible(missed[r]) : worker[r][g.sub] = "done"}
      BY DEF IInv, MergedSoFar, SoFar
    <2>5. bag'[r] = {g \in Abs!Visible(missed[r])' : worker'[r][g.sub] = "done"}
      BY <1>0, <1>1, <2>2, <2>3, <2>4
    <2>a. missed[r] \subseteq Subscriptions /\ \A t \in missed[r] : worker[r][t] = "done"
      BY DEF IInv, MergedSoFar, SoFar, TypeOK
    <2>6. \A t \in missed'[r] : worker'[r][t] = "done"
      BY <1>1, <2>1, <2>a
    <2>x. /\ pc'[r] = "reading" /\ todo'[r] = {} /\ dark'[r] = {}
          /\ results'[r] = Abs!Report({}, dark'[r])
      BY <1>0 DEF IInv, MergedSoFar, SoFar, TypeOK
    <2>c. \A t \in Malformed : worker'[r][t] # "list"
      <3>1. \A t \in Malformed : t \in Subscriptions /\ worker[r][t] # "list"
        BY RoleAssumption DEF IInv, MergedSoFar, SoFar
      <3> QED
        BY <1>1, <3>1
    <2> QED
      BY <2>5, <2>6, <2>c, <2>x DEF SoFar
  <1> QED
    BY <1>2, <1>3, <1>4 DEF IInv, MergedSoFar

\* The steps of a worker.
LEMMA WorkKeeps ==
    ASSUME IInv, NEW r \in Requests, NEW s \in Subscriptions, Work(r, s)
    PROVE  IInv'
  <1>1. CASE FindDefinitions(r, s)
    <2>1. PICK to \in {"list", "assign"} :
             /\ Go(r, s, "waiting", to)
             /\ to = "list" => s \notin Malformed
      BY <1>1 DEF FindDefinitions
    <2>2. worker' = [worker EXCEPT ![r][s] = to] /\ worker[r][s] # "done"
      BY <2>1 DEF Go
    <2> QED
      BY <1>1, <2>1, <2>2, WorkerMoves DEF FindDefinitions, Go, IInv, TypeOK
  <1>2. CASE ListDefinitions(r, s)
    <2>1. s \notin Malformed
      BY <1>2 DEF ListDefinitions, Go, IInv, MergedSoFar, SoFar
    <2>2. known' \subseteq Subscriptions \ Malformed
      BY <1>2, <2>1 DEF ListDefinitions, IInv, TypeOK
    <2> QED
      BY <1>2, <2>2, WorkerMoves DEF ListDefinitions, Go, IInv, TypeOK
  <1>3. CASE ListDefinitionsFails(r, s)
    BY <1>3, WorkerMoves DEF ListDefinitionsFails, Go, IInv, TypeOK
  <1> QED
    BY <1>1, <1>2, <1>3, ReadKeeps, ReadFailsKeeps DEF Work

\* The steps of a request after its workers.
LEMMA JoinKeeps ==
    ASSUME IInv, NEW r \in Requests, Join(r)
    PROVE  IInv'
  <1>1. TypeOK'
    BY DEF Join, IInv, TypeOK
  <1>2. ASSUME NEW q \in Requests, q # r
        PROVE  SoFar(q)'
    BY <1>2, Frame DEF IInv, MergedSoFar, TypeOK, Join
  <1>3. SoFar(r)'
    <2>1. pc'[r] = "prepare" /\ pc[r] = "reading"
      BY DEF Join, IInv, TypeOK
    <2>2. Abs!Visible(missed[r])' = Abs!Visible(missed[r])
      BY DEF Join, Abs!Visible
    <2>3. SoFar(r)
      BY DEF IInv, MergedSoFar
    <2> QED
      BY <2>1, <2>2, <2>3 DEF Join, SoFar
  <1> QED
    BY <1>1, <1>2, <1>3 DEF IInv, MergedSoFar

LEMMA PrepareKeeps ==
    ASSUME IInv, NEW r \in Requests, Prepare(r)
    PROVE  IInv'
  <1>1. TypeOK'
    BY DEF Prepare, IInv, TypeOK
  <1>2. ASSUME NEW q \in Requests, q # r
        PROVE  SoFar(q)'
    BY <1>2, Frame DEF IInv, MergedSoFar, TypeOK, Prepare
  <1>3. SoFar(r)'
    <2>1. pc'[r] = "merge" /\ pc[r] = "prepare" /\ todo'[r] = bag'[r]
      BY DEF Prepare, IInv, TypeOK
    <2>2. Abs!Visible(missed[r])' = Abs!Visible(missed[r])
      BY DEF Prepare, Abs!Visible
    <2>3. SoFar(r)
      BY DEF IInv, MergedSoFar
    <2>4. results[r] = Abs!Report({}, dark[r])
      BY <2>1, <2>3 DEF SoFar
    <2>5. results'[r] = Abs!Report(bag'[r] \ todo'[r], dark'[r])
      <3>1. bag'[r] \ todo'[r] = {}
        BY <2>1
      <3> QED
        BY <2>4, <3>1 DEF Prepare
    <2> QED
      BY <2>1, <2>2, <2>3, <2>5 DEF Prepare, SoFar
  <1> QED
    BY <1>1, <1>2, <1>3 DEF IInv, MergedSoFar

LEMMA ReturnKeeps ==
    ASSUME IInv, NEW r \in Requests, Return(r)
    PROVE  IInv'
  <1>1. TypeOK'
    BY DEF Return, IInv, TypeOK
  <1>2. ASSUME NEW q \in Requests, q # r
        PROVE  SoFar(q)'
    BY <1>2, Frame DEF IInv, MergedSoFar, TypeOK, Return
  <1>3. SoFar(r)'
    <2>1. pc'[r] = "done" /\ pc[r] = "merge" /\ todo[r] = {}
      BY DEF Return, IInv, TypeOK
    <2>2. Abs!Visible(missed[r])' = Abs!Visible(missed[r])
      BY DEF Return, Abs!Visible
    <2>3. SoFar(r)
      BY DEF IInv, MergedSoFar
    <2> QED
      BY <2>1, <2>2, <2>3 DEF Return, SoFar
  <1> QED
    BY <1>1, <1>2, <1>3 DEF IInv, MergedSoFar

LEMMA MergeKeeps ==
    ASSUME IInv, NEW r \in Requests, NEW g \in Grants, Merge(r, g)
    PROVE  IInv'
  <1> DEFINE S == bag[r] \ todo[r]
  <1>1. /\ Merged(r, g)
        /\ \A q \in Requests \ {r} : results'[q] = results[q] /\ dark'[q] = dark[q]
    BY DEF Merge, SkipHigher, MergeContainer, MergeAccount, MergeAccountAgain,
           IInv, TypeOK
  <1>2. /\ pc[r] = "merge" /\ pc'[r] = "merge" /\ g \in todo[r]
        /\ todo'[r] = todo[r] \ {g}
        /\ UNCHANGED <<granted, known, pc, worker, bag, missed>>
    BY <1>1 DEF Merged, IInv, TypeOK
  <1>3. SoFar(r) /\ TypeOK
    BY DEF IInv, MergedSoFar
  <1>4. S \in SUBSET Grants /\ g \in bag[r]
    BY <1>2, <1>3 DEF SoFar, TypeOK
  <1>5. results[r] = Abs!Report(S, dark[r])
    BY <1>2, <1>3 DEF SoFar
  <1>6. /\ results'[r] = Abs!Report(S \cup {g}, dark'[r])
        /\ \A a \in dark'[r] : results'[r][a] # NoRow /\ results'[r][a].all
        /\ dark'[r] \in SUBSET Accounts
    BY <1>3, <1>4, <1>5, MergeExtends DEF SoFar
  <1>7. bag'[r] \ todo'[r] = S \cup {g}
    BY <1>2, <1>4
  <1>8. SoFar(r)'
    <2>1. Abs!Visible(missed[r])' = Abs!Visible(missed[r])
      BY <1>2 DEF Abs!Visible
    <2>2. results'[r] = Abs!Report(bag'[r] \ todo'[r], dark'[r])
      BY <1>6, <1>7
    <2>3. todo'[r] \subseteq bag'[r]
      BY <1>2, <1>3 DEF SoFar
    <2> QED
      BY <1>2, <1>3, <1>6, <2>1, <2>2, <2>3 DEF SoFar
  <1>9. ASSUME NEW q \in Requests, q # r
        PROVE  SoFar(q)'
    <2>1. todo'[q] = todo[q]
      BY <1>1, <1>3, <1>9 DEF Merged, TypeOK
    <2> QED
      BY <1>1, <1>2, <1>9, <2>1, Frame DEF IInv, MergedSoFar
  <1>10. TypeOK'
    <2>1. results'[r] \in [Accounts -> Rows \cup {NoRow}]
      BY <1>4, <1>6, ReportType
    <2>2. /\ \E f \in [Accounts -> Rows \cup {NoRow}] : results' = [results EXCEPT ![r] = f]
          /\ \E D \in SUBSET Accounts : dark' = [dark EXCEPT ![r] = D]
      <3>1. results' = [results EXCEPT ![r] = results'[r]]
        BY <1>3 DEF Merge, SkipHigher, MergeContainer, MergeAccount, MergeAccountAgain,
                    TypeOK
      <3>2. dark' = [dark EXCEPT ![r] = dark'[r]]
        BY <1>3 DEF Merge, SkipHigher, MergeContainer, MergeAccount, MergeAccountAgain,
                    TypeOK
      <3> QED
        BY <1>6, <2>1, <3>1, <3>2
    <2>3. todo' \in [Requests -> SUBSET Grants]
      BY <1>1, <1>3 DEF Merged, TypeOK
    <2> QED
      BY <1>2, <1>3, <2>2, <2>3 DEF TypeOK
  <1> QED
    BY <1>8, <1>9, <1>10 DEF IInv, MergedSoFar

LEMMA StepIInv == IInv /\ [Next]_vars => IInv'
  <1> SUFFICES ASSUME IInv, [Next]_vars
               PROVE  IInv'
    OBVIOUS
  <1>1. ASSUME NEW r \in Requests,
               \/ Start(r) \/ JoinThrows(r) \/ PrepareFails(r) \/ Finish(r)
               \/ \E g \in Grants : MergeThrows(r, g)
        PROVE  IInv'
    BY <1>1, ClearKeeps DEF Start, JoinThrows, PrepareFails, Finish, MergeThrows
  <1>2. ASSUME NEW r \in Requests, NEW s \in Subscriptions, Work(r, s)
        PROVE  IInv'
    BY <1>2, WorkKeeps
  <1>3. ASSUME NEW r \in Requests, Join(r) \/ Prepare(r) \/ Return(r)
        PROVE  IInv'
    BY <1>3, JoinKeeps, PrepareKeeps, ReturnKeeps
  <1>4. ASSUME NEW r \in Requests, NEW g \in Grants, Merge(r, g)
        PROVE  IInv'
    BY <1>4, MergeKeeps
  <1>5. CASE UNCHANGED vars
    <2>1. TypeOK'
      BY <1>5 DEF IInv, TypeOK, vars
    <2>2. ASSUME NEW r \in Requests
          PROVE  SoFar(r)'
      BY <1>5, Frame DEF IInv, MergedSoFar, vars
    <2> QED
      BY <2>1, <2>2 DEF IInv, MergedSoFar
  <1> QED
    BY <1>1, <1>2, <1>3, <1>4, <1>5 DEF Next, Step

\* At every moment of every request, the rows are exactly those of the
\* assignments merged so far.
THEOREM MergeIsExact == Spec => []IInv
  BY InitIInv, StepIInv, PTL DEF Spec

\* Every state of the computation is well typed.
THEOREM TypeCorrect == Spec => []TypeOK
  <1>1. IInv => TypeOK
    BY DEF IInv
  <1> QED
    BY <1>1, MergeIsExact, PTL

-----------------------------------------------------------------------------
(* What follows from it. *)

LEMMA ExactNeverMore == IInv => NeverMoreThanGranted
  <1> SUFFICES ASSUME IInv, NEW r \in Requests, NEW a \in Accounts,
                      results[r][a] # NoRow
               PROVE  LET mine == {g \in granted : g.account = a /\ g.role \in DataRoles}
                      IN  /\ mine # {}
                          /\ \A c \in results[r][a].containers : \E g \in mine :
                                g.container = c \/ (g.container = Whole /\ c \in Existing[a])
    BY DEF NeverMoreThanGranted
  <1> DEFINE mine == {g \in granted : g.account = a /\ g.role \in DataRoles}
             S == IF pc[r] \in {"merge", "done"} THEN bag[r] \ todo[r] ELSE {}
  <1>1. SoFar(r) /\ TypeOK
    BY DEF IInv, MergedSoFar
  <1>2. S \in SUBSET Grants /\ Mine(S, a) \subseteq mine
    BY <1>1 DEF SoFar, TypeOK, Mine, Abs!Visible
  <1>3. results[r] = Abs!Report(S, dark[r])
    BY <1>1 DEF SoFar
  <1> HIDE DEF S
  <1>4. results[r][a] = Abs!Row(S, dark[r], a)
    BY <1>3 DEF Abs!Report
  <1>5. Mine(S, a) # {} /\ results[r][a] = Full(S, dark[r], a)
    BY <1>2, <1>4, RowCases
  <1>6. mine # {}
    BY <1>2, <1>5
  <1>7. ASSUME NEW c \in results[r][a].containers
        PROVE  \E g \in mine : g.container = c \/ (g.container = Whole /\ c \in Existing[a])
    <2>1. CASE ~All(S, a)
      <3>1. c \in {g.container : g \in Mine(S, a)}
        BY <1>5, <1>7, <2>1 DEF Full
      <3> QED
        BY <1>2, <3>1
    <2>2. CASE All(S, a)
      <3>1. c \in Existing[a]
        BY <1>5, <1>7, <2>2 DEF Full
      <3>2. \E g \in Mine(S, a) : g.container = Whole
        BY <2>2 DEF All
      <3> QED
        BY <1>2, <3>1, <3>2
    <2> QED
      BY <2>1, <2>2
  <1> QED
    BY <1>6, <1>7

\* Nothing is ever reported that the principal was not granted.
THEOREM ReportsOnlyGranted == Spec => []NeverMoreThanGranted
  BY MergeIsExact, ExactNeverMore, PTL

LEMMA ExactLossIsLocal == IInv => LossIsLocal
  <1> SUFFICES ASSUME IInv, NEW r \in Requests, NEW a \in Accounts,
                      pc[r] = "done", a \notin dark[r],
                      \A g \in Assigned : g.account = a => g.sub \notin missed[r] \cup Malformed
               PROVE  results[r][a] = Abs!Row(Assigned, {}, a)
    BY DEF LossIsLocal
  <1> DEFINE S == Abs!Visible(missed[r])
             T == Assigned
  <1>1. SoFar(r) /\ granted \subseteq Grants
    BY DEF IInv, MergedSoFar, TypeOK
  <1>2. \A g \in S : worker[r][g.sub] = "done"
    BY <1>1, RoleAssumption DEF SoFar, Abs!Visible
  <1>3. bag[r] \ todo[r] = S
    BY <1>1, <1>2 DEF SoFar
  <1>4. results[r][a] = Abs!Row(S, dark[r], a)
    BY <1>1, <1>3 DEF SoFar, Abs!Report
  <1>5. Mine(S, a) = Mine(T, a)
    BY DEF Mine, Assigned, Abs!Visible
  <1> HIDE DEF S, T
  <1>6. Abs!Row(S, dark[r], a) = Abs!Row(T, {}, a)
    BY <1>5 DEF Abs!Row, Mine
  <1> QED
    BY <1>4, <1>6 DEF T

\* Failures that are swallowed (RoleOperations.cs:413-418, and where containers
\* are listed) hide what they concern and nothing else of all that was granted in
\* subscriptions whose ids parse.
THEOREM LossesAreLocal == Spec => []LossIsLocal
  BY MergeIsExact, ExactLossIsLocal, PTL

-----------------------------------------------------------------------------
(* The computation implements AccessReport. *)

Shown == [r \in Requests |-> IF pc[r] = "idle" THEN Idle
                             ELSE IF pc[r] = "done" THEN Answer(r)
                             ELSE Pending]

\* An answer is neither Idle nor Pending.
LEMMA AnswerIsNew ==
    ASSUME TypeOK, NEW r \in Requests
    PROVE  Answer(r) # Idle /\ Answer(r) # Pending
  <1>1. Answer(r) \in Answers
    BY DEF Answer, Answers, TypeOK
  <1> QED
    BY <1>1, RoleAssumption

LEMMA InitRefines == Init => Abs!Init
  BY DEF Init, Abs!Init

\* Steps of r that neither start, answer nor end leave the view as it is.
LEMMA Inside ==
    ASSUME NEW r \in Requests, TypeOK,
           pc[r] \notin {"idle", "done"}, pc'[r] \notin {"idle", "done"},
           \A q \in Requests \ {r} :
              /\ pc'[q] = pc[q] /\ results'[q] = results[q]
              /\ missed'[q] = missed[q] /\ dark'[q] = dark[q]
    PROVE  Shown' = Shown
  <1>1. ASSUME NEW q \in Requests
        PROVE  Shown'[q] = Shown[q]
    <2>1. CASE q = r
      BY <2>1 DEF Shown
    <2>2. CASE q # r
      BY <2>2 DEF Shown, Answer
    <2> QED
      BY <2>1, <2>2
  <1> QED
    BY <1>1 DEF Shown

LEMMA ClearRefines ==
    ASSUME NEW r \in Requests, NEW p \in {"idle", "reading"}, Clear(r, p), TypeOK
    PROVE  /\ Shown' = [Shown EXCEPT ![r] = IF p = "idle" THEN Idle ELSE Pending]
           /\ granted' = granted
  <1>1. ASSUME NEW q \in Requests
        PROVE  Shown'[q] = IF q = r THEN IF p = "idle" THEN Idle ELSE Pending
                           ELSE Shown[q]
    BY DEF Clear, Shown, Answer, TypeOK
  <1> QED
    BY <1>1 DEF Clear, Shown

LEMMA StepRefines == IInv /\ [Next]_vars => [Abs!Next]_(Abs!vars)
  <1> SUFFICES ASSUME IInv, [Next]_vars
               PROVE  Abs!Next \/ UNCHANGED <<granted, Shown>>
    BY DEF Abs!vars, Shown
  <1>t. TypeOK
    BY DEF IInv
  <1>1. ASSUME NEW r \in Requests, Start(r)
        PROVE  Abs!Next
    <2>1. Shown[r] = Idle
      BY <1>1 DEF Start, Shown
    <2>2. Abs!Ask(r)
      BY <1>1, <1>t, <2>1, ClearRefines DEF Start, Abs!Ask, Shown
    <2> QED
      BY <2>2 DEF Abs!Next
  <1>2. ASSUME NEW r \in Requests,
               \/ JoinThrows(r) \/ PrepareFails(r) \/ Finish(r)
               \/ \E g \in Grants : MergeThrows(r, g)
        PROVE  Abs!Next
    <2>1. Abs!End(r)
      BY <1>2, <1>t, ClearRefines
         DEF JoinThrows, PrepareFails, Finish, MergeThrows, Abs!End, Shown
    <2> QED
      BY <2>1 DEF Abs!Next
  <1>3. ASSUME NEW r \in Requests, NEW s \in Subscriptions, Work(r, s)
        PROVE  UNCHANGED <<granted, Shown>>
    <2>1. /\ pc[r] = "reading" /\ UNCHANGED <<granted, pc, results, dark>>
          /\ \A q \in Requests \ {r} : missed'[q] = missed[q]
      BY <1>3, <1>t DEF Work, FindDefinitions, ListDefinitions, ListDefinitionsFails,
                        ReadAssignments, ReadAssignmentsFails, Go, TypeOK
    <2> QED
      BY <1>t, <2>1, Inside
  <1>4. ASSUME NEW r \in Requests, Join(r) \/ Prepare(r)
        PROVE  UNCHANGED <<granted, Shown>>
    <2>1. /\ pc[r] \notin {"idle", "done"} /\ pc'[r] \notin {"idle", "done"}
          /\ UNCHANGED <<granted, results, missed, dark>>
          /\ \A q \in Requests \ {r} : pc'[q] = pc[q]
      BY <1>4, <1>t DEF Join, Prepare, TypeOK
    <2> QED
      BY <1>t, <2>1, Inside
  <1>5. ASSUME NEW r \in Requests, NEW g \in Grants, Merge(r, g)
        PROVE  UNCHANGED <<granted, Shown>>
    <2>1. /\ pc[r] = "merge" /\ UNCHANGED <<granted, pc, missed>>
          /\ \A q \in Requests \ {r} : results'[q] = results[q] /\ dark'[q] = dark[q]
      BY <1>5, <1>t DEF Merge, SkipHigher, MergeContainer, MergeAccount,
                        MergeAccountAgain, Merged, TypeOK
    <2> QED
      BY <1>t, <2>1, Inside
  <1>6. ASSUME NEW r \in Requests, Return(r)
        PROVE  Abs!Next
    <2>1. SoFar(r)
      BY DEF IInv, MergedSoFar
    <2>2. bag[r] = Abs!Visible(missed[r])
      <3>1. \A g \in Abs!Visible(missed[r]) : g.sub \in Subscriptions
        BY <1>t, RoleAssumption DEF Abs!Visible, TypeOK
      <3>2. \A s \in Subscriptions : worker[r][s] = "done"
        BY <1>6, <2>1 DEF Return, SoFar
      <3>3. bag[r] = {g \in Abs!Visible(missed[r]) : worker[r][g.sub] = "done"}
        BY <2>1 DEF SoFar
      <3> QED
        BY <3>1, <3>2, <3>3
    <2>3. results[r] = Abs!Report(Abs!Visible(missed[r]), dark[r])
      <3>1. results[r] = Abs!Report(bag[r] \ todo[r], dark[r]) /\ todo[r] = {}
        BY <1>6, <2>1 DEF Return, SoFar
      <3>2. bag[r] \ todo[r] = Abs!Visible(missed[r])
        BY <2>2, <3>1
      <3> QED
        BY <3>1, <3>2
    <2>4. Shown[r] = Pending
      BY <1>6 DEF Return, Shown
    <2>5. Shown' = [Shown EXCEPT ![r] = Answer(r)]
      <3>1. ASSUME NEW q \in Requests
            PROVE  Shown'[q] = IF q = r THEN Answer(r) ELSE Shown[q]
        BY <1>6, <1>t DEF Return, Shown, Answer, TypeOK
      <3> QED
        BY <3>1 DEF Shown
    <2>6. Answer(r) = [rows |-> Abs!Report(Abs!Visible(missed[r]), dark[r]),
                       missed |-> missed[r], dark |-> dark[r]]
      BY <2>3 DEF Answer
    <2>7. missed[r] \in SUBSET Subscriptions /\ dark[r] \in SUBSET Accounts
      BY <1>t DEF TypeOK
    <2>8. \E m \in SUBSET Subscriptions, d \in SUBSET Accounts : Abs!Answer(r, m, d)
      BY <1>6, <2>4, <2>5, <2>6, <2>7 DEF Return, Abs!Answer, Shown
    <2> QED
      BY <2>8 DEF Abs!Next
  <1>7. CASE UNCHANGED vars
    BY <1>7 DEF vars, Shown, Answer
  <1> QED
    BY <1>1, <1>2, <1>3, <1>4, <1>5, <1>6, <1>7 DEF Next, Step

\* The order of the bag, the interleaving of the workers and the dictionary
\* they share cannot be told from a report.
THEOREM OrderDoesNotMatter == Spec => ImplementsAccessReport
  <1>1. Spec => Abs!Init
    BY InitRefines, PTL DEF Spec
  <1>2. Spec => [][Abs!Next]_(Abs!vars)
    BY MergeIsExact, StepRefines, PTL DEF Spec
  <1> QED
    BY <1>1, <1>2, PTL DEF ImplementsAccessReport, Abs!Spec
=============================================================================
