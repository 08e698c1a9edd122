------------------------ MODULE ContainerDetailsProofs ------------------------
(***************************************************************************)
(* For any containers and role assignments: what is answered for a         *)
(* container is true, no container is lost without an exception, and the   *)
(* answer is one that ContainerReport gives in a single step.              *)
(***************************************************************************)
EXTENDS ContainerDetails, TLAPS

USE DEF Running, request, OneEntryEach

LEMMA InitIInv == Init => IInv
  BY DEF Init, IInv, TypeOK, EntriesAddUp, Fresh, Rows

\* Before the loop nothing is under way for any container.
LEMMA ListIInv ==
    ASSUME IInv, NEW E \in SUBSET Containers, NEW f \in BOOLEAN, List(E, f)
    PROVE  IInv'
  <1>1. Fresh
    BY DEF IInv, EntriesAddUp, List
  <1>2. TypeOK'
    BY <1>1 DEF IInv, TypeOK, List, Fresh
  <1>3. EntriesAddUp'
    BY <1>1 DEF IInv, TypeOK, EntriesAddUp, List, Fresh, Shown, GrantsOf, Threw
  <1> QED
    BY <1>2, <1>3 DEF IInv

\* A worker that moves on leaves the others and their rows alone.
LEMMA NameIInv ==
    ASSUME IInv, NEW c \in Containers, NEW g \in Grants, NEW n \in BOOLEAN, Name(c, g, n)
    PROVE  IInv'
  <1> DEFINE e == [grant |-> g, inherited |-> g.container = Whole, named |-> n]
  <1>1. e \in Entries
    BY DEF Entries
  <1>2. access'[c] = access[c] \cup {e} /\ todo'[c] = todo[c] \ {g}
    BY DEF IInv, TypeOK, Name
  <1>3. \A d \in Containers \ {c} : access'[d] = access[d] /\ todo'[d] = todo[d]
    BY DEF IInv, TypeOK, Name
  <1>4. worker' = worker /\ rows' = rows /\ blind' = blind /\ assigned' = assigned
        /\ accessible' = accessible /\ pc' = pc /\ pc = "loop" /\ worker[c] = "name"
    BY DEF IInv, TypeOK, Name, Go
  <1>5. TypeOK'
    BY <1>1 DEF IInv, TypeOK, Name, Go
  <1>6. GrantsOf(access'[c]) = GrantsOf(access[c]) \cup {g}
    <2>1. e.grant = g
      OBVIOUS
    <2>2. \A x : x \in access'[c] <=> x \in access[c] \/ x = e
      BY <1>2
    <2> HIDE DEF e
    <2> QED
      BY <2>1, <2>2 DEF GrantsOf
  <1>7. g \in todo[c]
    BY DEF Name
  <1>8. \A d \in Containers : Shown(d)' = Shown(d)
    BY <1>4 DEF Shown
  <1>9. EntriesAddUp'
    <2>1. \A d \in Containers : worker'[d] \in {"name", "done"} =>
             GrantsOf(access'[d]) \cup todo'[d] = IF d \in blind' THEN {} ELSE Shown(d)'
      <3> SUFFICES ASSUME NEW d \in Containers, worker[d] \in {"name", "done"}
                   PROVE  GrantsOf(access'[d]) \cup todo'[d] = IF d \in blind THEN {} ELSE Shown(d)
        BY <1>4, <1>8
      <3>1. GrantsOf(access[d]) \cup todo[d] = IF d \in blind THEN {} ELSE Shown(d)
        BY DEF IInv, EntriesAddUp
      <3>2. CASE d = c
        BY <3>1, <3>2, <1>2, <1>6, <1>7
      <3>3. CASE d # c
        BY <3>1, <3>3, <1>3
      <3> QED
        BY <3>2, <3>3
    <2>2. \A d \in Containers : \A x \in access'[d] : x.inherited <=> x.grant.container = Whole
      <3>1. e.inherited <=> e.grant.container = Whole
        OBVIOUS
      <3>2. \A d \in Containers : \A x \in access[d] : x.inherited <=> x.grant.container = Whole
        BY DEF IInv, EntriesAddUp
      <3> HIDE DEF e
      <3> QED
        BY <3>1, <3>2, <1>2, <1>3
    <2>3. \A d \in Containers : OneEntryEach(d)'
      <3>1. e.grant = g /\ \A x \in access[c] : x.grant # g
        BY <1>7 DEF IInv, EntriesAddUp
      <3>2. \A d \in Containers : OneEntryEach(d)
        BY DEF IInv, EntriesAddUp
      <3> HIDE DEF e
      <3> QED
        BY <3>1, <3>2, <1>2, <1>3
    <2> HIDE DEF e
    <2> QED
      BY <2>1, <2>2, <2>3, <1>2, <1>3, <1>4 DEF IInv, EntriesAddUp, Threw, GrantsOf
  <1> QED
    BY <1>5, <1>9 DEF IInv

LEMMA WorkIInv ==
    ASSUME IInv, NEW c \in Containers, Work(c)
    PROVE  IInv'
  <1> USE DEF IInv, TypeOK, EntriesAddUp, Go, Threw, Shown, GrantsOf
  <1>1. CASE FindDefinitions(c)
    BY <1>1 DEF FindDefinitions
  <1>2. CASE ListDefinitions(c)
    BY <1>2 DEF ListDefinitions
  <1>3. CASE ListDefinitionsFails(c)
    BY <1>3 DEF ListDefinitionsFails
  <1>4. CASE ReadAssignments(c)
    BY <1>4 DEF ReadAssignments
  <1>5. CASE ReadAssignmentsFails(c)
    BY <1>5 DEF ReadAssignmentsFails
  <1>6. ASSUME NEW g \in Grants, NEW n \in BOOLEAN, Name(c, g, n)
        PROVE  IInv'
    BY <1>6, NameIInv
  <1>7. CASE NameFails(c)
    BY <1>7 DEF NameFails
  <1>8. CASE AddRow(c)
    BY <1>8, DetailsAssumption DEF AddRow, Rows
  <1> QED
    BY <1>1, <1>2, <1>3, <1>4, <1>5, <1>6, <1>7, <1>8 DEF Work

LEMMA StepIInv == IInv /\ [Next]_vars => IInv'
  <1> SUFFICES ASSUME IInv, [Next]_vars
               PROVE  IInv'
    OBVIOUS
  <1>1. ASSUME NEW S \in {NoList} \cup SUBSET Containers, Begin(S)
        PROVE  IInv'
    BY <1>1 DEF Begin, IInv, TypeOK, EntriesAddUp, Fresh, Shown, GrantsOf
  <1>2. CASE GraphFails
    BY <1>2 DEF GraphFails, IInv, TypeOK, EntriesAddUp, Fresh, Shown, GrantsOf
  <1>3. ASSUME NEW E \in SUBSET Containers, NEW f \in BOOLEAN, List(E, f)
        PROVE  IInv'
    BY <1>3, ListIInv
  <1>4. CASE ListFails
    BY <1>4 DEF ListFails, IInv, TypeOK, EntriesAddUp, Fresh, Shown, GrantsOf, Threw
  <1>5. ASSUME NEW c \in Containers, Work(c)
        PROVE  IInv'
    BY <1>5, WorkIInv
  <1>6. CASE Settle
    BY <1>6 DEF Settle, Settled, IInv, TypeOK, EntriesAddUp, Shown, GrantsOf, Threw
  <1>7. CASE Over /\ known' \in BOOLEAN
    BY <1>7 DEF Over, IInv, TypeOK, EntriesAddUp, Fresh, Rows
  <1>8. CASE OthersListDefinitions
    BY <1>8 DEF OthersListDefinitions, IInv, TypeOK, EntriesAddUp, Fresh, Shown, GrantsOf, Threw
  <1>9. CASE UNCHANGED vars
    BY <1>9 DEF vars, IInv, TypeOK, EntriesAddUp, Fresh, Shown, GrantsOf, Threw
  <1>10. known \in BOOLEAN
    BY DEF IInv, TypeOK
  <1> QED
    BY <1>1, <1>2, <1>3, <1>4, <1>5, <1>6, <1>7, <1>8, <1>9, <1>10
       DEF Next, Step, Finish, HostRestart

THEOREM DetailsInvariant == Spec => []IInv
  BY InitIInv, StepIInv, PTL DEF Spec

\* Requests, workers and rows are well formed, and no worker runs without a list
\* of accessible containers.
THEOREM TypeCorrect == Spec => []TypeOK
  <1>1. IInv => TypeOK
    BY DEF IInv
  <1> QED
    BY <1>1, DetailsInvariant, PTL

\* Every row that is answered is the whole truth about its container, or has no
\* entries because they could not be read.
THEOREM AnsweredRowsAreTrue == Spec => []RowsAreTrue
  <1>1. ASSUME IInv
        PROVE  RowsAreTrue
    <2> SUFFICES ASSUME NEW c \in Containers, rows[c] # NoRow
                 PROVE  /\ accessible # NoList /\ c \in accessible
                        /\ \A g \in Grants : g \in GrantsOf(rows[c].access) <=>
                              /\ c \notin blind
                              /\ g \in assigned /\ g.container \in {c, Whole}
                              /\ g.role \in DataRoles /\ g.type \in ShownTypes
                        /\ \A e \in rows[c].access : e.inherited <=> e.grant.container = Whole
      BY DEF RowsAreTrue
    <2>1. worker[c] = "done" /\ rows[c].access = access[c] /\ todo[c] = {}
      <3>1. worker[c] = "done"
        BY <1>1 DEF IInv, EntriesAddUp
      <3>2. rows[c] = [access |-> access[c]] /\ todo[c] = {}
        BY <1>1, <3>1 DEF IInv, EntriesAddUp
      <3> QED
        BY <3>1, <3>2
    <2>2. GrantsOf(access[c]) = IF c \in blind THEN {} ELSE Shown(c)
      BY <1>1, <2>1 DEF IInv, EntriesAddUp
    <2>3. accessible # NoList /\ c \in accessible
      BY <1>1, <2>1 DEF IInv, TypeOK, EntriesAddUp
    <2>4. \A e \in access[c] : e.inherited <=> e.grant.container = Whole
      BY <1>1 DEF IInv, EntriesAddUp
    <2> QED
      BY <2>1, <2>2, <2>3, <2>4 DEF Shown
  <1> QED
    BY <1>1, DetailsInvariant, PTL

\* A container that was listed has its row, unless an exception was thrown.
THEOREM LostOnlyByException == Spec => []NothingLostQuietly
  <1>1. IInv => NothingLostQuietly
    BY DEF IInv, EntriesAddUp, NothingLostQuietly
  <1> QED
    BY <1>1, DetailsInvariant, PTL

-----------------------------------------------------------------------------
(* The endpoint implements ContainerReport. *)

View == IF pc = "idle" THEN Idle ELSE IF pc = "done" THEN Answer ELSE Pending

LEMMA AnswerIsNew == TypeOK => Answer \in Answers /\ Answer \notin {Idle, Pending}
  <1> SUFFICES ASSUME TypeOK
               PROVE  Answer \in Answers
    BY DetailsAssumption
  <1>1. Threw \in BOOLEAN /\ {c \in Containers : worker[c] # "none"} \in SUBSET Containers
    BY DEF Threw
  <1> QED
    BY <1>1 DEF TypeOK, Answer, Answers

\* A set of entries with one for each grant of S is fixed by those that have a
\* name.
LEMMA EntriesOfGrants ==
    ASSUME NEW T \in SUBSET Entries, NEW S, GrantsOf(T) = S,
           \A e1, e2 \in T : e1.grant = e2.grant => e1 = e2,
           \A e \in T : e.inherited <=> e.grant.container = Whole
    PROVE  \E N \in SUBSET S :
              T = {[grant |-> g, inherited |-> g.container = Whole, named |-> g \in N] : g \in S}
  <1> DEFINE N == {g \in S : \E e \in T : e.grant = g /\ e.named}
             Entry(g) == [grant |-> g, inherited |-> g.container = Whole, named |-> g \in N]
  <1>1. ASSUME NEW e \in T
        PROVE  e.grant \in S /\ e = Entry(e.grant)
    <2>1. e = [grant |-> e.grant, inherited |-> e.inherited, named |-> e.named]
      BY DEF Entries
    <2>2. e.inherited \in BOOLEAN /\ e.named \in BOOLEAN
      BY DEF Entries
    <2>3. e.grant \in S
      BY DEF GrantsOf
    <2>4. e.inherited = (e.grant.container = Whole)
      BY <2>2
    <2>5. e.grant \in N <=> e.named
      BY <2>3
    <2>6. (e.grant \in N) = e.named
      BY <2>2, <2>5
    <2> QED
      BY <2>1, <2>3, <2>4, <2>6
  <1>2. ASSUME NEW g \in S
        PROVE  Entry(g) \in T
    <2>1. PICK e \in T : e.grant = g
      BY DEF GrantsOf
    <2> QED
      BY <1>1, <2>1
  <1>3. T = {Entry(g) : g \in S}
    <2> HIDE DEF Entry, N
    <2> QED
      BY <1>1, <1>2
  <1>4. N \in SUBSET S
    OBVIOUS
  <1> QED
    BY <1>3, <1>4

\* What is in the bag when the request ends its work is an answer that can be
\* given.
LEMMA AnswerIsTruthful == IInv /\ pc = "done" => Abs!Truthful(Answer)
  <1> SUFFICES ASSUME IInv, pc = "done"
               PROVE  Abs!Truthful(Answer)
    OBVIOUS
  <1> DEFINE listed == {c \in Containers : worker[c] # "none"}
  <1>1. Answer.rows = rows /\ Answer.listed = listed /\ Answer.blind = blind /\ Answer.threw = Threw
    BY DEF Answer
  <1>2. listed # {} => accessible # NoList /\ listed \subseteq accessible
    BY DEF IInv, TypeOK, EntriesAddUp
  <1>3. blind \subseteq listed
    BY DEF IInv, TypeOK, EntriesAddUp
  <1>4. ASSUME NEW c \in Containers, rows[c] # NoRow
        PROVE  c \in listed /\ rows[c] \in Abs!RowsOf(c, blind)
    <2>1. worker[c] = "done" /\ rows[c] = [access |-> access[c]]
          /\ GrantsOf(access[c]) = IF c \in blind THEN {} ELSE Shown(c)
      BY <1>4 DEF IInv, EntriesAddUp
    <2>2. Abs!Shown(c) = Shown(c)
      BY DEF Abs!Shown, Shown
    <2>3. CASE c \in blind
      <3>1. access[c] = {}
        BY <2>1, <2>3 DEF GrantsOf
      <3> QED
        BY <2>1, <2>3, <3>1 DEF Abs!RowsOf
    <2>4. CASE c \notin blind
      <3>1. /\ access[c] \in SUBSET Entries
            /\ \A e1, e2 \in access[c] : e1.grant = e2.grant => e1 = e2
            /\ \A e \in access[c] : e.inherited <=> e.grant.container = Whole
        BY DEF IInv, TypeOK, EntriesAddUp
      <3> DEFINE Made(N) == {[grant |-> g, inherited |-> g.container = Whole, named |-> g \in N] :
                                g \in Shown(c)}
      <3>2. PICK N \in SUBSET Shown(c) : access[c] = Made(N)
        BY <2>1, <2>4, <3>1, EntriesOfGrants
      <3>3. Abs!RowsOf(c, blind) = {[access |-> Made(M)] : M \in SUBSET Shown(c)}
        BY <2>2, <2>4 DEF Abs!RowsOf
      <3> HIDE DEF Made
      <3> QED
        BY <2>1, <3>2, <3>3
    <2> QED
      BY <2>1, <2>3, <2>4
  <1>5. ~Threw => \A c \in listed : rows[c] # NoRow
    BY DEF IInv, EntriesAddUp, Fresh
  <1> HIDE DEF listed
  <1> QED
    BY <1>1, <1>2, <1>3, <1>4, <1>5 DEF Abs!Truthful

\* Steps inside the request leave what the caller sees.
LEMMA Inside ==
    ASSUME pc \in {"list", "loop"}, pc' \in {"list", "loop"}, UNCHANGED <<assigned, accessible>>
    PROVE  UNCHANGED <<assigned, accessible, View>>
  BY DEF View

\* A request that ends its work gives an answer, whatever was thrown.
LEMMA WorkEnds ==
    ASSUME IInv, IInv', pc \in {"list", "loop"}, pc' = "done", UNCHANGED <<assigned, accessible>>
    PROVE  Abs!Answer
  <1>1. View = Pending /\ View' = Answer'
    BY DEF View
  <1>2. Answer' \in Answers'
    <2>1. (TypeOK => Answer \in Answers /\ Answer \notin {Idle, Pending})'
      BY AnswerIsNew, PTL
    <2> QED
      BY <2>1 DEF IInv
  <1>3. Abs!Truthful(Answer)'
    <2>1. (IInv /\ pc = "done" => Abs!Truthful(Answer))'
      BY AnswerIsTruthful, PTL
    <2> QED
      BY <2>1
  <1>4. View' \in Abs!Answers
    BY <1>1, <1>2 DEF Answers, Abs!Answers, Rows, Entries, Abs!Entries
  <1>5. Abs!Truthful(View')
    <2>1. \A c : Abs!Shown(c)' = Abs!Shown(c)
      BY DEF Abs!Shown
    <2>2. \A c : Abs!RowsOf(c, Answer.blind)' = Abs!RowsOf(c, Answer'.blind)
      BY <2>1 DEF Abs!RowsOf
    <2>3. Abs!Truthful(Answer')
      BY <1>3, <2>2 DEF Abs!Truthful
    <2> QED
      BY <1>1, <2>3
  <1>6. View = Pending /\ View' \in Abs!Answers /\ Abs!Truthful(View') /\ UNCHANGED <<assigned, accessible>>
    BY <1>1, <1>4, <1>5
  <1> QED
    BY <1>6 DEF Abs!Answer, View

LEMMA InitRefines == Init => Abs!Init
  BY DEF Init, Abs!Init

LEMMA StepRefines == IInv /\ IInv' /\ [Next]_vars => [Abs!Next]_(Abs!vars)
  <1> SUFFICES ASSUME IInv, IInv', [Next]_vars
               PROVE  Abs!Next \/ UNCHANGED <<assigned, accessible, View>>
    BY DEF Abs!vars, View
  <1>1. ASSUME NEW S \in {NoList} \cup SUBSET Containers, Begin(S)
        PROVE  Abs!Next
    <2>1. Abs!Ask(S)
      BY <1>1 DEF Begin, Abs!Ask
    <2> QED
      BY <2>1 DEF Abs!Next
  <1>2. ASSUME pc # "idle", pc' = "idle", accessible' = NoList, assigned' = assigned
        PROVE  Abs!Next
    <2>1. View # Idle
      BY <1>2, AnswerIsNew, DetailsAssumption DEF IInv, View
    <2>2. Abs!End
      BY <1>2, <2>1 DEF Abs!End, View
    <2> QED
      BY <2>2 DEF Abs!Next
  <1>3. CASE GraphFails \/ Finish \/ HostRestart
    BY <1>2, <1>3 DEF GraphFails, Finish, HostRestart, Over
  <1>4. ASSUME NEW E \in SUBSET Containers, NEW f \in BOOLEAN, List(E, f)
        PROVE  UNCHANGED <<assigned, accessible, View>>
    BY <1>4, Inside DEF List
  <1>5. CASE ListFails \/ Settle
    <2>1. Abs!Answer
      BY <1>5, WorkEnds DEF ListFails, Settle, Settled
    <2> QED
      BY <2>1 DEF Abs!Next
  <1>6. ASSUME NEW c \in Containers, Work(c)
        PROVE  UNCHANGED <<assigned, accessible, View>>
    <2>1. pc = "loop" /\ UNCHANGED <<assigned, pc, accessible>>
      BY <1>6 DEF Work, FindDefinitions, ListDefinitions, ListDefinitionsFails, ReadAssignments,
                  ReadAssignmentsFails, Name, NameFails, AddRow, Go
    <2> QED
      BY <2>1, Inside
  <1>7. CASE OthersListDefinitions \/ UNCHANGED vars
    BY <1>7 DEF OthersListDefinitions, vars, View, Answer, Threw
  <1> QED
    BY <1>1, <1>3, <1>4, <1>5, <1>6, <1>7 DEF Next, Step

\* The number of workers, the order in which they run and where one of them
\* throws cannot be told from the answer: it is one that a single step gives.
THEOREM OneStepAnswer == Spec => ImplementsContainerReport
  <1>1. Spec => Abs!Init
    BY InitRefines, PTL DEF Spec
  <1>2. Spec => [][Abs!Next]_(Abs!vars)
    BY DetailsInvariant, StepRefines, PTL DEF Spec
  <1> QED
    BY <1>1, <1>2, PTL DEF ImplementsContainerReport, Abs!Spec
=============================================================================
