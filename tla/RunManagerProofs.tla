-------------------------- MODULE RunManagerProofs --------------------------
(***************************************************************************)
(* Type correctness of RunManager, that every session holds a prefix of    *)
(* the journal, and that a command takes effect once; and what RunManager  *)
(* promises about sessions, audits and replies: users counts the requests  *)
(* of a session, an audit is closed as interrupted only when it was, and a *)
(* command that was answered is in the journal.  All of it for any number  *)
(* of runs, requests, starts, crashes and faults.                          *)
(***************************************************************************)
EXTENDS RunManager, FiniteSetTheorems, NaturalsInduction, TLAPS

\* FoldSteps' facts about orders, which hold whatever operators it is given.
AsBefore(c, x, e) == x
One(c, m) == 1
Orders == INSTANCE FoldSteps WITH Op <- AsBefore, Inv <- AsBefore, Weight <- One

\* FoldSteps' LeftWithinLimit, of the finite sets of this module.
LEMMA LeftWithinLimit ==
    ASSUME NEW opened, IsFiniteSet(opened), NEW idle \in SUBSET opened, NEW limit \in Nat,
           NEW below \in [idle -> SUBSET idle],
           \A x \in idle : x \notin below[x],
           \A x, y \in idle : x # y => x \in below[y] \/ y \in below[x],
           \A x, y \in idle : y \in below[x] => below[y] \subseteq below[x],
           NEW removed, NEW left \in idle \ removed,
           removed = {x \in idle : Cardinality(below[x]) < Cardinality(opened) - limit}
    PROVE  IsFiniteSet(opened \ removed) /\ Cardinality(opened \ removed) <= limit
<1>1. \A S : Orders!Cardinality(S) = Cardinality(S)
  BY DEF Cardinality, Orders!Cardinality
<1>2. \A S : Orders!IsFiniteSet(S) <=> IsFiniteSet(S)
  BY DEF IsFiniteSet, Orders!IsFiniteSet
<1> QED
  BY <1>1, <1>2, Orders!LeftWithinLimit, SMT

USE RequestsAssumption, BoundsAssumption

LEMMA SurvivorsOpened ==
    ASSUME NEW opened, NEW using, NEW locked, NEW stamp, NEW protected
    PROVE  Survivors(opened, using, locked, stamp, protected) \subseteq opened
BY DEF Survivors

LEMMA FactType ==
    ASSUME NEW type \in EventTypes, NEW cmd \in Commands \cup Requests
    PROVE  Fact(type, cmd) \in Event
BY DEF Fact, Event

LEMMA Updated ==
    ASSUME NEW S, NEW T, NEW f \in [S -> T], NEW x \in S, NEW v \in T
    PROVE  [f EXCEPT ![x] = v] \in [S -> T]
OBVIOUS

LEMMA OfType ==
    ASSUME NEW s \in Seq(Event), NEW type, NEW cmd \in Of(s, type)
    PROVE  /\ cmd \in Commands \cup Requests
           /\ \E i \in 1..Len(s) : s[i].cmd = cmd /\ s[i].type = type
<1>1. PICK i \in DOMAIN s : s[i].type = type /\ s[i].cmd = cmd
  BY DEF Of
<1>2. i \in 1..Len(s) /\ s[i] \in Event
  BY <1>1
<1> QED
  BY <1>1, <1>2 DEF Event

LEMMA MissingType ==
    ASSUME NEW s \in Seq(Event), NEW server \in Missing(s)
    PROVE  /\ server \in Of(s, "ServerCreated")
           /\ server \notin Of(s, "CredentialIssued")
           /\ server \in Commands \cup Requests
<1>1. server \in Of(s, "ServerCreated") /\ server \notin Of(s, "CredentialIssued")
  BY DEF Missing
<1> QED
  BY <1>1, OfType

LEMMA ExecuteType ==
    ASSUME TypeOK, NEW q \in Requests, NEW event \in Event, Execute(q, event)
    PROVE  journal' \in [Runs -> Seq(Event)] /\ view' \in [Runs -> Seq(Event)]
<1>1. Run(q) \in Runs
  BY DEF Run
<1>2. /\ Append(journal[Run(q)], event) \in Seq(Event)
      /\ Append(view[Run(q)], event) \in Seq(Event)
  BY <1>1 DEF TypeOK
<1> QED
  BY <1>1, <1>2 DEF TypeOK, Execute

LEMMA ReleaseType ==
    ASSUME TypeOK, NEW q \in Requests, Release(q)
    PROVE  /\ sessions' \subseteq Runs
           /\ view' \in [Runs -> Seq(Event)]
           /\ users' \in [Runs -> Nat]
           /\ access' \in Nat /\ lastAccess' \in [Runs -> Nat]
<1> DEFINE left == [users EXCEPT ![Run(q)] = IF @ > 0 THEN @ - 1 ELSE @]
           kept == Survivors(sessions, left, gate', lastAccess, Nobody)
<1>1. kept \subseteq sessions
  BY SurvivorsOpened
<1>2. sessions' = kept /\ view' = [r \in Runs |-> IF r \in kept THEN view[r] ELSE <<>>]
  BY DEF Release, Keep
<1>3. left \in [Runs -> Nat]
  <2>1. users \in [Runs -> Nat] /\ Run(q) \in Runs
    BY DEF TypeOK, Run
  <2>2. users[Run(q)] \in Nat
    BY <2>1
  <2>3. (IF users[Run(q)] > 0 THEN users[Run(q)] - 1 ELSE users[Run(q)]) \in Nat
    BY <2>2
  <2> QED
    BY <2>1, <2>3, Updated
<1>4. users' = left
  BY DEF Release
<1>5. <<>> \in Seq(Event)
  OBVIOUS
<1>6. view' \in [Runs -> Seq(Event)]
  <2> HIDE DEF kept
  <2> QED BY <1>2, <1>5 DEF TypeOK
<1> QED
  BY <1>1, <1>2, <1>3, <1>4, <1>6 DEF TypeOK, Release

LEMMA TouchAtType ==
    ASSUME TypeOK, NEW q \in Requests
    PROVE  TouchAt(q) \in Nat
BY DEF TypeOK, TouchAt, Later

LEMMA EventTypeAdvance ==
    ASSUME TypeOK, NEW q \in Requests, NEW ends \in BOOLEAN
    PROVE  TimeAdvanced(AdvanceID(q), got[q], Later(at[q], got[q]), ends) \in Event
BY DEF TypeOK, TimeAdvanced, AdvanceID, Later, Event, EventTypes

LEMMA TypeInit == Init => TypeOK
BY DEF Init, TypeOK, Positions, InFlight, Outcomes, Nobody

(***************************************************************************)
(* The actions of a request, in the groups of its specification.           *)
(***************************************************************************)
LEMMA TypeOpen ==
    ASSUME TypeOK, NEW q \in Requests, Open(q)
    PROVE  TypeOK'
<1>0. Run(q) \in Runs
  BY DEF Run
<1>1. CASE OpenExisting(q)
  <2>1. users \in [Runs -> Nat] /\ lastAccess \in [Runs -> Nat] /\ access \in Nat
    BY DEF TypeOK
  <2>2. users[Run(q)] + 1 \in Nat /\ access + 1 \in Nat
    BY <1>0, <2>1
  <2>3. users' \in [Runs -> Nat] /\ lastAccess' \in [Runs -> Nat] /\ access' \in Nat
    BY <1>0, <1>1, <2>1, <2>2, Updated DEF OpenExisting
  <2>4. pc' \in [Requests -> Positions]
    BY <1>1 DEF TypeOK, OpenExisting, Goto, Positions, InFlight, Opened
  <2>5. UNCHANGED <<durable, sessions, view, gate, opening, local, starts, env>>
    BY <1>1 DEF OpenExisting
  <2> QED
    BY <2>3, <2>4, <2>5 DEF TypeOK, durable, opening, local, starts, env
<1>2. CASE BeginOpen(q)
  BY <1>0, <1>2 DEF TypeOK, BeginOpen, Goto, durable, managed, local, starts, env,
        Positions, InFlight
<1>3. CASE InstallSession(q)
  <2> DEFINE using == [users EXCEPT ![Run(q)] = 1]
             stamp == [lastAccess EXCEPT ![Run(q)] = access + 1]
             kept == Survivors(sessions \cup {Run(q)}, using, gate, stamp, Run(q))
  <2>1. kept \subseteq sessions \cup {Run(q)}
    BY SurvivorsOpened
  <2>2. using \in [Runs -> Nat] /\ stamp \in [Runs -> Nat] /\ access + 1 \in Nat
    <3>1. users \in [Runs -> Nat] /\ lastAccess \in [Runs -> Nat] /\ access \in Nat
      BY DEF TypeOK
    <3>2. access + 1 \in Nat /\ 1 \in Nat
      BY <3>1
    <3> QED
      BY <1>0, <3>1, <3>2, Updated
  <2>3. /\ sessions' = kept /\ users' = using /\ lastAccess' = stamp /\ access' = access + 1
        /\ view' = [x \in Runs |-> IF x = Run(q) THEN fresh
                                  ELSE IF x \in kept THEN view[x] ELSE <<>>]
        /\ opener' = Nobody /\ fresh' = <<>>
        /\ pc' = [pc EXCEPT ![q] = "opened"]
        /\ UNCHANGED <<durable, gate, local, starts, env>>
    BY <1>3 DEF InstallSession, Goto
  <2>4. view' \in [Runs -> Seq(Event)]
    <3>1. <<>> \in Seq(Event)
      OBVIOUS
    <3>2. fresh \in Seq(Event) /\ \A r \in Runs : view[r] \in Seq(Event)
      BY DEF TypeOK
    <3> HIDE DEF kept
    <3> QED BY <2>3, <3>1, <3>2
  <2> HIDE DEF kept, using, stamp
  <2>5. sessions' \subseteq Runs
    BY <1>0, <2>1, <2>3 DEF TypeOK
  <2>6. pc' \in [Requests -> Positions]
    BY <2>3 DEF TypeOK, Positions, InFlight, Opened
  <2>7. /\ users' \in [Runs -> Nat] /\ access' \in Nat /\ lastAccess' \in [Runs -> Nat]
        /\ opener' \in Requests \cup {Nobody} /\ fresh' \in Seq(Event)
    BY <2>2, <2>3
  <2>8. UNCHANGED <<durable, gate, local, starts, env>>
    BY <2>3
  <2> QED
    BY <2>4, <2>5, <2>6, <2>7, <2>8 DEF TypeOK, durable, local, starts, env
<1>4. CASE OpenFails(q)
  BY <1>4 DEF TypeOK, OpenFails, Fault, Reply, Goto, durable, managed, starts, Positions, Outcomes
<1>5. ASSUME NEW a \in Audited, RecoverTouch(q, a)
      PROVE  TypeOK'
  <2>1. a \in Requests
    BY <1>5 DEF RecoverTouch, NeedsTouch, WasApplied
  <2>2. at[a] \in Nat
    BY <2>1 DEF TypeOK
  <2> QED
    BY <1>0, <1>5, <2>2 DEF TypeOK, RecoverTouch, managed, opening, local, starts, env
<1>6. ASSUME NEW a \in Audited, RecoverComplete(q, a)
      PROVE  TypeOK'
  BY <1>6 DEF TypeOK, RecoverComplete, managed, opening, local, starts, env
<1> QED
  BY <1>1, <1>2, <1>3, <1>4, <1>5, <1>6 DEF Open

LEMMA TypeEnter ==
    ASSUME TypeOK, NEW q \in Requests, Enter(q)
    PROVE  TypeOK'
<1>0. Run(q) \in Runs
  BY DEF Run
<1>1. CASE ReadCatalog(q)
  BY <1>0, <1>1 DEF TypeOK, ReadCatalog, Goto, durable, managed, opening, starts, env,
        Positions, InFlight, Opened
<1>2. CASE Busy(q)
  <2>1. Release(q)
    BY <1>2 DEF Busy
  <2> QED
    BY <1>2, <2>1, ReleaseType DEF TypeOK, Busy, Reply, Goto, durable, opening, starts, env,
        Positions, Outcomes
<1>3. CASE Receive(q)
  BY <1>0, <1>3 DEF TypeOK, Receive, Goto, opening, local, starts, env, Audited,
        Positions, InFlight, Opened, Gated
<1>4. CASE ReceiveFails(q)
  <2>1. Release(q) /\ Fault /\ UNCHANGED gate
    BY <1>4 DEF ReceiveFails
  <2>2. outcome' \in [Requests -> Outcomes] /\ pc' \in [Requests -> Positions]
    BY <1>4 DEF TypeOK, ReceiveFails, Reply, Goto, Outcomes, Positions
  <2>3. UNCHANGED <<durable, opening, got, starts>>
    BY <1>4 DEF ReceiveFails
  <2>4. faults' \in Nat /\ UNCHANGED <<now, backs, crashes>>
    BY <2>1 DEF Fault, TypeOK
  <2>5. gate' \in [Runs -> BOOLEAN]
    BY <2>1 DEF TypeOK
  <2> QED
    BY <2>1, <2>2, <2>3, <2>4, <2>5, ReleaseType DEF TypeOK, durable, opening, starts
<1> QED
  BY <1>1, <1>2, <1>3, <1>4 DEF Enter

LEMMA TypeAdvance ==
    ASSUME TypeOK, NEW q \in Requests, Advance(q)
    PROVE  TypeOK'
<1> USE DEF Positions, InFlight, Opened, Gated, Outcomes, Goto, Reply
<1>0. Run(q) \in Runs
  BY DEF Run
<1>1. CASE RejectAdvance(q)
  BY <1>1 DEF TypeOK, RejectAdvance, Unjournalled, durable, managed, opening, starts, env
<1>2. CASE SkipAdvance(q)
  BY <1>2 DEF TypeOK, SkipAdvance, Unjournalled, durable, managed, opening, local, starts, env
<1>3. CASE AdvanceTime(q)
  <2>1. PICK ends \in BOOLEAN :
          Execute(q, TimeAdvanced(AdvanceID(q), got[q], Later(at[q], got[q]), ends))
    BY <1>3 DEF AdvanceTime
  <2>2. journal' \in [Runs -> Seq(Event)] /\ view' \in [Runs -> Seq(Event)]
    BY <2>1, EventTypeAdvance, ExecuteType
  <2> QED
    BY <1>3, <2>1, <2>2 DEF TypeOK, AdvanceTime, Execute, opening, local, starts, env
<1>4. CASE AdvanceStale(q)
  BY <1>4 DEF TypeOK, AdvanceStale, Unjournalled, durable, managed, opening, starts, env
<1>5. CASE Touch(q)
  <2>1. lastReal' \in [Runs -> Nat]
    BY <1>0, <1>5, TouchAtType, Updated DEF TypeOK, Touch
  <2>2. pc' \in [Requests -> Positions]
    <3>1. pc \in [Requests -> Positions]
      BY DEF TypeOK
    <3>2. \E x \in Positions : pc' = [pc EXCEPT ![q] = x]
      BY <1>5 DEF Touch
    <3> QED
      BY <3>1, <3>2, Updated
  <2>3. outcome' \in [Requests -> Outcomes]
    <3>1. outcome \in [Requests -> Outcomes]
      BY DEF TypeOK
    <3>2. UNCHANGED outcome \/ \E x \in Outcomes : outcome' = [outcome EXCEPT ![q] = x]
      BY <1>5 DEF Touch
    <3> QED
      BY <3>1, <3>2, Updated
  <2>4. UNCHANGED <<journal, audit, at, managed, opening, got, starts, env>>
    BY <1>5 DEF Touch
  <2> QED
    BY <2>1, <2>2, <2>3, <2>4 DEF TypeOK, managed, opening, starts, env
<1> QED
  BY <1>1, <1>2, <1>3, <1>4, <1>5 DEF Advance

LEMMA TypeAct ==
    ASSUME TypeOK, NEW q \in Requests, Act(q)
    PROVE  TypeOK'
<1> USE DEF Positions, InFlight, Opened, Gated, Outcomes, Goto, Reply
<1>1. CASE IssueCredential(q)
  <2>1. PICK server \in Missing(view[Run(q)]) : Execute(q, Fact("CredentialIssued", server))
    BY <1>1 DEF IssueCredential
  <2>2. view[Run(q)] \in Seq(Event)
    BY DEF TypeOK, Run
  <2>3. Fact("CredentialIssued", server) \in Event
    BY <2>2, MissingType, FactType DEF EventTypes
  <2>4. journal' \in [Runs -> Seq(Event)] /\ view' \in [Runs -> Seq(Event)]
    BY <2>1, <2>3, ExecuteType
  <2> QED
    BY <1>1, <2>1, <2>4 DEF TypeOK, IssueCredential, Execute, opening, local, starts, env
<1>2. CASE ReplySaved(q)
  BY <1>2 DEF TypeOK, ReplySaved, Unjournalled, durable, managed, opening, starts, env
<1>3. CASE RejectCommand(q)
  BY <1>3 DEF TypeOK, RejectCommand, Unjournalled, durable, managed, opening, starts, env
<1>4. CASE ExecuteCommand(q)
  <2>1. Execute(q, Fact(PayloadType(q), CommandOf[q]))
    BY <1>4 DEF ExecuteCommand
  <2>2. Fact(PayloadType(q), CommandOf[q]) \in Event
    BY FactType DEF PayloadType, EventTypes
  <2>3. journal' \in [Runs -> Seq(Event)] /\ view' \in [Runs -> Seq(Event)]
    BY <2>1, <2>2, ExecuteType
  <2> QED
    BY <1>4, <2>1, <2>3 DEF TypeOK, ExecuteCommand, Execute, opening, local, starts, env
<1>5. CASE RepeatCommand(q)
  BY <1>5 DEF TypeOK, RepeatCommand, Unjournalled, durable, managed, opening, local, starts, env
<1>6. CASE RecordResponse(q)
  <2>1. Execute(q, Fact("ResponseRecorded", CommandOf[q]))
    BY <1>6 DEF RecordResponse
  <2>2. Fact("ResponseRecorded", CommandOf[q]) \in Event
    BY FactType DEF EventTypes
  <2>3. journal' \in [Runs -> Seq(Event)] /\ view' \in [Runs -> Seq(Event)]
    BY <2>1, <2>2, ExecuteType
  <2> QED
    BY <1>6, <2>1, <2>3 DEF TypeOK, RecordResponse, Execute, opening, local, starts, env
<1>7. CASE ActionStale(q)
  BY <1>7 DEF TypeOK, ActionStale, Unjournalled, durable, managed, opening, starts, env
<1> QED
  BY <1>1, <1>2, <1>3, <1>4, <1>5, <1>6, <1>7 DEF Act

LEMMA TypeLeave ==
    ASSUME TypeOK, NEW q \in Requests, Leave(q)
    PROVE  TypeOK'
<1>0. Run(q) \in Runs
  BY DEF Run
<1>1. CASE StepFails(q)
  BY <1>1 DEF TypeOK, StepFails, Fault, Reply, Goto, durable, managed, opening, starts,
        Positions, InFlight, Opened, Gated, Outcomes
<1>2. CASE Finish(q)
  <2>1. Release(q) /\ Complete(q)
    BY <1>2 DEF Finish
  <2>2. gate' \in [Runs -> BOOLEAN]
    BY <1>0, <1>2 DEF TypeOK, Finish
  <2>3. audit' \in [Audited -> {"none", "received", "completed", "interrupted"}]
    BY <2>1 DEF TypeOK, Complete
  <2>4. outcome' \in [Requests -> Outcomes]
    <3>1. outcome[q] \in Outcomes /\ "error" \in Outcomes
      BY DEF TypeOK, Outcomes
    <3>2. UNCHANGED outcome \/ \E x \in Outcomes : outcome' = [outcome EXCEPT ![q] = x]
      BY <1>2, <3>1 DEF Finish, Unanswered, Reply
    <3>3. outcome \in [Requests -> Outcomes]
      BY DEF TypeOK
    <3> QED
      BY <3>2, <3>3, Updated
  <2>5. pc' \in [Requests -> Positions]
    BY <1>2 DEF TypeOK, Finish, Goto, Positions
  <2>6. UNCHANGED <<journal, lastReal, at, opening, got, starts, env>>
    BY <1>2 DEF Finish
  <2> QED
    BY <2>1, <2>2, <2>3, <2>4, <2>5, <2>6, ReleaseType DEF TypeOK, opening, starts, env
<1>3. CASE FinishFails(q)
  <2>1. Release(q) /\ Fault /\ UNCHANGED <<durable, opening, got, starts>>
    BY <1>3 DEF FinishFails
  <2>2. gate' \in [Runs -> BOOLEAN]
    BY <1>0, <1>3 DEF TypeOK, FinishFails
  <2>3. outcome' \in [Requests -> Outcomes]
    BY <1>3 DEF TypeOK, FinishFails, Unanswered, Reply, Outcomes
  <2>4. pc' \in [Requests -> Positions]
    BY <1>3 DEF TypeOK, FinishFails, Goto, Positions
  <2>5. faults' \in Nat /\ UNCHANGED <<now, backs, crashes>>
    BY <2>1 DEF Fault, TypeOK
  <2> QED
    BY <2>1, <2>2, <2>3, <2>4, <2>5, ReleaseType DEF TypeOK, durable, opening, starts
<1> QED
  BY <1>1, <1>2, <1>3 DEF Leave

LEMMA TypeStart ==
    ASSUME TypeOK, NEW s \in Starts, Start(s)
    PROVE  TypeOK'
<1> USE DEF StartsOpen
<1>0. Run(s) \in Runs
  BY DEF Run
<1>1. CASE StartOpen(s)
  BY <1>0, <1>1 DEF TypeOK, StartOpen, durable, managed, opening, local, env
<1>2. CASE StartIssue(s)
  <2>1. PICK server \in Missing(startView[s]) :
          LET event == Fact("CredentialIssued", server)
          IN /\ journal' = [journal EXCEPT ![Run(s)] = Append(@, event)]
             /\ startView' = [startView EXCEPT ![s] = Append(@, event)]
    BY <1>2 DEF StartIssue
  <2>2. startView[s] \in Seq(Event) /\ journal[Run(s)] \in Seq(Event)
    BY <1>0 DEF TypeOK
  <2>3. Fact("CredentialIssued", server) \in Event
    BY <2>2, MissingType, FactType DEF EventTypes
  <2>4. /\ Append(startView[s], Fact("CredentialIssued", server)) \in Seq(Event)
        /\ Append(journal[Run(s)], Fact("CredentialIssued", server)) \in Seq(Event)
    BY <2>2, <2>3
  <2> QED
    BY <1>0, <1>2, <2>1, <2>4 DEF TypeOK, StartIssue, managed, opening, local, env
<1>3. CASE StartIssued(s)
  BY <1>3 DEF TypeOK, StartIssued, durable, managed, opening, local, env
<1>4. CASE StartReceive(s)
  BY <1>4 DEF TypeOK, StartReceive, Audited, managed, opening, local, env
<1>5. CASE StartFinish(s)
  BY <1>5 DEF TypeOK, StartFinish, Complete, managed, opening, local, env
<1> QED
  BY <1>1, <1>2, <1>3, <1>4, <1>5 DEF Start

LEMMA TypeEnvironment ==
    ASSUME TypeOK, Tick \/ StepBack \/ Crash \/ UNCHANGED vars
    PROVE  TypeOK'
<1>1. CASE Tick
  BY <1>1 DEF TypeOK, Tick, durable, managed, opening, local, starts
<1>2. CASE StepBack
  BY <1>2 DEF TypeOK, StepBack, durable, managed, opening, local, starts
<1>3. CASE Crash
  <2>1. <<>> \in Seq(Event)
    OBVIOUS
  <2> QED
    BY <1>3, <2>1 DEF TypeOK, Crash, durable, Positions, Outcomes, InFlight, StartsOpen
<1>4. CASE UNCHANGED vars
  BY <1>4 DEF TypeOK, vars, durable, managed, opening, local, starts, env
<1> QED
  BY <1>1, <1>2, <1>3, <1>4

LEMMA TypeNext == TypeOK /\ [Next]_vars => TypeOK'
<1> SUFFICES ASSUME TypeOK, [Next]_vars PROVE TypeOK'
  OBVIOUS
<1>1. ASSUME NEW q \in Requests, Handle(q) PROVE TypeOK'
  BY <1>1, TypeOpen, TypeEnter, TypeAdvance, TypeAct, TypeLeave DEF Handle
<1> QED
  BY <1>1, TypeStart, TypeEnvironment DEF Next

\* The run manager's state keeps its shape.
THEOREM TypeCorrect == Spec => []TypeOK
BY TypeInit, TypeNext, PTL DEF Spec

-----------------------------------------------------------------------------
(***************************************************************************)
(* The gate: a request past it holds it, and two such requests of one run  *)
(* are the same.                                                           *)
(***************************************************************************)
LEMMA GateInit == Init => GateExcludes
BY DEF Init, GateExcludes, Gated

\* A request that moves without touching the gates stays where it was.
LEMMA GateKept ==
    ASSUME TypeOK, GateExcludes, NEW q \in Requests, UNCHANGED gate,
           pc' = [pc EXCEPT ![q] = pc'[q]], pc'[q] \in Gated => pc[q] \in Gated
    PROVE  GateExcludes'
<1>1. \A p \in Requests : pc'[p] \in Gated => pc[p] \in Gated
  BY DEF TypeOK
<1> QED
  BY <1>1 DEF GateExcludes, Run

\* A request that leaves the handler opens the gate that it alone held.
LEMMA GateLeft ==
    ASSUME TypeOK, GateExcludes, NEW q \in Requests, pc[q] \in Gated,
           gate' = [gate EXCEPT ![Run(q)] = FALSE], pc' = [pc EXCEPT ![q] = "done"]
    PROVE  GateExcludes'
<1>1. \A p \in Requests : pc'[p] \in Gated => pc[p] \in Gated /\ p # q
  BY DEF TypeOK, Gated
<1>2. \A p \in Requests : pc'[p] \in Gated => Run(p) # Run(q)
  BY <1>1 DEF GateExcludes
<1> QED
  BY <1>1, <1>2 DEF GateExcludes, Run, TypeOK

LEMMA GateNext ==
    ASSUME TypeOK, GateExcludes, [Next]_vars
    PROVE  GateExcludes'
<1>1. ASSUME NEW q \in Requests, Open(q) PROVE GateExcludes'
  <2>1. CASE OpenExisting(q) \/ BeginOpen(q) \/ InstallSession(q) \/ OpenFails(q)
    <3>1. UNCHANGED gate /\ \E to \in {"opened", "opening", "done"} : Goto(q, to)
      BY <2>1 DEF OpenExisting, BeginOpen, InstallSession, OpenFails, managed
    <3>2. pc' = [pc EXCEPT ![q] = pc'[q]] /\ pc'[q] \notin Gated
      BY <3>1 DEF TypeOK, Goto, Gated
    <3> QED
      BY <3>1, <3>2, GateKept
  <2>2. ASSUME NEW a \in Audited, RecoverTouch(q, a) \/ RecoverComplete(q, a)
        PROVE  GateExcludes'
    <3>1. UNCHANGED <<gate, pc>>
      BY <2>2 DEF RecoverTouch, RecoverComplete, managed
    <3> QED
      BY <3>1 DEF GateExcludes, Run
  <2> QED
    BY <1>1, <2>1, <2>2 DEF Open
<1>2. ASSUME NEW q \in Requests, ReadCatalog(q) \/ Busy(q) \/ ReceiveFails(q) PROVE GateExcludes'
  <2>1. UNCHANGED gate /\ pc' = [pc EXCEPT ![q] = pc'[q]] /\ pc'[q] \notin Gated
    BY <1>2 DEF ReadCatalog, Busy, ReceiveFails, Goto, Gated, TypeOK, managed
  <2> QED
    BY <2>1, GateKept
<1>3. ASSUME NEW q \in Requests, Receive(q) PROVE GateExcludes'
  <2>1. /\ ~gate[Run(q)] /\ gate' = [gate EXCEPT ![Run(q)] = TRUE]
        /\ pc' = [pc EXCEPT ![q] = "locked"]
    BY <1>3 DEF Receive, Goto
  <2>2. \A p \in Requests : pc'[p] \in Gated => p = q \/ (pc[p] \in Gated /\ Run(p) # Run(q))
    BY <2>1 DEF TypeOK, GateExcludes
  <2>3. Run(q) \in Runs
    BY DEF Run
  <2> QED
    BY <2>1, <2>2, <2>3 DEF GateExcludes, Run, TypeOK
<1>4. ASSUME NEW q \in Requests, Advance(q) \/ Act(q) \/ StepFails(q) PROVE GateExcludes'
  <2>1. UNCHANGED gate /\ pc[q] \in Gated
    BY <1>4 DEF Advance, Act, RejectAdvance, SkipAdvance, AdvanceTime, AdvanceStale, Touch,
        IssueCredential, ReplySaved, RejectCommand, ExecuteCommand, RepeatCommand,
        RecordResponse, ActionStale, StepFails, Execute, Unjournalled, managed, At, Acts, Gated
  <2>2. pc' = [pc EXCEPT ![q] = pc'[q]]
    BY <1>4 DEF Advance, Act, RejectAdvance, SkipAdvance, AdvanceTime, AdvanceStale, Touch,
        IssueCredential, ReplySaved, RejectCommand, ExecuteCommand, RepeatCommand,
        RecordResponse, ActionStale, StepFails, Goto, TypeOK
  <2> QED
    BY <2>1, <2>2, GateKept
<1>5. ASSUME NEW q \in Requests, Finish(q) \/ FinishFails(q) PROVE GateExcludes'
  <2>1. /\ pc[q] \in Gated /\ gate' = [gate EXCEPT ![Run(q)] = FALSE]
        /\ pc' = [pc EXCEPT ![q] = "done"]
    BY <1>5 DEF Finish, FinishFails, At, Goto, Gated
  <2> QED
    BY <2>1, GateLeft
<1>6. ASSUME NEW s \in Starts, Start(s) PROVE GateExcludes'
  <2>1. UNCHANGED <<gate, pc>>
    BY <1>6 DEF Start, StartOpen, StartIssue, StartIssued, StartReceive, StartFinish, managed
  <2> QED
    BY <2>1 DEF GateExcludes, Run
<1>7. CASE Tick \/ StepBack \/ UNCHANGED vars
  <2>1. UNCHANGED <<gate, pc>>
    BY <1>7 DEF Tick, StepBack, vars, managed
  <2> QED
    BY <2>1 DEF GateExcludes, Run
<1>8. CASE Crash
  <2>1. \A q \in Requests : pc'[q] \notin Gated
    BY <1>8 DEF Crash, Gated, InFlight, Opened
  <2> QED
    BY <2>1 DEF GateExcludes
<1> QED
  BY <1>1, <1>2, <1>3, <1>4, <1>5, <1>6, <1>7, <1>8 DEF Next, Handle, Enter, Leave

-----------------------------------------------------------------------------
(***************************************************************************)
(* Every session holds a prefix of its run's journal.                      *)
(***************************************************************************)
LEMMA PrefixOfAppend ==
    ASSUME NEW s \in Seq(Event), NEW t \in Seq(Event), NEW e \in Event, IsPrefix(s, t)
    PROVE  IsPrefix(s, Append(t, e))
BY DEF IsPrefix

LEMMA PrefixAppended ==
    ASSUME NEW s \in Seq(Event), NEW t \in Seq(Event), NEW e \in Event,
           IsPrefix(s, t), Len(s) = Len(t)
    PROVE  IsPrefix(Append(s, e), Append(t, e))
BY DEF IsPrefix

LEMMA PrefixWhole ==
    ASSUME NEW s \in Seq(Event), NEW t \in Seq(Event), IsPrefix(s, t), Len(s) = Len(t)
    PROVE  s = t
BY DEF IsPrefix

LEMMA PrefixEmpty == ASSUME NEW t \in Seq(Event) PROVE IsPrefix(<<>>, t)
BY DEF IsPrefix

LEMMA PrefixSelf == ASSUME NEW t \in Seq(Event) PROVE IsPrefix(t, t)
BY DEF IsPrefix

LEMMA PrefixInit == Init => ViewIsPrefix
BY DEF Init, ViewIsPrefix, IsPrefix, Nobody, Run

\* Sessions that are dropped or left alone keep holding a prefix.
LEMMA PrefixKept ==
    ASSUME TypeOK, ViewIsPrefix, UNCHANGED <<journal, opening, startView>>,
           \A r \in Runs : view'[r] = view[r] \/ view'[r] = <<>>
    PROVE  ViewIsPrefix'
<1>1. \A r \in Runs : IsPrefix(<<>>, journal[r])
  BY PrefixEmpty DEF TypeOK
<1> QED
  BY <1>1 DEF ViewIsPrefix, opening, Run

LEMMA PrefixReleased ==
    ASSUME TypeOK, ViewIsPrefix, NEW q \in Requests, Release(q),
           UNCHANGED <<journal, opening, startView>>
    PROVE  ViewIsPrefix'
BY PrefixKept DEF Release, Keep

LEMMA PrefixExecuted ==
    ASSUME TypeOK, ViewIsPrefix, NEW q \in Requests, NEW e \in Event, Execute(q, e)
    PROVE  ViewIsPrefix'
<1>1. /\ Len(view[Run(q)]) = Len(journal[Run(q)])
      /\ journal' = [journal EXCEPT ![Run(q)] = Append(@, e)]
      /\ view' = [view EXCEPT ![Run(q)] = Append(@, e)]
      /\ UNCHANGED <<opening, startView>>
  BY DEF Execute, Stale, opening, starts
<1>2. Run(q) \in Runs /\ \A s \in Starts : Run(s) \in Runs
  BY DEF Run
<1>3. \A r \in Runs : IsPrefix(view'[r], journal'[r])
  BY <1>1, <1>2, PrefixAppended DEF TypeOK, ViewIsPrefix
<1>4. \A s \in Starts : IsPrefix(startView[s], journal'[Run(s)])
  BY <1>1, <1>2, PrefixOfAppend DEF TypeOK, ViewIsPrefix
<1>5. opener # Nobody => IsPrefix(fresh, journal'[Run(opener)])
  <2>1. opener # Nobody => opener \in Requests /\ Run(opener) \in Runs
    BY DEF TypeOK, Run
  <2> QED
    BY <1>1, <1>2, <2>1, PrefixOfAppend DEF TypeOK, ViewIsPrefix
<1> QED
  BY <1>1, <1>3, <1>4, <1>5 DEF ViewIsPrefix, opening, Run

LEMMA PrefixNext ==
    ASSUME TypeOK, ViewIsPrefix, [Next]_vars
    PROVE  ViewIsPrefix'
<1>1. ASSUME NEW q \in Requests, Open(q) PROVE ViewIsPrefix'
  <2>0. Run(q) \in Runs
    BY DEF Run
  <2>1. CASE OpenExisting(q)
    BY <2>1, PrefixKept DEF OpenExisting, durable, starts
  <2>2. CASE BeginOpen(q)
    <3>1. /\ opener' = q /\ fresh' = journal[Run(q)] /\ UNCHANGED <<journal, view, startView>>
      BY <2>2 DEF BeginOpen, durable, managed, starts
    <3> QED
      BY <2>0, <3>1, PrefixSelf DEF TypeOK, ViewIsPrefix, Run
  <2>3. CASE InstallSession(q)
    <3> DEFINE using == [users EXCEPT ![Run(q)] = 1]
               stamp == [lastAccess EXCEPT ![Run(q)] = access + 1]
               kept == Survivors(sessions \cup {Run(q)}, using, gate, stamp, Run(q))
    <3>0. /\ opener = q /\ opener' = Nobody /\ UNCHANGED <<journal, startView>>
          /\ view' = [x \in Runs |-> IF x = Run(q) THEN fresh
                                    ELSE IF x \in kept THEN view[x] ELSE <<>>]
      BY <2>3 DEF InstallSession, IsOpening, durable, starts
    <3> HIDE DEF using, stamp, kept
    <3>1. \A r \in Runs :
            \/ view'[r] = view[r]
            \/ view'[r] = <<>>
            \/ r = Run(q) /\ view'[r] = fresh
      BY <3>0
    <3>2. IsPrefix(fresh, journal[Run(q)])
      BY <3>0 DEF ViewIsPrefix
    <3>3. \A r \in Runs : IsPrefix(<<>>, journal[r])
      BY PrefixEmpty DEF TypeOK
    <3> QED
      BY <3>0, <3>1, <3>2, <3>3 DEF ViewIsPrefix, Run
  <2>4. CASE OpenFails(q)
    BY <2>4 DEF OpenFails, ViewIsPrefix, durable, managed, starts, Run
  <2>5. ASSUME NEW a \in Audited, RecoverTouch(q, a) \/ RecoverComplete(q, a)
        PROVE  ViewIsPrefix'
    BY <2>5, PrefixKept DEF RecoverTouch, RecoverComplete, managed, starts
  <2> QED
    BY <1>1, <2>1, <2>2, <2>3, <2>4, <2>5 DEF Open
<1>2. ASSUME NEW q \in Requests, Enter(q) PROVE ViewIsPrefix'
  <2>1. CASE ReadCatalog(q) \/ Receive(q)
    BY <2>1, PrefixKept DEF ReadCatalog, Receive, durable, managed, starts
  <2>2. CASE Busy(q) \/ ReceiveFails(q)
    BY <2>2, PrefixReleased DEF Busy, ReceiveFails, durable, starts
  <2> QED
    BY <1>2, <2>1, <2>2 DEF Enter
<1>3. ASSUME NEW q \in Requests, Advance(q) PROVE ViewIsPrefix'
  <2>1. CASE AdvanceTime(q)
    BY <2>1, EventTypeAdvance, PrefixExecuted DEF AdvanceTime
  <2>2. CASE RejectAdvance(q) \/ SkipAdvance(q) \/ AdvanceStale(q) \/ Touch(q)
    BY <2>2, PrefixKept DEF RejectAdvance, SkipAdvance, AdvanceStale, Touch, Unjournalled,
        durable, managed, starts
  <2> QED
    BY <1>3, <2>1, <2>2 DEF Advance
<1>4. ASSUME NEW q \in Requests, Act(q) PROVE ViewIsPrefix'
  <2>1. CASE IssueCredential(q)
    <3>1. PICK server \in Missing(view[Run(q)]) : Execute(q, Fact("CredentialIssued", server))
      BY <2>1 DEF IssueCredential
    <3>2. view[Run(q)] \in Seq(Event)
      BY DEF TypeOK, Run
    <3>3. Fact("CredentialIssued", server) \in Event
      BY <3>2, MissingType, FactType DEF EventTypes
    <3> QED
      BY <3>1, <3>3, PrefixExecuted
  <2>2. CASE ExecuteCommand(q)
    <3>1. Fact(PayloadType(q), CommandOf[q]) \in Event
      BY FactType DEF PayloadType, EventTypes
    <3> QED
      BY <2>2, <3>1, PrefixExecuted DEF ExecuteCommand
  <2>3. CASE RecordResponse(q)
    <3>1. Fact("ResponseRecorded", CommandOf[q]) \in Event
      BY FactType DEF EventTypes
    <3> QED
      BY <2>3, <3>1, PrefixExecuted DEF RecordResponse
  <2>4. CASE ReplySaved(q) \/ RejectCommand(q) \/ RepeatCommand(q) \/ ActionStale(q)
    BY <2>4, PrefixKept DEF ReplySaved, RejectCommand, RepeatCommand, ActionStale, Unjournalled,
        durable, managed, starts
  <2> QED
    BY <1>4, <2>1, <2>2, <2>3, <2>4 DEF Act
<1>5. ASSUME NEW q \in Requests, Leave(q) PROVE ViewIsPrefix'
  <2>1. CASE StepFails(q)
    BY <2>1, PrefixKept DEF StepFails, durable, managed, starts
  <2>2. CASE Finish(q) \/ FinishFails(q)
    BY <2>2, PrefixReleased DEF Finish, FinishFails, durable, starts
  <2> QED
    BY <1>5, <2>1, <2>2 DEF Leave
<1>6. ASSUME NEW s \in Starts, Start(s) PROVE ViewIsPrefix'
  <2>0. Run(s) \in Runs
    BY DEF Run
  <2>1. CASE StartOpen(s)
    <3>1. startView' = [startView EXCEPT ![s] = journal[Run(s)]] /\ UNCHANGED <<journal, view, opening>>
      BY <2>1 DEF StartOpen, durable, managed
    <3>2. IsPrefix(journal[Run(s)], journal[Run(s)])
      BY <2>0, PrefixSelf DEF TypeOK
    <3> QED
      BY <3>1, <3>2 DEF TypeOK, ViewIsPrefix, opening, Run
  <2>2. CASE StartIssue(s)
    <3>1. PICK server \in Missing(startView[s]) :
            /\ journal' = [journal EXCEPT ![Run(s)] = Append(@, Fact("CredentialIssued", server))]
            /\ startView' = [startView EXCEPT ![s] = Append(@, Fact("CredentialIssued", server))]
      BY <2>2 DEF StartIssue
    <3> DEFINE e == Fact("CredentialIssued", server)
    <3>2. UNCHANGED <<view, opening>> /\ Len(startView[s]) = Len(journal[Run(s)])
      BY <2>2 DEF StartIssue, managed
    <3>3. e \in Event
      BY MissingType, FactType DEF EventTypes, TypeOK
    <3> HIDE DEF e
    <3>4. \A r \in Runs : IsPrefix(view[r], journal'[r])
      BY <2>0, <3>1, <3>3, PrefixOfAppend DEF TypeOK, ViewIsPrefix, e
    <3>5. \A x \in Starts : IsPrefix(startView'[x], journal'[Run(x)])
      <4>1. IsPrefix(Append(startView[s], e), Append(journal[Run(s)], e))
        BY <2>0, <3>2, <3>3, PrefixAppended DEF TypeOK, ViewIsPrefix
      <4>2. \A x \in Starts : IsPrefix(startView[x], journal'[Run(x)])
        <5>1. \A x \in Starts : Run(x) \in Runs
          BY DEF Run
        <5> QED
          BY <2>0, <3>1, <3>3, <5>1, PrefixOfAppend DEF TypeOK, ViewIsPrefix, e
      <4> QED
        BY <2>0, <3>1, <4>1, <4>2 DEF TypeOK, e
    <3>6. opener # Nobody => IsPrefix(fresh, journal'[Run(opener)])
      <4>1. opener # Nobody => opener \in Requests /\ Run(opener) \in Runs
        BY DEF TypeOK, Run
      <4> QED
        BY <2>0, <3>1, <3>3, <4>1, PrefixOfAppend DEF TypeOK, ViewIsPrefix, e
    <3> QED
      BY <3>2, <3>4, <3>5, <3>6 DEF ViewIsPrefix, opening, Run
  <2>3. CASE StartIssued(s) \/ StartReceive(s) \/ StartFinish(s)
    BY <2>3, PrefixKept DEF StartIssued, StartReceive, StartFinish, durable, managed
  <2> QED
    BY <1>6, <2>1, <2>2, <2>3 DEF Start
<1>7. CASE Tick \/ StepBack \/ UNCHANGED vars
  BY <1>7, PrefixKept DEF Tick, StepBack, vars, durable, managed, starts
<1>8. CASE Crash
  <2>1. /\ opener' = Nobody /\ UNCHANGED <<journal, startView>>
        /\ \A r \in Runs : view'[r] = <<>>
    BY <1>8 DEF Crash, durable
  <2>2. \A r \in Runs : IsPrefix(<<>>, journal[r])
    BY PrefixEmpty DEF TypeOK
  <2> QED
    BY <2>1, <2>2 DEF ViewIsPrefix, Run
<1> QED
  BY <1>1, <1>2, <1>3, <1>4, <1>5, <1>6, <1>7, <1>8 DEF Next, Handle

\* Whatever a session decides on is a prefix of what the journal holds.
THEOREM SessionsFollowJournal == Spec => []ViewIsPrefix
<1>1. TypeOK /\ ViewIsPrefix /\ [Next]_vars => TypeOK' /\ ViewIsPrefix'
  BY TypeNext, PrefixNext
<1>2. Init => TypeOK /\ ViewIsPrefix
  BY TypeInit, PrefixInit
<1> QED
  BY <1>1, <1>2, PTL DEF Spec

-----------------------------------------------------------------------------
(***************************************************************************)
(* A command takes effect once.  CommandOnce is not inductive: a receipt   *)
(* is appended some steps after the session was looked up for one, and a   *)
(* realtime advance is recorded under the AuditID.  OnceInv adds that the  *)
(* receipt is still missing when it is appended, which the gate keeps so,  *)
(* and that an AuditID is in the journal only once its request is past the *)
(* advance.                                                                *)
(***************************************************************************)
Unadvanced == {"idle", "opening", "opened", "read", "locked"}

RealtimeInv ==
    \A r \in Runs : \A i \in DOMAIN journal[r] :
        journal[r][i].cmd \in Requests =>
            /\ journal[r][i].type = "TimeAdvanced"
            /\ pc[journal[r][i].cmd] \notin Unadvanced

ReceiptInv ==
    \A q \in Requests :
        pc[q] = "created" => CommandOf[q] \notin Of(journal[Run(q)], "ResponseRecorded")

OnceInv == CommandOnce /\ RealtimeInv /\ ReceiptInv

LEMMA OnceInit == Init => OnceInv
BY DEF Init, OnceInv, CommandOnce, RealtimeInv, ReceiptInv, Once

LEMMA OnceAppend ==
    ASSUME NEW s \in Seq(Event), NEW e \in Event, Once(s),
           \A i \in DOMAIN s : ~Clash(s[i], e)
    PROVE  Once(Append(s, e))
<1>1. \A i \in DOMAIN s : ~Clash(e, s[i])
  <2> SUFFICES ASSUME NEW i \in DOMAIN s, Clash(e, s[i]) PROVE FALSE
    OBVIOUS
  <2>1. {e.type, s[i].type} = {s[i].type, e.type}
    OBVIOUS
  <2>2. Clash(s[i], e)
    BY <2>1 DEF Clash
  <2> QED
    BY <2>2
<1> DEFINE t == Append(s, e)
<1>2. /\ DOMAIN t = 1..(Len(s) + 1) /\ DOMAIN s = 1..Len(s) /\ Len(s) \in Nat
      /\ t[Len(s) + 1] = e
      /\ \A i \in DOMAIN s : t[i] = s[i]
  OBVIOUS
<1>3. ASSUME NEW i \in DOMAIN t, NEW j \in DOMAIN t, i # j
      PROVE  ~Clash(t[i], t[j])
  <2> HIDE DEF t
  <2>1. CASE i \in DOMAIN s /\ j \in DOMAIN s
    BY <1>2, <1>3, <2>1 DEF Once
  <2>2. CASE i \notin DOMAIN s
    BY <1>1, <1>2, <1>3, <2>2
  <2>3. CASE j \notin DOMAIN s
    BY <1>2, <1>3, <2>3
  <2> QED
    BY <2>1, <2>2, <2>3
<1> QED
  BY <1>3 DEF Once

LEMMA OfAppend ==
    ASSUME NEW s \in Seq(Event), NEW e \in Event, NEW type, NEW cmd \in Of(Append(s, e), type)
    PROVE  cmd \in Of(s, type) \/ (e.type = type /\ e.cmd = cmd)
<1>1. PICK i \in DOMAIN Append(s, e) : Append(s, e)[i].type = type /\ Append(s, e)[i].cmd = cmd
  BY DEF Of
<1>2. CASE i \in DOMAIN s
  BY <1>1, <1>2 DEF Of
<1>3. CASE i \notin DOMAIN s
  BY <1>1, <1>3
<1> QED
  BY <1>2, <1>3

\* What "not applied", "not receipted" and "not issued" exclude.
LEMMA NotInOf ==
    ASSUME NEW s, NEW type, NEW cmd, cmd \notin Of(s, type), NEW i \in DOMAIN s,
           s[i].cmd = cmd
    PROVE  s[i].type # type
BY DEF Of

LEMMA OnceKept ==
    ASSUME TypeOK, OnceInv, UNCHANGED journal,
           \A q \in Requests :
              /\ pc'[q] \in Unadvanced => pc[q] \in Unadvanced
              /\ pc'[q] = "created" => pc[q] = "created"
    PROVE  OnceInv'
<1>1. CommandOnce'
  BY DEF OnceInv, CommandOnce
<1>2. RealtimeInv'
  BY DEF OnceInv, RealtimeInv
<1>3. ReceiptInv'
  BY DEF OnceInv, ReceiptInv, Run
<1> QED
  BY <1>1, <1>2, <1>3 DEF OnceInv

\* One event e is appended to run r.
LEMMA OnceGrown ==
    ASSUME TypeOK, OnceInv, NEW r \in Runs, NEW e \in Event,
           journal' = [journal EXCEPT ![r] = Append(@, e)],
           \A i \in DOMAIN journal[r] : ~Clash(journal[r][i], e),
           e.cmd \in Requests => e.type = "TimeAdvanced" /\ pc'[e.cmd] \notin Unadvanced,
           \A q \in Requests :
              /\ pc'[q] \in Unadvanced => pc[q] \in Unadvanced
              /\ pc'[q] = "created" =>
                   /\ CommandOf[q] \notin Of(journal[Run(q)], "ResponseRecorded")
                   /\ e.type = "ResponseRecorded" /\ Run(q) = r => e.cmd # CommandOf[q]
    PROVE  OnceInv'
<1>0. journal[r] \in Seq(Event)
  BY DEF TypeOK
<1>1. CommandOnce'
  BY <1>0, OnceAppend DEF OnceInv, CommandOnce, TypeOK
<1>2. RealtimeInv'
  <2> SUFFICES ASSUME NEW x \in Runs, NEW i \in DOMAIN journal'[x], journal'[x][i].cmd \in Requests
               PROVE  journal'[x][i].type = "TimeAdvanced" /\ pc'[journal'[x][i].cmd] \notin Unadvanced
    BY DEF RealtimeInv
  <2>1. CASE i \in DOMAIN journal[x] /\ journal'[x][i] = journal[x][i]
    BY <2>1 DEF OnceInv, RealtimeInv
  <2>2. CASE x = r /\ i = Len(journal[r]) + 1
    <3>1. journal'[x][i] = e
      BY <1>0, <2>2 DEF TypeOK
    <3> QED
      BY <3>1
  <2>3. \/ i \in DOMAIN journal[x] /\ journal'[x][i] = journal[x][i]
        \/ x = r /\ i = Len(journal[r]) + 1
    <3>1. CASE x # r
      <4>1. journal'[x] = journal[x]
        BY <3>1 DEF TypeOK
      <4> QED
        BY <4>1
    <3>2. CASE x = r
      <4>1. journal'[x] = Append(journal[r], e)
        BY <3>2 DEF TypeOK
      <4>2. i \in 1..(Len(journal[r]) + 1)
        BY <1>0, <4>1
      <4>3. CASE i \in 1..Len(journal[r])
        BY <1>0, <3>2, <4>1, <4>3
      <4>4. CASE i = Len(journal[r]) + 1
        BY <3>2, <4>4
      <4> QED
        BY <1>0, <4>2, <4>3, <4>4
    <3> QED
      BY <3>1, <3>2
  <2> QED
    BY <2>1, <2>2, <2>3
<1>3. ReceiptInv'
  <2> SUFFICES ASSUME NEW q \in Requests, pc'[q] = "created",
                      CommandOf[q] \in Of(journal'[Run(q)], "ResponseRecorded")
               PROVE  FALSE
    BY DEF ReceiptInv, Run
  <2>1. CASE Run(q) # r
    BY <2>1 DEF TypeOK, Run
  <2>2. CASE Run(q) = r
    <3>1. journal'[Run(q)] = Append(journal[r], e)
      BY <2>2 DEF TypeOK
    <3> QED
      BY <1>0, <2>2, <3>1, OfAppend
  <2> QED
    BY <2>1, <2>2
<1> QED
  BY <1>1, <1>2, <1>3 DEF OnceInv

\* A session that may append has seen the whole journal of its run.
LEMMA SessionWhole ==
    ASSUME TypeOK, ViewIsPrefix, NEW q \in Requests, ~Stale(Run(q))
    PROVE  view[Run(q)] = journal[Run(q)] /\ journal[Run(q)] \in Seq(Event)
<1>1. Run(q) \in Runs
  BY DEF Run
<1> QED
  BY <1>1, PrefixWhole DEF TypeOK, ViewIsPrefix, Stale

\* A payload whose command id is not in the session clashes with nothing.
LEMMA PayloadFresh ==
    ASSUME NEW s \in Seq(Event), NEW e \in Event, e.type \in Payloads, e.cmd \notin Applied(s)
    PROVE  \A i \in DOMAIN s : ~Clash(s[i], e)
<1> SUFFICES ASSUME NEW i \in DOMAIN s, Clash(s[i], e) PROVE FALSE
  OBVIOUS
<1>1. s[i].cmd = e.cmd /\ s[i].type \in Payloads
  BY DEF Clash
<1>2. /\ e.cmd \notin Of(s, "TimeAdvanced") /\ e.cmd \notin Of(s, "ServerCreated")
      /\ e.cmd \notin Of(s, "RuleUpserted")
  BY DEF Applied
<1> QED
  BY <1>1, <1>2, NotInOf DEF Payloads

LEMMA OnceAdvanced ==
    ASSUME TypeOK, ViewIsPrefix, OnceInv, NEW q \in Requests, AdvanceTime(q)
    PROVE  OnceInv'
<1>0. Run(q) \in Runs
  BY DEF Run
<1>1. PICK ends \in BOOLEAN :
        Execute(q, TimeAdvanced(AdvanceID(q), got[q], Later(at[q], got[q]), ends))
  BY DEF AdvanceTime
<1> DEFINE e == TimeAdvanced(AdvanceID(q), got[q], Later(at[q], got[q]), ends)
<1>2. e \in Event /\ e.type = "TimeAdvanced" /\ e.cmd = AdvanceID(q)
  BY EventTypeAdvance DEF TimeAdvanced
<1> HIDE DEF e
<1>3. ~Stale(Run(q)) /\ journal' = [journal EXCEPT ![Run(q)] = Append(@, e)]
  BY <1>1 DEF Execute, e
<1>4. view[Run(q)] = journal[Run(q)] /\ journal[Run(q)] \in Seq(Event)
  BY <1>3, SessionWhole
<1>5. pc[q] = "locked" /\ pc' = [pc EXCEPT ![q] = "advanced"] /\ ~Skips(q)
  BY DEF AdvanceTime, At, Goto
<1>6. e.cmd \notin Applied(journal[Run(q)])
  <2>1. CASE IsAdvance(q)
    BY <1>2, <1>4, <1>5, <2>1 DEF Skips, Duplicate, IsAdvance, AdvanceID
  <2>2. CASE ~IsAdvance(q)
    <3>1. e.cmd = q
      BY <1>2, <2>2 DEF IsAdvance, AdvanceID
    <3>2. \A i \in DOMAIN journal[Run(q)] : journal[Run(q)][i].cmd # q
      BY <1>0, <1>5 DEF OnceInv, RealtimeInv, Unadvanced
    <3> QED
      BY <3>1, <3>2 DEF Applied, Of
  <2> QED
    BY <2>1, <2>2
<1>7. \A i \in DOMAIN journal[Run(q)] : ~Clash(journal[Run(q)][i], e)
  BY <1>2, <1>4, <1>6, PayloadFresh DEF Payloads
<1>8. e.cmd \in Requests => e.type = "TimeAdvanced" /\ pc'[e.cmd] \notin Unadvanced
  <2>1. e.cmd \in Requests => e.cmd = q
    BY <1>2 DEF AdvanceID
  <2> QED
    BY <1>2, <1>5, <2>1 DEF TypeOK, Unadvanced
<1>9. \A p \in Requests :
        /\ pc'[p] \in Unadvanced => pc[p] \in Unadvanced
        /\ pc'[p] = "created" => pc[p] = "created"
  BY <1>5 DEF TypeOK, Unadvanced
<1> QED
  <2>1. \A p \in Requests : pc'[p] = "created" =>
          /\ CommandOf[p] \notin Of(journal[Run(p)], "ResponseRecorded")
          /\ e.type = "ResponseRecorded" /\ Run(p) = Run(q) => e.cmd # CommandOf[p]
    BY <1>2, <1>9 DEF OnceInv, ReceiptInv
  <2> QED
    BY <1>0, <1>2, <1>3, <1>7, <1>8, <1>9, <2>1, OnceGrown

\* ensureServerCredentials, whoever calls it, issues to a server that has none.
LEMMA OnceIssued ==
    ASSUME TypeOK, OnceInv, NEW r \in Runs, NEW server \in Missing(journal[r]),
           journal' = [journal EXCEPT ![r] = Append(@, Fact("CredentialIssued", server))],
           UNCHANGED pc
    PROVE  OnceInv'
<1> DEFINE e == Fact("CredentialIssued", server)
<1>0. journal[r] \in Seq(Event)
  BY DEF TypeOK
<1>1. /\ server \in Of(journal[r], "ServerCreated")
      /\ server \notin Of(journal[r], "CredentialIssued")
      /\ server \in Commands \cup Requests
  BY <1>0, MissingType
<1>2. e \in Event /\ e.type = "CredentialIssued" /\ e.cmd = server
  BY <1>1, FactType DEF Fact, EventTypes
<1> HIDE DEF e
<1>3. \A i \in DOMAIN journal[r] : ~Clash(journal[r][i], e)
  BY <1>1, <1>2, NotInOf DEF Clash, Payloads
<1>4. server \notin Requests
  <2>1. PICK i \in DOMAIN journal[r] : journal[r][i].type = "ServerCreated" /\ journal[r][i].cmd = server
    BY <1>1 DEF Of
  <2> QED
    BY <2>1 DEF OnceInv, RealtimeInv
<1>5. journal' = [journal EXCEPT ![r] = Append(@, e)]
  BY DEF e
<1> QED
  BY <1>2, <1>3, <1>4, <1>5, OnceGrown DEF OnceInv, ReceiptInv

LEMMA OnceExecuted ==
    ASSUME TypeOK, ViewIsPrefix, OnceInv, NEW q \in Requests, ExecuteCommand(q)
    PROVE  OnceInv'
<1> DEFINE e == Fact(PayloadType(q), CommandOf[q])
<1>0. Run(q) \in Runs
  BY DEF Run
<1>1. e \in Event /\ e.type = PayloadType(q) /\ e.cmd = CommandOf[q]
  BY FactType DEF Fact, PayloadType, EventTypes
<1>2. e.type \in Payloads
  BY <1>1 DEF PayloadType, Payloads
<1>3. /\ ~Stale(Run(q)) /\ journal' = [journal EXCEPT ![Run(q)] = Append(@, e)]
      /\ pc[q] = "touched" /\ pc' = [pc EXCEPT ![q] = "created"]
      /\ ~Duplicate(q) /\ ~Receipted(q)
  BY DEF ExecuteCommand, Execute, Acts, At, Goto
<1> HIDE DEF e
<1>4. view[Run(q)] = journal[Run(q)] /\ journal[Run(q)] \in Seq(Event)
  BY <1>3, SessionWhole
<1>5. \A i \in DOMAIN journal[Run(q)] : ~Clash(journal[Run(q)][i], e)
  <2>1. e.cmd \notin Applied(journal[Run(q)])
    BY <1>1, <1>3, <1>4 DEF Duplicate
  <2> QED
    BY <1>1, <1>2, <1>4, <2>1, PayloadFresh DEF Payloads
<1>6. e.cmd \notin Requests
  BY <1>1
<1>7. e.type # "ResponseRecorded"
  BY <1>2 DEF Payloads
<1>8. \A p \in Requests :
        /\ pc'[p] \in Unadvanced => pc[p] \in Unadvanced
        /\ pc'[p] = "created" => CommandOf[p] \notin Of(journal[Run(p)], "ResponseRecorded")
  BY <1>3, <1>4 DEF TypeOK, Unadvanced, OnceInv, ReceiptInv, Receipted
<1> QED
  BY <1>0, <1>1, <1>3, <1>5, <1>6, <1>7, <1>8, OnceGrown

LEMMA OnceRecorded ==
    ASSUME TypeOK, ViewIsPrefix, GateExcludes, OnceInv, NEW q \in Requests, RecordResponse(q)
    PROVE  OnceInv'
<1> DEFINE e == Fact("ResponseRecorded", CommandOf[q])
<1>0. Run(q) \in Runs
  BY DEF Run
<1>1. e \in Event /\ e.type = "ResponseRecorded" /\ e.cmd = CommandOf[q]
  BY FactType DEF Fact, EventTypes
<1>2. /\ journal' = [journal EXCEPT ![Run(q)] = Append(@, e)]
      /\ pc[q] = "created" /\ pc' = [pc EXCEPT ![q] = "replying"]
  BY DEF RecordResponse, Execute, At, Goto
<1> HIDE DEF e
<1>3. CommandOf[q] \notin Of(journal[Run(q)], "ResponseRecorded")
  BY <1>2 DEF OnceInv, ReceiptInv
<1>4. \A i \in DOMAIN journal[Run(q)] : ~Clash(journal[Run(q)][i], e)
  BY <1>1, <1>3, NotInOf DEF Clash, Payloads
<1>5. e.cmd \notin Requests
  BY <1>1
<1>6. \A p \in Requests : pc'[p] = "created" => pc[p] = "created" /\ Run(p) # Run(q)
  BY <1>2 DEF TypeOK, GateExcludes, Gated
<1>7. \A p \in Requests : pc'[p] \in Unadvanced => pc[p] \in Unadvanced
  BY <1>2 DEF TypeOK, Unadvanced
<1> QED
  <2>1. \A p \in Requests : pc'[p] = "created" =>
          /\ CommandOf[p] \notin Of(journal[Run(p)], "ResponseRecorded")
          /\ e.type = "ResponseRecorded" /\ Run(p) = Run(q) => e.cmd # CommandOf[p]
    BY <1>6 DEF OnceInv, ReceiptInv
  <2>2. \A p \in Requests :
          /\ pc'[p] \in Unadvanced => pc[p] \in Unadvanced
          /\ pc'[p] = "created" =>
               /\ CommandOf[p] \notin Of(journal[Run(p)], "ResponseRecorded")
               /\ e.type = "ResponseRecorded" /\ Run(p) = Run(q) => e.cmd # CommandOf[p]
    BY <1>7, <2>1
  <2>3. e.cmd \in Requests => e.type = "TimeAdvanced" /\ pc'[e.cmd] \notin Unadvanced
    BY <1>5
  <2>4. journal' = [journal EXCEPT ![Run(q)] = Append(@, e)] /\ e \in Event
    BY <1>1, <1>2
  <2> QED
    BY <1>0, <1>4, <2>2, <2>3, <2>4, OnceGrown

LEMMA OnceNext ==
    ASSUME TypeOK, ViewIsPrefix, GateExcludes, OnceInv, [Next]_vars
    PROVE  OnceInv'
<1>1. ASSUME NEW q \in Requests, Open(q) PROVE OnceInv'
  <2>1. CASE OpenExisting(q) \/ BeginOpen(q) \/ InstallSession(q) \/ OpenFails(q)
    <3>1. /\ UNCHANGED journal
          /\ pc[q] \in Unadvanced
          /\ \E to \in {"opened", "opening", "done"} : Goto(q, to)
      BY <2>1 DEF OpenExisting, BeginOpen, InstallSession, OpenFails, IsOpening, durable, At,
          Unadvanced
    <3>2. \A p \in Requests :
            /\ pc'[p] \in Unadvanced => pc[p] \in Unadvanced
            /\ pc'[p] = "created" => pc[p] = "created"
      BY <3>1 DEF Goto, TypeOK
    <3> QED
      BY <3>1, <3>2, OnceKept
  <2>2. ASSUME NEW a \in Audited, RecoverTouch(q, a) \/ RecoverComplete(q, a)
        PROVE  OnceInv'
    BY <2>2, OnceKept DEF RecoverTouch, RecoverComplete
  <2> QED
    BY <1>1, <2>1, <2>2 DEF Open
<1>2. ASSUME NEW q \in Requests, Enter(q) PROVE OnceInv'
  <2>1. /\ UNCHANGED journal /\ pc[q] \in Unadvanced
        /\ \E to \in {"read", "done", "locked"} : Goto(q, to)
    BY <1>2 DEF Enter, ReadCatalog, Busy, Receive, ReceiveFails, durable, At, Unadvanced
  <2>2. \A p \in Requests :
          /\ pc'[p] \in Unadvanced => pc[p] \in Unadvanced
          /\ pc'[p] = "created" => pc[p] = "created"
    BY <2>1 DEF Goto, TypeOK
  <2> QED
    BY <2>1, <2>2, OnceKept
<1>3. ASSUME NEW q \in Requests, Advance(q) PROVE OnceInv'
  <2>1. CASE AdvanceTime(q)
    BY <2>1, OnceAdvanced
  <2>2. CASE RejectAdvance(q) \/ SkipAdvance(q) \/ AdvanceStale(q) \/ Touch(q)
    <3>1. UNCHANGED journal /\ \E to \in {"replying", "advanced", "touched"} : Goto(q, to)
      BY <2>2 DEF RejectAdvance, SkipAdvance, AdvanceStale, Touch, Unjournalled, durable
    <3>2. \A p \in Requests :
            /\ pc'[p] \in Unadvanced => pc[p] \in Unadvanced
            /\ pc'[p] = "created" => pc[p] = "created"
      BY <3>1 DEF Goto, TypeOK, Unadvanced
    <3> QED
      BY <3>1, <3>2, OnceKept
  <2> QED
    BY <1>3, <2>1, <2>2 DEF Advance
<1>4. ASSUME NEW q \in Requests, Act(q) PROVE OnceInv'
  <2>1. CASE IssueCredential(q)
    <3>1. PICK server \in Missing(view[Run(q)]) : Execute(q, Fact("CredentialIssued", server))
      BY <2>1 DEF IssueCredential
    <3>2. /\ ~Stale(Run(q)) /\ UNCHANGED pc /\ Run(q) \in Runs
          /\ journal' = [journal EXCEPT ![Run(q)] = Append(@, Fact("CredentialIssued", server))]
      BY <2>1, <3>1 DEF IssueCredential, Execute, Run
    <3> QED
      BY <3>1, <3>2, SessionWhole, OnceIssued
  <2>2. CASE ExecuteCommand(q)
    BY <2>2, OnceExecuted
  <2>3. CASE RecordResponse(q)
    BY <2>3, OnceRecorded
  <2>4. CASE RepeatCommand(q)
    <3>1. /\ UNCHANGED journal /\ pc[q] = "touched" /\ pc' = [pc EXCEPT ![q] = "created"]
          /\ ~Stale(Run(q)) /\ ~Receipted(q)
      BY <2>4 DEF RepeatCommand, Acts, At, Goto, Unjournalled, durable
    <3>2. CommandOf[q] \notin Of(journal[Run(q)], "ResponseRecorded")
      BY <3>1, SessionWhole DEF Receipted
    <3>3. CommandOnce'
      BY <3>1 DEF OnceInv, CommandOnce
    <3>4. RealtimeInv'
      BY <3>1 DEF OnceInv, RealtimeInv, TypeOK, Unadvanced
    <3>5. ReceiptInv'
      BY <3>1, <3>2 DEF OnceInv, ReceiptInv, TypeOK, Run
    <3> QED
      BY <3>3, <3>4, <3>5 DEF OnceInv
  <2>5. CASE ReplySaved(q) \/ RejectCommand(q) \/ ActionStale(q)
    <3>1. UNCHANGED journal /\ Goto(q, "replying")
      BY <2>5 DEF ReplySaved, RejectCommand, ActionStale, Unjournalled, durable
    <3>2. \A p \in Requests :
            /\ pc'[p] \in Unadvanced => pc[p] \in Unadvanced
            /\ pc'[p] = "created" => pc[p] = "created"
      BY <3>1 DEF Goto, TypeOK, Unadvanced
    <3> QED
      BY <3>1, <3>2, OnceKept
  <2> QED
    BY <1>4, <2>1, <2>2, <2>3, <2>4, <2>5 DEF Act
<1>5. ASSUME NEW q \in Requests, Leave(q) PROVE OnceInv'
  <2>1. UNCHANGED journal /\ \E to \in {"replying", "done"} : Goto(q, to)
    BY <1>5 DEF Leave, StepFails, Finish, FinishFails, durable
  <2>2. \A p \in Requests :
          /\ pc'[p] \in Unadvanced => pc[p] \in Unadvanced
          /\ pc'[p] = "created" => pc[p] = "created"
    BY <2>1 DEF Goto, TypeOK, Unadvanced
  <2> QED
    BY <2>1, <2>2, OnceKept
<1>6. ASSUME NEW s \in Starts, Start(s) PROVE OnceInv'
  <2>1. CASE StartIssue(s)
    <3>1. Run(s) \in Runs /\ startView[s] = journal[Run(s)] /\ UNCHANGED pc
      BY <2>1, PrefixWhole DEF StartIssue, TypeOK, ViewIsPrefix, Run
    <3>2. PICK server \in Missing(startView[s]) :
            journal' = [journal EXCEPT ![Run(s)] = Append(@, Fact("CredentialIssued", server))]
      BY <2>1 DEF StartIssue
    <3> QED
      BY <3>1, <3>2, OnceIssued
  <2>2. CASE StartOpen(s) \/ StartIssued(s) \/ StartReceive(s) \/ StartFinish(s)
    BY <2>2, OnceKept DEF StartOpen, StartIssued, StartReceive, StartFinish, durable
  <2> QED
    BY <1>6, <2>1, <2>2 DEF Start
<1>7. CASE Tick \/ StepBack \/ UNCHANGED vars
  BY <1>7, OnceKept DEF Tick, StepBack, vars, durable
<1>8. CASE Crash
  <2>1. UNCHANGED journal
    BY <1>8 DEF Crash, durable
  <2>2. \A p \in Requests :
          /\ pc'[p] \in Unadvanced => pc[p] \in Unadvanced
          /\ pc'[p] = "created" => pc[p] = "created"
    BY <1>8 DEF Crash, Unadvanced, InFlight, Opened, Gated
  <2> QED
    BY <2>1, <2>2, OnceKept
<1> QED
  BY <1>1, <1>2, <1>3, <1>4, <1>5, <1>6, <1>7, <1>8 DEF Next, Handle

\* The inductive invariant of the run manager's journal.
JournalInv == TypeOK /\ ViewIsPrefix /\ GateExcludes /\ OnceInv

LEMMA JournalInvariant == Spec => []JournalInv
<1>1. Init => JournalInv
  BY TypeInit, PrefixInit, GateInit, OnceInit DEF JournalInv
<1>2. JournalInv /\ [Next]_vars => JournalInv'
  BY TypeNext, PrefixNext, GateNext, OnceNext DEF JournalInv
<1> QED
  BY <1>1, <1>2, PTL DEF Spec

\* No two requests are ever past the gate of one run.
THEOREM OneRequestPerRun == Spec => []GateExcludes
<1>1. JournalInv => GateExcludes
  BY DEF JournalInv
<1> QED
  BY <1>1, JournalInvariant, PTL

\* A request_id takes effect at most once and a server gets one first
\* credential, through retries, a concurrent start, faults and crashes.
THEOREM CommandsTakeEffectOnce == Spec => []CommandOnce
<1>1. JournalInv => CommandOnce
  BY DEF JournalInv, OnceInv
<1> QED
  BY <1>1, JournalInvariant, PTL

(***************************************************************************)
(* Users of a session.                                                     *)
(***************************************************************************)
Using(r) == {q \in Requests : Run(q) = r /\ pc[q] \in Opened}

\* While open holds openMu its run has no session.
OpeningAlone == opener # Nobody => pc[opener] = "opening" /\ Run(opener) \notin sessions

SessionInv == TypeOK /\ UsersCounted /\ OpeningAlone

LEMMA UsingFinite ==
    ASSUME NEW r
    PROVE  /\ IsFiniteSet(Using(r)) /\ Cardinality(Using(r)) \in Nat
           /\ Cardinality(Using(r)) = 0 <=> Using(r) = {}
<1>1. Using(r) \in SUBSET Requests
  BY DEF Using
<1>2. IsFiniteSet(Using(r))
  BY <1>1, RequestsFinite, FS_Subset
<1> QED
  BY <1>2, FS_CardinalityType, FS_EmptySet

LEMMA UsersAre ==
    UsersCounted <=> \A r \in Runs : /\ users[r] = Cardinality(Using(r))
                                     /\ Using(r) # {} => r \in sessions
BY DEF UsersCounted, Using

\* Steps between open and release, and those outside both.
LEMMA UsersSame ==
    ASSUME SessionInv, UNCHANGED <<sessions, users, opener>>,
           \A q \in Requests : /\ pc'[q] \in Opened <=> pc[q] \in Opened
                               /\ q = opener => pc'[q] = pc[q]
    PROVE  UsersCounted' /\ OpeningAlone'
<1>1. \A r \in Runs : Using(r)' = Using(r)
  BY DEF Using, Run
<1>2. UsersCounted'
  BY <1>1, UsersAre DEF SessionInv, UsersCounted, Using
<1>3. OpeningAlone'
  BY DEF SessionInv, OpeningAlone, TypeOK, Run
<1> QED
  BY <1>2, <1>3

\* A request that enters a session.
LEMMA UsingEntered ==
    ASSUME TypeOK, NEW q \in Requests, pc[q] \notin Opened, pc' = [pc EXCEPT ![q] = "opened"]
    PROVE  /\ Cardinality(Using(Run(q))') = Cardinality(Using(Run(q))) + 1
           /\ \A r \in Runs : r # Run(q) => Using(r)' = Using(r)
<1>1. pc'[q] = "opened" /\ \A p \in Requests : p # q => pc'[p] = pc[p]
  BY DEF TypeOK
<1>2. Using(Run(q))' = Using(Run(q)) \cup {q} /\ q \notin Using(Run(q))
  BY <1>1 DEF Using, Run, Opened
<1>3. \A r \in Runs : r # Run(q) => Using(r)' = Using(r)
  BY <1>1 DEF Using, Run
<1>4. Cardinality(Using(Run(q)) \cup {q}) = Cardinality(Using(Run(q))) + 1
  BY <1>2, UsingFinite, FS_AddElement
<1> QED
  BY <1>2, <1>3, <1>4

\* release never evicts a session somebody else uses.
LEMMA UsersReleased ==
    ASSUME SessionInv, NEW q \in Requests, pc[q] \in Opened, Release(q),
           pc' = [pc EXCEPT ![q] = "done"], opener' = opener
    PROVE  UsersCounted' /\ OpeningAlone'
<1> DEFINE r == Run(q)
           left == [users EXCEPT ![r] = IF @ > 0 THEN @ - 1 ELSE @]
<1>0. r \in Runs /\ users \in [Runs -> Nat]
  BY DEF Run, SessionInv, TypeOK
<1>1. pc'[q] = "done" /\ \A p \in Requests : p # q => pc'[p] = pc[p]
  BY DEF SessionInv, TypeOK
<1>2. /\ Using(r)' = Using(r) \ {q} /\ q \in Using(r)
      /\ \A x \in Runs : x # r => Using(x)' = Using(x)
  BY <1>1 DEF Using, Run, Opened, Gated
<1>3. Cardinality(Using(r)') = Cardinality(Using(r)) - 1 /\ Cardinality(Using(r)) > 0
  <2>1. Cardinality(Using(r) \ {q}) = Cardinality(Using(r)) - 1
    BY <1>2, UsingFinite, FS_RemoveElement
  <2>2. Cardinality(Using(r)) # 0 /\ Cardinality(Using(r)) \in Nat
    BY <1>2, UsingFinite
  <2> QED
    BY <1>2, <2>1, <2>2
<1>4. /\ users' = left
      /\ sessions' = Survivors(sessions, left, gate', lastAccess, Nobody)
  BY DEF Release, Keep
<1>5. ASSUME NEW x \in Runs PROVE users'[x] = Cardinality(Using(x)')
  <2>1. users[x] = Cardinality(Using(x))
    BY UsersAre DEF SessionInv
  <2>2. CASE x = r
    BY <1>0, <1>3, <1>4, <2>1, <2>2
  <2>3. CASE x # r
    BY <1>0, <1>2, <1>4, <2>1, <2>3
  <2> QED
    BY <2>2, <2>3
<1>6. ASSUME NEW x \in Runs, Using(x)' # {} PROVE x \in sessions'
  <2>1. users'[x] # 0
    <3>1. IsFiniteSet(Using(x)')
      <4>1. Using(x)' \in SUBSET Requests
        BY DEF Using
      <4> QED
        BY <4>1, RequestsFinite, FS_Subset
    <3> QED
      BY <1>5, <1>6, <3>1, FS_EmptySet
  <2>2. x \in sessions
    BY <1>2, <1>6, UsersAre DEF SessionInv
  <2> QED
    BY <1>4, <2>1, <2>2 DEF Survivors
<1>7. UsersCounted'
  BY <1>5, <1>6 DEF UsersCounted, Using
<1>8. OpeningAlone'
  <2>1. sessions' \subseteq sessions
    BY <1>4, SurvivorsOpened
  <2>2. opener # Nobody => opener # q /\ opener \in Requests
    BY DEF SessionInv, TypeOK, OpeningAlone, Opened, Gated
  <2> QED
    BY <1>1, <2>1, <2>2 DEF SessionInv, OpeningAlone, Run
<1> QED
  BY <1>7, <1>8

LEMMA UsersOpenExisting ==
    ASSUME SessionInv, NEW q \in Requests, OpenExisting(q)
    PROVE  UsersCounted' /\ OpeningAlone'
<1>0. Run(q) \in Runs /\ users \in [Runs -> Nat]
  BY DEF Run, SessionInv, TypeOK
<1>1. /\ pc[q] = "idle" /\ opener = Nobody /\ Run(q) \in sessions
      /\ users' = [users EXCEPT ![Run(q)] = @ + 1] /\ sessions' = sessions
      /\ opener' = opener /\ pc' = [pc EXCEPT ![q] = "opened"]
  BY DEF OpenExisting, At, Goto, opening
<1>2. /\ Cardinality(Using(Run(q))') = Cardinality(Using(Run(q))) + 1
      /\ \A r \in Runs : r # Run(q) => Using(r)' = Using(r)
  <2>1. pc[q] \notin Opened /\ TypeOK
    BY <1>1 DEF Opened, Gated, SessionInv
  <2> QED
    BY <1>1, <2>1, UsingEntered
<1>3. ASSUME NEW r \in Runs
      PROVE  users'[r] = Cardinality(Using(r)') /\ (Using(r)' # {} => r \in sessions')
  <2>1. users[r] = Cardinality(Using(r)) /\ (Using(r) # {} => r \in sessions)
    BY UsersAre DEF SessionInv
  <2>2. CASE r = Run(q)
    BY <1>0, <1>1, <1>2, <2>1, <2>2
  <2>3. CASE r # Run(q)
    BY <1>0, <1>1, <1>2, <2>1, <2>3
  <2> QED
    BY <2>2, <2>3
<1> QED
  BY <1>1, <1>3 DEF UsersCounted, Using, OpeningAlone

LEMMA UsersInstall ==
    ASSUME SessionInv, NEW q \in Requests, InstallSession(q)
    PROVE  UsersCounted' /\ OpeningAlone'
<1> DEFINE r == Run(q)
           using == [users EXCEPT ![r] = 1]
           stamp == [lastAccess EXCEPT ![r] = access + 1]
<1>0. r \in Runs /\ users \in [Runs -> Nat]
  BY DEF Run, SessionInv, TypeOK
<1>1. /\ opener = q /\ pc[q] = "opening" /\ opener' = Nobody
      /\ pc' = [pc EXCEPT ![q] = "opened"] /\ users' = using
      /\ sessions' = Survivors(sessions \cup {r}, using, gate, stamp, r)
  BY DEF InstallSession, IsOpening, At, Goto
<1>2. q # Nobody /\ r \notin sessions
  BY <1>1 DEF SessionInv, OpeningAlone
<1>3. Using(r) = {} /\ Cardinality(Using(r)) = 0
  BY <1>0, <1>2, UsersAre, UsingFinite DEF SessionInv
<1>4. /\ Cardinality(Using(r)') = 1
      /\ \A x \in Runs : x # r => Using(x)' = Using(x)
  <2>1. pc[q] \notin Opened /\ TypeOK
    BY <1>1 DEF Opened, Gated, SessionInv
  <2>2. /\ Cardinality(Using(r)') = Cardinality(Using(r)) + 1
        /\ \A x \in Runs : x # r => Using(x)' = Using(x)
    BY <1>1, <2>1, UsingEntered
  <2> HIDE DEF r
  <2> QED
    BY <1>3, <2>2
<1>5. ASSUME NEW x \in Runs
      PROVE  users'[x] = Cardinality(Using(x)') /\ (Using(x)' # {} => x \in sessions')
  <2>1. users[x] = Cardinality(Using(x)) /\ (Using(x) # {} => x \in sessions)
    BY UsersAre DEF SessionInv
  <2>2. CASE x = r
    BY <1>0, <1>1, <1>4, <2>2 DEF Survivors
  <2>3. CASE x # r
    <3>1. users'[x] = users[x] /\ Using(x)' = Using(x)
      BY <1>0, <1>1, <1>4, <2>3
    <3>2. Using(x) # {} => using[x] # 0
      BY <1>0, <2>1, <2>3, UsingFinite
    <3> QED
      BY <1>1, <2>1, <3>1, <3>2 DEF Survivors
  <2> QED
    BY <2>2, <2>3
<1> QED
  BY <1>1, <1>5 DEF UsersCounted, Using, OpeningAlone

(***************************************************************************)
(* What the steps past the gate, and those of starts and of the process,   *)
(* leave alone.                                                            *)
(***************************************************************************)
Works(q) == Advance(q) \/ Act(q) \/ StepFails(q)

LEMMA WorkStays ==
    ASSUME TypeOK, NEW q \in Requests, Works(q)
    PROVE  /\ pc[q] \in Gated /\ pc'[q] \in Gated /\ pc' = [pc EXCEPT ![q] = pc'[q]]
           /\ UNCHANGED <<sessions, users, opener, audit>>
<1>1. pc[q] \in Gated
  BY DEF Works, Advance, Act, RejectAdvance, SkipAdvance, AdvanceTime, AdvanceStale, Touch,
     IssueCredential, ReplySaved, RejectCommand, ExecuteCommand, RepeatCommand,
     RecordResponse, ActionStale, StepFails, At, Acts, Gated
<1>2. pc'[q] \in Gated /\ pc' = [pc EXCEPT ![q] = pc'[q]]
  <2>1. UNCHANGED pc \/ \E to \in Gated : pc' = [pc EXCEPT ![q] = to]
    BY DEF Works, Advance, Act, RejectAdvance, SkipAdvance, AdvanceTime, AdvanceStale, Touch,
       IssueCredential, ReplySaved, RejectCommand, ExecuteCommand, RepeatCommand,
       RecordResponse, ActionStale, StepFails, Goto, Gated
  <2> QED
    BY <1>1, <2>1 DEF TypeOK
<1>3. UNCHANGED <<sessions, users, opener, audit>>
  <2>1. CASE Advance(q)
    BY <2>1 DEF Advance, RejectAdvance, SkipAdvance, AdvanceTime, AdvanceStale, Touch, Execute,
       Unjournalled, durable, managed, opening
  <2>2. CASE Act(q)
    BY <2>2 DEF Act, IssueCredential, ReplySaved, RejectCommand, ExecuteCommand, RepeatCommand,
       RecordResponse, ActionStale, Execute, Unjournalled, durable, managed, opening
  <2>3. CASE StepFails(q)
    BY <2>3 DEF StepFails, durable, managed, opening
  <2> QED
    BY <2>1, <2>2, <2>3 DEF Works
<1> QED
  BY <1>1, <1>2, <1>3

LEMMA StartStays ==
    ASSUME TypeOK, NEW s \in Starts, Start(s)
    PROVE  /\ UNCHANGED <<sessions, users, opener, pc, outcome>>
           /\ \A q \in Requests : audit'[q] = audit[q]
<1>1. UNCHANGED <<sessions, users, opener, pc, outcome>>
  BY DEF Start, StartOpen, StartIssue, StartIssued, StartReceive, StartFinish, managed, opening,
     local
<1>2. audit' = audit \/ \E to : audit' = [audit EXCEPT ![s] = to]
  BY DEF Start, StartOpen, StartIssue, StartIssued, StartReceive, StartFinish, Complete, durable
<1>3. \A q \in Requests : q # s
  OBVIOUS
<1> QED
  BY <1>1, <1>2, <1>3 DEF TypeOK, Audited

LEMMA UsersNext ==
    ASSUME SessionInv, [Next]_vars
    PROVE  UsersCounted' /\ OpeningAlone'
<1>0. TypeOK
  BY DEF SessionInv
<1>1. ASSUME NEW q \in Requests, Works(q) PROVE UsersCounted' /\ OpeningAlone'
  <2>1. q # opener
    BY <1>1, WorkStays DEF SessionInv, OpeningAlone, Gated, RequestsAssumption
  <2>2. /\ pc[q] \in Gated /\ pc'[q] \in Gated
        /\ \A p \in Requests : p # q => pc'[p] = pc[p]
        /\ UNCHANGED <<sessions, users, opener>>
    <3>1. /\ pc[q] \in Gated /\ pc'[q] \in Gated /\ pc' = [pc EXCEPT ![q] = pc'[q]]
          /\ UNCHANGED <<sessions, users, opener>>
      BY <1>0, <1>1, WorkStays
    <3> QED
      BY <1>0, <3>1 DEF TypeOK
  <2>3. \A p \in Requests : /\ pc'[p] \in Opened <=> pc[p] \in Opened
                            /\ p = opener => pc'[p] = pc[p]
    BY <2>1, <2>2 DEF Opened
  <2> QED
    BY <2>2, <2>3, UsersSame
<1>2. ASSUME NEW q \in Requests, ReadCatalog(q) \/ Receive(q)
      PROVE  UsersCounted' /\ OpeningAlone'
  <2>1. /\ pc[q] \in {"opened", "read"} /\ UNCHANGED <<sessions, users, opener>>
        /\ \E to \in {"read", "locked"} : pc' = [pc EXCEPT ![q] = to]
    BY <1>2 DEF ReadCatalog, Receive, At, Goto, managed, opening
  <2>2. q # opener
    BY <2>1 DEF SessionInv, OpeningAlone
  <2>3. \A p \in Requests : /\ pc'[p] \in Opened <=> pc[p] \in Opened
                            /\ p = opener => pc'[p] = pc[p]
    BY <1>0, <2>1, <2>2 DEF TypeOK, Opened, Gated
  <2> QED
    BY <2>1, <2>3, UsersSame
<1>3. ASSUME NEW q \in Requests, Busy(q) \/ ReceiveFails(q) \/ Finish(q) \/ FinishFails(q)
      PROVE  UsersCounted' /\ OpeningAlone'
  <2>1. /\ pc[q] \in Opened /\ Release(q) /\ pc' = [pc EXCEPT ![q] = "done"]
        /\ opener' = opener
    BY <1>3 DEF Busy, ReceiveFails, Finish, FinishFails, At, Goto, Opened, Gated, opening
  <2> QED
    BY <2>1, UsersReleased
<1>4. ASSUME NEW q \in Requests, BeginOpen(q) PROVE UsersCounted' /\ OpeningAlone'
  <2>1. /\ pc[q] = "idle" /\ Run(q) \notin sessions /\ opener' = q
        /\ UNCHANGED <<sessions, users>> /\ pc' = [pc EXCEPT ![q] = "opening"]
    BY <1>4 DEF BeginOpen, At, Goto, managed
  <2>2. \A r \in Runs : Using(r)' = Using(r)
    BY <1>0, <2>1 DEF TypeOK, Using, Run, Opened, Gated
  <2>3. UsersCounted'
    BY <2>1, <2>2, UsersAre DEF SessionInv, UsersCounted, Using
  <2>4. OpeningAlone'
    BY <1>0, <2>1 DEF TypeOK, OpeningAlone, Run
  <2> QED
    BY <2>3, <2>4
<1>5. ASSUME NEW q \in Requests, OpenFails(q) PROVE UsersCounted' /\ OpeningAlone'
  <2>1. /\ pc[q] = "opening" /\ opener' = Nobody
        /\ UNCHANGED <<sessions, users>> /\ pc' = [pc EXCEPT ![q] = "done"]
    BY <1>5 DEF OpenFails, IsOpening, At, Goto, managed
  <2>2. \A r \in Runs : Using(r)' = Using(r)
    BY <1>0, <2>1 DEF TypeOK, Using, Run, Opened, Gated
  <2>3. UsersCounted'
    BY <2>1, <2>2, UsersAre DEF SessionInv, UsersCounted, Using
  <2> QED
    BY <2>1, <2>3 DEF OpeningAlone
<1>6. ASSUME NEW q \in Requests, NEW a \in Audited, RecoverTouch(q, a) \/ RecoverComplete(q, a)
      PROVE  UsersCounted' /\ OpeningAlone'
  <2>1. UNCHANGED <<sessions, users, opener, pc>>
    BY <1>6 DEF RecoverTouch, RecoverComplete, managed, opening
  <2> QED
    BY <2>1, UsersSame
<1>7. ASSUME NEW s \in Starts, Start(s) PROVE UsersCounted' /\ OpeningAlone'
  BY <1>0, <1>7, StartStays, UsersSame
<1>8. CASE Tick \/ StepBack \/ UNCHANGED vars
  <2>1. UNCHANGED <<sessions, users, opener, pc>>
    BY <1>8 DEF Tick, StepBack, vars, managed, opening
  <2> QED
    BY <2>1, UsersSame
<1>9. CASE Crash
  <2>1. /\ users' = [r \in Runs |-> 0] /\ opener' = Nobody
        /\ \A q \in Requests : pc'[q] \notin Opened
    BY <1>9 DEF Crash, InFlight, Opened, Gated
  <2>2. \A r \in Runs : Using(r)' = {}
    BY <2>1 DEF Using
  <2> QED
    BY <2>1, <2>2, FS_EmptySet DEF UsersCounted, Using, OpeningAlone
<1>10. ASSUME NEW q \in Requests, Handle(q) PROVE UsersCounted' /\ OpeningAlone'
  BY <1>1, <1>2, <1>3, <1>4, <1>5, <1>6, <1>10, UsersOpenExisting, UsersInstall
     DEF Handle, Open, Enter, Leave, Works
<1> QED
  BY <1>7, <1>8, <1>9, <1>10 DEF Next

LEMMA SessionInit == Init => SessionInv
<1> SUFFICES ASSUME Init PROVE SessionInv
  OBVIOUS
<1>1. \A r \in Runs : Using(r) = {}
  BY DEF Init, Using, Opened, Gated
<1> QED
  BY <1>1, TypeInit, UsersAre, FS_EmptySet DEF Init, SessionInv, OpeningAlone

LEMMA SessionNext == SessionInv /\ [Next]_vars => SessionInv'
BY UsersNext, TypeNext DEF SessionInv

(***************************************************************************)
(* managedRun.users counts the requests between open and release, and the  *)
(* session they use is not evicted, whatever fails or crashes meanwhile:   *)
(* no two sessions of a run coexist.                                       *)
(***************************************************************************)
THEOREM SessionsInUseStay == Spec => []UsersCounted
<1>1. SessionInv => UsersCounted
  BY DEF SessionInv
<1> QED
  BY <1>1, SessionInit, SessionNext, PTL DEF Spec

(***************************************************************************)
(* Audits.  Without a restart or an I/O error an open audit is that of a   *)
(* request past the gate, whose session recovery would have to replace.    *)
(***************************************************************************)
OpenAuditsGated ==
    faults = 0 /\ crashes = 0 =>
        \A q \in Requests : audit[q] = "received" => pc[q] \in Gated

AuditInv == SessionInv /\ OpenAuditsGated /\ InterruptedByRestart /\ AuditsSettled

AuditsKept == OpenAuditsGated /\ InterruptedByRestart /\ AuditsSettled

LEMMA AuditsSame ==
    ASSUME AuditInv, UNCHANGED <<faults, crashes>>, sessions' \subseteq sessions,
           \A p \in Requests :
              /\ audit'[p] = "received" => audit[p] = "received" \/ pc'[p] \in Gated
              /\ audit'[p] = "received" /\ pc[p] \in Gated => pc'[p] \in Gated
              /\ audit'[p] = "interrupted" => audit[p] = "interrupted"
    PROVE  AuditsKept'
BY DEF AuditInv, AuditsKept, OpenAuditsGated, InterruptedByRestart, AuditsSettled, Run

LEMMA AuditsFaulty ==
    ASSUME TypeOK, Fault
    PROVE  AuditsKept'
<1>1. faults \in Nat /\ faults' = faults + 1
  BY DEF TypeOK, Fault
<1>2. faults' > 0 /\ faults' # 0
  BY <1>1
<1> QED
  BY <1>2 DEF AuditsKept, OpenAuditsGated, InterruptedByRestart, AuditsSettled

\* open finds no audit to interrupt unless there was a restart or an error.
LEMMA AuditsRecover ==
    ASSUME AuditInv, NEW q \in Requests, NEW a \in Audited, RecoverComplete(q, a)
    PROVE  AuditsKept'
<1>1. /\ opener = q /\ Run(a) = Run(q) /\ audit[a] = "received"
      /\ audit' = [audit EXCEPT ![a] = "interrupted"]
      /\ UNCHANGED <<sessions, pc, faults, crashes>>
  BY DEF RecoverComplete, IsOpening, Unsettled, managed, env
<1>2. Run(q) \notin sessions
  BY <1>1 DEF AuditInv, SessionInv, OpeningAlone, RequestsAssumption
<1>3. a \in Requests => pc[a] \notin Gated
  <2> SUFFICES ASSUME a \in Requests, pc[a] \in Gated PROVE FALSE
    OBVIOUS
  <2>1. a \in Using(Run(a)) /\ Run(a) \in Runs
    BY DEF Using, Opened, Run
  <2> QED
    BY <1>1, <1>2, <2>1, UsersAre DEF AuditInv, SessionInv
<1>4. \A p \in Requests : audit'[p] = IF p = a THEN "interrupted" ELSE audit[p]
  BY <1>1 DEF AuditInv, SessionInv, TypeOK, Audited
<1>5. a \in Requests => ~(faults = 0 /\ crashes = 0)
  BY <1>1, <1>3 DEF AuditInv, OpenAuditsGated
<1>6. faults \in Nat /\ crashes \in Nat
  BY DEF AuditInv, SessionInv, TypeOK
<1>7. InterruptedByRestart'
  BY <1>1, <1>4, <1>5, <1>6 DEF AuditInv, InterruptedByRestart
<1>8. OpenAuditsGated' /\ AuditsSettled'
  BY <1>1, <1>4 DEF AuditInv, OpenAuditsGated, AuditsSettled, Run
<1> QED
  BY <1>7, <1>8 DEF AuditsKept

\* A session enters the map when recovery has left it no open audit.
LEMMA AuditsInstall ==
    ASSUME AuditInv, NEW q \in Requests, InstallSession(q)
    PROVE  AuditsKept'
<1>1. /\ UNCHANGED <<audit, faults, crashes>> /\ Unsettled(Run(q)) = {}
      /\ sessions' \subseteq sessions \cup {Run(q)}
      /\ pc[q] = "opening" /\ pc' = [pc EXCEPT ![q] = "opened"]
  BY SurvivorsOpened DEF InstallSession, IsOpening, At, Goto, durable, env
<1>2. \A p \in Requests : pc[p] \in Gated => pc'[p] \in Gated
  BY <1>1 DEF AuditInv, SessionInv, TypeOK, Gated
<1>3. \A p \in Requests : Run(p) = Run(q) => audit[p] # "received"
  BY <1>1 DEF Unsettled, Audited
<1>4. \A p \in Requests : Run(p)' = Run(p)
  BY DEF Run
<1> QED
  BY <1>1, <1>2, <1>3, <1>4
     DEF AuditInv, AuditsKept, OpenAuditsGated, InterruptedByRestart, AuditsSettled

LEMMA AuditsNext ==
    ASSUME AuditInv, [Next]_vars
    PROVE  AuditsKept'
<1>0. TypeOK
  BY DEF AuditInv, SessionInv
<1>1. ASSUME NEW q \in Requests,
             \/ OpenExisting(q) \/ BeginOpen(q) \/ ReadCatalog(q) \/ Busy(q)
             \/ \E a \in Audited : RecoverTouch(q, a)
      PROVE  AuditsKept'
  <2>1. UNCHANGED <<audit, faults, crashes>>
    BY <1>1 DEF OpenExisting, BeginOpen, ReadCatalog, Busy, RecoverTouch, durable, env
  <2>2. sessions' \subseteq sessions
    BY <1>1, SurvivorsOpened
       DEF OpenExisting, BeginOpen, ReadCatalog, Busy, RecoverTouch, managed, Release, Keep
  <2>3. UNCHANGED pc \/ (pc[q] \notin Gated /\ pc' = [pc EXCEPT ![q] = pc'[q]])
    BY <1>0, <1>1 DEF TypeOK, OpenExisting, BeginOpen, ReadCatalog, Busy, RecoverTouch, At,
       Goto, Gated
  <2>4. \A p \in Requests : pc[p] \in Gated => pc'[p] \in Gated
    BY <1>0, <2>3 DEF TypeOK
  <2> QED
    BY <2>1, <2>2, <2>4, AuditsSame
<1>2. ASSUME NEW q \in Requests, OpenFails(q) \/ ReceiveFails(q) \/ StepFails(q) \/ FinishFails(q)
      PROVE  AuditsKept'
  BY <1>0, <1>2, AuditsFaulty DEF OpenFails, ReceiveFails, StepFails, FinishFails
<1>3. ASSUME NEW q \in Requests, Advance(q) \/ Act(q) PROVE AuditsKept'
  <2>1. /\ pc'[q] \in Gated /\ pc' = [pc EXCEPT ![q] = pc'[q]]
        /\ UNCHANGED <<sessions, audit>>
    BY <1>0, <1>3, WorkStays DEF Works
  <2>2. UNCHANGED <<faults, crashes>>
    BY <1>3 DEF Advance, RejectAdvance, SkipAdvance, AdvanceTime, AdvanceStale, Touch, Execute,
       Unjournalled, Act, IssueCredential, ReplySaved, RejectCommand, ExecuteCommand,
       RepeatCommand, RecordResponse, ActionStale, env
  <2>3. \A p \in Requests : pc[p] \in Gated => pc'[p] \in Gated
    BY <1>0, <2>1 DEF TypeOK
  <2> QED
    BY <2>1, <2>2, <2>3, AuditsSame
<1>4. ASSUME NEW q \in Requests, Receive(q) PROVE AuditsKept'
  <2>1. /\ audit' = [audit EXCEPT ![q] = "received"] /\ pc' = [pc EXCEPT ![q] = "locked"]
        /\ UNCHANGED <<sessions, faults, crashes>>
    BY <1>4 DEF Receive, Goto, env
  <2>2. \A p \in Requests : /\ p # q => pc'[p] = pc[p] /\ audit'[p] = audit[p]
                            /\ p = q => pc'[p] \in Gated /\ audit'[p] = "received"
    BY <1>0, <2>1 DEF TypeOK, Audited, Gated
  <2> QED
    BY <2>1, <2>2, AuditsSame
<1>5. ASSUME NEW q \in Requests, Finish(q) PROVE AuditsKept'
  <2>1. /\ audit' = [audit EXCEPT ![q] = IF @ = "received" THEN "completed" ELSE @]
        /\ pc' = [pc EXCEPT ![q] = "done"] /\ UNCHANGED <<faults, crashes>>
    BY <1>5 DEF Finish, Complete, Goto, env
  <2>2. sessions' \subseteq sessions
    BY <1>5, SurvivorsOpened DEF Finish, Release, Keep
  <2>3. \A p \in Requests :
           /\ p # q => pc'[p] = pc[p] /\ audit'[p] = audit[p]
           /\ p = q => audit'[p] # "received" /\ (audit'[p] = "interrupted" => audit[p] = "interrupted")
    BY <1>0, <2>1 DEF TypeOK, Audited
  <2> QED
    BY <2>1, <2>2, <2>3, AuditsSame
<1>6. ASSUME NEW s \in Starts, Start(s) PROVE AuditsKept'
  <2>1. UNCHANGED <<faults, crashes>>
    BY <1>6 DEF Start, StartOpen, StartIssue, StartIssued, StartReceive, StartFinish, env
  <2>2. UNCHANGED <<sessions, pc>> /\ \A p \in Requests : audit'[p] = audit[p]
    BY <1>0, <1>6, StartStays
  <2> QED
    BY <2>1, <2>2, AuditsSame
<1>7. CASE Tick \/ StepBack \/ UNCHANGED vars
  <2>1. UNCHANGED <<sessions, audit, pc, faults, crashes>>
    BY <1>7 DEF Tick, StepBack, vars, durable, managed, env
  <2> QED
    BY <2>1, AuditsSame
<1>8. CASE Crash
  <2>1. crashes \in Nat /\ crashes' = crashes + 1 /\ sessions' = {}
    BY <1>0, <1>8 DEF TypeOK, Crash
  <2>2. crashes' > 0 /\ crashes' # 0
    BY <2>1
  <2> QED
    BY <2>1, <2>2 DEF AuditsKept, OpenAuditsGated, InterruptedByRestart, AuditsSettled
<1>9. ASSUME NEW q \in Requests, Handle(q) PROVE AuditsKept'
  BY <1>1, <1>2, <1>3, <1>4, <1>5, <1>9, AuditsRecover, AuditsInstall
     DEF Handle, Open, Enter, Leave
<1> QED
  BY <1>6, <1>7, <1>8, <1>9 DEF Next

LEMMA AuditInit == Init => AuditInv
<1> SUFFICES ASSUME Init PROVE AuditInv
  OBVIOUS
<1>1. \A q \in Requests : audit[q] = "none"
  BY DEF Init, Audited
<1> QED
  BY <1>1, SessionInit DEF AuditInv, OpenAuditsGated, InterruptedByRestart, AuditsSettled

LEMMA AuditsInvariant == Spec => []AuditInv
<1>1. AuditInv /\ [Next]_vars => AuditInv'
  BY AuditsNext, SessionNext DEF AuditInv, AuditsKept
<1> QED
  BY <1>1, AuditInit, PTL DEF Spec

(***************************************************************************)
(* open marks an audit "interrupted by simulator restart" only when there  *)
(* was a restart or an I/O error: never that of a request still in flight. *)
(***************************************************************************)
THEOREM InterruptedOnlyByRestart == Spec => []InterruptedByRestart
<1>1. AuditInv => InterruptedByRestart
  BY DEF AuditInv
<1> QED
  BY <1>1, AuditsInvariant, PTL

(***************************************************************************)
(* While no I/O fails, a run in memory has no open audit but that of the   *)
(* request past its gate: recovery settles the others before the session   *)
(* is used, whatever crashes went before.                                  *)
(***************************************************************************)
THEOREM RecoverySettles == Spec => []AuditsSettled
<1>1. AuditInv => AuditsSettled
  BY DEF AuditInv
<1> QED
  BY <1>1, AuditsInvariant, PTL

(***************************************************************************)
(* Replies.  A command's payload is in the journal before the reply is     *)
(* decided, and the journal only grows.                                    *)
(***************************************************************************)
Durable(q) == CommandOf[q] \in Of(journal[Run(q)], PayloadType(q))

AckInv == \A q \in Requests :
    /\ outcome[q] = "ok" /\ KindOf[q] \in {"advance", "create", "upsert"} => Durable(q)
    /\ pc[q] = "advanced" /\ KindOf[q] = "advance" => Durable(q)
    /\ pc[q] = "created" => KindOf[q] \in {"create", "upsert"} /\ Durable(q)

LEMMA OfPrefix ==
    ASSUME NEW s \in Seq(Event), NEW t \in Seq(Event), IsPrefix(s, t), NEW type
    PROVE  Of(s, type) \subseteq Of(t, type)
BY DEF Of, IsPrefix

LEMMA OfGrows ==
    ASSUME NEW s \in Seq(Event), NEW e
    PROVE  /\ \A type : Of(s, type) \subseteq Of(Append(s, e), type)
           /\ e.cmd \in Of(Append(s, e), e.type)
<1>1. /\ DOMAIN Append(s, e) = 1..(Len(s) + 1) /\ Len(s) \in Nat /\ DOMAIN s = 1..Len(s)
      /\ \A i \in 1..Len(s) : Append(s, e)[i] = s[i]
      /\ Append(s, e)[Len(s) + 1] = e
  OBVIOUS
<1>2. ASSUME NEW type PROVE Of(s, type) \subseteq Of(Append(s, e), type)
  BY <1>1 DEF Of
<1>3. Len(s) + 1 \in 1..(Len(s) + 1)
  BY <1>1
<1>4. e.cmd \in Of(Append(s, e), e.type)
  BY <1>1, <1>3 DEF Of
<1> QED
  BY <1>2, <1>4

LEMMA DurableKept ==
    ASSUME TypeOK, [Next]_vars, NEW q \in Requests, Durable(q)
    PROVE  Durable(q)'
<1>1. journal' = journal \/ \E r \in Runs : \E e : journal' = [journal EXCEPT ![r] = Append(@, e)]
  <2>1. ASSUME NEW p \in Requests, Open(p) \/ Enter(p) \/ Leave(p) PROVE journal' = journal
    BY <2>1 DEF Open, OpenExisting, BeginOpen, InstallSession, OpenFails, RecoverTouch,
       RecoverComplete, Enter, ReadCatalog, Busy, Receive, ReceiveFails, Leave, StepFails,
       Finish, FinishFails, durable
  <2>2. ASSUME NEW p \in Requests, NEW e, Execute(p, e)
        PROVE  \E r \in Runs : journal' = [journal EXCEPT ![r] = Append(@, e)]
    BY <2>2 DEF Execute, Run
  <2>3. ASSUME NEW p \in Requests, Advance(p) \/ Act(p)
        PROVE  journal' = journal \/ \E e : Execute(p, e)
    BY <2>3 DEF Advance, RejectAdvance, SkipAdvance, AdvanceTime, AdvanceStale, Touch,
       Unjournalled, Act, IssueCredential, ReplySaved, RejectCommand, ExecuteCommand,
       RepeatCommand, RecordResponse, ActionStale, durable
  <2>4. ASSUME NEW s \in Starts, Start(s)
        PROVE  journal' = journal \/ \E r \in Runs : \E e : journal' = [journal EXCEPT ![r] = Append(@, e)]
    BY <2>4 DEF Start, StartOpen, StartIssue, StartIssued, StartReceive, StartFinish, durable, Run
  <2>5. CASE Tick \/ StepBack \/ Crash \/ UNCHANGED vars
    BY <2>5 DEF Tick, StepBack, Crash, vars, durable
  <2> QED
    BY <2>1, <2>2, <2>3, <2>4, <2>5 DEF Next, Handle
<1>2. Run(q) \in Runs /\ journal[Run(q)] \in Seq(Event) /\ journal \in [Runs -> Seq(Event)]
  BY DEF Run, TypeOK
<1>3. /\ \/ journal'[Run(q)] = journal[Run(q)]
         \/ \E e : journal'[Run(q)] = Append(journal[Run(q)], e)
      /\ Run(q)' = Run(q) /\ PayloadType(q)' = PayloadType(q)
  BY <1>1, <1>2 DEF Run, PayloadType
<1>4. Of(journal[Run(q)], PayloadType(q)) \subseteq Of(journal'[Run(q)], PayloadType(q))
  BY <1>2, <1>3, OfGrows
<1> QED
  BY <1>3, <1>4 DEF Durable

LEMMA AckStep ==
    ASSUME TypeOK, AckInv, [Next]_vars,
           \A q \in Requests :
              /\ outcome'[q] = "ok" => outcome[q] = "ok" \/ Durable(q) \/ Durable(q)'
                                       \/ KindOf[q] \notin {"advance", "create", "upsert"}
              /\ pc'[q] = "advanced" /\ KindOf[q] = "advance"
                   => pc[q] = "advanced" \/ Durable(q) \/ Durable(q)'
              /\ pc'[q] = "created" => pc[q] = "created" \/
                   (KindOf[q] \in {"create", "upsert"} /\ (Durable(q) \/ Durable(q)'))
    PROVE  AckInv'
BY DurableKept DEF AckInv

\* What the session of a request has applied is in the journal.
LEMMA AppliedIsDurable ==
    ASSUME TypeOK, ViewIsPrefix, NEW q \in Requests, SamePayload(q)
    PROVE  Durable(q)
<1>1. Run(q) \in Runs /\ view[Run(q)] \in Seq(Event) /\ journal[Run(q)] \in Seq(Event)
  BY DEF Run, TypeOK
<1>2. IsPrefix(view[Run(q)], journal[Run(q)])
  BY <1>1 DEF ViewIsPrefix
<1> QED
  BY <1>1, <1>2, OfPrefix DEF SamePayload, Durable

\* What a request executes under its payload's type is in the journal.
LEMMA ExecutedIsDurable ==
    ASSUME TypeOK, NEW q \in Requests, NEW e, Execute(q, e),
           e.type = PayloadType(q), e.cmd = CommandOf[q]
    PROVE  Durable(q)'
<1>1. Run(q) \in Runs /\ journal[Run(q)] \in Seq(Event)
  BY DEF Run, TypeOK
<1>2. journal'[Run(q)] = Append(journal[Run(q)], e) /\ Run(q)' = Run(q)
      /\ PayloadType(q)' = PayloadType(q)
  BY <1>1 DEF Execute, Run, PayloadType, TypeOK
<1>3. CommandOf[q] \in Of(Append(journal[Run(q)], e), PayloadType(q))
  BY <1>1, OfGrows
<1> QED
  BY <1>2, <1>3 DEF Durable

LEMMA AckSame ==
    ASSUME TypeOK, AckInv, [Next]_vars,
           \A q \in Requests :
              /\ outcome'[q] = "ok" => outcome[q] = "ok"
              /\ pc'[q] \in {"advanced", "created"} => pc'[q] = pc[q]
    PROVE  AckInv'
BY AckStep

LEMMA AckAdvance ==
    ASSUME TypeOK, ViewIsPrefix, AckInv, [Next]_vars, NEW q \in Requests, Advance(q)
    PROVE  AckInv'
<1>0. pc \in [Requests -> Positions] /\ outcome \in [Requests -> Outcomes]
  BY DEF TypeOK
<1>1. CASE RejectAdvance(q) \/ AdvanceStale(q)
  <2>1. /\ pc' = [pc EXCEPT ![q] = "replying"]
        /\ \E to \in {"mismatch", "completed", "stale"} : outcome' = [outcome EXCEPT ![q] = to]
    BY <1>1 DEF RejectAdvance, AdvanceStale, Goto, Reply
  <2> QED
    BY <1>0, <2>1, AckSame
<1>2. CASE SkipAdvance(q)
  <2>1. /\ pc' = [pc EXCEPT ![q] = "advanced"] /\ outcome' = outcome
        /\ KindOf[q] = "advance" => SamePayload(q)
    BY <1>2 DEF SkipAdvance, Goto, local, IsAdvance
  <2>2. KindOf[q] = "advance" => Durable(q)
    BY <2>1, AppliedIsDurable
  <2> QED
    BY <1>0, <2>1, <2>2, AckStep
<1>3. CASE AdvanceTime(q)
  <2>1. pc' = [pc EXCEPT ![q] = "advanced"] /\ outcome' = outcome
    BY <1>3 DEF AdvanceTime, Goto, local
  <2>2. ASSUME KindOf[q] = "advance" PROVE Durable(q)'
    <3>1. PICK e : /\ Execute(q, e) /\ e.type = "TimeAdvanced" /\ e.cmd = CommandOf[q]
      BY <1>3, <2>2 DEF AdvanceTime, TimeAdvanced, AdvanceID
    <3>2. PayloadType(q) = "TimeAdvanced"
      BY <2>2 DEF PayloadType
    <3> QED
      BY <3>1, <3>2, ExecutedIsDurable
  <2> QED
    BY <1>0, <2>1, <2>2, AckStep
<1>4. CASE Touch(q)
  <2>1. /\ pc[q] = "advanced"
        /\ \/ /\ KindOf[q] \in {"read", "advance"} /\ pc' = [pc EXCEPT ![q] = "replying"]
              /\ outcome' = [outcome EXCEPT ![q] = "ok"]
           \/ pc' = [pc EXCEPT ![q] = "touched"] /\ outcome' = outcome
    BY <1>4 DEF Touch, Goto, Reply, At
  <2>2. KindOf[q] = "advance" => Durable(q)
    BY <2>1 DEF AckInv
  <2> QED
    BY <1>0, <2>1, <2>2, AckStep
<1> QED
  BY <1>1, <1>2, <1>3, <1>4 DEF Advance

LEMMA AckAct ==
    ASSUME TypeOK, ViewIsPrefix, AckInv, [Next]_vars, NEW q \in Requests, Act(q)
    PROVE  AckInv'
<1>0. pc \in [Requests -> Positions] /\ outcome \in [Requests -> Outcomes]
  BY DEF TypeOK
<1>1. CASE RejectCommand(q) \/ ActionStale(q)
  <2>1. /\ pc' = [pc EXCEPT ![q] = "replying"]
        /\ \E to \in {"mismatch", "completed", "stale"} : outcome' = [outcome EXCEPT ![q] = to]
    BY <1>1 DEF RejectCommand, ActionStale, Goto, Reply
  <2> QED
    BY <1>0, <2>1, AckSame
<1>2. CASE IssueCredential(q)
  BY <1>2, AckSame DEF IssueCredential, local
<1>3. CASE ReplySaved(q)
  <2>1. /\ pc' = [pc EXCEPT ![q] = "replying"] /\ outcome' = [outcome EXCEPT ![q] = "ok"]
        /\ KindOf[q] = "inbox" \/ SamePayload(q)
    BY <1>3 DEF ReplySaved, Goto, Reply
  <2>2. KindOf[q] = "inbox" \/ Durable(q)
    BY <2>1, AppliedIsDurable
  <2> QED
    BY <1>0, <2>1, <2>2, AckStep
<1>4. CASE ExecuteCommand(q)
  <2>1. /\ pc' = [pc EXCEPT ![q] = "created"] /\ outcome' = outcome
        /\ KindOf[q] \in {"create", "upsert"}
        /\ Execute(q, Fact(PayloadType(q), CommandOf[q]))
    BY <1>4 DEF ExecuteCommand, Acts, Goto, local
  <2>2. Durable(q)'
    BY <2>1, ExecutedIsDurable DEF Fact
  <2> QED
    BY <1>0, <2>1, <2>2, AckStep
<1>5. CASE RepeatCommand(q)
  <2>1. /\ pc' = [pc EXCEPT ![q] = "created"] /\ outcome' = outcome
        /\ KindOf[q] = "upsert" /\ SamePayload(q)
    BY <1>5 DEF RepeatCommand, Goto, local
  <2> QED
    BY <1>0, <2>1, AppliedIsDurable, AckStep
<1>6. CASE RecordResponse(q)
  <2>1. /\ pc[q] = "created" /\ pc' = [pc EXCEPT ![q] = "replying"]
        /\ outcome' = [outcome EXCEPT ![q] = "ok"]
    BY <1>6 DEF RecordResponse, At, Goto, Reply
  <2>2. Durable(q)
    BY <2>1 DEF AckInv
  <2> QED
    BY <1>0, <2>1, <2>2, AckStep
<1> QED
  BY <1>1, <1>2, <1>3, <1>4, <1>5, <1>6 DEF Act

LEMMA AckNext ==
    ASSUME TypeOK, ViewIsPrefix, AckInv, [Next]_vars
    PROVE  AckInv'
<1>0. pc \in [Requests -> Positions] /\ outcome \in [Requests -> Outcomes]
  BY DEF TypeOK
<1>1. ASSUME NEW q \in Requests, Open(q) \/ Enter(q) \/ Leave(q) PROVE AckInv'
  <2>1. UNCHANGED pc \/ \E to \in Positions \ {"advanced", "created"} : pc' = [pc EXCEPT ![q] = to]
    BY <1>1 DEF Open, OpenExisting, BeginOpen, InstallSession, OpenFails, RecoverTouch,
       RecoverComplete, Enter, ReadCatalog, Busy, Receive, ReceiveFails, Leave, StepFails,
       Finish, FinishFails, Goto, Positions, InFlight, Opened, Gated
  <2>2. \/ UNCHANGED outcome
        \/ \E to : /\ outcome' = [outcome EXCEPT ![q] = to]
                   /\ to # "ok"
    <3>1. CASE Open(q) \/ Enter(q) \/ StepFails(q)
      <4>1. UNCHANGED outcome \/ \E to \in {"busy", "error"} : Reply(q, to)
        BY <3>1 DEF Open, OpenExisting, BeginOpen, InstallSession, OpenFails, RecoverTouch,
           RecoverComplete, Enter, ReadCatalog, Busy, Receive, ReceiveFails, StepFails, local
      <4> QED
        BY <4>1 DEF Reply
    <3>2. CASE Finish(q) \/ FinishFails(q)
      <4>1. UNCHANGED outcome \/ Unanswered(q)
        BY <3>2 DEF Finish, FinishFails
      <4> QED
        BY <4>1 DEF Unanswered, Reply
    <3> QED
      BY <1>1, <3>1, <3>2 DEF Leave
  <2> QED
    BY <1>0, <2>1, <2>2, AckSame
<1>2. ASSUME NEW s \in Starts, Start(s) PROVE AckInv'
  BY <1>2, StartStays, AckSame
<1>3. CASE Tick \/ StepBack \/ UNCHANGED vars
  BY <1>3, AckSame DEF Tick, StepBack, vars, local
<1>4. CASE Crash
  <2>1. \A q \in Requests :
           /\ pc'[q] = IF pc[q] \in InFlight THEN "done" ELSE pc[q]
           /\ outcome'[q] = IF pc[q] \in InFlight THEN "lost" ELSE outcome[q]
    BY <1>4 DEF Crash
  <2> QED
    BY <2>1, AckSame
<1> QED
  BY <1>1, <1>2, <1>3, <1>4, AckAdvance, AckAct DEF Next, Handle

(***************************************************************************)
(* A command that is answered 200 has its effect in the journal, under the *)
(* payload asked for, and keeps it through every crash, retry and fault.   *)
(***************************************************************************)
THEOREM AnsweredIsDurable == Spec => []AckDurable
<1>1. Init => AckInv
  BY DEF Init, AckInv
<1>2. AckInv => AckDurable
  BY DEF AckInv, AckDurable, Durable
<1>3. JournalInv /\ AckInv /\ [Next]_vars => AckInv'
  BY AckNext DEF JournalInv
<1> QED
  BY <1>1, <1>2, <1>3, JournalInvariant, PTL DEF Spec

(***************************************************************************)
(* The limit.  A locked gate means a user, and no two sessions were last   *)
(* used at the same access: evictUnlocked has an order to follow.          *)
(***************************************************************************)
GateHeld == \A r \in Runs : gate[r] => \E q \in Requests : Run(q) = r /\ pc[q] \in Gated

Stamped ==
    /\ \A r \in sessions : lastAccess[r] <= access
    /\ \A q, r \in sessions : lastAccess[q] = lastAccess[r] => q = r

Within == (\E r \in sessions : users[r] = 0) => Cardinality(sessions) <= MaxRuns

BoundInv == SessionInv /\ IsFiniteSet(sessions) /\ GateHeld /\ Stamped /\ Within

\* What evictUnlocked leaves, when no idle session is locked or protected.
LEMMA SurvivorsWithin ==
    ASSUME NEW opened \in SUBSET Runs, IsFiniteSet(opened), NEW using, NEW locked,
           NEW stamp \in [Runs -> Nat], NEW protected,
           \A q, r \in opened : stamp[q] = stamp[r] => q = r,
           \A r \in opened : using[r] = 0 => ~locked[r] /\ r # protected
    PROVE  LET kept == Survivors(opened, using, locked, stamp, protected)
           IN  /\ IsFiniteSet(kept)
               /\ (\E r \in kept : using[r] = 0) => Cardinality(kept) <= MaxRuns
<1> DEFINE idle == {r \in opened : r # protected /\ using[r] = 0 /\ ~locked[r]}
           below == [r \in idle |-> {x \in idle : stamp[x] < stamp[r]}]
           removed == {r \in idle : Cardinality(below[r]) < Cardinality(opened) - MaxRuns}
           kept == Survivors(opened, using, locked, stamp, protected)
<1>1. kept = opened \ removed
  <2>1. removed = {r \in idle :
                     Cardinality({x \in idle : stamp[x] < stamp[r]}) < Cardinality(opened) - MaxRuns}
    OBVIOUS
  <2> HIDE DEF removed, below
  <2> QED
    BY <2>1 DEF Survivors
<1>2. IsFiniteSet(kept)
  <2>1. kept \in SUBSET opened
    BY SurvivorsOpened
  <2> QED
    BY <2>1, FS_Subset
<1>3. ASSUME NEW left \in kept, using[left] = 0 PROVE Cardinality(kept) <= MaxRuns
  <2>1. left \in idle \ removed
    BY <1>1, <1>3
  <2>2. idle \in SUBSET opened /\ below \in [idle -> SUBSET idle] /\ MaxRuns \in Nat
    OBVIOUS
  <2>3. \A x \in idle : stamp[x] \in Nat
    OBVIOUS
  <2>4. \A x, y \in idle : y \in below[x] <=> stamp[y] < stamp[x]
    OBVIOUS
  <2>5. \A x, y \in idle : x # y => stamp[x] # stamp[y]
    OBVIOUS
  <2>6. removed = {x \in idle : Cardinality(below[x]) < Cardinality(opened) - MaxRuns}
    OBVIOUS
  <2> HIDE DEF idle, below, removed, kept
  <2>7. \A x \in idle : x \notin below[x]
    BY <2>3, <2>4
  <2>8. \A x, y \in idle : x # y => x \in below[y] \/ y \in below[x]
    <3> SUFFICES ASSUME NEW x \in idle, NEW y \in idle, x # y
                 PROVE  x \in below[y] \/ y \in below[x]
      OBVIOUS
    <3>1. stamp[x] \in Nat /\ stamp[y] \in Nat /\ stamp[x] # stamp[y]
      BY <2>3, <2>5
    <3>2. stamp[x] < stamp[y] \/ stamp[y] < stamp[x]
      BY <3>1
    <3> QED
      BY <2>4, <3>2
  <2>9. \A x, y \in idle : y \in below[x] => below[y] \subseteq below[x]
    <3> SUFFICES ASSUME NEW x \in idle, NEW y \in idle, y \in below[x], NEW z \in below[y]
                 PROVE  z \in below[x]
      OBVIOUS
    <3>1. z \in idle
      BY <2>2
    <3>2. stamp[z] < stamp[y] /\ stamp[y] < stamp[x]
      BY <2>4, <3>1
    <3>3. stamp[z] < stamp[x]
      BY <2>3, <3>1, <3>2
    <3> QED
      BY <2>4, <3>1, <3>3
  <2>10. Cardinality(opened \ removed) <= MaxRuns
    BY <2>1, <2>2, <2>6, <2>7, <2>8, <2>9, LeftWithinLimit
  <2> QED
    BY <1>1, <2>10
<1> QED
  BY <1>2, <1>3

LEMMA GateHeldKept ==
    ASSUME GateHeld, UNCHANGED gate, \A q \in Requests : pc[q] \in Gated => pc'[q] \in Gated
    PROVE  GateHeld'
BY DEF GateHeld, Run

LEMMA GateHeldNext ==
    ASSUME TypeOK, GateHeld, [Next]_vars
    PROVE  GateHeld'
<1>1. ASSUME NEW q \in Requests, Open(q) \/ ReadCatalog(q) \/ Busy(q) \/ ReceiveFails(q)
      PROVE  GateHeld'
  <2>1. UNCHANGED gate
    BY <1>1 DEF Open, OpenExisting, BeginOpen, InstallSession, OpenFails, RecoverTouch,
       RecoverComplete, ReadCatalog, Busy, ReceiveFails, managed
  <2>2. UNCHANGED pc \/ (pc[q] \notin Gated /\ \E to : pc' = [pc EXCEPT ![q] = to])
    BY <1>1 DEF Open, OpenExisting, BeginOpen, InstallSession, OpenFails, RecoverTouch,
       RecoverComplete, IsOpening, ReadCatalog, Busy, ReceiveFails, At, Goto, Gated
  <2>3. \A p \in Requests : pc[p] \in Gated => pc'[p] \in Gated
    BY <2>2 DEF TypeOK
  <2> QED
    BY <2>1, <2>3, GateHeldKept
<1>2. ASSUME NEW q \in Requests, Receive(q) PROVE GateHeld'
  <2>1. /\ gate' = [gate EXCEPT ![Run(q)] = TRUE] /\ pc' = [pc EXCEPT ![q] = "locked"]
    BY <1>2 DEF Receive, Goto
  <2>2. \A p \in Requests : pc[p] \in Gated \/ p = q => pc'[p] \in Gated
    BY <2>1 DEF TypeOK, Gated
  <2>3. \A r \in Runs : gate'[r] => r = Run(q) \/ gate[r]
    BY <2>1 DEF TypeOK
  <2> QED
    BY <2>2, <2>3 DEF GateHeld, Run
<1>3. ASSUME NEW q \in Requests, Works(q) PROVE GateHeld'
  <2>1. UNCHANGED gate
    BY <1>3 DEF Works, Advance, Act, RejectAdvance, SkipAdvance, AdvanceTime, AdvanceStale, Touch,
        IssueCredential, ReplySaved, RejectCommand, ExecuteCommand, RepeatCommand,
        RecordResponse, ActionStale, StepFails, Execute, Unjournalled, managed
  <2>2. pc'[q] \in Gated /\ pc' = [pc EXCEPT ![q] = pc'[q]]
    BY <1>3, WorkStays
  <2>3. \A p \in Requests : pc[p] \in Gated => pc'[p] \in Gated
    BY <2>2 DEF TypeOK
  <2> QED
    BY <2>1, <2>3, GateHeldKept
<1>4. ASSUME NEW q \in Requests, Finish(q) \/ FinishFails(q) PROVE GateHeld'
  <2>1. /\ gate' = [gate EXCEPT ![Run(q)] = FALSE] /\ pc' = [pc EXCEPT ![q] = "done"]
    BY <1>4 DEF Finish, FinishFails, Goto
  <2>2. \A r \in Runs : gate'[r] => r # Run(q) /\ gate[r]
    BY <2>1 DEF TypeOK
  <2>3. \A p \in Requests : p # q => pc'[p] = pc[p]
    BY <2>1 DEF TypeOK
  <2> QED
    BY <2>2, <2>3 DEF GateHeld, Run
<1>5. ASSUME NEW s \in Starts, Start(s) PROVE GateHeld'
  <2>1. UNCHANGED <<gate, pc>>
    BY <1>5 DEF Start, StartOpen, StartIssue, StartIssued, StartReceive, StartFinish, managed
  <2> QED
    BY <2>1, GateHeldKept
<1>6. CASE Tick \/ StepBack \/ UNCHANGED vars
  <2>1. UNCHANGED <<gate, pc>>
    BY <1>6 DEF Tick, StepBack, vars, managed
  <2> QED
    BY <2>1, GateHeldKept
<1>7. CASE Crash
  BY <1>7 DEF Crash, GateHeld
<1>8. ASSUME NEW q \in Requests, Handle(q) PROVE GateHeld'
  BY <1>1, <1>2, <1>3, <1>4, <1>8 DEF Handle, Enter, Leave, Works
<1> QED
  BY <1>5, <1>6, <1>7, <1>8 DEF Next

\* A session nobody uses after a step has its gate open.
LEMMA UnusedUnlockedNext ==
    ASSUME UsersCounted', GateHeld', NEW r \in Runs, users'[r] = 0
    PROVE  ~gate'[r]
<1>1. Using(r)' = {}
  <2>1. Using(r)' \in SUBSET Requests
    BY DEF Using
  <2>2. IsFiniteSet(Using(r)')
    BY <2>1, RequestsFinite, FS_Subset
  <2>3. Cardinality(Using(r)') = 0
    BY DEF UsersCounted, Using
  <2> QED
    BY <2>2, <2>3, FS_EmptySet
<1> QED
  BY <1>1 DEF GateHeld, Using, Opened

Bounds == IsFiniteSet(sessions) /\ Stamped /\ Within

LEMMA BoundsSame ==
    ASSUME BoundInv, UNCHANGED <<sessions, users, access, lastAccess>>
    PROVE  Bounds'
BY DEF BoundInv, Bounds, Stamped, Within

LEMMA BoundsReleased ==
    ASSUME BoundInv, UsersCounted', GateHeld', NEW q \in Requests, Release(q)
    PROVE  Bounds'
<1>1. /\ sessions' = Survivors(sessions, users', gate', lastAccess, Nobody)
      /\ UNCHANGED <<access, lastAccess>>
  BY DEF Release, Keep
<1>2. sessions \in SUBSET Runs /\ IsFiniteSet(sessions) /\ lastAccess \in [Runs -> Nat]
  BY DEF BoundInv, SessionInv, TypeOK
<1>3. \A r \in sessions : users'[r] = 0 => ~gate'[r] /\ r # Nobody
  <2>1. ASSUME NEW r \in Runs, users'[r] = 0 PROVE ~gate'[r]
    BY <2>1, UnusedUnlockedNext
  <2> QED
    BY <1>2, <2>1
<1>4. \A x, r \in sessions : lastAccess[x] = lastAccess[r] => x = r
  BY DEF BoundInv, Stamped
<1>5. /\ IsFiniteSet(sessions')
      /\ (\E r \in sessions' : users'[r] = 0) => Cardinality(sessions') <= MaxRuns
  BY <1>1, <1>2, <1>3, <1>4, SurvivorsWithin
<1>6. sessions' \subseteq sessions
  BY <1>1, SurvivorsOpened
<1> QED
  BY <1>1, <1>5, <1>6 DEF BoundInv, Bounds, Stamped, Within

LEMMA BoundsOpened ==
    ASSUME BoundInv, UsersCounted', GateHeld', NEW q \in Requests,
           OpenExisting(q) \/ InstallSession(q)
    PROVE  Bounds'
<1> DEFINE r == Run(q)
           all == sessions \cup {r}
           stamp == [lastAccess EXCEPT ![r] = access + 1]
<1>0. /\ r \in Runs /\ sessions \in SUBSET Runs /\ IsFiniteSet(sessions)
      /\ lastAccess \in [Runs -> Nat] /\ access \in Nat /\ users \in [Runs -> Nat]
  BY DEF BoundInv, SessionInv, TypeOK, Run
<1>1. all \in SUBSET Runs /\ IsFiniteSet(all)
  BY <1>0, FS_AddElement
<1>2. /\ stamp \in [Runs -> Nat] /\ stamp[r] = access + 1
      /\ \A x \in Runs : x # r => stamp[x] = lastAccess[x]
  <2>1. access + 1 \in Nat
    BY <1>0
  <2> QED
    BY <1>0, <2>1
<1>3. /\ \A x \in all : stamp[x] <= access + 1
      /\ \A x, y \in all : stamp[x] = stamp[y] => x = y
  <2>1. ASSUME NEW x \in all, x # r
        PROVE  x \in sessions /\ stamp[x] = lastAccess[x] /\ stamp[x] \in Nat /\ stamp[x] <= access
    BY <1>0, <1>2, <2>1 DEF BoundInv, Stamped
  <2>2. ASSUME NEW x \in all PROVE stamp[x] <= access + 1
    <3>1. CASE x = r
      BY <1>0, <1>2, <3>1
    <3>2. CASE x # r
      <4>1. stamp[x] \in Nat /\ stamp[x] <= access
        BY <2>1, <3>2
      <4> HIDE DEF stamp
      <4> QED
        BY <1>0, <4>1
    <3> QED
      BY <3>1, <3>2
  <2>3. ASSUME NEW x \in all, NEW y \in all, x # y PROVE stamp[x] # stamp[y]
    <3>1. CASE x # r /\ y # r
      BY <2>1, <2>3, <3>1 DEF BoundInv, Stamped
    <3>2. CASE x = r \/ y = r
      <4>1. x # r => stamp[x] <= access /\ stamp[x] \in Nat
        BY <2>1
      <4>2. y # r => stamp[y] <= access /\ stamp[y] \in Nat
        BY <2>1
      <4> HIDE DEF stamp
      <4> QED
        BY <1>0, <1>2, <2>3, <3>2, <4>1, <4>2
    <3> QED
      BY <3>1, <3>2
  <2> QED
    BY <2>2, <2>3
<1>4. access' = access + 1 /\ lastAccess' = stamp
  BY DEF OpenExisting, InstallSession
<1>5. CASE OpenExisting(q)
  <2>1. sessions' = sessions /\ r \in sessions /\ users' = [users EXCEPT ![r] = @ + 1]
    BY <1>5 DEF OpenExisting
  <2>2. all = sessions
    BY <2>1
  <2>3. Stamped'
    BY <1>3, <1>4, <2>1, <2>2 DEF Stamped
  <2>4. Within'
    <3>1. \A x \in sessions : users'[x] = 0 => users[x] = 0
      BY <1>0, <2>1
    <3> QED
      BY <2>1, <3>1 DEF BoundInv, Within
  <2> QED
    BY <1>0, <2>1, <2>3, <2>4 DEF Bounds
<1>6. CASE InstallSession(q)
  <2>1. /\ sessions' = Survivors(all, users', gate, stamp, r) /\ users'[r] = 1
        /\ gate' = gate
    BY <1>0, <1>6 DEF InstallSession
  <2>2. \A x \in all : users'[x] = 0 => ~gate[x] /\ x # r
    <3>1. ASSUME NEW x \in Runs, users'[x] = 0 PROVE ~gate'[x]
      BY <3>1, UnusedUnlockedNext
    <3> QED
      BY <1>1, <2>1, <3>1
  <2>3. /\ IsFiniteSet(sessions')
        /\ (\E x \in sessions' : users'[x] = 0) => Cardinality(sessions') <= MaxRuns
    <3> HIDE DEF all, stamp, r
    <3> QED
      BY <1>1, <1>2, <1>3, <2>1, <2>2, SurvivorsWithin
  <2>4. sessions' \subseteq all
    BY <2>1, SurvivorsOpened
  <2>5. Stamped'
    BY <1>3, <1>4, <2>4 DEF Stamped
  <2> QED
    BY <2>3, <2>5 DEF Bounds, Within
<1> QED
  BY <1>5, <1>6

LEMMA BoundsNext ==
    ASSUME BoundInv, [Next]_vars
    PROVE  BoundInv'
<1>0. TypeOK /\ SessionInv' /\ UsersCounted' /\ GateHeld'
  BY SessionNext, GateHeldNext DEF BoundInv, SessionInv
<1>1. ASSUME NEW q \in Requests, Busy(q) \/ ReceiveFails(q) \/ Finish(q) \/ FinishFails(q)
      PROVE  Bounds'
  BY <1>0, <1>1, BoundsReleased DEF Busy, ReceiveFails, Finish, FinishFails
<1>2. ASSUME NEW q \in Requests,
             \/ BeginOpen(q) \/ OpenFails(q) \/ ReadCatalog(q) \/ Receive(q) \/ Works(q)
             \/ \E a \in Audited : RecoverTouch(q, a) \/ RecoverComplete(q, a)
      PROVE  Bounds'
  <2>1. CASE ~Works(q)
    BY <1>2, <2>1, BoundsSame
       DEF BeginOpen, OpenFails, ReadCatalog, Receive, RecoverTouch, RecoverComplete, managed
  <2>2. CASE Works(q)
    <3>1. UNCHANGED <<sessions, users>>
      BY <1>0, <2>2, WorkStays
    <3>2. UNCHANGED <<access, lastAccess>>
      BY <2>2 DEF Works, Advance, Act, RejectAdvance, SkipAdvance, AdvanceTime, AdvanceStale,
         Touch, IssueCredential, ReplySaved, RejectCommand, ExecuteCommand, RepeatCommand,
         RecordResponse, ActionStale, StepFails, Execute, Unjournalled, managed
    <3> QED
      BY <3>1, <3>2, BoundsSame
  <2> QED
    BY <2>1, <2>2
<1>3. ASSUME NEW s \in Starts, Start(s) PROVE Bounds'
  BY <1>3, BoundsSame
     DEF Start, StartOpen, StartIssue, StartIssued, StartReceive, StartFinish, managed
<1>4. ASSUME Tick \/ StepBack \/ UNCHANGED vars PROVE Bounds'
  BY <1>4, BoundsSame DEF Tick, StepBack, vars, managed
<1>5. ASSUME Crash PROVE Bounds'
  BY <1>5, FS_EmptySet DEF Crash, Bounds, Stamped, Within
<1>6. ASSUME NEW q \in Requests, Handle(q) PROVE Bounds'
  <2>1. CASE OpenExisting(q) \/ InstallSession(q)
    BY <1>0, <2>1, BoundsOpened
  <2>2. CASE ~(OpenExisting(q) \/ InstallSession(q))
    BY <1>1, <1>2, <1>6, <2>2 DEF Handle, Open, Enter, Leave, Works
  <2> QED
    BY <2>1, <2>2
<1>7. Bounds'
  <2>1. CASE Next
    BY <1>3, <1>4, <1>5, <1>6, <2>1 DEF Next
  <2>2. CASE UNCHANGED vars
    BY <1>4, <2>2
  <2> QED
    BY <2>1, <2>2
<1> QED
  <2>1. IsFiniteSet(sessions)' /\ Stamped' /\ Within'
    BY <1>7 DEF Bounds
  <2> QED
    BY <1>0, <2>1 DEF BoundInv

(***************************************************************************)
(* evictUnlocked runs at every release and after every session opened:     *)
(* beyond -max-cached-runs only sessions in use stay in memory.            *)
(***************************************************************************)
THEOREM MemoryStaysBounded == Spec => []CacheBounded
<1>1. Init => BoundInv
  BY SessionInit, FS_EmptySet DEF Init, BoundInv, GateHeld, Stamped, Within
<1>2. BoundInv => CacheBounded
  <2> SUFFICES ASSUME BoundInv, Cardinality({r \in sessions : users[r] = 0}) > 0
               PROVE  Cardinality(sessions) <= MaxRuns
    BY DEF CacheBounded
  <2>1. {r \in sessions : users[r] = 0} # {}
    BY FS_EmptySet
  <2> QED
    BY <2>1 DEF BoundInv, Within
<1> QED
  BY <1>1, <1>2, BoundsNext, PTL DEF Spec

----------------------------------------------------------------------------
(***************************************************************************)
(* What RunManager promises about real time.  With no second /v2/start a   *)
(* session in memory equals its journal; with one request at a time on a   *)
(* run and no I/O error no second of real time is charged twice, however   *)
(* often the process dies between the journal and the catalog; and with a  *)
(* request_id per command none is skipped.                                 *)
(***************************************************************************)

\* What a step may append to a journal, and by whom.
Appends(q, e) ==
    /\ q \in Requests /\ e \in Event
    /\ pc[q] \in Gated
    /\ Execute(q, e)

\* Every append of a request, and what else its step does.
LEMMA ActionAppends ==
    ASSUME TypeOK, NEW q \in Requests, Advance(q) \/ Act(q)
    PROVE  \/ UNCHANGED <<journal, view, sessions, opener, fresh>>
           \/ \E e \in Event : Appends(q, e) /\ UNCHANGED <<opener, fresh>>
<1> DEFINE Result == \/ UNCHANGED <<journal, view, sessions, opener, fresh>>
                     \/ \E e \in Event : Appends(q, e) /\ UNCHANGED <<opener, fresh>>
<1>1. ASSUME NEW e \in Event, Execute(q, e), pc[q] \in Gated
      PROVE  Result
  <2>1. Appends(q, e) /\ UNCHANGED <<opener, fresh>>
    BY <1>1 DEF Appends, Execute, opening
  <2> QED
    BY <1>1, <2>1
<1> SUFFICES Result
  OBVIOUS
<1> HIDE DEF Result
<1>2. CASE AdvanceTime(q)
  <2>1. PICK ends \in BOOLEAN :
          Execute(q, TimeAdvanced(AdvanceID(q), got[q], Later(at[q], got[q]), ends))
    BY <1>2 DEF AdvanceTime
  <2>2. pc[q] \in Gated
    BY <1>2 DEF AdvanceTime, At, Gated
  <2> QED
    BY <1>1, <2>1, <2>2, EventTypeAdvance
<1>3. CASE IssueCredential(q)
  <2>1. PICK server \in Missing(view[Run(q)]) : Execute(q, Fact("CredentialIssued", server))
    BY <1>3 DEF IssueCredential
  <2>2. view[Run(q)] \in Seq(Event)
    BY DEF TypeOK, Run
  <2>3. Fact("CredentialIssued", server) \in Event
    BY <2>2, MissingType, FactType DEF EventTypes
  <2>4. pc[q] \in Gated
    BY <1>3 DEF IssueCredential, Gated
  <2> QED
    BY <1>1, <2>1, <2>3, <2>4
<1>4. CASE ExecuteCommand(q)
  <2>1. Execute(q, Fact(PayloadType(q), CommandOf[q])) /\ pc[q] \in Gated
    BY <1>4 DEF ExecuteCommand, Acts, At, Gated
  <2>2. Fact(PayloadType(q), CommandOf[q]) \in Event
    BY FactType DEF PayloadType, EventTypes
  <2> QED
    BY <1>1, <2>1, <2>2
<1>5. CASE RecordResponse(q)
  <2>1. Execute(q, Fact("ResponseRecorded", CommandOf[q])) /\ pc[q] \in Gated
    BY <1>5 DEF RecordResponse, At, Gated
  <2>2. Fact("ResponseRecorded", CommandOf[q]) \in Event
    BY FactType DEF EventTypes
  <2> QED
    BY <1>1, <2>1, <2>2
<1>6. CASE \/ RejectAdvance(q) \/ SkipAdvance(q) \/ AdvanceStale(q) \/ Touch(q)
           \/ ReplySaved(q) \/ RejectCommand(q) \/ RepeatCommand(q) \/ ActionStale(q)
  BY <1>6 DEF Result, RejectAdvance, SkipAdvance, AdvanceStale, Touch, ReplySaved, RejectCommand,
     RepeatCommand, ActionStale, Unjournalled, durable, managed, opening
<1> QED
  BY <1>2, <1>3, <1>4, <1>5, <1>6 DEF Advance, Act

(***************************************************************************)
(* A session equals its journal: nobody else appends to a run that is in   *)
(* memory, nor to the run that is being opened.                            *)
(***************************************************************************)
CurrentInv ==
    /\ SessionCurrent
    /\ opener # Nobody => fresh = journal[Run(opener)]

\* A request past the gate uses a session of its run.
LEMMA GatedOpen ==
    ASSUME SessionInv, NEW q \in Requests, pc[q] \in Opened
    PROVE  Run(q) \in sessions
<1>1. q \in Using(Run(q)) /\ Run(q) \in Runs
  BY DEF Using, Run
<1> QED
  BY <1>1, UsersAre DEF SessionInv

LEMMA CurrentExecuted ==
    ASSUME SessionInv, CurrentInv, NEW q \in Requests, NEW e \in Event, Appends(q, e),
           UNCHANGED <<opener, fresh>>
    PROVE  CurrentInv'
<1>1. Run(q) \in sessions /\ Run(q) \in Runs
  BY GatedOpen DEF Appends, Opened, Run
<1>2. /\ journal' = [journal EXCEPT ![Run(q)] = Append(@, e)]
      /\ view' = [view EXCEPT ![Run(q)] = Append(@, e)] /\ sessions' = sessions
  BY DEF Appends, Execute
<1>3. SessionCurrent'
  BY <1>1, <1>2 DEF CurrentInv, SessionCurrent, SessionInv, TypeOK
<1>4. opener # Nobody => opener \in Requests /\ Run(opener) # Run(q) /\ Run(opener) \in Runs
  BY <1>1 DEF SessionInv, OpeningAlone, TypeOK, Run
<1>5. opener' # Nobody => fresh' = journal'[Run(opener')]
  BY <1>1, <1>2, <1>4 DEF CurrentInv, SessionInv, TypeOK
<1> QED
  BY <1>3, <1>5 DEF CurrentInv, Run

LEMMA CurrentSame ==
    ASSUME SessionInv, CurrentInv, UNCHANGED <<journal, opener, fresh>>, sessions' \subseteq sessions,
           \A r \in sessions' : view'[r] = view[r]
    PROVE  CurrentInv'
BY DEF CurrentInv, SessionCurrent, Run

LEMMA CurrentReleased ==
    ASSUME SessionInv, CurrentInv, UNCHANGED <<journal, opener, fresh>>, NEW q \in Requests, Release(q)
    PROVE  CurrentInv'
<1>1. /\ sessions' \subseteq sessions
      /\ view' = [r \in Runs |-> IF r \in sessions' THEN view[r] ELSE <<>>]
  BY SurvivorsOpened DEF Release, Keep
<1>2. \A r \in sessions' : view'[r] = view[r]
  BY <1>1 DEF SessionInv, TypeOK
<1> QED
  BY <1>1, <1>2, CurrentSame

LEMMA CurrentInstalled ==
    ASSUME SessionInv, CurrentInv, NEW q \in Requests, InstallSession(q)
    PROVE  CurrentInv'
<1> DEFINE r == Run(q)
<1>1. /\ sessions' \subseteq sessions \cup {r}
      /\ view' = [x \in Runs |-> IF x = r THEN fresh ELSE IF x \in sessions' THEN view[x] ELSE <<>>]
  BY SurvivorsOpened DEF InstallSession
<1>2. opener = q /\ opener' = Nobody /\ journal' = journal
  BY DEF InstallSession, IsOpening, durable
<1>3. fresh = journal[r] /\ r \in Runs
  BY <1>2 DEF CurrentInv, Run, RequestsAssumption
<1>4. \A x \in sessions' : view'[x] = journal[x]
  BY <1>1, <1>3 DEF SessionInv, TypeOK, CurrentInv, SessionCurrent
<1> QED
  BY <1>2, <1>4 DEF CurrentInv, SessionCurrent

LEMMA CurrentNext ==
    ASSUME Starts = {}, SessionInv, CurrentInv, [Next]_vars
    PROVE  CurrentInv'
<1>0. TypeOK
  BY DEF SessionInv
<1>1. ASSUME NEW q \in Requests, Open(q) PROVE CurrentInv'
  <2>1. CASE OpenExisting(q)
    BY <2>1, CurrentSame DEF OpenExisting, durable, opening
  <2>2. CASE BeginOpen(q)
    BY <2>2 DEF BeginOpen, durable, managed, CurrentInv, SessionCurrent, Run
  <2>3. CASE OpenFails(q)
    BY <2>3 DEF OpenFails, durable, managed, CurrentInv, SessionCurrent
  <2>4. ASSUME NEW a \in Audited, RecoverTouch(q, a) \/ RecoverComplete(q, a) PROVE CurrentInv'
    BY <2>4, CurrentSame DEF RecoverTouch, RecoverComplete, managed, opening
  <2> QED
    BY <1>1, <2>1, <2>2, <2>3, <2>4, CurrentInstalled DEF Open
<1>2. ASSUME NEW q \in Requests, ReadCatalog(q) \/ Receive(q) \/ StepFails(q) PROVE CurrentInv'
  BY <1>2, CurrentSame DEF ReadCatalog, Receive, StepFails, durable, managed, opening
<1>3. ASSUME NEW q \in Requests, Busy(q) \/ ReceiveFails(q) \/ Finish(q) \/ FinishFails(q)
      PROVE  CurrentInv'
  BY <1>3, CurrentReleased DEF Busy, ReceiveFails, Finish, FinishFails, durable, opening
<1>4. ASSUME NEW q \in Requests, Advance(q) \/ Act(q) PROVE CurrentInv'
  <2>1. CASE UNCHANGED <<journal, view, sessions, opener, fresh>>
    BY <2>1, CurrentSame
  <2>2. ASSUME NEW e \in Event, Appends(q, e), UNCHANGED <<opener, fresh>> PROVE CurrentInv'
    BY <2>2, CurrentExecuted
  <2> QED
    BY <1>0, <1>4, <2>1, <2>2, ActionAppends
<1>5. CASE Tick \/ StepBack \/ UNCHANGED vars
  BY <1>5, CurrentSame DEF Tick, StepBack, vars, durable, managed, opening
<1>6. CASE Crash
  BY <1>6 DEF Crash, CurrentInv, SessionCurrent
<1> QED
  BY <1>1, <1>2, <1>3, <1>4, <1>5, <1>6 DEF Next, Handle, Enter, Leave

LEMMA CurrentInit == Init => CurrentInv
BY DEF Init, CurrentInv, SessionCurrent

(***************************************************************************)
(* With no repeated /v2/start, whatever crashes, fails or is evicted, the  *)
(* session that RunManager keeps is the whole journal of its run: no       *)
(* request decides on a state that is behind.                              *)
(***************************************************************************)
THEOREM SessionsAreCurrent == Starts = {} => (Spec => []SessionCurrent)
<1> SUFFICES ASSUME Starts = {} PROVE Spec => []SessionCurrent
  OBVIOUS
<1>1. Init => SessionInv /\ CurrentInv
  BY SessionInit, CurrentInit
<1>2. SessionInv /\ CurrentInv /\ [Next]_vars => (SessionInv /\ CurrentInv)'
  BY SessionNext, CurrentNext
<1>3. CurrentInv => SessionCurrent
  BY DEF CurrentInv
<1> QED
  BY <1>1, <1>2, <1>3, PTL DEF Spec

(***************************************************************************)
(* Real time, when a client waits for each answer and no I/O fails.        *)
(***************************************************************************)
Serially == MaxInFlight = 1 /\ MaxFaults = 0 /\ Starts = {}

\* A run has one request in flight.
Alone ==
    \A q, p \in Requests : Run(q) = Run(p) /\ pc[q] \in InFlight /\ pc[p] \in InFlight => q = p

\* A request past the gate has an open audit.
GatedReceived == \A q \in Requests : pc[q] \in Gated => audit[q] = "received"

\* The catalog row a request has read is still the one in the catalog.
GotCurrent ==
    \A q \in Requests : pc[q] \in {"read", "locked", "advanced"} => got[q] = lastReal[Run(q)]

SerialInv == AuditInv /\ CurrentInv /\ faults = 0 /\ Alone /\ GatedReceived /\ GotCurrent

\* The steps that an I/O error takes.
Fails(q) == OpenFails(q) \/ ReceiveFails(q) \/ StepFails(q) \/ FinishFails(q)

LEMMA NoFault ==
    ASSUME MaxFaults = 0, TypeOK, NEW q \in Requests
    PROVE  ~Fails(q)
<1>1. ~Fault
  BY DEF Fault, TypeOK
<1> QED
  BY <1>1 DEF Fails, OpenFails, ReceiveFails, StepFails, FinishFails

LEMMA FaultsNext ==
    ASSUME Serially, TypeOK, faults = 0, [Next]_vars
    PROVE  faults' = 0
<1>1. ASSUME NEW q \in Requests, Handle(q) PROVE faults' = faults
  <2>1. CASE Open(q) \/ Enter(q) \/ Leave(q)
    BY <1>1, <2>1, NoFault
       DEF Serially, Fails, Open, Enter, Leave, OpenExisting, BeginOpen, InstallSession,
           RecoverTouch, RecoverComplete, ReadCatalog, Busy, Receive, Finish, env
  <2>2. CASE Advance(q) \/ Act(q)
    BY <2>2 DEF Advance, RejectAdvance, SkipAdvance, AdvanceTime, AdvanceStale, Touch, Execute,
       Unjournalled, Act, IssueCredential, ReplySaved, RejectCommand, ExecuteCommand,
       RepeatCommand, RecordResponse, ActionStale, env
  <2> QED
    BY <1>1, <2>1, <2>2 DEF Handle
<1> QED
  BY <1>1 DEF Next, Serially, Tick, StepBack, Crash, vars, env

\* A handler moves its own request only, and lets it in when there is room.
LEMMA HandleMoves ==
    ASSUME TypeOK, NEW q \in Requests, Handle(q)
    PROVE  /\ \A p \in Requests : p # q => pc'[p] = pc[p]
           /\ pc[q] \in InFlight \/ (pc[q] = "idle" /\ Room(q))
<1>1. CASE Open(q)
  <2>1. UNCHANGED pc \/ \E to : pc' = [pc EXCEPT ![q] = to]
    BY <1>1 DEF Open, OpenExisting, BeginOpen, InstallSession, OpenFails, RecoverTouch,
       RecoverComplete, Goto
  <2>2. pc[q] = "opening" \/ (pc[q] = "idle" /\ Room(q))
    BY <1>1 DEF Open, OpenExisting, BeginOpen, InstallSession, OpenFails, RecoverTouch,
       RecoverComplete, IsOpening, At
  <2> QED
    BY <2>1, <2>2 DEF TypeOK, InFlight
<1>2. CASE Enter(q) \/ Finish(q) \/ FinishFails(q)
  <2>1. \E to : pc' = [pc EXCEPT ![q] = to]
    BY <1>2 DEF Enter, ReadCatalog, Busy, Receive, ReceiveFails, Finish, FinishFails, Goto
  <2>2. pc[q] \in {"opened", "read", "replying"}
    BY <1>2 DEF Enter, ReadCatalog, Busy, Receive, ReceiveFails, Finish, FinishFails, At
  <2> QED
    BY <2>1, <2>2 DEF TypeOK, InFlight, Opened, Gated
<1>3. CASE Works(q)
  <2>1. pc[q] \in Gated /\ pc' = [pc EXCEPT ![q] = pc'[q]]
    BY <1>3, WorkStays
  <2> QED
    BY <2>1 DEF TypeOK, InFlight, Opened
<1> QED
  BY <1>1, <1>2, <1>3 DEF Handle, Leave, Works

LEMMA AloneNext ==
    ASSUME Serially, TypeOK, Alone, [Next]_vars
    PROVE  Alone'
<1>1. ASSUME \A p \in Requests : pc'[p] \in InFlight => pc[p] \in InFlight PROVE Alone'
  BY <1>1 DEF Alone, Run
<1>2. ASSUME NEW q \in Requests, Handle(q) PROVE Alone'
  <2>1. CASE pc[q] \in InFlight
    BY <1>1, <1>2, <2>1, HandleMoves
  <2>2. CASE pc[q] = "idle" /\ Room(q)
    <3> DEFINE near == {p \in Requests : Run(p) = Run(q) /\ pc[p] \in InFlight}
    <3>1. IsFiniteSet(near)
      <4>1. near \in SUBSET Requests
        OBVIOUS
      <4> QED
        BY <4>1, RequestsFinite, FS_Subset
    <3>2. Cardinality(near) \in Nat /\ (Cardinality(near) = 0 <=> near = {})
      BY <3>1, FS_CardinalityType, FS_EmptySet
    <3>3. Cardinality(near) < 1
      BY <2>2 DEF Room, Serially
    <3>4. near = {}
      <4> HIDE DEF near
      <4> QED
        BY <3>2, <3>3
    <3>5. \A p \in Requests : p # q => pc'[p] = pc[p]
      BY <1>2, HandleMoves
    <3>6. \A p \in Requests : pc'[p] \in InFlight => p = q \/ (pc[p] \in InFlight /\ Run(p) # Run(q))
      BY <3>4, <3>5
    <3> QED
      BY <3>6 DEF Alone, Run
  <2> QED
    BY <1>2, <2>1, <2>2, HandleMoves
<1>3. CASE Tick \/ StepBack \/ UNCHANGED vars
  BY <1>1, <1>3 DEF Tick, StepBack, vars
<1>4. CASE Crash
  <2>1. \A p \in Requests : pc'[p] \in InFlight => pc[p] \in InFlight
    BY <1>4 DEF Crash
  <2> QED
    BY <1>1, <2>1
<1> QED
  BY <1>2, <1>3, <1>4 DEF Next, Serially

LEMMA ReceivedNext ==
    ASSUME Starts = {}, SessionInv, GatedReceived, [Next]_vars
    PROVE  GatedReceived'
<1>0. TypeOK
  BY DEF SessionInv
<1>1. ASSUME \A p \in Requests : pc'[p] \in Gated => pc[p] \in Gated /\ audit'[p] = audit[p]
      PROVE  GatedReceived'
  BY <1>1 DEF GatedReceived
<1>2. ASSUME NEW q \in Requests, Open(q) PROVE GatedReceived'
  <2>1. CASE OpenExisting(q) \/ BeginOpen(q) \/ InstallSession(q) \/ OpenFails(q)
    <3>1. /\ UNCHANGED audit
          /\ \E to \in {"opened", "opening", "done"} : pc' = [pc EXCEPT ![q] = to]
      BY <2>1 DEF OpenExisting, BeginOpen, InstallSession, OpenFails, Goto, durable
    <3> QED
      BY <1>0, <1>1, <3>1 DEF TypeOK, Gated
  <2>2. ASSUME NEW a \in Audited, RecoverTouch(q, a) PROVE GatedReceived'
    BY <1>1, <2>2 DEF RecoverTouch
  <2>3. ASSUME NEW a \in Audited, RecoverComplete(q, a) PROVE GatedReceived'
    <3>1. /\ Run(a) = Run(q) /\ opener = q /\ UNCHANGED pc
          /\ audit' = [audit EXCEPT ![a] = "interrupted"]
      BY <2>3 DEF RecoverComplete, IsOpening, Unsettled
    <3>2. Run(q) \notin sessions
      BY <3>1 DEF SessionInv, OpeningAlone
    <3>3. \A p \in Requests : pc[p] \in Gated => Run(p) \in sessions
      BY GatedOpen DEF Opened
    <3>4. \A p \in Requests : pc[p] \in Gated => p # a
      BY <3>1, <3>2, <3>3
    <3> QED
      BY <1>0, <1>1, <3>1, <3>4 DEF TypeOK, Audited
  <2> QED
    BY <1>2, <2>1, <2>2, <2>3 DEF Open
<1>3. ASSUME NEW q \in Requests, ReadCatalog(q) \/ Busy(q) \/ ReceiveFails(q) PROVE GatedReceived'
  <2>1. UNCHANGED audit /\ \E to \in {"read", "done"} : pc' = [pc EXCEPT ![q] = to]
    BY <1>3 DEF ReadCatalog, Busy, ReceiveFails, Goto, durable
  <2> QED
    BY <1>0, <1>1, <2>1 DEF TypeOK, Gated
<1>4. ASSUME NEW q \in Requests, Receive(q) PROVE GatedReceived'
  <2>1. audit' = [audit EXCEPT ![q] = "received"] /\ pc' = [pc EXCEPT ![q] = "locked"]
    BY <1>4 DEF Receive, Goto
  <2> QED
    BY <1>0, <2>1 DEF TypeOK, Audited, GatedReceived
<1>5. ASSUME NEW q \in Requests, Works(q) PROVE GatedReceived'
  <2>1. pc[q] \in Gated /\ pc' = [pc EXCEPT ![q] = pc'[q]] /\ UNCHANGED audit
    BY <1>0, <1>5, WorkStays
  <2> QED
    BY <1>0, <1>1, <2>1 DEF TypeOK
<1>6. ASSUME NEW q \in Requests, Finish(q) \/ FinishFails(q) PROVE GatedReceived'
  <2>1. /\ pc' = [pc EXCEPT ![q] = "done"]
        /\ UNCHANGED audit \/ \E to : audit' = [audit EXCEPT ![q] = to]
    BY <1>6 DEF Finish, FinishFails, Goto, Complete, durable
  <2> QED
    BY <1>0, <1>1, <2>1 DEF TypeOK, Gated, Audited
<1>7. CASE Tick \/ StepBack \/ UNCHANGED vars
  BY <1>1, <1>7 DEF Tick, StepBack, vars, durable
<1>8. CASE Crash
  BY <1>1, <1>8 DEF Crash, Gated, InFlight, Opened
<1> QED
  BY <1>2, <1>3, <1>4, <1>5, <1>6, <1>7, <1>8 DEF Next, Handle, Enter, Leave, Works

LEMMA GotNext ==
    ASSUME Serially, TypeOK, Alone, GotCurrent, [Next]_vars
    PROVE  GotCurrent'
<1> DEFINE Reading(position) == position \in {"read", "locked", "advanced"}
<1>1. ASSUME UNCHANGED <<lastReal, got>>,
             \A p \in Requests : Reading(pc'[p]) => Reading(pc[p])
      PROVE  GotCurrent'
  BY <1>1 DEF GotCurrent, Run
<1>2. ASSUME NEW q \in Requests, Open(q) PROVE GotCurrent'
  <2>1. CASE OpenExisting(q) \/ BeginOpen(q) \/ InstallSession(q) \/ OpenFails(q)
    <3>1. /\ UNCHANGED <<lastReal, got>>
          /\ \E to \in {"opened", "opening", "done"} : pc' = [pc EXCEPT ![q] = to]
      BY <2>1 DEF OpenExisting, BeginOpen, InstallSession, OpenFails, Goto, durable, local
    <3> QED
      BY <1>1, <3>1 DEF TypeOK
  <2>2. ASSUME NEW a \in Audited, RecoverTouch(q, a) PROVE GotCurrent'
    <3>1. /\ UNCHANGED <<pc, got>> /\ pc[q] = "opening"
          /\ lastReal' = [lastReal EXCEPT ![Run(q)] = at[a]]
      BY <2>2 DEF RecoverTouch, IsOpening, At, local
    <3>2. \A p \in Requests : Reading(pc[p]) => Run(p) # Run(q)
      BY <3>1 DEF Alone, InFlight, Opened, Gated
    <3>3. \A p \in Requests : Run(p) \in Runs
      BY DEF Run
    <3> QED
      BY <3>1, <3>2, <3>3 DEF GotCurrent, TypeOK, Run
  <2>3. ASSUME NEW a \in Audited, RecoverComplete(q, a) PROVE GotCurrent'
    BY <1>1, <2>3 DEF RecoverComplete, local
  <2> QED
    BY <1>2, <2>1, <2>2, <2>3 DEF Open
<1>3. ASSUME NEW q \in Requests, ReadCatalog(q) PROVE GotCurrent'
  BY <1>3 DEF ReadCatalog, Goto, durable, GotCurrent, TypeOK, Run
<1>4. ASSUME NEW q \in Requests, Busy(q) \/ Receive(q) \/ ReceiveFails(q) \/ Leave(q)
      PROVE GotCurrent'
  <2>1. /\ UNCHANGED <<lastReal, got>>
        /\ \/ pc[q] = "read" /\ pc' = [pc EXCEPT ![q] = "locked"]
           \/ \E to \in {"done", "replying"} : pc' = [pc EXCEPT ![q] = to]
    BY <1>4 DEF Busy, Receive, ReceiveFails, Leave, StepFails, Finish, FinishFails, At, Goto,
       durable, local
  <2> QED
    BY <1>1, <2>1 DEF TypeOK
<1>5. ASSUME NEW q \in Requests, Touch(q) PROVE GotCurrent'
  <2>1. /\ pc[q] = "advanced" /\ got' = got
        /\ \E to \in {"replying", "touched"} : pc' = [pc EXCEPT ![q] = to]
        /\ \E t : lastReal' = [lastReal EXCEPT ![Run(q)] = t]
    BY <1>5 DEF Touch, At, Goto
  <2>2. \A p \in Requests : Reading(pc'[p]) => pc[p] = pc'[p] /\ p # q
    BY <2>1 DEF TypeOK
  <2>3. \A p \in Requests : Reading(pc'[p]) => Run(p) # Run(q)
    BY <2>1, <2>2 DEF Alone, InFlight, Opened, Gated
  <2>4. \A p \in Requests : Run(p) \in Runs /\ Run(p)' = Run(p)
    BY DEF Run
  <2> QED
    BY <2>1, <2>2, <2>3, <2>4 DEF GotCurrent, TypeOK
<1>6. ASSUME NEW q \in Requests,
             RejectAdvance(q) \/ SkipAdvance(q) \/ AdvanceTime(q) \/ AdvanceStale(q) \/ Act(q)
      PROVE  GotCurrent'
  <2>1. /\ UNCHANGED <<lastReal, got>>
        /\ \/ pc[q] = "locked" /\ pc' = [pc EXCEPT ![q] = "advanced"]
           \/ UNCHANGED pc
           \/ \E to \in {"created", "replying"} : pc' = [pc EXCEPT ![q] = to]
    BY <1>6 DEF RejectAdvance, SkipAdvance, AdvanceTime, AdvanceStale, Act, IssueCredential,
       ReplySaved, RejectCommand, ExecuteCommand, RepeatCommand, RecordResponse, ActionStale,
       Execute, Unjournalled, At, Goto, durable, local
  <2> QED
    BY <1>1, <2>1 DEF TypeOK
<1>7. CASE Tick \/ StepBack \/ UNCHANGED vars
  BY <1>1, <1>7 DEF Tick, StepBack, vars, durable, local
<1>8. CASE Crash
  BY <1>1, <1>8 DEF Crash, durable, InFlight, Opened, Gated
<1> QED
  BY <1>2, <1>3, <1>4, <1>5, <1>6, <1>7, <1>8 DEF Next, Handle, Enter, Advance, Serially

LEMMA SerialNext ==
    ASSUME Serially, SerialInv, [Next]_vars
    PROVE  SerialInv'
<1>1. SessionInv /\ TypeOK /\ Starts = {}
  BY DEF SerialInv, AuditInv, SessionInv, Serially
<1>2. AuditInv'
  BY <1>1, AuditsNext, SessionNext DEF SerialInv, AuditInv, AuditsKept
<1> QED
  BY <1>1, <1>2, CurrentNext, FaultsNext, AloneNext, ReceivedNext, GotNext DEF SerialInv

LEMMA SerialInit == Init => SerialInv
<1> SUFFICES ASSUME Init PROVE SerialInv
  OBVIOUS
<1>1. \A q \in Requests : pc[q] = "idle"
  BY DEF Init
<1>2. Alone /\ GatedReceived /\ GotCurrent /\ faults = 0
  BY <1>1 DEF Init, Alone, GatedReceived, GotCurrent, InFlight, Opened, Gated
<1> QED
  BY <1>2, AuditInit, CurrentInit DEF SerialInv

(***************************************************************************)
(* Time that is in the journal and not yet in the catalog belongs to a     *)
(* request with an open audit: one that is about to touch the row, or one  *)
(* a crash interrupted, which the next open finds and touches for.         *)
(***************************************************************************)
Owes(q, e) ==
    /\ audit[q] = "received" /\ e.cmd = AdvanceID(q) /\ e.upto <= at[q]
    /\ pc[q] = "advanced" \/ Run(q) \notin sessions

\* The advances in the journal of a run.
Spent(r) == {journal[r][i] : i \in Advances(r)}

Paid ==
    \A r \in Runs : \A e \in Spent(r) :
        e.upto <= lastReal[r] \/ \E q \in Requests : Run(q) = r /\ Owes(q, e)

LEMMA SpentType ==
    ASSUME TypeOK, NEW r \in Runs, NEW e \in Spent(r)
    PROVE  e \in Event /\ e.upto \in Nat /\ e.from \in Nat /\ e.type = "TimeAdvanced"
<1>1. PICK i \in DOMAIN journal[r] : e = journal[r][i] /\ e.type = "TimeAdvanced"
  BY DEF Spent, Advances
<1>2. journal[r] \in Seq(Event)
  BY DEF TypeOK
<1>3. e \in Event
  BY <1>1, <1>2
<1> QED
  BY <1>1, <1>3 DEF Event

\* A request between the catalog and its advance finds nothing owed.
LEMMA NothingOwed ==
    ASSUME SerialInv, Paid, NEW q \in Requests, pc[q] = "locked", NEW e \in Spent(Run(q))
    PROVE  e.upto <= lastReal[Run(q)]
<1>1. Run(q) \in sessions /\ Run(q) \in Runs
  BY GatedOpen DEF SerialInv, AuditInv, Opened, Gated, Run
<1>2. \A p \in Requests : Run(p) = Run(q) => pc[p] # "advanced"
  BY DEF SerialInv, Alone, InFlight, Opened, Gated
<1> QED
  BY <1>1, <1>2 DEF Paid, Owes

\* A step that adds no advance and leaves no debt without its debtor.
LEMMA PaidKept ==
    ASSUME TypeOK, TypeOK', Paid,
           \A r \in Runs : Spent(r)' \subseteq Spent(r) /\ lastReal'[r] >= lastReal[r],
           \A q \in Requests : \A e \in Spent(Run(q)) :
              Owes(q, e) => Owes(q, e)' \/ e.upto <= lastReal'[Run(q)]
    PROVE  Paid'
<1> SUFFICES ASSUME NEW r \in Runs, NEW e \in Spent(r)'
             PROVE  e.upto <= lastReal'[r] \/ \E q \in Requests : Run(q) = r /\ Owes(q, e)'
  BY DEF Paid, Run
<1>1. e \in Spent(r)
  OBVIOUS
<1>2. CASE e.upto <= lastReal[r]
  <2>1. e.upto \in Nat /\ lastReal[r] \in Nat /\ lastReal'[r] \in Nat
    BY <1>1, SpentType DEF TypeOK
  <2>2. lastReal'[r] >= lastReal[r]
    OBVIOUS
  <2> QED
    BY <1>2, <2>1, <2>2
<1> QED
  BY <1>1, <1>2 DEF Paid

\* An append adds its event to the advances of its run, if it is one.
LEMMA SpentAppended ==
    ASSUME TypeOK, NEW q \in Requests, NEW e \in Event,
           journal' = [journal EXCEPT ![Run(q)] = Append(@, e)]
    PROVE  /\ \A r \in Runs : r # Run(q) => Spent(r)' = Spent(r)
           /\ Spent(Run(q))' = Spent(Run(q)) \cup (IF e.type = "TimeAdvanced" THEN {e} ELSE {})
<1> DEFINE s == journal[Run(q)]
<1>0. Run(q) \in Runs /\ s \in Seq(Event) /\ journal \in [Runs -> Seq(Event)]
  BY DEF TypeOK, Run
<1>1. \A r \in Runs : r # Run(q) => journal'[r] = journal[r]
  BY <1>0
<1>2. \A r \in Runs : r # Run(q) => Spent(r)' = Spent(r)
  BY <1>1 DEF Spent, Advances
<1>3. journal'[Run(q)] = Append(s, e)
  BY <1>0
<1>4. Spent(Run(q))' = {Append(s, e)[i] : i \in {j \in DOMAIN Append(s, e) : Append(s, e)[j].type = "TimeAdvanced"}}
  <2>1. Run(q)' = Run(q)
    BY DEF Run
  <2> QED
    BY <1>3, <2>1 DEF Spent, Advances
<1>5. Spent(Run(q)) = {s[i] : i \in {j \in DOMAIN s : s[j].type = "TimeAdvanced"}}
  BY DEF Spent, Advances
<1> HIDE DEF s
<1>6. /\ DOMAIN Append(s, e) = DOMAIN s \cup {Len(s) + 1}
      /\ Append(s, e)[Len(s) + 1] = e /\ \A i \in DOMAIN s : Append(s, e)[i] = s[i]
  BY <1>0
<1> DEFINE t == Append(s, e)
           n == Len(s) + 1
<1>7. t[n] = e /\ DOMAIN t = DOMAIN s \cup {n} /\ \A i \in DOMAIN s : t[i] = s[i]
  BY <1>6
<1> HIDE DEF t, n
<1>8. {t[i] : i \in {j \in DOMAIN t : t[j].type = "TimeAdvanced"}}
        = {s[i] : i \in {j \in DOMAIN s : s[j].type = "TimeAdvanced"}}
            \cup (IF e.type = "TimeAdvanced" THEN {e} ELSE {})
  BY <1>7
<1> QED
  BY <1>2, <1>4, <1>5, <1>8 DEF t

LEMMA PaidOpen ==
    ASSUME TypeOK', SerialInv, Paid, NEW q \in Requests, Open(q) \/ Crash
    PROVE  Paid'
<1>0. TypeOK /\ SessionInv /\ journal \in [Runs -> Seq(Event)] /\ lastReal \in [Runs -> Nat]
  BY DEF SerialInv, AuditInv, SessionInv, TypeOK
<1>1. journal' = journal
  BY DEF Open, OpenExisting, BeginOpen, InstallSession, OpenFails, RecoverTouch,
     RecoverComplete, Crash, durable
<1>2. \A r \in Runs : Spent(r)' = Spent(r)
  BY <1>1 DEF Spent, Advances
<1>3. \A p \in Requests : Run(p) \in Runs
  BY DEF Run
<1>4. CASE OpenExisting(q) \/ BeginOpen(q) \/ OpenFails(q) \/ Crash
  <2>1. /\ UNCHANGED <<lastReal, audit, at>> /\ sessions' \subseteq sessions
        /\ \A p \in Requests : pc[p] = "advanced" => pc'[p] = "advanced" \/ sessions' = {}
    <3>1. CASE Crash
      BY <3>1 DEF Crash, durable
    <3>2. CASE OpenExisting(q) \/ BeginOpen(q) \/ OpenFails(q)
      <4>1. /\ UNCHANGED <<lastReal, audit, at, sessions>>
            /\ pc[q] \in {"idle", "opening"} /\ \E to : pc' = [pc EXCEPT ![q] = to]
        BY <3>2 DEF OpenExisting, BeginOpen, OpenFails, IsOpening, At, Goto, durable, managed
      <4> QED
        BY <1>0, <4>1 DEF TypeOK
    <3> QED
      BY <1>4, <3>1, <3>2
  <2>2. \A p \in Requests : \A e \in Spent(Run(p)) : Owes(p, e) => Owes(p, e)'
    BY <2>1 DEF Owes, AdvanceID, Run
  <2>3. \A r \in Runs : lastReal'[r] >= lastReal[r]
    BY <1>0, <2>1
  <2> QED
    BY <1>0, <1>2, <2>2, <2>3, PaidKept
<1>5. CASE InstallSession(q)
  <2>1. /\ UNCHANGED <<lastReal, audit, at>> /\ sessions' \subseteq sessions \cup {Run(q)}
        /\ Unsettled(Run(q)) = {} /\ pc[q] = "opening" /\ pc' = [pc EXCEPT ![q] = "opened"]
    BY <1>5, SurvivorsOpened DEF InstallSession, IsOpening, At, Goto, durable
  <2>2. ASSUME NEW p \in Requests, NEW e \in Spent(Run(p)), Owes(p, e) PROVE Owes(p, e)'
    <3>1. Run(p) # Run(q)
      BY <2>1, <2>2 DEF Owes, Unsettled, Audited
    <3>2. pc'[p] = pc[p]
      BY <1>0, <2>1, <3>1 DEF TypeOK
    <3> QED
      BY <2>1, <2>2, <3>1, <3>2 DEF Owes, AdvanceID, Run
  <2>3. \A r \in Runs : lastReal'[r] >= lastReal[r]
    BY <1>0, <2>1
  <2> QED
    BY <1>0, <1>2, <2>2, <2>3, PaidKept
<1>6. ASSUME NEW a \in Audited, RecoverTouch(q, a) PROVE Paid'
  <2>1. /\ a \in Requests /\ Run(a) = Run(q) /\ lastReal[Run(q)] < at[a]
        /\ lastReal' = [lastReal EXCEPT ![Run(q)] = at[a]]
        /\ UNCHANGED <<audit, at, sessions, pc>>
    BY <1>6 DEF RecoverTouch, Unsettled, NeedsTouch, WasApplied, managed
  <2>2. ASSUME NEW r \in Runs PROVE lastReal'[r] >= lastReal[r]
    <3>1. at[a] \in Nat /\ lastReal[r] \in Nat
      BY <1>0, <2>1 DEF TypeOK
    <3>2. lastReal'[r] = IF r = Run(q) THEN at[a] ELSE lastReal[r]
      BY <1>0, <2>1
    <3> QED
      BY <2>1, <3>1, <3>2
  <2>3. \A p \in Requests : \A e \in Spent(Run(p)) : Owes(p, e) => Owes(p, e)'
    BY <2>1 DEF Owes, AdvanceID, Run
  <2> QED
    BY <1>0, <1>2, <2>2, <2>3, PaidKept
<1>7. ASSUME NEW a \in Audited, RecoverComplete(q, a) PROVE Paid'
  <2>1. /\ Run(a) = Run(q) /\ opener = q /\ ~NeedsTouch(a)
        /\ audit' = [audit EXCEPT ![a] = "interrupted"]
        /\ UNCHANGED <<lastReal, at, sessions, pc>>
    BY <1>7 DEF RecoverComplete, Unsettled, IsOpening, managed
  <2>2. fresh = journal[Run(q)]
    BY <2>1 DEF SerialInv, CurrentInv, RequestsAssumption
  <2>3. ASSUME NEW p \in Requests, NEW e \in Spent(Run(p)), Owes(p, e)
        PROVE  Owes(p, e)' \/ e.upto <= lastReal'[Run(p)]
    <3>1. CASE p # a
      BY <1>0, <2>1, <2>3, <3>1 DEF Owes, AdvanceID, Run, TypeOK
    <3>2. CASE p = a
      <4>1. e.cmd \in Applied(fresh)
        BY <2>1, <2>2, <3>2 DEF Spent, Advances, Applied, Of
      <4>2. e.cmd = AdvanceID(a)
        BY <2>3, <3>2 DEF Owes
      <4>3. WasApplied(a)
        BY <3>2, <4>1, <4>2 DEF WasApplied, AdvanceID
      <4>4. ~(lastReal[Run(a)] < at[a])
        BY <2>1, <4>3 DEF NeedsTouch
      <4>5. e.upto <= at[a] /\ e.upto \in Nat
        BY <1>0, <1>3, <2>3, <3>2, SpentType DEF Owes
      <4>6. lastReal[Run(a)] \in Nat /\ at[a] \in Nat
        BY <1>0, <1>3, <3>2 DEF TypeOK
      <4>7. e.upto <= lastReal[Run(a)]
        BY <4>4, <4>5, <4>6
      <4> QED
        BY <2>1, <3>2, <4>7
    <3> QED
      BY <3>1, <3>2
  <2>4. \A r \in Runs : lastReal'[r] >= lastReal[r]
    BY <1>0, <2>1
  <2> QED
    BY <1>0, <1>2, <2>3, <2>4, PaidKept
<1> QED
  BY <1>4, <1>5, <1>6, <1>7 DEF Open

\* What the other steps of a request leave alone.
LEMMA PaidStill ==
    ASSUME TypeOK, TypeOK', Paid, NEW q \in Requests, UNCHANGED <<journal, lastReal, at>>,
           \A p \in Requests : p # q => pc'[p] = pc[p] /\ audit'[p] = audit[p],
           sessions' \subseteq sessions,
           pc[q] \in Opened => Run(q) \in sessions,
           \/ audit'[q] = audit[q] /\ (pc[q] = "advanced" => pc'[q] = "advanced")
           \/ pc[q] \in Opened \ {"advanced"}
    PROVE  Paid'
<1>1. \A r \in Runs : Spent(r)' = Spent(r) /\ lastReal'[r] >= lastReal[r]
  BY DEF Spent, Advances, TypeOK
<1>2. \A p \in Requests : \A e \in Spent(Run(p)) : Owes(p, e) => Owes(p, e)'
  BY DEF Owes, AdvanceID, Run
<1> QED
  BY <1>1, <1>2, PaidKept

LEMMA PaidEnterLeave ==
    ASSUME TypeOK', SerialInv, Paid, NEW q \in Requests, ~Fails(q), Enter(q) \/ Leave(q)
    PROVE  Paid'
<1>0. TypeOK /\ SessionInv /\ (pc[q] \in Opened => Run(q) \in sessions)
  BY GatedOpen DEF SerialInv, AuditInv, SessionInv
<1>1. CASE ReadCatalog(q) \/ Busy(q) \/ Finish(q)
  <2>1. /\ UNCHANGED <<journal, lastReal, at>> /\ sessions' \subseteq sessions
        /\ pc[q] \in Opened \ {"advanced"} /\ \E to : pc' = [pc EXCEPT ![q] = to]
        /\ UNCHANGED audit \/ \E to : audit' = [audit EXCEPT ![q] = to]
    BY <1>1, SurvivorsOpened DEF ReadCatalog, Busy, Finish, Release, Keep, Complete, At, Goto,
       durable, managed, Opened, Gated
  <2>2. \A p \in Requests : p # q => pc'[p] = pc[p] /\ audit'[p] = audit[p]
    BY <1>0, <2>1 DEF TypeOK, Audited
  <2> QED
    BY <1>0, <2>1, <2>2, PaidStill
<1>2. CASE Receive(q)
  <2>1. /\ UNCHANGED <<journal, lastReal, sessions>> /\ pc[q] = "read"
        /\ pc' = [pc EXCEPT ![q] = "locked"] /\ at' = [at EXCEPT ![q] = now]
        /\ audit' = [audit EXCEPT ![q] = "received"]
    BY <1>2 DEF Receive, At, Goto
  <2>2. \A p \in Requests : p # q => pc'[p] = pc[p] /\ audit'[p] = audit[p] /\ at'[p] = at[p]
    BY <1>0, <2>1 DEF TypeOK, Audited
  <2>3. Run(q) \in sessions
    BY <1>0, <2>1 DEF Opened
  <2>4. \A p \in Requests : \A e \in Spent(Run(p)) : Owes(p, e) => Owes(p, e)'
    BY <2>1, <2>2, <2>3 DEF Owes, AdvanceID, Run
  <2>5. \A r \in Runs : Spent(r)' = Spent(r) /\ lastReal'[r] >= lastReal[r]
    BY <1>0, <2>1 DEF Spent, Advances, TypeOK
  <2> QED
    BY <1>0, <2>4, <2>5, PaidKept
<1> QED
  BY <1>1, <1>2 DEF Enter, Leave, Fails

LEMMA PaidTouch ==
    ASSUME TypeOK', SerialInv, Paid, NEW q \in Requests, Touch(q)
    PROVE  Paid'
<1>0. TypeOK /\ Run(q) \in Runs /\ at[q] \in Nat /\ got[q] \in Nat /\ lastReal \in [Runs -> Nat]
  BY DEF SerialInv, AuditInv, SessionInv, TypeOK, Run
<1>1. /\ UNCHANGED <<journal, at, audit, sessions>> /\ pc[q] = "advanced"
      /\ lastReal' = [lastReal EXCEPT ![Run(q)] = TouchAt(q)]
      /\ \E to : pc' = [pc EXCEPT ![q] = to]
  BY DEF Touch, At, Goto, managed
<1>2. got[q] = lastReal[Run(q)]
  BY <1>1 DEF SerialInv, GotCurrent
<1>3. TouchAt(q) >= at[q] /\ TouchAt(q) >= got[q] /\ TouchAt(q) \in Nat
  BY <1>0 DEF TouchAt, Later
<1>4. \A r \in Runs : Spent(r)' = Spent(r)
  BY <1>1 DEF Spent, Advances
<1>5. \A r \in Runs : lastReal'[r] >= lastReal[r]
  BY <1>0, <1>1, <1>2, <1>3
<1>6. ASSUME NEW p \in Requests, NEW e \in Spent(Run(p)), Owes(p, e)
      PROVE  Owes(p, e)' \/ e.upto <= lastReal'[Run(p)]
  <2>1. CASE p = q
    <3>1. e.upto \in Nat /\ e.upto <= at[q] /\ lastReal'[Run(q)] = TouchAt(q)
      BY <1>0, <1>1, <1>6, <2>1, SpentType DEF Owes
    <3> QED
      BY <1>0, <1>3, <2>1, <3>1
  <2>2. CASE p # q
    BY <1>0, <1>1, <1>6, <2>2 DEF Owes, AdvanceID, Run, TypeOK
  <2> QED
    BY <2>1, <2>2
<1> QED
  BY <1>0, <1>4, <1>5, <1>6, PaidKept

\* The event that an advance appends.
LEMMA AdvanceEvent ==
    ASSUME TypeOK, NEW q \in Requests, AdvanceTime(q)
    PROVE  \E e \in Event :
             /\ Execute(q, e) /\ e.cmd = AdvanceID(q) /\ e.type = "TimeAdvanced"
             /\ e.from = got[q] /\ e.upto = Later(at[q], got[q])
<1>1. PICK ends \in BOOLEAN :
        Execute(q, TimeAdvanced(AdvanceID(q), got[q], Later(at[q], got[q]), ends))
  BY DEF AdvanceTime
<1>2. TimeAdvanced(AdvanceID(q), got[q], Later(at[q], got[q]), ends) \in Event
  BY EventTypeAdvance
<1> QED
  BY <1>1, <1>2 DEF TimeAdvanced

\* The advance of a request takes up where the journal left off.
LEMMA PaidAdvance ==
    ASSUME TypeOK', SerialInv, Paid, NEW q \in Requests, AdvanceTime(q)
    PROVE  Paid'
<1>0. /\ TypeOK /\ SessionInv /\ Run(q) \in Runs
      /\ at[q] \in Nat /\ got[q] \in Nat /\ lastReal \in [Runs -> Nat]
  BY DEF SerialInv, AuditInv, SessionInv, TypeOK, Run
<1>1. PICK e \in Event :
        /\ Execute(q, e) /\ e.cmd = AdvanceID(q) /\ e.type = "TimeAdvanced"
        /\ e.from = got[q] /\ e.upto = Later(at[q], got[q])
  BY <1>0, AdvanceEvent
<1>2. e \in Event /\ e.cmd = AdvanceID(q) /\ e.type = "TimeAdvanced" /\ e.upto = Later(at[q], got[q])
  BY <1>1
<1>3. /\ UNCHANGED <<lastReal, audit, at, sessions>> /\ pc[q] = "locked"
      /\ pc' = [pc EXCEPT ![q] = "advanced"]
      /\ journal' = [journal EXCEPT ![Run(q)] = Append(@, e)]
  BY <1>1 DEF AdvanceTime, Execute, At, Goto
<1>4. got[q] = lastReal[Run(q)] /\ audit[q] = "received"
  BY <1>3 DEF SerialInv, GotCurrent, GatedReceived, Gated
<1>5. \A p \in Requests : pc'[p] = IF p = q THEN "advanced" ELSE pc[p]
  BY <1>0, <1>3 DEF TypeOK
<1>6. \A p \in Requests : \A f \in Event : Owes(p, f) => Owes(p, f)'
  BY <1>3, <1>5 DEF Owes, AdvanceID, Run
<1>7. e.upto <= lastReal[Run(q)] \/ Owes(q, e)'
  <2>1. CASE at[q] > got[q]
    <3>1. e.upto <= at[q]
      BY <1>0, <1>2, <2>1 DEF Later
    <3>2. audit'[q] = "received" /\ at'[q] = at[q] /\ pc'[q] = "advanced" /\ AdvanceID(q)' = AdvanceID(q)
      BY <1>3, <1>4, <1>5 DEF AdvanceID
    <3> QED
      BY <1>2, <3>1, <3>2 DEF Owes
  <2>2. CASE ~(at[q] > got[q])
    BY <1>0, <1>2, <1>4, <2>2 DEF Later
  <2> QED
    BY <2>1, <2>2
<1>8. ASSUME NEW r \in Runs, NEW f \in Spent(r)'
      PROVE  f.upto <= lastReal'[r] \/ \E p \in Requests : Run(p) = r /\ Owes(p, f)'
  <2>1. CASE f \in Spent(r)
    <3>1. f \in Event
      BY <1>0, <2>1, SpentType
    <3>2. f.upto <= lastReal[r] \/ \E p \in Requests : Run(p) = r /\ Owes(p, f)
      BY <2>1 DEF Paid
    <3> QED
      BY <1>3, <1>6, <3>1, <3>2
  <2>2. CASE f \notin Spent(r)
    <3>0. /\ \A x \in Runs : x # Run(q) => Spent(x)' = Spent(x)
          /\ Spent(Run(q))' = Spent(Run(q)) \cup {e}
      BY <1>0, <1>2, <1>3, SpentAppended
    <3>1. r = Run(q) /\ f = e
      <4>1. r = Run(q)
        BY <1>8, <2>2, <3>0
      <4> QED
        BY <1>8, <2>2, <3>0, <4>1 DEF Run
    <3>2. CASE e.upto <= lastReal[Run(q)]
      BY <1>3, <3>1, <3>2
    <3>3. CASE Owes(q, e)'
      BY <3>1, <3>3
    <3> QED
      BY <1>7, <3>2, <3>3
  <2> QED
    BY <2>1, <2>2
<1> QED
  BY <1>8 DEF Paid, Run

\* The other events of a request are no advances.
LEMMA ActEvent ==
    ASSUME TypeOK, NEW q \in Requests, Act(q), journal' # journal
    PROVE  \E e \in Event :
             /\ Execute(q, e) /\ e.type # "TimeAdvanced"
             /\ e.type \in Payloads => ExecuteCommand(q) /\ e.cmd = CommandOf[q]
<1>1. CASE IssueCredential(q)
  <2>1. PICK server \in Missing(view[Run(q)]) : Execute(q, Fact("CredentialIssued", server))
    BY <1>1 DEF IssueCredential
  <2>2. view[Run(q)] \in Seq(Event)
    BY DEF TypeOK, Run
  <2>3. Fact("CredentialIssued", server) \in Event
    BY <2>2, MissingType, FactType DEF EventTypes
  <2> QED
    BY <2>1, <2>3 DEF Fact, Payloads
<1>2. CASE ExecuteCommand(q)
  <2>1. Execute(q, Fact(PayloadType(q), CommandOf[q])) /\ KindOf[q] \in {"create", "upsert"}
    BY <1>2 DEF ExecuteCommand, Acts
  <2>2. /\ Fact(PayloadType(q), CommandOf[q]) \in Event
        /\ Fact(PayloadType(q), CommandOf[q]).type # "TimeAdvanced"
        /\ Fact(PayloadType(q), CommandOf[q]).cmd = CommandOf[q]
    BY <2>1, FactType DEF PayloadType, EventTypes, Fact
  <2> QED
    BY <1>2, <2>1, <2>2
<1>3. CASE RecordResponse(q)
  <2>1. Execute(q, Fact("ResponseRecorded", CommandOf[q]))
    BY <1>3 DEF RecordResponse
  <2>2. /\ Fact("ResponseRecorded", CommandOf[q]) \in Event
        /\ Fact("ResponseRecorded", CommandOf[q]).type \notin Payloads \cup {"TimeAdvanced"}
    BY FactType DEF EventTypes, Fact, Payloads
  <2> QED
    BY <2>1, <2>2
<1> QED
  BY <1>1, <1>2, <1>3 DEF Act, ReplySaved, RejectCommand, RepeatCommand, ActionStale,
     Unjournalled, durable

LEMMA PaidAct ==
    ASSUME TypeOK', SerialInv, Paid, NEW q \in Requests,
           RejectAdvance(q) \/ SkipAdvance(q) \/ AdvanceStale(q) \/ Act(q)
    PROVE  Paid'
<1>0. /\ TypeOK /\ SessionInv /\ lastReal \in [Runs -> Nat]
      /\ pc[q] \in Opened => Run(q) \in sessions
  BY GatedOpen DEF SerialInv, AuditInv, SessionInv, TypeOK
<1>1. /\ UNCHANGED <<lastReal, at, audit, sessions>> /\ pc[q] \in Opened \ {"advanced"}
      /\ UNCHANGED pc \/ \E to : pc' = [pc EXCEPT ![q] = to]
  BY DEF RejectAdvance, SkipAdvance, AdvanceStale, Act, IssueCredential, ReplySaved, RejectCommand,
     ExecuteCommand, RepeatCommand, RecordResponse, ActionStale, Execute, Unjournalled, Acts, At,
     Goto, durable, managed, Opened, Gated
<1>2. \A p \in Requests : pc[p] = "advanced" => pc'[p] = "advanced"
  BY <1>0, <1>1 DEF TypeOK
<1>3. \A p \in Requests : \A e \in Spent(Run(p)) : Owes(p, e) => Owes(p, e)'
  BY <1>1, <1>2 DEF Owes, AdvanceID, Run
<1>5. \A r \in Runs : Spent(r)' = Spent(r)
  <2>1. CASE journal' = journal
    BY <2>1 DEF Spent, Advances
  <2>2. CASE journal' # journal
    <3>1. Act(q)
      BY <2>2 DEF RejectAdvance, SkipAdvance, AdvanceStale, Unjournalled, durable
    <3>2. PICK e \in Event : Execute(q, e) /\ e.type # "TimeAdvanced"
      BY <1>0, <2>2, <3>1, ActEvent
    <3> QED
      BY <1>0, <3>2, SpentAppended DEF Execute
  <2> QED
    BY <2>1, <2>2
<1>6. \A r \in Runs : lastReal'[r] >= lastReal[r]
  BY <1>0, <1>1
<1> QED
  BY <1>0, <1>3, <1>5, <1>6, PaidKept

LEMMA PaidNext ==
    ASSUME Serially, SerialInv, Paid, [Next]_vars
    PROVE  Paid'
<1>0. TypeOK /\ TypeOK'
  BY TypeNext DEF SerialInv, AuditInv, SessionInv
<1>1. \A q \in Requests : ~Fails(q)
  BY <1>0, NoFault DEF Serially
<1>2. ASSUME NEW q \in Requests, Handle(q) PROVE Paid'
  BY <1>0, <1>1, <1>2, PaidOpen, PaidEnterLeave, PaidTouch, PaidAdvance, PaidAct
     DEF Handle, Advance
<1>3. CASE Tick \/ StepBack \/ UNCHANGED vars
  <2>1. UNCHANGED <<journal, lastReal, audit, at, sessions, pc>>
    BY <1>3 DEF Tick, StepBack, vars, durable, managed
  <2> QED
    BY <2>1 DEF Paid, Owes, Spent, Advances, AdvanceID, Run
<1>4. CASE Crash
  <2>1. CASE Requests = {}
    BY <1>4, <2>1 DEF Crash, durable, Paid, Spent, Advances
  <2> QED
    BY <1>0, <1>4, <2>1, PaidOpen
<1> QED
  BY <1>2, <1>3, <1>4 DEF Next, Serially

(***************************************************************************)
(* No second twice: the advance of a request begins at the catalog row it  *)
(* read, and every earlier one ended there or before.                      *)
(***************************************************************************)
ClockInv == SerialInv /\ Paid /\ NoDoubleCount

\* A step that adds no advance.
LEMMA CountKept ==
    ASSUME NoDoubleCount,
           \A r \in Runs : \A i \in Advances(r)' : i \in Advances(r) /\ journal'[r][i] = journal[r][i]
    PROVE  NoDoubleCount'
BY DEF NoDoubleCount

LEMMA CountAppended ==
    ASSUME TypeOK, NoDoubleCount, NEW q \in Requests, NEW e \in Event,
           journal' = [journal EXCEPT ![Run(q)] = Append(@, e)],
           e.type = "TimeAdvanced" => \A f \in Spent(Run(q)) : f.upto <= e.from
    PROVE  NoDoubleCount'
<1> SUFFICES ASSUME NEW r \in Runs, NEW i \in Advances(r)', NEW j \in Advances(r)', i < j
             PROVE  journal'[r][i].upto <= journal'[r][j].from
  BY DEF NoDoubleCount
<1>0. Run(q) \in Runs /\ journal[r] \in Seq(Event) /\ journal \in [Runs -> Seq(Event)]
  BY DEF TypeOK, Run
<1>1. CASE r # Run(q)
  <2>1. journal'[r] = journal[r]
    BY <1>0, <1>1
  <2> QED
    BY <2>1 DEF NoDoubleCount, Advances
<1>2. CASE r = Run(q)
  <2>1. journal'[r] = Append(journal[r], e)
    BY <1>0, <1>2
  <2>2. /\ i \in 1..(Len(journal[r]) + 1) /\ j \in 1..(Len(journal[r]) + 1)
        /\ \A k \in 1..Len(journal[r]) : Append(journal[r], e)[k] = journal[r][k]
        /\ Append(journal[r], e)[Len(journal[r]) + 1] = e
        /\ Len(journal[r]) \in Nat /\ DOMAIN journal[r] = 1..Len(journal[r])
    BY <1>0, <2>1 DEF Advances
  <2>3. i \in 1..Len(journal[r])
    BY <2>2
  <2>4. i \in Advances(r) /\ journal'[r][i] = journal[r][i]
    BY <2>1, <2>2, <2>3 DEF Advances
  <2>5. CASE j \in 1..Len(journal[r])
    <3>1. j \in Advances(r) /\ journal'[r][j] = journal[r][j]
      BY <2>1, <2>2, <2>5 DEF Advances
    <3> QED
      BY <2>4, <3>1 DEF NoDoubleCount
  <2>6. CASE j = Len(journal[r]) + 1
    <3>1. journal'[r][j] = e /\ e.type = "TimeAdvanced"
      BY <2>1, <2>2, <2>6 DEF Advances
    <3>2. journal[r][i] \in Spent(r)
      BY <2>4 DEF Spent
    <3> QED
      BY <1>2, <2>4, <3>1, <3>2
  <2> QED
    BY <2>2, <2>5, <2>6
<1> QED
  BY <1>1, <1>2

\* The other steps append nothing.
LEMMA QuietJournal ==
    ASSUME Starts = {}, TypeOK, [Next]_vars,
           ~\E q \in Requests : AdvanceTime(q) \/ (Act(q) /\ journal' # journal)
    PROVE  journal' = journal
<1>1. ASSUME NEW q \in Requests, Handle(q), ~Act(q) PROVE journal' = journal
  BY <1>1 DEF Handle, Open, OpenExisting, BeginOpen, InstallSession, OpenFails, RecoverTouch,
     RecoverComplete, Enter, ReadCatalog, Busy, Receive, ReceiveFails, Advance, RejectAdvance,
     SkipAdvance, AdvanceStale, Touch, Leave, StepFails, Finish, FinishFails, Unjournalled, durable
<1>2. CASE Tick \/ StepBack \/ Crash \/ UNCHANGED vars
  BY <1>2 DEF Tick, StepBack, Crash, vars, durable
<1> QED
  BY <1>1, <1>2 DEF Next

LEMMA CountNext ==
    ASSUME Serially, ClockInv, [Next]_vars
    PROVE  NoDoubleCount'
<1>0. TypeOK /\ SerialInv /\ Paid /\ NoDoubleCount
  BY DEF ClockInv, SerialInv, AuditInv, SessionInv
<1>1. CASE UNCHANGED journal
  BY <1>0, <1>1, CountKept DEF Advances
<1>2. ASSUME NEW q \in Requests, AdvanceTime(q) PROVE NoDoubleCount'
  <2>1. PICK e \in Event : Execute(q, e) /\ e.type = "TimeAdvanced" /\ e.from = got[q]
    BY <1>0, <1>2, AdvanceEvent
  <2>2. got[q] = lastReal[Run(q)] /\ pc[q] = "locked"
    BY <1>0, <1>2 DEF SerialInv, GotCurrent, AdvanceTime, At
  <2>3. \A f \in Spent(Run(q)) : f.upto <= e.from
    BY <1>0, <2>1, <2>2, NothingOwed
  <2> QED
    BY <1>0, <2>1, <2>3, CountAppended DEF Execute
<1>3. ASSUME NEW q \in Requests, Act(q), journal' # journal PROVE NoDoubleCount'
  <2>1. \E e \in Event : Execute(q, e) /\ e.type # "TimeAdvanced"
    BY <1>0, <1>3, ActEvent
  <2> QED
    BY <1>0, <2>1, CountAppended DEF Execute
<1> QED
  BY <1>0, <1>1, <1>2, <1>3, QuietJournal DEF Serially

LEMMA ClockInit == Init => ClockInv
<1> SUFFICES ASSUME Init PROVE ClockInv
  OBVIOUS
<1>1. \A r \in Runs : Advances(r) = {}
  BY DEF Init, Advances
<1> QED
  BY <1>1, SerialInit DEF ClockInv, Paid, Spent, NoDoubleCount

(***************************************************************************)
(* A client that waits for each answer, and no I/O error: however often    *)
(* the process dies between the append and TouchRun, however the wall      *)
(* clock is set back and commands are repeated, no second of real time     *)
(* advances a run twice.                                                   *)
(***************************************************************************)
THEOREM TimeChargedOnce == Serially => (Spec => []NoDoubleCount)
<1> SUFFICES ASSUME Serially PROVE Spec => []NoDoubleCount
  OBVIOUS
<1>1. ClockInv /\ [Next]_vars => ClockInv'
  BY SerialNext, PaidNext, CountNext DEF ClockInv
<1>2. ClockInv => NoDoubleCount
  BY DEF ClockInv
<1> QED
  BY <1>1, <1>2, ClockInit, PTL DEF Spec

(***************************************************************************)
(* No second skipped, when every command has a request_id of its own: a    *)
(* repeated advance moves last_real_request_at and not the run.            *)
(***************************************************************************)
IsCommand(q) == KindOf[q] \in {"advance", "create", "upsert"}

OwnCommands ==
    \A q, p \in Requests :
        Run(q) = Run(p) /\ IsCommand(q) /\ IsCommand(p) /\ CommandOf[q] = CommandOf[p] => q = p

\* The ids under which a request may be found in the journal.
Names(q, cmd) == cmd = q \/ (IsCommand(q) /\ cmd = CommandOf[q])

\* What is applied to a run was applied by a request of its own that is past
\* its advance.
Owned ==
    \A r \in Runs : \A cmd \in Applied(journal[r]) :
        \E q \in Requests : Run(q) = r /\ Names(q, cmd) /\ pc[q] \notin Unadvanced

\* The run has been charged for every second up to n, or it has ended.
ChargedTo(r, n) ==
    Completed(journal[r]) \/ \A t \in 1..n : \E e \in Spent(r) : e.from < t /\ t <= e.upto

CatalogCharged == \A r \in Runs : ChargedTo(r, lastReal[r])

\* Recovery touches for what it finds applied, so that must be charged.
AppliedCharged ==
    \A q \in Requests :
        (\E cmd \in Applied(journal[Run(q)]) : Names(q, cmd)) => ChargedTo(Run(q), at[q])

\* So must a request that is about to touch or to act.
PassedCharged ==
    \A q \in Requests :
        pc[q] \in {"advanced", "touched"} => ChargedTo(Run(q), Later(at[q], got[q]))

ChargeInv == SerialInv /\ Owned /\ CatalogCharged /\ AppliedCharged /\ PassedCharged

LEMMA CatalogIsTime ==
    ASSUME TypeOK
    PROVE  CatalogCharged => NoTimeLost
<1> SUFFICES ASSUME CatalogCharged, NEW r \in Runs, ~Completed(journal[r]), NEW t \in 1..lastReal[r]
             PROVE  \E i \in Advances(r) : t \in (journal[r][i].from + 1)..journal[r][i].upto
  BY DEF NoTimeLost
<1>1. PICK e \in Spent(r) : e.from < t /\ t <= e.upto
  BY DEF CatalogCharged, ChargedTo
<1>2. PICK i \in Advances(r) : e = journal[r][i]
  BY DEF Spent
<1>3. e.from \in Nat /\ e.upto \in Nat /\ t \in Nat
  BY SpentType
<1>4. t \in (e.from + 1)..e.upto
  BY <1>1, <1>3
<1> QED
  BY <1>2, <1>4

LEMMA AppliedAppended ==
    ASSUME NEW s \in Seq(Event), NEW e \in Event, NEW cmd \in Applied(Append(s, e))
    PROVE  cmd \in Applied(s) \/ (e.type \in Payloads /\ cmd = e.cmd)
BY OfAppend DEF Applied, Payloads

LEMMA CompletedGrows ==
    ASSUME NEW s \in Seq(Event), NEW e \in Event, Completed(s)
    PROVE  Completed(Append(s, e))
<1>1. PICK i \in 1..Len(s) : s[i].ends
  BY DEF Completed
<1>2. i \in DOMAIN Append(s, e) /\ Append(s, e)[i] = s[i]
  OBVIOUS
<1> QED
  BY <1>1, <1>2 DEF Completed

\* Without starts the journal grows by what a request past the gate appends.
LEMMA JournalStep ==
    ASSUME Starts = {}, TypeOK, [Next]_vars
    PROVE  journal' = journal \/ \E q \in Requests : \E e \in Event : Execute(q, e)
<1>1. ASSUME NEW q \in Requests, Handle(q), ~Advance(q), ~Act(q) PROVE UNCHANGED journal
  BY <1>1 DEF Handle, Open, OpenExisting, BeginOpen, InstallSession, OpenFails, RecoverTouch,
     RecoverComplete, Enter, ReadCatalog, Busy, Receive, ReceiveFails, Leave, StepFails, Finish,
     FinishFails, durable
<1>2. ASSUME NEW q \in Requests, Advance(q) \/ Act(q)
      PROVE  journal' = journal \/ \E e \in Event : Execute(q, e)
  BY <1>2, ActionAppends DEF Appends
<1>3. CASE Tick \/ StepBack \/ Crash \/ UNCHANGED vars
  BY <1>3 DEF Tick, StepBack, Crash, vars, durable
<1> QED
  BY <1>1, <1>2, <1>3 DEF Next

\* What has been charged stays charged.
LEMMA ChargedNext ==
    ASSUME Starts = {}, TypeOK, [Next]_vars, NEW r \in Runs, NEW n, ChargedTo(r, n)
    PROVE  ChargedTo(r, n)'
<1>1. CASE journal' = journal
  BY <1>1 DEF ChargedTo, Spent, Advances
<1>2. ASSUME NEW q \in Requests, NEW e \in Event, Execute(q, e) PROVE ChargedTo(r, n)'
  <2>1. journal' = [journal EXCEPT ![Run(q)] = Append(@, e)] /\ Run(q) \in Runs
    BY <1>2 DEF Execute, Run
  <2>2. /\ \A x \in Runs : x # Run(q) => Spent(x)' = Spent(x)
        /\ Spent(Run(q)) \subseteq Spent(Run(q))'
    BY <2>1, SpentAppended
  <2>3. Spent(r) \subseteq Spent(r)'
    <3>1. CASE r = Run(q)
      BY <2>2, <3>1 DEF Run
    <3> QED
      BY <2>2, <3>1
  <2>4. Completed(journal[r]) => Completed(journal'[r])
    <3>1. journal[r] \in Seq(Event) /\ (journal'[r] = journal[r] \/ journal'[r] = Append(journal[r], e))
      BY <2>1 DEF TypeOK
    <3>2. Completed(journal[r]) => Completed(Append(journal[r], e))
      BY <3>1, CompletedGrows
    <3>3. CASE journal'[r] = journal[r]
      BY <3>3
    <3>4. CASE journal'[r] = Append(journal[r], e)
      BY <3>2, <3>4
    <3> QED
      BY <3>1, <3>3, <3>4
  <2> QED
    BY <2>3, <2>4 DEF ChargedTo, Completed
<1> QED
  BY <1>1, <1>2, JournalStep

\* A request past its advance does not come back to it.
LEMMA AdvancedStays ==
    ASSUME TypeOK, [Next]_vars, NEW q \in Requests, pc[q] \notin Unadvanced
    PROVE  pc'[q] \notin Unadvanced
<1>1. ASSUME NEW p \in Requests, Handle(p) PROVE pc'[q] \notin Unadvanced
  <2>1. CASE Works(p)
    <3>1. pc' = [pc EXCEPT ![p] = pc'[p]] /\ pc[p] \in Gated
      BY <2>1, WorkStays
    <3>2. UNCHANGED pc \/ \E to \in {"replying", "advanced", "touched", "created"} :
            pc' = [pc EXCEPT ![p] = to]
      BY <2>1 DEF Works, Advance, Act, RejectAdvance, SkipAdvance, AdvanceTime, AdvanceStale, Touch,
         IssueCredential, ReplySaved, RejectCommand, ExecuteCommand, RepeatCommand,
         RecordResponse, ActionStale, StepFails, Goto
    <3> QED
      BY <3>2 DEF TypeOK, Unadvanced
  <2>2. CASE ~Works(p)
    <3>1. \/ UNCHANGED pc
          \/ \E to : pc' = [pc EXCEPT ![p] = to] /\ (pc[p] \in Unadvanced \/ to = "done")
      BY <1>1, <2>2 DEF Handle, Works, Open, OpenExisting, BeginOpen, InstallSession, OpenFails,
         RecoverTouch, RecoverComplete, IsOpening, Enter, ReadCatalog, Busy, Receive, ReceiveFails,
         Leave, Finish, FinishFails, At, Goto, Unadvanced
    <3> QED
      BY <3>1 DEF TypeOK, Unadvanced
  <2> QED
    BY <2>1, <2>2
<1>2. ASSUME NEW s \in Starts, Start(s) PROVE pc'[q] \notin Unadvanced
  BY <1>2, StartStays
<1>3. CASE Tick \/ StepBack \/ UNCHANGED vars
  BY <1>3 DEF Tick, StepBack, vars
<1>4. CASE Crash
  BY <1>4 DEF Crash, Unadvanced
<1> QED
  BY <1>1, <1>2, <1>3, <1>4 DEF Next

LEMMA OwnedNext ==
    ASSUME Starts = {}, TypeOK, Owned, [Next]_vars
    PROVE  Owned'
<1>1. ASSUME NEW r \in Runs, NEW cmd, NEW q \in Requests,
             Run(q) = r, Names(q, cmd), pc'[q] \notin Unadvanced
      PROVE  \E p \in Requests : Run(p)' = r /\ Names(p, cmd)' /\ pc'[p] \notin Unadvanced
  BY <1>1 DEF Names, IsCommand, Run
<1>2. ASSUME NEW r \in Runs, NEW cmd \in Applied(journal[r])
      PROVE  \E q \in Requests : Run(q) = r /\ Names(q, cmd) /\ pc'[q] \notin Unadvanced
  <2>1. PICK q \in Requests : Run(q) = r /\ Names(q, cmd) /\ pc[q] \notin Unadvanced
    BY <1>2 DEF Owned
  <2> QED
    BY <2>1, AdvancedStays
<1>3. CASE journal' = journal
  BY <1>1, <1>2, <1>3 DEF Owned
<1>4. ASSUME NEW q \in Requests, NEW e \in Event, Execute(q, e),
             e.type \in Payloads => Names(q, e.cmd) /\ pc'[q] \notin Unadvanced
      PROVE  Owned'
  <2> SUFFICES ASSUME NEW r \in Runs, NEW cmd \in Applied(journal'[r])
               PROVE  \E p \in Requests : Run(p)' = r /\ Names(p, cmd)' /\ pc'[p] \notin Unadvanced
    BY DEF Owned
  <2>1. /\ journal[r] \in Seq(Event) /\ Run(q) \in Runs
        /\ journal'[r] = journal[r] \/ (r = Run(q) /\ journal'[r] = Append(journal[r], e))
    BY <1>4 DEF TypeOK, Execute, Run
  <2>2. cmd \in Applied(journal[r]) \/ (r = Run(q) /\ e.type \in Payloads /\ cmd = e.cmd)
    BY <2>1, AppliedAppended
  <2> QED
    BY <1>1, <1>2, <1>4, <2>2
<1>5. ASSUME NEW q \in Requests, AdvanceTime(q) PROVE Owned'
  <2>1. PICK e \in Event : Execute(q, e) /\ e.cmd = AdvanceID(q)
    BY <1>5, AdvanceEvent
  <2>2. Names(q, e.cmd)
    BY <2>1 DEF Names, AdvanceID, IsCommand
  <2>3. pc'[q] \notin Unadvanced
    BY <1>5 DEF AdvanceTime, Goto, TypeOK, Unadvanced
  <2> QED
    BY <1>4, <2>1, <2>2, <2>3
<1>6. ASSUME NEW q \in Requests, Act(q), journal' # journal PROVE Owned'
  <2>1. PICK e \in Event : Execute(q, e) /\ (e.type \in Payloads => ExecuteCommand(q) /\ e.cmd = CommandOf[q])
    BY <1>6, ActEvent
  <2>2. ExecuteCommand(q) => Names(q, CommandOf[q]) /\ pc'[q] \notin Unadvanced
    BY DEF ExecuteCommand, Acts, Names, IsCommand, Goto, TypeOK, Unadvanced
  <2> QED
    BY <1>4, <2>1, <2>2
<1>7. CASE ~\E q \in Requests : AdvanceTime(q) \/ (Act(q) /\ journal' # journal)
  BY <1>3, <1>7, QuietJournal
<1> QED
  BY <1>5, <1>6, <1>7

\* A request that an event names is the one it belongs to.
LEMMA SameOwner ==
    ASSUME OwnCommands, NEW q \in Requests, NEW p \in Requests, NEW cmd,
           Run(q) = Run(p), Names(q, cmd), Names(p, cmd)
    PROVE  q = p
BY DEF OwnCommands, Names

\* A command that has an owner past its advance is not one that has yet to
\* advance: ids are not shared.
LEMMA NotYetApplied ==
    ASSUME OwnCommands, Owned, NEW q \in Requests, pc[q] \in Unadvanced,
           NEW cmd \in Applied(journal[Run(q)]), Names(q, cmd)
    PROVE  FALSE
<1>1. Run(q) \in Runs
  BY DEF Run
<1>2. PICK p \in Requests : Run(p) = Run(q) /\ Names(p, cmd) /\ pc[p] \notin Unadvanced
  BY <1>1 DEF Owned
<1> QED
  BY <1>2, SameOwner

\* The advance of a request charges the run up to the time it was received.
LEMMA AdvanceCharges ==
    ASSUME Serially, ChargeInv, [Next]_vars, NEW q \in Requests, AdvanceTime(q)
    PROVE  ChargedTo(Run(q), Later(at[q], got[q]))'
<1>0. /\ TypeOK /\ SerialInv /\ Run(q) \in Runs /\ at[q] \in Nat /\ got[q] \in Nat
      /\ Starts = {} /\ Run(q)' = Run(q)
  BY DEF ChargeInv, SerialInv, AuditInv, SessionInv, TypeOK, Run, Serially
<1>1. PICK e \in Event :
        /\ Execute(q, e) /\ e.type = "TimeAdvanced"
        /\ e.from = got[q] /\ e.upto = Later(at[q], got[q])
  BY <1>0, AdvanceEvent
<1>2. /\ pc[q] = "locked" /\ UNCHANGED <<at, got>>
      /\ journal' = [journal EXCEPT ![Run(q)] = Append(@, e)]
  BY <1>1 DEF AdvanceTime, At, Execute, local
<1>3. ChargedTo(Run(q), got[q])
  BY <1>0, <1>2 DEF ChargeInv, CatalogCharged, SerialInv, GotCurrent
<1>4. ASSUME NEW n, n = got[q] PROVE ChargedTo(Run(q), n)'
  BY <1>0, <1>3, <1>4, ChargedNext
<1>5. e \in Spent(Run(q))'
  <2>1. Spent(Run(q))' = Spent(Run(q)) \cup (IF e.type = "TimeAdvanced" THEN {e} ELSE {})
    BY <1>0, <1>2, SpentAppended
  <2> QED
    BY <1>1, <2>1
<1>6. ChargedTo(Run(q), got[q])'
  BY <1>2, <1>4
<1>7. ASSUME NEW t \in 1..Later(at[q], got[q]), ~Completed(journal[Run(q)])'
      PROVE  \E f \in Spent(Run(q))' : f.from < t /\ t <= f.upto
  <2>1. t \in Nat /\ 1 <= t /\ t <= Later(at[q], got[q])
    BY <1>0 DEF Later
  <2>2. CASE t <= got[q]
    <3>1. t \in 1..got'[q]
      BY <1>0, <1>2, <2>1, <2>2
    <3> QED
      BY <1>0, <1>6, <1>7, <3>1 DEF ChargedTo
  <2>3. CASE t > got[q]
    <3>1. e.from < t /\ t <= e.upto
      BY <1>0, <1>1, <2>1, <2>3
    <3> QED
      BY <1>5, <3>1
  <2> QED
    BY <1>0, <2>1, <2>2, <2>3
<1>8. Later(at[q], got[q])' = Later(at[q], got[q])
  BY <1>2 DEF Later
<1> QED
  BY <1>7, <1>8 DEF ChargedTo

\* A skipped advance has nothing to charge for.
LEMMA SkipCharges ==
    ASSUME OwnCommands, ChargeInv, NEW q \in Requests, SkipAdvance(q)
    PROVE  ChargedTo(Run(q), Later(at[q], got[q]))
<1>0. /\ TypeOK /\ SessionInv /\ SerialInv /\ Run(q) \in Runs
      /\ at[q] \in Nat /\ got[q] \in Nat /\ pc[q] = "locked"
  BY DEF ChargeInv, SerialInv, AuditInv, SessionInv, TypeOK, Run, SkipAdvance, At
<1>1. view[Run(q)] = journal[Run(q)]
  BY <1>0, GatedOpen DEF SerialInv, CurrentInv, SessionCurrent, Opened, Gated
<1>2. ~(IsAdvance(q) /\ Duplicate(q))
  <2> SUFFICES ASSUME IsAdvance(q), CommandOf[q] \in Applied(journal[Run(q)]) PROVE FALSE
    BY <1>1 DEF Duplicate
  <2>1. Names(q, CommandOf[q])
    BY DEF Names, IsCommand, IsAdvance
  <2> QED
    BY <1>0, <2>1, NotYetApplied DEF ChargeInv, Unadvanced
<1>3. Completed(journal[Run(q)]) \/ ~(at[q] > got[q])
  BY <1>1, <1>2 DEF SkipAdvance, Skips, Elapsed
<1>4. CASE Completed(journal[Run(q)])
  BY <1>4 DEF ChargedTo
<1>5. CASE ~(at[q] > got[q])
  <2>1. Later(at[q], got[q]) = lastReal[Run(q)]
    BY <1>0, <1>5 DEF Later, SerialInv, GotCurrent
  <2> QED
    BY <1>0, <2>1 DEF ChargeInv, CatalogCharged
<1> QED
  BY <1>3, <1>4, <1>5

LEMMA PassedNext ==
    ASSUME Serially, OwnCommands, ChargeInv, [Next]_vars
    PROVE  PassedCharged'
<1>0. TypeOK /\ Starts = {} /\ \A q \in Requests : Run(q) \in Runs /\ Run(q)' = Run(q)
  BY DEF ChargeInv, SerialInv, AuditInv, SessionInv, Serially, Run
<1> DEFINE Passed(position) == position \in {"advanced", "touched"}
<1>1. ASSUME NEW q \in Requests, ChargedTo(Run(q), Later(at[q], got[q])), UNCHANGED <<at[q], got[q]>>
      PROVE  ChargedTo(Run(q), Later(at[q], got[q]))'
  <2>1. ASSUME NEW n, n = Later(at[q], got[q]) PROVE ChargedTo(Run(q), n)'
    BY <1>0, <1>1, <2>1, ChargedNext
  <2>2. Later(at[q], got[q])' = Later(at[q], got[q])
    BY <1>1 DEF Later
  <2> QED
    BY <2>1, <2>2
<1>2. ASSUME \A q \in Requests : Passed(pc'[q]) =>
                Passed(pc[q]) /\ at'[q] = at[q] /\ got'[q] = got[q]
      PROVE  PassedCharged'
  BY <1>1, <1>2 DEF ChargeInv, PassedCharged
<1>3. ASSUME NEW q \in Requests, Handle(q), ~AdvanceTime(q), ~SkipAdvance(q)
      PROVE  PassedCharged'
  <2>1. \A p \in Requests : p # q => pc'[p] = pc[p] /\ at'[p] = at[p] /\ got'[p] = got[p]
    <3>1. \A p \in Requests : p # q => pc'[p] = pc[p]
      BY <1>0, <1>3, HandleMoves
    <3>2. UNCHANGED at \/ at' = [at EXCEPT ![q] = now]
      BY <1>3 DEF Handle, Open, OpenExisting, BeginOpen, InstallSession, OpenFails, RecoverTouch,
         RecoverComplete, Enter, ReadCatalog, Busy, Receive, ReceiveFails, Advance, RejectAdvance,
         AdvanceStale, Touch, Act, IssueCredential, ReplySaved, RejectCommand, ExecuteCommand,
         RepeatCommand, RecordResponse, ActionStale, Execute, Unjournalled, Leave, StepFails,
         Finish, FinishFails, durable
    <3>3. UNCHANGED got \/ got' = [got EXCEPT ![q] = lastReal[Run(q)]]
      BY <1>3 DEF Handle, Open, OpenExisting, BeginOpen, InstallSession, OpenFails, RecoverTouch,
         RecoverComplete, Enter, ReadCatalog, Busy, Receive, ReceiveFails, Advance, RejectAdvance,
         AdvanceStale, Touch, Act, IssueCredential, ReplySaved, RejectCommand, ExecuteCommand,
         RepeatCommand, RecordResponse, ActionStale, Leave, StepFails, Finish, FinishFails, local
    <3> QED
      BY <1>0, <3>1, <3>2, <3>3 DEF TypeOK
  <2>2. Passed(pc'[q]) => Passed(pc[q]) /\ at'[q] = at[q] /\ got'[q] = got[q]
    <3>1. CASE Touch(q) \/ IssueCredential(q)
      BY <3>1 DEF Touch, IssueCredential, Execute, At, Goto, local, TypeOK
    <3>2. CASE ~(Touch(q) \/ IssueCredential(q))
      <4>1. \/ \E to \in Positions \ {"advanced", "touched"} : pc' = [pc EXCEPT ![q] = to]
            \/ UNCHANGED <<pc, at, got>>
        BY <1>3, <3>2 DEF Handle, Open, OpenExisting, BeginOpen, InstallSession, OpenFails,
           RecoverTouch, RecoverComplete, Enter, ReadCatalog, Busy, Receive, ReceiveFails, Advance,
           RejectAdvance, AdvanceStale, Act, ReplySaved, RejectCommand, ExecuteCommand,
           RepeatCommand, RecordResponse, ActionStale, Leave, StepFails, Finish, FinishFails, Goto,
           local, Positions, InFlight, Opened, Gated
      <4> QED
        BY <1>0, <4>1 DEF TypeOK
    <3> QED
      BY <3>1, <3>2
  <2> QED
    BY <1>2, <2>1, <2>2
<1>4. ASSUME NEW q \in Requests, AdvanceTime(q) \/ SkipAdvance(q) PROVE PassedCharged'
  <2>1. UNCHANGED <<at, got>> /\ pc' = [pc EXCEPT ![q] = "advanced"]
    BY <1>4 DEF AdvanceTime, SkipAdvance, Execute, Unjournalled, Goto, local, durable
  <2>2. ChargedTo(Run(q), Later(at[q], got[q]))'
    <3>1. CASE AdvanceTime(q)
      BY <3>1, AdvanceCharges
    <3>2. CASE SkipAdvance(q)
      BY <1>1, <2>1, <3>2, SkipCharges
    <3> QED
      BY <1>4, <3>1, <3>2
  <2>3. ASSUME NEW p \in Requests, p # q, Passed(pc'[p]) PROVE ChargedTo(Run(p), Later(at[p], got[p]))'
    <3>1. Passed(pc[p])
      BY <1>0, <2>1, <2>3 DEF TypeOK
    <3>2. ChargedTo(Run(p), Later(at[p], got[p]))
      BY <3>1 DEF ChargeInv, PassedCharged
    <3> QED
      BY <1>1, <2>1, <3>2
  <2> QED
    BY <2>2, <2>3 DEF PassedCharged
<1>5. CASE Tick \/ StepBack \/ UNCHANGED vars
  BY <1>2, <1>5 DEF Tick, StepBack, vars, durable, local
<1>6. CASE Crash
  <2>1. \A q \in Requests : Passed(pc'[q]) => Passed(pc[q]) /\ at'[q] = at[q] /\ got'[q] = got[q]
    BY <1>6 DEF Crash, durable
  <2> QED
    BY <1>2, <2>1
<1> QED
  BY <1>3, <1>4, <1>5, <1>6 DEF Next, Serially

LEMMA ChargedLess ==
    ASSUME NEW r \in Runs, NEW n \in Nat, NEW m \in Nat, m <= n, ChargedTo(r, n)
    PROVE  ChargedTo(r, m)
<1>1. 1..m \subseteq 1..n
  OBVIOUS
<1> QED
  BY <1>1 DEF ChargedTo

\* TouchRun, by the request itself or by recovery, stores a time up to which
\* the run has been charged.
LEMMA CatalogNext ==
    ASSUME Serially, OwnCommands, ChargeInv, [Next]_vars
    PROVE  CatalogCharged'
<1>0. /\ TypeOK /\ SerialInv /\ Starts = {}
      /\ \A q \in Requests : Run(q) \in Runs
  BY DEF ChargeInv, SerialInv, AuditInv, SessionInv, Serially, Run
<1>1. ASSUME NEW r \in Runs, NEW n, ChargedTo(r, n), lastReal'[r] = n PROVE ChargedTo(r, lastReal[r])'
  <2>1. ChargedTo(r, n)'
    BY <1>0, <1>1, ChargedNext
  <2> QED
    BY <1>1, <2>1 DEF ChargedTo
<1>2. CASE UNCHANGED lastReal
  BY <1>1, <1>2 DEF ChargeInv, CatalogCharged
<1>3. ASSUME NEW q \in Requests, NEW n, lastReal' = [lastReal EXCEPT ![Run(q)] = n], ChargedTo(Run(q), n)
      PROVE  CatalogCharged'
  <2>1. \A r \in Runs : lastReal'[r] = lastReal[r] \/ (r = Run(q) /\ lastReal'[r] = n)
    BY <1>0, <1>3 DEF TypeOK
  <2> QED
    BY <1>1, <1>3, <2>1 DEF ChargeInv, CatalogCharged
<1>4. ASSUME NEW q \in Requests, Touch(q) PROVE CatalogCharged'
  <2>1. /\ pc[q] = "advanced"
        /\ lastReal' = [lastReal EXCEPT ![Run(q)] = Later(at[q], got[q])]
    BY <1>4 DEF Touch, At, TouchAt
  <2>2. ChargedTo(Run(q), Later(at[q], got[q]))
    BY <2>1 DEF ChargeInv, PassedCharged
  <2> QED
    BY <1>3, <2>1, <2>2
<1>5. ASSUME NEW q \in Requests, NEW a \in Audited, RecoverTouch(q, a) PROVE CatalogCharged'
  <2>1. /\ opener = q /\ Run(a) = Run(q) /\ WasApplied(a)
        /\ lastReal' = [lastReal EXCEPT ![Run(q)] = at[a]]
    BY <1>5 DEF RecoverTouch, IsOpening, Unsettled, NeedsTouch
  <2>2. fresh = journal[Run(q)]
    BY <1>0, <2>1 DEF SerialInv, CurrentInv
  <2>3. a \in Requests /\ \E cmd \in Applied(journal[Run(a)]) : Names(a, cmd)
    BY <2>1, <2>2 DEF WasApplied, Names, IsCommand
  <2>4. ChargedTo(Run(a), at[a])
    BY <2>3 DEF ChargeInv, AppliedCharged
  <2> QED
    BY <1>3, <2>1, <2>4
<1>6. CASE ~\E q \in Requests : Touch(q) \/ \E a \in Audited : RecoverTouch(q, a)
  <2>1. ASSUME NEW q \in Requests, Handle(q) PROVE UNCHANGED lastReal
    BY <1>6, <2>1 DEF Handle, Open, OpenExisting, BeginOpen, InstallSession, OpenFails,
       RecoverComplete, Enter, ReadCatalog, Busy, Receive, ReceiveFails, Advance, RejectAdvance,
       SkipAdvance, AdvanceTime, AdvanceStale, Act, IssueCredential, ReplySaved, RejectCommand,
       ExecuteCommand, RepeatCommand, RecordResponse, ActionStale, Leave, StepFails, Finish,
       FinishFails, Execute, Unjournalled, durable
  <2>2. Tick \/ StepBack \/ Crash \/ UNCHANGED vars => UNCHANGED lastReal
    BY DEF Tick, StepBack, Crash, vars, durable
  <2>3. UNCHANGED lastReal
    BY <1>0, <2>1, <2>2 DEF Next
  <2> QED
    BY <1>2, <2>3
<1> QED
  BY <1>4, <1>5, <1>6

\* What recovery will find in the journal is there because its request has
\* charged for the time up to its arrival.
LEMMA AppliedNext ==
    ASSUME Serially, OwnCommands, ChargeInv, [Next]_vars
    PROVE  AppliedCharged'
<1>0. /\ TypeOK /\ SerialInv /\ Starts = {} /\ Owned
      /\ \A q \in Requests : Run(q) \in Runs /\ Run(q)' = Run(q)
      /\ \A q \in Requests : at[q] \in Nat /\ got[q] \in Nat
      /\ \A q \in Requests : Later(at[q], got[q]) \in Nat /\ at[q] <= Later(at[q], got[q])
  <2>1. TypeOK /\ SerialInv /\ Starts = {} /\ Owned
    BY DEF ChargeInv, SerialInv, AuditInv, SessionInv, Serially
  <2>2. \A q \in Requests : Run(q) \in Runs /\ Run(q)' = Run(q)
    BY DEF Run
  <2>3. \A q \in Requests : at[q] \in Nat /\ got[q] \in Nat
    BY <2>1 DEF TypeOK
  <2>4. \A q \in Requests : Later(at[q], got[q]) \in Nat /\ at[q] <= Later(at[q], got[q])
    BY <2>3 DEF Later
  <2> QED
    BY <2>1, <2>2, <2>3, <2>4
<1>1. ASSUME NEW q \in Requests, ChargedTo(Run(q), at[q]), at'[q] = at[q]
      PROVE  ChargedTo(Run(q), at[q])'
  <2>1. ASSUME NEW n, n = at[q] PROVE ChargedTo(Run(q), n)'
    BY <1>0, <1>1, <2>1, ChargedNext
  <2> QED
    BY <1>1, <2>1
<1>2. ASSUME NEW q \in Requests, NEW cmd \in Applied(journal[Run(q)]), Names(q, cmd)
      PROVE  ChargedTo(Run(q), at[q])'
  <2>1. ChargedTo(Run(q), at[q])
    BY <1>2 DEF ChargeInv, AppliedCharged
  <2>2. ~Receive(q)
    <3> SUFFICES ASSUME Receive(q) PROVE FALSE
      OBVIOUS
    <3>1. pc[q] \in Unadvanced
      BY DEF Receive, At, Unadvanced
    <3> QED
      BY <1>0, <1>2, <3>1, NotYetApplied
  <2>3. at'[q] = at[q]
    <3>1. ASSUME NEW p \in Requests, Handle(p), ~Receive(p) PROVE UNCHANGED at
      BY <3>1 DEF Handle, Open, OpenExisting, BeginOpen, InstallSession, OpenFails, RecoverTouch,
         RecoverComplete, Enter, ReadCatalog, Busy, ReceiveFails, Advance, RejectAdvance,
         SkipAdvance, AdvanceTime, AdvanceStale, Touch, Act, IssueCredential, ReplySaved,
         RejectCommand, ExecuteCommand, RepeatCommand, RecordResponse, ActionStale, Execute,
         Unjournalled, Leave, StepFails, Finish, FinishFails, durable
    <3>2. ASSUME NEW p \in Requests, Receive(p) PROVE at'[q] = at[q]
      BY <1>0, <2>2, <3>2 DEF Receive, TypeOK
    <3>3. CASE Tick \/ StepBack \/ Crash \/ UNCHANGED vars
      BY <3>3 DEF Tick, StepBack, Crash, vars, durable
    <3> QED
      BY <1>0, <3>1, <3>2, <3>3 DEF Next
  <2> QED
    BY <1>1, <2>1, <2>3
<1>3. ASSUME NEW q \in Requests, NEW cmd, Names(q, cmd)', cmd \in Applied(journal[Run(q)])
      PROVE  ChargedTo(Run(q), at[q])'
  BY <1>2, <1>3 DEF Names, IsCommand
<1>4. CASE journal' = journal
  BY <1>0, <1>3, <1>4 DEF AppliedCharged
<1>5. ASSUME NEW p \in Requests, NEW e \in Event, Execute(p, e),
             e.type \in Payloads => Names(p, e.cmd) /\ ChargedTo(Run(p), at[p])'
      PROVE  AppliedCharged'
  <2> SUFFICES ASSUME NEW q \in Requests, NEW cmd \in Applied(journal'[Run(q)]), Names(q, cmd)
               PROVE  ChargedTo(Run(q), at[q])'
    BY <1>0 DEF AppliedCharged, Names, IsCommand
  <2>1. /\ journal[Run(q)] \in Seq(Event)
        /\ \/ journal'[Run(q)] = journal[Run(q)]
           \/ Run(q) = Run(p) /\ journal'[Run(q)] = Append(journal[Run(q)], e)
    BY <1>0, <1>5 DEF TypeOK, Execute
  <2>2. cmd \in Applied(journal[Run(q)]) \/ (Run(q) = Run(p) /\ e.type \in Payloads /\ cmd = e.cmd)
    BY <2>1, AppliedAppended
  <2>3. CASE cmd \in Applied(journal[Run(q)])
    BY <1>2, <2>3
  <2>4. CASE Run(q) = Run(p) /\ e.type \in Payloads /\ cmd = e.cmd
    <3>1. q = p
      BY <1>5, <2>4, SameOwner
    <3> QED
      BY <1>5, <2>4, <3>1
  <2> QED
    BY <2>2, <2>3, <2>4
<1>6. ASSUME NEW p \in Requests, AdvanceTime(p) PROVE AppliedCharged'
  <2>1. PICK e \in Event : Execute(p, e) /\ e.cmd = AdvanceID(p)
    BY <1>0, <1>6, AdvanceEvent
  <2>2. Names(p, e.cmd)
    BY <2>1 DEF Names, AdvanceID, IsCommand
  <2>3. ChargedTo(Run(p), Later(at[p], got[p]))'
    BY <1>6, AdvanceCharges
  <2>4. UNCHANGED <<at, got>>
    BY <1>6, <2>1 DEF AdvanceTime, Execute, local
  <2>5. ChargedTo(Run(p), at[p])'
    <3>1. Later(at[p], got[p])' \in Nat /\ at'[p] \in Nat /\ at'[p] <= Later(at[p], got[p])'
      BY <1>0, <2>4 DEF Later
    <3>2. 1..at'[p] \subseteq 1..Later(at[p], got[p])'
      BY <3>1
    <3> QED
      BY <2>3, <3>2 DEF ChargedTo
  <2> QED
    BY <1>5, <2>1, <2>2, <2>5
<1>7. ASSUME NEW p \in Requests, Act(p), journal' # journal PROVE AppliedCharged'
  <2>1. PICK e \in Event :
          Execute(p, e) /\ (e.type \in Payloads => ExecuteCommand(p) /\ e.cmd = CommandOf[p])
    BY <1>0, <1>7, ActEvent
  <2>2. ASSUME ExecuteCommand(p) PROVE Names(p, CommandOf[p]) /\ ChargedTo(Run(p), at[p])'
    <3>1. pc[p] = "touched" /\ KindOf[p] \in {"create", "upsert"} /\ at' = at
      BY <2>1, <2>2 DEF ExecuteCommand, Acts, At, Execute
    <3>2. ChargedTo(Run(p), Later(at[p], got[p]))
      BY <3>1 DEF ChargeInv, PassedCharged
    <3>3. ChargedTo(Run(p), at[p])
      BY <1>0, <3>2, ChargedLess
    <3>4. ChargedTo(Run(p), at[p])'
      BY <1>1, <3>1, <3>3
    <3> QED
      BY <3>1, <3>4 DEF Names, IsCommand
  <2> QED
    BY <1>5, <2>1, <2>2
<1>8. CASE ~\E q \in Requests : AdvanceTime(q) \/ (Act(q) /\ journal' # journal)
  BY <1>0, <1>4, <1>8, QuietJournal
<1> QED
  BY <1>6, <1>7, <1>8

LEMMA ChargeInit == Init => ChargeInv
<1> SUFFICES ASSUME Init PROVE ChargeInv
  OBVIOUS
<1>1. \A r \in Runs : journal[r] = <<>> /\ lastReal[r] = 0
  BY DEF Init
<1>2. \A r \in Runs : Applied(journal[r]) = {}
  BY <1>1 DEF Applied, Of
<1>3. \A q \in Requests : pc[q] = "idle" /\ Run(q) \in Runs
  BY DEF Init, Run
<1>4. CatalogCharged
  BY <1>1 DEF CatalogCharged, ChargedTo
<1> QED
  BY <1>2, <1>3, <1>4, SerialInit DEF ChargeInv, Owned, AppliedCharged, PassedCharged

(***************************************************************************)
(* Under the same conditions, and when every command of a run carries a    *)
(* request_id of its own: up to last_real_request_at no second of real     *)
(* time is skipped, whether the request touches the row itself or the open *)
(* after a crash does it in its place.                                     *)
(***************************************************************************)
THEOREM NoTimeSkipped == Serially /\ OwnCommands => (Spec => []NoTimeLost)
<1> SUFFICES ASSUME Serially, OwnCommands PROVE Spec => []NoTimeLost
  OBVIOUS
<1>1. ChargeInv /\ [Next]_vars => ChargeInv'
  <2> SUFFICES ASSUME ChargeInv, [Next]_vars PROVE ChargeInv'
    OBVIOUS
  <2>1. SerialInv /\ TypeOK /\ Owned /\ Starts = {}
    BY DEF ChargeInv, SerialInv, AuditInv, SessionInv, Serially
  <2>2. SerialInv' /\ Owned'
    BY <2>1, SerialNext, OwnedNext
  <2>3. CatalogCharged' /\ AppliedCharged' /\ PassedCharged'
    BY CatalogNext, AppliedNext, PassedNext
  <2> QED
    BY <2>2, <2>3 DEF ChargeInv
<1>2. ChargeInv => NoTimeLost
  BY CatalogIsTime DEF ChargeInv, SerialInv, AuditInv, SessionInv
<1> QED
  BY <1>1, <1>2, ChargeInit, PTL DEF Spec
=============================================================================
