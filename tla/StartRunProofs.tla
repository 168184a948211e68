---------------------------- MODULE StartRunProofs ----------------------------
(***************************************************************************)
(* POST /v2/start for any number of callers, keys, worlds and run ids: a   *)
(* journal holds the one world of its row, and the service answers a key   *)
(* as StartOnce promises, wherever starts are cut off and whatever profile *)
(* the next process has.                                                   *)
(***************************************************************************)
EXTENDS StartRun, FiniteSetTheorems, SequenceTheorems, TLAPS

(***************************************************************************)
(* Lemmas about journals: the places of a kind of event, and the length of *)
(* the schedule, when an event is appended.                                *)
(***************************************************************************)
LEMMA PlacesFinite ==
    ASSUME NEW j \in Seq(Events), NEW kind
    PROVE  IsFiniteSet(Places(j, kind)) /\ Cardinality(Places(j, kind)) \in Nat
<1>1. Places(j, kind) \in SUBSET (1..Len(j)) /\ Len(j) \in Int
  BY DEF Places
<1>2. IsFiniteSet(1..Len(j))
  BY <1>1, FS_Interval
<1>3. IsFiniteSet(Places(j, kind))
  BY <1>1, <1>2, FS_Subset
<1> QED
  BY <1>3, FS_CardinalityType

LEMMA PlacesAppend ==
    ASSUME NEW j \in Seq(Events), NEW e \in Events, NEW kind
    PROVE  Places(Append(j, e), kind) =
             Places(j, kind) \cup (IF e.kind = kind THEN {Len(j) + 1} ELSE {})
BY DEF Places

LEMMA OtherPlaces ==
    ASSUME NEW j \in Seq(Events), NEW e \in Events, NEW kind, e.kind # kind
    PROVE  Places(Append(j, e), kind) = Places(j, kind)
<1>1. Places(Append(j, e), kind) = Places(j, kind) \cup (IF e.kind = kind THEN {Len(j) + 1} ELSE {})
  BY PlacesAppend
<1> QED
  BY <1>1

LEMMA ScheduleAppend ==
    ASSUME NEW j \in Seq(Events), NEW e \in Events
    PROVE  /\ ScheduleLength(j) \in Nat
           /\ ScheduleLength(Append(j, e)) = ScheduleLength(j) + IF e.kind = "chunk" THEN 1 ELSE 0
<1>1. IsFiniteSet(Places(j, "chunk")) /\ ScheduleLength(j) \in Nat
  BY PlacesFinite DEF ScheduleLength
<1>2. Len(j) + 1 \notin Places(j, "chunk")
  BY DEF Places
<1>3. Cardinality(Places(j, "chunk") \cup {Len(j) + 1}) = Cardinality(Places(j, "chunk")) + 1
  BY <1>1, <1>2, FS_AddElement
<1>4. Places(Append(j, e), "chunk") =
        Places(j, "chunk") \cup (IF e.kind = "chunk" THEN {Len(j) + 1} ELSE {})
  BY PlacesAppend
<1>5. CASE e.kind = "chunk"
  BY <1>1, <1>3, <1>4, <1>5 DEF ScheduleLength
<1>6. CASE e.kind # "chunk"
  <2>1. Places(Append(j, e), "chunk") = Places(j, "chunk")
    BY <1>6, OtherPlaces
  <2> QED
    BY <1>1, <1>6, <2>1 DEF ScheduleLength
<1> QED
  BY <1>5, <1>6

LEMMA NoEvents == ScheduleLength(<<>>) = 0
<1>1. Places(<<>>, "chunk") = {}
  BY DEF Places
<1> QED
  BY <1>1, FS_EmptySet DEF ScheduleLength

LEMMA PrefixAppend ==
    ASSUME NEW j \in Seq(Events), NEW e \in Events
    PROVE  /\ \A i \in 1..Len(j) : SubSeq(Append(j, e), 1, i) = SubSeq(j, 1, i)
           /\ SubSeq(Append(j, e), 1, Len(j) + 1) = Append(j, e)
           /\ SubSeq(j, 1, Len(j)) = j
<1>1. Append(j, e) \in Seq(Events) /\ Len(Append(j, e)) = Len(j) + 1
  OBVIOUS
<1>2. ASSUME NEW i \in 1..Len(j) PROVE SubSeq(Append(j, e), 1, i) = SubSeq(j, 1, i)
  <2>1. \A k \in 1..i : Append(j, e)[k] = j[k]
    OBVIOUS
  <2> QED
    BY <2>1
<1>3. SubSeq(Append(j, e), 1, Len(Append(j, e))) = Append(j, e) /\ SubSeq(j, 1, Len(j)) = j
  BY <1>1, SubSeqFull
<1> QED
  BY <1>1, <1>2, <1>3

\* An event other than a part of the schedule, or the next part, keeps a
\* journal that of the world.
LEMMA ScheduleHeld ==
    ASSUME NEW j \in Seq(Events), NEW e \in Events, NEW w, HoldsSchedule(j, w),
           e.kind = "chunk" => e = Chunk(w, ScheduleLength(j) + 1)
    PROVE  HoldsSchedule(Append(j, e), w)
<1> DEFINE t == Append(j, e)
<1> SUFFICES ASSUME NEW i \in Places(t, "chunk")
             PROVE  t[i] = Chunk(w, ScheduleLength(SubSeq(t, 1, i)))
  BY DEF HoldsSchedule
<1>1. CASE i \in Places(j, "chunk")
  <2>1. i \in 1..Len(j) /\ t[i] = j[i]
    BY <1>1 DEF Places
  <2>2. SubSeq(t, 1, i) = SubSeq(j, 1, i)
    BY <2>1, PrefixAppend
  <2> QED
    BY <1>1, <2>1, <2>2 DEF HoldsSchedule
<1>2. CASE i \notin Places(j, "chunk")
  <2>1. i = Len(j) + 1 /\ e.kind = "chunk" /\ t[i] = e
    BY <1>2 DEF Places
  <2>2. SubSeq(t, 1, i) = t
    BY <2>1, PrefixAppend
  <2>3. ScheduleLength(t) = ScheduleLength(j) + 1
    BY <2>1, ScheduleAppend
  <2> QED
    BY <2>1, <2>2, <2>3
<1> QED
  BY <1>1, <1>2

(***************************************************************************)
(* The invariant.                                                          *)
(***************************************************************************)
\* A key has at most one run.
KeyOnce ==
    \A r1, r2 \in RunIDs :
        runs[r1] # Nobody /\ runs[r2] # Nobody /\ runs[r1].key = runs[r2].key => r1 = r2

\* A start that has its run works on the world of its row.
Bound == {"load", "append", "panel", "draw", "servers"}
Asks(p) == ask[p] \in [key : Keys, seed : Seeds]
OnItsRow(p) ==
    /\ run[p] \in RunIDs /\ world[p] \in Worlds /\ world[p][1] = ask[p].seed
    /\ runs[run[p]] = [key |-> ask[p].key, world |-> world[p]]
\* What it has seen of the journal is not the whole world.
Writes(p) == seen[p] <= Len(journal[run[p]]) /\ ~Complete(State(p), world[p])

CallOK(p) ==
    /\ pc[p] # "idle" => Asks(p)
    /\ pc[p] \in {"row", "taken"} => world[p] = WorldOf(ask[p].seed, profile)
    /\ pc[p] = "resume" => run[p] \in RowsOf(ask[p].key)
    /\ pc[p] \in Bound => OnItsRow(p)
    /\ pc[p] = "append" => Writes(p)
    /\ pc[p] \in {"panel", "draw", "servers"} => Complete(journal[run[p]], world[p])
    /\ pc[p] = "servers" => access[p] \in Accesses /\ panel[run[p]] = access[p]
CallInv == \A p \in Callers : CallOK(p)

StartInv == TypeOK /\ KeyOnce /\ CallInv /\ OwnWorldOnce

LEMMA WorldTypes ==
    /\ \A s \in Seeds, p \in Profiles : WorldOf(s, p) \in Worlds /\ WorldOf(s, p)[1] = s
    /\ \A w \in Worlds : w[1] \in Seeds /\ w # Nobody
    /\ \A w \in Worlds, p \in Profiles :
         (w[1] \in Generated => WorldOf(w[1], p) = w) => WorldOf(w[1], p) = w
<1>1. \A w \in Worlds, p \in Profiles :
        (w[1] \in Generated => WorldOf(w[1], p) = w) => WorldOf(w[1], p) = w
  BY StartAssumption DEF Worlds, WorldOf, Seeds
<1> QED
  BY <1>1, StartAssumption DEF Worlds, WorldOf, Seeds

LEMMA EventTypes ==
    /\ \A w \in Worlds : Created(w) \in Events
    /\ \A w \in Worlds, n \in Nat : Chunk(w, n) \in Events
    /\ TimePassed \in Events /\ CredentialIssued \in Events
BY DEF Created, Chunk, TimePassed, CredentialIssued, Event, Events

LEMMA StartInit == Init => StartInv
<1> SUFFICES ASSUME Init PROVE StartInv
  OBVIOUS
<1>1. TypeOK
  BY DEF Init, TypeOK
<1>2. CallInv
  BY DEF Init, CallInv, CallOK, Bound
<1> QED
  BY <1>1, <1>2 DEF Init, StartInv, KeyOnce, OwnWorldOnce

(***************************************************************************)
(* What the steps do to the tables and the journals.                       *)
(***************************************************************************)
\* How a step may lengthen the journal of a run: by what is left of the world
\* of its row, or, once there is a world, by what requests do.
Continues(r, e) ==
    /\ e \in Events /\ runs[r] # Nobody
    /\ \/ e.kind \in {"time", "credential"} /\ journal[r] # <<>>
       \/ e = Created(runs[r].world) /\ journal[r] = <<>>
       \/ /\ e = Chunk(runs[r].world, ScheduleLength(journal[r]) + 1)
          /\ journal[r] # <<>> /\ ~Complete(journal[r], runs[r].world)
Kept(r) == journal'[r] = journal[r]
Grows == \A r \in RunIDs :
    Kept(r) \/ \E e \in Events : Continues(r, e) /\ journal'[r] = Append(journal[r], e)

LEMMA RowTypes ==
    ASSUME TypeOK, NEW r \in RunIDs
    PROVE  /\ runs[r] # Nobody => runs[r].world \in Worlds /\ runs[r].key \in Keys
           /\ journal[r] \in Seq(Events)
           /\ \A p \in Callers : CallOK(p) /\ pc[p] \in Bound /\ run[p] = r =>
                runs[r] # Nobody /\ runs[r].world = world[p] /\ runs[r].key = ask[p].key
<1>1. runs[r] \in {Nobody} \cup [key : Keys, world : Worlds] /\ journal[r] \in Seq(Events)
  BY DEF TypeOK
<1>2. ASSUME NEW p \in Callers, CallOK(p), pc[p] \in Bound, run[p] = r
      PROVE  runs[r] # Nobody /\ runs[r].world = world[p] /\ runs[r].key = ask[p].key
  <2>1. /\ runs[r] = [key |-> ask[p].key, world |-> world[p]] /\ world[p] \in Worlds
        /\ ask[p].key \in Keys
    BY <1>2 DEF CallOK, OnItsRow, Asks, Bound
  <2>2. runs[r] \in [key : Keys, world : Worlds]
    BY <2>1
  <2> QED
    BY <2>1, <2>2, StartAssumption
<1> QED
  BY <1>1, <1>2

LEMMA AppendsNext ==
    ASSUME StartInv, NEW p \in Callers, AppendWorld(p)
    PROVE  /\ Continues(run[p], NextEvent(p)) /\ State(p) = journal[run[p]]
           /\ run[p] \in RunIDs
           /\ journal' = [journal EXCEPT ![run[p]] = Append(@, NextEvent(p))]
<1>1. /\ pc[p] = "append" /\ TypeOK /\ CallOK(p)
      /\ journal' = [journal EXCEPT ![run[p]] = Append(@, NextEvent(p))]
      /\ seen[p] = Len(journal[run[p]])
  BY DEF AppendWorld, StartInv, CallInv, Uncontested
<1>2. OnItsRow(p) /\ Writes(p) /\ run[p] \in RunIDs /\ world[p] \in Worlds /\ pc[p] \in Bound
  BY <1>1 DEF CallOK, Bound, OnItsRow
<1>3. journal[run[p]] \in Seq(Events)
  BY <1>1, <1>2, RowTypes
<1>4. State(p) = journal[run[p]]
  BY <1>1, <1>3, SubSeqFull DEF State
<1>5. runs[run[p]] # Nobody /\ runs[run[p]].world = world[p]
  BY <1>1, <1>2, RowTypes
<1>6. ~Complete(journal[run[p]], runs[run[p]].world)
  <2>1. ~Complete(State(p), world[p])
    BY <1>2 DEF Writes
  <2> QED
    BY <1>4, <1>5, <2>1
<1>7. CASE seen[p] = 0
  <2>1. journal[run[p]] = <<>>
    BY <1>1, <1>3, <1>7, EmptySeq
  <2>3. NextEvent(p) = Created(runs[run[p]].world)
    BY <1>5, <1>7 DEF NextEvent
  <2>2. NextEvent(p) \in Events
    BY <1>2, <1>5, <2>3, EventTypes
  <2> QED
    BY <1>1, <1>2, <1>4, <1>5, <2>1, <2>3, <2>2 DEF Continues
<1>8. CASE seen[p] # 0
  <2>1. /\ journal[run[p]] # <<>>
        /\ NextEvent(p) = Chunk(runs[run[p]].world, ScheduleLength(journal[run[p]]) + 1)
    BY <1>1, <1>3, <1>4, <1>5, <1>8 DEF NextEvent
  <2>2. ScheduleLength(journal[run[p]]) + 1 \in Nat
    BY <1>3, PlacesFinite DEF ScheduleLength
  <2>3. NextEvent(p) \in Events
    BY <1>2, <1>5, <2>1, <2>2, EventTypes
  <2> QED
    BY <1>1, <1>2, <1>4, <1>5, <1>6, <2>1, <2>3 DEF Continues
<1> QED
  BY <1>7, <1>8

LEMMA CredentialsAppend ==
    ASSUME NEW j
    PROVE  WithCredentials(j) = j \/ (WithCredentials(j) = Append(j, CredentialIssued) /\ j # <<>>)
BY DEF WithCredentials, Running

LEMMA JournalGrows ==
    ASSUME StartInv, [Next]_vars
    PROVE  Grows
<1>1. TypeOK
  BY DEF StartInv
<1>2. ASSUME UNCHANGED journal PROVE Grows
  BY <1>2 DEF Grows, Kept
<1>3. ASSUME NEW r \in RunIDs, NEW e \in Events, Continues(r, e),
             journal' = [journal EXCEPT ![r] = Append(@, e)]
      PROVE  Grows
  <2>1. \A x \in RunIDs : journal'[x] = IF x = r THEN Append(journal[r], e) ELSE journal[x]
    BY <1>1, <1>3 DEF TypeOK
  <2> QED
    BY <1>3, <2>1 DEF Grows, Kept
<1>4. ASSUME NEW r \in RunIDs, runs[r] # Nobody,
             journal' = [journal EXCEPT ![r] = WithCredentials(@)]
      PROVE  Grows
  <2>1. CASE WithCredentials(journal[r]) = journal[r]
    <3>1. journal' = journal
      BY <1>1, <1>4, <2>1 DEF TypeOK
    <3> QED
      BY <1>2, <3>1
  <2>2. CASE WithCredentials(journal[r]) = Append(journal[r], CredentialIssued) /\ journal[r] # <<>>
    <3>1. Continues(r, CredentialIssued) /\ CredentialIssued \in Events
      BY <1>4, <2>2, EventTypes DEF Continues, CredentialIssued, Event
    <3> QED
      BY <1>3, <1>4, <2>2, <3>1
  <2> QED
    BY <2>1, <2>2, CredentialsAppend
<1>5. ASSUME NEW p \in Callers, AppendWorld(p) PROVE Grows
  <2>1. NextEvent(p) \in Events
    BY <1>5, AppendsNext DEF Continues
  <2> QED
    BY <1>3, <1>5, <2>1, AppendsNext
<1>6. ASSUME NEW p \in Callers, AnswerStart(p) PROVE Grows
  <2>1. pc[p] = "servers" /\ CallOK(p)
    BY <1>6 DEF AnswerStart, StartInv, CallInv
  <2>2. run[p] \in RunIDs /\ runs[run[p]] # Nobody
    BY <1>1, <2>1, RowTypes DEF CallOK, Bound, OnItsRow
  <2> QED
    BY <1>2, <1>4, <1>6, <2>2 DEF AnswerStart
<1>7. ASSUME NEW r \in RunIDs, Request(r) PROVE Grows
  <2>1. runs[r] # Nobody /\ journal[r] # <<>>
    BY <1>7 DEF Request, Running
  <2>2. Continues(r, TimePassed) /\ TimePassed \in Events
    BY <2>1, EventTypes DEF Continues, TimePassed, Event
  <2>3. PICK after \in {Append(journal[r], TimePassed), WithCredentials(journal[r])} :
          journal' = [journal EXCEPT ![r] = after]
    BY <1>7 DEF Request
  <2>4. CASE after = Append(journal[r], TimePassed)
    BY <1>3, <2>2, <2>3, <2>4
  <2>5. CASE after = WithCredentials(journal[r])
    BY <1>4, <2>1, <2>3, <2>5
  <2> QED
    BY <2>3, <2>4, <2>5
<1>8. ASSUME NEW p \in Callers, Step(p), ~AppendWorld(p), ~AnswerStart(p) PROVE Grows
  BY <1>2, <1>8 DEF Step, FindWorld, CreateRun, Taken, Resume, LoadJournal, Conflict, ReadAccess,
     DrawAccess
<1>9. ASSUME NEW p \in Callers, Fail(p) \/ \E a \in Asked : Call(p, a[1], a[2]) PROVE Grows
  BY <1>2, <1>9 DEF Fail, Call
<1>10. CASE (\E s \in Manual : Register(s)) \/ (\E p \in Profiles : Restart(p)) \/ UNCHANGED vars
  BY <1>2, <1>10 DEF Register, Restart, vars
<1> QED
  BY <1>5, <1>6, <1>7, <1>8, <1>9, <1>10 DEF Next

LEMMA AppendIsEvents ==
    ASSUME TypeOK, Grows, DOMAIN journal' = RunIDs, NEW r \in RunIDs
    PROVE  journal'[r] \in Seq(Events)
<1>1. journal[r] \in Seq(Events)
  BY DEF TypeOK
<1>2. CASE Kept(r)
  BY <1>1, <1>2 DEF Kept
<1>3. ASSUME NEW e \in Events, journal'[r] = Append(journal[r], e) PROVE journal'[r] \in Seq(Events)
  BY <1>1, <1>3
<1> QED
  BY <1>2, <1>3 DEF Grows

LEMMA JournalDomain ==
    ASSUME TypeOK, [Next]_vars
    PROVE  journal' = [r \in RunIDs |-> journal'[r]]
<1>0. journal = [r \in RunIDs |-> journal[r]]
  BY DEF TypeOK
<1>1. UNCHANGED journal \/ \E r, after : journal' = [journal EXCEPT ![r] = after]
  BY DEF Next, Step, FindWorld, CreateRun, Taken, Resume, LoadJournal, AppendWorld, Conflict,
     ReadAccess, DrawAccess, AnswerStart, Fail, Call, Register, Request, Restart, vars
<1> QED
  BY <1>0, <1>1

LEMMA Updated ==
    ASSUME NEW D, NEW R, NEW f \in [D -> R], NEW d, NEW v \in R
    PROVE  [f EXCEPT ![d] = v] \in [D -> R]
OBVIOUS

LEMMA FoundTypes ==
    ASSUME TypeOK, NEW p \in Callers, NEW k, NEW otherwise, Found(p, k, otherwise)
    PROVE  run' \in [Callers -> {Nobody} \cup RunIDs]
<1>1. CASE UNCHANGED run
  BY <1>1 DEF TypeOK
<1>2. ASSUME NEW r \in RowsOf(k), run' = [run EXCEPT ![p] = r]
      PROVE  run' \in [Callers -> {Nobody} \cup RunIDs]
  <2>1. r \in {Nobody} \cup RunIDs
    BY DEF RowsOf
  <2> QED
    BY <1>2, <2>1, Updated DEF TypeOK
<1> QED
  BY <1>1, <1>2 DEF Found

LEMMA TypeNext ==
    ASSUME StartInv, [Next]_vars
    PROVE  TypeOK'
<1>0. TypeOK /\ CallInv
  BY DEF StartInv
<1>1. journal' \in [RunIDs -> Seq(Events)]
  <2>1. journal' = [r \in RunIDs |-> journal'[r]]
    BY <1>0, JournalDomain
  <2>2. \A r \in RunIDs : journal'[r] \in Seq(Events)
    BY <1>0, <2>1, JournalGrows, AppendIsEvents
  <2> QED
    BY <2>1, <2>2
<1>2. ASSUME NEW p \in Callers, NEW to \in {"idle", "world", "row", "taken", "resume", "load", "append",
                           "panel", "draw", "servers"}, Goto(p, to)
      PROVE  pc' \in [Callers -> {"idle", "world", "row", "taken", "resume", "load", "append",
                           "panel", "draw", "servers"}]
  BY <1>0, <1>2 DEF Goto, TypeOK
<1>3. ASSUME NEW p \in Callers, Back(p), UNCHANGED <<profile, worlds, runs, panel>>, UNCHANGED answer
      PROVE  TypeOK'
  BY <1>0, <1>1, <1>2, <1>3 DEF Back, TypeOK
<1>4. ASSUME NEW p \in Callers, FindWorld(p) PROVE TypeOK'
  <2>1. WorldOf(ask[p].seed, profile) \in Worlds /\ pc[p] = "world"
    BY <1>0, <1>4, WorldTypes DEF FindWorld, CallInv, CallOK, Asks, TypeOK
  <2> QED
    BY <1>0, <1>1, <1>2, <1>4, <2>1 DEF FindWorld, TypeOK
<1>5. ASSUME NEW p \in Callers, CreateRun(p) PROVE TypeOK'
  <2>1. Asks(p) /\ world[p] \in Worlds
    BY <1>0, <1>5, WorldTypes DEF CreateRun, CallInv, CallOK, Asks, TypeOK
  <2>2. [key |-> ask[p].key, world |-> world[p]] \in [key : Keys, world : Worlds]
    BY <2>1 DEF Asks
  <2>3. /\ runs' \in [RunIDs -> {Nobody} \cup [key : Keys, world : Worlds]]
        /\ run' \in [Callers -> {Nobody} \cup RunIDs]
        /\ \E to \in {"load", "taken"} : Goto(p, to)
    <3>1. PICK r \in RunIDs :
             IF FreeRow(r, ask[p].key)
               THEN /\ runs' = [runs EXCEPT ![r] = [key |-> ask[p].key, world |-> world[p]]]
                    /\ run' = [run EXCEPT ![p] = r]
                    /\ Goto(p, "load")
               ELSE /\ Goto(p, "taken")
                    /\ UNCHANGED <<runs, run>>
      BY <1>5 DEF CreateRun
    <3>2. CASE FreeRow(r, ask[p].key)
      <4>1. runs' \in [RunIDs -> {Nobody} \cup [key : Keys, world : Worlds]]
        <5> DEFINE Rows == {Nobody} \cup [key : Keys, world : Worlds]
                   row == [key |-> ask[p].key, world |-> world[p]]
        <5>1. row \in Rows
          BY <2>2
        <5>2. runs \in [RunIDs -> Rows]
          BY <1>0 DEF TypeOK
        <5>3. runs' = [runs EXCEPT ![r] = row]
          BY <3>1, <3>2
        <5> HIDE DEF Rows, row
        <5>4. runs' \in [RunIDs -> Rows]
          BY <5>1, <5>2, <5>3, Updated
        <5> QED
          BY <5>4 DEF Rows
      <4>2. run' \in [Callers -> {Nobody} \cup RunIDs]
        BY <1>0, <3>1, <3>2, Updated DEF TypeOK
      <4> QED
        BY <3>1, <3>2, <4>1, <4>2
    <3>3. CASE ~FreeRow(r, ask[p].key)
      <4>1. UNCHANGED <<runs, run>> /\ Goto(p, "taken")
        BY <3>1, <3>3
      <4> QED
        BY <1>0, <4>1 DEF TypeOK
    <3> QED
      BY <3>2, <3>3
  <2> QED
    BY <1>0, <1>1, <1>2, <1>5, <2>3 DEF CreateRun, TypeOK
<1>6. ASSUME NEW p \in Callers, Taken(p) PROVE TypeOK'
  <2>1. run' \in [Callers -> {Nobody} \cup RunIDs]
    BY <1>0, <1>6, FoundTypes DEF Taken
  <2>2. \E to \in {"row", "resume"} : Goto(p, to)
    BY <1>6 DEF Taken, Found
  <2>3. UNCHANGED <<profile, catalog, ask, world, seen, access, answer>>
    BY <1>6 DEF Taken
  <2>4. pc' \in [Callers -> {"idle", "world", "row", "taken", "resume", "load", "append",
                           "panel", "draw", "servers"}]
    <3>1. CASE Goto(p, "row")
      BY <1>2, <3>1
    <3>2. CASE Goto(p, "resume")
      BY <1>2, <3>2
    <3> QED
      BY <2>2, <3>1, <3>2
  <2> QED
    BY <1>0, <1>1, <2>1, <2>3, <2>4 DEF TypeOK, catalog
<1>7. ASSUME NEW p \in Callers, Resume(p) PROVE TypeOK'
  <2>1. runs[run[p]].world \in Worlds
    BY <1>0, <1>7, RowTypes DEF Resume, CallInv, CallOK, RowsOf
  <2>2. WorldOf(runs[run[p]].world[1], profile) \in Worlds
    BY <1>0, <2>1, WorldTypes DEF TypeOK
  <2> QED
    BY <1>0, <1>1, <1>2, <1>7, <2>2 DEF Resume, TypeOK
<1>8. ASSUME NEW p \in Callers, LoadJournal(p) \/ Conflict(p) PROVE TypeOK'
  <2>1. pc[p] \in Bound
    BY <1>8 DEF LoadJournal, Conflict, Bound
  <2>2. journal[run[p]] \in Seq(Events)
    BY <1>0, <2>1, RowTypes DEF CallInv, CallOK, OnItsRow
  <2>3. Len(journal[run[p]]) \in Nat
    BY <2>2
  <2>4. seen' \in [Callers -> Nat]
    BY <1>0, <1>8, <2>3 DEF LoadJournal, Conflict, TypeOK
  <2>5. \E to \in {"load", "panel", "append"} : Goto(p, to)
    BY <1>8 DEF LoadJournal, Conflict
  <2> QED
    BY <1>0, <1>1, <1>2, <1>8, <2>4, <2>5 DEF LoadJournal, Conflict, TypeOK, catalog
<1>9. ASSUME NEW p \in Callers, AppendWorld(p) PROVE TypeOK'
  <2>1. CASE Back(p)
    BY <1>3, <1>9, <2>1 DEF AppendWorld, catalog
  <2>2. CASE ~Back(p)
    <3>1. seen' \in [Callers -> Nat] /\ UNCHANGED <<ask, run, world, access>>
      BY <1>0, <1>9, <2>2 DEF AppendWorld, TypeOK
    <3>2. \E to \in {"panel", "append"} : Goto(p, to)
      BY <1>9, <2>2 DEF AppendWorld
    <3> QED
      BY <1>0, <1>1, <1>2, <1>9, <3>1, <3>2 DEF AppendWorld, TypeOK, catalog
  <2> QED
    BY <2>1, <2>2
<1>10. ASSUME NEW p \in Callers, ReadAccess(p) \/ DrawAccess(p) PROVE TypeOK'
  <2>1. pc[p] \in Bound /\ run[p] \in RunIDs
    BY <1>0, <1>10 DEF ReadAccess, DrawAccess, Bound, CallInv, CallOK, OnItsRow
  <2>2. panel' \in [RunIDs -> {Nobody} \cup Accesses]
    BY <1>0, <1>10, <2>1 DEF ReadAccess, DrawAccess, Inserted, TypeOK, catalog
  <2>3. access' \in [Callers -> {Nobody} \cup Accesses]
    <3>1. panel[run[p]] \in {Nobody} \cup Accesses /\ panel'[run[p]] \in {Nobody} \cup Accesses
      BY <1>0, <2>1, <2>2 DEF TypeOK
    <3>2. \/ UNCHANGED access
          \/ access' = [access EXCEPT ![p] = panel[run[p]]]
          \/ access' = [access EXCEPT ![p] = panel'[run[p]]]
      BY <1>10 DEF ReadAccess, DrawAccess
    <3> QED
      BY <1>0, <3>1, <3>2 DEF TypeOK
  <2>4. \E to \in {"draw", "servers"} : Goto(p, to)
    BY <1>10 DEF ReadAccess, DrawAccess
  <2> QED
    BY <1>0, <1>1, <1>2, <1>10, <2>2, <2>3, <2>4 DEF ReadAccess, DrawAccess, TypeOK, catalog
<1>11. ASSUME NEW p \in Callers, AnswerStart(p) PROVE TypeOK'
  <2>1. CallOK(p) /\ pc[p] = "servers"
    BY <1>0, <1>11 DEF AnswerStart, CallInv
  <2>2. Asks(p) /\ run[p] \in RunIDs /\ access[p] \in Accesses
    BY <2>1 DEF CallOK, Bound, OnItsRow
  <2>3. answer' \in [key : Keys, seed : Seeds, run : RunIDs, access : Accesses]
    BY <1>11, <2>2 DEF AnswerStart, Asks
  <2> QED
    BY <1>0, <1>1, <1>2, <1>11, <2>3 DEF AnswerStart, Back, TypeOK, catalog
<1>12. ASSUME NEW p \in Callers, NEW a \in Asked, Call(p, a[1], a[2]) PROVE TypeOK'
  <2>1. a[1] \in Keys /\ a[2] \in Seeds
    BY StartAssumption
  <2>2. run' \in [Callers -> {Nobody} \cup RunIDs]
    BY <1>0, <1>12, FoundTypes DEF Call
  <2>3. ask' \in [Callers -> {NoAsk} \cup [key : Keys, seed : Seeds]]
    <3>1. [key |-> a[1], seed |-> a[2]] \in [key : Keys, seed : Seeds]
      BY <2>1
    <3> QED
      BY <1>0, <1>12, <3>1, Updated DEF Call, TypeOK
  <2>4. \E to \in {"world", "resume"} : Goto(p, to)
    BY <1>12 DEF Call, Found
  <2>5. UNCHANGED <<profile, catalog, world, seen, access, answer>>
    BY <1>12 DEF Call
  <2> QED
    BY <1>0, <1>1, <1>2, <2>2, <2>3, <2>4, <2>5 DEF TypeOK, catalog
<1>13. ASSUME NEW p \in Callers, Fail(p) PROVE TypeOK'
  BY <1>3, <1>13 DEF Fail, catalog
<1>14. ASSUME NEW s \in Manual, Register(s) PROVE TypeOK'
  <2>1. WorldOf(s, profile) \in Worlds
    BY <1>0, WorldTypes DEF TypeOK, Seeds
  <2> QED
    BY <1>0, <1>1, <1>14, <2>1 DEF Register, TypeOK, locals
<1>15. CASE (\E r \in RunIDs : Request(r)) \/ (\E p \in Profiles : Restart(p)) \/ UNCHANGED vars
  BY <1>0, <1>1, <1>15 DEF Request, Restart, vars, catalog, locals, TypeOK
<1> QED
  BY <1>4, <1>5, <1>6, <1>7, <1>8, <1>9, <1>10, <1>11, <1>12, <1>13, <1>14, <1>15 DEF Next, Step

(***************************************************************************)
(* Rows, panels and worlds are only added.                                 *)
(***************************************************************************)
LEMMA RowsNext ==
    ASSUME [Next]_vars
    PROVE  \/ UNCHANGED runs
           \/ \E p \in Callers, r \in RunIDs :
                /\ pc[p] = "row" /\ CreateRun(p) /\ FreeRow(r, ask[p].key)
                /\ runs' = [runs EXCEPT ![r] = [key |-> ask[p].key, world |-> world[p]]]
<1>1. ASSUME NEW p \in Callers, CreateRun(p)
      PROVE  UNCHANGED runs \/ \E r \in RunIDs :
                /\ FreeRow(r, ask[p].key)
                /\ runs' = [runs EXCEPT ![r] = [key |-> ask[p].key, world |-> world[p]]]
  BY <1>1 DEF CreateRun
<1>2. ASSUME NEW p \in Callers, Step(p) \/ Fail(p) \/ \E a \in Asked : Call(p, a[1], a[2]), ~CreateRun(p)
      PROVE  UNCHANGED runs
  BY <1>2 DEF Step, FindWorld, Taken, Resume, LoadJournal, AppendWorld, Conflict, ReadAccess,
     DrawAccess, AnswerStart, Fail, Call, catalog
<1>3. CASE \/ \E s \in Manual : Register(s)
           \/ \E r \in RunIDs : Request(r)
           \/ \E p \in Profiles : Restart(p)
           \/ UNCHANGED vars
  BY <1>3 DEF Register, Request, Restart, vars, catalog
<1>4. ASSUME NEW p \in Callers, CreateRun(p) PROVE pc[p] = "row"
  BY <1>4 DEF CreateRun
<1> QED
  BY <1>1, <1>2, <1>3, <1>4 DEF Next, Step

LEMMA RowKept ==
    ASSUME TypeOK, [Next]_vars, NEW r \in RunIDs, runs[r] # Nobody
    PROVE  runs'[r] = runs[r]
BY RowsNext DEF TypeOK, FreeRow

LEMMA PanelKept ==
    ASSUME TypeOK, [Next]_vars, NEW r \in RunIDs, panel[r] # Nobody
    PROVE  panel'[r] = panel[r]
<1>1. ASSUME NEW p \in Callers, DrawAccess(p) PROVE panel'[r] = panel[r]
  <2>1. PICK a \in Accesses : panel' = [panel EXCEPT ![run[p]] = Inserted(@, a)]
    BY <1>1 DEF DrawAccess
  <2> QED
    BY <2>1 DEF Inserted, TypeOK
<1>2. ASSUME NEW p \in Callers, Step(p) \/ Fail(p) \/ \E a \in Asked : Call(p, a[1], a[2]), ~DrawAccess(p)
      PROVE  panel'[r] = panel[r]
  BY <1>2 DEF Step, FindWorld, CreateRun, Taken, Resume, LoadJournal, AppendWorld, Conflict,
     ReadAccess, AnswerStart, Fail, Call, catalog
<1>3. CASE \/ \E s \in Manual : Register(s)
           \/ \E x \in RunIDs : Request(x)
           \/ \E p \in Profiles : Restart(p)
           \/ UNCHANGED vars
  BY <1>3 DEF Register, Request, Restart, vars, catalog
<1> QED
  BY <1>1, <1>2, <1>3 DEF Next, Step

LEMMA KeyNext ==
    ASSUME StartInv, [Next]_vars
    PROVE  KeyOnce'
<1>1. TypeOK /\ KeyOnce
  BY DEF StartInv
<1>2. ASSUME NEW p \in Callers, NEW r \in RunIDs, FreeRow(r, ask[p].key),
             runs' = [runs EXCEPT ![r] = [key |-> ask[p].key, world |-> world[p]]]
      PROVE  KeyOnce'
  <2>1. \A x \in RunIDs : runs'[x] = IF x = r THEN [key |-> ask[p].key, world |-> world[p]] ELSE runs[x]
    BY <1>1, <1>2 DEF TypeOK
  <2>2. \A x \in RunIDs : runs[x] # Nobody => runs[x].key # ask[p].key
    BY <1>2 DEF FreeRow, RowsOf
  <2> QED
    BY <1>1, <2>1, <2>2 DEF KeyOnce
<1>3. CASE UNCHANGED runs
  BY <1>1, <1>3 DEF KeyOnce
<1> QED
  BY <1>2, <1>3, RowsNext

\* A world that is complete stays so, and no other becomes that of a run.
LEMMA CompleteKept ==
    ASSUME StartInv, [Next]_vars, NEW r \in RunIDs, Complete(journal[r], runs[r].world), runs[r] # Nobody
    PROVE  Complete(journal'[r], runs[r].world)
<1>1. Grows /\ journal[r] \in Seq(Events) /\ journal[r] # <<>>
  BY JournalGrows, RowTypes DEF StartInv, Complete
<1>2. CASE Kept(r)
  BY <1>2 DEF Kept
<1>3. ASSUME NEW e \in Events, Continues(r, e), journal'[r] = Append(journal[r], e)
      PROVE  Complete(journal'[r], runs[r].world)
  <2>1. e.kind # "chunk"
    BY <1>1, <1>3 DEF Continues
  <2>2. ScheduleLength(Append(journal[r], e)) = ScheduleLength(journal[r])
    BY <1>1, <2>1, ScheduleAppend
  <2>3. Append(journal[r], e) # <<>>
    BY <1>1
  <2> QED
    BY <1>3, <2>2, <2>3 DEF Complete
<1> QED
  BY <1>1, <1>2, <1>3 DEF Grows

LEMMA OwnNext ==
    ASSUME StartInv, [Next]_vars
    PROVE  OwnWorldOnce'
<1> DEFINE Own(j, r) == j # <<>> =>
        /\ runs[r] # Nobody
        /\ j[1] = Created(runs[r].world) /\ Places(j, "created") = {1}
        /\ HoldsSchedule(j, runs[r].world)
<1>1. TypeOK /\ Grows /\ \A r \in RunIDs : Own(journal[r], r) /\ journal[r] \in Seq(Events)
  BY JournalGrows, RowTypes DEF StartInv, OwnWorldOnce
<1>2. ASSUME NEW r \in RunIDs, NEW e \in Events, Continues(r, e) PROVE Own(Append(journal[r], e), r)
  <2> DEFINE j == journal[r]
  <2>0. j \in Seq(Events)
    BY <1>1
  <2> HIDE DEF j
  <2>1. CASE e.kind \in {"time", "credential"} /\ j # <<>>
    <3>1. Own(j, r) /\ runs[r] # Nobody
      BY <1>1, <1>2 DEF Continues, j
    <3>2. Append(j, e)[1] = j[1]
      BY <2>0, <2>1
    <3>3. Places(Append(j, e), "created") = Places(j, "created")
      <4>1. e.kind # "created"
        BY <2>1
      <4> QED
        BY <2>0, <4>1, OtherPlaces
    <3>4. HoldsSchedule(Append(j, e), runs[r].world)
      BY <2>0, <2>1, <3>1, ScheduleHeld
    <3> QED
      BY <2>1, <3>1, <3>2, <3>3, <3>4 DEF j
  <2>2. CASE e = Created(runs[r].world) /\ j = <<>>
    <3>1. Append(j, e) = <<e>> /\ e.kind = "created" /\ Append(j, e)[1] = e
      BY <2>2 DEF Created, Event
    <3>2. Places(Append(j, e), "created") = {1}
      BY <3>1 DEF Places
    <3>3. HoldsSchedule(j, runs[r].world)
      BY <2>2 DEF HoldsSchedule, Places
    <3>4. HoldsSchedule(Append(j, e), runs[r].world)
      BY <2>0, <3>1, <3>3, ScheduleHeld
    <3> QED
      BY <1>2, <2>2, <3>1, <3>2, <3>4 DEF Continues, j
  <2>3. CASE e = Chunk(runs[r].world, ScheduleLength(j) + 1) /\ j # <<>>
    <3>1. Own(j, r) /\ runs[r] # Nobody
      BY <1>1, <1>2 DEF Continues, j
    <3>2. Append(j, e)[1] = j[1]
      BY <2>0, <2>3
    <3>3. e.kind = "chunk"
      BY <2>3 DEF Chunk, Event
    <3>4. Places(Append(j, e), "created") = Places(j, "created")
      <4>1. e.kind # "created"
        BY <3>3
      <4> QED
        BY <2>0, <4>1, OtherPlaces
    <3>5. HoldsSchedule(Append(j, e), runs[r].world)
      BY <2>0, <2>3, <3>1, ScheduleHeld
    <3> QED
      BY <2>3, <3>1, <3>2, <3>4, <3>5 DEF j
  <2> QED
    BY <1>2, <2>1, <2>2, <2>3 DEF Continues, j
<1>3. \A r \in RunIDs : Own(journal'[r], r)
  <2> SUFFICES ASSUME NEW r \in RunIDs PROVE Own(journal'[r], r)
    OBVIOUS
  <2>1. CASE Kept(r)
    BY <1>1, <2>1 DEF Kept
  <2>2. ASSUME NEW e \in Events, Continues(r, e), journal'[r] = Append(journal[r], e)
        PROVE  Own(journal'[r], r)
    <3>1. Own(Append(journal[r], e), r)
      BY <1>2, <2>2
    <3> QED
      BY <2>2, <3>1
  <2> QED
    BY <1>1, <2>1, <2>2 DEF Grows
<1>4. \A r \in RunIDs : runs[r] # Nobody => runs'[r] = runs[r]
  BY <1>1, RowKept
<1>5. ASSUME NEW r \in RunIDs, journal'[r] # <<>>
      PROVE  /\ runs'[r] # Nobody /\ journal'[r][1] = Created(runs'[r].world)
             /\ Places(journal'[r], "created") = {1} /\ HoldsSchedule(journal'[r], runs'[r].world)
  BY <1>3, <1>4, <1>5
<1> QED
  BY <1>5 DEF OwnWorldOnce, Places, HoldsSchedule, Created, Chunk, Event, ScheduleLength

(***************************************************************************)
(* The starts under way.                                                   *)
(***************************************************************************)
Mine(p) == <<pc[p], ask[p], run[p], world[p], seen[p], access[p]>>

\* What a start knows stays true under the steps of others.
LEMMA CallKept ==
    ASSUME StartInv, [Next]_vars, NEW p \in Callers, UNCHANGED Mine(p), UNCHANGED profile
    PROVE  CallOK(p)'
<1>1. /\ pc'[p] = pc[p] /\ ask'[p] = ask[p] /\ run'[p] = run[p]
      /\ world'[p] = world[p] /\ seen'[p] = seen[p] /\ access'[p] = access[p]
  BY DEF Mine
<1>2. TypeOK /\ CallOK(p) /\ Grows
  BY JournalGrows DEF StartInv, CallInv
<1>3. ASSUME pc[p] = "resume" PROVE run[p] \in RunIDs /\ runs'[run[p]] # Nobody /\ runs'[run[p]].key = ask[p].key
  <2>1. run[p] \in RunIDs /\ runs[run[p]] # Nobody /\ runs[run[p]].key = ask[p].key
    BY <1>2, <1>3 DEF CallOK, RowsOf
  <2> QED
    BY <1>2, <2>1, RowKept
<1>4. ASSUME pc[p] \in Bound PROVE OnItsRow(p)'
  <2>1. runs[run[p]] # Nobody /\ run[p] \in RunIDs
    BY <1>2, <1>4, RowTypes DEF CallOK, OnItsRow
  <2> QED
    BY <1>1, <1>2, <1>4, <2>1, RowKept DEF CallOK, OnItsRow
<1>5. ASSUME pc[p] = "append" PROVE Writes(p)'
  <2>1. run[p] \in RunIDs /\ Writes(p) /\ seen[p] \in Nat
    BY <1>2, <1>5 DEF CallOK, Bound, OnItsRow, TypeOK
  <2>2. journal[run[p]] \in Seq(Events)
    BY <1>2, <2>1, RowTypes
  <2>3. /\ Len(journal[run[p]]) <= Len(journal'[run[p]])
        /\ SubSeq(journal'[run[p]], 1, seen[p]) = SubSeq(journal[run[p]], 1, seen[p])
    <3>1. CASE Kept(run[p])
      BY <2>2, <3>1 DEF Kept
    <3>2. ASSUME NEW e \in Events, journal'[run[p]] = Append(journal[run[p]], e)
          PROVE  /\ Len(journal[run[p]]) <= Len(journal'[run[p]])
                 /\ SubSeq(journal'[run[p]], 1, seen[p]) = SubSeq(journal[run[p]], 1, seen[p])
      <4>1. seen[p] <= Len(journal[run[p]])
        BY <2>1 DEF Writes
      <4>2. CASE seen[p] = 0
        BY <2>2, <3>2, <4>2, SubSeqEmpty
      <4>3. CASE seen[p] \in 1..Len(journal[run[p]])
        BY <2>2, <3>2, <4>3, PrefixAppend
      <4>4. Len(Append(journal[run[p]], e)) = Len(journal[run[p]]) + 1
        BY <2>2
      <4>5. Len(journal[run[p]]) <= Len(journal'[run[p]])
        BY <2>2, <3>2, <4>4
      <4> QED
        BY <2>1, <2>2, <4>1, <4>2, <4>3, <4>5
    <3> QED
      BY <1>2, <2>1, <3>1, <3>2 DEF Grows
  <2>4. State(p)' = State(p)
    BY <1>1, <2>3 DEF State
  <2>5. journal'[run[p]] \in Seq(Events)
    BY <2>1, TypeNext, RowTypes DEF TypeOK
  <2>6. seen'[p] <= Len(journal'[run'[p]])
    <3>1. seen[p] <= Len(journal[run[p]])
      BY <2>1 DEF Writes
    <3> QED
      BY <1>1, <2>1, <2>2, <2>3, <2>5, <3>1
  <2>7. ~Complete(State(p), world[p])
    BY <2>1 DEF Writes
  <2> QED
    BY <1>1, <2>4, <2>6, <2>7 DEF Writes, Complete, ScheduleLength, Places
<1>6. ASSUME pc[p] \in {"panel", "draw", "servers"} PROVE Complete(journal'[run[p]], world[p])
  <2>1. pc[p] \in Bound /\ run[p] \in RunIDs
    BY <1>2, <1>6 DEF CallOK, Bound, OnItsRow
  <2>2. runs[run[p]] # Nobody /\ runs[run[p]].world = world[p]
    BY <1>2, <2>1, RowTypes
  <2> QED
    BY <1>2, <1>6, <2>1, <2>2, CompleteKept DEF CallOK
<1>7. ASSUME pc[p] = "servers" PROVE access[p] \in Accesses /\ panel'[run[p]] = access[p]
  <2>1. run[p] \in RunIDs /\ access[p] \in Accesses /\ panel[run[p]] = access[p]
    BY <1>2, <1>7 DEF CallOK, Bound, OnItsRow
  <2>2. panel[run[p]] # Nobody
    BY <2>1, StartAssumption
  <2> QED
    BY <1>2, <2>1, <2>2, PanelKept
<1>8. pc[p] # "idle" => Asks(p)'
  BY <1>1, <1>2 DEF CallOK, Asks
<1>9. pc[p] \in {"row", "taken"} => world[p] = WorldOf(ask[p].seed, profile)'
  BY <1>1, <1>2 DEF CallOK, WorldOf
<1>10. pc[p] \in {"panel", "draw", "servers"} => Complete(journal[run[p]], world[p])'
  BY <1>1, <1>6 DEF Complete, ScheduleLength, Places
<1>11. pc[p] = "resume" => (run[p] \in RowsOf(ask[p].key))'
  BY <1>1, <1>3 DEF RowsOf
<1> QED
  BY <1>1, <1>4, <1>5, <1>7, <1>8, <1>9, <1>10, <1>11 DEF CallOK

\* A step of a start is not one of another.
LEMMA StepMine ==
    ASSUME TypeOK, NEW p \in Callers, NEW c \in Callers, c # p,
           Step(p) \/ Fail(p) \/ \E a \in Asked : Call(p, a[1], a[2])
    PROVE  UNCHANGED Mine(c) /\ UNCHANGED profile
<1>1. CASE Step(p) /\ ~AppendWorld(p) /\ ~AnswerStart(p)
  BY <1>1 DEF Step, FindWorld, CreateRun, Taken, Found, Resume, LoadJournal, Conflict, ReadAccess,
     DrawAccess, Goto, TypeOK, Mine, catalog
<1>2. CASE AppendWorld(p)
  BY <1>2 DEF AppendWorld, Back, Goto, TypeOK, Mine, catalog
<1>3. CASE AnswerStart(p) \/ Fail(p)
  BY <1>3 DEF AnswerStart, Fail, Back, Goto, TypeOK, Mine, catalog
<1>4. CASE \E a \in Asked : Call(p, a[1], a[2])
  BY <1>4 DEF Call, Found, Goto, TypeOK, Mine, catalog
<1> QED
  BY <1>1, <1>2, <1>3, <1>4

LEMMA CallIdle ==
    ASSUME NEW p \in Callers, pc'[p] = "idle"
    PROVE  CallOK(p)'
BY DEF CallOK, Bound

\* What a start has at its row and after.
LEMMA OnRowNext ==
    ASSUME StartInv, [Next]_vars, NEW p \in Callers, pc[p] \in Bound,
           ask'[p] = ask[p], run'[p] = run[p], world'[p] = world[p]
    PROVE  Asks(p)' /\ OnItsRow(p)'
<1>1. TypeOK /\ CallOK(p)
  BY DEF StartInv, CallInv
<1>2. Asks(p) /\ OnItsRow(p)
  BY <1>1 DEF CallOK, Bound
<1>3. run[p] \in RunIDs /\ runs[run[p]] # Nobody
  BY <1>1, <1>2, RowTypes DEF OnItsRow
<1>4. runs'[run[p]] = runs[run[p]]
  BY <1>1, <1>3, RowKept
<1> QED
  BY <1>2, <1>4 DEF Asks, OnItsRow

LEMMA CallWorld ==
    ASSUME StartInv, [Next]_vars, NEW p \in Callers, FindWorld(p) \/ Taken(p) \/ CreateRun(p)
    PROVE  CallOK(p)'
<1>1. TypeOK /\ CallOK(p) /\ TypeOK'
  BY TypeNext DEF StartInv, CallInv
<1>2. Asks(p) /\ Asks(p)' /\ UNCHANGED <<profile, ask>>
  BY <1>1 DEF FindWorld, Taken, CreateRun, CallOK, Asks
<1>3. CASE FindWorld(p)
  <2>1. pc'[p] = "row" /\ world'[p] = WorldOf(ask[p].seed, profile)
    BY <1>1, <1>3 DEF FindWorld, Goto, TypeOK
  <2> QED
    BY <1>2, <2>1 DEF CallOK, Bound, WorldOf
<1>4. CASE Taken(p)
  <2>1. pc[p] = "taken" /\ world' = world /\ runs' = runs
    BY <1>4 DEF Taken, catalog
  <2>2. \/ pc'[p] = "row"
        \/ pc'[p] = "resume" /\ \E r \in RowsOf(ask[p].key) : run'[p] = r
    BY <1>1, <1>4 DEF Taken, Found, Goto, TypeOK
  <2>3. world[p] = WorldOf(ask[p].seed, profile)
    BY <1>1, <2>1 DEF CallOK
  <2>4. pc'[p] = "resume" => (run[p] \in RowsOf(ask[p].key))'
    BY <1>2, <2>1, <2>2 DEF RowsOf
  <2> QED
    BY <1>2, <2>1, <2>2, <2>3, <2>4 DEF CallOK, Bound, WorldOf
<1>5. CASE CreateRun(p)
  <2>1. PICK r \in RunIDs :
           IF FreeRow(r, ask[p].key)
             THEN /\ runs' = [runs EXCEPT ![r] = [key |-> ask[p].key, world |-> world[p]]]
                  /\ run' = [run EXCEPT ![p] = r]
                  /\ Goto(p, "load")
             ELSE /\ Goto(p, "taken")
                  /\ UNCHANGED <<runs, run>>
    BY <1>5 DEF CreateRun
  <2>2. world[p] = WorldOf(ask[p].seed, profile) /\ world' = world
    BY <1>1, <1>5 DEF CreateRun, CallOK
  <2>3. CASE FreeRow(r, ask[p].key)
    <3>1. pc'[p] = "load" /\ run'[p] = r /\ runs'[r] = [key |-> ask[p].key, world |-> world[p]]
      BY <1>1, <2>1, <2>3 DEF Goto, TypeOK
    <3>2. ask[p].seed \in Seeds /\ profile \in Profiles
      BY <1>1, <1>2 DEF Asks, TypeOK
    <3>3. world[p] \in Worlds /\ world[p][1] = ask[p].seed
      BY <2>2, <3>2, WorldTypes
    <3> QED
      BY <1>2, <2>2, <3>1, <3>3 DEF CallOK, OnItsRow, Bound
  <2>4. CASE ~FreeRow(r, ask[p].key)
    <3>1. pc'[p] = "taken"
      BY <1>1, <2>1, <2>4 DEF Goto, TypeOK
    <3> QED
      BY <1>2, <2>2, <3>1 DEF CallOK, Bound, WorldOf
  <2> QED
    BY <2>3, <2>4
<1> QED
  BY <1>3, <1>4, <1>5

LEMMA CallResume ==
    ASSUME StartInv, [Next]_vars, NEW p \in Callers, Resume(p)
    PROVE  CallOK(p)'
<1>1. TypeOK /\ CallOK(p) /\ pc[p] = "resume" /\ UNCHANGED <<runs, run, ask>>
  BY DEF StartInv, CallInv, Resume
<1>2. Asks(p) /\ run[p] \in RunIDs /\ runs[run[p]] # Nobody /\ runs[run[p]].key = ask[p].key
  BY <1>1 DEF CallOK, RowsOf
<1> DEFINE w == runs[run[p]].world
<1>3. runs[run[p]] = [key |-> ask[p].key, world |-> w] /\ w \in Worlds /\ profile \in Profiles
  BY <1>1, <1>2 DEF TypeOK
<1>4. w[1] = ask[p].seed /\ (w[1] \in Generated => WorldOf(w[1], profile) = w)
  BY DEF Resume, MayResume
<1>5. WorldOf(w[1], profile) = w
  BY <1>3, <1>4, WorldTypes
<1>6. pc'[p] = "load" /\ world'[p] = WorldOf(w[1], profile)
  BY <1>1 DEF Resume, Goto, TypeOK
<1>7. world'[p] = w
  BY <1>5, <1>6
<1> HIDE DEF w
<1> QED
  BY <1>1, <1>2, <1>3, <1>4, <1>6, <1>7 DEF CallOK, OnItsRow, Bound, Asks

LEMMA CallJournal ==
    ASSUME StartInv, [Next]_vars, NEW p \in Callers, LoadJournal(p) \/ AppendWorld(p) \/ Conflict(p)
    PROVE  CallOK(p)'
<1>1. TypeOK /\ TypeOK' /\ CallOK(p)
  BY TypeNext DEF StartInv, CallInv
<1>2. pc[p] \in Bound /\ run[p] \in RunIDs
  BY <1>1 DEF LoadJournal, AppendWorld, Conflict, Bound, CallOK, OnItsRow
<1>3. journal[run[p]] \in Seq(Events) /\ journal'[run[p]] \in Seq(Events)
  BY <1>1, <1>2 DEF TypeOK
<1>4. CASE LoadJournal(p)
  <2>1. /\ UNCHANGED <<ask, run, world, journal>> /\ seen'[p] = Len(journal[run[p]])
        /\ pc'[p] = IF Complete(journal[run[p]], world[p]) THEN "panel" ELSE "append"
    BY <1>1, <1>4 DEF LoadJournal, Goto, TypeOK
  <2>2. State(p)' = journal[run[p]]
    BY <1>3, <2>1, SubSeqFull DEF State
  <2>3. Asks(p)' /\ OnItsRow(p)'
    BY <1>2, <2>1, OnRowNext
  <2>4. pc'[p] = "append" => Writes(p)'
    BY <1>3, <2>1, <2>2 DEF Writes, Complete, ScheduleLength, Places
  <2>5. pc'[p] = "panel" => Complete(journal[run[p]], world[p])'
    BY <2>1 DEF Complete, ScheduleLength, Places
  <2> QED
    BY <2>1, <2>3, <2>4, <2>5 DEF CallOK
<1>5. CASE Conflict(p)
  <2>1. UNCHANGED <<ask, run, world>> /\ pc'[p] = "load"
    BY <1>1, <1>5 DEF Conflict, Goto, TypeOK
  <2> QED
    BY <1>2, <2>1, OnRowNext DEF CallOK
<1>6. CASE AppendWorld(p) /\ pc'[p] # "idle"
  <2> DEFINE t == Append(journal[run[p]], NextEvent(p))
  <2>1. /\ UNCHANGED <<ask, run, world>> /\ seen' = [seen EXCEPT ![p] = @ + 1]
        /\ Goto(p, IF Complete(Append(State(p), NextEvent(p)), world[p]) THEN "panel" ELSE "append")
    <3>1. ~Back(p)
      BY <1>1, <1>6 DEF Back, Goto, TypeOK
    <3> QED
      BY <1>6, <3>1 DEF AppendWorld
  <2>2. State(p) = journal[run[p]] /\ journal'[run[p]] = t /\ NextEvent(p) \in Events
    BY <1>1, <1>2, <1>6, AppendsNext DEF Continues, TypeOK
  <2>3. seen'[p] = Len(journal[run[p]]) + 1
    BY <1>1, <1>6, <2>1 DEF AppendWorld, Uncontested, TypeOK
  <2>4. pc'[p] = IF Complete(t, world[p]) THEN "panel" ELSE "append"
    BY <1>1, <2>1, <2>2 DEF Goto, TypeOK
  <2>5. Len(t) = Len(journal[run[p]]) + 1 /\ SubSeq(t, 1, Len(journal[run[p]]) + 1) = t
    BY <1>3, <2>2, PrefixAppend
  <2>6. t \in Seq(Events) /\ Len(t) \in Nat
    BY <1>3, <2>2
  <2> HIDE DEF t
  <2>7. State(p)' = t /\ seen'[p] <= Len(journal'[run'[p]]) /\ world'[p] = world[p] /\ run'[p] = run[p]
    BY <2>1, <2>2, <2>3, <2>5, <2>6 DEF State
  <2>8. Asks(p)' /\ OnItsRow(p)'
    BY <1>2, <2>1, OnRowNext
  <2>9. pc'[p] = "append" => Writes(p)'
    BY <2>4, <2>7 DEF Writes, Complete, ScheduleLength, Places
  <2>10. pc'[p] = "panel" => Complete(journal[run[p]], world[p])'
    BY <2>2, <2>4, <2>7 DEF Complete, ScheduleLength, Places
  <2> QED
    BY <2>4, <2>8, <2>9, <2>10 DEF CallOK
<1> QED
  BY <1>4, <1>5, <1>6, CallIdle

LEMMA CallPanel ==
    ASSUME StartInv, [Next]_vars, NEW p \in Callers, ReadAccess(p) \/ DrawAccess(p)
    PROVE  CallOK(p)'
<1>1. TypeOK /\ TypeOK' /\ CallOK(p)
  BY TypeNext DEF StartInv, CallInv
<1>2. /\ pc[p] \in {"panel", "draw"} /\ pc[p] \in Bound /\ run[p] \in RunIDs
      /\ UNCHANGED <<journal, ask, run, world>>
  BY <1>1 DEF ReadAccess, DrawAccess, Bound, CallOK, OnItsRow
<1>3. Complete(journal[run[p]], world[p])'
  BY <1>1, <1>2 DEF CallOK, Complete, ScheduleLength, Places
<1>4. Asks(p)' /\ OnItsRow(p)'
  BY <1>2, OnRowNext
<1>5. panel[run[p]] \in {Nobody} \cup Accesses
  BY <1>1, <1>2 DEF TypeOK
<1>6. pc'[p] = "draw" \/ (pc'[p] = "servers" /\ access'[p] \in Accesses /\ panel'[run[p]] = access'[p])
  <2>1. CASE ReadAccess(p) /\ panel[run[p]] = Nobody
    BY <1>1, <2>1 DEF ReadAccess, Goto, TypeOK
  <2>2. CASE ReadAccess(p) /\ panel[run[p]] # Nobody
    BY <1>1, <1>5, <2>2 DEF ReadAccess, Goto, TypeOK, catalog
  <2>3. CASE DrawAccess(p)
    <3>1. PICK a \in Accesses :
            /\ panel' = [panel EXCEPT ![run[p]] = Inserted(@, a)]
            /\ access' = [access EXCEPT ![p] = panel'[run[p]]]
      BY <2>3 DEF DrawAccess
    <3>2. panel'[run[p]] \in Accesses
      BY <1>1, <1>2, <1>5, <3>1, StartAssumption DEF Inserted, TypeOK
    <3>3. pc'[p] = "servers"
      BY <1>1, <2>3 DEF DrawAccess, Goto, TypeOK
    <3> QED
      BY <1>1, <3>1, <3>2, <3>3 DEF TypeOK
  <2> QED
    BY <2>1, <2>2, <2>3
<1>7. (panel[run[p]] = access[p])' <=> panel'[run[p]] = access'[p]
  BY <1>2
<1> QED
  BY <1>3, <1>4, <1>6, <1>7 DEF CallOK

LEMMA CallNext ==
    ASSUME StartInv, [Next]_vars
    PROVE  CallInv'
<1>1. TypeOK
  BY DEF StartInv
<1>2. ASSUME NEW p \in Callers, CallOK(p)',
             Step(p) \/ Fail(p) \/ \E a \in Asked : Call(p, a[1], a[2])
      PROVE  CallInv'
  <2>1. ASSUME NEW c \in Callers PROVE CallOK(c)'
    <3>1. CASE c = p
      BY <1>2, <3>1
    <3>2. CASE c # p
      <4>1. UNCHANGED Mine(c) /\ UNCHANGED profile
        BY <1>1, <1>2, <3>2, StepMine
      <4> QED
        BY <4>1, CallKept
    <3> QED
      BY <3>1, <3>2
  <2> QED
    BY <2>1 DEF CallInv
<1>3. ASSUME NEW p \in Callers, Step(p) PROVE CallOK(p)'
  <2>1. CASE AnswerStart(p)
    <3>1. pc'[p] = "idle"
      BY <1>1, <2>1 DEF AnswerStart, Back, Goto, TypeOK
    <3> QED
      BY <3>1, CallIdle
  <2> QED
    BY <1>3, <2>1, CallWorld, CallResume, CallJournal, CallPanel DEF Step
<1>4. ASSUME NEW p \in Callers, Fail(p) PROVE CallOK(p)'
  <2>1. pc'[p] = "idle"
    BY <1>1, <1>4 DEF Fail, Back, Goto, TypeOK
  <2> QED
    BY <2>1, CallIdle
<1>5. ASSUME NEW p \in Callers, NEW a \in Asked, Call(p, a[1], a[2]) PROVE CallOK(p)'
  <2>1. a[1] \in Keys /\ a[2] \in Seeds
    BY StartAssumption
  <2>2. ask'[p] = [key |-> a[1], seed |-> a[2]] /\ runs' = runs
    BY <1>1, <1>5 DEF Call, TypeOK, catalog
  <2>3. pc'[p] = "world" \/ (pc'[p] = "resume" /\ run'[p] \in RowsOf(a[1]))
    BY <1>1, <1>5 DEF Call, Found, Goto, TypeOK
  <2>4. pc'[p] = "resume" => (run[p] \in RowsOf(ask[p].key))'
    BY <2>2, <2>3 DEF RowsOf
  <2> QED
    BY <2>1, <2>2, <2>3, <2>4 DEF CallOK, Asks, Bound
<1>6. ASSUME \A p \in Callers : UNCHANGED Mine(p), UNCHANGED profile PROVE CallInv'
  BY <1>6, CallKept DEF CallInv
<1>7. CASE (\E s \in Manual : Register(s)) \/ (\E r \in RunIDs : Request(r)) \/ UNCHANGED vars
  BY <1>6, <1>7 DEF Register, Request, vars, locals, Mine
<1>8. CASE \E q \in Profiles : Restart(q)
  BY <1>8, CallIdle DEF Restart, CallInv
<1> QED
  BY <1>2, <1>3, <1>4, <1>5, <1>7, <1>8 DEF Next

LEMMA StartNext == StartInv /\ [Next]_vars => StartInv'
BY TypeNext, KeyNext, CallNext, OwnNext DEF StartInv

(***************************************************************************)
(* For any callers, keys, profiles and restarts, a journal begins with the *)
(* world of its row, created once, and continues with the parts of that    *)
(* world's schedule, each once and in order: resumeStart refuses a changed *)
(* generator and the version check of Append a second writer.              *)
(***************************************************************************)
THEOREM JournalHoldsItsWorld == Spec => [](TypeOK /\ OwnWorldOnce)
<1>1. StartInv => TypeOK /\ OwnWorldOnce
  BY DEF StartInv
<1> QED
  BY <1>1, StartInit, StartNext, PTL DEF Spec

(***************************************************************************)
(* StartOnce.  The row of a key is what the abstract service has bound,    *)
(* and each step makes at most one of its moves.                           *)
(***************************************************************************)
LEMMA BindingOf ==
    ASSUME TypeOK, KeyOnce, NEW k \in Keys
    PROVE  /\ RowsOf(k) = {} => Bindings[k] = Nobody
           /\ \A r \in RowsOf(k) :
                Bindings[k] = [run |-> r, seed |-> runs[r].world[1]] /\ Bindings[k] # Nobody
<1>1. ASSUME NEW r \in RowsOf(k)
      PROVE  Bindings[k] = [run |-> r, seed |-> runs[r].world[1]] /\ Bindings[k] # Nobody
  <2>1. RowsOf(k) = {r}
    BY DEF RowsOf, KeyOnce
  <2>2. (CHOOSE x \in RowsOf(k) : TRUE) = r
    BY <2>1
  <2>3. r \in RunIDs /\ runs[r].world[1] \in Seeds
    BY RowTypes, WorldTypes DEF RowsOf
  <2>4. Bindings[k] = [run |-> r, seed |-> runs[r].world[1]]
    BY <2>1, <2>2 DEF Bindings
  <2>5. Bindings[k] \in [run : RunIDs, seed : Seeds]
    BY <2>3, <2>4
  <2> QED
    BY <2>4, <2>5, StartAssumption
<1> QED
  BY <1>1 DEF Bindings

LEMMA BoundRunsAre ==
    ASSUME TypeOK, KeyOnce
    PROVE  Once!BoundRuns = {r \in RunIDs : runs[r] # Nobody}
<1>1. ASSUME NEW r \in Once!BoundRuns PROVE r \in RunIDs /\ runs[r] # Nobody
  <2>1. PICK k \in Keys : Bindings[k] # Nobody /\ r = Bindings[k].run
    BY DEF Once!BoundRuns
  <2>2. PICK x \in RowsOf(k) : Bindings[k] = [run |-> x, seed |-> runs[x].world[1]]
    BY <2>1, BindingOf
  <2> QED
    BY <2>1, <2>2 DEF RowsOf
<1>2. ASSUME NEW r \in RunIDs, runs[r] # Nobody PROVE r \in Once!BoundRuns
  <2>1. runs[r].key \in Keys /\ r \in RowsOf(runs[r].key)
    BY <1>2, RowTypes DEF RowsOf
  <2>2. Bindings[runs[r].key] = [run |-> r, seed |-> runs[r].world[1]] /\ Bindings[runs[r].key] # Nobody
    BY <2>1, BindingOf
  <2> QED
    BY <2>1, <2>2 DEF Once!BoundRuns
<1> QED
  BY <1>1, <1>2

LEMMA BindingsKept ==
    ASSUME UNCHANGED runs
    PROVE  Bindings' = Bindings
BY DEF Bindings, RowsOf

LEMMA ReadyKept ==
    ASSUME TypeOK, UNCHANGED runs,
           \A r \in RunIDs : Kept(r) \/ \E e \in Events :
              e.kind # "chunk" /\ journal[r] # <<>> /\ journal'[r] = Append(journal[r], e)
    PROVE  ReadyRuns' = ReadyRuns
<1>1. ASSUME NEW r \in RunIDs
      PROVE  /\ ScheduleLength(journal'[r]) = ScheduleLength(journal[r])
             /\ journal'[r] = <<>> <=> journal[r] = <<>>
  <2>1. journal[r] \in Seq(Events)
    BY DEF TypeOK
  <2>2. CASE Kept(r)
    BY <2>2 DEF Kept
  <2>3. ASSUME NEW e \in Events, e.kind # "chunk", journal[r] # <<>>, journal'[r] = Append(journal[r], e)
        PROVE  /\ ScheduleLength(journal'[r]) = ScheduleLength(journal[r])
               /\ journal'[r] # <<>>
    <3>1. ScheduleLength(Append(journal[r], e)) = ScheduleLength(journal[r])
      BY <2>1, <2>3, ScheduleAppend
    <3>2. Append(journal[r], e) # <<>>
      BY <2>1
    <3> QED
      BY <2>3, <3>1, <3>2
  <2> QED
    BY <2>2, <2>3
<1>2. \A r \in RunIDs : Complete(journal'[r], runs[r].world) <=> Complete(journal[r], runs[r].world)
  BY <1>1 DEF Complete
<1>3. ReadyRuns' = {r \in RunIDs : runs[r] # Nobody /\ Complete(journal'[r], runs[r].world)}
  BY DEF ReadyRuns, Complete, ScheduleLength, Places
<1> QED
  BY <1>2, <1>3 DEF ReadyRuns

\* CreateRun binds the key; an identifier or key that is taken changes nothing.
LEMMA CreateBinds ==
    ASSUME StartInv, [Next]_vars, NEW p \in Callers, CreateRun(p)
    PROVE  OnceStep
<1>0. /\ TypeOK /\ KeyOnce /\ CallOK(p) /\ TypeOK' /\ KeyOnce' /\ pc[p] = "row"
      /\ UNCHANGED <<panel, journal, answer>>
  BY TypeNext, KeyNext DEF StartInv, CallInv, CreateRun
<1>1. CASE UNCHANGED runs
  <2>1. Bindings' = Bindings
    BY <1>1, BindingsKept
  <2>2. ReadyRuns' = ReadyRuns
    BY <1>0, <1>1 DEF ReadyRuns, Complete, ScheduleLength, Places
  <2> QED
    BY <1>0, <2>1, <2>2 DEF OnceStep, Once!vars
<1>2. ASSUME NEW r \in RunIDs, FreeRow(r, ask[p].key),
             runs' = [runs EXCEPT ![r] = [key |-> ask[p].key, world |-> world[p]]]
      PROVE  OnceStep
  <2> DEFINE k == ask[p].key
             s == ask[p].seed
  <2>1. k \in Keys /\ s \in Seeds /\ world[p] \in Worlds /\ world[p][1] = s
    BY <1>0, WorldTypes DEF CallOK, Asks, TypeOK
  <2>2. runs[r] = Nobody /\ RowsOf(k) = {}
    BY <1>2 DEF FreeRow
  <2>3. \A x \in RunIDs : runs'[x] = IF x = r THEN [key |-> k, world |-> world[p]] ELSE runs[x]
    BY <1>0, <1>2 DEF TypeOK
  <2>4. runs'[r] # Nobody
    <3>1. [key |-> k, world |-> world[p]] \in [key : Keys, world : Worlds]
      BY <2>1
    <3> QED
      BY <2>3, <3>1, StartAssumption
  <2> HIDE DEF k, s
  <2>5. RowsOf(k)' = {r} /\ \A x \in Keys : x # k => RowsOf(x)' = RowsOf(x)
    <3>1. RowsOf(k)' = {x \in RunIDs : runs'[x] # Nobody /\ runs'[x].key = k}
      BY <1>0 DEF RowsOf, k, CreateRun
    <3>2. RowsOf(k)' = {r}
      BY <2>2, <2>3, <2>4, <3>1 DEF RowsOf
    <3>3. ASSUME NEW x \in Keys, x # k PROVE RowsOf(x)' = RowsOf(x)
      <4>1. RowsOf(x)' = {y \in RunIDs : runs'[y] # Nobody /\ runs'[y].key = x}
        BY DEF RowsOf
      <4> QED
        BY <2>2, <2>3, <2>4, <3>3, <4>1 DEF RowsOf
    <3> QED
      BY <3>2, <3>3
  <2>6. Bindings[k] = Nobody /\ r \notin Once!BoundRuns
    BY <1>0, <2>1, <2>2, BindingOf, BoundRunsAre
  <2>7. Bindings' = [Bindings EXCEPT ![k] = [run |-> r, seed |-> s]]
    <3>1. Bindings' = [x \in Keys |-> Bindings'[x]] /\ Bindings = [x \in Keys |-> Bindings[x]]
      BY DEF Bindings
    <3>2. Bindings'[k] = [run |-> r, seed |-> s]
      <4>1. Bindings'[k] = [run |-> r, seed |-> runs'[r].world[1]]
        <5>1. (CHOOSE y \in {r} : TRUE) = r
          OBVIOUS
        <5>2. \A x \in Keys : RowsOf(x)' = {r} => Bindings'[x] = [run |-> r, seed |-> runs'[r].world[1]]
          BY <5>1 DEF Bindings
        <5>3. RowsOf(k)' = {y \in RunIDs : runs'[y] # Nobody /\ runs'[y].key = k}
          BY <1>0 DEF RowsOf, k, CreateRun
        <5>4. \A x \in Keys : RowsOf(x)' = {y \in RunIDs : runs'[y] # Nobody /\ runs'[y].key = x}
          BY DEF RowsOf
        <5> QED
          BY <2>1, <2>5, <5>2, <5>3, <5>4
      <4> QED
        BY <2>1, <2>3, <4>1
    <3>3. ASSUME NEW x \in Keys, x # k PROVE Bindings'[x] = Bindings[x]
      <4>1. \A y \in RowsOf(x) : runs'[y] = runs[y]
        BY <2>2, <2>3 DEF RowsOf
      <4>2. RowsOf(x)' = RowsOf(x)
        BY <2>5, <3>3
      <4>3. Bindings'[x] = IF RowsOf(x)' = {} THEN Nobody
                           ELSE LET y == CHOOSE z \in RowsOf(x)' : TRUE
                                IN  [run |-> y, seed |-> runs'[y].world[1]]
        BY DEF Bindings
      <4> QED
        BY <4>1, <4>2, <4>3 DEF Bindings
    <3> QED
      BY <2>1, <3>1, <3>2, <3>3
  <2>8. ReadyRuns' = ReadyRuns
    <3>1. journal[r] = <<>>
      BY <2>2 DEF StartInv, OwnWorldOnce
    <3>2. ReadyRuns' = {x \in RunIDs : runs'[x] # Nobody /\ Complete(journal[x], runs'[x].world)}
      BY <1>0 DEF ReadyRuns, Complete, ScheduleLength, Places
    <3>3. \A w : ~Complete(journal[r], w)
      BY <3>1 DEF Complete
    <3> QED
      BY <2>3, <3>2, <3>3 DEF ReadyRuns
  <2>9. Once!Bind(k, s, r)
    BY <1>0, <2>6, <2>7, <2>8 DEF Once!Bind
  <2> QED
    BY <2>1, <2>9 DEF OnceStep, Once!Next
<1> QED
  BY <1>1, <1>2 DEF CreateRun

LEMMA AppendPrepares ==
    ASSUME StartInv, [Next]_vars, NEW p \in Callers, AppendWorld(p)
    PROVE  OnceStep
<1>0. TypeOK /\ KeyOnce /\ UNCHANGED <<runs, panel, answer>>
  BY DEF StartInv, AppendWorld, catalog
<1> DEFINE r == run[p]
<1>1. /\ r \in RunIDs /\ Continues(r, NextEvent(p))
      /\ journal' = [journal EXCEPT ![r] = Append(@, NextEvent(p))]
  BY AppendsNext
<1>2. \A x \in RunIDs : x # r => journal'[x] = journal[x]
  BY <1>0, <1>1 DEF TypeOK
<1> HIDE DEF r
<1>3. ReadyRuns' = {x \in RunIDs : runs[x] # Nobody /\ Complete(journal'[x], runs[x].world)}
  BY <1>0 DEF ReadyRuns, Complete, ScheduleLength, Places
<1>4. ReadyRuns' \in {ReadyRuns, ReadyRuns \cup {r}, ReadyRuns \ {r}}
  BY <1>1, <1>2, <1>3 DEF ReadyRuns
<1>5. r \in ReadyRuns => r \in ReadyRuns'
  BY <1>1, <1>3, CompleteKept DEF ReadyRuns
<1>6. Bindings' = Bindings
  BY <1>0, BindingsKept
<1>7. CASE ReadyRuns' = ReadyRuns
  BY <1>0, <1>6, <1>7 DEF OnceStep, Once!vars
<1>8. CASE ReadyRuns' = ReadyRuns \cup {r} /\ r \notin ReadyRuns
  <2>1. r \in Once!BoundRuns
    BY <1>0, <1>1, BoundRunsAre DEF Continues
  <2>2. Once!Prepare(r)
    BY <1>0, <1>6, <1>8, <2>1 DEF Once!Prepare
  <2> QED
    BY <1>1, <2>2 DEF OnceStep, Once!Next
<1> QED
  BY <1>4, <1>5, <1>7, <1>8

LEMMA DrawGives ==
    ASSUME StartInv, [Next]_vars, NEW p \in Callers, DrawAccess(p)
    PROVE  OnceStep
<1>0. TypeOK /\ CallOK(p) /\ UNCHANGED <<runs, journal, answer>> /\ pc[p] = "draw"
  BY DEF StartInv, CallInv, DrawAccess
<1>1. PICK a \in Accesses : panel' = [panel EXCEPT ![run[p]] = Inserted(@, a)]
  BY DEF DrawAccess
<1>2. Bindings' = Bindings /\ ReadyRuns' = ReadyRuns
  BY <1>0, BindingsKept DEF ReadyRuns, Complete, ScheduleLength, Places
<1>3. run[p] \in RunIDs /\ run[p] \in ReadyRuns
  <2>1. pc[p] \in Bound /\ run[p] \in RunIDs
    BY <1>0 DEF CallOK, Bound, OnItsRow
  <2>2. runs[run[p]] # Nobody /\ runs[run[p]].world = world[p]
    BY <1>0, <2>1, RowTypes
  <2> QED
    BY <1>0, <2>1, <2>2 DEF CallOK, ReadyRuns
<1>4. CASE panel[run[p]] = Nobody
  <2>1. panel' = [panel EXCEPT ![run[p]] = a]
    BY <1>0, <1>1, <1>3, <1>4 DEF Inserted, TypeOK
  <2>2. Once!Give(run[p], a)
    BY <1>0, <1>2, <1>3, <1>4, <2>1 DEF Once!Give
  <2> QED
    BY <1>3, <2>2 DEF OnceStep, Once!Next
<1>5. CASE panel[run[p]] # Nobody
  <2>1. panel' = panel
    BY <1>0, <1>1, <1>3, <1>5 DEF Inserted, TypeOK
  <2> QED
    BY <1>0, <1>2, <2>1 DEF OnceStep, Once!vars
<1> QED
  BY <1>4, <1>5

\* Credentials and time add nothing to the world of a run.
LEMMA ReadyAfter ==
    ASSUME TypeOK, UNCHANGED runs, NEW r \in RunIDs,
           \/ UNCHANGED journal
           \/ journal' = [journal EXCEPT ![r] = WithCredentials(@)]
           \/ journal' = [journal EXCEPT ![r] = Append(@, TimePassed)] /\ journal[r] # <<>>
    PROVE  ReadyRuns' = ReadyRuns
<1>1. TimePassed.kind # "chunk" /\ CredentialIssued.kind # "chunk"
  BY DEF TimePassed, CredentialIssued, Event
<1>2. ASSUME NEW x \in RunIDs
      PROVE  Kept(x) \/ \E e \in Events :
                e.kind # "chunk" /\ journal[x] # <<>> /\ journal'[x] = Append(journal[x], e)
  <2>1. CASE Kept(x)
    BY <2>1
  <2>2. CASE ~Kept(x)
    <3>1. /\ x = r
          /\ \/ journal'[r] = WithCredentials(journal[r])
             \/ journal'[r] = Append(journal[r], TimePassed) /\ journal[r] # <<>>
      BY <2>2 DEF TypeOK, Kept
    <3> QED
      BY <1>1, <2>2, <3>1, CredentialsAppend, EventTypes DEF Kept
  <2> QED
    BY <2>1, <2>2
<1> QED
  BY <1>2, ReadyKept

LEMMA AnswersBound ==
    ASSUME StartInv, [Next]_vars, NEW p \in Callers, AnswerStart(p)
    PROVE  OnceStep
<1>0. TypeOK /\ KeyOnce /\ CallOK(p) /\ UNCHANGED <<runs, panel>> /\ pc[p] = "servers"
  BY DEF StartInv, CallInv, AnswerStart, catalog
<1> DEFINE r == run[p]
           k == ask[p].key
<1>1. /\ k \in Keys /\ r \in RunIDs /\ runs[r] = [key |-> k, world |-> world[p]]
      /\ world[p][1] = ask[p].seed /\ panel[r] = access[p] /\ access[p] \in Accesses
      /\ Complete(journal[r], world[p])
  BY <1>0 DEF CallOK, Bound, Asks, OnItsRow
<1>2. runs[r] # Nobody /\ runs[r].world = world[p] /\ runs[r].key = k
  BY <1>0, <1>1, RowTypes DEF Bound
<1>3. answer' = [key |-> k, seed |-> ask[p].seed, run |-> r, access |-> access[p]]
  BY DEF AnswerStart
<1>4. ReadyRuns' = ReadyRuns
  <2>1. UNCHANGED journal \/ journal' = [journal EXCEPT ![r] = WithCredentials(@)]
    BY DEF AnswerStart
  <2> QED
    BY <1>0, <1>1, <2>1, ReadyAfter
<1> HIDE DEF r, k
<1>5. Bindings' = Bindings
  BY <1>0, BindingsKept
<1>6. r \in RowsOf(k) /\ r \in ReadyRuns
  BY <1>1, <1>2 DEF RowsOf, ReadyRuns
<1>7. Bindings[k] = [run |-> r, seed |-> ask[p].seed] /\ Bindings[k] # Nobody
  <2>1. Bindings[k] = [run |-> r, seed |-> runs[r].world[1]] /\ Bindings[k] # Nobody
    BY <1>0, <1>1, <1>6, BindingOf
  <2> QED
    BY <1>1, <1>2, <2>1
<1>8. panel[r] # Nobody
  BY <1>1, StartAssumption
<1>9. Once!Answer(k)
  BY <1>0, <1>1, <1>3, <1>4, <1>5, <1>6, <1>7, <1>8 DEF Once!Answer
<1> QED
  BY <1>1, <1>9 DEF OnceStep, Once!Next

LEMMA OnceNext ==
    ASSUME StartInv, [Next]_vars
    PROVE  OnceStep
<1>1. TypeOK
  BY DEF StartInv
<1>2. ASSUME UNCHANGED <<runs, journal, panel, answer>> PROVE OnceStep
  <2>1. Bindings' = Bindings
    BY <1>2, BindingsKept
  <2>2. ReadyRuns' = ReadyRuns
    BY <1>2 DEF ReadyRuns, Complete, ScheduleLength, Places
  <2> QED
    BY <1>2, <2>1, <2>2 DEF OnceStep, Once!vars
<1>3. ASSUME NEW p \in Callers, FindWorld(p) \/ Taken(p) \/ Resume(p) \/ LoadJournal(p) \/ Conflict(p)
             \/ ReadAccess(p) \/ Fail(p) \/ \E a \in Asked : Call(p, a[1], a[2])
      PROVE  OnceStep
  BY <1>2, <1>3 DEF FindWorld, Taken, Resume, LoadJournal, Conflict, ReadAccess, Fail, Call, catalog
<1>4. ASSUME NEW r \in RunIDs, Request(r) PROVE OnceStep
  <2>1. UNCHANGED <<runs, panel, answer>> /\ journal[r] # <<>>
    BY <1>4 DEF Request, Running, catalog
  <2>2. PICK after \in {Append(journal[r], TimePassed), WithCredentials(journal[r])} :
          journal' = [journal EXCEPT ![r] = after]
    BY <1>4 DEF Request
  <2>3. ReadyRuns' = ReadyRuns
    BY <1>1, <2>1, <2>2, ReadyAfter
  <2>4. Bindings' = Bindings
    BY <2>1, BindingsKept
  <2> QED
    BY <2>1, <2>3, <2>4 DEF OnceStep, Once!vars
<1>5. CASE (\E s \in Manual : Register(s)) \/ (\E q \in Profiles : Restart(q)) \/ UNCHANGED vars
  BY <1>2, <1>5 DEF Register, Restart, vars, catalog
<1> QED
  BY <1>3, <1>4, <1>5, CreateBinds, AppendPrepares, DrawGives, AnswersBound DEF Next, Step

LEMMA OnceInit == Init => Once!Init
<1> SUFFICES ASSUME Init PROVE Once!Init
  OBVIOUS
<1>1. \A r \in RunIDs : runs[r] = Nobody
  BY DEF Init
<1>2. \A k \in Keys : RowsOf(k) = {}
  BY <1>1 DEF RowsOf
<1>3. Bindings = [k \in Keys |-> Nobody]
  BY <1>2 DEF Bindings
<1>4. ReadyRuns = {}
  BY <1>1 DEF ReadyRuns
<1> QED
  BY <1>3, <1>4 DEF Init, Once!Init

(***************************************************************************)
(* The service refines StartOnce: the row made first for a key is the one  *)
(* every later start finds, an answer names it with its seed, only once    *)
(* its world is whole, and with the panel access that was stored first.    *)
(***************************************************************************)
THEOREM StartImplementsStartOnce == Spec => StartsOnce
<1>1. Init => Once!Init
  BY OnceInit
<1>2. StartInv /\ [Next]_vars => [OnceStep]_vars
  BY OnceNext
<1> QED
  BY <1>1, <1>2, StartInit, StartNext, PTL DEF Spec, StartsOnce
=============================================================================
