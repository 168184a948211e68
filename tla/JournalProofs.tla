---------------------------- MODULE JournalProofs ----------------------------
(***************************************************************************)
(* The journal of a run, for any batches, segments and crashes: what has   *)
(* been acknowledged survives, memory is what a replay gives, and the      *)
(* journal is a log of whole batches.  A crash that leaves exactly the     *)
(* header of a frame is excluded (~CutsAtHeader): the code does not cut it *)
(* off, and what is appended after it cannot be read.                      *)
(***************************************************************************)
EXTENDS Journal, NaturalsInduction, SequenceTheorems, FiniteSetTheorems, TLAPS

\* FoldSteps' facts about orders, which hold whatever operators it is given.
AsBefore(c, x, e) == x
One(c, m) == 1
Orders == INSTANCE FoldSteps WITH Op <- AsBefore, Inv <- AsBefore, Weight <- One

(***************************************************************************)
(* The inductive invariant.                                                *)
(***************************************************************************)
Events == [op : Nat, index : Nat]
AuditKinds == {"RequestReceived", "RequestCompleted"}
LastKinds == {"DomainEvents", "DomainCommit"} \cup AuditKinds
Kinds == {"DomainBegin", "DomainPart"} \cup LastKinds
Batches == [kind : {"domain"} \cup AuditKinds, events : Seq(Events), request : Requests \cup {NoRequest}]
FrameSet == [kind : Kinds, seq : Nat, first : Nat, count : Nat, events : Seq(Events),
             request : Requests \cup {NoRequest}]
Pieces == [frame : FrameSet, cells : Nat]
Pendings == [first : Nat, count : Nat, events : Seq(Events)]
Knowledge == [ok : BOOLEAN, sequence : Nat, version : Nat, batches : Seq(Batches), pending : Pendings]
Positions == {"idle", "frame", "compressing", "published", "rotated", "written", "synced"}

TypeOK ==
    /\ DOMAIN logs \subseteq 1..MaxSegments /\ \A n \in DOMAIN logs : logs[n] \in Seq(Pieces)
    /\ DOMAIN archives \subseteq 1..(MaxSegments - 1)
    /\ \A n \in DOMAIN archives : archives[n] \in Seq(Pieces)
    /\ stream \in [ready : BOOLEAN, known : Knowledge, segment : 1..MaxSegments, size : {stream.size}]
    /\ op \in [pc : Positions, kind : Kinds \cup {"none"}, offset : Nat, batch : Batches]
    /\ ops \in Nat
    /\ acked \in Seq(Batches)

\* A file as the process leaves it, and as a crash may: its last piece is cut.
Intact(file) == \A i \in DOMAIN file : IsWhole(file[i])
Torn(file) ==
    /\ file # <<>>
    /\ \A i \in 1..(Len(file) - 1) : IsWhole(file[i])
    /\ file[Len(file)].cells < FrameCells(file[Len(file)].frame)
    /\ file[Len(file)].cells # HeaderCells
FilesOK ==
    /\ \A n \in DOMAIN archives : Intact(archives[n])
    /\ \A n \in DOMAIN logs \ DOMAIN archives :
         Intact(logs[n]) \/ (~stream.ready /\ Torn(logs[n]))

\* The stream writes after everything there is.
AtEnd ==
    /\ \A n \in Segments : n <= stream.segment
    /\ op.pc # "published" =>
         /\ stream.segment \notin DOMAIN archives
         /\ \/ stream.segment \in DOMAIN logs
            \/ stream.segment - 1 \in DOMAIN archives
            \/ Segments = {} /\ stream.segment = 1
    /\ op.pc = "published" => stream.segment \in DOMAIN archives
    /\ op.pc \in {"compressing", "published"} =>
         stream.segment \in DOMAIN logs /\ stream.segment < MaxSegments
    /\ stream.segment \notin DOMAIN logs => stream.size = 0
    /\ op.pc = "written" =>
         /\ Written # <<>>
         /\ Written[Len(Written)] = Piece(NextFrame, FrameCells(NextFrame))

\* What the operation in flight has to write.
OpOK ==
    /\ op.pc = "idle" => op = Idle
    /\ op.pc # "idle" => op.kind \in Kinds
    /\ op.pc = "synced" => op.kind \in LastKinds
    /\ op.kind \in AuditKinds => op.batch = Audit(op.kind, op.batch.request)
    /\ op.kind = "RequestReceived" => op.batch.request \notin Received(stream.known)
    /\ op.kind = "RequestCompleted" => op.batch.request \in Received(stream.known)
    /\ op.kind \in Kinds \ AuditKinds =>
         op.batch = Domain(op.batch.events) /\ op.batch.events # <<>>
    /\ op.kind = "DomainBegin" => op.offset = 0
    /\ op.kind = "DomainPart" => op.offset < Len(op.batch.events)
    /\ op.kind = "DomainCommit" => op.offset = Len(op.batch.events)

\* What the process knows is what the frames it has synced amount to, with what
\* the operation in flight has written so far.
Durable == SubSeq(AllFrames, 1, Len(AllFrames) - unsynced)
Whole(p) ==
    /\ p.version = stream.known.version + Len(op.batch.events)
    /\ p.batches = Append(stream.known.batches, op.batch)
Begun(p) ==
    /\ p.version = stream.known.version /\ p.batches = stream.known.batches
    /\ op.kind \in {"DomainPart", "DomainCommit"} =>
         p.pending = [first |-> stream.known.version + 1, count |-> Len(op.batch.events),
                      events |-> SubSeq(op.batch.events, 1, op.offset)]
Agrees(p) ==
    /\ p.ok /\ p.sequence = stream.known.sequence
    /\ IF op.pc = "synced" THEN Whole(p) ELSE Begun(p)

Running ==
    /\ AtEnd /\ OpOK
    /\ unsynced = (IF op.pc = "written" THEN 1 ELSE 0)
    /\ op.pc = "written" => AllFrames = Append(Durable, NextFrame)
    /\ Agrees(Replayed(Durable))
    /\ IsPrefix(acked, stream.known.batches)
Stopped ==
    /\ op = Idle /\ unsynced = 0
    /\ Replayed(AllFrames).ok /\ IsPrefix(acked, Replayed(AllFrames).batches)

JournalInv == TypeOK /\ FilesOK /\ IF stream.ready THEN Running ELSE Stopped

(***************************************************************************)
(* Lemmas about the two recursive readings of a journal: the frames of its *)
(* segments one after the other, and what replaying frames gives.  A frame *)
(* more in the last segment that has any is one step more of both.         *)
(***************************************************************************)
\* g joins the sequences of c from the first on.
Joins(c, g) == \A i \in 1..Len(c) : g[i] = IF i = 1 THEN c[i] ELSE g[i - 1] \o c[i]

LEMMA FlattenIsJoined ==
    ASSUME NEW X, NEW c \in Seq(Seq(X)), c # <<>>
    PROVE  \E g : Joins(c, g) /\ FlattenSeq(c) = g[Len(c)]
<1> DEFINE Body(g, n) == [i \in 1..n |-> IF i = 1 THEN c[i] ELSE g[i - 1] \o c[i]]
           S == {n \in Nat : \E g : g = Body(g, n)}
<1>1. 0 \in S
  <2> DEFINE g == [i \in 1..0 |-> c]
  <2>1. g = Body(g, 0)
    OBVIOUS
  <2> QED
    BY <2>1
<1>2. ASSUME NEW n \in Nat, n \in S
      PROVE  n + 1 \in S
  <2>1. PICK g : g = Body(g, n)
    BY <1>2
  <2> DEFINE last == IF n + 1 = 1 THEN c[n + 1] ELSE g[n] \o c[n + 1]
             h == [i \in 1..(n + 1) |-> IF i = n + 1 THEN last ELSE g[i]]
  <2>2. ASSUME NEW i \in 1..(n + 1)
        PROVE  h[i] = IF i = 1 THEN c[i] ELSE h[i - 1] \o c[i]
    <3>1. CASE i = n + 1
      BY <3>1, <1>2
    <3>2. CASE i # n + 1
      <4>1. i \in 1..n /\ h[i] = g[i] /\ (i # 1 => h[i - 1] = g[i - 1])
        BY <3>2, <1>2
      <4>2. g[i] = IF i = 1 THEN c[i] ELSE g[i - 1] \o c[i]
        BY <2>1, <4>1
      <4> QED
        BY <4>1, <4>2
    <3> QED
      BY <3>1, <3>2
  <2>3. h = Body(h, n + 1)
    <3> HIDE DEF last
    <3> DEFINE b == Body(h, n + 1)
    <3>1. \A i \in 1..(n + 1) : b[i] = h[i]
      BY <2>2
    <3> QED
      BY <3>1
  <2>4. n + 1 \in Nat
    OBVIOUS
  <2> HIDE DEF h
  <2> QED
    BY <2>3, <2>4, Zenon
<1>3. Len(c) \in Nat /\ Len(c) # 0
  OBVIOUS
<1>4. Len(c) \in S
  <2> HIDE DEF S
  <2>1. \A n \in Nat : n \in S => n + 1 \in S
    BY <1>2
  <2> QED
    BY <1>1, <1>3, <2>1, Orders!SetInduction
<1> DEFINE g == CHOOSE g : g = Body(g, Len(c))
<1>5. g = Body(g, Len(c))
  BY <1>4
<1>6. FlattenSeq(c) = g[Len(c)]
  BY <1>3 DEF FlattenSeq
<1> HIDE DEF g
<1>7. Joins(c, g)
  BY <1>5 DEF Joins
<1> QED
  BY <1>6, <1>7

LEMMA JoinsTypes ==
    ASSUME NEW X, NEW c \in Seq(Seq(X)), NEW g, Joins(c, g)
    PROVE  \A i \in 1..Len(c) : g[i] \in Seq(X)
<1> DEFINE S == {n \in Nat : n \in 1..Len(c) => g[n] \in Seq(X)}
<1>1. 0 \in S
  OBVIOUS
<1>2. ASSUME NEW n \in Nat, n \in S
      PROVE  n + 1 \in S
  <2> SUFFICES ASSUME n + 1 \in 1..Len(c)
               PROVE  g[n + 1] \in Seq(X)
    OBVIOUS
  <2>1. g[n + 1] = IF n + 1 = 1 THEN c[n + 1] ELSE g[n] \o c[n + 1]
    BY DEF Joins
  <2>2. c[n + 1] \in Seq(X)
    OBVIOUS
  <2>3. n # 0 => g[n] \in Seq(X)
    BY <1>2
  <2> QED
    BY <2>1, <2>2, <2>3
<1>3. Nat \subseteq S
  <2> HIDE DEF S
  <2> QED
    BY <1>1, <1>2, Orders!SetInduction
<1> QED
  BY <1>3

LEMMA FlattenTypes ==
    ASSUME NEW X, NEW c \in Seq(Seq(X)), c # <<>>
    PROVE  FlattenSeq(c) \in Seq(X)
<1>1. PICK g : Joins(c, g) /\ FlattenSeq(c) = g[Len(c)]
  BY FlattenIsJoined
<1>2. Len(c) \in 1..Len(c)
  OBVIOUS
<1> QED
  BY <1>1, <1>2, JoinsTypes

LEMMA ConcatThenAppend ==
    ASSUME NEW X, NEW a \in Seq(X), NEW b \in Seq(X), NEW x \in X
    PROVE  a \o Append(b, x) = Append(a \o b, x)
OBVIOUS

\* One more at the end of the last sequence that is not empty.
LEMMA FlattenAppend ==
    ASSUME NEW X, NEW c \in Seq(Seq(X)), NEW d \in Seq(Seq(X)), Len(c) = Len(d),
           NEW s \in 1..Len(c), NEW x \in X,
           \A i \in 1..Len(c) : i # s => c[i] = d[i],
           \A i \in 1..Len(c) : i > s => c[i] = <<>>,
           d[s] = Append(c[s], x)
    PROVE  FlattenSeq(d) = Append(FlattenSeq(c), x)
<1>1. c # <<>> /\ d # <<>> /\ Len(c) \in Nat /\ s \in Nat
  OBVIOUS
<1>2. PICK g : Joins(c, g) /\ FlattenSeq(c) = g[Len(c)]
  BY <1>1, FlattenIsJoined
<1>3. PICK h : Joins(d, h) /\ FlattenSeq(d) = h[Len(c)]
  BY <1>1, FlattenIsJoined
<1>4. \A i \in 1..Len(c) : g[i] \in Seq(X) /\ h[i] \in Seq(X)
  BY <1>2, <1>3, JoinsTypes
<1> DEFINE S == {n \in Nat : n \in 1..Len(c) => h[n] = IF n < s THEN g[n] ELSE Append(g[n], x)}
<1>5. 0 \in S
  OBVIOUS
<1>6. ASSUME NEW n \in Nat, n \in S
      PROVE  n + 1 \in S
  <2> SUFFICES ASSUME n + 1 \in 1..Len(c)
               PROVE  h[n + 1] = IF n + 1 < s THEN g[n + 1] ELSE Append(g[n + 1], x)
    OBVIOUS
  <2>1. /\ g[n + 1] = IF n + 1 = 1 THEN c[n + 1] ELSE g[n] \o c[n + 1]
        /\ h[n + 1] = IF n + 1 = 1 THEN d[n + 1] ELSE h[n] \o d[n + 1]
    BY <1>2, <1>3 DEF Joins
  <2>2. n # 0 => n \in 1..Len(c) /\ h[n] = IF n < s THEN g[n] ELSE Append(g[n], x)
    BY <1>6
  <2>3. c[n + 1] \in Seq(X) /\ d[n + 1] \in Seq(X)
    OBVIOUS
  <2>4. n # 0 => g[n] \in Seq(X)
    BY <1>4, <2>2
  <2>5. CASE n + 1 < s
    BY <2>1, <2>2, <2>5
  <2>6. CASE n + 1 = s
    <3>1. d[n + 1] = Append(c[n + 1], x) /\ ~(n + 1 < s) /\ n < s
      BY <1>1, <2>6
    <3>2. CASE n = 0
      BY <2>1, <3>1, <3>2
    <3>3. CASE n # 0
      <4>1. n + 1 # 1 /\ h[n] = g[n] /\ g[n] \in Seq(X) /\ c[n + 1] \in Seq(X) /\ x \in X
        BY <2>2, <2>3, <2>4, <3>1, <3>3
      <4>2. h[n + 1] = g[n] \o Append(c[n + 1], x) /\ g[n + 1] = g[n] \o c[n + 1]
        BY <2>1, <3>1, <4>1, Zenon
      <4>3. g[n] \o Append(c[n + 1], x) = Append(g[n] \o c[n + 1], x)
        <5> DEFINE a == g[n]
                   b == c[n + 1]
        <5>1. a \in Seq(X) /\ b \in Seq(X) /\ x \in X
          BY <4>1
        <5> HIDE DEF a, b
        <5>2. a \o Append(b, x) = Append(a \o b, x)
          BY ONLY <5>1, ConcatThenAppend
        <5> QED
          BY <5>2 DEF a, b
      <4> QED
        BY <3>1, <4>2, <4>3, Zenon
    <3> QED
      BY <3>2, <3>3
  <2>7. CASE n + 1 > s
    <3>1. c[n + 1] = <<>> /\ d[n + 1] = <<>> /\ n # 0 /\ ~(n < s) /\ ~(n + 1 < s)
      BY <1>1, <2>7
    <3>2. n \in 1..Len(c) /\ g[n] \in Seq(X) /\ h[n] \in Seq(X)
      BY <1>4, <2>2, <3>1
    <3>3. g[n] \o <<>> = g[n] /\ h[n] \o <<>> = h[n]
      BY <3>2, ConcatEmptySeq
    <3>4. g[n + 1] = g[n] /\ h[n + 1] = h[n]
      BY <2>1, <3>1, <3>3
    <3> QED
      BY <2>2, <3>1, <3>4
  <2> QED
    BY <2>5, <2>6, <2>7
<1>7. Nat \subseteq S
  <2> HIDE DEF S
  <2> QED
    BY <1>5, <1>6, Orders!SetInduction
<1>8. Len(c) \in S /\ Len(c) \in 1..Len(c) /\ ~(Len(c) < s)
  BY <1>7
<1> QED
  BY <1>2, <1>3, <1>8

\* g has what a reader knows after each of the frames.
Reads(frames, g) ==
    /\ g[0] = Empty
    /\ \A i \in 1..Len(frames) : g[i] = ApplyFrame(g[i - 1], frames[i])

LEMMA OnlyMember ==
    ASSUME NEW x
    PROVE  Only({x}) = x
BY DEF Only

LEMMA ReplayIsRead ==
    ASSUME NEW frames \in Seq(FrameSet)
    PROVE  \E g : Reads(frames, g) /\ Replayed(frames) = g[Len(frames)]
<1> DEFINE Step(p, i) == Only({ApplyFrame(q, frames[i]) : q \in {p}})
           Body(g, n) == [i \in 0..n |-> IF i = 0 THEN Empty ELSE Step(g[i - 1], i)]
           S == {n \in Nat : \E g : g = Body(g, n)}
<1>0. \A p, i : Step(p, i) = ApplyFrame(p, frames[i])
  <2> TAKE p, i
  <2>1. {ApplyFrame(q, frames[i]) : q \in {p}} = {ApplyFrame(p, frames[i])}
    OBVIOUS
  <2> QED
    BY <2>1, OnlyMember
<1> HIDE DEF Step
<1>1. 0 \in S
  <2> DEFINE g == [i \in 0..0 |-> Empty]
  <2>1. g = Body(g, 0)
    OBVIOUS
  <2> QED
    BY <2>1
<1>2. ASSUME NEW n \in Nat, n \in S
      PROVE  n + 1 \in S
  <2>1. PICK g : g = Body(g, n)
    BY <1>2
  <2> DEFINE h == [i \in 0..(n + 1) |-> IF i = n + 1 THEN Step(g[n], n + 1) ELSE g[i]]
  <2>2. ASSUME NEW i \in 0..(n + 1)
        PROVE  h[i] = IF i = 0 THEN Empty ELSE Step(h[i - 1], i)
    <3>1. CASE i = n + 1
      BY <3>1
    <3>2. CASE i # n + 1
      <4>1. i \in 0..n /\ h[i] = g[i] /\ (i # 0 => h[i - 1] = g[i - 1])
        BY <3>2
      <4>2. g[i] = IF i = 0 THEN Empty ELSE Step(g[i - 1], i)
        BY <2>1, <4>1
      <4> QED
        BY <4>1, <4>2
    <3> QED
      BY <3>1, <3>2
  <2>3. h = Body(h, n + 1)
    <3> DEFINE b == Body(h, n + 1)
    <3>1. \A i \in 0..(n + 1) : b[i] = h[i]
      BY <2>2
    <3> QED
      BY <3>1
  <2>4. n + 1 \in Nat
    OBVIOUS
  <2> HIDE DEF h
  <2> QED
    BY <2>3, <2>4, Zenon
<1>3. Len(frames) \in S
  <2> HIDE DEF S
  <2>1. \A n \in Nat : n \in S => n + 1 \in S
    BY <1>2
  <2> QED
    BY <1>1, <2>1, Orders!SetInduction
<1> DEFINE g == CHOOSE g : g = Body(g, Len(frames))
<1>4. g = Body(g, Len(frames))
  BY <1>3
<1>5. Replayed(frames) = g[Len(frames)]
  BY DEF Replayed, Step
<1> HIDE DEF g
<1>6. Reads(frames, g)
  BY <1>0, <1>4 DEF Reads
<1> QED
  BY <1>5, <1>6

LEMMA ReadsAlike ==
    ASSUME NEW frames \in Seq(FrameSet), NEW more \in Seq(FrameSet), NEW g, NEW h,
           Reads(frames, g), Reads(more, h), Len(frames) <= Len(more),
           \A i \in 1..Len(frames) : frames[i] = more[i]
    PROVE  \A i \in 0..Len(frames) : g[i] = h[i]
<1> DEFINE S == {n \in Nat : n \in 0..Len(frames) => g[n] = h[n]}
<1>1. 0 \in S
  BY DEF Reads
<1>2. ASSUME NEW n \in Nat, n \in S
      PROVE  n + 1 \in S
  <2> SUFFICES ASSUME n + 1 \in 0..Len(frames)
               PROVE  g[n + 1] = h[n + 1]
    OBVIOUS
  <2>1. n + 1 \in 1..Len(frames) /\ n + 1 \in 1..Len(more) /\ g[n] = h[n]
    BY <1>2
  <2>2. g[n + 1] = ApplyFrame(g[n], frames[n + 1]) /\ h[n + 1] = ApplyFrame(h[n], more[n + 1])
    BY <2>1 DEF Reads
  <2> QED
    BY <2>1, <2>2
<1>3. Nat \subseteq S
  <2> HIDE DEF S
  <2> QED
    BY <1>1, <1>2, Orders!SetInduction
<1> QED
  BY <1>3

LEMMA ReplayedEmpty ==
    Replayed(<<>>) = Empty
<1>1. <<>> \in Seq(FrameSet) /\ Len(<<>>) = 0
  BY EmptySeq
<1>2. PICK g : Reads(<<>>, g) /\ Replayed(<<>>) = g[Len(<<>>)]
  BY <1>1, ReplayIsRead
<1> QED
  BY <1>1, <1>2 DEF Reads

LEMMA ReplayedAppend ==
    ASSUME NEW frames \in Seq(FrameSet), NEW f \in FrameSet
    PROVE  Replayed(Append(frames, f)) = ApplyFrame(Replayed(frames), f)
<1> DEFINE more == Append(frames, f)
           n == Len(frames)
<1>1. /\ more \in Seq(FrameSet) /\ n \in Nat /\ Len(more) = n + 1 /\ more[n + 1] = f
      /\ \A i \in 1..n : frames[i] = more[i]
  OBVIOUS
<1> HIDE DEF more
<1>2. PICK g : Reads(frames, g) /\ Replayed(frames) = g[n]
  BY ReplayIsRead
<1>3. PICK h : Reads(more, h) /\ Replayed(more) = h[n + 1]
  BY <1>1, ReplayIsRead
<1>4. \A i \in 0..n : g[i] = h[i]
  BY <1>1, <1>2, <1>3, ReadsAlike
<1>5. h[n + 1] = ApplyFrame(h[n], f)
  BY <1>1, <1>3 DEF Reads
<1> QED
  BY <1>1, <1>2, <1>3, <1>4, <1>5 DEF more

(***************************************************************************)
(* What one frame adds to what a reader knows.                             *)
(***************************************************************************)
LEMMA BatchTypes ==
    /\ \A es \in Seq(Events) : Domain(es) \in Batches
    /\ \A kind \in AuditKinds, q \in Requests \cup {NoRequest} : Audit(kind, q) \in Batches
    /\ NoBatch \in Pendings /\ Empty \in Knowledge
BY DEF Batches, Domain, Audit, AuditKinds, NoBatch, Pendings, Empty, Knowledge

LEMMA KnowledgeParts ==
    ASSUME NEW p \in Knowledge
    PROVE  /\ p.ok \in BOOLEAN /\ p.sequence \in Nat /\ p.version \in Nat
           /\ p.batches \in Seq(Batches) /\ p.pending \in Pendings
           /\ p.pending.first \in Nat /\ p.pending.count \in Nat /\ p.pending.events \in Seq(Events)
BY DEF Knowledge, Pendings

LEMMA FrameParts ==
    ASSUME NEW f \in FrameSet
    PROVE  /\ f.kind \in Kinds /\ f.seq \in Nat /\ f.first \in Nat /\ f.count \in Nat
           /\ f.events \in Seq(Events) /\ f.request \in Requests \cup {NoRequest}
           /\ FrameCells(f) \in Nat /\ FrameCells(f) > HeaderCells
BY DEF FrameSet, FrameCells, HeaderCells

\* The fields a step of reading changes.
LEMMA KnowledgeChanged ==
    ASSUME NEW p \in Knowledge
    PROVE  /\ \A ok \in BOOLEAN : [p EXCEPT !.ok = ok] \in Knowledge
           /\ \A n \in Nat : [p EXCEPT !.sequence = n] \in Knowledge
           /\ \A pending \in Pendings : [p EXCEPT !.pending = pending] \in Knowledge
           /\ \A es \in Seq(Events) : [p EXCEPT !.pending.events = es] \in Knowledge
           /\ \A batches \in Seq(Batches) : [p EXCEPT !.batches = batches] \in Knowledge
           /\ \A batches \in Seq(Batches), n \in Nat :
                [p EXCEPT !.batches = batches, !.version = n] \in Knowledge
           /\ \A batches \in Seq(Batches), n \in Nat, pending \in Pendings :
                [p EXCEPT !.batches = batches, !.version = n, !.pending = pending] \in Knowledge
BY DEF Knowledge, Pendings

LEMMA ApplyKindTypes ==
    ASSUME NEW p \in Knowledge, NEW f \in FrameSet
    PROVE  ApplyKind(p, f) \in Knowledge
<1>1. Failed(p) \in Knowledge
  BY KnowledgeChanged DEF Failed
<1>2. Domain(f.events) \in Batches /\ Domain(p.pending.events) \in Batches
  BY BatchTypes, KnowledgeParts, FrameParts
<1>3. CASE f.kind = "DomainEvents"
  <2>1. Append(p.batches, Domain(f.events)) \in Seq(Batches) /\ p.version + Len(f.events) \in Nat
    BY <1>2, KnowledgeParts, FrameParts
  <2> DEFINE next == [p EXCEPT !.batches = Append(@, Domain(f.events)), !.version = @ + Len(f.events)]
  <2>2. next \in Knowledge
    BY <2>1, KnowledgeChanged
  <2>3. ApplyKind(p, f) = Failed(p) \/ ApplyKind(p, f) = next
    BY <1>3 DEF ApplyKind, Checked
  <2> QED
    BY <1>1, <2>2, <2>3
<1>4. CASE f.kind = "DomainBegin"
  <2>1. [first |-> f.first, count |-> f.count, events |-> <<>>] \in Pendings
    BY FrameParts DEF Pendings
  <2> DEFINE next == [p EXCEPT !.pending = [first |-> f.first, count |-> f.count, events |-> <<>>]]
  <2>2. next \in Knowledge
    BY <2>1, KnowledgeChanged
  <2>3. ApplyKind(p, f) = Failed(p) \/ ApplyKind(p, f) = next
    BY <1>4 DEF ApplyKind, Checked
  <2> QED
    BY <1>1, <2>2, <2>3
<1>5. CASE f.kind = "DomainPart"
  <2>1. p.pending.events \o f.events \in Seq(Events)
    BY KnowledgeParts, FrameParts
  <2> DEFINE next == [p EXCEPT !.pending.events = @ \o f.events]
  <2>2. next \in Knowledge
    BY <2>1, KnowledgeChanged
  <2>3. ApplyKind(p, f) = Failed(p) \/ ApplyKind(p, f) = next
    BY <1>5 DEF ApplyKind, Checked, ApplyPart
  <2> QED
    BY <1>1, <2>2, <2>3
<1>6. CASE f.kind = "DomainCommit"
  <2>1. /\ Append(p.batches, Domain(p.pending.events)) \in Seq(Batches)
        /\ p.version + p.pending.count \in Nat
    BY <1>2, KnowledgeParts
  <2> DEFINE next == [p EXCEPT !.batches = Append(@, Domain(p.pending.events)),
                  !.version = @ + p.pending.count, !.pending = NoBatch]
  <2>2. next \in Knowledge
    BY <2>1, KnowledgeChanged, BatchTypes
  <2>3. ApplyKind(p, f) = Failed(p) \/ ApplyKind(p, f) = next
    BY <1>6 DEF ApplyKind, Checked
  <2> QED
    BY <1>1, <2>2, <2>3
<1>7. CASE f.kind \in AuditKinds
  <2>1. Append(p.batches, Audit(f.kind, f.request)) \in Seq(Batches)
    BY <1>7, BatchTypes, KnowledgeParts, FrameParts
  <2> DEFINE next == [p EXCEPT !.batches = Append(@, Audit(f.kind, f.request))]
  <2>2. next \in Knowledge
    BY <2>1, KnowledgeChanged
  <2>3. ApplyKind(p, f) = Failed(p) \/ ApplyKind(p, f) = next
    BY <1>7 DEF ApplyKind, Checked, AuditKinds
  <2> QED
    BY <1>1, <2>2, <2>3
<1> QED
  BY <1>3, <1>4, <1>5, <1>6, <1>7, FrameParts DEF Kinds, LastKinds

LEMMA ApplyTypes ==
    ASSUME NEW p \in Knowledge, NEW f \in FrameSet
    PROVE  ApplyFrame(p, f) \in Knowledge
<1>1. ApplyKind(p, f) \in Knowledge /\ f.seq \in Nat
  BY ApplyKindTypes, FrameParts
<1>2. [ApplyKind(p, f) EXCEPT !.sequence = f.seq] \in Knowledge /\ Failed(p) \in Knowledge
  BY <1>1, KnowledgeChanged DEF Failed
<1> QED
  BY <1>2 DEF ApplyFrame

LEMMA ReplayedTypes ==
    ASSUME NEW frames \in Seq(FrameSet)
    PROVE  Replayed(frames) \in Knowledge
<1>1. PICK g : Reads(frames, g) /\ Replayed(frames) = g[Len(frames)]
  BY ReplayIsRead
<1> DEFINE S == {n \in Nat : n \in 0..Len(frames) => g[n] \in Knowledge}
<1>2. 0 \in S
  BY <1>1, BatchTypes DEF Reads
<1>3. ASSUME NEW n \in Nat, n \in S
      PROVE  n + 1 \in S
  <2> SUFFICES ASSUME n + 1 \in 0..Len(frames)
               PROVE  g[n + 1] \in Knowledge
    OBVIOUS
  <2>1. n + 1 \in 1..Len(frames) /\ g[n] \in Knowledge /\ frames[n + 1] \in FrameSet
    BY <1>3
  <2>2. g[n + 1] = ApplyFrame(g[n], frames[n + 1])
    BY <1>1, <2>1 DEF Reads
  <2> QED
    BY <2>1, <2>2, ApplyTypes
<1>4. Nat \subseteq S
  <2> HIDE DEF S
  <2> QED
    BY <1>2, <1>3, Orders!SetInduction
<1> QED
  BY <1>1, <1>4

(***************************************************************************)
(* The frame an operation writes next, and what reading it gives.          *)
(***************************************************************************)
LEMMA OpParts ==
    ASSUME TypeOK
    PROVE  /\ op.batch \in Batches /\ op.batch.events \in Seq(Events) /\ op.offset \in Nat
           /\ op.batch.request \in Requests \cup {NoRequest} /\ op.pc \in Positions
           /\ stream.known \in Knowledge /\ stream.segment \in 1..MaxSegments /\ stream.ready \in BOOLEAN
           /\ Len(op.batch.events) \in Nat
BY DEF TypeOK, Batches

LEMMA PartsJoin ==
    ASSUME NEW X, NEW es \in Seq(X), NEW k \in 0..Len(es), NEW n \in k..Len(es)
    PROVE  SubSeq(es, 1, k) \o SubSeq(es, k + 1, n) = SubSeq(es, 1, n)
<1>1. 1 \in 1..(Len(es) + 1) /\ k \in (1 - 1)..Len(es)
  OBVIOUS
<1> QED
  BY <1>1, ConcatAdjacentSubSeq

LEMMA PartEnds ==
    ASSUME TypeOK, op.offset <= Len(op.batch.events)
    PROVE  /\ PartEnd \in Nat /\ PartEnd <= Len(op.batch.events) /\ PartEnd >= op.offset
           /\ SubSeq(op.batch.events, op.offset + 1, PartEnd) \in Seq(Events)
           /\ op.offset < Len(op.batch.events) => PartEnd > op.offset
<1>1. op.batch.events \in Seq(Events) /\ op.offset \in Nat /\ Len(op.batch.events) \in Nat
  BY OpParts
<1>2. PartSize \in Nat /\ PartSize > 0
  BY JournalAssumption
<1>3. /\ PartEnd \in Nat /\ PartEnd <= Len(op.batch.events) /\ PartEnd >= op.offset
      /\ op.offset < Len(op.batch.events) => PartEnd > op.offset
  BY <1>1, <1>2 DEF PartEnd
<1>4. \A i \in (op.offset + 1)..PartEnd : op.batch.events[i] \in Events
  BY <1>1, <1>3
<1> QED
  BY <1>1, <1>3, <1>4, SubSeqProperties

LEMMA NextFrameTypes ==
    ASSUME TypeOK, OpOK, op.kind \in Kinds
    PROVE  NextFrame \in FrameSet
<1>1. /\ op.batch.events \in Seq(Events) /\ op.offset \in Nat /\ Len(op.batch.events) \in Nat
      /\ op.batch.request \in Requests \cup {NoRequest}
      /\ stream.known.version \in Nat /\ stream.known.sequence \in Nat
  BY OpParts, KnowledgeParts
<1>2. NextFrame.kind = op.kind /\ NextFrame.seq \in Nat /\ NextFrame.request \in Requests \cup {NoRequest}
  BY <1>1 DEF NextFrame
<1>3. NextFrame.first \in Nat /\ NextFrame.count \in Nat
  BY <1>1 DEF NextFrame
<1>4. NextFrame.events \in Seq(Events)
  <2>1. CASE op.kind = "DomainPart"
    BY <1>1, <2>1, PartEnds DEF NextFrame, OpOK
  <2>2. CASE op.kind # "DomainPart"
    BY <1>1, <2>2 DEF NextFrame
  <2> QED
    BY <2>1, <2>2
<1>5. NextFrame = [kind |-> NextFrame.kind, seq |-> NextFrame.seq, request |-> NextFrame.request,
                   first |-> NextFrame.first, count |-> NextFrame.count, events |-> NextFrame.events]
  BY DEF NextFrame
<1> QED
  BY <1>2, <1>3, <1>4, <1>5 DEF FrameSet

\* What is pending once the frame has been read, if it does not end its batch.
Pending(offset) ==
    [first |-> stream.known.version + 1, count |-> Len(op.batch.events),
     events |-> SubSeq(op.batch.events, 1, offset)]
NextOffset == IF op.kind = "DomainPart" THEN PartEnd ELSE op.offset

LEMMA NextFrameReads ==
    ASSUME TypeOK, OpOK, op.kind \in Kinds, NEW p \in Knowledge, p.ok,
           p.sequence = stream.known.sequence, Begun(p)
    PROVE  LET q == ApplyFrame(p, NextFrame) IN
           /\ q.ok /\ q.sequence = stream.known.sequence + 1
           /\ op.kind \in LastKinds => Whole(q)
           /\ op.kind \notin LastKinds =>
                /\ q.version = stream.known.version /\ q.batches = stream.known.batches
                /\ q.pending = Pending(NextOffset)
<1> DEFINE f == NextFrame
           q == ApplyFrame(p, f)
           r == ApplyKind(p, f)
           es == op.batch.events
<1>1. f.kind = op.kind /\ f.seq = p.sequence + 1
  BY DEF NextFrame
<1>2. /\ es \in Seq(Events) /\ op.offset \in Nat /\ Len(es) \in Nat
      /\ op.batch \in Batches /\ stream.known \in Knowledge
  BY OpParts
<1>3. /\ p.version = stream.known.version /\ p.batches = stream.known.batches /\ p.version \in Nat
      /\ p.batches \in Seq(Batches) /\ p.pending \in Pendings
  BY KnowledgeParts DEF Begun
<1>4. /\ r.ok
      /\ op.kind \in LastKinds => Whole(r)
      /\ op.kind \notin LastKinds =>
           r.version = p.version /\ r.batches = p.batches /\ r.pending = Pending(NextOffset)
  <2>1. CASE op.kind = "DomainEvents"
    <3>1. f.first = p.version + 1 /\ f.events = es
      BY <1>3, <2>1 DEF NextFrame
    <3>2. r = [p EXCEPT !.batches = Append(@, Domain(f.events)), !.version = @ + Len(f.events)]
      BY <1>1, <2>1, <3>1 DEF ApplyKind, Checked
    <3>3. op.batch = Domain(es)
      BY <2>1 DEF OpOK, Kinds, LastKinds, AuditKinds
    <3>4. r.ok /\ r.batches = Append(p.batches, Domain(es)) /\ r.version = p.version + Len(es)
      BY <3>1, <3>2 DEF Knowledge
    <3> QED
      BY <1>3, <2>1, <3>3, <3>4 DEF Whole, LastKinds
  <2>2. CASE op.kind = "DomainBegin"
    <3>1. f.first = p.version + 1 /\ f.count = Len(es)
      BY <1>3, <2>2 DEF NextFrame
    <3>2. r = [p EXCEPT !.pending = [first |-> f.first, count |-> f.count, events |-> <<>>]]
      BY <1>1, <2>2, <3>1 DEF ApplyKind, Checked
    <3>3. r.ok /\ r.batches = p.batches /\ r.version = p.version
          /\ r.pending = [first |-> f.first, count |-> f.count, events |-> <<>>]
      BY <3>2 DEF Knowledge
    <3>4. NextOffset = 0 /\ SubSeq(es, 1, 0) = <<>>
      BY <2>2, SubSeqEmpty DEF OpOK, NextOffset
    <3>5. r.pending = Pending(NextOffset)
      BY <1>3, <3>1, <3>3, <3>4 DEF Pending
    <3> QED
      BY <2>2, <3>3, <3>5 DEF LastKinds, AuditKinds
  <2>3. CASE op.kind = "DomainPart"
    <3>1. p.pending = Pending(op.offset)
      BY <2>3 DEF Begun, Pending
    <3>2. op.offset < Len(es) /\ es # <<>>
      BY <2>3 DEF OpOK, Kinds, AuditKinds
    <3>3. PartEnd \in Nat /\ PartEnd <= Len(es) /\ PartEnd > op.offset
      BY <1>2, <3>2, PartEnds
    <3>4. f.first = p.version + 1 + op.offset /\ f.events = SubSeq(es, op.offset + 1, PartEnd)
      BY <1>3, <2>3 DEF NextFrame
    <3>5. /\ p.pending.count # 0 /\ p.pending.count = Len(es) /\ p.pending.events = SubSeq(es, 1, op.offset)
          /\ p.pending.first = p.version + 1 /\ Len(p.pending.events) = op.offset
      BY <1>2, <1>3, <3>1, <3>2 DEF Pending
    <3>6. f.first = p.pending.first + Len(p.pending.events)
      BY <1>2, <1>3, <3>4, <3>5
    <3>7. r = [p EXCEPT !.pending.events = @ \o f.events]
      BY <1>1, <2>3, <3>5, <3>6 DEF ApplyKind, ApplyPart, Checked
    <3>8. /\ r.ok /\ r.batches = p.batches /\ r.version = p.version
          /\ r.pending = [p.pending EXCEPT !.events = p.pending.events \o f.events]
      BY <3>7 DEF Knowledge
    <3>9. SubSeq(es, 1, op.offset) \o SubSeq(es, op.offset + 1, PartEnd) = SubSeq(es, 1, PartEnd)
      <4> DEFINE k == op.offset
                 n == PartEnd
      <4>1. es \in Seq(Events) /\ k \in 0..Len(es) /\ n \in k..Len(es)
        BY <1>2, <3>2, <3>3
      <4> HIDE DEF es, k, n
      <4>2. SubSeq(es, 1, k) \o SubSeq(es, k + 1, n) = SubSeq(es, 1, n)
        BY ONLY <4>1, PartsJoin
      <4> QED
        BY <4>2 DEF es, k, n
    <3>10. r.pending = [first |-> p.version + 1, count |-> Len(es), events |-> SubSeq(es, 1, PartEnd)]
      <4>1. p.pending.events \o f.events = SubSeq(es, 1, PartEnd)
        BY <3>4, <3>5, <3>9
      <4>2. /\ r.pending.first = p.version + 1 /\ r.pending.count = Len(es)
            /\ r.pending.events = SubSeq(es, 1, PartEnd)
        BY <1>3, <3>5, <3>8, <4>1 DEF Pendings
      <4>3. r.pending = [first |-> r.pending.first, count |-> r.pending.count, events |-> r.pending.events]
        BY <1>3, <3>8 DEF Pendings
      <4> HIDE DEF f, r, es
      <4> QED
        BY <4>2, <4>3
    <3>11. r.pending = Pending(NextOffset)
      BY <1>3, <2>3, <3>10 DEF Pending, NextOffset
    <3> QED
      BY <2>3, <3>8, <3>11 DEF LastKinds, AuditKinds
  <2>4. CASE op.kind = "DomainCommit"
    <3>1. p.pending = Pending(op.offset)
      BY <2>4 DEF Begun, Pending
    <3>2. op.offset = Len(es) /\ es # <<>> /\ op.batch = Domain(es)
      BY <2>4 DEF OpOK, Kinds, LastKinds, AuditKinds
    <3>3. p.pending.count = Len(es) /\ p.pending.events = es /\ p.pending.count # 0
      BY <1>2, <3>1, <3>2, SubSeqFull DEF Pending
    <3>4. r = [p EXCEPT !.batches = Append(@, Domain(p.pending.events)),
                        !.version = @ + p.pending.count, !.pending = NoBatch]
      BY <1>1, <2>4, <3>3 DEF ApplyKind, Checked
    <3>5. r.ok /\ r.batches = Append(p.batches, Domain(es)) /\ r.version = p.version + Len(es)
      BY <3>3, <3>4 DEF Knowledge
    <3> QED
      BY <1>3, <2>4, <3>2, <3>5 DEF Whole, LastKinds
  <2>5. CASE op.kind \in AuditKinds
    <3>1. op.batch = Audit(op.kind, op.batch.request) /\ f.request = op.batch.request
      BY <2>5 DEF OpOK, NextFrame
    <3>2. Received(p) = Received(stream.known)
      BY <1>3 DEF Received
    <3>3. r = [p EXCEPT !.batches = Append(@, Audit(f.kind, f.request))]
      BY <1>1, <2>5, <3>1, <3>2 DEF ApplyKind, Checked, OpOK, AuditKinds
    <3>4. r.ok /\ r.batches = Append(p.batches, op.batch) /\ r.version = p.version
      BY <1>1, <3>1, <3>3 DEF Knowledge
    <3>5. Len(es) = 0
      BY <3>1 DEF Audit
    <3> QED
      BY <1>3, <2>5, <3>4, <3>5 DEF Whole, LastKinds
  <2> QED
    BY <2>1, <2>2, <2>3, <2>4, <2>5 DEF Kinds, LastKinds
<1>5. /\ q.ok = r.ok /\ q.version = r.version /\ q.batches = r.batches /\ q.pending = r.pending
      /\ q.sequence = f.seq
  <2>1. q = [r EXCEPT !.sequence = f.seq]
    BY <1>1 DEF ApplyFrame
  <2>2. r \in Knowledge
    BY NextFrameTypes, ApplyKindTypes
  <2> QED
    BY <2>1, <2>2 DEF Knowledge
<1> HIDE DEF f, q, r
<1> QED
  BY <1>1, <1>3, <1>4, <1>5 DEF Whole, f, q

(***************************************************************************)
(* Files and what is read from them.                                       *)
(***************************************************************************)
FramesIn(file) == [i \in 1..Len(file) |-> file[i].frame]

LEMMA PieceTypes ==
    /\ \A piece \in Pieces : piece.frame \in FrameSet /\ piece.cells \in Nat
    /\ \A f \in FrameSet, count \in Nat :
         Piece(f, count) \in Pieces /\ Piece(f, count).frame = f /\ Piece(f, count).cells = count
BY DEF Pieces, Piece

LEMMA FramesInTypes ==
    ASSUME NEW file \in Seq(Pieces)
    PROVE  FramesIn(file) \in Seq(FrameSet) /\ Len(FramesIn(file)) = Len(file)
<1>1. \A i \in 1..Len(file) : file[i].frame \in FrameSet
  BY PieceTypes
<1> QED
  BY <1>1 DEF FramesIn

LEMMA FrontTypes ==
    ASSUME NEW X, NEW file \in Seq(X), file # <<>>
    PROVE  /\ Front(file) \in Seq(X) /\ Len(Front(file)) = Len(file) - 1 /\ Len(file) \in Nat \ {0}
           /\ \A i \in 1..(Len(file) - 1) : Front(file)[i] = file[i]
<1> DEFINE n == Len(file) - 1
<1>1. Len(file) \in Nat \ {0} /\ \A i \in 1..n : file[i] \in X
  BY EmptySeq
<1>2. n \in Int /\ 1 \in Int /\ n - 1 + 1 = n /\ \A i \in 1..n : 1 + i - 1 = i
  BY <1>1
<1>3. /\ SubSeq(file, 1, n) \in Seq(X) /\ Len(SubSeq(file, 1, n)) = IF 1 <= n THEN n - 1 + 1 ELSE 0
      /\ \A i \in 1..(n - 1 + 1) : SubSeq(file, 1, n)[i] = file[1 + i - 1]
  <2> HIDE DEF n
  <2> QED
    BY ONLY <1>1, <1>2, SubSeqProperties
<1> QED
  BY <1>1, <1>2, <1>3 DEF Front

LEMMA SizeOfNothing == Size(<<>>) = 0
<1> DEFINE S == SUBSET (DOMAIN <<>>)
           Body(g) == [s \in S |-> IF s = {} THEN 0
                                   ELSE g[s \ {Max(s)}] + <<>>[Max(s)].cells]
           g == CHOOSE h : h = Body(h)
           zero == [s \in S |-> 0]
<1>1. \A s \in S : s = {}
  OBVIOUS
<1>2. zero = Body(zero)
  BY <1>1
<1>3. g = Body(g)
  <2> HIDE DEF zero, Body
  <2> QED
    BY <1>2
<1>4. Size(<<>>) = g[DOMAIN <<>>]
  BY DEF Size, FoldLeft, MapThenFoldSet
<1>5. DOMAIN <<>> \in S /\ DOMAIN <<>> = {}
  BY <1>1
<1>6. Body(g)[DOMAIN <<>>] = 0
  BY <1>5
<1> HIDE DEF Body, g
<1> QED
  BY <1>3, <1>4, <1>6

LEMMA ReadIntact ==
    ASSUME NEW file \in Seq(Pieces), Intact(file)
    PROVE  ReadFrames(file) = [frames |-> FramesIn(file), how |-> "eof"]
<1>1. Break(file) = Len(file) + 1
  <2>1. ASSUME NEW n \in 1..(Len(file) + 1), n <= Len(file) => ~IsWhole(file[n])
        PROVE  n = Len(file) + 1
    BY <2>1 DEF Intact
  <2> QED
    BY <2>1 DEF Break, Intact
<1>2. Len(file) \in Nat /\ ~(Len(file) + 1 <= Len(file)) /\ Len(file) + 1 > Len(file)
      /\ Len(file) + 1 - 1 = Len(file)
  OBVIOUS
<1> QED
  BY <1>1, <1>2 DEF ReadFrames, FramesIn

LEMMA ReadTorn ==
    ASSUME NEW file \in Seq(Pieces), Torn(file)
    PROVE  /\ ReadFrames(file) = [frames |-> FramesIn(Front(file)), how |-> "torn"]
           /\ Intact(Front(file)) /\ Front(file) \in Seq(Pieces)
<1> DEFINE n == Len(file)
           broken == file[n]
<1>1. /\ Front(file) \in Seq(Pieces) /\ Len(Front(file)) = n - 1 /\ n \in Nat \ {0}
      /\ \A i \in 1..(n - 1) : Front(file)[i] = file[i]
  BY FrontTypes DEF Torn
<1>2. broken \in Pieces /\ broken.cells \in Nat /\ broken.frame \in FrameSet
  BY <1>1, PieceTypes
<1>3. ~IsWhole(broken) /\ FrameCells(broken.frame) \in Nat
  BY <1>2, FrameParts DEF Torn, IsWhole
<1>4. Break(file) = n
  <2>1. ASSUME NEW k \in 1..(n + 1), \A i \in 1..(k - 1) : IsWhole(file[i]),
               k <= n => ~IsWhole(file[k])
        PROVE  k = n
    BY <1>1, <1>3, <2>1 DEF Torn
  <2> QED
    BY <1>1, <1>3, <2>1 DEF Break, Torn
<1>5. SubSeq(file, n + 1, n) = <<>>
  BY <1>1, SubSeqEmpty
<1>6. Intact(Front(file))
  BY <1>1 DEF Intact, Torn
<1>7. [i \in 1..(n - 1) |-> file[i].frame] = FramesIn(Front(file))
  BY <1>1 DEF FramesIn
<1>8. broken.cells + Size(SubSeq(file, n + 1, n)) = broken.cells
  <2>1. Size(SubSeq(file, n + 1, n)) = 0
    BY <1>5, SizeOfNothing, Zenon
  <2> HIDE DEF broken
  <2> QED
    BY <1>2, <2>1
<1>9. /\ ~(n > n)
      /\ ~(broken.cells = HeaderCells)
      /\ broken.cells <= (IF broken.cells < HeaderCells THEN HeaderCells ELSE FrameCells(broken.frame))
  BY <1>1, <1>2, <1>3 DEF Torn, HeaderCells
<1> HIDE DEF broken
<1>10. ReadFrames(file).how = "torn" /\ ReadFrames(file).frames = FramesIn(Front(file))
  BY <1>4, <1>7, <1>8, <1>9 DEF ReadFrames, broken
<1>11. ReadFrames(file) = [frames |-> ReadFrames(file).frames, how |-> ReadFrames(file).how]
  BY DEF ReadFrames
<1> QED
  BY <1>1, <1>6, <1>10, <1>11

(***************************************************************************)
(* What the files hold.                                                    *)
(***************************************************************************)
LEMMA ContentsOK ==
    ASSUME TypeOK, FilesOK, NEW n \in Segments
    PROVE  /\ n \in 1..MaxSegments /\ Contents(n) \in Seq(Pieces)
           /\ Intact(Contents(n)) \/ (Torn(Contents(n)) /\ n \notin DOMAIN archives /\ ~stream.ready)
<1>0. MaxSegments \in Nat
  BY JournalAssumption
<1>1. CASE n \in DOMAIN archives
  BY <1>0, <1>1 DEF TypeOK, FilesOK, Contents
<1>2. CASE n \notin DOMAIN archives
  <2>1. n \in DOMAIN logs /\ Contents(n) = logs[n]
    BY <1>2 DEF Segments, Contents
  <2> QED
    BY <1>2, <2>1 DEF TypeOK, FilesOK
<1> QED
  BY <1>1, <1>2

LEMMA ContentsRead ==
    ASSUME TypeOK, FilesOK, NEW n \in Segments
    PROVE  Readable(n) /\ ReadFrames(Contents(n)).frames \in Seq(FrameSet)
<1>1. CASE Intact(Contents(n))
  <2>1. ReadFrames(Contents(n)) = [frames |-> FramesIn(Contents(n)), how |-> "eof"]
    BY <1>1, ContentsOK, ReadIntact
  <2>2. FramesIn(Contents(n)) \in Seq(FrameSet)
    BY ContentsOK, FramesInTypes
  <2> QED
    BY <2>1, <2>2 DEF Readable
<1>2. CASE Torn(Contents(n)) /\ n \notin DOMAIN archives
  <2>1. /\ ReadFrames(Contents(n)) = [frames |-> FramesIn(Front(Contents(n))), how |-> "torn"]
        /\ Front(Contents(n)) \in Seq(Pieces)
    BY <1>2, ContentsOK, ReadTorn
  <2>2. FramesIn(Front(Contents(n))) \in Seq(FrameSet)
    BY <2>1, FramesInTypes
  <2> QED
    BY <1>2, <2>1, <2>2 DEF Readable
<1> QED
  BY <1>1, <1>2, ContentsOK

LEMMA FramesTypes ==
    ASSUME TypeOK, FilesOK
    PROVE  /\ [n \in 1..MaxSegments |-> FramesOf(n)] \in Seq(Seq(FrameSet))
           /\ [n \in 1..MaxSegments |-> FramesOf(n)] # <<>>
           /\ AllFrames \in Seq(FrameSet)
<1> DEFINE c == [n \in 1..MaxSegments |-> FramesOf(n)]
<1>1. MaxSegments \in Nat \ {0}
  BY JournalAssumption
<1>2. \A n \in 1..MaxSegments : FramesOf(n) \in Seq(FrameSet)
  BY ContentsRead, EmptySeq DEF FramesOf
<1>3. c \in Seq(Seq(FrameSet)) /\ Len(c) = MaxSegments
  BY <1>1, <1>2
<1>4. c # <<>>
  BY <1>1, <1>3
<1>5. AllFrames = FlattenSeq(c)
  BY DEF AllFrames
<1> HIDE DEF c
<1>6. FlattenSeq(c) \in Seq(FrameSet)
  BY <1>3, <1>4, FlattenTypes
<1> QED
  BY <1>3, <1>4, <1>5, <1>6 DEF c

LEMMA ReplayIs ==
    ASSUME TypeOK, FilesOK
    PROVE  Replay = Replayed(AllFrames)
<1> DEFINE all == Replayed(AllFrames)
           readable == \A n \in Segments : Readable(n)
<1>1. all \in Knowledge
  BY FramesTypes, ReplayedTypes
<1>2. readable
  BY ContentsRead
<1>3. {Replayed(frames) : frames \in {AllFrames}} = {all}
  OBVIOUS
<1>4. Only({Replayed(frames) : frames \in {AllFrames}}) = all
  BY <1>3, OnlyMember
<1>5. Replay = [all EXCEPT !.ok = @ /\ readable]
  BY <1>4 DEF Replay
<1> HIDE DEF all, readable
<1>6. all.ok /\ readable <=> all.ok
  BY <1>2
<1>7. [all EXCEPT !.ok = @ /\ readable] = all
  <2>1. (all.ok /\ readable) = all.ok
    BY <1>1, <1>2 DEF Knowledge
  <2> QED
    BY <1>1, <2>1 DEF Knowledge
<1> QED
  BY <1>5, <1>7 DEF all

LEMMA ActiveIs ==
    ASSUME TypeOK
    PROVE  /\ Active \in 1..MaxSegments /\ Active \notin DOMAIN archives
           /\ \A n \in Segments : n <= Active
           /\ Active \in DOMAIN logs \/ Active - 1 \in DOMAIN archives \/ (Segments = {} /\ Active = 1)
<1>1. MaxSegments \in Nat \ {0}
  BY JournalAssumption
<1>2. Segments \subseteq 1..MaxSegments
  BY <1>1 DEF TypeOK, Segments
<1>3. CASE Segments = {}
  BY <1>1, <1>3 DEF Active, Segments
<1>4. CASE Segments # {}
  <2> DEFINE last == CHOOSE n \in Segments : \A m \in Segments : m <= n
  <2>1. \E n \in Segments : \A m \in Segments : m <= n
    BY <1>1, <1>2, <1>4, Orders!GreatestMember
  <2>2. last \in Segments /\ \A m \in Segments : m <= last
    BY <2>1
  <2>3. Active = IF last \in DOMAIN archives THEN last + 1 ELSE last
    BY <1>4 DEF Active
  <2> HIDE DEF last
  <2>4. CASE last \in DOMAIN archives
    <3>1. last \in 1..(MaxSegments - 1)
      BY <2>4 DEF TypeOK
    <3>2. last + 1 \notin Segments
      BY <1>1, <2>2, <3>1
    <3>3. \A m \in Segments : m <= last + 1
      BY <1>1, <1>2, <2>2, <3>1
    <3> QED
      BY <1>1, <2>3, <2>4, <3>1, <3>2, <3>3 DEF Segments
  <2>5. CASE last \notin DOMAIN archives
    BY <1>2, <2>2, <2>3, <2>5 DEF Segments
  <2> QED
    BY <2>4, <2>5
<1> QED
  BY <1>3, <1>4

LEMMA SegmentIsActive ==
    ASSUME TypeOK, AtEnd, op.pc # "published"
    PROVE  stream.segment = Active
<1>1. /\ stream.segment \in 1..MaxSegments /\ MaxSegments \in Nat
      /\ Segments \subseteq 1..MaxSegments
  BY JournalAssumption DEF TypeOK, Segments
<1>2. stream.segment \in DOMAIN logs => stream.segment <= Active
  BY ActiveIs DEF Segments
<1>3. stream.segment - 1 \in DOMAIN archives => stream.segment - 1 <= Active /\ stream.segment - 1 # Active
  BY ActiveIs DEF Segments
<1>4. Active \in DOMAIN logs => Active <= stream.segment
  BY DEF AtEnd, Segments
<1>5. Active - 1 \in DOMAIN archives => Active - 1 <= stream.segment /\ Active - 1 # stream.segment
  BY DEF AtEnd, Segments
<1>6. Active <= stream.segment
  BY <1>1, <1>4, <1>5, ActiveIs
<1>7. stream.segment <= Active
  BY <1>1, <1>2, <1>3, ActiveIs DEF AtEnd
<1> QED
  BY <1>1, <1>6, <1>7, ActiveIs

\* Nothing that is read differs when no segment does.
LEMMA FramesUnmoved ==
    ASSUME \A n \in 1..MaxSegments : FramesOf(n)' = FramesOf(n)
    PROVE  AllFrames' = AllFrames
BY DEF AllFrames

LEMMA FilesUnmoved ==
    ASSUME UNCHANGED <<logs, archives>>
    PROVE  AllFrames' = AllFrames
<1>1. \A n \in 1..MaxSegments : FramesOf(n)' = FramesOf(n)
  BY DEF FramesOf, Segments, Contents
<1> QED
  BY <1>1, FramesUnmoved

(***************************************************************************)
(* A frame more at the end of a file, whole or cut.                        *)
(***************************************************************************)
LEMMA ReadWhole ==
    ASSUME NEW file \in Seq(Pieces), Intact(file), NEW f \in FrameSet, NEW more,
           more = Append(file, Piece(f, FrameCells(f)))
    PROVE  /\ more \in Seq(Pieces) /\ Intact(more)
           /\ ReadFrames(file).frames = FramesIn(file) /\ FramesIn(file) \in Seq(FrameSet)
           /\ ReadFrames(more).frames = Append(FramesIn(file), f)
<1> DEFINE piece == Piece(f, FrameCells(f))
<1>1. piece \in Pieces /\ piece.frame = f /\ IsWhole(piece)
  BY PieceTypes, FrameParts DEF IsWhole
<1> HIDE DEF piece
<1>2. /\ more \in Seq(Pieces) /\ Len(more) = Len(file) + 1 /\ more[Len(file) + 1] = piece
      /\ \A i \in 1..Len(file) : more[i] = file[i]
      /\ Len(file) \in Nat
  BY <1>1 DEF piece
<1>3. Intact(more)
  <2> SUFFICES ASSUME NEW i \in 1..(Len(file) + 1)
               PROVE  IsWhole(more[i])
    BY <1>2 DEF Intact
  <2>1. CASE i = Len(file) + 1
    BY <1>1, <1>2, <2>1
  <2>2. CASE i # Len(file) + 1
    <3>1. i \in 1..Len(file)
      BY <1>2, <2>2
    <3> QED
      BY <1>2, <3>1 DEF Intact
  <2> QED
    BY <2>1, <2>2
<1>4. /\ ReadFrames(file).frames = FramesIn(file) /\ ReadFrames(more).frames = FramesIn(more)
      /\ FramesIn(file) \in Seq(FrameSet) /\ FramesIn(more) \in Seq(FrameSet)
      /\ Len(FramesIn(file)) = Len(file) /\ Len(FramesIn(more)) = Len(file) + 1
  <2>1. /\ ReadFrames(file) = [frames |-> FramesIn(file), how |-> "eof"]
        /\ ReadFrames(more) = [frames |-> FramesIn(more), how |-> "eof"]
    BY <1>2, <1>3, ReadIntact
  <2>2. FramesIn(file) \in Seq(FrameSet) /\ Len(FramesIn(file)) = Len(file)
    BY FramesInTypes
  <2>3. FramesIn(more) \in Seq(FrameSet) /\ Len(FramesIn(more)) = Len(more)
    BY <1>2, FramesInTypes
  <2> QED
    BY <1>2, <2>1, <2>2, <2>3
<1>5. \A i \in 1..(Len(file) + 1) :
        FramesIn(more)[i] = IF i = Len(file) + 1 THEN f ELSE FramesIn(file)[i]
  BY <1>1, <1>2 DEF FramesIn
<1>6. FramesIn(more) = Append(FramesIn(file), f)
  <2> DEFINE a == FramesIn(file)
             b == FramesIn(more)
             n == Len(file)
  <2>1. /\ a \in Seq(FrameSet) /\ b \in Seq(FrameSet) /\ Len(a) = n /\ Len(b) = n + 1
        /\ \A i \in 1..(n + 1) : b[i] = IF i = n + 1 THEN f ELSE a[i]
    BY <1>4, <1>5
  <2> HIDE DEF a, b, n
  <2>2. b = Append(a, f)
    BY <2>1
  <2> QED
    BY <2>2 DEF a, b
<1> QED
  BY <1>2, <1>3, <1>4, <1>6

LEMMA ReadCut ==
    ASSUME NEW file \in Seq(Pieces), Intact(file), NEW f \in FrameSet, NEW more,
           NEW count \in 1..(FrameCells(f) - 1), count # HeaderCells,
           more = Append(file, Piece(f, count))
    PROVE  /\ more \in Seq(Pieces) /\ Torn(more)
           /\ ReadFrames(more).frames = ReadFrames(file).frames
<1> DEFINE piece == Piece(f, count)
<1>1. FrameCells(f) \in Nat /\ count \in Nat /\ count < FrameCells(f)
  BY FrameParts
<1>2. piece \in Pieces /\ piece.frame = f /\ piece.cells = count
  BY <1>1, PieceTypes
<1> HIDE DEF piece
<1>3. /\ more \in Seq(Pieces) /\ more # <<>> /\ Len(more) = Len(file) + 1
      /\ more[Len(file) + 1] = piece /\ \A i \in 1..Len(file) : more[i] = file[i]
      /\ Len(file) \in Nat
  BY <1>2 DEF piece
<1>4. Torn(more)
  <2>1. Len(more) - 1 = Len(file) /\ more[Len(more)] = piece
    BY <1>3
  <2> QED
    BY <1>1, <1>2, <1>3, <2>1 DEF Torn, Intact
<1>5. Front(more) = file
  <2>1. /\ Front(more) \in Seq(Pieces) /\ Len(Front(more)) = Len(file)
        /\ \A i \in 1..Len(file) : Front(more)[i] = file[i]
    <3>1. /\ Front(more) \in Seq(Pieces) /\ Len(Front(more)) = Len(more) - 1
          /\ \A i \in 1..(Len(more) - 1) : Front(more)[i] = more[i]
      BY <1>3, FrontTypes
    <3>2. Len(more) - 1 = Len(file)
      BY <1>3
    <3> QED
      BY <1>3, <3>1, <3>2
  <2> DEFINE front == Front(more)
  <2> HIDE DEF front
  <2>2. front = file
    BY <2>1, SeqEqual DEF front
  <2> QED
    BY <2>2 DEF front
<1>6. /\ ReadFrames(file) = [frames |-> FramesIn(file), how |-> "eof"]
      /\ ReadFrames(more) = [frames |-> FramesIn(Front(more)), how |-> "torn"]
  BY <1>3, <1>4, ReadIntact, ReadTorn
<1> QED
  BY <1>3, <1>4, <1>5, <1>6

LEMMA NothingRead ==
    /\ <<>> \in Seq(Pieces) /\ Intact(<<>>) /\ FramesIn(<<>>) = <<>>
    /\ ReadFrames(<<>>).frames = <<>>
<1>1. <<>> \in Seq(Pieces) /\ Intact(<<>>)
  BY EmptySeq DEF Intact
<1>2. FramesIn(<<>>) = <<>>
  BY DEF FramesIn
<1>3. ReadFrames(<<>>) = [frames |-> FramesIn(<<>>), how |-> "eof"]
  BY <1>1, ReadIntact
<1>4. ReadFrames(<<>>).frames = FramesIn(<<>>)
  BY <1>3
<1> QED
  BY <1>1, <1>2, <1>4, Zenon

\* The segment the stream writes to, which nothing follows.
LEMMA LastSegment ==
    ASSUME TypeOK, FilesOK, AtEnd, stream.ready, op.pc # "published"
    PROVE  /\ Written \in Seq(Pieces) /\ Intact(Written)
           /\ FramesOf(stream.segment) = FramesIn(Written)
           /\ \A n \in 1..MaxSegments : n > stream.segment => FramesOf(n) = <<>>
<1>1. stream.segment \notin DOMAIN archives /\ stream.segment \in 1..MaxSegments /\ MaxSegments \in Nat
  BY JournalAssumption DEF AtEnd, TypeOK
<1>2. \A n \in 1..MaxSegments : n > stream.segment => FramesOf(n) = <<>>
  BY <1>1 DEF AtEnd, FramesOf
<1>3. CASE stream.segment \in DOMAIN logs
  <2>1. Written = logs[stream.segment] /\ Written \in Seq(Pieces) /\ Intact(Written)
    BY <1>1, <1>3 DEF Written, TypeOK, FilesOK
  <2>2. FramesOf(stream.segment) = ReadFrames(Written).frames
    BY <1>1, <1>3, <2>1 DEF FramesOf, Segments, Contents
  <2> QED
    BY <1>2, <2>1, <2>2, ReadIntact
<1>4. CASE stream.segment \notin DOMAIN logs
  BY <1>1, <1>2, <1>4, NothingRead DEF Written, FramesOf, Segments
<1> QED
  BY <1>3, <1>4

LEMMA FramesGrow ==
    ASSUME NEW c \in [1..MaxSegments -> Seq(FrameSet)], NEW d \in [1..MaxSegments -> Seq(FrameSet)],
           NEW s \in 1..MaxSegments, NEW f \in FrameSet, d[s] = Append(c[s], f),
           \A n \in 1..MaxSegments : n # s => d[n] = c[n],
           \A n \in 1..MaxSegments : n > s => c[n] = <<>>
    PROVE  FlattenSeq(d) = Append(FlattenSeq(c), f)
<1>1. MaxSegments \in Nat
  BY JournalAssumption
<1>2. /\ c \in Seq(Seq(FrameSet)) /\ d \in Seq(Seq(FrameSet))
      /\ Len(c) = MaxSegments /\ Len(d) = MaxSegments
  BY <1>1
<1>3. /\ Len(c) = Len(d) /\ s \in 1..Len(c)
      /\ \A i \in 1..Len(c) : i # s => c[i] = d[i]
      /\ \A i \in 1..Len(c) : i > s => c[i] = <<>>
  BY <1>2
<1> QED
  BY <1>2, <1>3, FlattenAppend

LEMMA SegmentGrows ==
    ASSUME TypeOK, FilesOK, NEW s \in 1..MaxSegments, NEW f \in FrameSet,
           FramesOf(s)' = Append(FramesOf(s), f),
           \A n \in 1..MaxSegments : n # s => FramesOf(n)' = FramesOf(n),
           \A n \in 1..MaxSegments : n > s => FramesOf(n) = <<>>
    PROVE  AllFrames' = Append(AllFrames, f)
<1>1. PICK c : c = [n \in 1..MaxSegments |-> FramesOf(n)]
  OBVIOUS
<1>2. PICK d : d = [n \in 1..MaxSegments |-> FramesOf(n)']
  OBVIOUS
<1>3. \A n \in 1..MaxSegments : FramesOf(n) \in Seq(FrameSet)
  BY ContentsRead, EmptySeq DEF FramesOf
<1>4. \A n \in 1..MaxSegments : FramesOf(n)' \in Seq(FrameSet)
  <2> TAKE n \in 1..MaxSegments
  <2>1. CASE n = s
    BY <1>3, <2>1, AppendProperties
  <2>2. CASE n # s
    BY <1>3, <2>2
  <2> QED
    BY <2>1, <2>2
<1>5. /\ c \in [1..MaxSegments -> Seq(FrameSet)] /\ d \in [1..MaxSegments -> Seq(FrameSet)]
      /\ d[s] = Append(c[s], f)
      /\ \A n \in 1..MaxSegments : n # s => d[n] = c[n]
      /\ \A n \in 1..MaxSegments : n > s => c[n] = <<>>
  BY <1>1, <1>2, <1>3, <1>4
<1>6. FlattenSeq(d) = Append(FlattenSeq(c), f)
  BY ONLY <1>5, FramesGrow
<1> QED
  BY <1>1, <1>2, <1>6 DEF AllFrames

LEMMA SegmentShrinks ==
    ASSUME TypeOK, FilesOK, NEW s \in 1..MaxSegments, NEW f \in FrameSet,
           FramesOf(s)' \in Seq(FrameSet), FramesOf(s) = Append(FramesOf(s)', f),
           \A n \in 1..MaxSegments : n # s => FramesOf(n)' = FramesOf(n),
           \A n \in 1..MaxSegments : n > s => FramesOf(n) = <<>>
    PROVE  AllFrames' \in Seq(FrameSet) /\ AllFrames = Append(AllFrames', f)
<1>0. MaxSegments \in Nat \ {0} /\ s \in Nat
  BY JournalAssumption
<1>1. PICK c : c = [n \in 1..MaxSegments |-> FramesOf(n)]
  OBVIOUS
<1>2. PICK d : d = [n \in 1..MaxSegments |-> FramesOf(n)']
  OBVIOUS
<1>3. \A n \in 1..MaxSegments : FramesOf(n) \in Seq(FrameSet)
  BY ContentsRead, EmptySeq DEF FramesOf
<1>4. /\ d \in [1..MaxSegments -> Seq(FrameSet)] /\ c \in [1..MaxSegments -> Seq(FrameSet)]
      /\ c[s] = Append(d[s], f)
      /\ \A n \in 1..MaxSegments : n # s => c[n] = d[n]
      /\ \A n \in 1..MaxSegments : n > s => d[n] = <<>>
  <2>1. \A n \in 1..MaxSegments : FramesOf(n)' \in Seq(FrameSet)
    <3> TAKE n \in 1..MaxSegments
    <3>1. CASE n = s
      BY <3>1
    <3>2. CASE n # s
      BY <1>3, <3>2
    <3> QED
      BY <3>1, <3>2
  <2>2. d \in [1..MaxSegments -> Seq(FrameSet)] /\ c \in [1..MaxSegments -> Seq(FrameSet)]
    BY <1>1, <1>2, <1>3, <2>1
  <2>3. c[s] = Append(d[s], f)
    BY <1>1, <1>2
  <2>4. \A n \in 1..MaxSegments : n # s => c[n] = d[n]
    BY <1>1, <1>2
  <2>5. \A n \in 1..MaxSegments : n > s => d[n] = <<>>
    <3> TAKE n \in 1..MaxSegments
    <3>1. n > s => n # s
      BY <1>0
    <3> QED
      BY <1>1, <2>4, <3>1
  <2> QED
    BY <2>2, <2>3, <2>4, <2>5
<1>5. FlattenSeq(c) = Append(FlattenSeq(d), f)
  BY ONLY <1>4, FramesGrow
<1>6. FlattenSeq(d) \in Seq(FrameSet)
  <2>1. d \in Seq(Seq(FrameSet)) /\ d # <<>>
    BY <1>0, <1>4
  <2> QED
    BY <2>1, FlattenTypes
<1> QED
  BY <1>1, <1>2, <1>5, <1>6 DEF AllFrames

(***************************************************************************)
(* Each action preserves the invariant.  First those that touch no file.   *)
(***************************************************************************)
LEMMA DurableTypes ==
    ASSUME TypeOK, FilesOK, unsynced \in {0, 1}
    PROVE  Durable \in Seq(FrameSet) /\ (unsynced = 0 => Durable = AllFrames)
<1> DEFINE n == Len(AllFrames) - unsynced
<1>1. AllFrames \in Seq(FrameSet) /\ Len(AllFrames) \in Nat
  BY FramesTypes
<1>2. n \in Int /\ \A i \in 1..n : AllFrames[i] \in FrameSet
  BY <1>1
<1>3. SubSeq(AllFrames, 1, n) \in Seq(FrameSet)
  <2> HIDE DEF n
  <2> QED
    BY <1>2, SubSeqProperties
<1>4. unsynced = 0 => SubSeq(AllFrames, 1, n) = AllFrames
  BY <1>1, SubSeqFull
<1> QED
  BY <1>3, <1>4 DEF Durable

LEMMA RunningParts ==
    ASSUME JournalInv, stream.ready
    PROVE  /\ TypeOK /\ FilesOK /\ AtEnd /\ OpOK /\ unsynced \in {0, 1}
           /\ Durable \in Seq(FrameSet) /\ Replayed(Durable) \in Knowledge
           /\ Agrees(Replayed(Durable)) /\ IsPrefix(acked, stream.known.batches)
           /\ unsynced = (IF op.pc = "written" THEN 1 ELSE 0)
           /\ op.pc = "written" => AllFrames = Append(Durable, NextFrame)
           /\ op.pc # "written" => AllFrames = Durable
           /\ op.pc # "idle" => op.kind \in Kinds /\ NextFrame \in FrameSet
<1>1. TypeOK /\ FilesOK /\ Running
  BY DEF JournalInv
<1>2. AtEnd /\ OpOK /\ unsynced \in {0, 1}
  BY <1>1 DEF Running
<1>3. Durable \in Seq(FrameSet) /\ (unsynced = 0 => Durable = AllFrames)
  BY <1>1, <1>2, DurableTypes
<1>4. Replayed(Durable) \in Knowledge
  BY <1>3, ReplayedTypes
<1>5. op.pc # "idle" => op.kind \in Kinds /\ NextFrame \in FrameSet
  BY <1>1, <1>2, NextFrameTypes DEF OpOK
<1> QED
  BY <1>1, <1>2, <1>3, <1>4, <1>5 DEF Running

LEMMA DurableUnmoved ==
    ASSUME UNCHANGED <<logs, archives, unsynced>>
    PROVE  Durable' = Durable
<1>1. AllFrames' = AllFrames
  BY FilesUnmoved
<1> QED
  BY <1>1 DEF Durable

Quiet(pc) == pc \in {"idle", "frame", "compressing", "rotated"}

LEMMA OpStep ==
    ASSUME JournalInv, stream.ready, UNCHANGED <<logs, archives, unsynced, stream, acked>>,
           Quiet(op.pc), Quiet(op'.pc), ops' \in Nat,
           op' \in [pc : Positions, kind : Kinds \cup {"none"}, offset : Nat, batch : Batches],
           op'.pc = "compressing" =>
             stream.segment \in DOMAIN logs /\ stream.segment < MaxSegments,
           OpOK',
           op'.kind \in {"DomainPart", "DomainCommit"} => op'.kind = op.kind /\ op'.offset = op.offset
                                                         /\ op'.batch = op.batch
    PROVE  JournalInv'
<1> USE DEF Quiet
<1>1. TypeOK'
  BY DEF JournalInv, TypeOK
<1>2. FilesOK'
  BY DEF JournalInv, FilesOK
<1>3. AtEnd'
  BY DEF JournalInv, Running, AtEnd, Segments
<1>4. PICK p : p = Replayed(Durable)
  OBVIOUS
<1>5. Replayed(Durable)' = p
  <2>1. Durable' = Durable
    BY DurableUnmoved
  <2> QED
    BY <1>4, <2>1
<1>6. Agrees(p)'
  BY <1>4, RunningParts DEF Agrees, Begun
<1>7. /\ unsynced' = (IF op'.pc = "written" THEN 1 ELSE 0)
      /\ IsPrefix(acked, stream.known.batches)'
  BY RunningParts
<1> QED
  BY <1>1, <1>2, <1>3, <1>5, <1>6, <1>7 DEF JournalInv, Running

LEMMA IdleTypes == Idle \in [pc : Positions, kind : Kinds \cup {"none"}, offset : Nat, batch : Batches]
<1>1. <<>> \in Seq(Events) /\ Domain(<<>>) \in Batches
  BY EmptySeq, BatchTypes
<1> QED
  BY <1>1 DEF Idle, Positions

LEMMA IdleOK ==
    ASSUME op' = Idle
    PROVE  /\ op' \in [pc : Positions, kind : Kinds \cup {"none"}, offset : Nat, batch : Batches]
           /\ OpOK' /\ Quiet(op'.pc) /\ op'.kind = "none" /\ op'.pc = "idle"
<1>1. op' \in [pc : Positions, kind : Kinds \cup {"none"}, offset : Nat, batch : Batches]
  BY IdleTypes
<1>2. OpOK' /\ Quiet(op'.pc) /\ op'.kind = "none" /\ op'.pc = "idle"
  BY DEF Idle, OpOK, Quiet, Kinds, LastKinds, AuditKinds
<1> QED
  BY <1>1, <1>2

LEMMA CancelStep ==
    ASSUME JournalInv, stream.ready, op.pc = "frame", op' = Idle,
           UNCHANGED <<disk, stream, ops, acked>>
    PROVE  JournalInv' /\ AllFrames' = AllFrames
<1>1. ops \in Nat
  BY DEF JournalInv, TypeOK
<1> QED
  BY <1>1, OpStep, IdleOK, FilesUnmoved DEF disk, Quiet

LEMMA BeginStep ==
    ASSUME JournalInv, NEW kind \in Kinds \ {"DomainPart", "DomainCommit"}, NEW batch \in Batches,
           Begin(kind, batch),
           kind \in AuditKinds => batch = Audit(kind, batch.request),
           kind = "RequestReceived" => batch.request \notin Received(stream.known),
           kind = "RequestCompleted" => batch.request \in Received(stream.known),
           kind \notin AuditKinds => batch = Domain(batch.events) /\ batch.events # <<>>
    PROVE  JournalInv' /\ AllFrames' = AllFrames
<1>1. /\ op' = [pc |-> "frame", kind |-> kind, offset |-> 0, batch |-> batch] /\ ops' \in Nat
      /\ stream.ready /\ op.pc = "idle" /\ UNCHANGED <<logs, archives, unsynced, stream, acked>>
  BY DEF Begin, disk, JournalInv, TypeOK
<1>2. OpOK'
  BY <1>1 DEF OpOK, LastKinds
<1>3. op' \in [pc : Positions, kind : Kinds \cup {"none"}, offset : Nat, batch : Batches]
  BY <1>1 DEF Positions
<1> QED
  BY <1>1, <1>2, <1>3, OpStep, FilesUnmoved DEF Quiet

LEMMA AppendEventsStep ==
    ASSUME JournalInv, NEW n \in Sizes, AppendEvents(n)
    PROVE  JournalInv' /\ AllFrames' = AllFrames
<1> DEFINE domainEvents == [i \in 1..n |-> [op |-> ops + 1, index |-> i]]
           kind == IF n <= PartSize THEN "DomainEvents" ELSE "DomainBegin"
<1>1. n \in Nat \ {0} /\ ops \in Nat
  BY JournalAssumption DEF JournalInv, TypeOK
<1>2. domainEvents \in Seq(Events) /\ Len(domainEvents) = n
  <2>1. \A i \in 1..n : [op |-> ops + 1, index |-> i] \in Events
    BY <1>1 DEF Events
  <2> QED
    BY <1>1, <2>1
<1>3. domainEvents # <<>>
  BY <1>1, <1>2
<1>4. Begin(kind, Domain(domainEvents))
  BY DEF AppendEvents
<1> HIDE DEF domainEvents
<1>5. Domain(domainEvents) \in Batches /\ Domain(domainEvents).events = domainEvents
  BY <1>2, BatchTypes DEF Domain
<1>6. kind \in Kinds \ {"DomainPart", "DomainCommit"} /\ kind \notin AuditKinds
  BY DEF Kinds, LastKinds, AuditKinds
<1>7. kind # "RequestReceived" /\ kind # "RequestCompleted"
  OBVIOUS
<1> HIDE DEF kind
<1> QED
  BY <1>3, <1>4, <1>5, <1>6, <1>7, BeginStep

LEMMA RecordAgentRequestStep ==
    ASSUME JournalInv, NEW q \in Requests, RecordAgentRequest(q)
    PROVE  JournalInv' /\ AllFrames' = AllFrames
<1> DEFINE batch == Audit("RequestReceived", q)
<1>1. batch \in Batches /\ batch.request = q
  BY BatchTypes DEF Audit, AuditKinds
<1>2. Begin("RequestReceived", batch) /\ q \notin Received(stream.known)
  BY DEF RecordAgentRequest
<1>3. batch = Audit("RequestReceived", batch.request)
  BY <1>1
<1> HIDE DEF batch
<1> QED
  BY <1>1, <1>2, <1>3, BeginStep DEF Kinds, LastKinds, AuditKinds

LEMMA CompleteAgentRequestStep ==
    ASSUME JournalInv, NEW q \in Requests, CompleteAgentRequest(q)
    PROVE  JournalInv' /\ AllFrames' = AllFrames
<1> DEFINE batch == Audit("RequestCompleted", q)
<1>1. batch \in Batches /\ batch.request = q
  BY BatchTypes DEF Audit, AuditKinds
<1>2. Begin("RequestCompleted", batch) /\ q \in Received(stream.known)
  BY DEF CompleteAgentRequest
<1>3. batch = Audit("RequestCompleted", batch.request)
  BY <1>1
<1> HIDE DEF batch
<1> QED
  BY <1>1, <1>2, <1>3, BeginStep DEF Kinds, LastKinds, AuditKinds

LEMMA CreateTemporaryStep ==
    ASSUME JournalInv, stream.ready, CreateTemporary
    PROVE  JournalInv' /\ AllFrames' = AllFrames
<1>1. /\ op.pc = "frame" /\ op' = [op EXCEPT !.pc = "compressing"] /\ stream.segment < MaxSegments
      /\ UNCHANGED <<logs, archives, unsynced, stream, acked, ops>> /\ stream.size > 0
  BY DEF CreateTemporary, NeedsRotation, Fits, Goto
<1>2. op \in [pc : Positions, kind : Kinds \cup {"none"}, offset : Nat, batch : Batches] /\ ops \in Nat
  BY DEF JournalInv, TypeOK
<1>3. stream.segment \in DOMAIN logs
  BY <1>1, RunningParts DEF AtEnd
<1>4. OpOK'
  BY <1>1, <1>2, RunningParts DEF OpOK
<1>5. op' \in [pc : Positions, kind : Kinds \cup {"none"}, offset : Nat, batch : Batches]
  BY <1>1, <1>2 DEF Positions
<1> QED
  BY <1>1, <1>2, <1>3, <1>4, <1>5, OpStep, FilesUnmoved DEF Quiet

(***************************************************************************)
(* Then those that move a segment or write to one.                         *)
(***************************************************************************)
LEMMA PublishStep ==
    ASSUME JournalInv, stream.ready, Publish
    PROVE  JournalInv' /\ AllFrames' = AllFrames
<1> DEFINE s == stream.segment
<1>1. /\ op.pc = "compressing" /\ op' = [op EXCEPT !.pc = "published"]
      /\ UNCHANGED <<logs, unsynced, stream, ops, acked>>
  BY DEF Publish, Goto
<1>2. /\ TypeOK /\ FilesOK /\ AtEnd /\ s \in DOMAIN logs /\ s < MaxSegments /\ s \notin DOMAIN archives
      /\ s \in 1..(MaxSegments - 1)
  <2>1. TypeOK /\ FilesOK /\ AtEnd
    BY RunningParts
  <2>2. MaxSegments \in Nat /\ s \in 1..MaxSegments
    BY <2>1, JournalAssumption DEF TypeOK
  <2> QED
    BY <1>1, <2>1, <2>2 DEF AtEnd
<1>3. /\ DOMAIN archives' = DOMAIN archives \cup {s} /\ archives'[s] = logs[s]
      /\ \A n \in DOMAIN archives \ {s} : archives'[n] = archives[n]
  BY DEF Publish, Put
<1>4. logs[s] \in Seq(Pieces) /\ Intact(logs[s])
  BY <1>2 DEF TypeOK, FilesOK
<1>5. \A n \in DOMAIN archives' : archives'[n] \in Seq(Pieces) /\ Intact(archives'[n])
  BY <1>2, <1>3, <1>4 DEF TypeOK, FilesOK
<1>6. \A n \in 1..MaxSegments : FramesOf(n)' = FramesOf(n)
  BY <1>1, <1>2, <1>3 DEF FramesOf, Segments, Contents
<1>7. AllFrames' = AllFrames /\ Durable' = Durable
  BY <1>1, <1>6, FramesUnmoved DEF Durable
<1>8. op \in [pc : Positions, kind : Kinds \cup {"none"}, offset : Nat, batch : Batches]
  BY <1>2 DEF TypeOK
<1>9. /\ op' \in [pc : Positions, kind : Kinds \cup {"none"}, offset : Nat, batch : Batches]
      /\ op'.pc = "published" /\ op'.kind = op.kind /\ op'.offset = op.offset /\ op'.batch = op.batch
  BY <1>1, <1>8 DEF Positions
<1>10. TypeOK'
  BY <1>1, <1>2, <1>3, <1>5, <1>9 DEF TypeOK
<1>11. FilesOK'
  BY <1>1, <1>2, <1>3, <1>5 DEF FilesOK
<1>12. AtEnd'
  <2>1. Segments' = Segments
    BY <1>1, <1>2, <1>3 DEF Segments
  <2> QED
    BY <1>1, <1>2, <1>3, <1>9, <2>1 DEF AtEnd
<1>13. OpOK'
  BY <1>1, <1>9, RunningParts DEF OpOK
<1>14. PICK p : p = Replayed(Durable)
  OBVIOUS
<1>15. Replayed(Durable)' = p
  BY <1>7, <1>14
<1>16. Agrees(p)'
  BY <1>1, <1>9, <1>14, RunningParts DEF Agrees, Begun
<1>17. unsynced' = (IF op'.pc = "written" THEN 1 ELSE 0) /\ IsPrefix(acked, stream.known.batches)'
  BY <1>1, <1>9, RunningParts
<1> QED
  BY <1>1, <1>7, <1>9, <1>10, <1>11, <1>12, <1>13, <1>15, <1>16, <1>17 DEF JournalInv, Running

LEMMA StreamChanged ==
    ASSUME TypeOK
    PROVE  /\ stream.known \in Knowledge /\ stream.segment \in 1..MaxSegments
           /\ \A segment \in 1..MaxSegments : \A size :
                /\ [stream EXCEPT !.segment = segment, !.size = size]
                     \in [ready : BOOLEAN, known : Knowledge, segment : 1..MaxSegments, size : {size}]
                /\ [stream EXCEPT !.segment = segment, !.size = size].ready = stream.ready
                /\ [stream EXCEPT !.segment = segment, !.size = size].known = stream.known
                /\ [stream EXCEPT !.segment = segment, !.size = size].segment = segment
                /\ [stream EXCEPT !.segment = segment, !.size = size].size = size
BY DEF TypeOK

LEMMA RemoveSourceStep ==
    ASSUME JournalInv, stream.ready, RemoveSource
    PROVE  JournalInv' /\ AllFrames' = AllFrames
<1> DEFINE s == stream.segment
<1>1. /\ op.pc = "published" /\ op' = [op EXCEPT !.pc = "rotated"]
      /\ stream' = [stream EXCEPT !.segment = @ + 1, !.size = 0]
      /\ logs' = [n \in DOMAIN logs \ {s} |-> logs[n]] /\ unsynced' = 0
      /\ UNCHANGED <<archives, ops, acked>>
  BY DEF RemoveSource, Goto
<1>2. /\ TypeOK /\ FilesOK /\ AtEnd /\ s \in DOMAIN archives /\ s + 1 \in 1..MaxSegments
      /\ MaxSegments \in Nat /\ s \in Nat
  <2>1. TypeOK /\ FilesOK /\ AtEnd
    BY RunningParts
  <2>2. MaxSegments \in Nat /\ s \in 1..MaxSegments
    BY <2>1, JournalAssumption DEF TypeOK
  <2> QED
    BY <1>1, <2>1, <2>2 DEF AtEnd
<1>3. /\ stream' \in [ready : BOOLEAN, known : Knowledge, segment : 1..MaxSegments, size : {0}]
      /\ stream'.ready /\ stream'.known = stream.known /\ stream'.segment = s + 1 /\ stream'.size = 0
  <2>1. stream' = [stream EXCEPT !.segment = s + 1, !.size = 0]
    BY <1>1
  <2> QED
    BY <1>2, <2>1, StreamChanged
<1>4. \A n \in 1..MaxSegments : FramesOf(n)' = FramesOf(n)
  BY <1>1, <1>2 DEF FramesOf, Segments, Contents
<1>5. AllFrames' = AllFrames /\ Durable' = Durable
  <2>1. AllFrames' = AllFrames
    BY <1>4, FramesUnmoved
  <2>2. unsynced = 0
    BY <1>1, RunningParts
  <2> QED
    BY <1>1, <2>1, <2>2 DEF Durable
<1>6. op \in [pc : Positions, kind : Kinds \cup {"none"}, offset : Nat, batch : Batches]
  BY <1>2 DEF TypeOK
<1>7. /\ op' \in [pc : Positions, kind : Kinds \cup {"none"}, offset : Nat, batch : Batches]
      /\ op'.pc = "rotated" /\ op'.kind = op.kind /\ op'.offset = op.offset /\ op'.batch = op.batch
  BY <1>1, <1>6 DEF Positions
<1>8. TypeOK'
  BY <1>1, <1>2, <1>3, <1>7 DEF TypeOK
<1>9. FilesOK'
  BY <1>1, <1>2, <1>3 DEF FilesOK
<1>10. AtEnd'
  <2>1. Segments' = Segments
    BY <1>1, <1>2 DEF Segments
  <2>2. \A n \in Segments : n <= s /\ n \in Nat
    BY <1>2 DEF AtEnd, TypeOK, Segments
  <2>3. s + 1 \notin Segments
    BY <1>2, <2>2
  <2>4. s + 1 \notin DOMAIN archives' /\ s + 1 - 1 \in DOMAIN archives'
    BY <1>1, <1>2, <2>3 DEF Segments
  <2> QED
    BY <1>2, <1>3, <1>7, <2>1, <2>2, <2>4 DEF AtEnd
<1>11. OpOK'
  BY <1>3, <1>7, RunningParts, <1>1 DEF OpOK
<1>12. PICK p : p = Replayed(Durable)
  OBVIOUS
<1>13. Replayed(Durable)' = p
  BY <1>5, <1>12
<1>14. Agrees(p)'
  BY <1>1, <1>3, <1>7, <1>12, RunningParts DEF Agrees, Begun
<1>15. unsynced' = (IF op'.pc = "written" THEN 1 ELSE 0) /\ IsPrefix(acked, stream.known.batches)'
  BY <1>1, <1>3, <1>7, RunningParts
<1> QED
  BY <1>3, <1>5, <1>7, <1>8, <1>9, <1>10, <1>11, <1>13, <1>14, <1>15 DEF JournalInv, Running

LEMMA WriteStep ==
    ASSUME JournalInv, stream.ready, Write
    PROVE  /\ JournalInv' /\ AllFrames' = Append(AllFrames, NextFrame)
           /\ UNCHANGED <<stream, acked>>
<1>s. PICK s : s = stream.segment
  OBVIOUS
<1>f. PICK f : f = NextFrame
  OBVIOUS
<1> DEFINE piece == Piece(f, FrameCells(f))
<1>1. /\ op.pc \in {"rotated", "frame"} /\ op' = [op EXCEPT !.pc = "written"]
      /\ logs' = Put(logs, s, Append(Written, piece)) /\ unsynced' = unsynced + 1
      /\ UNCHANGED <<archives, stream, ops, acked>>
  BY <1>s, <1>f DEF Write, MayWrite, Fits, WriteCells, Goto
<1>2. /\ TypeOK /\ FilesOK /\ AtEnd /\ OpOK /\ op.pc # "published" /\ unsynced = 0 /\ f \in FrameSet
      /\ s \in 1..MaxSegments /\ s \notin DOMAIN archives
  <2>1. TypeOK /\ FilesOK /\ AtEnd /\ OpOK /\ unsynced = 0 /\ f \in FrameSet
    BY <1>f, <1>1, RunningParts
  <2> QED
    BY <1>s, <1>1, <2>1 DEF AtEnd, TypeOK
<1>3. /\ Written \in Seq(Pieces) /\ Intact(Written) /\ FramesOf(s) = FramesIn(Written)
      /\ \A n \in 1..MaxSegments : n > s => FramesOf(n) = <<>>
  BY <1>s, <1>2, LastSegment
<1>4. PICK more : more = Append(Written, piece)
  OBVIOUS
<1>5. /\ more \in Seq(Pieces) /\ Intact(more) /\ ReadFrames(more).frames = Append(FramesIn(Written), f)
  BY <1>2, <1>3, <1>4, ReadWhole
<1>6. /\ DOMAIN logs' = DOMAIN logs \cup {s} /\ logs'[s] = more
      /\ \A n \in DOMAIN logs \ {s} : logs'[n] = logs[n]
  BY <1>1, <1>4 DEF Put
<1>7. FramesOf(s)' = Append(FramesOf(s), f)
  BY <1>1, <1>2, <1>3, <1>5, <1>6 DEF FramesOf, Segments, Contents
<1>8. \A n \in 1..MaxSegments : n # s => FramesOf(n)' = FramesOf(n)
  BY <1>1, <1>6 DEF FramesOf, Segments, Contents
<1>9. AllFrames' = Append(AllFrames, f)
  BY <1>2, <1>3, <1>7, <1>8, SegmentGrows
<1>10. op \in [pc : Positions, kind : Kinds \cup {"none"}, offset : Nat, batch : Batches]
  BY <1>2 DEF TypeOK
<1>11. /\ op' \in [pc : Positions, kind : Kinds \cup {"none"}, offset : Nat, batch : Batches]
       /\ op'.pc = "written" /\ op'.kind = op.kind /\ op'.offset = op.offset /\ op'.batch = op.batch
  BY <1>1, <1>10 DEF Positions
<1>12. NextFrame' = f
  BY <1>f, <1>1, <1>11 DEF NextFrame, PartEnd
<1>13. Durable' = Durable
  <2>1. AllFrames = Durable /\ AllFrames \in Seq(FrameSet) /\ Len(AllFrames) \in Nat
    BY <1>1, <1>2, RunningParts, FramesTypes
  <2>2. Durable' = SubSeq(Append(AllFrames, f), 1, Len(Append(AllFrames, f)) - 1)
    BY <1>1, <1>2, <1>9 DEF Durable
  <2> DEFINE a == AllFrames
  <2> HIDE DEF a
  <2>3. SubSeq(Append(a, f), 1, Len(Append(a, f)) - 1) = a
    <3>1. a \in Seq(FrameSet) /\ f \in FrameSet
      BY <1>2, <2>1 DEF a
    <3>2. Len(Append(a, f)) - 1 = Len(a) /\ Len(a) \in Nat /\ \A i \in 1..Len(a) : Append(a, f)[i] = a[i]
      BY <3>1
    <3> DEFINE b == Append(a, f)
               n == Len(a)
    <3> HIDE DEF b, n
    <3>3. n \in Nat /\ \A i \in 1..n : b[i] \in FrameSet /\ b[i] = a[i]
      BY <3>1, <3>2 DEF b, n
    <3>4. /\ SubSeq(b, 1, n) \in Seq(FrameSet) /\ Len(SubSeq(b, 1, n)) = IF 1 <= n THEN n - 1 + 1 ELSE 0
          /\ \A i \in 1..(n - 1 + 1) : SubSeq(b, 1, n)[i] = b[1 + i - 1]
      BY <3>3, SubSeqProperties
    <3>5. Len(SubSeq(b, 1, n)) = n /\ \A i \in 1..n : SubSeq(b, 1, n)[i] = a[i]
      BY <3>3, <3>4
    <3>6. SubSeq(b, 1, n) = a
      BY <3>1, <3>4, <3>5, SeqEqual DEF n
    <3> QED
      BY <3>2, <3>6 DEF b, n
  <2> QED
    BY <2>1, <2>2, <2>3 DEF a
<1>14. TypeOK'
  BY <1>s, <1>1, <1>2, <1>5, <1>6, <1>11 DEF TypeOK
<1>15. FilesOK'
  BY <1>1, <1>2, <1>5, <1>6 DEF FilesOK
<1>16. AtEnd'
  <2>1. Segments' = Segments \cup {s}
    BY <1>1, <1>6 DEF Segments
  <2>2. \A n \in Segments' : n <= s
    BY <1>s, <1>2, <2>1 DEF AtEnd
  <2>3. Written' = more
    BY <1>s, <1>1, <1>6 DEF Written
  <2>4. more # <<>> /\ more[Len(more)] = piece
    <3>1. piece \in Pieces
      BY <1>2, PieceTypes, FrameParts
    <3> HIDE DEF piece
    <3> QED
      BY <1>3, <1>4, <3>1
  <2>5. piece = Piece(NextFrame, FrameCells(NextFrame))'
    BY <1>12
  <2> QED
    BY <1>s, <1>1, <1>2, <1>6, <1>11, <2>2, <2>3, <2>4, <2>5 DEF AtEnd
<1>17. OpOK'
  BY <1>1, <1>2, <1>11 DEF OpOK
<1>18. PICK p : p = Replayed(Durable)
  OBVIOUS
<1>19. Replayed(Durable)' = p
  BY <1>13, <1>18
<1>20. Agrees(p)'
  BY <1>1, <1>11, <1>18, RunningParts DEF Agrees, Begun
<1>21. /\ unsynced' = 1 /\ IsPrefix(acked, stream.known.batches)'
       /\ AllFrames' = Append(Durable', NextFrame')
  BY <1>1, <1>2, <1>9, <1>12, <1>13, RunningParts
<1> QED
  BY <1>f, <1>1, <1>9, <1>11, <1>14, <1>15, <1>16, <1>17, <1>19, <1>20, <1>21 DEF JournalInv, Running

\* What is read of the files is what has been synced and the frame just written.
LEMMA AllRead ==
    ASSUME JournalInv, stream.ready
    PROVE  LET all == Replayed(AllFrames) IN
           /\ all \in Knowledge /\ all.ok
           /\ \/ op.pc \in {"written", "synced"} /\ all.batches = Append(stream.known.batches, op.batch)
              \/ op.pc # "synced" /\ all.batches = stream.known.batches
<1> DEFINE all == Replayed(AllFrames)
           p == Replayed(Durable)
<1>1. p \in Knowledge /\ Agrees(p) /\ Durable \in Seq(FrameSet) /\ TypeOK /\ OpOK
  BY RunningParts
<1>2. CASE op.pc = "written"
  <2>1. all = ApplyFrame(p, NextFrame) /\ NextFrame \in FrameSet /\ op.kind \in Kinds
    BY <1>1, <1>2, RunningParts, ReplayedAppend
  <2>2. Begun(p) /\ p.ok /\ p.sequence = stream.known.sequence
    BY <1>1, <1>2 DEF Agrees
  <2> HIDE DEF p, all
  <2>3. /\ all.ok /\ (op.kind \in LastKinds => Whole(all))
        /\ op.kind \notin LastKinds => all.batches = stream.known.batches
    BY <1>1, <2>1, <2>2, NextFrameReads
  <2>4. all \in Knowledge
    BY <1>1, <2>1, ApplyTypes
  <2> QED
    BY <1>2, <2>3, <2>4 DEF Whole, all
<1>3. CASE op.pc # "written"
  <2>1. all = p
    BY <1>3, RunningParts
  <2> HIDE DEF p, all
  <2> QED
    BY <1>1, <1>3, <2>1 DEF Agrees, Whole, Begun, all
<1> QED
  BY <1>2, <1>3

LEMMA SyncStep ==
    ASSUME JournalInv, stream.ready, Sync
    PROVE  JournalInv' /\ AllFrames' = AllFrames
<1>1. /\ op.pc = "written" /\ op' = NextOp /\ unsynced' = 0
      /\ stream' = [stream EXCEPT !.size = @ + FrameCells(NextFrame), !.known.sequence = @ + 1]
      /\ UNCHANGED <<logs, archives, ops, acked>>
  BY DEF Sync
<1>2. /\ TypeOK /\ FilesOK /\ AtEnd /\ OpOK /\ op.kind \in Kinds /\ NextFrame \in FrameSet
      /\ AllFrames = Append(Durable, NextFrame) /\ Durable \in Seq(FrameSet)
      /\ Replayed(Durable) \in Knowledge /\ Agrees(Replayed(Durable))
  BY <1>1, RunningParts
<1>3. AllFrames' = AllFrames
  BY <1>1, FilesUnmoved
<1>4. Durable' = AllFrames
  <2>1. AllFrames \in Seq(FrameSet) /\ Len(AllFrames) \in Nat
    BY <1>2, FramesTypes
  <2>2. Durable' = SubSeq(AllFrames, 1, Len(AllFrames) - 0)
    BY <1>1, <1>3 DEF Durable
  <2>3. Len(AllFrames) - 0 = Len(AllFrames)
    BY <2>1
  <2> QED
    BY <2>1, <2>2, <2>3, SubSeqFull
<1>5. PICK p : p = Replayed(Durable)
  OBVIOUS
<1>6. PICK q : q = ApplyFrame(p, NextFrame)
  OBVIOUS
<1>7. Replayed(AllFrames) = q
  BY <1>2, <1>5, <1>6, ReplayedAppend
<1>8. Replayed(Durable)' = q
  BY <1>4, <1>7
<1>9. /\ q.ok /\ q.sequence = stream.known.sequence + 1
      /\ op.kind \in LastKinds => Whole(q)
      /\ op.kind \notin LastKinds => /\ q.version = stream.known.version
                                     /\ q.batches = stream.known.batches
                                     /\ q.pending = Pending(NextOffset)
  <2>1. p \in Knowledge /\ p.ok /\ p.sequence = stream.known.sequence /\ Begun(p)
    BY <1>1, <1>2, <1>5 DEF Agrees
  <2> QED
    BY <1>2, <1>6, <2>1, NextFrameReads
<1>10. /\ stream.known \in Knowledge /\ op.offset \in Nat /\ Len(op.batch.events) \in Nat
       /\ op.batch \in Batches /\ op.pc \in Positions /\ stream.ready \in BOOLEAN
       /\ stream.segment \in 1..MaxSegments
       /\ op \in [pc : Positions, kind : Kinds \cup {"none"}, offset : Nat, batch : Batches]
  BY <1>2, OpParts DEF TypeOK
<1>11. /\ stream'.known = [stream.known EXCEPT !.sequence = @ + 1]
       /\ stream'.ready /\ stream'.segment = stream.segment
       /\ stream' \in [ready : BOOLEAN, known : Knowledge, segment : 1..MaxSegments, size : {stream'.size}]
  <2>1. stream.known.sequence + 1 \in Nat
    BY <1>10, KnowledgeParts
  <2>2. [stream.known EXCEPT !.sequence = stream.known.sequence + 1] \in Knowledge
    BY <1>10, <2>1, KnowledgeChanged
  <2>3. stream \in [ready : BOOLEAN, known : Knowledge, segment : 1..MaxSegments, size : {stream.size}]
    BY <1>2 DEF TypeOK
  <2>4. stream'.known = [stream.known EXCEPT !.sequence = stream.known.sequence + 1]
    BY <1>1, <2>3
  <2> QED
    BY <1>1, <2>2, <2>3, <2>4
<1>12. /\ stream'.known.sequence = stream.known.sequence + 1
       /\ stream'.known.version = stream.known.version /\ stream'.known.batches = stream.known.batches
  BY <1>10, <1>11 DEF Knowledge
<1>13. /\ op' \in [pc : Positions, kind : Kinds \cup {"none"}, offset : Nat, batch : Batches]
       /\ op'.batch = op.batch /\ op'.pc \in {"frame", "synced"} /\ op'.kind \in Kinds
       /\ op.kind \in LastKinds => op'.pc = "synced" /\ op'.kind = op.kind /\ op'.offset = op.offset
       /\ op.kind \notin LastKinds => op'.pc = "frame" /\ op'.offset = NextOffset
       /\ op.kind = "DomainBegin" => op'.kind = "DomainPart" /\ op'.offset = op.offset
       /\ op.kind = "DomainPart" =>
            /\ op'.offset = PartEnd
            /\ op'.kind = IF PartEnd < Len(op.batch.events) THEN "DomainPart" ELSE "DomainCommit"
  <2>1. CASE op.kind = "DomainBegin"
    <3>1. op' = [op EXCEPT !.pc = "frame", !.kind = "DomainPart"]
      BY <1>1, <2>1 DEF NextOp
    <3> QED
      BY <1>10, <2>1, <3>1 DEF Positions, Kinds, LastKinds, AuditKinds, NextOffset
  <2>2. CASE op.kind = "DomainPart"
    <3>1. PartEnd \in Nat
      BY <1>2, <2>2, <1>10, PartEnds DEF OpOK
    <3>2. op' = [op EXCEPT !.pc = "frame", !.offset = PartEnd,
                           !.kind = IF PartEnd < Len(op.batch.events)
                                      THEN "DomainPart" ELSE "DomainCommit"]
      BY <1>1, <2>2 DEF NextOp
    <3> QED
      BY <1>10, <2>2, <3>1, <3>2 DEF Positions, Kinds, LastKinds, AuditKinds, NextOffset
  <2>3. CASE op.kind \in LastKinds
    <3>1. op' = [op EXCEPT !.pc = "synced"]
      BY <1>1, <2>3 DEF NextOp, LastKinds, AuditKinds
    <3> QED
      BY <1>2, <1>10, <2>3, <3>1 DEF Positions, LastKinds, AuditKinds
  <2> QED
    BY <1>2, <2>1, <2>2, <2>3 DEF Kinds
<1>14. TypeOK'
  BY <1>1, <1>2, <1>11, <1>13 DEF TypeOK
<1>15. FilesOK'
  BY <1>1, <1>2, <1>11 DEF FilesOK
<1>16. AtEnd'
  <2>1. stream.segment \in DOMAIN logs
    BY <1>1, <1>2 DEF AtEnd, Written
  <2> QED
    BY <1>1, <1>2, <1>11, <1>13, <2>1 DEF AtEnd, Segments
<1>17. OpOK'
  <2>1. Received(stream'.known) = Received(stream.known)
    BY <1>12 DEF Received
  <2>2. CASE op.kind \in LastKinds
    BY <1>2, <1>13, <2>1, <2>2 DEF OpOK, LastKinds, AuditKinds
  <2>3. CASE op.kind = "DomainBegin"
    <3>1. op.batch = Domain(op.batch.events) /\ op.batch.events # <<>> /\ op.offset = 0
      BY <1>2, <2>3 DEF OpOK, AuditKinds
    <3>2. 0 < Len(op.batch.events)
      BY <1>10, <3>1, OpParts, EmptySeq, <1>2
    <3> QED
      BY <1>13, <2>3, <3>1, <3>2 DEF OpOK, AuditKinds, LastKinds
  <2>4. CASE op.kind = "DomainPart"
    <3>1. /\ op.batch = Domain(op.batch.events) /\ op.batch.events # <<>>
          /\ op.offset < Len(op.batch.events)
      BY <1>2, <2>4 DEF OpOK, Kinds, AuditKinds
    <3>2. PartEnd \in Nat /\ PartEnd <= Len(op.batch.events)
      BY <1>2, <1>10, <3>1, PartEnds
    <3>3. ~(PartEnd < Len(op.batch.events)) => PartEnd = Len(op.batch.events)
      BY <1>10, <3>2
    <3> QED
      BY <1>13, <2>4, <3>1, <3>2, <3>3 DEF OpOK, AuditKinds, LastKinds
  <2> QED
    BY <1>2, <2>2, <2>3, <2>4 DEF Kinds
<1>18. Agrees(q)'
  <2>1. CASE op.kind \in LastKinds
    BY <1>9, <1>12, <1>13, <2>1 DEF Agrees, Whole
  <2>2. CASE op.kind \notin LastKinds
    <3>1. q.pending = [first |-> stream'.known.version + 1, count |-> Len(op'.batch.events),
                       events |-> SubSeq(op'.batch.events, 1, op'.offset)]
      BY <1>9, <1>12, <1>13, <2>2 DEF Pending
    <3> QED
      BY <1>9, <1>12, <1>13, <2>2, <3>1 DEF Agrees, Begun
  <2> QED
    BY <2>1, <2>2
<1>19. IsPrefix(acked, stream.known.batches)'
  BY <1>1, <1>12, RunningParts
<1> QED
  BY <1>1, <1>3, <1>8, <1>11, <1>13, <1>14, <1>15, <1>16, <1>17, <1>18, <1>19 DEF JournalInv, Running

LEMMA PrefixOfAppend ==
    ASSUME NEW X, NEW a \in Seq(X), NEW b \in Seq(X), NEW x \in X
    PROVE  IsPrefix(b, b) /\ (IsPrefix(a, b) => IsPrefix(a, Append(b, x)))
<1>1. IsPrefix(b, b)
  BY DEF IsPrefix
<1>2. ASSUME IsPrefix(a, b)
      PROVE  IsPrefix(a, Append(b, x))
  <2> DEFINE c == Append(b, x)
             n == Len(a)
  <2>1. c \in Seq(X) /\ Len(c) = Len(b) + 1 /\ n \in Nat /\ n <= Len(b) /\ Len(b) \in Nat
        /\ \A i \in 1..n : c[i] = b[i] /\ b[i] \in X
    BY <1>2 DEF IsPrefix
  <2>2. SubSeq(a, 1, n) = SubSeq(b, 1, n)
    BY <1>2 DEF IsPrefix
  <2> HIDE DEF c, n
  <2>3. /\ SubSeq(b, 1, n) \in Seq(X) /\ Len(SubSeq(b, 1, n)) = IF 1 <= n THEN n - 1 + 1 ELSE 0
        /\ \A i \in 1..(n - 1 + 1) : SubSeq(b, 1, n)[i] = b[1 + i - 1]
    BY <2>1, SubSeqProperties
  <2>4. /\ SubSeq(c, 1, n) \in Seq(X) /\ Len(SubSeq(c, 1, n)) = IF 1 <= n THEN n - 1 + 1 ELSE 0
        /\ \A i \in 1..(n - 1 + 1) : SubSeq(c, 1, n)[i] = c[1 + i - 1]
    BY <2>1, SubSeqProperties
  <2>5. /\ Len(SubSeq(b, 1, n)) = n /\ Len(SubSeq(c, 1, n)) = n
        /\ \A i \in 1..n : SubSeq(b, 1, n)[i] = SubSeq(c, 1, n)[i]
    BY <2>1, <2>3, <2>4
  <2>6. SubSeq(b, 1, n) = SubSeq(c, 1, n)
    BY <2>3, <2>4, <2>5, SeqEqual
  <2>7. n <= Len(c)
    BY <2>1
  <2> QED
    BY <2>2, <2>6, <2>7 DEF IsPrefix, c, n
<1> QED
  BY <1>1, <1>2

LEMMA ReturnStep ==
    ASSUME JournalInv, stream.ready, Return
    PROVE  JournalInv' /\ AllFrames' = AllFrames /\ acked' = Replayed(AllFrames).batches
<1>1. PICK known : known = [stream.known EXCEPT !.batches = Append(@, op.batch),
                                                !.version = @ + Len(op.batch.events)]
  OBVIOUS
<1>2. /\ op.pc = "synced" /\ stream' = [stream EXCEPT !.known = known] /\ acked' = known.batches
      /\ op' = Idle /\ UNCHANGED <<logs, archives, unsynced, ops>>
  BY <1>1 DEF Return, disk
<1>3. /\ TypeOK /\ FilesOK /\ AtEnd /\ OpOK /\ unsynced = 0 /\ AllFrames = Durable
      /\ Replayed(Durable) \in Knowledge /\ Agrees(Replayed(Durable))
  BY <1>2, RunningParts
<1>4. /\ stream.known \in Knowledge /\ op.batch \in Batches /\ Len(op.batch.events) \in Nat
      /\ stream.known.batches \in Seq(Batches) /\ stream.known.version \in Nat
  BY <1>3, OpParts, KnowledgeParts
<1>5. /\ known \in Knowledge /\ known.batches = Append(stream.known.batches, op.batch)
      /\ known.version = stream.known.version + Len(op.batch.events)
      /\ known.sequence = stream.known.sequence /\ known.batches \in Seq(Batches)
  <2>1. /\ Append(stream.known.batches, op.batch) \in Seq(Batches)
        /\ stream.known.version + Len(op.batch.events) \in Nat
    BY <1>4
  <2>2. known \in Knowledge
    BY <1>1, <1>4, <2>1, KnowledgeChanged
  <2> QED
    BY <1>1, <1>4, <2>1, <2>2 DEF Knowledge
<1>6. /\ stream' \in [ready : BOOLEAN, known : Knowledge, segment : 1..MaxSegments, size : {stream'.size}]
      /\ stream'.known = known /\ stream'.ready /\ stream'.segment = stream.segment
      /\ stream'.size = stream.size
  BY <1>2, <1>3, <1>5 DEF TypeOK
<1>7. AllFrames' = AllFrames /\ Durable' = Durable
  BY <1>2, FilesUnmoved, DurableUnmoved
<1>8. PICK p : p = Replayed(Durable)
  OBVIOUS
<1>9. Replayed(Durable)' = p /\ Replayed(AllFrames) = p
  BY <1>3, <1>7, <1>8
<1>10. Whole(p) /\ p.ok /\ p.sequence = stream.known.sequence
  BY <1>2, <1>3, <1>8 DEF Agrees
<1>11. /\ op' \in [pc : Positions, kind : Kinds \cup {"none"}, offset : Nat, batch : Batches]
       /\ OpOK' /\ op'.kind = "none" /\ op'.pc = "idle"
  BY <1>2, IdleOK
<1>12. TypeOK'
  BY <1>2, <1>3, <1>5, <1>6, <1>11 DEF TypeOK
<1>13. FilesOK'
  BY <1>2, <1>3, <1>6 DEF FilesOK
<1>14. AtEnd'
  BY <1>2, <1>3, <1>6, <1>11 DEF AtEnd, Segments
<1>15. Agrees(p)'
  BY <1>5, <1>6, <1>10, <1>11 DEF Agrees, Whole, Begun
<1>16. IsPrefix(acked, stream.known.batches)'
  BY <1>2, <1>4, <1>5, <1>6, PrefixOfAppend
<1>17. acked' = p.batches
  BY <1>2, <1>5, <1>10 DEF Whole
<1> QED
  BY <1>2, <1>3, <1>6, <1>7, <1>9, <1>11, <1>12, <1>13, <1>14, <1>15, <1>16, <1>17
     DEF JournalInv, Running

LEMMA DownOK ==
    /\ Down \in [ready : BOOLEAN, known : Knowledge, segment : 1..MaxSegments, size : {Down.size}]
    /\ ~Down.ready
<1>1. Empty \in Knowledge /\ 1 \in 1..MaxSegments
  BY BatchTypes, JournalAssumption
<1> QED
  BY <1>1 DEF Down

LEMMA EvictStep ==
    ASSUME JournalInv, Evict
    PROVE  JournalInv' /\ AllFrames' = AllFrames
<1>1. /\ stream.ready /\ op.pc = "idle" /\ stream' = Down
      /\ UNCHANGED <<logs, archives, unsynced, op, ops, acked>>
  BY DEF Evict, disk
<1>2. TypeOK /\ FilesOK /\ OpOK /\ unsynced = 0 /\ op = Idle /\ IsPrefix(acked, stream.known.batches)
  BY <1>1, RunningParts DEF OpOK
<1>3. AllFrames' = AllFrames
  BY <1>1, FilesUnmoved
<1>4. Replayed(AllFrames).ok /\ Replayed(AllFrames).batches = stream.known.batches
  BY <1>1, AllRead
<1>5. TypeOK' /\ ~stream'.ready
  BY <1>1, <1>2, DownOK DEF TypeOK
<1>6. FilesOK'
  BY <1>1, <1>2, <1>5 DEF FilesOK
<1> QED
  BY <1>1, <1>2, <1>3, <1>4, <1>5, <1>6 DEF JournalInv, Stopped

\* What a torn tail hides from a reader is all that truncating the file removes.
LEMMA TruncatedOK ==
    ASSUME TypeOK, FilesOK, NEW n \in DOMAIN logs
    PROVE  /\ Truncated(n) \in Seq(Pieces)
           /\ n \notin DOMAIN archives =>
                /\ Intact(Truncated(n))
                /\ ReadFrames(Truncated(n)).frames = ReadFrames(logs[n]).frames
<1>1. logs[n] \in Seq(Pieces)
  BY DEF TypeOK
<1>2. CASE n \in DOMAIN archives
  BY <1>1, <1>2 DEF Truncated
<1>3. CASE n \notin DOMAIN archives /\ Intact(logs[n])
  <2>1. ReadFrames(logs[n]) = [frames |-> FramesIn(logs[n]), how |-> "eof"]
    BY <1>1, <1>3, ReadIntact
  <2>2. Truncated(n) = logs[n]
    BY <2>1 DEF Truncated
  <2> QED
    BY <1>1, <1>3, <2>2
<1>4. CASE n \notin DOMAIN archives /\ Torn(logs[n])
  <2>1. /\ ReadFrames(logs[n]) = [frames |-> FramesIn(Front(logs[n])), how |-> "torn"]
        /\ Intact(Front(logs[n])) /\ Front(logs[n]) \in Seq(Pieces)
    BY <1>1, <1>4, ReadTorn
  <2>2. Len(FramesIn(Front(logs[n]))) = Len(logs[n]) - 1
    BY <1>1, <1>4, <2>1, FramesInTypes, FrontTypes DEF Torn
  <2>3. Truncated(n) = SubSeq(logs[n], 1, Len(FramesIn(Front(logs[n]))))
    BY <1>4, <2>1 DEF Truncated
  <2>4. Truncated(n) = Front(logs[n])
    BY <2>2, <2>3 DEF Front
  <2>5. ReadFrames(Front(logs[n])) = [frames |-> FramesIn(Front(logs[n])), how |-> "eof"]
    BY <2>1, ReadIntact
  <2>6. ReadFrames(Front(logs[n])).frames = ReadFrames(logs[n]).frames
    BY <2>1, <2>5
  <2> QED
    BY <2>1, <2>4, <2>6
<1> QED
  BY <1>2, <1>3, <1>4 DEF FilesOK

LEMMA InitializeStep ==
    ASSUME JournalInv, Initialize
    PROVE  JournalInv' /\ AllFrames' = AllFrames
<1>1. /\ ~stream.ready /\ Replay.ok
      /\ stream' = [ready |-> TRUE, known |-> Replay, segment |-> Active,
                    size |-> IF Active \in DOMAIN logs THEN Size(Truncated(Active)) ELSE 0]
      /\ logs' = [n \in DOMAIN logs |-> Truncated(n)]
      /\ unsynced' = 0 /\ UNCHANGED <<archives, op, ops, acked>>
  BY DEF Initialize
<1>2. /\ TypeOK /\ FilesOK /\ op = Idle /\ unsynced = 0
      /\ Replayed(AllFrames).ok /\ IsPrefix(acked, Replayed(AllFrames).batches)
      /\ Replay = Replayed(AllFrames)
  BY <1>1, ReplayIs DEF JournalInv, Stopped
<1>3. PICK p : p = Replayed(AllFrames)
  OBVIOUS
<1>4. p \in Knowledge
  BY <1>2, <1>3, FramesTypes, ReplayedTypes
<1>5. PICK s : s = Active
  OBVIOUS
<1>6. /\ s \in 1..MaxSegments /\ s \notin DOMAIN archives /\ \A n \in Segments : n <= s
      /\ s \in DOMAIN logs \/ s - 1 \in DOMAIN archives \/ (Segments = {} /\ s = 1)
  BY <1>2, <1>5, ActiveIs
<1>7. /\ stream'.ready /\ stream'.known = p /\ stream'.segment = s
      /\ s \notin DOMAIN logs => stream'.size = 0
      /\ stream' \in [ready : BOOLEAN, known : Knowledge, segment : 1..MaxSegments, size : {stream'.size}]
  BY <1>1, <1>2, <1>3, <1>4, <1>5, <1>6
<1>8. /\ DOMAIN logs' = DOMAIN logs
      /\ \A n \in DOMAIN logs : /\ logs'[n] \in Seq(Pieces)
                                /\ n \notin DOMAIN archives =>
                                     /\ Intact(logs'[n])
                                     /\ ReadFrames(logs'[n]).frames = ReadFrames(logs[n]).frames
  BY <1>1, <1>2, TruncatedOK
<1>9. Segments' = Segments
  BY <1>1, <1>8 DEF Segments
<1>10. \A n \in 1..MaxSegments : FramesOf(n)' = FramesOf(n)
  BY <1>1, <1>8 DEF FramesOf, Contents, Segments
<1>11. AllFrames' = AllFrames
  BY <1>10, FramesUnmoved
<1>12. Durable' = AllFrames
  <2>1. AllFrames \in Seq(FrameSet) /\ Len(AllFrames) \in Nat
    BY <1>2, FramesTypes
  <2>2. Durable' = SubSeq(AllFrames, 1, Len(AllFrames) - 0)
    BY <1>1, <1>11 DEF Durable
  <2>3. Len(AllFrames) - 0 = Len(AllFrames)
    BY <2>1
  <2> QED
    BY <2>1, <2>2, <2>3, SubSeqFull
<1>13. Replayed(Durable)' = p
  BY <1>3, <1>12
<1>14. /\ op' = Idle /\ op' \in [pc : Positions, kind : Kinds \cup {"none"}, offset : Nat, batch : Batches]
       /\ OpOK' /\ op'.kind = "none" /\ op'.pc = "idle"
  BY <1>1, <1>2, IdleOK
<1>15. TypeOK'
  BY <1>1, <1>2, <1>7, <1>8, <1>14 DEF TypeOK
<1>16. FilesOK'
  BY <1>1, <1>2, <1>8 DEF FilesOK
<1>17. AtEnd'
  BY <1>1, <1>6, <1>7, <1>8, <1>9, <1>14 DEF AtEnd
<1>18. Agrees(p)'
  BY <1>2, <1>3, <1>7, <1>14 DEF Agrees, Begun
<1>19. IsPrefix(acked, stream.known.batches)'
  BY <1>1, <1>2, <1>3, <1>7
<1> QED
  BY <1>1, <1>7, <1>11, <1>13, <1>14, <1>15, <1>16, <1>17, <1>18, <1>19 DEF JournalInv, Running

\* A crash loses nothing, or the frame that was not synced.
LEMMA CrashStep ==
    ASSUME JournalInv, ~CutsAtHeader, Crash
    PROVE  /\ JournalInv'
           /\ \/ AllFrames' = AllFrames
              \/ op.pc = "written" /\ AllFrames' = Durable
<1>s. PICK s : s = stream.segment
  OBVIOUS
<1>f. PICK f : f = NextFrame
  OBVIOUS
<1>1. /\ stream.ready /\ stream' = Down /\ op' = Idle /\ unsynced' = 0
      /\ UNCHANGED <<archives, ops, acked>>
      /\ \/ UNCHANGED logs
         \/ \E k \in (Len(Written) - unsynced)..(Len(Written) - 1) :
              \E file \in CutAfter(Written, k) : logs' = [logs EXCEPT ![s] = file]
  BY <1>s DEF Crash
<1>2. /\ TypeOK /\ FilesOK /\ AtEnd /\ unsynced \in {0, 1}
      /\ unsynced = (IF op.pc = "written" THEN 1 ELSE 0)
      /\ op.pc = "written" => AllFrames = Append(Durable, f)
      /\ Durable \in Seq(FrameSet) /\ Replayed(Durable) \in Knowledge /\ Agrees(Replayed(Durable))
      /\ IsPrefix(acked, stream.known.batches)
      /\ op.pc # "idle" => f \in FrameSet
  BY <1>f, <1>1, RunningParts
<1>3. acked \in Seq(Batches) /\ stream.known.batches \in Seq(Batches) /\ op.batch \in Batches
  BY <1>2, OpParts, KnowledgeParts DEF TypeOK
<1>4. /\ op' \in [pc : Positions, kind : Kinds \cup {"none"}, offset : Nat, batch : Batches]
      /\ ~stream'.ready
      /\ stream' \in [ready : BOOLEAN, known : Knowledge, segment : 1..MaxSegments, size : {stream'.size}]
  BY <1>1, IdleOK, DownOK
<1>5. CASE UNCHANGED logs
  <2>1. AllFrames' = AllFrames
    BY <1>1, <1>5, FilesUnmoved
  <2>2. Replayed(AllFrames).ok /\ IsPrefix(acked, Replayed(AllFrames).batches)
    <3>1. PICK batches : batches = Replayed(AllFrames).batches
      OBVIOUS
    <3>2. PICK known : known = stream.known.batches
      OBVIOUS
    <3>3. /\ Replayed(AllFrames).ok
          /\ batches = Append(known, op.batch) \/ batches = known
      BY <1>1, <3>1, <3>2, AllRead
    <3>4. known \in Seq(Batches) /\ IsPrefix(acked, known)
      BY <1>2, <1>3, <3>2
    <3>5. IsPrefix(acked, Append(known, op.batch))
      BY <1>3, <3>4, PrefixOfAppend
    <3> QED
      BY <3>1, <3>3, <3>4, <3>5
  <2>3. TypeOK' /\ FilesOK'
    BY <1>1, <1>2, <1>4, <1>5 DEF TypeOK, FilesOK
  <2> QED
    BY <1>1, <1>4, <2>1, <2>2, <2>3 DEF JournalInv, Stopped
<1>6. ASSUME NEW k \in (Len(Written) - unsynced)..(Len(Written) - 1),
             NEW file \in CutAfter(Written, k), logs' = [logs EXCEPT ![s] = file]
      PROVE  JournalInv' /\ op.pc = "written" /\ AllFrames' = Durable
  <2>1. op.pc # "published"
    <3>1. Len(Written) - unsynced <= k /\ k <= Len(Written) - 1
      OBVIOUS
    <3>2. CASE op.pc = "published"
      <4>1. unsynced = 0 /\ s \in DOMAIN logs /\ Written \in Seq(Pieces)
        BY <1>s, <1>2, <3>2 DEF AtEnd, Written, TypeOK
      <4>2. Len(Written) \in Nat
        BY <4>1
      <4> QED
        BY <3>1, <4>1, <4>2
    <3> QED
      BY <3>2
  <2>2. /\ Written \in Seq(Pieces) /\ Intact(Written) /\ FramesOf(s) = FramesIn(Written)
        /\ \A n \in 1..MaxSegments : n > s => FramesOf(n) = <<>>
        /\ s \notin DOMAIN archives /\ s \in 1..MaxSegments
    BY <1>s, <1>1, <1>2, <2>1, LastSegment DEF AtEnd, TypeOK
  <2>3. Len(Written) \in Nat /\ unsynced = 1 /\ op.pc = "written" /\ k = Len(Written) - 1
    BY <1>2, <2>2
  <2>4. /\ f \in FrameSet /\ Written # <<>> /\ Written[Len(Written)] = Piece(f, FrameCells(f))
        /\ s \in DOMAIN logs
    BY <1>s, <1>f, <1>2, <2>3 DEF AtEnd, Written
  <2>5. PICK front : front = Front(Written)
    OBVIOUS
  <2>6. /\ front \in Seq(Pieces) /\ Len(front) = Len(Written) - 1
        /\ \A i \in 1..(Len(Written) - 1) : front[i] = Written[i]
        /\ front = SubSeq(Written, 1, k)
    BY <2>2, <2>3, <2>4, <2>5, FrontTypes DEF Front
  <2>7. Intact(front)
    BY <2>2, <2>3, <2>6 DEF Intact
  <2>8. Written = Append(front, Piece(f, FrameCells(f)))
    <3> DEFINE w == Written
               n == Len(Written)
               piece == Piece(f, FrameCells(f))
    <3>1. /\ w \in Seq(Pieces) /\ n = Len(w) /\ n \in Nat \ {0} /\ front \in Seq(Pieces)
          /\ Len(front) = n - 1 /\ \A i \in 1..(n - 1) : front[i] = w[i]
          /\ w[n] = piece
      BY <2>2, <2>4, <2>6, EmptySeq
    <3> HIDE DEF w, n, piece
    <3>2. w = Append(front, piece)
      <4>1. piece \in Pieces
        BY <3>1
      <4> QED
        BY <3>1, <4>1
    <3> QED
      BY <3>2 DEF w, piece
  <2>9. ReadFrames(front).frames = FramesIn(front) /\ FramesIn(front) \in Seq(FrameSet)
        /\ FramesIn(Written) = Append(FramesIn(front), f)
    <3>1. ReadFrames(Written) = [frames |-> FramesIn(Written), how |-> "eof"]
      BY <2>2, ReadIntact
    <3>2. /\ ReadFrames(front).frames = FramesIn(front) /\ FramesIn(front) \in Seq(FrameSet)
          /\ ReadFrames(Written).frames = Append(FramesIn(front), f)
      BY <2>4, <2>6, <2>7, <2>8, ReadWhole
    <3> QED
      BY <3>1, <3>2
  <2>10. /\ file \in Seq(Pieces) /\ (Intact(file) \/ Torn(file))
         /\ ReadFrames(file).frames = FramesIn(front)
    <3>1. Written[k + 1].frame = f /\ Written[k + 1].cells = FrameCells(f)
      BY <2>3, <2>4, PieceTypes, FrameParts
    <3>2. CASE file = front
      BY <2>6, <2>7, <2>9, <3>2
    <3>3. CASE file # front
      <4>1. PICK count \in 1..(FrameCells(f) - 1) :
               count # HeaderCells /\ file = Append(front, Piece(f, count))
        BY <2>6, <3>1, <3>3 DEF CutAfter
      <4>2. file \in Seq(Pieces) /\ Torn(file) /\ ReadFrames(file).frames = ReadFrames(front).frames
        BY <2>4, <2>6, <2>7, <4>1, ReadCut
      <4> QED
        BY <2>9, <4>2
    <3> QED
      BY <3>2, <3>3
  <2>11. /\ DOMAIN logs' = DOMAIN logs /\ logs'[s] = file
         /\ \A n \in DOMAIN logs \ {s} : logs'[n] = logs[n]
    BY <1>6, <2>4
  <2>12. FramesOf(s)' = FramesIn(front)
    BY <1>1, <2>2, <2>4, <2>10, <2>11 DEF FramesOf, Segments, Contents
  <2>13. \A n \in 1..MaxSegments : n # s => FramesOf(n)' = FramesOf(n)
    BY <1>1, <2>11 DEF FramesOf, Segments, Contents
  <2>14. AllFrames' \in Seq(FrameSet) /\ AllFrames = Append(AllFrames', f)
    BY <1>2, <2>2, <2>4, <2>9, <2>12, <2>13, SegmentShrinks
  <2>15. AllFrames' = Durable
    <3>1. Append(AllFrames', f) = Append(Durable, f)
      BY <1>2, <2>3, <2>14
    <3> QED
      BY <1>2, <2>4, <2>14, <3>1, AppendInjective
  <2>16. Replayed(Durable).ok /\ Replayed(Durable).batches = stream.known.batches
    BY <1>2, <2>3 DEF Agrees, Begun
  <2>17. TypeOK'
    <3>1. DOMAIN logs' \subseteq 1..MaxSegments /\ \A n \in DOMAIN logs' : logs'[n] \in Seq(Pieces)
      BY <1>2, <2>4, <2>10, <2>11 DEF TypeOK
    <3> QED
      BY <1>1, <1>2, <1>4, <3>1 DEF TypeOK
  <2>18. FilesOK'
    BY <1>1, <1>2, <1>4, <2>10, <2>11 DEF FilesOK
  <2>19. Replayed(AllFrames)' = Replayed(Durable)
    BY <2>15
  <2> QED
    BY <1>1, <1>2, <1>4, <2>3, <2>15, <2>16, <2>17, <2>18, <2>19 DEF JournalInv, Stopped
<1> QED
  BY <1>1, <1>5, <1>6, FilesUnmoved

(***************************************************************************)
(* The invariant is inductive, and what follows from it.                   *)
(***************************************************************************)
\* An empty directory holds no frames.
LEMMA NothingThere ==
    ASSUME Init
    PROVE  TypeOK /\ FilesOK /\ AllFrames = <<>>
<1>1. /\ DOMAIN logs = {} /\ DOMAIN archives = {} /\ stream = Down /\ op = Idle /\ ops = 0 /\ acked = <<>>
  BY DEF Init
<1>2. TypeOK
  BY <1>1, IdleTypes, DownOK, EmptySeq DEF TypeOK
<1>3. FilesOK
  BY <1>1 DEF FilesOK
<1>4. \A n \in 1..MaxSegments : FramesOf(n) = <<>>
  BY <1>1 DEF FramesOf, Segments
<1>5. AllFrames = <<>>
  <2>1. PICK c : c = [n \in 1..MaxSegments |-> FramesOf(n)]
    OBVIOUS
  <2>2. MaxSegments \in Nat \ {0}
    BY JournalAssumption
  <2>3. c \in Seq(Seq({})) /\ c # <<>>
    <3>1. \A n \in 1..MaxSegments : FramesOf(n) \in Seq({})
      BY <1>4, EmptySeq
    <3>2. c \in Seq(Seq({})) /\ Len(c) = MaxSegments
      BY <2>1, <2>2, <3>1
    <3> QED
      BY <2>2, <3>2
  <2>4. FlattenSeq(c) \in Seq({})
    BY <2>3, FlattenTypes
  <2>5. \A s \in Seq({}) : s = <<>>
    OBVIOUS
  <2> QED
    BY <2>1, <2>4, <2>5 DEF AllFrames
<1> QED
  BY <1>2, <1>3, <1>5

LEMMA JournalInit == Init => JournalInv /\ Replay.batches = <<>>
<1> SUFFICES ASSUME Init
             PROVE  JournalInv /\ Replay.batches = <<>>
  OBVIOUS
<1>1. TypeOK /\ FilesOK /\ AllFrames = <<>>
  BY NothingThere
<1>2. Replayed(AllFrames) = Empty /\ Replay = Empty
  BY <1>1, ReplayIs, ReplayedEmpty
<1>3. IsPrefix(<<>>, <<>>)
  BY DEF IsPrefix
<1>4. stream = Down /\ op = Idle /\ unsynced = 0 /\ acked = <<>>
  BY DEF Init
<1> QED
  BY <1>1, <1>2, <1>3, <1>4, DownOK DEF JournalInv, Stopped, Empty

\* The steps of a stream in memory, but for Write, Crash and Return, leave what
\* the files say as it is.
LEMMA JournalStep ==
    ASSUME ~CutsAtHeader, JournalInv, Next
    PROVE  /\ JournalInv'
           /\ \/ AllFrames' = AllFrames /\ acked' = acked
              \/ stream.ready /\ Return
              \/ stream.ready /\ Write
              \/ Crash
<1>1. CASE Initialize
  BY <1>1, InitializeStep DEF Initialize
<1>2. CASE Cancel
  <2>1. op # Idle
    BY <1>2 DEF Cancel, Idle
  <2>2. stream.ready
    BY <2>1 DEF JournalInv, Stopped
  <2> QED
    BY <1>2, <2>2, CancelStep DEF Cancel, disk
<1>3. CASE Evict
  BY <1>3, EvictStep DEF Evict
<1>4. ASSUME NEW n \in Sizes, AppendEvents(n)
      PROVE  JournalInv' /\ AllFrames' = AllFrames /\ acked' = acked
  BY <1>4, AppendEventsStep DEF AppendEvents, Begin
<1>5. ASSUME NEW q \in Requests, RecordAgentRequest(q) \/ CompleteAgentRequest(q)
      PROVE  JournalInv' /\ AllFrames' = AllFrames /\ acked' = acked
  BY <1>5, RecordAgentRequestStep, CompleteAgentRequestStep
     DEF RecordAgentRequest, CompleteAgentRequest, Begin
<1>6. CASE stream.ready /\ CreateTemporary
  BY <1>6, CreateTemporaryStep DEF CreateTemporary
<1>7. CASE stream.ready /\ RejectTemporary
  BY <1>7, CancelStep DEF RejectTemporary, NeedsRotation, Fits, disk
<1>8. CASE stream.ready /\ Publish
  BY <1>8, PublishStep DEF Publish
<1>9. CASE stream.ready /\ RemoveSource
  BY <1>9, RemoveSourceStep DEF RemoveSource
<1>10. CASE stream.ready /\ Write
  BY <1>10, WriteStep
<1>11. CASE stream.ready /\ Sync
  BY <1>11, SyncStep DEF Sync
<1>12. CASE stream.ready /\ Return
  BY <1>12, ReturnStep
<1>13. CASE Crash
  BY <1>13, CrashStep
<1>14. stream.ready \/ op.pc = "idle"
  BY DEF JournalInv, Stopped, Idle
<1>15. CreateTemporary \/ RejectTemporary \/ Publish \/ RemoveSource \/ Write \/ Sync \/ Return
         => op.pc # "idle"
  BY DEF CreateTemporary, RejectTemporary, NeedsRotation, Fits, Publish, RemoveSource, Write, MayWrite,
         Sync, Return
<1> QED
  BY <1>1, <1>2, <1>3, <1>4, <1>5, <1>6, <1>7, <1>8, <1>9, <1>10, <1>11, <1>12, <1>13, <1>14, <1>15
     DEF Next

LEMMA JournalUnchanged ==
    ASSUME JournalInv, UNCHANGED vars
    PROVE  JournalInv'
<1>1. UNCHANGED <<logs, archives, unsynced, stream, op, ops, acked>>
  BY DEF vars, disk
<1>2. AllFrames' = AllFrames /\ Durable' = Durable
  BY <1>1, FilesUnmoved, DurableUnmoved
<1>3. TypeOK' = TypeOK /\ FilesOK' = FilesOK
  BY <1>1 DEF TypeOK, FilesOK
<1>4. PICK p : p = Replayed(Durable)
  OBVIOUS
<1>5. CASE stream.ready
  <2>1. Agrees(p) /\ TypeOK /\ FilesOK /\ Running
    BY <1>4, <1>5 DEF JournalInv, Running
  <2>2. Agrees(p)'
    BY <1>1, <2>1 DEF Agrees, Whole, Begun
  <2>3. AtEnd' /\ OpOK'
    BY <1>1, <2>1 DEF Running, AtEnd, Segments, Written, NextFrame, PartEnd, OpOK
  <2>4. NextFrame' = NextFrame
    BY <1>1 DEF NextFrame, PartEnd
  <2>5. Replayed(Durable)' = p
    BY <1>2, <1>4
  <2> QED
    BY <1>1, <1>2, <1>3, <1>5, <2>1, <2>2, <2>3, <2>4, <2>5 DEF JournalInv, Running
<1>6. CASE ~stream.ready
  <2>1. PICK all : all = Replayed(AllFrames)
    OBVIOUS
  <2>2. Replayed(AllFrames)' = all
    BY <1>2, <2>1
  <2> QED
    BY <1>1, <1>2, <1>3, <1>6, <2>1, <2>2 DEF JournalInv, Stopped
<1> QED
  BY <1>5, <1>6

LEMMA JournalNext == ~CutsAtHeader /\ JournalInv /\ [Next]_vars => JournalInv'
BY JournalStep, JournalUnchanged

\* What the properties ask of a state.
LEMMA JournalReads ==
    JournalInv => /\ Replay = Replayed(AllFrames) /\ Replay.ok
                  /\ acked \in Seq(Batches) /\ Replay.batches \in Seq(Batches)
                  /\ IsPrefix(acked, Replay.batches)
<1> SUFFICES ASSUME JournalInv
             PROVE  /\ Replay = Replayed(AllFrames) /\ Replay.ok
                    /\ acked \in Seq(Batches) /\ Replay.batches \in Seq(Batches)
                    /\ IsPrefix(acked, Replay.batches)
  OBVIOUS
<1>1. TypeOK /\ FilesOK /\ Replay = Replayed(AllFrames)
  BY ReplayIs DEF JournalInv
<1>2. PICK all : all = Replayed(AllFrames)
  OBVIOUS
<1>3. all \in Knowledge /\ acked \in Seq(Batches) /\ all.batches \in Seq(Batches)
  BY <1>1, <1>2, FramesTypes, ReplayedTypes, KnowledgeParts DEF TypeOK
<1>4. CASE stream.ready
  <2>1. PICK known : known = stream.known.batches
    OBVIOUS
  <2>2. /\ known \in Seq(Batches) /\ op.batch \in Batches /\ IsPrefix(acked, known)
    BY <1>1, <1>4, <2>1, RunningParts, OpParts, KnowledgeParts
  <2>3. all.ok /\ (all.batches = Append(known, op.batch) \/ all.batches = known)
    BY <1>2, <1>4, <2>1, AllRead
  <2>4. IsPrefix(acked, Append(known, op.batch))
    BY <1>3, <2>2, PrefixOfAppend
  <2> QED
    BY <1>1, <1>2, <1>3, <2>2, <2>3, <2>4
<1>5. CASE ~stream.ready
  BY <1>1, <1>2, <1>3, <1>5 DEF JournalInv, Stopped
<1> QED
  BY <1>4, <1>5

\* AckedSurvives: whatever operations, rotations and crashes there were, the
\* journal can be read and begins with every batch that was acknowledged.
THEOREM AcknowledgedIsKept == ~CutsAtHeader => (Spec => []AckedSurvives)
<1> SUFFICES ASSUME ~CutsAtHeader
             PROVE  Spec => []AckedSurvives
  OBVIOUS
<1>1. Init => JournalInv
  BY JournalInit
<1>2. JournalInv /\ [Next]_vars => JournalInv'
  BY JournalNext
<1>3. JournalInv => AckedSurvives
  BY JournalReads DEF AckedSurvives
<1> QED
  BY <1>1, <1>2, <1>3, PTL DEF Spec

\* MemoryIsReplay: a stream that is forgotten between two operations loses nothing.
THEOREM MemoryIsReconstructable == ~CutsAtHeader => (Spec => []MemoryIsReplay)
<1> SUFFICES ASSUME ~CutsAtHeader
             PROVE  Spec => []MemoryIsReplay
  OBVIOUS
<1>1. Init => JournalInv
  BY JournalInit
<1>2. JournalInv /\ [Next]_vars => JournalInv'
  BY JournalNext
<1>3. ASSUME JournalInv
      PROVE  MemoryIsReplay
  <2> SUFFICES ASSUME stream.ready, op.pc = "idle"
               PROVE  LET replay == Replay
                      IN  /\ stream.segment = Active
                          /\ \A field \in {"sequence", "version", "batches"} :
                               stream.known[field] = replay[field]
    BY DEF MemoryIsReplay
  <2>1. /\ TypeOK /\ AtEnd /\ AllFrames = Durable /\ Agrees(Replayed(Durable))
        /\ Replay = Replayed(AllFrames)
    BY <1>3, RunningParts, JournalReads
  <2>2. stream.segment = Active
    BY <2>1, SegmentIsActive
  <2>3. PICK replay : replay = Replay
    OBVIOUS
  <2>4. Agrees(replay)
    BY <2>1, <2>3
  <2>5. /\ replay.sequence = stream.known.sequence /\ replay.version = stream.known.version
        /\ replay.batches = stream.known.batches
    BY <2>4 DEF Agrees, Begun
  <2> QED
    BY <2>2, <2>3, <2>5
<1>4. JournalInv => MemoryIsReplay
  BY <1>3
<1> QED
  BY <1>1, <1>2, <1>4, PTL DEF Spec

(***************************************************************************)
(* DurableLog.  What a reader obtains grows by the batch of the operation  *)
(* in flight, when the frame that ends it is written, and shrinks by it    *)
(* when a crash cuts that frame off.                                       *)
(***************************************************************************)
LEMMA WriteExtends ==
    ASSUME JournalInv, stream.ready, Write
    PROVE  \/ Replayed(AllFrames').batches = Append(Replayed(AllFrames).batches, op.batch)
           \/ Replayed(AllFrames').batches = Replayed(AllFrames).batches
<1>1. op.pc \in {"rotated", "frame"}
  BY DEF Write, MayWrite, Fits
<1>2. /\ TypeOK /\ OpOK /\ op.kind \in Kinds /\ NextFrame \in FrameSet /\ AllFrames = Durable
      /\ Durable \in Seq(FrameSet) /\ Replayed(Durable) \in Knowledge /\ Agrees(Replayed(Durable))
  BY <1>1, RunningParts
<1>3. PICK p : p = Replayed(AllFrames)
  OBVIOUS
<1>4. p \in Knowledge /\ p.ok /\ p.sequence = stream.known.sequence /\ Begun(p)
  BY <1>1, <1>2, <1>3 DEF Agrees
<1>5. PICK q : q = ApplyFrame(p, NextFrame)
  OBVIOUS
<1>6. Replayed(AllFrames') = q
  BY <1>2, <1>3, <1>5, WriteStep, ReplayedAppend
<1>7. /\ op.kind \in LastKinds => Whole(q)
      /\ op.kind \notin LastKinds => q.batches = stream.known.batches
  BY <1>2, <1>4, <1>5, NextFrameReads
<1> QED
  BY <1>3, <1>4, <1>6, <1>7 DEF Whole, Begun

LEMMA CrashLoses ==
    ASSUME JournalInv, ~CutsAtHeader, Crash
    PROVE  \/ Replayed(AllFrames').batches = Replayed(AllFrames).batches
           \/ /\ Len(acked) < Len(Replayed(AllFrames).batches)
              /\ Replayed(AllFrames').batches =
                   SubSeq(Replayed(AllFrames).batches, 1, Len(Replayed(AllFrames).batches) - 1)
<1>1. stream.ready
  BY DEF Crash
<1>2. CASE AllFrames' = AllFrames
  BY <1>2
<1>3. CASE op.pc = "written" /\ AllFrames' = Durable
  <2>1. PICK k : k = stream.known.batches
    OBVIOUS
  <2>2. PICK b : b = Replayed(AllFrames).batches
    OBVIOUS
  <2>3. /\ TypeOK /\ Agrees(Replayed(Durable)) /\ IsPrefix(acked, k)
    BY <1>1, <2>1, RunningParts
  <2>4. Replayed(AllFrames').batches = k
    BY <1>3, <2>1, <2>3 DEF Agrees, Begun
  <2>5. b = k \/ b = Append(k, op.batch)
    BY <1>1, <2>1, <2>2, AllRead
  <2>6. k \in Seq(Batches) /\ op.batch \in Batches /\ acked \in Seq(Batches)
    BY <2>1, <2>3, OpParts, KnowledgeParts DEF TypeOK
  <2>7. CASE b = Append(k, op.batch)
    <3>1. /\ b \in Seq(Batches) /\ Len(b) = Len(k) + 1 /\ Len(k) \in Nat
          /\ \A i \in 1..Len(k) : b[i] = k[i]
      BY <2>6, <2>7
    <3>2. Len(acked) <= Len(k) /\ Len(acked) \in Nat
      BY <2>3, <2>6 DEF IsPrefix
    <3>3. /\ Front(b) \in Seq(Batches) /\ Len(Front(b)) = Len(b) - 1
          /\ \A i \in 1..(Len(b) - 1) : Front(b)[i] = b[i]
      <4>1. b # <<>>
        BY <3>1
      <4> QED
        BY <3>1, <4>1, FrontTypes
    <3>4. PICK front : front = Front(b)
      OBVIOUS
    <3>5. front \in Seq(Batches) /\ Len(front) = Len(k) /\ \A i \in 1..Len(k) : front[i] = k[i]
      BY <3>1, <3>3, <3>4
    <3>6. front = k
      BY <2>6, <3>5, SeqEqual
    <3>7. SubSeq(b, 1, Len(b) - 1) = k
      BY <3>4, <3>6 DEF Front
    <3>8. Len(acked) < Len(b)
      BY <3>1, <3>2
    <3> QED
      BY <2>2, <2>4, <3>7, <3>8
  <2> QED
    BY <2>2, <2>4, <2>5, <2>7
<1> QED
  BY <1>2, <1>3, CrashStep

LogStep ==
    \/ UNCHANGED <<logs, archives, acked>>
    \/ Log!Promise \/ Extends \/ Log!Lose \/ UNCHANGED Log!vars

LEMMA LogNext ==
    ASSUME ~CutsAtHeader, JournalInv, JournalInv', [Next]_vars,
           Replay = Replayed(AllFrames), Replay' = Replayed(AllFrames')
    PROVE  LogStep \/ UNCHANGED vars
<1>1. CASE UNCHANGED vars
  BY <1>1
<1>2. CASE AllFrames' = AllFrames /\ acked' = acked
  <2>1. UNCHANGED Log!vars
    BY <1>2 DEF Log!vars
  <2> QED
    BY <2>1 DEF LogStep
<1>3. CASE stream.ready /\ Return
  <2>1. AllFrames' = AllFrames /\ acked' = Replayed(AllFrames).batches
    BY <1>3, ReturnStep
  <2>2. Log!Promise
    BY <2>1 DEF Log!Promise
  <2> QED
    BY <2>2 DEF LogStep
<1>4. CASE stream.ready /\ Write
  <2>1. acked' = acked
    BY <1>4 DEF Write
  <2>2. CASE Replayed(AllFrames').batches = Append(Replayed(AllFrames).batches, op.batch)
    <3>1. PICK batch \in {op.batch} : TRUE
      OBVIOUS
    <3>2. Log!Extend(batch)
      BY <2>1, <2>2, <3>1 DEF Log!Extend
    <3>3. Extends
      BY <3>2 DEF Extends
    <3> QED
      BY <3>3 DEF LogStep
  <2>3. CASE Replayed(AllFrames').batches = Replayed(AllFrames).batches
    <3>1. UNCHANGED Log!vars
      BY <2>1, <2>3 DEF Log!vars
    <3> QED
      BY <3>1 DEF LogStep
  <2> QED
    BY <1>4, <2>2, <2>3, WriteExtends
<1>5. CASE Crash
  <2>1. acked' = acked
    BY <1>5 DEF Crash
  <2>2. CASE Replayed(AllFrames').batches = Replayed(AllFrames).batches
    <3>1. UNCHANGED Log!vars
      BY <2>1, <2>2 DEF Log!vars
    <3> QED
      BY <3>1 DEF LogStep
  <2>3. CASE /\ Len(acked) < Len(Replayed(AllFrames).batches)
             /\ Replayed(AllFrames').batches =
                  SubSeq(Replayed(AllFrames).batches, 1, Len(Replayed(AllFrames).batches) - 1)
    <3>1. Log!Lose
      BY <2>1, <2>3 DEF Log!Lose
    <3> QED
      BY <3>1 DEF LogStep
  <2> QED
    BY <1>5, <2>2, <2>3, CrashLoses
<1> QED
  BY <1>1, <1>2, <1>3, <1>4, <1>5, JournalStep

\* ImplementsLog: what can be read of the journal is a log of whole batches of
\* which no acknowledged one is lost.
THEOREM JournalImplementsLog == ~CutsAtHeader => (Spec => ImplementsLog)
<1> SUFFICES ASSUME ~CutsAtHeader
             PROVE  Spec => ImplementsLog
  OBVIOUS
<1> DEFINE ReadsAll == Replay = Replayed(AllFrames)
<1>1. Init => JournalInv /\ Log!Init
  BY JournalInit DEF Init, Log!Init
<1>2. JournalInv /\ [Next]_vars => JournalInv'
  BY JournalNext
<1>3. JournalInv => ReadsAll
  BY JournalReads
<1>4. JournalInv /\ JournalInv' /\ ReadsAll /\ ReadsAll' /\ [Next]_vars => [LogStep]_vars
  BY LogNext
<1> HIDE DEF ReadsAll
<1> QED
  BY <1>1, <1>2, <1>3, <1>4, PTL DEF Spec, ImplementsLog, LogStep
=============================================================================
