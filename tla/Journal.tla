------------------------------- MODULE Journal -------------------------------
(***************************************************************************)
(* internal/persistence/journal: the append-only journal of one run, its   *)
(* frames, segments and recovery.  stream.mu admits one operation at a     *)
(* time, so at most one is in flight.  A frame is a number of cells: two   *)
(* for its header and some for its payload and checksum; a crash may cut   *)
(* what has not been synced after any cell, so a file is a sequence of     *)
(* pieces, frames that are there with all or with the first of their       *)
(* cells.                                                                  *)
(***************************************************************************)
EXTENDS Integers, Sequences, FiniteSets, SequencesExt

CONSTANTS
    Sizes,          \* the numbers of events an Append may carry
    PartSize,       \* eventsPerPart
    Requests,       \* agent requests that are audited
    NoRequest,
    SegmentSize,    \* segmentSize, in cells
    CutsAtHeader,   \* whether a crash may leave exactly a header
    Faults,         \* the system calls that may fail
    MaxOps, MaxCrashes, MaxFaults, MaxSegments   \* bounds

ASSUME JournalAssumption ==
    /\ Sizes \subseteq Nat \ {0} /\ PartSize \in Nat \ {0}
    /\ NoRequest \notin Requests
    /\ SegmentSize \in Nat /\ SegmentSize >= 4
    /\ CutsAtHeader \in BOOLEAN
    /\ Faults \subseteq {"write", "sync", "remove"}
    /\ {MaxOps, MaxCrashes, MaxFaults} \subseteq Nat /\ MaxSegments \in Nat \ {0}

VARIABLES
    logs,        \* segment number -> pieces of its .log file
    archives,    \* segment number -> pieces of its .log.zst file
    temps,       \* the segments with a .log.zst.tmp file
    unsynced,    \* pieces at the end of the active .log not synced yet
    stream,      \* runStream: what the process knows
    op,          \* the operation in flight
    ops,         \* operations begun so far
    acked,       \* history: the batches whose operation has succeeded
    crashes, faults

disk == <<logs, archives, temps, unsynced>>
vars == <<disk, stream, op, ops, acked, crashes, faults>>

-----------------------------------------------------------------------------
(* Frames: the checksum is one cell, every event and every audit record one more. *)

HeaderCells == 2
FrameCells(f) ==
    HeaderCells + 1 + Len(f.events)
      + (IF f.kind \in {"RequestReceived", "RequestCompleted"} THEN 1 ELSE 0)
Piece(f, count) == [frame |-> f, cells |-> count]
IsWhole(piece) == piece.cells = FrameCells(piece.frame)
Size(file) == FoldLeft(LAMBDA n, piece : n + piece.cells, 0, file)

\* The piece at which readFrame, applied again and again, first fails.
Break(file) ==
    CHOOSE n \in 1..(Len(file) + 1) :
        (\A i \in 1..(n - 1) : IsWhole(file[i])) /\ (n <= Len(file) => ~IsWhole(file[n]))

\* The frames before it, and how reading ended: the checksum fails when as many
\* cells as the header promises are there, and are not those of the frame.  The
\* end of the file right after a header is io.EOF like the end between frames.
ReadFrames(file) ==
    LET n == Break(file)
        broken == file[n]
        left == broken.cells + Size(SubSeq(file, n + 1, Len(file)))
        consumed == IF broken.cells < HeaderCells THEN HeaderCells ELSE FrameCells(broken.frame)
    IN  [frames |-> [i \in 1..(n - 1) |-> file[i].frame],
         how |-> IF n > Len(file) THEN "eof"
                 ELSE IF left = HeaderCells /\ broken.cells = left THEN "eof"
                 ELSE IF left <= consumed THEN "torn" ELSE "corrupt"]

-----------------------------------------------------------------------------
(* Recovery. *)

NoBatch == [first |-> 0, count |-> 0, events |-> <<>>]
Empty == [ok |-> TRUE, sequence |-> 0, version |-> 0, batches |-> <<>>, pending |-> NoBatch]

Domain(domainEvents) == [kind |-> "domain", events |-> domainEvents, request |-> NoRequest]
Audit(kind, q) == [kind |-> kind, events |-> <<>>, request |-> q]
Received(p) == {b.request : b \in {x \in ToSet(p.batches) : x.kind = "RequestReceived"}}
Completed(p) == {b.request : b \in {x \in ToSet(p.batches) : x.kind = "RequestCompleted"}}

Failed(p) == [p EXCEPT !.ok = FALSE]
Checked(p, condition, next) == IF condition THEN next ELSE Failed(p)

\* Mutant: the events of a part count before the batch is committed.
ApplyPartAtOnce(p, f) ==
    Checked(p, p.pending.count # 0 /\ f.first = p.pending.first + Len(p.pending.events),
      [p EXCEPT !.pending.events = @ \o f.events, !.batches = Append(@, Domain(f.events))])
ApplyPart(p, f) ==
    Checked(p, p.pending.count # 0 /\ f.first = p.pending.first + Len(p.pending.events),
      [p EXCEPT !.pending.events = @ \o f.events])

ApplyKind(p, f) ==
    CASE f.kind = "DomainEvents" ->
           Checked(p, f.first = p.version + 1,
             [p EXCEPT !.batches = Append(@, Domain(f.events)),
                       !.version = @ + Len(f.events)])
      [] f.kind = "DomainBegin" ->
           Checked(p, f.first = p.version + 1,
             [p EXCEPT !.pending = [first |-> f.first, count |-> f.count, events |-> <<>>]])
      [] f.kind = "DomainPart" -> ApplyPart(p, f)
      [] f.kind = "DomainCommit" ->
           Checked(p, /\ p.pending.count # 0
                      /\ Len(p.pending.events) = p.pending.count,
             [p EXCEPT !.batches = Append(@, Domain(p.pending.events)),
                       !.version = @ + p.pending.count,
                       !.pending = NoBatch])
      [] f.kind = "RequestReceived" ->
           Checked(p, f.request \notin Received(p),
             [p EXCEPT !.batches = Append(@, Audit(f.kind, f.request))])
      [] f.kind = "RequestCompleted" ->
           Checked(p, f.request \in Received(p),
             [p EXCEPT !.batches = Append(@, Audit(f.kind, f.request))])

\* One turn of the loop of readSegment after a frame has been read.
ApplyFrame(p, f) ==
    IF ~p.ok \/ f.seq # p.sequence + 1 THEN Failed(p)
    ELSE [ApplyKind(p, f) EXCEPT !.sequence = f.seq]

\* listSegments: a .log whose .log.zst has been published is ignored.
Segments == DOMAIN logs \cup DOMAIN archives
Contents(n) == IF n \in DOMAIN archives THEN archives[n] ELSE logs[n]

\* Mutant: a torn tail is skipped but stays in the file.
Untruncated(n) == logs[n]
\* The .log file once its torn tail has been cut off.
Truncated(n) ==
    LET read == ReadFrames(logs[n])
    IN  IF read.how = "torn" /\ n \notin DOMAIN archives
          THEN SubSeq(logs[n], 1, Len(read.frames)) ELSE logs[n]

\* The only member of a set; the set form makes TLC compute a value once.
Only(S) == CHOOSE x \in S : TRUE

Replayed(frames) ==
    LET after[i \in 0..Len(frames)] ==
          IF i = 0 THEN Empty ELSE Only({ApplyFrame(p, frames[i]) : p \in {after[i - 1]}})
    IN  after[Len(frames)]

\* What initialize makes of the files, read in the order of their numbers.
FramesOf(n) == IF n \in Segments THEN ReadFrames(Contents(n)).frames ELSE <<>>
AllFrames == FlattenSeq([n \in 1..MaxSegments |-> FramesOf(n)])
Readable(n) ==
    ReadFrames(Contents(n)).how \in IF n \in DOMAIN archives THEN {"eof"} ELSE {"eof", "torn"}
Replay ==
    LET all == Only({Replayed(frames) : frames \in {AllFrames}})
    IN  [all EXCEPT !.ok = @ /\ \A n \in Segments : Readable(n)]

\* Mutant: the segment of the last .log.zst stays the active one.
ActiveSame == IF Segments = {} THEN 1 ELSE CHOOSE n \in Segments : \A m \in Segments : m <= n
\* The segment appends go to after recovery.
Active ==
    IF Segments = {} THEN 1
    ELSE LET last == CHOOSE n \in Segments : \A m \in Segments : m <= n
         IN  IF last \in DOMAIN archives THEN last + 1 ELSE last

-----------------------------------------------------------------------------
(* Operations. *)

Idle == [pc |-> "idle", kind |-> "none", offset |-> 0, batch |-> Domain(<<>>)]
Down == [ready |-> FALSE, known |-> Empty, segment |-> 1, size |-> 0]

Init ==
    /\ logs = <<>> /\ archives = <<>> /\ temps = {} /\ unsynced = 0
    /\ stream = Down
    /\ op = Idle /\ ops = 0
    /\ acked = <<>>
    /\ crashes = 0 /\ faults = 0

\* Mutant: a recovered stream appends to the last segment there is.
InitializeSame ==
    /\ ~stream.ready /\ Replay.ok
    /\ stream' = [ready |-> TRUE, known |-> Replay, segment |-> ActiveSame,
                  size |-> IF ActiveSame \in DOMAIN logs THEN Size(logs[ActiveSame]) ELSE 0]
    /\ logs' = [n \in DOMAIN logs |-> Truncated(n)]
    /\ unsynced' = 0
    /\ UNCHANGED <<archives, temps, op, ops, acked, crashes, faults>>
\* The first operation on a stream reads the journal; if that fails, every
\* operation does, and nothing changes.
Initialize ==
    /\ ~stream.ready /\ Replay.ok
    /\ stream' = [ready |-> TRUE, known |-> Replay, segment |-> Active,
                  size |-> IF Active \in DOMAIN logs THEN Size(Truncated(Active)) ELSE 0]
    /\ logs' = [n \in DOMAIN logs |-> Truncated(n)]
    /\ unsynced' = 0
    /\ UNCHANGED <<archives, temps, op, ops, acked, crashes, faults>>

Begin(kind, batch) ==
    /\ stream.ready /\ op.pc = "idle" /\ ops < MaxOps
    /\ op' = [pc |-> "frame", kind |-> kind, offset |-> 0, batch |-> batch]
    /\ ops' = ops + 1
    /\ UNCHANGED <<disk, stream, acked, crashes, faults>>

AppendEvents(n) ==
    LET domainEvents == [i \in 1..n |-> [op |-> ops + 1, index |-> i]]
    IN  Begin(IF n <= PartSize THEN "DomainEvents" ELSE "DomainBegin", Domain(domainEvents))

RecordAgentRequest(q) ==
    /\ q \notin Received(stream.known)
    /\ Begin("RequestReceived", Audit("RequestReceived", q))

CompleteAgentRequest(q) ==
    /\ q \in Received(stream.known) \ Completed(stream.known)
    /\ Begin("RequestCompleted", Audit("RequestCompleted", q))

\* The frame to write, and what comes after it: an Append of more than PartSize
\* events goes through them part by part.
PartEnd ==
    LET n == Len(op.batch.events)
    IN  IF op.offset + PartSize > n THEN n ELSE op.offset + PartSize
NextFrame ==
    LET first == stream.known.version + 1
        domainEvents == op.batch.events
    IN  [kind |-> op.kind, seq |-> stream.known.sequence + 1, request |-> op.batch.request,
         first |-> CASE op.kind \in {"DomainEvents", "DomainBegin"} -> first
                     [] op.kind = "DomainPart" -> first + op.offset
                     [] OTHER -> 0,
         count |-> IF op.kind = "DomainBegin" THEN Len(domainEvents) ELSE 0,
         events |-> CASE op.kind = "DomainEvents" -> domainEvents
                      [] op.kind = "DomainPart" -> SubSeq(domainEvents, op.offset + 1, PartEnd)
                      [] OTHER -> <<>>]
NextOp ==
    CASE op.kind = "DomainBegin" -> [op EXCEPT !.pc = "frame", !.kind = "DomainPart"]
      [] op.kind = "DomainPart" ->
           [op EXCEPT !.pc = "frame", !.offset = PartEnd,
                      !.kind = IF PartEnd < Len(op.batch.events)
                                 THEN "DomainPart" ELSE "DomainCommit"]
      [] OTHER -> [op EXCEPT !.pc = "synced"]

Goto(pc) == op' = [op EXCEPT !.pc = pc]
Put(files, n, file) == [m \in DOMAIN files \cup {n} |-> IF m = n THEN file ELSE files[m]]

\* appendFrame looks at the context before anything else, then at the size of the
\* frame: it gives up on one that no segment can hold.
Cancel ==
    /\ op.pc = "frame"
    /\ op' = Idle
    /\ UNCHANGED <<disk, stream, ops, acked, crashes, faults>>

Fits == op.pc = "frame" /\ FrameCells(NextFrame) <= SegmentSize
NeedsRotation ==
    /\ Fits
    /\ stream.size > 0
    /\ stream.size + FrameCells(NextFrame) > SegmentSize

\* closeSegment opens the temporary file with O_EXCL.
CreateTemporary ==
    /\ NeedsRotation /\ stream.segment \notin temps /\ stream.segment < MaxSegments
    /\ temps' = temps \cup {stream.segment}
    /\ Goto("compressing")
    /\ UNCHANGED <<logs, archives, unsynced, stream, ops, acked, crashes, faults>>

RejectTemporary ==
    /\ NeedsRotation /\ stream.segment \in temps
    /\ op' = Idle
    /\ UNCHANGED <<disk, stream, ops, acked, crashes, faults>>

\* The copy has been synced; the rename replaces what had the name.
Publish ==
    /\ op.pc = "compressing"
    /\ archives' = Put(archives, stream.segment, logs[stream.segment])
    /\ temps' = temps \ {stream.segment}
    /\ Goto("published")
    /\ UNCHANGED <<logs, unsynced, stream, ops, acked, crashes, faults>>

RemoveSource ==
    /\ op.pc = "published"
    /\ logs' = [n \in DOMAIN logs \ {stream.segment} |-> logs[n]]
    /\ stream' = [stream EXCEPT !.segment = @ + 1, !.size = 0]
    /\ unsynced' = 0
    /\ Goto("rotated")
    /\ UNCHANGED <<archives, temps, ops, acked, crashes, faults>>

Written == IF stream.segment \in DOMAIN logs THEN logs[stream.segment] ELSE <<>>
MayWrite == op.pc = "rotated" \/ (Fits /\ ~NeedsRotation)
WriteCells(count) ==
    /\ logs' = Put(logs, stream.segment, Append(Written, Piece(NextFrame, count)))
    /\ unsynced' = unsynced + 1

Write ==
    /\ MayWrite
    /\ WriteCells(FrameCells(NextFrame))
    /\ Goto("written")
    /\ UNCHANGED <<archives, temps, stream, ops, acked, crashes, faults>>

\* The process counts a frame only once it has been synced.
Sync ==
    /\ op.pc = "written"
    /\ unsynced' = 0
    /\ stream' = [stream EXCEPT !.size = @ + FrameCells(NextFrame), !.known.sequence = @ + 1]
    /\ op' = NextOp
    /\ UNCHANGED <<logs, archives, temps, ops, acked, crashes, faults>>

\* The caller learns that its operation has succeeded.
Return ==
    LET known == [stream.known EXCEPT !.batches = Append(@, op.batch),
                                      !.version = @ + Len(op.batch.events)]
    IN  /\ op.pc = "synced"
        /\ stream' = [stream EXCEPT !.known = known]
        /\ acked' = known.batches
        /\ op' = Idle
        /\ UNCHANGED <<disk, ops, crashes, faults>>

-----------------------------------------------------------------------------
(* Failures. *)

Fault(call) ==
    /\ call \in Faults /\ faults < MaxFaults
    /\ faults' = faults + 1
    /\ op' = Idle

\* The disk fills up in the middle of a frame.
WriteFails ==
    /\ MayWrite
    /\ Fault("write")
    /\ \E count \in 1..(FrameCells(NextFrame) - 1) : WriteCells(count)
    /\ UNCHANGED <<archives, temps, stream, ops, acked, crashes>>

SyncFails ==
    /\ op.pc = "written"
    /\ Fault("sync")
    /\ UNCHANGED <<disk, stream, ops, acked, crashes>>

RemoveFails ==
    /\ op.pc = "published"
    /\ Fault("remove")
    /\ UNCHANGED <<disk, stream, ops, acked, crashes>>

\* What a cut in the piece after the first k may leave of a file.
CutAfter(file, k) ==
    {SubSeq(file, 1, k)} \cup
    {Append(SubSeq(file, 1, k), Piece(file[k + 1].frame, count)) :
       count \in {c \in 1..(file[k + 1].cells - 1) : CutsAtHeader \/ c # HeaderCells}}

Crash ==
    /\ stream.ready /\ crashes < MaxCrashes
    /\ \/ UNCHANGED logs
       \/ \E k \in (Len(Written) - unsynced)..(Len(Written) - 1) :
            \E file \in CutAfter(Written, k) :
              logs' = [logs EXCEPT ![stream.segment] = file]
    /\ unsynced' = 0
    /\ stream' = Down /\ op' = Idle
    /\ crashes' = crashes + 1
    /\ UNCHANGED <<archives, temps, ops, acked, faults>>

\* releaseStream drops a stream nobody uses when there are too many.
Evict ==
    /\ stream.ready /\ op.pc = "idle"
    /\ stream' = Down
    /\ UNCHANGED <<disk, op, ops, acked, crashes, faults>>

Next ==
    \/ Initialize \/ Cancel \/ Evict
    \/ \E n \in Sizes : AppendEvents(n)
    \/ \E q \in Requests : RecordAgentRequest(q) \/ CompleteAgentRequest(q)
    \/ CreateTemporary \/ RejectTemporary \/ Publish \/ RemoveSource
    \/ Write \/ Sync \/ Return
    \/ Crash

Spec == Init /\ [][Next]_vars

\* The same with system calls that fail and a process that goes on.
FaultyNext == Next \/ WriteFails \/ SyncFails \/ RemoveFails
FaultySpec == Init /\ [][FaultyNext]_vars

-----------------------------------------------------------------------------
(* Properties *)

\* The journal can be read at any moment and holds everything whose append
\* has succeeded, in that order.
AckedSurvives == LET replay == Replay IN replay.ok /\ IsPrefix(acked, replay.batches)

\* Between two operations the process knows what recovery would tell it: a
\* stream may be forgotten at any time (ARCHITECTURE.md: caches are
\* reconstructable).
MemoryIsReplay ==
    stream.ready /\ op.pc = "idle" =>
      LET replay == Replay
      IN  /\ stream.segment = Active
          /\ \A field \in {"sequence", "version", "batches"} :
               stream.known[field] = replay[field]

\* A segment can always be closed once it is full.
SegmentCanClose == NeedsRotation => stream.segment \notin temps

\* The journal is a log of whole batches.
Log == INSTANCE DurableLog
    WITH Batches <- {}, log <- Replay.batches, promised <- Len(acked)
Extends == \E batch \in {op.batch} : Log!Extend(batch)
ImplementsLog ==
    Log!Init /\ [][\/ UNCHANGED <<logs, archives, acked>>
                   \/ Log!Promise \/ Extends \/ Log!Lose \/ UNCHANGED Log!vars]_vars
=============================================================================
