----------------------------- MODULE StreamedStore -----------------------------
(***************************************************************************)
(* internal/persistence/journal/store.go as the delegate of the cache: its *)
(* Store keeps a few runStreams in memory, hands one out per call, and     *)
(* forgets the ones nobody uses.  A runStream knows its journal's length;  *)
(* two of them for one run would each write at their own position.  Audit  *)
(* records share the stream but do not pass through the cache.             *)
(***************************************************************************)
EXTENDS CachedEventStore

CONSTANTS
    Streams,      \* the memory a runStream may be allocated in
    NoStream,
    MaxStreams,   \* Store.maxRuns
    MaxFrames     \* bound on the frames of one journal

ASSUME StreamsAssumption ==
    /\ NoStream \notin Streams
    /\ MaxStreams \in Nat \ {0} /\ MaxFrames \in Nat
    /\ IsFiniteSet(Clients)

VARIABLES
    frames,   \* run -> frames of its journal, domain and audit
    runs,     \* Store.runs: run -> its runStream, or NoStream
    older,    \* the pairs of runs of the map of which the first has the
              \* smaller lastAccess
    users,    \* stream -> runStream.users
    known,    \* stream -> initialized, domainVersion and nextSequence
    held,     \* client -> the stream its journal call works on, or NoStream
    call,     \* client -> the journal call it is in, and on which run
    inside    \* the clients that hold the mu of their stream

table == <<runs, older, users, held, call>>
streamVars == <<frames, known, table, inside>>

NoCall == [kind |-> "none", run |-> NoStream]
Fresh == [ready |-> FALSE, version |-> 0, sequence |-> 0]
Mapped == {r \in Runs : runs[r] # NoStream}

StreamInit ==
    /\ Init
    /\ frames = [r \in Runs |-> 0]
    /\ runs = [r \in Runs |-> NoStream]
    /\ older = {}
    /\ users = [s \in Streams |-> 0]
    /\ known = [s \in Streams |-> Fresh]
    /\ held = [c \in Clients |-> NoStream]
    /\ call = [c \in Clients |-> NoCall]
    /\ inside = {}

InCall(c) == call[c].kind # "none"
\* No runStream of the map and of no call under way: garbage.
Free(s) == s \notin {runs[r] : r \in Runs} \cup {held[c] : c \in Clients}

-----------------------------------------------------------------------------
(* acquireStream and releaseStream *)

Acquire(c, r, kind) ==
    /\ ~InCall(c)
    /\ \/ /\ runs[r] # NoStream
          /\ users' = [users EXCEPT ![runs[r]] = @ + 1]
          /\ UNCHANGED <<runs, known>>
       \/ /\ runs[r] = NoStream
          /\ \E s \in {x \in Streams : Free(x)} :
               /\ runs' = [runs EXCEPT ![r] = s]
               /\ users' = [users EXCEPT ![s] = 1]
               /\ known' = [known EXCEPT ![s] = Fresh]
    /\ older' = {p \in older : r \notin {p[1], p[2]}} \cup ((Mapped \ {r}) \X {r})
    /\ held' = [held EXCEPT ![c] = runs'[r]]
    /\ call' = [call EXCEPT ![c] = [kind |-> kind, run |-> r]]
    /\ UNCHANGED <<vars, frames, inside>>

\* The runs of the map whose stream nobody uses, and how many came before r.
Unused(using) == {r \in Mapped : using[runs[r]] = 0}
Before(r, among) == Cardinality({x \in among : <<x, r>> \in older})
Excess == Cardinality(Mapped) - MaxStreams

\* Mutants: the loop removes streams in use too; it stops one stream late.
KeptAny(using) == {r \in Mapped : Before(r, Mapped) >= Excess}
KeptLate(using) ==
    {r \in Mapped : r \in Unused(using) => Before(r, Unused(using)) >= Excess - 1}
\* What the loop of releaseStream leaves: the runs accessed longest ago go
\* first, those in use stay.
Kept(using) ==
    {r \in Mapped : r \in Unused(using) => Before(r, Unused(using)) >= Excess}

\* The deferred releaseStream, after mu has been unlocked.  A runStream that
\* nothing refers to any more is collected.
Release(c) ==
    LET s == held[c]
        using == IF runs[call[c].run] = s /\ users[s] > 0
                   THEN [users EXCEPT ![s] = @ - 1] ELSE users
    IN  /\ call[c].kind = "over"
        /\ runs' = [r \in Runs |-> IF r \in Kept(using) THEN runs[r] ELSE NoStream]
        /\ older' = older \cap (Kept(using) \X Kept(using))
        /\ held' = [held EXCEPT ![c] = NoStream]
        /\ call' = [call EXCEPT ![c] = NoCall]
        /\ users' = [x \in Streams |-> IF Free(x)' THEN 0 ELSE using[x]]
        /\ known' = [x \in Streams |-> IF Free(x)' THEN Fresh ELSE known[x]]
        /\ UNCHANGED <<vars, frames, inside>>

-----------------------------------------------------------------------------
(* What a call does under stream.mu *)

\* Mutant: what the stream held is taken for the journal.
EnterUninitialized(c) ==
    LET s == held[c]
    IN  /\ InCall(c) /\ call[c].kind # "over" /\ c \notin inside
        /\ \A d \in inside : held[d] # s
        /\ inside' = inside \cup {c}
        /\ known' = [known EXCEPT ![s].ready = TRUE]
        /\ UNCHANGED <<vars, frames, table>>
\* mu.Lock, and initialize reads the journal of a stream that is new.
Enter(c) ==
    LET s == held[c]
        r == call[c].run
    IN  /\ InCall(c) /\ call[c].kind # "over" /\ c \notin inside
        /\ \A d \in inside : held[d] # s
        /\ inside' = inside \cup {c}
        /\ known' = [known EXCEPT ![s] = IF @.ready THEN @ ELSE
                       [ready |-> TRUE, version |-> Len(log[r]), sequence |-> frames[r]]]
        /\ UNCHANGED <<vars, frames, table>>

\* initialize fails, as when the context has ended: the stream stays unread for
\* the next call, and this one is over.
CannotRead(c) ==
    /\ call[c].kind = "write" /\ c \notin inside
    /\ \A d \in inside : held[d] # held[c]
    /\ ~known[held[c]].ready
    /\ call' = [call EXCEPT ![c].kind = "over"]
    /\ UNCHANGED <<vars, frames, runs, older, users, known, held, inside>>

\* The body of the call returns and mu is unlocked.
Leave(c) ==
    /\ inside' = inside \ {c}
    /\ call' = [call EXCEPT ![c].kind = "over"]
    /\ UNCHANGED <<runs, older, users, held>>

Doing(c, kind) == c \in inside /\ call[c].kind = kind
Knows(c) == known[held[c]]

\* Load: a copy of stream.events.
LoadRecords(c) ==
    /\ Doing(c, "load")
    /\ data' = [data EXCEPT ![c] = SubSeq(log[on[c]], 1, Knows(c).version)]
    /\ Goto(c, "loaded")
    /\ Leave(c)
    /\ UNCHANGED <<log, cache, epochs, on, mark, epoch, acked, result, frames, known>>

\* Append at the version the stream knows; an empty batch writes nothing.
AppendRecords(c, batch) ==
    LET r == call[c].run
        version == Knows(c).version + Len(batch)
        written == IF batch = <<>> THEN 0 ELSE 1
    IN  /\ Doing(c, "write")
        /\ version <= MaxVersion
        /\ frames[r] + written <= MaxFrames
        /\ batch = <<>> => epochs[r] < MaxEpoch
        /\ log' = [log EXCEPT ![r] = @ \o batch]
        /\ frames' = [frames EXCEPT ![r] = @ + written]
        /\ known' = [known EXCEPT ![held[c]].version = version,
                                  ![held[c]].sequence = @ + written]
        /\ on' = [on EXCEPT ![c] = r]
        /\ mark' = [mark EXCEPT ![c] = version]
        /\ data' = [data EXCEPT ![c] = batch]
        /\ result' = [result EXCEPT ![c] = <<>>]
        /\ Goto(c, "appended")
        /\ Leave(c)
        /\ UNCHANGED <<cache, epochs, epoch, acked>>

\* RecordAgentRequest or CompleteAgentRequest writes its frame.
WriteAudit(c) ==
    LET r == call[c].run
    IN  /\ Doing(c, "write") /\ frames[r] < MaxFrames
        /\ frames' = [frames EXCEPT ![r] = @ + 1]
        /\ known' = [known EXCEPT ![held[c]].sequence = @ + 1]
        /\ Leave(c)
        /\ UNCHANGED vars

\* A version conflict, a cancelled context, a repeated audit or a mere reading
\* of audits: nothing is written, and the stream is given back all the same.
Refuse(c) ==
    /\ Doing(c, "write")
    /\ Leave(c)
    /\ UNCHANGED <<vars, frames, known>>

\* A step of the cache by a client that is in no journal call.
InMemory ==
    /\ \/ \E c \in Clients :
            /\ ~InCall(c)
            /\ \/ Install(c) \/ ReturnUncached(c) \/ UpdateCache(c)
               \/ \E r \in Runs : Hit(c, r) \/ Miss(c, r)
       \/ \E r \in Runs : Invalidate(r)
    /\ UNCHANGED streamVars

\* A call of Load, or of one that may write: Append, RecordAgentRequest,
\* CompleteAgentRequest and LoadAgentRequests.
Calls(c, r) ==
    \/ pc[c] = "missed" /\ r = on[c] /\ Acquire(c, r, "load")
    \/ pc[c] = "idle" /\ Acquire(c, r, "write")

StreamNext ==
    \/ InMemory
    \/ \E c \in Clients :
         \/ Enter(c) \/ CannotRead(c)
         \/ LoadRecords(c) \/ WriteAudit(c) \/ Refuse(c) \/ Release(c)
         \/ \E r \in Runs : Calls(c, r)
         \/ \E batch \in Batches : AppendRecords(c, batch)

StreamSpec == StreamInit /\ [][StreamNext]_<<vars, streamVars>>

-----------------------------------------------------------------------------
(* Properties *)

\* Every call under way works on the runStream the map has for its run: the
\* store never forgets one in use (releaseStream, users), so calls on one run
\* exclude each other through one mu.
OneStreamPerRun == \A c \in Clients : InCall(c) => held[c] = runs[call[c].run]

\* A runStream that has been read knows every frame of its journal: no write
\* goes past it, whoever wrote and whichever streams were forgotten between.
StreamCurrent ==
    \A r \in Mapped : LET k == known[runs[r]] IN
        k.ready => k.version = Len(log[r]) /\ k.sequence = frames[r]

\* With no call under way the store keeps at most maxRuns streams.
StreamsWithinLimit ==
    (\A c \in Clients : ~InCall(c)) => Cardinality(Mapped) <= MaxStreams

\* A journal has one writer at a time, and it knows where the journal ends.
OneWriter == OneStreamPerRun /\ StreamCurrent

\* Neither memory grows with the number of runs.
MemoryBounded == CacheWithinLimit /\ StreamsWithinLimit

\* To the cache the journal is the atomic delegate it takes it for.
DelegateIsAtomic == Init /\ [][Next]_vars
=============================================================================
