-------------------------- MODULE CachedEventStore --------------------------
(***************************************************************************)
(* internal/simulation/cached_store.go over a delegate whose Load and      *)
(* Append are atomic: a cache of whole streams, filled outside the lock    *)
(* under the protection of a per-run epoch.                                *)
(***************************************************************************)
EXTENDS Integers, Sequences, FiniteSets

CONSTANTS
    Runs, Clients,
    Events,        \* domain events
    Batches,       \* the event slices that may be appended
    MaxRuns,       \* maxRuns
    MaxVersion,    \* bound on the length of a stream
    MaxEpoch       \* bound on invalidations and empty appends

ASSUME StoreAssumption ==
    /\ Batches \subseteq Seq(Events)
    /\ MaxRuns \in Nat \ {0} /\ MaxVersion \in Nat /\ MaxEpoch \in Nat
    /\ IsFiniteSet(Runs)

VARIABLES
    log,                   \* run -> the delegate's stream
    cached,                \* the runs in CachedEventStore.streams
    records,               \* run -> the records of its cachedStream
    epochs,
    pc,                    \* client -> where it is inside Load or Append
    on, mark, epoch, data, \* client -> run, version, epoch and records it holds
    acked, result          \* history: acknowledged versions, returned records

cache == <<cached, records>>
vars == <<log, cache, epochs, pc, on, mark, epoch, data, acked, result>>

Greater(a, b) == IF a > b THEN a ELSE b

Init ==
    /\ log = [r \in Runs |-> <<>>]
    /\ cached = {}
    /\ records = [r \in Runs |-> <<>>]
    /\ epochs = [r \in Runs |-> 0]
    /\ pc = [c \in Clients |-> "idle"]
    /\ on \in [Clients -> Runs]
    /\ mark = [c \in Clients |-> 0]
    /\ epoch = [c \in Clients |-> 0]
    /\ data = [c \in Clients |-> <<>>]
    /\ acked = [r \in Runs |-> 0]
    /\ result = [c \in Clients |-> <<>>]

Goto(c, position) == pc' = [pc EXCEPT ![c] = position]
Return(c) ==
    /\ Goto(c, "idle")
    /\ mark' = [mark EXCEPT ![c] = 0]
    /\ epoch' = [epoch EXCEPT ![c] = 0]
    /\ data' = [data EXCEPT ![c] = <<>>]

Hit(c, r) ==
    /\ pc[c] = "idle" /\ r \in cached
    /\ result' = [result EXCEPT ![c] = records[r]]
    /\ UNCHANGED <<log, cache, epochs, pc, on, mark, epoch, data, acked>>

\* The epoch is read under the lock that found the stream missing.
Miss(c, r) ==
    /\ pc[c] = "idle" /\ r \notin cached
    /\ on' = [on EXCEPT ![c] = r]
    /\ mark' = [mark EXCEPT ![c] = acked[r]]
    /\ epoch' = [epoch EXCEPT ![c] = epochs[r]]
    /\ result' = [result EXCEPT ![c] = <<>>]
    /\ Goto(c, "missed")
    /\ UNCHANGED <<log, cache, epochs, data, acked>>

DelegateLoad(c) ==
    /\ pc[c] = "missed"
    /\ data' = [data EXCEPT ![c] = log[on[c]]]
    /\ Goto(c, "loaded")
    /\ UNCHANGED <<log, cache, epochs, on, mark, epoch, acked, result>>

\* r enters the cache and evictLocked makes room.  The victims are the least
\* recently used streams; which ones these are is left open.
Insert(r, stream) ==
    /\ \E kept \in SUBSET (cached \cup {r}) :
         /\ r \in kept
         /\ IF Cardinality(cached \cup {r}) <= MaxRuns
              THEN kept = cached \cup {r}
              ELSE Cardinality(kept) = MaxRuns
         /\ cached' = kept
    /\ records' = [x \in Runs |->
         IF x = r THEN stream ELSE IF x \in cached' THEN records[x] ELSE <<>>]

\* Mutant: what was loaded is cached whatever happened meanwhile.
UnchangedAlways(c) == TRUE
\* No append and no Invalidate has come between.
EpochUnchanged(c) == epochs[on[c]] = epoch[c]

Install(c) ==
    /\ pc[c] = "loaded" /\ EpochUnchanged(c)
    /\ Insert(on[c], data[c])
    /\ result' = [result EXCEPT ![c] = data[c]]
    /\ Return(c)
    /\ UNCHANGED <<log, epochs, on, acked>>

ReturnUncached(c) ==
    /\ pc[c] = "loaded" /\ ~EpochUnchanged(c)
    /\ result' = [result EXCEPT ![c] = data[c]]
    /\ Return(c)
    /\ UNCHANGED <<log, cache, epochs, on, acked>>

\* The delegate took the batch; a version conflict would change nothing.
DelegateAppend(c, r, batch) ==
    /\ pc[c] = "idle"
    /\ Len(log[r]) + Len(batch) <= MaxVersion
    /\ batch = <<>> => epochs[r] < MaxEpoch
    /\ log' = [log EXCEPT ![r] = @ \o batch]
    /\ on' = [on EXCEPT ![c] = r]
    /\ mark' = [mark EXCEPT ![c] = Len(log[r]) + Len(batch)]
    /\ data' = [data EXCEPT ![c] = batch]
    /\ result' = [result EXCEPT ![c] = <<>>]
    /\ Goto(c, "appended")
    /\ UNCHANGED <<cache, epochs, epoch, acked>>

Drop(r) ==
    /\ cached' = cached \ {r}
    /\ records' = [records EXCEPT ![r] = <<>>]

\* Mutant: the appended records are added to whatever is cached.
ContinuesAlways(c) == on[c] \in cached
\* The cached stream ends where the append began.
Continues(c) == on[c] \in cached /\ Len(records[on[c]]) = mark[c] - Len(data[c])

\* Append returns after its second critical section.
UpdateCache(c) ==
    LET r == on[c] IN
    /\ pc[c] = "appended"
    /\ epochs' = [epochs EXCEPT ![r] = @ + 1]
    /\ IF Continues(c)
         THEN /\ records' = [records EXCEPT ![r] = @ \o data[c]]
              /\ UNCHANGED cached
         ELSE Drop(r)
    /\ acked' = [acked EXCEPT ![r] = Greater(@, mark[c])]
    /\ Return(c)
    /\ UNCHANGED <<log, on, result>>

Invalidate(r) ==
    /\ epochs[r] < MaxEpoch
    /\ epochs' = [epochs EXCEPT ![r] = @ + 1]
    /\ Drop(r)
    /\ UNCHANGED <<log, pc, on, mark, epoch, data, acked, result>>

Next ==
    \/ \E c \in Clients :
         \/ DelegateLoad(c) \/ Install(c) \/ ReturnUncached(c) \/ UpdateCache(c)
         \/ \E r \in Runs :
              \/ Hit(c, r) \/ Miss(c, r)
              \/ \E batch \in Batches : DelegateAppend(c, r, batch)
    \/ \E r \in Runs : Invalidate(r)

Spec == Init /\ [][Next]_vars

-----------------------------------------------------------------------------
(* Properties *)

TypeOK ==
    /\ log \in [Runs -> Seq(Events)] /\ records \in [Runs -> Seq(Events)]
    /\ cached \subseteq Runs
    /\ epochs \in [Runs -> Nat]
    /\ pc \in [Clients -> {"idle", "missed", "loaded", "appended"}]
    /\ on \in [Clients -> Runs] /\ mark \in [Clients -> Nat] /\ epoch \in [Clients -> Nat]
    /\ data \in [Clients -> Seq(Events)] /\ result \in [Clients -> Seq(Events)]
    /\ acked \in [Runs -> Nat]

Prefix(s, t) == Len(s) <= Len(t) /\ \A i \in 1..Len(s) : s[i] = t[i]

\* A cached stream is a prefix of the delegate's and holds every acknowledged
\* append, whatever loads and appends overlapped with filling the cache.
CacheCurrent ==
    \A r \in cached : Prefix(records[r], log[r]) /\ acked[r] <= Len(records[r])

\* The cache keeps at most maxRuns streams.
CacheWithinLimit == Cardinality(cached) <= MaxRuns

\* The cache is invisible: every Load and Append behaves as one of the store.
PhaseAt(position) ==
    CASE position = "idle" -> "idle"
      [] position = "appended" -> "appending"
      [] OTHER -> "loading"
Store == INSTANCE EventStore WITH phase <- [c \in Clients |-> PhaseAt(pc[c])]
StoreInit == Store!Init
StoreStep ==
    \/ UNCHANGED Store!vars
    \/ \E c \in Clients :
         \/ Store!EndLoad(c) \/ Store!Acknowledge(c)
         \/ \E r \in Runs :
              \/ Store!BeginLoad(c, r) \/ Store!LoadAtOnce(c, r)
              \/ \E batch \in Batches : Store!CommitAppend(c, r, batch)
BehavesAsStore == StoreInit /\ [][StoreStep]_vars
=============================================================================
