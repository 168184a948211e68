----------------------------- MODULE StoreProofs -----------------------------
(***************************************************************************)
(* The store of events, and a service that writes through it.             *)
(*                                                                         *)
(* The cache of internal/simulation/cached_store.go is invisible: for any  *)
(* runs, clients, batches and cache size its clients see an EventStore.    *)
(* And the journal's table of runStreams is safe: for any maxRuns a        *)
(* journal has one writer at a time, and the cache may take the journal    *)
(* for the atomic delegate its own theorems assume.                        *)
(*                                                                         *)
(* The credentials of a run's servers, for any servers, rotations and      *)
(* number of starts: what ensureServerCredentials leaves can be used, what *)
(* is superseded has expired, and the versions of a server follow each     *)
(* other, whichever session writes next.                                   *)
(***************************************************************************)
EXTENDS StreamedStore, ServerCredentials, SequenceTheorems, FiniteSetTheorems, NaturalsInduction, TLAPS

\* FoldSteps' facts about orders, which hold whatever operators it is given.
AsBefore(c, x, e) == x
One(c, m) == 1
Orders == INSTANCE FoldSteps WITH Op <- AsBefore, Inv <- AsBefore, Weight <- One

\* FoldSteps' LeftWithinLimit, of the finite sets of this module.
LEMMA LeftWithinLimit ==
    ASSUME NEW opened, IsFiniteSet(opened), NEW idle \in SUBSET opened, NEW limit \in Nat,
           NEW below \in [idle -> SUBSET idle],
           \A x \in idle : x \notin below[x],
           \A x, y \in idle : x # y => x \in below[y] \/ y \in below[x],
           \A x, y \in idle : y \in below[x] => below[y] \subseteq below[x],
           NEW removed, NEW left \in idle \ removed,
           removed = {x \in idle : Cardinality(below[x]) < Cardinality(opened) - limit}
    PROVE  IsFiniteSet(opened \ removed) /\ Cardinality(opened \ removed) <= limit
<1>1. \A S : Orders!Cardinality(S) = Cardinality(S)
  BY DEF Cardinality, Orders!Cardinality
<1>2. \A S : Orders!IsFiniteSet(S) <=> IsFiniteSet(S)
  BY DEF IsFiniteSet, Orders!IsFiniteSet
<1> QED
  BY <1>1, <1>2, Orders!LeftWithinLimit, SMT

USE StoreAssumption

(***************************************************************************)
(* What a call in flight holds.  A Load knows a prefix of the stream at    *)
(* least as long as when it began, and one with every acknowledged append  *)
(* as long as the epoch has not moved; an Append knows where its batch     *)
(* went.                                                                   *)
(***************************************************************************)
LoadInFlight(c) ==
    /\ pc[c] \in {"missed", "loaded"} => epoch[c] <= epochs[on[c]] /\ mark[c] <= acked[on[c]]
    /\ pc[c] = "loaded" =>
         /\ Prefix(data[c], log[on[c]])
         /\ mark[c] <= Len(data[c])
         /\ epochs[on[c]] = epoch[c] => acked[on[c]] <= Len(data[c])

Holds(stream, batch, upto) ==
    /\ Len(batch) <= upto /\ upto <= Len(stream)
    /\ \A i \in 1..Len(batch) : batch[i] = stream[upto - Len(batch) + i]

AppendInFlight(c) == pc[c] = "appended" => Holds(log[on[c]], data[c], mark[c])

StoreInv ==
    /\ TypeOK
    /\ CacheCurrent
    /\ \A r \in Runs : acked[r] <= Len(log[r])
    /\ \A c \in Clients : LoadInFlight(c) /\ AppendInFlight(c)

(***************************************************************************)
(* Sequences.                                                              *)
(***************************************************************************)
LEMMA Appended ==
    ASSUME NEW s \in Seq(Events), NEW t \in Seq(Events)
    PROVE  /\ s \o t \in Seq(Events) /\ Len(s \o t) = Len(s) + Len(t)
           /\ \A i \in 1..Len(s) : (s \o t)[i] = s[i]
           /\ \A i \in 1..Len(t) : (s \o t)[Len(s) + i] = t[i]
BY ConcatProperties

LEMMA PrefixGrows ==
    ASSUME NEW s \in Seq(Events), NEW t \in Seq(Events), NEW batch \in Seq(Events),
           Prefix(s, t)
    PROVE  Prefix(s, t \o batch)
BY Appended DEF Prefix

LEMMA HoldsGrows ==
    ASSUME NEW s \in Seq(Events), NEW t \in Seq(Events), NEW batch \in Seq(Events),
           NEW n \in Nat, Holds(t, s, n)
    PROVE  Holds(t \o batch, s, n)
<1>1. Len(s) <= n /\ n <= Len(t) /\ Len(s) \in Nat /\ Len(t) \in Nat
  BY DEF Holds
<1>2. \A i \in 1..Len(s) : n - Len(s) + i \in 1..Len(t)
  BY <1>1
<1> QED
  BY <1>1, <1>2, Appended DEF Holds

\* A cached prefix that ends where a batch began grows to a prefix.
LEMMA PrefixContinues ==
    ASSUME NEW s \in Seq(Events), NEW t \in Seq(Events), NEW batch \in Seq(Events),
           NEW n \in Nat, Prefix(s, t), Holds(t, batch, n), Len(s) = n - Len(batch)
    PROVE  Prefix(s \o batch, t) /\ Len(s \o batch) = n
<1>1. Len(s) \in Nat /\ Len(batch) \in Nat /\ Len(t) \in Nat
  OBVIOUS
<1>2. Len(s \o batch) = n /\ n <= Len(t)
  BY <1>1, Appended DEF Holds
<1>3. ASSUME NEW i \in 1..n PROVE (s \o batch)[i] = t[i]
  <2>1. CASE i <= Len(s)
    BY <1>1, <2>1, Appended DEF Prefix
  <2>2. CASE i > Len(s)
    <3>1. i - Len(s) \in 1..Len(batch)
      BY <1>1, <2>2
    <3>2. batch[i - Len(s)] = t[n - Len(batch) + (i - Len(s))]
      BY <3>1 DEF Holds
    <3>3. n - Len(batch) + (i - Len(s)) = i /\ Len(s) + (i - Len(s)) = i
      BY <1>1
    <3> QED
      BY <3>1, <3>2, <3>3, Appended
  <2> QED
    BY <1>1, <2>1, <2>2
<1> QED
  BY <1>2, <1>3 DEF Prefix

LEMMA PrefixIsSubSeq ==
    ASSUME NEW s \in Seq(Events), NEW t \in Seq(Events), Prefix(s, t)
    PROVE  s = SubSeq(t, 1, Len(s))
<1>1. Len(s) \in Nat /\ Len(t) \in Nat /\ Len(s) <= Len(t)
  BY DEF Prefix
<1>2. \A i \in 1..Len(s) : t[i] \in Events
  BY <1>1, ElementOfSeq
<1> DEFINE u == SubSeq(t, 1, Len(s))
<1>3. u \in Seq(Events) /\ Len(u) = Len(s) /\ \A i \in 1..Len(s) : u[i] = t[i]
  <2>1. /\ u \in Seq(Events)
        /\ Len(u) = IF 1 <= Len(s) THEN Len(s) - 1 + 1 ELSE 0
        /\ \A i \in 1..(Len(s) - 1 + 1) : u[i] = t[1 + i - 1]
    BY <1>1, <1>2, SubSeqProperties
  <2> QED
    BY <1>1, <2>1
<1>4. \A i \in 1..Len(s) : s[i] = u[i]
  BY <1>3 DEF Prefix
<1> HIDE DEF u
<1> QED
  BY <1>3, <1>4, SeqEqual

(***************************************************************************)
(* The invariant.                                                          *)
(***************************************************************************)
LEMMA TypeInit == Init => TypeOK
BY DEF Init, TypeOK, cache

LEMMA TypeStep ==
    ASSUME TypeOK, [Next]_vars
    PROVE  TypeOK'
<1>0. <<>> \in Seq(Events)
  OBVIOUS
<1>1. ASSUME NEW c \in Clients, NEW r \in Runs, Hit(c, r) PROVE TypeOK'
  BY <1>1 DEF TypeOK, Hit, cache
<1>2. ASSUME NEW c \in Clients, NEW r \in Runs, Miss(c, r) PROVE TypeOK'
  BY <1>0, <1>2 DEF TypeOK, Miss, Goto, cache
<1>3. ASSUME NEW c \in Clients, DelegateLoad(c) PROVE TypeOK'
  BY <1>3 DEF TypeOK, DelegateLoad, Goto, cache
<1>4. ASSUME NEW c \in Clients, Install(c) PROVE TypeOK'
  <2>1. cached' \subseteq Runs /\ records' \in [Runs -> Seq(Events)]
    BY <1>0, <1>4 DEF TypeOK, Install, Insert
  <2> QED
    BY <1>0, <1>4, <2>1 DEF TypeOK, Install, Return, Goto
<1>5. ASSUME NEW c \in Clients, ReturnUncached(c) PROVE TypeOK'
  BY <1>0, <1>5 DEF TypeOK, ReturnUncached, Return, Goto, cache
<1>6. ASSUME NEW c \in Clients, NEW r \in Runs, NEW batch \in Batches,
             DelegateAppend(c, r, batch)
      PROVE  TypeOK'
  <2>1. batch \in Seq(Events) /\ log[r] \in Seq(Events)
    BY DEF TypeOK
  <2>2. log[r] \o batch \in Seq(Events) /\ Len(log[r]) + Len(batch) \in Nat
    BY <2>1
  <2> QED
    BY <1>0, <1>6, <2>1, <2>2 DEF TypeOK, DelegateAppend, Goto, cache
<1>7. ASSUME NEW c \in Clients, UpdateCache(c) PROVE TypeOK'
  <2>1. on[c] \in Runs /\ records[on[c]] \o data[c] \in Seq(Events)
    BY DEF TypeOK
  <2>2. cached' \subseteq Runs /\ records' \in [Runs -> Seq(Events)]
    BY <1>0, <1>7, <2>1 DEF TypeOK, UpdateCache, Drop
  <2>3. acked' \in [Runs -> Nat] /\ epochs' \in [Runs -> Nat]
    BY <1>7 DEF TypeOK, UpdateCache, Greater
  <2> QED
    BY <1>0, <1>7, <2>2, <2>3 DEF TypeOK, UpdateCache, Return, Goto
<1>8. ASSUME NEW r \in Runs, Invalidate(r) PROVE TypeOK'
  BY <1>0, <1>8 DEF TypeOK, Invalidate, Drop
<1>9. CASE UNCHANGED vars
  BY <1>9 DEF TypeOK, vars, cache
<1> QED
  BY <1>1, <1>2, <1>3, <1>4, <1>5, <1>6, <1>7, <1>8, <1>9 DEF Next

LEMMA InvInit == Init => StoreInv
<1> SUFFICES ASSUME Init PROVE StoreInv
  OBVIOUS
<1>1. TypeOK
  BY TypeInit
<1> QED
  BY <1>1 DEF Init, StoreInv, CacheCurrent, LoadInFlight, AppendInFlight

LEMMA InvMiss ==
    ASSUME StoreInv, TypeOK', NEW c \in Clients, NEW r \in Runs, Miss(c, r)
    PROVE  StoreInv'
BY DEF StoreInv, TypeOK, CacheCurrent, LoadInFlight, AppendInFlight, Miss, Goto, cache

LEMMA InvDelegateLoad ==
    ASSUME StoreInv, TypeOK', NEW c \in Clients, DelegateLoad(c)
    PROVE  StoreInv'
<1>1. CacheCurrent'
  BY DEF StoreInv, CacheCurrent, DelegateLoad, cache
<1>2. \A r \in Runs : acked'[r] <= Len(log'[r])
  BY DEF StoreInv, DelegateLoad
<1>3. ASSUME NEW d \in Clients PROVE LoadInFlight(d)' /\ AppendInFlight(d)'
  <2>1. CASE d = c
    <3>1. Prefix(log[on[c]], log[on[c]]) /\ acked[on[c]] <= Len(log[on[c]]) /\ on[c] \in Runs
      BY DEF Prefix, StoreInv, TypeOK
    <3>2. mark[c] \in Nat /\ Len(log[on[c]]) \in Nat /\ acked[on[c]] \in Nat
      BY <3>1 DEF StoreInv, TypeOK
    <3> QED
      BY <2>1, <3>1, <3>2 DEF StoreInv, TypeOK, LoadInFlight, AppendInFlight, DelegateLoad, Goto
  <2>2. CASE d # c
    BY <2>2 DEF StoreInv, TypeOK, LoadInFlight, AppendInFlight, DelegateLoad, Goto
  <2> QED
    BY <2>1, <2>2
<1> QED
  BY <1>1, <1>2, <1>3 DEF StoreInv

\* A call that returns leaves the calls of the other clients as they were.
LEMMA Returning ==
    ASSUME StoreInv, NEW c \in Clients, Return(c), UNCHANGED <<log, epochs, on, acked>>
    PROVE  \A d \in Clients : LoadInFlight(d)' /\ AppendInFlight(d)'
BY DEF StoreInv, TypeOK, LoadInFlight, AppendInFlight, Return, Goto

LEMMA InvInstall ==
    ASSUME StoreInv, TypeOK', NEW c \in Clients, Install(c)
    PROVE  StoreInv'
<1>1. \A d \in Clients : LoadInFlight(d)' /\ AppendInFlight(d)'
  BY Returning DEF Install
<1>2. Prefix(data[c], log[on[c]]) /\ acked[on[c]] <= Len(data[c]) /\ on[c] \in Runs
  BY DEF StoreInv, TypeOK, LoadInFlight, Install, EpochUnchanged
<1>3. ASSUME NEW r \in cached'
      PROVE  Prefix(records'[r], log[r]) /\ acked[r] <= Len(records'[r])
  <2>1. /\ r \in cached \cup {on[c]} /\ r \in Runs
        /\ records'[r] = IF r = on[c] THEN data[c] ELSE records[r]
    BY <1>2 DEF StoreInv, TypeOK, Install, Insert
  <2> QED
    BY <1>2, <2>1 DEF StoreInv, CacheCurrent
<1>4. UNCHANGED <<log, acked>>
  BY DEF Install
<1> QED
  BY <1>1, <1>3, <1>4 DEF StoreInv, CacheCurrent

LEMMA InvReturnUncached ==
    ASSUME StoreInv, TypeOK', NEW c \in Clients, ReturnUncached(c)
    PROVE  StoreInv'
<1>1. \A d \in Clients : LoadInFlight(d)' /\ AppendInFlight(d)'
  BY Returning DEF ReturnUncached
<1> QED
  BY <1>1 DEF StoreInv, CacheCurrent, ReturnUncached, cache

LEMMA InvDelegateAppend ==
    ASSUME StoreInv, TypeOK', NEW c \in Clients, NEW r \in Runs, NEW batch \in Batches,
           DelegateAppend(c, r, batch)
    PROVE  StoreInv'
<1>1. batch \in Seq(Events) /\ log[r] \in Seq(Events)
  BY DEF StoreInv, TypeOK
<1>2. /\ log'[r] = log[r] \o batch /\ \A x \in Runs : x # r => log'[x] = log[x]
      /\ Len(log[r]) \in Nat /\ Len(batch) \in Nat
      /\ Len(log'[r]) = Len(log[r]) + Len(batch)
  <2>1. log' = [log EXCEPT ![r] = @ \o batch] /\ log \in [Runs -> Seq(Events)]
    BY DEF StoreInv, TypeOK, DelegateAppend
  <2>2. log'[r] = log[r] \o batch /\ \A x \in Runs : x # r => log'[x] = log[x]
    BY <2>1
  <2>3. Len(log[r]) \in Nat /\ Len(batch) \in Nat
    BY <1>1
  <2>4. Len(log[r] \o batch) = Len(log[r]) + Len(batch)
    BY <1>1, Appended
  <2> QED
    BY <2>2, <2>3, <2>4
<1>3. ASSUME NEW s \in Seq(Events), NEW x \in Runs, Prefix(s, log[x])
      PROVE  Prefix(s, log'[x])
  BY <1>1, <1>2, <1>3, PrefixGrows
<1>4. CacheCurrent'
  BY <1>3 DEF StoreInv, TypeOK, CacheCurrent, DelegateAppend, cache
<1>5. \A x \in Runs : acked'[x] <= Len(log'[x])
  BY <1>2 DEF StoreInv, TypeOK, DelegateAppend
<1>6. ASSUME NEW d \in Clients PROVE LoadInFlight(d)' /\ AppendInFlight(d)'
  <2>1. CASE d = c
    <3>1. Holds(log'[r], batch, Len(log[r]) + Len(batch))
      <4>1. \A i \in 1..Len(batch) :
              batch[i] = log'[r][(Len(log[r]) + Len(batch)) - Len(batch) + i]
        <5>1. \A i \in 1..Len(batch) :
                (Len(log[r]) + Len(batch)) - Len(batch) + i = Len(log[r]) + i
          BY <1>2
        <5>2. \A i \in 1..Len(batch) : (log[r] \o batch)[Len(log[r]) + i] = batch[i]
          BY <1>1, Appended
        <5> QED
          BY <1>2, <5>1, <5>2
      <4> QED
        BY <1>2, <4>1 DEF Holds
    <3>2. /\ pc'[c] = "appended" /\ on'[c] = r /\ data'[c] = batch
          /\ mark'[c] = Len(log[r]) + Len(batch)
      BY DEF StoreInv, TypeOK, DelegateAppend, Goto
    <3> QED
      BY <2>1, <3>1, <3>2 DEF LoadInFlight, AppendInFlight
  <2>2. CASE d # c
    <3>1. /\ pc'[d] = pc[d] /\ on'[d] = on[d] /\ mark'[d] = mark[d] /\ data'[d] = data[d]
          /\ UNCHANGED <<epochs, epoch, acked>>
      BY <2>2 DEF StoreInv, TypeOK, DelegateAppend, Goto
    <3>2. on[d] \in Runs /\ mark[d] \in Nat /\ data[d] \in Seq(Events)
      BY DEF StoreInv, TypeOK
    <3>3. LoadInFlight(d)'
      BY <1>3, <3>1, <3>2 DEF StoreInv, LoadInFlight
    <3>4. AppendInFlight(d)'
      <4>1. Holds(log[on[d]], data[d], mark[d]) => Holds(log'[on[d]], data[d], mark[d])
        <5>1. log'[on[d]] = log[on[d]] \/ log'[on[d]] = log[on[d]] \o batch
          BY <1>2, <3>2
        <5>2. log[on[d]] \in Seq(Events)
          BY <3>2 DEF StoreInv, TypeOK
        <5>3. Holds(log[on[d]], data[d], mark[d]) =>
                Holds(log[on[d]] \o batch, data[d], mark[d])
          BY <1>1, <3>2, <5>2, HoldsGrows
        <5> QED
          BY <5>1, <5>3
      <4> QED
        BY <3>1, <4>1 DEF StoreInv, AppendInFlight
    <3> QED
      BY <3>3, <3>4
  <2> QED
    BY <2>1, <2>2
<1> QED
  BY <1>4, <1>5, <1>6 DEF StoreInv

LEMMA InvUpdateCache ==
    ASSUME StoreInv, TypeOK', NEW c \in Clients, UpdateCache(c)
    PROVE  StoreInv'
<1> DEFINE r == on[c]
<1>1. /\ r \in Runs /\ mark[c] \in Nat /\ data[c] \in Seq(Events)
      /\ Holds(log[r], data[c], mark[c])
      /\ log[r] \in Seq(Events) /\ records[r] \in Seq(Events)
      /\ acked[r] \in Nat /\ epochs[r] \in Nat
  BY DEF StoreInv, TypeOK, AppendInFlight, UpdateCache
<1>2. /\ UNCHANGED <<log, on>>
      /\ acked' = [acked EXCEPT ![r] = Greater(@, mark[c])]
      /\ epochs' = [epochs EXCEPT ![r] = @ + 1]
      /\ \A d \in Clients : /\ d # c => pc'[d] = pc[d] /\ mark'[d] = mark[d]
                            /\ d # c => epoch'[d] = epoch[d] /\ data'[d] = data[d]
                            /\ d = c => pc'[d] = "idle"
  BY DEF UpdateCache, Return, Goto, StoreInv, TypeOK
<1>3. mark[c] <= Len(log[r]) /\ Len(data[c]) <= mark[c]
  BY <1>1 DEF Holds
<1>4. \A x \in Runs : acked'[x] <= Len(log'[x])
  BY <1>1, <1>2, <1>3 DEF StoreInv, TypeOK, Greater
<1>5. CacheCurrent'
  <2>1. ASSUME NEW x \in cached', x # r
        PROVE  Prefix(records'[x], log'[x]) /\ acked'[x] <= Len(records'[x])
    <3>1. x \in cached /\ records'[x] = records[x] /\ acked'[x] = acked[x] /\ log' = log
      BY <2>1 DEF UpdateCache, Drop, StoreInv, TypeOK
    <3> QED
      BY <3>1 DEF StoreInv, CacheCurrent
  <2>2. ASSUME r \in cached'
        PROVE  Prefix(records'[r], log'[r]) /\ acked'[r] <= Len(records'[r])
    <3>1. r \in cached /\ Len(records[r]) = mark[c] - Len(data[c])
      BY <2>2 DEF UpdateCache, Drop, Continues
    <3>2. records'[r] = records[r] \o data[c]
      BY <1>1, <3>1 DEF UpdateCache, Continues, StoreInv, TypeOK
    <3>3. Prefix(records[r], log[r]) /\ acked[r] <= Len(records[r])
      BY <3>1 DEF StoreInv, CacheCurrent
    <3>4. Prefix(records'[r], log[r]) /\ Len(records'[r]) = mark[c]
      <4>1. Prefix(records[r] \o data[c], log[r]) /\ Len(records[r] \o data[c]) = mark[c]
        <5> HIDE DEF r
        <5> QED
          BY <1>1, <3>1, <3>3, PrefixContinues
      <4> QED
        BY <3>2, <4>1
    <3>5. acked'[r] = mark[c]
      <4>1. Len(data[c]) \in Nat
        BY <1>1
      <4>2. acked[r] <= mark[c]
        BY <1>1, <3>1, <3>3, <4>1
      <4>3. acked'[r] = Greater(acked[r], mark[c])
        BY <1>1, <1>2 DEF StoreInv, TypeOK
      <4> QED
        BY <1>1, <4>2, <4>3 DEF Greater
    <3> QED
      BY <1>1, <1>2, <3>4, <3>5
  <2> QED
    BY <2>1, <2>2 DEF CacheCurrent
<1>6. ASSUME NEW d \in Clients PROVE LoadInFlight(d)' /\ AppendInFlight(d)'
  <2>1. CASE d = c
    BY <1>2, <2>1 DEF LoadInFlight, AppendInFlight
  <2>2. CASE d # c
    <3>1. AppendInFlight(d)'
      BY <1>2, <2>2 DEF StoreInv, AppendInFlight
    <3>2. /\ on[d] \in Runs /\ epoch[d] \in Nat /\ epochs[on[d]] \in Nat
          /\ acked[on[d]] \in Nat /\ mark[d] \in Nat
      BY DEF StoreInv, TypeOK
    <3>3. /\ acked'[on[d]] >= acked[on[d]]
          /\ on[d] = r => epochs'[on[d]] = epochs[on[d]] + 1
          /\ on[d] # r => epochs'[on[d]] = epochs[on[d]] /\ acked'[on[d]] = acked[on[d]]
      <4>1. CASE on[d] = r
        <5>1. acked'[r] = Greater(acked[r], mark[c]) /\ epochs'[r] = epochs[r] + 1
          BY <1>1, <1>2 DEF StoreInv, TypeOK
        <5>2. Greater(acked[r], mark[c]) >= acked[r]
          BY <1>1 DEF Greater
        <5> QED
          BY <4>1, <5>1, <5>2
      <4>2. CASE on[d] # r
        BY <1>1, <1>2, <3>2, <4>2 DEF StoreInv, TypeOK
      <4> QED
        BY <4>1, <4>2
    <3>4. acked'[on[d]] \in Nat
      BY <3>2 DEF TypeOK, UpdateCache
    <3>5. pc[d] \in {"missed", "loaded"}
            => epoch[d] <= epochs'[on[d]] /\ mark[d] <= acked'[on[d]]
      <4>1. epochs'[on[d]] >= epochs[on[d]] /\ epochs'[on[d]] \in Nat
        BY <3>2, <3>3
      <4>2. pc[d] \in {"missed", "loaded"}
              => epoch[d] <= epochs[on[d]] /\ mark[d] <= acked[on[d]]
        BY DEF StoreInv, LoadInFlight
      <4> HIDE DEF r
      <4> QED
        BY <3>2, <3>3, <3>4, <4>1, <4>2
    <3>6. pc[d] = "loaded" /\ epochs'[on[d]] = epoch[d] => on[d] # r
      BY <3>2, <3>3 DEF StoreInv, LoadInFlight
    <3> QED
      BY <1>2, <2>2, <3>1, <3>3, <3>5, <3>6 DEF StoreInv, LoadInFlight
  <2> QED
    BY <2>1, <2>2
<1> QED
  BY <1>4, <1>5, <1>6 DEF StoreInv

LEMMA InvInvalidate ==
    ASSUME StoreInv, TypeOK', NEW r \in Runs, Invalidate(r)
    PROVE  StoreInv'
<1>1. CacheCurrent' /\ \A x \in Runs : acked'[x] <= Len(log'[x])
  BY DEF StoreInv, TypeOK, CacheCurrent, Invalidate, Drop
<1>2. ASSUME NEW d \in Clients PROVE LoadInFlight(d)' /\ AppendInFlight(d)'
  <2>1. on[d] \in Runs /\ epoch[d] \in Nat /\ epochs[on[d]] \in Nat
    BY DEF StoreInv, TypeOK
  <2>2. epochs'[on[d]] = IF on[d] = r THEN epochs[on[d]] + 1 ELSE epochs[on[d]]
    BY <2>1 DEF StoreInv, TypeOK, Invalidate
  <2>3. AppendInFlight(d)'
    BY DEF StoreInv, AppendInFlight, Invalidate
  <2> QED
    BY <2>1, <2>2, <2>3 DEF StoreInv, LoadInFlight, Invalidate
<1> QED
  BY <1>1, <1>2 DEF StoreInv

LEMMA InvStep ==
    ASSUME StoreInv, [Next]_vars
    PROVE  StoreInv'
<1>0. TypeOK'
  BY TypeStep DEF StoreInv
<1>1. ASSUME NEW c \in Clients, NEW r \in Runs, Hit(c, r) PROVE StoreInv'
  BY <1>0, <1>1 DEF StoreInv, CacheCurrent, LoadInFlight, AppendInFlight, Hit, cache
<1>2. CASE UNCHANGED vars
  BY <1>0, <1>2 DEF StoreInv, CacheCurrent, LoadInFlight, AppendInFlight, vars, cache
<1> QED
  BY <1>0, <1>1, <1>2, InvMiss, InvDelegateLoad, InvInstall, InvReturnUncached,
     InvDelegateAppend, InvUpdateCache, InvInvalidate DEF Next

(***************************************************************************)
(* However loads, appends and invalidations of one run overlap, a cached   *)
(* stream is a prefix of the stored one with every acknowledged append.    *)
(***************************************************************************)
THEOREM CacheStaysCurrent == Spec => []CacheCurrent
<1>1. StoreInv => CacheCurrent
  BY DEF StoreInv
<1> QED
  BY <1>1, InvInit, InvStep, PTL DEF Spec

LEMMA LimitStep ==
    ASSUME TypeOK, [Next]_vars, IsFiniteSet(cached), CacheWithinLimit
    PROVE  IsFiniteSet(cached') /\ CacheWithinLimit'
<1>1. ASSUME NEW r \in Runs, NEW stream, Insert(r, stream)
      PROVE  IsFiniteSet(cached') /\ CacheWithinLimit'
  <2>1. /\ cached' \in SUBSET (cached \cup {r})
        /\ Cardinality(cached') <= MaxRuns
    <3>1. PICK kept \in SUBSET (cached \cup {r}) :
            /\ IF Cardinality(cached \cup {r}) <= MaxRuns
                 THEN kept = cached \cup {r} ELSE Cardinality(kept) = MaxRuns
            /\ cached' = kept
      BY <1>1 DEF Insert
    <3>2. CASE Cardinality(cached \cup {r}) <= MaxRuns
      BY <3>1, <3>2
    <3>3. CASE ~(Cardinality(cached \cup {r}) <= MaxRuns)
      BY <3>1, <3>3, StoreAssumption
    <3> QED
      BY <3>2, <3>3
  <2>2. IsFiniteSet(cached \cup {r})
    BY FS_AddElement
  <2>3. IsFiniteSet(cached')
    BY <2>1, <2>2, FS_Subset
  <2> QED
    BY <2>1, <2>3 DEF CacheWithinLimit
<1>2. ASSUME cached' \in SUBSET cached PROVE IsFiniteSet(cached') /\ CacheWithinLimit'
  <2>1. IsFiniteSet(cached') /\ Cardinality(cached') <= Cardinality(cached)
    BY <1>2, FS_Subset
  <2>2. Cardinality(cached) \in Nat /\ Cardinality(cached') \in Nat
    BY <2>1, FS_CardinalityType
  <2> QED
    BY <2>1, <2>2 DEF CacheWithinLimit
<1>3. CASE \E c \in Clients : Install(c)
  BY <1>1, <1>3 DEF Install, TypeOK
<1>4. CASE ~\E c \in Clients : Install(c)
  <2>1. cached' \in SUBSET cached
    BY <1>4 DEF Next, DelegateLoad, ReturnUncached, UpdateCache, Hit, Miss, DelegateAppend,
       Invalidate, Drop, cache, vars
  <2> QED
    BY <1>2, <2>1
<1> QED
  BY <1>3, <1>4

(***************************************************************************)
(* evictLocked runs after every insertion: whatever the number of runs,    *)
(* the cache holds at most maxRuns of their streams.                       *)
(***************************************************************************)
THEOREM CacheStaysBounded == Spec => []CacheWithinLimit
<1> DEFINE LimitInv == TypeOK /\ IsFiniteSet(cached) /\ CacheWithinLimit
<1>1. Init => LimitInv
  BY TypeInit, FS_EmptySet DEF Init, CacheWithinLimit
<1>2. LimitInv /\ [Next]_vars => LimitInv'
  BY TypeStep, LimitStep
<1>3. LimitInv => CacheWithinLimit
  OBVIOUS
<1> QED
  BY <1>1, <1>2, <1>3, PTL DEF Spec

(***************************************************************************)
(* Refinement.                                                             *)
(***************************************************************************)
LEMMA InitRefines == Init => Store!Init
BY DEF Init, Store!Init, PhaseAt

\* The phase a client shows changes with its own position only.
LEMMA PhaseMoves ==
    ASSUME TypeOK, NEW c \in Clients, NEW position, Goto(c, position)
    PROVE  [d \in Clients |-> PhaseAt(pc[d])]'
             = [[d \in Clients |-> PhaseAt(pc[d])] EXCEPT ![c] = PhaseAt(position)]
BY DEF TypeOK, Goto

LEMMA Idle == PhaseAt("idle") = "idle" /\ PhaseAt("appended") = "appending"
BY DEF PhaseAt

LEMMA Loading == PhaseAt("missed") = "loading" /\ PhaseAt("loaded") = "loading"
BY DEF PhaseAt

\* A Load that returns a stream with a prefix of what is stored.
LEMMA LoadReturns ==
    ASSUME StoreInv, NEW c \in Clients, Return(c), result' = [result EXCEPT ![c] = data[c]],
           pc[c] = "loaded", UNCHANGED <<log, acked, on>>
    PROVE  Store!EndLoad(c)
<1>1. /\ Prefix(data[c], log[on[c]]) /\ mark[c] <= Len(data[c])
      /\ on[c] \in Runs /\ data[c] \in Seq(Events) /\ log[on[c]] \in Seq(Events)
      /\ mark[c] \in Nat
  BY DEF StoreInv, TypeOK, LoadInFlight
<1>2. data[c] = SubSeq(log[on[c]], 1, Len(data[c]))
  BY <1>1, PrefixIsSubSeq
<1>3. Len(data[c]) \in mark[c]..Len(log[on[c]])
  BY <1>1 DEF Prefix
<1>4. Store!Returned(c, on[c], mark[c])
  BY <1>2, <1>3 DEF Store!Returned
<1>5. /\ [d \in Clients |-> PhaseAt(pc[d])]'
           = [[d \in Clients |-> PhaseAt(pc[d])] EXCEPT ![c] = "idle"]
      /\ mark' = [mark EXCEPT ![c] = 0]
  BY PhaseMoves, Idle DEF StoreInv, Return
<1>6. [d \in Clients |-> PhaseAt(pc[d])][c] = "loading"
  BY Loading
<1> QED
  BY <1>4, <1>5, <1>6 DEF Store!EndLoad

LEMMA HitRefines ==
    ASSUME StoreInv, NEW c \in Clients, NEW r \in Runs, Hit(c, r)
    PROVE  Store!LoadAtOnce(c, r)
<1>1. /\ Prefix(records[r], log[r]) /\ acked[r] <= Len(records[r])
      /\ records[r] \in Seq(Events) /\ log[r] \in Seq(Events) /\ acked[r] \in Nat
  BY DEF StoreInv, TypeOK, CacheCurrent, Hit
<1>2. records[r] = SubSeq(log[r], 1, Len(records[r]))
  BY <1>1, PrefixIsSubSeq
<1>3. Len(records[r]) \in acked[r]..Len(log[r])
  BY <1>1 DEF Prefix
<1>4. Store!Returned(c, r, acked[r])
  BY <1>2, <1>3 DEF Store!Returned, Hit
<1> QED
  BY <1>4, Idle DEF Store!LoadAtOnce, Hit

LEMMA StepRefines ==
    ASSUME StoreInv, [Next]_vars
    PROVE  StoreStep
<1>0. TypeOK
  BY DEF StoreInv
<1> USE <1>0
<1>1. ASSUME NEW c \in Clients, NEW r \in Runs, Miss(c, r) PROVE Store!BeginLoad(c, r)
  BY <1>1, PhaseMoves, Idle, Loading DEF Miss, Store!BeginLoad
<1>2. ASSUME NEW c \in Clients, DelegateLoad(c) PROVE UNCHANGED Store!vars
  <2>1. [d \in Clients |-> PhaseAt(pc[d])]' = [d \in Clients |-> PhaseAt(pc[d])]
    BY <1>2, PhaseMoves, Loading DEF DelegateLoad
  <2> QED
    BY <1>2, <2>1 DEF DelegateLoad, Store!vars
<1>3. ASSUME NEW c \in Clients, Install(c) \/ ReturnUncached(c) PROVE Store!EndLoad(c)
  BY <1>3, LoadReturns DEF Install, ReturnUncached
<1>4. ASSUME NEW c \in Clients, NEW r \in Runs, NEW batch \in Batches,
             DelegateAppend(c, r, batch)
      PROVE  Store!CommitAppend(c, r, batch)
  BY <1>4, PhaseMoves, Idle DEF DelegateAppend, Store!CommitAppend
<1>5. ASSUME NEW c \in Clients, UpdateCache(c) PROVE Store!Acknowledge(c)
  BY <1>5, PhaseMoves, Idle
     DEF UpdateCache, Return, Store!Acknowledge, Store!Greater, Greater
<1>6. ASSUME NEW r \in Runs, Invalidate(r) PROVE UNCHANGED Store!vars
  BY <1>6 DEF Invalidate, Store!vars
<1>7. CASE UNCHANGED vars
  BY <1>7 DEF vars, cache, Store!vars, StoreStep
<1> QED
  BY <1>1, <1>2, <1>3, <1>4, <1>5, <1>6, <1>7, HitRefines DEF Next, StoreStep

(***************************************************************************)
(* Clients of the cache cannot tell it from the store behind it: a Load    *)
(* never misses an acknowledged append and never returns what the stored   *)
(* stream does not hold.                                                   *)
(***************************************************************************)
THEOREM CacheIsInvisible == Spec => BehavesAsStore
<1>1. Init => StoreInit
  BY InitRefines DEF StoreInit
<1>2. StoreInv /\ [Next]_vars => [StoreStep]_vars
  BY StepRefines
<1> QED
  BY <1>1, <1>2, InvInit, InvStep, PTL DEF Spec, BehavesAsStore

(***************************************************************************)
(* The same, against the specification of EventStore itself.               *)
(***************************************************************************)
THEOREM ImplementsEventStore == Spec => Store!Spec
<1>1. StoreStep => [Store!Next]_(Store!vars)
  <2>1. \A batch \in Batches : batch \in Seq(Events)
    OBVIOUS
  <2> QED
    BY <2>1 DEF StoreStep, Store!Next
<1>2. StoreInv /\ [Next]_vars => [Store!Next]_(Store!vars)
  BY <1>1, StepRefines
<1> QED
  BY <1>2, InitRefines, InvInit, InvStep, PTL DEF Spec, Store!Spec

----------------------------------------------------------------------------
(* The journal's table of streams                                           *)

HIDE StoreAssumption
USE StreamsAssumption

(***************************************************************************)
(* The table of streams.  Two runs never share one, a call holds that of   *)
(* its run, and a stream of the table counts the calls that hold it.       *)
(***************************************************************************)
Stream == [ready : BOOLEAN, version : Nat, sequence : Nat]
Positions == [kind : {"none", "load", "write", "over"}, run : Runs \cup {NoStream}]

TableTypes ==
    /\ runs \in [Runs -> Streams \cup {NoStream}]
    /\ users \in [Streams -> Nat]
    /\ held \in [Clients -> Streams \cup {NoStream}]
    /\ call \in [Clients -> Positions]

Holders(s) == {c \in Clients : held[c] = s}

Apart == \A q, r \in Mapped : runs[q] = runs[r] => q = r
CallsHold == \A c \in Clients :
    /\ InCall(c) => call[c].run \in Mapped /\ held[c] = runs[call[c].run]
    /\ ~InCall(c) => held[c] = NoStream
Counted == \A r \in Mapped : users[runs[r]] = Cardinality(Holders(runs[r]))

TableInv == TableTypes /\ Apart /\ CallsHold /\ Counted

(***************************************************************************)
(* The calls.  A call under mu works on a stream that has been read, and   *)
(* alone; it is where the cache expects it to be.                          *)
(***************************************************************************)
FileTypes == frames \in [Runs -> Nat] /\ known \in [Streams -> Stream] /\ inside \subseteq Clients

Alone == \A c \in inside :
    /\ call[c].kind \in {"load", "write"}
    /\ known[held[c]].ready
    /\ \A d \in inside : held[c] = held[d] => c = d

Expected == \A c \in Clients :
    /\ call[c].kind = "load" => pc[c] = "missed" /\ on[c] = call[c].run
    /\ call[c].kind = "write" => pc[c] = "idle"

StreamInv ==
    /\ TypeOK
    /\ TableInv
    /\ FileTypes
    /\ Alone
    /\ Expected
    /\ StreamCurrent

(***************************************************************************)
(* Sets of clients.                                                        *)
(***************************************************************************)
LEMMA HoldersFinite ==
    ASSUME NEW s
    PROVE  /\ IsFiniteSet(Holders(s)) /\ Cardinality(Holders(s)) \in Nat
           /\ Holders(s) # {} => Cardinality(Holders(s)) # 0
<1>1. Holders(s) \in SUBSET Clients /\ IsFiniteSet(Clients)
  BY DEF Holders
<1>2. IsFiniteSet(Holders(s))
  BY <1>1, FS_Subset
<1> QED
  BY <1>2, FS_CardinalityType, FS_EmptySet

LEMMA TableInit == StreamInit => TableInv
<1> SUFFICES ASSUME StreamInit PROVE TableInv
  OBVIOUS
<1>1. TableTypes
  BY DEF StreamInit, TableTypes, NoCall, Positions
<1>2. Mapped = {}
  BY DEF StreamInit, Mapped
<1>3. CallsHold
  BY DEF StreamInit, CallsHold, InCall, NoCall
<1> QED
  BY <1>1, <1>2, <1>3 DEF TableInv, Apart, Counted

\* A stream the table keeps for its run: one call more holds it.
LEMMA TableAcquireFound ==
    ASSUME TableInv, NEW c \in Clients, NEW r \in Runs, NEW kind \in {"load", "write"},
           ~InCall(c), runs[r] # NoStream,
           runs' = runs, users' = [users EXCEPT ![runs[r]] = @ + 1],
           held' = [held EXCEPT ![c] = runs'[r]],
           call' = [call EXCEPT ![c] = [kind |-> kind, run |-> r]]
    PROVE  TableInv'
<1> USE DEF TableInv
<1>1. runs[r] \in Streams /\ held[c] = NoStream /\ r \in Mapped /\ Mapped' = Mapped
  BY DEF TableTypes, CallsHold, Mapped
<1>2. TableTypes'
  BY <1>1 DEF TableTypes, Positions
<1>3. Apart'
  BY <1>1 DEF Apart, Mapped
<1>4. CallsHold'
  <2> SUFFICES ASSUME NEW d \in Clients
               PROVE  /\ InCall(d)' => call'[d].run \in Mapped' /\ held'[d] = runs'[call'[d].run]
                      /\ ~InCall(d)' => held'[d] = NoStream
    BY DEF CallsHold
  <2>1. CASE d = c
    BY <1>1, <2>1 DEF TableTypes, InCall
  <2>2. CASE d # c
    <3>1. call'[d] = call[d] /\ held'[d] = held[d]
      BY <2>2 DEF TableTypes
    <3> QED
      BY <1>1, <3>1 DEF CallsHold, InCall
  <2> QED
    BY <2>1, <2>2
<1>5. Counted'
  <2> SUFFICES ASSUME NEW q \in Mapped
               PROVE  users'[runs[q]] = Cardinality(Holders(runs[q])')
    BY <1>1 DEF Counted
  <2>0. runs[q] \in Streams /\ runs[q] # NoStream
    BY DEF Mapped, TableTypes
  <2>1. CASE q = r
    <3>1. Holders(runs[q])' = Holders(runs[q]) \cup {c} /\ c \notin Holders(runs[q])
      BY <1>1, <2>0, <2>1 DEF Holders, TableTypes
    <3>2. Cardinality(Holders(runs[q])') = Cardinality(Holders(runs[q])) + 1
      BY <3>1, HoldersFinite, FS_AddElement
    <3> QED
      BY <1>1, <2>1, <3>2 DEF Counted, TableTypes
  <2>2. CASE q # r
    <3>1. runs[q] # runs[r]
      BY <1>1, <2>2 DEF Apart
    <3>2. Holders(runs[q])' = Holders(runs[q])
      BY <1>1, <2>0, <3>1 DEF Holders, TableTypes
    <3> QED
      BY <1>1, <2>0, <3>1, <3>2 DEF Counted, TableTypes
  <2> QED
    BY <2>1, <2>2
<1> QED
  BY <1>2, <1>3, <1>4, <1>5

\* A new stream is one no run of the table and no call has.
LEMMA TableAcquireNew ==
    ASSUME TableInv, NEW c \in Clients, NEW r \in Runs, NEW kind \in {"load", "write"},
           ~InCall(c), runs[r] = NoStream, NEW s \in Streams, Free(s),
           runs' = [runs EXCEPT ![r] = s], users' = [users EXCEPT ![s] = 1],
           held' = [held EXCEPT ![c] = runs'[r]],
           call' = [call EXCEPT ![c] = [kind |-> kind, run |-> r]]
    PROVE  TableInv'
<1> USE DEF TableInv
<1>1. /\ runs'[r] = s /\ s # NoStream /\ held[c] = NoStream
      /\ \A q \in Runs : runs[q] # s
      /\ \A d \in Clients : held[d] # s
      /\ Mapped' = Mapped \cup {r} /\ r \notin Mapped
      /\ \A q \in Mapped : q # r /\ runs'[q] = runs[q]
  BY DEF TableTypes, CallsHold, Mapped, Free
<1>2. TableTypes'
  BY <1>1 DEF TableTypes, Positions
<1>3. Apart'
  BY <1>1 DEF Apart, Mapped
<1>4. CallsHold'
  <2> SUFFICES ASSUME NEW d \in Clients
               PROVE  /\ InCall(d)' => call'[d].run \in Mapped' /\ held'[d] = runs'[call'[d].run]
                      /\ ~InCall(d)' => held'[d] = NoStream
    BY DEF CallsHold
  <2>1. CASE d = c
    BY <1>1, <2>1 DEF TableTypes, InCall
  <2>2. CASE d # c
    <3>1. call'[d] = call[d] /\ held'[d] = held[d]
      BY <2>2 DEF TableTypes
    <3> QED
      BY <1>1, <3>1 DEF CallsHold, InCall
  <2> QED
    BY <2>1, <2>2
<1>5. Counted'
  <2> SUFFICES ASSUME NEW q \in Mapped'
               PROVE  users'[runs'[q]] = Cardinality(Holders(runs[q])')
    BY DEF Counted
  <2>1. CASE q = r
    <3>1. Holders(runs[q])' = {c}
      BY <1>1, <2>1 DEF Holders, TableTypes
    <3> QED
      BY <1>1, <2>1, <3>1, FS_Singleton DEF TableTypes
  <2>2. CASE q # r
    <3>1. q \in Mapped /\ runs'[q] = runs[q] /\ runs[q] # s /\ runs[q] # NoStream /\ runs[q] \in Streams
      BY <1>1, <2>2 DEF Mapped, TableTypes
    <3>2. Holders(runs[q])' = Holders(runs[q])
      BY <1>1, <3>1 DEF Holders, TableTypes
    <3> QED
      BY <3>1, <3>2 DEF Counted, TableTypes
  <2> QED
    BY <2>1, <2>2
<1> QED
  BY <1>2, <1>3, <1>4, <1>5

(***************************************************************************)
(* releaseStream: what it forgets, nobody uses.                            *)
(***************************************************************************)
Using(c) ==
    IF runs[call[c].run] = held[c] /\ users[held[c]] > 0
      THEN [users EXCEPT ![held[c]] = @ - 1] ELSE users

LEMMA KeptInUse ==
    ASSUME NEW using, NEW r \in Mapped, using[runs[r]] # 0
    PROVE  r \in Kept(using)
BY DEF Kept, Unused

LEMMA ReleaseSteps ==
    ASSUME NEW c \in Clients, Release(c)
    PROVE  /\ call[c].kind = "over"
           /\ runs' = [r \in Runs |-> IF r \in Kept(Using(c)) THEN runs[r] ELSE NoStream]
           /\ held' = [held EXCEPT ![c] = NoStream]
           /\ call' = [call EXCEPT ![c] = NoCall]
           /\ users' = [x \in Streams |-> IF Free(x)' THEN 0 ELSE Using(c)[x]]
           /\ known' = [x \in Streams |-> IF Free(x)' THEN Fresh ELSE known[x]]
           /\ UNCHANGED <<vars, frames, inside>>
BY DEF Release, Using

LEMMA UsingCounts ==
    ASSUME TableInv, NEW c \in Clients, InCall(c)
    PROVE  /\ Using(c) \in [Streams -> Nat]
           /\ \A r \in Mapped : Using(c)[runs[r]] = Cardinality(Holders(runs[r]) \ {c})
<1> USE DEF TableInv
<1>1. /\ call[c].run \in Mapped /\ held[c] = runs[call[c].run]
      /\ held[c] \in Streams /\ users[held[c]] = Cardinality(Holders(held[c]))
  BY DEF CallsHold, Counted, Mapped, TableTypes
<1>2. /\ c \in Holders(held[c])
      /\ Cardinality(Holders(held[c]) \ {c}) = Cardinality(Holders(held[c])) - 1
  <2>1. c \in Holders(held[c])
    BY DEF Holders
  <2> QED
    BY <2>1, HoldersFinite, FS_RemoveElement
<1>3. users[held[c]] > 0
  BY <1>1, <1>2, HoldersFinite
<1>4. Using(c) = [users EXCEPT ![held[c]] = @ - 1]
  BY <1>1, <1>3 DEF Using
<1>5. Using(c) \in [Streams -> Nat]
  BY <1>1, <1>3, <1>4 DEF TableTypes
<1>6. ASSUME NEW r \in Mapped
      PROVE  Using(c)[runs[r]] = Cardinality(Holders(runs[r]) \ {c})
  <2>1. CASE runs[r] = held[c]
    BY <1>1, <1>2, <1>4, <2>1 DEF TableTypes
  <2>2. CASE runs[r] # held[c]
    <3>1. Holders(runs[r]) \ {c} = Holders(runs[r])
      BY <2>2 DEF Holders
    <3> QED
      BY <1>4, <2>2, <3>1 DEF Counted, TableTypes, Mapped
  <2> QED
    BY <2>1, <2>2
<1> QED
  BY <1>5, <1>6

\* Another call keeps the stream it holds.
LEMMA OthersKeep ==
    ASSUME TableInv, NEW c \in Clients, InCall(c), NEW d \in Clients, d # c, InCall(d)
    PROVE  call[d].run \in Kept(Using(c))
<1>1. call[d].run \in Mapped /\ d \in Holders(runs[call[d].run]) \ {c}
  BY DEF TableInv, CallsHold, Holders
<1>2. IsFiniteSet(Holders(runs[call[d].run]) \ {c})
  BY HoldersFinite, FS_RemoveElement
<1>3. Cardinality(Holders(runs[call[d].run]) \ {c}) # 0
  BY <1>1, <1>2, FS_EmptySet
<1> QED
  BY <1>1, <1>3, UsingCounts, KeptInUse

LEMMA TableRelease ==
    ASSUME TableInv, NEW c \in Clients, Release(c)
    PROVE  TableInv'
<1> USE DEF TableInv
<1>0. InCall(c) /\ call[c].kind = "over"
  BY ReleaseSteps DEF InCall
<1>1. /\ Mapped' \subseteq Mapped
      /\ \A r \in Mapped' : runs'[r] = runs[r] /\ runs[r] \in Streams /\ runs[r] # NoStream
      /\ \A r \in Kept(Using(c)) : r \in Mapped' /\ runs'[r] = runs[r]
  BY ReleaseSteps DEF Mapped, Kept, TableTypes
<1>2. TableTypes'
  <2>1. users' \in [Streams -> Nat]
    <3>1. Using(c) \in [Streams -> Nat]
      BY <1>0, UsingCounts
    <3> QED
      BY <3>1, ReleaseSteps
  <2>2. runs' \in [Runs -> Streams \cup {NoStream}]
    BY ReleaseSteps DEF TableTypes
  <2>3. held' \in [Clients -> Streams \cup {NoStream}]
    BY ReleaseSteps DEF TableTypes
  <2>4. call' \in [Clients -> Positions]
    <3>1. NoCall \in Positions
      BY DEF NoCall, Positions
    <3>2. call' = [call EXCEPT ![c] = NoCall]
      BY ReleaseSteps
    <3> QED
      BY <3>1, <3>2 DEF TableTypes
  <2> QED
    BY <2>1, <2>2, <2>3, <2>4 DEF TableTypes
<1>3. Apart'
  BY <1>1 DEF Apart
<1>4. CallsHold'
  <2> SUFFICES ASSUME NEW d \in Clients
               PROVE  /\ InCall(d)' => call'[d].run \in Mapped' /\ held'[d] = runs'[call'[d].run]
                      /\ ~InCall(d)' => held'[d] = NoStream
    BY DEF CallsHold
  <2>1. CASE d = c
    BY <2>1, ReleaseSteps DEF TableTypes, InCall, NoCall
  <2>2. CASE d # c
    <3>1. call'[d] = call[d] /\ held'[d] = held[d]
      BY <2>2, ReleaseSteps DEF TableTypes
    <3>2. InCall(d) => call[d].run \in Kept(Using(c)) /\ held[d] = runs[call[d].run]
      BY <1>0, <2>2, OthersKeep DEF CallsHold
    <3>3. ~InCall(d) => held[d] = NoStream
      BY DEF CallsHold
    <3> QED
      BY <1>1, <3>1, <3>2, <3>3 DEF InCall
  <2> QED
    BY <2>1, <2>2
<1>5. Counted'
  <2> SUFFICES ASSUME NEW q \in Mapped'
               PROVE  users'[runs'[q]] = Cardinality(Holders(runs[q])')
    BY DEF Counted
  <2>1. q \in Mapped /\ runs'[q] = runs[q] /\ runs[q] \in Streams /\ runs[q] # NoStream
    BY <1>1
  <2>2. ~Free(runs[q])'
    BY <2>1 DEF Free, Mapped
  <2>3. Holders(runs[q])' = Holders(runs[q]) \ {c}
    BY <2>1, ReleaseSteps DEF Holders, TableTypes
  <2>4. users'[runs[q]] = Using(c)[runs[q]]
    BY <2>1, <2>2, ReleaseSteps
  <2> QED
    BY <1>0, <2>1, <2>3, <2>4, UsingCounts
<1> QED
  BY <1>2, <1>3, <1>4, <1>5

\* A step that opens and ends no call leaves the table alone.
LEMMA TableSame ==
    ASSUME TableInv, UNCHANGED <<runs, users, held>>,
           \/ call' = call
           \/ \E c \in Clients : InCall(c) /\ call' = [call EXCEPT ![c].kind = "over"]
    PROVE  TableInv' /\ Mapped' = Mapped
<1> USE DEF TableInv
<1>1. Mapped' = Mapped /\ Apart'
  BY DEF Mapped, Apart
<1>2. /\ \A d \in Clients : call'[d].run = call[d].run /\ (InCall(d)' <=> InCall(d))
      /\ call' \in [Clients -> Positions]
  BY DEF TableTypes, Positions, InCall
<1>3. TableTypes' /\ CallsHold'
  BY <1>1, <1>2 DEF TableTypes, CallsHold
<1>4. Counted'
  BY <1>1 DEF Counted, Holders
<1> QED
  BY <1>1, <1>3, <1>4

(***************************************************************************)
(* The journal is the delegate.                                            *)
(***************************************************************************)
LEMMA StreamInvInit == StreamInit => StreamInv
<1> SUFFICES ASSUME StreamInit PROVE StreamInv
  OBVIOUS
<1>1. TypeOK /\ TableInv
  BY TypeInit, TableInit DEF StreamInit
<1>2. FileTypes /\ Alone
  BY DEF StreamInit, FileTypes, Fresh, Stream, Alone
<1>3. Expected /\ StreamCurrent
  BY DEF StreamInit, Expected, NoCall, StreamCurrent, Mapped
<1> QED
  BY <1>1, <1>2, <1>3 DEF StreamInv

\* A call under mu works on the one stream of its run, and that is current.
LEMMA Working ==
    ASSUME StreamInv, NEW c \in inside
    PROVE  /\ c \in Clients /\ InCall(c) /\ call[c].run \in Mapped /\ call[c].run \in Runs
           /\ held[c] = runs[call[c].run] /\ held[c] \in Streams
           /\ known[held[c]] \in Stream /\ known[held[c]].ready
           /\ known[held[c]].version = Len(log[call[c].run])
           /\ known[held[c]].sequence = frames[call[c].run]
           /\ \A q \in Mapped : q # call[c].run => runs[q] # held[c]
           /\ \A d \in inside : d # c => held[d] # held[c]
<1>1. c \in Clients /\ InCall(c)
  BY DEF StreamInv, FileTypes, Alone, InCall
<1>2. /\ call[c].run \in Mapped /\ call[c].run \in Runs
      /\ held[c] = runs[call[c].run] /\ held[c] \in Streams
  BY <1>1 DEF StreamInv, TableInv, TableTypes, CallsHold, Mapped
<1>3. /\ \A q \in Mapped : q # call[c].run => runs[q] # held[c]
      /\ \A d \in inside : d # c => held[d] # held[c]
  BY <1>2 DEF StreamInv, TableInv, Apart, Alone
<1>4. known[held[c]] \in Stream /\ known[held[c]].ready
  BY <1>2 DEF StreamInv, FileTypes, Alone
<1>5. /\ known[held[c]].version = Len(log[call[c].run])
      /\ known[held[c]].sequence = frames[call[c].run]
  BY <1>2, <1>4 DEF StreamInv, StreamCurrent
<1> QED
  BY <1>1, <1>2, <1>3, <1>4, <1>5

LEMMA LoadIsAtomic ==
    ASSUME StreamInv, NEW c \in Clients, LoadRecords(c)
    PROVE  DelegateLoad(c)
<1>1. pc[c] = "missed" /\ on[c] = call[c].run /\ on[c] \in Runs /\ log[on[c]] \in Seq(Events)
  BY DEF StreamInv, TypeOK, Expected, LoadRecords, Doing
<1>2. Knows(c).version = Len(log[on[c]])
  <2>1. c \in inside
    BY DEF LoadRecords, Doing
  <2>2. known[held[c]].version = Len(log[call[c].run])
    BY <2>1, Working
  <2> QED
    BY <1>1, <2>2 DEF Knows
<1>3. SubSeq(log[on[c]], 1, Len(log[on[c]])) = log[on[c]]
  <2>1. Prefix(log[on[c]], log[on[c]])
    BY <1>1 DEF Prefix
  <2> QED
    BY <1>1, <2>1, PrefixIsSubSeq
<1> QED
  BY <1>1, <1>2, <1>3 DEF LoadRecords, DelegateLoad, cache

LEMMA AppendIsAtomic ==
    ASSUME StreamInv, NEW c \in Clients, NEW batch \in Batches, AppendRecords(c, batch)
    PROVE  DelegateAppend(c, call[c].run, batch)
<1>1. pc[c] = "idle" /\ c \in inside
  BY DEF StreamInv, Expected, AppendRecords, Doing
<1>2. Knows(c).version = Len(log[call[c].run])
  <2>1. known[held[c]].version = Len(log[call[c].run])
    BY <1>1, Working
  <2> QED
    BY <2>1 DEF Knows
<1> QED
  BY <1>1, <1>2 DEF AppendRecords, DelegateAppend, cache

LEMMA StepIsAtomic ==
    ASSUME StreamInv, [StreamNext]_<<vars, streamVars>>
    PROVE  [Next]_vars
<1>1. CASE InMemory
  BY <1>1 DEF InMemory, Next
<1>2. ASSUME NEW c \in Clients, LoadRecords(c) PROVE Next
  BY <1>2, LoadIsAtomic DEF Next
<1>3. ASSUME NEW c \in Clients, NEW batch \in Batches, AppendRecords(c, batch) PROVE Next
  <2>1. call[c].run \in Runs
    BY <1>3, Working DEF AppendRecords, Doing
  <2> QED
    BY <1>3, <2>1, AppendIsAtomic DEF Next
<1>4. ASSUME NEW c \in Clients,
             \/ Enter(c) \/ CannotRead(c) \/ WriteAudit(c) \/ Refuse(c) \/ Release(c)
             \/ \E r \in Runs : Calls(c, r)
      PROVE  UNCHANGED vars
  BY <1>4 DEF Enter, CannotRead, WriteAudit, Refuse, Release, Calls, Acquire
<1> QED
  BY <1>1, <1>2, <1>3, <1>4 DEF StreamNext

(***************************************************************************)
(* Every step keeps the table and the calls as they should be.             *)
(***************************************************************************)
CallInv == TableInv /\ FileTypes /\ Alone /\ Expected /\ StreamCurrent

LEMMA InvInMemory ==
    ASSUME StreamInv, InMemory
    PROVE  CallInv'
<1>1. /\ UNCHANGED <<log, streamVars>>
      /\ \A c \in Clients : InCall(c) => pc'[c] = pc[c] /\ on'[c] = on[c]
  <2>1. UNCHANGED streamVars
    BY DEF InMemory
  <2>2. ASSUME NEW c \in Clients, ~InCall(c), Install(c) \/ ReturnUncached(c) \/ UpdateCache(c)
        PROVE  log' = log /\ \A d \in Clients : InCall(d) => pc'[d] = pc[d] /\ on'[d] = on[d]
    BY <2>2 DEF StreamInv, TypeOK, Install, ReturnUncached, UpdateCache, Return, Goto
  <2>3. ASSUME NEW c \in Clients, ~InCall(c), NEW r \in Runs, Hit(c, r) \/ Miss(c, r)
        PROVE  log' = log /\ \A d \in Clients : InCall(d) => pc'[d] = pc[d] /\ on'[d] = on[d]
    BY <2>3 DEF StreamInv, TypeOK, Hit, Miss, Goto
  <2>4. ASSUME NEW r \in Runs, Invalidate(r)
        PROVE  log' = log /\ \A d \in Clients : InCall(d) => pc'[d] = pc[d] /\ on'[d] = on[d]
    BY <2>4 DEF Invalidate
  <2> QED
    BY <2>1, <2>2, <2>3, <2>4 DEF InMemory
<1>2. TableInv' /\ Mapped' = Mapped
  BY <1>1, TableSame DEF StreamInv, streamVars, table
<1>3. FileTypes' /\ Alone'
  BY <1>1 DEF StreamInv, FileTypes, Alone, streamVars, table
<1>4. Expected'
  BY <1>1 DEF StreamInv, Expected, InCall, streamVars, table
<1>5. StreamCurrent'
  BY <1>1, <1>2 DEF StreamInv, StreamCurrent, streamVars, table
<1> QED
  BY <1>2, <1>3, <1>4, <1>5 DEF CallInv

LEMMA InvCalls ==
    ASSUME StreamInv, NEW c \in Clients, NEW r \in Runs, Calls(c, r)
    PROVE  CallInv'
<1>1. PICK kind \in {"load", "write"} :
        /\ Acquire(c, r, kind)
        /\ kind = "load" => pc[c] = "missed" /\ r = on[c]
        /\ kind = "write" => pc[c] = "idle"
  BY DEF Calls
<1>2. /\ ~InCall(c) /\ UNCHANGED <<vars, frames, inside>>
      /\ held' = [held EXCEPT ![c] = runs'[r]]
      /\ call' = [call EXCEPT ![c] = [kind |-> kind, run |-> r]]
      /\ c \notin inside
  BY <1>1 DEF Acquire, StreamInv, Alone, InCall
<1>3. /\ call \in [Clients -> Positions] /\ held \in [Clients -> Streams \cup {NoStream}]
      /\ known \in [Streams -> Stream] /\ runs \in [Runs -> Streams \cup {NoStream}]
  BY DEF StreamInv, TableInv, TableTypes, FileTypes
<1>4. Expected'
  <2>1. \A d \in Clients : d # c => call'[d] = call[d]
    BY <1>2, <1>3
  <2>2. call'[c] = [kind |-> kind, run |-> r]
    BY <1>2, <1>3
  <2>3. pc' = pc /\ on' = on
    BY <1>2 DEF vars
  <2> QED
    BY <1>1, <2>1, <2>2, <2>3 DEF StreamInv, Expected
<1>5. CASE runs[r] # NoStream
  <2>1. runs' = runs /\ users' = [users EXCEPT ![runs[r]] = @ + 1] /\ known' = known
    BY <1>1, <1>5 DEF Acquire
  <2>2. TableInv'
    BY <1>2, <1>5, <2>1, TableAcquireFound DEF StreamInv
  <2>3. FileTypes' /\ Alone'
    BY <1>2, <1>3, <2>1 DEF StreamInv, FileTypes, Alone
  <2>4. StreamCurrent'
    BY <1>2, <2>1 DEF StreamInv, StreamCurrent, Mapped, vars
  <2> QED
    BY <1>4, <2>2, <2>3, <2>4 DEF CallInv
<1>6. CASE runs[r] = NoStream
  <2>1. PICK s \in Streams :
          /\ Free(s)
          /\ runs' = [runs EXCEPT ![r] = s]
          /\ users' = [users EXCEPT ![s] = 1]
          /\ known' = [known EXCEPT ![s] = Fresh]
    BY <1>1, <1>6 DEF Acquire
  <2>2. TableInv'
    BY <1>2, <1>6, <2>1, TableAcquireNew DEF StreamInv
  <2>3. /\ \A q \in Runs : runs[q] # s
        /\ \A d \in Clients : held[d] # s
        /\ s # NoStream
    BY <2>1 DEF Free
  <2>4. FileTypes'
    BY <1>2, <1>3, <2>1 DEF StreamInv, FileTypes, Fresh, Stream
  <2>5. Alone'
    <3>1. \A d \in inside : call'[d] = call[d] /\ held'[d] = held[d] /\ d \in Clients
      BY <1>2, <1>3 DEF StreamInv, FileTypes
    <3>2. \A d \in inside : known'[held[d]] = known[held[d]]
      BY <1>3, <2>1, <2>3, <3>1, Working
    <3> QED
      BY <1>2, <3>1, <3>2 DEF StreamInv, Alone
  <2>6. StreamCurrent'
    <3> SUFFICES ASSUME NEW q \in Mapped', known'[runs'[q]].ready
                 PROVE  /\ known'[runs'[q]].version = Len(log'[q])
                        /\ known'[runs'[q]].sequence = frames'[q]
      BY DEF StreamCurrent
    <3>1. q # r
      BY <1>3, <2>1 DEF Fresh
    <3>2. q \in Mapped /\ runs'[q] = runs[q] /\ runs[q] \in Streams
      BY <1>3, <2>1, <3>1 DEF Mapped
    <3>3. known'[runs[q]] = known[runs[q]]
      BY <1>3, <2>1, <2>3, <3>2 DEF Mapped
    <3> QED
      BY <1>2, <3>2, <3>3 DEF StreamInv, StreamCurrent, vars
  <2> QED
    BY <1>4, <2>2, <2>4, <2>5, <2>6 DEF CallInv
<1> QED
  BY <1>5, <1>6

\* A stream is read before the first call under its mu.
LEMMA InvEnter ==
    ASSUME StreamInv, NEW c \in Clients, Enter(c)
    PROVE  CallInv'
<1> DEFINE s == held[c]
           r == call[c].run
<1>1. /\ InCall(c) /\ call[c].kind \in {"load", "write"} /\ c \notin inside
      /\ \A d \in inside : held[d] # s
      /\ inside' = inside \cup {c} /\ UNCHANGED <<vars, frames, table>>
  BY DEF Enter, StreamInv, TableInv, TableTypes, Positions, InCall
<1>2. r \in Mapped /\ r \in Runs /\ s = runs[r] /\ s \in Streams
  BY <1>1 DEF StreamInv, TableInv, TableTypes, CallsHold, Mapped
<1>3. /\ known[s] \in Stream /\ Len(log[r]) \in Nat /\ frames[r] \in Nat
      /\ known[s].ready => known[s].version = Len(log[r]) /\ known[s].sequence = frames[r]
  <2>1. /\ log \in [Runs -> Seq(Events)] /\ frames \in [Runs -> Nat]
        /\ known \in [Streams -> Stream]
    BY DEF StreamInv, TypeOK, FileTypes
  <2>2. known[s] \in Stream /\ log[r] \in Seq(Events) /\ frames[r] \in Nat
    BY <1>2, <2>1
  <2>3. known[s].ready => known[s].version = Len(log[r]) /\ known[s].sequence = frames[r]
    BY <1>2 DEF StreamInv, StreamCurrent
  <2> QED
    BY <2>2, <2>3
<1>4. /\ known'[s] \in Stream /\ known'[s].ready
      /\ known'[s].version = Len(log[r]) /\ known'[s].sequence = frames[r]
      /\ \A x \in Streams : x # s => known'[x] = known[x]
  <2>1. known' = [known EXCEPT ![s] = IF @.ready THEN @ ELSE
                    [ready |-> TRUE, version |-> Len(log[r]), sequence |-> frames[r]]]
    BY DEF Enter
  <2>2. /\ known'[s] = IF known[s].ready THEN known[s] ELSE
             [ready |-> TRUE, version |-> Len(log[r]), sequence |-> frames[r]]
        /\ \A x \in Streams : x # s => known'[x] = known[x]
    BY <1>2, <2>1 DEF StreamInv, FileTypes
  <2> QED
    BY <1>3, <2>2 DEF Stream
<1>5. TableInv' /\ Mapped' = Mapped
  BY <1>1, TableSame DEF StreamInv, table
<1>6. FileTypes'
  <2>1. known' = [known EXCEPT ![s] = known'[s]]
    BY <1>2 DEF Enter, StreamInv, FileTypes
  <2> HIDE DEF s
  <2> QED
    BY <1>1, <1>2, <1>4, <2>1 DEF StreamInv, FileTypes
<1>7. Alone'
  <2>1. \A d \in inside : held[d] \in Streams /\ known'[held[d]] = known[held[d]]
    BY <1>1, <1>4, Working
  <2> QED
    BY <1>1, <1>4, <2>1 DEF StreamInv, Alone, table
<1>8. Expected'
  BY <1>1 DEF StreamInv, Expected, vars, table
<1>9. StreamCurrent'
  <2> SUFFICES ASSUME NEW q \in Mapped, known'[runs[q]].ready
               PROVE  known'[runs[q]].version = Len(log[q]) /\ known'[runs[q]].sequence = frames[q]
    BY <1>1, <1>5 DEF StreamCurrent, vars, table
  <2>1. CASE q = r
    BY <1>2, <1>4, <2>1
  <2>2. CASE q # r
    <3>1. runs[q] # s /\ runs[q] \in Streams
      BY <1>2, <2>2 DEF StreamInv, TableInv, TableTypes, Apart, Mapped
    <3> QED
      BY <1>4, <3>1 DEF StreamInv, StreamCurrent
  <2> QED
    BY <2>1, <2>2
<1> QED
  BY <1>5, <1>6, <1>7, <1>8, <1>9 DEF CallInv

LEMMA InvCannotRead ==
    ASSUME StreamInv, NEW c \in Clients, CannotRead(c)
    PROVE  CallInv'
<1>1. /\ InCall(c) /\ c \notin inside /\ call' = [call EXCEPT ![c].kind = "over"]
      /\ UNCHANGED <<vars, frames, runs, older, users, known, held, inside>>
  BY DEF CannotRead, InCall
<1>2. TableInv' /\ Mapped' = Mapped
  BY <1>1, TableSame DEF StreamInv
<1>3. \A d \in Clients : d # c => call'[d] = call[d]
  BY <1>1 DEF StreamInv, TableInv, TableTypes
<1>4. call'[c].kind = "over"
  BY <1>1 DEF StreamInv, TableInv, TableTypes, Positions
<1>5. FileTypes' /\ Alone'
  BY <1>1, <1>3 DEF StreamInv, FileTypes, Alone
<1>6. Expected'
  BY <1>1, <1>3, <1>4 DEF StreamInv, Expected, vars
<1>7. StreamCurrent'
  BY <1>1, <1>2 DEF StreamInv, StreamCurrent, vars
<1> QED
  BY <1>2, <1>5, <1>6, <1>7 DEF CallInv

\* The end of a call's body: what it wrote, the one stream of its run knows.
LEMMA InvLeave ==
    ASSUME StreamInv, NEW c \in inside, Leave(c),
           \A d \in Clients : d # c => pc'[d] = pc[d] /\ on'[d] = on[d],
           NEW k \in Stream, known' = [known EXCEPT ![held[c]] = k],
           k.ready, k.version = Len(log'[call[c].run]), k.sequence = frames'[call[c].run],
           frames' \in [Runs -> Nat],
           \A q \in Runs : q # call[c].run => log'[q] = log[q] /\ frames'[q] = frames[q]
    PROVE  CallInv'
<1> DEFINE s == held[c]
           r == call[c].run
<1>1. /\ c \in Clients /\ InCall(c) /\ r \in Mapped /\ r \in Runs /\ s = runs[r] /\ s \in Streams
      /\ \A q \in Mapped : q # r => runs[q] # s
      /\ \A d \in inside : d # c => held[d] # s
  BY Working
<1>2. /\ inside' = inside \ {c} /\ call' = [call EXCEPT ![c].kind = "over"]
      /\ UNCHANGED <<runs, older, users, held>>
  BY DEF Leave
<1>3. TableInv' /\ Mapped' = Mapped
  BY <1>1, <1>2, TableSame DEF StreamInv
<1>4. /\ known'[s] = k
      /\ \A x \in Streams : x # s => known'[x] = known[x]
  BY <1>1 DEF StreamInv, FileTypes
<1>5. /\ \A d \in Clients : d # c => call'[d] = call[d]
      /\ call'[c].kind = "over"
  BY <1>1, <1>2 DEF StreamInv, TableInv, TableTypes, Positions
<1>6. FileTypes'
  BY <1>1, <1>2 DEF StreamInv, FileTypes
<1>7. Alone'
  <2>1. \A d \in inside' : d \in inside /\ d # c /\ d \in Clients /\ held[d] \in Streams
    BY <1>2, Working
  <2>2. \A d \in inside' : known'[held[d]] = known[held[d]]
    BY <1>1, <1>4, <2>1
  <2> QED
    BY <1>2, <1>5, <2>1, <2>2 DEF StreamInv, Alone
<1>8. Expected'
  BY <1>5 DEF StreamInv, Expected
<1>9. StreamCurrent'
  <2> SUFFICES ASSUME NEW q \in Mapped, known'[runs[q]].ready
               PROVE  /\ known'[runs[q]].version = Len(log'[q])
                      /\ known'[runs[q]].sequence = frames'[q]
    BY <1>2, <1>3 DEF StreamCurrent
  <2>1. CASE q = r
    BY <1>1, <1>4, <2>1
  <2>2. CASE q # r
    <3>1. runs[q] # s /\ runs[q] \in Streams /\ q \in Runs
      BY <1>1, <2>2 DEF StreamInv, TableInv, TableTypes, Mapped
    <3>2. known'[runs[q]] = known[runs[q]]
      BY <1>4, <3>1
    <3> QED
      BY <2>2, <3>1, <3>2 DEF StreamInv, StreamCurrent
  <2> QED
    BY <2>1, <2>2
<1> QED
  BY <1>3, <1>6, <1>7, <1>8, <1>9 DEF CallInv

LEMMA InvReads ==
    ASSUME StreamInv, NEW c \in Clients, LoadRecords(c) \/ Refuse(c)
    PROVE  CallInv'
<1>1. c \in inside /\ Leave(c) /\ log' = log /\ frames' = frames /\ known' = known
  BY DEF LoadRecords, Refuse, Doing, vars
<1>2. \A d \in Clients : d # c => pc'[d] = pc[d] /\ on'[d] = on[d]
  BY DEF LoadRecords, Refuse, Goto, vars, StreamInv, TypeOK
<1>3. known' = [known EXCEPT ![held[c]] = known[held[c]]]
  BY <1>1, Working DEF StreamInv, FileTypes
<1>4. frames' \in [Runs -> Nat]
  BY <1>1 DEF StreamInv, FileTypes
<1> QED
  BY <1>1, <1>2, <1>3, <1>4, Working, InvLeave

LEMMA InvAppendRecords ==
    ASSUME StreamInv, NEW c \in Clients, NEW batch \in Batches, AppendRecords(c, batch)
    PROVE  CallInv'
<1> DEFINE r == call[c].run
           old == known[held[c]]
           written == IF batch = <<>> THEN 0 ELSE 1
           k == [old EXCEPT !.version = @ + Len(batch), !.sequence = @ + written]
<1>1. c \in inside /\ Leave(c)
  BY DEF AppendRecords, Doing
<1>2. /\ r \in Runs /\ held[c] \in Streams /\ old \in Stream /\ old.ready
      /\ old.version = Len(log[r]) /\ old.sequence = frames[r]
  BY <1>1, Working
<1>3. /\ batch \in Seq(Events) /\ log[r] \in Seq(Events)
      /\ Len(batch) \in Nat /\ Len(log[r]) \in Nat /\ frames[r] \in Nat
  <2>1. log \in [Runs -> Seq(Events)] /\ frames \in [Runs -> Nat]
    BY DEF StreamInv, TypeOK, FileTypes
  <2>2. batch \in Seq(Events)
    BY StoreAssumption
  <2>3. log[r] \in Seq(Events) /\ frames[r] \in Nat
    BY <1>2, <2>1
  <2> QED
    BY <2>2, <2>3
<1>4. /\ k \in Stream /\ k.ready /\ k.version = Len(log[r]) + Len(batch)
      /\ k.sequence = frames[r] + written
  <2>1. old.version \in Nat /\ old.sequence \in Nat /\ written \in Nat
    BY <1>2 DEF Stream
  <2>2. /\ old.version + Len(batch) \in Nat /\ old.sequence + written \in Nat
    BY <1>3, <2>1
  <2>3. k \in Stream /\ k.ready /\ k.version = old.version + Len(batch)
        /\ k.sequence = old.sequence + written
    <3> HIDE DEF written, old
    <3> QED
      BY <1>2, <2>2 DEF Stream
  <2> HIDE DEF k
  <2> QED
    BY <1>2, <2>3
<1>5. /\ log' = [log EXCEPT ![r] = @ \o batch]
      /\ frames' = [frames EXCEPT ![r] = @ + written]
  BY DEF AppendRecords
<1>6. /\ log'[r] = log[r] \o batch /\ frames'[r] = frames[r] + written
      /\ \A q \in Runs : q # r => log'[q] = log[q] /\ frames'[q] = frames[q]
      /\ frames' \in [Runs -> Nat]
  <2>1. log \in [Runs -> Seq(Events)] /\ frames \in [Runs -> Nat]
    BY DEF StreamInv, TypeOK, FileTypes
  <2>2. log'[r] = log[r] \o batch /\ \A q \in Runs : q # r => log'[q] = log[q]
    BY <1>2, <1>5, <2>1
  <2>3. /\ frames'[r] = frames[r] + written /\ frames' \in [Runs -> Nat]
        /\ \A q \in Runs : q # r => frames'[q] = frames[q]
    BY <1>2, <1>3, <1>5, <2>1
  <2> QED
    BY <2>2, <2>3
<1>7. k.version = Len(log'[r]) /\ k.sequence = frames'[r]
  <2>1. Len(log[r] \o batch) = Len(log[r]) + Len(batch)
    BY <1>3, Appended
  <2> HIDE DEF k, r, written
  <2> QED
    BY <1>4, <1>6, <2>1
<1>8. known' = [known EXCEPT ![held[c]] = k]
  <2>1. known' = [known EXCEPT ![held[c]].version = Knows(c).version + Len(batch),
                               ![held[c]].sequence = @ + written]
    BY DEF AppendRecords
  <2>2. known'[held[c]] = k /\ \A x \in Streams : x # held[c] => known'[x] = known[x]
    BY <1>2, <2>1 DEF StreamInv, FileTypes, Stream, Knows
  <2>3. known' \in [Streams -> Stream] /\ known \in [Streams -> Stream]
    BY <1>2, <1>4, <2>1, <2>2 DEF StreamInv, FileTypes
  <2> HIDE DEF k
  <2> QED
    BY <1>2, <2>2, <2>3
<1>9. \A d \in Clients : d # c => pc'[d] = pc[d] /\ on'[d] = on[d]
  BY DEF AppendRecords, Goto, StreamInv, TypeOK
<1> HIDE DEF k
<1> QED
  BY <1>1, <1>4, <1>6, <1>7, <1>8, <1>9, InvLeave

LEMMA InvWriteAudit ==
    ASSUME StreamInv, NEW c \in Clients, WriteAudit(c)
    PROVE  CallInv'
<1> DEFINE r == call[c].run
           old == known[held[c]]
           k == [old EXCEPT !.sequence = @ + 1]
<1>1. c \in inside /\ Leave(c) /\ UNCHANGED vars
  BY DEF WriteAudit, Doing
<1>2. /\ r \in Runs /\ held[c] \in Streams /\ old \in Stream /\ old.ready
      /\ old.version = Len(log[r]) /\ old.sequence = frames[r]
  BY <1>1, Working
<1>3. /\ frames' = [frames EXCEPT ![r] = @ + 1] /\ frames \in [Runs -> Nat]
      /\ known' = [known EXCEPT ![held[c]] = k]
  BY DEF WriteAudit, StreamInv, FileTypes
<1>4. /\ frames'[r] = frames[r] + 1 /\ frames' \in [Runs -> Nat]
      /\ \A q \in Runs : q # r => frames'[q] = frames[q]
  BY <1>2, <1>3
<1>5. k \in Stream /\ k.ready /\ k.version = Len(log[r]) /\ k.sequence = frames[r] + 1
  BY <1>2, <1>3 DEF Stream
<1>6. log' = log /\ pc' = pc /\ on' = on
  BY <1>1 DEF vars
<1> HIDE DEF k
<1> QED
  BY <1>1, <1>3, <1>4, <1>5, <1>6, InvLeave

\* What releaseStream keeps, it does not touch.
LEMMA InvRelease ==
    ASSUME StreamInv, NEW c \in Clients, Release(c)
    PROVE  CallInv'
<1>1. TableInv'
  BY TableRelease DEF StreamInv
<1>2. /\ held' = [held EXCEPT ![c] = NoStream] /\ call' = [call EXCEPT ![c] = NoCall]
      /\ known' = [x \in Streams |-> IF Free(x)' THEN Fresh ELSE known[x]]
      /\ call[c].kind = "over" /\ UNCHANGED <<vars, frames, inside>>
  BY ReleaseSteps
<1>3. \A q \in Mapped' : q \in Mapped /\ runs'[q] = runs[q] /\ runs[q] \in Streams
  BY ReleaseSteps DEF Mapped, Kept, StreamInv, TableInv, TableTypes
<1>4. FileTypes'
  BY <1>2 DEF StreamInv, FileTypes, Fresh, Stream
<1>5. \A d \in Clients : d # c => call'[d] = call[d] /\ held'[d] = held[d]
  BY <1>2 DEF StreamInv, TableInv, TableTypes
<1>6. call'[c].kind = "none"
  BY <1>2 DEF StreamInv, TableInv, TableTypes, NoCall
<1>7. Alone'
  <2>1. \A d \in inside : d # c /\ d \in Clients /\ held[d] \in Streams
    BY <1>2, Working DEF StreamInv, Alone
  <2>2. \A d \in inside : ~Free(held[d])'
    BY <1>5, <2>1 DEF Free
  <2>3. \A d \in inside : known'[held[d]] = known[held[d]]
    BY <1>2, <2>1, <2>2
  <2> QED
    BY <1>2, <1>5, <2>1, <2>3 DEF StreamInv, Alone
<1>8. Expected'
  BY <1>2, <1>5, <1>6 DEF StreamInv, Expected, vars
<1>9. StreamCurrent'
  <2>1. \A q \in Mapped' : ~Free(runs[q])'
    BY DEF Free, Mapped
  <2>2. \A q \in Mapped' : known'[runs'[q]] = known[runs[q]]
    BY <1>2, <1>3, <2>1 DEF Free
  <2> QED
    BY <1>2, <1>3, <2>2 DEF StreamInv, StreamCurrent, vars
<1> QED
  BY <1>1, <1>4, <1>7, <1>8, <1>9 DEF CallInv

LEMMA StreamStep ==
    ASSUME StreamInv, [StreamNext]_<<vars, streamVars>>
    PROVE  StreamInv'
<1>1. TypeOK'
  BY StepIsAtomic, TypeStep DEF StreamInv
<1>2. CASE StreamNext
  <2>1. CallInv'
    BY <1>2, InvInMemory, InvCalls, InvEnter, InvCannotRead, InvReads, InvAppendRecords,
       InvWriteAudit, InvRelease DEF StreamNext
  <2> QED
    BY <1>1, <2>1 DEF StreamInv, CallInv
<1>3. CASE UNCHANGED <<vars, streamVars>>
  <2>1. TableInv' /\ Mapped' = Mapped
    BY <1>3, TableSame DEF StreamInv, streamVars, table
  <2>2. FileTypes' /\ Alone' /\ Expected' /\ StreamCurrent'
    BY <1>3, <2>1 DEF StreamInv, FileTypes, Alone, Expected, StreamCurrent, streamVars,
       table, vars
  <2> QED
    BY <1>1, <2>1, <2>2 DEF StreamInv
<1> QED
  BY <1>2, <1>3

(***************************************************************************)
(* Whichever streams releaseStream forgets while other calls hold theirs,  *)
(* all calls on one run work on one runStream, under one mu, and a stream  *)
(* that has been read knows every frame of its journal.                    *)
(***************************************************************************)
THEOREM OneWriterPerRun == StreamSpec => []OneWriter
<1>1. StreamInv => OneWriter
  BY DEF StreamInv, TableInv, CallsHold, OneWriter, OneStreamPerRun
<1> QED
  BY <1>1, StreamInvInit, StreamStep, PTL DEF StreamSpec

(***************************************************************************)
(* A Load or Append of the journal, with its stream acquired, read, used   *)
(* and released around it, is to the cache one atomic step: every          *)
(* behaviour of the two together is one of the cache over an atomic store. *)
(***************************************************************************)
THEOREM JournalIsAtomic == StreamSpec => DelegateIsAtomic
<1>1. StreamInit => Init
  BY DEF StreamInit
<1>2. StreamInv /\ [StreamNext]_<<vars, streamVars>> => [Next]_vars
  BY StepIsAtomic
<1> QED
  BY <1>1, <1>2, StreamInvInit, StreamStep, PTL DEF StreamSpec, DelegateIsAtomic

(***************************************************************************)
(* So clients of CachedEventStore over the journal's Store cannot tell the *)
(* two from one event store.                                               *)
(***************************************************************************)
THEOREM StackImplementsEventStore == StreamSpec => BehavesAsStore /\ Store!Spec
<1>1. StreamSpec => Spec
  BY JournalIsAtomic DEF DelegateIsAtomic, Spec
<1> QED
  BY <1>1, CacheIsInvisible, ImplementsEventStore

(***************************************************************************)
(* The limit.  The runs of the table are ordered by their last use, and    *)
(* those nobody uses are never more than maxRuns.                          *)
(***************************************************************************)
Ordered ==
    /\ \A x \in Mapped : <<x, x>> \notin older
    /\ \A x, y \in Mapped : x # y => <<x, y>> \in older \/ <<y, x>> \in older
    /\ \A x, y, z \in Mapped : <<x, y>> \in older /\ <<y, z>> \in older => <<x, z>> \in older

Limited == Cardinality(Unused(users)) <= MaxStreams

LimitInv == StreamInv /\ IsFiniteSet(Mapped) /\ Ordered /\ Limited

\* Fewer unused streams are within the limit, too.
LEMMA LimitedSubset ==
    ASSUME IsFiniteSet(Mapped), Limited, NEW fewer \in SUBSET Unused(users)
    PROVE  Cardinality(fewer) <= MaxStreams
<1>1. Unused(users) \in SUBSET Mapped
  BY DEF Unused
<1>2. IsFiniteSet(Unused(users))
  BY <1>1, FS_Subset
<1>3. IsFiniteSet(fewer) /\ Cardinality(fewer) <= Cardinality(Unused(users))
  BY <1>2, FS_Subset
<1>4. Cardinality(fewer) \in Nat /\ Cardinality(Unused(users)) \in Nat
  BY <1>2, <1>3, FS_CardinalityType
<1> QED
  BY <1>3, <1>4 DEF Limited

\* The run of a call becomes the last of the order, and one that is used.
LEMMA LimitAcquire ==
    ASSUME LimitInv, NEW c \in Clients, NEW r \in Runs, NEW kind, Acquire(c, r, kind)
    PROVE  IsFiniteSet(Mapped)' /\ Ordered' /\ Limited'
<1>0. /\ runs \in [Runs -> Streams \cup {NoStream}] /\ users \in [Streams -> Nat]
  BY DEF LimitInv, StreamInv, TableInv, TableTypes
<1>1. Mapped' = Mapped \cup {r}
  <2>1. CASE runs[r] # NoStream
    BY <2>1 DEF Acquire, Mapped
  <2>2. CASE runs[r] = NoStream
    BY <1>0, <2>2 DEF Acquire, Mapped
  <2> QED
    BY <2>1, <2>2
<1>2. IsFiniteSet(Mapped \cup {r})
  BY FS_AddElement DEF LimitInv
<1>3. Ordered'
  <2>1. older' = {p \in older : r \notin {p[1], p[2]}} \cup ((Mapped \ {r}) \X {r})
    BY DEF Acquire
  <2>2. \A x, y : y # r => (<<x, y>> \in older' <=> <<x, y>> \in older /\ x # r)
    BY <2>1
  <2>3. \A x : <<x, r>> \in older' <=> x \in Mapped \ {r}
    BY <2>1
  <2>4. /\ \A x \in Mapped : <<x, x>> \notin older
        /\ \A x, y \in Mapped : x # y => <<x, y>> \in older \/ <<y, x>> \in older
        /\ \A x, y, z \in Mapped : <<x, y>> \in older /\ <<y, z>> \in older => <<x, z>> \in older
    BY DEF LimitInv, Ordered
  <2> QED
    BY <1>1, <2>2, <2>3, <2>4 DEF Ordered
<1>4. Unused(users)' \in SUBSET Unused(users)
  <2>1. ASSUME NEW q \in Mapped', users'[runs'[q]] = 0
        PROVE  q \in Mapped /\ users[runs[q]] = 0
    <3>1. CASE runs[r] # NoStream
      <4>1. runs' = runs /\ users' = [users EXCEPT ![runs[r]] = @ + 1] /\ runs[r] \in Streams
        BY <1>0, <3>1 DEF Acquire
      <4>2. q \in Mapped /\ runs[q] \in Streams
        BY <1>0, <2>1, <4>1 DEF Mapped
      <4> QED
        BY <1>0, <2>1, <4>1, <4>2
    <3>2. CASE runs[r] = NoStream
      <4>1. PICK s \in Streams : /\ Free(s) /\ runs' = [runs EXCEPT ![r] = s]
                                 /\ users' = [users EXCEPT ![s] = 1]
        BY <3>2 DEF Acquire
      <4>2. q # r
        BY <1>0, <2>1, <4>1
      <4>3. q \in Mapped /\ runs'[q] = runs[q] /\ runs[q] # s /\ runs[q] \in Streams
        BY <1>0, <1>1, <4>1, <4>2 DEF Free, Mapped
      <4> QED
        BY <1>0, <2>1, <4>1, <4>3
    <3> QED
      BY <3>1, <3>2
  <2> QED
    BY <2>1 DEF Unused
<1>5. Limited'
  BY <1>4, LimitedSubset DEF LimitInv, Limited
<1> QED
  BY <1>1, <1>2, <1>3, <1>5

\* As releaseStream is left, nobody uses a run's stream only if it is one that
\* nobody used before the loop and that the loop has left.
LEMMA UnusedAfterRelease ==
    ASSUME LimitInv, NEW c \in Clients, Release(c)
    PROVE  /\ Mapped' = Kept(Using(c)) /\ Kept(Using(c)) \in SUBSET Mapped
           /\ Unused(users)' \in SUBSET (Unused(Using(c)) \cap Kept(Using(c)))
<1>1. TableTypes
  BY DEF LimitInv, StreamInv, TableInv
<1>2. Kept(Using(c)) \in SUBSET Mapped
  BY DEF Kept
<1>3. \A r \in Runs : runs'[r] = IF r \in Kept(Using(c)) THEN runs[r] ELSE NoStream
  BY ReleaseSteps
<1>4. Mapped' = Kept(Using(c))
  BY <1>2, <1>3 DEF Mapped
<1>5. ASSUME NEW r \in Mapped', users'[runs'[r]] = 0
      PROVE  r \in Unused(Using(c))
  <2>1. runs'[r] = runs[r] /\ runs[r] \in Streams /\ r \in Mapped /\ r \in Runs
    BY <1>1, <1>2, <1>3, <1>4 DEF Mapped, TableTypes
  <2>2. ~Free(runs[r])'
    BY <2>1 DEF Free
  <2>3. users'[runs[r]] = Using(c)[runs[r]]
    BY <2>1, <2>2, ReleaseSteps
  <2> QED
    BY <1>5, <2>1, <2>3 DEF Unused
<1> QED
  BY <1>2, <1>4, <1>5 DEF Unused

\* The loop of releaseStream goes on while the store is over its limit and one
\* stream is unused: one that is left means no more than maxRuns are.
LEMMA LimitRelease ==
    ASSUME LimitInv, NEW c \in Clients, Release(c)
    PROVE  IsFiniteSet(Mapped)' /\ Ordered' /\ Limited'
<1> DEFINE opened == Mapped
           idle == Unused(Using(c))
           below == [x \in idle |-> {y \in idle : <<y, x>> \in older}]
           removed == {x \in idle : Cardinality(below[x]) < Cardinality(opened) - MaxStreams}
<1>1. /\ Mapped' = Kept(Using(c)) /\ Kept(Using(c)) \in SUBSET Mapped
      /\ Unused(users)' \in SUBSET (idle \cap Kept(Using(c)))
  BY UnusedAfterRelease
<1>2. IsFiniteSet(Mapped) /\ MaxStreams \in Nat /\ Cardinality(Mapped) \in Nat
  BY FS_CardinalityType DEF LimitInv
<1>3. IsFiniteSet(Kept(Using(c)))
  BY <1>1, <1>2, FS_Subset
<1>4. Ordered'
  <2>1. older' = older \cap (Kept(Using(c)) \X Kept(Using(c)))
    BY DEF Release, Using
  <2>2. \A x, y \in Kept(Using(c)) : <<x, y>> \in older' <=> <<x, y>> \in older
    BY <2>1
  <2>3. Ordered
    BY DEF LimitInv
  <2> QED
    BY <1>1, <2>2, <2>3 DEF Ordered
<1>5. Limited'
  <2>1. CASE Unused(users)' = {}
    BY <1>2, <2>1, FS_EmptySet DEF Limited
  <2>2. CASE Unused(users)' # {}
    <3>1. PICK left : left \in idle \cap Kept(Using(c))
      BY <1>1, <2>2
    <3>2. \A x \in idle : Before(x, idle) = Cardinality(below[x])
      BY DEF Before
    <3>3. /\ idle \in SUBSET opened /\ below \in [idle -> SUBSET idle]
          /\ \A x \in idle : x \notin below[x]
          /\ \A x, y \in idle : x # y => x \in below[y] \/ y \in below[x]
          /\ \A x, y \in idle : y \in below[x] => below[y] \subseteq below[x]
      <4>1. idle \in SUBSET Mapped
        BY DEF Unused
      <4>2. Ordered
        BY DEF LimitInv
      <4>3. \A x \in idle : x \notin below[x]
        BY <4>1, <4>2 DEF Ordered
      <4>4. \A x, y \in idle : x # y => x \in below[y] \/ y \in below[x]
        BY <4>1, <4>2 DEF Ordered
      <4>5. \A x, y, z \in idle : y \in below[x] /\ z \in below[y] => z \in below[x]
        BY <4>1, <4>2 DEF Ordered
      <4>6. \A x \in idle : below[x] \subseteq idle
        OBVIOUS
      <4>7. below \in [idle -> SUBSET idle]
        OBVIOUS
      <4> HIDE DEF idle, below
      <4> QED
        BY <4>1, <4>3, <4>4, <4>5, <4>6, <4>7
    <3>4. \A x \in Mapped : x \in Kept(Using(c)) <=> x \notin removed
      <4>1. ASSUME NEW x \in idle
            PROVE  Cardinality(below[x]) \in Nat
        <5>1. below[x] \in SUBSET Mapped
          BY DEF Unused
        <5> QED
          BY <1>2, <5>1, FS_Subset, FS_CardinalityType
      <4>2. \A x \in Mapped : x \in Kept(Using(c)) <=>
                (x \in idle => Cardinality(below[x]) >= Cardinality(opened) - MaxStreams)
        BY <3>2 DEF Kept, Excess
      <4>3. \A x \in idle : Cardinality(below[x]) >= Cardinality(opened) - MaxStreams
                <=> ~(Cardinality(below[x]) < Cardinality(opened) - MaxStreams)
        <5> SUFFICES ASSUME NEW x \in idle
                     PROVE  Cardinality(below[x]) >= Cardinality(opened) - MaxStreams
                        <=> ~(Cardinality(below[x]) < Cardinality(opened) - MaxStreams)
          OBVIOUS
        <5>1. Cardinality(below[x]) \in Nat /\ Cardinality(opened) \in Nat
          BY <1>2, <4>1
        <5> HIDE DEF below, opened
        <5> QED
          BY <1>2, <5>1
      <4> QED
        BY <4>2, <4>3
    <3>5. IsFiniteSet(opened \ removed) /\ Cardinality(opened \ removed) <= MaxStreams
      <4>1. left \in idle \ removed
        BY <1>1, <3>1, <3>4
      <4>2. removed = {x \in idle : Cardinality(below[x]) < Cardinality(opened) - MaxStreams}
        OBVIOUS
      <4>3. IsFiniteSet(opened)
        BY <1>2
      <4> HIDE DEF opened, idle, below, removed
      <4> QED
        BY <1>2, <3>3, <4>1, <4>2, <4>3, LeftWithinLimit
    <3>6. Unused(users)' \in SUBSET (opened \ removed)
      BY <1>1, <3>4
    <3>7. /\ IsFiniteSet(Unused(users)')
          /\ Cardinality(Unused(users)') <= Cardinality(opened \ removed)
      BY <3>5, <3>6, FS_Subset
    <3>8. Cardinality(Unused(users)') \in Nat /\ Cardinality(opened \ removed) \in Nat
      BY <3>5, <3>7, FS_CardinalityType
    <3> HIDE DEF opened, removed
    <3> QED
      BY <1>2, <3>5, <3>7, <3>8 DEF Limited
  <2> QED
    BY <2>1, <2>2
<1> QED
  BY <1>1, <1>3, <1>4, <1>5

\* Every other step leaves the table's runs, their order and users alone.
LEMMA LimitStepStream ==
    ASSUME LimitInv, [StreamNext]_<<vars, streamVars>>
    PROVE  LimitInv'
<1>1. StreamInv'
  BY StreamStep DEF LimitInv
<1>2. ASSUME UNCHANGED <<runs, older, users>>
      PROVE  IsFiniteSet(Mapped)' /\ Ordered' /\ Limited'
  <2>1. Mapped' = Mapped /\ Unused(users)' = Unused(users)
    BY <1>2 DEF Mapped, Unused
  <2> QED
    BY <1>2, <2>1 DEF LimitInv, Ordered, Limited
<1>3. ASSUME NEW c \in Clients, NEW r \in Runs, Calls(c, r)
      PROVE  IsFiniteSet(Mapped)' /\ Ordered' /\ Limited'
  BY <1>3, LimitAcquire DEF Calls
<1>4. ASSUME NEW c \in Clients, Release(c)
      PROVE  IsFiniteSet(Mapped)' /\ Ordered' /\ Limited'
  BY <1>4, LimitRelease
<1>5. ASSUME NEW c \in Clients,
             \/ Enter(c) \/ CannotRead(c) \/ LoadRecords(c) \/ WriteAudit(c) \/ Refuse(c)
             \/ \E batch \in Batches : AppendRecords(c, batch)
      PROVE  UNCHANGED <<runs, older, users>>
  BY <1>5 DEF Enter, CannotRead, LoadRecords, WriteAudit, Refuse, AppendRecords, Leave, table
<1>6. ASSUME InMemory \/ UNCHANGED <<vars, streamVars>>
      PROVE  UNCHANGED <<runs, older, users>>
  BY <1>6 DEF InMemory, streamVars, table
<1> QED
  BY <1>1, <1>2, <1>3, <1>4, <1>5, <1>6 DEF StreamNext, LimitInv

LEMMA LimitInit == StreamInit => LimitInv
<1> SUFFICES ASSUME StreamInit PROVE LimitInv
  OBVIOUS
<1>1. Mapped = {} /\ Unused(users) = {}
  BY DEF StreamInit, Mapped, Unused
<1>2. Cardinality({}) = 0 /\ IsFiniteSet({})
  BY FS_EmptySet
<1> QED
  BY <1>1, <1>2, StreamInvInit DEF LimitInv, Ordered, Limited

(***************************************************************************)
(* However many runs the server is asked for, the cache keeps MaxRuns      *)
(* entries and the store, once no call is under way, maxRuns streams.      *)
(***************************************************************************)
THEOREM MemoryStaysWithinLimits == StreamSpec => []MemoryBounded
<1>1. LimitInv => StreamsWithinLimit
  <2> SUFFICES ASSUME LimitInv, \A c \in Clients : ~InCall(c)
               PROVE  Cardinality(Mapped) <= MaxStreams
    BY DEF StreamsWithinLimit
  <2>1. TableTypes /\ CallsHold /\ Counted
    BY DEF LimitInv, StreamInv, TableInv
  <2>2. ASSUME NEW r \in Mapped
        PROVE  users[runs[r]] = 0
    <3>1. runs[r] # NoStream
      BY DEF Mapped
    <3>2. Holders(runs[r]) = {}
      BY <2>1, <3>1 DEF CallsHold, Holders
    <3> QED
      BY <2>1, <3>2, FS_EmptySet DEF Counted
  <2>3. Mapped = Unused(users)
    BY <2>2 DEF Unused
  <2> QED
    BY <2>3 DEF LimitInv, Limited
<1>2. StreamSpec => []StreamsWithinLimit
  BY <1>1, LimitInit, LimitStepStream, PTL DEF StreamSpec
<1>3. StreamSpec => Spec
  BY JournalIsAtomic DEF DelegateIsAtomic, Spec
<1> QED
  BY <1>2, <1>3, CacheStaysBounded, PTL DEF MemoryBounded

-----------------------------------------------------------------------------
(* The credentials of servers *)

HIDE StreamsAssumption

Credentials == [server : Servers, version : Nat, from : Nat, until : Nat]
States == [now : 0..EndsAt, existing : SUBSET Servers, chain : [Servers -> Seq(Credentials)]]

(***************************************************************************)
(* The inductive invariant.  The chains of every State a session may hold  *)
(* are sound; and what a call has seen to so far stays so until it ends,   *)
(* because only its own session moves its State and rows are only added.   *)
(***************************************************************************)
CredentialsTypeOK ==
    /\ journal \in Seq(States) /\ journal # <<>>
    /\ stage \in [Sessions -> {"idle", "ensure", "issue", "ensured"}]
    /\ view \in [Sessions -> 1..Len(journal)]
    /\ cursor \in [Sessions -> Nat \ {0}]
    /\ wanted \in [Sessions -> {None} \cup Credentials]

Sound(j) ==
    \A s \in Servers : \A k \in DOMAIN j.chain[s] :
        /\ j.chain[s][k].version = k
        /\ j.chain[s][k].from <= j.now
        /\ k > 1 => j.chain[s][k].from >= j.chain[s][k - 1].from
History == \A i \in DOMAIN journal : Sound(journal[i])

Usable(j, s) == Live(j, s) /\ RowOf(s, Len(j.chain[s]))

\* The credential is decided on the State it will be executed on.
Prepared(p) ==
    LET j == State(p)
        s == Order[cursor[p]]
    IN  /\ Running(j) /\ cursor[p] \in DOMAIN Order /\ s \in j.existing
        /\ wanted[p] = Issued(s, Len(j.chain[s]) + 1, Window(j.now))
        /\ RowOf(s, Len(j.chain[s]) + 1)

CallOK(p) ==
    /\ stage[p] \in {"idle", "ensured"} => cursor[p] = 1
    /\ stage[p] = "issue" => Prepared(p)
    /\ stage[p] \in {"ensure", "issue"} =>
         \A i \in DOMAIN Order :
             i < cursor[p] /\ Order[i] \in State(p).existing => Usable(State(p), Order[i])
    /\ stage[p] = "ensured" /\ Running(State(p)) =>
         \A s \in State(p).existing : Usable(State(p), s)

CredentialsInv == CredentialsTypeOK /\ History /\ \A p \in Sessions : CallOK(p)

(***************************************************************************)
(* How many rotations of a server are due at a time.  Rotations are in     *)
(* order, so the first that is not due yet, if there is one, follows them. *)
(***************************************************************************)
LEMMA RotationsOrdered ==
    ASSUME NEW s \in Servers
    PROVE  /\ Rotations[s] \in Seq(1..EndsAt) /\ Len(Rotations[s]) \in Nat
           /\ DOMAIN Rotations[s] = 1..Len(Rotations[s])
           /\ \A i \in DOMAIN Rotations[s] : Rotations[s][i] \in 1..EndsAt
           /\ \A i, k \in DOMAIN Rotations[s] : i <= k => Rotations[s][i] <= Rotations[s][k]
<1>1. Rotations[s] \in Seq(1..EndsAt) /\ EndsAt \in Nat
  BY CredentialsAssumption
<1>2. \A i, k \in DOMAIN Rotations[s] : i < k => Rotations[s][i] <= Rotations[s][k]
  BY CredentialsAssumption
<1> QED
  BY <1>1, <1>2

LEMMA PassedCounts ==
    ASSUME NEW s \in Servers, NEW t \in Nat
    PROVE  /\ Passed(s, t) \in 0..Len(Rotations[s])
           /\ \A i \in DOMAIN Rotations[s] : Rotations[s][i] <= t <=> i <= Passed(s, t)
<1> DEFINE due == Rotations[s]
           later == {i \in DOMAIN due : ~(due[i] <= t)} \cup {Len(due) + 1}
<1>1. /\ Len(due) \in Nat /\ DOMAIN due = 1..Len(due)
      /\ \A i \in DOMAIN due : due[i] \in Nat
      /\ \A i, k \in DOMAIN due : i <= k => due[i] <= due[k]
  BY RotationsOrdered
<1> HIDE DEF due
<1>2. later \in SUBSET Nat /\ later # {}
  BY <1>1
<1>3. PICK m \in later : \A i \in later : m <= i
  <2> HIDE DEF later
  <2> QED
    BY <1>2, Orders!LeastMember
<1>4. m \in 1..(Len(due) + 1)
  BY <1>1, <1>3
<1>5. \A i \in DOMAIN due : due[i] <= t <=> i <= m - 1
  <2> SUFFICES ASSUME NEW i \in DOMAIN due
               PROVE  due[i] <= t <=> i <= m - 1
    OBVIOUS
  <2>1. CASE i <= m - 1
    <3>1. i \notin later
      BY <1>1, <1>3, <1>4, <2>1
    <3> QED
      BY <2>1, <3>1
  <2>2. CASE ~(i <= m - 1)
    <3>1. m \in DOMAIN due /\ m <= i /\ ~(due[m] <= t)
      BY <1>1, <1>3, <1>4, <2>2
    <3>2. due[m] <= due[i] /\ due[m] \in Nat /\ due[i] \in Nat
      BY <1>1, <3>1
    <3> QED
      BY <2>2, <3>1, <3>2
  <2> QED
    BY <2>1, <2>2
<1>6. \E n \in 0..Len(due) : \A i \in DOMAIN due : due[i] <= t <=> i <= n
  <2>1. m - 1 \in 0..Len(due)
    BY <1>1, <1>4
  <2> QED
    BY <1>5, <2>1
<1> QED
  BY <1>6 DEF Passed, due

(***************************************************************************)
(* What each event does to a State: it stays one, and its chains sound.    *)
(***************************************************************************)
LEMMA WindowFrom ==
    ASSUME NEW at \in Nat
    PROVE  Window(at).from = at /\ Window(at).until \in Nat /\ at < Window(at).until
BY CredentialsAssumption DEF Window, Least

LEMMA StateParts ==
    ASSUME NEW j \in States
    PROVE  /\ j.now \in Nat /\ j.now <= EndsAt /\ EndsAt \in Nat
           /\ j.existing \in SUBSET Servers
           /\ \A s \in Servers : j.chain[s] \in Seq(Credentials) /\ Len(j.chain[s]) \in Nat
                                 /\ DOMAIN j.chain[s] = 1..Len(j.chain[s])
<1>1. /\ j.now \in 0..EndsAt /\ j.existing \in SUBSET Servers
      /\ j.chain \in [Servers -> Seq(Credentials)]
  BY DEF States
<1>2. EndsAt \in Nat
  BY CredentialsAssumption
<1> QED
  BY <1>1, <1>2

LEMMA RotatedInOrder ==
    ASSUME NEW j \in States, NEW s \in Servers, NEW to \in 0..EndsAt, j.now <= to
    PROVE  LET new == Rotated(j, s, to) IN
           /\ new \in Seq(Credentials)
           /\ \A k \in DOMAIN new :
                /\ new[k].version = Len(j.chain[s]) + k
                /\ j.now <= new[k].from /\ new[k].from <= to
                /\ k > 1 => new[k].from >= new[k - 1].from
<1> DEFINE due == Rotations[s]
           done == Passed(s, j.now)
           n == Passed(s, to) - done
           new == Rotated(j, s, to)
<1>1. /\ j.now \in Nat /\ to \in Nat /\ Len(j.chain[s]) \in Nat
  BY StateParts
<1>2. /\ DOMAIN due = 1..Len(due) /\ Len(due) \in Nat
      /\ \A i \in DOMAIN due : due[i] \in Nat
      /\ \A i, k \in DOMAIN due : i <= k => due[i] <= due[k]
  BY RotationsOrdered
<1>3. done \in 0..Len(due) /\ \A i \in DOMAIN due : due[i] <= j.now <=> i <= done
  BY <1>1, PassedCounts
<1>4. Passed(s, to) \in 0..Len(due) /\ \A i \in DOMAIN due : due[i] <= to <=> i <= Passed(s, to)
  BY <1>1, PassedCounts
<1>5. done <= Passed(s, to)
  <2> SUFFICES ASSUME done > Passed(s, to)
               PROVE  FALSE
    BY <1>2, <1>3, <1>4
  <2>1. done \in DOMAIN due
    BY <1>2, <1>3, <1>4
  <2>2. due[done] <= j.now /\ ~(due[done] <= to) /\ due[done] \in Nat
    BY <1>2, <1>3, <1>4, <2>1
  <2> QED
    BY <1>1, <2>2
<1>6. n \in Nat /\ new = [k \in 1..n |-> Issued(s, Len(j.chain[s]) + k, Window(due[done + k]))]
  BY <1>2, <1>3, <1>4, <1>5 DEF Rotated
<1>7. \A k \in 1..n : done + k \in DOMAIN due /\ j.now <= due[done + k] /\ due[done + k] <= to
  <2> SUFFICES ASSUME NEW k \in 1..n
               PROVE  done + k \in DOMAIN due /\ j.now <= due[done + k] /\ due[done + k] <= to
    OBVIOUS
  <2>1. done + k \in DOMAIN due /\ ~(done + k <= done) /\ done + k <= Passed(s, to)
    BY <1>2, <1>3, <1>4, <1>5
  <2>2. ~(due[done + k] <= j.now) /\ due[done + k] <= to /\ due[done + k] \in Nat
    BY <1>2, <1>3, <1>4, <2>1
  <2> QED
    BY <1>1, <2>1, <2>2
<1> HIDE DEF due, done, n
<1>8. \A k \in 1..n : /\ new[k] \in Credentials
                      /\ new[k].version = Len(j.chain[s]) + k
                      /\ new[k].from = due[done + k]
  <2> SUFFICES ASSUME NEW k \in 1..n
               PROVE  /\ new[k] \in Credentials
                      /\ new[k].version = Len(j.chain[s]) + k
                      /\ new[k].from = due[done + k]
    OBVIOUS
  <2>1. new[k] = Issued(s, Len(j.chain[s]) + k, Window(due[done + k]))
    BY <1>6
  <2>2. due[done + k] \in Nat /\ Len(j.chain[s]) + k \in Nat
    BY <1>1, <1>2, <1>6, <1>7
  <2>3. /\ Window(due[done + k]).from = due[done + k]
        /\ Window(due[done + k]).until \in Nat
    BY <2>2, WindowFrom
  <2> QED
    BY <2>1, <2>2, <2>3 DEF Issued, Credentials
<1>9. \A k \in 1..n : k > 1 => new[k].from >= new[k - 1].from
  <2> SUFFICES ASSUME NEW k \in 1..n, k > 1
               PROVE  new[k].from >= new[k - 1].from
    OBVIOUS
  <2>1. k - 1 \in 1..n /\ done + (k - 1) <= done + k /\ done \in Nat
    BY <1>3, <1>6 DEF done, due
  <2>2. due[done + (k - 1)] <= due[done + k]
    BY <1>2, <1>7, <2>1
  <2>3. due[done + (k - 1)] \in Nat /\ due[done + k] \in Nat
    BY <1>2, <1>7, <2>1
  <2>4. new[k].from = due[done + k] /\ new[k - 1].from = due[done + (k - 1)]
    BY <1>8, <2>1
  <2> QED
    BY <2>2, <2>3, <2>4
<1>10. new \in Seq(Credentials) /\ DOMAIN new = 1..n
  BY <1>6, <1>8
<1> QED
  BY <1>7, <1>8, <1>9, <1>10

LEMMA CredentialTypes ==
    ASSUME NEW e \in Credentials
    PROVE  e.server \in Servers /\ e.version \in Nat /\ e.from \in Nat /\ e.until \in Nat
BY DEF Credentials

LEMMA StateRecord ==
    ASSUME NEW j \in States
    PROVE  j = [now |-> j.now, existing |-> j.existing, chain |-> j.chain]
BY DEF States

LEMMA AdvancedSound ==
    ASSUME NEW j \in States, Sound(j), NEW to \in 0..EndsAt, j.now <= to
    PROVE  Advanced(j, to) \in States /\ Sound(Advanced(j, to))
<1> DEFINE after == Advanced(j, to)
<1>1. /\ after.now = to /\ after.existing = j.existing
      /\ after.chain = [s \in Servers |->
            IF s \in j.existing THEN j.chain[s] \o Rotated(j, s, to) ELSE j.chain[s]]
      /\ after = [now |-> to, existing |-> j.existing, chain |-> after.chain]
  BY DEF Advanced
<1> HIDE DEF after
<1>2. ASSUME NEW s \in Servers
      PROVE  /\ after.chain[s] \in Seq(Credentials)
             /\ \A k \in DOMAIN after.chain[s] :
                  /\ after.chain[s][k].version = k
                  /\ after.chain[s][k].from <= to
                  /\ k > 1 => after.chain[s][k].from >= after.chain[s][k - 1].from
  <2> DEFINE old == j.chain[s]
             new == Rotated(j, s, to)
             both == after.chain[s]
  <2>1. /\ old \in Seq(Credentials) /\ Len(old) \in Nat /\ DOMAIN old = 1..Len(old)
        /\ j.now \in Nat /\ to \in Nat
    BY StateParts
  <2>2. \A k \in 1..Len(old) :
           /\ old[k] \in Credentials /\ old[k].from \in Nat
           /\ old[k].version = k /\ old[k].from <= j.now
           /\ k > 1 => old[k].from >= old[k - 1].from
    <3>1. \A k \in 1..Len(old) : old[k] \in Credentials
      BY <2>1
    <3>2. \A k \in 1..Len(old) : old[k].from \in Nat
      BY <3>1, CredentialTypes
    <3> QED
      BY <2>1, <3>1, <3>2 DEF Sound
  <2>3. CASE s \notin j.existing
    <3>1. both = old
      BY <1>1, <2>3
    <3> HIDE DEF both, old
    <3> QED
      BY <2>1, <2>2, <3>1 DEF both
  <2>4. CASE s \in j.existing
    <3>1. both = old \o new
      BY <1>1, <2>4
    <3>2. /\ new \in Seq(Credentials)
          /\ \A k \in DOMAIN new :
               /\ new[k].version = Len(old) + k
               /\ j.now <= new[k].from /\ new[k].from <= to
               /\ k > 1 => new[k].from >= new[k - 1].from
      BY RotatedInOrder
    <3> HIDE DEF old, new, both
    <3>3. Len(new) \in Nat /\ DOMAIN new = 1..Len(new)
          /\ \A k \in DOMAIN new : new[k].from \in Nat
      <4>1. Len(new) \in Nat /\ DOMAIN new = 1..Len(new)
            /\ \A k \in DOMAIN new : new[k] \in Credentials
        BY <3>2
      <4> QED
        BY <4>1, CredentialTypes
    <3>4. /\ both \in Seq(Credentials) /\ Len(both) = Len(old) + Len(new)
          /\ \A i \in 1..(Len(old) + Len(new)) :
               both[i] = IF i <= Len(old) THEN old[i] ELSE new[i - Len(old)]
      BY <2>1, <3>1, <3>2, ConcatProperties
    <3>5. DOMAIN both = 1..(Len(old) + Len(new))
      BY <3>4
    <3>6. ASSUME NEW k \in 1..(Len(old) + Len(new))
          PROVE  /\ both[k].version = k /\ both[k].from <= to
                 /\ k > 1 => both[k].from >= both[k - 1].from
      <4>1. CASE k <= Len(old)
        <5>1. k \in 1..Len(old) /\ both[k] = old[k]
          BY <2>1, <3>3, <3>4, <4>1
        <5>2. k > 1 => both[k - 1] = old[k - 1]
          BY <2>1, <3>3, <3>4, <4>1
        <5> QED
          BY <2>1, <2>2, <5>1, <5>2
      <4>2. CASE k > Len(old)
        <5>1. k - Len(old) \in 1..Len(new) /\ both[k] = new[k - Len(old)]
          BY <2>1, <3>3, <3>4, <4>2
        <5>2. /\ both[k].version = k /\ both[k].from <= to
              /\ both[k].from \in Nat /\ both[k].from >= j.now
          BY <2>1, <3>2, <3>3, <5>1
        <5>3. ASSUME k > 1
              PROVE  both[k].from >= both[k - 1].from
          <6>1. CASE k = Len(old) + 1
            <7>1. k - 1 \in 1..Len(old) /\ both[k - 1] = old[k - 1]
              BY <2>1, <3>3, <3>4, <5>3, <6>1
            <7> QED
              BY <2>1, <2>2, <5>2, <7>1
          <6>2. CASE k # Len(old) + 1
            <7>1. /\ (k - Len(old)) - 1 = (k - 1) - Len(old)
                  /\ both[k - 1] = new[(k - 1) - Len(old)] /\ k - Len(old) > 1
              BY <2>1, <3>3, <3>4, <4>2, <6>2
            <7>2. new[k - Len(old)].from >= new[(k - Len(old)) - 1].from
              BY <3>2, <3>3, <5>1, <7>1
            <7> QED
              BY <5>1, <7>1, <7>2
          <6> QED
            BY <6>1, <6>2
        <5> QED
          BY <5>2, <5>3
      <4> QED
        BY <2>1, <4>1, <4>2
    <3> QED
      BY <3>4, <3>5, <3>6 DEF both
  <2> QED
    BY <2>3, <2>4
<1>3. after.chain \in [Servers -> Seq(Credentials)]
  <2>1. after.chain = [s \in Servers |-> after.chain[s]]
    BY <1>1
  <2> QED
    BY <1>2, <2>1
<1>4. after \in States
  <2>1. j.existing \in SUBSET Servers
    BY StateParts
  <2> QED
    BY <1>1, <1>3, <2>1 DEF States
<1>5. Sound(after)
  BY <1>1, <1>2 DEF Sound
<1> QED
  BY <1>4, <1>5 DEF after

LEMMA WithCredentialChain ==
    ASSUME NEW j \in States, NEW e \in Credentials
    PROVE  LET after == WithCredential(j, e) IN
           /\ after \in States
           /\ after.now = j.now /\ after.existing = j.existing
           /\ after.chain[e.server] = Append(j.chain[e.server], e)
           /\ \A s \in Servers : s # e.server => after.chain[s] = j.chain[s]
<1>1. e.server \in Servers
  BY DEF Credentials
<1>2. j.chain \in [Servers -> Seq(Credentials)] /\ j.chain[e.server] \in Seq(Credentials)
  BY <1>1 DEF States
<1>3. Append(j.chain[e.server], e) \in Seq(Credentials)
  BY <1>2, AppendProperties
<1>4. WithCredential(j, e) =
        [now |-> j.now, existing |-> j.existing,
         chain |-> [j.chain EXCEPT ![e.server] = Append(j.chain[e.server], e)]]
  <2> DEFINE chains == [j.chain EXCEPT ![e.server] = Append(j.chain[e.server], e)]
  <2>1. WithCredential(j, e) = [j EXCEPT !.chain = chains]
    BY DEF WithCredential
  <2> HIDE DEF chains
  <2>2. WithCredential(j, e) = [now |-> j.now, existing |-> j.existing, chain |-> chains]
    BY <2>1, StateRecord
  <2> QED
    BY <2>2 DEF chains
<1> HIDE DEF Credentials
<1>5. [j.chain EXCEPT ![e.server] = Append(j.chain[e.server], e)] \in [Servers -> Seq(Credentials)]
  BY <1>2, <1>3
<1>6. j.now \in 0..EndsAt /\ j.existing \in SUBSET Servers
  BY DEF States
<1> QED
  BY <1>1, <1>2, <1>4, <1>5, <1>6 DEF States

LEMMA WithCredentialSound ==
    ASSUME NEW j \in States, Sound(j), NEW e \in Credentials,
           e.version = Len(j.chain[e.server]) + 1, e.from = j.now
    PROVE  WithCredential(j, e) \in States /\ Sound(WithCredential(j, e))
<1> DEFINE after == WithCredential(j, e)
           old == j.chain[e.server]
<1>1. /\ after \in States /\ after.now = j.now
      /\ after.chain[e.server] = Append(old, e)
      /\ \A s \in Servers : s # e.server => after.chain[s] = j.chain[s]
  BY WithCredentialChain
<1>2. /\ e.server \in Servers /\ old \in Seq(Credentials) /\ Len(old) \in Nat
      /\ DOMAIN old = 1..Len(old) /\ j.now \in Nat
  BY StateParts DEF Credentials
<1>3. \A k \in 1..Len(old) :
         /\ old[k].version = k /\ old[k].from <= j.now
         /\ k > 1 => old[k].from >= old[k - 1].from
  BY <1>2 DEF Sound
<1> HIDE DEF after, old
<1>4. ASSUME NEW s \in Servers, NEW k \in DOMAIN after.chain[s]
      PROVE  /\ after.chain[s][k].version = k
             /\ after.chain[s][k].from <= after.now
             /\ k > 1 => after.chain[s][k].from >= after.chain[s][k - 1].from
  <2>1. CASE s # e.server
    <3>1. after.chain[s] = j.chain[s]
      BY <1>1, <2>1
    <3> QED
      BY <1>1, <1>4, <3>1 DEF Sound
  <2>2. CASE s = e.server
    <3>1. /\ Len(Append(old, e)) = Len(old) + 1
          /\ \A i \in 1..Len(old) : Append(old, e)[i] = old[i]
          /\ Append(old, e)[Len(old) + 1] = e
          /\ DOMAIN Append(old, e) = 1..(Len(old) + 1)
      BY <1>2, AppendProperties
    <3>2. after.chain[s] = Append(old, e) /\ k \in 1..(Len(old) + 1)
      BY <1>1, <1>4, <2>2, <3>1
    <3>3. CASE k \in 1..Len(old)
      <4>1. /\ after.chain[s][k] = old[k]
            /\ k > 1 => after.chain[s][k - 1] = old[k - 1]
        BY <1>2, <3>1, <3>2, <3>3
      <4> QED
        BY <1>1, <1>3, <3>3, <4>1
    <3>4. CASE k = Len(old) + 1
      <4>1. after.chain[s][k] = e
        BY <3>1, <3>2, <3>4
      <4>2. ASSUME k > 1
            PROVE  e.from >= after.chain[s][k - 1].from
        <5>1. k - 1 \in 1..Len(old)
          BY <1>2, <3>4, <4>2
        <5>2. after.chain[s][k - 1] = old[k - 1] /\ old[k - 1].from <= j.now
          BY <1>3, <3>1, <3>2, <5>1
        <5>3. old[k - 1] \in Credentials
          BY <1>2, <5>1
        <5>4. old[k - 1].from \in Nat
          BY <5>3, CredentialTypes
        <5> QED
          BY <1>2, <5>2, <5>4
      <4>3. e.version = k
        BY <3>4 DEF old
      <4> QED
        BY <1>1, <1>2, <4>1, <4>2, <4>3
    <3> QED
      BY <1>2, <3>2, <3>3, <3>4
  <2> QED
    BY <2>1, <2>2
<1> QED
  BY <1>1, <1>4 DEF Sound, after

LEMMA WithServerSound ==
    ASSUME NEW j \in States, Sound(j), NEW s \in Servers
    PROVE  WithServer(j, s) \in States /\ Sound(WithServer(j, s))
<1> DEFINE more == j.existing \cup {s}
<1>1. WithServer(j, s) = [j EXCEPT !.existing = more]
  BY DEF WithServer
<1>2. j.now \in 0..EndsAt /\ more \in SUBSET Servers /\ j.chain \in [Servers -> Seq(Credentials)]
  BY DEF States
<1> HIDE DEF more
<1>3. WithServer(j, s) = [now |-> j.now, existing |-> more, chain |-> j.chain]
  BY <1>1, StateRecord
<1> QED
  BY <1>2, <1>3 DEF States, Sound

(***************************************************************************)
(* What a step leaves alone: the States of the other sessions, and what    *)
(* their calls have seen to.                                               *)
(***************************************************************************)
LEMMA SessionState ==
    ASSUME CredentialsTypeOK, History, NEW p \in Sessions
    PROVE  /\ State(p) \in States /\ Sound(State(p))
           /\ Replayed \in States /\ Sound(Replayed)
           /\ Len(journal) \in Nat \ {0} /\ DOMAIN journal = 1..Len(journal)
<1>1. /\ journal \in Seq(States) /\ journal # <<>> /\ view[p] \in 1..Len(journal)
  BY DEF CredentialsTypeOK
<1>2. Len(journal) \in Nat \ {0} /\ DOMAIN journal = 1..Len(journal)
  BY <1>1, EmptySeq
<1> QED
  BY <1>1, <1>2 DEF State, Replayed, History

LEMMA Executed ==
    ASSUME CredentialsTypeOK, History, NEW p \in Sessions, NEW next \in States, Sound(next), Execute(p, next)
    PROVE  /\ journal' \in Seq(States) /\ journal' # <<>> /\ History'
           /\ view' \in [Sessions -> 1..Len(journal')]
           /\ State(p)' = next
           /\ \A q \in Sessions : q # p => State(q)' = State(q)
<1>1. /\ journal \in Seq(States) /\ view \in [Sessions -> 1..Len(journal)]
      /\ Len(journal) \in Nat \ {0} /\ DOMAIN journal = 1..Len(journal)
  BY SessionState DEF CredentialsTypeOK
<1>2. journal' = Append(journal, next) /\ view' = [view EXCEPT ![p] = Len(journal')]
  BY DEF Execute
<1>3. /\ journal' \in Seq(States) /\ journal' # <<>> /\ Len(journal') = Len(journal) + 1
      /\ \A i \in 1..Len(journal) : journal'[i] = journal[i]
      /\ journal'[Len(journal) + 1] = next
      /\ DOMAIN journal' = 1..(Len(journal) + 1)
  BY <1>1, <1>2, AppendProperties
<1>4. view' \in [Sessions -> 1..Len(journal')]
  BY <1>1, <1>2, <1>3
<1>5. History'
  <2>1. ASSUME NEW i \in 1..(Len(journal) + 1)
        PROVE  Sound(journal'[i])
    <3>1. CASE i = Len(journal) + 1
      BY <1>3, <3>1
    <3>2. CASE i # Len(journal) + 1
      <4>1. i \in DOMAIN journal /\ journal'[i] = journal[i]
        BY <1>1, <1>3, <3>2
      <4> QED
        BY <4>1 DEF History
    <3> QED
      BY <3>1, <3>2
  <2>2. History' <=> \A i \in DOMAIN journal' : Sound(journal'[i])
    BY DEF History, Sound
  <2> QED
    BY <1>3, <2>1, <2>2
<1>6. State(p)' = next
  BY <1>1, <1>2, <1>3 DEF State
<1>7. \A q \in Sessions : q # p => State(q)' = State(q)
  BY <1>1, <1>2, <1>3 DEF State
<1> QED
  BY <1>3, <1>4, <1>5, <1>6, <1>7

LEMMA StoredAdds ==
    ASSUME NEW s, NEW k, NEW window, Stored(s, k, window)
    PROVE  DOMAIN rows' = DOMAIN rows \cup {<<s, k>>}
BY DEF Stored

LEMMA CallUntouched ==
    ASSUME NEW q \in Sessions, CallOK(q), State(q)' = State(q), DOMAIN rows \subseteq DOMAIN rows',
           stage'[q] = stage[q], cursor'[q] = cursor[q], wanted'[q] = wanted[q]
    PROVE  CallOK(q)'
<1>1. \A s : Usable(State(q), s) => Usable(State(q), s)'
  BY DEF Usable, Live, Current, RowOf
<1>2. Prepared(q) => Prepared(q)'
  BY DEF Prepared, Running, RowOf
<1>3. Running(State(q))' <=> Running(State(q))
  BY DEF Running
<1> QED
  BY <1>1, <1>2, <1>3 DEF CallOK

LEMMA SeenToStays ==
    ASSUME NEW q \in Sessions, State(q)' = State(q), DOMAIN rows \subseteq DOMAIN rows', NEW s
    PROVE  /\ Usable(State(q), s) => Usable(State(q), s)'
           /\ Running(State(q))' <=> Running(State(q))
           /\ State(q).existing' = State(q).existing
BY DEF Usable, Live, Current, RowOf, Running

\* A call that begins, or has been given up, has seen to no server yet.
LEMMA CallBegins ==
    ASSUME NEW q \in Sessions, stage'[q] \in {"idle", "ensure"}, cursor'[q] = 1,
           Order \in Seq(Servers)
    PROVE  CallOK(q)'
BY DEF CallOK

(***************************************************************************)
(* The steps.                                                              *)
(***************************************************************************)
LEMMA CredentialsInvInit ==
    ASSUME CredentialsInit
    PROVE  CredentialsInv
<1>1. Created \in States /\ Sound(Created)
  BY CredentialsAssumption DEF Created, States, Sound
<1>2. /\ journal = <<Created>> /\ journal \in Seq(States) /\ Len(journal) = 1
      /\ DOMAIN journal = {1} /\ journal # <<>>
  BY <1>1 DEF CredentialsInit
<1>3. CredentialsTypeOK
  BY <1>2 DEF CredentialsInit, CredentialsTypeOK
<1>4. History
  BY <1>1, <1>2 DEF History
<1>5. \A p \in Sessions : CallOK(p)
  BY CredentialsAssumption DEF CredentialsInit, CallOK
<1> QED
  BY <1>3, <1>4, <1>5 DEF CredentialsInv

LEMMA OpenKeeps ==
    ASSUME CredentialsInv, NEW p \in Sessions, Open(p)
    PROVE  CredentialsInv'
<1>1. CredentialsTypeOK /\ History /\ \A q \in Sessions : CallOK(q)
  BY DEF CredentialsInv
<1>2. UNCHANGED <<journal, rows, cursor, wanted>> /\ view' = [view EXCEPT ![p] = Len(journal)]
  BY DEF Open
<1>3. stage[p] = "idle" /\ \E to \in {"idle", "ensure"} : stage' = [stage EXCEPT ![p] = to]
  BY DEF Open, MoveTo
<1>4. Len(journal) \in 1..Len(journal)
  BY <1>1, SessionState
<1>5. CredentialsTypeOK'
  BY <1>1, <1>2, <1>3, <1>4 DEF CredentialsTypeOK
<1>6. History'
  BY <1>1, <1>2 DEF History, Sound
<1>7. CallOK(p)'
  <2>1. stage'[p] \in {"idle", "ensure"}
    BY <1>1, <1>3 DEF CredentialsTypeOK
  <2>2. cursor'[p] = 1
    BY <1>1, <1>2, <1>3 DEF CallOK
  <2>3. Order \in Seq(Servers)
    BY CredentialsAssumption
  <2> QED
    BY <2>1, <2>2, <2>3, CallBegins
<1>8. ASSUME NEW q \in Sessions, q # p
      PROVE  CallOK(q)'
  <2>1. State(q)' = State(q) /\ stage'[q] = stage[q] /\ cursor'[q] = cursor[q] /\ wanted'[q] = wanted[q]
    BY <1>1, <1>2, <1>3, <1>8 DEF State, CredentialsTypeOK
  <2> QED
    BY <1>1, <1>2, <2>1, CallUntouched
<1> QED
  BY <1>5, <1>6, <1>7, <1>8 DEF CredentialsInv

LEMMA RequestKeeps ==
    ASSUME CredentialsInv, NEW to \in 0..EndsAt, Request(to)
    PROVE  CredentialsInv'
<1> DEFINE p == "managed"
<1>0. p \in Sessions
  BY DEF Sessions
<1> HIDE DEF p
<1>1. CredentialsTypeOK /\ History /\ \A q \in Sessions : CallOK(q)
  BY DEF CredentialsInv
<1>2. /\ stage[p] = "idle" /\ UNCHANGED <<rows, cursor, wanted>>
      /\ \E next \in {"idle", "ensure"} : stage' = [stage EXCEPT ![p] = next]
  BY DEF Request, MoveTo, p
<1>3. /\ journal' \in Seq(States) /\ journal' # <<>> /\ History'
      /\ view' \in [Sessions -> 1..Len(journal')]
      /\ \A q \in Sessions : q # p => State(q)' = State(q)
  <2>1. CASE UNCHANGED <<journal, view>>
    BY <1>1, <2>1 DEF CredentialsTypeOK, History, Sound, State
  <2>2. CASE Running(State(p)) /\ State(p).now < to /\ Execute(p, Advanced(Replayed, to))
    <3>1. Replayed = State(p)
      BY <2>2 DEF Execute, Uncontested, Replayed, State
    <3>2. State(p) \in States /\ Sound(State(p))
      BY <1>0, <1>1, SessionState
    <3>3. State(p).now <= to
      BY <2>2, <3>2, StateParts
    <3>4. Advanced(Replayed, to) \in States /\ Sound(Advanced(Replayed, to))
      BY <3>1, <3>2, <3>3, AdvancedSound
    <3> QED
      BY <1>0, <1>1, <2>2, <3>4, Executed
  <2> QED
    BY <2>1, <2>2 DEF Request, p
<1>4. CredentialsTypeOK'
  BY <1>1, <1>2, <1>3 DEF CredentialsTypeOK
<1>5. CallOK(p)'
  <2>1. stage'[p] \in {"idle", "ensure"}
    BY <1>0, <1>1, <1>2 DEF CredentialsTypeOK
  <2>2. cursor'[p] = 1
    BY <1>0, <1>1, <1>2 DEF CallOK
  <2>3. Order \in Seq(Servers)
    BY CredentialsAssumption
  <2> QED
    BY <1>0, <2>1, <2>2, <2>3, CallBegins
<1>6. ASSUME NEW q \in Sessions, q # p
      PROVE  CallOK(q)'
  <2>1. State(q)' = State(q) /\ stage'[q] = stage[q] /\ cursor'[q] = cursor[q] /\ wanted'[q] = wanted[q]
    BY <1>1, <1>2, <1>3, <1>6 DEF CredentialsTypeOK
  <2> QED
    BY <1>1, <1>2, <2>1, CallUntouched
<1> QED
  BY <1>3, <1>4, <1>5, <1>6 DEF CredentialsInv

\* What the steps of a call have in common that leave its State alone.
LEMMA SameStates ==
    ASSUME CredentialsInv, NEW p \in Sessions, UNCHANGED <<journal, view>>,
           DOMAIN rows \subseteq DOMAIN rows',
           \A q \in Sessions : q # p =>
               stage'[q] = stage[q] /\ cursor'[q] = cursor[q] /\ wanted'[q] = wanted[q]
    PROVE  /\ History'
           /\ \A q \in Sessions : State(q)' = State(q)
           /\ \A q \in Sessions : q # p => CallOK(q)'
<1>1. CredentialsTypeOK /\ History /\ \A q \in Sessions : CallOK(q)
  BY DEF CredentialsInv
<1>2. History'
  BY <1>1 DEF History, Sound
<1>3. \A q \in Sessions : State(q)' = State(q)
  BY DEF State
<1> QED
  BY <1>1, <1>2, <1>3, CallUntouched

LEMMA EnsureRowKeeps ==
    ASSUME CredentialsInv, NEW p \in Sessions, EnsureRow(p)
    PROVE  CredentialsInv'
<1>0. PICK s : s = Order[cursor[p]]
  OBVIOUS
<1>1. CredentialsTypeOK /\ History /\ \A q \in Sessions : CallOK(q)
  BY DEF CredentialsInv
<1>2. /\ stage[p] = "ensure" /\ Live(State(p), s)
      /\ UNCHANGED <<journal, stage, view, wanted>> /\ cursor' = [cursor EXCEPT ![p] = @ + 1]
      /\ Stored(s, Len(State(p).chain[s]), Identity(Current(State(p), s)))
  BY <1>0 DEF EnsureRow
<1>3. DOMAIN rows' = DOMAIN rows \cup {<<s, Len(State(p).chain[s])>>}
  BY <1>2, StoredAdds
<1>4. cursor[p] \in Nat \ {0} /\ cursor'[p] = cursor[p] + 1
  BY <1>1, <1>2 DEF CredentialsTypeOK
<1>5. CredentialsTypeOK'
  <2>1. cursor' \in [Sessions -> Nat \ {0}]
    BY <1>1, <1>2 DEF CredentialsTypeOK
  <2> QED
    BY <1>1, <1>2, <2>1 DEF CredentialsTypeOK
<1>6. /\ History' /\ \A q \in Sessions : State(q)' = State(q)
      /\ \A q \in Sessions : q # p => CallOK(q)'
  <2>1. \A q \in Sessions : q # p =>
               stage'[q] = stage[q] /\ cursor'[q] = cursor[q] /\ wanted'[q] = wanted[q]
    BY <1>1, <1>2 DEF CredentialsTypeOK
  <2> QED
    BY <1>2, <1>3, <2>1, SameStates
<1>7. Usable(State(p), s)'
  BY <1>2, <1>3, <1>6 DEF Usable, Live, Current, RowOf
<1>8. CallOK(p)'
  <2>1. ASSUME NEW i \in DOMAIN Order, i < cursor'[p], Order[i] \in State(p)'.existing
        PROVE  Usable(State(p), Order[i])'
    <3>1. CASE i = cursor[p]
      BY <1>0, <1>7, <3>1
    <3>2. CASE i # cursor[p]
      <4>1. i < cursor[p] /\ Order[i] \in State(p).existing
        BY <1>4, <1>6, <2>1, <3>2, CredentialsAssumption
      <4>2. Usable(State(p), Order[i])
        BY <1>1, <1>2, <4>1 DEF CallOK
      <4> QED
        BY <1>3, <1>6, <4>2, SeenToStays
    <3> QED
      BY <3>1, <3>2
  <2>2. stage'[p] = "ensure"
    BY <1>2
  <2> QED
    BY <2>1, <2>2 DEF CallOK
<1> QED
  BY <1>5, <1>6, <1>8 DEF CredentialsInv

LEMMA DrawSecretKeeps ==
    ASSUME CredentialsInv, NEW p \in Sessions, DrawSecret(p)
    PROVE  CredentialsInv'
<1>0. PICK s : s = Order[cursor[p]]
  OBVIOUS
<1>1. CredentialsTypeOK /\ History /\ \A q \in Sessions : CallOK(q)
  BY DEF CredentialsInv
<1>2. PICK version, window :
        /\ version = Len(State(p).chain[s]) + 1 /\ window = Window(State(p).now)
        /\ stage[p] = "ensure" /\ Running(State(p)) /\ cursor[p] <= Len(Order)
        /\ s \in State(p).existing
        /\ Stored(s, version, window)
        /\ wanted' = [wanted EXCEPT ![p] = Issued(s, version, window)]
        /\ stage' = [stage EXCEPT ![p] = "issue"] /\ UNCHANGED <<journal, view, cursor>>
  BY <1>0 DEF DrawSecret, MoveTo
<1>3. DOMAIN rows' = DOMAIN rows \cup {<<s, version>>}
  BY <1>2, StoredAdds
<1>4. cursor[p] \in DOMAIN Order
  BY <1>1, <1>2, CredentialsAssumption DEF CredentialsTypeOK
<1>5. State(p) \in States
  BY <1>1, SessionState
<1>6. Issued(s, version, window) \in Credentials
  <2>1. s \in Servers /\ State(p).now \in Nat
    BY <1>2, <1>5, StateParts
  <2>2. Len(State(p).chain[s]) + 1 \in Nat
    BY <1>5, <2>1, StateParts
  <2>3. window.from \in Nat /\ window.until \in Nat
    BY <1>2, <2>1, WindowFrom
  <2> QED
    BY <1>2, <2>1, <2>2, <2>3 DEF Issued, Credentials
<1>7. CredentialsTypeOK'
  <2>1. wanted' \in [Sessions -> {None} \cup Credentials]
    BY <1>1, <1>2, <1>6 DEF CredentialsTypeOK
  <2>2. stage' \in [Sessions -> {"idle", "ensure", "issue", "ensured"}]
    BY <1>1, <1>2 DEF CredentialsTypeOK
  <2> QED
    BY <1>1, <1>2, <2>1, <2>2 DEF CredentialsTypeOK
<1>8. /\ History' /\ \A q \in Sessions : State(q)' = State(q)
      /\ \A q \in Sessions : q # p => CallOK(q)'
  <2>1. \A q \in Sessions : q # p =>
               stage'[q] = stage[q] /\ cursor'[q] = cursor[q] /\ wanted'[q] = wanted[q]
    BY <1>1, <1>2 DEF CredentialsTypeOK
  <2> QED
    BY <1>2, <1>3, <2>1, SameStates
<1>9. stage'[p] = "issue" /\ cursor'[p] = cursor[p] /\ wanted'[p] = Issued(s, version, window)
  BY <1>1, <1>2 DEF CredentialsTypeOK
<1>10. Prepared(p)'
  <2>1. Running(State(p))'
    BY <1>2, <1>8 DEF Running
  <2>2. <<s, Len(State(p)'.chain[s]) + 1>> \in DOMAIN rows'
    BY <1>2, <1>3, <1>8
  <2> QED
    BY <1>0, <1>2, <1>4, <1>8, <1>9, <2>1, <2>2 DEF Prepared, RowOf
<1>11. CallOK(p)'
  <2>1. ASSUME NEW i \in DOMAIN Order, i < cursor'[p], Order[i] \in State(p)'.existing
        PROVE  Usable(State(p), Order[i])'
    <3>1. Usable(State(p), Order[i])
      BY <1>1, <1>2, <1>8, <1>9, <2>1 DEF CallOK
    <3> QED
      BY <1>3, <1>8, <3>1, SeenToStays
  <2> QED
    BY <1>9, <1>10, <2>1 DEF CallOK
<1> QED
  BY <1>7, <1>8, <1>11 DEF CredentialsInv

LEMMA IssueKeeps ==
    ASSUME CredentialsInv, NEW p \in Sessions, IssueServerCredential(p)
    PROVE  CredentialsInv'
<1>0. PICK s, j, e : s = Order[cursor[p]] /\ j = State(p) /\ e = wanted[p]
  OBVIOUS
<1>1. CredentialsTypeOK /\ History /\ \A q \in Sessions : CallOK(q)
  BY DEF CredentialsInv
<1>2. /\ stage[p] = "issue" /\ Execute(p, WithCredential(Replayed, e))
      /\ wanted' = [wanted EXCEPT ![p] = None]
      /\ cursor' = [cursor EXCEPT ![p] = @ + 1]
      /\ stage' = [stage EXCEPT ![p] = "ensure"]
      /\ rows' = rows
  BY <1>0 DEF IssueServerCredential, MoveTo
<1>3. /\ Running(j) /\ cursor[p] \in DOMAIN Order /\ s \in j.existing
      /\ e = Issued(s, Len(j.chain[s]) + 1, Window(j.now))
      /\ RowOf(s, Len(j.chain[s]) + 1)
  BY <1>0, <1>1, <1>2 DEF CallOK, Prepared
<1>4. Replayed = j /\ j \in States /\ Sound(j)
  <2>1. Replayed = j
    BY <1>0, <1>2 DEF Execute, Uncontested, Replayed, State
  <2> QED
    BY <1>0, <1>1, <2>1, SessionState
<1>5. s \in Servers /\ j.now \in Nat /\ Len(j.chain[s]) \in Nat /\ j.chain[s] \in Seq(Credentials)
  BY <1>3, <1>4, StateParts
<1>6. Window(j.now).from = j.now /\ Window(j.now).until \in Nat /\ j.now < Window(j.now).until
  BY <1>5, WindowFrom
<1>7. /\ e \in Credentials /\ e.server = s /\ e.version = Len(j.chain[s]) + 1
      /\ e.from = j.now /\ j.now < e.until
  BY <1>3, <1>5, <1>6 DEF Issued, Credentials
<1>8. PICK next : next = WithCredential(j, e)
  OBVIOUS
<1>9. /\ next \in States /\ Sound(next)
  BY <1>4, <1>7, <1>8, WithCredentialSound
<1>10. /\ next.now = j.now /\ next.existing = j.existing
       /\ next.chain[s] = Append(j.chain[s], e)
       /\ \A x \in Servers : x # s => next.chain[x] = j.chain[x]
  BY <1>4, <1>7, <1>8, WithCredentialChain
<1>11. /\ journal' \in Seq(States) /\ journal' # <<>> /\ History'
       /\ view' \in [Sessions -> 1..Len(journal')]
       /\ State(p)' = next
       /\ \A q \in Sessions : q # p => State(q)' = State(q)
  BY <1>1, <1>2, <1>4, <1>8, <1>9, Executed
<1>12. CredentialsTypeOK'
  <2>1. wanted' \in [Sessions -> {None} \cup Credentials]
    BY <1>1, <1>2 DEF CredentialsTypeOK
  <2>2. cursor' \in [Sessions -> Nat \ {0}]
    BY <1>1, <1>2 DEF CredentialsTypeOK
  <2>3. stage' \in [Sessions -> {"idle", "ensure", "issue", "ensured"}]
    BY <1>1, <1>2 DEF CredentialsTypeOK
  <2> QED
    BY <1>11, <2>1, <2>2, <2>3 DEF CredentialsTypeOK
<1>13. stage'[p] = "ensure" /\ cursor'[p] = cursor[p] + 1 /\ cursor[p] \in Nat
  BY <1>1, <1>2 DEF CredentialsTypeOK
<1>14. ASSUME Usable(next, s)', \A x \in Servers : x # s /\ Usable(j, x) => Usable(next, x)'
       PROVE  CallOK(p)'
  <2>1. ASSUME NEW i \in DOMAIN Order, i < cursor'[p], Order[i] \in next.existing
        PROVE  Usable(next, Order[i])'
    <3>1. CASE Order[i] = s
      BY <1>14, <3>1
    <3>2. CASE Order[i] # s
      <4>0. i # cursor[p] /\ i \in Nat
        BY <1>0, <3>2, CredentialsAssumption
      <4>1. i < cursor[p] /\ Order[i] \in j.existing
        BY <1>10, <1>13, <2>1, <4>0
      <4>2. Usable(j, Order[i])
        BY <1>0, <1>1, <1>2, <4>1 DEF CallOK
      <4>3. Order[i] \in Servers
        BY DEF Servers
      <4> QED
        BY <1>14, <3>2, <4>2, <4>3
    <3> QED
      BY <3>1, <3>2
  <2>2. \A i \in DOMAIN Order : i < cursor'[p] /\ Order[i] \in State(p)'.existing
                                   => Usable(State(p), Order[i])'
    BY <1>11, <2>1 DEF Usable, Live, Current, RowOf
  <2> QED
    BY <1>13, <2>2 DEF CallOK
<1>15. Usable(next, s)'
  <2>1. /\ next.chain[s] # <<>> /\ Len(next.chain[s]) = Len(j.chain[s]) + 1
        /\ next.chain[s][Len(j.chain[s]) + 1] = e
    BY <1>5, <1>7, <1>10, AppendProperties
  <2> QED
    BY <1>2, <1>3, <1>7, <1>10, <2>1 DEF Usable, Live, Current, RowOf
<1>16. \A x \in Servers : x # s /\ Usable(j, x) => Usable(next, x)'
  BY <1>2, <1>10 DEF Usable, Live, Current, RowOf
<1>17. ASSUME NEW q \in Sessions, q # p
       PROVE  CallOK(q)'
  <2>1. State(q)' = State(q) /\ stage'[q] = stage[q] /\ cursor'[q] = cursor[q] /\ wanted'[q] = wanted[q]
    BY <1>1, <1>2, <1>11, <1>17 DEF CredentialsTypeOK
  <2> QED
    BY <1>1, <1>2, <2>1, CallUntouched
<1> QED
  BY <1>11, <1>12, <1>14, <1>15, <1>16, <1>17 DEF CredentialsInv

LEMMA SkipKeeps ==
    ASSUME CredentialsInv, NEW p \in Sessions, Skip(p)
    PROVE  CredentialsInv'
<1>1. CredentialsTypeOK /\ History /\ \A q \in Sessions : CallOK(q)
  BY DEF CredentialsInv
<1>2. /\ stage[p] = "ensure" /\ Order[cursor[p]] \notin State(p).existing
      /\ UNCHANGED <<journal, rows, stage, view, wanted>> /\ cursor' = [cursor EXCEPT ![p] = @ + 1]
  BY DEF Skip
<1>3. cursor[p] \in Nat \ {0} /\ cursor'[p] = cursor[p] + 1
  BY <1>1, <1>2 DEF CredentialsTypeOK
<1>4. CredentialsTypeOK'
  <2>1. cursor' \in [Sessions -> Nat \ {0}]
    BY <1>1, <1>2 DEF CredentialsTypeOK
  <2> QED
    BY <1>1, <1>2, <2>1 DEF CredentialsTypeOK
<1>5. /\ History' /\ \A q \in Sessions : State(q)' = State(q)
      /\ \A q \in Sessions : q # p => CallOK(q)'
  <2>1. \A q \in Sessions : q # p =>
               stage'[q] = stage[q] /\ cursor'[q] = cursor[q] /\ wanted'[q] = wanted[q]
    BY <1>1, <1>2 DEF CredentialsTypeOK
  <2> QED
    BY <1>2, <2>1, SameStates
<1>6. CallOK(p)'
  <2>1. ASSUME NEW i \in DOMAIN Order, i < cursor'[p], Order[i] \in State(p)'.existing
        PROVE  Usable(State(p), Order[i])'
    <3>1. i # cursor[p] /\ Order[i] \in State(p).existing
      BY <1>2, <1>5, <2>1
    <3>2. i < cursor[p]
      BY <1>3, <2>1, <3>1, CredentialsAssumption
    <3>3. Usable(State(p), Order[i])
      BY <1>1, <1>2, <3>1, <3>2 DEF CallOK
    <3> QED
      BY <1>2, <1>5, <3>3, SeenToStays
  <2>2. stage'[p] = "ensure"
    BY <1>2
  <2> QED
    BY <2>1, <2>2 DEF CallOK
<1> QED
  BY <1>4, <1>5, <1>6 DEF CredentialsInv

LEMMA EnsuredKeeps ==
    ASSUME CredentialsInv, NEW p \in Sessions, Ensured(p)
    PROVE  CredentialsInv'
<1>1. CredentialsTypeOK /\ History /\ \A q \in Sessions : CallOK(q)
  BY DEF CredentialsInv
<1>2. /\ stage[p] = "ensure" /\ (cursor[p] > Len(Order) \/ ~Running(State(p)))
      /\ UNCHANGED <<journal, rows, view, wanted>>
      /\ cursor' = [cursor EXCEPT ![p] = 1] /\ stage' = [stage EXCEPT ![p] = "ensured"]
  BY DEF Ensured, MoveTo
<1>3. stage'[p] = "ensured" /\ cursor'[p] = 1
  BY <1>1, <1>2 DEF CredentialsTypeOK
<1>4. CredentialsTypeOK'
  <2>1. cursor' \in [Sessions -> Nat \ {0}]
    BY <1>1, <1>2 DEF CredentialsTypeOK
  <2>2. stage' \in [Sessions -> {"idle", "ensure", "issue", "ensured"}]
    BY <1>1, <1>2 DEF CredentialsTypeOK
  <2> QED
    BY <1>1, <1>2, <2>1, <2>2 DEF CredentialsTypeOK
<1>5. /\ History' /\ \A q \in Sessions : State(q)' = State(q)
      /\ \A q \in Sessions : q # p => CallOK(q)'
  <2>1. \A q \in Sessions : q # p =>
               stage'[q] = stage[q] /\ cursor'[q] = cursor[q] /\ wanted'[q] = wanted[q]
    BY <1>1, <1>2 DEF CredentialsTypeOK
  <2> QED
    BY <1>2, <2>1, SameStates
<1>6. CallOK(p)'
  <2>1. ASSUME Running(State(p)), NEW s \in State(p).existing
        PROVE  Usable(State(p), s)'
    <3>1. State(p) \in States
      BY <1>1, SessionState
    <3>2. s \in Servers
      BY <3>1, StateParts
    <3>3. PICK i \in DOMAIN Order : Order[i] = s
      BY <3>2 DEF Servers
    <3>4. i < cursor[p]
      BY <1>1, <1>2, <2>1, <3>3, CredentialsAssumption DEF CredentialsTypeOK
    <3>5. Usable(State(p), s)
      BY <1>1, <1>2, <3>3, <3>4 DEF CallOK
    <3> QED
      BY <1>2, <1>5, <3>5, SeenToStays
  <2>2. Running(State(p))' => \A s \in State(p)'.existing : Usable(State(p), s)'
    BY <1>5, <2>1 DEF Running
  <2> QED
    BY <1>3, <2>2 DEF CallOK
<1> QED
  BY <1>4, <1>5, <1>6 DEF CredentialsInv

LEMMA CreateServerKeeps ==
    ASSUME CredentialsInv, NEW s \in Servers, CreateServer(s)
    PROVE  CredentialsInv'
<1> DEFINE p == "managed"
<1>0. p \in Sessions
  BY DEF Sessions
<1> HIDE DEF p
<1>1. CredentialsTypeOK /\ History /\ \A q \in Sessions : CallOK(q)
  BY DEF CredentialsInv
<1>2. /\ stage[p] = "ensured" /\ UNCHANGED <<rows, cursor, wanted>>
      /\ stage' = [stage EXCEPT ![p] = "ensure"] /\ Execute(p, WithServer(Replayed, s))
  BY DEF CreateServer, MoveTo, p
<1>3. /\ journal' \in Seq(States) /\ journal' # <<>> /\ History'
      /\ view' \in [Sessions -> 1..Len(journal')]
      /\ \A q \in Sessions : q # p => State(q)' = State(q)
  <2>1. Replayed \in States /\ Sound(Replayed)
    BY <1>0, <1>1, SessionState
  <2>2. WithServer(Replayed, s) \in States /\ Sound(WithServer(Replayed, s))
    BY <2>1, WithServerSound
  <2> QED
    BY <1>0, <1>1, <1>2, <2>2, Executed
<1>4. CredentialsTypeOK'
  BY <1>1, <1>2, <1>3 DEF CredentialsTypeOK
<1>5. CallOK(p)'
  <2>1. stage'[p] \in {"idle", "ensure"}
    BY <1>0, <1>1, <1>2 DEF CredentialsTypeOK
  <2>2. cursor'[p] = 1
    BY <1>0, <1>1, <1>2 DEF CallOK
  <2>3. Order \in Seq(Servers)
    BY CredentialsAssumption
  <2> QED
    BY <1>0, <2>1, <2>2, <2>3, CallBegins
<1>6. ASSUME NEW q \in Sessions, q # p
      PROVE  CallOK(q)'
  <2>1. State(q)' = State(q) /\ stage'[q] = stage[q] /\ cursor'[q] = cursor[q] /\ wanted'[q] = wanted[q]
    BY <1>1, <1>2, <1>3, <1>6 DEF CredentialsTypeOK
  <2> QED
    BY <1>1, <1>2, <2>1, CallUntouched
<1> QED
  BY <1>3, <1>4, <1>5, <1>6 DEF CredentialsInv

LEMMA EndKeeps ==
    ASSUME CredentialsInv, NEW p \in Sessions, End(p)
    PROVE  CredentialsInv'
<1>1. CredentialsTypeOK /\ History /\ \A q \in Sessions : CallOK(q)
  BY DEF CredentialsInv
<1>2. /\ UNCHANGED <<journal, rows, view>>
      /\ stage' = [stage EXCEPT ![p] = "idle"] /\ cursor' = [cursor EXCEPT ![p] = 1]
      /\ wanted' = [wanted EXCEPT ![p] = None]
  BY DEF End, Back, MoveTo
<1>3. CredentialsTypeOK'
  <2>1. wanted' \in [Sessions -> {None} \cup Credentials]
    BY <1>1, <1>2 DEF CredentialsTypeOK
  <2>2. cursor' \in [Sessions -> Nat \ {0}]
    BY <1>1, <1>2 DEF CredentialsTypeOK
  <2>3. stage' \in [Sessions -> {"idle", "ensure", "issue", "ensured"}]
    BY <1>1, <1>2 DEF CredentialsTypeOK
  <2> QED
    BY <1>1, <1>2, <2>1, <2>2, <2>3 DEF CredentialsTypeOK
<1>4. /\ History' /\ \A q \in Sessions : q # p => CallOK(q)'
  <2>1. \A q \in Sessions : q # p =>
               stage'[q] = stage[q] /\ cursor'[q] = cursor[q] /\ wanted'[q] = wanted[q]
    BY <1>1, <1>2 DEF CredentialsTypeOK
  <2> QED
    BY <1>2, <2>1, SameStates
<1>5. CallOK(p)'
  <2>1. stage'[p] \in {"idle", "ensure"} /\ cursor'[p] = 1
    BY <1>1, <1>2 DEF CredentialsTypeOK
  <2>2. Order \in Seq(Servers)
    BY CredentialsAssumption
  <2> QED
    BY <2>1, <2>2, CallBegins
<1> QED
  BY <1>3, <1>4, <1>5 DEF CredentialsInv

LEMMA RestartKeeps ==
    ASSUME CredentialsInv, Restart
    PROVE  CredentialsInv'
<1>1. CredentialsTypeOK /\ History
  BY DEF CredentialsInv
<1>2. "managed" \in Sessions
  BY DEF Sessions
<1>3. Len(journal) \in 1..Len(journal)
  BY <1>1, <1>2, SessionState
<1>4. CredentialsTypeOK'
  BY <1>1, <1>3 DEF Restart, CredentialsTypeOK
<1>5. History'
  BY <1>1 DEF Restart, History, Sound
<1>6. ASSUME NEW q \in Sessions
      PROVE  CallOK(q)'
  <2>1. stage'[q] = "idle" /\ cursor'[q] = 1
    BY DEF Restart
  <2>2. Order \in Seq(Servers)
    BY CredentialsAssumption
  <2> QED
    BY <2>1, <2>2, CallBegins
<1> QED
  BY <1>4, <1>5, <1>6 DEF CredentialsInv

LEMMA InvNext ==
    ASSUME CredentialsInv, [CredentialsNext]_credentialVars
    PROVE  CredentialsInv'
<1>1. CASE UNCHANGED credentialVars
  <2>1. CredentialsTypeOK /\ History /\ \A q \in Sessions : CallOK(q)
    BY DEF CredentialsInv
  <2>2. CredentialsTypeOK' /\ History'
    BY <1>1, <2>1 DEF credentialVars, CredentialsTypeOK, History, Sound
  <2>3. ASSUME NEW q \in Sessions
        PROVE  CallOK(q)'
    <3>1. /\ State(q)' = State(q) /\ DOMAIN rows \subseteq DOMAIN rows'
          /\ stage'[q] = stage[q] /\ cursor'[q] = cursor[q] /\ wanted'[q] = wanted[q]
      BY <1>1 DEF credentialVars, State
    <3> QED
      BY <2>1, <3>1, CallUntouched
  <2> QED
    BY <2>2, <2>3 DEF CredentialsInv
<1>2. ASSUME NEW p \in Sessions,
             \/ Open(p) \/ EnsureRow(p) \/ DrawSecret(p) \/ IssueServerCredential(p)
             \/ Skip(p) \/ Ensured(p) \/ End(p)
      PROVE  CredentialsInv'
  BY <1>2, OpenKeeps, EnsureRowKeeps, DrawSecretKeeps, IssueKeeps, SkipKeeps, EnsuredKeeps, EndKeeps
<1>3. ASSUME NEW to \in 0..EndsAt, Request(to)
      PROVE  CredentialsInv'
  BY <1>3, RequestKeeps
<1>4. ASSUME NEW s \in Servers, CreateServer(s)
      PROVE  CredentialsInv'
  BY <1>4, CreateServerKeeps
<1>5. CASE Restart
  BY <1>5, RestartKeeps
<1> QED
  BY <1>1, <1>2, <1>3, <1>4, <1>5 DEF CredentialsNext

LEMMA CredentialsInvariant == CredentialsSpec => []CredentialsInv
<1>1. CredentialsInit => CredentialsInv
  BY CredentialsInvInit
<1>2. CredentialsInv /\ [CredentialsNext]_credentialVars => CredentialsInv'
  BY InvNext
<1> QED
  BY <1>1, <1>2, PTL DEF CredentialsSpec

(***************************************************************************)
(* The theorems.                                                           *)
(***************************************************************************)

\* Whatever interrupts ensureServerCredentials and whoever else issues
\* credentials meanwhile, when it returns in a running run every server has a
\* credential that authenticateTarget accepts, and the row with its secret.
THEOREM EnsuredCredentialsWork == CredentialsSpec => []EnsuredIsUsable
<1>1. CredentialsInv => EnsuredIsUsable
  <2> SUFFICES ASSUME CredentialsInv, NEW p \in Sessions, stage[p] = "ensured", Running(State(p)),
                      NEW s \in State(p).existing
               PROVE  LET j == State(p)
                          k == Len(j.chain[s])
                      IN  k > 0 /\ RowOf(s, k) /\ Verdict(j, s, k) = "ok"
    BY DEF EnsuredIsUsable
  <2>1. PICK j : j = State(p)
    OBVIOUS
  <2>2. CredentialsTypeOK /\ History /\ CallOK(p)
    BY DEF CredentialsInv
  <2>3. j \in States /\ Sound(j) /\ Usable(j, s)
    BY <2>1, <2>2, SessionState DEF CallOK
  <2>4. /\ s \in Servers /\ j.chain[s] \in Seq(Credentials) /\ Len(j.chain[s]) \in Nat
        /\ DOMAIN j.chain[s] = 1..Len(j.chain[s]) /\ j.now \in Nat
    BY <2>1, <2>3, StateParts
  <2>5. Len(j.chain[s]) \in DOMAIN j.chain[s] /\ Len(j.chain[s]) > 0
    BY <2>3, <2>4, EmptySeq DEF Usable, Live
  <2>6. j.chain[s][Len(j.chain[s])] \in Credentials
    BY <2>4, <2>5
  <2>7. /\ j.chain[s][Len(j.chain[s])].from \in Nat /\ j.chain[s][Len(j.chain[s])].until \in Nat
        /\ j.chain[s][Len(j.chain[s])].from <= j.now
        /\ j.now < j.chain[s][Len(j.chain[s])].until
    BY <2>3, <2>4, <2>5, <2>6, CredentialTypes DEF Sound, Usable, Live, Current
  <2>8. Verdict(j, s, Len(j.chain[s])) = "ok"
    BY <2>4, <2>7 DEF Verdict, Until
  <2> QED
    BY <2>1, <2>3, <2>5, <2>8 DEF Usable
<1> QED
  BY <1>1, CredentialsInvariant, PTL

\* A secret that a later version has superseded, by expiry, at a start or by a
\* scheduled rotation, is expired from then on.
THEOREM SupersededHasExpired == CredentialsSpec => []SupersededExpires
<1>1. CredentialsInv => SupersededExpires
  <2> SUFFICES ASSUME CredentialsInv, NEW s \in Servers, NEW k \in DOMAIN Replayed.chain[s],
                      k < Len(Replayed.chain[s])
               PROVE  Verdict(Replayed, s, k) = "CREDENTIALS_EXPIRED"
    BY DEF SupersededExpires
  <2>1. PICK j : j = Replayed
    OBVIOUS
  <2>2. CredentialsTypeOK /\ History /\ "managed" \in Sessions
    BY DEF CredentialsInv, Sessions
  <2>3. j \in States /\ Sound(j)
    BY <2>1, <2>2, SessionState
  <2>4. /\ j.chain[s] \in Seq(Credentials) /\ Len(j.chain[s]) \in Nat
        /\ DOMAIN j.chain[s] = 1..Len(j.chain[s]) /\ j.now \in Nat
    BY <2>3, StateParts
  <2>5. k + 1 \in DOMAIN j.chain[s]
    BY <2>1, <2>4
  <2>6. j.chain[s][k + 1] \in Credentials
    BY <2>4, <2>5
  <2>7. j.chain[s][k + 1].from <= j.now /\ j.chain[s][k + 1].from \in Nat
    BY <2>3, <2>5, <2>6, CredentialTypes DEF Sound
  <2> QED
    BY <2>1, <2>4, <2>7 DEF Verdict, Until
<1> QED
  BY <1>1, CredentialsInvariant, PTL

\* The versions of a server's credentials are numbered without a gap and begin
\* in order, whichever of the sessions issued them: State.Apply takes the
\* journal again.
THEOREM VersionsFollowEachOther == CredentialsSpec => []VersionsFollow
<1>1. CredentialsInv => VersionsFollow
  <2> SUFFICES ASSUME CredentialsInv
               PROVE  VersionsFollow
    OBVIOUS
  <2>1. CredentialsTypeOK /\ History /\ "managed" \in Sessions
    BY DEF CredentialsInv, Sessions
  <2>2. Sound(Replayed)
    BY <2>1, SessionState
  <2> QED
    BY <2>2 DEF VersionsFollow, Sound
<1> QED
  BY <1>1, CredentialsInvariant, PTL
=============================================================================
