------------------------- MODULE CondaDiscovery_proofs -------------------------
(***************************************************************************)
(* Proofs about CondaDiscovery: for any number of environments, of threads  *)
(* that look at them and of changes Conda makes, cached details belong to    *)
(* their fingerprint, no call returns details older than itself, and what   *)
(* find skips was reported by another thread.                               *)
(***************************************************************************)
EXTENDS CondaDiscovery, TLAPS

(* A thread belongs to an environment.                                       *)
LEMMA ThreadPrefix ==
  ASSUME NEW t \in Threads
  PROVE  /\ Prefix(t) \in Prefixes
         /\ t \in Finders <=> t[1] = "find"
         /\ t \in Finders \/ t[1] \in {"path", "resolve"}
  BY CondaAssumption DEF Threads, Finders, Identifiers, Resolvers, Prefix

LEMMA FinderIsThread == Finders \subseteq Threads
  BY DEF Threads

(* None is not taken for a fingerprint, for details or for a cache entry.     *)
LEMMA VersionIsNotNone ==
  /\ \A v \in Versions : v # None /\ v.meta \in Nat /\ v.history \in Nat
  /\ \A c \in CachedDetails : c # None /\ c.fingerprint \in Versions /\ c.details \in Versions
  BY NoneIsNoVersion DEF Versions, CachedDetails

(* Fingerprints are built field by field.                                    *)
LEMMA BuiltVersions ==
  ASSUME NEW m \in Nat, NEW h \in Nat
  PROVE  [meta |-> m, history |-> h] \in Versions /\ [meta |-> m, history |-> h] # None
  BY VersionIsNotNone DEF Versions

LEMMA UpdatedVersions ==
  ASSUME NEW v \in Versions, NEW m \in Nat
  PROVE  /\ [v EXCEPT !.meta = m] \in Versions
         /\ [v EXCEPT !.meta = m].meta = m /\ [v EXCEPT !.meta = m].history = v.history
  BY DEF Versions

LEMMA LabelFacts ==
  Labels = {"before_meta", "lookup", "load", "load_records", "after", "after_meta", "keep",
            "unborn", "cache", "before", "details", "insert", "mamba", "none", "done"}
  BY DEF Labels, Reading

(* The numbers a thread has read are numbers.                                *)
IsVersion(v) == v # None => v \in Versions /\ v.meta \in Nat /\ v.history \in Nat

LEMMA ThreadTypes ==
  ASSUME TypeOK, NEW t \in Threads
  PROVE  /\ IsVersion(before[t]) /\ IsVersion(read[t])
         /\ IsVersion(after[t]) /\ IsVersion(start[t])
         /\ meta[Prefix(t)] \in Nat /\ history[Prefix(t)] \in Nat
         /\ history[Prefix(t)] > 0
  BY ThreadPrefix, VersionIsNotNone DEF TypeOK, IsVersion

(* Records of equal fields are equal.                                        *)
LEMMA VersionsEqual ==
  ASSUME NEW v \in Versions, NEW w \in Versions, v.meta = w.meta, v.history = w.history
  PROVE  v = w
  BY DEF Versions

-----------------------------------------------------------------------------
LEMMA InitIInv == Init => IInv
<1> SUFFICES ASSUME Init PROVE IInv
  OBVIOUS
<1>1. TypeOK
  BY CondaAssumption, ThreadPrefix DEF Init, TypeOK, Labels, Versions, Leftover
<1>2. CacheIsSound
  BY DEF Init, CacheIsSound
<1>3. KnownIsReported
  BY FinderIsThread, ThreadPrefix DEF Init, KnownIsReported
<1>4. \A t \in Threads : ThreadInv(t)
  BY DEF Init, ThreadInv, StartIsPast, BeforeIsPast, ReadIsBetween, AfterIsLast,
         ReturnedIsFresh, Reading
<1>5. QED
  BY <1>1, <1>2, <1>3, <1>4 DEF IInv

-----------------------------------------------------------------------------
(* Conda's changes disturb no thread: an environment's numbers only grow, and *)
(* whether it is there changes only together with its conda-meta.             *)
LEMMA DiskChange ==
  ASSUME IInv,
         exists' \in [Prefixes -> BOOLEAN],
         meta' \in [Prefixes -> Nat], history' \in [Prefixes -> Nat \ {0}],
         \A q \in Prefixes : meta[q] <= meta'[q] /\ history[q] <= history'[q],
         \A q \in Prefixes : meta'[q] = meta[q] /\ exists[q] => exists'[q],
         changes' \in 0..MaxChanges,
         UNCHANGED <<infoCache, cacheVars, reportVars, refresh, scope, pc, readVars>>
  PROVE  IInv'
<1> USE DEF cacheVars, reportVars, readVars
<1>1. TypeOK'
  BY DEF IInv, TypeOK
<1>2. CacheIsSound'
  BY DEF IInv, CacheIsSound
<1>3. KnownIsReported'
  BY DEF IInv, KnownIsReported
<1>4. ASSUME NEW t \in Threads PROVE ThreadInv(t)'
  <2>1. /\ Prefix(t) \in Prefixes
        /\ IsVersion(before[t]) /\ IsVersion(read[t]) /\ IsVersion(after[t]) /\ IsVersion(start[t])
        /\ ThreadInv(t)
    BY ThreadPrefix, ThreadTypes DEF IInv
  <2>2. /\ meta[Prefix(t)] \in Nat /\ meta'[Prefix(t)] \in Nat
        /\ history[Prefix(t)] \in Nat /\ history'[Prefix(t)] \in Nat
        /\ meta[Prefix(t)] <= meta'[Prefix(t)] /\ history[Prefix(t)] <= history'[Prefix(t)]
        /\ meta'[Prefix(t)] = meta[Prefix(t)] /\ exists[Prefix(t)] => exists'[Prefix(t)]
    BY <2>1 DEF IInv, TypeOK
  <2> USE <2>1, <2>2 DEF ThreadInv, IsVersion, Prefix
  <2>3. StartIsPast(t)'
    BY DEF StartIsPast
  <2>4. BeforeIsPast(t)'
    <3>1. ASSUME pc[t] \in Reading \ {"before_meta"}, before[t] # None
          PROVE  /\ start[t].meta <= before[t].meta
                 /\ before[t].meta <= meta'[Prefix(t)]
                 /\ before[t].meta = meta'[Prefix(t)] => exists'[Prefix(t)]
      <4>1. /\ start[t].meta <= before[t].meta
            /\ before[t].meta <= meta[Prefix(t)]
            /\ before[t].meta = meta[Prefix(t)] => exists[Prefix(t)]
            /\ before[t].meta \in Nat
        BY <3>1 DEF BeforeIsPast
      <4>2. QED
        BY <4>1
    <3>2. QED
      BY <3>1 DEF BeforeIsPast
  <2>5. ReadIsBetween(t)'
    <3>1. ASSUME pc[t] \in {"load_records", "after", "after_meta", "keep"}
          PROVE  read[t] # None /\ start[t].history <= read[t].history
                 /\ read[t].history <= history'[Prefix(t)]
      <4>1. /\ read[t] # None /\ start[t].history <= read[t].history
            /\ read[t].history <= history[Prefix(t)] /\ read[t].history \in Nat
        BY <3>1 DEF ReadIsBetween
      <4>2. QED
        BY <4>1
    <3>2. ASSUME pc[t] \in {"after", "after_meta", "keep"}
          PROVE  /\ start[t].meta <= read[t].meta
                 /\ read[t].meta <= meta'[Prefix(t)]
                 /\ before[t] # None => before[t].meta <= read[t].meta
      <4>1. /\ start[t].meta <= read[t].meta
            /\ read[t].meta <= meta[Prefix(t)] /\ read[t].meta \in Nat
            /\ before[t] # None => before[t].meta <= read[t].meta
        BY <3>2 DEF ReadIsBetween
      <4>2. QED
        BY <4>1
    <3>3. QED
      BY <3>1, <3>2 DEF ReadIsBetween
  <2>6. AfterIsLast(t)'
    <3>1. ASSUME pc[t] = "after_meta", after[t].history = 0, before[t] # None
          PROVE  before[t].meta < meta'[Prefix(t)]
      <4>1. before[t].meta < meta[Prefix(t)] /\ before[t].meta \in Nat
        BY <3>1 DEF AfterIsLast
      <4>2. QED
        BY <4>1
    <3>2. QED
      BY <3>1 DEF AfterIsLast
  <2>7. ReturnedIsFresh(t)'
    BY DEF ReturnedIsFresh
  <2>8. QED
    BY <2>3, <2>4, <2>5, <2>6, <2>7 DEF ThreadInv
<1>5. QED
  BY <1>1, <1>2, <1>3, <1>4 DEF IInv

LEMMA WriteRecordsIInv ==
  ASSUME IInv, NEW p \in Prefixes, WriteRecords(p)
  PROVE  IInv'
<1>1. /\ exists' \in [Prefixes -> BOOLEAN] /\ meta' \in [Prefixes -> Nat]
      /\ history' \in [Prefixes -> Nat \ {0}] /\ changes' \in 0..MaxChanges
      /\ \A q \in Prefixes : meta[q] <= meta'[q] /\ history[q] <= history'[q]
      /\ \A q \in Prefixes : meta'[q] = meta[q] /\ exists[q] => exists'[q]
  BY CondaAssumption DEF IInv, TypeOK, WriteRecords, Change
<1>2. QED
  BY <1>1, DiskChange DEF WriteRecords

LEMMA WriteHistoryIInv ==
  ASSUME IInv, NEW p \in Prefixes, WriteHistory(p)
  PROVE  IInv'
<1>1. /\ exists' \in [Prefixes -> BOOLEAN] /\ meta' \in [Prefixes -> Nat]
      /\ history' \in [Prefixes -> Nat \ {0}] /\ changes' \in 0..MaxChanges
      /\ \A q \in Prefixes : meta[q] <= meta'[q] /\ history[q] <= history'[q]
      /\ \A q \in Prefixes : meta'[q] = meta[q] /\ exists[q] => exists'[q]
  BY CondaAssumption DEF IInv, TypeOK, WriteHistory, Change
<1>2. QED
  BY <1>1, DiskChange DEF WriteHistory

LEMMA RemoveEnvironmentIInv ==
  ASSUME IInv, NEW p \in Prefixes, RemoveEnvironment(p)
  PROVE  IInv'
<1>1. /\ exists' \in [Prefixes -> BOOLEAN] /\ meta' \in [Prefixes -> Nat]
      /\ history' \in [Prefixes -> Nat \ {0}] /\ changes' \in 0..MaxChanges
      /\ \A q \in Prefixes : meta[q] <= meta'[q] /\ history[q] <= history'[q]
      /\ \A q \in Prefixes : meta'[q] = meta[q] /\ exists[q] => exists'[q]
  BY CondaAssumption DEF IInv, TypeOK, RemoveEnvironment, Change
<1>2. QED
  BY <1>1, DiskChange DEF RemoveEnvironment

-----------------------------------------------------------------------------
(* A thread that takes a step leaves the others where they are.               *)
OthersStay(t) ==
  \A u \in Threads \ {t} : UNCHANGED <<pc[u], before[u], read[u], after[u], start[u]>>

LEMMA ThreadFrame ==
  ASSUME IInv, NEW t \in Threads, UNCHANGED <<exists, meta, history, changes>>, OthersStay(t),
         TypeOK', CacheIsSound', KnownIsReported', ThreadInv(t)'
  PROVE  IInv'
<1>1. ASSUME NEW u \in Threads, u # t PROVE ThreadInv(u)'
  <2>1. ThreadInv(u) /\ UNCHANGED <<pc[u], before[u], read[u], after[u], start[u], exists, meta, history>>
    BY <1>1 DEF IInv, OthersStay, diskVars
  <2>2. StartIsPast(u)'
    BY <2>1 DEF ThreadInv, StartIsPast, Prefix
  <2>3. BeforeIsPast(u)'
    BY <2>1 DEF ThreadInv, BeforeIsPast, Prefix
  <2>4. ReadIsBetween(u)'
    BY <2>1 DEF ThreadInv, ReadIsBetween, Prefix
  <2>5. AfterIsLast(u)'
    BY <2>1 DEF ThreadInv, AfterIsLast, Prefix
  <2>6. ReturnedIsFresh(u)'
    BY <2>1 DEF ThreadInv, ReturnedIsFresh
  <2>7. QED
    BY <2>2, <2>3, <2>4, <2>5, <2>6 DEF ThreadInv
<1>2. QED
  BY <1>1 DEF IInv

(* A thread that is not reading and returns nothing owes nothing.             *)
LEMMA NotReading ==
  ASSUME NEW t, pc'[t] \notin Reading \cup {"details"}
  PROVE  ThreadInv(t)'
  BY DEF ThreadInv, StartIsPast, BeforeIsPast, ReadIsBetween, AfterIsLast, ReturnedIsFresh, Reading

(* try_from on an environment that is there and not yet known.               *)
LEMMA LookInCacheIInv ==
  ASSUME IInv, NEW t \in Threads, LookInCache(t)
  PROVE  IInv'
<1>0. /\ TypeOK /\ CacheIsSound /\ KnownIsReported /\ ThreadInv(t) /\ Prefix(t) \in Prefixes
      /\ IsVersion(before[t]) /\ IsVersion(read[t]) /\ IsVersion(after[t]) /\ IsVersion(start[t])
      /\ meta[Prefix(t)] \in Nat /\ history[Prefix(t)] \in Nat /\ history[Prefix(t)] > 0
  BY ThreadPrefix, ThreadTypes DEF IInv
<1>1. /\ pc[t] = "cache" /\ pc'[t] \in {"none", "done", "before"}
      /\ reported \subseteq reported' /\ reported' \subseteq Prefixes
      /\ UNCHANGED <<infoCache, environments, managers, mambas, reportedMambas, refresh, scope, before, read, after, start>>
      /\ OthersStay(t) /\ UNCHANGED <<exists, meta, history, changes>>
  BY <1>0 DEF TypeOK, LookInCache, Goto, diskVars, cacheVars, reportVars, readVars, OthersStay
<1>2. pc' \in [Threads -> Labels]
  BY <1>0, LabelFacts DEF LookInCache, Goto, TypeOK
<1>3. t \notin Finders
  BY <1>0, <1>1 DEF KnownIsReported
<1>4. TypeOK'
  BY <1>0, <1>1, <1>2 DEF TypeOK
<1>5. CacheIsSound'
  BY <1>0 DEF CacheIsSound, LookInCache, Goto, diskVars, cacheVars, reportVars, readVars
<1>6. KnownIsReported'
  BY <1>0, <1>1, <1>3, FinderIsThread DEF KnownIsReported, OthersStay
<1>7. ThreadInv(t)'
  BY <1>1, NotReading DEF Reading
<1>8. QED
  BY <1>1, <1>4, <1>5, <1>6, <1>7, ThreadFrame

(* The first fingerprint begins: this is the start of the reading.           *)
LEMMA FingerprintHistoryIInv ==
  ASSUME IInv, NEW t \in Threads, FingerprintHistory(t)
  PROVE  IInv'
<1>0. /\ TypeOK /\ CacheIsSound /\ KnownIsReported /\ ThreadInv(t) /\ Prefix(t) \in Prefixes
      /\ IsVersion(before[t]) /\ IsVersion(read[t]) /\ IsVersion(after[t]) /\ IsVersion(start[t])
      /\ meta[Prefix(t)] \in Nat /\ history[Prefix(t)] \in Nat /\ history[Prefix(t)] > 0
  BY ThreadPrefix, ThreadTypes DEF IInv
<1>1. /\ pc[t] = "before" /\ pc'[t] = "before_meta"
      /\ start'[t] = [meta |-> meta[Prefix(t)], history |-> history[Prefix(t)]]
      /\ before'[t] = [meta |-> 0, history |-> IF exists[Prefix(t)] THEN history[Prefix(t)] ELSE 0]
      /\ OthersStay(t) /\ UNCHANGED <<exists, meta, history, changes>>
  BY <1>0 DEF TypeOK, FingerprintHistory, Goto, diskVars, cacheVars, reportVars, readVars, OthersStay
<1>2. /\ start'[t] # None /\ before'[t] # None
      /\ start'[t].meta = meta[Prefix(t)] /\ start'[t].history = history[Prefix(t)]
      /\ before'[t].history \in {0, history[Prefix(t)]}
  BY <1>0, <1>1, BuiltVersions
<1>3. TypeOK'
  BY <1>0, <1>1, <1>2, LabelFacts, BuiltVersions DEF TypeOK, FingerprintHistory, Goto, diskVars, cacheVars, reportVars, readVars
<1>4. CacheIsSound'
  BY <1>0 DEF CacheIsSound, FingerprintHistory, Goto, diskVars, cacheVars, reportVars, readVars
<1>5. KnownIsReported'
  BY <1>0, <1>1, FinderIsThread DEF KnownIsReported, OthersStay, FingerprintHistory, Goto, diskVars, cacheVars, reportVars, readVars
<1>6. ThreadInv(t)'
  <2>1. StartIsPast(t)'
    BY <1>0, <1>1, <1>2 DEF StartIsPast, Reading, Prefix
  <2>2. BeforeIsPast(t)'
    BY <1>0, <1>1, <1>2 DEF BeforeIsPast, Reading, Prefix
  <2>3. ReadIsBetween(t)'
    BY <1>0, <1>1, <1>2 DEF ReadIsBetween, Reading, Prefix
  <2>4. AfterIsLast(t)'
    BY <1>0, <1>1, <1>2 DEF AfterIsLast, Reading, Prefix
  <2>5. ReturnedIsFresh(t)'
    BY <1>0, <1>1, <1>2 DEF ReturnedIsFresh, Reading, Prefix
  <2>6. QED
    BY <2>1, <2>2, <2>3, <2>4, <2>5 DEF ThreadInv
<1>7. QED
  BY <1>1, <1>3, <1>4, <1>5, <1>6, ThreadFrame

(* The first fingerprint is complete, and the environment is there now.      *)
LEMMA FingerprintMetaIInv ==
  ASSUME IInv, NEW t \in Threads, FingerprintMeta(t)
  PROVE  IInv'
<1>0. /\ TypeOK /\ CacheIsSound /\ KnownIsReported /\ ThreadInv(t) /\ Prefix(t) \in Prefixes
      /\ IsVersion(before[t]) /\ IsVersion(read[t]) /\ IsVersion(after[t]) /\ IsVersion(start[t])
      /\ meta[Prefix(t)] \in Nat /\ history[Prefix(t)] \in Nat /\ history[Prefix(t)] > 0
  BY ThreadPrefix, ThreadTypes DEF IInv
<1>1. /\ pc[t] = "before_meta" /\ pc'[t] = "lookup" /\ start'[t] = start[t]
      /\ before'[t] = IF exists[Prefix(t)] THEN [before[t] EXCEPT !.meta = meta[Prefix(t)]] ELSE None
      /\ OthersStay(t) /\ UNCHANGED <<exists, meta, history, changes>>
  BY <1>0 DEF TypeOK, FingerprintMeta, Goto, diskVars, cacheVars, reportVars, readVars, OthersStay
<1>2. /\ before[t] \in Versions /\ before[t].history \in {0, start[t].history}
      /\ start[t] # None /\ start[t].meta <= meta[Prefix(t)]
      /\ 0 < start[t].history /\ start[t].history <= history[Prefix(t)]
  BY <1>0, <1>1 DEF ThreadInv, StartIsPast, BeforeIsPast, IsVersion, Reading
<1>3. /\ exists[Prefix(t)] => before'[t].meta = meta[Prefix(t)] /\ before'[t].history = before[t].history
      /\ ~exists[Prefix(t)] => before'[t] = None
  BY <1>0, <1>1, <1>2, UpdatedVersions
<1>4. TypeOK'
  BY <1>0, <1>1, <1>2, <1>3, UpdatedVersions, LabelFacts, BuiltVersions DEF TypeOK, FingerprintMeta, Goto, diskVars, cacheVars, reportVars, readVars
<1>5. CacheIsSound'
  BY <1>0 DEF CacheIsSound, FingerprintMeta, Goto, diskVars, cacheVars, reportVars, readVars
<1>6. KnownIsReported'
  BY <1>0, <1>1, FinderIsThread DEF KnownIsReported, OthersStay, FingerprintMeta, Goto, diskVars, cacheVars, reportVars, readVars
<1>7. ThreadInv(t)'
  <2>1. StartIsPast(t)'
    BY <1>0, <1>1, <1>2, <1>3 DEF StartIsPast, Reading, Prefix
  <2>2. BeforeIsPast(t)'
    BY <1>0, <1>1, <1>2, <1>3 DEF BeforeIsPast, Reading, Prefix
  <2>3. ReadIsBetween(t)'
    BY <1>0, <1>1, <1>2, <1>3 DEF ReadIsBetween, Reading, Prefix
  <2>4. AfterIsLast(t)'
    BY <1>0, <1>1, <1>2, <1>3 DEF AfterIsLast, Reading, Prefix
  <2>5. ReturnedIsFresh(t)'
    BY <1>0, <1>1, <1>2, <1>3 DEF ReturnedIsFresh, Reading, Prefix
  <2>6. QED
    BY <2>1, <2>2, <2>3, <2>4, <2>5 DEF ThreadInv
<1>8. QED
  BY <1>1, <1>4, <1>5, <1>6, <1>7, ThreadFrame

(* Details from the cache carry the thread's own fingerprint, which has a history.*)
LEMMA LookUpDetailsIInv ==
  ASSUME IInv, NEW t \in Threads, LookUpDetails(t)
  PROVE  IInv'
<1>0. /\ TypeOK /\ CacheIsSound /\ KnownIsReported /\ ThreadInv(t) /\ Prefix(t) \in Prefixes
      /\ IsVersion(before[t]) /\ IsVersion(read[t]) /\ IsVersion(after[t]) /\ IsVersion(start[t])
      /\ meta[Prefix(t)] \in Nat /\ history[Prefix(t)] \in Nat /\ history[Prefix(t)] > 0
  BY ThreadPrefix, ThreadTypes DEF IInv
<1>1. /\ pc[t] = "lookup" /\ start'[t] = start[t]
      /\ \/ /\ pc'[t] = "load" /\ UNCHANGED <<read, before>>
         \/ /\ before[t] # None /\ infoCache[Prefix(t)] # None
            /\ infoCache[Prefix(t)].fingerprint = before[t]
            /\ pc'[t] = "details" /\ read'[t] = infoCache[Prefix(t)].details
      /\ OthersStay(t) /\ UNCHANGED <<exists, meta, history, changes>>
  BY <1>0 DEF TypeOK, LookUpDetails, Goto, diskVars, cacheVars, reportVars, readVars, OthersStay
<1>2. infoCache[Prefix(t)] # None => infoCache[Prefix(t)].details \in Versions
  BY <1>0, VersionIsNotNone DEF TypeOK
<1>3. /\ pc' \in [Threads -> Labels] /\ read' \in [Threads -> Versions \cup {None}]
      /\ before' \in [Threads -> Versions \cup {None}]
  BY <1>0, <1>2, LabelFacts DEF TypeOK, LookUpDetails, Goto
<1>4. TypeOK'
  BY <1>0, <1>3 DEF TypeOK, LookUpDetails, diskVars, cacheVars, reportVars
<1>5. CacheIsSound'
  BY <1>0 DEF CacheIsSound, LookUpDetails, Goto, diskVars, cacheVars, reportVars, readVars
<1>6. KnownIsReported'
  BY <1>0, <1>1, FinderIsThread DEF KnownIsReported, OthersStay, LookUpDetails, Goto, diskVars, cacheVars, reportVars, readVars
<1>7. ThreadInv(t)'
  <2>1. StartIsPast(t)'
    BY <1>0, <1>1, <1>2 DEF ThreadInv, StartIsPast, BeforeIsPast, ReadIsBetween, AfterIsLast, IsVersion, Reading, Prefix
  <2>2. BeforeIsPast(t)'
    BY <1>0, <1>1, <1>2 DEF ThreadInv, StartIsPast, BeforeIsPast, ReadIsBetween, AfterIsLast, IsVersion, Reading, Prefix
  <2>3. ReadIsBetween(t)'
    BY <1>0, <1>1, <1>2 DEF ThreadInv, StartIsPast, BeforeIsPast, ReadIsBetween, AfterIsLast, IsVersion, Reading, Prefix
  <2>4. AfterIsLast(t)'
    BY <1>0, <1>1, <1>2 DEF ThreadInv, StartIsPast, BeforeIsPast, ReadIsBetween, AfterIsLast, IsVersion, Reading, Prefix
  <2>5. ReturnedIsFresh(t)'
    BY <1>0, <1>1, <1>2 DEF ThreadInv, StartIsPast, BeforeIsPast, ReadIsBetween, AfterIsLast, ReturnedIsFresh, CacheIsSound, IsVersion, Reading, Prefix
  <2>6. QED
    BY <2>1, <2>2, <2>3, <2>4, <2>5 DEF ThreadInv
<1>8. QED
  BY <1>1, <1>4, <1>5, <1>6, <1>7, ThreadFrame

(* Loading begins with the history; without conda-meta there are no details. *)
LEMMA LoadHistoryIInv ==
  ASSUME IInv, NEW t \in Threads, LoadHistory(t)
  PROVE  IInv'
<1>0. /\ TypeOK /\ CacheIsSound /\ KnownIsReported /\ ThreadInv(t) /\ Prefix(t) \in Prefixes
      /\ IsVersion(before[t]) /\ IsVersion(read[t]) /\ IsVersion(after[t]) /\ IsVersion(start[t])
      /\ meta[Prefix(t)] \in Nat /\ history[Prefix(t)] \in Nat /\ history[Prefix(t)] > 0
  BY ThreadPrefix, ThreadTypes DEF IInv
<1>1. /\ pc[t] = "load"
      /\ \/ /\ exists[Prefix(t)] /\ pc'[t] = "load_records" /\ UNCHANGED <<infoCache, before, after, start>>
            /\ read'[t] = [meta |-> 0, history |-> history[Prefix(t)]]
         \/ pc'[t] = "none" /\ infoCache' = [infoCache EXCEPT ![Prefix(t)] = None]
      /\ OthersStay(t) /\ UNCHANGED <<exists, meta, history, changes>>
  BY <1>0 DEF TypeOK, LoadHistory, Goto, Forget, diskVars, cacheVars, reportVars, readVars, OthersStay
<1>2. /\ pc' \in [Threads -> Labels] /\ infoCache' \in [Prefixes -> CachedDetails \cup {None}]
      /\ before' \in [Threads -> Versions \cup {None}] /\ read' \in [Threads -> Versions \cup {None}]
      /\ after' \in [Threads -> Versions \cup {None}] /\ start' \in [Threads -> Versions \cup {None}]
  <2>1. CASE exists[Prefix(t)]
    BY <1>0, <2>1, LabelFacts, BuiltVersions DEF TypeOK, LoadHistory, Goto
  <2>2. CASE ~exists[Prefix(t)]
    BY <1>0, <2>2, LabelFacts DEF TypeOK, LoadHistory, Goto, Forget
  <2>3. QED
    BY <2>1, <2>2
<1>3. TypeOK'
  BY <1>0, <1>2 DEF TypeOK, LoadHistory, diskVars, cacheVars, reportVars
<1>4. CacheIsSound'
  BY <1>0, <1>1 DEF CacheIsSound, TypeOK
<1>5. KnownIsReported'
  BY <1>0, <1>1, FinderIsThread DEF KnownIsReported, OthersStay, LoadHistory, Goto, Forget, diskVars, cacheVars, reportVars, readVars
<1>6. ThreadInv(t)'
  <2>1. StartIsPast(t)'
    BY <1>0, <1>1, BuiltVersions DEF ThreadInv, StartIsPast, BeforeIsPast, ReadIsBetween, AfterIsLast, IsVersion, Reading, Prefix
  <2>2. BeforeIsPast(t)'
    BY <1>0, <1>1, BuiltVersions DEF ThreadInv, StartIsPast, BeforeIsPast, ReadIsBetween, AfterIsLast, IsVersion, Reading, Prefix
  <2>3. ReadIsBetween(t)'
    BY <1>0, <1>1, BuiltVersions DEF ThreadInv, StartIsPast, BeforeIsPast, ReadIsBetween, AfterIsLast, IsVersion, Reading, Prefix
  <2>4. AfterIsLast(t)'
    BY <1>0, <1>1, BuiltVersions DEF ThreadInv, StartIsPast, BeforeIsPast, ReadIsBetween, AfterIsLast, IsVersion, Reading, Prefix
  <2>5. ReturnedIsFresh(t)'
    BY <1>0, <1>1, BuiltVersions DEF ThreadInv, StartIsPast, BeforeIsPast, ReadIsBetween, AfterIsLast, ReturnedIsFresh, IsVersion, Reading, Prefix
  <2>6. QED
    BY <2>1, <2>2, <2>3, <2>4, <2>5 DEF ThreadInv
<1>7. QED
  BY <1>1, <1>3, <1>4, <1>5, <1>6, ThreadFrame

(* The records are no older than the first fingerprint of them.              *)
LEMMA LoadRecordsIInv ==
  ASSUME IInv, NEW t \in Threads, LoadRecords(t)
  PROVE  IInv'
<1>0. /\ TypeOK /\ CacheIsSound /\ KnownIsReported /\ ThreadInv(t) /\ Prefix(t) \in Prefixes
      /\ IsVersion(before[t]) /\ IsVersion(read[t]) /\ IsVersion(after[t]) /\ IsVersion(start[t])
      /\ meta[Prefix(t)] \in Nat /\ history[Prefix(t)] \in Nat /\ history[Prefix(t)] > 0
  BY ThreadPrefix, ThreadTypes DEF IInv
<1>1. /\ pc[t] = "load_records" /\ pc'[t] = "after" /\ UNCHANGED <<before, after, start>>
      /\ read'[t] = [read[t] EXCEPT !.meta = meta[Prefix(t)]]
      /\ OthersStay(t) /\ UNCHANGED <<exists, meta, history, changes>>
  BY <1>0 DEF TypeOK, LoadRecords, Goto, diskVars, cacheVars, reportVars, readVars, OthersStay
<1>2. /\ read[t] \in Versions /\ read'[t] \in Versions
      /\ read'[t].meta = meta[Prefix(t)] /\ read'[t].history = read[t].history
  BY <1>0, <1>1, UpdatedVersions DEF ThreadInv, ReadIsBetween, IsVersion
<1>3. TypeOK'
  BY <1>0, <1>1, <1>2, LabelFacts, BuiltVersions DEF TypeOK, LoadRecords, Goto, diskVars, cacheVars, reportVars, readVars
<1>4. CacheIsSound'
  BY <1>0 DEF CacheIsSound, LoadRecords, Goto, diskVars, cacheVars, reportVars, readVars
<1>5. KnownIsReported'
  BY <1>0, <1>1, FinderIsThread DEF KnownIsReported, OthersStay, LoadRecords, Goto, diskVars, cacheVars, reportVars, readVars
<1>6. ThreadInv(t)'
  <2>1. StartIsPast(t)'
    BY <1>0, <1>1, <1>2, VersionIsNotNone DEF ThreadInv, StartIsPast, BeforeIsPast, ReadIsBetween, AfterIsLast, IsVersion, Reading, Prefix
  <2>2. BeforeIsPast(t)'
    BY <1>0, <1>1, <1>2, VersionIsNotNone DEF ThreadInv, StartIsPast, BeforeIsPast, ReadIsBetween, AfterIsLast, IsVersion, Reading, Prefix
  <2>3. ReadIsBetween(t)'
    BY <1>0, <1>1, <1>2, VersionIsNotNone DEF ThreadInv, StartIsPast, BeforeIsPast, ReadIsBetween, AfterIsLast, IsVersion, Reading, Prefix
  <2>4. AfterIsLast(t)'
    BY <1>0, <1>1, <1>2, VersionIsNotNone DEF ThreadInv, StartIsPast, BeforeIsPast, ReadIsBetween, AfterIsLast, IsVersion, Reading, Prefix
  <2>5. ReturnedIsFresh(t)'
    BY <1>0, <1>1, <1>2, VersionIsNotNone DEF ThreadInv, StartIsPast, BeforeIsPast, ReadIsBetween, AfterIsLast, ReturnedIsFresh, IsVersion, Reading, Prefix
  <2>6. QED
    BY <2>1, <2>2, <2>3, <2>4, <2>5 DEF ThreadInv
<1>7. QED
  BY <1>1, <1>3, <1>4, <1>5, <1>6, ThreadFrame

(* The second fingerprint begins.                                            *)
LEMMA FingerprintHistoryAgainIInv ==
  ASSUME IInv, NEW t \in Threads, FingerprintHistoryAgain(t)
  PROVE  IInv'
<1>0. /\ TypeOK /\ CacheIsSound /\ KnownIsReported /\ ThreadInv(t) /\ Prefix(t) \in Prefixes
      /\ IsVersion(before[t]) /\ IsVersion(read[t]) /\ IsVersion(after[t]) /\ IsVersion(start[t])
      /\ meta[Prefix(t)] \in Nat /\ history[Prefix(t)] \in Nat /\ history[Prefix(t)] > 0
  BY ThreadPrefix, ThreadTypes DEF IInv
<1>1. /\ pc[t] = "after" /\ pc'[t] = "after_meta" /\ UNCHANGED <<before, read, start>>
      /\ after'[t] = [meta |-> 0, history |-> IF exists[Prefix(t)] THEN history[Prefix(t)] ELSE 0]
      /\ OthersStay(t) /\ UNCHANGED <<exists, meta, history, changes>>
  BY <1>0 DEF TypeOK, FingerprintHistoryAgain, Goto, diskVars, cacheVars, reportVars, readVars, OthersStay
<1>2. after'[t] # None /\ after'[t].history = IF exists[Prefix(t)] THEN history[Prefix(t)] ELSE 0
  BY <1>0, <1>1, BuiltVersions
<1>3. TypeOK'
  BY <1>0, <1>1, <1>2, LabelFacts, BuiltVersions DEF TypeOK, FingerprintHistoryAgain, Goto, diskVars, cacheVars, reportVars, readVars
<1>4. CacheIsSound'
  BY <1>0 DEF CacheIsSound, FingerprintHistoryAgain, Goto, diskVars, cacheVars, reportVars, readVars
<1>5. KnownIsReported'
  BY <1>0, <1>1, FinderIsThread DEF KnownIsReported, OthersStay, FingerprintHistoryAgain, Goto, diskVars, cacheVars, reportVars, readVars
<1>6. ThreadInv(t)'
  <2>1. StartIsPast(t)'
    BY <1>0, <1>1, <1>2 DEF ThreadInv, StartIsPast, BeforeIsPast, ReadIsBetween, AfterIsLast, IsVersion, Reading, Prefix
  <2>2. BeforeIsPast(t)'
    BY <1>0, <1>1, <1>2 DEF ThreadInv, StartIsPast, BeforeIsPast, ReadIsBetween, AfterIsLast, IsVersion, Reading, Prefix
  <2>3. ReadIsBetween(t)'
    BY <1>0, <1>1, <1>2 DEF ThreadInv, StartIsPast, BeforeIsPast, ReadIsBetween, AfterIsLast, IsVersion, Reading, Prefix
  <2>4. AfterIsLast(t)'
    BY <1>0, <1>1, <1>2 DEF ThreadInv, StartIsPast, BeforeIsPast, ReadIsBetween, AfterIsLast, IsVersion, Reading, Prefix
  <2>5. ReturnedIsFresh(t)'
    BY <1>0, <1>1, <1>2 DEF ThreadInv, StartIsPast, BeforeIsPast, ReadIsBetween, AfterIsLast, ReturnedIsFresh, IsVersion, Reading, Prefix
  <2>6. QED
    BY <2>1, <2>2, <2>3, <2>4, <2>5 DEF ThreadInv
<1>7. QED
  BY <1>1, <1>3, <1>4, <1>5, <1>6, ThreadFrame

(* The second fingerprint is complete.                                       *)
LEMMA FingerprintMetaAgainIInv ==
  ASSUME IInv, NEW t \in Threads, FingerprintMetaAgain(t)
  PROVE  IInv'
<1>0. /\ TypeOK /\ CacheIsSound /\ KnownIsReported /\ ThreadInv(t) /\ Prefix(t) \in Prefixes
      /\ IsVersion(before[t]) /\ IsVersion(read[t]) /\ IsVersion(after[t]) /\ IsVersion(start[t])
      /\ meta[Prefix(t)] \in Nat /\ history[Prefix(t)] \in Nat /\ history[Prefix(t)] > 0
  BY ThreadPrefix, ThreadTypes DEF IInv
<1>1. /\ pc[t] = "after_meta" /\ pc'[t] = "keep" /\ UNCHANGED <<before, read, start>>
      /\ after'[t] = IF exists[Prefix(t)] THEN [after[t] EXCEPT !.meta = meta[Prefix(t)]] ELSE None
      /\ OthersStay(t) /\ UNCHANGED <<exists, meta, history, changes>>
  BY <1>0 DEF TypeOK, FingerprintMetaAgain, Goto, diskVars, cacheVars, reportVars, readVars, OthersStay
<1>2. after[t] \in Versions /\ after[t] # None
  BY <1>0, <1>1 DEF ThreadInv, AfterIsLast, IsVersion
<1>3. after'[t] # None => after'[t].meta = meta[Prefix(t)] /\ after'[t].history = after[t].history
  BY <1>0, <1>1, <1>2, UpdatedVersions
<1>4. TypeOK'
  BY <1>0, <1>1, <1>2, <1>3, UpdatedVersions, LabelFacts, BuiltVersions DEF TypeOK, FingerprintMetaAgain, Goto, diskVars, cacheVars, reportVars, readVars
<1>5. CacheIsSound'
  BY <1>0 DEF CacheIsSound, FingerprintMetaAgain, Goto, diskVars, cacheVars, reportVars, readVars
<1>6. KnownIsReported'
  BY <1>0, <1>1, FinderIsThread DEF KnownIsReported, OthersStay, FingerprintMetaAgain, Goto, diskVars, cacheVars, reportVars, readVars
<1>7. ThreadInv(t)'
  <2>1. StartIsPast(t)'
    BY <1>0, <1>1, <1>2, <1>3 DEF ThreadInv, StartIsPast, BeforeIsPast, ReadIsBetween, AfterIsLast, IsVersion, Reading, Prefix
  <2>2. BeforeIsPast(t)'
    BY <1>0, <1>1, <1>2, <1>3 DEF ThreadInv, StartIsPast, BeforeIsPast, ReadIsBetween, AfterIsLast, IsVersion, Reading, Prefix
  <2>3. ReadIsBetween(t)'
    BY <1>0, <1>1, <1>2, <1>3 DEF ThreadInv, StartIsPast, BeforeIsPast, ReadIsBetween, AfterIsLast, IsVersion, Reading, Prefix
  <2>4. AfterIsLast(t)'
    BY <1>0, <1>1, <1>2, <1>3 DEF ThreadInv, StartIsPast, BeforeIsPast, ReadIsBetween, AfterIsLast, IsVersion, Reading, Prefix
  <2>5. ReturnedIsFresh(t)'
    BY <1>0, <1>1, <1>2, <1>3 DEF ThreadInv, StartIsPast, BeforeIsPast, ReadIsBetween, AfterIsLast, ReturnedIsFresh, IsVersion, Reading, Prefix
  <2>6. QED
    BY <2>1, <2>2, <2>3, <2>4, <2>5 DEF ThreadInv
<1>8. QED
  BY <1>1, <1>4, <1>5, <1>6, <1>7, ThreadFrame

(* Two equal fingerprints leave no room for a change between them.           *)
LEMMA KeepDetailsIInv ==
  ASSUME IInv, NEW t \in Threads, KeepDetails(t)
  PROVE  IInv'
<1>0. /\ TypeOK /\ CacheIsSound /\ KnownIsReported /\ ThreadInv(t) /\ Prefix(t) \in Prefixes
      /\ IsVersion(before[t]) /\ IsVersion(read[t]) /\ IsVersion(after[t]) /\ IsVersion(start[t])
      /\ meta[Prefix(t)] \in Nat /\ history[Prefix(t)] \in Nat /\ history[Prefix(t)] > 0
  BY ThreadPrefix, ThreadTypes DEF IInv
<1>1. /\ pc[t] = "keep" /\ pc'[t] = "details" /\ UNCHANGED <<read, start>>
      /\ infoCache' = [infoCache EXCEPT ![Prefix(t)] =
           IF before[t] # None /\ before[t] = after[t]
             THEN [fingerprint |-> after[t], details |-> read[t]] ELSE None]
      /\ OthersStay(t) /\ UNCHANGED <<exists, meta, history, changes>>
  BY <1>0 DEF TypeOK, KeepDetails, Goto, diskVars, cacheVars, reportVars, readVars, OthersStay
<1>2. read[t] # None /\ read[t] \in Versions
  BY <1>0, <1>1 DEF ThreadInv, ReadIsBetween, IsVersion
<1>3. ASSUME before[t] # None, before[t] = after[t] PROVE read[t] = after[t] /\ after[t].history # 0
  <2>1. /\ before[t] \in Versions /\ after[t] # None
        /\ start[t].history <= read[t].history
        /\ before[t].history \in {0, start[t].history}
        /\ before[t].meta <= read[t].meta /\ read[t].meta <= after[t].meta
        /\ after[t].history # 0 /\ read[t].history <= after[t].history
    BY <1>0, <1>1, <1>3 DEF ThreadInv, BeforeIsPast, ReadIsBetween, AfterIsLast, IsVersion, Reading
  <2>2. read[t].meta = after[t].meta /\ read[t].history = after[t].history
    BY <1>0, <1>1, <1>2, <1>3, <2>1 DEF IsVersion
  <2>3. QED
    BY <1>2, <1>3, <2>1, <2>2, VersionsEqual
<1>4. TypeOK'
  BY <1>0, <1>1, <1>2, LabelFacts DEF TypeOK, KeepDetails, Goto, diskVars, cacheVars, reportVars, CachedDetails
<1>5. CacheIsSound'
  BY <1>0, <1>1, <1>3 DEF CacheIsSound, TypeOK
<1>6. KnownIsReported'
  BY <1>0, <1>1, FinderIsThread DEF KnownIsReported, OthersStay, KeepDetails, Goto, diskVars, cacheVars, reportVars, readVars
<1>7. ThreadInv(t)'
  <2>1. StartIsPast(t)'
    BY <1>0, <1>1, <1>2 DEF ThreadInv, StartIsPast, BeforeIsPast, ReadIsBetween, AfterIsLast, IsVersion, Reading, Prefix
  <2>2. BeforeIsPast(t)'
    BY <1>0, <1>1, <1>2 DEF ThreadInv, StartIsPast, BeforeIsPast, ReadIsBetween, AfterIsLast, IsVersion, Reading, Prefix
  <2>3. ReadIsBetween(t)'
    BY <1>0, <1>1, <1>2 DEF ThreadInv, StartIsPast, BeforeIsPast, ReadIsBetween, AfterIsLast, IsVersion, Reading, Prefix
  <2>4. AfterIsLast(t)'
    BY <1>0, <1>1, <1>2 DEF ThreadInv, StartIsPast, BeforeIsPast, ReadIsBetween, AfterIsLast, IsVersion, Reading, Prefix
  <2>5. ReturnedIsFresh(t)'
    BY <1>0, <1>1, <1>2 DEF ThreadInv, StartIsPast, BeforeIsPast, ReadIsBetween, AfterIsLast, ReturnedIsFresh, IsVersion, Reading, Prefix
  <2>6. QED
    BY <2>1, <2>2, <2>3, <2>4, <2>5 DEF ThreadInv
<1>8. QED
  BY <1>1, <1>4, <1>5, <1>6, <1>7, ThreadFrame

(* find skips what another thread has inserted, and reported.                *)
LEMMA SkipKnownIInv ==
  ASSUME IInv, NEW t \in Threads, SkipKnown(t)
  PROVE  IInv'
<1>0. /\ TypeOK /\ CacheIsSound /\ KnownIsReported /\ ThreadInv(t) /\ Prefix(t) \in Prefixes
      /\ IsVersion(before[t]) /\ IsVersion(read[t]) /\ IsVersion(after[t]) /\ IsVersion(start[t])
      /\ meta[Prefix(t)] \in Nat /\ history[Prefix(t)] \in Nat /\ history[Prefix(t)] > 0
  BY ThreadPrefix, ThreadTypes DEF IInv
<1>1. /\ pc[t] = "details"
      /\ \/ pc'[t] = "insert"
         \/ pc'[t] = "done" /\ environments.transient[Prefix(t)] # None
      /\ UNCHANGED <<infoCache, environments, managers, mambas, reported, reportedMambas, refresh, scope>>
      /\ OthersStay(t) /\ UNCHANGED <<exists, meta, history, changes>>
  BY <1>0 DEF TypeOK, SkipKnown, Goto, Forget, diskVars, cacheVars, reportVars, readVars, OthersStay
<1>2. /\ pc' \in [Threads -> Labels]
      /\ before' \in [Threads -> Versions \cup {None}] /\ read' \in [Threads -> Versions \cup {None}]
      /\ after' \in [Threads -> Versions \cup {None}] /\ start' \in [Threads -> Versions \cup {None}]
  BY <1>0, LabelFacts DEF TypeOK, SkipKnown, Goto, Forget, readVars
<1>3. TypeOK'
  BY <1>0, <1>1, <1>2 DEF TypeOK
<1>4. CacheIsSound'
  BY <1>0 DEF CacheIsSound, SkipKnown, Goto, Forget, diskVars, cacheVars, reportVars, readVars
<1>5. KnownIsReported'
  BY <1>0, <1>1, FinderIsThread DEF KnownIsReported, OthersStay
<1>6. ThreadInv(t)'
  BY <1>1, NotReading DEF Reading
<1>7. QED
  BY <1>1, <1>3, <1>4, <1>5, <1>6, ThreadFrame

(* Only a search inserts into its locator, and it reports what it inserts.   *)
LEMMA InsertEnvironmentIInv ==
  ASSUME IInv, NEW t \in Threads, InsertEnvironment(t)
  PROVE  IInv'
<1>0. /\ TypeOK /\ CacheIsSound /\ KnownIsReported /\ ThreadInv(t) /\ Prefix(t) \in Prefixes
      /\ IsVersion(before[t]) /\ IsVersion(read[t]) /\ IsVersion(after[t]) /\ IsVersion(start[t])
      /\ meta[Prefix(t)] \in Nat /\ history[Prefix(t)] \in Nat /\ history[Prefix(t)] > 0
  BY ThreadPrefix, ThreadTypes DEF IInv
<1>1. /\ pc[t] = "insert" /\ pc'[t] \in {"mamba", "done"}
      /\ t[1] = "resolve" => environments'.transient = environments.transient /\ reported' = reported
      /\ t[1] # "resolve" => /\ environments'.transient = [environments.transient EXCEPT ![Prefix(t)] = read[t]]
                           /\ reported' = reported \cup {Prefix(t)}
      /\ UNCHANGED <<infoCache, mambas, reportedMambas, refresh, scope>>
      /\ OthersStay(t) /\ UNCHANGED <<exists, meta, history, changes>>
  BY <1>0 DEF TypeOK, InsertEnvironment, Goto, Forget, Locator, diskVars, cacheVars, reportVars, readVars, OthersStay
<1>2. /\ pc' \in [Threads -> Labels]
      /\ before' \in [Threads -> Versions \cup {None}] /\ read' \in [Threads -> Versions \cup {None}]
      /\ after' \in [Threads -> Versions \cup {None}] /\ start' \in [Threads -> Versions \cup {None}]
  BY <1>0, LabelFacts DEF TypeOK, InsertEnvironment, Goto, Forget
<1>3. /\ environments' \in [shared : [Prefixes -> Versions \cup {None}],
                           transient : [Prefixes -> Versions \cup {None}]]
      /\ managers' \in [shared : SUBSET HasManager, transient : SUBSET HasManager]
      /\ reported' \subseteq Prefixes
  BY <1>0 DEF TypeOK, InsertEnvironment, Locator
<1>4. TypeOK'
  BY <1>0, <1>1, <1>2, <1>3 DEF TypeOK
<1>5. CacheIsSound'
  BY <1>0 DEF CacheIsSound, InsertEnvironment, Goto, Forget, Locator, diskVars, cacheVars, reportVars, readVars
<1>6. KnownIsReported'
  BY <1>0, <1>1, FinderIsThread, ThreadPrefix DEF KnownIsReported, OthersStay, TypeOK
<1>7. ThreadInv(t)'
  BY <1>1, NotReading DEF Reading
<1>8. QED
  BY <1>1, <1>4, <1>5, <1>6, <1>7, ThreadFrame

(* mamba is looked for after the environment was reported.                   *)
LEMMA FindMambaIInv ==
  ASSUME IInv, NEW t \in Threads, FindMamba(t)
  PROVE  IInv'
<1>0. /\ TypeOK /\ CacheIsSound /\ KnownIsReported /\ ThreadInv(t) /\ Prefix(t) \in Prefixes
      /\ IsVersion(before[t]) /\ IsVersion(read[t]) /\ IsVersion(after[t]) /\ IsVersion(start[t])
      /\ meta[Prefix(t)] \in Nat /\ history[Prefix(t)] \in Nat /\ history[Prefix(t)] > 0
  BY ThreadPrefix, ThreadTypes DEF IInv
<1>1. /\ pc[t] = "mamba" /\ pc'[t] = "done"
      /\ UNCHANGED <<infoCache, environments, managers, reported, refresh, scope, before, read, after, start>>
      /\ OthersStay(t) /\ UNCHANGED <<exists, meta, history, changes>>
  BY <1>0 DEF TypeOK, FindMamba, Goto, diskVars, cacheVars, reportVars, readVars, OthersStay
<1>2. /\ pc' \in [Threads -> Labels]
      /\ reportedMambas' \subseteq HasMamba \cup ConfiguredMamba
      /\ mambas' \in [shared : SUBSET (HasMamba \cup ConfiguredMamba),
                      transient : SUBSET (HasMamba \cup ConfiguredMamba)]
  BY <1>0, LabelFacts DEF TypeOK, FindMamba, Goto
<1>3. TypeOK'
  BY <1>0, <1>1, <1>2 DEF TypeOK
<1>4. CacheIsSound'
  BY <1>0 DEF CacheIsSound, FindMamba, Goto, diskVars, cacheVars, reportVars, readVars
<1>5. KnownIsReported'
  BY <1>0, <1>1, FinderIsThread DEF KnownIsReported, OthersStay
<1>6. ThreadInv(t)'
  BY <1>1, NotReading DEF Reading
<1>7. QED
  BY <1>1, <1>3, <1>4, <1>5, <1>6, ThreadFrame

(* A thread's step.                                                          *)
LEMMA ThreadStepIInv ==
  ASSUME IInv, NEW t \in Threads, ThreadStep(t)
  PROVE  IInv'
  BY LookInCacheIInv, FingerprintHistoryIInv, FingerprintMetaIInv, LookUpDetailsIInv,
     LoadHistoryIInv, LoadRecordsIInv, FingerprintHistoryAgainIInv, FingerprintMetaAgainIInv,
     KeepDetailsIInv, SkipKnownIInv, InsertEnvironmentIInv, FindMambaIInv
     DEF ThreadStep

-----------------------------------------------------------------------------
(* The refresh leaves the threads alone while it clears, retains and syncs.  *)
LEMMA RefreshFrame ==
  ASSUME IInv, UNCHANGED <<exists, meta, history, changes, pc, before, read, after, start>>
  PROVE  \A t \in Threads : ThreadInv(t)'
<1> TAKE t \in Threads
<1>1. ThreadInv(t)
  BY DEF IInv
<1>2. StartIsPast(t)'
  BY <1>1 DEF ThreadInv, StartIsPast, Prefix
<1>3. BeforeIsPast(t)'
  BY <1>1 DEF ThreadInv, BeforeIsPast, Prefix
<1>4. ReadIsBetween(t)'
  BY <1>1 DEF ThreadInv, ReadIsBetween, Prefix
<1>5. AfterIsLast(t)'
  BY <1>1 DEF ThreadInv, AfterIsLast, Prefix
<1>6. ReturnedIsFresh(t)'
  BY <1>1 DEF ThreadInv, ReturnedIsFresh
<1>7. QED
  BY <1>2, <1>3, <1>4, <1>5, <1>6 DEF ThreadInv

(* A refresh without Conda::find.                                            *)
LEMMA SkipFindIInv == IInv /\ SkipFind => IInv'
<1> SUFFICES ASSUME IInv, SkipFind PROVE IInv'
  OBVIOUS
<1> USE DEF IInv, TypeOK, SkipFind, RefreshGoes, diskVars, cacheVars, reportVars, readVars
<1>1. TypeOK'
  OBVIOUS
<1>2. CacheIsSound'
  BY DEF CacheIsSound
<1>3. KnownIsReported'
  BY DEF KnownIsReported
<1>4. QED
  BY <1>1, <1>2, <1>3, RefreshFrame

(* The caches of the search begin empty.                                     *)
LEMMA ClearIInv == IInv /\ Clear => IInv'
<1> SUFFICES ASSUME IInv, Clear PROVE IInv'
  OBVIOUS
<1> USE DEF IInv, TypeOK, Clear, RefreshGoes, diskVars, cacheVars, reportVars, readVars
<1>1. TypeOK'
  OBVIOUS
<1>2. CacheIsSound'
  BY DEF CacheIsSound
<1>3. KnownIsReported'
  BY DEF KnownIsReported
<1>4. QED
  BY <1>1, <1>2, <1>3, RefreshFrame

(* Details are forgotten.                                                    *)
LEMMA RetainActiveIInv == IInv /\ RetainActive => IInv'
<1> SUFFICES ASSUME IInv, RetainActive PROVE IInv'
  OBVIOUS
<1> USE DEF IInv, TypeOK, RetainActive, RefreshGoes, diskVars, cacheVars, reportVars, readVars
<1>1. TypeOK'
  OBVIOUS
<1>2. CacheIsSound'
  BY DEF CacheIsSound
<1>3. KnownIsReported'
  BY DEF KnownIsReported
<1>4. QED
  BY <1>1, <1>2, <1>3, RefreshFrame

(* The search of all phases has ended.                                       *)
LEMMA JoinThreadsIInv == IInv /\ JoinThreads => IInv'
<1> SUFFICES ASSUME IInv, JoinThreads PROVE IInv'
  OBVIOUS
<1> USE DEF IInv, TypeOK, JoinThreads, RefreshGoes, diskVars, cacheVars, reportVars, readVars
<1>1. TypeOK'
  OBVIOUS
<1>2. CacheIsSound'
  BY DEF CacheIsSound
<1>3. KnownIsReported'
  BY DEF KnownIsReported
<1>4. QED
  BY <1>1, <1>2, <1>3, RefreshFrame

(* The sync changes the shared locator only.                                 *)
LEMMA SyncClearsIInv == IInv /\ SyncClears => IInv'
<1> SUFFICES ASSUME IInv, SyncClears PROVE IInv'
  OBVIOUS
<1> USE DEF IInv, TypeOK, SyncClears, RefreshGoes, diskVars, cacheVars, reportVars, readVars
<1>1. TypeOK'
  OBVIOUS
<1>2. CacheIsSound'
  BY DEF CacheIsSound
<1>3. KnownIsReported'
  BY DEF KnownIsReported
<1>4. QED
  BY <1>1, <1>2, <1>3, RefreshFrame

(* So does one that does not clear.                                          *)
LEMMA SyncSkipsClearIInv == IInv /\ SyncSkipsClear => IInv'
<1> SUFFICES ASSUME IInv, SyncSkipsClear PROVE IInv'
  OBVIOUS
<1> USE DEF IInv, TypeOK, SyncSkipsClear, RefreshGoes, diskVars, cacheVars, reportVars, readVars
<1>1. TypeOK'
  OBVIOUS
<1>2. CacheIsSound'
  BY DEF CacheIsSound
<1>3. KnownIsReported'
  BY DEF KnownIsReported
<1>4. QED
  BY <1>1, <1>2, <1>3, RefreshFrame

(* And the second half of it.                                                *)
LEMMA SyncInsertsIInv == IInv /\ SyncInserts => IInv'
<1> SUFFICES ASSUME IInv, SyncInserts PROVE IInv'
  OBVIOUS
<1> USE DEF IInv, TypeOK, SyncInserts, RefreshGoes, diskVars, cacheVars, reportVars, readVars
<1>1. TypeOK'
  OBVIOUS
<1>2. CacheIsSound'
  BY DEF CacheIsSound
<1>3. KnownIsReported'
  BY DEF KnownIsReported
<1>4. QED
  BY <1>1, <1>2, <1>3, RefreshFrame

(* The threads of find begin.                                                *)
LEMMA SpawnThreadsIInv == IInv /\ SpawnThreads => IInv'
<1> SUFFICES ASSUME IInv, SpawnThreads PROVE IInv'
  OBVIOUS
<1> USE DEF SpawnThreads, RefreshGoes, diskVars, cacheVars, reportVars, readVars
<1>1. \A t \in Threads : pc'[t] = pc[t] \/ (t \in Finders /\ pc'[t] = "before")
  BY DEF IInv, TypeOK
<1>2. TypeOK'
  BY LabelFacts DEF IInv, TypeOK
<1>3. CacheIsSound'
  BY DEF IInv, CacheIsSound
<1>4. KnownIsReported'
  BY <1>1, FinderIsThread DEF IInv, KnownIsReported
<1>5. ASSUME NEW t \in Threads PROVE ThreadInv(t)'
  <2>1. CASE pc'[t] = "before"
    BY <2>1, NotReading DEF Reading
  <2>2. CASE pc'[t] = pc[t]
    <3>1. ThreadInv(t)
      BY DEF IInv
    <3>2. StartIsPast(t)'
      BY <2>2, <3>1 DEF ThreadInv, StartIsPast, Prefix
    <3>3. BeforeIsPast(t)'
      BY <2>2, <3>1 DEF ThreadInv, BeforeIsPast, Prefix
    <3>4. ReadIsBetween(t)'
      BY <2>2, <3>1 DEF ThreadInv, ReadIsBetween, Prefix
    <3>5. AfterIsLast(t)'
      BY <2>2, <3>1 DEF ThreadInv, AfterIsLast, Prefix
    <3>6. ReturnedIsFresh(t)'
      BY <2>2, <3>1 DEF ThreadInv, ReturnedIsFresh
    <3>7. QED
      BY <3>2, <3>3, <3>4, <3>5, <3>6 DEF ThreadInv
  <2>3. QED
    BY <1>1, <2>1, <2>2
<1>6. QED
  BY <1>2, <1>3, <1>4, <1>5 DEF IInv

LEMMA StutterIInv == IInv /\ UNCHANGED vars => IInv'
<1> SUFFICES ASSUME IInv, UNCHANGED vars PROVE IInv'
  OBVIOUS
<1> USE DEF IInv, vars, diskVars, cacheVars, reportVars, readVars
<1>1. TypeOK'
  BY DEF TypeOK
<1>2. CacheIsSound' /\ KnownIsReported'
  BY DEF CacheIsSound, KnownIsReported
<1>3. QED
  BY <1>1, <1>2, RefreshFrame

LEMMA NextIInv == IInv /\ [Next]_vars => IInv'
  BY WriteRecordsIInv, WriteHistoryIInv, RemoveEnvironmentIInv, ThreadStepIInv,
     SkipFindIInv, ClearIInv, SpawnThreadsIInv, RetainActiveIInv, JoinThreadsIInv,
     SyncClearsIInv, SyncSkipsClearIInv, SyncInsertsIInv, StutterIInv
     DEF Next, Quiescent

-----------------------------------------------------------------------------
(* The inductive invariant holds for any set of environments and of threads   *)
(* that read them, and any number of changes Conda makes meanwhile.           *)
THEOREM CondaInvariance == Spec => []IInv
  BY InitIInv, NextIInv, PTL DEF Spec

(* Every entry of environment_info_cache holds the details of the state its   *)
(* fingerprint was taken of: the fingerprints before and after the load in     *)
(* get_or_load_environment_details leave no change of conda-meta unseen.       *)
THEOREM DetailsBelongToFingerprints == Spec => []CachedDetailsMatchFingerprint
<1>1. IInv => CachedDetailsMatchFingerprint
  BY DEF IInv, CacheIsSound, CachedDetailsMatchFingerprint
<1>2. QED
  BY <1>1, CondaInvariance, PTL

(* get_environment_details returns nothing older than the environment was      *)
(* when the call began, also when another thread filled the cache.             *)
THEOREM ReturnedDetailsAreFresh == Spec => []DetailsAreFresh
<1>1. IInv => DetailsAreFresh
  BY DEF IInv, ThreadInv, ReturnedIsFresh, DetailsAreFresh
<1>2. QED
  BY <1>1, CondaInvariance, PTL

(* An environment Conda::find has details of is reported by the end of the     *)
(* search: find's early return for what is in the cache loses none.            *)
THEOREM SkippedIsReported == Spec => []FoundIsReported
<1>1. IInv => FoundIsReported
  BY DEF IInv, KnownIsReported, FoundIsReported
<1>2. QED
  BY <1>1, CondaInvariance, PTL
=============================================================================
