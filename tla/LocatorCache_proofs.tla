------------------------ MODULE LocatorCache_proofs ------------------------
(***************************************************************************)
(* Proofs about the single-flight cache, for any number of keys and calls.  *)
(* OwnersAreInFlight and EntriesHaveOwners say together that the in-flight  *)
(* map and the program counters agree on who owns a key; single flight and  *)
(* the absence of redundant closures follow from it.  WaitsAreForOwners and *)
(* EntriesHoldResults carry the owner's result over to its waiters after    *)
(* the entry has left the map.                                              *)
(***************************************************************************)
EXTENDS LocatorCache, TLAPS

(* The constants that mark special results are no calls and no values.      *)
LEMMA Distinct ==
  /\ NoCall \notin Results /\ Absent \notin Values /\ Panicked \notin Values
  /\ Calls \subseteq Values /\ Values \subseteq Results
  BY DistinctAssumption DEF Results, Values

(* The initial state satisfies the invariant: no call has begun.            *)
LEMMA InitIInv == Init => IInv
<1> SUFFICES ASSUME Init PROVE IInv
  OBVIOUS
<1> USE DEF Init
<1>1. TypeOK
  BY Distinct DEF TypeOK, Places, Results
<1>2. OwnersAreInFlight /\ EntriesHaveOwners /\ NoRedundantComputation
  BY DEF OwnersAreInFlight, EntriesHaveOwners, NoRedundantComputation, OwnerPlaces
<1>3. WaitersAreWoken /\ WaitsAreForOwners
  BY DEF WaitersAreWoken, WaitsAreForOwners, WaiterPlaces
<1>4. EntriesHoldResults /\ LocalsWereSighted
  BY DEF EntriesHoldResults, LocalsWereSighted
<1> QED
  BY <1>1, <1>2, <1>3, <1>4 DEF IInv

(* insert and insert_many put in no computed value.                         *)
LEMMA InsertManyStep ==
  ASSUME IInv, NEW ks \in SUBSET Keys, InsertMany(ks)
  PROVE  IInv'
<1> USE DistinctAssumption, Distinct DEF IInv, TypeOK, InsertMany, Sight,
  Values, Goto, Places, OwnerPlaces, WaiterPlaces
<1>1. TypeOK'
  OBVIOUS
<1>2. OwnersAreInFlight'
  BY DEF OwnersAreInFlight
<1>3. EntriesHaveOwners'
  BY DEF EntriesHaveOwners, OwnersAreInFlight
<1>4. WaitersAreWoken'
  BY DEF WaitersAreWoken, EntriesHaveOwners, WaitsAreForOwners, EntriesHoldResults
<1>5. EntriesHoldResults'
  BY DEF EntriesHoldResults, OwnersAreInFlight, WaitsAreForOwners, WaitersAreWoken
<1>6. WaitsAreForOwners'
  BY DEF WaitsAreForOwners, EntriesHoldResults, EntriesHaveOwners, WaitersAreWoken
<1>7. LocalsWereSighted'
  BY DEF LocalsWereSighted, EntriesHoldResults, WaitsAreForOwners, WaitersAreWoken
<1>8. NoRedundantComputation'
  BY DEF NoRedundantComputation, OwnersAreInFlight
<1> QED
  BY <1>1, <1>2, <1>3, <1>4, <1>5, <1>6, <1>7, <1>8 DEF IInv

(* clear only removes; the calls under way remember what they saw.         *)
LEMMA ClearStep ==
  ASSUME IInv, Clear
  PROVE  IInv'
<1> USE DistinctAssumption, Distinct DEF IInv, TypeOK, Clear, Sight, Values,
  Goto, Places, OwnerPlaces, WaiterPlaces
<1>1. TypeOK'
  OBVIOUS
<1>2. OwnersAreInFlight'
  BY DEF OwnersAreInFlight
<1>3. EntriesHaveOwners'
  BY DEF EntriesHaveOwners, OwnersAreInFlight
<1>4. WaitersAreWoken'
  BY DEF WaitersAreWoken, EntriesHaveOwners, WaitsAreForOwners, EntriesHoldResults
<1>5. EntriesHoldResults'
  BY DEF EntriesHoldResults, OwnersAreInFlight, WaitsAreForOwners, WaitersAreWoken
<1>6. WaitsAreForOwners'
  BY DEF WaitsAreForOwners, EntriesHoldResults, EntriesHaveOwners, WaitersAreWoken
<1>7. LocalsWereSighted'
  BY DEF LocalsWereSighted, EntriesHoldResults, WaitsAreForOwners, WaitersAreWoken
<1>8. NoRedundantComputation'
  BY DEF NoRedundantComputation, OwnersAreInFlight
<1> QED
  BY <1>1, <1>2, <1>3, <1>4, <1>5, <1>6, <1>7, <1>8 DEF IInv

(* A hit returns what the map holds; a miss goes on to claim.               *)
LEMMA LookupStep ==
  ASSUME IInv, NEW t \in Calls, Lookup(t)
  PROVE  IInv'
<1> USE DistinctAssumption, Distinct DEF IInv, TypeOK, Lookup, Return, Results,
  Goto, Places, OwnerPlaces, WaiterPlaces
<1>1. TypeOK'
  OBVIOUS
<1>2. OwnersAreInFlight'
  BY DEF OwnersAreInFlight
<1>3. EntriesHaveOwners'
  BY DEF EntriesHaveOwners, OwnersAreInFlight
<1>4. WaitersAreWoken'
  BY DEF WaitersAreWoken, EntriesHaveOwners, WaitsAreForOwners, EntriesHoldResults
<1>5. EntriesHoldResults'
  BY DEF EntriesHoldResults, OwnersAreInFlight, WaitsAreForOwners, WaitersAreWoken
<1>6. WaitsAreForOwners'
  BY DEF WaitsAreForOwners, EntriesHoldResults, EntriesHaveOwners, WaitersAreWoken
<1>7. LocalsWereSighted'
  BY DEF LocalsWereSighted, EntriesHoldResults, WaitsAreForOwners, WaitersAreWoken
<1>8. NoRedundantComputation'
  BY DEF NoRedundantComputation, OwnersAreInFlight
<1> QED
  BY <1>1, <1>2, <1>3, <1>4, <1>5, <1>6, <1>7, <1>8 DEF IInv

(* A claim makes an owner of the key or a waiter for its live owner.        *)
LEMMA ClaimInFlightStep ==
  ASSUME IInv, NEW t \in Calls, ClaimInFlight(t)
  PROVE  IInv'
<1> USE DistinctAssumption, Distinct DEF IInv, TypeOK, ClaimInFlight, Goto,
  Places, OwnerPlaces, WaiterPlaces
<1>1. TypeOK'
  OBVIOUS
<1>2. OwnersAreInFlight'
  BY DEF OwnersAreInFlight
<1>3. EntriesHaveOwners'
  BY DEF EntriesHaveOwners, OwnersAreInFlight
<1>4. WaitersAreWoken'
  BY DEF WaitersAreWoken, EntriesHaveOwners, WaitsAreForOwners, EntriesHoldResults
<1>5. EntriesHoldResults'
  BY DEF EntriesHoldResults, OwnersAreInFlight, WaitsAreForOwners, WaitersAreWoken
<1>6. WaitsAreForOwners'
  BY DEF WaitsAreForOwners, EntriesHoldResults, EntriesHaveOwners, WaitersAreWoken
<1>7. LocalsWereSighted'
  BY DEF LocalsWereSighted, EntriesHoldResults, WaitsAreForOwners, WaitersAreWoken
<1>8. NoRedundantComputation'
  BY DEF NoRedundantComputation, OwnersAreInFlight
<1> QED
  BY <1>1, <1>2, <1>3, <1>4, <1>5, <1>6, <1>7, <1>8 DEF IInv

(* The second look sends the owner to publish, or finds the key missing.    *)
LEMMA RecheckStep ==
  ASSUME IInv, NEW t \in Calls, Recheck(t)
  PROVE  IInv'
<1> USE DistinctAssumption, Distinct DEF IInv, TypeOK, Recheck, Results, Goto,
  Places, OwnerPlaces, WaiterPlaces
<1>1. TypeOK'
  OBVIOUS
<1>2. OwnersAreInFlight'
  BY DEF OwnersAreInFlight
<1>3. EntriesHaveOwners'
  BY DEF EntriesHaveOwners, OwnersAreInFlight
<1>4. WaitersAreWoken'
  BY DEF WaitersAreWoken, EntriesHaveOwners, WaitsAreForOwners, EntriesHoldResults
<1>5. EntriesHoldResults'
  BY DEF EntriesHoldResults, OwnersAreInFlight, WaitsAreForOwners, WaitersAreWoken
<1>6. WaitsAreForOwners'
  BY DEF WaitsAreForOwners, EntriesHoldResults, EntriesHaveOwners, WaitersAreWoken
<1>7. LocalsWereSighted'
  BY DEF LocalsWereSighted, EntriesHoldResults, WaitsAreForOwners, WaitersAreWoken
<1>8. NoRedundantComputation'
  BY DEF NoRedundantComputation, OwnersAreInFlight
<1> QED
  BY <1>1, <1>2, <1>3, <1>4, <1>5, <1>6, <1>7, <1>8 DEF IInv

(* The closure's outcome stays with the owner.                              *)
LEMMA ComputeStep ==
  ASSUME IInv, NEW t \in Calls, Compute(t)
  PROVE  IInv'
<1> USE DistinctAssumption, Distinct DEF IInv, TypeOK, Compute, Results, Goto,
  Places, OwnerPlaces, WaiterPlaces
<1>1. TypeOK'
  OBVIOUS
<1>2. OwnersAreInFlight'
  BY DEF OwnersAreInFlight
<1>3. EntriesHaveOwners'
  BY DEF EntriesHaveOwners, OwnersAreInFlight
<1>4. WaitersAreWoken'
  BY DEF WaitersAreWoken, EntriesHaveOwners, WaitsAreForOwners, EntriesHoldResults
<1>5. EntriesHoldResults'
  BY DEF EntriesHoldResults, OwnersAreInFlight, WaitsAreForOwners, WaitersAreWoken
<1>6. WaitsAreForOwners'
  BY DEF WaitsAreForOwners, EntriesHoldResults, EntriesHaveOwners, WaitersAreWoken
<1>7. LocalsWereSighted'
  BY DEF LocalsWereSighted, EntriesHoldResults, WaitsAreForOwners, WaitersAreWoken
<1>8. NoRedundantComputation'
  BY DEF NoRedundantComputation, OwnersAreInFlight
<1> QED
  BY <1>1, <1>2, <1>3, <1>4, <1>5, <1>6, <1>7, <1>8 DEF IInv

(* What the map holds after the store is what the owner returns.            *)
LEMMA StoreStep ==
  ASSUME IInv, NEW t \in Calls, Store(t)
  PROVE  IInv'
<1> USE DistinctAssumption, Distinct DEF IInv, TypeOK, Store, Sight, Values,
  Results, Goto, Places, OwnerPlaces, WaiterPlaces
<1>1. TypeOK'
  BY DEF LocalsWereSighted
<1>2. OwnersAreInFlight'
  BY DEF OwnersAreInFlight
<1>3. EntriesHaveOwners'
  BY DEF EntriesHaveOwners, OwnersAreInFlight
<1>4. WaitersAreWoken'
  BY DEF WaitersAreWoken, EntriesHaveOwners, WaitsAreForOwners, EntriesHoldResults
<1>5. EntriesHoldResults'
  BY DEF EntriesHoldResults, OwnersAreInFlight, WaitsAreForOwners, WaitersAreWoken
<1>6. WaitsAreForOwners'
  BY DEF WaitsAreForOwners, EntriesHoldResults, EntriesHaveOwners, WaitersAreWoken
<1>7. LocalsWereSighted'
  BY DEF LocalsWereSighted, EntriesHoldResults, WaitsAreForOwners, WaitersAreWoken
<1>8. NoRedundantComputation'
  BY DEF NoRedundantComputation, OwnersAreInFlight
<1> QED
  BY <1>1, <1>2, <1>3, <1>4, <1>5, <1>6, <1>7, <1>8 DEF IInv

(* The entry receives the owner's result.                                   *)
LEMMA PublishResultStep ==
  ASSUME IInv, NEW t \in Calls, PublishResult(t)
  PROVE  IInv'
<1> USE DistinctAssumption, Distinct DEF IInv, TypeOK, PublishResult, Results,
  Goto, Places, OwnerPlaces, WaiterPlaces
<1>1. TypeOK'
  OBVIOUS
<1>2. OwnersAreInFlight'
  BY DEF OwnersAreInFlight
<1>3. EntriesHaveOwners'
  BY DEF EntriesHaveOwners, OwnersAreInFlight
<1>4. WaitersAreWoken'
  BY DEF WaitersAreWoken, EntriesHaveOwners, WaitsAreForOwners, EntriesHoldResults
<1>5. EntriesHoldResults'
  BY DEF EntriesHoldResults, OwnersAreInFlight, WaitsAreForOwners, WaitersAreWoken
<1>6. WaitsAreForOwners'
  BY DEF WaitsAreForOwners, EntriesHoldResults, EntriesHaveOwners, WaitersAreWoken
<1>7. LocalsWereSighted'
  BY DEF LocalsWereSighted, EntriesHoldResults, WaitsAreForOwners, WaitersAreWoken
<1>8. NoRedundantComputation'
  BY DEF NoRedundantComputation, OwnersAreInFlight
<1> QED
  BY <1>1, <1>2, <1>3, <1>4, <1>5, <1>6, <1>7, <1>8 DEF IInv

(* The owner takes its own entry out of the in-flight map.                  *)
LEMMA RemoveEntryStep ==
  ASSUME IInv, NEW t \in Calls, RemoveEntry(t)
  PROVE  IInv'
<1> USE DistinctAssumption, Distinct DEF IInv, TypeOK, RemoveEntry, Goto,
  Places, OwnerPlaces, WaiterPlaces
<1>1. TypeOK'
  OBVIOUS
<1>2. OwnersAreInFlight'
  BY DEF OwnersAreInFlight
<1>3. EntriesHaveOwners'
  BY DEF EntriesHaveOwners, OwnersAreInFlight
<1>4. WaitersAreWoken'
  BY DEF WaitersAreWoken, EntriesHaveOwners, WaitsAreForOwners, EntriesHoldResults
<1>5. EntriesHoldResults'
  BY DEF EntriesHoldResults, OwnersAreInFlight, WaitsAreForOwners, WaitersAreWoken
<1>6. WaitsAreForOwners'
  BY DEF WaitsAreForOwners, EntriesHoldResults, EntriesHaveOwners, WaitersAreWoken
<1>7. LocalsWereSighted'
  BY DEF LocalsWereSighted, EntriesHoldResults, WaitsAreForOwners, WaitersAreWoken
<1>8. NoRedundantComputation'
  BY DEF NoRedundantComputation, OwnersAreInFlight
<1> QED
  BY <1>1, <1>2, <1>3, <1>4, <1>5, <1>6, <1>7, <1>8 DEF IInv

(* The owner leaves nobody parked on its entry.                             *)
LEMMA NotifyAllStep ==
  ASSUME IInv, NEW t \in Calls, NotifyAll(t)
  PROVE  IInv'
<1> USE DistinctAssumption, Distinct DEF IInv, TypeOK, NotifyAll, Goto, Places,
  OwnerPlaces, WaiterPlaces
<1>1. TypeOK'
  OBVIOUS
<1>2. OwnersAreInFlight'
  BY DEF OwnersAreInFlight
<1>3. EntriesHaveOwners'
  BY DEF EntriesHaveOwners, OwnersAreInFlight
<1>4. WaitersAreWoken'
  BY DEF WaitersAreWoken, EntriesHaveOwners, WaitsAreForOwners, EntriesHoldResults
<1>5. EntriesHoldResults'
  BY DEF EntriesHoldResults, OwnersAreInFlight, WaitsAreForOwners, WaitersAreWoken
<1>6. WaitsAreForOwners'
  BY DEF WaitsAreForOwners, EntriesHoldResults, EntriesHaveOwners, WaitersAreWoken
<1>7. LocalsWereSighted'
  BY DEF LocalsWereSighted, EntriesHoldResults, WaitsAreForOwners, WaitersAreWoken
<1>8. NoRedundantComputation'
  BY DEF NoRedundantComputation, OwnersAreInFlight
<1> QED
  BY <1>1, <1>2, <1>3, <1>4, <1>5, <1>6, <1>7, <1>8 DEF IInv

(* A waiter parks only while its owner has yet to notify, and returns what  *)
(* the entry holds.                                                         *)
LEMMA WaitForInFlightStep ==
  ASSUME IInv, NEW t \in Calls, WaitForInFlight(t)
  PROVE  IInv'
<1> USE DistinctAssumption, Distinct DEF IInv, TypeOK, WaitForInFlight, Return,
  Results, Goto, Places, OwnerPlaces, WaiterPlaces
<1>1. TypeOK'
  BY DEF WaitersAreWoken
<1>2. OwnersAreInFlight'
  BY DEF OwnersAreInFlight
<1>3. EntriesHaveOwners'
  BY DEF EntriesHaveOwners, OwnersAreInFlight
<1>4. WaitersAreWoken'
  BY DEF WaitersAreWoken, EntriesHaveOwners, WaitsAreForOwners, EntriesHoldResults
<1>5. EntriesHoldResults'
  BY DEF EntriesHoldResults, OwnersAreInFlight, WaitsAreForOwners, WaitersAreWoken
<1>6. WaitsAreForOwners'
  BY DEF WaitsAreForOwners, EntriesHoldResults, EntriesHaveOwners, WaitersAreWoken
<1>7. LocalsWereSighted'
  BY DEF LocalsWereSighted, EntriesHoldResults, WaitsAreForOwners, WaitersAreWoken
<1>8. NoRedundantComputation'
  BY DEF NoRedundantComputation, OwnersAreInFlight
<1> QED
  BY <1>1, <1>2, <1>3, <1>4, <1>5, <1>6, <1>7, <1>8 DEF IInv

(* A wakeup without a notification only repeats the test.                   *)
LEMMA SpuriousWakeupStep ==
  ASSUME IInv, NEW t \in Calls, SpuriousWakeup(t)
  PROVE  IInv'
<1> USE DistinctAssumption, Distinct DEF IInv, TypeOK, SpuriousWakeup, Goto,
  Places, OwnerPlaces, WaiterPlaces
<1>1. TypeOK'
  OBVIOUS
<1>2. OwnersAreInFlight'
  BY DEF OwnersAreInFlight
<1>3. EntriesHaveOwners'
  BY DEF EntriesHaveOwners, OwnersAreInFlight
<1>4. WaitersAreWoken'
  BY DEF WaitersAreWoken, EntriesHaveOwners, WaitsAreForOwners, EntriesHoldResults
<1>5. EntriesHoldResults'
  BY DEF EntriesHoldResults, OwnersAreInFlight, WaitsAreForOwners, WaitersAreWoken
<1>6. WaitsAreForOwners'
  BY DEF WaitsAreForOwners, EntriesHoldResults, EntriesHaveOwners, WaitersAreWoken
<1>7. LocalsWereSighted'
  BY DEF LocalsWereSighted, EntriesHoldResults, WaitsAreForOwners, WaitersAreWoken
<1>8. NoRedundantComputation'
  BY DEF NoRedundantComputation, OwnersAreInFlight
<1> QED
  BY <1>1, <1>2, <1>3, <1>4, <1>5, <1>6, <1>7, <1>8 DEF IInv

(* Every step, and stuttering, preserves the invariant.                     *)
LEMMA NextIInv == IInv /\ [Next]_vars => IInv'
<1> SUFFICES ASSUME IInv, [Next]_vars PROVE IInv'
  OBVIOUS
<1>1. CASE UNCHANGED vars
  <2> USE <1>1 DEF vars, IInv
  <2>1. TypeOK'
    BY DEF TypeOK
  <2>2. OwnersAreInFlight' /\ EntriesHaveOwners' /\ NoRedundantComputation'
    BY DEF OwnersAreInFlight, EntriesHaveOwners, NoRedundantComputation
  <2>3. WaitersAreWoken' /\ WaitsAreForOwners'
    BY DEF WaitersAreWoken, WaitsAreForOwners
  <2>4. EntriesHoldResults' /\ LocalsWereSighted'
    BY DEF EntriesHoldResults, LocalsWereSighted
  <2> QED
    BY <2>1, <2>2, <2>3, <2>4
<1>2. ASSUME NEW ks \in SUBSET Keys, InsertMany(ks) PROVE IInv'
  BY <1>2, InsertManyStep
<1>3. CASE Clear
  BY <1>3, ClearStep
<1>4. ASSUME NEW t \in Calls, CallStep(t) PROVE IInv'
  BY <1>4, LookupStep, ClaimInFlightStep, RecheckStep, ComputeStep, StoreStep,
     PublishResultStep, RemoveEntryStep, NotifyAllStep, WaitForInFlightStep
     DEF CallStep
<1>5. ASSUME NEW t \in Calls, SpuriousWakeup(t) PROVE IInv'
  BY <1>5, SpuriousWakeupStep
<1> QED
  BY <1>1, <1>2, <1>3, <1>4, <1>5 DEF Next

(* The inductive invariant holds in every reachable state, for any sets of   *)
(* keys and calls.                                                           *)
THEOREM CacheInvariance == Spec => []IInv
  BY InitIInv, NextIInv, PTL DEF Spec

(* get_or_insert_with never runs two closures for one key at the same time.  *)
THEOREM ComputationsAreSingleFlight == Spec => []OneComputationPerKey
<1>1. IInv => OneComputationPerKey
  <2> SUFFICES ASSUME IInv, NEW t \in Calls, NEW u \in Calls,
                      pc[t] = "compute", pc[u] = "compute", key[t] = key[u]
               PROVE  t = u
    BY DEF IInv, OneComputationPerKey
  <2> QED
    BY DEF IInv, OwnersAreInFlight, OwnerPlaces
<1> QED
  BY <1>1, CacheInvariance, PTL

(* No closure runs for a key whose computed value is stored: the second look *)
(* at the cache, once the caller is the owner, is not itself overtaken.      *)
THEOREM StoredKeysAreNotComputed == Spec => []NoRedundantComputation
<1>1. IInv => NoRedundantComputation
  BY DEF IInv
<1> QED
  BY <1>1, CacheInvariance, PTL

(* No in-flight entry outlives its owner, not even an owner that panics, and *)
(* no waiter stays parked on an entry whose owner has notified.              *)
THEOREM NoKeyIsBlocked == Spec => [](EntriesHaveOwners /\ WaitersAreWoken)
<1>1. IInv => EntriesHaveOwners /\ WaitersAreWoken
  BY DEF IInv
<1> QED
  BY <1>1, CacheInvariance, PTL

(* A call returns a value that the map held under its key while the call, or *)
(* the owner it waited for, was running; a waiter fares as its owner.        *)
THEOREM ReturnsAreCachedValues == Spec => []ReturnsWereCached
<1>1. IInv => ReturnsWereCached
  <2> SUFFICES ASSUME IInv, NEW t \in Calls, pc[t] = "returned"
               PROVE  LET source == IF waitsOn[t] = NoCall THEN t ELSE waitsOn[t]
                      IN  /\ local[t] = local[source]
                          /\ local[t] \in Values => local[t] \in sighted[source]
    BY DEF ReturnsWereCached
  <2>1. CASE waitsOn[t] = NoCall
    BY <2>1 DEF IInv, LocalsWereSighted
  <2>2. CASE waitsOn[t] # NoCall
    <3> DEFINE o == waitsOn[t]
    <3>1. /\ o \in Calls /\ waitsOn[o] = NoCall /\ entry[o] = local[t]
      BY <2>2 DEF IInv, TypeOK, WaitsAreForOwners
    <3>2. local[t] \in Results
      BY DEF IInv, TypeOK
    <3>3. /\ entry[o] = local[o] /\ pc[o] \in {"remove", "notify", "returned"}
      BY <3>1, <3>2, Distinct DEF IInv, EntriesHoldResults
    <3> QED
      BY <2>2, <3>1, <3>3 DEF IInv, LocalsWereSighted
  <2> QED
    BY <2>1, <2>2
<1> QED
  BY <1>1, CacheInvariance, PTL

-----------------------------------------------------------------------------
(* The cache implements SingleFlightCache.                                  *)

(* The phase of each place.                                                 *)
LEMMA PhaseValues ==
  /\ PhaseOf("claim") = "open" /\ PhaseOf("recheck") = "open"
  /\ PhaseOf("wait") = "open" /\ PhaseOf("parked") = "open"
  /\ PhaseOf("compute") = "running" /\ PhaseOf("store") = "running"
  /\ PhaseOf("publish") = "decided" /\ PhaseOf("remove") = "decided"
  /\ PhaseOf("notify") = "decided"
  /\ PhaseOf("new") = "new" /\ PhaseOf("returned") = "returned"
BY DEF PhaseOf

(* What the mapping says of a call depends on its place and its result.     *)
LEMMA PhaseAt ==
  ASSUME TypeOK, NEW t \in Calls
  PROVE  /\ pc[t] \in {"claim", "recheck", "wait", "parked"} => flightPhase[t] = "open"
         /\ pc[t] \in {"compute", "store"} => flightPhase[t] = "running"
         /\ pc[t] \in {"publish", "remove", "notify"} => flightPhase[t] = "decided"
         /\ pc[t] = "new" => flightPhase[t] = "new"
         /\ pc[t] = "returned" => flightPhase[t] = "returned"
         /\ flightPhase[t] = "running" => pc[t] \in {"compute", "store"}
         /\ flightAnswer[t] = IF flightPhase[t] \in {"decided", "returned"} THEN local[t] ELSE NoCall
<1>1. pc[t] \in {"new", "claim", "notify", "returned", "recheck", "compute", "store", "publish",
                 "remove", "wait", "parked"}
  BY DEF TypeOK, Places, OwnerPlaces, WaiterPlaces
<1> QED
  BY <1>1, PhaseValues DEF flightPhase, flightAnswer

(* A step of one call moves that call only.                                 *)
LEMMA OneCallMoves ==
  ASSUME TypeOK, TypeOK', NEW t \in Calls,
         \A u \in Calls \ {t} : flightPhase'[u] = flightPhase[u] /\ local'[u] = local[u]
  PROVE  /\ flightPhase' = [flightPhase EXCEPT ![t] = flightPhase'[t]]
         /\ flightAnswer' = [flightAnswer EXCEPT ![t] = flightAnswer'[t]]
<1>1. /\ flightPhase' = [u \in Calls |-> flightPhase'[u]]
      /\ flightPhase = [u \in Calls |-> flightPhase[u]]
  BY DEF flightPhase
<1>2. /\ flightAnswer' = [u \in Calls |-> flightAnswer'[u]]
      /\ flightAnswer = [u \in Calls |-> flightAnswer[u]]
  BY DEF flightAnswer
<1>3. \A u \in Calls \ {t} : flightAnswer'[u] = flightAnswer[u]
  BY DEF flightAnswer
<1> HIDE DEF flightPhase, flightAnswer
<1>4. flightPhase' = [flightPhase EXCEPT ![t] = flightPhase'[t]]
  BY <1>1
<1>5. flightAnswer' = [flightAnswer EXCEPT ![t] = flightAnswer'[t]]
  BY <1>2, <1>3
<1> QED
  BY <1>4, <1>5

(* A call that moves within its phase, with its result as it was, is not    *)
(* seen to move.                                                            *)
LEMMA UnseenStep ==
  ASSUME TypeOK, TypeOK',
         UNCHANGED <<cache, key, waitsOn>>,
         \A u \in Calls : flightPhase'[u] = flightPhase[u],
         \A u \in Calls : flightPhase[u] \in {"decided", "returned"} => local'[u] = local[u]
  PROVE  UNCHANGED Flight!flightVars
<1>1. flightPhase' = flightPhase
  BY DEF flightPhase
<1>2. flightAnswer' = flightAnswer
  BY DEF flightAnswer
<1> QED
  BY <1>1, <1>2 DEF Flight!flightVars

(* The first look is a hit or a miss.                                       *)
LEMMA LookupMaps ==
  ASSUME IInv, TypeOK', NEW t \in Calls, Lookup(t)
  PROVE  Flight!Hit(t) \/ Flight!Miss(t)
<1>1. TypeOK /\ pc[t] = "new" /\ UNCHANGED <<cache, key, waitsOn>>
  BY DEF IInv, Lookup
<1>2. \A u \in Calls \ {t} : pc'[u] = pc[u] /\ local'[u] = local[u]
  BY <1>1 DEF Lookup, Return, Goto, TypeOK
<1>3. \A u \in Calls \ {t} : flightPhase'[u] = flightPhase[u]
  BY <1>2 DEF flightPhase
<1>4. /\ flightPhase' = [flightPhase EXCEPT ![t] = flightPhase'[t]]
      /\ flightAnswer' = [flightAnswer EXCEPT ![t] = flightAnswer'[t]]
  BY <1>1, <1>2, <1>3, OneCallMoves
<1>5. flightPhase[t] = "new" /\ flightAnswer[t] = NoCall
  BY <1>1, PhaseAt
<1>6. CASE cache[key[t]] # Absent
  <2>1. pc'[t] = "returned" /\ local'[t] = cache[key[t]]
    BY <1>1, <1>6 DEF Lookup, Return, Goto, TypeOK
  <2>2. flightPhase'[t] = "returned" /\ flightAnswer'[t] = cache[key[t]]
    BY <2>1, PhaseValues DEF flightPhase, flightAnswer
  <2> QED
    BY <1>1, <1>4, <1>5, <1>6, <2>2 DEF Flight!Hit, Flight!Answer
<1>7. CASE cache[key[t]] = Absent
  <2>1. pc'[t] = "claim"
    BY <1>1, <1>7 DEF Lookup, Goto, TypeOK
  <2>2. flightPhase'[t] = "open" /\ flightAnswer'[t] = NoCall
    BY <2>1, PhaseValues DEF flightPhase, flightAnswer
  <2>3. flightAnswer' = flightAnswer
    BY <1>2, <1>3, <1>5, <2>2 DEF flightAnswer
  <2> QED
    BY <1>1, <1>4, <1>5, <1>7, <2>2, <2>3 DEF Flight!Miss
<1> QED
  BY <1>6, <1>7

(* A claim follows the owner of the entry, or is not seen.                  *)
LEMMA ClaimMaps ==
  ASSUME IInv, TypeOK', NEW t \in Calls, ClaimInFlight(t)
  PROVE  (\E u \in Calls : Flight!Follow(t, u)) \/ UNCHANGED Flight!flightVars
<1>1. TypeOK /\ pc[t] = "claim" /\ UNCHANGED <<cache, key, local>>
  BY DEF IInv, ClaimInFlight
<1>2. pc' \in [Calls -> Places] /\ pc'[t] \in {"wait", "recheck"} /\ \A u \in Calls \ {t} : pc'[u] = pc[u]
  BY <1>1 DEF ClaimInFlight, Goto, TypeOK
<1>3. \A u \in Calls : flightPhase'[u] = flightPhase[u]
  BY <1>1, <1>2, PhaseValues DEF flightPhase
<1>4. flightPhase' = flightPhase /\ flightAnswer' = flightAnswer
  BY <1>1, <1>3 DEF flightPhase, flightAnswer
<1>5. CASE inFlight[key[t]] # NoCall
  <2> DEFINE u == inFlight[key[t]]
  <2>1. u \in Calls /\ key[u] = key[t] /\ pc[u] \in OwnerPlaces /\ u # t
    BY <1>1, <1>5 DEF IInv, TypeOK, EntriesHaveOwners, OwnerPlaces
  <2>2. waitsOn[u] = NoCall /\ waitsOn[t] = NoCall
    BY <1>1, <2>1 DEF IInv, WaitsAreForOwners, WaiterPlaces, OwnerPlaces
  <2>3. flightPhase[u] \in {"open", "running", "decided"} /\ flightPhase[t] = "open"
    BY <1>1, <2>1, PhaseAt DEF OwnerPlaces
  <2>4. waitsOn' = [waitsOn EXCEPT ![t] = u]
    BY <1>5 DEF ClaimInFlight
  <2>5. Flight!Follow(t, u)
    BY <1>1, <1>4, <2>1, <2>2, <2>3, <2>4 DEF Flight!Follow
  <2> QED
    BY <2>1, <2>5
<1>6. CASE inFlight[key[t]] = NoCall
  <2>1. UNCHANGED waitsOn
    BY <1>6 DEF ClaimInFlight
  <2> QED
    BY <1>1, <1>4, <2>1 DEF Flight!flightVars
<1> QED
  BY <1>5, <1>6

(* The second look is a hit after all, or starts the closure.               *)
LEMMA RecheckMaps ==
  ASSUME IInv, TypeOK', NEW t \in Calls, Recheck(t)
  PROVE  Flight!LateHit(t) \/ Flight!Start(t)
<1>1. TypeOK /\ pc[t] = "recheck" /\ UNCHANGED <<cache, key, waitsOn>>
  BY DEF IInv, Recheck
<1>2. \A u \in Calls \ {t} : pc'[u] = pc[u] /\ local'[u] = local[u]
  BY <1>1 DEF Recheck, Goto, TypeOK
<1>3. \A u \in Calls \ {t} : flightPhase'[u] = flightPhase[u]
  BY <1>2 DEF flightPhase
<1>4. /\ flightPhase' = [flightPhase EXCEPT ![t] = flightPhase'[t]]
      /\ flightAnswer' = [flightAnswer EXCEPT ![t] = flightAnswer'[t]]
  BY <1>1, <1>2, <1>3, OneCallMoves
<1>5. flightPhase[t] = "open" /\ flightAnswer[t] = NoCall /\ waitsOn[t] = NoCall
  BY <1>1, PhaseAt DEF IInv, WaitsAreForOwners, WaiterPlaces
<1>6. CASE cache[key[t]] # Absent
  <2>1. pc'[t] = "publish" /\ local'[t] = cache[key[t]]
    BY <1>1, <1>6 DEF Recheck, Goto, TypeOK
  <2>2. flightPhase'[t] = "decided" /\ flightAnswer'[t] = cache[key[t]]
    BY <2>1, PhaseValues DEF flightPhase, flightAnswer
  <2> QED
    BY <1>1, <1>4, <1>5, <1>6, <2>2 DEF Flight!LateHit, Flight!Answer
<1>7. CASE cache[key[t]] = Absent
  <2>1. pc'[t] = "compute"
    BY <1>1, <1>7 DEF Recheck, Goto, TypeOK
  <2>2. flightPhase'[t] = "running" /\ flightAnswer'[t] = NoCall
    BY <2>1, PhaseValues DEF flightPhase, flightAnswer
  <2>3. flightAnswer' = flightAnswer
    BY <1>2, <1>3, <1>5, <2>2 DEF flightAnswer
  <2>4. \A u \in Calls : flightPhase[u] = "running" => key[u] # key[t]
    <3> SUFFICES ASSUME NEW u \in Calls, flightPhase[u] = "running", key[u] = key[t] PROVE FALSE
      OBVIOUS
    <3>1. pc[u] \in {"compute", "store"}
      BY <1>1, PhaseAt
    <3>2. inFlight[key[t]] = t /\ inFlight[key[u]] = u
      BY <1>1, <3>1 DEF IInv, OwnersAreInFlight, OwnerPlaces
    <3> QED
      BY <1>1, <3>1, <3>2
  <2> QED
    BY <1>1, <1>4, <1>5, <1>7, <2>2, <2>3, <2>4 DEF Flight!Start
<1> QED
  BY <1>6, <1>7

(* A closure fails, or its value is not seen before it is stored.           *)
LEMMA ComputeMaps ==
  ASSUME IInv, TypeOK', NEW t \in Calls, Compute(t)
  PROVE  Flight!Fail(t) \/ UNCHANGED Flight!flightVars
<1>1. TypeOK /\ pc[t] = "compute" /\ UNCHANGED <<cache, key, waitsOn>>
  BY DEF IInv, Compute
<1>2. PICK result \in {t, Absent, Panicked} :
        /\ local' = [local EXCEPT ![t] = result]
        /\ pc' = [pc EXCEPT ![t] = IF result = t THEN "store" ELSE "publish"]
  BY DEF Compute, Goto
<1>3. \A u \in Calls \ {t} : pc'[u] = pc[u] /\ local'[u] = local[u]
  BY <1>1, <1>2 DEF TypeOK
<1>4. \A u \in Calls \ {t} : flightPhase'[u] = flightPhase[u]
  BY <1>3 DEF flightPhase
<1>5. flightPhase[t] = "running"
  BY <1>1, PhaseAt
<1>6. CASE result = t
  <2>1. pc'[t] = "store"
    BY <1>1, <1>2, <1>6 DEF TypeOK
  <2>2. flightPhase'[t] = "running"
    BY <2>1, PhaseValues DEF flightPhase
  <2> QED
    BY <1>1, <1>3, <1>4, <1>5, <2>2, UnseenStep
<1>7. CASE result # t
  <2>1. pc'[t] = "publish" /\ local'[t] = result /\ result \in {Absent, Panicked}
    BY <1>1, <1>2, <1>7 DEF TypeOK
  <2>2. flightPhase'[t] = "decided" /\ flightAnswer'[t] = result
    BY <2>1, PhaseValues DEF flightPhase, flightAnswer
  <2>3. /\ flightPhase' = [flightPhase EXCEPT ![t] = flightPhase'[t]]
        /\ flightAnswer' = [flightAnswer EXCEPT ![t] = flightAnswer'[t]]
    BY <1>1, <1>3, <1>4, OneCallMoves
  <2> QED
    BY <1>1, <1>5, <2>1, <2>2, <2>3 DEF Flight!Fail, Flight!Answer
<1> QED
  BY <1>6, <1>7

LEMMA StoreMaps ==
  ASSUME IInv, TypeOK', NEW t \in Calls, Store(t)
  PROVE  Flight!Succeed(t)
<1>1. TypeOK /\ pc[t] = "store" /\ UNCHANGED <<key, waitsOn>> /\ local[t] = t
  BY DEF IInv, Store, LocalsWereSighted
<1>2. /\ \A u \in Calls \ {t} : pc'[u] = pc[u] /\ local'[u] = local[u]
      /\ pc'[t] = "publish" /\ local'[t] = cache'[key[t]]
      /\ cache' = [cache EXCEPT ![key[t]] = IF cache[key[t]] = Absent THEN t ELSE cache[key[t]]]
  BY <1>1 DEF Store, Goto, TypeOK
<1>3. \A u \in Calls \ {t} : flightPhase'[u] = flightPhase[u]
  BY <1>2 DEF flightPhase
<1>4. /\ flightPhase' = [flightPhase EXCEPT ![t] = flightPhase'[t]]
      /\ flightAnswer' = [flightAnswer EXCEPT ![t] = flightAnswer'[t]]
  BY <1>1, <1>2, <1>3, OneCallMoves
<1>5. flightPhase[t] = "running"
  BY <1>1, PhaseAt
<1>6. flightPhase'[t] = "decided" /\ flightAnswer'[t] = cache'[key[t]]
  BY <1>2, PhaseValues DEF flightPhase, flightAnswer
<1> QED
  BY <1>1, <1>2, <1>4, <1>5, <1>6 DEF Flight!Succeed, Flight!Answer

(* Publication and removal of the entry are not seen; the call returns when *)
(* it has woken the others, which are not seen to move.                     *)
LEMMA PublishMaps ==
  ASSUME IInv, TypeOK', NEW t \in Calls, PublishResult(t) \/ RemoveEntry(t)
  PROVE  UNCHANGED Flight!flightVars
<1>1. TypeOK /\ pc[t] \in {"publish", "remove"} /\ UNCHANGED <<cache, key, waitsOn, local>>
  BY DEF IInv, PublishResult, RemoveEntry
<1>2. /\ \A u \in Calls \ {t} : pc'[u] = pc[u]
      /\ pc'[t] \in {"remove", "notify"}
  BY <1>1 DEF PublishResult, RemoveEntry, Goto, TypeOK
<1>3. \A u \in Calls : flightPhase'[u] = flightPhase[u]
  BY <1>1, <1>2, PhaseValues DEF flightPhase
<1> QED
  BY <1>1, <1>3, UnseenStep

LEMMA NotifyMaps ==
  ASSUME IInv, TypeOK', NEW t \in Calls, NotifyAll(t)
  PROVE  Flight!Return(t)
<1>1. TypeOK /\ pc[t] = "notify" /\ UNCHANGED <<cache, key, waitsOn, local>>
  BY DEF IInv, NotifyAll
<1>2. /\ \A u \in Calls \ {t} : pc'[u] = pc[u] \/ (pc[u] = "parked" /\ pc'[u] = "wait")
      /\ pc'[t] = "returned"
  BY <1>1 DEF NotifyAll
<1>3. \A u \in Calls \ {t} : flightPhase'[u] = flightPhase[u]
  BY <1>2, PhaseValues DEF flightPhase
<1>4. flightPhase' = [flightPhase EXCEPT ![t] = flightPhase'[t]]
  BY <1>1, <1>3, OneCallMoves
<1>5. flightPhase[t] = "decided" /\ flightPhase'[t] = "returned"
  BY <1>1, <1>2, PhaseValues DEF flightPhase
<1>6. flightAnswer' = flightAnswer
  BY <1>1, <1>3, <1>5 DEF flightAnswer
<1> QED
  BY <1>1, <1>4, <1>5, <1>6 DEF Flight!Return

(* A waiter parks unseen, or shares what its owner has published.           *)
LEMMA WaitMaps ==
  ASSUME IInv, TypeOK', NEW t \in Calls, WaitForInFlight(t) \/ SpuriousWakeup(t)
  PROVE  Flight!Share(t) \/ UNCHANGED Flight!flightVars
<1>1. TypeOK /\ pc[t] \in {"wait", "parked"} /\ UNCHANGED <<cache, key, waitsOn>>
  BY DEF IInv, WaitForInFlight, SpuriousWakeup
<1>2. flightPhase[t] = "open"
  BY <1>1, PhaseAt
<1>3. CASE SpuriousWakeup(t) \/ entry[waitsOn[t]] = NoCall
  <2>1. /\ \A u \in Calls \ {t} : pc'[u] = pc[u]
        /\ pc'[t] \in {"wait", "parked"} /\ UNCHANGED local
    BY <1>1, <1>3 DEF WaitForInFlight, SpuriousWakeup, Goto, TypeOK
  <2>2. \A u \in Calls : flightPhase'[u] = flightPhase[u]
    BY <1>1, <2>1, PhaseValues DEF flightPhase
  <2> QED
    BY <1>1, <2>1, <2>2, UnseenStep
<1>4. CASE WaitForInFlight(t) /\ entry[waitsOn[t]] # NoCall
  <2> DEFINE u == waitsOn[t]
  <2>1. u \in Calls /\ u # NoCall
    BY <1>1, DistinctAssumption DEF IInv, WaitersAreWoken, WaiterPlaces
  <2>2. entry[u] = local[u] /\ pc[u] \in {"remove", "notify", "returned"}
    BY <1>4, <2>1 DEF IInv, EntriesHoldResults
  <2>3. flightPhase[u] \in {"decided", "returned"} /\ flightAnswer[u] = local[u]
    BY <1>1, <2>1, <2>2, PhaseAt
  <2>4. /\ \A v \in Calls \ {t} : pc'[v] = pc[v] /\ local'[v] = local[v]
        /\ pc'[t] = "returned" /\ local'[t] = local[u]
    BY <1>1, <1>4, <2>2 DEF WaitForInFlight, Return, Goto, TypeOK
  <2>5. \A v \in Calls \ {t} : flightPhase'[v] = flightPhase[v]
    BY <2>4 DEF flightPhase
  <2>6. /\ flightPhase' = [flightPhase EXCEPT ![t] = flightPhase'[t]]
        /\ flightAnswer' = [flightAnswer EXCEPT ![t] = flightAnswer'[t]]
    BY <1>1, <2>4, <2>5, OneCallMoves
  <2>7. flightPhase'[t] = "returned" /\ flightAnswer'[t] = local[u]
    BY <2>4, PhaseValues DEF flightPhase, flightAnswer
  <2> QED
    BY <1>1, <1>2, <2>1, <2>3, <2>6, <2>7 DEF Flight!Share, Flight!Answer
<1> QED
  BY <1>1, <1>3, <1>4

(* The other writers do what they do in SingleFlightCache.                  *)
LEMMA WritersMap ==
  ASSUME UNCHANGED <<pc, key, waitsOn, local>>
  PROVE  /\ \A ks \in SUBSET Keys : InsertMany(ks) => Flight!InsertMany(ks)
         /\ Clear => Flight!Clear
<1>1. flightPhase' = flightPhase /\ flightAnswer' = flightAnswer
  BY DEF flightPhase, flightAnswer
<1> QED
  BY <1>1 DEF InsertMany, Clear, Flight!InsertMany, Flight!Clear

LEMMA FlightInit == Init => Flight!Init
<1> SUFFICES ASSUME Init PROVE Flight!Init
  OBVIOUS
<1>1. flightPhase = [t \in Calls |-> "new"]
  BY PhaseValues DEF Init, flightPhase
<1>2. flightAnswer = [t \in Calls |-> NoCall]
  BY <1>1 DEF flightAnswer
<1> QED
  BY <1>1, <1>2 DEF Init, Flight!Init

LEMMA FlightNext == IInv /\ [Next]_vars => [Flight!Next]_(Flight!flightVars)
<1> SUFFICES ASSUME IInv, [Next]_vars PROVE [Flight!Next]_(Flight!flightVars)
  OBVIOUS
<1>1. TypeOK'
  BY NextIInv DEF IInv
<1>2. CASE UNCHANGED vars
  <2>1. flightPhase' = flightPhase /\ flightAnswer' = flightAnswer
    BY <1>2 DEF vars, flightPhase, flightAnswer
  <2> QED
    BY <1>2, <2>1 DEF vars, Flight!flightVars
<1>3. ASSUME NEW ks \in SUBSET Keys, InsertMany(ks) PROVE Flight!Next
  BY <1>3, WritersMap DEF InsertMany, Flight!Next
<1>4. CASE Clear
  BY <1>4, WritersMap DEF Clear, Flight!Next
<1>5. ASSUME NEW t \in Calls, CallStep(t) \/ SpuriousWakeup(t)
      PROVE  Flight!Call(t) \/ UNCHANGED Flight!flightVars
  BY <1>1, <1>5, LookupMaps, ClaimMaps, RecheckMaps, ComputeMaps, StoreMaps, PublishMaps,
     NotifyMaps, WaitMaps DEF CallStep, Flight!Call
<1> QED
  BY <1>2, <1>3, <1>4, <1>5 DEF Next, Flight!Next

(* get_or_insert_with, with its in-flight entries, guards and condition      *)
(* variables, implements the cache on which a closure runs only when the key *)
(* has no value and no other closure runs for it.                            *)
THEOREM CacheRefinement == Spec => ImplementsSingleFlight
<1>1. Init => Flight!Init
  BY FlightInit
<1>2. IInv /\ [Next]_vars => [Flight!Next]_(Flight!flightVars)
  BY FlightNext
<1> QED
  BY <1>1, <1>2, CacheInvariance, PTL DEF Spec, ImplementsSingleFlight, Flight!Spec
=============================================================================
