---------------------------- MODULE LocatorCache ----------------------------
(***************************************************************************)
(* LocatorCache (crates/pet-core/src/cache.rs): a map behind a RwLock whose *)
(* get_or_insert_with runs at most one closure for a key at a time.  The    *)
(* first caller owns an in-flight entry; later callers wait on the entry's  *)
(* condition variable for the owner's result.                               *)
(*                                                                         *)
(* An action is a section under one of the locks (the map's RwLock, the     *)
(* in-flight mutex, the mutex of an entry) or the closure.  Each call of    *)
(* get_or_insert_with is a member of Calls.  An entry is identified with    *)
(* the call that owns it, and the value that a closure computes with the    *)
(* call that ran it.                                                        *)
(***************************************************************************)
EXTENDS Naturals

CONSTANTS Keys, Calls,
          External,   \* the value that insert and insert_many store
          Absent,     \* None: no entry in the map, no value computed
          Panicked,   \* InFlightResult::Panicked
          NoCall      \* nobody; also the result of an unpublished entry

ASSUME DistinctAssumption ==
  /\ External \notin Calls /\ Absent \notin Calls /\ Panicked \notin Calls
  /\ NoCall \notin Calls
  /\ External # Absent /\ External # Panicked /\ External # NoCall
  /\ Absent # Panicked /\ Absent # NoCall /\ Panicked # NoCall

Values == Calls \cup {External}
Results == Values \cup {Absent, Panicked}

VARIABLES
  cache,      \* [Keys -> Values or Absent]
  inFlight,   \* [Keys -> owner of the in-flight entry, or NoCall]
  entry,      \* InFlightEntry.result of the entry that each call owns
  pc, key,    \* where a call is, and its key
  waitsOn,    \* the owner of the entry that it waits on
  local,      \* result: what the call is going to return or publish
  sighted     \* history: values its key had in the map since the call began

vars == <<cache, inFlight, entry, pc, key, waitsOn, local, sighted>>

Init ==
  /\ cache = [k \in Keys |-> Absent]
  /\ inFlight = [k \in Keys |-> NoCall]
  /\ entry = [t \in Calls |-> NoCall]
  /\ pc = [t \in Calls |-> "new"]
  /\ key \in [Calls -> Keys]
  /\ waitsOn = [t \in Calls |-> NoCall]
  /\ local = [t \in Calls |-> Absent]
  /\ sighted = [t \in Calls |-> {}]

Goto(t, label) == pc' = [pc EXCEPT ![t] = label]
Return(t, result) == Goto(t, "returned") /\ local' = [local EXCEPT ![t] = result]

(* What the calls under way have seen of the map once it is newCache.       *)
Sight(newCache) ==
  sighted' = [t \in Calls |->
    IF pc[t] \in {"new", "returned"} THEN sighted[t]
                                     ELSE sighted[t] \cup {newCache[key[t]]}]

-----------------------------------------------------------------------------
(* The other writers of the map.                                            *)

(* insert, and insert_many for the keys of a set.                           *)
InsertMany(ks) ==
  /\ cache' = [k \in Keys |-> IF k \in ks THEN External ELSE cache[k]]
  /\ Sight(cache')
  /\ UNCHANGED <<inFlight, entry, pc, key, waitsOn, local>>

Clear ==
  /\ cache' = [k \in Keys |-> Absent]
  /\ Sight(cache')
  /\ UNCHANGED <<inFlight, entry, pc, key, waitsOn, local>>

-----------------------------------------------------------------------------
(* get_or_insert_with.                                                      *)

(* The first look at the map, under the read lock.                          *)
Lookup(t) ==
  /\ pc[t] = "new"
  /\ sighted' = [sighted EXCEPT ![t] = {cache[key[t]]}]
  /\ IF cache[key[t]] # Absent
       THEN Return(t, cache[key[t]])
       ELSE Goto(t, "claim") /\ UNCHANGED local
  /\ UNCHANGED <<cache, inFlight, entry, key, waitsOn>>

FaultyClaimInFlight(t) ==       \* the entry of another owner is replaced
  /\ pc[t] = "claim"
  /\ inFlight' = [inFlight EXCEPT ![key[t]] = t]
  /\ Goto(t, "recheck")
  /\ UNCHANGED <<cache, entry, key, waitsOn, local, sighted>>

(* claim_in_flight.                                                         *)
ClaimInFlight(t) ==
  /\ pc[t] = "claim"
  /\ IF inFlight[key[t]] # NoCall
       THEN /\ waitsOn' = [waitsOn EXCEPT ![t] = inFlight[key[t]]]
            /\ Goto(t, "wait")
            /\ UNCHANGED inFlight
       ELSE /\ inFlight' = [inFlight EXCEPT ![key[t]] = t]
            /\ Goto(t, "recheck")
            /\ UNCHANGED waitsOn
  /\ UNCHANGED <<cache, entry, key, local, sighted>>

FaultyRecheck(t) ==             \* no second look at the map
  /\ pc[t] = "recheck"
  /\ Goto(t, "compute")
  /\ UNCHANGED <<cache, inFlight, entry, key, waitsOn, local, sighted>>

(* The owner looks again: the key may have been stored in the meantime.     *)
Recheck(t) ==
  /\ pc[t] = "recheck"
  /\ IF cache[key[t]] # Absent
       THEN Goto(t, "publish") /\ local' = [local EXCEPT ![t] = cache[key[t]]]
       ELSE Goto(t, "compute") /\ UNCHANGED local
  /\ UNCHANGED <<cache, inFlight, entry, key, waitsOn, sighted>>

(* f(), outside of every lock: a value, None, or a panic, after which the   *)
(* drop of the owner guard publishes Panicked.                              *)
Compute(t) ==
  /\ pc[t] = "compute"
  /\ \E result \in {t, Absent, Panicked} :
       /\ local' = [local EXCEPT ![t] = result]
       /\ Goto(t, IF result = t THEN "store" ELSE "publish")
  /\ UNCHANGED <<cache, inFlight, entry, key, waitsOn, sighted>>

(* Under the write lock: an existing value wins over the computed one.      *)
Store(t) ==
  /\ pc[t] = "store"
  /\ cache' = [cache EXCEPT ![key[t]] = IF @ = Absent THEN local[t] ELSE @]
  /\ Sight(cache')
  /\ local' = [local EXCEPT ![t] = cache'[key[t]]]
  /\ Goto(t, "publish")
  /\ UNCHANGED <<inFlight, entry, key, waitsOn>>

(* InFlightOwnerGuard::publish: the result, under the entry's mutex, ...    *)
PublishResult(t) ==
  /\ pc[t] = "publish"
  /\ entry' = [entry EXCEPT ![t] = local[t]]
  /\ Goto(t, "remove")
  /\ UNCHANGED <<cache, inFlight, key, waitsOn, local, sighted>>

FaultyRemoveEntry(t) ==         \* the drop that follows a panic leaves the entry
  /\ pc[t] = "remove"
  /\ inFlight' = IF local[t] = Panicked THEN inFlight
                 ELSE [inFlight EXCEPT ![key[t]] = NoCall]
  /\ Goto(t, "notify")
  /\ UNCHANGED <<cache, entry, key, waitsOn, local, sighted>>

(* ... the removal of the entry, under the in-flight mutex, ...             *)
RemoveEntry(t) ==
  /\ pc[t] = "remove"
  /\ inFlight' = [inFlight EXCEPT ![key[t]] = NoCall]
  /\ Goto(t, "notify")
  /\ UNCHANGED <<cache, entry, key, waitsOn, local, sighted>>

FaultyNotifyAll(t) ==           \* notify_one
  /\ pc[t] = "notify"
  /\ LET parked == {w \in Calls : pc[w] = "parked" /\ waitsOn[w] = t} IN
       IF parked = {} THEN Goto(t, "returned")
       ELSE \E w \in parked : pc' = [pc EXCEPT ![w] = "wait", ![t] = "returned"]
  /\ UNCHANGED <<cache, inFlight, entry, key, waitsOn, local, sighted>>

(* ... and notify_all; then the call returns, or goes on unwinding.         *)
NotifyAll(t) ==
  /\ pc[t] = "notify"
  /\ pc' = [w \in Calls |-> IF w = t THEN "returned"
                            ELSE IF pc[w] = "parked" /\ waitsOn[w] = t THEN "wait"
                            ELSE pc[w]]
  /\ UNCHANGED <<cache, inFlight, entry, key, waitsOn, local, sighted>>

(* wait_for_in_flight: the owner's result, None included; a panic of the    *)
(* owner becomes a panic of the waiter.                                     *)
WaitForInFlight(t) ==
  /\ pc[t] = "wait"
  /\ IF entry[waitsOn[t]] = NoCall
       THEN Goto(t, "parked") /\ UNCHANGED local
       ELSE Return(t, entry[waitsOn[t]])
  /\ UNCHANGED <<cache, inFlight, entry, key, waitsOn, sighted>>

SpuriousWakeup(t) ==
  /\ pc[t] = "parked"
  /\ Goto(t, "wait")
  /\ UNCHANGED <<cache, inFlight, entry, key, waitsOn, local, sighted>>

CallStep(t) ==
  \/ Lookup(t) \/ ClaimInFlight(t) \/ Recheck(t) \/ Compute(t) \/ Store(t)
  \/ PublishResult(t) \/ RemoveEntry(t) \/ NotifyAll(t) \/ WaitForInFlight(t)

Next ==
  \/ \E ks \in SUBSET Keys : InsertMany(ks)
  \/ Clear
  \/ \E t \in Calls : CallStep(t) \/ SpuriousWakeup(t)

(* A call that has begun runs on, and every closure comes to an end.        *)
Fairness == \A t \in Calls : WF_vars(CallStep(t))

Spec == Init /\ [][Next]_vars
FairSpec == Spec /\ Fairness

-----------------------------------------------------------------------------
OwnerPlaces == {"recheck", "compute", "store", "publish", "remove"}
WaiterPlaces == {"wait", "parked"}
Places == {"new", "claim", "notify", "returned"} \cup OwnerPlaces \cup WaiterPlaces

(* Every value has its type; a map never stores a panic or an absent value  *)
(* that a closure returned.                                                 *)
TypeOK ==
  /\ cache \in [Keys -> Values \cup {Absent}]
  /\ inFlight \in [Keys -> Calls \cup {NoCall}]
  /\ entry \in [Calls -> Results \cup {NoCall}]
  /\ pc \in [Calls -> Places]
  /\ key \in [Calls -> Keys]
  /\ waitsOn \in [Calls -> Calls \cup {NoCall}]
  /\ local \in [Calls -> Results]
  /\ sighted \in [Calls -> SUBSET (Values \cup {Absent})]

(* Two closures never run for the same key at the same time, whatever       *)
(* clears and inserts happen meanwhile: they would report twice.            *)
OneComputationPerKey ==
  \A t, u \in Calls :
    pc[t] = "compute" /\ pc[u] = "compute" /\ key[t] = key[u] => t = u

(* An in-flight entry always has a live owner that is going to remove it,   *)
(* after a panic of the closure too; one left behind would block its key    *)
(* for good.                                                                *)
EntriesHaveOwners ==
  \A k \in Keys : inFlight[k] # NoCall =>
    key[inFlight[k]] = k /\ pc[inFlight[k]] \in OwnerPlaces

(* A waiter waits for the entry of its own key, and one whose owner has     *)
(* finished is not left parked.                                             *)
WaitersAreWoken ==
  \A t \in Calls : pc[t] \in WaiterPlaces =>
    /\ waitsOn[t] \in Calls /\ key[waitsOn[t]] = key[t]
    /\ pc[t] = "parked" => pc[waitsOn[t]] \in OwnerPlaces \cup {"notify"}

(* A call never makes a value up: what it returns was in the map under its  *)
(* key while it, or the owner it waited for, was running; and a waiter      *)
(* fares exactly as its owner does.                                         *)
ReturnsWereCached ==
  \A t \in Calls : pc[t] = "returned" =>
    LET source == IF waitsOn[t] = NoCall THEN t ELSE waitsOn[t] IN
      /\ local[t] = local[source]
      /\ local[t] \in Values => local[t] \in sighted[source]

(* A closure never runs for a key whose computed value is in the map, even  *)
(* if that value was stored between its caller's first look and its claim.  *)
NoRedundantComputation ==
  \A t \in Calls : pc[t] \in {"compute", "store"} => cache[key[t]] \notin Calls

(* Every call returns or panics: no owner is waited for in vain.            *)
EveryCallReturns == \A t \in Calls : pc[t] = "claim" ~> pc[t] = "returned"

(* The inductive invariant adds what ties the program counters to the       *)
(* in-flight map and to the entries.                                        *)
OwnersAreInFlight ==
  \A t \in Calls : pc[t] \in OwnerPlaces => inFlight[key[t]] = t

(* An entry holds what its owner is going to return.                        *)
EntriesHoldResults ==
  \A t \in Calls :
    /\ entry[t] # NoCall =>
         /\ entry[t] = local[t] /\ waitsOn[t] = NoCall
         /\ pc[t] \in {"remove", "notify", "returned"}
    /\ pc[t] \in {"remove", "notify"} => entry[t] # NoCall

(* A call that waits, or has waited, does so for an owner of its key.       *)
WaitsAreForOwners ==
  \A t \in Calls : waitsOn[t] # NoCall =>
    /\ pc[t] \in WaiterPlaces \cup {"returned"}
    /\ waitsOn[waitsOn[t]] = NoCall
    /\ \/ pc[waitsOn[t]] \in OwnerPlaces
       \/ pc[waitsOn[t]] \in {"notify", "returned"} /\ entry[waitsOn[t]] # NoCall
    /\ pc[t] = "returned" => entry[waitsOn[t]] = local[t]

(* A value on its way to being returned has been seen in the map.           *)
LocalsWereSighted ==
  \A t \in Calls :
    /\ pc[t] = "store" => local[t] = t
    /\ pc[t] \notin {"new", "returned"} => cache[key[t]] \in sighted[t]
    /\ (/\ waitsOn[t] = NoCall
        /\ pc[t] \in {"publish", "remove", "notify", "returned"}
        /\ local[t] \in Values) => local[t] \in sighted[t]

IInv ==
  /\ TypeOK
  /\ OwnersAreInFlight
  /\ EntriesHaveOwners
  /\ WaitersAreWoken
  /\ EntriesHoldResults
  /\ WaitsAreForOwners
  /\ LocalsWereSighted
  /\ NoRedundantComputation

-----------------------------------------------------------------------------
(* The refinement mapping to SingleFlightCache: an owner runs from its       *)
(* second look until the value is in the map, and it is decided from then    *)
(* until it has woken the others.                                            *)
PhaseOf(place) ==
  CASE place \in {"claim", "recheck", "wait", "parked"} -> "open"
    [] place \in {"compute", "store"} -> "running"
    [] place \in {"publish", "remove", "notify"} -> "decided"
    [] OTHER -> place

flightPhase == [t \in Calls |-> PhaseOf(pc[t])]

flightAnswer ==
  [t \in Calls |-> IF flightPhase[t] \in {"decided", "returned"} THEN local[t] ELSE NoCall]

Flight == INSTANCE SingleFlightCache
  WITH phase <- flightPhase, leader <- waitsOn, answer <- flightAnswer

(* The map, the in-flight entries and their condition variables together     *)
(* are a cache on which a closure runs only when it has to, one at a time    *)
(* for a key, and on which a waiter fares as an owner that was under way     *)
(* when it began to wait (get_or_insert_with).                               *)
ImplementsSingleFlight == Flight!Spec
=============================================================================
