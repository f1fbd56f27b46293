-------------------------- MODULE SingleFlightCache --------------------------
(***************************************************************************)
(* What LocatorCache (crates/pet-core/src/cache.rs) promises its callers,   *)
(* without locks, in-flight entries and condition variables.  A closure for *)
(* a key begins only while the key has no value and no other closure runs   *)
(* for it; the value it makes is stored unless one was put in meanwhile.  A *)
(* call returns the value that its key has at one moment of the call, or    *)
(* what came of its own closure, or it follows another call for the key     *)
(* that is still under way, and fares as that one does.  LocatorCache       *)
(* implements this.                                                         *)
(***************************************************************************)
CONSTANTS Keys, Calls,
          External,   \* the value that insert and insert_many store
          Absent, Panicked,
          NoCall      \* no leader; also the answer of a call that has none yet

VARIABLES cache, key,
          phase,      \* progress of each call
          leader,     \* the call that it follows
          answer      \* what it is going to return, or has returned

flightVars == <<cache, key, phase, leader, answer>>

Init ==
  /\ cache = [k \in Keys |-> Absent]
  /\ key \in [Calls -> Keys]
  /\ phase = [t \in Calls |-> "new"]
  /\ leader = [t \in Calls |-> NoCall]
  /\ answer = [t \in Calls |-> NoCall]

InsertMany(ks) ==
  /\ cache' = [k \in Keys |-> IF k \in ks THEN External ELSE cache[k]]
  /\ UNCHANGED <<key, phase, leader, answer>>

Clear ==
  /\ cache' = [k \in Keys |-> Absent]
  /\ UNCHANGED <<key, phase, leader, answer>>

Answer(t, newPhase, result) ==
  /\ phase' = [phase EXCEPT ![t] = newPhase]
  /\ answer' = [answer EXCEPT ![t] = result]

(* A call finds the value of its key, at once or after it began in vain.     *)
Hit(t) ==
  /\ phase[t] = "new" /\ cache[key[t]] # Absent
  /\ Answer(t, "returned", cache[key[t]])
  /\ UNCHANGED <<cache, key, leader>>

Miss(t) ==
  /\ phase[t] = "new" /\ cache[key[t]] = Absent
  /\ phase' = [phase EXCEPT ![t] = "open"]
  /\ UNCHANGED <<cache, key, leader, answer>>

LateHit(t) ==
  /\ phase[t] = "open" /\ leader[t] = NoCall /\ cache[key[t]] # Absent
  /\ Answer(t, "decided", cache[key[t]])
  /\ UNCHANGED <<cache, key, leader>>

(* A closure runs.                                                          *)
Start(t) ==
  /\ phase[t] = "open" /\ leader[t] = NoCall /\ cache[key[t]] = Absent
  /\ \A u \in Calls : phase[u] = "running" => key[u] # key[t]
  /\ phase' = [phase EXCEPT ![t] = "running"]
  /\ UNCHANGED <<cache, key, leader, answer>>

(* It makes no value, or panics.                                            *)
Fail(t) ==
  /\ phase[t] = "running"
  /\ \E result \in {Absent, Panicked} : Answer(t, "decided", result)
  /\ UNCHANGED <<cache, key, leader>>

(* It makes a value; one that was put in meanwhile wins.                     *)
Succeed(t) ==
  /\ phase[t] = "running"
  /\ cache' = [cache EXCEPT ![key[t]] = IF @ = Absent THEN t ELSE @]
  /\ Answer(t, "decided", cache'[key[t]])
  /\ UNCHANGED <<key, leader>>

Return(t) ==
  /\ phase[t] = "decided"
  /\ phase' = [phase EXCEPT ![t] = "returned"]
  /\ UNCHANGED <<cache, key, leader, answer>>

(* A call follows one that has not returned and follows nobody itself.       *)
Follow(t, u) ==
  /\ phase[t] = "open" /\ leader[t] = NoCall
  /\ u # t /\ key[u] = key[t] /\ leader[u] = NoCall
  /\ phase[u] \in {"open", "running", "decided"}
  /\ leader' = [leader EXCEPT ![t] = u]
  /\ UNCHANGED <<cache, key, phase, answer>>

Share(t) ==
  /\ phase[t] = "open" /\ leader[t] # NoCall
  /\ phase[leader[t]] \in {"decided", "returned"}
  /\ Answer(t, "returned", answer[leader[t]])
  /\ UNCHANGED <<cache, key, leader>>

Call(t) ==
  \/ Hit(t) \/ Miss(t) \/ LateHit(t)
  \/ Start(t) \/ Fail(t) \/ Succeed(t) \/ Return(t)
  \/ (\E u \in Calls : Follow(t, u)) \/ Share(t)

Next ==
  \/ \E ks \in SUBSET Keys : InsertMany(ks)
  \/ Clear
  \/ \E t \in Calls : Call(t)

Spec == Init /\ [][Next]_flightVars
=============================================================================
