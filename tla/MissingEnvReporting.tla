------------------------ MODULE MissingEnvReporting ------------------------
(***************************************************************************)
(* MISSING_ENVS_REPORTING_STATE (crates/pet/src/jsonrpc.rs): an AtomicU64   *)
(* that elects, for each configuration generation, the one refresh whose    *)
(* follow-up spawns conda and poetry in the background to report the        *)
(* environments the file-system search missed.                              *)
(*                                                                         *)
(* Every load, compare-exchange and store of the atomic is an action, and   *)
(* so is every look at the configuration generation, which needs the read   *)
(* lock that a publishing configure excludes.                               *)
(***************************************************************************)
EXTENDS Naturals

CONSTANTS Runs,           \* follow-ups of refreshes, each with its worker thread
          MaxGeneration   \* bound on the number of configurations

ASSUME GenerationBoundAssumption == MaxGeneration \in Nat

(* u64::MAX - 1 and u64::MAX: above every generation.                       *)
Completed == MaxGeneration + 1
Available == MaxGeneration + 2

VARIABLES
  generation,   \* ConfigurationState.generation
  publishing,   \* a configure holds the write lock and has to reset the slot
  slot,         \* MISSING_ENVS_REPORTING_STATE
  at,           \* where each follow-up is
  gen,          \* its refresh_generation
  seen,         \* its current_state, the value it loaded
  finished      \* history: generations whose worker came to its end

slotVars == <<slot, at, gen, seen, finished>>
reportingVars == <<generation, publishing, slot, at, gen, seen, finished>>

Working == {"started", "conda", "afterConda", "poetry", "afterPoetry",
            "complete"}
Releasing == {"release", "releaseCas"}
Places == {"idle", "load", "cas", "check", "done", "died"}
          \cup Working \cup Releasing

ReportingInit ==
  /\ slot = Available
  /\ at = [r \in Runs |-> "idle"]
  /\ gen = [r \in Runs |-> 0]
  /\ seen = [r \in Runs |-> Available]
  /\ finished = {}

Move(r, place) == at' = [at EXCEPT ![r] = place]

(* is_current_generation: the guard is released before the caller acts on   *)
(* the answer.                                                              *)
IsCurrentGeneration(r, ifCurrent, ifStale) ==
  /\ ~publishing
  /\ Move(r, IF generation = gen[r] THEN ifCurrent ELSE ifStale)
  /\ UNCHANGED <<generation, publishing, slot, gen, seen, finished>>

-----------------------------------------------------------------------------
(* Phase C of apply_configure_options: the new generation and then the      *)
(* reset of the slot, both under the write lock.  The atomic itself is not  *)
(* protected by that lock.                                                  *)
PublishGeneration ==
  /\ ~publishing
  /\ generation < MaxGeneration
  /\ generation' = generation + 1
  /\ publishing' = TRUE
  /\ UNCHANGED slotVars

ResetReporting ==
  /\ publishing
  /\ slot' = Available
  /\ publishing' = FALSE
  /\ UNCHANGED <<generation, at, gen, seen, finished>>

-----------------------------------------------------------------------------
(* report_refresh_follow_up for a refresh that ran under generation g.      *)
Begin(r, g) ==
  /\ at[r] = "idle"
  /\ gen' = [gen EXCEPT ![r] = g]
  /\ Move(r, "load")
  /\ UNCHANGED <<generation, publishing, slot, seen, finished>>

FaultyLoadSlot(r) ==            \* > where the code has >=
  /\ at[r] = "load"
  /\ seen' = [seen EXCEPT ![r] = slot]
  /\ Move(r, IF slot = Completed \/ (slot # Available /\ slot > gen[r])
               THEN "done" ELSE "cas")
  /\ UNCHANGED <<generation, publishing, slot, gen, finished>>

(* try_begin_missing_env_reporting: the load and the two early returns.     *)
LoadSlot(r) ==
  /\ at[r] = "load"
  /\ seen' = [seen EXCEPT ![r] = slot]
  /\ Move(r, IF slot = Completed \/ (slot # Available /\ slot >= gen[r])
               THEN "done" ELSE "cas")
  /\ UNCHANGED <<generation, publishing, slot, gen, finished>>

(* The compare_exchange that claims the slot; on failure the loop reloads.  *)
ClaimSlot(r) ==
  /\ at[r] = "cas"
  /\ IF slot = seen[r] THEN slot' = gen[r] /\ Move(r, "check")
                       ELSE UNCHANGED slot /\ Move(r, "load")
  /\ UNCHANGED <<generation, publishing, gen, seen, finished>>

FaultyCheckClaim(r) ==          \* a stale claim is simply abandoned
  at[r] = "check" /\ IsCurrentGeneration(r, "started", "done")

CheckClaim(r) == at[r] = "check" /\ IsCurrentGeneration(r, "started", "release")

(* The worker thread: a check before, between and after its two reports.    *)
WorkerChecks(r) ==
  \/ at[r] = "started" /\ IsCurrentGeneration(r, "conda", "release")
  \/ at[r] = "afterConda" /\ IsCurrentGeneration(r, "poetry", "release")
  \/ at[r] = "afterPoetry" /\ IsCurrentGeneration(r, "complete", "release")

(* find_and_report_missing_envs of Conda and of Poetry: they only report    *)
(* through the generation-guarded reporter (see Configuration).             *)
WorkerReports(r) ==
  /\ at[r] \in {"conda", "poetry"}
  /\ Move(r, IF at[r] = "conda" THEN "afterConda" ELSE "afterPoetry")
  /\ UNCHANGED <<generation, publishing, slot, gen, seen, finished>>

(* A panic in either of them ends the worker thread; nothing releases the   *)
(* slot.                                                                    *)
WorkerPanics(r) ==
  /\ at[r] \in {"conda", "poetry"}
  /\ Move(r, "died")
  /\ UNCHANGED <<generation, publishing, slot, gen, seen, finished>>

(* complete_missing_env_reporting: compare_exchange(gen, COMPLETED).        *)
CompleteReporting(r) ==
  /\ at[r] = "complete"
  /\ slot' = IF slot = gen[r] THEN Completed ELSE slot
  /\ finished' = finished \cup {gen[r]}
  /\ Move(r, "done")
  /\ UNCHANGED <<generation, publishing, gen, seen>>

(* release_missing_env_reporting_if_stale looks at the generation again ... *)
CheckRelease(r) == at[r] = "release" /\ IsCurrentGeneration(r, "done", "releaseCas")

FaultyReleaseSlot(r) ==         \* store(AVAILABLE) in place of the exchange
  /\ at[r] = "releaseCas"
  /\ slot' = Available
  /\ Move(r, "done")
  /\ UNCHANGED <<generation, publishing, gen, seen, finished>>

(* ... and then does compare_exchange(gen, AVAILABLE).                      *)
ReleaseSlot(r) ==
  /\ at[r] = "releaseCas"
  /\ slot' = IF slot = gen[r] THEN Available ELSE slot
  /\ Move(r, "done")
  /\ UNCHANGED <<generation, publishing, gen, seen, finished>>

FollowUpStep(r) ==
  \/ LoadSlot(r) \/ ClaimSlot(r) \/ CheckClaim(r)
  \/ WorkerChecks(r) \/ WorkerReports(r) \/ CompleteReporting(r)
  \/ CheckRelease(r) \/ ReleaseSlot(r)

-----------------------------------------------------------------------------
(* The slot on its own: a refresh may end under any generation it could     *)
(* have read, since it may have taken its snapshot long before.             *)
ReadableGenerations == 0 .. (IF publishing THEN generation - 1 ELSE generation)

Init ==
  /\ generation = 0
  /\ publishing = FALSE
  /\ ReportingInit

(* Every follow-up has come to its end.                                      *)
Settled ==
  /\ ~publishing
  /\ \A r \in Runs : at[r] \in {"done", "died"}
  /\ UNCHANGED reportingVars

Next ==
  \/ Settled
  \/ PublishGeneration \/ ResetReporting
  \/ \E r \in Runs :
       \/ \E g \in ReadableGenerations : Begin(r, g)
       \/ FollowUpStep(r)
       \/ WorkerPanics(r)

Fairness ==
  /\ WF_reportingVars(ResetReporting)
  /\ \A r \in Runs : WF_reportingVars(FollowUpStep(r))

Spec == Init /\ [][Next]_reportingVars
FairSpec == Spec /\ Fairness

-----------------------------------------------------------------------------
(* Every value has its type; the slot never holds a number that is neither  *)
(* a generation nor one of the two marks.                                   *)
TypeOK ==
  /\ generation \in 0 .. MaxGeneration
  /\ publishing \in BOOLEAN
  /\ slot \in 0 .. Available
  /\ at \in [Runs -> Places]
  /\ gen \in [Runs -> 0 .. MaxGeneration]
  /\ seen \in [Runs -> 0 .. Available]
  /\ finished \in SUBSET (0 .. MaxGeneration)

(* try_begin_missing_env_reporting returned true for this follow-up.        *)
Elected(r) == at[r] \in Working \cup {"died"}

(* Conda and poetry are spawned at most once at a time for a generation: a  *)
(* second follow-up of the same generation is never elected beside the      *)
(* first, whatever claims, resets and releases happen in between.           *)
OneWorkerPerGeneration ==
  \A r, s \in Runs : Elected(r) /\ Elected(s) /\ gen[r] = gen[s] => r = s

(* A claimed slot is never forgotten: a follow-up of that generation is     *)
(* still going to complete or release it, or died of a panic.               *)
ClaimHasOwner ==
  slot \in 0 .. MaxGeneration =>
    \E r \in Runs : /\ gen[r] = slot
                    /\ at[r] \in {"check", "died"} \cup Working \cup Releasing

(* A follow-up of an earlier generation never takes the slot away from a    *)
(* worker of the current one; only the reset of a new configuration does.   *)
CurrentClaimIsKept ==
  [][slot = generation /\ slot' # slot /\ ~publishing => slot' = Completed]_reportingVars

(* Unless a worker dies, a claim is settled: nobody is kept from reporting  *)
(* for ever by a claim that was made for an outdated configuration.         *)
ClaimIsSettled ==
  \A g \in 0 .. MaxGeneration :
    slot = g ~> slot # g \/ \E r \in Runs : at[r] = "died" /\ gen[r] = g

(* The inductive invariant behind the properties above.                     *)
Claiming(r) == at[r] = "check" \/ Elected(r)

(* Nobody holds a generation that was not published when it was read.       *)
GenerationsArePublished ==
  \A r \in Runs : gen[r] <= generation /\ (publishing => gen[r] < generation)

(* A compare-exchange is only tried on a free slot or on an older claim.    *)
CasIsLegal ==
  \A r \in Runs : at[r] = "cas" => seen[r] = Available \/ seen[r] < gen[r]

(* Only an outdated claim is given back.                                    *)
ReleasedIsStale == \A r \in Runs : at[r] \in Releasing => gen[r] < generation

(* A claim of the current generation keeps the slot, and there is one.      *)
CurrentClaimHoldsSlot ==
  \A r \in Runs : Claiming(r) /\ gen[r] = generation => slot \in {generation, Completed}
CurrentClaimIsUnique ==
  \A r, s \in Runs :
    Claiming(r) /\ Claiming(s) /\ gen[r] = generation /\ gen[s] = generation => r = s

IInv ==
  /\ TypeOK
  /\ GenerationsArePublished
  /\ CasIsLegal
  /\ ReleasedIsStale
  /\ CurrentClaimHoldsSlot
  /\ CurrentClaimIsUnique
  /\ OneWorkerPerGeneration
  /\ ClaimHasOwner

(* The reset on reconfiguration is there so that the next refresh can       *)
(* report again: the slot is COMPLETED only once the current generation has *)
(* been reported.                                                           *)
CompletedForCurrentGeneration ==
  slot = Completed /\ ~publishing => generation \in finished
=============================================================================
