--------------------- MODULE MissingEnvReporting_proofs ---------------------
(***************************************************************************)
(* Proofs about the election of the missing-environment worker, for any     *)
(* number of follow-ups and of configurations.  The key to all of them is   *)
(* CurrentClaimHoldsSlot: as long as a generation is current, its claim     *)
(* keeps the slot from being free, so a second claim cannot be made; and    *)
(* once it is no longer current, is_current_generation refuses the claim.   *)
(***************************************************************************)
EXTENDS MissingEnvReporting, TLAPS

(* The initial state satisfies the invariant: the slot is free.             *)
LEMMA InitIInv == Init => IInv
<1> SUFFICES ASSUME Init PROVE IInv
  OBVIOUS
<1> USE GenerationBoundAssumption DEF Init, ReportingInit, Completed, Available
<1>a. publishing \in BOOLEAN /\ finished \in SUBSET (0 .. MaxGeneration)
  BY Zenon
<1>b. at \in [Runs -> Places]
  BY DEF Places
<1>1. TypeOK
  BY <1>a, <1>b DEF TypeOK
<1>2. GenerationsArePublished /\ CasIsLegal /\ ReleasedIsStale
  BY DEF GenerationsArePublished, CasIsLegal, ReleasedIsStale, Releasing
<1>3. CurrentClaimHoldsSlot /\ CurrentClaimIsUnique /\ OneWorkerPerGeneration
  BY DEF CurrentClaimHoldsSlot, CurrentClaimIsUnique, OneWorkerPerGeneration,
         Claiming, Elected, Working
<1>4. ClaimHasOwner
  BY DEF ClaimHasOwner
<1> QED
  BY <1>1, <1>2, <1>3, <1>4 DEF IInv

(* A new generation leaves every follow-up with an older one.               *)
LEMMA PublishGenerationStep ==
  ASSUME IInv, PublishGeneration
  PROVE  IInv'
<1> USE GenerationBoundAssumption DEF IInv, PublishGeneration, slotVars, Move,
  TypeOK, Places, Working, Releasing, Completed, Available
<1>1. TypeOK'
  OBVIOUS
<1>2. GenerationsArePublished'
  BY DEF GenerationsArePublished
<1>3. CasIsLegal'
  BY DEF CasIsLegal
<1>4. ReleasedIsStale'
  BY DEF ReleasedIsStale, GenerationsArePublished
<1>5. CurrentClaimHoldsSlot'
  BY DEF CurrentClaimHoldsSlot, Claiming, Elected, GenerationsArePublished,
     CasIsLegal, ReleasedIsStale
<1>6. CurrentClaimIsUnique'
  BY DEF CurrentClaimIsUnique, Claiming, Elected, CurrentClaimHoldsSlot,
     GenerationsArePublished, CasIsLegal
<1>7. OneWorkerPerGeneration'
  BY DEF OneWorkerPerGeneration, Elected, CurrentClaimIsUnique, Claiming
<1>8. ClaimHasOwner'
  BY DEF ClaimHasOwner, ReleasedIsStale
<1> QED
  BY <1>1, <1>2, <1>3, <1>4, <1>5, <1>6, <1>7, <1>8 DEF IInv

(* The reset comes while nobody can hold the new generation.               *)
LEMMA ResetReportingStep ==
  ASSUME IInv, ResetReporting
  PROVE  IInv'
<1> USE GenerationBoundAssumption DEF IInv, ResetReporting, Move, TypeOK,
  Places, Working, Releasing, Completed, Available
<1>1. TypeOK'
  <2>1. publishing' \in BOOLEAN
    BY Zenon DEF ResetReporting
  <2> QED
    BY <2>1
<1>2. GenerationsArePublished'
  BY DEF GenerationsArePublished
<1>3. CasIsLegal'
  BY DEF CasIsLegal
<1>4. ReleasedIsStale'
  BY DEF ReleasedIsStale, GenerationsArePublished
<1>5. CurrentClaimHoldsSlot'
  BY DEF CurrentClaimHoldsSlot, Claiming, Elected, GenerationsArePublished,
     CasIsLegal, ReleasedIsStale
<1>6. CurrentClaimIsUnique'
  BY DEF CurrentClaimIsUnique, Claiming, Elected, CurrentClaimHoldsSlot,
     GenerationsArePublished, CasIsLegal
<1>7. OneWorkerPerGeneration'
  BY DEF OneWorkerPerGeneration, Elected, CurrentClaimIsUnique, Claiming
<1>8. ClaimHasOwner'
  BY DEF ClaimHasOwner, ReleasedIsStale
<1> QED
  BY <1>1, <1>2, <1>3, <1>4, <1>5, <1>6, <1>7, <1>8 DEF IInv

(* A follow-up begins with a generation that could be read.                 *)
LEMMA BeginStep ==
  ASSUME IInv, NEW r \in Runs, NEW g \in ReadableGenerations, Begin(r, g)
  PROVE  IInv'
<1> USE GenerationBoundAssumption DEF IInv, Begin, ReadableGenerations, Move,
  TypeOK, Places, Working, Releasing, Completed, Available
<1>1. TypeOK'
  OBVIOUS
<1>2. GenerationsArePublished'
  BY DEF GenerationsArePublished
<1>3. CasIsLegal'
  BY DEF CasIsLegal
<1>4. ReleasedIsStale'
  BY DEF ReleasedIsStale, GenerationsArePublished
<1>5. CurrentClaimHoldsSlot'
  BY DEF CurrentClaimHoldsSlot, Claiming, Elected, GenerationsArePublished,
     CasIsLegal, ReleasedIsStale
<1>6. CurrentClaimIsUnique'
  BY DEF CurrentClaimIsUnique, Claiming, Elected, CurrentClaimHoldsSlot,
     GenerationsArePublished, CasIsLegal
<1>7. OneWorkerPerGeneration'
  BY DEF OneWorkerPerGeneration, Elected, CurrentClaimIsUnique, Claiming
<1>8. ClaimHasOwner'
  BY DEF ClaimHasOwner, ReleasedIsStale
<1> QED
  BY <1>1, <1>2, <1>3, <1>4, <1>5, <1>6, <1>7, <1>8 DEF IInv

(* The load leaves a value that may be exchanged, or gives up.               *)
LEMMA LoadSlotStep ==
  ASSUME IInv, NEW r \in Runs, LoadSlot(r)
  PROVE  IInv'
<1> USE GenerationBoundAssumption DEF IInv, LoadSlot, Move, TypeOK, Places,
  Working, Releasing, Completed, Available
<1>1. TypeOK'
  OBVIOUS
<1>2. GenerationsArePublished'
  BY DEF GenerationsArePublished
<1>3. CasIsLegal'
  BY DEF CasIsLegal
<1>4. ReleasedIsStale'
  BY DEF ReleasedIsStale, GenerationsArePublished
<1>5. CurrentClaimHoldsSlot'
  BY DEF CurrentClaimHoldsSlot, Claiming, Elected, GenerationsArePublished,
     CasIsLegal, ReleasedIsStale
<1>6. CurrentClaimIsUnique'
  BY DEF CurrentClaimIsUnique, Claiming, Elected, CurrentClaimHoldsSlot,
     GenerationsArePublished, CasIsLegal
<1>7. OneWorkerPerGeneration'
  BY DEF OneWorkerPerGeneration, Elected, CurrentClaimIsUnique, Claiming
<1>8. ClaimHasOwner'
  BY DEF ClaimHasOwner, ReleasedIsStale
<1> QED
  BY <1>1, <1>2, <1>3, <1>4, <1>5, <1>6, <1>7, <1>8 DEF IInv

(* The exchange succeeds only where the current generation has no claim.     *)
LEMMA ClaimSlotStep ==
  ASSUME IInv, NEW r \in Runs, ClaimSlot(r)
  PROVE  IInv'
<1> USE GenerationBoundAssumption DEF IInv, ClaimSlot, Move, TypeOK, Places,
  Working, Releasing, Completed, Available
<1>1. TypeOK'
  OBVIOUS
<1>2. GenerationsArePublished'
  BY DEF GenerationsArePublished
<1>3. CasIsLegal'
  BY DEF CasIsLegal
<1>4. ReleasedIsStale'
  BY DEF ReleasedIsStale, GenerationsArePublished
<1>5. CurrentClaimHoldsSlot'
  BY DEF CurrentClaimHoldsSlot, Claiming, Elected, GenerationsArePublished,
     CasIsLegal, ReleasedIsStale
<1>6. CurrentClaimIsUnique'
  BY DEF CurrentClaimIsUnique, Claiming, Elected, CurrentClaimHoldsSlot,
     GenerationsArePublished, CasIsLegal
<1>7. OneWorkerPerGeneration'
  BY DEF OneWorkerPerGeneration, Elected, CurrentClaimIsUnique, Claiming
<1>8. ClaimHasOwner'
  BY DEF ClaimHasOwner, ReleasedIsStale
<1> QED
  BY <1>1, <1>2, <1>3, <1>4, <1>5, <1>6, <1>7, <1>8 DEF IInv

(* Only a claim of the current generation is elected.                      *)
LEMMA CheckClaimStep ==
  ASSUME IInv, NEW r \in Runs, CheckClaim(r)
  PROVE  IInv'
<1> USE GenerationBoundAssumption DEF IInv, CheckClaim, IsCurrentGeneration,
  Move, TypeOK, Places, Working, Releasing, Completed, Available
<1>1. TypeOK'
  OBVIOUS
<1>2. GenerationsArePublished'
  BY DEF GenerationsArePublished
<1>3. CasIsLegal'
  BY DEF CasIsLegal
<1>4. ReleasedIsStale'
  BY DEF ReleasedIsStale, GenerationsArePublished
<1>5. CurrentClaimHoldsSlot'
  BY DEF CurrentClaimHoldsSlot, Claiming, Elected, GenerationsArePublished,
     CasIsLegal, ReleasedIsStale
<1>6. CurrentClaimIsUnique'
  BY DEF CurrentClaimIsUnique, Claiming, Elected, CurrentClaimHoldsSlot,
     GenerationsArePublished, CasIsLegal
<1>7. OneWorkerPerGeneration'
  BY DEF OneWorkerPerGeneration, Elected, CurrentClaimIsUnique, Claiming
<1>8. ClaimHasOwner'
  BY DEF ClaimHasOwner, ReleasedIsStale
<1> QED
  BY <1>1, <1>2, <1>3, <1>4, <1>5, <1>6, <1>7, <1>8 DEF IInv

(* The worker goes on only under its own generation.                       *)
LEMMA WorkerChecksStep ==
  ASSUME IInv, NEW r \in Runs, WorkerChecks(r)
  PROVE  IInv'
<1> USE GenerationBoundAssumption DEF IInv, WorkerChecks, IsCurrentGeneration,
  Move, TypeOK, Places, Working, Releasing, Completed, Available
<1>1. TypeOK'
  OBVIOUS
<1>2. GenerationsArePublished'
  BY DEF GenerationsArePublished
<1>3. CasIsLegal'
  BY DEF CasIsLegal
<1>4. ReleasedIsStale'
  BY DEF ReleasedIsStale, GenerationsArePublished
<1>5. CurrentClaimHoldsSlot'
  BY DEF CurrentClaimHoldsSlot, Claiming, Elected, GenerationsArePublished,
     CasIsLegal, ReleasedIsStale
<1>6. CurrentClaimIsUnique'
  BY DEF CurrentClaimIsUnique, Claiming, Elected, CurrentClaimHoldsSlot,
     GenerationsArePublished, CasIsLegal
<1>7. OneWorkerPerGeneration'
  BY DEF OneWorkerPerGeneration, Elected, CurrentClaimIsUnique, Claiming
<1>8. ClaimHasOwner'
  BY DEF ClaimHasOwner, ReleasedIsStale
<1> QED
  BY <1>1, <1>2, <1>3, <1>4, <1>5, <1>6, <1>7, <1>8 DEF IInv

(* The two reports change neither slot nor generation.                      *)
LEMMA WorkerReportsStep ==
  ASSUME IInv, NEW r \in Runs, WorkerReports(r)
  PROVE  IInv'
<1> USE GenerationBoundAssumption DEF IInv, WorkerReports, Move, TypeOK, Places,
  Working, Releasing, Completed, Available
<1>1. TypeOK'
  OBVIOUS
<1>2. GenerationsArePublished'
  BY DEF GenerationsArePublished
<1>3. CasIsLegal'
  BY DEF CasIsLegal
<1>4. ReleasedIsStale'
  BY DEF ReleasedIsStale, GenerationsArePublished
<1>5. CurrentClaimHoldsSlot'
  BY DEF CurrentClaimHoldsSlot, Claiming, Elected, GenerationsArePublished,
     CasIsLegal, ReleasedIsStale
<1>6. CurrentClaimIsUnique'
  BY DEF CurrentClaimIsUnique, Claiming, Elected, CurrentClaimHoldsSlot,
     GenerationsArePublished, CasIsLegal
<1>7. OneWorkerPerGeneration'
  BY DEF OneWorkerPerGeneration, Elected, CurrentClaimIsUnique, Claiming
<1>8. ClaimHasOwner'
  BY DEF ClaimHasOwner, ReleasedIsStale
<1> QED
  BY <1>1, <1>2, <1>3, <1>4, <1>5, <1>6, <1>7, <1>8 DEF IInv

(* A worker that dies keeps its claim.                                      *)
LEMMA WorkerPanicsStep ==
  ASSUME IInv, NEW r \in Runs, WorkerPanics(r)
  PROVE  IInv'
<1> USE GenerationBoundAssumption DEF IInv, WorkerPanics, Move, TypeOK, Places,
  Working, Releasing, Completed, Available
<1>1. TypeOK'
  OBVIOUS
<1>2. GenerationsArePublished'
  BY DEF GenerationsArePublished
<1>3. CasIsLegal'
  BY DEF CasIsLegal
<1>4. ReleasedIsStale'
  BY DEF ReleasedIsStale, GenerationsArePublished
<1>5. CurrentClaimHoldsSlot'
  BY DEF CurrentClaimHoldsSlot, Claiming, Elected, GenerationsArePublished,
     CasIsLegal, ReleasedIsStale
<1>6. CurrentClaimIsUnique'
  BY DEF CurrentClaimIsUnique, Claiming, Elected, CurrentClaimHoldsSlot,
     GenerationsArePublished, CasIsLegal
<1>7. OneWorkerPerGeneration'
  BY DEF OneWorkerPerGeneration, Elected, CurrentClaimIsUnique, Claiming
<1>8. ClaimHasOwner'
  BY DEF ClaimHasOwner, ReleasedIsStale
<1> QED
  BY <1>1, <1>2, <1>3, <1>4, <1>5, <1>6, <1>7, <1>8 DEF IInv

(* Completion turns a claim into COMPLETED and nothing else.                *)
LEMMA CompleteReportingStep ==
  ASSUME IInv, NEW r \in Runs, CompleteReporting(r)
  PROVE  IInv'
<1> USE GenerationBoundAssumption DEF IInv, CompleteReporting, Move, TypeOK,
  Places, Working, Releasing, Completed, Available
<1>1. TypeOK'
  <2>1. finished' \in SUBSET (0 .. MaxGeneration)
    BY Zenon DEF CompleteReporting, TypeOK
  <2> QED
    BY <2>1
<1>2. GenerationsArePublished'
  BY DEF GenerationsArePublished
<1>3. CasIsLegal'
  BY DEF CasIsLegal
<1>4. ReleasedIsStale'
  BY DEF ReleasedIsStale, GenerationsArePublished
<1>5. CurrentClaimHoldsSlot'
  BY DEF CurrentClaimHoldsSlot, Claiming, Elected, GenerationsArePublished,
     CasIsLegal, ReleasedIsStale
<1>6. CurrentClaimIsUnique'
  BY DEF CurrentClaimIsUnique, Claiming, Elected, CurrentClaimHoldsSlot,
     GenerationsArePublished, CasIsLegal
<1>7. OneWorkerPerGeneration'
  BY DEF OneWorkerPerGeneration, Elected, CurrentClaimIsUnique, Claiming
<1>8. ClaimHasOwner'
  BY DEF ClaimHasOwner, ReleasedIsStale
<1> QED
  BY <1>1, <1>2, <1>3, <1>4, <1>5, <1>6, <1>7, <1>8 DEF IInv

(* A claim on its way back is outdated, so the second look agrees.          *)
LEMMA CheckReleaseStep ==
  ASSUME IInv, NEW r \in Runs, CheckRelease(r)
  PROVE  IInv'
<1> USE GenerationBoundAssumption DEF IInv, CheckRelease, IsCurrentGeneration,
  Move, TypeOK, Places, Working, Releasing, Completed, Available
<1>1. TypeOK'
  OBVIOUS
<1>2. GenerationsArePublished'
  BY DEF GenerationsArePublished
<1>3. CasIsLegal'
  BY DEF CasIsLegal
<1>4. ReleasedIsStale'
  BY DEF ReleasedIsStale, GenerationsArePublished
<1>5. CurrentClaimHoldsSlot'
  BY DEF CurrentClaimHoldsSlot, Claiming, Elected, GenerationsArePublished,
     CasIsLegal, ReleasedIsStale
<1>6. CurrentClaimIsUnique'
  BY DEF CurrentClaimIsUnique, Claiming, Elected, CurrentClaimHoldsSlot,
     GenerationsArePublished, CasIsLegal
<1>7. OneWorkerPerGeneration'
  BY DEF OneWorkerPerGeneration, Elected, CurrentClaimIsUnique, Claiming
<1>8. ClaimHasOwner'
  BY DEF ClaimHasOwner, ReleasedIsStale
<1> QED
  BY <1>1, <1>2, <1>3, <1>4, <1>5, <1>6, <1>7, <1>8 DEF IInv

(* Only an outdated claim leaves the slot this way.                         *)
LEMMA ReleaseSlotStep ==
  ASSUME IInv, NEW r \in Runs, ReleaseSlot(r)
  PROVE  IInv'
<1> USE GenerationBoundAssumption DEF IInv, ReleaseSlot, Move, TypeOK, Places,
  Working, Releasing, Completed, Available
<1>1. TypeOK'
  OBVIOUS
<1>2. GenerationsArePublished'
  BY DEF GenerationsArePublished
<1>3. CasIsLegal'
  BY DEF CasIsLegal
<1>4. ReleasedIsStale'
  BY DEF ReleasedIsStale, GenerationsArePublished
<1>5. CurrentClaimHoldsSlot'
  BY DEF CurrentClaimHoldsSlot, Claiming, Elected, GenerationsArePublished,
     CasIsLegal, ReleasedIsStale
<1>6. CurrentClaimIsUnique'
  BY DEF CurrentClaimIsUnique, Claiming, Elected, CurrentClaimHoldsSlot,
     GenerationsArePublished, CasIsLegal
<1>7. OneWorkerPerGeneration'
  BY DEF OneWorkerPerGeneration, Elected, CurrentClaimIsUnique, Claiming
<1>8. ClaimHasOwner'
  BY DEF ClaimHasOwner, ReleasedIsStale
<1> QED
  BY <1>1, <1>2, <1>3, <1>4, <1>5, <1>6, <1>7, <1>8 DEF IInv

(* Every step of the specification, and stuttering, preserves the invariant. *)
LEMMA NextIInv == IInv /\ [Next]_reportingVars => IInv'
<1> SUFFICES ASSUME IInv, [Next]_reportingVars PROVE IInv'
  OBVIOUS
<1>1. CASE Settled \/ UNCHANGED reportingVars
  <2>1. UNCHANGED reportingVars
    BY <1>1 DEF Settled
  <2> USE <2>1 DEF reportingVars, IInv
  <2>2. TypeOK'
    BY DEF TypeOK
  <2>3. GenerationsArePublished' /\ CasIsLegal' /\ ReleasedIsStale'
    BY DEF GenerationsArePublished, CasIsLegal, ReleasedIsStale
  <2>4. CurrentClaimHoldsSlot' /\ CurrentClaimIsUnique'
    BY DEF CurrentClaimHoldsSlot, CurrentClaimIsUnique, Claiming, Elected
  <2>5. OneWorkerPerGeneration' /\ ClaimHasOwner'
    BY DEF OneWorkerPerGeneration, ClaimHasOwner, Elected
  <2> QED
    BY <2>2, <2>3, <2>4, <2>5
<1>2. CASE PublishGeneration
  BY <1>2, PublishGenerationStep
<1>3. CASE ResetReporting
  BY <1>3, ResetReportingStep
<1>4. ASSUME NEW r \in Runs, NEW g \in ReadableGenerations, Begin(r, g)
      PROVE  IInv'
  BY <1>4, BeginStep
<1>5. ASSUME NEW r \in Runs, FollowUpStep(r) PROVE IInv'
  BY <1>5, LoadSlotStep, ClaimSlotStep, CheckClaimStep, WorkerChecksStep,
     WorkerReportsStep, CompleteReportingStep, CheckReleaseStep, ReleaseSlotStep
     DEF FollowUpStep
<1>6. ASSUME NEW r \in Runs, WorkerPanics(r) PROVE IInv'
  BY <1>6, WorkerPanicsStep
<1> QED
  BY <1>1, <1>2, <1>3, <1>4, <1>5, <1>6 DEF Next

(* The inductive invariant holds in every reachable state, for any number of *)
(* follow-ups and any bound on the generations.                              *)
THEOREM ReportingInvariance == Spec => []IInv
  BY InitIInv, NextIInv, PTL DEF Spec

(* try_begin_missing_env_reporting elects at most one worker for each        *)
(* generation, and no claim of the slot is ever forgotten, however loads,    *)
(* exchanges, resets and releases of any number of follow-ups interleave.    *)
THEOREM WorkersAreElectedOnce == Spec => [](OneWorkerPerGeneration /\ ClaimHasOwner)
<1>1. IInv => OneWorkerPerGeneration /\ ClaimHasOwner
  BY DEF IInv
<1> QED
  BY <1>1, ReportingInvariance, PTL

(* The claim of the current generation is taken away by nobody: the slot     *)
(* leaves it only for COMPLETED or by the reset of a new configuration.      *)
THEOREM CurrentClaimsAreKept == Spec => CurrentClaimIsKept
<1> DEFINE Kept == slot = generation /\ slot' # slot /\ ~publishing => slot' =
  Completed
<1>1. ASSUME IInv, [Next]_reportingVars PROVE Kept \/ UNCHANGED reportingVars
  <2> SUFFICES ASSUME slot = generation, slot' # slot, ~publishing
      PROVE  slot' = Completed
    OBVIOUS
  <2> USE <1>1, GenerationBoundAssumption DEF IInv, TypeOK, Completed, Available
  <2>1. CASE UNCHANGED slot
    BY <2>1
  <2>2. ASSUME NEW r \in Runs, ClaimSlot(r) PROVE slot' = Completed
    BY <2>2 DEF ClaimSlot, CasIsLegal, GenerationsArePublished
  <2>3. ASSUME NEW r \in Runs, CompleteReporting(r) PROVE slot' = Completed
    BY <2>3 DEF CompleteReporting
  <2>4. ASSUME NEW r \in Runs, ReleaseSlot(r) PROVE slot' = Completed
    BY <2>4 DEF ReleaseSlot, ReleasedIsStale, Releasing
  <2>5. CASE ResetReporting
    BY <2>5 DEF ResetReporting
  <2> QED
    BY <2>1, <2>2, <2>3, <2>4, <2>5 DEF Next, FollowUpStep, PublishGeneration,
       Begin, LoadSlot, CheckClaim, WorkerChecks, WorkerReports, WorkerPanics,
       CheckRelease, IsCurrentGeneration, Settled, reportingVars, slotVars
<1> QED
  BY <1>1, ReportingInvariance, PTL DEF Spec, CurrentClaimIsKept
=============================================================================
