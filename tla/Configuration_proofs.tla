------------------------ MODULE Configuration_proofs ------------------------
(***************************************************************************)
(* Proofs about reconfiguration, for any number of requests and locators.   *)
(* MutexHasOneHolder makes one configure at a time the only writer of the   *)
(* locators, so that what it read in phase A is still true in phase C       *)
(* (SnapshotIsCurrent) and the locators are accounted for at every turn of  *)
(* its loops (LocatorsFollowLoops).  ReadersAreCurrent is what the read     *)
(* lock gives the reporter and the sync: a generation that was compared     *)
(* under the lock stays current until the lock is released.                 *)
(* RefreshesKeepUp orders the snapshots of a refresh after its waits and    *)
(* says how far a sync is.                                                  *)
(***************************************************************************)
EXTENDS Configuration, TLAPS

(* A counter below its bound may be counted up, one above zero down.        *)
LEMMA CountersStayInRange ==
  ASSUME NEW m \in Nat, NEW n \in Nat, n <= m
  PROVE  /\ n < m => n + 1 \in 0 .. m
         /\ n > 0 => n - 1 \in 0 .. m
  OBVIOUS

(* The initial state satisfies the invariant: nothing is configured.        *)
LEMMA InitIInv == Init => IInv
<1> SUFFICES ASSUME Init PROVE IInv
  OBVIOUS
<1> USE ConfigurationAssumption DEF Init, Configs
<1>1. TypeOK
  <2>1. aborted \in BOOLEAN
    BY Zenon
  <2>2. cpc \in [Configures -> ConfigurePlaces] /\ rpc \in [Refreshes ->
    RefreshPlaces]
    BY DEF ConfigurePlaces, RefreshPlaces
  <2>3. fpc \in [Finds -> {"idle", "searching"}]
    OBVIOUS
  <2> QED
    BY <2>1, <2>2, <2>3 DEF TypeOK
<1>2. MutexHasOneHolder
  BY SMTT(40) DEF MutexHasOneHolder, Holding
<1>3. SnapshotIsCurrent /\ PublishedByPhaseC
  BY SMTT(40) DEF SnapshotIsCurrent, PublishedByPhaseC, Preparing
<1>4. LoopsAreInRange
  BY SMTT(40) DEF LoopsAreInRange
<1>5. LocatorsFollowLoops /\ ReadersAreCurrent /\ RefreshesKeepUp
  BY SMTT(40) DEF LocatorsFollowLoops, ReadersAreCurrent, RefreshesKeepUp
<1> QED
  BY <1>1, <1>2, <1>3, <1>4, <1>5 DEF IInv

(* A configure that is not in phase C leaves the refreshes alone.            *)
LEMMA RefreshesStutter ==
  ASSUME RefreshesKeepUp, UNCHANGED <<generation, refreshVars>>
  PROVE  RefreshesKeepUp'
  BY DEF RefreshesKeepUp, refreshVars, LocatorIndex

(* A request that arrives holds nothing.                                    *)
LEMMA ReceiveConfigureStep ==
  ASSUME IInv, NEW c \in Configures, ReceiveConfigure(c)
  PROVE  IInv'
<1> USE ConfigurationAssumption DEF IInv, TypeOK, Configs, LocatorIndex,
  ReceiveConfigure, stateVars, refreshVars, GotoC, ConfigurePlaces
<1>1. TypeOK'
  OBVIOUS
<1>2. MutexHasOneHolder'
  BY SMTT(40) DEF MutexHasOneHolder, Holding
<1>3. SnapshotIsCurrent'
  BY SMTT(40) DEF SnapshotIsCurrent, Preparing, MutexHasOneHolder, Holding
<1>4. PublishedByPhaseC'
  BY SMTT(40) DEF PublishedByPhaseC, SnapshotIsCurrent, Preparing
<1>5. LoopsAreInRange'
  BY SMTT(40) DEF LoopsAreInRange
<1>6. LocatorsFollowLoops'
  BY SMTT(40) DEF LocatorsFollowLoops, Preparing, Holding, MutexHasOneHolder,
     SnapshotIsCurrent, LoopsAreInRange, PublishedByPhaseC
<1>7. ReadersAreCurrent'
  BY SMTT(40) DEF ReadersAreCurrent, SnapshotIsCurrent, Preparing
<1>8. RefreshesKeepUp'
  BY RefreshesStutter
<1> QED
  BY <1>1, <1>2, <1>3, <1>4, <1>5, <1>6, <1>7, <1>8 DEF IInv

(* A request with bad options ends without having done anything.            *)
LEMMA RejectConfigureStep ==
  ASSUME IInv, NEW c \in Configures, RejectConfigure(c)
  PROVE  IInv'
<1> USE ConfigurationAssumption DEF IInv, TypeOK, Configs, LocatorIndex,
  RejectConfigure, stateVars, refreshVars, GotoC, ConfigurePlaces
<1>1. TypeOK'
  OBVIOUS
<1>2. MutexHasOneHolder'
  BY SMTT(40) DEF MutexHasOneHolder, Holding
<1>3. SnapshotIsCurrent'
  BY SMTT(40) DEF SnapshotIsCurrent, Preparing, MutexHasOneHolder, Holding
<1>4. PublishedByPhaseC'
  BY SMTT(40) DEF PublishedByPhaseC, SnapshotIsCurrent, Preparing
<1>5. LoopsAreInRange'
  BY SMTT(40) DEF LoopsAreInRange
<1>6. LocatorsFollowLoops'
  BY SMTT(40) DEF LocatorsFollowLoops, Preparing, Holding, MutexHasOneHolder,
     SnapshotIsCurrent, LoopsAreInRange, PublishedByPhaseC
<1>7. ReadersAreCurrent'
  BY SMTT(40) DEF ReadersAreCurrent, SnapshotIsCurrent, Preparing
<1>8. RefreshesKeepUp'
  BY RefreshesStutter
<1> QED
  BY <1>1, <1>2, <1>3, <1>4, <1>5, <1>6, <1>7, <1>8 DEF IInv

(* The mutex is taken only when it is free.                                 *)
LEMMA LockConfigureStep ==
  ASSUME IInv, NEW c \in Configures, LockConfigure(c)
  PROVE  IInv'
<1> USE ConfigurationAssumption DEF IInv, TypeOK, Configs, LocatorIndex,
  LockConfigure, stateVars, refreshVars, GotoC, ConfigurePlaces
<1>1. TypeOK'
  OBVIOUS
<1>2. MutexHasOneHolder'
  BY SMTT(40) DEF MutexHasOneHolder, Holding
<1>3. SnapshotIsCurrent'
  BY SMTT(40) DEF SnapshotIsCurrent, Preparing, MutexHasOneHolder, Holding
<1>4. PublishedByPhaseC'
  BY SMTT(40) DEF PublishedByPhaseC, SnapshotIsCurrent, Preparing
<1>5. LoopsAreInRange'
  BY SMTT(40) DEF LoopsAreInRange
<1>6. LocatorsFollowLoops'
  BY SMTT(40) DEF LocatorsFollowLoops, Preparing, Holding, MutexHasOneHolder,
     SnapshotIsCurrent, LoopsAreInRange, PublishedByPhaseC
<1>7. ReadersAreCurrent'
  BY SMTT(40) DEF ReadersAreCurrent, SnapshotIsCurrent, Preparing
<1>8. RefreshesKeepUp'
  BY RefreshesStutter
<1> QED
  BY <1>1, <1>2, <1>3, <1>4, <1>5, <1>6, <1>7, <1>8 DEF IInv

(* Phase A reads the state that stays until this configure publishes.       *)
LEMMA PrepareStep ==
  ASSUME IInv, NEW c \in Configures, Prepare(c)
  PROVE  IInv'
<1> USE ConfigurationAssumption DEF IInv, TypeOK, Configs, LocatorIndex,
  Prepare, stateVars, refreshVars, GotoC, ConfigurePlaces, CanRead
<1>1. TypeOK'
  <2>1. next' \in [Configures -> Nat]
    BY DEF LoopsAreInRange
  <2> QED
    BY <2>1
<1>2. MutexHasOneHolder'
  BY SMTT(40) DEF MutexHasOneHolder, Holding
<1>3. SnapshotIsCurrent'
  BY SMTT(40) DEF SnapshotIsCurrent, Preparing, MutexHasOneHolder, Holding
<1>4. PublishedByPhaseC'
  BY SMTT(40) DEF PublishedByPhaseC, SnapshotIsCurrent, Preparing
<1>5. LoopsAreInRange'
  BY SMTT(40) DEF LoopsAreInRange
<1>6. LocatorsFollowLoops'
  BY SMTT(40) DEF LocatorsFollowLoops, Preparing, Holding, MutexHasOneHolder,
     SnapshotIsCurrent, LoopsAreInRange, PublishedByPhaseC
<1>7. ReadersAreCurrent'
  BY SMTT(40) DEF ReadersAreCurrent, SnapshotIsCurrent, Preparing
<1>8. RefreshesKeepUp'
  BY RefreshesStutter
<1> QED
  BY <1>1, <1>2, <1>3, <1>4, <1>5, <1>6, <1>7, <1>8 DEF IInv

(* Phase B: one more locator has the new configuration.                     *)
LEMMA ConfigureLocatorStep ==
  ASSUME IInv, NEW c \in Configures, ConfigureLocator(c)
  PROVE  IInv'
<1> USE ConfigurationAssumption DEF IInv, TypeOK, Configs, LocatorIndex,
  ConfigureLocator, stateVars, refreshVars, GotoC, ConfigurePlaces
<1>1. TypeOK'
  <2>1. count[c] + 1 \in 0 .. NumLocators
    BY SMTT(40) DEF LoopsAreInRange
  <2>2. count' \in [Configures -> 0 .. NumLocators]
    BY SMTT(40) DEF LoopsAreInRange
  <2>3. cpc' \in [Configures -> ConfigurePlaces]
    BY DEF LoopsAreInRange
  <2> QED
    BY <2>1, <2>2, <2>3
<1>2. MutexHasOneHolder'
  BY SMTT(40) DEF MutexHasOneHolder, Holding
<1>3. SnapshotIsCurrent'
  BY SMTT(40) DEF SnapshotIsCurrent, Preparing, MutexHasOneHolder, Holding
<1>4. PublishedByPhaseC'
  BY SMTT(40) DEF PublishedByPhaseC, SnapshotIsCurrent, Preparing
<1>5. LoopsAreInRange'
  BY SMTT(40) DEF LoopsAreInRange
<1>6. LocatorsFollowLoops'
  <2>1. /\ mutex = c /\ mutex' = c /\ c # Default
        /\ cpc'[c] \in {"locators", "cache"} /\ config' = config
        /\ count[c] \in Nat /\ count'[c] = count[c] + 1
    BY DEF MutexHasOneHolder, Holding
  <2>2. \A l \in LocatorIndex : locConfig[l] = IF l <= count[c] THEN c ELSE config
    BY <2>1 DEF LocatorsFollowLoops
  <2>3. \A l \in LocatorIndex : locConfig'[l] = IF l <= count'[c] THEN c ELSE config
    BY <2>1, <2>2
  <2> QED
    BY <2>1, <2>3 DEF LocatorsFollowLoops, Preparing
<1>7. ReadersAreCurrent'
  BY SMTT(40) DEF ReadersAreCurrent, SnapshotIsCurrent, Preparing
<1>8. RefreshesKeepUp'
  BY RefreshesStutter
<1> QED
  BY <1>1, <1>2, <1>3, <1>4, <1>5, <1>6, <1>7, <1>8 DEF IInv

(* The locator that panicked is among those to be rolled back.              *)
LEMMA LocatorPanicsStep ==
  ASSUME IInv, NEW c \in Configures, LocatorPanics(c)
  PROVE  IInv'
<1> USE ConfigurationAssumption DEF IInv, TypeOK, Configs, LocatorIndex,
  LocatorPanics, stateVars, refreshVars, GotoC, ConfigurePlaces, LocatorTakes
<1>1. TypeOK'
  <2>1. count[c] + 1 \in 0 .. NumLocators
    BY SMTT(40) DEF LoopsAreInRange
  <2>2. count' \in [Configures -> 0 .. NumLocators]
    BY SMTT(40) DEF LoopsAreInRange
  <2>3. locConfig' \in [LocatorIndex -> Configs]
    BY SMTT(40) DEF LoopsAreInRange
  <2> QED
    BY <2>1, <2>2, <2>3
<1>2. MutexHasOneHolder'
  BY SMTT(40) DEF MutexHasOneHolder, Holding
<1>3. SnapshotIsCurrent'
  BY SMTT(40) DEF SnapshotIsCurrent, Preparing, MutexHasOneHolder, Holding
<1>4. PublishedByPhaseC'
  BY SMTT(40) DEF PublishedByPhaseC, SnapshotIsCurrent, Preparing
<1>5. LoopsAreInRange'
  BY SMTT(40) DEF LoopsAreInRange
<1>6. LocatorsFollowLoops'
  BY SMTT(40) DEF LocatorsFollowLoops, Preparing, Holding, MutexHasOneHolder,
     SnapshotIsCurrent, LoopsAreInRange, PublishedByPhaseC
<1>7. ReadersAreCurrent'
  BY SMTT(40) DEF ReadersAreCurrent, SnapshotIsCurrent, Preparing
<1>8. RefreshesKeepUp'
  BY RefreshesStutter
<1> QED
  BY <1>1, <1>2, <1>3, <1>4, <1>5, <1>6, <1>7, <1>8 DEF IInv

(* Nothing can fail between the cache directory and the publication.        *)
LEMMA SetCacheDirectoryStep ==
  ASSUME IInv, NEW c \in Configures, SetCacheDirectory(c)
  PROVE  IInv'
<1> USE ConfigurationAssumption DEF IInv, TypeOK, Configs, LocatorIndex,
  SetCacheDirectory, stateVars, refreshVars, GotoC, ConfigurePlaces
<1>1. TypeOK'
  OBVIOUS
<1>2. MutexHasOneHolder'
  BY SMTT(40) DEF MutexHasOneHolder, Holding
<1>3. SnapshotIsCurrent'
  BY SMTT(40) DEF SnapshotIsCurrent, Preparing, MutexHasOneHolder, Holding
<1>4. PublishedByPhaseC'
  BY SMTT(40) DEF PublishedByPhaseC, SnapshotIsCurrent, Preparing
<1>5. LoopsAreInRange'
  BY SMTT(40) DEF LoopsAreInRange
<1>6. LocatorsFollowLoops'
  BY SMTT(40) DEF LocatorsFollowLoops, Preparing, Holding, MutexHasOneHolder,
     SnapshotIsCurrent, LoopsAreInRange, PublishedByPhaseC
<1>7. ReadersAreCurrent'
  BY SMTT(40) DEF ReadersAreCurrent, SnapshotIsCurrent, Preparing
<1>8. RefreshesKeepUp'
  BY RefreshesStutter
<1> QED
  BY <1>1, <1>2, <1>3, <1>4, <1>5, <1>6, <1>7, <1>8 DEF IInv

(* A failure there rolls back every locator.                                *)
LEMMA CacheDirectoryPanicsStep ==
  ASSUME IInv, NEW c \in Configures, CacheDirectoryPanics(c)
  PROVE  IInv'
<1> USE ConfigurationAssumption DEF IInv, TypeOK, Configs, LocatorIndex,
  CacheDirectoryPanics, stateVars, refreshVars, GotoC, ConfigurePlaces
<1>1. TypeOK'
  OBVIOUS
<1>2. MutexHasOneHolder'
  BY SMTT(40) DEF MutexHasOneHolder, Holding
<1>3. SnapshotIsCurrent'
  BY SMTT(40) DEF SnapshotIsCurrent, Preparing, MutexHasOneHolder, Holding
<1>4. PublishedByPhaseC'
  BY SMTT(40) DEF PublishedByPhaseC, SnapshotIsCurrent, Preparing
<1>5. LoopsAreInRange'
  BY SMTT(40) DEF LoopsAreInRange
<1>6. LocatorsFollowLoops'
  BY SMTT(40) DEF LocatorsFollowLoops, Preparing, Holding, MutexHasOneHolder,
     SnapshotIsCurrent, LoopsAreInRange, PublishedByPhaseC
<1>7. ReadersAreCurrent'
  BY SMTT(40) DEF ReadersAreCurrent, SnapshotIsCurrent, Preparing
<1>8. RefreshesKeepUp'
  BY RefreshesStutter
<1> QED
  BY <1>1, <1>2, <1>3, <1>4, <1>5, <1>6, <1>7, <1>8 DEF IInv

(* Phase C: all locators already have the configuration that is published,  *)
(* and no reader keeps the lock.                                            *)
LEMMA PublishStep ==
  ASSUME IInv, NEW c \in Configures, Publish(c)
  PROVE  IInv'
<1> USE ConfigurationAssumption DEF IInv, TypeOK, Configs, LocatorIndex,
  Publish, stateVars, refreshVars, GotoC, ConfigurePlaces, CanWrite
<1>1. TypeOK'
  OBVIOUS
<1>2. MutexHasOneHolder'
  BY SMTT(40) DEF MutexHasOneHolder, Holding
<1>3. SnapshotIsCurrent'
  BY SMTT(40) DEF SnapshotIsCurrent, Preparing, MutexHasOneHolder, Holding
<1>4. PublishedByPhaseC'
  BY SMTT(40) DEF PublishedByPhaseC, SnapshotIsCurrent, Preparing
<1>5. LoopsAreInRange'
  BY SMTT(40) DEF LoopsAreInRange
<1>6. LocatorsFollowLoops'
  BY SMTT(40) DEF LocatorsFollowLoops, Preparing, Holding, MutexHasOneHolder,
     SnapshotIsCurrent, LoopsAreInRange, PublishedByPhaseC
<1>7. ReadersAreCurrent'
  <2>1. generation' = generation + 1 /\ generation \in Nat
    BY DEF SnapshotIsCurrent, Preparing
  <2>2. UNCHANGED <<gen, emitting, rpc, acked, locState>>
    OBVIOUS
  <2>3. \A r \in Refreshes : emitting[r] = 0 /\ rpc[r] # "syncing"
    OBVIOUS
  <2>4. /\ gen \in [Refreshes -> Nat] /\ acked \in Nat
        /\ locState \in [LocatorIndex -> Nat]
        /\ emitting \in [Refreshes -> 0 .. MaxReporters]
    OBVIOUS
  <2>5. ReadersAreCurrent
    OBVIOUS
  <2> HIDE DEF IInv, TypeOK, Configs, LocatorIndex, Publish, ConfigurePlaces,
    CanWrite
  <2>6. \A r \in Refreshes :
          /\ gen'[r] <= generation'
          /\ ~(emitting'[r] > 0) /\ rpc'[r] # "syncing"
    BY <2>1, <2>2, <2>3, <2>4, <2>5 DEF ReadersAreCurrent
  <2>7. acked' <= generation' /\ \A l \in LocatorIndex : locState'[l] <= generation'
    BY <2>1, <2>2, <2>4, <2>5 DEF ReadersAreCurrent
  <2>8. LocatorIndex' = LocatorIndex
    BY DEF LocatorIndex
  <2> QED
    BY <2>6, <2>7, <2>8 DEF ReadersAreCurrent
<1>8. RefreshesKeepUp'
  BY SMTT(40) DEF RefreshesKeepUp, SnapshotIsCurrent, Preparing
<1> QED
  BY <1>1, <1>2, <1>3, <1>4, <1>5, <1>6, <1>7, <1>8 DEF IInv

(* One more locator has its previous configuration back.                    *)
LEMMA RollbackLocatorStep ==
  ASSUME IInv, NEW c \in Configures, RollbackLocator(c)
  PROVE  IInv'
<1> USE ConfigurationAssumption DEF IInv, TypeOK, Configs, LocatorIndex,
  RollbackLocator, stateVars, refreshVars, GotoC, ConfigurePlaces
<1>1. TypeOK'
  <2>1. undone[c] + 1 \in 0 .. NumLocators
    BY SMTT(40) DEF LoopsAreInRange
  <2>2. undone' \in [Configures -> 0 .. NumLocators]
    BY SMTT(40) DEF LoopsAreInRange
  <2>3. locConfig' \in [LocatorIndex -> Configs]
    BY SMTT(40) DEF LoopsAreInRange
  <2> QED
    BY <2>1, <2>2, <2>3
<1>2. MutexHasOneHolder'
  BY SMTT(40) DEF MutexHasOneHolder, Holding
<1>3. SnapshotIsCurrent'
  BY SMTT(40) DEF SnapshotIsCurrent, Preparing, MutexHasOneHolder, Holding
<1>4. PublishedByPhaseC'
  BY SMTT(40) DEF PublishedByPhaseC, SnapshotIsCurrent, Preparing
<1>5. LoopsAreInRange'
  BY SMTT(40) DEF LoopsAreInRange
<1>6. LocatorsFollowLoops'
  BY SMTT(40) DEF LocatorsFollowLoops, Preparing, Holding, MutexHasOneHolder,
     SnapshotIsCurrent, LoopsAreInRange, PublishedByPhaseC
<1>7. ReadersAreCurrent'
  BY SMTT(40) DEF ReadersAreCurrent, SnapshotIsCurrent, Preparing
<1>8. RefreshesKeepUp'
  BY RefreshesStutter
<1> QED
  BY <1>1, <1>2, <1>3, <1>4, <1>5, <1>6, <1>7, <1>8 DEF IInv

(* The process is aborted in the middle of a rollback.                      *)
LEMMA RollbackPanicsStep ==
  ASSUME IInv, NEW c \in Configures, RollbackPanics(c)
  PROVE  IInv'
<1> USE ConfigurationAssumption DEF IInv, TypeOK, Configs, LocatorIndex,
  RollbackPanics, stateVars, refreshVars, GotoC, ConfigurePlaces
<1>1. TypeOK'
  BY Zenon
<1>2. MutexHasOneHolder'
  BY SMTT(40) DEF MutexHasOneHolder, Holding
<1>3. SnapshotIsCurrent'
  BY SMTT(40) DEF SnapshotIsCurrent, Preparing, MutexHasOneHolder, Holding
<1>4. PublishedByPhaseC'
  BY SMTT(40) DEF PublishedByPhaseC, SnapshotIsCurrent, Preparing
<1>5. LoopsAreInRange'
  BY SMTT(40) DEF LoopsAreInRange
<1>6. LocatorsFollowLoops'
  BY SMTT(40) DEF LocatorsFollowLoops, Preparing, Holding, MutexHasOneHolder,
     SnapshotIsCurrent, LoopsAreInRange, PublishedByPhaseC
<1>7. ReadersAreCurrent'
  BY SMTT(40) DEF ReadersAreCurrent, SnapshotIsCurrent, Preparing
<1>8. RefreshesKeepUp'
  BY RefreshesStutter
<1> QED
  BY <1>1, <1>2, <1>3, <1>4, <1>5, <1>6, <1>7, <1>8 DEF IInv

(* The mutex is released with all locators in agreement.                    *)
LEMMA UnlockConfigureStep ==
  ASSUME IInv, NEW c \in Configures, UnlockConfigure(c)
  PROVE  IInv'
<1> USE ConfigurationAssumption DEF IInv, TypeOK, Configs, LocatorIndex,
  UnlockConfigure, stateVars, refreshVars, GotoC, ConfigurePlaces
<1>1. TypeOK'
  OBVIOUS
<1>2. MutexHasOneHolder'
  BY SMTT(40) DEF MutexHasOneHolder, Holding
<1>3. SnapshotIsCurrent'
  BY SMTT(40) DEF SnapshotIsCurrent, Preparing, MutexHasOneHolder, Holding
<1>4. PublishedByPhaseC'
  BY SMTT(40) DEF PublishedByPhaseC, SnapshotIsCurrent, Preparing
<1>5. LoopsAreInRange'
  BY SMTT(40) DEF LoopsAreInRange
<1>6. LocatorsFollowLoops'
  BY SMTT(40) DEF LocatorsFollowLoops, Preparing, Holding, MutexHasOneHolder,
     SnapshotIsCurrent, LoopsAreInRange, PublishedByPhaseC
<1>7. ReadersAreCurrent'
  BY SMTT(40) DEF ReadersAreCurrent, SnapshotIsCurrent, Preparing
<1>8. RefreshesKeepUp'
  BY RefreshesStutter
<1> QED
  BY <1>1, <1>2, <1>3, <1>4, <1>5, <1>6, <1>7, <1>8 DEF IInv

(* The client is told of a generation that is published.                    *)
LEMMA AnswerConfigureStep ==
  ASSUME IInv, NEW c \in Configures, AnswerConfigure(c)
  PROVE  IInv'
<1> USE ConfigurationAssumption DEF IInv, TypeOK, Configs, LocatorIndex,
  AnswerConfigure, stateVars, refreshVars, GotoC, ConfigurePlaces
<1>1. TypeOK'
  BY DEF SnapshotIsCurrent
<1>2. MutexHasOneHolder'
  BY SMTT(40) DEF MutexHasOneHolder, Holding
<1>3. SnapshotIsCurrent'
  BY SMTT(40) DEF SnapshotIsCurrent, Preparing, MutexHasOneHolder, Holding
<1>4. PublishedByPhaseC'
  BY SMTT(40) DEF PublishedByPhaseC, SnapshotIsCurrent, Preparing
<1>5. LoopsAreInRange'
  BY SMTT(40) DEF LoopsAreInRange
<1>6. LocatorsFollowLoops'
  BY SMTT(40) DEF LocatorsFollowLoops, Preparing, Holding, MutexHasOneHolder,
     SnapshotIsCurrent, LoopsAreInRange, PublishedByPhaseC
<1>7. ReadersAreCurrent'
  BY SMTT(40) DEF ReadersAreCurrent, SnapshotIsCurrent, Preparing
<1>8. RefreshesKeepUp'
  BY RefreshesStutter
<1> QED
  BY <1>1, <1>2, <1>3, <1>4, <1>5, <1>6, <1>7, <1>8 DEF IInv

(* A refresh leaves the configure requests and their locks alone.            *)
LEMMA ConfiguresStutter ==
  ASSUME IInv, UNCHANGED <<stateVars, configureVars>>
  PROVE  /\ MutexHasOneHolder' /\ SnapshotIsCurrent'
         /\ PublishedByPhaseC' /\ LocatorsFollowLoops'
<1>1. MutexHasOneHolder' /\ SnapshotIsCurrent' /\ PublishedByPhaseC'
  BY SMTT(40) DEF IInv, stateVars, configureVars, MutexHasOneHolder, SnapshotIsCurrent,
     PublishedByPhaseC
<1>2. LocatorsFollowLoops'
  BY SMTT(40) DEF IInv, stateVars, configureVars, LocatorsFollowLoops, LocatorIndex
<1> QED
  BY <1>1, <1>2

(* A clone of the configuration state has the published generation.         *)
LEMMA SnapshotConfigurationStep ==
  ASSUME IInv, NEW r \in Refreshes, SnapshotConfiguration(r)
  PROVE  IInv'
<1> USE ConfigurationAssumption DEF IInv, TypeOK, LocatorIndex,
  SnapshotConfiguration, GotoR, RefreshPlaces
<1>1. TypeOK'
  BY DEF stateVars, configureVars, Configs
<1>2. /\ MutexHasOneHolder' /\ SnapshotIsCurrent'
      /\ PublishedByPhaseC' /\ LocatorsFollowLoops'
  BY ConfiguresStutter
<1>3. LoopsAreInRange'
  BY SMTT(40) DEF LoopsAreInRange, configureVars
<1>4. ReadersAreCurrent'
  BY SMTT(40) DEF ReadersAreCurrent, stateVars, configureVars
<1>5. RefreshesKeepUp'
  BY SMTT(40) DEF RefreshesKeepUp, ReadersAreCurrent, stateVars
<1> QED
  BY <1>1, <1>2, <1>3, <1>4, <1>5 DEF IInv

(* The request registers, with a clone that may be old by now.              *)
LEMMA RegisterRequestStep ==
  ASSUME IInv, NEW r \in Refreshes, RegisterRequest(r)
  PROVE  IInv'
<1> USE ConfigurationAssumption DEF IInv, TypeOK, LocatorIndex,
  RegisterRequest, GotoR, RefreshPlaces
<1>1. TypeOK'
  BY DEF stateVars, configureVars, Configs
<1>2. /\ MutexHasOneHolder' /\ SnapshotIsCurrent'
      /\ PublishedByPhaseC' /\ LocatorsFollowLoops'
  BY ConfiguresStutter
<1>3. LoopsAreInRange'
  BY SMTT(40) DEF LoopsAreInRange, configureVars
<1>4. ReadersAreCurrent'
  BY SMTT(40) DEF ReadersAreCurrent, stateVars, configureVars
<1>5. RefreshesKeepUp'
  BY SMTT(40) DEF RefreshesKeepUp, ReadersAreCurrent, stateVars
<1> QED
  BY <1>1, <1>2, <1>3, <1>4, <1>5 DEF IInv

(* After a wait the request has no clone.                                   *)
LEMMA WaitUntilIdleStep ==
  ASSUME IInv, NEW r \in Refreshes, WaitUntilIdle(r)
  PROVE  IInv'
<1> USE ConfigurationAssumption DEF IInv, TypeOK, LocatorIndex,
  WaitUntilIdle, GotoR, RefreshPlaces
<1>1. TypeOK'
  BY DEF stateVars, configureVars, Configs
<1>2. /\ MutexHasOneHolder' /\ SnapshotIsCurrent'
      /\ PublishedByPhaseC' /\ LocatorsFollowLoops'
  BY ConfiguresStutter
<1>3. LoopsAreInRange'
  BY SMTT(40) DEF LoopsAreInRange, configureVars
<1>4. ReadersAreCurrent'
  BY SMTT(40) DEF ReadersAreCurrent, stateVars, configureVars
<1>5. RefreshesKeepUp'
  BY SMTT(40) DEF RefreshesKeepUp, ReadersAreCurrent, stateVars
<1> QED
  BY <1>1, <1>2, <1>3, <1>4, <1>5 DEF IInv

(* A notification is begun only under the refresh's own generation.         *)
LEMMA ReportIfCurrentStep ==
  ASSUME IInv, NEW r \in Refreshes, ReportIfCurrent(r)
  PROVE  IInv'
<1> USE ConfigurationAssumption DEF IInv, TypeOK, LocatorIndex,
  ReportIfCurrent, GotoR, RefreshPlaces
<1>1. TypeOK'
  <2>1. emitting[r] \in Nat /\ emitting[r] <= MaxReporters /\ emitting[r] < MaxReporters
    OBVIOUS
  <2>2. emitting[r] + 1 \in 0 .. MaxReporters
    BY <2>1, CountersStayInRange
  <2>3. emitting' \in [Refreshes -> 0 .. MaxReporters]
    BY <2>2
  <2> QED
    BY <2>3 DEF stateVars, configureVars, Configs
<1>2. /\ MutexHasOneHolder' /\ SnapshotIsCurrent'
      /\ PublishedByPhaseC' /\ LocatorsFollowLoops'
  BY ConfiguresStutter
<1>3. LoopsAreInRange'
  BY SMTT(40) DEF LoopsAreInRange, configureVars
<1>4. ReadersAreCurrent'
  BY SMTT(40) DEF ReadersAreCurrent, stateVars, configureVars
<1>5. RefreshesKeepUp'
  BY SMTT(40) DEF RefreshesKeepUp, ReadersAreCurrent, stateVars
<1> QED
  BY <1>1, <1>2, <1>3, <1>4, <1>5 DEF IInv

(* The read lock is released when the notification is out.                  *)
LEMMA NotificationWrittenStep ==
  ASSUME IInv, NEW r \in Refreshes, NotificationWritten(r)
  PROVE  IInv'
<1> USE ConfigurationAssumption DEF IInv, TypeOK, LocatorIndex,
  NotificationWritten, GotoR, RefreshPlaces
<1>1. TypeOK'
  <2>1. emitting[r] \in Nat /\ emitting[r] <= MaxReporters /\ emitting[r] > 0
    OBVIOUS
  <2>2. emitting[r] - 1 \in 0 .. MaxReporters
    BY <2>1, CountersStayInRange
  <2>3. emitting' \in [Refreshes -> 0 .. MaxReporters]
    BY <2>2
  <2> QED
    BY <2>3 DEF stateVars, configureVars, Configs
<1>2. /\ MutexHasOneHolder' /\ SnapshotIsCurrent'
      /\ PublishedByPhaseC' /\ LocatorsFollowLoops'
  BY ConfiguresStutter
<1>3. LoopsAreInRange'
  BY SMTT(40) DEF LoopsAreInRange, configureVars
<1>4. ReadersAreCurrent'
  BY SMTT(40) DEF ReadersAreCurrent, stateVars, configureVars
<1>5. RefreshesKeepUp'
  BY SMTT(40) DEF RefreshesKeepUp, ReadersAreCurrent, stateVars
<1> QED
  BY <1>1, <1>2, <1>3, <1>4, <1>5 DEF IInv

(* A sync is begun only under the refresh's own generation.                 *)
LEMMA BeginSyncStep ==
  ASSUME IInv, NEW r \in Refreshes, BeginSync(r)
  PROVE  IInv'
<1> USE ConfigurationAssumption DEF IInv, TypeOK, LocatorIndex,
  BeginSync, GotoR, RefreshPlaces
<1>1. TypeOK'
  BY DEF stateVars, configureVars, Configs
<1>2. /\ MutexHasOneHolder' /\ SnapshotIsCurrent'
      /\ PublishedByPhaseC' /\ LocatorsFollowLoops'
  BY ConfiguresStutter
<1>3. LoopsAreInRange'
  BY SMTT(40) DEF LoopsAreInRange, configureVars
<1>4. ReadersAreCurrent'
  BY SMTT(40) DEF ReadersAreCurrent, stateVars, configureVars
<1>5. RefreshesKeepUp'
  BY SMTT(40) DEF RefreshesKeepUp, ReadersAreCurrent, LoopsAreInRange, stateVars
<1> QED
  BY <1>1, <1>2, <1>3, <1>4, <1>5 DEF IInv

(* One more locator takes its state from a refresh of this generation.      *)
LEMMA SyncLocatorStep ==
  ASSUME IInv, NEW r \in Refreshes, SyncLocator(r)
  PROVE  IInv'
<1> USE ConfigurationAssumption DEF IInv, TypeOK, LocatorIndex,
  SyncLocator, GotoR, RefreshPlaces
<1>1. TypeOK'
  <2>1. synced[r] + 1 \in 0 .. NumLocators
    BY SMTT(40) DEF LoopsAreInRange
  <2>2. synced' \in [Refreshes -> 0 .. NumLocators]
    BY <2>1
  <2>3. locState' \in [LocatorIndex -> Nat]
    OBVIOUS
  <2>4. rpc' \in [Refreshes -> RefreshPlaces]
    OBVIOUS
  <2> QED
    BY <2>2, <2>3, <2>4 DEF stateVars, configureVars, Configs
<1>2. /\ MutexHasOneHolder' /\ SnapshotIsCurrent'
      /\ PublishedByPhaseC' /\ LocatorsFollowLoops'
  BY ConfiguresStutter
<1>3. LoopsAreInRange'
  BY SMTT(40) DEF LoopsAreInRange, configureVars
<1>4. ReadersAreCurrent'
  BY SMTT(40) DEF ReadersAreCurrent, stateVars, configureVars
<1>5. RefreshesKeepUp'
  BY SMTT(40) DEF RefreshesKeepUp, ReadersAreCurrent, stateVars
<1> QED
  BY <1>1, <1>2, <1>3, <1>4, <1>5 DEF IInv

(* A panic releases the lock.                                               *)
LEMMA RefreshPanicsStep ==
  ASSUME IInv, NEW r \in Refreshes, RefreshPanics(r)
  PROVE  IInv'
<1> USE ConfigurationAssumption DEF IInv, TypeOK, LocatorIndex,
  RefreshPanics, GotoR, RefreshPlaces
<1>1. TypeOK'
  BY DEF stateVars, configureVars, Configs
<1>2. /\ MutexHasOneHolder' /\ SnapshotIsCurrent'
      /\ PublishedByPhaseC' /\ LocatorsFollowLoops'
  BY ConfiguresStutter
<1>3. LoopsAreInRange'
  BY SMTT(40) DEF LoopsAreInRange, configureVars
<1>4. ReadersAreCurrent'
  BY SMTT(40) DEF ReadersAreCurrent, stateVars, configureVars
<1>5. RefreshesKeepUp'
  BY SMTT(40) DEF RefreshesKeepUp, ReadersAreCurrent, stateVars
<1> QED
  BY <1>1, <1>2, <1>3, <1>4, <1>5 DEF IInv

(* The coordinator becomes idle with no lock held.                          *)
LEMMA CompleteRefreshStep ==
  ASSUME IInv, NEW r \in Refreshes, CompleteRefresh(r)
  PROVE  IInv'
<1> USE ConfigurationAssumption DEF IInv, TypeOK, LocatorIndex,
  CompleteRefresh, GotoR, RefreshPlaces
<1>1. TypeOK'
  BY DEF stateVars, configureVars, Configs
<1>2. /\ MutexHasOneHolder' /\ SnapshotIsCurrent'
      /\ PublishedByPhaseC' /\ LocatorsFollowLoops'
  BY ConfiguresStutter
<1>3. LoopsAreInRange'
  BY SMTT(40) DEF LoopsAreInRange, configureVars
<1>4. ReadersAreCurrent'
  BY SMTT(40) DEF ReadersAreCurrent, stateVars, configureVars
<1>5. RefreshesKeepUp'
  BY SMTT(40) DEF RefreshesKeepUp, ReadersAreCurrent, stateVars
<1> QED
  BY <1>1, <1>2, <1>3, <1>4, <1>5 DEF IInv

(* The follow-up ends with no notification under way.                       *)
LEMMA FinishFollowUpStep ==
  ASSUME IInv, NEW r \in Refreshes, FinishFollowUp(r)
  PROVE  IInv'
<1> USE ConfigurationAssumption DEF IInv, TypeOK, LocatorIndex,
  FinishFollowUp, GotoR, RefreshPlaces
<1>1. TypeOK'
  BY DEF stateVars, configureVars, Configs
<1>2. /\ MutexHasOneHolder' /\ SnapshotIsCurrent'
      /\ PublishedByPhaseC' /\ LocatorsFollowLoops'
  BY ConfiguresStutter
<1>3. LoopsAreInRange'
  BY SMTT(40) DEF LoopsAreInRange, configureVars
<1>4. ReadersAreCurrent'
  BY SMTT(40) DEF ReadersAreCurrent, stateVars, configureVars
<1>5. RefreshesKeepUp'
  BY SMTT(40) DEF RefreshesKeepUp, ReadersAreCurrent, stateVars
<1> QED
  BY <1>1, <1>2, <1>3, <1>4, <1>5 DEF IInv

(* A find takes and releases the read lock and changes nothing else.        *)
LEMMA FindStep ==
  ASSUME IInv, NEW f \in Finds, BeginFind(f) \/ EndFind(f)
  PROVE  IInv'
<1>1. UNCHANGED <<stateVars, configureVars, refreshVars>>
  BY DEF BeginFind, EndFind
<1>2. TypeOK'
  BY <1>1 DEF IInv, TypeOK, BeginFind, EndFind, stateVars, configureVars, refreshVars,
     Configs, LocatorIndex, ConfigurePlaces, RefreshPlaces
<1>3. /\ MutexHasOneHolder' /\ SnapshotIsCurrent'
      /\ PublishedByPhaseC' /\ LocatorsFollowLoops'
  BY <1>1, ConfiguresStutter
<1>4. LoopsAreInRange'
  BY <1>1, SMTT(40) DEF IInv, LoopsAreInRange, configureVars, refreshVars
<1>5. ReadersAreCurrent'
  BY <1>1, SMTT(40) DEF IInv, ReadersAreCurrent, stateVars, configureVars, refreshVars,
     LocatorIndex
<1>6. RefreshesKeepUp'
  BY <1>1, RefreshesStutter DEF IInv, stateVars
<1> QED
  BY <1>2, <1>3, <1>4, <1>5, <1>6 DEF IInv

(* Every step, and stuttering, preserves the invariant.                     *)
LEMMA NextIInv == IInv /\ [Next]_vars => IInv'
<1> SUFFICES ASSUME IInv, [Next]_vars PROVE IInv'
  OBVIOUS
<1>1. CASE UNCHANGED vars
  <2> USE <1>1 DEF vars, stateVars, configureVars, refreshVars, IInv
  <2>1. TypeOK'
    BY DEF TypeOK
  <2>2. MutexHasOneHolder' /\ SnapshotIsCurrent' /\ PublishedByPhaseC'
    BY SMTT(40) DEF MutexHasOneHolder, SnapshotIsCurrent, PublishedByPhaseC
  <2>3. LoopsAreInRange'
    BY SMTT(40) DEF LoopsAreInRange
  <2>4. LocatorsFollowLoops' /\ ReadersAreCurrent'
    BY SMTT(40) DEF LocatorsFollowLoops, ReadersAreCurrent
  <2>5. RefreshesKeepUp'
    BY RefreshesStutter
  <2> QED
    BY <2>1, <2>2, <2>3, <2>4, <2>5
<1>2. ASSUME NEW c \in Configures,
             ReceiveConfigure(c) \/ RejectConfigure(c) \/ ConfigureStep(c)
      PROVE  IInv'
  BY <1>2, ReceiveConfigureStep, RejectConfigureStep, LockConfigureStep,
     PrepareStep,
     ConfigureLocatorStep, LocatorPanicsStep, SetCacheDirectoryStep,
     CacheDirectoryPanicsStep, PublishStep, RollbackLocatorStep,
     RollbackPanicsStep, UnlockConfigureStep, AnswerConfigureStep
     DEF ConfigureStep
<1>3. ASSUME NEW r \in Refreshes,
             RefreshStep(r) \/ ReportIfCurrent(r) \/ RefreshPanics(r)
      PROVE  IInv'
  BY <1>3, SnapshotConfigurationStep, RegisterRequestStep, WaitUntilIdleStep,
     ReportIfCurrentStep, NotificationWrittenStep, BeginSyncStep, SyncLocatorStep,
     RefreshPanicsStep, CompleteRefreshStep, FinishFollowUpStep DEF RefreshStep
<1>4. ASSUME NEW f \in Finds, BeginFind(f) \/ EndFind(f) PROVE IInv'
  BY <1>4, FindStep
<1> QED
  BY <1>1, <1>2, <1>3, <1>4 DEF Next, Quiescent, Aborted

(* The inductive invariant holds in every reachable state, for any number of *)
(* configure, refresh and find requests and of locators.                     *)
THEOREM ConfigurationInvariance == Spec => []IInv
  BY InitIInv, NextIInv, PTL DEF Spec

(* After a client was told that a configuration is in force, no notification *)
(* computed under an older one is ever written.                              *)
THEOREM NotificationsAreCurrent == Spec => []NoStaleNotification
<1>1. IInv => NoStaleNotification
  BY DEF IInv, TypeOK, ReadersAreCurrent, NoStaleNotification
<1> QED
  BY <1>1, ConfigurationInvariance, PTL

(* While no configure holds the mutex, the loops over the locators have been *)
(* completed or undone.                                                      *)
LEMMA LocatorsFollowConfiguration == IInv => LocatorsMatchConfiguration
  BY ConfigurationAssumption
     DEF IInv, TypeOK, Configs, LocatorsFollowLoops, MutexHasOneHolder,
         LocatorsMatchConfiguration, Holding, Preparing

(* Outside of the one configure under way, every shared locator has the      *)
(* published configuration.                                                  *)
THEOREM LocatorsAreInStep == Spec => []LocatorsMatchConfiguration
<1>1. IInv => LocatorsMatchConfiguration
  BY LocatorsFollowConfiguration
<1> QED
  BY <1>1, ConfigurationInvariance, PTL

(* A configure that failed left no trace: neither the configuration, nor the *)
(* cache directory, nor any shared locator is its own, however many locators *)
(* it had configured before one of them failed.                              *)
THEOREM FailuresAreRolledBack == Spec => []FailedConfigureIsInvisible
<1>1. IInv => FailedConfigureIsInvisible
  <2> SUFFICES ASSUME IInv, NEW c \in Configures, cpc[c] \in {"error", "failed"}
               PROVE  /\ config # c /\ cacheDir # c
                      /\ \A l \in LocatorIndex : locConfig[l] # c
    BY DEF FailedConfigureIsInvisible
  <2>1. config # c /\ cacheDir # c
    BY ConfigurationAssumption DEF IInv, PublishedByPhaseC
  <2>2. mutex # c
    BY ConfigurationAssumption DEF IInv, MutexHasOneHolder, Holding
  <2> QED
    BY <2>1, <2>2, LocatorsFollowConfiguration DEF LocatorsMatchConfiguration
<1> QED
  BY <1>1, ConfigurationInvariance, PTL

(* Every publication installs another configuration under the next           *)
(* generation, although both were computed long before the write lock.       *)
THEOREM GenerationsAreConsecutive == Spec => GenerationsIdentifyConfigurations
<1> DEFINE Step == config' # config \/ generation' # generation =>
                     config' # config /\ generation' = generation + 1
<1>1. ASSUME IInv, [Next]_vars PROVE Step \/ UNCHANGED vars
  <2>1. CASE UNCHANGED stateVars
    BY <2>1 DEF stateVars
  <2>2. ASSUME NEW c \in Configures, Publish(c) PROVE Step
    BY <1>1, <2>2, ConfigurationAssumption
       DEF Publish, IInv, TypeOK, SnapshotIsCurrent, Preparing, PublishedByPhaseC
  <2> QED
    BY <1>1, <2>1, <2>2 DEF Next, ConfigureStep, RefreshStep, ReceiveConfigure,
       RejectConfigure, LockConfigure, Prepare, ConfigureLocator, LocatorPanics,
       SetCacheDirectory, CacheDirectoryPanics, RollbackLocator,
       RollbackPanics, UnlockConfigure, AnswerConfigure, SnapshotConfiguration,
       RegisterRequest, WaitUntilIdle, CompleteRefresh, ReportIfCurrent, NotificationWritten, BeginSync, SyncLocator,
       RefreshPanics, FinishFollowUp, BeginFind, EndFind, Quiescent, Aborted,
       vars
<1> QED
  BY <1>1, ConfigurationInvariance, PTL DEF Spec, GenerationsIdentifyConfigurations

(* A refresh that had to wait runs under a configuration that was in force   *)
(* when its wait ended or later, however old its first snapshot was, because *)
(* handle_refresh reads another one after every wait.                        *)
THEOREM WaitersStartAfresh == Spec => []WaitedRefreshIsCurrent
<1>1. IInv => WaitedRefreshIsCurrent
  BY DEF IInv, TypeOK, RefreshesKeepUp, WaitedRefreshIsCurrent
<1> QED
  BY <1>1, ConfigurationInvariance, PTL

(* Whatever the age of the snapshots with which refreshes start, only state  *)
(* found under the published configuration reaches a shared locator, and a   *)
(* sync leaves no locator with the state of an older one.                    *)
THEOREM SyncsMoveForward == Spec => SyncNeverGoesBack
<1> DEFINE Step ==
      /\ \A l \in LocatorIndex : locState'[l] # locState[l] => locState'[l] = generation
      /\ \A r \in Refreshes : rpc[r] = "syncing" /\ rpc'[r] = "completing" =>
           \A l \in LocatorIndex : locState'[l] = generation
<1>1. ASSUME IInv, [Next]_vars PROVE Step \/ UNCHANGED vars
  <2>1. CASE UNCHANGED <<locState, rpc>>
    BY <2>1
  <2>2. ASSUME NEW r \in Refreshes, SyncLocator(r) PROVE Step
    <3>1. /\ gen[r] = generation
          /\ synced[r] \in Nat /\ NumLocators \in Nat
      BY <1>1, <2>2, ConfigurationAssumption DEF SyncLocator, IInv, TypeOK, ReadersAreCurrent
    <3>2. \A l \in LocatorIndex : l <= synced[r] => locState[l] = generation
      BY <1>1, <2>2 DEF SyncLocator, IInv, RefreshesKeepUp
    <3>3. locState' = [locState EXCEPT ![synced[r] + 1] = generation]
      BY <2>2, <3>1 DEF SyncLocator
    <3>4. locState \in [LocatorIndex -> Nat] /\ rpc \in [Refreshes -> RefreshPlaces]
      BY <1>1 DEF IInv, TypeOK
    <3>5. ASSUME NEW q \in Refreshes, rpc[q] = "syncing", rpc'[q] = "completing"
          PROVE  synced[r] + 1 = NumLocators
      BY <2>2, <3>4, <3>5 DEF SyncLocator, GotoR
    <3> QED
      BY <3>1, <3>2, <3>3, <3>4, <3>5 DEF LocatorIndex
  <2>3. ASSUME NEW r \in Refreshes, UNCHANGED locState, NEW label,
               rpc' = [rpc EXCEPT ![r] = label], label # "completing" \/ rpc[r] # "syncing"
        PROVE  Step
    BY <1>1, <2>3 DEF IInv, TypeOK
  <2>4. CASE \E r \in Refreshes : RefreshStep(r) \/ ReportIfCurrent(r) \/ RefreshPanics(r)
    BY <2>1, <2>2, <2>3, <2>4 DEF RefreshStep, SnapshotConfiguration, RegisterRequest,
       WaitUntilIdle, ReportIfCurrent, NotificationWritten, BeginSync, CompleteRefresh,
       RefreshPanics, FinishFollowUp, GotoR
  <2> QED
    BY <1>1, <2>1, <2>4 DEF Next, ConfigureStep, ReceiveConfigure,
       RejectConfigure, LockConfigure, Prepare, ConfigureLocator, LocatorPanics,
       SetCacheDirectory, CacheDirectoryPanics, Publish, RollbackLocator,
       RollbackPanics, UnlockConfigure, AnswerConfigure, BeginFind, EndFind,
       Quiescent, Aborted, vars, refreshVars
<1> QED
  BY <1>1, ConfigurationInvariance, PTL DEF Spec, SyncNeverGoesBack
=============================================================================
