------------------------ MODULE RefreshServer_proofs ------------------------
(***************************************************************************)
(* Proofs about the refresh coordinator, for any number of requests,         *)
(* options and configurations: its safety, then that it implements          *)
(* RefreshService, then the safety of the server that adds the reports of   *)
(* missing environments.                                                    *)
(*                                                                         *)
(* IInv ties the state of the coordinator to the threads: Ownership says     *)
(* that Running and Completing have exactly one owner, found by its program  *)
(* counter and its key; KeysAreFresh that a key is no older than its        *)
(* request; IdsAreFresh, ResultsAreDistinct and RepliesAreResults that each  *)
(* identifier and each reply come from one execution; NoRequestLost and     *)
(* NoLostWakeup say where a request can be until it is answered.  There is   *)
(* one lemma for each action and in it one step for each conjunct.  In the  *)
(* refinement, every step of a thread is a step of the service or leaves    *)
(* the service as it is, under the mapping of RefreshCoordinator.           *)
(***************************************************************************)
EXTENDS RefreshServer, TLAPS


(* The initial state is well typed.                                         *)
LEMMA InitTypeOK == Init => TypeOK
<1> SUFFICES ASSUME Init PROVE TypeOK
  OBVIOUS
<1>1. generation \in 0 .. MaxGeneration /\ nextRefreshId \in Nat
  BY MaxGenerationAssumption DEF Init
<1>2. state \in States
  BY DEF Init, States
<1>3. stdoutOpen \in BOOLEAN /\ aborted \in BOOLEAN
  BY DEF Init
<1>4. pc \in [Requests -> PcValues]
  BY DEF Init, PcValues, Unregistered
<1>5. options \in [Requests -> Options] /\ key \in [Requests -> Keys \cup {NoKey}]
  BY DEF Init
<1>6. result \in [Requests -> Replies]
  BY DEF Init, Replies, Error
<1>7. batch \in [Requests -> SUBSET Requests] /\ askedAt \in [Requests -> Nat]
  BY DEF Init
<1>8. replies \in [Requests -> Seq(Replies)]
  BY DEF Init
<1> QED BY <1>1, <1>2, <1>3, <1>4, <1>5, <1>6, <1>7, <1>8 DEF TypeOK

(* A well-typed coordinator state is Idle, or Running or Completing for a   *)
(* key with the request ids that it holds.                                  *)
LEMMA StateFacts ==
  ASSUME TypeOK
  PROVE  /\ state.ids \in SUBSET Requests
         /\ state.tag \in {"Idle", "Running", "Completing"}
         /\ state.tag = "Idle" => state = Idle
         /\ state.tag # "Idle" => /\ state.key \in Keys
                                  /\ state = Active(state.tag, state.key, state.ids)
  BY DEF TypeOK, States, Idle, Active

(* A request that arrives owns nothing yet and has no reply.                *)
LEMMA ReceiveStep ==
  ASSUME IInv, NEW r \in Requests, Receive(r)
  PROVE  IInv'
<1> USE DEF IInv, Receive, Goto, sharedVars
<1>1. TypeOK'
  BY DEF TypeOK, PcValues, Unregistered, Owning
<1>2. NeverAborts'
  BY DEF NeverAborts
<1>3. Ownership'
  BY DEF TypeOK, Ownership, SingleFlight, Owns, Owning
<1>4. KeysAreFresh'
  BY DEF TypeOK, KeysAreFresh, Keys
<1>5. IdsAreFresh'
  BY DEF TypeOK, IdsAreFresh, Registered, Unregistered, Serves
<1>6. ResultsAreDistinct'
  BY DEF TypeOK, ResultsAreDistinct, Executed, Unregistered
<1>7. RepliesAreResults'
  <2> SUFFICES ASSUME NEW q \in Requests, replies'[q] # <<>>
               PROVE  \/ Registered(q)' /\ replies'[q] = <<Invalid(q)>>
                      \/ Registered(q)' /\ \E t \in Requests : AnsweredBy(q, t)'
    BY DEF RepliesAreResults, Invalid
  <2>1. CASE q = r
    BY <2>1 DEF TypeOK, RepliesAreResults, Registered, Unregistered, Invalid
  <2>2. CASE q # r
    <3>1. CASE replies[q] = <<Invalid(q)>>
      BY <2>2, <3>1 DEF TypeOK, RepliesAreResults, Registered, Unregistered
    <3>2. CASE replies[q] # <<Invalid(q)>>
      <4>1. PICK t \in Requests : AnsweredBy(q, t)
        BY <2>2, <3>2 DEF TypeOK, RepliesAreResults
      <4>2. AnsweredBy(q, t)'
        BY <2>2, <4>1 DEF TypeOK, AnsweredBy, Executed, Unregistered, Serves
      <4> QED
        BY <2>2, <3>2, <4>2 DEF TypeOK, RepliesAreResults, Registered, Unregistered
    <3> QED
      BY <3>1, <3>2
  <2> QED
    BY <2>1, <2>2
<1>8. NoRequestLost'
  BY DEF TypeOK, NoRequestLost, Registered, Unregistered, Owns, Owning
<1>9. NoLostWakeup'
  BY DEF TypeOK, NoLostWakeup
<1> QED
  BY <1>1, <1>2, <1>3, <1>4, <1>5, <1>6, <1>7, <1>8, <1>9 DEF IInv

(* A request with bad parameters gets its one reply and never registers.    *)
LEMMA ReceiveInvalidStep ==
  ASSUME IInv, NEW r \in Requests, ReceiveInvalid(r)
  PROVE  IInv'
<1> USE DEF IInv, ReceiveInvalid, Goto, sharedVars
<1>a. Invalid(r) \in Replies
  BY DEF Invalid, Replies
<1>b. replies[r] = <<>>
  BY DEF IInv, RepliesAreResults, Registered, Unregistered
<1>c. /\ replies' = [replies EXCEPT ![r] = <<Invalid(r)>>]
      /\ <<Invalid(r)>> \in Seq(Replies)
      /\ <<Invalid(r)>> # <<>>
  BY <1>a, <1>b DEF IInv, TypeOK
<1>1. TypeOK'
  BY <1>c DEF TypeOK, PcValues, Unregistered, Owning
<1>2. NeverAborts'
  BY DEF NeverAborts
<1>3. Ownership'
  BY DEF TypeOK, Ownership, SingleFlight, Owns, Owning
<1>4. KeysAreFresh'
  BY DEF TypeOK, KeysAreFresh, Keys
<1>5. IdsAreFresh'
  BY DEF TypeOK, IdsAreFresh, Registered, Unregistered, Serves
<1>6. ResultsAreDistinct'
  BY DEF TypeOK, ResultsAreDistinct, Executed, Unregistered
<1>7. RepliesAreResults'
  <2> SUFFICES ASSUME NEW q \in Requests, replies'[q] # <<>>
               PROVE  \/ Registered(q)' /\ replies'[q] = <<Invalid(q)>>
                      \/ Registered(q)' /\ \E t \in Requests : AnsweredBy(q, t)'
    BY DEF RepliesAreResults, Invalid
  <2>1. CASE q = r
    BY <1>c, <2>1 DEF TypeOK, RepliesAreResults, Registered, Unregistered, Invalid
  <2>2. CASE q # r
    <3>1. CASE replies[q] = <<Invalid(q)>>
      BY <1>c, <2>2, <3>1 DEF TypeOK, RepliesAreResults, Registered, Unregistered
    <3>2. CASE replies[q] # <<Invalid(q)>>
      <4>1. PICK t \in Requests : AnsweredBy(q, t)
        BY <1>c, <2>2, <3>2 DEF TypeOK, RepliesAreResults
      <4>2. AnsweredBy(q, t)'
        BY <1>c, <2>2, <4>1 DEF TypeOK, AnsweredBy, Executed, Unregistered, Serves
      <4> QED
        BY <1>c, <2>2, <3>2, <4>2 DEF TypeOK, RepliesAreResults, Registered,
           Unregistered
    <3> QED
      BY <3>1, <3>2
  <2> QED
    BY <2>1, <2>2
<1>8. NoRequestLost'
  BY <1>c DEF TypeOK, NoRequestLost, Registered, Unregistered, Owns, Owning
<1>9. NoLostWakeup'
  BY DEF TypeOK, NoLostWakeup
<1> QED
  BY <1>1, <1>2, <1>3, <1>4, <1>5, <1>6, <1>7, <1>8, <1>9 DEF IInv

(* A wakeup without a notification only sends the thread back to its check. *)
LEMMA SpuriousWakeupStep ==
  ASSUME IInv, NEW r \in Requests, SpuriousWakeup(r)
  PROVE  IInv'
<1> USE DEF IInv, SpuriousWakeup, Goto, sharedVars
<1>1. TypeOK'
  BY DEF TypeOK, PcValues, Unregistered, Owning
<1>2. NeverAborts'
  BY DEF NeverAborts
<1>3. Ownership'
  BY DEF TypeOK, Ownership, SingleFlight, Owns, Owning
<1>4. KeysAreFresh'
  BY DEF TypeOK, KeysAreFresh, Keys
<1>5. IdsAreFresh'
  BY DEF TypeOK, IdsAreFresh, Registered, Unregistered, Serves
<1>6. ResultsAreDistinct'
  BY DEF TypeOK, ResultsAreDistinct, Executed, Unregistered
<1>7. RepliesAreResults'
  BY DEF TypeOK, RepliesAreResults, Executed, AnsweredBy, Registered,
     Unregistered, Serves
<1>8. NoRequestLost'
  BY DEF TypeOK, NoRequestLost, Registered, Unregistered, Owns, Owning
<1>9. NoLostWakeup'
  BY DEF TypeOK, NoLostWakeup
<1> QED
  BY <1>1, <1>2, <1>3, <1>4, <1>5, <1>6, <1>7, <1>8, <1>9 DEF IInv

(* The key of a request is built from the generation published at that      *)
(* time, so it is no older than the request.                                *)
LEMMA SnapshotStep ==
  ASSUME IInv, NEW r \in Requests, Snapshot(r)
  PROVE  IInv'
<1> USE DEF IInv, Snapshot, Goto, sharedVars
<1>a. [options |-> options[r], generation |-> generation] \in Keys
  BY MaxGenerationAssumption DEF IInv, TypeOK, Keys
<1>b. [options |-> options[r], generation |-> generation] # NoKey
  BY <1>a, NoKeyAssumption
<1>1. TypeOK'
  BY <1>a DEF TypeOK, PcValues, Unregistered, Owning
<1>2. NeverAborts'
  BY DEF NeverAborts
<1>3. Ownership'
  BY DEF TypeOK, Ownership, SingleFlight, Owns, Owning
<1>4. KeysAreFresh'
  BY <1>b DEF TypeOK, KeysAreFresh
<1>5. IdsAreFresh'
  BY DEF TypeOK, IdsAreFresh, Registered, Unregistered, Serves
<1>6. ResultsAreDistinct'
  BY DEF TypeOK, ResultsAreDistinct, Executed, Unregistered
<1>7. RepliesAreResults'
  BY DEF TypeOK, RepliesAreResults, Executed, AnsweredBy, Registered,
     Unregistered, Serves
<1>8. NoRequestLost'
  BY DEF TypeOK, NoRequestLost, Registered, Unregistered, Owns, Owning
<1>9. NoLostWakeup'
  BY DEF TypeOK, NoLostWakeup
<1> QED
  BY <1>1, <1>2, <1>3, <1>4, <1>5, <1>6, <1>7, <1>8, <1>9 DEF IInv

(* A thread waits only while a refresh is active, whose owner will notify   *)
(* it.                                                                      *)
LEMMA WaitUntilIdleStep ==
  ASSUME IInv, NEW r \in Requests, WaitUntilIdle(r)
  PROVE  IInv'
<1> USE DEF IInv, WaitUntilIdle, Goto, sharedVars
<1>1. TypeOK'
  BY DEF TypeOK, PcValues, Unregistered, Owning
<1>2. NeverAborts'
  BY DEF NeverAborts
<1>3. Ownership'
  BY DEF TypeOK, Ownership, SingleFlight, Owns, Owning
<1>4. KeysAreFresh'
  BY DEF TypeOK, KeysAreFresh, Keys
<1>5. IdsAreFresh'
  BY DEF TypeOK, IdsAreFresh, Registered, Unregistered, Serves
<1>6. ResultsAreDistinct'
  BY DEF TypeOK, ResultsAreDistinct, Executed, Unregistered
<1>7. RepliesAreResults'
  BY DEF TypeOK, RepliesAreResults, Executed, AnsweredBy, Registered,
     Unregistered, Serves
<1>8. NoRequestLost'
  BY DEF TypeOK, NoRequestLost, Registered, Unregistered, Owns, Owning
<1>9. NoLostWakeup'
  BY DEF TypeOK, NoLostWakeup
<1> QED
  BY <1>1, <1>2, <1>3, <1>4, <1>5, <1>6, <1>7, <1>8, <1>9 DEF IInv

(* With its batch sent, the owner goes on to complete_request and loses no  *)
(* id.                                                                      *)
LEMMA SendDoneStep ==
  ASSUME IInv, NEW r \in Requests, SendDone(r)
  PROVE  IInv'
<1> USE DEF IInv, SendDone, Goto, sharedVars
<1>1. TypeOK'
  BY DEF TypeOK, PcValues, Unregistered, Owning
<1>2. NeverAborts'
  BY DEF NeverAborts
<1>3. Ownership'
  BY DEF TypeOK, Ownership, SingleFlight, Owns, Owning
<1>4. KeysAreFresh'
  BY DEF TypeOK, KeysAreFresh, Keys
<1>5. IdsAreFresh'
  BY DEF TypeOK, IdsAreFresh, Registered, Unregistered, Serves
<1>6. ResultsAreDistinct'
  BY DEF TypeOK, ResultsAreDistinct, Executed, Unregistered
<1>7. RepliesAreResults'
  BY DEF TypeOK, RepliesAreResults, Executed, AnsweredBy, Registered,
     Unregistered, Serves
<1>8. NoRequestLost'
  BY DEF TypeOK, NoRequestLost, Registered, Unregistered, Owns, Owning
<1>9. NoLostWakeup'
  BY DEF TypeOK, NoLostWakeup
<1> QED
  BY <1>1, <1>2, <1>3, <1>4, <1>5, <1>6, <1>7, <1>8, <1>9 DEF IInv

(* The follow-up runs after the coordinator has been given back.            *)
LEMMA FollowUpStep ==
  ASSUME IInv, NEW r \in Requests, FollowUp(r)
  PROVE  IInv'
<1> USE DEF IInv, FollowUp, Goto, sharedVars
<1>1. TypeOK'
  BY DEF TypeOK, PcValues, Unregistered, Owning
<1>2. NeverAborts'
  BY DEF NeverAborts
<1>3. Ownership'
  BY DEF TypeOK, Ownership, SingleFlight, Owns, Owning
<1>4. KeysAreFresh'
  BY DEF TypeOK, KeysAreFresh, Keys
<1>5. IdsAreFresh'
  BY DEF TypeOK, IdsAreFresh, Registered, Unregistered, Serves
<1>6. ResultsAreDistinct'
  BY DEF TypeOK, ResultsAreDistinct, Executed, Unregistered
<1>7. RepliesAreResults'
  BY DEF TypeOK, RepliesAreResults, Executed, AnsweredBy, Registered,
     Unregistered, Serves
<1>8. NoRequestLost'
  BY DEF TypeOK, NoRequestLost, Registered, Unregistered, Owns, Owning
<1>9. NoLostWakeup'
  BY DEF TypeOK, NoLostWakeup
<1> QED
  BY <1>1, <1>2, <1>3, <1>4, <1>5, <1>6, <1>7, <1>8, <1>9 DEF IInv

(* Start takes an idle coordinator: the request becomes its only owner and  *)
(* its first id.                                                            *)
LEMMA RegisterStartStep ==
  ASSUME IInv, NEW r \in Requests, RegisterRequest(r), RegisterStart(r)
  PROVE  IInv'
<1> USE DEF IInv, Active, Goto
<1>u. UNCHANGED <<generation, nextRefreshId, stdoutOpen, aborted, options, key,
                  result, batch, replies, askedAt>>
  BY DEF RegisterRequest
<1>a. /\ pc[r] = "register" /\ pc' = [pc EXCEPT ![r] = "execute"]
      /\ state = Idle /\ \A s \in Requests : ~Owns(s)
  BY StateFacts DEF RegisterRequest, RegisterStart, TypeOK, Ownership
<1>k. key[r] \in Keys /\ Serves(key[r], r) /\ replies[r] = <<>>
  BY <1>a DEF TypeOK, KeysAreFresh, Serves, RepliesAreResults, Registered,
              Unregistered
<1>b. /\ state' = [tag |-> "Running", key |-> key[r], ids |-> {r}]
      /\ key[r] \in Keys /\ Serves(key[r], r) /\ replies[r] = <<>>
  BY <1>k DEF RegisterStart
<1>c. state' \in States
  BY <1>b DEF States
<1> HIDE DEF Active
<1>1. TypeOK'
  BY <1>u, <1>a, <1>b, <1>c DEF TypeOK, PcValues, Unregistered, Owning
<1>2. NeverAborts'
  BY <1>u, <1>a, <1>b DEF NeverAborts
<1>3. Ownership'
  BY <1>u, <1>a, <1>b DEF TypeOK, Ownership, SingleFlight, Owns, Owning
<1>4. KeysAreFresh'
  BY <1>u, <1>a, <1>b DEF TypeOK, KeysAreFresh, Keys
<1>5. IdsAreFresh'
  BY <1>u, <1>a, <1>b DEF TypeOK, IdsAreFresh, Registered, Unregistered, Serves,
     Idle
<1>6. ResultsAreDistinct'
  BY <1>u, <1>a, <1>b DEF TypeOK, ResultsAreDistinct, Executed, Unregistered
<1>7. RepliesAreResults'
  <2> SUFFICES ASSUME NEW q \in Requests, replies[q] # <<>>, replies[q] #
    <<Invalid(q)>>
               PROVE  Registered(q)' /\ \E t \in Requests : AnsweredBy(q, t)'
    BY <1>u, <1>a DEF RepliesAreResults, Registered, Unregistered, TypeOK, Invalid
  <2>1. PICK t \in Requests : AnsweredBy(q, t)
    BY DEF RepliesAreResults
  <2>2. AnsweredBy(q, t)'
    BY <1>u, <1>a, <1>b, <2>1 DEF TypeOK, AnsweredBy, Executed, Unregistered, Serves
  <2> QED
    BY <1>u, <1>a, <2>2 DEF TypeOK, RepliesAreResults, Registered, Unregistered
<1>8. NoRequestLost'
  BY <1>u, <1>a, <1>b DEF TypeOK, NoRequestLost, Registered, Unregistered, Owns,
     Owning, Idle
<1>9. NoLostWakeup'
  BY <1>u, <1>a, <1>b DEF TypeOK, NoLostWakeup
<1> QED
  BY <1>1, <1>2, <1>3, <1>4, <1>5, <1>6, <1>7, <1>8, <1>9 DEF IInv

(* A request joins a refresh with its own key; its id is held by the        *)
(* coordinator until the owner drains it.                                   *)
LEMMA RegisterJoinedStep ==
  ASSUME IInv, NEW r \in Requests, RegisterRequest(r), RegisterJoined(r)
  PROVE  IInv'
<1> USE DEF IInv, Goto
<1>u. UNCHANGED <<generation, nextRefreshId, stdoutOpen, aborted, options, key,
                  result, batch, replies, askedAt>>
  BY DEF RegisterRequest
<1>a. /\ pc[r] = "register" /\ pc' = [pc EXCEPT ![r] = "returned"]
      /\ state.tag # "Idle" /\ state.key = key[r]
  BY DEF RegisterRequest, RegisterJoined
<1>b. /\ state' = [tag |-> state.tag, key |-> state.key, ids |-> state.ids \cup {r}]
      /\ state.key \in Keys /\ Serves(state.key, r) /\ replies[r] = <<>>
      /\ \A s \in Requests : r \notin batch[s]
  BY <1>a, StateFacts DEF RegisterJoined, Active, TypeOK, KeysAreFresh, Serves,
              RepliesAreResults, IdsAreFresh, Registered, Unregistered
<1>c. state' \in States
  BY <1>a, <1>b, StateFacts DEF States
<1>1. TypeOK'
  BY <1>u, <1>a, <1>b, <1>c DEF TypeOK, PcValues, Unregistered, Owning
<1>2. NeverAborts'
  BY <1>u, <1>a, <1>b, StateFacts DEF NeverAborts
<1>3. Ownership'
  BY <1>u, <1>a, <1>b, StateFacts DEF TypeOK, Ownership, SingleFlight, Owns, Owning
<1>4. KeysAreFresh'
  BY <1>u, <1>a, <1>b, StateFacts DEF TypeOK, KeysAreFresh, Keys
<1>5. IdsAreFresh'
  BY <1>u, <1>a, <1>b, StateFacts DEF TypeOK, IdsAreFresh, Registered,
     Unregistered, Serves
<1>6. ResultsAreDistinct'
  BY <1>u, <1>a, <1>b, StateFacts DEF TypeOK, ResultsAreDistinct, Executed,
     Unregistered
<1>7. RepliesAreResults'
  BY <1>u, <1>a, <1>b, StateFacts DEF TypeOK, RepliesAreResults, Executed,
     AnsweredBy, Registered, Unregistered, Serves
<1>8. NoRequestLost'
  BY <1>u, <1>a, <1>b, StateFacts DEF TypeOK, NoRequestLost, Registered,
     Unregistered, Owns, Owning
<1>9. NoLostWakeup'
  BY <1>u, <1>a, <1>b, StateFacts DEF TypeOK, NoLostWakeup
<1> QED
  BY <1>1, <1>2, <1>3, <1>4, <1>5, <1>6, <1>7, <1>8, <1>9 DEF IInv

(* A request with another key registers nothing and goes to wait.           *)
LEMMA RegisterWaitStep ==
  ASSUME IInv, NEW r \in Requests, RegisterRequest(r), RegisterWait(r)
  PROVE  IInv'
<1> USE DEF IInv, Goto
<1>u. UNCHANGED <<generation, nextRefreshId, stdoutOpen, aborted, options, key,
                  result, batch, replies, askedAt>>
  BY DEF RegisterRequest
<1>a. /\ pc[r] = "register" /\ pc' = [pc EXCEPT ![r] = "wait"]
      /\ UNCHANGED state
  BY DEF RegisterRequest, RegisterWait
<1>1. TypeOK'
  BY <1>u, <1>a DEF TypeOK, PcValues, Unregistered, Owning
<1>2. NeverAborts'
  BY <1>u, <1>a DEF NeverAborts
<1>3. Ownership'
  BY <1>u, <1>a DEF TypeOK, Ownership, SingleFlight, Owns, Owning
<1>4. KeysAreFresh'
  BY <1>u, <1>a DEF TypeOK, KeysAreFresh, Keys
<1>5. IdsAreFresh'
  BY <1>u, <1>a DEF TypeOK, IdsAreFresh, Registered, Unregistered, Serves
<1>6. ResultsAreDistinct'
  BY <1>u, <1>a DEF TypeOK, ResultsAreDistinct, Executed, Unregistered
<1>7. RepliesAreResults'
  BY <1>u, <1>a DEF TypeOK, RepliesAreResults, Executed, AnsweredBy, Registered,
     Unregistered, Serves
<1>8. NoRequestLost'
  BY <1>u, <1>a DEF TypeOK, NoRequestLost, Registered, Unregistered, Owns, Owning
<1>9. NoLostWakeup'
  BY <1>u, <1>a DEF TypeOK, NoLostWakeup
<1> QED
  BY <1>1, <1>2, <1>3, <1>4, <1>5, <1>6, <1>7, <1>8, <1>9 DEF IInv

(* The owner finds its own key in Running, keeps the ids and does not       *)
(* panic.                                                                   *)
LEMMA BeginCompletionStep ==
  ASSUME IInv, NEW r \in Requests, BeginCompletion(r)
  PROVE  IInv'
<1> USE DEF IInv, Goto
<1>a. /\ pc[r] = "begin" /\ state.tag = "Running" /\ state.key = key[r]
      /\ state = [tag |-> "Running", key |-> state.key, ids |-> state.ids]
      /\ state.key \in Keys /\ state.ids \in SUBSET Requests
  BY StateFacts DEF BeginCompletion, Ownership, Owns, Owning, Active
<1>b. /\ pc' = [pc EXCEPT ![r] = "drain"]
      /\ state' = [tag |-> "Completing", key |-> state.key, ids |-> state.ids]
      /\ UNCHANGED <<generation, nextRefreshId, stdoutOpen, aborted, options,
                     key, result, batch, replies, askedAt>>
  BY <1>a DEF BeginCompletion, Matches
<1>c. state' \in States
  BY <1>a, <1>b DEF States
<1>1. TypeOK'
  BY <1>a, <1>b, <1>c DEF TypeOK, PcValues, Unregistered, Owning
<1>2. NeverAborts'
  BY <1>a, <1>b DEF NeverAborts
<1>3. Ownership'
  BY <1>a, <1>b DEF TypeOK, Ownership, SingleFlight, Owns, Owning
<1>4. KeysAreFresh'
  BY <1>a, <1>b DEF TypeOK, KeysAreFresh, Keys
<1>5. IdsAreFresh'
  BY <1>a, <1>b DEF TypeOK, IdsAreFresh, Registered, Unregistered, Serves
<1>6. ResultsAreDistinct'
  BY <1>a, <1>b DEF TypeOK, ResultsAreDistinct, Executed, Unregistered
<1>7. RepliesAreResults'
  BY <1>a, <1>b DEF TypeOK, RepliesAreResults, Executed, AnsweredBy, Registered,
     Unregistered, Serves
<1>8. NoRequestLost'
  BY <1>a, <1>b DEF TypeOK, NoRequestLost, Registered, Unregistered, Owns, Owning
<1>9. NoLostWakeup'
  BY <1>a, <1>b DEF TypeOK, NoLostWakeup
<1> QED
  BY <1>1, <1>2, <1>3, <1>4, <1>5, <1>6, <1>7, <1>8, <1>9 DEF IInv

(* Draining moves the ids from the coordinator to the batch of its owner.   *)
LEMMA DrainRequestIdsStep ==
  ASSUME IInv, NEW r \in Requests, DrainRequestIds(r)
  PROVE  IInv'
<1> USE DEF IInv, Goto
<1>a. /\ pc[r] = "drain" /\ state.tag = "Completing" /\ state.key = key[r]
      /\ state = [tag |-> "Completing", key |-> state.key, ids |-> state.ids]
      /\ state.key \in Keys /\ state.ids \in SUBSET Requests
  BY StateFacts DEF DrainRequestIds, Ownership, Owns, Owning, Active
<1>b. /\ pc' = [pc EXCEPT ![r] = "send"]
      /\ state' = [tag |-> "Completing", key |-> state.key, ids |-> {}]
      /\ batch' = [batch EXCEPT ![r] = state.ids]
      /\ UNCHANGED <<generation, nextRefreshId, stdoutOpen, aborted, options,
                     key, result, replies, askedAt>>
  BY <1>a DEF DrainRequestIds, Matches
<1>c. state' \in States
  BY <1>a, <1>b DEF States
<1>1. TypeOK'
  BY <1>a, <1>b, <1>c DEF TypeOK, PcValues, Unregistered, Owning
<1>2. NeverAborts'
  BY <1>a, <1>b DEF NeverAborts
<1>3. Ownership'
  BY <1>a, <1>b DEF TypeOK, Ownership, SingleFlight, Owns, Owning
<1>4. KeysAreFresh'
  BY <1>a, <1>b DEF TypeOK, KeysAreFresh, Keys
<1>5. IdsAreFresh'
  BY <1>a, <1>b DEF TypeOK, IdsAreFresh, Registered, Unregistered, Serves
<1>6. ResultsAreDistinct'
  BY <1>a, <1>b DEF TypeOK, ResultsAreDistinct, Executed, Unregistered
<1>7. RepliesAreResults'
  BY <1>a, <1>b DEF TypeOK, RepliesAreResults, Executed, AnsweredBy, Registered,
     Unregistered, Serves
<1>8. NoRequestLost'
  <2> SUFFICES ASSUME stdoutOpen, NEW q \in Requests, Registered(q),
                      replies[q] = <<>>
               PROVE  \E s \in Requests : Owns(s)' /\ q \in batch'[s]
    BY <1>a, <1>b DEF NoRequestLost, Registered, Unregistered, TypeOK
  <2>1. q \in state.ids \/ \E s \in Requests : Owns(s) /\ q \in batch[s]
    BY DEF NoRequestLost
  <2>2. \A s \in Requests : q \notin batch[s]
    BY <1>a DEF IdsAreFresh, Ownership, SingleFlight, Owns, Owning
  <2>3. Owns(r)' /\ q \in batch'[r]
    BY <1>b, <2>1, <2>2 DEF TypeOK, Owns, Owning
  <2> QED
    BY <2>3
<1>9. NoLostWakeup'
  BY <1>a, <1>b DEF TypeOK, NoLostWakeup
<1> QED
  BY <1>1, <1>2, <1>3, <1>4, <1>5, <1>6, <1>7, <1>8, <1>9 DEF IInv

(* The refresh, or its panic, gives the owner a result with an identifier   *)
(* that nobody else has.                                                    *)
LEMMA ExecuteRefreshStep ==
  ASSUME IInv, NEW r \in Requests, ExecuteRefresh(r)
  PROVE  IInv'
<1> USE DEF IInv, Goto
<1>a. /\ pc[r] = "execute" /\ pc' = [pc EXCEPT ![r] = "begin"]
      /\ nextRefreshId' = nextRefreshId + 1
      /\ UNCHANGED <<generation, state, stdoutOpen, aborted, options, key,
                     batch, replies, askedAt>>
  BY DEF ExecuteRefresh
<1>b. PICK res \in {Result(nextRefreshId, r), Error(r)} :
        result' = [result EXCEPT ![r] = res]
  BY DEF ExecuteRefresh
<1>c. /\ res \in Replies /\ res.run = r
      /\ res.kind = "result" => res.refreshId = nextRefreshId
  BY DEF Result, Error, Replies, TypeOK
<1>d. nextRefreshId \in Nat
  BY DEF TypeOK
<1>e. \A s \in Requests : result[s].refreshId \in Nat
  BY DEF TypeOK, Replies
<1>1. TypeOK'
  BY <1>a, <1>b, <1>c DEF TypeOK, PcValues, Unregistered, Owning
<1>2. NeverAborts'
  BY <1>a, <1>b, <1>c DEF NeverAborts
<1>3. Ownership'
  BY <1>a, <1>b, <1>c DEF TypeOK, Ownership, SingleFlight, Owns, Owning
<1>4. KeysAreFresh'
  BY <1>a, <1>b, <1>c DEF TypeOK, KeysAreFresh, Keys
<1>5. IdsAreFresh'
  BY <1>a, <1>b, <1>c DEF TypeOK, IdsAreFresh, Registered, Unregistered, Serves
<1>6. ResultsAreDistinct'
  BY <1>a, <1>b, <1>c, <1>d, <1>e DEF TypeOK, ResultsAreDistinct, Executed,
     Unregistered
<1>7. RepliesAreResults'
  <2> SUFFICES ASSUME NEW q \in Requests, replies[q] # <<>>, replies[q] #
    <<Invalid(q)>>
               PROVE  Registered(q)' /\ \E t \in Requests : AnsweredBy(q, t)'
    BY <1>a DEF RepliesAreResults, Registered, Unregistered, TypeOK, Invalid
  <2>1. PICK t \in Requests : AnsweredBy(q, t)
    BY DEF RepliesAreResults
  <2>2. AnsweredBy(q, t)'
    BY <1>a, <1>b, <2>1 DEF TypeOK, AnsweredBy, Executed, Unregistered, Serves
  <2> QED
    BY <1>a, <2>2 DEF TypeOK, RepliesAreResults, Registered, Unregistered
<1>8. NoRequestLost'
  BY <1>a, <1>b, <1>c DEF TypeOK, NoRequestLost, Registered, Unregistered, Owns,
     Owning
<1>9. NoLostWakeup'
  BY <1>a, <1>b, <1>c DEF TypeOK, NoLostWakeup
<1> QED
  BY <1>1, <1>2, <1>3, <1>4, <1>5, <1>6, <1>7, <1>8, <1>9 DEF IInv

(* A reply goes to a request of the batch, which had none.                  *)
LEMMA SendReplyStep ==
  ASSUME IInv, NEW r \in Requests, SendReply(r)
  PROVE  IInv'
<1> USE DEF IInv, Goto
<1>a. PICK q \in batch[r] :
        /\ replies' = [replies EXCEPT ![q] = Append(@, result[r])]
        /\ batch' = [batch EXCEPT ![r] = @ \ {q}]
  BY DEF SendReply
<1>b. /\ pc[r] = "send" /\ q \in Requests
      /\ UNCHANGED <<generation, state, nextRefreshId, stdoutOpen, aborted, pc,
                     options, key, result, askedAt>>
  BY DEF SendReply, TypeOK, sharedVars
<1>c. /\ Registered(q) /\ replies[q] = <<>> /\ Serves(key[r], q)
      /\ q \notin state.ids
  BY <1>b DEF IdsAreFresh
<1>d. /\ replies' = [replies EXCEPT ![q] = <<result[r]>>]
      /\ <<result[r]>> \in Seq(Replies)
      /\ <<result[r]>> # <<>>
  BY <1>a, <1>b, <1>c DEF TypeOK
<1>e. \A s \in Requests : batch[s] # {} => s = r
  BY <1>b DEF IdsAreFresh, Ownership, SingleFlight, Owns, Owning
<1>1. TypeOK'
  BY <1>a, <1>b, <1>c, <1>d, <1>e DEF TypeOK, PcValues, Unregistered, Owning
<1>2. NeverAborts'
  BY <1>a, <1>b, <1>c, <1>d, <1>e DEF NeverAborts
<1>3. Ownership'
  BY <1>a, <1>b, <1>c, <1>d, <1>e DEF TypeOK, Ownership, SingleFlight, Owns, Owning
<1>4. KeysAreFresh'
  BY <1>a, <1>b, <1>c, <1>d, <1>e DEF TypeOK, KeysAreFresh, Keys
<1>5. IdsAreFresh'
  BY <1>a, <1>b, <1>c, <1>d, <1>e DEF TypeOK, IdsAreFresh, Registered,
     Unregistered, Serves
<1>6. ResultsAreDistinct'
  BY <1>a, <1>b, <1>c, <1>d, <1>e DEF TypeOK, ResultsAreDistinct, Executed,
     Unregistered
<1>7. RepliesAreResults'
  <2> SUFFICES ASSUME NEW p \in Requests, replies'[p] # <<>>, replies'[p] #
    <<Invalid(p)>>
               PROVE  Registered(p)' /\ \E t \in Requests : AnsweredBy(p, t)'
    BY <1>b, <1>c, <1>d DEF TypeOK, RepliesAreResults, Registered, Unregistered,
       Invalid
  <2>1. CASE p = q
    <3>1. AnsweredBy(p, r)'
      BY <1>b, <1>c, <1>d, <2>1 DEF TypeOK, AnsweredBy, Executed, Unregistered,
         Serves
    <3> QED
      BY <1>b, <1>c, <2>1, <3>1 DEF Registered
  <2>2. CASE p # q
    <3>1. PICK t \in Requests : AnsweredBy(p, t)
      BY <1>d, <2>2 DEF TypeOK, RepliesAreResults
    <3>2. AnsweredBy(p, t)'
      BY <1>b, <1>d, <2>2, <3>1 DEF TypeOK, AnsweredBy, Executed, Unregistered,
         Serves
    <3> QED
      BY <1>b, <1>d, <2>2, <3>2 DEF TypeOK, RepliesAreResults, Registered
  <2> QED
    BY <2>1, <2>2
<1>8. NoRequestLost'
  <2> SUFFICES ASSUME stdoutOpen, NEW p \in Requests, Registered(p), p # q,
                      replies[p] = <<>>
               PROVE  p \in state.ids \/ \E s \in Requests : Owns(s) /\ p \in
                  batch'[s]
    BY <1>b, <1>d DEF NoRequestLost, Registered, Owns, TypeOK
  <2>1. p \in state.ids \/ \E s \in Requests : Owns(s) /\ p \in batch[s]
    BY DEF NoRequestLost
  <2>2. ASSUME NEW s \in Requests, p \in batch[s] PROVE p \in batch'[s]
    BY <1>a, <2>2 DEF TypeOK
  <2> QED
    BY <2>1, <2>2
<1>9. NoLostWakeup'
  BY <1>a, <1>b, <1>c, <1>d, <1>e DEF TypeOK, NoLostWakeup
<1> QED
  BY <1>1, <1>2, <1>3, <1>4, <1>5, <1>6, <1>7, <1>8, <1>9 DEF IInv

(* A send that panics drops the batch; the coordinator is freed and the     *)
(* waiters are woken.                                                       *)
LEMMA SendPanicsStep ==
  ASSUME IInv, NEW r \in Requests, SendPanics(r)
  PROVE  IInv'
<1> USE DEF IInv, Goto
<1>a. /\ pc[r] = "send" /\ ~stdoutOpen
      /\ batch' = [batch EXCEPT ![r] = {}]
      /\ UNCHANGED <<generation, nextRefreshId, stdoutOpen, aborted, options,
                     key, result, replies, askedAt>>
  BY DEF SendPanics
<1>b. /\ state.tag = "Completing" /\ state.key = key[r]
      /\ \A s \in Requests : Owns(s) => s = r
  BY <1>a DEF Ownership, SingleFlight, Owns, Owning
<1>c. /\ state' = Idle
      /\ pc' = NotifyAll([pc EXCEPT ![r] = "returned"])
  BY <1>b DEF SendPanics, ForceCompleteRequest
<1>d. /\ pc' \in [Requests -> PcValues] /\ pc'[r] = "returned"
      /\ \A s \in Requests \ {r} :
           pc'[s] = IF pc[s] = "parked" THEN "wait" ELSE pc[s]
  BY <1>a, <1>c DEF NotifyAll, TypeOK, PcValues, Unregistered
<1>e. /\ state' \in States /\ state'.tag = "Idle" /\ state'.ids = {}
  BY <1>c DEF Idle, States
<1>1. TypeOK'
  BY <1>a, <1>b, <1>d, <1>e DEF TypeOK, PcValues, Unregistered, Owning
<1>2. NeverAborts'
  BY <1>a, <1>b, <1>d, <1>e DEF NeverAborts
<1>3. Ownership'
  BY <1>a, <1>b, <1>d, <1>e DEF TypeOK, Ownership, SingleFlight, Owns, Owning
<1>4. KeysAreFresh'
  BY <1>a, <1>b, <1>d, <1>e DEF TypeOK, KeysAreFresh, Keys
<1>5. IdsAreFresh'
  BY <1>a, <1>b, <1>d, <1>e DEF TypeOK, IdsAreFresh, Registered, Unregistered,
     Serves
<1>6. ResultsAreDistinct'
  BY <1>a, <1>b, <1>d, <1>e DEF TypeOK, ResultsAreDistinct, Executed, Unregistered
<1>7. RepliesAreResults'
  <2> SUFFICES ASSUME NEW q \in Requests, replies[q] # <<>>, replies[q] #
    <<Invalid(q)>>
               PROVE  Registered(q)' /\ \E t \in Requests : AnsweredBy(q, t)'
    BY <1>a, <1>d DEF RepliesAreResults, Registered, Unregistered, TypeOK, Invalid
  <2>1. PICK t \in Requests : AnsweredBy(q, t)
    BY DEF RepliesAreResults
  <2>2. AnsweredBy(q, t)'
    BY <1>a, <1>d, <2>1 DEF TypeOK, AnsweredBy, Executed, Unregistered, Serves
  <2> QED
    BY <1>a, <1>d, <2>2 DEF TypeOK, RepliesAreResults, Registered, Unregistered
<1>8. NoRequestLost'
  BY <1>a, <1>b, <1>d, <1>e DEF TypeOK, NoRequestLost, Registered, Unregistered,
     Owns, Owning
<1>9. NoLostWakeup'
  BY <1>a, <1>b, <1>d, <1>e DEF TypeOK, NoLostWakeup
<1> QED
  BY <1>1, <1>2, <1>3, <1>4, <1>5, <1>6, <1>7, <1>8, <1>9 DEF IInv

(* The coordinator becomes idle only with no id pending, and then wakes     *)
(* everybody.                                                               *)
LEMMA CompleteRequestStep ==
  ASSUME IInv, NEW r \in Requests, CompleteRequest(r)
  PROVE  IInv'
<1> USE DEF IInv, Goto
<1>a. /\ pc[r] = "finish" /\ state.tag = "Completing" /\ state.key = key[r]
      /\ \A s \in Requests : Owns(s) => s = r
  BY DEF CompleteRequest, Ownership, SingleFlight, Owns, Owning
<1>b. UNCHANGED <<generation, nextRefreshId, stdoutOpen, aborted, options, key,
                  result, batch, replies, askedAt>>
  BY <1>a DEF CompleteRequest, Matches
<1>p. CASE state.ids # {}
  <2>1. UNCHANGED state /\ pc' = [pc EXCEPT ![r] = "drain"]
    BY <1>a, <1>p DEF CompleteRequest, Matches
  <2>2. TypeOK'
    BY <1>a, <1>b, <1>p, <2>1 DEF TypeOK, PcValues, Unregistered, Owning
  <2>3. NeverAborts'
    BY <1>a, <1>b, <1>p, <2>1 DEF NeverAborts
  <2>4. Ownership'
    BY <1>a, <1>b, <1>p, <2>1 DEF TypeOK, Ownership, SingleFlight, Owns, Owning
  <2>5. KeysAreFresh'
    BY <1>a, <1>b, <1>p, <2>1 DEF TypeOK, KeysAreFresh, Keys
  <2>6. IdsAreFresh'
    BY <1>a, <1>b, <1>p, <2>1 DEF TypeOK, IdsAreFresh, Registered, Unregistered,
       Serves
  <2>7. ResultsAreDistinct'
    BY <1>a, <1>b, <1>p, <2>1 DEF TypeOK, ResultsAreDistinct, Executed, Unregistered
  <2>8. RepliesAreResults'
    BY <1>a, <1>b, <1>p, <2>1 DEF TypeOK, RepliesAreResults, Executed,
       AnsweredBy, Registered, Unregistered, Serves
  <2>9. NoRequestLost'
    BY <1>a, <1>b, <1>p, <2>1 DEF TypeOK, NoRequestLost, Registered,
       Unregistered, Owns, Owning
  <2>10. NoLostWakeup'
    BY <1>a, <1>b, <1>p, <2>1 DEF TypeOK, NoLostWakeup
  <2> QED
    BY <2>2, <2>3, <2>4, <2>5, <2>6, <2>7, <2>8, <2>9, <2>10 DEF IInv
<1>q. CASE state.ids = {}
  <2>1. /\ state' = Idle
        /\ pc' = NotifyAll([pc EXCEPT ![r] =
                   IF result[r].kind = "result" THEN "followup" ELSE "returned"])
    BY <1>a, <1>q DEF CompleteRequest, Matches
  <2>2. /\ pc' \in [Requests -> PcValues] /\ pc'[r] \in {"followup", "returned"}
        /\ \A s \in Requests \ {r} :
             pc'[s] = IF pc[s] = "parked" THEN "wait" ELSE pc[s]
    BY <1>a, <2>1 DEF NotifyAll, TypeOK, PcValues, Unregistered
  <2>3. /\ state' \in States /\ state'.tag = "Idle" /\ state'.ids = {}
    BY <2>1 DEF Idle, States
  <2>4. \A s \in Requests : batch[s] = {}
    BY <1>a DEF IdsAreFresh, Owns, Owning, TypeOK
  <2>5. TypeOK'
    BY <1>a, <1>b, <1>q, <2>2, <2>3, <2>4 DEF TypeOK, PcValues, Unregistered, Owning
  <2>6. NeverAborts'
    BY <1>a, <1>b, <1>q, <2>2, <2>3, <2>4 DEF NeverAborts
  <2>7. Ownership'
    BY <1>a, <1>b, <1>q, <2>2, <2>3, <2>4 DEF TypeOK, Ownership, SingleFlight,
       Owns, Owning
  <2>8. KeysAreFresh'
    BY <1>a, <1>b, <1>q, <2>2, <2>3, <2>4 DEF TypeOK, KeysAreFresh, Keys
  <2>9. IdsAreFresh'
    BY <1>a, <1>b, <1>q, <2>2, <2>3, <2>4 DEF TypeOK, IdsAreFresh, Registered,
       Unregistered, Serves
  <2>10. ResultsAreDistinct'
    BY <1>a, <1>b, <1>q, <2>2, <2>3, <2>4 DEF TypeOK, ResultsAreDistinct,
       Executed, Unregistered
  <2>11. RepliesAreResults'
    <3> SUFFICES ASSUME NEW q \in Requests, replies[q] # <<>>, replies[q] #
      <<Invalid(q)>>
                 PROVE  Registered(q)' /\ \E t \in Requests : AnsweredBy(q, t)'
      BY <1>b, <2>2 DEF RepliesAreResults, Registered, Unregistered, TypeOK, Invalid
    <3>1. PICK t \in Requests : AnsweredBy(q, t)
      BY DEF RepliesAreResults
    <3>2. AnsweredBy(q, t)'
      BY <1>b, <2>2, <3>1 DEF TypeOK, AnsweredBy, Executed, Unregistered, Serves
    <3> QED
      BY <1>b, <2>2, <3>2 DEF TypeOK, RepliesAreResults, Registered, Unregistered
  <2>12. NoRequestLost'
    BY <1>a, <1>b, <1>q, <2>2, <2>3, <2>4 DEF TypeOK, NoRequestLost, Registered,
       Unregistered, Owns, Owning
  <2>13. NoLostWakeup'
    BY <1>a, <1>b, <1>q, <2>2, <2>3, <2>4 DEF TypeOK, NoLostWakeup
  <2> QED
    BY <2>5, <2>6, <2>7, <2>8, <2>9, <2>10, <2>11, <2>12, <2>13 DEF IInv
<1> QED
  BY <1>p, <1>q

(* A new generation is above every key.                                     *)
LEMMA PublishConfigurationStep ==
  ASSUME IInv, PublishConfiguration
  PROVE  IInv'
<1> USE DEF IInv, PublishConfiguration, localVars
<1>1. TypeOK'
  BY MaxGenerationAssumption DEF TypeOK
<1>2. NeverAborts' /\ Ownership' /\ NoLostWakeup'
  BY DEF NeverAborts, Ownership, SingleFlight, Owns, NoLostWakeup
<1>3. KeysAreFresh'
  <2> SUFFICES ASSUME NEW r \in Requests
               PROVE  /\ askedAt[r] <= generation'
                      /\ key[r] # NoKey => key[r].generation <= generation'
    BY DEF KeysAreFresh
  <2>1. generation \in Nat /\ generation' = generation + 1 /\ askedAt[r] \in Nat
    BY MaxGenerationAssumption DEF TypeOK
  <2>2. key[r] # NoKey => key[r].generation \in Nat
    BY DEF TypeOK, Keys
  <2> QED
    BY <2>1, <2>2 DEF KeysAreFresh
<1>4. IdsAreFresh'
  BY DEF IdsAreFresh, Registered, Serves
<1>5. ResultsAreDistinct' /\ RepliesAreResults'
  BY DEF ResultsAreDistinct, RepliesAreResults, AnsweredBy, Executed,
     Registered, Serves
<1>6. NoRequestLost'
  BY DEF NoRequestLost, Registered, Owns
<1> QED
  BY <1>1, <1>2, <1>3, <1>4, <1>5, <1>6 DEF IInv

(* Losing stdout changes nothing that the invariant speaks of.              *)
LEMMA CloseStdoutStep ==
  ASSUME IInv, CloseStdout
  PROVE  IInv'
<1> USE DEF IInv, CloseStdout, localVars
<1>1. TypeOK'
  BY DEF TypeOK
<1>2. NeverAborts' /\ Ownership' /\ NoLostWakeup' /\ KeysAreFresh'
  BY DEF NeverAborts, Ownership, SingleFlight, Owns, NoLostWakeup, KeysAreFresh
<1>3. IdsAreFresh'
  BY DEF IdsAreFresh, Registered, Serves
<1>4. ResultsAreDistinct' /\ RepliesAreResults'
  BY DEF ResultsAreDistinct, RepliesAreResults, AnsweredBy, Executed,
     Registered, Serves
<1>5. NoRequestLost'
  BY DEF NoRequestLost
<1> QED
  BY <1>1, <1>2, <1>3, <1>4, <1>5 DEF IInv

(* Nor does a step that leaves all variables alone.                         *)
LEMMA StutterStep ==
  ASSUME IInv, UNCHANGED vars
  PROVE  IInv'
<1> USE DEF IInv, vars
<1>1. TypeOK' /\ NeverAborts' /\ Ownership' /\ NoLostWakeup' /\ KeysAreFresh'
  BY DEF TypeOK, NeverAborts, Ownership, SingleFlight, Owns, NoLostWakeup,
     KeysAreFresh
<1>2. IdsAreFresh' /\ NoRequestLost'
  BY DEF IdsAreFresh, Registered, Serves, NoRequestLost, Owns
<1>3. ResultsAreDistinct' /\ RepliesAreResults'
  BY DEF ResultsAreDistinct, RepliesAreResults, AnsweredBy, Executed,
     Registered, Serves
<1> QED
  BY <1>1, <1>2, <1>3 DEF IInv

(* The initial state satisfies the invariant: nobody has registered.        *)
LEMMA InitIInv == Init => IInv
<1> SUFFICES ASSUME Init PROVE IInv
  OBVIOUS
<1>1. TypeOK
  BY InitTypeOK
<1>2. \A r \in Requests : /\ pc[r] = "new" /\ key[r] = NoKey /\ batch[r] = {}
                          /\ replies[r] = <<>> /\ askedAt[r] = 0
                          /\ result[r].run = r /\ result[r].kind = "error"
  BY DEF Init, Error
<1>3. state.tag = "Idle" /\ state.ids = {} /\ generation = 0 /\ ~aborted
  BY DEF Init, Idle
<1>4. NeverAborts /\ Ownership /\ NoLostWakeup
  BY <1>2, <1>3 DEF NeverAborts, Ownership, SingleFlight, Owns, Owning, NoLostWakeup
<1>5. KeysAreFresh
  BY <1>2, <1>3 DEF KeysAreFresh
<1>6. IdsAreFresh /\ RepliesAreResults
  BY <1>2, <1>3 DEF IdsAreFresh, RepliesAreResults
<1>7. ResultsAreDistinct
  BY <1>2 DEF ResultsAreDistinct, Executed, Unregistered
<1>8. NoRequestLost
  BY <1>2 DEF NoRequestLost, Registered, Unregistered
<1> QED
  BY <1>1, <1>4, <1>5, <1>6, <1>7, <1>8 DEF IInv

(* Every step of a thread, a client or a configure preserves the invariant. *)
LEMMA NextIInv == IInv /\ [Next]_vars => IInv'
<1> SUFFICES ASSUME IInv, [Next]_vars PROVE IInv'
  OBVIOUS
<1>1. CASE UNCHANGED vars
  BY <1>1, StutterStep
<1>2. CASE PublishConfiguration
  BY <1>2, PublishConfigurationStep
<1>3. CASE CloseStdout
  BY <1>3, CloseStdoutStep
<1>4. ASSUME NEW r \in Requests,
             Receive(r) \/ ReceiveInvalid(r) \/ SpuriousWakeup(r)
      PROVE  IInv'
  BY <1>4, ReceiveStep, ReceiveInvalidStep, SpuriousWakeupStep
<1>5. ASSUME NEW r \in Requests, ThreadStep(r) PROVE IInv'
  <2>1. CASE Snapshot(r)
    BY <2>1, SnapshotStep
  <2>2. CASE RegisterRequest(r)
    <3>1. RegisterStart(r) \/ RegisterJoined(r) \/ RegisterWait(r)
      BY <2>2 DEF RegisterRequest
    <3> QED
      BY <2>2, <3>1, RegisterStartStep, RegisterJoinedStep, RegisterWaitStep
  <2>3. CASE WaitUntilIdle(r)
    BY <2>3, WaitUntilIdleStep
  <2>4. CASE ExecuteRefresh(r)
    BY <2>4, ExecuteRefreshStep
  <2>5. CASE BeginCompletion(r)
    BY <2>5, BeginCompletionStep
  <2>6. CASE DrainRequestIds(r)
    BY <2>6, DrainRequestIdsStep
  <2>7. CASE SendReply(r)
    BY <2>7, SendReplyStep
  <2>8. CASE SendDone(r)
    BY <2>8, SendDoneStep
  <2>9. CASE SendPanics(r)
    BY <2>9, SendPanicsStep
  <2>10. CASE CompleteRequest(r)
    BY <2>10, CompleteRequestStep
  <2>11. CASE FollowUp(r)
    BY <2>11, FollowUpStep
  <2> QED
    BY <1>5, <2>1, <2>2, <2>3, <2>4, <2>5, <2>6, <2>7, <2>8, <2>9, <2>10, <2>11
       DEF ThreadStep
<1> QED
  BY <1>1, <1>2, <1>3, <1>4, <1>5 DEF Next, Quiescent

(* The inductive invariant holds in every reachable state, for any number   *)
(* of requests, options and configurations.                                 *)
THEOREM Invariance == Spec => []IInv
<1>1. Init => IInv
  BY InitIInv
<1>2. IInv /\ [Next]_vars => IInv'
  BY NextIInv
<1> QED
  BY <1>1, <1>2, PTL DEF Spec

(* Type correctness, for all instances.                                     *)
THEOREM TypeCorrectness == Spec => []TypeOK
<1>1. IInv => TypeOK
  BY DEF IInv
<1> QED
  BY <1>1, Invariance, PTL

(* At most one thread is between register_request and the end of its        *)
(* completion.                                                              *)
THEOREM RefreshesNeverOverlap == Spec => []SingleFlight
<1>1. IInv => SingleFlight
  BY DEF IInv, Ownership
<1> QED
  BY <1>1, Invariance, PTL

(* No coordinator method reaches one of its panicking arms, so a drop       *)
(* during a panic never aborts the process.                                 *)
THEOREM PanicsStayInTheirThread == Spec => []NeverAborts
<1>1. IInv => NeverAborts
  BY DEF IInv
<1> QED
  BY <1>1, Invariance, PTL

(* No request is ever sent two responses, joins during completion, panics   *)
(* and failed sends included.                                               *)
THEOREM RequestsAreAnsweredOnce == Spec => []AnsweredOnce
<1>1. IInv => AnsweredOnce
  <2> SUFFICES ASSUME IInv, NEW q \in Requests PROVE Len(replies[q]) <= 1
    BY DEF AnsweredOnce
  <2>1. \/ replies[q] = <<>>
        \/ replies[q] = <<Invalid(q)>>
        \/ \E r \in Requests : replies[q] = <<result[r]>>
    BY DEF IInv, RepliesAreResults, AnsweredBy
  <2>2. CASE replies[q] = <<>>
    BY <2>2
  <2>3. ASSUME NEW x, replies[q] = <<x>> PROVE Len(replies[q]) <= 1
    BY <2>3
  <2> QED
    BY <2>1, <2>2, <2>3
<1> QED
  BY <1>1, Invariance, PTL

(* A request is answered by a run with the same options whose configuration *)
(* is no older than the one published when the request arrived.             *)
THEOREM RequestsAreAnsweredByMatchingRuns == Spec => []AnsweredByMatchingRun
<1>1. IInv => AnsweredByMatchingRun
  <2> SUFFICES ASSUME IInv, NEW q \in Requests, NEW i \in DOMAIN replies[q],
                      replies[q][i].kind # "invalid"
               PROVE  LET k == key[replies[q][i].run]
                      IN  k.options = options[q] /\ k.generation >= askedAt[q]
    BY DEF AnsweredByMatchingRun
  <2>1. replies[q] # <<>> /\ replies[q] # <<Invalid(q)>>
    BY DEF Invalid
  <2>2. PICK r \in Requests : AnsweredBy(q, r)
    BY <2>1 DEF IInv, RepliesAreResults
  <2>3. replies[q][i] = result[r] /\ result[r].run = r
    BY <2>2 DEF AnsweredBy, IInv, ResultsAreDistinct
  <2>4. askedAt[q] \in Nat /\ key[r].generation \in Nat
    BY <2>2 DEF AnsweredBy, Serves, Keys, IInv, TypeOK
  <2> QED
    BY <2>2, <2>3, <2>4 DEF AnsweredBy, Serves
<1> QED
  BY <1>1, Invariance, PTL

(* A registered request is always held by a thread that will answer it, and *)
(* a waiting thread is never left behind with the coordinator idle.         *)
THEOREM RequestsAreNeverLost == Spec => [](NoRequestLost /\ NoLostWakeup)
<1>1. IInv => NoRequestLost /\ NoLostWakeup
  BY DEF IInv
<1> QED
  BY <1>1, Invariance, PTL

(* Two replies carry the same refreshId exactly if they come from the same  *)
(* execution of the refresh.                                                *)
THEOREM RefreshIdsIdentifyRuns == Spec => []RefreshIdIdentifiesRun
<1>1. IInv => RefreshIdIdentifiesRun
  <2> SUFFICES ASSUME IInv, NEW p \in Requests, NEW q \in Requests,
                      NEW i \in DOMAIN replies[p], NEW j \in DOMAIN replies[q],
                      replies[p][i].kind = "result", replies[q][j].kind = "result"
               PROVE  replies[p][i].refreshId = replies[q][j].refreshId
                        <=> replies[p][i].run = replies[q][j].run
    BY DEF RefreshIdIdentifiesRun
  <2>1. /\ replies[p] # <<>> /\ replies[p] # <<Invalid(p)>>
        /\ replies[q] # <<>> /\ replies[q] # <<Invalid(q)>>
    BY DEF Invalid
  <2>2. PICK r \in Requests : AnsweredBy(p, r)
    BY <2>1 DEF IInv, RepliesAreResults
  <2>3. PICK s \in Requests : AnsweredBy(q, s)
    BY <2>1 DEF IInv, RepliesAreResults
  <2>4. /\ replies[p][i] = result[r] /\ result[r].run = r /\ Executed(r)
        /\ replies[q][j] = result[s] /\ result[s].run = s /\ Executed(s)
    BY <2>2, <2>3 DEF AnsweredBy, IInv, ResultsAreDistinct
  <2> QED
    BY <2>4 DEF IInv, ResultsAreDistinct
<1> QED
  BY <1>1, Invariance, PTL

-----------------------------------------------------------------------------
(* The coordinator implements RefreshService.                               *)


(* The outcome that the mapping picks is the result of the one thread that  *)
(* has executed its refresh and still owns the coordinator.                 *)
LEMMA OutcomeOfOwner ==
  ASSUME SingleFlight, NEW r \in Requests, Owns(r)
  PROVE  serviceOutcome = IF pc[r] = "execute" THEN NoOutcome ELSE result[r]
<1>1. CASE pc[r] = "execute"
  BY <1>1 DEF serviceOutcome, SingleFlight
<1>2. CASE pc[r] # "execute"
  <2>1. \A s \in Requests : (Owns(s) /\ pc[s] # "execute") <=> s = r
    BY <1>2 DEF SingleFlight
  <2>2. (CHOOSE s \in Requests : Owns(s) /\ pc[s] # "execute") = r
    BY <2>1
  <2> QED
    BY <1>2, <2>2 DEF serviceOutcome
<1> QED
  BY <1>1, <1>2

(* With no owner there is no outcome.                                       *)
LEMMA OutcomeWithoutOwner ==
  ASSUME \A r \in Requests : ~Owns(r)
  PROVE  serviceOutcome = NoOutcome
  BY DEF serviceOutcome

(* Steps that leave the mapped variables alone.                             *)
LEMMA MappedStutter ==
  ASSUME IInv, NEW r \in Requests,
         UNCHANGED <<generation, nextRefreshId, stdoutOpen, options, result,
                     replies, askedAt>>,
         state'.key = state.key,
         \A q \in Requests : IsMember(q)' <=> IsMember(q),
         pc' \in [Requests -> PcValues],
         \A s \in Requests \ {r} : pc'[s] = pc[s],
         pc[r] # "new", pc'[r] # "new",
         pc[r] \in Unregistered <=> pc'[r] \in Unregistered,
         pc[r] \in Owning <=> pc'[r] \in Owning,
         pc[r] = "execute" <=> pc'[r] = "execute"
  PROVE  UNCHANGED Service!serviceVars
<1>1. \A q \in Requests : servicePhase'[q] = servicePhase[q]
  BY DEF servicePhase
<1>2. servicePhase' = servicePhase
  BY <1>1 DEF servicePhase
<1>3. \A s \in Requests :
        (Owns(s) /\ pc[s] # "execute")' <=> (Owns(s) /\ pc[s] # "execute")
  BY DEF Owns
<1>4. serviceOutcome' = serviceOutcome
  BY <1>3 DEF serviceOutcome
<1> QED
  BY <1>2, <1>4 DEF Service!serviceVars

(* Snapshots, waits, wakeups, the end of a batch and the follow-up are      *)
(* invisible to the clients.                                                *)
LEMMA InternalSteps ==
  ASSUME IInv, NEW r \in Requests,
         \/ Snapshot(r) \/ WaitUntilIdle(r) \/ SpuriousWakeup(r)
         \/ SendDone(r) \/ FollowUp(r)
  PROVE  UNCHANGED Service!serviceVars
<1>1. UNCHANGED <<generation, nextRefreshId, stdoutOpen, options, result,
                  replies, askedAt, state, batch>>
  BY DEF Snapshot, WaitUntilIdle, SpuriousWakeup, SendDone, FollowUp, sharedVars
<1>2. \A q \in Requests : IsMember(q)' <=> IsMember(q)
  BY <1>1 DEF IsMember
<1>3. \E label \in PcValues : pc' = [pc EXCEPT ![r] = label]
  BY DEF Snapshot, WaitUntilIdle, SpuriousWakeup, SendDone, FollowUp, Goto,
         PcValues, Unregistered, Owning
<1>4. pc \in [Requests -> PcValues]
  BY DEF IInv, TypeOK
<1>5. /\ pc[r] # "new" /\ pc'[r] # "new"
      /\ pc[r] \in Unregistered <=> pc'[r] \in Unregistered
      /\ pc[r] \in Owning <=> pc'[r] \in Owning
      /\ pc[r] = "execute" <=> pc'[r] = "execute"
  BY <1>4 DEF Snapshot, WaitUntilIdle, SpuriousWakeup, SendDone, FollowUp, Goto,
         Unregistered, Owning
<1>6. pc' \in [Requests -> PcValues] /\ \A s \in Requests \ {r} : pc'[s] = pc[s]
  BY <1>3, <1>4
<1> QED
  BY <1>1, <1>2, <1>5, <1>6, MappedStutter

(* So is a registration that only sends the thread to wait,                 *)
LEMMA RegisterWaitMaps ==
  ASSUME IInv, NEW r \in Requests, RegisterRequest(r), RegisterWait(r)
  PROVE  UNCHANGED Service!serviceVars
<1>1. /\ pc[r] = "register" /\ pc' = [pc EXCEPT ![r] = "wait"]
      /\ UNCHANGED <<generation, nextRefreshId, stdoutOpen, options, result,
                     replies, askedAt, state, batch>>
  BY DEF RegisterRequest, RegisterWait, Goto
<1>2. \A q \in Requests : IsMember(q)' <=> IsMember(q)
  BY <1>1 DEF IsMember
<1>3. pc \in [Requests -> PcValues]
  BY DEF IInv, TypeOK
<1>4. /\ pc' \in [Requests -> PcValues]
      /\ \A s \in Requests \ {r} : pc'[s] = pc[s]
      /\ pc'[r] = "wait"
  BY <1>1, <1>3 DEF PcValues, Unregistered
<1> QED
  BY <1>1, <1>2, <1>4, MappedStutter DEF Unregistered, Owning

(* the move from Running to Completing,                                     *)
LEMMA BeginCompletionMaps ==
  ASSUME IInv, NEW r \in Requests, BeginCompletion(r)
  PROVE  UNCHANGED Service!serviceVars
<1>1. pc[r] = "begin" /\ state.tag = "Running" /\ state.key = key[r]
  BY DEF BeginCompletion, IInv, Ownership, Owns, Owning
<1>2. /\ pc' = [pc EXCEPT ![r] = "drain"]
      /\ state' = [state EXCEPT !.tag = "Completing"]
      /\ UNCHANGED <<generation, nextRefreshId, stdoutOpen, options, result,
                     replies, askedAt, batch>>
  BY <1>1 DEF BeginCompletion, Matches, Goto
<1>3. pc \in [Requests -> PcValues] /\ state = Active("Running", state.key,
  state.ids)
  BY <1>1, StateFacts DEF IInv, TypeOK
<1>4. state'.key = state.key /\ state'.ids = state.ids
  BY <1>2, <1>3 DEF Active
<1>5. \A q \in Requests : IsMember(q)' <=> IsMember(q)
  BY <1>2, <1>4 DEF IsMember
<1>6. /\ pc' \in [Requests -> PcValues]
      /\ \A s \in Requests \ {r} : pc'[s] = pc[s]
      /\ pc'[r] = "drain"
  BY <1>2, <1>3 DEF PcValues, Owning
<1> QED
  BY <1>1, <1>2, <1>4, <1>5, <1>6, MappedStutter DEF Unregistered, Owning

(* and the drain: a request in the batch is still owed an answer.           *)
LEMMA DrainRequestIdsMaps ==
  ASSUME IInv, NEW r \in Requests, DrainRequestIds(r)
  PROVE  UNCHANGED Service!serviceVars
<1>1. pc[r] = "drain" /\ state.tag = "Completing" /\ state.key = key[r]
  BY DEF DrainRequestIds, IInv, Ownership, Owns, Owning
<1>2. /\ pc' = [pc EXCEPT ![r] = "send"]
      /\ state' = [state EXCEPT !.ids = {}]
      /\ batch' = [batch EXCEPT ![r] = state.ids]
      /\ UNCHANGED <<generation, nextRefreshId, stdoutOpen, options, result,
                     replies, askedAt>>
  BY <1>1 DEF DrainRequestIds, Matches, Goto
<1>3. pc \in [Requests -> PcValues] /\ state = Active("Completing", state.key,
  state.ids)
  BY <1>1, StateFacts DEF IInv, TypeOK
<1>4. state'.key = state.key /\ state'.ids = {}
  BY <1>2, <1>3 DEF Active
<1>5. batch[r] = {} /\ batch \in [Requests -> SUBSET Requests]
  BY <1>1 DEF IInv, IdsAreFresh, TypeOK
<1>6. \A q \in Requests : IsMember(q)' <=> IsMember(q)
  BY <1>2, <1>4, <1>5 DEF IsMember
<1>7. /\ pc' \in [Requests -> PcValues]
      /\ \A s \in Requests \ {r} : pc'[s] = pc[s]
      /\ pc'[r] = "send"
  BY <1>2, <1>3 DEF PcValues, Owning
<1> QED
  BY <1>1, <1>2, <1>4, <1>6, <1>7, MappedStutter DEF Unregistered, Owning

(* A request that arrives is submitted to the service;                      *)
LEMMA ReceiveMaps ==
  ASSUME IInv, NEW r \in Requests, Receive(r)
  PROVE  Service!Submit(r)
<1>1. /\ pc[r] = "new" /\ pc' = [pc EXCEPT ![r] = "snapshot"]
      /\ askedAt' = [askedAt EXCEPT ![r] = generation]
      /\ UNCHANGED <<generation, nextRefreshId, stdoutOpen, options, result,
                     replies, batch, state>>
  BY DEF Receive, Goto, sharedVars
<1>2. pc \in [Requests -> PcValues] /\ replies[r] = <<>>
  BY <1>1 DEF IInv, TypeOK, RepliesAreResults, Registered, Unregistered
<1>3. servicePhase[r] = "new" /\ servicePhase'[r] = "waiting"
  BY <1>1, <1>2 DEF servicePhase, Unregistered
<1>4. \A q \in Requests \ {r} : servicePhase'[q] = servicePhase[q]
  BY <1>1, <1>2 DEF servicePhase, IsMember
<1>5. servicePhase' = [servicePhase EXCEPT ![r] = "waiting"]
  BY <1>3, <1>4 DEF servicePhase
<1>6. \A s \in Requests : (Owns(s) /\ pc[s] # "execute")' <=> (Owns(s) /\ pc[s]
  # "execute")
  BY <1>1, <1>2 DEF Owns, Owning
<1>7. serviceOutcome' = serviceOutcome
  BY <1>1, <1>6 DEF serviceOutcome
<1> QED
  BY <1>1, <1>3, <1>5, <1>7 DEF Service!Submit

(* one that cannot be parsed is rejected by it.                             *)
LEMMA ReceiveInvalidMaps ==
  ASSUME IInv, NEW r \in Requests, ReceiveInvalid(r)
  PROVE  Service!Reject(r)
<1>1. /\ pc[r] = "new" /\ stdoutOpen /\ pc' = [pc EXCEPT ![r] = "returned"]
      /\ askedAt' = [askedAt EXCEPT ![r] = generation]
      /\ replies' = [replies EXCEPT ![r] = Append(@, Invalid(r))]
      /\ UNCHANGED <<generation, nextRefreshId, stdoutOpen, options, result,
                     batch, state>>
  BY DEF ReceiveInvalid, Goto, sharedVars
<1>2. pc \in [Requests -> PcValues] /\ replies[r] = <<>>
  BY <1>1 DEF IInv, TypeOK, RepliesAreResults, Registered, Unregistered
<1>3. replies' = [replies EXCEPT ![r] = <<Invalid(r)>>] /\ <<Invalid(r)>> # <<>>
      /\ replies \in [Requests -> Seq(Replies)]
  BY <1>1, <1>2 DEF IInv, TypeOK
<1>4. servicePhase[r] = "new" /\ servicePhase'[r] = "answered"
  BY <1>1, <1>2, <1>3 DEF servicePhase
<1>5. \A q \in Requests \ {r} : servicePhase'[q] = servicePhase[q]
  BY <1>1, <1>2, <1>3 DEF servicePhase, IsMember
<1>6. servicePhase' = [servicePhase EXCEPT ![r] = "answered"]
  BY <1>4, <1>5 DEF servicePhase
<1>7. \A s \in Requests : (Owns(s) /\ pc[s] # "execute")' <=> (Owns(s) /\ pc[s]
  # "execute")
  BY <1>1, <1>2 DEF Owns, Owning
<1>8. serviceOutcome' = serviceOutcome
  BY <1>1, <1>7 DEF serviceOutcome
<1> QED
  BY <1>1, <1>4, <1>6, <1>8 DEF Service!Reject, Invalid

(* Start begins a run of the service,                                       *)
LEMMA RegisterStartMaps ==
  ASSUME IInv, NEW r \in Requests, RegisterRequest(r), RegisterStart(r)
  PROVE  Service!Start(r)
<1>1. /\ pc[r] = "register" /\ pc' = [pc EXCEPT ![r] = "execute"]
      /\ state.tag = "Idle" /\ state' = Active("Running", key[r], {r})
      /\ UNCHANGED <<generation, nextRefreshId, stdoutOpen, options, result,
                     replies, askedAt, batch>>
  BY DEF RegisterRequest, RegisterStart, Goto
<1>2. /\ pc \in [Requests -> PcValues] /\ replies[r] = <<>>
      /\ state = Idle /\ \A s \in Requests : ~Owns(s)
  BY <1>1, StateFacts DEF IInv, TypeOK, RepliesAreResults, Registered,
                          Unregistered, Ownership
<1>3. state.key = NoKey /\ state.ids = {} /\ state'.key = key[r] /\ state'.ids = {r}
  BY <1>1, <1>2 DEF Idle, Active
<1>4. servicePhase[r] = "waiting" /\ servicePhase'[r] = "member"
  BY <1>1, <1>2, <1>3 DEF servicePhase, Unregistered, IsMember
<1>5. \A q \in Requests \ {r} : servicePhase'[q] = servicePhase[q]
  BY <1>1, <1>2, <1>3 DEF servicePhase, IsMember
<1>6. servicePhase' = [servicePhase EXCEPT ![r] = "member"]
  BY <1>4, <1>5 DEF servicePhase
<1>7. serviceOutcome = NoOutcome
  BY <1>2, OutcomeWithoutOwner
<1>8. serviceOutcome' = NoOutcome
  BY <1>1, <1>2 DEF serviceOutcome, Owns, Owning
<1>9. \E g \in askedAt[r] .. generation :
        key[r] = [options |-> options[r], generation |-> g]
  <2>1. /\ key[r] \in Keys /\ key[r].options = options[r]
        /\ askedAt[r] <= key[r].generation
    BY <1>1 DEF IInv, TypeOK, KeysAreFresh
  <2>2. key[r].generation <= generation
    BY <1>1 DEF IInv, KeysAreFresh
  <2>3. /\ key[r].generation \in Nat /\ askedAt[r] \in Nat /\ generation \in Nat
        /\ key[r] = [options |-> key[r].options, generation |-> key[r].generation]
    BY <2>1, MaxGenerationAssumption DEF IInv, TypeOK, Keys
  <2> QED
    BY <2>1, <2>2, <2>3
<1> QED
  BY <1>1, <1>3, <1>4, <1>6, <1>7, <1>8, <1>9 DEF Service!Start

(* Joined joins the run that is active,                                     *)
LEMMA RegisterJoinedMaps ==
  ASSUME IInv, NEW r \in Requests, RegisterRequest(r), RegisterJoined(r)
  PROVE  Service!Join(r)
<1>1. /\ pc[r] = "register" /\ pc' = [pc EXCEPT ![r] = "returned"]
      /\ state.tag # "Idle" /\ state.key = key[r]
      /\ state' = [state EXCEPT !.ids = @ \cup {r}]
      /\ UNCHANGED <<generation, nextRefreshId, stdoutOpen, options, result,
                     replies, askedAt, batch>>
  BY DEF RegisterRequest, RegisterJoined, Goto
<1>2. /\ pc \in [Requests -> PcValues] /\ replies[r] = <<>>
      /\ state.key \in Keys /\ state = Active(state.tag, state.key, state.ids)
  BY <1>1, StateFacts DEF IInv, TypeOK, RepliesAreResults, Registered, Unregistered
<1>3. state'.key = state.key /\ state'.ids = state.ids \cup {r}
  BY <1>1, <1>2 DEF Active
<1>4. servicePhase[r] = "waiting" /\ servicePhase'[r] = "member"
  BY <1>1, <1>2, <1>3 DEF servicePhase, Unregistered, IsMember
<1>5. \A q \in Requests \ {r} : servicePhase'[q] = servicePhase[q]
  BY <1>1, <1>2, <1>3 DEF servicePhase, IsMember
<1>6. servicePhase' = [servicePhase EXCEPT ![r] = "member"]
  BY <1>4, <1>5 DEF servicePhase
<1>7. \A s \in Requests : (Owns(s) /\ pc[s] # "execute")' <=> (Owns(s) /\ pc[s]
  # "execute")
  BY <1>1, <1>2 DEF Owns, Owning
<1>8. serviceOutcome' = serviceOutcome
  BY <1>1, <1>7 DEF serviceOutcome
<1>9. /\ state.key # NoKey /\ state.key.options = options[r]
      /\ state.key.generation >= askedAt[r]
  <2>1. key[r] # NoKey
    BY <1>1, <1>2, NoKeyAssumption
  <2>2. state.key.generation \in Nat /\ askedAt[r] \in Nat
    BY <1>2 DEF Keys, IInv, TypeOK
  <2> QED
    BY <1>1, <2>1, <2>2 DEF IInv, KeysAreFresh
<1> QED
  BY <1>1, <1>3, <1>4, <1>6, <1>8, <1>9 DEF Service!Join

(* and the execution produces its outcome.                                  *)
LEMMA ExecuteRefreshMaps ==
  ASSUME IInv, NEW r \in Requests, ExecuteRefresh(r)
  PROVE  Service!Produce
<1>1. /\ pc[r] = "execute" /\ pc' = [pc EXCEPT ![r] = "begin"]
      /\ nextRefreshId' = nextRefreshId + 1
      /\ UNCHANGED <<generation, state, stdoutOpen, options, replies, askedAt,
                     batch>>
  BY DEF ExecuteRefresh, Goto
<1>2. PICK res \in {Result(nextRefreshId, r), Error(r)} :
        result' = [result EXCEPT ![r] = res]
  BY DEF ExecuteRefresh
<1>3. /\ pc \in [Requests -> PcValues] /\ Owns(r) /\ Owns(r)' /\ SingleFlight
      /\ SingleFlight' /\ result' \in [Requests -> Replies]
  BY <1>1, ExecuteRefreshStep DEF IInv, TypeOK, Owns, Owning, Ownership
<1>4. serviceOutcome = NoOutcome
  BY <1>1, <1>3, OutcomeOfOwner
<1>5. serviceOutcome' = result'[r]
  <2>1. \A s \in Requests : (Owns(s) /\ pc[s] # "execute")' <=> s = r
    BY <1>1, <1>3 DEF SingleFlight
  <2>2. (CHOOSE s \in Requests : (Owns(s) /\ pc[s] # "execute")') = r
    BY <2>1
  <2> QED
    BY <2>1, <2>2 DEF serviceOutcome
<1>6. result'[r] = res
  BY <1>2, <1>3 DEF IInv, TypeOK
<1>7. \A q \in Requests : servicePhase'[q] = servicePhase[q]
  BY <1>1, <1>3 DEF servicePhase, IsMember, Unregistered
<1>8. servicePhase' = servicePhase
  BY <1>7 DEF servicePhase
<1>9. state.key # NoKey
  <2>1. state.tag # "Idle"
    BY <1>1, <1>3 DEF IInv, Ownership
  <2> QED
    BY <2>1, StateFacts, NoKeyAssumption DEF IInv
<1>10. serviceOutcome' \in
        {[kind |-> "result", refreshId |-> nextRefreshId, run |-> r],
         [kind |-> "error", refreshId |-> 0, run |-> r]}
  BY <1>5, <1>6 DEF Result, Error
<1> QED
  BY <1>1, <1>4, <1>8, <1>9, <1>10 DEF Service!Produce

(* A reply answers a member of the run with that outcome.                   *)
LEMMA SendReplyMaps ==
  ASSUME IInv, NEW r \in Requests, SendReply(r)
  PROVE  \E q \in Requests : Service!Answer(q)
<1>1. PICK q \in batch[r] :
        /\ replies' = [replies EXCEPT ![q] = Append(@, result[r])]
        /\ batch' = [batch EXCEPT ![r] = @ \ {q}]
  BY DEF SendReply
<1>2. /\ pc[r] = "send" /\ stdoutOpen /\ q \in Requests
      /\ UNCHANGED <<generation, state, nextRefreshId, stdoutOpen, pc, options,
                     result, askedAt>>
  BY DEF SendReply, IInv, TypeOK, sharedVars
<1>3. /\ Registered(q) /\ replies[q] = <<>>
      /\ replies \in [Requests -> Seq(Replies)] /\ result[r] \in Replies
      /\ batch \in [Requests -> SUBSET Requests]
  BY <1>2 DEF IInv, IdsAreFresh, TypeOK
<1>4. /\ replies' = [replies EXCEPT ![q] = <<result[r]>>]
      /\ <<result[r]>> # <<>>
  BY <1>1, <1>2, <1>3
<1>5. serviceOutcome = result[r] /\ serviceOutcome' = serviceOutcome
  <2>1. serviceOutcome = result[r]
    BY <1>2, OutcomeOfOwner DEF IInv, Ownership, Owns, Owning
  <2>2. serviceOutcome' = serviceOutcome
    BY <1>2 DEF serviceOutcome, Owns
  <2> QED
    BY <2>1, <2>2
<1>6. servicePhase[q] = "member" /\ servicePhase'[q] = "answered"
  BY <1>2, <1>3, <1>4 DEF servicePhase, Registered, Unregistered, IsMember
<1>7. \A p \in Requests \ {q} : servicePhase'[p] = servicePhase[p]
  <2> TAKE p \in Requests \ {q}
  <2>1. IsMember(p)' <=> IsMember(p)
    BY <1>1, <1>2, <1>3 DEF IsMember
  <2> QED
    BY <1>2, <1>3, <1>4, <2>1 DEF servicePhase
<1>8. servicePhase' = [servicePhase EXCEPT ![q] = "answered"]
  BY <1>6, <1>7 DEF servicePhase
<1>9. serviceOutcome # NoOutcome
  BY <1>3, <1>5, NoOutcomeAssumption
<1>10. Service!Answer(q)
  BY <1>1, <1>2, <1>5, <1>6, <1>8, <1>9 DEF Service!Answer
<1> QED
  BY <1>2, <1>10

(* A send that panics makes the service give the run up.                    *)
LEMMA SendPanicsMaps ==
  ASSUME IInv, NEW r \in Requests, SendPanics(r)
  PROVE  Service!GiveUp
<1>1. /\ pc[r] = "send" /\ ~stdoutOpen
      /\ batch' = [batch EXCEPT ![r] = {}]
      /\ UNCHANGED <<generation, nextRefreshId, stdoutOpen, options, result,
                     replies, askedAt>>
  BY DEF SendPanics
<1>2. /\ state.tag = "Completing" /\ state.key = key[r] /\ Owns(r)
      /\ \A s \in Requests : Owns(s) => s = r
  BY <1>1 DEF IInv, Ownership, SingleFlight, Owns, Owning
<1>3. /\ state' = Idle
      /\ pc' = NotifyAll([pc EXCEPT ![r] = "returned"])
  BY <1>2 DEF SendPanics, ForceCompleteRequest
<1>4. /\ pc \in [Requests -> PcValues] /\ pc'[r] = "returned"
      /\ \A s \in Requests \ {r} :
           pc'[s] = IF pc[s] = "parked" THEN "wait" ELSE pc[s]
  BY <1>3 DEF NotifyAll, IInv, TypeOK
<1>5. state'.key = NoKey /\ state'.ids = {} /\ state.key # NoKey
  BY <1>2, <1>3, StateFacts, NoKeyAssumption DEF Idle, IInv
<1>6. \A q \in Requests : ~IsMember(q)'
  <2>1. \A s \in Requests : s # r => batch[s] = {}
    BY <1>2 DEF IInv, IdsAreFresh, Owns, Owning, TypeOK
  <2>2. \A s \in Requests : batch'[s] = {}
    BY <1>1, <2>1 DEF IInv, TypeOK
  <2> QED
    BY <1>5, <2>2 DEF IsMember
<1>7. \A q \in Requests : IsMember(q) => Registered(q) /\ replies[q] = <<>>
  BY DEF IInv, IdsAreFresh, IsMember
<1>8. \A q \in Requests : servicePhase'[q] =
        IF servicePhase[q] = "member" THEN "dropped" ELSE servicePhase[q]
  BY <1>1, <1>4, <1>6, <1>7 DEF servicePhase, Registered, Unregistered
<1>9. servicePhase' = [q \in Requests |-> IF servicePhase[q] = "member"
                                            THEN "dropped" ELSE servicePhase[q]]
  BY <1>8 DEF servicePhase
<1>10. serviceOutcome' = NoOutcome
  BY <1>2, <1>4 DEF serviceOutcome, Owns, Owning
<1> QED
  BY <1>1, <1>5, <1>9, <1>10 DEF Service!GiveUp

(* Completion ends a run of the service that has answered all its members.  *)
LEMMA CompleteRequestMaps ==
  ASSUME IInv, NEW r \in Requests, CompleteRequest(r)
  PROVE  Service!Finish \/ UNCHANGED Service!serviceVars
<1>1. /\ pc[r] = "finish" /\ state.tag = "Completing" /\ state.key = key[r]
      /\ Owns(r) /\ \A s \in Requests : Owns(s) => s = r
  BY DEF CompleteRequest, IInv, Ownership, SingleFlight, Owns, Owning
<1>2. /\ UNCHANGED <<generation, nextRefreshId, stdoutOpen, options, result,
                     replies, askedAt, batch>>
      /\ pc \in [Requests -> PcValues]
  BY <1>1 DEF CompleteRequest, Matches, IInv, TypeOK
<1>3. CASE state.ids # {}
  <2>1. UNCHANGED state /\ pc' = [pc EXCEPT ![r] = "drain"]
    BY <1>1, <1>3 DEF CompleteRequest, Matches, Goto
  <2>2. \A q \in Requests : IsMember(q)' <=> IsMember(q)
    BY <1>2, <2>1 DEF IsMember
  <2>3. /\ pc' \in [Requests -> PcValues]
        /\ \A s \in Requests \ {r} : pc'[s] = pc[s]
        /\ pc'[r] = "drain"
    BY <1>2, <2>1 DEF PcValues, Owning
  <2> QED
    BY <1>1, <1>2, <2>1, <2>2, <2>3, MappedStutter DEF Unregistered, Owning
<1>4. CASE state.ids = {}
  <2>1. /\ state' = Idle
        /\ pc' = NotifyAll([pc EXCEPT ![r] =
                   IF result[r].kind = "result" THEN "followup" ELSE "returned"])
    BY <1>1, <1>4 DEF CompleteRequest, Matches
  <2>2. /\ pc'[r] \in {"followup", "returned"}
        /\ \A s \in Requests \ {r} :
             pc'[s] = IF pc[s] = "parked" THEN "wait" ELSE pc[s]
    BY <1>2, <2>1 DEF NotifyAll
  <2>3. state'.key = NoKey /\ state'.ids = {} /\ state.key # NoKey
    BY <1>1, <2>1, StateFacts, NoKeyAssumption DEF Idle, IInv
  <2>4. \A q \in Requests : ~IsMember(q) /\ ~IsMember(q)'
    <3>1. \A s \in Requests : batch[s] = {}
      BY <1>1 DEF IInv, IdsAreFresh, Owns, Owning, TypeOK
    <3> QED
      BY <1>2, <1>4, <2>3, <3>1 DEF IsMember
  <2>5. \A q \in Requests : servicePhase'[q] = servicePhase[q]
    BY <1>1, <1>2, <2>2, <2>4 DEF servicePhase, Unregistered
  <2>6. servicePhase' = servicePhase /\ \A q \in Requests : servicePhase[q] #
    "member"
    BY <2>4, <2>5 DEF servicePhase
  <2>7. serviceOutcome' = NoOutcome
    BY <1>1, <2>2 DEF serviceOutcome, Owns, Owning
  <2>8. serviceOutcome = result[r]
    BY <1>1, OutcomeOfOwner DEF IInv, Ownership
  <2>9. serviceOutcome # NoOutcome
    BY <2>8, NoOutcomeAssumption DEF IInv, TypeOK
  <2> QED
    BY <1>2, <2>3, <2>6, <2>7, <2>9 DEF Service!Finish
<1> QED
  BY <1>3, <1>4

(* New configurations and the loss of stdout are the same for both.         *)
LEMMA EnvironmentMaps ==
  ASSUME PublishConfiguration \/ CloseStdout
  PROVE  Service!Configure \/ Service!Disconnect
<1>1. UNCHANGED <<state, nextRefreshId, pc, options, result, batch, replies,
  askedAt>>
  BY DEF PublishConfiguration, CloseStdout, localVars
<1>2. servicePhase' = servicePhase /\ serviceOutcome' = serviceOutcome
  BY <1>1 DEF servicePhase, serviceOutcome, IsMember, Owns
<1> QED
  BY <1>1, <1>2 DEF PublishConfiguration, CloseStdout, Service!Configure,
                    Service!Disconnect

(* Initial states map to initial states.                                    *)
LEMMA InitMaps == Init => Service!Init
<1> SUFFICES ASSUME Init PROVE Service!Init
  OBVIOUS
<1>1. \A q \in Requests : servicePhase[q] = "new"
  BY DEF Init, servicePhase
<1>2. servicePhase = [q \in Requests |-> "new"]
  BY <1>1 DEF servicePhase
<1>3. serviceOutcome = NoOutcome
  BY DEF Init, serviceOutcome, Owns, Owning
<1>4. state.key = NoKey
  BY DEF Init, Idle
<1> QED
  BY <1>2, <1>3, <1>4 DEF Init, Service!Init

(* Every step maps to a step of the service or to a stutter.                *)
LEMMA NextMaps == IInv /\ [Next]_vars => [Service!Next]_(Service!serviceVars)
<1> SUFFICES ASSUME IInv, [Next]_vars
             PROVE  Service!Next \/ UNCHANGED Service!serviceVars
  OBVIOUS
<1>1. CASE UNCHANGED vars
  <2>1. servicePhase' = servicePhase /\ serviceOutcome' = serviceOutcome
    BY <1>1 DEF vars, servicePhase, serviceOutcome, IsMember, Owns
  <2> QED
    BY <1>1, <2>1 DEF vars, Service!serviceVars
<1>2. CASE PublishConfiguration \/ CloseStdout
  BY <1>2, EnvironmentMaps DEF Service!Next
<1>3. ASSUME NEW r \in Requests,
             Receive(r) \/ ReceiveInvalid(r) \/ SpuriousWakeup(r)
      PROVE  Service!Next \/ UNCHANGED Service!serviceVars
  <2>1. CASE Receive(r)
    BY <2>1, ReceiveMaps DEF Service!Next
  <2>2. CASE ReceiveInvalid(r)
    BY <2>2, ReceiveInvalidMaps DEF Service!Next
  <2>3. CASE SpuriousWakeup(r)
    BY <2>3, InternalSteps
  <2> QED
    BY <1>3, <2>1, <2>2, <2>3
<1>4. ASSUME NEW r \in Requests, ThreadStep(r)
      PROVE  Service!Next \/ UNCHANGED Service!serviceVars
  <2>1. CASE Snapshot(r) \/ WaitUntilIdle(r) \/ SendDone(r) \/ FollowUp(r)
    BY <2>1, InternalSteps
  <2>2. CASE RegisterRequest(r)
    <3>1. CASE RegisterStart(r)
      BY <2>2, <3>1, RegisterStartMaps DEF Service!Next
    <3>2. CASE RegisterJoined(r)
      BY <2>2, <3>2, RegisterJoinedMaps DEF Service!Next
    <3>3. CASE RegisterWait(r)
      BY <2>2, <3>3, RegisterWaitMaps
    <3> QED
      BY <2>2, <3>1, <3>2, <3>3 DEF RegisterRequest
  <2>3. CASE ExecuteRefresh(r)
    BY <2>3, ExecuteRefreshMaps DEF Service!Next
  <2>4. CASE BeginCompletion(r)
    BY <2>4, BeginCompletionMaps
  <2>5. CASE DrainRequestIds(r)
    BY <2>5, DrainRequestIdsMaps
  <2>6. CASE SendReply(r)
    BY <2>6, SendReplyMaps DEF Service!Next
  <2>7. CASE SendPanics(r)
    BY <2>7, SendPanicsMaps DEF Service!Next
  <2>8. CASE CompleteRequest(r)
    BY <2>8, CompleteRequestMaps DEF Service!Next
  <2> QED
    BY <1>4, <2>1, <2>2, <2>3, <2>4, <2>5, <2>6, <2>7, <2>8 DEF ThreadStep
<1> QED
  BY <1>1, <1>2, <1>3, <1>4 DEF Next, Quiescent

(* The coordinator with all its threads, its condition variable and its     *)
(* guards implements the service that clients see, in which a run is        *)
(* joined, produces one outcome and gives it to all of its members.         *)
THEOREM Refinement == Spec => ImplementsService
<1>1. Init => Service!Init
  BY InitMaps
<1>2. IInv /\ [Next]_vars => [Service!Next]_(Service!serviceVars)
  BY NextMaps
<1> QED
  BY <1>1, <1>2, Invariance, PTL DEF Spec, ImplementsService, Service!Spec

-----------------------------------------------------------------------------
(* The server: the coordinator with the follow-ups of its runs.  First, the *)
(* server's steps are steps of the coordinator: none of them is taken by a  *)
(* process that a panic under the mutex has ended.                          *)
LEMMA ServerStepMaps == IInv /\ [ServerNext]_serverVars => [Next]_vars
<1> SUFFICES ASSUME IInv, [ServerNext]_serverVars PROVE [Next]_vars
  OBVIOUS
<1>a. ~aborted
  BY DEF IInv, NeverAborts
<1>1. CASE UNCHANGED serverVars
  BY <1>1 DEF serverVars
<1>2. CASE ServerPublish \/ (CloseStdout /\ UNCHANGED reportingOnly)
  BY <1>a, <1>2 DEF ServerPublish, Next
<1>3. CASE ServerReset
  BY <1>3 DEF ServerReset
<1>4. ASSUME NEW r \in Requests, ServerStep(r) PROVE [Next]_vars
  <2>1. CASE ServerThread(r)
    <3>1. ThreadStep(r)
      BY <2>1 DEF ServerThread, ThreadStep
    <3> QED BY <1>a, <3>1 DEF Next
  <2>2. CASE ServerFollowUp(r)
    <3>1. ThreadStep(r)
      BY <2>2 DEF ServerFollowUp, ThreadStep
    <3> QED BY <1>a, <3>1 DEF Next
  <2>3. CASE ServerReporting(r)
    BY <2>3 DEF ServerReporting
  <2> QED
    BY <1>4, <2>1, <2>2, <2>3 DEF ServerStep
<1>5. ASSUME NEW r \in Requests, ServerEnvironment(r) PROVE [Next]_vars
  BY <1>a, <1>5 DEF ServerEnvironment, Next
<1>6. CASE ServerQuiescent
  BY <1>6 DEF ServerQuiescent, serverVars
<1> QED
  BY <1>1, <1>2, <1>3, <1>4, <1>5, <1>6 DEF ServerNext

(* The coordinator's invariant holds in every state of the server.          *)
LEMMA ServerIInv == ServerSpec => []IInv
<1>1. ServerInit => IInv
  BY InitIInv DEF ServerInit
<1>2. IInv /\ [ServerNext]_serverVars => IInv'
  BY ServerStepMaps, NextIInv
<1> QED
  BY <1>1, <1>2, PTL DEF ServerSpec

(* The server is a coordinator: what is proved of the refresh threads alone *)
(* holds of the server in which they share the configuration lock with the  *)
(* missing-environment reports.                                             *)
THEOREM ServerIsCoordinator == ServerSpec => Spec
<1>1. ServerInit => Init
  BY DEF ServerInit
<1> QED
  BY <1>1, ServerStepMaps, ServerIInv, PTL DEF ServerSpec, Spec

(* The safety of refreshes, in the server that interleaves them with the    *)
(* follow-ups: one run at a time, no panic under the coordinator's mutex,   *)
(* and at most one answer to a request, by a run under its own options and  *)
(* a configuration no older than the request.                               *)
THEOREM ServerIsSafe ==
  ServerSpec => [](/\ SingleFlight /\ NeverAborts /\ AnsweredOnce
                   /\ AnsweredByMatchingRun /\ NoRequestLost)
  BY ServerIsCoordinator, RefreshesNeverOverlap, PanicsStayInTheirThread,
     RequestsAreAnsweredOnce,
     RequestsAreAnsweredByMatchingRuns, RequestsAreNeverLost, PTL

(* Clients of the whole server see the same abstract service.               *)
THEOREM ServerImplementsService == ServerSpec => ImplementsService
  BY ServerIsCoordinator, Refinement, PTL

(* A step of one thread leaves what the others still owe themselves alone:  *)
(* it gives no request a second reply, and drains the pending ids only for  *)
(* the one run there is.                                                    *)
LEMMA OthersAnswerThemselves ==
  ASSUME IInv, OwnAnswer, NEW r \in Requests, NEW s \in Requests \ {r},
         pc'[s] = pc[s] \/ (pc[s] = "parked" /\ pc'[s] = "wait"),
         at'[s] = at[s],
         result'[s] = result[s],
         replies[s] # <<>> => replies'[s] = replies[s],
         batch'[s] = batch[s],
         Owns(r) \/ state.ids \subseteq state'.ids
  PROVE  AnswersItself(s)'
<1>1. AnswersItself(s)
  BY DEF OwnAnswer
<1>2. SentOwnResult(s) => SentOwnResult(s)'
  BY DEF SentOwnResult
<1>3. Owns(s) => state.ids \subseteq state'.ids
  BY DEF IInv, Ownership, SingleFlight
<1> QED
  BY <1>1, <1>2, <1>3 DEF AnswersItself, Owns, Owning

(* A thread that has not registered, or that joined, owes itself nothing.   *)
LEMMA EarlyStepsAnswer ==
  ASSUME IInv, OwnAnswer, NEW r \in Requests, at' = at,
         \/ Receive(r) \/ ReceiveInvalid(r) \/ SpuriousWakeup(r)
         \/ Snapshot(r) \/ WaitUntilIdle(r)
         \/ RegisterRequest(r) /\ (RegisterJoined(r) \/ RegisterWait(r))
  PROVE  OwnAnswer'
<1>t. /\ pc \in [Requests -> PcValues] /\ replies \in [Requests -> Seq(Replies)]
      /\ state \in States
  BY DEF IInv, TypeOK
<1>1. /\ pc[r] \in Unregistered
      /\ \E label \in Unregistered \cup {"returned"} : pc' = [pc EXCEPT ![r] = label]
      /\ result' = result /\ batch' = batch
  BY DEF Receive, ReceiveInvalid, SpuriousWakeup, Snapshot, WaitUntilIdle, Goto,
         RegisterRequest, RegisterJoined, RegisterWait, sharedVars, Unregistered
<1>2. replies' = replies \/ replies' = [replies EXCEPT ![r] = Append(@, Invalid(r))]
  BY DEF Receive, ReceiveInvalid, SpuriousWakeup, Snapshot, WaitUntilIdle,
         RegisterRequest
<1>3. state' = state \/ (/\ state.tag # "Idle"
                         /\ state' = [state EXCEPT !.ids = @ \cup {r}])
  BY DEF Receive, ReceiveInvalid, SpuriousWakeup, Snapshot, WaitUntilIdle,
         RegisterRequest, RegisterJoined, RegisterWait, sharedVars
<1>4. state.ids \subseteq state'.ids
  BY <1>3, StateFacts DEF IInv, Active
<1>5. \A s \in Requests \ {r} : pc'[s] = pc[s] /\ replies'[s] = replies[s]
  BY <1>t, <1>1, <1>2
<1>6. \A s \in Requests \ {r} : AnswersItself(s)'
  BY <1>1, <1>4, <1>5, OthersAnswerThemselves
<1>7. AnswersItself(r)'
  <2>1. at[r] = "idle"
    BY <1>1 DEF OwnAnswer, AnswersItself, Unregistered
  <2>2. pc'[r] \in Unregistered \cup {"returned"}
    BY <1>t, <1>1
  <2> QED
    BY <2>1, <2>2 DEF AnswersItself, Unregistered
<1> QED
  BY <1>6, <1>7 DEF OwnAnswer

(* A run starts with its own request pending,                               *)
LEMMA RegisterStartAnswers ==
  ASSUME IInv, OwnAnswer, NEW r \in Requests, at' = at,
         RegisterRequest(r), RegisterStart(r)
  PROVE  OwnAnswer'
<1>1. /\ pc[r] = "register" /\ pc' = [pc EXCEPT ![r] = "execute"]
      /\ state.tag = "Idle" /\ state' = Active("Running", key[r], {r})
      /\ UNCHANGED <<result, replies, batch>>
  BY DEF RegisterRequest, RegisterStart, Goto
<1>2. pc \in [Requests -> PcValues] /\ state.ids = {} /\ state'.ids = {r}
  BY <1>1, StateFacts DEF IInv, TypeOK, Idle, Active
<1>3. \A s \in Requests \ {r} : AnswersItself(s)'
  BY <1>1, <1>2, OthersAnswerThemselves
<1>4. AnswersItself(r)'
  <2>1. at[r] = "idle"
    BY <1>1 DEF OwnAnswer, AnswersItself
  <2> QED
    BY <1>1, <1>2, <2>1 DEF AnswersItself
<1> QED
  BY <1>3, <1>4 DEF OwnAnswer

(* keeps it there while it executes and begins to complete,                 *)
LEMMA ExecuteAnswers ==
  ASSUME IInv, OwnAnswer, NEW r \in Requests, at' = at,
         ExecuteRefresh(r) \/ BeginCompletion(r)
  PROVE  OwnAnswer'
<1>t. /\ pc \in [Requests -> PcValues] /\ result \in [Requests -> Replies]
      /\ state.ids \subseteq Requests
  BY StateFacts DEF IInv, TypeOK
<1>1. /\ pc[r] \in {"execute", "begin"}
      /\ pc' = [pc EXCEPT ![r] = IF pc[r] = "execute" THEN "begin" ELSE "drain"]
      /\ state'.ids = state.ids
      /\ \A s \in Requests \ {r} : result'[s] = result[s]
      /\ UNCHANGED <<replies, batch>>
  <2>1. CASE ExecuteRefresh(r)
    BY <1>t, <2>1 DEF ExecuteRefresh, Goto
  <2>2. CASE BeginCompletion(r)
    <3>1. pc[r] = "begin" /\ state.tag = "Running" /\ state.key = key[r]
      BY <2>2 DEF BeginCompletion, IInv, Ownership, Owns, Owning
    <3>2. /\ pc' = [pc EXCEPT ![r] = "drain"]
          /\ state' = [state EXCEPT !.tag = "Completing"]
          /\ UNCHANGED <<result, replies, batch>>
      BY <2>2, <3>1 DEF BeginCompletion, Matches, Goto
    <3>3. state = Active("Running", state.key, state.ids)
      BY <3>1, StateFacts DEF IInv
    <3> QED
      BY <3>1, <3>2, <3>3 DEF Active
  <2> QED
    BY <2>1, <2>2
<1>2. \A s \in Requests \ {r} : pc'[s] = pc[s] /\ AnswersItself(s)'
  BY <1>t, <1>1, OthersAnswerThemselves
<1>3. AnswersItself(r)'
  <2>1. at[r] = "idle" /\ r \in state.ids
    BY <1>1 DEF OwnAnswer, AnswersItself
  <2>2. pc'[r] \in {"begin", "drain"}
    BY <1>t, <1>1
  <2> QED
    BY <1>1, <2>1, <2>2 DEF AnswersItself
<1> QED
  BY <1>2, <1>3 DEF OwnAnswer

(* drains it into its batch,                                                *)
LEMMA DrainAnswers ==
  ASSUME IInv, OwnAnswer, NEW r \in Requests, at' = at, DrainRequestIds(r)
  PROVE  OwnAnswer'
<1>1. pc[r] = "drain" /\ state.tag = "Completing" /\ state.key = key[r]
  BY DEF DrainRequestIds, IInv, Ownership, Owns, Owning
<1>2. /\ pc' = [pc EXCEPT ![r] = "send"]
      /\ batch' = [batch EXCEPT ![r] = state.ids]
      /\ UNCHANGED <<result, replies>>
  BY <1>1 DEF DrainRequestIds, Matches, Goto
<1>3. pc \in [Requests -> PcValues] /\ batch \in [Requests -> SUBSET Requests]
  BY DEF IInv, TypeOK
<1>4. \A s \in Requests \ {r} : AnswersItself(s)'
  BY <1>1, <1>2, <1>3, OthersAnswerThemselves DEF Owns, Owning
<1>5. AnswersItself(r)'
  <2>1. at[r] = "idle" /\ (r \in state.ids \/ SentOwnResult(r))
    BY <1>1 DEF OwnAnswer, AnswersItself
  <2>2. pc'[r] = "send" /\ batch'[r] = state.ids
    BY <1>2, <1>3
  <2> QED
    BY <1>2, <2>1, <2>2 DEF AnswersItself, SentOwnResult
<1> QED
  BY <1>4, <1>5 DEF OwnAnswer

(* and does not leave the batch before it has sent itself the result.       *)
LEMMA SendAnswers ==
  ASSUME IInv, OwnAnswer, NEW r \in Requests, at' = at,
         SendReply(r) \/ SendDone(r)
  PROVE  OwnAnswer'
<1>t. /\ pc \in [Requests -> PcValues] /\ batch \in [Requests -> SUBSET Requests]
      /\ replies \in [Requests -> Seq(Replies)]
  BY DEF IInv, TypeOK
<1>a. at[r] = "idle" /\ (r \in batch[r] \/ SentOwnResult(r)) /\ pc[r] = "send"
  BY DEF SendReply, SendDone, OwnAnswer, AnswersItself
<1>1. CASE SendReply(r)
  <2>1. PICK q \in batch[r] :
          /\ replies' = [replies EXCEPT ![q] = Append(@, result[r])]
          /\ batch' = [batch EXCEPT ![r] = @ \ {q}]
          /\ UNCHANGED <<state, pc, result>>
    BY <1>1 DEF SendReply, sharedVars
  <2>2. q \in Requests /\ replies[q] = <<>>
    BY <1>t DEF IInv, IdsAreFresh
  <2>3. /\ replies'[q] = <<result[r]>>
        /\ \A s \in Requests \ {q} : replies'[s] = replies[s]
    BY <1>t, <2>1, <2>2
  <2>4. \A s \in Requests \ {r} : AnswersItself(s)'
    BY <1>t, <2>1, <2>2, <2>3, OthersAnswerThemselves
  <2>5. batch'[r] = batch[r] \ {q}
    BY <1>t, <2>1
  <2>6. r \in batch'[r] \/ SentOwnResult(r)'
    BY <1>a, <2>1, <2>2, <2>3, <2>5 DEF SentOwnResult
  <2>7. AnswersItself(r)'
    BY <1>a, <2>1, <2>6 DEF AnswersItself
  <2> QED
    BY <2>4, <2>7 DEF OwnAnswer
<1>2. CASE SendDone(r)
  <2>1. /\ batch[r] = {} /\ pc' = [pc EXCEPT ![r] = "finish"]
        /\ UNCHANGED <<state, result, batch, replies>>
    BY <1>2 DEF SendDone, Goto, sharedVars
  <2>2. \A s \in Requests \ {r} : AnswersItself(s)'
    BY <1>t, <2>1, OthersAnswerThemselves
  <2>3. AnswersItself(r)'
    BY <1>t, <1>a, <2>1 DEF AnswersItself, SentOwnResult
  <2> QED
    BY <2>2, <2>3 DEF OwnAnswer
<1> QED
  BY <1>1, <1>2

(* Nobody but parked threads is moved by the end of a run; a thread that    *)
(* panics, or whose run failed, does not go on to the follow-up.            *)
LEMMA EndAnswers ==
  ASSUME IInv, OwnAnswer, NEW r \in Requests, at' = at,
         SendPanics(r) \/ CompleteRequest(r) \/ FollowUp(r)
  PROVE  OwnAnswer'
<1>t. pc \in [Requests -> PcValues] /\ batch \in [Requests -> SUBSET Requests]
  BY DEF IInv, TypeOK
<1>a. at[r] = "idle"
  BY DEF SendPanics, CompleteRequest, FollowUp, OwnAnswer, AnswersItself
<1>1. CASE SendPanics(r)
  <2>1. /\ pc[r] = "send" /\ batch' = [batch EXCEPT ![r] = {}]
        /\ \/ pc' = NotifyAll([pc EXCEPT ![r] = "returned"])
           \/ pc' = [pc EXCEPT ![r] = "returned"]
        /\ UNCHANGED <<result, replies>>
    BY <1>1 DEF SendPanics, ForceCompleteRequest
  <2>2. /\ pc'[r] = "returned"
        /\ \A s \in Requests \ {r} :
             /\ pc'[s] = pc[s] \/ (pc[s] = "parked" /\ pc'[s] = "wait")
             /\ batch'[s] = batch[s]
    BY <1>t, <2>1 DEF NotifyAll
  <2>3. \A s \in Requests \ {r} : AnswersItself(s)'
    BY <2>1, <2>2, OthersAnswerThemselves DEF Owns, Owning
  <2>4. AnswersItself(r)'
    BY <1>a, <2>2 DEF AnswersItself
  <2> QED
    BY <2>3, <2>4 DEF OwnAnswer
<1>2. CASE CompleteRequest(r)
  <2>1. pc[r] = "finish" /\ state.tag = "Completing" /\ state.key = key[r]
    BY <1>2 DEF CompleteRequest, IInv, Ownership, Owns, Owning
  <2>2. /\ UNCHANGED <<result, replies, batch>>
        /\ \/ /\ pc' = NotifyAll([pc EXCEPT ![r] = "followup"])
              /\ result[r].kind = "result"
           \/ pc' = NotifyAll([pc EXCEPT ![r] = "returned"])
           \/ pc' = [pc EXCEPT ![r] = "drain"]
    BY <1>2, <2>1 DEF CompleteRequest, Matches, Goto
  <2>3. /\ \/ pc'[r] = "followup" /\ result[r].kind = "result"
           \/ pc'[r] \in {"returned", "drain"}
        /\ \A s \in Requests \ {r} :
             pc'[s] = pc[s] \/ (pc[s] = "parked" /\ pc'[s] = "wait")
    BY <1>t, <2>2 DEF NotifyAll
  <2>4. \A s \in Requests \ {r} : AnswersItself(s)'
    BY <2>1, <2>2, <2>3, OthersAnswerThemselves DEF Owns, Owning
  <2>5. SentOwnResult(r)
    BY <2>1 DEF OwnAnswer, AnswersItself
  <2>6. AnswersItself(r)'
    BY <1>a, <2>2, <2>3, <2>5 DEF AnswersItself, SentOwnResult
  <2> QED
    BY <2>4, <2>6 DEF OwnAnswer
<1>3. CASE FollowUp(r)
  <2>1. /\ pc' = [pc EXCEPT ![r] = "returned"]
        /\ UNCHANGED <<state, result, replies, batch>>
    BY <1>3 DEF FollowUp, Goto, sharedVars
  <2>2. \A s \in Requests \ {r} : AnswersItself(s)'
    BY <1>t, <2>1, OthersAnswerThemselves
  <2>3. AnswersItself(r)'
    BY <1>t, <1>a, <2>1 DEF AnswersItself
  <2> QED
    BY <2>2, <2>3 DEF OwnAnswer
<1> QED
  BY <1>1, <1>2, <1>3

(* A follow-up, once begun, moves only itself.                              *)
LEMMA ReportingMoves ==
  ASSUME NEW r \in Requests, Reporting!FollowUpStep(r) \/ Reporting!WorkerPanics(r)
  PROVE  /\ at[r] # "idle"
         /\ \E place \in Reporting!Places : at' = [at EXCEPT ![r] = place]
         /\ UNCHANGED <<generation, publishing>>
<1> USE DEF Reporting!Move, Reporting!Places, Reporting!Working,
            Reporting!Releasing, Reporting!IsCurrentGeneration
<1>1. CASE Reporting!LoadSlot(r)
  BY <1>1 DEF Reporting!LoadSlot
<1>2. CASE Reporting!ClaimSlot(r)
  BY <1>2 DEF Reporting!ClaimSlot
<1>3. CASE Reporting!CheckClaim(r) \/ Reporting!CheckRelease(r)
  BY <1>3 DEF Reporting!CheckClaim, Reporting!CheckRelease
<1>4. CASE Reporting!WorkerChecks(r)
  BY <1>4 DEF Reporting!WorkerChecks
<1>5. CASE Reporting!WorkerReports(r) \/ Reporting!WorkerPanics(r)
  BY <1>5 DEF Reporting!WorkerReports, Reporting!WorkerPanics
<1>6. CASE Reporting!CompleteReporting(r) \/ Reporting!ReleaseSlot(r)
  BY <1>6 DEF Reporting!CompleteReporting, Reporting!ReleaseSlot
<1> QED
  BY <1>1, <1>2, <1>3, <1>4, <1>5, <1>6 DEF Reporting!FollowUpStep

(* Steps of configures, follow-ups and the client leave the coordinator's   *)
(* threads where they are.                                                  *)
LEMMA SidestepAnswers ==
  ASSUME OwnAnswer, UNCHANGED <<state, pc, result, replies, batch>>,
         \A r \in Requests : at[r] = "idle" => at'[r] = "idle"
  PROVE  OwnAnswer'
  BY DEF OwnAnswer, AnswersItself, SentOwnResult

(* The types of the variables of the follow-ups that the proof needs.       *)
LEMMA ServerTypes ==
  ASSUME ServerTypeOK, [ServerNext]_serverVars
  PROVE  ServerTypeOK'
<1> USE DEF ServerTypeOK
<1>1. CASE UNCHANGED reportingOnly
  BY <1>1 DEF reportingOnly
<1>2. CASE UNCHANGED serverVars \/ ServerQuiescent
  BY <1>1, <1>2 DEF ServerQuiescent, serverVars
<1>3. CASE ServerPublish
  <2>1. publishing' = TRUE /\ at' = at
    BY <1>3 DEF ServerPublish, Reporting!PublishGeneration, Reporting!slotVars
  <2> QED BY <2>1
<1>4. CASE ServerReset
  <2>1. publishing' = FALSE /\ at' = at
    BY <1>4 DEF ServerReset, Reporting!ResetReporting
  <2> QED BY <2>1
<1>5. ASSUME NEW r \in Requests, ServerFollowUp(r) PROVE ServerTypeOK'
  <2>1. CASE Reporting!Begin(r, key[r].generation)
    BY <2>1 DEF Reporting!Begin, Reporting!Move, Reporting!Places
  <2> QED BY <1>1, <1>5, <2>1 DEF ServerFollowUp
<1>6. ASSUME NEW r \in Requests,
             Reporting!FollowUpStep(r) \/ Reporting!WorkerPanics(r)
      PROVE ServerTypeOK'
  BY <1>6, ReportingMoves
<1> QED
  BY <1>1, <1>2, <1>3, <1>4, <1>5, <1>6
     DEF ServerNext, ServerStep, ServerThread, ServerReporting, ServerEnvironment

(* Every step of the server keeps a run from going on without having        *)
(* answered its own request.                                                *)
LEMMA ServerAnswers ==
  ASSUME IInv, ServerTypeOK, OwnAnswer, [ServerNext]_serverVars
  PROVE  OwnAnswer'
<1>1. CASE UNCHANGED serverVars \/ ServerQuiescent
  BY <1>1, SidestepAnswers DEF ServerQuiescent, serverVars, vars, reportingOnly
<1>2. CASE ServerPublish
  BY <1>2, SidestepAnswers
     DEF ServerPublish, PublishConfiguration, localVars,
         Reporting!PublishGeneration, Reporting!slotVars
<1>3. CASE ServerReset
  BY <1>3, SidestepAnswers DEF ServerReset, Reporting!ResetReporting, vars
<1>4. CASE CloseStdout /\ UNCHANGED reportingOnly
  BY <1>4, SidestepAnswers DEF CloseStdout, localVars, reportingOnly
<1>5. ASSUME NEW r \in Requests, ServerThread(r) PROVE OwnAnswer'
  <2>1. at' = at
    BY <1>5 DEF ServerThread, reportingOnly
  <2>2. CASE Snapshot(r) \/ WaitUntilIdle(r)
    BY <2>1, <2>2, EarlyStepsAnswer
  <2>3. CASE RegisterRequest(r)
    <3>1. RegisterStart(r) \/ RegisterJoined(r) \/ RegisterWait(r)
      BY <2>3 DEF RegisterRequest
    <3> QED
      BY <2>1, <2>3, <3>1, EarlyStepsAnswer, RegisterStartAnswers
  <2>4. CASE ExecuteRefresh(r) \/ BeginCompletion(r)
    BY <2>1, <2>4, ExecuteAnswers
  <2>5. CASE DrainRequestIds(r)
    BY <2>1, <2>5, DrainAnswers
  <2>6. CASE SendReply(r) \/ SendDone(r)
    BY <2>1, <2>6, SendAnswers
  <2>7. CASE SendPanics(r) \/ CompleteRequest(r)
    BY <2>1, <2>7, EndAnswers
  <2> QED
    BY <1>5, <2>2, <2>3, <2>4, <2>5, <2>6, <2>7 DEF ServerThread
<1>6. ASSUME NEW r \in Requests, ServerFollowUp(r) PROVE OwnAnswer'
  <2>1. CASE UNCHANGED reportingOnly
    BY <1>6, <2>1, EndAnswers DEF ServerFollowUp, reportingOnly
  <2>2. CASE Reporting!Begin(r, key[r].generation)
    <3>1. /\ pc[r] = "followup" /\ pc' = [pc EXCEPT ![r] = "returned"]
          /\ UNCHANGED <<state, result, replies, batch>>
      BY <1>6 DEF ServerFollowUp, FollowUp, Goto, sharedVars
    <3>2. at' = [at EXCEPT ![r] = "load"] /\ at \in [Requests -> Reporting!Places]
      BY <2>2 DEF Reporting!Begin, Reporting!Move, ServerTypeOK
    <3>3. pc \in [Requests -> PcValues]
      BY DEF IInv, TypeOK
    <3>4. \A s \in Requests \ {r} : AnswersItself(s)'
      BY <3>1, <3>2, <3>3, OthersAnswerThemselves
    <3>5. AnswersItself(r)'
      BY <3>1, <3>2, <3>3 DEF OwnAnswer, AnswersItself, SentOwnResult
    <3> QED
      BY <3>4, <3>5 DEF OwnAnswer
  <2> QED
    BY <1>6, <2>1, <2>2 DEF ServerFollowUp
<1>7. ASSUME NEW r \in Requests, UNCHANGED vars,
             Reporting!FollowUpStep(r) \/ Reporting!WorkerPanics(r)
      PROVE OwnAnswer'
  <2>1. \A s \in Requests : at[s] = "idle" => at'[s] = "idle"
    BY <1>7, ReportingMoves DEF ServerTypeOK
  <2> QED
    BY <1>7, <2>1, SidestepAnswers DEF vars
<1>8. ASSUME NEW r \in Requests, UNCHANGED reportingOnly,
             Receive(r) \/ ReceiveInvalid(r) \/ SpuriousWakeup(r)
      PROVE OwnAnswer'
  BY <1>8, EarlyStepsAnswer DEF reportingOnly
<1> QED
  BY <1>1, <1>2, <1>3, <1>4, <1>5, <1>6, <1>7, <1>8
     DEF ServerNext, ServerStep, ServerReporting, ServerEnvironment

(* The inductive invariant of the server, in every reachable state.         *)
THEOREM ServerInvariance == ServerSpec => []ServerInv
<1>1. ServerInit => ServerInv
  <2> SUFFICES ASSUME ServerInit PROVE ServerInv
    OBVIOUS
  <2>1. IInv
    BY InitIInv DEF ServerInit
  <2>2. /\ pc = [r \in Requests |-> "new"] /\ at = [r \in Requests |-> "idle"]
        /\ publishing = FALSE
    BY DEF ServerInit, Init, Reporting!ReportingInit
  <2>3. ServerTypeOK
    <3>1. publishing \in BOOLEAN
      BY <2>2
    <3>2. at \in [Requests -> Reporting!Places]
      BY <2>2 DEF Reporting!Places
    <3> QED BY <3>1, <3>2 DEF ServerTypeOK
  <2>4. OwnAnswer
    BY <2>2 DEF OwnAnswer, AnswersItself
  <2> QED
    BY <2>1, <2>3, <2>4 DEF ServerInv
<1>2. ServerInv /\ [ServerNext]_serverVars => ServerInv'
  BY ServerStepMaps, NextIInv, ServerTypes, ServerAnswers DEF ServerInv
<1> QED
  BY <1>1, <1>2, PTL DEF ServerSpec

(* The slow follow-up of a refresh never delays its reply: report_refresh_  *)
(* follow_up runs only after a successful run that has answered its own     *)
(* request and handed the coordinator back.                                 *)
THEOREM FollowUpsComeLast == ServerSpec => []FollowUpOfAnsweredRun
<1>1. ServerInv => FollowUpOfAnsweredRun
  <2> SUFFICES ASSUME ServerInv, NEW r \in Requests, at[r] # "idle"
      PROVE  /\ result[r].kind = "result" /\ ~Owns(r)
             /\ Len(replies[r]) = 1 /\ replies[r][1] = result[r]
    BY DEF FollowUpOfAnsweredRun
  <2>1. result[r].kind = "result" /\ replies[r] = <<result[r]>> /\ pc[r] = "returned"
    BY DEF ServerInv, OwnAnswer, AnswersItself, SentOwnResult
  <2> QED
    BY <2>1 DEF Owns, Owning
<1> QED
  BY <1>1, ServerInvariance, PTL

(* The server's steps are also steps of MissingEnvReporting, or invisible   *)
(* to it: a run hands over the generation of the configuration it read.     *)
LEMMA ServerStepReports ==
  IInv /\ [ServerNext]_serverVars => [Reporting!Next]_(Reporting!reportingVars)
<1> SUFFICES ASSUME IInv, [ServerNext]_serverVars
             PROVE  Reporting!Next \/ UNCHANGED Reporting!reportingVars
  OBVIOUS
<1>1. CASE UNCHANGED reportingOnly /\ generation' = generation
  BY <1>1 DEF reportingOnly, Reporting!reportingVars
<1>2. CASE UNCHANGED serverVars \/ ServerQuiescent
  BY <1>1, <1>2 DEF ServerQuiescent, serverVars, vars
<1>3. CASE ServerPublish \/ ServerReset
  BY <1>3 DEF ServerPublish, ServerReset, Reporting!Next
<1>4. CASE CloseStdout /\ UNCHANGED reportingOnly
  BY <1>1, <1>4 DEF CloseStdout
<1>5. ASSUME NEW r \in Requests, ServerThread(r)
      PROVE  Reporting!Next \/ UNCHANGED Reporting!reportingVars
  <2>1. generation' = generation
    BY <1>5 DEF ServerThread, Snapshot, RegisterRequest, WaitUntilIdle,
         ExecuteRefresh, BeginCompletion, DrainRequestIds, SendReply, SendDone,
         SendPanics, CompleteRequest, PanicUnderLock, sharedVars
  <2> QED
    BY <1>1, <1>5, <2>1 DEF ServerThread
<1>6. ASSUME NEW r \in Requests, ServerFollowUp(r)
      PROVE  Reporting!Next \/ UNCHANGED Reporting!reportingVars
  <2>1. ~publishing /\ pc[r] = "followup" /\ generation' = generation
    BY <1>6 DEF ServerFollowUp, FollowUp, sharedVars
  <2>2. key[r].generation \in Reporting!ReadableGenerations
    <3>1. key[r] \in Keys /\ key[r].generation <= generation
      BY <2>1 DEF IInv, TypeOK, KeysAreFresh
    <3>2. key[r].generation \in Nat /\ generation \in Nat
      BY <3>1, MaxGenerationAssumption DEF Keys, IInv, TypeOK
    <3> QED
      BY <2>1, <3>1, <3>2 DEF Reporting!ReadableGenerations
  <2>3. CASE Reporting!Begin(r, key[r].generation)
    BY <2>2, <2>3 DEF Reporting!Next
  <2> QED
    BY <1>1, <1>6, <2>1, <2>3 DEF ServerFollowUp
<1>7. ASSUME NEW r \in Requests,
             Reporting!FollowUpStep(r) \/ Reporting!WorkerPanics(r)
      PROVE  Reporting!Next \/ UNCHANGED Reporting!reportingVars
  BY <1>7 DEF Reporting!Next
<1>8. ASSUME NEW r \in Requests, UNCHANGED reportingOnly,
             Receive(r) \/ ReceiveInvalid(r) \/ SpuriousWakeup(r)
      PROVE  Reporting!Next \/ UNCHANGED Reporting!reportingVars
  BY <1>1, <1>8 DEF Receive, ReceiveInvalid, SpuriousWakeup, sharedVars
<1> QED
  BY <1>2, <1>3, <1>4, <1>5, <1>6, <1>7, <1>8
     DEF ServerNext, ServerStep, ServerReporting, ServerEnvironment

(* The follow-ups of the server use the slot as MissingEnvReporting assumes: *)
(* they begin under a generation that could be read, and only configures    *)
(* change the generation.                                                   *)
THEOREM ServerIsReporting == ServerSpec => Reporting!Spec
<1>1. ServerInit => Reporting!Init
  BY DEF ServerInit, Init, Reporting!Init
<1> QED
  BY <1>1, ServerStepReports, ServerIInv, PTL DEF ServerSpec, Reporting!Spec

-----------------------------------------------------------------------------
(* What MissingEnvReporting_proofs proves, about the server's follow-ups.   *)
ReportingProofs == INSTANCE MissingEnvReporting_proofs WITH Runs <- Requests

(* It speaks of the same steps and of the same invariant.                   *)
LEMMA SameReporting ==
  /\ [Reporting!Next]_(Reporting!reportingVars)
       => [ReportingProofs!Next]_(ReportingProofs!reportingVars)
  /\ Reporting!Init => ReportingProofs!Init
  /\ Reporting!IInv <=> ReportingProofs!IInv
<1>1. [Reporting!Next]_(Reporting!reportingVars)
        => [ReportingProofs!Next]_(ReportingProofs!reportingVars)
  BY DEF Reporting!LoadSlot, ReportingProofs!LoadSlot, Reporting!ClaimSlot,
         ReportingProofs!ClaimSlot, Reporting!CheckClaim,
         ReportingProofs!CheckClaim, Reporting!WorkerChecks,
         ReportingProofs!WorkerChecks, Reporting!WorkerReports,
         ReportingProofs!WorkerReports, Reporting!CompleteReporting,
         ReportingProofs!CompleteReporting, Reporting!CheckRelease,
         ReportingProofs!CheckRelease, Reporting!ReleaseSlot,
         ReportingProofs!ReleaseSlot, Reporting!FollowUpStep,
         ReportingProofs!FollowUpStep, Reporting!WorkerPanics,
         ReportingProofs!WorkerPanics, Reporting!Begin, ReportingProofs!Begin,
         Reporting!PublishGeneration, ReportingProofs!PublishGeneration,
         Reporting!ResetReporting, ReportingProofs!ResetReporting,
         Reporting!Settled, ReportingProofs!Settled, Reporting!Next,
         ReportingProofs!Next, Reporting!IsCurrentGeneration,
         ReportingProofs!IsCurrentGeneration, Reporting!Move,
         ReportingProofs!Move, Reporting!ReadableGenerations,
         ReportingProofs!ReadableGenerations, Reporting!reportingVars,
         ReportingProofs!reportingVars, Reporting!slotVars,
         ReportingProofs!slotVars, Reporting!Completed,
         ReportingProofs!Completed, Reporting!Available,
         ReportingProofs!Available
<1>2. Reporting!Init => ReportingProofs!Init
  BY DEF Reporting!Init, ReportingProofs!Init, Reporting!ReportingInit,
         ReportingProofs!ReportingInit, Reporting!Completed,
         ReportingProofs!Completed, Reporting!Available,
         ReportingProofs!Available
<1>3. Reporting!IInv <=> ReportingProofs!IInv
  BY DEF Reporting!IInv, ReportingProofs!IInv, Reporting!TypeOK,
         ReportingProofs!TypeOK, Reporting!GenerationsArePublished,
         ReportingProofs!GenerationsArePublished, Reporting!CasIsLegal,
         ReportingProofs!CasIsLegal, Reporting!ReleasedIsStale,
         ReportingProofs!ReleasedIsStale, Reporting!CurrentClaimHoldsSlot,
         ReportingProofs!CurrentClaimHoldsSlot, Reporting!CurrentClaimIsUnique,
         ReportingProofs!CurrentClaimIsUnique, Reporting!OneWorkerPerGeneration,
         ReportingProofs!OneWorkerPerGeneration, Reporting!ClaimHasOwner,
         ReportingProofs!ClaimHasOwner, Reporting!Claiming,
         ReportingProofs!Claiming, Reporting!Elected, ReportingProofs!Elected,
         Reporting!Places, ReportingProofs!Places, Reporting!Working,
         ReportingProofs!Working, Reporting!Releasing,
         ReportingProofs!Releasing, Reporting!Completed,
         ReportingProofs!Completed, Reporting!Available,
         ReportingProofs!Available
<1> QED
  BY <1>1, <1>2, <1>3

(* In the server no generation has two workers that run conda and poetry,   *)
(* and a claimed slot always has a follow-up to settle it or one that died. *)
THEOREM ServerElectsOneWorker ==
  ServerSpec => [](Reporting!OneWorkerPerGeneration /\ Reporting!ClaimHasOwner)
<1>1. Reporting!Init => ReportingProofs!IInv
  BY MaxGenerationAssumption, SameReporting, ReportingProofs!InitIInv
<1>2. ReportingProofs!IInv /\ [Reporting!Next]_(Reporting!reportingVars)
        => ReportingProofs!IInv'
  BY MaxGenerationAssumption, SameReporting, ReportingProofs!NextIInv
<1>3. ReportingProofs!IInv
        => Reporting!OneWorkerPerGeneration /\ Reporting!ClaimHasOwner
  BY SameReporting DEF Reporting!IInv
<1> QED
  BY <1>1, <1>2, <1>3, ServerIsReporting, PTL DEF Reporting!Spec
=============================================================================
