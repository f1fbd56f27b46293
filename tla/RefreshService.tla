--------------------------- MODULE RefreshService ---------------------------
(***************************************************************************)
(* What the refresh half of the server promises its clients, without       *)
(* threads, locks or queues: one run at a time; a request becomes a member *)
(* of a run that has its options and a configuration no older than the one *)
(* in force when the request arrived; every member receives the one        *)
(* outcome of its run, once; members are dropped only when the connection  *)
(* is gone.  RefreshCoordinator implements this.                           *)
(***************************************************************************)
EXTENDS Naturals, Sequences

CONSTANTS Requests, Options, MaxGeneration,
          NoKey,      \* no run is under way
          NoOutcome   \* the run under way has not produced its outcome

VARIABLES generation, connected, nextRefreshId,
          run,        \* key of the run under way
          outcome,    \* what its members are told
          phase,      \* progress of each request
          options, askedAt, replies

serviceVars == <<generation, connected, nextRefreshId, run, outcome, phase,
                 options, askedAt, replies>>

Phases == {"new", "waiting", "member", "answered", "dropped"}

Init ==
  /\ generation = 0
  /\ connected = TRUE
  /\ nextRefreshId = 1
  /\ run = NoKey
  /\ outcome = NoOutcome
  /\ phase = [q \in Requests |-> "new"]
  /\ options \in [Requests -> Options]
  /\ askedAt = [q \in Requests |-> 0]
  /\ replies = [q \in Requests |-> <<>>]

Submit(q) ==
  /\ phase[q] = "new"
  /\ phase' = [phase EXCEPT ![q] = "waiting"]
  /\ askedAt' = [askedAt EXCEPT ![q] = generation]
  /\ UNCHANGED <<generation, connected, nextRefreshId, run, outcome, options,
                 replies>>

Reject(q) ==
  /\ phase[q] = "new"
  /\ connected
  /\ phase' = [phase EXCEPT ![q] = "answered"]
  /\ askedAt' = [askedAt EXCEPT ![q] = generation]
  /\ replies' = [replies EXCEPT ![q] =
       Append(@, [kind |-> "invalid", refreshId |-> 0, run |-> q])]
  /\ UNCHANGED <<generation, connected, nextRefreshId, run, outcome, options>>

Configure ==
  /\ generation < MaxGeneration
  /\ generation' = generation + 1
  /\ UNCHANGED <<connected, nextRefreshId, run, outcome, phase, options,
                 askedAt, replies>>

Disconnect ==
  /\ connected
  /\ connected' = FALSE
  /\ UNCHANGED <<generation, nextRefreshId, run, outcome, phase, options,
                 askedAt, replies>>

Start(q) ==
  /\ phase[q] = "waiting"
  /\ run = NoKey
  /\ \E g \in askedAt[q] .. generation :
       run' = [options |-> options[q], generation |-> g]
  /\ phase' = [phase EXCEPT ![q] = "member"]
  /\ UNCHANGED <<generation, connected, nextRefreshId, outcome, options,
                 askedAt, replies>>

Join(q) ==
  /\ phase[q] = "waiting"
  /\ run # NoKey
  /\ run.options = options[q]
  /\ run.generation >= askedAt[q]
  /\ phase' = [phase EXCEPT ![q] = "member"]
  /\ UNCHANGED <<generation, connected, nextRefreshId, run, outcome, options,
                 askedAt, replies>>

(* The run ends with a result that carries a refresh id of its own, or with *)
(* an error.                                                                *)
Produce ==
  /\ run # NoKey
  /\ outcome = NoOutcome
  /\ \E q \in Requests : outcome' \in
       {[kind |-> "result", refreshId |-> nextRefreshId, run |-> q],
        [kind |-> "error", refreshId |-> 0, run |-> q]}
  /\ nextRefreshId' = nextRefreshId + 1
  /\ UNCHANGED <<generation, connected, run, phase, options, askedAt, replies>>

Answer(q) ==
  /\ phase[q] = "member"
  /\ connected
  /\ outcome # NoOutcome
  /\ replies' = [replies EXCEPT ![q] = Append(@, outcome)]
  /\ phase' = [phase EXCEPT ![q] = "answered"]
  /\ UNCHANGED <<generation, connected, nextRefreshId, run, outcome, options,
                 askedAt>>

Finish ==
  /\ run # NoKey
  /\ outcome # NoOutcome
  /\ \A q \in Requests : phase[q] # "member"
  /\ run' = NoKey
  /\ outcome' = NoOutcome
  /\ UNCHANGED <<generation, connected, nextRefreshId, phase, options, askedAt,
                 replies>>

GiveUp ==
  /\ ~connected
  /\ run # NoKey
  /\ run' = NoKey
  /\ outcome' = NoOutcome
  /\ phase' = [q \in Requests |-> IF phase[q] = "member" THEN "dropped"
                                                         ELSE phase[q]]
  /\ UNCHANGED <<generation, connected, nextRefreshId, options, askedAt,
                 replies>>

Next ==
  \/ Configure \/ Disconnect \/ Produce \/ Finish \/ GiveUp
  \/ \E q \in Requests : Submit(q) \/ Reject(q) \/ Start(q) \/ Join(q)
                         \/ Answer(q)

Spec == Init /\ [][Next]_serviceVars
=============================================================================
