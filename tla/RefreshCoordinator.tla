------------------------- MODULE RefreshCoordinator -------------------------
(***************************************************************************)
(* The refresh coordinator of the JSON-RPC server                          *)
(* (crates/pet/src/jsonrpc.rs): every `refresh` request is handled by a    *)
(* thread of its own, at most one refresh executes at a time, and a        *)
(* request whose key (canonical options, configuration generation) equals  *)
(* the key of the refresh under way joins it instead of starting another.  *)
(*                                                                         *)
(* A request and its thread are one element of Requests.  Each operation   *)
(* of the coordinator runs under its mutex, so it is one action; the       *)
(* thread may be interrupted between any two of them.  The vector          *)
(* request_ids is modelled by a set: a thread registers at most once (see  *)
(* IdsAreFresh), and no property depends on the order of the replies.      *)
(***************************************************************************)
EXTENDS Naturals, Sequences, FiniteSets

CONSTANTS Requests,       \* the refresh requests, each with its thread
          Options,        \* canonical RefreshOptions
          MaxGeneration,  \* bound on the number of configurations
          NoKey           \* the key of an idle coordinator

Keys == [options : Options, generation : Nat]

ASSUME NoKeyAssumption == NoKey \notin Keys
ASSUME MaxGenerationAssumption == MaxGeneration \in Nat

VARIABLES
  generation,     \* ConfigurationState.generation
  state,          \* RefreshCoordinatorState with its ActiveRefresh
  nextRefreshId,  \* NEXT_REFRESH_ID
  stdoutOpen,     \* FALSE once the client has closed the pipe print! writes to
  aborted,        \* a panic under the coordinator mutex ends the process
  pc,             \* where each request's thread is
  options,        \* its parsed options
  key,            \* its refresh_key, from the last configuration snapshot
  result,         \* what catch_unwind(execute_refresh) returned
  batch,          \* the ids it drained and has not answered yet
  replies,        \* history: what was sent for each request
  askedAt         \* history: the generation when the request arrived

sharedVars == <<generation, state, nextRefreshId, stdoutOpen, aborted>>
localVars == <<pc, options, key, result, batch>>
vars == <<generation, state, nextRefreshId, stdoutOpen, aborted, pc, options,
          key, result, batch, replies, askedAt>>

-----------------------------------------------------------------------------

Unregistered == {"new", "snapshot", "register", "wait", "parked"}
Owning == {"execute", "begin", "drain", "send", "finish"}
PcValues == Unregistered \cup Owning \cup {"followup", "returned"}

(* A reply names the thread whose run produced it (a ghost: the wire only   *)
(* carries the refresh id).                                                 *)
Replies == [kind : {"result", "error", "invalid"}, refreshId : Nat,
            run : Requests]
Result(id, r) == [kind |-> "result", refreshId |-> id, run |-> r]
Error(r) == [kind |-> "error", refreshId |-> 0, run |-> r]
Invalid(r) == [kind |-> "invalid", refreshId |-> 0, run |-> r]

Idle == [tag |-> "Idle", key |-> NoKey, ids |-> {}]
Active(tag, k, ids) == [tag |-> tag, key |-> k, ids |-> ids]

States == {Idle} \cup
  [tag : {"Running", "Completing"}, key : Keys, ids : SUBSET Requests]

Init ==
  /\ generation = 0
  /\ state = Idle
  /\ nextRefreshId = 1
  /\ stdoutOpen = TRUE
  /\ aborted = FALSE
  /\ pc = [r \in Requests |-> "new"]
  /\ options \in [Requests -> Options]
  /\ key = [r \in Requests |-> NoKey]
  /\ result = [r \in Requests |-> Error(r)]
  /\ batch = [r \in Requests |-> {}]
  /\ replies = [r \in Requests |-> <<>>]
  /\ askedAt = [r \in Requests |-> 0]

Goto(r, label) == pc' = [pc EXCEPT ![r] = label]

(* Condvar::notify_all: every parked thread re-evaluates its condition.     *)
NotifyAll(labels) ==
  [r \in Requests |-> IF labels[r] = "parked" THEN "wait" ELSE labels[r]]

(* The match arm in which the thread finds its own refresh.                 *)
Matches(tag, r) == state.tag = tag /\ state.key = key[r]

(* A panic while the mutex guard is alive poisons the mutex; the guards     *)
(* that are dropped by the unwinding lock it again with expect(), and that  *)
(* second panic aborts the process.                                         *)
PanicUnderLock ==
  /\ aborted' = TRUE
  /\ UNCHANGED <<generation, state, nextRefreshId, stdoutOpen, localVars,
                 replies, askedAt>>

-----------------------------------------------------------------------------
(* The environment of the refresh threads.                                  *)

(* handle_refresh on the reader thread: the options parse, a thread starts. *)
Receive(r) ==
  /\ pc[r] = "new"
  /\ Goto(r, "snapshot")
  /\ askedAt' = [askedAt EXCEPT ![r] = generation]
  /\ UNCHANGED <<sharedVars, options, key, result, batch, replies>>

(* handle_refresh: the parameters do not parse, no thread is started.       *)
ReceiveInvalid(r) ==
  /\ pc[r] = "new"
  /\ stdoutOpen
  /\ Goto(r, "returned")
  /\ replies' = [replies EXCEPT ![r] = Append(@, Invalid(r))]
  /\ askedAt' = [askedAt EXCEPT ![r] = generation]
  /\ UNCHANGED <<sharedVars, options, key, result, batch>>

(* Phase C of apply_configure_options: a configuration is published.        *)
PublishConfiguration ==
  /\ generation < MaxGeneration
  /\ generation' = generation + 1
  /\ UNCHANGED <<state, nextRefreshId, stdoutOpen, aborted, localVars, replies,
                 askedAt>>

(* The client closes its end: from now on print! panics.                    *)
CloseStdout ==
  /\ stdoutOpen
  /\ stdoutOpen' = FALSE
  /\ UNCHANGED <<generation, state, nextRefreshId, aborted, localVars, replies,
                 askedAt>>

-----------------------------------------------------------------------------
(* The thread of a request: one turn of the loop in handle_refresh.         *)

(* configuration.read().clone(), then RefreshKey::new.                      *)
Snapshot(r) ==
  /\ pc[r] = "snapshot"
  /\ key' = [key EXCEPT ![r] = [options |-> options[r],
                                generation |-> generation]]
  /\ Goto(r, "register")
  /\ UNCHANGED <<sharedVars, options, result, batch, replies, askedAt>>

(* The three arms of register_request.  The variants named Faulty... are    *)
(* used only to confirm that the properties notice such a slip.             *)
FaultyRegisterStart(r) ==       \* a completing refresh is taken for idle
  /\ state.tag # "Running"
  /\ state' = Active("Running", key[r], {r})
  /\ Goto(r, "execute")

RegisterStart(r) ==
  /\ state.tag = "Idle"
  /\ state' = Active("Running", key[r], {r})
  /\ Goto(r, "execute")

FaultyJoinIgnoresGeneration(r) ==
  /\ state.tag # "Idle" /\ state.key.options = key[r].options
  /\ state' = [state EXCEPT !.ids = @ \cup {r}]
  /\ Goto(r, "returned")

FaultyJoinWithoutPush(r) ==
  /\ state.tag # "Idle" /\ state.key = key[r]
  /\ Goto(r, "returned")
  /\ UNCHANGED state

RegisterJoined(r) ==
  /\ state.tag # "Idle" /\ state.key = key[r]
  /\ state' = [state EXCEPT !.ids = @ \cup {r}]
  /\ Goto(r, "returned")

RegisterWait(r) ==
  /\ state.tag # "Idle" /\ state.key # key[r]
  /\ Goto(r, "wait")
  /\ UNCHANGED state

RegisterRequest(r) ==
  /\ pc[r] = "register"
  /\ RegisterStart(r) \/ RegisterJoined(r) \/ RegisterWait(r)
  /\ UNCHANGED <<generation, nextRefreshId, stdoutOpen, aborted, options, key,
                 result, batch, replies, askedAt>>

(* wait_while: test the condition under the mutex, park if it still holds;  *)
(* once it does not, the loop of handle_refresh starts over.                *)
WaitUntilIdle(r) ==
  /\ pc[r] = "wait"
  /\ Goto(r, IF state.tag = "Idle" THEN "snapshot" ELSE "parked")
  /\ UNCHANGED <<sharedVars, options, key, result, batch, replies, askedAt>>

(* A condition variable may wake a thread that nobody notified.             *)
SpuriousWakeup(r) ==
  /\ pc[r] = "parked"
  /\ Goto(r, "wait")
  /\ UNCHANGED <<sharedVars, options, key, result, batch, replies, askedAt>>

(* catch_unwind(execute_refresh): it takes a refresh id first, then either  *)
(* returns or panics.                                                       *)
ExecuteRefresh(r) ==
  /\ pc[r] = "execute"
  /\ nextRefreshId' = nextRefreshId + 1
  /\ \E res \in {Result(nextRefreshId, r), Error(r)} :
       result' = [result EXCEPT ![r] = res]
  /\ Goto(r, "begin")
  /\ UNCHANGED <<generation, state, stdoutOpen, aborted, options, key, batch,
                 replies, askedAt>>

(* begin_completion: the other arms of the match panic under the mutex.     *)
BeginCompletion(r) ==
  /\ pc[r] = "begin"
  /\ IF Matches("Running", r)
       THEN /\ state' = [state EXCEPT !.tag = "Completing"]
            /\ Goto(r, "drain")
            /\ UNCHANGED <<generation, nextRefreshId, stdoutOpen, aborted,
                           options, key, result, batch, replies, askedAt>>
       ELSE PanicUnderLock

FaultyDrainClones(r) ==         \* clone() where the code has mem::take()
  /\ pc[r] = "drain"
  /\ batch' = [batch EXCEPT ![r] = state.ids]
  /\ Goto(r, "send")
  /\ UNCHANGED <<sharedVars, options, key, result, replies, askedAt>>

(* drain_completing_request_ids: the head of the reply loop.  An idle       *)
(* coordinator has nothing to drain; the remaining arms panic.              *)
DrainRequestIds(r) ==
  /\ pc[r] = "drain"
  /\ IF Matches("Completing", r) \/ state.tag = "Idle"
       THEN /\ batch' = [batch EXCEPT ![r] = state.ids]
            /\ state' = [state EXCEPT !.ids = {}]
            /\ Goto(r, "send")
            /\ UNCHANGED <<generation, nextRefreshId, stdoutOpen, aborted,
                           options, key, result, replies, askedAt>>
       ELSE PanicUnderLock

(* send_reply or send_error for one drained id, outside the mutex.          *)
SendReply(r) ==
  /\ pc[r] = "send"
  /\ stdoutOpen
  /\ \E q \in batch[r] :
       /\ replies' = [replies EXCEPT ![q] = Append(@, result[r])]
       /\ batch' = [batch EXCEPT ![r] = @ \ {q}]
  /\ UNCHANGED <<sharedVars, pc, options, key, result, askedAt>>

SendDone(r) ==
  /\ pc[r] = "send"
  /\ batch[r] = {}
  /\ Goto(r, "finish")
  /\ UNCHANGED <<sharedVars, options, key, result, batch, replies, askedAt>>

FaultyForceDoesNothing(r, labels) == UNCHANGED state /\ pc' = labels

(* force_complete_request: only the key's own refresh is cleared.           *)
ForceCompleteRequest(r, labels) ==
  IF state.tag # "Idle" /\ state.key = key[r]
    THEN state' = Idle /\ pc' = NotifyAll(labels)
    ELSE UNCHANGED state /\ pc' = labels

(* print! panics on the closed pipe.  The unwinding drops the rest of the   *)
(* drained ids, and the completion guard forces the coordinator to Idle.    *)
SendPanics(r) ==
  /\ pc[r] = "send"
  /\ ~stdoutOpen
  /\ batch[r] # {}
  /\ ForceCompleteRequest(r, [pc EXCEPT ![r] = "returned"])
  /\ batch' = [batch EXCEPT ![r] = {}]
  /\ UNCHANGED <<generation, nextRefreshId, stdoutOpen, aborted, options, key,
                 result, replies, askedAt>>

FaultyCompleteDropsPending(r) == \* no second look at request_ids
  /\ pc[r] = "finish"
  /\ state' = Idle
  /\ pc' = NotifyAll([pc EXCEPT ![r] = "returned"])
  /\ UNCHANGED <<generation, nextRefreshId, stdoutOpen, aborted, options, key,
                 result, batch, replies, askedAt>>

FaultyCompleteIgnoresOutcome(r) == \* the follow-up also after an error
  /\ pc[r] = "finish"
  /\ IF state.ids = {}
       THEN state' = Idle /\ pc' = NotifyAll([pc EXCEPT ![r] = "followup"])
       ELSE UNCHANGED state /\ Goto(r, "drain")
  /\ UNCHANGED <<generation, nextRefreshId, stdoutOpen, aborted, options, key,
                 result, batch, replies, askedAt>>

(* complete_request: idle again unless somebody joined since the drain.     *)
CompleteRequest(r) ==
  /\ pc[r] = "finish"
  /\ IF Matches("Completing", r)
       THEN /\ IF state.ids = {}
                 THEN /\ state' = Idle
                      /\ pc' = NotifyAll([pc EXCEPT ![r] =
                           IF result[r].kind = "result" THEN "followup"
                                                        ELSE "returned"])
                 ELSE /\ UNCHANGED state
                      /\ Goto(r, "drain")
            /\ UNCHANGED <<generation, nextRefreshId, stdoutOpen, aborted,
                           options, key, result, batch, replies, askedAt>>
       ELSE PanicUnderLock

(* report_refresh_follow_up: its steps are those of MissingEnvReporting.    *)
FollowUp(r) ==
  /\ pc[r] = "followup"
  /\ Goto(r, "returned")
  /\ UNCHANGED <<sharedVars, options, key, result, batch, replies, askedAt>>

ThreadStep(r) ==
  \/ Snapshot(r) \/ RegisterRequest(r) \/ WaitUntilIdle(r)
  \/ ExecuteRefresh(r) \/ BeginCompletion(r) \/ DrainRequestIds(r)
  \/ SendReply(r) \/ SendDone(r) \/ SendPanics(r) \/ CompleteRequest(r)
  \/ FollowUp(r)

(* The server waits for input: every request has been dealt with.           *)
Quiescent ==
  /\ \A r \in Requests : pc[r] = "returned"
  /\ UNCHANGED vars

Next ==
  \/ ~aborted /\ (\/ PublishConfiguration \/ CloseStdout
                  \/ \E r \in Requests : \/ Receive(r) \/ ReceiveInvalid(r)
                                         \/ SpuriousWakeup(r)
                                         \/ ThreadStep(r))
  \/ Quiescent

(* The operating system runs every runnable thread; clients, configurations *)
(* and spurious wake-ups come when they like.                               *)
Fairness == \A r \in Requests : WF_vars(~aborted /\ ThreadStep(r))

Spec == Init /\ [][Next]_vars
FairSpec == Spec /\ Fairness

-----------------------------------------------------------------------------
(* Properties.                                                              *)

TypeOK ==
  /\ generation \in 0 .. MaxGeneration
  /\ state \in States
  /\ nextRefreshId \in Nat
  /\ stdoutOpen \in BOOLEAN
  /\ aborted \in BOOLEAN
  /\ pc \in [Requests -> PcValues]
  /\ options \in [Requests -> Options]
  /\ key \in [Requests -> Keys \cup {NoKey}]
  /\ result \in [Requests -> Replies]
  /\ batch \in [Requests -> SUBSET Requests]
  /\ replies \in [Requests -> Seq(Replies)]
  /\ askedAt \in [Requests -> Nat]

Owns(r) == pc[r] \in Owning
Registered(r) == pc[r] \notin Unregistered

(* At most one thread is between its Start registration and the end of its  *)
(* reply loop: two refreshes never execute at the same time.                *)
SingleFlight == \A r, s \in Requests : Owns(r) /\ Owns(s) => r = s

(* No interleaving of registrations, completions and forced completions     *)
(* reaches an arm of begin_completion, drain_completing_request_ids or      *)
(* complete_request that panics with the mutex held.                        *)
NeverAborts == ~aborted

(* A request is answered at most once, although a thread that joined late   *)
(* may be picked up by any turn of the reply loop.                          *)
AnsweredOnce == \A q \in Requests : Len(replies[q]) <= 1

(* The run that answers a request used the request's options and a          *)
(* configuration no older than the one in force when the request arrived.   *)
AnsweredByMatchingRun ==
  \A q \in Requests : \A i \in DOMAIN replies[q] :
    LET k == key[replies[q][i].run] IN
      replies[q][i].kind # "invalid" =>
        k.options = options[q] /\ k.generation >= askedAt[q]

(* While the client is connected a registered request is never lost: it is  *)
(* pending, drained by the owner, or answered, even if it joined while the  *)
(* refresh was completing.                                                  *)
NoRequestLost ==
  stdoutOpen => \A q \in Requests :
    Registered(q) => \/ q \in state.ids
                     \/ \E r \in Requests : Owns(r) /\ q \in batch[r]
                     \/ replies[q] # <<>>

(* No thread stays parked on the condition variable once the coordinator is *)
(* idle: every transition to Idle notifies, forced ones included.           *)
NoLostWakeup == state.tag = "Idle" => \A r \in Requests : pc[r] # "parked"

(* Requests answered by the same run receive the same refresh id and        *)
(* requests answered by different runs receive different ones.              *)
RefreshIdIdentifiesRun ==
  \A p, q \in Requests : \A i \in DOMAIN replies[p], j \in DOMAIN replies[q] :
    LET a == replies[p][i]
        b == replies[q][j]
    IN  a.kind = "result" /\ b.kind = "result" =>
          (a.refreshId = b.refreshId <=> a.run = b.run)

(* Every request that arrives is answered, unless the client goes away.     *)
EveryRequestAnswered ==
  \A r \in Requests : pc[r] = "snapshot" ~> replies[r] # <<>> \/ ~stdoutOpen

(* Every refresh ends, with or without a client and whether or not it       *)
(* panics: the coordinator becomes idle again.                              *)
CoordinatorReturnsToIdle == state.tag # "Idle" ~> state.tag = "Idle"

(* The inductive invariant behind the properties above.                     *)

(* The state belongs to exactly one thread, which finds its own key there   *)
(* and the tag its program counter calls for.                               *)
Ownership ==
  /\ SingleFlight
  /\ \A r \in Requests : Owns(r) =>
       /\ state.key = key[r]
       /\ state.tag = IF pc[r] \in {"execute", "begin"} THEN "Running"
                                                        ELSE "Completing"
  /\ state.tag # "Idle" => \E r \in Requests : Owns(r)

(* A thread's key was taken from a configuration published no earlier than  *)
(* the request.                                                             *)
KeysAreFresh ==
  \A r \in Requests :
    /\ askedAt[r] <= generation
    /\ pc[r] \notin {"new", "snapshot", "returned"} => key[r] # NoKey
    /\ key[r] # NoKey => /\ pc[r] # "new"
                         /\ key[r].options = options[r]
                         /\ askedAt[r] <= key[r].generation
                         /\ key[r].generation <= generation

(* k is a key that the request q may be answered under.                     *)
Serves(k, q) == k \in Keys /\ k.options = options[q]
                           /\ askedAt[q] <= k.generation

(* Pending and drained ids are distinct requests without an answer.         *)
IdsAreFresh ==
  /\ \A q \in state.ids :
       Registered(q) /\ replies[q] = <<>> /\ Serves(state.key, q)
  /\ \A r \in Requests : \A q \in batch[r] :
       /\ pc[r] = "send"
       /\ Registered(q) /\ replies[q] = <<>> /\ Serves(key[r], q)
       /\ q \notin state.ids

(* A thread that has executed holds the result of its own run.              *)
Executed(r) == pc[r] \notin Unregistered \cup {"execute"}

ResultsAreDistinct ==
  /\ \A r \in Requests : result[r].run = r
  /\ \A r \in Requests : ~Executed(r) => result[r].kind = "error"
  /\ \A r \in Requests : Executed(r) /\ result[r].kind = "result" =>
       result[r].refreshId < nextRefreshId
  /\ \A r, s \in Requests :
       /\ Executed(r) /\ result[r].kind = "result"
       /\ Executed(s) /\ result[s].kind = "result"
       /\ result[r].refreshId = result[s].refreshId
       => r = s

(* A request has at most the one reply of a run that serves it.             *)
AnsweredBy(q, r) ==
  Executed(r) /\ replies[q] = <<result[r]>> /\ Serves(key[r], q)

RepliesAreResults ==
  \A q \in Requests :
    \/ replies[q] = <<>>
    \/ Registered(q) /\ replies[q] = <<Invalid(q)>>
    \/ Registered(q) /\ \E r \in Requests : AnsweredBy(q, r)

IInv ==
  /\ TypeOK /\ NeverAborts /\ Ownership /\ KeysAreFresh /\ IdsAreFresh
  /\ ResultsAreDistinct /\ RepliesAreResults /\ NoRequestLost /\ NoLostWakeup

(* The refinement mapping to RefreshService.                                *)
CONSTANT NoOutcome
ASSUME NoOutcomeAssumption == NoOutcome \notin Replies

IsMember(q) == q \in state.ids \/ \E r \in Requests : q \in batch[r]

servicePhase ==
  [q \in Requests |->
    IF replies[q] # <<>> THEN "answered"
    ELSE IF pc[q] = "new" THEN "new"
    ELSE IF pc[q] \in Unregistered THEN "waiting"
    ELSE IF IsMember(q) THEN "member"
    ELSE "dropped"]

serviceOutcome ==
  IF \E r \in Requests : Owns(r) /\ pc[r] # "execute"
    THEN result[CHOOSE r \in Requests : Owns(r) /\ pc[r] # "execute"]
    ELSE NoOutcome

Service == INSTANCE RefreshService
  WITH connected <- stdoutOpen, run <- state.key, outcome <- serviceOutcome,
       phase <- servicePhase

(* The threads, the mutex and the condition variable together implement the *)
(* service that a client may assume.                                        *)
ImplementsService == Service!Spec
=============================================================================
