---------------------------- MODULE RefreshServer ----------------------------
(***************************************************************************)
(* The refresh half of the server: RefreshCoordinator and                   *)
(* MissingEnvReporting together, as handle_refresh, report_refresh_follow_up *)
(* and the publishing phase of apply_configure_options connect them.  They  *)
(* share the configuration generation and the lock around it; a thread that *)
(* has sent its replies goes on to compete for the missing-environment      *)
(* slot while the coordinator is free for the next refresh.                 *)
(***************************************************************************)
EXTENDS RefreshCoordinator

VARIABLES publishing, slot, at, gen, seen, finished

Reporting == INSTANCE MissingEnvReporting WITH Runs <- Requests

reportingOnly == <<publishing, slot, at, gen, seen, finished>>
serverVars == <<vars, reportingOnly>>

ServerInit ==
  /\ Init
  /\ publishing = FALSE
  /\ Reporting!ReportingInit

(* Phase C of apply_configure_options, in its two steps.                    *)
ServerPublish == PublishConfiguration /\ Reporting!PublishGeneration
ServerReset == Reporting!ResetReporting /\ UNCHANGED vars

(* The steps of handle_refresh up to the follow-up; the snapshot of the     *)
(* configuration waits for a publishing configure.                          *)
ServerThread(r) ==
  /\ \/ Snapshot(r) /\ ~publishing
     \/ RegisterRequest(r) \/ WaitUntilIdle(r)
     \/ ExecuteRefresh(r) \/ BeginCompletion(r) \/ DrainRequestIds(r)
     \/ SendReply(r) \/ SendDone(r) \/ SendPanics(r) \/ CompleteRequest(r)
  /\ UNCHANGED reportingOnly

(* report_refresh_follow_up.  Its telemetry event goes through the guarded  *)
(* reporter: for the current generation it is printed, and with the client  *)
(* gone that panics before the slot is touched.                             *)
ServerFollowUp(r) ==
  /\ ~publishing
  /\ FollowUp(r)
  /\ IF stdoutOpen \/ key[r].generation # generation
       THEN Reporting!Begin(r, key[r].generation)
       ELSE UNCHANGED reportingOnly

ServerReporting(r) == Reporting!FollowUpStep(r) /\ UNCHANGED vars

ServerStep(r) == ServerThread(r) \/ ServerFollowUp(r) \/ ServerReporting(r)

ServerEnvironment(r) ==
  \/ (Receive(r) \/ ReceiveInvalid(r) \/ SpuriousWakeup(r))
       /\ UNCHANGED reportingOnly
  \/ Reporting!WorkerPanics(r) /\ UNCHANGED vars

ServerQuiescent ==
  /\ \A r \in Requests : pc[r] = "returned" /\ at[r] \in {"idle", "done", "died"}
  /\ UNCHANGED serverVars

ServerNext ==
  \/ ServerPublish \/ ServerReset
  \/ CloseStdout /\ UNCHANGED reportingOnly
  \/ \E r \in Requests : ServerStep(r) \/ ServerEnvironment(r)
  \/ ServerQuiescent

ServerSpec == ServerInit /\ [][ServerNext]_serverVars

-----------------------------------------------------------------------------
(* Only a run that succeeded, has answered its own request and no longer    *)
(* holds the coordinator looks for missing environments: the slow conda and *)
(* poetry processes never delay a reply or the next refresh.                *)
FollowUpOfAnsweredRun ==
  \A r \in Requests : at[r] # "idle" =>
    /\ result[r].kind = "result"
    /\ ~Owns(r)
    /\ Len(replies[r]) = 1 /\ replies[r][1] = result[r]

(* The inductive invariant behind it, beside the coordinator's own: the run *)
(* of a request keeps the request among the pending or the drained ids until *)
(* it has sent it the result.                                               *)
SentOwnResult(r) == replies[r] = <<result[r]>>

AnswersItself(r) ==
  /\ pc[r] \in {"execute", "begin"} => r \in state.ids
  /\ pc[r] = "drain" => r \in state.ids \/ SentOwnResult(r)
  /\ pc[r] = "send" => r \in batch[r] \/ SentOwnResult(r)
  /\ pc[r] = "finish" => SentOwnResult(r)
  /\ pc[r] = "followup" \/ at[r] # "idle" =>
       result[r].kind = "result" /\ SentOwnResult(r)
  /\ at[r] # "idle" => pc[r] = "returned"

OwnAnswer == \A r \in Requests : AnswersItself(r)

ServerTypeOK ==
  /\ publishing \in BOOLEAN
  /\ at \in [Requests -> Reporting!Places]

ServerInv == IInv /\ ServerTypeOK /\ OwnAnswer

(* The next refresh after a reconfiguration can report missing environments *)
(* again.                                                                   *)
NextRefreshCanReport == Reporting!CompletedForCurrentGeneration
=============================================================================
