------------------------------- MODULE States -------------------------------
(***************************************************************************)
(* The closed state machines of crates/domain/src/states.rs, each as the   *)
(* set of its legal edges.  A transition function of the code returns Ok   *)
(* exactly for the pairs in the set and InvalidTransition for every other  *)
(* pair, the identity pair included.                                       *)
(***************************************************************************)

PackageStates == {"Pending", "Ready", "Leased", "Executing", "Prepared",
                  "Verifying", "Verified", "Reviewing", "IntegrationReady",
                  "Integrating", "Integrated", "Observing", "Survived",
                  "Struggling", "Escalating", "Reverted", "Rejected",
                  "Failed", "Cancelled", "Quarantined"}

\* States a work package may leave for a refusal, failure or cancellation.
OpenPackageStates == {"Pending", "Ready", "Leased", "Executing", "Prepared",
                      "Verifying", "Verified", "Reviewing",
                      "IntegrationReady", "Integrating", "Struggling",
                      "Escalating"}

PackageTransition ==
  {<<"Pending", "Ready">>, <<"Ready", "Pending">>, <<"Ready", "Leased">>,
   <<"Leased", "Executing">>, <<"Leased", "Ready">>, <<"Executing", "Ready">>,
   <<"Executing", "Prepared">>, <<"Prepared", "Verifying">>,
   <<"Verifying", "Verified">>, <<"Verified", "Reviewing">>,
   <<"Reviewing", "IntegrationReady">>, <<"IntegrationReady", "Integrating">>,
   <<"Integrating", "Integrated">>, <<"Integrated", "Observing">>,
   <<"Observing", "Survived">>, <<"Executing", "Struggling">>,
   <<"Struggling", "Executing">>, <<"Escalating", "Executing">>,
   <<"Struggling", "Escalating">>, <<"Integrated", "Reverted">>,
   <<"Observing", "Reverted">>}
  \cup (OpenPackageStates \X {"Rejected", "Failed", "Cancelled", "Quarantined"})

\* permits_lease_heartbeat, permits_online_lease_check,
\* permits_expiry_reclaim and appears_in_active_attempt_projection all test
\* membership of this one set.
LiveAttemptStates == {"Starting", "Running", "Paused", "Checkpointing",
                      "Preparing"}

\* is_terminal_release_target.
TerminalAttemptStates == {"Succeeded", "Superseded", "Failed", "Crashed",
                          "Cancelled", "Quarantined"}

AttemptStates == {"Created"} \cup LiveAttemptStates \cup TerminalAttemptStates

AttemptTransition ==
  {<<"Created", "Starting">>, <<"Starting", "Running">>,
   <<"Running", "Paused">>, <<"Paused", "Running">>,
   <<"Checkpointing", "Running">>, <<"Running", "Checkpointing">>,
   <<"Running", "Preparing">>, <<"Checkpointing", "Preparing">>,
   <<"Preparing", "Succeeded">>}
  \cup (({"Created"} \cup LiveAttemptStates)
          \X {"Superseded", "Failed", "Crashed", "Cancelled", "Quarantined"})
=============================================================================
