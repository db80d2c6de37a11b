------------------------------ MODULE MCRunner ------------------------------
(***************************************************************************)
(* The runner for TLC: its heartbeat supervisor (SelfKill, with time), the *)
(* Attempt it supervises (RunnerAttempt, without), the policy and the      *)
(* generations it works under (PolicySnapshot), the guarded path to a      *)
(* provider turn (LiveConformance), the supervised provider child          *)
(* and the simulated provider (both in ProviderDispatch).  None of         *)
(* them reads another's variables: the Attempt sees of the supervisor only *)
(* that it may freeze at any moment, and the path reads a policy already   *)
(* loaded.  So each part is explored by itself.                            *)
(***************************************************************************)
EXTENDS SelfKill, RunnerAttempt, PolicySnapshot, LiveConformance,
        ProviderDispatch

CONSTANT Parts

VARIABLE part

providerVars == <<dp, simVars>>
mcVars == <<vars, runnerVars, policyVars, lcVars, providerVars, part>>

\* Snapshots around a good one: every rule of the validator is broken by
\* some of them, and keys begin, end and are revoked inside the window.
MCKeys ==
  [use : {"authority"}, audiences : {{"provider-runner"}}, starts : {0, 1, 2}, ends : {2},
   revoked : {<<>>, <<1>>}, flaws : {{}}]
  \cup [use : {"authority", "release", "mixed"}, audiences : {{}, {"bullet-gitd"}},
        starts : {0}, ends : {3}, revoked : {<<>>}, flaws : {{}}]
  \cup [use : {"authority"}, audiences : {{"provider-runner"}}, starts : {0}, ends : {3},
        revoked : {<<>>}, flaws : {{f} : f \in LifecycleFlaws \cup {"schema_version"}}]
MCGoodKey == [use |-> "authority", audiences |-> {"provider-runner"}, starts |-> 0, ends |-> 2,
              revoked |-> <<>>, flaws |-> {}]
MCSnapshots ==
  [schema : {"v1alpha1", "v1alpha2"}, generation : 1..2, starts : {0, 1}, ends : {3},
   live : BOOLEAN, ttl : {15}, keys : {{k} : k \in MCKeys}, flaws : {{}}]
  \cup [schema : {"v1alpha2", "v2"}, generation : {0, 2}, starts : {0}, ends : {0, 3},
        live : BOOLEAN, ttl : {0, 15, 16}, keys : {{}, {MCGoodKey}}, flaws : {{}}]
  \cup [schema : {"v1alpha2"}, generation : {2}, starts : {0}, ends : {3}, live : BOOLEAN,
        ttl : {15}, keys : {{MCGoodKey}}, flaws : {{f} : f \in PolicyFlaws}]

MCInit ==
  /\ part \in Parts
  /\ Init /\ RunnerInit /\ GenerationInit
  /\ PolicyInit
  /\ part # "policy" => polFile = CHOOSE p \in PolSnapshots : TRUE
  /\ LiveInit
  /\ part # "conformance" => lcWrong = "none"
  /\ DispatchInit
  /\ part # "dispatching" => dp = NewDispatch("capture")
  /\ SimInit

MCNext ==
  /\ \/ /\ part = "supervisor" /\ Next
        /\ UNCHANGED <<runnerVars, policyVars, lcVars, providerVars>>
     \/ /\ part = "attempt" /\ RunnerNext
        /\ UNCHANGED <<vars, policyVars, lcVars, providerVars>>
     \/ /\ part = "policy" /\ PolicyNext
        /\ UNCHANGED <<vars, runnerVars, genVars, lcVars, providerVars>>
     \/ /\ part = "generations" /\ GenerationNext
        /\ UNCHANGED <<vars, runnerVars, polVars, lcVars, providerVars>>
     \/ /\ part = "conformance" /\ LiveNext
        /\ UNCHANGED <<vars, runnerVars, policyVars, providerVars>>
     \/ /\ part = "dispatching" /\ DispatchNext
        /\ UNCHANGED <<vars, runnerVars, policyVars, lcVars, simVars>>
     \/ /\ part = "sim" /\ SimNext
        /\ UNCHANGED <<vars, runnerVars, policyVars, lcVars, dp>>
  /\ UNCHANGED part

\* RunnerFairness, where the behaviour is about the Attempt, and
\* DispatchFairness, where it is about a supervised child.
MCFairness ==
  /\ WF_runnerVars(part = "attempt" /\ RunnerStep)
  /\ WF_runnerVars(part = "attempt" /\ beat # "beating" /\ ReclaimLease)
  /\ WF_dp(part = "dispatching" /\ DpSupervisor)
  /\ WF_dp(part = "dispatching" /\ DpWallElapses)
  /\ WF_dp(part = "dispatching" /\ DpDrainElapses)

MCSpec == MCInit /\ [][MCNext]_mcVars /\ MCFairness

\* Every part keeps its types: in particular the supervisor's timers never
\* run backwards, and no Attempt spends more rounds than its configuration
\* admits.
RunnerTypesOK == TypeOK /\ RunnerTypeOK

\* What is admitted under a policy: live turns only where a ratified
\* snapshot allows them (policy_snapshot/live.rs), Attempts only under a
\* generation every component acknowledged (policy_snapshot/activation.rs).
AdmissionIsRatified ==
  IF part = "generations" THEN GenerationsAreOrderly ELSE LiveIsRatified

\* Nothing reaches a provider around its guards: what a policy admits is
\* ratified (AdmissionIsRatified), and a guarded run starts its children only
\* under the grants, leases and boundary it proved and logs exactly how far it
\* came (LiveRunIsGuarded).
AdmissionIsGuarded == AdmissionIsRatified /\ LiveRunIsGuarded

\* A provider child is contained and its dispatch returns
\* (DispatchIsContained, DispatchReturns), and the shared event stream,
\* budget and session table are whole (SimStreamIsWhole, SessionTableEnds).
ProviderIsContained ==
  /\ [](IF part = "sim" THEN SimStreamIsWhole /\ SessionTableEnds ELSE DispatchIsContained)
  /\ part = "dispatching" => DispatchReturns
=============================================================================
