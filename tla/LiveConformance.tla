-------------------------- MODULE LiveConformance ---------------------------
(***************************************************************************)
(* One run of the guarded live-conformance path (application/src/          *)
(* live_conformance): eighteen steps from the policy to the PONG, two      *)
(* single-use grants (one for a contained probe, one for the turn), the    *)
(* provider admission whose blockers only their own evidence clears, and   *)
(* the receipt that records every step.                                    *)
(*                                                                         *)
(* The run is one task; beside it the clock moves, the executable on disk  *)
(* may be replaced, the authority epoch may move, and another holder of a  *)
(* token may present it first.  Of the run's other inputs at most one is   *)
(* wrong, `lcWrong': each step lists the facts its code checks, so the     *)
(* checks are told apart without spelling out the records.  The run reads  *)
(* the wall clock once, at its start (instant 0); only the ledger reads it *)
(* again.                                                                  *)
(***************************************************************************)
EXTENDS Naturals, Sequences, FiniteSets

CONSTANTS
  LcGrantTtl,     \* ttl_ms of both grants, at most MAX_LAUNCH_GRANT_TTL_MS
  LcLeaseTtl,     \* the 15 s of the conformance lease
  LcProbeLimit,   \* MAX_PROBE_DEADLINE_MS
  LcHorizon,      \* last instant
  LcSwaps         \* how often the executable may be replaced

VARIABLES
  lcAt,           \* the step being run, "seal" or "done"
  lcLog,          \* StepLog: step -> status
  lcWrong,        \* the one input that is not as it should be, or "none"
  lcClock,        \* the wall clock; the run's own `now' is 0
  lcBytes,        \* what stands at the executable's path; 0 was enrolled
  lcEpoch,        \* authority epoch and freeze generation
  lcLease,        \* <<>> or the lease's expiry
  lcNonce,        \* grant -> its durable nonce row
  lcSaw,          \* the bytes each check looked at
  lcBlockers,     \* what the admission still lacks
  lcProven,       \* boundaries whose containment was proven
  lcSpawned,      \* processes started, with the bytes they were checked to be
  lcReceipt       \* "none", "written", "unwritten"

lcEnv == <<lcWrong, lcClock, lcBytes, lcEpoch>>
lcOut == <<lcLease, lcNonce, lcSaw, lcBlockers, lcProven, lcSpawned>>
lcVars == <<lcAt, lcLog, lcEnv, lcOut, lcReceipt>>

LiveSteps == <<"Policy", "Enrollment", "OperatorKey", "Lease", "ProbeGrant",
  "ProbeContainment", "ProbeExecution", "RuntimeAdmission", "Admission", "Mint",
  "VerifyGrant", "AdmitSigned", "EgressPrepare", "AdmitEgress",
  "RequireDispatch", "Dispatch", "CanaryScan", "PongMatch">>
StepNames == {LiveSteps[i] : i \in DOMAIN LiveSteps}
LcMin(a, b) == IF a < b THEN a ELSE b

-----------------------------------------------------------------------------
(* The facts each check reads, by the name the code gives them.            *)

PolicyRefuses == {"live_admission_enabled"}
PolicyFacts == {"policy_window", "policy_runner_key"}

EnrollmentCustody == {"enrollment_symlink", "enrollment_mode", "enrollment_owner",
  "enrollment_size", "enrollment_changed_while_opening"}
EnrollmentRecord == {"enrollment_canonical", "enrollment_schema", "enrollment_provider",
  "enrollment_executable_absolute", "enrollment_label", "enrollment_blake3_shape"}
EnrollmentWindow == {"enrollment_future", "enrollment_expired", "enrollment_order"}
EnrollmentSubject == {"enrolled_executable", "enrolled_version", "enrolled_protocol",
  "enrolled_wire_provider"}

KeyCustody == {"key_absolute", "key_regular", "key_identity", "key_mode", "key_owner",
  "key_length"}
KeyAdmission == {"key_registered", "key_purpose", "key_audience", "key_active",
  "key_public_half"}

LeaseFacts == {"lease_held_elsewhere"}

ContainmentFacts == {"probe_receipt_digest", "probe_without_probes", "probe_reached_network"}
ProbeRefuses == {"probe_executor_unlinked"}
ProbeBeforeSpawn == {"probe_kill_switch"}
ProbeCapture == {"probe_spawn", "probe_canary", "probe_exit_unavailable"}
ProbeOutput == {"probe_oversized", "probe_not_utf8", "probe_without_version",
  "probe_control_characters", "probe_wall"}
RuntimeMatches == {"probe_version", "probe_exit_code"}
ConformanceRefuses == {"conformance_unavailable"}
ConformancePort == {"conformance_port_error"}

AdmissionPrepare == {"observed_version", "observed_binary_name", "adapter_stage",
  "profile_identity"}
ProbeTime == {"probe_age", "probe_in_future"}
CredentialGrants == {"credential_target_relative", "credential_target_allowed",
  "credential_target_repeated", "credential_digest_shape"}
CredentialCopy == {"credential_regular", "credential_size", "credential_canonical",
  "credential_identity", "credential_digest", "credential_target_taken"}
AdmissionHome == CredentialGrants \cup CredentialCopy \cup {"environment_canary"}
EvidenceSurfaces == {"stdout_canary", "stderr_canary", "event_log_canary",
  "proposal_canary", "proposal_invalid"}
InvocationEvents == {"event_ids", "event_sequence", "event_lifecycle"}
AdmissionBlockers == {"protocol_nonconformant", "capability_nonconformant"}

ProbeClaims == {"probe_claim_labels", "probe_claim_provider", "probe_claim_executable"}
MintFacts == {"sandbox_manifest", "request_digest_shape", "request_ttl"}
LaunchClaims == {"claim_digests", "claim_identities", "claim_provider", "claim_integers",
  "claim_gates"}
EgressPrepared == {"egress_prepare"}
EgressEvidence == {"egress_digests", "egress_probe_names", "egress_required_probes",
  "egress_probe_outcome"}

TurnBeforeSpawn == {"turn_kill_switch"}
TurnFailures == {"turn_spawn", "turn_protocol", "turn_timed_out", "turn_exit_code"}
TurnCanary == {"turn_canary"}
TurnAnswer == {"turn_not_pong"}

EnrollmentRefuses == {"enrollment_missing"}
EnrollmentFacts == EnrollmentCustody \cup EnrollmentRecord \cup EnrollmentWindow
                   \cup EnrollmentSubject
AdmissionFacts == AdmissionPrepare \cup ProbeTime \cup AdmissionHome
                  \cup EvidenceSurfaces \cup InvocationEvents
BeforeTurn ==
  PolicyRefuses \cup PolicyFacts \cup EnrollmentRefuses \cup EnrollmentFacts
  \cup KeyCustody \cup KeyAdmission \cup LeaseFacts \cup ContainmentFacts \cup ProbeRefuses
  \cup ProbeBeforeSpawn \cup ProbeCapture \cup ProbeOutput \cup RuntimeMatches
  \cup ConformanceRefuses \cup ConformancePort \cup AdmissionFacts
  \cup AdmissionBlockers \cup ProbeClaims \cup MintFacts \cup LaunchClaims \cup EgressPrepared \cup EgressEvidence
  \cup TurnBeforeSpawn
LiveFacts == BeforeTurn \cup TurnFailures \cup TurnCanary \cup TurnAnswer

-----------------------------------------------------------------------------
(* How a step ends.  A StepFailure names the step it is recorded under.    *)

PassSteps(steps, next) ==
  /\ lcLog' = [s \in StepNames |-> IF s \in steps THEN "Pass" ELSE lcLog[s]]
  /\ lcAt' = next

StopAt(s, status) ==
  /\ lcLog' = [lcLog EXCEPT ![s] = status]
  /\ lcAt' = "seal"

LcQuiet == UNCHANGED <<lcEnv, lcReceipt>>
StoppedAt(s, status) == StopAt(s, status) /\ UNCHANGED lcOut

\* A step without effects: refused, failed, or passed.
PlainStep(s, refuses, fails, next) ==
  /\ lcAt = s /\ LcQuiet
  /\ \/ lcWrong \in refuses /\ StoppedAt(s, "Refused")
     \/ lcWrong \in fails /\ StoppedAt(s, "Failed")
     \/ lcWrong \notin refuses \cup fails /\ PassSteps({s}, next) /\ UNCHANGED lcOut

PolicyStep == PlainStep("Policy", PolicyRefuses, PolicyFacts, "Enrollment")

\* verify_executable: the bytes on disk are the ones the record names.
EnrollmentStep ==
  \/ PlainStep("Enrollment", EnrollmentRefuses, EnrollmentFacts, "OperatorKey") /\ lcBytes = 0
  \/ lcAt = "Enrollment" /\ lcBytes # 0 /\ LcQuiet /\ StoppedAt("Enrollment", "Failed")

OperatorKeyStep == PlainStep("OperatorKey", {}, KeyCustody \cup KeyAdmission, "Lease")

LeaseStep ==
  /\ lcAt = "Lease" /\ LcQuiet
  /\ \/ lcWrong \in LeaseFacts /\ StoppedAt("Lease", "Failed")
     \/ /\ lcWrong \notin LeaseFacts
        /\ lcLease' = <<lcClock + LcLeaseTtl>>
        /\ PassSteps({"Lease"}, "ProbeGrant")
        /\ UNCHANGED <<lcNonce, lcSaw, lcBlockers, lcProven, lcSpawned>>

\* durable_lease_binding: the ledger finds the lease active by its own clock.
LeaseBinds == lcLease # <<>> /\ lcClock < lcLease[1]
GrantExpiry == LcMin(LcGrantTtl, lcLease[1])
GrantRow(holder) == [state |-> "issued", by |-> holder, expires |-> GrantExpiry, epoch |-> lcEpoch]

\* classify_stored_nonce, by the ledger's clock.
NonceIsFresh(g) == lcNonce[g].state = "issued" /\ lcClock < lcNonce[g].expires
SpendNonce(g, who) == lcNonce' = [lcNonce EXCEPT ![g].state = "spent", ![g].by = who]

\* probe_grant_step up to the recorded nonce; drift is refused before that.
MintProbeGrant ==
  /\ lcAt = "ProbeGrant" /\ LcQuiet
  /\ \/ /\ lcBytes # 0 \/ ~LeaseBinds \/ GrantExpiry = 0 \/ lcWrong \in ProbeClaims
        /\ StoppedAt("ProbeGrant", "Failed")
     \/ /\ lcBytes = 0 /\ LeaseBinds /\ GrantExpiry > 0 /\ lcWrong \notin ProbeClaims
        /\ lcNonce' = [lcNonce EXCEPT !.probe = GrantRow("none")]
        /\ lcSaw' = [lcSaw EXCEPT !.granted = lcBytes]
        /\ lcAt' = "ProbeVerify"
        /\ UNCHANGED <<lcLog, lcLease, lcBlockers, lcProven, lcSpawned>>

\* verify_probe_grant: every check, then the nonce.
VerifyProbeGrant ==
  /\ lcAt = "ProbeVerify" /\ LcQuiet
  /\ \/ ~NonceIsFresh("probe") /\ StoppedAt("ProbeGrant", "Failed")
     \/ /\ NonceIsFresh("probe") /\ SpendNonce("probe", "run")
        /\ PassSteps({"ProbeGrant"}, "ProbeContainment")
        /\ UNCHANGED <<lcLease, lcSaw, lcBlockers, lcProven, lcSpawned>>

ProbeContainmentStep ==
  /\ lcAt = "ProbeContainment" /\ LcQuiet
  /\ \/ lcWrong \in ContainmentFacts /\ StoppedAt("ProbeContainment", "Failed")
     \/ /\ lcWrong \notin ContainmentFacts
        /\ lcProven' = lcProven \cup {"probe"}
        /\ PassSteps({"ProbeContainment"}, "ProbeExecution")
        /\ UNCHANGED <<lcLease, lcNonce, lcSaw, lcBlockers, lcSpawned>>

\* probe_deadline_ms, from the instant the run began.
ProbeDeadline == LcMin(LcProbeLimit, lcNonce.probe.expires)

SpawnProbe ==
  /\ lcAt = "ProbeExecution" /\ LcQuiet
  /\ \/ lcWrong \in ProbeRefuses /\ StoppedAt("ProbeExecution", "Refused")
     \/ /\ lcWrong \notin ProbeRefuses
        /\ lcWrong \in ProbeBeforeSpawn \/ ProbeDeadline = 0 \/ lcBytes # lcSaw.granted
        /\ StoppedAt("ProbeExecution", "Failed")
     \/ /\ lcWrong \notin ProbeRefuses \cup ProbeBeforeSpawn
        /\ ProbeDeadline > 0 /\ lcBytes = lcSaw.granted
        /\ lcSpawned' = Append(lcSpawned, [what |-> "probe", bytes |-> lcBytes, at |-> lcClock])
        /\ lcAt' = "ProbeRunning"
        /\ UNCHANGED <<lcLog, lcLease, lcNonce, lcSaw, lcBlockers, lcProven>>

FinishProbe ==
  /\ lcAt = "ProbeRunning" /\ LcQuiet
  /\ LET wall == lcClock - lcSpawned[1].at IN
     \/ (lcWrong \in ProbeCapture \cup ProbeOutput \/ wall >= ProbeDeadline)
          /\ StoppedAt("ProbeExecution", "Failed")
     \/ /\ lcWrong \notin ProbeCapture \cup ProbeOutput /\ wall < ProbeDeadline
        /\ PassSteps({"ProbeExecution"}, "RuntimeAdmission") /\ UNCHANGED lcOut

\* The facts of the probe against the enrollment, then the dispatcher's own
\* observation of the executable.
RuntimeAdmissionStep ==
  /\ lcAt = "RuntimeAdmission" /\ LcQuiet
  /\ \/ lcWrong \in RuntimeMatches \cup ConformancePort /\ StoppedAt("RuntimeAdmission", "Failed")
     \/ lcWrong \in ConformanceRefuses /\ StoppedAt("RuntimeAdmission", "Refused")
     \/ /\ lcWrong \notin RuntimeMatches \cup ConformancePort \cup ConformanceRefuses
        /\ lcSaw' = [lcSaw EXCEPT !.observed = lcBytes]
        /\ PassSteps({"RuntimeAdmission"}, "Admission")
        /\ UNCHANGED <<lcLease, lcNonce, lcBlockers, lcProven, lcSpawned>>

\* prepare and finalize: two blockers always, more for a protocol or a
\* capability that falls short.
AdmissionStep ==
  /\ lcAt = "Admission" /\ LcQuiet
  /\ \/ (lcWrong \in AdmissionFacts \/ lcBytes # lcSaw.observed) /\ StoppedAt("Admission", "Failed")
     \/ /\ lcWrong \notin AdmissionFacts /\ lcBytes = lcSaw.observed
        /\ lcSaw' = [lcSaw EXCEPT !.admitted = lcBytes]
        /\ lcBlockers' = {"signed_authority", "egress_isolation"}
                         \cup ({lcWrong} \cap AdmissionBlockers)
        /\ PassSteps({"Admission"}, "Mint")
        /\ UNCHANGED <<lcLease, lcNonce, lcProven, lcSpawned>>

MintLaunchGrant ==
  /\ lcAt = "Mint" /\ LcQuiet
  /\ \/ /\ lcWrong \in MintFacts \cup LaunchClaims \/ ~LeaseBinds \/ GrantExpiry = 0
        /\ StoppedAt("Mint", "Failed")
     \/ /\ lcWrong \notin MintFacts \cup LaunchClaims /\ LeaseBinds /\ GrantExpiry > 0
        /\ lcNonce' = [lcNonce EXCEPT !.launch = GrantRow("none")]
        /\ PassSteps({"Mint"}, "VerifyGrant")
        /\ UNCHANGED <<lcLease, lcSaw, lcBlockers, lcProven, lcSpawned>>

\* Verification without reading the executable again.
VerifyAdmittedGrant ==
  LET good == LeaseBinds /\ lcEpoch = lcNonce.launch.epoch /\ NonceIsFresh("launch")
  IN  /\ lcAt = "VerifyGrant" /\ LcQuiet
      /\ \/ ~good /\ StoppedAt("VerifyGrant", "Failed")
         \/ /\ good /\ SpendNonce("launch", "run")
            /\ lcSaw' = [lcSaw EXCEPT !.verified = lcBytes]
            /\ PassSteps({"VerifyGrant"}, "AdmitSigned")
            /\ UNCHANGED <<lcLease, lcBlockers, lcProven, lcSpawned>>

\* The bytes and the lease are read again; the nonce is spent last.
VerifyLaunchGrant ==
  LET good == /\ lcBytes = lcSaw.admitted /\ LeaseBinds
              /\ lcEpoch = lcNonce.launch.epoch /\ NonceIsFresh("launch")
  IN  /\ lcAt = "VerifyGrant" /\ LcQuiet
      /\ \/ ~good /\ StoppedAt("VerifyGrant", "Failed")
         \/ /\ good /\ SpendNonce("launch", "run")
            /\ lcSaw' = [lcSaw EXCEPT !.verified = lcBytes]
            /\ PassSteps({"VerifyGrant"}, "AdmitSigned")
            /\ UNCHANGED <<lcLease, lcBlockers, lcProven, lcSpawned>>

AdmitSignedStep ==
  /\ lcAt = "AdmitSigned" /\ LcQuiet
  /\ lcBlockers' = lcBlockers \ {"signed_authority"}
  /\ PassSteps({"AdmitSigned"}, "EgressPrepare")
  /\ UNCHANGED <<lcLease, lcNonce, lcSaw, lcProven, lcSpawned>>

EgressPrepareStep == PlainStep("EgressPrepare", {}, EgressPrepared, "AdmitEgress")

AdmitEgressStep ==
  /\ lcAt = "AdmitEgress" /\ LcQuiet
  /\ \/ lcWrong \in EgressEvidence /\ StoppedAt("AdmitEgress", "Failed")
     \/ /\ lcWrong \notin EgressEvidence
        /\ lcBlockers' = lcBlockers \ {"egress_isolation"}
        /\ lcProven' = lcProven \cup {"turn"}
        /\ PassSteps({"AdmitEgress"}, "RequireDispatch")
        /\ UNCHANGED <<lcLease, lcNonce, lcSaw, lcSpawned>>

RequireDispatchStep ==
  /\ lcAt = "RequireDispatch" /\ LcQuiet
  /\ \/ lcBlockers # {} /\ StoppedAt("RequireDispatch", "Failed")
     \/ lcBlockers = {} /\ PassSteps({"RequireDispatch"}, "Dispatch") /\ UNCHANGED lcOut

\* build_with_admission asks require_dispatch again and then the turn runs.
StartTurn ==
  /\ lcAt = "Dispatch" /\ LcQuiet
  /\ \/ (lcWrong \in TurnBeforeSpawn \/ lcBlockers # {}) /\ StoppedAt("Dispatch", "Failed")
     \/ /\ lcWrong \notin TurnBeforeSpawn /\ lcBlockers = {}
        /\ lcSpawned' = Append(lcSpawned,
             [what |-> "turn", bytes |-> lcSaw.verified, at |-> lcClock])
        /\ lcAt' = "TurnRunning"
        /\ UNCHANGED <<lcLog, lcLease, lcNonce, lcSaw, lcBlockers, lcProven>>

\* A canary in any captured surface is recorded under CanaryScan and leaves
\* Dispatch as it was; otherwise the two steps pass together.
FinishTurn ==
  /\ lcAt = "TurnRunning" /\ LcQuiet /\ UNCHANGED lcOut
  /\ \/ lcWrong \in TurnFailures /\ StopAt("Dispatch", "Failed")
     \/ lcWrong \in TurnCanary /\ StopAt("CanaryScan", "Failed")
     \/ lcWrong \notin TurnFailures \cup TurnCanary /\ PassSteps({"Dispatch", "CanaryScan"}, "PongMatch")

PongMatchStep ==
  /\ lcAt = "PongMatch" /\ LcQuiet /\ UNCHANGED lcOut
  /\ \/ lcWrong \in TurnAnswer /\ StopAt("PongMatch", "Failed")
     \/ lcWrong \notin TurnAnswer /\ PassSteps({"PongMatch"}, "seal")

\* finalize: the receipt is sealed and synced whatever the outcome; the
\* write itself may fail, and the run then reports an error.
Finalize ==
  /\ lcAt = "seal"
  /\ lcReceipt' \in {"written", "unwritten"}
  /\ lcAt' = "done"
  /\ UNCHANGED <<lcLog, lcEnv, lcOut>>

-----------------------------------------------------------------------------
(* What goes on beside the run.                                            *)

LcTick ==
  /\ lcAt # "done" /\ lcClock < LcHorizon
  /\ lcClock' = lcClock + 1
  /\ UNCHANGED <<lcAt, lcLog, lcWrong, lcBytes, lcEpoch, lcOut, lcReceipt>>

ReplaceExecutable ==
  /\ lcAt # "done" /\ lcBytes < LcSwaps
  /\ lcBytes' = lcBytes + 1
  /\ UNCHANGED <<lcAt, lcLog, lcWrong, lcClock, lcEpoch, lcOut, lcReceipt>>

MoveEpoch ==
  /\ lcAt # "done" /\ lcEpoch = 0
  /\ lcEpoch' = 1
  /\ UNCHANGED <<lcAt, lcLog, lcWrong, lcClock, lcBytes, lcOut, lcReceipt>>

\* Another holder of the token presents it with an exact expectation.
PresentElsewhere(g) ==
  /\ NonceIsFresh(g) /\ SpendNonce(g, "other")
  /\ UNCHANGED <<lcAt, lcLog, lcEnv, lcLease, lcSaw, lcBlockers, lcProven, lcSpawned, lcReceipt>>

LiveInit ==
  /\ lcAt = "Policy"
  /\ lcLog = [s \in StepNames |-> "NotRun"]
  /\ lcWrong \in LiveFacts \cup {"none"}
  /\ lcClock = 0 /\ lcBytes = 0 /\ lcEpoch = 0
  /\ lcLease = <<>>
  /\ lcNonce = [g \in {"probe", "launch"} |->
                  [state |-> "none", by |-> "none", expires |-> 0, epoch |-> 0]]
  /\ lcSaw = [granted |-> 0, observed |-> 0, admitted |-> 0, verified |-> 0]
  /\ lcBlockers = {} /\ lcProven = {} /\ lcSpawned = <<>>
  /\ lcReceipt = "none"

LiveStepNext ==
  \/ PolicyStep \/ EnrollmentStep \/ OperatorKeyStep \/ LeaseStep
  \/ MintProbeGrant \/ VerifyProbeGrant \/ ProbeContainmentStep
  \/ SpawnProbe \/ FinishProbe \/ RuntimeAdmissionStep \/ AdmissionStep
  \/ MintLaunchGrant \/ VerifyLaunchGrant \/ AdmitSignedStep
  \/ EgressPrepareStep \/ AdmitEgressStep \/ RequireDispatchStep
  \/ StartTurn \/ FinishTurn \/ PongMatchStep \/ Finalize

LiveNext ==
  \/ LiveStepNext
  \/ LcTick \/ ReplaceExecutable \/ MoveEpoch
  \/ \E g \in {"probe", "launch"} : PresentElsewhere(g)

-----------------------------------------------------------------------------
(* Properties.                                                             *)

LcProcesses(what) == {i \in DOMAIN lcSpawned : lcSpawned[i].what = what}

\* No process of the provider is started before everything that is meant to
\* be checked has been.  The probe starts on the enrolled bytes, inside a
\* proven boundary, on a grant this run itself spent.  The turn starts after
\* every input of the run was found right, on bytes that were admitted and
\* read again at verification, inside its own proven boundary, with both
\* blockers cleared and the launch grant spent by this run.
StartsAreGuarded ==
  /\ \A i \in LcProcesses("probe") :
       /\ lcSpawned[i].bytes = 0
       /\ "probe" \in lcProven /\ lcNonce.probe.by = "run"
  /\ \A i \in LcProcesses("turn") :
       /\ lcWrong \notin BeforeTurn
       /\ lcSaw.verified = lcSaw.admitted /\ lcSaw.admitted = lcSaw.observed
       /\ "turn" \in lcProven /\ lcNonce.launch.by = "run" /\ lcBlockers = {}
       /\ LcProcesses("probe") # {}
  /\ Cardinality(LcProcesses("probe")) <= 1 /\ Cardinality(LcProcesses("turn")) <= 1

\* The log tells how far the run came: the steps that passed are the first
\* ones, at most one other is marked, a PONG has all of them, and a step
\* that stops the run before the lease leaves neither lease nor grant.
LogIsFaithful ==
  LET status(i) == lcLog[LiveSteps[i]]
      marked == {i \in DOMAIN LiveSteps : status(i) \in {"Refused", "Failed"}}
  IN  /\ \A i \in DOMAIN LiveSteps \ {1} : status(i) = "Pass" => status(i - 1) = "Pass"
      /\ Cardinality(marked) <= 1
      /\ \A i \in marked : LiveSteps[i] \in {"Policy", "Enrollment", "OperatorKey", "Lease"}
                            => lcLease = <<>>
      /\ lcLog["Mint"] = "NotRun" => lcNonce.launch.state = "none"
      /\ lcAt \in {"seal", "done"} => (marked = {} <=> lcLog["PongMatch"] = "Pass")

LiveRunIsGuarded == StartsAreGuarded /\ LogIsFaithful
=============================================================================
