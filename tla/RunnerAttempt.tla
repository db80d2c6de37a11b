--------------------------- MODULE RunnerAttempt ---------------------------
(***************************************************************************)
(* One run of an Attempt by the runner (crates/runner/src/attempt.rs and   *)
(* attempt/): acquire, clone, the bounded propose/apply/gate loop, the     *)
(* Candidate, its preservation, and the release of the lease.              *)
(*                                                                         *)
(* Between any two steps the heartbeat supervisor may freeze the runner,   *)
(* the lease may be reclaimed, and the process may be killed.  Every call  *)
(* to the Kernel or to the workspace daemon may fail before or after it    *)
(* took effect.  The daemon mutates a workspace only with a permit of the  *)
(* Kernel, which is minted and used under the live lease (the module       *)
(* MutationAuthority); SelfKill models the supervisor itself.              *)
(***************************************************************************)
EXTENDS Naturals, FiniteSets

CONSTANTS
  MaxRepairRounds,  \* AttemptConfig::max_repair_rounds
  Gates             \* how many gates policy admitted, in their order 1..Gates

ASSUME AttemptConstants == MaxRepairRounds \in Nat /\ Gates \in Nat \ {0}

VARIABLES
  at,          \* where the runner is: the call it makes next, or the check
  beat,        \* the supervisor: off, beating or frozen
  held,        \* the Kernel: none, held, Succeeded, Failed (requeued), reclaimed
  provider,    \* the provider's process: none, running or stopped
  gitd,        \* the daemon's process: none, up or down
  workspace,   \* none, present or deleted
  generation,  \* the daemon's active generation
  adopted,     \* ws.active_generation of the runner, what the capsule names
  dirty,       \* the opened worktree differs from its checkpoint's tree
  passed,      \* gates passed so far in this pass
  rounds,      \* repair rounds spent
  candidate,   \* generation of the prepared Candidate, {} without one
  preserved,   \* generation in the preservation destination, {} without one
  journal,     \* the stages the supervisor's journal must hold
  result,      \* what run_attempt returned
  sent,        \* history: the releases sent
  green,       \* history: <<generation, gate>> passed on the generation's bytes
  froze        \* history: where the runner was when the supervisor froze it

None == "none"

runnerVars == <<at, beat, held, provider, gitd, workspace, generation, adopted, dirty,
                passed, rounds, candidate, preserved, journal, result, sent, green, froze>>

\* What the failure paths leave alone.
workVars == <<workspace, generation, adopted, dirty, passed, rounds, candidate, preserved, green>>

RunnerInit ==
  /\ at = "validate" /\ beat = "off" /\ held = "none" /\ provider = "none" /\ gitd = "none"
  /\ workspace = "none" /\ generation = 0 /\ adopted = 0 /\ dirty = FALSE
  /\ passed = 0 /\ rounds = 0 /\ candidate = {} /\ preserved = {}
  /\ journal = {} /\ result = None /\ sent = {} /\ green = {} /\ froze = None

-----------------------------------------------------------------------------
(* Steps and failures. *)

\* The runner goes on.
Goto(next) == at' = next /\ UNCHANGED <<beat, result>>

\* An error before there is a session: abort the heartbeat, then
\* cleanup_before_session.
Abandon == at' = "requeue" /\ beat' = "off" /\ UNCHANGED result

\* An error after that: abort the heartbeat, then cleanup_failure, which
\* treats the errors of is_frozen apart.
Fail(kind) ==
  /\ at' = IF kind = "frozen" THEN "salvage" ELSE "stop"
  /\ beat' = "off" /\ UNCHANGED result

\* Bug: the error is returned while a copy of the handle keeps beating.
UnresolvedLeaks ==
  /\ at' = "reap" /\ result' = "unresolved" /\ UNCHANGED beat

\* FinalizationUnresolved: nothing is terminated, released or deleted again.
Unresolved ==
  /\ at' = "reap" /\ result' = "unresolved" /\ beat' = "off"

\* The two kinds of error a call reports: STALE_AUTHORITY freezes the runner
\* too, and comes from a lease that is not held.
Errors == IF held = "held" THEN {"failed"} ELSE {"failed", "frozen"}

\* check_freeze at the point p, then on to the call "next".
CheckFreeze(p, next) ==
  /\ at = p
  /\ IF beat = "frozen" THEN Fail("frozen") ELSE Goto(next)
  /\ UNCHANGED <<held, provider, gitd, workVars, journal, sent, froze>>

\* spend_repair_round: another turn, or CAPS_EXHAUSTED.
SpendRepairRound ==
  /\ rounds' = rounds + 1
  /\ IF rounds' > MaxRepairRounds THEN Fail("failed") ELSE Goto("turn")

-----------------------------------------------------------------------------
(* From the request to a session. *)

\* run_attempt up to the request: gates, preservation destination and
\* workspace root are admitted before a lease is asked for.
Validate ==
  /\ at = "validate"
  /\ \/ at' = "acquire" /\ UNCHANGED result
     \/ at' = "done" /\ result' = "failed"
  /\ UNCHANGED <<beat, held, provider, gitd, workVars, journal, sent, froze>>

\* client.acquire: refused, granted, or granted without an answer.
Acquire ==
  /\ at = "acquire"
  /\ \/ held' = "held" /\ at' = "begin" /\ UNCHANGED result
     \/ held' \in {"none", "held"} /\ at' = "done" /\ result' = "failed"
  /\ UNCHANGED <<beat, provider, gitd, workVars, journal, sent, froze>>

\* begin_attempt_heartbeat.
BeginHeartbeat ==
  /\ at = "begin"
  /\ \/ at' = "spawn" /\ beat' = "beating" /\ UNCHANGED result
     \/ Abandon
  /\ UNCHANGED <<held, provider, gitd, workVars, journal, sent, froze>>

\* GitdSession::spawn.
Spawn ==
  /\ at = "spawn"
  /\ \/ gitd' = "up" /\ Goto("clone")
     \/ gitd' = "none" /\ Abandon
  /\ UNCHANGED <<held, provider, workVars, journal, sent, froze>>

\* clone_workspace, validate_initial and the generation guard.
Clone ==
  /\ at = "clone"
  /\ \/ held = "held" /\ workspace' = "present" /\ (Goto("admit") \/ Abandon)
     \/ UNCHANGED workspace /\ Abandon
  /\ UNCHANGED <<held, provider, gitd, generation, adopted, dirty, passed, rounds,
                 candidate, preserved, green, journal, sent, froze>>

\* The first lines of run_cloned_attempt_guarded.  A destination that was
\* taken in the meantime returns at once: the handle is dropped, the lease
\* is left to expire.
Admit ==
  /\ at = "admit"
  /\ \/ at' = "reap" /\ beat' = "off" /\ result' = "failed"
     \/ IF beat = "frozen" THEN Abandon ELSE Goto("start")
  /\ UNCHANGED <<held, provider, gitd, workVars, journal, sent, froze>>

\* adapter.start.
StartSession ==
  /\ at = "start"
  /\ \/ provider' = "running" /\ Goto("running")
     \/ UNCHANGED provider /\ Abandon
  /\ UNCHANGED <<held, gitd, workVars, journal, sent, froze>>

\* client.advance, at the point p; an advance that matched no row is stale.
Advance(p, next) ==
  /\ at = p
  /\ \/ held = "held" /\ Goto(next)
     \/ \E kind \in Errors : Fail(kind)
  /\ UNCHANGED <<held, provider, gitd, workVars, journal, sent, froze>>

-----------------------------------------------------------------------------
(* session_loop. *)

\* adapter.send and latest_proposal, then pre_apply_refusal: a proposal to
\* apply, one that is refused before any apply, or none at all.
Turn ==
  /\ at = "sending"
  /\ \/ Goto("proposed") /\ UNCHANGED rounds
     \/ SpendRepairRound
     \/ Fail("failed") /\ UNCHANGED rounds
  /\ UNCHANGED <<held, provider, gitd, workspace, generation, adopted, dirty, passed,
                 candidate, preserved, green, journal, sent, froze>>

\* apply_proposal: a new generation, PATH_ABSENT with nothing applied, or an
\* error, possibly after the generation was made.
ApplyProposal ==
  /\ at = "apply"
  /\ \/ held = "held" /\ generation' = generation + 1 /\ dirty' = FALSE
        /\ (Goto("adopt") \/ Fail("failed")) /\ UNCHANGED rounds
     \/ held = "held" /\ UNCHANGED <<generation, dirty>> /\ SpendRepairRound
     \/ \E kind \in Errors : Fail(kind) /\ UNCHANGED <<generation, dirty, rounds>>
  /\ UNCHANGED <<held, provider, gitd, workspace, adopted, passed, candidate, preserved,
                 green, journal, sent, froze>>

\* validate_successor, open_generation, verify_git_tree, commit_successor.
AdoptGeneration ==
  /\ at = "adopt"
  /\ \/ adopted' = generation /\ passed' = 0 /\ Goto("gates")
     \/ UNCHANGED <<adopted, passed>> /\ Fail("failed")
  /\ UNCHANGED <<held, provider, gitd, workspace, generation, dirty, rounds, candidate,
                 preserved, green, journal, sent, froze>>

\* The gate passed+1 runs to its end, or to its timeout, and may write to
\* the worktree; it is a fact about the generation only if nothing did.
GateRuns(ok) ==
  /\ dirty' \in {dirty, TRUE}
  /\ passed' = IF ok THEN passed + 1 ELSE passed
  /\ green' = IF ok /\ ~ dirty THEN green \cup {<<adopted, passed + 1>>} ELSE green

\* run_gate_bound_verified for the next gate, and what the loop does with
\* the report: the next gate, the end of the loop, or a repair round.
RunGate ==
  /\ at = "gates"
  /\ \/ GateRuns(TRUE) /\ ~ dirty' /\ UNCHANGED rounds
        /\ IF passed' = Gates THEN Goto("gated") ELSE Goto("gates")
     \/ GateRuns(FALSE) /\ ~ dirty' /\ SpendRepairRound
     \/ \E ok \in BOOLEAN : GateRuns(ok) /\ Fail("failed") /\ UNCHANGED rounds
  /\ UNCHANGED <<held, provider, gitd, workspace, generation, adopted, candidate, preserved,
                 journal, sent, froze>>

-----------------------------------------------------------------------------
(* drive_and_finish after the loop. *)

\* candidate::prepare_request: prepare, readback and verify the Kernel's
\* Candidate-preparation grant for the adopted checkpoint.
PrepareRequest ==
  /\ at = "authority"
  /\ \/ held = "held" /\ Goto("authorized")
     \/ \E kind \in Errors : Fail(kind)
  /\ UNCHANGED <<held, provider, gitd, workVars, journal, sent, froze>>

\* gitd.prepare_candidate, from the daemon's active generation.
PrepareCandidate ==
  /\ at = "candidate"
  /\ \/ held = "held" /\ candidate' = {generation} /\ (Goto("preserve") \/ Fail("failed"))
     \/ UNCHANGED candidate /\ \E kind \in Errors : Fail(kind)
  /\ UNCHANGED <<held, provider, gitd, workspace, generation, adopted, dirty, passed, rounds,
                 preserved, green, journal, sent, froze>>

\* gitd.preserve into the destination, and CandidatePreservation::bind.
Preserve ==
  /\ at = "preserve"
  /\ \/ held = "held" /\ preserved' = {generation} /\ (Goto("terminate") \/ Fail("failed"))
     \/ UNCHANGED preserved /\ \E kind \in Errors : Fail(kind)
  /\ UNCHANGED <<held, provider, gitd, workspace, generation, adopted, dirty, passed, rounds,
                 candidate, green, journal, sent, froze>>

-----------------------------------------------------------------------------
(* finalize::finish. *)

\* adapter.terminate must be acknowledged.
Terminate ==
  /\ at = "terminate"
  /\ \/ provider' = "stopped" /\ Goto("record")
     \/ provider' \in {provider, "stopped"} /\ Unresolved
  /\ UNCHANGED <<held, gitd, workVars, journal, sent, froze>>

\* The two records a release needs, in their order.
RecordPreserved ==
  /\ at = "record"
  /\ \/ journal' = journal \cup {"candidate_preserved", "terminated"} /\ Goto("check")
     \/ journal' \in {journal, journal \cup {"candidate_preserved"}} /\ Unresolved
  /\ UNCHANGED <<held, provider, gitd, workVars, sent, froze>>

\* Bug: the freeze is not looked at again before the release.
CheckReleaseSkipped ==
  /\ at = "check"
  /\ Goto("release")
  /\ UNCHANGED <<held, provider, gitd, workVars, journal, sent, froze>>

CheckRelease ==
  /\ at = "check"
  /\ IF beat = "frozen" THEN Unresolved ELSE Goto("release")
  /\ UNCHANGED <<held, provider, gitd, workVars, journal, sent, froze>>

\* The only terminal release of a preserved Attempt.
ReleaseSucceeded ==
  /\ at = "release"
  /\ sent' = sent \cup {"Succeeded"}
  /\ \/ held = "held" /\ held' = "Succeeded" /\ (Goto("released") \/ Unresolved)
     \/ UNCHANGED held /\ Unresolved
  /\ UNCHANGED <<provider, gitd, workVars, journal, froze>>

RecordReleased ==
  /\ at = "released"
  /\ \/ journal' = journal \cup {"released"} /\ Goto("cleanup")
     \/ UNCHANGED journal /\ Unresolved
  /\ UNCHANGED <<held, provider, gitd, workVars, sent, froze>>

\* gitd.cleanup on the sealed receipt, which needs no lease, and the record.
Cleanup ==
  /\ at = "cleanup"
  /\ \/ /\ workspace' = "deleted" /\ journal' = journal \cup {"workspace_cleaned"}
        /\ at' = "reap" /\ beat' = "off" /\ result' = "ok"
     \/ workspace' \in {workspace, "deleted"} /\ UNCHANGED journal /\ Unresolved
  /\ UNCHANGED <<held, provider, gitd, generation, adopted, dirty, passed, rounds, candidate,
                 preserved, green, sent, froze>>

-----------------------------------------------------------------------------
(* cleanup_failure and cleanup_before_session. *)

\* salvage_workspace of a frozen Attempt: the copy goes to a directory of
\* its own, or not if the lease is gone; no release follows.
Salvage ==
  /\ at = "salvage"
  /\ provider' \in {provider, "stopped"}
  /\ at' = "reap" /\ result' = "failed"
  /\ journal' \in {journal \cup {"salvage_failed"}} \cup
       IF held = "held" THEN {journal \cup {"salvage_preserved"}} ELSE {}
  /\ UNCHANGED <<beat, held, gitd, workVars, sent, froze>>

\* adapter.terminate; its failure is only recorded.
Stop ==
  /\ at = "stop"
  /\ provider' \in {provider, "stopped"}
  /\ Goto("requeue")
  /\ UNCHANGED <<held, gitd, workVars, journal, sent, froze>>

\* client.release as Failed with requeue; its failure is only recorded.
Requeue ==
  /\ at = "requeue"
  /\ sent' = sent \cup {"Failed"}
  /\ held' \in {held} \cup IF held = "held" THEN {"Failed"} ELSE {}
  /\ at' = "reap" /\ result' = "failed"
  /\ UNCHANGED <<beat, provider, gitd, workVars, journal, froze>>

\* GitdSession::finish: kill and reap the daemon; a refusal is an error too.
Reap ==
  /\ at = "reap"
  /\ at' = "done"
  /\ \/ /\ gitd' = IF gitd = "up" THEN "down" ELSE gitd
        /\ UNCHANGED result
     \/ /\ gitd = "up" /\ UNCHANGED gitd
        /\ result' = IF result = "ok" THEN "failed" ELSE result
  /\ UNCHANGED <<beat, held, provider, workVars, journal, sent, froze>>

-----------------------------------------------------------------------------
(* The others. *)

\* The supervisor freezes the runner: the deadline passed, or a heartbeat
\* matched no row.
Freeze ==
  /\ beat = "beating"
  /\ beat' = "frozen" /\ froze' = at
  /\ UNCHANGED <<at, held, provider, gitd, workVars, journal, result, sent>>

\* A sweep or a rival acquisition takes the expired lease.
ReclaimLease ==
  /\ held = "held"
  /\ held' = "reclaimed"
  /\ UNCHANGED <<at, beat, provider, gitd, workVars, journal, result, sent, froze>>

\* The runner's process is killed; its children may live on.
Killed ==
  /\ at \notin {"done", "killed"}
  /\ at' = "killed" /\ beat' = "off"
  /\ UNCHANGED <<held, provider, gitd, workVars, journal, result, sent, froze>>

RunnerStep ==
  \/ Validate \/ Acquire \/ BeginHeartbeat \/ Spawn \/ Clone \/ Admit \/ StartSession
  \/ Advance("running", "turn")
  \/ CheckFreeze("turn", "sending") \/ Turn \/ CheckFreeze("proposed", "apply")
  \/ ApplyProposal \/ AdoptGeneration \/ RunGate
  \/ CheckFreeze("gated", "preparing") \/ Advance("preparing", "authority")
  \/ PrepareRequest \/ CheckFreeze("authorized", "candidate")
  \/ PrepareCandidate \/ Preserve
  \/ Terminate \/ RecordPreserved \/ CheckRelease \/ ReleaseSucceeded \/ RecordReleased
  \/ Cleanup \/ Salvage \/ Stop \/ Requeue \/ Reap

RunnerNext == RunnerStep \/ Freeze \/ ReclaimLease \/ Killed

\* Every await of the runner is bounded by a timeout, and a lease nobody
\* renews expires and is swept.
RunnerFairness ==
  /\ WF_runnerVars(RunnerStep)
  /\ WF_runnerVars(beat # "beating" /\ ReclaimLease)

RunnerSpec == RunnerInit /\ [][RunnerNext]_runnerVars /\ RunnerFairness

-----------------------------------------------------------------------------
(* Properties. *)

RunnerTypeOK ==
  /\ beat \in {"off", "beating", "frozen"}
  /\ held \in {"none", "held", "Succeeded", "Failed", "reclaimed"}
  /\ provider \in {"none", "running", "stopped"}
  /\ gitd \in {"none", "up", "down"}
  /\ workspace \in {"none", "present", "deleted"}
  /\ generation \in 0..MaxRepairRounds + 1 /\ adopted \in 0..generation
  /\ rounds \in 0..MaxRepairRounds + 1 /\ passed \in 0..Gates
  /\ candidate \cup preserved \subseteq 0..MaxRepairRounds + 1
  /\ green \subseteq (1..MaxRepairRounds + 1) \X (1..Gates)
  /\ sent \subseteq {"Succeeded", "Failed"}
  /\ dirty \in BOOLEAN
  /\ result \in {None, "ok", "failed", "unresolved"}

\* Whatever proposals were refused, lost or repaired on the way, a Candidate
\* is made from a generation on which every admitted gate passed, on exactly
\* the bytes of the generation, and it is the one that is preserved.
CandidateIsGated ==
  /\ \A c \in candidate :
       /\ \A g \in 1..Gates : <<c, g>> \in green
       /\ c = generation
  /\ preserved \subseteq candidate

\* finish: "No failure here may requeue a second release."  A package is
\* recorded as succeeded only once its Candidate is preserved, the provider
\* is known to be stopped and both facts are journalled, by a runner that
\* was not frozen when it last looked; it is never also requeued; and the
\* workspace is deleted, and success reported, only after that.
SucceededIsPreserved ==
  /\ held = "Succeeded" =>
       /\ preserved # {} /\ preserved = candidate /\ provider = "stopped"
       /\ {"candidate_preserved", "terminated"} \subseteq journal
       /\ froze \in {None, "release", "released", "cleanup"}
  /\ \A x, y \in sent : x = y
  /\ workspace = "deleted" => held = "Succeeded"
  /\ result = "ok" => workspace = "deleted" /\ "workspace_cleaned" \in journal

\* A success of run_attempt is earned: gated bytes, preserved, reported once.
SuccessIsEarned == CandidateIsGated /\ SucceededIsPreserved

\* However a run ends (an answer is lost, finalization is unresolved, the
\* process is killed), its lease does not stay held.
LeaseComesFree == held = "held" ~> held # "held"
=============================================================================
